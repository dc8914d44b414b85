----------------------------- MODULE BsfClient -----------------------------
(***************************************************************************)
(* The BSF service consumer (lib/bsf-service-consumer): retrieval of the   *)
(* PCF binding of a UE's PDU session, with a cache of bindings.            *)
(*                                                                         *)
(* A retrieval that misses the cache makes a client session, which is      *)
(* queued as a local event, discovers a BSF through the NRF unless one is  *)
(* known, sends it the request, and ends with the answer or with the       *)
(* response timer of its transaction. Every handler runs to completion on  *)
(* the application's event loop, so one action is one handler; actions     *)
(* interleave as events arrive.                                            *)
(*                                                                         *)
(* A session's identity is the retrieval that made it: session memory is   *)
(* reused, but a session is freed together with its transaction, so no     *)
(* event of an old session finds a new one. Time counts microseconds,      *)
(* scaled so that Second of them make a second.                            *)
(***************************************************************************)
EXTENDS Integers, FiniteSets

CONSTANTS
    Retrieval,     \* the calls of bsf_retrieve_pcf_binding_for_pdu_session
    UE,            \* UE addresses
    Binding,       \* PCF bindings
    NoBinding,     \* a NULL binding
    Second,        \* clock ticks in a second
    MaxTime,       \* bound on the clock
    Headers        \* the caching headers a BSF response may carry

(* Absence of the Cache-Control header in a response. *)
Absent == -1

ASSUME BindingAssumption == NoBinding \notin Binding
ASSUME UEAssumption == UE # {}
ASSUME SecondAssumption == Second \in Nat \ {0}
ASSUME MaxTimeAssumption == MaxTime \in Nat
ASSUME HeadersAssumption ==
    Headers # {} /\ Headers \subseteq [maxAge: Int, age: Nat, dated: BOOLEAN]

(* The headers of a response whose headers do not matter. *)
AnyHeader == CHOOSE h \in Headers : TRUE

VARIABLES
    self,       \* the context: "up", "final" (bsf_terminate) or "aborted"
    now,        \* the clock
    about,      \* about[r]: the UE of retrieval r
    sess,       \* sess[r]: its client session
    localq,     \* the sessions with a discover-and-send event queued
    xact,       \* xact[r]: its SBI transaction
    wire,       \* requests on their way to the NRF or the BSF
    events,     \* responses queued for bsf_process_event
    cache,      \* entries of pcf_bindings_cache
    calls,      \* calls[r]: how often r's callback has run
    answer,     \* answer[r]: what it was last given
    servedBy,   \* history: the cache entry that answered r, if one did
    servedAt,   \* history: when r's callback ran
    bsf,        \* external: the binding the BSF holds for each UE
    registered  \* history: the <<ue, binding>> pairs the BSF has held

sessVars == <<about, sess, localq, xact, wire>>
answerVars == <<calls, answer, servedBy, servedAt>>
bsfVars == <<bsf, registered>>
vars == <<self, now, sessVars, events, cache, answerVars, bsfVars>>

Service == {"nnrf-disc", "nbsf-management"}
SessState == {"none", "active", "freed", "unlisted"}
XactState == {"none", "disc", "req", "removed", "failed"}
LiveXact(r) == xact[r] \in {"disc", "req"}

(* ue, binding and expires are the code's; header, sent and stored record   *)
(* where the entry came from.                                               *)
Entry == [ue: UE, binding: Binding, expires: Int,
          header: Headers, sent: Nat, stored: Nat]
NoEntry == [ue |-> "none"]

DiscOutcome == {"found", "none", "unparsable", "error", "badheader"}
BsfOutcome == {"ok", "unparsable", "error", "badheader"}

Response ==
    [r: Retrieval, service: Service, outcome: DiscOutcome \cup BsfOutcome,
     binding: Binding \cup {NoBinding}, header: Headers, sent: Nat]

-----------------------------------------------------------------------------
(* The cache *)

(* _response_to_expiry_time: max_age, a number of seconds, is added to a    *)
(* base in microseconds as it is. The base is the local clock, or the       *)
(* server's Date truncated to the second.                                   *)
ExpiryTime(h, sent, t) ==
    LET max_age   == IF h.maxAge = Absent THEN 5 ELSE h.maxAge
        remaining == max_age - h.age
        base      == IF h.dated THEN (sent \div Second) * Second ELSE t
    IN  base + (IF remaining < 0 THEN 0 ELSE remaining)

(* A lookup that takes the entry of any UE. *)
LookupMutant(ue) == cache \cup {NoEntry}

(* The hash table keeps the pointer to the key it was given, the ue_address *)
(* of the session that stored the entry, and that session is freed before   *)
(* the handler returns. Whether a later lookup still recognises the entry   *)
(* depends on what the freed memory holds, so a lookup finds any one of the *)
(* UE's entries, or none. NoEntry stands for none.                          *)
Lookup(ue) == {e \in cache : e.ue = ue} \cup {NoEntry}

(* A lookup that never expires an entry. *)
ExpiredMutant(e) == FALSE

(* _pcf_bindings_cache_find, value->expires < now *)
Expired(e) == e.expires < now

(* _pcf_bindings_cache_add, overwriting the entry old when the lookup finds *)
(* one.                                                                     *)
CacheAdd(old, new) == (cache \ {old}) \cup {new}

-----------------------------------------------------------------------------

Init ==
    /\ self = "up"
    /\ now = 0
    /\ about = [r \in Retrieval |-> CHOOSE ue \in UE : TRUE]
    /\ sess = [r \in Retrieval |-> "none"]
    /\ localq = {}
    /\ xact = [r \in Retrieval |-> "none"]
    /\ wire = {}
    /\ events = {}
    /\ cache = {}
    /\ calls = [r \in Retrieval |-> 0]
    /\ answer = [r \in Retrieval |-> NoBinding]
    /\ servedBy = [r \in Retrieval |-> NoEntry]
    /\ servedAt = [r \in Retrieval |-> 0]
    /\ bsf \in [UE -> Binding \cup {NoBinding}]
    /\ registered = {<<ue, bsf[ue]>> : ue \in {u \in UE : bsf[u] # NoBinding}}

Asked(r) == sess[r] # "none" \/ calls[r] > 0

(* _bsf_client_sess_retrieve_callback_call, or the call from the cache *)
CallBack(r, b, e) ==
    /\ calls' = [calls EXCEPT ![r] = @ + 1]
    /\ answer' = [answer EXCEPT ![r] = b]
    /\ servedBy' = [servedBy EXCEPT ![r] = e]
    /\ servedAt' = [servedAt EXCEPT ![r] = now]

(* An end of session that forgets to remove the transaction. *)
EndSessionMutant(r) ==
    /\ xact' = xact
    /\ sess' = [sess EXCEPT ![r] = "freed"]

(* ogs_sbi_xact_remove and _bsf_client_sess_free, which end every session. *)
EndSession(r) ==
    /\ xact' = [xact EXCEPT ![r] = "removed"]
    /\ sess' = [sess EXCEPT ![r] = "freed"]

-----------------------------------------------------------------------------
(* Calls of the application *)

(* _bsf_retrieve_pcf_binding_for_pdu_session, answered from the cache *)
RetrieveCached(r, ue) ==
    /\ self = "up"
    /\ ~Asked(r)
    /\ \E e \in Lookup(ue) \ {NoEntry} :
          /\ ~Expired(e)
          /\ about' = [about EXCEPT ![r] = ue]
          /\ CallBack(r, e.binding, e)
    /\ UNCHANGED <<self, now, sess, localq, xact, wire, events, cache, bsfVars>>

(* The same, not found or expired: an expired entry is dropped, a session   *)
(* is made and its event queued. Without a context the session is in no     *)
(* list. Pushing the event may fail; the caller is told true all the same.  *)
RetrieveNew(r, ue) ==
    /\ self # "aborted"
    /\ ~Asked(r)
    /\ \E e \in Lookup(ue) :
          /\ e # NoEntry => Expired(e)
          /\ cache' = cache \ {e}
    /\ about' = [about EXCEPT ![r] = ue]
    /\ sess' = [sess EXCEPT ![r] = IF self = "up" THEN "active" ELSE "unlisted"]
    /\ \/ localq' = localq \cup {r} /\ xact' = xact
       \/ localq' = localq /\ xact' = [xact EXCEPT ![r] = "failed"]
    /\ UNCHANGED <<self, now, wire, events, answerVars, bsfVars>>

(* bsf_terminate: the cache is cleared and every active session freed, and  *)
(* no callback runs.                                                        *)
Terminate ==
    /\ self = "up"
    /\ self' = "final"
    /\ cache' = {}
    /\ sess' = [r \in Retrieval |-> IF sess[r] = "active" THEN "freed" ELSE sess[r]]
    /\ UNCHANGED <<now, about, localq, xact, wire, events, answerVars, bsfVars>>

-----------------------------------------------------------------------------
(* Events handled by bsf_process_event; without a context all are refused. *)

(* _bsf_client_local_process_event: ogs_sbi_discover_and_send sends to the  *)
(* NRF, or to a BSF that is already known, or fails. A failure removes the  *)
(* transaction and leaves the session.                                      *)
LocalDiscoverAndSend(r) ==
    /\ self = "up"
    /\ r \in localq
    /\ localq' = localq \ {r}
    /\ sess[r] = "active"
    /\ \/ /\ xact' = [xact EXCEPT ![r] = "disc"]
          /\ wire' = wire \cup {<<r, "nnrf-disc">>}
       \/ /\ xact' = [xact EXCEPT ![r] = "req"]
          /\ wire' = wire \cup {<<r, "nbsf-management">>}
       \/ /\ xact' = [xact EXCEPT ![r] = "failed"]
          /\ wire' = wire
    /\ UNCHANGED <<self, now, about, sess, events, cache, answerVars, bsfVars>>

(* A response finds its transaction and an active session. *)
Ours(m) ==
    /\ self = "up"
    /\ m \in events
    /\ LiveXact(m.r)
    /\ sess[m.r] = "active"

(* A response whose transaction is gone is not ours; neither is one whose   *)
(* header or body does not parse, nor an NRF error: nothing changes and the *)
(* transaction is left to its timer.                                        *)
IgnoreResponse(m) ==
    /\ self = "up"
    /\ m \in events
    /\ \/ ~Ours(m)
       \/ m.outcome \in {"unparsable", "badheader"}
       \/ m.service = "nnrf-disc" /\ m.outcome = "error"
    /\ events' = events \ {m}
    /\ UNCHANGED <<self, now, sessVars, cache, answerVars, bsfVars>>

(* NF instances found: the request goes to the BSF. *)
DiscoveryFound(m) ==
    /\ Ours(m)
    /\ m.service = "nnrf-disc" /\ m.outcome = "found"
    /\ events' = events \ {m}
    /\ xact' = [xact EXCEPT ![m.r] = "req"]
    /\ wire' = wire \cup {<<m.r, "nbsf-management">>}
    /\ UNCHANGED <<self, now, about, sess, localq, cache, answerVars, bsfVars>>

(* A search result without a BSF: the null instance is passed on to         *)
(* ogs_sbi_send_request_to_nf_instance, which asserts that it is not null.  *)
DiscoveryNone(m) ==
    /\ Ours(m)
    /\ m.service = "nnrf-disc" /\ m.outcome = "none"
    /\ self' = "aborted"
    /\ events' = events \ {m}
    /\ UNCHANGED <<now, sessVars, cache, answerVars, bsfVars>>

(* 200 from the BSF: cached, handed over, transaction and session ended. *)
BindingOk(m) ==
    /\ Ours(m)
    /\ m.service = "nbsf-management" /\ m.outcome = "ok"
    /\ events' = events \ {m}
    /\ \E old \in Lookup(about[m.r]) :
          cache' = CacheAdd(old, [ue      |-> about[m.r],
                                  binding |-> m.binding,
                                  expires |-> ExpiryTime(m.header, m.sent, now),
                                  header  |-> m.header,
                                  sent    |-> m.sent,
                                  stored  |-> now])
    /\ CallBack(m.r, m.binding, NoEntry)
    /\ EndSession(m.r)
    /\ UNCHANGED <<self, now, about, localq, wire, bsfVars>>

(* An error that is reported, but leaves transaction and session running. *)
BindingErrorMutant(m) ==
    /\ Ours(m)
    /\ m.service = "nbsf-management" /\ m.outcome = "error"
    /\ events' = events \ {m}
    /\ CallBack(m.r, NoBinding, NoEntry)
    /\ UNCHANGED <<self, now, sessVars, cache, bsfVars>>

(* Any other status from the BSF. *)
BindingError(m) ==
    /\ Ours(m)
    /\ m.service = "nbsf-management" /\ m.outcome = "error"
    /\ events' = events \ {m}
    /\ CallBack(m.r, NoBinding, NoEntry)
    /\ EndSession(m.r)
    /\ UNCHANGED <<self, now, about, localq, wire, cache, bsfVars>>

(* A timeout that ends the session without telling the application. *)
ResponseTimeoutMutant(r) ==
    /\ self = "up"
    /\ LiveXact(r)
    /\ sess[r] = "active"
    /\ EndSession(r)
    /\ UNCHANGED <<self, now, about, localq, wire, events, cache, answerVars, bsfVars>>

(* OGS_TIMER_SBI_CLIENT_WAIT of a transaction that still exists. *)
ResponseTimeout(r) ==
    /\ self = "up"
    /\ LiveXact(r)
    /\ sess[r] = "active"
    /\ CallBack(r, NoBinding, NoEntry)
    /\ EndSession(r)
    /\ UNCHANGED <<self, now, about, localq, wire, events, cache, bsfVars>>

-----------------------------------------------------------------------------
(* The NRF, the BSF and the clock *)

(* The NRF answers a discovery request; a request never answered is lost. *)
NrfRespond(r) ==
    /\ <<r, "nnrf-disc">> \in wire
    /\ wire' = wire \ {<<r, "nnrf-disc">>}
    /\ \E out \in DiscOutcome :
          events' = events \cup
              {[r |-> r, service |-> "nnrf-disc", outcome |-> out,
                binding |-> NoBinding, header |-> AnyHeader, sent |-> 0]}
    /\ UNCHANGED <<self, now, about, sess, localq, xact, cache, answerVars, bsfVars>>

(* The BSF answers with the binding it holds, or with an error. *)
BsfRespond(r) ==
    /\ <<r, "nbsf-management">> \in wire
    /\ wire' = wire \ {<<r, "nbsf-management">>}
    /\ \E out \in BsfOutcome, h \in Headers :
          /\ IF out = "ok" THEN bsf[about[r]] # NoBinding ELSE h = AnyHeader
          /\ events' = events \cup
                 {[r |-> r, service |-> "nbsf-management", outcome |-> out,
                   binding |-> IF out = "ok" THEN bsf[about[r]] ELSE NoBinding,
                   header |-> h, sent |-> IF out = "ok" THEN now ELSE 0]}
    /\ UNCHANGED <<self, now, about, sess, localq, xact, cache, answerVars, bsfVars>>

(* The PCF serving a UE changes. *)
BsfRegister(ue, b) ==
    /\ bsf' = [bsf EXCEPT ![ue] = b]
    /\ registered' = registered \cup {<<ue, b>>}
    /\ UNCHANGED <<self, now, sessVars, events, cache, answerVars>>

Tick ==
    /\ now < MaxTime
    /\ now' = now + 1
    /\ UNCHANGED <<self, sessVars, events, cache, answerVars, bsfVars>>

-----------------------------------------------------------------------------

Application ==
    \/ \E r \in Retrieval, ue \in UE : RetrieveCached(r, ue) \/ RetrieveNew(r, ue)
    \/ Terminate

HandleEvent ==
    \/ \E r \in Retrieval : LocalDiscoverAndSend(r) \/ ResponseTimeout(r)
    \/ \E m \in events :
          \/ IgnoreResponse(m)
          \/ DiscoveryFound(m)
          \/ DiscoveryNone(m)
          \/ BindingOk(m)
          \/ BindingError(m)

Environment ==
    \/ \E r \in Retrieval : NrfRespond(r) \/ BsfRespond(r)
    \/ \E ue \in UE, b \in Binding : BsfRegister(ue, b)
    \/ Tick

Next == Application \/ HandleEvent \/ Environment

Spec == Init /\ [][Next]_vars

(* The event loop takes every queued local event, and the response timer    *)
(* that ogs_sbi_xact_add starts fires unless the transaction is removed     *)
(* first. Nothing obliges the NRF or the BSF to answer.                     *)
Fairness ==
    \A r \in Retrieval : WF_vars(LocalDiscoverAndSend(r)) /\ WF_vars(ResponseTimeout(r))

FairSpec == Spec /\ Fairness

-----------------------------------------------------------------------------

(* Every variable has its type. *)
TypeOK ==
    /\ self \in {"up", "final", "aborted"}
    /\ now \in 0..MaxTime
    /\ about \in [Retrieval -> UE]
    /\ sess \in [Retrieval -> SessState]
    /\ localq \in SUBSET Retrieval
    /\ xact \in [Retrieval -> XactState]
    /\ wire \in SUBSET (Retrieval \X Service)
    /\ events \in SUBSET Response
    /\ cache \in SUBSET Entry
    /\ calls \in [Retrieval -> Nat]
    /\ answer \in [Retrieval -> Binding \cup {NoBinding}]
    /\ servedBy \in [Retrieval -> Entry \cup {NoEntry}]
    /\ servedAt \in [Retrieval -> Nat]
    /\ bsf \in [UE -> Binding \cup {NoBinding}]
    /\ registered \in SUBSET (UE \X Binding)

(* The callback of a retrieval runs at most once, although a response and   *)
(* the response timer race and a response may come after the timer.         *)
AtMostOneCallback == \A r \in Retrieval : calls[r] <= 1

(* While the context exists, a transaction that events can still find       *)
(* belongs to an active session whose callback has not run: the session     *)
(* that _bsf_process_event reaches through xact->sbi_object is not freed.   *)
XactHasSession ==
    self = "up" =>
        \A r \in Retrieval : LiveXact(r) => sess[r] = "active" /\ calls[r] = 0

(* A binding answered from the cache is no staler than the response that    *)
(* brought it allowed: when the BSF dated the response, the callback runs   *)
(* within max-age of that date.                                             *)
CachedAnswerFresh ==
    \A r \in Retrieval :
        LET e == servedBy[r] IN
        e # NoEntry /\ e.header.dated /\ e.header.maxAge # Absent =>
            servedAt[r] <= e.sent + (IF e.header.maxAge < 0 THEN 0 ELSE e.header.maxAge)

(* A retrieval that made a session ends with its callback, unless sending   *)
(* failed, in which case the code drops it, or the program ends.            *)
RetrievalEnds ==
    \A r \in Retrieval :
        sess[r] = "active" ~> calls[r] > 0 \/ xact[r] = "failed" \/ self # "up"

(* The abstract lookup that the client carries out. *)
Lookups == INSTANCE BsfLookup WITH
    asked <- {r \in Retrieval : Asked(r)},
    done <- {r \in Retrieval : calls[r] > 0}

(* The client implements the lookup of module BsfLookup: at most one answer *)
(* per retrieval, and only bindings the BSF has held for that UE, whether   *)
(* they come from a response or from the cache.                             *)
LookupSpec == Lookups!Spec

(* utils.c: "default 5 seconds from now", for a response without headers.   *)
DefaultLifetime ==
    \A e \in cache :
        e.header.maxAge = Absent /\ e.header.age = 0 /\ ~e.header.dated =>
            e.expires = e.stored + 5 * Second

=============================================================================
