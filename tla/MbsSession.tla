----------------------------- MODULE MbsSession -----------------------------
(***************************************************************************)
(* The MBS Sessions of the MB-SMF service consumer                         *)
(* (lib/mb-smf-service-consumer): the application edits local session      *)
(* objects and pushes them, the library turns a push into requests to the  *)
(* MB-SMF, and responses, timers and discovery answers come back to        *)
(* mb_smf_sc_process_event. Everything runs in one event loop, so that     *)
(* every call of the application and every event is one step.              *)
(*                                                                         *)
(* A transaction carries the sbi_object it was sent with, and a response   *)
(* is given to the first session of the context that has that object. A    *)
(* session makes its own object when it is first sent, or shares the one   *)
(* of the TMGI the application gives it. The object, with the transactions *)
(* on it, lasts as long as a session or a TMGI refers to it.               *)
(*                                                                         *)
(* A request is built when it is sent, so it carries the session as it was *)
(* then. The fields of a session are abstracted to five: the SSM and the   *)
(* TMGI that identify it, the TMGI request flag, one field that PATCH can  *)
(* change (attr) and the termination time (term). A transaction is         *)
(* identified by its owner, the number of the push that sent it and what   *)
(* it asks; a resource at the MB-SMF is named after the create that made   *)
(* it. Status subscriptions are left out: their requests use the same      *)
(* objects but change no field of the session that is modelled here.       *)
(***************************************************************************)
EXTENDS Naturals, FiniteSets

CONSTANTS
    Session,      \* session objects; also stands for the sbi_object each makes
    Tmgi,         \* the application's allocated TMGIs, with the sbi_object of each
    Ssm,          \* SSM addresses
    Attr,         \* values of the field that can be patched
    None,         \* a null pointer
    Terms,        \* whether the application sets a termination time
    Rules,        \* what the application refrains from, see MayPush, MayIdentify
    Outcomes,     \* how the MB-SMF answers
    NrfOutcomes,  \* how the NRF answers
    MaxPush       \* bound on the pushes that send requests

Outcome == {"ok", "error", "badheader", "noLocation", "badBody"}

ASSUME ObjectAssumption == Session \cap Tmgi = {}
ASSUME AttrAssumption == Attr # {}
ASSUME AppAssumption ==
    /\ Terms \subseteq BOOLEAN
    /\ Rules \subseteq {"wait", "created", "keep"}
    /\ MaxPush \in Nat
ASSUME PeerAssumption ==
    /\ Outcomes \subseteq Outcome
    /\ NrfOutcomes \subseteq {"ok", "error", "badheader"}

VARIABLES
    sessions,    \* the members of the context's list of sessions
    made,        \* number of sessions added to that list so far
    ses,         \* ses[s]: the fields of _priv_mbs_session_t
    known,       \* the sbi_objects that have an MB-SMF instance
    leaked,      \* the sbi_objects held by TMGIs no session refers to any more
    xacts,       \* the SBI transactions
    wire,        \* requests on their way to the NRF or the MB-SMF
    responses,   \* responses queued for mb_smf_sc_process_event
    serial,      \* number of the last push that sent a request
    fault,       \* "none", or how the program stopped
    reports,     \* history: result callbacks made to the application
    pushed,      \* history: the sessions that were pushed
    lost,        \* history: the sessions with a request that failed or timed out
    remote       \* external: the sessions the MB-SMF holds

appVars == <<reports, pushed, lost>>
vars == <<sessions, made, ses, known, leaked, xacts, wire, responses, serial, fault,
          appVars, remote>>

Object == Session \cup Tmgi
Granted == "granted"      \* a TMGI the MB-SMF allocated with the session
ResourceId == Session \X Nat

Fields == [ssm: Ssm \cup {None}, tmgi: Tmgi \cup {Granted, None},
           req: BOOLEAN, attr: Attr, term: BOOLEAN]

PrivSession ==
    [live: {"none", "live", "freed"}, deleted: BOOLEAN, id: ResourceId \cup {None},
     cur: Fields, prev: Fields \cup {None}, obj: Object \cup {None},
     at: Nat]     \* place in the context's list

ReqOp == {"create", "update", "remove"}
Xact == [owner: Session, k: Nat, op: ReqOp, obj: Object,
         target: ResourceId \cup {None}, body: Fields, patch: SUBSET Attr]
Peer == {"nrf", "mbsmf"}
Result == {"OGS_OK", "OGS_ERROR", "OGS_ETIMEDOUT", "OGS_DONE"}

Running == fault = "none"
Live(s) == ses[s].live = "live"
Pending(s) == \E x \in xacts : x.owner = s

ASSUME NoneAssumption ==
    None \notin Session \cup Tmgi \cup Ssm \cup {Granted} \cup ResourceId \cup Fields

-----------------------------------------------------------------------------
(* Lookups in the context *)

(* The first of a set of sessions in the order of the list: sessions are    *)
(* added at its end.                                                        *)
First(T) == CHOOSE s \in T : \A t \in T : ses[s].at <= ses[t].at

(* A lookup that takes the first session of the list. *)
SessionOfMutant(o) == IF sessions = {} THEN None ELSE First(sessions)

(* _context_sbi_object_to_session: the first session with the object. *)
SessionOf(o) ==
    LET T == {s \in sessions : ses[s].obj = o}
    IN  IF T = {} THEN None ELSE First(T)

(* The sbi_object has a reference left when the sessions are S and L are    *)
(* held by TMGIs: _ref_count_sbi_object_unref frees it with its last one.   *)
Held(o, S, L) ==
    \/ o \in Tmgi \cup L
    \/ \E s \in Session : S[s].live = "live" /\ S[s].obj = o

(* Transactions that outlive the object they are on. *)
SurvivingMutant(xs, S, L) == xs

(* ogs_sbi_xact_remove_all, for the objects that are freed. *)
Surviving(xs, S, L) == {x \in xs : Held(x.obj, S, L)}

-----------------------------------------------------------------------------
(* What a push sends *)

(* _mbs_session_public_copy, which leaves the destination's termination     *)
(* time as it was: unset in a new copy.                                     *)
PublicCopy(dst, src) == [src EXCEPT !.term = IF dst = None THEN FALSE ELSE dst.term]

(* _mbs_session_public_equal, and the equality of SSMs and of TMGIs it uses. *)
PublicEqual(a, b) == a = b

(* _mbs_session_public_patch_list: the new value of the field if it         *)
(* differs. The SSM, the TMGI, the TMGI request flag and the termination    *)
(* time are not updateable: a change of one of them is ignored.             *)
PatchList(a, b) == {b.attr} \ {a.attr}

(* Remove the session under its old identity, if it had one, then create. *)
Recreate(old) == (IF old # None THEN {"remove"} ELSE {}) \cup {"create"}

(* A push that does not look at the deleted flag. *)
RequestsMutant(q) ==
    CASE q.prev = None -> {"create"}
      [] q.prev # None /\ q.prev # q.cur -> {"update"}
      [] OTHER -> {}

(* A push that recreates the session for any change. *)
RequestsRecreate(q) ==
    CASE q.deleted -> {"remove"}
      [] ~q.deleted /\ q.prev = None -> {"create"}
      [] OTHER -> IF q.prev # q.cur THEN {"remove", "create"} ELSE {}

(* _mbs_session_push_changes: the requests it sends for a session. *)
Requests(q) ==
    CASE q.deleted -> {"remove"}
      [] ~q.deleted /\ q.prev = None -> {"create"}
      [] ~q.deleted /\ q.prev # None ->
            CASE q.prev.ssm # q.cur.ssm -> Recreate(q.prev.ssm)
              [] q.prev.ssm = q.cur.ssm /\ q.prev.tmgi # q.cur.tmgi -> Recreate(q.prev.tmgi)
              [] OTHER -> IF PublicEqual(q.prev, q.cur) THEN {} ELSE {"update"}

(* A create that does not make the object. *)
ObjectForMutant(s, q) == q.obj

(* _mbs_session_send_create makes the object of a session that has none. *)
ObjectFor(s, q) == IF q.obj = None /\ "create" \in Requests(q) THEN s ELSE q.obj

(* _nmbsmf_mbs_session_build_{create,update,remove}: a create is posted to  *)
(* the collection, the others go to the session's id, and an update carries *)
(* the patches from the accepted copy to the session as it is now.          *)
Target(op, q) == IF op = "create" THEN None ELSE q.id
Patch(op, q) == IF op = "update" THEN PatchList(q.prev, q.cur) ELSE {}

(* _mbs_session_send_{create,update,remove}, with the request they build. *)
NewXacts(s, q) ==
    {[owner |-> s, k |-> serial + 1, op |-> op, obj |-> ObjectFor(s, q),
      target |-> Target(op, q), body |-> q.cur, patch |-> Patch(op, q)] : op \in Requests(q)}

(* ogs_sbi_discover_and_send: to the MB-SMF the object already knows, or to *)
(* the NRF first.                                                           *)
Sent(x) == [x |-> x, to |-> IF x.obj \in known THEN "mbsmf" ELSE "nrf"]

(* A remove for a session that has no sbi_object fails the assertion of     *)
(* ogs_sbi_xact_add.                                                        *)
PushFaults(q) == "remove" \in Requests(q) /\ q.obj = None

(* Push the sessions P, when the sessions are S and the transactions xs. *)
DoPush(S, P, xs) ==
    LET new == UNION {NewXacts(s, S[s]) : s \in P}
    IN  IF \E s \in P : PushFaults(S[s])
          THEN /\ fault' = "assert"
               /\ ses' = S
               /\ xacts' = xs
               /\ UNCHANGED <<wire, serial, pushed>>
          ELSE /\ ses' = [s \in Session |->
                            IF s \in P THEN [S[s] EXCEPT !.obj = ObjectFor(s, S[s])] ELSE S[s]]
               /\ xacts' = xs \cup new
               /\ wire' = wire \cup {Sent(x) : x \in new}
               /\ serial' = IF new = {} THEN serial ELSE serial + 1
               /\ pushed' = pushed \cup P
               /\ UNCHANGED fault

-----------------------------------------------------------------------------

Init ==
    /\ sessions = {} /\ made = 0
    /\ ses = [s \in Session |->
                [live |-> "none", deleted |-> FALSE, id |-> None,
                 cur |-> [ssm |-> None, tmgi |-> None, req |-> TRUE,
                          attr |-> CHOOSE a \in Attr : TRUE, term |-> FALSE],
                 prev |-> None, obj |-> None, at |-> 0]]
    /\ known = {}
    /\ leaked = {}
    /\ xacts = {}
    /\ wire = {}
    /\ responses = {}
    /\ serial = 0
    /\ fault = "none"
    /\ reports = {}
    /\ pushed = {}
    /\ lost = {}
    /\ remote = {}

-----------------------------------------------------------------------------
(* Calls of the application *)

(* A new session, with the SSM and the termination time that the            *)
(* application gives it.                                                    *)
Opened(q, m, t) ==
    [q EXCEPT !.live = "live", !.cur = [q.cur EXCEPT !.ssm = m, !.term = t], !.at = made + 1]

(* mb_smf_sc_mbs_session_new and its variants; a new session asks for a     *)
(* TMGI. The application sets the termination time before anything else.    *)
New(s, m, t) ==
    /\ Running
    /\ ses[s].live = "none"
    /\ ses' = [ses EXCEPT ![s] = Opened(ses[s], m, t)]
    /\ sessions' = sessions \cup {s}
    /\ made' = made + 1
    /\ UNCHANGED <<known, leaked, xacts, wire, responses, serial, fault, appVars, remote>>

(* The application writes the public fields of a session. *)
SetAttr(s, a) ==
    /\ Running
    /\ Live(s)
    /\ ses' = [ses EXCEPT ![s].cur.attr = a]
    /\ UNCHANGED <<sessions, made, known, leaked, xacts, wire, responses, serial, fault, appVars, remote>>

(* An application with the rule "keep" does not change what identifies a    *)
(* session once the session was pushed.                                     *)
MayIdentify(s) == Running /\ Live(s) /\ ("keep" \in Rules => s \notin pushed)

SetSsm(s, m) ==
    /\ MayIdentify(s)
    /\ ses' = [ses EXCEPT ![s].cur.ssm = m]
    /\ UNCHANGED <<sessions, made, known, leaked, xacts, wire, responses, serial, fault, appVars, remote>>

(* The TMGI that the MB-SMF granted to the session stays in the context     *)
(* when the session takes another one, and keeps its sbi_object.            *)
LeakOf(q) == IF q.cur.tmgi = Granted THEN {q.obj} ELSE {}

(* The session takes a TMGI and the sbi_object of the TMGI. *)
Identified(q, t) ==
    [q EXCEPT !.cur = [q.cur EXCEPT !.tmgi = t, !.req = FALSE], !.obj = t]

(* mb_smf_sc_mbs_session_set_tmgi: refused for a deleted session. The       *)
(* session takes over the sbi_object of the TMGI, and lets go of its own.   *)
SetTmgi(s, t) ==
    LET q == ses[s]
        S == [ses EXCEPT ![s] = Identified(q, t)]
        L == leaked \cup LeakOf(q)
    IN  /\ MayIdentify(s)
        /\ ~q.deleted
        /\ q.cur.tmgi # t
        /\ ses' = S
        /\ leaked' = L
        /\ xacts' = Surviving(xacts, S, L)
        /\ UNCHANGED <<sessions, made, known, wire, responses, serial, fault, appVars, remote>>

(* The same with a null pointer: the object is kept. *)
UnsetTmgi(s) ==
    /\ MayIdentify(s)
    /\ ~ses[s].deleted
    /\ ses[s].cur.tmgi # None
    /\ ses' = [ses EXCEPT ![s].cur.tmgi = None]
    /\ leaked' = leaked \cup LeakOf(ses[s])
    /\ UNCHANGED <<sessions, made, known, xacts, wire, responses, serial, fault, appVars, remote>>

(* mb_smf_sc_mbs_session_delete only sets the flag. *)
MarkDeleted(s) ==
    /\ Running
    /\ Live(s)
    /\ ses' = [ses EXCEPT ![s].deleted = TRUE]
    /\ UNCHANGED <<sessions, made, known, leaked, xacts, wire, responses, serial, fault, appVars, remote>>

(* With the rule "wait" the application pushes a session only when nothing  *)
(* is outstanding for it, with the rule "created" it pushes the removal of  *)
(* a session only when the MB-SMF has created it.                           *)
MayPush(s) ==
    /\ Live(s)
    /\ "wait" \in Rules => ~Pending(s)
    /\ "created" \in Rules => (ses[s].deleted => ses[s].id # None)

(* mb_smf_sc_mbs_session_push_changes *)
Push(s) ==
    /\ Running
    /\ serial < MaxPush
    /\ MayPush(s)
    /\ DoPush(ses, {s}, xacts)
    /\ UNCHANGED <<sessions, made, known, leaked, responses, reports, lost, remote>>

(* mb_smf_sc_mbs_session_push_all_changes *)
PushAll ==
    /\ Running
    /\ serial < MaxPush
    /\ Cardinality({s \in Session : Live(s)}) > 1
    /\ \A s \in Session : Live(s) => MayPush(s)
    /\ DoPush(ses, {s \in Session : Live(s)}, xacts)
    /\ UNCHANGED <<sessions, made, known, leaked, responses, reports, lost, remote>>

-----------------------------------------------------------------------------
(* Events: mb_smf_sc_process_event *)

(* A response finds its transaction. *)
Found(m) == Running /\ m \in responses /\ m.x \in xacts
Answer(m, from, op) == Found(m) /\ m.from = from /\ m.x.op = op /\ m.outcome # "badheader"

(* One of the session's result callbacks, or none when there is no session. *)
Report(x, to, cb, result) ==
    reports' = reports \cup
        (IF to = None THEN {}
         ELSE {[x |-> x, to |-> to, cb |-> cb, result |-> result]})

(* A handler that reports and forgets to remove the transaction. *)
EndMutant(m) ==
    /\ responses' = responses \ {m}
    /\ xacts' = xacts
    /\ UNCHANGED <<sessions, made, known, leaked, wire, serial, pushed, remote>>

(* The end of a handler that removes the transaction and no more. *)
End(m) ==
    /\ responses' = responses \ {m}
    /\ xacts' = xacts \ {m.x}
    /\ UNCHANGED <<sessions, made, known, leaked, wire, serial, pushed, remote>>

(* The transaction is gone: not one of ours. *)
IgnoreResponse(m) ==
    /\ Running
    /\ m \in responses
    /\ m.x \notin xacts
    /\ responses' = responses \ {m}
    /\ UNCHANGED <<sessions, made, ses, known, leaked, xacts, wire, serial, fault, appVars, remote>>

(* _nnrf_disc_handle found an MB-SMF: the object is bound to it and the     *)
(* request goes out, in the same transaction.                               *)
DiscoverFound(m) ==
    /\ Found(m)
    /\ m.from = "nrf" /\ m.outcome = "ok"
    /\ known' = known \cup {m.x.obj}
    /\ wire' = wire \cup {[x |-> m.x, to |-> "mbsmf"]}
    /\ responses' = responses \ {m}
    /\ UNCHANGED <<sessions, made, ses, leaked, xacts, serial, fault, appVars, remote>>

(* It found none: the transaction is removed and nobody is told. *)
DiscoverFailed(m) ==
    /\ Found(m)
    /\ m.from = "nrf" /\ m.outcome = "error"
    /\ lost' = lost \cup {m.x.owner}
    /\ End(m)
    /\ UNCHANGED <<ses, fault, reports>>

(* A header that does not parse is reported as a failed creation, whatever  *)
(* the request was.                                                         *)
BadHeader(m) ==
    /\ Found(m)
    /\ m.outcome = "badheader"
    /\ Report(m.x, SessionOf(m.x.obj), "create", "OGS_ERROR")
    /\ lost' = lost \cup {m.x.owner}
    /\ End(m)
    /\ UNCHANGED <<ses, fault>>

Created(x) == <<x.owner, x.k>>

(* A parse that forgets to keep the accepted session. *)
ParsedMutant(q, x) ==
    [q EXCEPT !.id = Created(x),
              !.cur.tmgi = IF q.cur.req THEN Granted ELSE q.cur.tmgi]

(* A parse that forgets the id. *)
ParsedNoId(q, x) ==
    [q EXCEPT !.cur.tmgi = IF q.cur.req THEN Granted ELSE q.cur.tmgi,
              !.prev = PublicCopy(q.prev, q.cur)]

(* _nmbsmf_mbs_session_parse: the id, the TMGI if one was asked for, the    *)
(* SSM that the MB-SMF repeats from the request, and then the copy of the   *)
(* session as it now is.                                                    *)
Parsed(q, x) ==
    LET c == [q.cur EXCEPT !.ssm = IF x.body.ssm # None THEN x.body.ssm ELSE q.cur.ssm,
                           !.tmgi = IF q.cur.req THEN Granted ELSE q.cur.tmgi]
    IN  [q EXCEPT !.id = Created(x), !.cur = c, !.prev = PublicCopy(q.prev, c)]

(* What the application may do to a session in its callback. *)
Edited(q, a, d) == [q EXCEPT !.cur = [q.cur EXCEPT !.attr = a], !.deleted = d]

(* 2xx for a create: parsed, reported, and what changed meanwhile is        *)
(* pushed. In the callback the application may edit or delete the session.  *)
(* The TMGI it replaces, if one was granted before, stays in the context.   *)
CreateAccepted(m) ==
    LET s == SessionOf(m.x.obj) IN
    /\ Answer(m, "mbsmf", "create") /\ m.outcome = "ok"
    /\ s # None
    /\ \E a \in Attr, d \in {ses[s].deleted, TRUE} :
          DoPush([ses EXCEPT ![s] = Edited(Parsed(ses[s], m.x), a, d)], {s}, xacts \ {m.x})
    /\ Report(m.x, s, "create", "OGS_OK")
    /\ leaked' = leaked \cup (IF ses[s].cur.req THEN LeakOf(ses[s]) ELSE {})
    /\ responses' = responses \ {m}
    /\ UNCHANGED <<sessions, made, known, lost, remote>>

(* 2xx for a create on an object that no session has any more: the parse    *)
(* asserts that there is one.                                               *)
CreateOrphaned(m) ==
    /\ Answer(m, "mbsmf", "create") /\ m.outcome # "error"
    /\ SessionOf(m.x.obj) = None
    /\ fault' = "assert"
    /\ lost' = lost \cup {m.x.owner}
    /\ End(m)
    /\ UNCHANGED <<ses, reports>>

(* A 2xx that lacks the Location, or that is refused after the id was taken *)
(* from the Location.                                                       *)
CreateUnusable(m) ==
    LET s == SessionOf(m.x.obj) IN
    /\ Answer(m, "mbsmf", "create") /\ m.outcome \in {"noLocation", "badBody"}
    /\ s # None
    /\ ses' = IF m.outcome = "badBody" THEN [ses EXCEPT ![s].id = Created(m.x)] ELSE ses
    /\ Report(m.x, s, "create", "OGS_ERROR")
    /\ lost' = lost \cup {m.x.owner}
    /\ End(m)
    /\ UNCHANGED fault

CreateRejected(m) ==
    /\ Answer(m, "mbsmf", "create") /\ m.outcome = "error"
    /\ Report(m.x, SessionOf(m.x.obj), "create", "OGS_ERROR")
    /\ lost' = lost \cup {m.x.owner}
    /\ End(m)
    /\ UNCHANGED <<ses, fault>>

(* _nmbsmf_mbs_session_patch_response: only the header was parsed, so       *)
(* res_status is 0 whatever the MB-SMF answered, and that counts as no      *)
(* change; the update is reported as done.                                  *)
UpdateAnswered(m) ==
    /\ Answer(m, "mbsmf", "update")
    /\ Report(m.x, SessionOf(m.x.obj), "update", "OGS_OK")
    /\ lost' = IF m.outcome = "ok" THEN lost ELSE lost \cup {m.x.owner}
    /\ End(m)
    /\ UNCHANGED <<ses, fault>>

Freed(q) == [q EXCEPT !.live = "freed", !.id = None, !.prev = None, !.obj = None]

(* A removal that leaves the session in the context's list. *)
FreeSessionMutant(s) ==
    /\ ses' = [ses EXCEPT ![s].live = "freed"]
    /\ sessions' = sessions

(* _context_remove_mbs_session and _mbs_session_delete *)
FreeSession(s) ==
    /\ ses' = [ses EXCEPT ![s] = Freed(ses[s])]
    /\ sessions' = sessions \ {s}

(* Any answer to a removal: OGS_DONE is reported, the session is freed, and *)
(* the transactions on its object go with the object.                       *)
RemoveAnswered(m) ==
    LET s == SessionOf(m.x.obj) IN
    /\ Answer(m, "mbsmf", "remove")
    /\ m.x.target # None
    /\ s # None
    /\ Report(m.x, s, "delete", "OGS_DONE")
    /\ FreeSession(s)
    /\ xacts' = Surviving(xacts \ {m.x}, ses', leaked)
    /\ lost' = IF m.outcome = "ok" THEN lost ELSE lost \cup {m.x.owner}
    /\ responses' = responses \ {m}
    /\ UNCHANGED <<made, known, leaked, wire, serial, fault, pushed, remote>>

(* The same when no session has the object any more: the handler reads      *)
(* sess->sbi_object of a null pointer.                                      *)
RemoveOrphaned(m) ==
    /\ Answer(m, "mbsmf", "remove")
    /\ m.x.target # None
    /\ SessionOf(m.x.obj) = None
    /\ fault' = "null"
    /\ lost' = lost \cup {m.x.owner}
    /\ End(m)
    /\ UNCHANGED <<ses, reports>>

(* The removal of a session without an id went to the collection, and a     *)
(* DELETE there is not handled.                                             *)
RemoveUnaddressed(m) ==
    /\ Answer(m, "mbsmf", "remove")
    /\ m.x.target = None
    /\ lost' = lost \cup {m.x.owner}
    /\ End(m)
    /\ UNCHANGED <<ses, fault, reports>>

(* A timer that says nothing of a create. *)
TimeoutMutant(x) ==
    /\ Running
    /\ x \in xacts
    /\ SessionOf(x.obj) # None
    /\ reports' = reports
    /\ xacts' = xacts \ {x}
    /\ lost' = lost \cup {x.owner}
    /\ UNCHANGED <<sessions, made, ses, known, leaked, wire, responses, serial, fault, pushed, remote>>

(* OGS_TIMER_SBI_CLIENT_WAIT: only a create is reported. Without a session  *)
(* the event is refused and the transaction stays.                          *)
Timeout(x) ==
    /\ Running
    /\ x \in xacts
    /\ SessionOf(x.obj) # None
    /\ IF x.op = "create"
         THEN Report(x, SessionOf(x.obj), "create", "OGS_ETIMEDOUT")
         ELSE reports' = reports
    /\ xacts' = xacts \ {x}
    /\ lost' = lost \cup {x.owner}
    /\ UNCHANGED <<sessions, made, ses, known, leaked, wire, responses, serial, fault, pushed, remote>>

-----------------------------------------------------------------------------
(* The NRF and the MB-SMF. A request that is never answered is lost. *)

NrfRespond(w) ==
    /\ w \in wire
    /\ w.to = "nrf"
    /\ wire' = wire \ {w}
    /\ \E out \in NrfOutcomes :
          responses' = responses \cup {[x |-> w.x, from |-> "nrf", outcome |-> out]}
    /\ UNCHANGED <<sessions, made, ses, known, leaked, xacts, serial, fault, appVars, remote>>

(* Only a create can be answered without a Location or with a bad body. *)
MayAnswer(op, out) == out \in {"noLocation", "badBody"} => op = "create"

(* The patches are applied to the session at the MB-SMF. *)
Patched(b, v) == IF v = {} THEN b ELSE [b EXCEPT !.attr = CHOOSE a \in v : TRUE]

(* What the MB-SMF holds after it answered: an error changes nothing. *)
Handled(x, out) ==
    CASE out = "error" -> remote
      [] out # "error" /\ x.op = "create" ->
            remote \cup {[id |-> Created(x), body |-> x.body]}
      [] out # "error" /\ x.op = "update" ->
            {IF m.id = x.target THEN [m EXCEPT !.body = Patched(m.body, x.patch)] ELSE m : m \in remote}
      [] out # "error" /\ x.op = "remove" -> {m \in remote : m.id # x.target}

MbsmfRespond(w) ==
    /\ w \in wire
    /\ w.to = "mbsmf"
    /\ wire' = wire \ {w}
    /\ \E out \in Outcomes :
          /\ MayAnswer(w.x.op, out)
          /\ responses' = responses \cup {[x |-> w.x, from |-> "mbsmf", outcome |-> out]}
          /\ remote' = Handled(w.x, out)
    /\ UNCHANGED <<sessions, made, ses, known, leaked, xacts, serial, fault, appVars>>

-----------------------------------------------------------------------------

Application ==
    \/ \E s \in Session :
          \/ \E m \in Ssm \cup {None}, t \in Terms : New(s, m, t)
          \/ \E a \in Attr : SetAttr(s, a)
          \/ \E m \in Ssm \cup {None} : SetSsm(s, m)
          \/ \E t \in Tmgi : SetTmgi(s, t)
          \/ UnsetTmgi(s)
          \/ MarkDeleted(s)
          \/ Push(s)
    \/ PushAll

HandleResponse ==
    \E m \in responses :
        \/ IgnoreResponse(m)
        \/ DiscoverFound(m) \/ DiscoverFailed(m) \/ BadHeader(m)
        \/ CreateAccepted(m) \/ CreateOrphaned(m) \/ CreateUnusable(m) \/ CreateRejected(m)
        \/ UpdateAnswered(m)
        \/ RemoveAnswered(m) \/ RemoveOrphaned(m) \/ RemoveUnaddressed(m)

HandleTimer == \E x \in xacts : Timeout(x)

Environment == \E w \in wire : NrfRespond(w) \/ MbsmfRespond(w)

Next == Application \/ HandleResponse \/ HandleTimer \/ Environment

Spec == Init /\ [][Next]_vars

(* The timer that ogs_sbi_xact_add starts fires unless the transaction is   *)
(* removed first. Nothing obliges the NRF or the MB-SMF to answer.          *)
FairSpec == Spec /\ WF_vars(HandleTimer)

-----------------------------------------------------------------------------

(* Every variable has its type. *)
TypeOK ==
    /\ sessions \in SUBSET Session
    /\ made \in Nat
    /\ ses \in [Session -> PrivSession]
    /\ known \in SUBSET Object
    /\ leaked \in SUBSET Object
    /\ xacts \in SUBSET Xact
    /\ wire \in SUBSET [x: Xact, to: Peer]
    /\ responses \in SUBSET [x: Xact, from: Peer, outcome: Outcome]
    /\ serial \in Nat
    /\ fault \in {"none", "assert", "null"}
    /\ reports \in SUBSET [x: Xact, to: Session, cb: {"create", "update", "delete"},
                           result: Result]
    /\ pushed \in SUBSET Session
    /\ lost \in SUBSET Session
    /\ remote \in SUBSET [id: ResourceId, body: Fields]

(* A session is in the context's list exactly while it is allocated, so     *)
(* that _context_sbi_object_to_session never walks over a freed session.    *)
ListIsLive == sessions = {s \in Session : Live(s)}

(* A PATCH is never built for a session without a resource id, whatever     *)
(* order creations, failures and pushes come in: msg.h.resource.component   *)
(* [1] of _nmbsmf_mbs_session_build_update is not null.                     *)
PatchTargetKnown == \A x \in xacts : x.op = "update" => x.target # None

(* A transaction is outstanding on an sbi_object that is still allocated,   *)
(* so the event of a response or of a timer never reaches a freed one.      *)
XactObjectHeld == \A x \in xacts : Held(x.obj, ses, leaked)

(* A request is reported at most once, although the timer, a late response  *)
(* and a push from within the response handler race: what was reported is   *)
(* not outstanding any more, and no second report speaks of it.             *)
OneReportPerRequest ==
    /\ \A r \in reports : r.x \notin xacts
    /\ \A r1, r2 \in reports : r1.x = r2.x => r1 = r2

(* After the callback with OGS_DONE a session makes no other callback: the  *)
(* application may have dropped the session by then.                        *)
NoCallbackAfterDone ==
    [][\A r \in reports' \ reports :
          ~\E d \in reports : d.to = r.to /\ d.result = "OGS_DONE"]_vars

(* A result callback gets the session whose request was answered, although  *)
(* a response is matched to a session through the sbi_object alone: no two  *)
(* sessions that made their own objects are taken for each other, while     *)
(* others share the object of a TMGI. A request on the object of a TMGI is  *)
(* excepted: it goes to the first session that has the TMGI.                *)
CallbackAboutOwn == \A r \in reports : r.x.obj \in Session => r.to = r.x.owner

(* The library frees only sessions that the application deleted. *)
FreedWasDeleted == \A s \in Session : ses[s].live = "freed" => ses[s].deleted

(* Every session at the MB-SMF is the one its local session names, unless a *)
(* request of that session failed or is still outstanding: deleting a       *)
(* session while its creation is in flight leaves nothing behind.           *)
NoOrphan ==
    Running =>
        \A m \in remote :
            LET s == m.id[1] IN
            \/ Live(s) /\ ses[s].id = m.id
            \/ s \in lost
            \/ Pending(s)

(* What the MB-SMF has of a session: a session that has an id here, or was  *)
(* freed, was there before.                                                 *)
HeldOf(s) ==
    IF \E m \in remote : m.id[1] = s THEN "open"
    ELSE IF ses[s].id # None \/ ses[s].live = "freed" THEN "ended" ELSE "none"

Told(cb, result) ==
    {s \in Session : \E r \in reports : r.to = s /\ r.cb = cb /\ r.result = result}

Promise == INSTANCE MbsPromise WITH
    deleted <- {s \in Session : ses[s].deleted},
    failed <- lost,
    held <- [s \in Session |-> HeldOf(s)],
    created <- Told("create", "OGS_OK"),
    done <- Told("delete", "OGS_DONE")

(* Whatever way edits, deletions, answers and timers interleave, the        *)
(* MB-SMF and the callbacks keep to the promise of MbsPromise: a session is *)
(* created there once, stays until it is deleted here, and each report is   *)
(* true of the MB-SMF when it is made.                                      *)
PromiseSpec == Promise!Spec

(* The library does not run into an assertion or a null pointer. *)
NoFault == fault = "none"

(* A session deleted while its creation is outstanding is removed in the    *)
(* end, without the application pushing it again: the push in the create    *)
(* response sees the flag. Only a request that fails stops it.              *)
DeletionCompletes ==
    \A s \in Session :
        (/\ Live(s)
         /\ ses[s].deleted
         /\ \E x \in xacts : x.owner = s /\ x.op = "create")
        ~> (~Live(s) \/ s \in lost)

(* A creation the application pushed ends with its callback, with OGS_OK,   *)
(* OGS_ERROR or OGS_ETIMEDOUT, whatever is edited, deleted, pushed, lost or *)
(* late meanwhile. The callback's documentation in mbs-session.h promises   *)
(* that without exception; the code has one, stated here: when the NRF      *)
(* answers with an error the creation is dropped and nobody is told.        *)
CreateReported ==
    \A s \in Session, k \in 1..MaxPush :
        (\E x \in xacts : x.owner = s /\ x.k = k /\ x.op = "create")
        ~> (\/ \E r \in reports : r.x.owner = s /\ r.x.k = k /\ r.x.op = "create"
            \/ \E m \in responses :
                  /\ m.from = "nrf" /\ m.outcome = "error"
                  /\ m.x.owner = s /\ m.x.k = k /\ m.x.op = "create")

=============================================================================
