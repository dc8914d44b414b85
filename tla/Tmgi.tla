-------------------------------- MODULE Tmgi --------------------------------
(***************************************************************************)
(* TMGIs: their allocation and deallocation at the MB-SMF, the matching of *)
(* its answers to the TMGIs of the library, and the context's list of      *)
(* TMGIs with its links.  The application creates and frees TMGIs and      *)
(* sends the requests; an MBS session that was accepted with a TMGI brings *)
(* one of its own, and its previous copy a second.                         *)
(*                                                                         *)
(* There is one PLMN.  The timers of requests about TMGIs change nothing:  *)
(* mb_smf_sc_process_event refuses them, as no session has their object.   *)
(***************************************************************************)
EXTENDS Integers, FiniteSets

CONSTANTS
    Tmgis,      \* TMGI objects
    Ids,        \* MBS service ids
    Rules,      \* what the application refrains from
    MaxReq,     \* bound on the requests
    None

ASSUME TmgiAssumption ==
    /\ None \notin Tmgis \cup Ids
    /\ None \notin {"app", "session"}
    /\ IsFiniteSet(Tmgis)
    /\ MaxReq \in Nat
    /\ Rules \subseteq {"waits", "fresh", "quiet", "apart", "used", "kept", "session"}

VARIABLES
    tmgi,       \* the TMGI objects
    nxt, prv,   \* links of the context's list; those of None are its ends
    xacts,      \* transactions
    wire,       \* requests on their way to the MB-SMF
    answers,    \* answers on their way back
    remote,     \* ids that the MB-SMF has allocated
    k,          \* requests made so far
    told,       \* the result callback of the last step, if it made one
    failed,     \* some allocation was refused
    fault       \* what ended the program, if anything

vars == <<tmgi, nxt, prv, xacts, wire, answers, remote, k, told, failed, fault>>

Nodes == Tmgis \cup {None}

\* sbi_objects are named after the request they were made for.
NoObj == -1
SessionObj == 0

\* by: who holds the TMGI.  obj: its sbi_object.  awaits: the application sent a request
\* for it and was not called since.
TmgiObject == [st : {"none", "live", "freed"}, by : {"app", "session", None},
               sid : Ids \cup {None}, allocated : BOOLEAN, callback : BOOLEAN,
               obj : NoObj .. MaxReq, awaits : BOOLEAN]

Request == [k : 1 .. MaxReq, op : {"allocate", "deallocate"}, of : Tmgis,
            obj : SessionObj .. MaxReq, sid : Ids \cup {None}]

Answer == [req : Request, res : {"ok", "refused", "bad"}, sid : Ids \cup {None}]

Result == [to : Tmgis, res : {"OK", "DONE", "ERROR"}, sid : Ids \cup {None}, req : Request]

TypeOK ==
    /\ tmgi \in [Tmgis -> TmgiObject]
    /\ nxt \in [Nodes -> Nodes]
    /\ prv \in [Nodes -> Nodes]
    /\ xacts \subseteq Request
    /\ wire \subseteq Request
    /\ answers \subseteq Answer
    /\ remote \subseteq Ids
    /\ k \in 0 .. MaxReq
    /\ told \in Result \cup {None}
    /\ failed \in BOOLEAN
    /\ fault \in {"none", "freed", "null"}

\* The MB-SMF may have ids allocated by an earlier run of the application.
Init ==
    /\ tmgi = [x \in Tmgis |-> [st |-> "none", by |-> None, sid |-> None,
                                allocated |-> FALSE, callback |-> FALSE, obj |-> NoObj, awaits |-> FALSE]]
    /\ nxt = [n \in Nodes |-> None]
    /\ prv = [n \in Nodes |-> None]
    /\ xacts = {} /\ wire = {} /\ answers = {}
    /\ remote \in SUBSET Ids
    /\ k = 0
    /\ told = None
    /\ failed = FALSE
    /\ fault = "none"

Running == fault = "none"

-----------------------------------------------------------------------------
(***************************************************************************)
(* The list.                                                               *)
(***************************************************************************)
Length == Cardinality(Tmgis)

\* The nodes met when the list with the links n is walked from its head.
WalkOf(n) ==
    LET node[i \in 0 .. Length] ==
          IF i = 0 THEN n[None] ELSE IF node[i - 1] = None THEN None ELSE n[node[i - 1]]
    IN node

ListOf(n) == {WalkOf(n)[i] : i \in 0 .. Length} \ {None}

\* The first node of the walk in a set, or None.
FirstOf(n, S) ==
    IF ListOf(n) \cap S = {} THEN None
    ELSE WalkOf(n)[CHOOSE i \in 0 .. Length : /\ WalkOf(n)[i] \in S
                                             /\ \A j \in 0 .. i - 1 : WalkOf(n)[j] \notin S]

Listed == ListOf(nxt)
FirstIn(S) == FirstOf(nxt, S)

\* A walk that goes through freed memory.
WalkFaults == \E x \in Listed : tmgi[x].st = "freed"

\* _context_add_tmgi, in the list with the links n and p.
Appended(n, p, x) ==
    [nxt |-> [n EXCEPT ![p[None]] = x, ![x] = None],
     prv |-> [p EXCEPT ![x] = p[None], ![None] = x]]

RemovedMutant(n, p, x) == [nxt |-> [n EXCEPT ![p[x]] = n[x]], prv |-> p]

\* _context_remove_tmgi: the neighbours are joined, and the node keeps its own links.
Removed(n, p, x) == [nxt |-> [n EXCEPT ![p[x]] = n[x]],
                     prv |-> [p EXCEPT ![n[x]] = p[x]]]

Relink(links) == nxt' = links.nxt /\ prv' = links.prv

-----------------------------------------------------------------------------
(***************************************************************************)
(* Objects and matching.                                                   *)
(***************************************************************************)
\* _ref_count_sbi_object_unref: the last reference takes the transactions with it.
Surviving(t) == {r \in xacts : r.obj = SessionObj \/ \E x \in Tmgis : t[x].st = "live" /\ t[x].obj = r.obj}

\* _context_sbi_object_to_tmgi
TmgiOf(o) == FirstIn({x \in Tmgis : tmgi[x].obj = o})

MatchingMutant(i) == FirstIn({x \in Tmgis : tmgi[x].sid = i \/ ~tmgi[x].allocated})

MatchingAny(i) == FirstIn({x \in Tmgis : tmgi[x].sid # None \/ ~tmgi[x].allocated})

\* _tmgi_find_matching_openapi_type: the first TMGI that has the id, or has none yet.
Matching(i) ==
    FirstIn({x \in Tmgis : tmgi[x].sid = i \/ (tmgi[x].sid = None /\ ~tmgi[x].allocated)})

-----------------------------------------------------------------------------
(***************************************************************************)
(* The application.  Rules: "waits", it sends no request for a TMGI until  *)
(* it was called about the last; "quiet", it frees a TMGI only when none   *)
(* waits for its id; "fresh", it allocates TMGIs without an id, and at     *)
(* once, and deallocates those with one; "apart", it has no TMGI without   *)
(* an id while a deallocation is outstanding; "used", it gives a TMGI it   *)
(* makes itself an id that the MB-SMF has allocated, that no TMGI has and  *)
(* that no message is about; "kept", it neither uses nor frees a TMGI that *)
(* the library took off its list; "session", it sends no request for the   *)
(* TMGI of a session.                                                      *)
(***************************************************************************)
May(x) ==
    /\ tmgi[x].st = "live"
    /\ tmgi[x].by = "app" \/ (tmgi[x].by = "session" /\ "session" \notin Rules)
    /\ "kept" \in Rules => x \in Listed

MaySend(x) == May(x) /\ ("waits" \in Rules => ~tmgi[x].awaits)

Deallocating == \E r \in xacts : r.op = "deallocate"

Unnamed == {x \in Tmgis : tmgi[x].st = "live" /\ tmgi[x].sid = None}

\* No TMGI without an id is made while a deallocation is outstanding.
Apart == "apart" \in Rules => ~Deallocating

Holders(i) == {x \in Tmgis : tmgi[x].st = "live" /\ tmgi[x].sid = i}

InTransit(i) == \E m \in wire \cup answers : m.sid = i

\* _tmgi_list_send_allocate, for one TMGI: a new object for a new discovery.
Allocate(x, t) ==
    LET r == [k |-> k + 1, op |-> "allocate", of |-> x, obj |-> k + 1, sid |-> None]
        u == [t EXCEPT ![x].obj = k + 1, ![x].awaits = TRUE]
    IN
    /\ k < MaxReq
    /\ k' = k + 1
    /\ tmgi' = u
    /\ xacts' = Surviving(u) \cup {r}
    /\ wire' = wire \cup {r}

CreateTmgi(x) ==
    /\ Running /\ Apart
    /\ tmgi[x].st = "none"
    /\ Relink(Appended(nxt, prv, x))
    /\ Allocate(x, [tmgi EXCEPT ![x].st = "live", ![x].by = "app", ![x].callback = TRUE])
    /\ told' = None
    /\ UNCHANGED <<answers, remote, failed, fault>>

\* mb_smf_sc_tmgi_new, followed by the setters when an id is given.
NewTmgi(x, i, c) ==
    /\ Running
    /\ tmgi[x].st = "none"
    /\ i = None => Apart /\ "fresh" \notin Rules
    /\ "used" \in Rules /\ i # None => i \in remote /\ Holders(i) = {} /\ ~InTransit(i)
    /\ Relink(Appended(nxt, prv, x))
    /\ tmgi' = [tmgi EXCEPT ![x] = [st |-> "live", by |-> "app", sid |-> i,
                                    allocated |-> i # None, callback |-> c, obj |-> NoObj,
                                    awaits |-> FALSE]]
    /\ told' = None
    /\ UNCHANGED <<xacts, wire, answers, remote, k, failed, fault>>

SendAllocate(x) ==
    /\ Running /\ MaySend(x)
    /\ "fresh" \in Rules => tmgi[x].sid = None
    /\ Allocate(x, tmgi)
    /\ told' = None
    /\ UNCHANGED <<nxt, prv, answers, remote, failed, fault>>

\* The object of the TMGI, or a new one.
ObjectFor(x) == IF tmgi[x].obj = NoObj THEN k + 1 ELSE tmgi[x].obj

\* _tmgi_list_send_deallocate, for one TMGI.
SendDeallocate(x) ==
    LET o == ObjectFor(x)
        r == [k |-> k + 1, op |-> "deallocate", of |-> x, obj |-> o, sid |-> tmgi[x].sid]
    IN
    /\ Running /\ MaySend(x)
    /\ "fresh" \in Rules => tmgi[x].sid # None
    /\ "apart" \in Rules => Unnamed = {}
    /\ k < MaxReq
    /\ k' = k + 1
    /\ tmgi' = [tmgi EXCEPT ![x].obj = o, ![x].awaits = TRUE]
    /\ xacts' = xacts \cup {r}
    /\ wire' = wire \cup {r}
    /\ told' = None
    /\ UNCHANGED <<nxt, prv, answers, remote, failed, fault>>

\* _tmgi_free takes the TMGI off the list, be it on it or not, and releases its object.
Freed(x) == [tmgi EXCEPT ![x].st = "freed"]

FreeTmgi(x) ==
    /\ Running /\ tmgi[x].by = "app" /\ May(x)
    /\ "quiet" \in Rules => \A y \in Unnamed : ~tmgi[y].awaits
    /\ Relink(Removed(nxt, prv, x))
    /\ tmgi' = Freed(x)
    /\ xacts' = Surviving(Freed(x))
    /\ told' = None
    /\ fault' = IF \E n \in {prv[x], nxt[x]} \cap Tmgis : tmgi[n].st = "freed" THEN "freed" ELSE fault
    /\ UNCHANGED <<wire, answers, remote, k, failed>>

-----------------------------------------------------------------------------
(***************************************************************************)
(* The session.                                                            *)
(***************************************************************************)
NoSession == \A x \in Tmgis : tmgi[x].by # "session"

\* The session is accepted with id i: _nmbsmf_mbs_session_parse makes its TMGI, and
\* _mbs_session_public_copy a copy, which _tmgi_copy does not mark as allocated.
SessionAccepted(x, y, i) ==
    LET one == Appended(nxt, prv, x)
        of(a) == [st |-> "live", by |-> "session", sid |-> i, allocated |-> a,
                  callback |-> FALSE, obj |-> SessionObj, awaits |-> FALSE]
    IN
    /\ Running /\ NoSession
    /\ x # y /\ tmgi[x].st = "none" /\ tmgi[y].st = "none"
    /\ i \notin remote
    /\ remote' = remote \cup {i}
    /\ Relink(Appended(one.nxt, one.prv, y))
    /\ tmgi' = [tmgi EXCEPT ![x] = of(TRUE), ![y] = of(FALSE)]
    /\ told' = None
    /\ UNCHANGED <<xacts, wire, answers, k, failed, fault>>

\* The TMGIs of the session go with it, and its id with the session at the MB-SMF.
SessionGone(x, y) ==
    LET one == Removed(nxt, prv, x) IN
    /\ Running
    /\ x # y
    /\ \A z \in {x, y} : tmgi[z].st = "live" /\ tmgi[z].by = "session"
    /\ Relink(Removed(one.nxt, one.prv, y))
    /\ tmgi' = [tmgi EXCEPT ![x].st = "freed", ![y].st = "freed"]
    /\ remote' = remote \ {tmgi[x].sid}
    /\ xacts' = {r \in xacts : r.obj # SessionObj}
    /\ told' = None
    /\ UNCHANGED <<wire, answers, k, failed, fault>>

-----------------------------------------------------------------------------
(***************************************************************************)
(* The MB-SMF.                                                             *)
(***************************************************************************)
ServeAllocate(r, i) ==
    /\ Running /\ r \in wire /\ r.op = "allocate"
    /\ i \notin remote
    /\ wire' = wire \ {r}
    /\ remote' = remote \cup {i}
    /\ answers' = answers \cup {[req |-> r, res |-> "ok", sid |-> i]}
    /\ told' = None
    /\ UNCHANGED <<tmgi, nxt, prv, xacts, k, failed, fault>>

ServeDeallocate(r) ==
    /\ Running /\ r \in wire /\ r.op = "deallocate"
    /\ wire' = wire \ {r}
    /\ remote' = remote \ {r.sid}
    /\ answers' = answers \cup {[req |-> r, res |-> "ok", sid |-> r.sid]}
    /\ told' = None
    /\ UNCHANGED <<tmgi, nxt, prv, xacts, k, failed, fault>>

\* A refusal, or an answer that cannot be parsed.
Refuse(r, res) ==
    /\ Running /\ r \in wire
    /\ wire' = wire \ {r}
    /\ answers' = answers \cup {[req |-> r, res |-> res, sid |-> None]}
    /\ told' = None
    /\ UNCHANGED <<tmgi, nxt, prv, xacts, remote, k, failed, fault>>

-----------------------------------------------------------------------------
(***************************************************************************)
(* Handlers.                                                               *)
(***************************************************************************)
\* The answer belongs to a transaction whose object a listed TMGI, or the session, has.
Ours(a) ==
    /\ a.req \in xacts
    /\ TmgiOf(a.req.obj) # None \/ (a.req.obj = SessionObj /\ \E x \in Tmgis :
                                        tmgi[x].by = "session" /\ tmgi[x].st = "live")

Consume(a) ==
    /\ Running /\ a \in answers /\ Ours(a)
    /\ answers' = answers \ {a}
    /\ xacts' = xacts \ {a.req}
    /\ fault' = IF WalkFaults THEN "freed"
                ELSE IF TmgiOf(a.req.obj) = None /\ (a.res = "bad" \/ a.req.op = "deallocate")
                THEN "null" ELSE fault
    /\ UNCHANGED <<wire, remote, k>>

\* tmgi->callback, of TMGI x as t has it, or of none
Tell(x, t, res, a) ==
    LET calls == x # None /\ tmgi[x].callback IN
    /\ told' = IF calls THEN [to |-> x, res |-> res, sid |-> t[x].sid, req |-> a.req] ELSE None
    /\ tmgi' = IF calls THEN [t EXCEPT ![x].awaits = FALSE] ELSE t

Unparsable(a) ==
    /\ a.res = "bad"
    /\ Consume(a)
    /\ Tell(TmgiOf(a.req.obj), tmgi, "ERROR", a)
    /\ failed' = (failed \/ a.req.op = "allocate")
    /\ UNCHANGED <<nxt, prv>>

\* _nmbsmf_tmgi_allocated of a success
Allocated(a) ==
    LET x == Matching(a.sid) IN
    /\ a.req.op = "allocate" /\ a.res = "ok"
    /\ Consume(a)
    /\ Tell(x, IF x = None THEN tmgi
               ELSE [tmgi EXCEPT ![x].sid = a.sid, ![x].allocated = TRUE], "OK", a)
    /\ UNCHANGED <<nxt, prv, failed>>

\* _nmbsmf_tmgi_allocated of a refusal: TMGIs to refresh would be told, new ones are not.
AllocationRefused(a) ==
    /\ a.req.op = "allocate" /\ a.res = "refused"
    /\ Consume(a)
    /\ failed' = TRUE
    /\ told' = None
    /\ UNCHANGED <<tmgi, nxt, prv>>

\* Mutant: the TMGI keeps its id and stays on the list.
DeallocatedMutant(a) ==
    /\ a.req.op = "deallocate" /\ a.res # "bad"
    /\ Consume(a)
    /\ Tell(Matching(a.req.sid), tmgi, IF a.res = "ok" THEN "DONE" ELSE "ERROR", a)
    /\ UNCHANGED <<nxt, prv, failed>>

\* _nmbsmf_tmgi_deallocated: the TMGI with the id of the request is told and taken off the
\* list, whatever the answer.
Deallocated(a) ==
    LET x == Matching(a.req.sid) IN
    /\ a.req.op = "deallocate" /\ a.res # "bad"
    /\ Consume(a)
    /\ IF x = None THEN UNCHANGED <<nxt, prv>> ELSE Relink(Removed(nxt, prv, x))
    /\ UNCHANGED failed
    /\ Tell(x, tmgi, IF a.res = "ok" THEN "DONE" ELSE "ERROR", a)

NotOurs(a) ==
    /\ Running /\ a \in answers /\ ~Ours(a)
    /\ answers' = answers \ {a}
    /\ told' = None
    /\ fault' = IF a.req \in xacts /\ WalkFaults THEN "freed" ELSE fault
    /\ UNCHANGED <<tmgi, nxt, prv, xacts, wire, remote, k, failed>>

-----------------------------------------------------------------------------
Application ==
    \E x \in Tmgis :
        \/ CreateTmgi(x) \/ SendAllocate(x) \/ SendDeallocate(x) \/ FreeTmgi(x)
        \/ \E i \in Ids \cup {None}, c \in BOOLEAN : NewTmgi(x, i, c)

Session ==
    \E x, y \in Tmgis : SessionGone(x, y) \/ \E i \in Ids : SessionAccepted(x, y, i)

Mbsmf ==
    \E r \in wire : \/ \E i \in Ids : ServeAllocate(r, i)
                    \/ ServeDeallocate(r)
                    \/ \E res \in {"refused", "bad"} : Refuse(r, res)

Library ==
    \E a \in answers : Unparsable(a) \/ Allocated(a) \/ AllocationRefused(a)
                       \/ Deallocated(a) \/ NotOurs(a)

Next == Application \/ Session \/ Mbsmf \/ Library

Spec == Init /\ [][Next]_vars

-----------------------------------------------------------------------------
(***************************************************************************)
(* Properties.                                                             *)
(***************************************************************************)
\* The listed TMGIs of the application have different ids, and ids that the MB-SMF has
\* allocated unless their deallocation is under way, although answers come in any order, are
\* matched by id or to the first TMGI without one, and ids are used again.
IdsSound ==
    \A x \in Listed : tmgi[x].by = "app" /\ tmgi[x].sid # None =>
        /\ tmgi[x].sid \in remote \/ \E r \in xacts : r.of = x /\ r.op = "deallocate"
        /\ \A y \in Listed \ {x} : tmgi[y].by = "app" => tmgi[y].sid # tmgi[x].sid

\* When no allocation was refused and none is outstanding, every TMGI has an id, although
\* an answer is not given to the TMGI that asked for it but to the first without an id.
AllServed ==
    ~failed /\ (\A r \in xacts : r.op # "allocate") =>
        \A x \in Tmgis : tmgi[x].st = "live" => tmgi[x].sid # None

\* The callback of a deallocation is made for the TMGI that asked for it.
DoneToAsker == told # None /\ told.req.op = "deallocate" => told.to = told.req.of

\* Nothing reads freed memory or a null pointer.
NoFault == fault = "none"
=============================================================================
