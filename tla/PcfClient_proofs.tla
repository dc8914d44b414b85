-------------------------- MODULE PcfClient_proofs --------------------------
(***************************************************************************)
(* Proofs about PcfClient, for any number of PCF sessions, addresses and   *)
(* requests, however requests end and whether or not the application       *)
(* creates sessions in its callbacks.                                      *)
(***************************************************************************)
EXTENDS PcfClient, TLAPS

-----------------------------------------------------------------------------
(* The inductive invariant *)

(* Requests are numbered apart, and an id is the number of a creation that  *)
(* was answered: no two sessions have the same.                             *)
Numbered ==
    /\ \A a \in Addr : mem[a].id <= serial
    /\ \A r \in wire : r.k \in 1..serial /\ \A a \in Addr : mem[a].id # r.k
    /\ \A e \in events : e.req.k \in 1..serial /\ \A a \in Addr : mem[a].id # e.req.k
    /\ \A r, q \in wire : r.k = q.k => r = q
    /\ \A e, f \in events : e.req.k = f.req.k => e = f
    /\ \A r \in wire, e \in events : r.k # e.req.k

IdsDiffer == \A a, b \in Addr : mem[a].id = mem[b].id /\ mem[a].id # NoId => a = b

(* The session that made a request is listed still. *)
Own(r) == mem[r.a].who = r.who /\ r.a \in apps[r.pcf]

(* While the application waits for each answer, every session is listed,    *)
(* and a PCF session has one request outstanding, of such a session.        *)
OneOutstanding ==
    ~hasty =>
        /\ \A a \in Addr : mem[a].who # Nobody => a \in apps[mem[a].pcf]
        /\ \A r \in wire : Own(r)
        /\ \A e \in events : Own(e.req)
        /\ \A r, q \in wire : r.pcf = q.pcf => r = q
        /\ \A e, f \in events : e.req.pcf = f.req.pcf => e = f
        /\ \A r \in wire, e \in events : r.pcf # e.req.pcf

Creating(a) ==
    \/ \E r \in wire : r.op = "create" /\ r.a = a
    \/ \E e \in events : e.req.op = "create" /\ e.req.a = a

(* As long as no request is lost either, a session has its id or its        *)
(* creation outstanding.                                                    *)
Identified ==
    ~hasty /\ lost = {} =>
        \A a \in Addr : mem[a].who # Nobody => mem[a].id # NoId \/ Creating(a)

IInv ==
    /\ TypeOK
    /\ ListedAlive
    /\ Numbered
    /\ IdsDiffer
    /\ OneOutstanding
    /\ Identified
    /\ AnswerOwn
    /\ CreationReported
    /\ NoFault

-----------------------------------------------------------------------------
(* Lemmas about the operators *)

(* An address that passes _pcf_app_session_exists is that of an allocated   *)
(* session of an open PCF session.                                          *)
LEMMA ExistsSound ==
    ASSUME TypeOK, ListedAlive, NEW a, Exists(a)
    PROVE  /\ a \in Addr /\ a \in apps[mem[a].pcf] /\ mem[a].who # Nobody
           /\ mem[a].pcf \in Pcf /\ pcf[mem[a].pcf] = "open"
BY DEF TypeOK, ListedAlive, Exists, AppSession

(* A search that does not fault finds the session it was given, since no    *)
(* other has its id.                                                        *)
LEMMA MatchSelf ==
    ASSUME IInv, NEW a \in Addr, ~SearchFaults(a), SameId(a) # {}
    PROVE  Match(a) = a /\ a \in apps[mem[a].pcf]
<1>1. mem[a].id # NoId
  BY DEF SearchFaults
<1>2. \A b \in SameId(a) : b \in Addr /\ b \in apps[mem[a].pcf] /\ mem[b].id = mem[a].id
  BY DEF IInv, TypeOK, SameId, AppSession
<1>3. SameId(a) = {a}
  BY <1>1, <1>2 DEF IInv, IdsDiffer
<1>4. \A b \in SameId(a) : (\A c \in SameId(a) \ {b} : Earlier(b, c))
  BY <1>3
<1>5. Match(a) \in SameId(a)
  BY <1>3, <1>4 DEF Match
<1> QED BY <1>2, <1>3, <1>5

(* The requests and events of a state *)
LEMMA Typed ==
    ASSUME TypeOK
    PROVE  /\ \A r \in wire : r \in Request /\ r.a \in Addr /\ r.pcf \in Pcf /\ r.k \in Nat
                              /\ r.who \in Nat /\ r.op \in Op
           /\ \A e \in events : /\ e \in [req: Request, outcome: Outcome]
                                /\ e.req \in Request /\ e.outcome \in Outcome
                                /\ e.req.a \in Addr /\ e.req.pcf \in Pcf /\ e.req.k \in Nat
                                /\ e.req.who \in Nat /\ e.req.op \in Op
           /\ \A a \in Addr : mem[a] \in AppSession /\ mem[a].who \in Nat /\ mem[a].pcf \in Pcf
                              /\ mem[a].id \in Nat
BY DEF TypeOK, Request, AppSession

-----------------------------------------------------------------------------
(* Steps that leave the sessions as they are *)

(* The first parts of the invariant, when requests and events go.           *)
LEMMA QuietSound ==
    ASSUME IInv, UNCHANGED <<apps, mem, serial, hasty>>,
           wire' \subseteq wire, events' \subseteq events,
           \A p \in Pcf : pcf[p] = "open" => pcf'[p] = "open"
    PROVE  ListedAlive' /\ Numbered' /\ IdsDiffer' /\ OneOutstanding'
<1>1. ListedAlive'
  BY DEF IInv, ListedAlive
<1>2. Numbered'
  BY DEF IInv, Numbered
<1>3. IdsDiffer'
  BY DEF IInv, IdsDiffer
<1>4. OneOutstanding'
  BY DEF IInv, OneOutstanding, Own
<1> QED BY <1>1, <1>2, <1>3, <1>4

LEMMA SessionNewStep ==
    ASSUME IInv, NEW p \in Pcf, SessionNew(p)
    PROVE  IInv' /\ reports' = reports
<1>1. /\ pcf' = [pcf EXCEPT ![p] = "open"]
      /\ UNCHANGED <<apps, mem, made, serial, wire, events, notifs, fault, reports, answered, lost,
                     notified, hasty, contexts>>
  BY DEF SessionNew, history
<1>2. TypeOK'
  BY <1>1 DEF IInv, TypeOK
<1>3. ListedAlive' /\ Numbered' /\ IdsDiffer' /\ OneOutstanding'
  BY <1>1, QuietSound DEF IInv, TypeOK
<1>4. Identified' /\ AnswerOwn' /\ CreationReported' /\ NoFault'
  BY <1>1 DEF IInv, Identified, Creating, AnswerOwn, CreationReported, NoFault
<1> QED BY <1>1, <1>2, <1>3, <1>4 DEF IInv

LEMMA NotifyStep ==
    ASSUME IInv,
           \/ \E n \in notifs : Notify(n)
           \/ \E c \in contexts : PcfNotify(c)
    PROVE  IInv' /\ reports' = reports
<1>1. /\ UNCHANGED <<pcf, apps, mem, made, serial, wire, events, fault, reports, answered, lost,
                     hasty, contexts>>
      /\ notifs' \in SUBSET Context
      /\ notified' \in SUBSET [to: Nat, from: Nat]
  <2>1. ASSUME NEW n \in notifs, Notify(n)
        PROVE  notifs' \in SUBSET Context /\ notified' \in SUBSET [to: Nat, from: Nat]
    <3>1. n.who \in Nat
      BY DEF IInv, TypeOK, Context
    <3>2. Exists(n.a) => mem[n.a].who \in Nat
      BY ExistsSound, Typed DEF IInv
    <3> QED BY <2>1, <3>1, <3>2 DEF Notify, IInv, TypeOK
  <2>2. ASSUME NEW c \in contexts, PcfNotify(c)
        PROVE  notifs' \in SUBSET Context /\ notified' \in SUBSET [to: Nat, from: Nat]
    BY <2>2 DEF PcfNotify, IInv, TypeOK
  <2> QED BY <2>1, <2>2 DEF Notify, PcfNotify, history
<1>2. TypeOK'
  BY <1>1 DEF IInv, TypeOK
<1>3. ListedAlive' /\ Numbered' /\ IdsDiffer' /\ OneOutstanding'
  BY <1>1, QuietSound
<1>4. Identified' /\ AnswerOwn' /\ CreationReported' /\ NoFault'
  BY <1>1 DEF IInv, Identified, Creating, AnswerOwn, CreationReported, NoFault
<1> QED BY <1>1, <1>2, <1>3, <1>4 DEF IInv

LEMMA CompleteStep ==
    ASSUME IInv, NEW r \in wire, NEW out \in Outcomes, Complete(r, out)
    PROVE  IInv' /\ reports' = reports
<1> DEFINE e == [req |-> r, outcome |-> out]
<1>1. /\ wire' = wire \ {r}
      /\ events' = events \cup {e}
      /\ contexts' \in {contexts, CarriedOut(r)}
      /\ UNCHANGED <<pcf, apps, mem, made, serial, notifs, fault, reports, answered, lost,
                     notified, hasty>>
  BY DEF Complete, history
<1>2. r \in Request /\ out \in Outcome /\ e.req = r
      /\ e \in [req: Request, outcome: Outcome]
  BY OutcomeAssumption, Typed DEF IInv
<1> HIDE DEF e
<1>3. CarriedOut(r) \in SUBSET Context
  <2>1. [id |-> r.k, a |-> r.a, who |-> r.who, pcf |-> r.pcf] \in Context
    BY <1>2 DEF Request, Context
  <2>2. CASE r.op = "create"
    BY <2>1, <2>2 DEF CarriedOut, IInv, TypeOK
  <2>3. CASE r.op = "delete"
    BY <2>3 DEF CarriedOut, IInv, TypeOK
  <2>4. CASE r.op \notin {"create", "delete"}
    BY <2>4 DEF CarriedOut, IInv, TypeOK
  <2> QED BY <2>2, <2>3, <2>4
<1>4. TypeOK'
  BY <1>1, <1>2, <1>3 DEF IInv, TypeOK
<1>5. ListedAlive' /\ IdsDiffer'
  BY <1>1 DEF IInv, ListedAlive, IdsDiffer
<1>6. Numbered'
  BY <1>1, <1>2 DEF IInv, Numbered
<1>7. OneOutstanding'
  BY <1>1, <1>2 DEF IInv, OneOutstanding, Own
<1>8. Identified'
  <2>1. ASSUME NEW a \in Addr, Creating(a)
        PROVE  Creating(a)'
    BY <2>1, <1>1, <1>2 DEF Creating
  <2> QED BY <2>1, <1>1 DEF IInv, Identified
<1>9. AnswerOwn' /\ CreationReported' /\ NoFault'
  BY <1>1 DEF IInv, AnswerOwn, CreationReported, NoFault
<1> QED BY <1>1, <1>4, <1>5, <1>6, <1>7, <1>8, <1>9 DEF IInv

(* A request with the next number. *)
LEMMA NumberedSound ==
    ASSUME IInv, serial' = serial + 1, NEW req, req.k = serial + 1,
           wire' \subseteq wire \cup {req}, events' \subseteq events,
           \A a \in Addr : mem'[a].id = mem[a].id \/ mem'[a].id = NoId
    PROVE  Numbered'
<1>1. serial \in Nat /\ \A a \in Addr : mem[a].id \in Nat
  BY Typed DEF IInv, TypeOK
<1>2. \A a \in Addr : mem[a].id <= serial
  BY DEF IInv, Numbered
<1>3. \A r \in wire : r.k \in Nat /\ 1 <= r.k /\ r.k <= serial
  BY <1>1, Typed DEF IInv, Numbered
<1>4. \A e \in events : e.req.k \in Nat /\ 1 <= e.req.k /\ e.req.k <= serial
  BY <1>1, Typed DEF IInv, Numbered
<1>5. \A a \in Addr : mem'[a].id \in Nat /\ mem'[a].id <= serial
  BY <1>1, <1>2 DEF NoId
<1>6. \A a \in Addr : mem'[a].id <= serial' /\ mem'[a].id # req.k
  BY <1>1, <1>5
<1>7. \A r \in wire : \A a \in Addr : mem'[a].id # r.k
  BY <1>3 DEF IInv, Numbered, NoId
<1>8. \A e \in events : \A a \in Addr : mem'[a].id # e.req.k
  BY <1>4 DEF IInv, Numbered, NoId
<1>9. \A r \in wire' : r.k \in 1..serial'
  BY <1>1, <1>3
<1>10. \A e \in events' : e.req.k \in 1..serial'
  BY <1>1, <1>4
<1>11. \A r \in wire : r.k # req.k
  BY <1>1, <1>3
<1>12. \A e \in events : e.req.k # req.k
  BY <1>1, <1>4
<1>13. \A r, q \in wire' : r.k = q.k => r = q
  BY <1>11 DEF IInv, Numbered
<1>14. \A e, f \in events' : e.req.k = f.req.k => e = f
  BY DEF IInv, Numbered
<1>15. \A r \in wire', e \in events' : r.k # e.req.k
  BY <1>12 DEF IInv, Numbered
<1> QED BY <1>6, <1>7, <1>8, <1>9, <1>10, <1>13, <1>14, <1>15 DEF Numbered

-----------------------------------------------------------------------------
(* Answers *)

(* Taking an event keeps the types, and loses nothing from the histories.   *)
LEMMA TakeSound ==
    ASSUME TypeOK, NEW e \in events, Take(e)
    PROVE  /\ events' = events \ {e} /\ events' \in SUBSET [req: Request, outcome: Outcome]
           /\ answered' = IF e.req.op = "create"
                            THEN answered \cup {[who |-> e.req.who, outcome |-> e.outcome]}
                            ELSE answered
           /\ answered' \in SUBSET [who: Nat, outcome: Outcome]
           /\ lost \subseteq lost' /\ lost' \in SUBSET Nat
           /\ ~Definite(e) => lost' # {}
           /\ UNCHANGED <<pcf, notifs, notified, contexts>>
<1> DEFINE d == [who |-> e.req.who, outcome |-> e.outcome]
<1>1. d \in [who: Nat, outcome: Outcome] /\ e.req.who \in Nat
  BY Typed
<1>2. answered' = IF e.req.op = "create" THEN answered \cup {d} ELSE answered
  BY DEF Take
<1> HIDE DEF d
<1>3. answered' \in SUBSET [who: Nat, outcome: Outcome]
  BY <1>1, <1>2 DEF TypeOK
<1>4. lost \subseteq lost' /\ lost' \in SUBSET Nat /\ (~Definite(e) => lost' # {})
  BY <1>1 DEF TypeOK, Take
<1> QED BY <1>3, <1>4 DEF TypeOK, Take

(* An application that waits for each answer gets one of a listed session.  *)
LEMMA AnswerFound ==
    ASSUME IInv, NEW e \in events, ~hasty
    PROVE  /\ Exists(e.req.a)
           /\ mem[e.req.a].who = e.req.who
           /\ mem[e.req.a].pcf = e.req.pcf
           /\ \A a \in Addr : Creating(a) /\ a # e.req.a => mem[a].pcf # e.req.pcf
           /\ e.req.op # "create" => ~Creating(e.req.a)
<1>1. /\ e.req.a \in apps[e.req.pcf] /\ mem[e.req.a].who = e.req.who
      /\ e.req.a \in Addr /\ e.req.pcf \in Pcf
  BY Typed DEF IInv, OneOutstanding, Own
<1>2. Exists(e.req.a) /\ mem[e.req.a].pcf = e.req.pcf
  BY <1>1 DEF IInv, ListedAlive, Exists
<1>3. ASSUME NEW a \in Addr, NEW r \in wire, r.a = a
      PROVE  mem[a].pcf # e.req.pcf
  <2>1. a \in apps[r.pcf] /\ r.pcf \in Pcf /\ r.pcf # e.req.pcf
    BY <1>3, Typed DEF IInv, OneOutstanding, Own
  <2> QED BY <2>1 DEF IInv, ListedAlive
<1>4. ASSUME NEW a \in Addr, NEW f \in events, f.req.a = a, f # e
      PROVE  mem[a].pcf # e.req.pcf
  <2>1. a \in apps[f.req.pcf] /\ f.req.pcf \in Pcf /\ f.req.pcf # e.req.pcf
    BY <1>4, Typed DEF IInv, OneOutstanding, Own
  <2> QED BY <2>1 DEF IInv, ListedAlive
<1>5. \A a \in Addr : Creating(a) /\ a # e.req.a => mem[a].pcf # e.req.pcf
  BY <1>3, <1>4 DEF Creating
<1>6. e.req.op # "create" => ~Creating(e.req.a)
  BY <1>1, <1>2, <1>3, <1>4 DEF Creating
<1> QED BY <1>1, <1>2, <1>5, <1>6

(* Answers that change no session: what is left to show is that the reports *)
(* are right.                                                               *)
LEMMA AnswerSound ==
    ASSUME IInv, NEW e \in events, Take(e),
           UNCHANGED <<apps, mem, made, serial, wire, hasty>>,
           reports' \in SUBSET [to: Nat, what: What, k: Nat, asker: Nat],
           fault' \in {"none", "null", "assert"},
           reports \subseteq reports',
           ~hasty /\ e.outcome \notin Untold => e.req.op # "create",
           ~hasty => \A r \in reports' \ reports : r.to = r.asker,
           fault' # fault => hasty \/ lost # {}
    PROVE  IInv'
<1>1. /\ events' = events \ {e} /\ events' \in SUBSET [req: Request, outcome: Outcome]
      /\ answered' \in SUBSET [who: Nat, outcome: Outcome]
      /\ ~hasty => \A d \in answered' \ answered : d.outcome \in Untold
      /\ lost \subseteq lost' /\ lost' \in SUBSET Nat
      /\ ~Definite(e) => lost' # {}
      /\ UNCHANGED <<pcf, notifs, notified, contexts>>
  BY TakeSound DEF IInv
<1>2. TypeOK'
  BY <1>1 DEF IInv, TypeOK
<1>3. ListedAlive' /\ Numbered' /\ IdsDiffer' /\ OneOutstanding'
  BY <1>1, QuietSound
<1>4. Identified'
  <2>1. ASSUME ~hasty', lost' = {}, NEW a \in Addr, Creating(a)
        PROVE  Creating(a)'
    <3>1. e.outcome \notin Untold
      BY <2>1, <1>1 DEF Definite, Untold
    <3>2. e.req.op # "create"
      BY <2>1, <3>1
    <3> QED BY <2>1, <3>2, <1>1 DEF Creating
  <2> QED BY <2>1, <1>1 DEF IInv, Identified
<1>5. AnswerOwn' /\ CreationReported'
  BY <1>1 DEF IInv, AnswerOwn, CreationReported
<1>6. NoFault'
  BY <1>1 DEF IInv, NoFault
<1> QED BY <1>2, <1>3, <1>4, <1>5, <1>6 DEF IInv

(* What the reports of a step are about: an allocated session. *)
ReportsStep ==
    \A r \in reports' \ reports : \E a \in Addr : mem[a].who = r.to /\ r.to # Nobody

(* The report about a session that exists. *)
LEMMA TellSound ==
    ASSUME IInv, NEW e \in events, NEW a \in Addr, mem[a].who # Nobody, NEW what \in What,
           reports' = reports \cup {Tell(a, what, e.req)}
    PROVE  /\ reports' \in SUBSET [to: Nat, what: What, k: Nat, asker: Nat]
           /\ reports \subseteq reports'
           /\ ReportsStep
           /\ \A r \in reports' \ reports : r.to = mem[a].who /\ r.asker = e.req.who
           /\ \E r \in reports' : r.to = mem[a].who
<1> DEFINE t == Tell(a, what, e.req)
<1>1. /\ t \in [to: Nat, what: What, k: Nat, asker: Nat]
      /\ t.to = mem[a].who /\ t.asker = e.req.who
  BY Typed DEF Tell, IInv
<1> HIDE DEF t
<1>2. reports' = reports \cup {t}
  BY DEF t
<1> QED BY <1>1, <1>2 DEF IInv, TypeOK, ReportsStep

LEMMA KeepingStep ==
    ASSUME IInv, NEW e \in events, RefuseEvent(e) \/ LeaveSession(e) \/ DeleteFaults(e)
    PROVE  IInv' /\ ReportsStep
<1>1. /\ Take(e) /\ reports' = reports
      /\ UNCHANGED <<apps, mem, made, serial, wire, hasty>>
  BY DEF RefuseEvent, LeaveSession, DeleteFaults
<1>2. /\ reports' \in SUBSET [to: Nat, what: What, k: Nat, asker: Nat]
      /\ ReportsStep
  BY <1>1 DEF IInv, TypeOK, ReportsStep
<1>3. CASE RefuseEvent(e)
  <2>1. hasty /\ fault' = fault
    BY <1>3, AnswerFound DEF RefuseEvent
  <2> QED BY <1>1, <1>2, <2>1, AnswerSound DEF IInv, TypeOK
<1>4. CASE LeaveSession(e)
  <2>1. fault' = fault /\ (e.outcome \notin Untold => e.req.op # "create")
    BY <1>4 DEF LeaveSession, Untold
  <2> QED BY <1>1, <1>2, <2>1, AnswerSound DEF IInv, TypeOK
<1>5. CASE DeleteFaults(e)
  <2>1. fault' = "null" /\ e.req.op = "delete" /\ Exists(e.req.a) /\ SearchFaults(e.req.a)
    BY <1>5 DEF DeleteFaults, Ours
  <2>2. ASSUME ~hasty, lost = {} PROVE FALSE
    <3> DEFINE a == e.req.a
    <3>1. a \in Addr /\ mem[a].pcf = e.req.pcf /\ mem[a].who # Nobody /\ ~Creating(a)
      BY <2>1, <2>2, AnswerFound, ExistsSound DEF IInv
    <3>2. \A b \in apps[mem[a].pcf] :
             b \in Addr /\ mem[b].pcf = mem[a].pcf /\ mem[b].who # Nobody
      BY <3>1, Typed DEF IInv, TypeOK, ListedAlive
    <3>3. \A b \in apps[mem[a].pcf] : ~Creating(b)
      BY <2>2, <3>1, <3>2, AnswerFound
    <3>4. mem[a].id # NoId /\ \A b \in apps[mem[a].pcf] : mem[b].id # NoId
      BY <2>2, <3>1, <3>2, <3>3 DEF IInv, Identified
    <3> QED BY <2>1, <3>4 DEF SearchFaults
  <2> QED BY <1>1, <1>2, <2>1, <2>2, AnswerSound
<1> QED BY <1>2, <1>3, <1>4, <1>5

LEMMA TellingStep ==
    ASSUME IInv, NEW e \in events, Updated(e) \/ EventsAnswered(e)
    PROVE  IInv' /\ ReportsStep
<1>1. /\ Take(e) /\ Exists(e.req.a) /\ e.req.op # "create"
      /\ UNCHANGED <<apps, mem, made, serial, wire, hasty, fault>>
      /\ \E what \in What : reports' = reports \cup {Tell(e.req.a, what, e.req)}
  BY DEF Updated, EventsAnswered, Ours, What
<1>2. e.req.a \in Addr /\ mem[e.req.a].who # Nobody
  BY <1>1, ExistsSound DEF IInv
<1>3. /\ reports' \in SUBSET [to: Nat, what: What, k: Nat, asker: Nat]
      /\ reports \subseteq reports' /\ ReportsStep
      /\ \A r \in reports' \ reports : r.to = mem[e.req.a].who /\ r.asker = e.req.who
  BY <1>1, <1>2, TellSound
<1>4. ~hasty => mem[e.req.a].who = e.req.who
  BY AnswerFound
<1> QED BY <1>1, <1>3, <1>4, AnswerSound DEF IInv, TypeOK

LEMMA CreatedStep ==
    ASSUME IInv, NEW e \in events, Created(e)
    PROVE  IInv' /\ ReportsStep
<1> DEFINE a == e.req.a
           m == [who |-> mem[a].who, pcf |-> mem[a].pcf, id |-> e.req.k]
<1>1. /\ Take(e) /\ Exists(a) /\ e.req.op = "create"
      /\ mem' = [mem EXCEPT ![a] = m]
      /\ reports' = reports \cup {Tell(a, "session", e.req)}
      /\ UNCHANGED <<apps, made, serial, wire, fault, hasty>>
  BY DEF Created, Ours, Named
<1>2. a \in Addr /\ mem[a].who # Nobody /\ mem \in [Addr -> AppSession]
  BY <1>1, ExistsSound DEF IInv, TypeOK
<1>3. m \in AppSession /\ m.who = mem[a].who /\ m.pcf = mem[a].pcf /\ m.id = e.req.k
  BY <1>2, Typed DEF IInv, AppSession
<1> HIDE DEF m
<1>4. /\ \A b \in Addr : mem'[b].who = mem[b].who /\ mem'[b].pcf = mem[b].pcf
      /\ \A b \in Addr : b # a => mem'[b].id = mem[b].id
      /\ mem'[a].id = e.req.k
      /\ mem' \in [Addr -> AppSession]
  BY <1>1, <1>2, <1>3
<1>5. /\ events' = events \ {e} /\ events' \in SUBSET [req: Request, outcome: Outcome]
      /\ answered' \in SUBSET [who: Nat, outcome: Outcome]
      /\ \A d \in answered' \ answered : d.who = e.req.who
      /\ lost \subseteq lost' /\ lost' \in SUBSET Nat
      /\ UNCHANGED <<pcf, notifs, notified, contexts>>
  BY <1>1, TakeSound DEF IInv
<1>6. /\ reports' \in SUBSET [to: Nat, what: What, k: Nat, asker: Nat]
      /\ reports \subseteq reports' /\ ReportsStep
      /\ \A r \in reports' \ reports : r.to = mem[a].who /\ r.asker = e.req.who
      /\ \E r \in reports' : r.to = mem[a].who
  BY <1>1, <1>2, TellSound DEF What
<1>7. ~hasty => mem[a].who = e.req.who
  BY AnswerFound
<1> HIDE DEF a
<1>8. TypeOK'
  BY <1>1, <1>4, <1>5, <1>6 DEF IInv, TypeOK
<1>9. ListedAlive'
  <2>1. \A p \in Pcf : \A b \in apps[p] : b \in Addr
    BY DEF IInv, TypeOK
  <2> QED BY <2>1, <1>1, <1>4, <1>5 DEF IInv, ListedAlive
<1>10. Numbered'
  BY <1>1, <1>4, <1>5 DEF IInv, Numbered
<1>11. IdsDiffer'
  BY <1>2, <1>4 DEF IInv, IdsDiffer, Numbered
<1>12. OneOutstanding'
  <2>1. \A r \in wire : r.a \in Addr
    BY Typed DEF IInv
  <2>2. \A f \in events : f.req.a \in Addr
    BY Typed DEF IInv
  <2> QED BY <2>1, <2>2, <1>1, <1>4, <1>5 DEF IInv, OneOutstanding, Own
<1>13. Identified'
  <2>1. \A b \in Addr : b # a /\ Creating(b) => Creating(b)'
    BY <1>1, <1>5 DEF Creating, a
  <2>2. e.req.k # NoId
    BY DEF IInv, Numbered, NoId
  <2> QED BY <2>1, <2>2, <1>1, <1>4, <1>5 DEF IInv, Identified
<1>14. AnswerOwn' /\ CreationReported'
  BY <1>1, <1>5, <1>6, <1>7 DEF IInv, AnswerOwn, CreationReported
<1>15. NoFault'
  BY <1>1, <1>5 DEF IInv, NoFault
<1> QED BY <1>6, <1>8, <1>9, <1>10, <1>11, <1>12, <1>13, <1>14, <1>15 DEF IInv

(* The session of an answer ends: pcf_app_sess_remove, or the answer to a   *)
(* deletion.                                                                *)
LEMMA EndingStep ==
    ASSUME IInv, NEW e \in events, RemoveSession(e) \/ Deleted(e)
    PROVE  IInv' /\ ReportsStep
<1> DEFINE a == e.req.a
           m == [who |-> Nobody, pcf |-> mem[a].pcf, id |-> NoId]
<1>0. Exists(a)
  BY DEF RemoveSession, Deleted, Ours
<1>1. a \in Addr /\ a \in apps[mem[a].pcf] /\ mem[a].who # Nobody /\ mem[a].pcf \in Pcf
  BY <1>0, ExistsSound DEF IInv
<1>2. Deleted(e) => Match(a) = a
  <2>1. a \in SameId(a)
    BY <1>1 DEF SameId
  <2> QED BY <2>1, <1>1, MatchSelf DEF Deleted
<1>3. /\ Take(e)
      /\ reports' = reports \cup {Tell(a, "null", e.req)}
      /\ apps' = [apps EXCEPT ![mem[a].pcf] = apps[mem[a].pcf] \ {a}]
      /\ mem' = [mem EXCEPT ![a] = m]
      /\ UNCHANGED <<made, serial, wire, fault, hasty>>
  BY <1>2 DEF RemoveSession, Deleted, Unlinked, FreedAt
<1>4. m \in AppSession /\ m.who = Nobody /\ m.pcf = mem[a].pcf /\ m.id = NoId
  BY <1>1 DEF AppSession, Nobody, NoId
<1> HIDE DEF m
<1>5. /\ \A b \in Addr : b # a => mem'[b] = mem[b]
      /\ mem'[a].who = Nobody /\ mem'[a].id = NoId
      /\ mem' \in [Addr -> AppSession]
  BY <1>1, <1>3, <1>4 DEF IInv, TypeOK
<1>6. /\ apps' \in [Pcf -> SUBSET Addr]
      /\ \A p \in Pcf : apps'[p] = apps[p] \ {a}
  BY <1>1, <1>3 DEF IInv, TypeOK, ListedAlive
<1>7. /\ events' = events \ {e} /\ events' \in SUBSET [req: Request, outcome: Outcome]
      /\ answered' \in SUBSET [who: Nat, outcome: Outcome]
      /\ \A d \in answered' \ answered : d.who = e.req.who
      /\ lost \subseteq lost' /\ lost' \in SUBSET Nat
      /\ UNCHANGED <<pcf, notifs, notified, contexts>>
  BY <1>3, TakeSound DEF IInv
<1>8. /\ reports' \in SUBSET [to: Nat, what: What, k: Nat, asker: Nat]
      /\ reports \subseteq reports' /\ ReportsStep
      /\ \A r \in reports' \ reports : r.to = mem[a].who /\ r.asker = e.req.who
      /\ \E r \in reports' : r.to = mem[a].who
  BY <1>1, <1>3, TellSound DEF What
<1>9. ~hasty => mem[a].who = e.req.who /\ mem[a].pcf = e.req.pcf
  BY AnswerFound
<1>10. TypeOK'
  BY <1>3, <1>5, <1>6, <1>7, <1>8 DEF IInv, TypeOK
<1>11. ListedAlive'
  <2>1. \A p \in Pcf : \A b \in apps[p] : b \in Addr
    BY DEF IInv, TypeOK
  <2> QED BY <2>1, <1>5, <1>6, <1>7 DEF IInv, ListedAlive
<1>12. Numbered' /\ IdsDiffer'
  BY <1>1, <1>3, <1>5, <1>7 DEF IInv, TypeOK, Numbered, IdsDiffer, NoId
<1>13. OneOutstanding'
  <2> SUFFICES ASSUME ~hasty PROVE OneOutstanding'
    BY <1>3 DEF OneOutstanding
  <2>1. \A r \in wire : r.a \in Addr /\ r.a # a /\ r.pcf \in Pcf
    <3>1. \A r \in wire : r.a \in Addr /\ r.pcf \in Pcf /\ r.a \in apps[r.pcf]
      BY Typed DEF IInv, OneOutstanding, Own
    <3> QED BY <3>1, <1>9 DEF IInv, OneOutstanding, ListedAlive
  <2>2. \A f \in events' : f \in events /\ f.req.a \in Addr /\ f.req.a # a /\ f.req.pcf \in Pcf
    <3>1. \A f \in events : f.req.a \in Addr /\ f.req.pcf \in Pcf /\ f.req.a \in apps[f.req.pcf]
      BY Typed DEF IInv, OneOutstanding, Own
    <3> QED BY <3>1, <1>7, <1>9 DEF IInv, OneOutstanding, ListedAlive
  <2>3. \A b \in Addr : mem[b].pcf \in Pcf
    BY Typed DEF IInv
  <2> QED BY <2>1, <2>2, <2>3, <1>3, <1>5, <1>6 DEF IInv, OneOutstanding, Own
<1>14. Identified'
  <2>1. \A b \in Addr : b # a /\ Creating(b) => Creating(b)'
    BY <1>3, <1>7 DEF Creating
  <2> QED BY <2>1, <1>3, <1>5, <1>7 DEF IInv, Identified
<1>15. AnswerOwn' /\ CreationReported'
  BY <1>3, <1>7, <1>8, <1>9 DEF IInv, AnswerOwn, CreationReported
<1>16. NoFault'
  BY <1>3, <1>7 DEF IInv, NoFault
<1> QED BY <1>8, <1>10, <1>11, <1>12, <1>13, <1>14, <1>15, <1>16 DEF IInv

(* The same when the change callback creates the next session. *)
LEMMA DeletedCreatingStep ==
    ASSUME IInv, NEW e \in events, NEW b \in Addr, DeletedCreating(e, b)
    PROVE  IInv' /\ ReportsStep
<1> DEFINE a == e.req.a
           P == mem[a].pcf
           m == [who |-> Nobody, pcf |-> P, id |-> NoId]
           n == [who |-> made + 1, pcf |-> P, id |-> NoId]
           req == [k |-> serial + 1, op |-> "create", a |-> b, who |-> made + 1, pcf |-> P,
                   target |-> NoId]
<1>0. Exists(a)
  BY DEF DeletedCreating, Ours
<1>1. /\ a \in Addr /\ a \in apps[P] /\ mem[a].who # Nobody /\ P \in Pcf
      /\ pcf[P] = "open"
  BY <1>0, ExistsSound DEF IInv
<1>2. Match(a) = a
  <2>1. a \in SameId(a)
    BY <1>1 DEF SameId
  <2> QED BY <2>1, <1>1, MatchSelf DEF DeletedCreating
<1>3. /\ Take(e) /\ mem[b].who = Nobody
      /\ reports' = reports \cup {Tell(a, "null", e.req)}
      /\ apps' = RelinkedAfter(a, b)
      /\ mem' = [[mem EXCEPT ![a] = m] EXCEPT ![b] = n]
      /\ made' = made + 1 /\ serial' = serial + 1 /\ fault' = fault
      /\ hasty' = (hasty \/ OutstandingBut(e, P) \/ FallsOff(a))
      /\ wire' = wire \cup {req}
      /\ e.req.op = "delete"
  BY <1>2 DEF DeletedCreating, Ours, NewAt, FreedAt, CreateRequest
<1>4. /\ m \in AppSession /\ m.who = Nobody /\ m.id = NoId
      /\ n \in AppSession /\ n.who = made + 1 /\ n.pcf = P /\ n.id = NoId
      /\ req \in Request /\ req.k = serial + 1 /\ req.a = b /\ req.who = made + 1
      /\ req.pcf = P /\ req.op = "create"
  BY <1>1 DEF IInv, TypeOK, AppSession, Request, Op, Nobody, NoId
<1> HIDE DEF m, n, req
<1>5. /\ \A c \in Addr \ {a, b} : mem'[c] = mem[c]
      /\ mem'[b] = n /\ a # b /\ mem'[a] = m
      /\ mem' \in [Addr -> AppSession]
  BY <1>1, <1>3, <1>4 DEF IInv, TypeOK
<1>6. /\ apps' \in [Pcf -> SUBSET Addr]
      /\ \A p \in Pcf : a \notin apps'[p] /\ apps'[p] \subseteq apps[p] \cup {b}
      /\ \A p \in Pcf : p # P => b \notin apps'[p] /\ apps'[p] = apps[p]
      /\ ~FallsOff(a) => apps'[P] = (apps[P] \ {a}) \cup {b}
  <2>1. \A p \in Pcf : b \notin apps[p] /\ (p # P => a \notin apps[p])
    BY <1>3 DEF IInv, ListedAlive
  <2>2. a # b
    BY <1>1, <1>3
  <2>3. \/ apps' = [apps EXCEPT ![P] = (apps[P] \ {a}) \cup {b}]
        \/ apps' = [apps EXCEPT ![P] = apps[P] \ {a}] /\ FallsOff(a)
    BY <1>3 DEF RelinkedAfter, Unlinked
  <2>4. apps \in [Pcf -> SUBSET Addr]
    BY DEF IInv, TypeOK
  <2> HIDE DEF a, P
  <2>5. CASE apps' = [apps EXCEPT ![P] = (apps[P] \ {a}) \cup {b}]
    BY <1>1, <2>1, <2>2, <2>4, <2>5
  <2>6. CASE apps' = [apps EXCEPT ![P] = apps[P] \ {a}] /\ FallsOff(a)
    BY <1>1, <2>1, <2>3, <2>4, <2>6
  <2> QED BY <2>3, <2>5, <2>6
<1>7. /\ events' = events \ {e} /\ events' \in SUBSET [req: Request, outcome: Outcome]
      /\ answered' = answered /\ lost \subseteq lost' /\ lost' \in SUBSET Nat
      /\ UNCHANGED <<pcf, notifs, notified, contexts>>
  BY <1>3, TakeSound DEF IInv
<1>8. /\ reports' \in SUBSET [to: Nat, what: What, k: Nat, asker: Nat]
      /\ reports \subseteq reports' /\ ReportsStep
      /\ \A r \in reports' \ reports : r.to = mem[a].who /\ r.asker = e.req.who
  BY <1>1, <1>3, TellSound DEF What
<1>9. TypeOK'
  <2>1. made' \in Nat /\ serial' \in Nat /\ wire' \in SUBSET Request
    BY <1>3, <1>4 DEF IInv, TypeOK
  <2>2. hasty' \in BOOLEAN
    BY <1>3 DEF IInv, TypeOK, OutstandingBut, FallsOff
  <2> QED BY <2>1, <2>2, <1>3, <1>5, <1>6, <1>7, <1>8 DEF IInv, TypeOK
<1>10. ListedAlive'
  <2>1. made + 1 # Nobody
    BY DEF IInv, TypeOK, Nobody
  <2>2. ASSUME NEW p \in Pcf, NEW c \in apps'[p]
        PROVE  pcf'[p] = "open" /\ mem'[c].who # Nobody /\ mem'[c].pcf = p
    <3>1. CASE c = b
      BY <3>1, <2>1, <2>2, <1>1, <1>4, <1>5, <1>6, <1>7
    <3>2. CASE c # b
      <4>1. c \in apps[p] /\ c # a /\ c \in Addr
        BY <3>2, <2>2, <1>6 DEF IInv, TypeOK
      <4> QED BY <4>1, <3>2, <1>5, <1>7 DEF IInv, ListedAlive
    <3> QED BY <3>1, <3>2
  <2> QED BY <2>2 DEF ListedAlive
<1>11. IdsDiffer'
  <2>1. \A c \in Addr : mem'[c].id = mem[c].id \/ mem'[c].id = NoId
    BY <1>4, <1>5
  <2> QED BY <2>1 DEF IInv, IdsDiffer
<1>12. Numbered'
  <2>1. \A c \in Addr : mem'[c].id = mem[c].id \/ mem'[c].id = NoId
    BY <1>4, <1>5
  <2> QED BY <2>1, <1>3, <1>4, <1>7, NumberedSound
<1>13. NoFault'
  BY <1>3, <1>7 DEF IInv, NoFault
<1>14. AnswerOwn' /\ CreationReported'
  <2>1. ~hasty => mem[a].who = e.req.who
    BY AnswerFound
  <2> QED BY <2>1, <1>3, <1>7, <1>8 DEF IInv, AnswerOwn, CreationReported
<1>15. ASSUME ~hasty'
       PROVE  /\ \A r \in wire : r.a \in Addr \ {a, b} /\ r.pcf \in Pcf \ {P}
              /\ \A f \in events' : /\ f \in events /\ f.req.a \in Addr \ {a, b}
                                    /\ f.req.pcf \in Pcf \ {P}
  <2>1. ~hasty /\ ~OutstandingBut(e, P)
    BY <1>3, <1>15
  <2>2. \A p \in Pcf \ {P} : a \notin apps[p] /\ b \notin apps[p]
    BY <1>3 DEF IInv, ListedAlive
  <2>3. \A r \in wire : r.a \in Addr /\ r.a \in apps[r.pcf] /\ r.pcf \in Pcf \ {P}
    BY <2>1, Typed DEF IInv, OneOutstanding, Own, OutstandingBut
  <2>4. \A f \in events \ {e} : /\ f.req.a \in Addr /\ f.req.a \in apps[f.req.pcf]
                               /\ f.req.pcf \in Pcf \ {P}
    BY <2>1, Typed DEF IInv, OneOutstanding, Own, OutstandingBut
  <2> QED BY <2>2, <2>3, <2>4, <1>7
<1>16. OneOutstanding'
  <2> SUFFICES ASSUME ~hasty' PROVE OneOutstanding'
    BY DEF OneOutstanding
  <2>1. ~hasty /\ apps'[P] = (apps[P] \ {a}) \cup {b}
    BY <1>3, <1>6
  <2>2. \A c \in Addr : mem'[c].who # Nobody => c \in apps'[mem'[c].pcf]
    <3> SUFFICES ASSUME NEW c \in Addr, mem'[c].who # Nobody PROVE c \in apps'[mem'[c].pcf]
      OBVIOUS
    <3>1. CASE c = b
      BY <3>1, <2>1, <1>4, <1>5
    <3>2. CASE c # b
      <4>1. c # a /\ mem'[c] = mem[c] /\ mem[c].pcf \in Pcf
        BY <3>2, <1>4, <1>5, Typed DEF IInv
      <4>2. c \in apps[mem[c].pcf]
        BY <4>1, <2>1 DEF IInv, OneOutstanding
      <4> QED BY <4>1, <4>2, <2>1, <1>6
    <3> QED BY <3>1, <3>2
  <2>3. \A r \in wire : Own(r)'
    BY <2>1, <1>5, <1>6, <1>15 DEF IInv, OneOutstanding, Own
  <2>4. \A f \in events' : Own(f.req)'
    BY <2>1, <1>5, <1>6, <1>15 DEF IInv, OneOutstanding, Own
  <2>5. mem'[req.a].who = req.who /\ req.a \in apps'[req.pcf]
    BY <2>1, <1>4, <1>5
  <2>6. \A r, q \in wire' : r.pcf = q.pcf => r = q
    BY <2>1, <1>3, <1>4, <1>15 DEF IInv, OneOutstanding
  <2>7. \A f, g \in events' : f.req.pcf = g.req.pcf => f = g
    BY <2>1, <1>15 DEF IInv, OneOutstanding
  <2>8. \A r \in wire', f \in events' : r.pcf # f.req.pcf
    BY <2>1, <1>3, <1>4, <1>15 DEF IInv, OneOutstanding
  <2>9. \A r \in wire' : mem'[r.a].who = r.who /\ r.a \in apps'[r.pcf]
    BY <2>3, <2>5, <1>3 DEF Own
  <2> QED BY <2>2, <2>4, <2>6, <2>7, <2>8, <2>9 DEF OneOutstanding, Own
<1>17. Identified'
  <2>1. \A c \in Addr : Creating(c) => Creating(c)'
    BY <1>3, <1>7 DEF Creating
  <2>2. Creating(b)'
    BY <1>3, <1>4 DEF Creating
  <2>3. (~hasty' => ~hasty) /\ (lost' = {} => lost = {})
    BY <1>3, <1>7
  <2> QED BY <2>1, <2>2, <2>3, <1>4, <1>5 DEF IInv, Identified
<1> QED BY <1>8, <1>9, <1>10, <1>11, <1>12, <1>13, <1>14, <1>16, <1>17 DEF IInv

-----------------------------------------------------------------------------
(* Calls of the application *)

(* A PCF session with nothing outstanding creates no session. *)
LEMMA NothingCreating ==
    ASSUME IInv, ~hasty, NEW p \in Pcf, ~Outstanding(p), NEW a \in Addr, mem[a].pcf = p
    PROVE  ~Creating(a)
<1>1. ASSUME NEW r \in wire, r.a = a PROVE FALSE
  <2>1. a \in apps[r.pcf] /\ r.pcf \in Pcf /\ r.pcf # p
    BY <1>1, Typed DEF IInv, OneOutstanding, Own, Outstanding
  <2> QED BY <2>1 DEF IInv, ListedAlive
<1>2. ASSUME NEW e \in events, e.req.a = a PROVE FALSE
  <2>1. a \in apps[e.req.pcf] /\ e.req.pcf \in Pcf /\ e.req.pcf # p
    BY <1>2, Typed DEF IInv, OneOutstanding, Own, Outstanding
  <2> QED BY <2>1 DEF IInv, ListedAlive
<1> QED BY <1>1, <1>2 DEF Creating

LEMMA CreateStep ==
    ASSUME IInv, NEW p \in Pcf, NEW a \in Addr, CreateAppSession(p, a)
    PROVE  IInv' /\ reports' = reports
<1> DEFINE n == [who |-> made + 1, pcf |-> p, id |-> NoId]
           req == CreateRequest(a, p)
<1>1. /\ pcf[p] = "open" /\ mem[a].who = Nobody
      /\ mem' = [mem EXCEPT ![a] = n]
      /\ apps' = [apps EXCEPT ![p] = apps[p] \cup {a}]
      /\ made' = made + 1 /\ serial' = req.k
      /\ \/ wire' = wire \cup {req} /\ lost' = lost
         \/ wire' = wire /\ lost' = lost \cup {req.who}
      /\ hasty' = (hasty \/ Outstanding(p))
      /\ UNCHANGED <<pcf, events, notifs, fault, reports, notified, answered, contexts>>
  BY DEF CreateAppSession, NewAt, Send
<1>2. /\ n \in AppSession /\ n.who = made + 1 /\ n.pcf = p /\ n.id = NoId /\ n.who # Nobody
      /\ req \in Request /\ req.k = serial + 1 /\ req.who = made + 1 /\ req.pcf = p /\ req.a = a
      /\ req.op = "create" /\ req.who \in Nat
  BY DEF IInv, TypeOK, AppSession, CreateRequest, Request, Op, NoId, Nobody
<1> HIDE DEF n, req
<1>3. /\ \A b \in Addr : b # a => mem'[b] = mem[b]
      /\ mem'[a] = n /\ mem' \in [Addr -> AppSession]
      /\ apps' \in [Pcf -> SUBSET Addr]
      /\ apps'[p] = apps[p] \cup {a} /\ \A q \in Pcf : q # p => apps'[q] = apps[q]
  BY <1>1, <1>2 DEF IInv, TypeOK
<1>4. \A q \in Pcf : a \notin apps[q]
  BY <1>1 DEF IInv, ListedAlive
<1>5. hasty' \in BOOLEAN
  BY <1>1 DEF IInv, TypeOK, Outstanding
<1>6. TypeOK'
  <2>1. serial' \in Nat /\ made' \in Nat
    BY <1>1, <1>2 DEF IInv, TypeOK
  <2>2. wire' \in SUBSET Request /\ lost' \in SUBSET Nat
    BY <1>1, <1>2 DEF IInv, TypeOK
  <2> QED BY <2>1, <2>2, <1>1, <1>3, <1>5 DEF IInv, TypeOK
<1>7. ListedAlive'
  <2>1. \A q \in Pcf : \A b \in apps[q] : b \in Addr
    BY DEF IInv, TypeOK
  <2> QED BY <2>1, <1>1, <1>2, <1>3, <1>4 DEF IInv, ListedAlive
<1>8. Numbered' /\ IdsDiffer'
  <2>1. \A b \in Addr : mem'[b].id = mem[b].id \/ mem'[b].id = NoId
    BY <1>2, <1>3
  <2>2. Numbered'
    BY <2>1, <1>1, <1>2, NumberedSound
  <2>3. IdsDiffer'
    BY <2>1 DEF IInv, IdsDiffer
  <2> QED BY <2>2, <2>3
<1>9. OneOutstanding'
  <2> SUFFICES ASSUME ~hasty, ~Outstanding(p) PROVE OneOutstanding'
    BY <1>1 DEF OneOutstanding
  <2>1. \A r \in wire : r.a \in Addr /\ r.a # a /\ r.pcf \in Pcf /\ r.pcf # p
    BY <1>4, Typed DEF IInv, OneOutstanding, Own, Outstanding
  <2>2. \A e \in events : e.req.a \in Addr /\ e.req.a # a /\ e.req.pcf \in Pcf /\ e.req.pcf # p
    BY <1>4, Typed DEF IInv, OneOutstanding, Own, Outstanding
  <2>3. \A r \in wire : Own(r)'
    BY <2>1, <1>3 DEF IInv, OneOutstanding, Own
  <2>4. \A e \in events : Own(e.req)'
    BY <2>2, <1>3 DEF IInv, OneOutstanding, Own
  <2>5. mem'[req.a].who = req.who /\ req.a \in apps'[req.pcf]
    BY <1>2, <1>3
  <2>6. \A b \in Addr : mem'[b].who # Nobody => b \in apps'[mem'[b].pcf]
    <3>1. \A b \in Addr : mem[b].pcf \in Pcf
      BY Typed DEF IInv
    <3> QED BY <3>1, <1>2, <1>3 DEF IInv, OneOutstanding
  <2>7. /\ \A r \in wire' : mem'[r.a].who = r.who /\ r.a \in apps'[r.pcf]
        /\ \A r, q \in wire' : r.pcf = q.pcf => r = q
        /\ \A r \in wire', e \in events' : r.pcf # e.req.pcf
        /\ \A e, f \in events' : e.req.pcf = f.req.pcf => e = f
    BY <2>1, <2>2, <2>3, <2>5, <1>1, <1>2 DEF IInv, OneOutstanding, Own
  <2> QED BY <2>4, <2>6, <2>7, <1>1 DEF OneOutstanding, Own
<1>10. Identified'
  <2>1. \A b \in Addr : b # a /\ Creating(b) => Creating(b)'
    BY <1>1 DEF Creating
  <2>2. lost' = {} => Creating(a)' /\ lost = {}
    BY <1>1, <1>2 DEF Creating
  <2>3. ~hasty' => ~hasty
    BY <1>1
  <2> QED BY <2>1, <2>2, <2>3, <1>3 DEF IInv, Identified
<1>11. AnswerOwn' /\ CreationReported' /\ NoFault'
  BY <1>1 DEF IInv, AnswerOwn, CreationReported, NoFault
<1> QED BY <1>1, <1>6, <1>7, <1>8, <1>9, <1>10, <1>11 DEF IInv

(* A request of an existing session. *)
LEMMA RequestSound ==
    ASSUME IInv, NEW a \in Addr, NEW op \in Op, Ask(a), Send(NewRequest(op, a)), UNCHANGED fault
    PROVE  IInv' /\ reports' = reports
<1> DEFINE req == NewRequest(op, a)
           p == mem[a].pcf
<1>1. /\ serial' = req.k
      /\ \/ wire' = wire \cup {req} /\ lost' = lost
         \/ wire' = wire /\ lost' = lost \cup {req.who}
      /\ hasty' = (hasty \/ Outstanding(p))
      /\ UNCHANGED <<pcf, apps, mem, made, events, notifs, reports, notified, answered, contexts,
                     fault>>
      /\ mem[a].who # Nobody
  BY DEF Ask, Send, Holds
<1>2. /\ req \in Request /\ req.k = serial + 1 /\ req.who = mem[a].who /\ req.pcf = p
      /\ req.a = a /\ req.who \in Nat /\ p \in Pcf
  BY Typed DEF IInv, TypeOK, NewRequest, Request
<1> HIDE DEF req
<1>3. hasty' \in BOOLEAN
  BY <1>1 DEF IInv, TypeOK, Outstanding
<1>4. TypeOK'
  <2>1. serial' \in Nat
    BY <1>1, <1>2 DEF IInv, TypeOK
  <2>2. wire' \in SUBSET Request /\ lost' \in SUBSET Nat
    BY <1>1, <1>2 DEF IInv, TypeOK
  <2> QED BY <2>1, <2>2, <1>1, <1>3 DEF IInv, TypeOK
<1>5. ListedAlive' /\ IdsDiffer'
  BY <1>1 DEF IInv, ListedAlive, IdsDiffer
<1>6. Numbered'
  BY <1>1, <1>2, NumberedSound
<1>7. OneOutstanding'
  <2> SUFFICES ASSUME ~hasty, ~Outstanding(p) PROVE OneOutstanding'
    BY <1>1 DEF OneOutstanding
  <2>1. \A r \in wire : r.pcf # p
    BY DEF Outstanding
  <2>2. \A e \in events : e.req.pcf # p
    BY DEF Outstanding
  <2>3. a \in apps[p]
    BY <1>1 DEF IInv, OneOutstanding
  <2>4. Own(req)
    BY <2>3, <1>2 DEF Own
  <2> QED BY <2>1, <2>2, <2>4, <1>1, <1>2 DEF IInv, OneOutstanding, Own
<1>8. Identified'
  <2>1. \A b \in Addr : Creating(b) => Creating(b)'
    BY <1>1 DEF Creating
  <2>2. lost' = {} => lost = {}
    BY <1>1
  <2>3. ~hasty' => ~hasty
    BY <1>1
  <2> QED BY <2>1, <2>2, <2>3, <1>1 DEF IInv, Identified
<1>9. AnswerOwn' /\ CreationReported' /\ NoFault'
  BY <1>1 DEF IInv, AnswerOwn, CreationReported, NoFault
<1> QED BY <1>1, <1>4, <1>5, <1>6, <1>7, <1>8, <1>9 DEF IInv

(* A call that would stop the program is not made by an application that    *)
(* waits for each answer, as long as no request is lost.                    *)
LEMMA CrashSound ==
    ASSUME IInv, NEW a \in Addr, Ask(a), SearchFaults(a) \/ mem[a].id = NoId,
           NEW how \in {"null", "assert"}, Crash(how)
    PROVE  IInv' /\ reports' = reports
<1> DEFINE p == mem[a].pcf
<1>1. /\ fault' = how /\ hasty' = (hasty \/ Outstanding(p))
      /\ UNCHANGED <<serial, wire, lost, pcf, apps, mem, made, events, notifs, reports, notified,
                     answered, contexts>>
      /\ mem[a].who # Nobody /\ p \in Pcf
  BY Typed DEF Ask, Crash, Holds, IInv
<1>2. hasty' \in BOOLEAN
  BY <1>1 DEF IInv, TypeOK, Outstanding
<1>3. TypeOK'
  BY <1>1, <1>2 DEF IInv, TypeOK
<1>4. ListedAlive' /\ Numbered' /\ IdsDiffer' /\ OneOutstanding'
  <2>1. \/ hasty'
        \/ UNCHANGED <<apps, mem, serial, hasty, pcf, wire, events>>
    BY <1>1 DEF IInv, TypeOK
  <2>2. ListedAlive' /\ IdsDiffer'
    BY <1>1 DEF IInv, ListedAlive, IdsDiffer
  <2>3. Numbered'
    BY <1>1 DEF IInv, Numbered
  <2>4. OneOutstanding'
    BY <2>1 DEF IInv, OneOutstanding, Own
  <2> QED BY <2>2, <2>3, <2>4
<1>5. Identified' /\ AnswerOwn' /\ CreationReported'
  BY <1>1 DEF IInv, Identified, Creating, AnswerOwn, CreationReported
<1>6. NoFault'
  <2> SUFFICES ASSUME ~hasty, ~Outstanding(p), lost = {} PROVE FALSE
    BY <1>1 DEF NoFault
  <2>1. \A b \in apps[p] : b \in Addr /\ mem[b].pcf = p /\ mem[b].who # Nobody
    BY <1>1 DEF IInv, TypeOK, ListedAlive
  <2>2. \A b \in Addr : mem[b].pcf = p => ~Creating(b)
    BY <1>1, NothingCreating
  <2>3. mem[a].id # NoId
    BY <2>2, <1>1 DEF IInv, Identified
  <2>4. \A b \in apps[p] : mem[b].id # NoId
    BY <2>1, <2>2 DEF IInv, Identified
  <2> QED BY <2>3, <2>4 DEF SearchFaults
<1> QED BY <1>1, <1>3, <1>4, <1>5, <1>6 DEF IInv

LEMMA AskStep ==
    ASSUME IInv, NEW a \in Addr, UpdateAppSession(a) \/ SubscribeEvents(a) \/ FreeAppSession(a)
    PROVE  IInv' /\ reports' = reports
<1>1. CASE UpdateAppSession(a)
  <2>1. CASE SearchFaults(a)
    BY <1>1, <2>1, CrashSound DEF UpdateAppSession
  <2>2. CASE ~SearchFaults(a)
    <3>1. Match(a) = a
      BY <1>1, <2>2, MatchSelf DEF UpdateAppSession
    <3> QED BY <1>1, <2>2, <3>1, RequestSound DEF UpdateAppSession, Op
  <2> QED BY <2>1, <2>2
<1>2. CASE SubscribeEvents(a)
  BY <1>2, RequestSound DEF SubscribeEvents, Op
<1>3. CASE FreeAppSession(a)
  <2>1. CASE mem[a].id = NoId
    BY <1>3, <2>1, CrashSound DEF FreeAppSession
  <2>2. CASE mem[a].id # NoId
    BY <1>3, <2>2, RequestSound DEF FreeAppSession, Op
  <2> QED BY <2>1, <2>2
<1> QED BY <1>1, <1>2, <1>3

(* pcf_session_free and pcf_service_consumer_final *)
LEMMA FreeAllStep ==
    ASSUME IInv, NEW P \in SUBSET Pcf, FreeAll(P)
    PROVE  IInv' /\ ReportsStep
<1> DEFINE G == {a \in Addr : \E p \in P : a \in apps[p]}
           T(a) == [to |-> mem[a].who, what |-> "null", k |-> 0, asker |-> mem[a].who]
<1>1. /\ mem' = [a \in Addr |-> IF a \in G THEN [who |-> Nobody, pcf |-> mem[a].pcf, id |-> NoId]
                                 ELSE mem[a]]
      /\ apps' = [p \in Pcf |-> IF p \in P THEN {} ELSE apps[p]]
      /\ pcf' = [p \in Pcf |-> IF p \in P THEN "freed" ELSE pcf[p]]
      /\ wire' = {r \in wire : r.pcf \notin P}
      /\ hasty' = (hasty \/ \E p \in P : Outstanding(p))
      /\ UNCHANGED <<made, serial, events, notifs, fault, notified, answered, lost, contexts>>
  BY DEF FreeAll
<1>2. reports' = reports \cup {T(a) : a \in G}
  <2>1. UNION {apps[p] : p \in P} = G
    BY DEF IInv, TypeOK
  <2>2. reports' = reports \cup {T(a) : a \in UNION {apps[p] : p \in P}}
    BY DEF FreeAll
  <2> QED BY <2>1, <2>2
<1>3. \A a \in Addr : /\ a \notin G => mem'[a] = mem[a]
                      /\ a \in G => mem'[a].who = Nobody /\ mem'[a].id = NoId
                      /\ mem'[a].pcf = mem[a].pcf
                      /\ mem'[a] \in AppSession
  BY <1>1, Typed DEF IInv, AppSession, Nobody, NoId
<1>4. mem' \in [Addr -> AppSession]
  <2>1. mem' = [a \in Addr |-> mem'[a]]
    BY <1>1
  <2> QED BY <2>1, <1>3
<1>5. \A a \in G : /\ a \in Addr /\ mem[a].who # Nobody /\ mem[a].pcf \in P
                   /\ T(a) \in [to: Nat, what: What, k: Nat, asker: Nat]
                   /\ T(a).to = mem[a].who /\ T(a).asker = mem[a].who
  <2> SUFFICES ASSUME NEW a \in G
               PROVE  /\ a \in Addr /\ mem[a].who # Nobody /\ mem[a].pcf \in P
                      /\ T(a) \in [to: Nat, what: What, k: Nat, asker: Nat]
                      /\ T(a).to = mem[a].who /\ T(a).asker = mem[a].who
    OBVIOUS
  <2>1. a \in Addr /\ \E p \in P : a \in apps[p]
    OBVIOUS
  <2>2. mem[a].who # Nobody /\ mem[a].pcf \in P
    BY <2>1 DEF IInv, ListedAlive
  <2>3. mem[a].who \in Nat
    BY <2>1, Typed DEF IInv
  <2> QED BY <2>1, <2>2, <2>3 DEF What
<1>6. /\ reports' \in SUBSET [to: Nat, what: What, k: Nat, asker: Nat]
      /\ reports \subseteq reports'
      /\ ReportsStep
      /\ \A r \in reports' \ reports : r.to = r.asker
  <2> HIDE DEF T, G
  <2> QED BY <1>2, <1>5 DEF IInv, TypeOK, ReportsStep
<1>7. hasty' \in BOOLEAN
  BY <1>1 DEF IInv, TypeOK, Outstanding
<1>8. /\ apps' \in [Pcf -> SUBSET Addr]
      /\ pcf' \in [Pcf -> {"none", "open", "freed"}]
      /\ \A p \in Pcf : p \notin P => apps'[p] = apps[p] /\ pcf'[p] = pcf[p]
      /\ \A p \in P : apps'[p] = {}
  BY <1>1 DEF IInv, TypeOK
<1>9. TypeOK'
  BY <1>1, <1>4, <1>6, <1>7, <1>8 DEF IInv, TypeOK
<1>10. \A p \in Pcf : p \notin P => \A a \in apps[p] : a \in Addr /\ a \notin G
  BY <1>5 DEF IInv, TypeOK, ListedAlive
<1> HIDE DEF G
<1>11. ListedAlive'
  BY <1>3, <1>8, <1>10 DEF IInv, ListedAlive
<1>12. \A a \in Addr : mem'[a].id = mem[a].id \/ mem'[a].id = NoId
  BY <1>3
<1>13. IdsDiffer'
  BY <1>12 DEF IInv, IdsDiffer
<1>14. Numbered'
  <2>1. \A a \in Addr : mem'[a].id <= serial
    BY <1>12 DEF IInv, TypeOK, Numbered, NoId
  <2>2. \A r \in wire : \A a \in Addr : mem'[a].id # r.k
    BY <1>12 DEF IInv, Numbered, NoId
  <2>3. \A e \in events : \A a \in Addr : mem'[a].id # e.req.k
    BY <1>12 DEF IInv, Numbered, NoId
  <2> QED BY <2>1, <2>2, <2>3, <1>1 DEF IInv, Numbered
<1>15. OneOutstanding'
  <2> SUFFICES ASSUME ~hasty, \A p \in P : ~Outstanding(p) PROVE OneOutstanding'
    BY <1>1 DEF OneOutstanding
  <2>1. \A r \in wire : /\ r.a \in Addr /\ r.pcf \in Pcf /\ r.pcf \notin P
                        /\ r.a \in apps[r.pcf] /\ mem[r.a].who = r.who
    BY Typed DEF IInv, OneOutstanding, Own, Outstanding
  <2>2. \A e \in events : /\ e.req.a \in Addr /\ e.req.pcf \in Pcf /\ e.req.pcf \notin P
                          /\ e.req.a \in apps[e.req.pcf] /\ mem[e.req.a].who = e.req.who
    BY Typed DEF IInv, OneOutstanding, Own, Outstanding
  <2>3. \A r \in wire : Own(r)'
    BY <2>1, <1>3, <1>8, <1>10 DEF Own
  <2>4. \A e \in events : Own(e.req)'
    BY <2>2, <1>3, <1>8, <1>10 DEF Own
  <2>5. \A a \in Addr : mem'[a].who # Nobody => a \in apps'[mem'[a].pcf]
    <3> SUFFICES ASSUME NEW a \in Addr, mem'[a].who # Nobody PROVE a \in apps'[mem'[a].pcf]
      OBVIOUS
    <3>1. a \notin G /\ mem'[a] = mem[a] /\ mem[a].pcf \in Pcf
      BY <1>3, Typed DEF IInv
    <3>2. a \in apps[mem[a].pcf]
      BY <3>1 DEF IInv, OneOutstanding
    <3>3. mem[a].pcf \notin P
      BY <3>1, <3>2 DEF G
    <3> QED BY <3>1, <3>2, <3>3, <1>8
  <2> QED BY <2>3, <2>4, <2>5, <1>1 DEF IInv, OneOutstanding
<1>16. Identified'
  <2> SUFFICES ASSUME ~hasty, \A p \in P : ~Outstanding(p), lost = {} PROVE Identified'
    BY <1>1 DEF Identified
  <2>1. wire' = wire
    BY <1>1 DEF Outstanding
  <2>2. \A a \in Addr : Creating(a) => Creating(a)'
    BY <2>1, <1>1 DEF Creating
  <2> QED BY <2>2, <1>1, <1>3 DEF IInv, Identified
<1>17. AnswerOwn' /\ CreationReported' /\ NoFault'
  BY <1>1, <1>6 DEF IInv, AnswerOwn, CreationReported, NoFault
<1> QED BY <1>6, <1>9, <1>11, <1>13, <1>14, <1>15, <1>16, <1>17 DEF IInv

-----------------------------------------------------------------------------
(* The contexts at the PCF *)

(* The session of a context has its id. *)
Held(c) == mem[c.a].who = c.who /\ mem[c.a].pcf = c.pcf /\ mem[c.a].id = c.id

(* The PCF has answered the creation of a context, and the answer is in the *)
(* queue.                                                                   *)
AnswerOf(e, c) ==
    /\ e.req.op = "create" /\ e.outcome # "refused"
    /\ e.req.a = c.a /\ e.req.who = c.who /\ e.req.pcf = c.pcf /\ e.req.k = c.id

Accounted(c) ==
    \/ Held(c)
    \/ \E e \in events : AnswerOf(e, c)
    \/ c.who \in lost
    \/ pcf[c.pcf] = "freed"

ContextsAccounted ==
    ~hasty => \A c \in contexts : c.id # NoId /\ c.who # Nobody /\ Accounted(c)

(* A session has no id before its creation is answered, a deletion names    *)
(* the id of its session, and the context of an answered one is gone.       *)
RequestsMatch ==
    ~hasty =>
        /\ \A r \in wire : /\ r.op = "create" => mem[r.a].id = NoId
                           /\ r.op = "delete" => r.target = mem[r.a].id
        /\ \A e \in events :
              /\ e.req.op = "create" => mem[e.req.a].id = NoId
              /\ e.req.op = "delete" /\ e.outcome = "ok" =>
                    \A c \in contexts : c.id # mem[e.req.a].id

Retained == ContextsAccounted /\ RequestsMatch

(* Steps that change neither the sessions nor the requests.                 *)
LEMMA RetainedFrame ==
    ASSUME Retained, UNCHANGED <<mem, contexts, wire, events>>, lost \subseteq lost',
           ~hasty' => ~hasty, IInv,
           \A p \in Pcf : pcf[p] = "freed" => pcf'[p] = "freed"
    PROVE  Retained'
<1>1. \A c \in contexts : c.pcf \in Pcf
  BY DEF IInv, TypeOK, Context
<1>2. ContextsAccounted'
  BY <1>1 DEF Retained, ContextsAccounted, Accounted, Held, AnswerOf
<1>3. RequestsMatch'
  BY DEF Retained, RequestsMatch
<1> QED BY <1>2, <1>3 DEF Retained

(* While the application waits for each answer, requests outstanding        *)
(* together are of different sessions.                                      *)
LEMMA OwnAddress ==
    ASSUME IInv, ~hasty
    PROVE  /\ \A r \in wire : r.a \in Addr /\ mem[r.a].pcf = r.pcf /\ mem[r.a].who = r.who
                              /\ r.who # Nobody
           /\ \A e \in events : /\ e.req.a \in Addr /\ mem[e.req.a].pcf = e.req.pcf
                                /\ mem[e.req.a].who = e.req.who
                                /\ \A r \in wire : r.a # e.req.a
                                /\ \A f \in events \ {e} : f.req.a # e.req.a
<1>1. \A r \in wire : r.a \in Addr /\ mem[r.a].pcf = r.pcf /\ mem[r.a].who = r.who
                      /\ r.who # Nobody
  BY Typed DEF IInv, OneOutstanding, Own, ListedAlive
<1>2. \A e \in events : /\ e.req.a \in Addr /\ mem[e.req.a].pcf = e.req.pcf
                        /\ mem[e.req.a].who = e.req.who
  BY Typed DEF IInv, OneOutstanding, Own, ListedAlive
<1>3. \A e \in events : \A r \in wire : r.a # e.req.a
  BY <1>1, <1>2 DEF IInv, OneOutstanding
<1>4. \A e \in events : \A f \in events \ {e} : f.req.a # e.req.a
  BY <1>2 DEF IInv, OneOutstanding
<1> QED BY <1>1, <1>2, <1>3, <1>4

(* An event is taken, and changes the session it is for at most.            *)
LEMMA RetainedTaken ==
    ASSUME IInv, Retained, NEW e \in events, Take(e), UNCHANGED <<wire, hasty>>,
           \A b \in Addr : b # e.req.a => mem'[b] = mem[b],
           ~hasty => \A c \in contexts :
               Held(c) /\ c.a = e.req.a => Held(c)' \/ c.who \in lost',
           ~hasty /\ e.outcome = "ok" => \A c \in contexts : AnswerOf(e, c) => Held(c)'
    PROVE  Retained'
<1> SUFFICES ASSUME ~hasty PROVE Retained'
  BY DEF Retained, ContextsAccounted, RequestsMatch
<1>1. /\ events' = events \ {e} /\ contexts' = contexts /\ pcf' = pcf /\ lost \subseteq lost'
      /\ ~Definite(e) => e.req.who \in lost'
  BY DEF Take
<1>2. /\ \A r \in wire : r.a \in Addr /\ r.a # e.req.a
      /\ \A f \in events' : f.req.a \in Addr /\ f.req.a # e.req.a
  BY <1>1, OwnAddress
<1>3. RequestsMatch'
  BY <1>1, <1>2 DEF Retained, RequestsMatch
<1>4. ASSUME NEW c \in contexts PROVE c.id # NoId /\ c.who # Nobody /\ Accounted(c)'
  <2>1. c.id # NoId /\ c.who # Nobody /\ Accounted(c) /\ c.a \in Addr
    BY DEF Retained, ContextsAccounted, IInv, TypeOK, Context
  <2>2. CASE Held(c)
    <3>1. CASE c.a = e.req.a
      BY <2>1, <2>2, <3>1 DEF Accounted
    <3>2. CASE c.a # e.req.a
      BY <2>1, <2>2, <3>2 DEF Accounted, Held
    <3> QED BY <3>1, <3>2
  <2>3. CASE AnswerOf(e, c)
    <3>1. CASE e.outcome = "ok"
      BY <2>1, <2>3, <3>1 DEF Accounted
    <3>2. CASE e.outcome # "ok"
      BY <2>1, <2>3, <3>2, <1>1 DEF Accounted, AnswerOf, Definite
    <3> QED BY <3>1, <3>2
  <2>4. CASE \E f \in events \ {e} : AnswerOf(f, c)
    BY <2>1, <2>4, <1>1 DEF Accounted, AnswerOf
  <2>5. CASE c.who \in lost \/ pcf[c.pcf] = "freed"
    BY <2>1, <2>5, <1>1 DEF Accounted
  <2> QED BY <2>1, <2>2, <2>3, <2>4, <2>5 DEF Accounted
<1> QED BY <1>1, <1>3, <1>4 DEF Retained, ContextsAccounted

LEMMA RetainedKeeping ==
    ASSUME IInv, Retained, NEW e \in events,
           \/ RefuseEvent(e) \/ LeaveSession(e) \/ DeleteFaults(e)
           \/ Updated(e) \/ EventsAnswered(e)
    PROVE  Retained'
<1>1. Take(e) /\ UNCHANGED <<mem, wire, hasty>>
  BY DEF RefuseEvent, LeaveSession, DeleteFaults, Updated, EventsAnswered
<1>2. ~hasty /\ e.outcome = "ok" => e.req.op # "create"
  <2>1. RefuseEvent(e) => hasty
    BY AnswerFound DEF RefuseEvent
  <2> QED BY <2>1 DEF LeaveSession, DeleteFaults, Updated, EventsAnswered, Ours
<1>3. \A c \in contexts : Held(c) => Held(c)'
  BY <1>1 DEF Held, Take
<1>4. e.outcome = "ok" /\ ~hasty => \A c \in contexts : ~AnswerOf(e, c)
  BY <1>2 DEF AnswerOf
<1> QED BY <1>1, <1>3, <1>4, RetainedTaken

LEMMA RetainedCreated ==
    ASSUME IInv, Retained, NEW e \in events, Created(e)
    PROVE  Retained'
<1> DEFINE a == e.req.a
<1> SUFFICES ASSUME ~hasty PROVE Retained'
  BY DEF Created, Retained, ContextsAccounted, RequestsMatch
<1>1. /\ Take(e) /\ e.req.op = "create" /\ UNCHANGED <<wire, hasty>>
      /\ mem' = [mem EXCEPT ![a] = [who |-> mem[a].who, pcf |-> mem[a].pcf, id |-> e.req.k]]
  BY DEF Created, Ours, Named
<1>2. a \in Addr /\ mem[a].who = e.req.who /\ mem[a].pcf = e.req.pcf
  BY OwnAddress
<1>3. /\ mem'[a].who = mem[a].who /\ mem'[a].pcf = mem[a].pcf /\ mem'[a].id = e.req.k
      /\ \A b \in Addr : b # a => mem'[b] = mem[b]
  BY <1>1, <1>2 DEF IInv, TypeOK
<1>4. \A c \in contexts : c.a = a => ~Held(c)
  BY <1>1 DEF Retained, ContextsAccounted, RequestsMatch, Held
<1>5. \A c \in contexts : AnswerOf(e, c) => Held(c)'
  BY <1>2, <1>3 DEF AnswerOf, Held
<1> QED BY <1>1, <1>3, <1>4, <1>5, RetainedTaken

LEMMA RetainedEnding ==
    ASSUME IInv, Retained, NEW e \in events, RemoveSession(e) \/ Deleted(e)
    PROVE  Retained'
<1> DEFINE a == e.req.a
<1> SUFFICES ASSUME ~hasty PROVE Retained'
  BY DEF RemoveSession, Deleted, Retained, ContextsAccounted, RequestsMatch
<1>1. Exists(a)
  BY DEF RemoveSession, Deleted, Ours
<1>2. a \in Addr /\ a \in SameId(a) /\ mem[a].who = e.req.who
  BY <1>1, ExistsSound, OwnAddress DEF IInv, SameId
<1>3. Deleted(e) => Match(a) = a
  BY <1>2, MatchSelf DEF Deleted
<1>4. /\ Take(e) /\ UNCHANGED <<wire, hasty>>
      /\ \A b \in Addr : b # a => mem'[b] = mem[b]
  BY <1>2, <1>3 DEF RemoveSession, Deleted, FreedAt, IInv, TypeOK
<1>5. ASSUME NEW c \in contexts, Held(c), c.a = a PROVE c.who \in lost'
  <2>1. c.who = e.req.who /\ c.id = mem[a].id /\ c.id # NoId
    BY <1>2, <1>5 DEF Held, Retained, ContextsAccounted
  <2>2. e.req.op # "create"
    BY <2>1 DEF Retained, RequestsMatch
  <2>3. e.req.op = "delete" => e.outcome # "ok"
    BY <2>1 DEF Retained, RequestsMatch
  <2>4. ~Definite(e) \/ (e.req.op = "delete" /\ e.outcome # "ok")
    BY <2>2, <2>3 DEF RemoveSession, Deleted, Ours, Definite
  <2> QED BY <1>4, <2>1, <2>4 DEF Take
<1>6. e.outcome = "ok" => \A c \in contexts : ~AnswerOf(e, c)
  BY DEF RemoveSession, Deleted, Ours, AnswerOf
<1> QED BY <1>4, <1>5, <1>6, RetainedTaken

(* The deletion is answered, and the new session takes an address that no   *)
(* context names a living session at.                                       *)
LEMMA RetainedDeletedCreating ==
    ASSUME IInv, Retained, NEW e \in events, NEW b \in Addr, DeletedCreating(e, b)
    PROVE  Retained'
<1> DEFINE a == e.req.a
           P == mem[a].pcf
           q == CreateRequest(b, P)
<1>1. hasty => hasty'
  BY DEF DeletedCreating
<1> SUFFICES ASSUME ~hasty PROVE Retained'
  BY <1>1 DEF Retained, ContextsAccounted, RequestsMatch
<1>2. Exists(a)
  BY DEF DeletedCreating, Ours
<1>3. a \in Addr /\ a \in SameId(a) /\ mem[a].who = e.req.who /\ mem[a].who # Nobody
  BY <1>2, ExistsSound, OwnAddress DEF IInv, SameId
<1>4. Match(a) = a
  BY <1>3, MatchSelf DEF DeletedCreating
<1>5. /\ Take(e) /\ wire' = wire \cup {q} /\ mem[b].who = Nobody
      /\ mem' = NewAt(b, P, FreedAt(a)) /\ Definite(e) /\ e.req.op = "delete"
  BY <1>4 DEF DeletedCreating, Ours
<1>6. /\ \A c \in Addr \ {a, b} : mem'[c] = mem[c]
      /\ mem'[b].id = NoId /\ a # b
  BY <1>3, <1>5 DEF NewAt, FreedAt, IInv, TypeOK
<1>7. /\ events' = events \ {e} /\ contexts' = contexts /\ pcf' = pcf /\ lost \subseteq lost'
      /\ e.outcome # "ok" => e.req.who \in lost'
  BY <1>5 DEF Take
<1>8. q.op = "create" /\ q.a = b
  BY DEF CreateRequest
<1> HIDE DEF q
<1>9. \A r \in wire : r.a \in Addr \ {a, b}
  BY <1>5, OwnAddress
<1>10. \A f \in events' : f \in events /\ f.req.a \in Addr \ {a, b}
  BY <1>5, <1>7, OwnAddress, Typed DEF IInv, OneOutstanding, Own, ListedAlive
<1>11. RequestsMatch'
  <2>1. \A r \in wire' : /\ r.op = "create" => mem'[r.a].id = NoId
                         /\ r.op = "delete" => r.target = mem'[r.a].id
    BY <1>5, <1>6, <1>8, <1>9 DEF Retained, RequestsMatch
  <2>2. ASSUME NEW f \in events'
        PROVE  /\ f.req.op = "create" => mem'[f.req.a].id = NoId
               /\ f.req.op = "delete" /\ f.outcome = "ok" =>
                     \A c \in contexts' : c.id # mem'[f.req.a].id
    <3>1. f \in events /\ mem'[f.req.a] = mem[f.req.a]
      BY <1>6, <1>10
    <3>2. /\ f.req.op = "create" => mem[f.req.a].id = NoId
          /\ f.req.op = "delete" /\ f.outcome = "ok" =>
                \A c \in contexts : c.id # mem[f.req.a].id
      BY <3>1 DEF Retained, RequestsMatch
    <3> QED BY <3>1, <3>2, <1>7
  <2> QED BY <2>1, <2>2 DEF RequestsMatch
<1>12. ASSUME NEW c \in contexts PROVE c.id # NoId /\ c.who # Nobody /\ Accounted(c)'
  <2>1. c.id # NoId /\ c.who # Nobody /\ Accounted(c) /\ c.a \in Addr
    BY DEF Retained, ContextsAccounted, IInv, TypeOK, Context
  <2>2. CASE Held(c)
    <3>1. CASE c.a = a
      <4>1. c.who = e.req.who /\ c.id = mem[a].id
        BY <2>2, <3>1, <1>3 DEF Held
      <4>2. e.outcome # "ok"
        BY <4>1, <1>5 DEF Retained, RequestsMatch
      <4> QED BY <2>1, <4>1, <4>2, <1>7 DEF Accounted
    <3>2. CASE c.a # a
      <4>1. c.a # b
        BY <2>1, <2>2, <1>5 DEF Held
      <4> QED BY <2>1, <2>2, <3>2, <4>1, <1>6 DEF Accounted, Held
    <3> QED BY <3>1, <3>2
  <2>3. CASE \E f \in events : AnswerOf(f, c)
    BY <2>1, <2>3, <1>5, <1>7 DEF Accounted, AnswerOf
  <2>4. CASE c.who \in lost \/ pcf[c.pcf] = "freed"
    BY <2>1, <2>4, <1>7 DEF Accounted
  <2> QED BY <2>1, <2>2, <2>3, <2>4 DEF Accounted
<1> QED BY <1>7, <1>11, <1>12 DEF Retained, ContextsAccounted

LEMMA RetainedComplete ==
    ASSUME IInv, Retained, NEW r \in wire, NEW out \in Outcomes, Complete(r, out)
    PROVE  Retained'
<1> DEFINE e == [req |-> r, outcome |-> out]
           n == [id |-> r.k, a |-> r.a, who |-> r.who, pcf |-> r.pcf]
<1> SUFFICES ASSUME ~hasty PROVE Retained'
  BY DEF Complete, Retained, ContextsAccounted, RequestsMatch
<1>1. /\ wire' = wire \ {r} /\ events' = events \cup {e}
      /\ \/ out # "refused" /\ contexts' = CarriedOut(r)
         \/ out # "ok" /\ contexts' = contexts
      /\ UNCHANGED <<pcf, mem, lost, hasty>>
  BY DEF Complete, history
<1>2. e.req = r /\ e.outcome = out
  OBVIOUS
<1>3. /\ n.id = r.k /\ n.a = r.a /\ n.who = r.who /\ n.pcf = r.pcf
      /\ n.id # NoId /\ n.who # Nobody
  BY OwnAddress, Typed DEF IInv, Numbered, NoId
<1>4. \A c \in contexts' : c \in contexts \/ (c = n /\ r.op = "create" /\ out # "refused")
  BY <1>1 DEF CarriedOut
<1> HIDE DEF e, n
<1>5. \A c \in contexts : Accounted(c) => Accounted(c)'
  BY <1>1 DEF Accounted, Held, AnswerOf
<1>6. r.op = "create" /\ out # "refused" => Accounted(n)'
  BY <1>1, <1>2, <1>3 DEF Accounted, AnswerOf
<1>7. ContextsAccounted'
  BY <1>1, <1>3, <1>4, <1>5, <1>6 DEF Retained, ContextsAccounted
<1>8. r.op = "delete" /\ out = "ok" => \A c \in contexts' : c.id # mem[r.a].id
  BY <1>1 DEF CarriedOut, Retained, RequestsMatch
<1>9. \A f \in events : mem[f.req.a].id # n.id
  BY <1>3, OwnAddress DEF IInv, Numbered
<1>10. RequestsMatch'
  <2>1. \A q \in wire' : q \in wire
    BY <1>1
  <2>2. ASSUME NEW f \in events'
        PROVE  /\ f.req.op = "create" => mem[f.req.a].id = NoId
               /\ f.req.op = "delete" /\ f.outcome = "ok" =>
                    \A c \in contexts' : c.id # mem[f.req.a].id
    <3>1. CASE f = e
      BY <3>1, <1>2, <1>8 DEF Retained, RequestsMatch
    <3>2. CASE f \in events
      BY <3>2, <1>4, <1>9 DEF Retained, RequestsMatch
    <3> QED BY <3>1, <3>2, <1>1
  <2> QED BY <2>1, <2>2, <1>1 DEF Retained, RequestsMatch
<1> QED BY <1>7, <1>10 DEF Retained

LEMMA RetainedCreate ==
    ASSUME IInv, Retained, NEW p \in Pcf, NEW a \in Addr, CreateAppSession(p, a)
    PROVE  Retained'
<1> DEFINE q == CreateRequest(a, p)
<1>1. /\ mem[a].who = Nobody
      /\ mem' = [mem EXCEPT ![a] = [who |-> made + 1, pcf |-> p, id |-> NoId]]
      /\ wire' = wire \cup {q} \/ wire' = wire
      /\ lost \subseteq lost' /\ (~hasty' => ~hasty)
      /\ UNCHANGED <<pcf, events, contexts>>
  BY DEF CreateAppSession, NewAt, Send
<1>2. q.a = a /\ q.op = "create"
  BY DEF CreateRequest
<1> HIDE DEF q
<1> SUFFICES ASSUME ~hasty PROVE Retained'
  BY <1>1 DEF Retained, ContextsAccounted, RequestsMatch
<1>3. mem'[a].id = NoId /\ \A b \in Addr : b # a => mem'[b] = mem[b]
  BY <1>1 DEF IInv, TypeOK
<1>4. \A c \in contexts : c.a \in Addr /\ (Held(c) /\ c.who # Nobody => c.a # a)
  BY <1>1 DEF Held, IInv, TypeOK, Context
<1>5. ContextsAccounted'
  BY <1>1, <1>3, <1>4 DEF Retained, ContextsAccounted, Accounted, Held, AnswerOf
<1>6. \A r \in wire : r.a \in Addr /\ r.a # a
  BY <1>1, OwnAddress
<1>7. \A e \in events : e.req.a \in Addr /\ e.req.a # a
  BY <1>1, OwnAddress, Typed DEF IInv, OneOutstanding, Own, ListedAlive
<1>8. RequestsMatch'
  BY <1>1, <1>2, <1>3, <1>6, <1>7 DEF Retained, RequestsMatch
<1> QED BY <1>5, <1>8 DEF Retained

LEMMA RetainedRequest ==
    ASSUME IInv, Retained, NEW a \in Addr, NEW op \in Op \ {"create"}, Ask(a),
           Send(NewRequest(op, a))
    PROVE  Retained'
<1> DEFINE q == NewRequest(op, a)
<1>1. /\ wire' = wire \cup {q} \/ wire' = wire
      /\ lost \subseteq lost' /\ (~hasty' => ~hasty)
      /\ UNCHANGED <<pcf, mem, events, contexts>>
  BY DEF Ask, Send
<1>2. q.op # "create" /\ q.target = mem[q.a].id
  BY DEF NewRequest
<1> HIDE DEF q
<1>3. ContextsAccounted'
  BY <1>1 DEF Retained, ContextsAccounted, Accounted, Held, AnswerOf
<1>4. RequestsMatch'
  BY <1>1, <1>2 DEF Retained, RequestsMatch
<1> QED BY <1>3, <1>4 DEF Retained

LEMMA RetainedAsk ==
    ASSUME IInv, Retained, NEW a \in Addr,
           UpdateAppSession(a) \/ SubscribeEvents(a) \/ FreeAppSession(a)
    PROVE  Retained'
<1>1. /\ Ask(a)
      /\ \/ \E how \in {"null", "assert"} : Crash(how)
         \/ \E op \in Op \ {"create"} : Send(NewRequest(op, a))
  <2>1. UpdateAppSession(a) /\ ~SearchFaults(a) => Match(a) = a
    BY MatchSelf DEF UpdateAppSession
  <2>2. "update" \in Op \ {"create"} /\ "events" \in Op \ {"create"} /\ "delete" \in Op \ {"create"}
    BY DEF Op
  <2> QED BY <2>1, <2>2 DEF UpdateAppSession, SubscribeEvents, FreeAppSession
<1>2. ASSUME NEW how, Crash(how) PROVE Retained'
  BY <1>1, <1>2, RetainedFrame DEF Ask, Crash
<1> QED BY <1>1, <1>2, RetainedRequest

LEMMA RetainedFreeAll ==
    ASSUME IInv, Retained, NEW P \in SUBSET Pcf, FreeAll(P)
    PROVE  Retained'
<1>1. /\ wire' \subseteq wire /\ (~hasty' => ~hasty)
      /\ UNCHANGED <<events, lost, contexts>>
  BY DEF FreeAll
<1> SUFFICES ASSUME ~hasty PROVE Retained'
  BY <1>1 DEF Retained, ContextsAccounted, RequestsMatch
<1>2. \A p \in Pcf : pcf'[p] = IF p \in P THEN "freed" ELSE pcf[p]
  BY DEF FreeAll
<1>3. \A a \in Addr : /\ mem[a].pcf \notin P => mem'[a] = mem[a]
                      /\ mem'[a] = mem[a] \/ mem'[a].id = NoId
  BY DEF FreeAll, IInv, ListedAlive
<1>4. ContextsAccounted'
  <2> SUFFICES ASSUME NEW c \in contexts PROVE c.id # NoId /\ c.who # Nobody /\ Accounted(c)'
    BY <1>1 DEF ContextsAccounted
  <2>1. c.id # NoId /\ c.who # Nobody /\ Accounted(c) /\ c.a \in Addr /\ c.pcf \in Pcf
    BY DEF Retained, ContextsAccounted, IInv, TypeOK, Context
  <2>2. CASE c.pcf \in P
    BY <2>1, <2>2, <1>2 DEF Accounted
  <2>3. CASE c.pcf \notin P
    <3>1. Held(c) => Held(c)'
      BY <2>1, <2>3, <1>3 DEF Held
    <3> QED BY <2>1, <2>3, <3>1, <1>1, <1>2 DEF Accounted, AnswerOf
  <2> QED BY <2>2, <2>3
<1>5. RequestsMatch'
  <2>1. \A r \in wire' : r \in wire /\ r.pcf \notin P
    BY DEF FreeAll
  <2>2. \A r \in wire' : r.a \in Addr /\ mem'[r.a] = mem[r.a]
    BY <2>1, <1>3, OwnAddress
  <2>3. \A e \in events : e.req.a \in Addr
    BY OwnAddress
  <2>4. \A c \in contexts : c.id # NoId
    BY DEF Retained, ContextsAccounted
  <2> QED BY <2>1, <2>2, <2>3, <2>4, <1>1, <1>3 DEF Retained, RequestsMatch
<1> QED BY <1>4, <1>5 DEF Retained

LEMMA RetainedStep ==
    ASSUME IInv, Retained, [Next]_vars
    PROVE  Retained'
<1>1. CASE Application
  <2>1. ASSUME NEW p \in Pcf, SessionNew(p) PROVE Retained'
    <3>1. UNCHANGED <<mem, contexts, wire, events, lost, hasty>>
      BY <2>1 DEF SessionNew, history
    <3>2. \A q \in Pcf : pcf[q] = "freed" => pcf'[q] = "freed"
      BY <2>1 DEF SessionNew, IInv, TypeOK
    <3> QED BY <3>1, <3>2, RetainedFrame
  <2>2. ASSUME NEW p \in Pcf, SessionFree(p) PROVE Retained'
    BY <2>2, RetainedFreeAll DEF SessionFree
  <2>3. CASE Final
    BY <2>3, RetainedFreeAll DEF Final
  <2> QED BY <1>1, <2>1, <2>2, <2>3, RetainedCreate, RetainedAsk DEF Application
<1>2. CASE HandleEvent
  <2>1. ASSUME NEW n \in notifs, Notify(n) PROVE Retained'
    BY <2>1, RetainedFrame DEF Notify, history
  <2> QED BY <1>2, <2>1, RetainedKeeping, RetainedCreated, RetainedEnding,
             RetainedDeletedCreating DEF HandleEvent
<1>3. CASE Environment
  <2>1. ASSUME NEW c \in contexts, PcfNotify(c) PROVE Retained'
    BY <2>1, RetainedFrame DEF PcfNotify, history
  <2> QED BY <1>3, <2>1, RetainedComplete DEF Environment
<1>4. CASE UNCHANGED vars
  BY <1>4, RetainedFrame DEF vars, history
<1> QED BY <1>1, <1>2, <1>3, <1>4 DEF Next

LEMMA RetainedCovers ==
    ASSUME IInv, Retained
    PROVE  NoOrphan
<1> SUFFICES ASSUME ~hasty, NEW c \in contexts
             PROVE  \/ \E a \in Addr : mem[a].who = c.who /\ mem[a].id = c.id
                    \/ Outstanding(c.pcf)
                    \/ c.who \in lost
                    \/ pcf[c.pcf] = "freed"
  BY DEF NoOrphan
<1>1. Accounted(c) /\ c.a \in Addr
  BY DEF Retained, ContextsAccounted, IInv, TypeOK, Context
<1> QED BY <1>1 DEF Accounted, Held, AnswerOf, Outstanding

-----------------------------------------------------------------------------
(* Theorems *)

LEMMA InitSound == Init => IInv
<1> SUFFICES ASSUME Init PROVE IInv
  OBVIOUS
<1> DEFINE m == [who |-> Nobody, pcf |-> CHOOSE p \in Pcf : TRUE, id |-> NoId]
<1>1. (CHOOSE p \in Pcf : TRUE) \in Pcf
  BY PcfAssumption
<1>2. m \in AppSession /\ m.who = Nobody /\ m.id = NoId
  BY <1>1 DEF AppSession, Nobody, NoId
<1>3. mem = [a \in Addr |-> m]
  BY DEF Init
<1> HIDE DEF m
<1>4. /\ mem \in [Addr -> AppSession]
      /\ \A a \in Addr : mem[a].who = Nobody /\ mem[a].id = NoId
  BY <1>2, <1>3
<1>5. TypeOK
  BY <1>4 DEF Init, TypeOK
<1>6. ListedAlive /\ IdsDiffer /\ OneOutstanding /\ Identified
  BY <1>4 DEF Init, ListedAlive, IdsDiffer, OneOutstanding, Identified
<1>7. Numbered /\ AnswerOwn /\ CreationReported /\ NoFault
  BY <1>4 DEF Init, Numbered, AnswerOwn, CreationReported, NoFault, NoId
<1> QED BY <1>5, <1>6, <1>7 DEF IInv

LEMMA StutterStep ==
    ASSUME IInv, UNCHANGED vars
    PROVE  IInv' /\ ReportsStep
<1>1. /\ UNCHANGED <<pcf, apps, mem, made, serial, wire, events, notifs, fault>>
      /\ UNCHANGED <<reports, answered, lost, notified, hasty, contexts>>
  BY DEF vars, history
<1>2. TypeOK' /\ ReportsStep
  BY <1>1 DEF IInv, TypeOK, ReportsStep
<1>3. ListedAlive' /\ Numbered' /\ IdsDiffer' /\ OneOutstanding'
  BY <1>1, QuietSound
<1>4. Identified' /\ AnswerOwn' /\ CreationReported' /\ NoFault'
  BY <1>1 DEF IInv, Identified, Creating, AnswerOwn, CreationReported, NoFault
<1> QED BY <1>2, <1>3, <1>4 DEF IInv

LEMMA StepSound ==
    ASSUME IInv, [Next]_vars
    PROVE  IInv' /\ ReportsStep
<1>1. ASSUME IInv', reports' = reports PROVE IInv' /\ ReportsStep
  BY <1>1 DEF ReportsStep
<1>2. CASE Application
  <2>1. ASSUME NEW p \in Pcf, SessionNew(p) PROVE IInv' /\ ReportsStep
    BY <2>1, <1>1, SessionNewStep
  <2>2. ASSUME NEW p \in Pcf, NEW a \in Addr, CreateAppSession(p, a) PROVE IInv' /\ ReportsStep
    BY <2>2, <1>1, CreateStep
  <2>3. ASSUME NEW p \in Pcf, SessionFree(p) PROVE IInv' /\ ReportsStep
    BY <2>3, FreeAllStep DEF SessionFree
  <2>4. ASSUME NEW a \in Addr, UpdateAppSession(a) \/ SubscribeEvents(a) \/ FreeAppSession(a)
        PROVE  IInv' /\ ReportsStep
    BY <2>4, <1>1, AskStep
  <2>5. CASE Final
    BY <2>5, FreeAllStep DEF Final
  <2> QED BY <1>2, <2>1, <2>2, <2>3, <2>4, <2>5 DEF Application
<1>3. CASE HandleEvent
  <2>1. ASSUME NEW e \in events, RefuseEvent(e) \/ LeaveSession(e) \/ DeleteFaults(e)
        PROVE  IInv' /\ ReportsStep
    BY <2>1, KeepingStep
  <2>2. ASSUME NEW e \in events, Created(e) PROVE IInv' /\ ReportsStep
    BY <2>2, CreatedStep
  <2>3. ASSUME NEW e \in events, Updated(e) \/ EventsAnswered(e) PROVE IInv' /\ ReportsStep
    BY <2>3, TellingStep
  <2>4. ASSUME NEW e \in events, RemoveSession(e) \/ Deleted(e) PROVE IInv' /\ ReportsStep
    BY <2>4, EndingStep
  <2>5. ASSUME NEW e \in events, NEW b \in Addr, DeletedCreating(e, b) PROVE IInv' /\ ReportsStep
    BY <2>5, DeletedCreatingStep
  <2>6. ASSUME NEW n \in notifs, Notify(n) PROVE IInv' /\ ReportsStep
    BY <2>6, <1>1, NotifyStep
  <2> QED BY <1>3, <2>1, <2>2, <2>3, <2>4, <2>5, <2>6 DEF HandleEvent
<1>4. CASE Environment
  <2>1. ASSUME NEW r \in wire, NEW out \in Outcomes, Complete(r, out) PROVE IInv' /\ ReportsStep
    BY <2>1, <1>1, CompleteStep
  <2>2. ASSUME NEW c \in contexts, PcfNotify(c) PROVE IInv' /\ ReportsStep
    BY <2>2, <1>1, NotifyStep
  <2> QED BY <1>4, <2>1, <2>2 DEF Environment
<1>5. CASE UNCHANGED vars
  BY <1>5, StutterStep
<1> QED BY <1>2, <1>3, <1>4, <1>5 DEF Next

(* The inductive invariant holds in every state of the client. *)
THEOREM Inductive == Spec => []IInv
<1>1. IInv /\ [Next]_vars => IInv'
  BY StepSound
<1> QED BY InitSound, <1>1, PTL DEF Spec

(* Every variable keeps its type, however the sessions, requests and        *)
(* answers are interleaved.                                                 *)
THEOREM TypeCorrect == Spec => []TypeOK
<1>1. IInv => TypeOK
  BY DEF IInv
<1> QED BY Inductive, <1>1, PTL

(* _pcf_app_session_exists never looks at a freed session: the lists hold   *)
(* allocated sessions only, each in the list of its own PCF session.        *)
THEOREM ListsHoldTheLiving == Spec => []ListedAlive
<1>1. IInv => ListedAlive
  BY DEF IInv
<1> QED BY Inductive, <1>1, PTL

(* An application that waits for each answer is told of its own requests    *)
(* only, although raw addresses travel with the requests and are used again.*)
THEOREM AnswersAreOwn == Spec => []AnswerOwn
<1>1. IInv => AnswerOwn
  BY DEF IInv
<1> QED BY Inductive, <1>1, PTL

(* For such an application, every creation that ended is reported, also one *)
(* made in the callback of a deletion, with the two exceptions that the     *)
(* code has: a 201 that the handler cannot use or a timeout, and a session  *)
(* that the second removal of a deletion dropped from the list.             *)
THEOREM CreationsAreReported == Spec => []CreationReported
<1>1. IInv => CreationReported
  BY DEF IInv
<1> QED BY Inductive, <1>1, PTL

(* For such an application, and as long as no request is lost, no search    *)
(* compares a null id and no deletion is built without one.                 *)
THEOREM NeverFaults == Spec => []NoFault
<1>1. IInv => NoFault
  BY DEF IInv
<1> QED BY Inductive, <1>1, PTL

(* The library calls a change callback only for a session that is allocated *)
(* when it does, whatever the application and the PCF do.                   *)
THEOREM SilentWhenGone == Spec => SilentAfterGone
<1>1. IInv /\ [Next]_vars => [ReportsStep]_vars
  BY StepSound
<1> QED BY Inductive, <1>1, PTL DEF Spec, SilentAfterGone, ReportsStep

(* For an application that waits for each answer, an AppSessionContext at   *)
(* the PCF belongs to a session that knows its id. The theorem excepts one  *)
(* with an answer on its way, one with a request that was lost or refused,  *)
(* and every context of a PCF session that the application freed:           *)
(* pcf_session_free sends nothing, although its documentation says that it  *)
(* destroys the AppSessionContexts associated.                              *)
THEOREM NoContextOrphaned == Spec => []NoOrphan
<1>1. Init => Retained
  BY DEF Init, Retained, ContextsAccounted, RequestsMatch
<1>2. IInv /\ Retained /\ [Next]_vars => Retained'
  BY RetainedStep
<1>3. IInv /\ Retained => NoOrphan
  BY RetainedCovers
<1> QED BY Inductive, <1>1, <1>2, <1>3, PTL DEF Spec

=============================================================================
