-------------------------- MODULE MbsSession_proofs --------------------------
(***************************************************************************)
(* Proofs about MbsSession, for any number of sessions, TMGIs, requests    *)
(* and pushes, and however the NRF and the MB-SMF answer.                  *)
(*                                                                         *)
(* The first part holds whatever the application does (Rules may be        *)
(* empty).  The second, from "Which session a response is given to" on, is *)
(* about responses and about what an application can rely on that pushes   *)
(* a session only when nothing is outstanding for it, removes it only when *)
(* it was created, and leaves its identity alone once it was pushed.  From *)
(* "The promise to the application" on, MbsSession is shown to implement   *)
(* MbsPromise for such an application.                                     *)
(***************************************************************************)
EXTENDS MbsSession, TLAPS, WellFoundedInduction

-----------------------------------------------------------------------------
(* The inductive invariant *)

(* A session with an accepted copy has an id and an sbi_object, one with a  *)
(* granted TMGI has an sbi_object, and one not made yet has no TMGI.        *)
SessionSound(q) ==
    /\ q.prev # None => q.id # None /\ q.obj # None
    /\ q.live = "live" /\ q.cur.tmgi = Granted => q.obj # None
    /\ q.live = "none" => q.cur.tmgi = None

SessionsSound == \A s \in Session : SessionSound(ses[s])

(* The pushes still to come have larger numbers. *)
Numbered ==
    /\ \A x \in xacts : x.k <= serial
    /\ \A r \in reports : r.x.k <= serial

(* A session that reported OGS_DONE is freed. *)
DoneIsFreed == \A r \in reports : r.result = "OGS_DONE" => ses[r.to].live = "freed"

IInv ==
    /\ TypeOK
    /\ ListIsLive
    /\ SessionsSound
    /\ PatchTargetKnown
    /\ XactObjectHeld
    /\ Numbered
    /\ OneReportPerRequest
    /\ DoneIsFreed

-----------------------------------------------------------------------------
(* Lemmas about the operators *)

(* A nonempty set of naturals has a least element. *)
LEMMA Least ==
    ASSUME NEW T, T \subseteq Nat, T # {}
    PROVE  \E x \in T : \A y \in T : x <= y
<1> DEFINE R == {p \in Nat \X Nat : p[1] < p[2]}
<1>1. IsWellFoundedOn(R, Nat)
  BY NatLessThanWellFounded DEF OpToRel
<1>2. \E x \in T : \A y \in T : ~(<<y, x>> \in R)
  <2> HIDE DEF R
  <2> QED BY <1>1, WFMin
<1>3. PICK x \in T : \A y \in T : ~(<<y, x>> \in R)
  BY <1>2
<1>4. ASSUME NEW y \in T PROVE x <= y
  <2>1. ~(<<y, x>> \in R)
    BY <1>3
  <2>2. ~(y < x)
    BY <2>1
  <2> QED BY <2>2
<1> QED BY <1>3, <1>4

(* _context_sbi_object_to_session returns null or a session of the list     *)
(* that has the object.                                                     *)
LEMMA SessionOfFound ==
    ASSUME TypeOK, NEW o, SessionOf(o) # None
    PROVE  SessionOf(o) \in sessions /\ ses[SessionOf(o)].obj = o
<1> DEFINE T == {s \in sessions : ses[s].obj = o}
           A == {ses[s].at : s \in T}
<1>1. T # {} /\ SessionOf(o) = First(T)
  BY DEF SessionOf
<1>2. A \subseteq Nat /\ A # {}
  BY <1>1 DEF TypeOK, PrivSession
<1>3. PICK n \in A : \A y \in A : n <= y
  <2> HIDE DEF A
  <2> QED BY <1>2, Least
<1>4. \E s \in T : \A t \in T : ses[s].at <= ses[t].at
  BY <1>3
<1>5. First(T) \in T
  <2> HIDE DEF T
  <2> QED BY <1>4 DEF First
<1> QED BY <1>1, <1>5

(* What a push asks for, and of which sessions. *)
LEMMA RequestsSound ==
    ASSUME NEW q \in PrivSession
    PROVE  /\ Requests(q) \subseteq ReqOp
           /\ "update" \in Requests(q) => q.prev # None
<1>1. CASE q.deleted
  BY <1>1 DEF Requests, ReqOp
<1>2. CASE ~q.deleted /\ q.prev = None
  BY <1>2 DEF Requests, ReqOp
<1>3. CASE ~q.deleted /\ q.prev # None
  BY <1>3 DEF Requests, ReqOp, Recreate
<1> QED BY <1>1, <1>2, <1>3 DEF PrivSession

(* The transactions of a push have the right type, a new number and an      *)
(* object, and an update among them has a target.                           *)
LEMMA NewXactsSound ==
    ASSUME TypeOK, NEW s \in Session, NEW q \in PrivSession, SessionSound(q),
           ~PushFaults(q), NEW x \in NewXacts(s, q)
    PROVE  /\ x \in Xact
           /\ x.k = serial + 1
           /\ x.owner = s
           /\ x.obj = ObjectFor(s, q)
           /\ x.op = "update" => x.target # None
<1>1. PICK op \in Requests(q) :
          x = [owner |-> s, k |-> serial + 1, op |-> op, obj |-> ObjectFor(s, q),
               target |-> Target(op, q), body |-> q.cur, patch |-> Patch(op, q)]
  BY DEF NewXacts
<1>2. op \in ReqOp /\ (op = "update" => q.prev # None)
  BY RequestsSound
<1>3. ObjectFor(s, q) \in Object
  <2>1. CASE op = "create"
    BY <2>1, <1>1 DEF ObjectFor, Object, PrivSession
  <2>2. CASE op = "update"
    BY <2>2, <1>2 DEF ObjectFor, Object, PrivSession, SessionSound
  <2>3. CASE op = "remove"
    BY <2>3, <1>1 DEF ObjectFor, Object, PrivSession, PushFaults
  <2> QED BY <2>1, <2>2, <2>3, <1>2 DEF ReqOp
<1>4. x \in Xact
  <2>1. Target(op, q) \in ResourceId \cup {None}
    BY DEF Target, PrivSession
  <2>2. Patch(op, q) \in SUBSET Attr
    BY DEF Patch, PatchList, PrivSession, Fields
  <2> QED BY <1>1, <1>2, <1>3, <2>1, <2>2 DEF Xact, PrivSession, TypeOK
<1>5. op = "update" => Target(op, q) # None
  BY <1>2 DEF SessionSound, Target
<1> QED BY <1>1, <1>4, <1>5

(* What a push does to the library's state. *)
LEMMA PushSound ==
    ASSUME TypeOK,
           NEW S \in [Session -> PrivSession], \A s \in Session : SessionSound(S[s]),
           NEW P \in SUBSET Session, NEW xs \in SUBSET Xact,
           DoPush(S, P, xs)
    PROVE  /\ ses' \in [Session -> PrivSession]
           /\ \A s \in Session :
                 /\ ses'[s].live = S[s].live
                 /\ ses'[s].cur = S[s].cur
                 /\ ses'[s].prev = S[s].prev
                 /\ ses'[s].id = S[s].id
                 /\ S[s].obj # None => ses'[s].obj = S[s].obj
           /\ xacts' \in SUBSET Xact
           /\ \A x \in xacts' : x \notin xs =>
                 /\ x.k = serial + 1 /\ serial' = serial + 1
                 /\ x.op = "update" => x.target # None
                 /\ \E s \in P : ses'[s].obj = x.obj
           /\ wire' \in SUBSET [x: Xact, to: Peer]
           /\ serial' \in Nat /\ serial <= serial'
           /\ pushed' \in SUBSET Session
           /\ fault' \in {"none", "assert", "null"}
<1> DEFINE new == UNION {NewXacts(s, S[s]) : s \in P}
<1>1. CASE \E s \in P : PushFaults(S[s])
  <2>1. /\ fault' = "assert" /\ ses' = S /\ xacts' = xs
        /\ UNCHANGED <<wire, serial, pushed>>
    BY <1>1 DEF DoPush
  <2> QED BY <2>1 DEF TypeOK
<1>2. CASE ~\E s \in P : PushFaults(S[s])
  <2>1. /\ ses' = [s \in Session |->
                     IF s \in P THEN [S[s] EXCEPT !.obj = ObjectFor(s, S[s])] ELSE S[s]]
        /\ xacts' = xs \cup new
        /\ wire' = wire \cup {Sent(x) : x \in new}
        /\ serial' = IF new = {} THEN serial ELSE serial + 1
        /\ pushed' = pushed \cup P
        /\ fault' = fault
    BY <1>2 DEF DoPush
  <2>2. ASSUME NEW x \in new
        PROVE  \E s \in P : /\ x \in Xact
                            /\ x.k = serial + 1
                            /\ x.obj = ObjectFor(s, S[s])
                            /\ x.op = "update" => x.target # None
    <3>1. PICK s \in P : x \in NewXacts(s, S[s])
      OBVIOUS
    <3>2. s \in Session /\ S[s] \in PrivSession /\ SessionSound(S[s]) /\ ~PushFaults(S[s])
      BY <1>2
    <3> QED BY <3>1, <3>2, NewXactsSound
  <2> HIDE DEF new
  <2>3. ses' \in [Session -> PrivSession]
    <3>1. ASSUME NEW s \in Session PROVE ObjectFor(s, S[s]) \in Object \cup {None}
      BY DEF ObjectFor, Object, PrivSession
    <3> QED BY <2>1, <3>1 DEF PrivSession
  <2>4. ASSUME NEW s \in Session
        PROVE  /\ ses'[s].live = S[s].live
               /\ ses'[s].cur = S[s].cur
               /\ ses'[s].prev = S[s].prev
               /\ ses'[s].id = S[s].id
               /\ S[s].obj # None => ses'[s].obj = S[s].obj
               /\ s \in P => ses'[s].obj = ObjectFor(s, S[s])
    BY <2>1 DEF ObjectFor, PrivSession
  <2>5. xacts' \in SUBSET Xact
    BY <2>1, <2>2
  <2>6. ASSUME NEW x \in xacts', x \notin xs
        PROVE  /\ x.k = serial + 1 /\ serial' = serial + 1
               /\ x.op = "update" => x.target # None
               /\ \E s \in P : ses'[s].obj = x.obj
    BY <2>1, <2>2, <2>4, <2>6
  <2>7. wire' \in SUBSET [x: Xact, to: Peer]
    <3>1. ASSUME NEW x \in new PROVE Sent(x) \in [x: Xact, to: Peer]
      BY <2>2 DEF Sent, Peer
    <3> QED BY <2>1, <3>1 DEF TypeOK
  <2>8. /\ serial' \in Nat /\ serial <= serial'
        /\ pushed' \in SUBSET Session
        /\ fault' \in {"none", "assert", "null"}
    BY <2>1 DEF TypeOK
  <2> QED BY <2>3, <2>4, <2>5, <2>6, <2>7, <2>8
<1> QED BY <1>1, <1>2

(* A callback adds at most one report, about its own transaction. *)
LEMMA ReportSound ==
    ASSUME TypeOK, NEW x \in Xact, NEW to \in Session \cup {None},
           NEW cb \in {"create", "update", "delete"}, NEW result \in Result,
           Report(x, to, cb, result)
    PROVE  /\ reports' \in SUBSET [x: Xact, to: Session, cb: {"create", "update", "delete"},
                                   result: Result]
           /\ \A r \in reports' : r \notin reports =>
                 /\ r = [x |-> x, to |-> to, cb |-> cb, result |-> result]
                 /\ to # None
BY DEF Report, TypeOK

(* An object stays held while the sessions that have it live and keep it. *)
LEMMA HeldKept ==
    ASSUME NEW S, NEW S2, NEW L, NEW L2, NEW o \in Object,
           L \subseteq L2,
           \A s \in Session : S[s].live = "live" /\ S[s].obj = o =>
                              S2[s].live = "live" /\ S2[s].obj = o,
           Held(o, S, L)
    PROVE  Held(o, S2, L2)
BY DEF Held

-----------------------------------------------------------------------------
(* What the steps have in common *)

(* New transactions get a new number, and an update among them a target. *)
XactsStep ==
    /\ serial <= serial'
    /\ \A x \in xacts' : x \notin xacts =>
          /\ x.k = serial + 1 /\ serial' = serial + 1
          /\ x.op = "update" => x.target # None

(* At most one report is added. It is about a transaction that ends in this *)
(* step and goes to a session of the list; OGS_DONE frees that session.     *)
ReportsStep ==
    /\ \A r \in reports' : r \notin reports =>
          /\ r.x \in xacts /\ r.x \notin xacts' /\ r.x.k <= serial
          /\ r.to \in sessions
          /\ r.result = "OGS_DONE" => ses'[r.to].live = "freed"
    /\ \A r1, r2 \in reports' : r1 \notin reports /\ r2 \notin reports => r1 = r2
    /\ reports \subseteq reports'

(* A freed session stays freed. *)
LiveStep == \A s \in Session : ses[s].live = "freed" => ses'[s].live = "freed"

LEMMA StepSound ==
    ASSUME IInv, TypeOK', ListIsLive', SessionsSound', XactObjectHeld',
           XactsStep, ReportsStep, LiveStep
    PROVE  IInv' /\ ReportsStep
<1>1. PatchTargetKnown'
  BY DEF IInv, PatchTargetKnown, XactsStep
<1>2. Numbered'
  <2>1. serial \in Nat /\ serial' \in Nat
    BY DEF IInv, TypeOK
  <2>2. ASSUME NEW x \in xacts' PROVE x.k <= serial'
    <3>1. CASE x \in xacts
      <4>1. x.k <= serial /\ x.k \in Nat
        BY <3>1 DEF IInv, Numbered, TypeOK, Xact
      <4> QED BY <4>1, <2>1 DEF XactsStep
    <3>2. CASE x \notin xacts
      BY <3>2, <2>1 DEF XactsStep
    <3> QED BY <3>1, <3>2
  <2>3. ASSUME NEW r \in reports' PROVE r.x.k <= serial'
    <3>1. r.x.k <= serial
      BY DEF IInv, Numbered, ReportsStep
    <3>2. r.x.k \in Nat
      BY DEF TypeOK, Xact
    <3> QED BY <3>1, <3>2, <2>1 DEF XactsStep
  <2> QED BY <2>2, <2>3 DEF Numbered
<1>3. OneReportPerRequest'
  <2>1. ASSUME NEW r \in reports' PROVE r.x \notin xacts'
    <3>1. CASE r \notin reports
      BY <3>1 DEF ReportsStep
    <3>2. CASE r \in reports
      <4>1. r.x \notin xacts /\ r.x.k <= serial /\ r.x.k \in Nat /\ serial \in Nat
        BY <3>2 DEF IInv, OneReportPerRequest, Numbered, TypeOK, Xact
      <4>2. r.x.k # serial + 1
        BY <4>1
      <4> QED BY <4>1, <4>2 DEF XactsStep
    <3> QED BY <3>1, <3>2
  <2>2. ASSUME NEW r1 \in reports', NEW r2 \in reports', r1.x = r2.x PROVE r1 = r2
    <3>1. CASE r1 \in reports /\ r2 \in reports
      BY <3>1, <2>2 DEF IInv, OneReportPerRequest
    <3>2. CASE r1 \notin reports /\ r2 \notin reports
      BY <3>2 DEF ReportsStep
    <3>3. CASE r1 \in reports /\ r2 \notin reports
      BY <3>3, <2>2 DEF IInv, OneReportPerRequest, ReportsStep
    <3>4. CASE r1 \notin reports /\ r2 \in reports
      BY <3>4, <2>2 DEF IInv, OneReportPerRequest, ReportsStep
    <3> QED BY <3>1, <3>2, <3>3, <3>4
  <2> QED BY <2>1, <2>2 DEF OneReportPerRequest
<1>4. DoneIsFreed'
  <2>1. ASSUME NEW r \in reports', r.result = "OGS_DONE" PROVE ses'[r.to].live = "freed"
    <3>1. CASE r \notin reports
      BY <3>1, <2>1 DEF ReportsStep
    <3>2. CASE r \in reports
      <4>1. r.to \in Session /\ ses[r.to].live = "freed"
        BY <3>2, <2>1 DEF IInv, DoneIsFreed, TypeOK
      <4> QED BY <4>1 DEF LiveStep
    <3> QED BY <3>1, <3>2
  <2> QED BY <2>1 DEF DoneIsFreed
<1>5. IInv'
  BY <1>1, <1>2, <1>3, <1>4 DEF IInv
<1> QED BY <1>5

(* A step of the application that edits sessions and sends nothing. *)
LEMMA EditSound ==
    ASSUME IInv,
           UNCHANGED <<known, xacts, wire, responses, serial, fault, appVars, remote>>,
           ses' \in [Session -> PrivSession], made' \in Nat,
           leaked' \in SUBSET Object, leaked \subseteq leaked',
           sessions' \in SUBSET Session, ListIsLive', SessionsSound', LiveStep,
           \A s \in Session : ses[s].live = "live" =>
                              ses'[s].live = "live" /\ ses'[s].obj = ses[s].obj
    PROVE  IInv' /\ ReportsStep
<1>1. TypeOK'
  BY DEF IInv, TypeOK, appVars
<1>2. XactObjectHeld'
  <2>1. ASSUME NEW x \in xacts' PROVE Held(x.obj, ses', leaked')
    <3>1. x.obj \in Object /\ Held(x.obj, ses, leaked)
      BY DEF IInv, TypeOK, Xact, XactObjectHeld
    <3> QED BY <3>1, HeldKept
  <2> QED BY <2>1 DEF XactObjectHeld
<1>3. XactsStep /\ ReportsStep
  BY DEF XactsStep, ReportsStep, appVars, IInv, TypeOK
<1> QED BY <1>1, <1>2, <1>3, StepSound

(* A step that leaves the sessions alone and starts no transaction. *)
LEMMA QuietSound ==
    ASSUME IInv, TypeOK', UNCHANGED <<sessions, made, ses, leaked, serial>>,
           xacts' \subseteq xacts, ReportsStep
    PROVE  IInv' /\ ReportsStep
<1>1. ListIsLive' /\ SessionsSound' /\ LiveStep
  BY DEF IInv, ListIsLive, SessionsSound, SessionSound, LiveStep, Live
<1>2. XactObjectHeld'
  BY DEF IInv, XactObjectHeld, Held
<1>3. XactsStep
  BY DEF XactsStep, IInv, TypeOK
<1> QED BY <1>1, <1>2, <1>3, StepSound

-----------------------------------------------------------------------------
(* The application *)

LEMMA NewStep ==
    ASSUME IInv, NEW s \in Session, NEW m \in Ssm \cup {None}, NEW t \in Terms, New(s, m, t)
    PROVE  IInv' /\ ReportsStep
<1>1. ses \in [Session -> PrivSession] /\ ses[s].live = "none" /\ made \in Nat
  BY DEF New, IInv, TypeOK
<1>2. t \in BOOLEAN
  BY AppAssumption
<1> DEFINE q == Opened(ses[s], m, t)
<1>3. /\ q \in PrivSession
      /\ q.live = "live" /\ q.prev = ses[s].prev /\ q.id = ses[s].id
      /\ q.obj = ses[s].obj /\ q.cur.tmgi = ses[s].cur.tmgi
  <2> DEFINE c == [ses[s].cur EXCEPT !.ssm = m, !.term = t]
  <2>1. ses[s] \in PrivSession /\ ses[s].cur \in Fields
    BY <1>1 DEF PrivSession
  <2>2. c \in Fields /\ c.tmgi = ses[s].cur.tmgi
    BY <2>1, <1>2 DEF Fields
  <2>3. q = [ses[s] EXCEPT !.live = "live", !.cur = c, !.at = made + 1]
    BY DEF Opened
  <2> HIDE DEF c
  <2>4. made + 1 \in Nat
    BY <1>1
  <2> HIDE DEF q
  <2>5. q \in PrivSession
    BY <2>1, <2>2, <2>3, <2>4 DEF PrivSession
  <2>6. /\ q.live = "live" /\ q.prev = ses[s].prev /\ q.id = ses[s].id
        /\ q.obj = ses[s].obj /\ q.cur = c
    BY <2>1, <2>3 DEF PrivSession
  <2> QED BY <2>2, <2>5, <2>6
<1> HIDE DEF q
<1>4. /\ ses' = [ses EXCEPT ![s] = q]
      /\ ses' \in [Session -> PrivSession]
  BY <1>1, <1>3 DEF New, q
<1>5. sessions' \in SUBSET Session /\ ListIsLive'
  BY <1>1, <1>3, <1>4 DEF New, IInv, TypeOK, ListIsLive, Live
<1>6. SessionsSound'
  <2>1. ses[s].cur.tmgi = None /\ None # Granted
    BY <1>1, NoneAssumption DEF IInv, SessionsSound, SessionSound
  <2> QED BY <2>1, <1>1, <1>3, <1>4 DEF IInv, SessionsSound, SessionSound
<1>7. LiveStep
  BY <1>1, <1>4 DEF LiveStep
<1>8. /\ UNCHANGED <<known, leaked, xacts, wire, responses, serial, fault, appVars, remote>>
      /\ made' \in Nat /\ leaked' \in SUBSET Object
  BY <1>1 DEF New, IInv, TypeOK
<1> QED BY <1>1, <1>4, <1>5, <1>6, <1>7, <1>8, EditSound

(* An edit of one live session that keeps its object, id and copy. *)
LEMMA EditOneSound ==
    ASSUME IInv, NEW s \in Session, NEW q \in PrivSession,
           ses[s].live = "live", q.live = "live", q.prev = ses[s].prev, q.id = ses[s].id,
           q.obj = ses[s].obj, q.cur.tmgi \in {ses[s].cur.tmgi, None},
           ses' = [ses EXCEPT ![s] = q],
           leaked' \in SUBSET Object, leaked \subseteq leaked',
           UNCHANGED <<sessions, made, known, xacts, wire, responses, serial, fault, appVars, remote>>
    PROVE  IInv' /\ ReportsStep
<1>1. ses \in [Session -> PrivSession] /\ made \in Nat /\ sessions \in SUBSET Session
  BY DEF IInv, TypeOK
<1>2. ses' \in [Session -> PrivSession] /\ made' \in Nat /\ sessions' \in SUBSET Session
  BY <1>1
<1>3. ListIsLive' /\ LiveStep
  BY <1>1 DEF IInv, ListIsLive, Live, LiveStep
<1>4. SessionsSound'
  <2>1. SessionSound(q)
    BY NoneAssumption DEF IInv, SessionsSound, SessionSound
  <2> QED BY <1>1, <2>1 DEF IInv, SessionsSound, SessionSound
<1>5. \A u \in Session : ses[u].live = "live" => ses'[u].live = "live" /\ ses'[u].obj = ses[u].obj
  BY <1>1
<1> QED BY <1>2, <1>3, <1>4, <1>5, EditSound

LEMMA SetAttrStep ==
    ASSUME IInv, NEW s \in Session, NEW a \in Attr, SetAttr(s, a)
    PROVE  IInv' /\ ReportsStep
<1> DEFINE q == [ses[s] EXCEPT !.cur.attr = a]
<1>1. ses[s] \in PrivSession /\ ses[s].live = "live"
  BY DEF SetAttr, Live, IInv, TypeOK
<1>2. q \in PrivSession
  BY <1>1 DEF PrivSession, Fields
<1>3. /\ q.live = ses[s].live /\ q.prev = ses[s].prev /\ q.id = ses[s].id
      /\ q.obj = ses[s].obj /\ q.cur.tmgi = ses[s].cur.tmgi
  BY <1>1 DEF PrivSession, Fields
<1>4. ses' = [ses EXCEPT ![s] = q]
  BY DEF SetAttr, IInv, TypeOK
<1> HIDE DEF q
<1> QED BY <1>1, <1>2, <1>3, <1>4, EditOneSound DEF SetAttr, IInv, TypeOK

LEMMA SetSsmStep ==
    ASSUME IInv, NEW s \in Session, NEW m \in Ssm \cup {None}, SetSsm(s, m)
    PROVE  IInv' /\ ReportsStep
<1> DEFINE q == [ses[s] EXCEPT !.cur.ssm = m]
<1>1. ses[s] \in PrivSession /\ ses[s].live = "live"
  BY DEF SetSsm, MayIdentify, Live, IInv, TypeOK
<1>2. q \in PrivSession
  BY <1>1 DEF PrivSession, Fields
<1>3. /\ q.live = ses[s].live /\ q.prev = ses[s].prev /\ q.id = ses[s].id
      /\ q.obj = ses[s].obj /\ q.cur.tmgi = ses[s].cur.tmgi
  BY <1>1 DEF PrivSession, Fields
<1>4. ses' = [ses EXCEPT ![s] = q]
  BY DEF SetSsm, IInv, TypeOK
<1> HIDE DEF q
<1> QED BY <1>1, <1>2, <1>3, <1>4, EditOneSound DEF SetSsm, IInv, TypeOK

(* The object of a granted TMGI is one. *)
LEMMA LeakSound ==
    ASSUME IInv, NEW s \in Session, ses[s].live = "live"
    PROVE  LeakOf(ses[s]) \in SUBSET Object
BY DEF LeakOf, IInv, TypeOK, PrivSession, SessionsSound, SessionSound

LEMMA UnsetTmgiStep ==
    ASSUME IInv, NEW s \in Session, UnsetTmgi(s)
    PROVE  IInv' /\ ReportsStep
<1> DEFINE q == [ses[s] EXCEPT !.cur.tmgi = None]
<1>1. ses[s] \in PrivSession /\ ses[s].live = "live"
  BY DEF UnsetTmgi, MayIdentify, Live, IInv, TypeOK
<1>2. q \in PrivSession
  BY <1>1 DEF PrivSession, Fields
<1>3. /\ q.live = ses[s].live /\ q.prev = ses[s].prev /\ q.id = ses[s].id
      /\ q.obj = ses[s].obj /\ q.cur.tmgi = None
  BY <1>1 DEF PrivSession, Fields
<1>4. ses' = [ses EXCEPT ![s] = q]
  BY DEF UnsetTmgi, IInv, TypeOK
<1>5. leaked' \in SUBSET Object /\ leaked \subseteq leaked'
  BY <1>1, LeakSound DEF UnsetTmgi, IInv, TypeOK
<1> HIDE DEF q
<1>6. UNCHANGED <<sessions, made, known, xacts, wire, responses, serial, fault, appVars, remote>>
  BY DEF UnsetTmgi
<1>7. q.live = "live" /\ q.cur.tmgi \in {ses[s].cur.tmgi, None}
  BY <1>1, <1>3
<1> QED BY <1>1, <1>2, <1>3, <1>4, <1>5, <1>6, <1>7, EditOneSound

LEMMA MarkDeletedStep ==
    ASSUME IInv, NEW s \in Session, MarkDeleted(s)
    PROVE  IInv' /\ ReportsStep
<1> DEFINE q == [ses[s] EXCEPT !.deleted = TRUE]
<1>1. ses[s] \in PrivSession /\ ses[s].live = "live"
  BY DEF MarkDeleted, Live, IInv, TypeOK
<1>2. q \in PrivSession
  BY <1>1 DEF PrivSession
<1>3. /\ q.live = ses[s].live /\ q.prev = ses[s].prev /\ q.id = ses[s].id
      /\ q.obj = ses[s].obj /\ q.cur.tmgi = ses[s].cur.tmgi
  BY <1>1 DEF PrivSession
<1>4. ses' = [ses EXCEPT ![s] = q]
  BY DEF MarkDeleted, IInv, TypeOK
<1>5. /\ leaked' \in SUBSET Object /\ leaked \subseteq leaked'
      /\ UNCHANGED <<sessions, made, known, xacts, wire, responses, serial, fault, appVars, remote>>
  BY DEF MarkDeleted, IInv, TypeOK
<1> HIDE DEF q
<1> QED BY <1>1, <1>2, <1>3, <1>4, <1>5, EditOneSound

LEMMA SetTmgiStep ==
    ASSUME IInv, NEW s \in Session, NEW t \in Tmgi, SetTmgi(s, t)
    PROVE  IInv' /\ ReportsStep
<1> DEFINE q == Identified(ses[s], t)
<1>1. /\ ses \in [Session -> PrivSession] /\ ses[s].live = "live"
      /\ ses' = [ses EXCEPT ![s] = q]
      /\ leaked' = leaked \cup LeakOf(ses[s])
      /\ xacts' = Surviving(xacts, ses', leaked')
      /\ UNCHANGED <<sessions, made, known, wire, responses, serial, fault, appVars, remote>>
  BY DEF SetTmgi, MayIdentify, Live, IInv, TypeOK
<1>2. /\ q \in PrivSession
      /\ q.live = ses[s].live /\ q.prev = ses[s].prev /\ q.id = ses[s].id /\ q.obj = t
  <2> DEFINE c == [ses[s].cur EXCEPT !.tmgi = t, !.req = FALSE]
  <2>1. ses[s] \in PrivSession /\ ses[s].cur \in Fields
    BY <1>1 DEF PrivSession
  <2>2. c \in Fields
    BY <2>1 DEF Fields
  <2>3. q = [ses[s] EXCEPT !.cur = c, !.obj = t]
    BY DEF Identified
  <2>4. t \in Object
    BY DEF Object
  <2> HIDE DEF q, c
  <2>5. q \in PrivSession
    BY <2>1, <2>2, <2>3, <2>4 DEF PrivSession
  <2> QED BY <2>1, <2>3, <2>5 DEF PrivSession
<1> HIDE DEF q
<1>3. ses' \in [Session -> PrivSession]
  BY <1>1, <1>2
<1>4. leaked' \in SUBSET Object
  BY <1>1, LeakSound DEF IInv, TypeOK
<1>5. xacts' \subseteq xacts
  BY <1>1 DEF Surviving
<1>6. TypeOK'
  BY <1>1, <1>3, <1>4, <1>5 DEF IInv, TypeOK, appVars
<1>7. ListIsLive' /\ LiveStep
  BY <1>1, <1>2 DEF IInv, ListIsLive, Live, LiveStep
<1>8. SessionsSound'
  <2>1. SessionSound(q)
    BY <1>1, <1>2, NoneAssumption DEF IInv, SessionsSound, SessionSound
  <2> QED BY <1>1, <2>1 DEF IInv, SessionsSound
<1>9. XactObjectHeld'
  BY <1>1 DEF XactObjectHeld, Surviving
<1>10. ReportsStep
  <2>1. reports' = reports
    BY <1>1 DEF appVars
  <2> QED BY <2>1 DEF ReportsStep
<1>11. XactsStep
  <2>1. serial' = serial /\ serial \in Nat
    BY <1>1 DEF IInv, TypeOK
  <2> QED BY <2>1, <1>5 DEF XactsStep
<1> QED BY <1>6, <1>7, <1>8, <1>9, <1>10, <1>11, StepSound

(* A push of live sessions, after one of them may have taken in a response. *)
LEMMA PushStep ==
    ASSUME IInv,
           NEW S \in [Session -> PrivSession], \A s \in Session : SessionSound(S[s]),
           \A s \in Session : S[s].live = ses[s].live /\ S[s].obj = ses[s].obj,
           NEW P \in SUBSET Session, \A s \in P : S[s].live = "live",
           NEW xs \in SUBSET xacts, DoPush(S, P, xs),
           UNCHANGED <<sessions, made, known, remote>>,
           leaked' \in SUBSET Object, leaked \subseteq leaked',
           responses' \in SUBSET responses, lost' \in SUBSET Session,
           reports' \in SUBSET [x: Xact, to: Session, cb: {"create", "update", "delete"},
                                result: Result],
           ReportsStep
    PROVE  IInv' /\ ReportsStep
<1>1. /\ ses \in [Session -> PrivSession] /\ xs \in SUBSET Xact /\ TypeOK
      /\ serial \in Nat
  BY DEF IInv, TypeOK
<1>2. /\ ses' \in [Session -> PrivSession]
      /\ \A s \in Session :
            /\ ses'[s].live = S[s].live
            /\ ses'[s].cur = S[s].cur
            /\ ses'[s].prev = S[s].prev
            /\ ses'[s].id = S[s].id
            /\ S[s].obj # None => ses'[s].obj = S[s].obj
      /\ xacts' \in SUBSET Xact
      /\ \A x \in xacts' : x \notin xs =>
            /\ x.k = serial + 1 /\ serial' = serial + 1
            /\ x.op = "update" => x.target # None
            /\ \E s \in P : ses'[s].obj = x.obj
      /\ wire' \in SUBSET [x: Xact, to: Peer]
      /\ serial' \in Nat /\ serial <= serial'
      /\ pushed' \in SUBSET Session
      /\ fault' \in {"none", "assert", "null"}
  BY <1>1, PushSound
<1>3. TypeOK'
  BY <1>1, <1>2 DEF TypeOK
<1>4. ListIsLive' /\ LiveStep
  BY <1>1, <1>2 DEF IInv, ListIsLive, Live, LiveStep
<1>5. SessionsSound'
  <2>1. ASSUME NEW s \in Session PROVE SessionSound(ses'[s])
    BY <1>2 DEF SessionSound
  <2> QED BY <2>1 DEF SessionsSound
<1>6. XactObjectHeld'
  <2>1. ASSUME NEW x \in xacts' PROVE Held(x.obj, ses', leaked')
    <3>1. CASE x \in xs
      <4>1. x.obj \in Object /\ Held(x.obj, ses, leaked)
        BY <3>1 DEF IInv, TypeOK, Xact, XactObjectHeld
      <4>2. x.obj # None
        BY <4>1, NoneAssumption DEF Object
      <4>3. \A s \in Session : ses[s].live = "live" /\ ses[s].obj = x.obj =>
                               ses'[s].live = "live" /\ ses'[s].obj = x.obj
        BY <1>2, <4>2
      <4> QED BY <4>1, <4>3, HeldKept
    <3>2. CASE x \notin xs
      BY <3>2, <1>2 DEF Held
    <3> QED BY <3>1, <3>2
  <2> QED BY <2>1 DEF XactObjectHeld
<1>7. XactsStep
  BY <1>2 DEF XactsStep
<1> QED BY <1>3, <1>4, <1>5, <1>6, <1>7, StepSound

LEMMA AppPushStep ==
    ASSUME IInv, PushAll \/ \E s \in Session : Push(s)
    PROVE  IInv' /\ ReportsStep
<1>1. PICK P \in SUBSET Session :
          /\ \A s \in P : ses[s].live = "live"
          /\ DoPush(ses, P, xacts)
          /\ UNCHANGED <<sessions, made, known, leaked, responses, reports, lost, remote>>
  <2>1. CASE PushAll
    BY <2>1 DEF PushAll, Live
  <2>2. CASE \E s \in Session : Push(s)
    <3>1. PICK s \in Session : Push(s)
      BY <2>2
    <3>2. {s} \in SUBSET Session /\ \A u \in {s} : ses[u].live = "live"
      BY <3>1 DEF Push, MayPush, Live
    <3> QED BY <3>1, <3>2 DEF Push
  <2> QED BY <2>1, <2>2
<1>2. TypeOK /\ ses \in [Session -> PrivSession] /\ \A s \in Session : SessionSound(ses[s])
  BY DEF IInv, TypeOK, SessionsSound
<1>3. ReportsStep
  BY <1>1 DEF ReportsStep
<1>4. /\ leaked' \in SUBSET Object /\ leaked \subseteq leaked'
      /\ responses' \in SUBSET responses /\ lost' \in SUBSET Session
      /\ reports' \in SUBSET [x: Xact, to: Session, cb: {"create", "update", "delete"},
                              result: Result]
  BY <1>1, <1>2 DEF TypeOK
<1> QED BY <1>1, <1>2, <1>3, <1>4, PushStep

-----------------------------------------------------------------------------
(* Events *)

(* A response whose transaction exists, and the session it is given to. *)
LEMMA FoundSound ==
    ASSUME IInv, NEW m \in responses, m.x \in xacts
    PROVE  /\ m \in [x: Xact, from: Peer, outcome: Outcome]
           /\ m.x \in Xact /\ m.x.k <= serial
           /\ SessionOf(m.x.obj) \in Session \cup {None}
           /\ SessionOf(m.x.obj) # None =>
                 /\ SessionOf(m.x.obj) \in sessions
                 /\ ses[SessionOf(m.x.obj)].obj = m.x.obj
                 /\ ses[SessionOf(m.x.obj)].live = "live"
<1>1. m \in [x: Xact, from: Peer, outcome: Outcome] /\ m.x \in Xact /\ m.x.k <= serial
  BY DEF IInv, TypeOK, Numbered
<1>2. ASSUME SessionOf(m.x.obj) # None
      PROVE  /\ SessionOf(m.x.obj) \in sessions
             /\ ses[SessionOf(m.x.obj)].obj = m.x.obj
  BY <1>2, SessionOfFound DEF IInv
<1>3. \A s \in sessions : s \in Session /\ ses[s].live = "live"
  BY DEF IInv, ListIsLive, Live, TypeOK
<1> QED BY <1>1, <1>2, <1>3

(* A handler that at most reports and removes its transaction. *)
LEMMA EndStep ==
    ASSUME IInv, NEW m \in responses, m.x \in xacts, End(m),
           UNCHANGED ses, fault' \in {"none", "assert", "null"}, lost' \in SUBSET Session,
           \/ reports' = reports
           \/ \E cb \in {"create", "update", "delete"}, res \in Result \ {"OGS_DONE"} :
                 Report(m.x, SessionOf(m.x.obj), cb, res)
    PROVE  IInv' /\ ReportsStep
<1>1. /\ m.x \in Xact /\ m.x.k <= serial
      /\ SessionOf(m.x.obj) \in Session \cup {None}
      /\ SessionOf(m.x.obj) # None => SessionOf(m.x.obj) \in sessions
      /\ TypeOK
  BY FoundSound DEF IInv
<1>2. /\ xacts' = xacts \ {m.x} /\ responses' = responses \ {m}
      /\ UNCHANGED <<sessions, made, known, leaked, wire, serial, pushed, remote>>
  BY DEF End
<1>3. /\ reports' \in SUBSET [x: Xact, to: Session, cb: {"create", "update", "delete"},
                              result: Result]
      /\ ReportsStep
  <2>1. CASE reports' = reports
    BY <2>1, <1>1 DEF ReportsStep, TypeOK
  <2>2. ASSUME NEW cb \in {"create", "update", "delete"}, NEW res \in Result \ {"OGS_DONE"},
               Report(m.x, SessionOf(m.x.obj), cb, res)
        PROVE  /\ reports' \in SUBSET [x: Xact, to: Session, cb: {"create", "update", "delete"},
                                       result: Result]
               /\ ReportsStep
    <3> DEFINE to == SessionOf(m.x.obj)
    <3>1. /\ reports' \in SUBSET [x: Xact, to: Session, cb: {"create", "update", "delete"},
                                  result: Result]
          /\ \A r \in reports' : r \notin reports =>
                /\ r = [x |-> m.x, to |-> to, cb |-> cb, result |-> res]
                /\ to # None
      BY <2>2, <1>1, ReportSound
    <3>2. reports \subseteq reports'
      BY <2>2 DEF Report
    <3> HIDE DEF to
    <3>3. to # None => to \in sessions
      BY <1>1 DEF to
    <3> QED BY <3>1, <3>2, <3>3, <1>1, <1>2 DEF ReportsStep
  <2> QED BY <2>1, <2>2
<1>4. TypeOK'
  BY <1>1, <1>2, <1>3 DEF TypeOK
<1> QED BY <1>2, <1>3, <1>4, QuietSound

LEMMA EndedStep ==
    ASSUME IInv, NEW m \in responses,
           \/ DiscoverFailed(m) \/ BadHeader(m) \/ CreateOrphaned(m) \/ CreateRejected(m)
           \/ UpdateAnswered(m) \/ RemoveOrphaned(m) \/ RemoveUnaddressed(m)
    PROVE  IInv' /\ ReportsStep
<1>1. m \in [x: Xact, from: Peer, outcome: Outcome] /\ m.x \in xacts
  BY DEF IInv, TypeOK, DiscoverFailed, BadHeader, CreateOrphaned, CreateRejected,
         UpdateAnswered, RemoveOrphaned, RemoveUnaddressed, Answer, Found
<1>2. m.x \in Xact /\ m.x.owner \in Session /\ fault \in {"none", "assert", "null"}
      /\ lost \in SUBSET Session /\ m.outcome \in Outcome
  BY <1>1 DEF IInv, TypeOK, Xact
<1>3. CASE DiscoverFailed(m)
  BY <1>1, <1>2, <1>3, EndStep DEF DiscoverFailed
<1>4. CASE BadHeader(m)
  <2>1. Report(m.x, SessionOf(m.x.obj), "create", "OGS_ERROR")
    BY <1>4 DEF BadHeader
  <2>2. "OGS_ERROR" \in Result \ {"OGS_DONE"}
    BY DEF Result
  <2> QED BY <1>1, <1>2, <1>4, <2>1, <2>2, EndStep DEF BadHeader
<1>5. CASE CreateOrphaned(m)
  BY <1>1, <1>2, <1>5, EndStep DEF CreateOrphaned
<1>6. CASE CreateRejected(m)
  <2>1. Report(m.x, SessionOf(m.x.obj), "create", "OGS_ERROR")
    BY <1>6 DEF CreateRejected
  <2>2. "OGS_ERROR" \in Result \ {"OGS_DONE"}
    BY DEF Result
  <2> QED BY <1>1, <1>2, <1>6, <2>1, <2>2, EndStep DEF CreateRejected
<1>7. CASE UpdateAnswered(m)
  <2>1. Report(m.x, SessionOf(m.x.obj), "update", "OGS_OK")
    BY <1>7 DEF UpdateAnswered
  <2>2. "OGS_OK" \in Result \ {"OGS_DONE"}
    BY DEF Result
  <2> QED BY <1>1, <1>2, <1>7, <2>1, <2>2, EndStep DEF UpdateAnswered
<1>8. CASE RemoveOrphaned(m)
  BY <1>1, <1>2, <1>8, EndStep DEF RemoveOrphaned
<1>9. CASE RemoveUnaddressed(m)
  BY <1>1, <1>2, <1>9, EndStep DEF RemoveUnaddressed
<1> QED BY <1>3, <1>4, <1>5, <1>6, <1>7, <1>8, <1>9

LEMMA IgnoreStep ==
    ASSUME IInv, NEW m \in responses, IgnoreResponse(m)
    PROVE  IInv' /\ ReportsStep
<1>1. /\ responses' = responses \ {m}
      /\ UNCHANGED <<sessions, made, ses, known, leaked, xacts, wire, serial, fault, appVars, remote>>
  BY DEF IgnoreResponse
<1>2. TypeOK'
  BY <1>1 DEF IInv, TypeOK, appVars
<1>3. ReportsStep
  BY <1>1 DEF ReportsStep, appVars
<1> QED BY <1>1, <1>2, <1>3, QuietSound

LEMMA DiscoverStep ==
    ASSUME IInv, NEW m \in responses, DiscoverFound(m)
    PROVE  IInv' /\ ReportsStep
<1>1. /\ responses' = responses \ {m}
      /\ known' = known \cup {m.x.obj}
      /\ wire' = wire \cup {[x |-> m.x, to |-> "mbsmf"]}
      /\ UNCHANGED <<sessions, made, ses, leaked, xacts, serial, fault, appVars, remote>>
  BY DEF DiscoverFound
<1>2. m.x \in Xact /\ m.x.obj \in Object
  BY DEF IInv, TypeOK, Xact
<1>3. TypeOK'
  <2>1. known' \in SUBSET Object
    BY <1>1, <1>2 DEF IInv, TypeOK
  <2>2. wire' \in SUBSET [x: Xact, to: Peer]
    BY <1>1, <1>2 DEF IInv, TypeOK, Peer
  <2> QED BY <1>1, <2>1, <2>2 DEF IInv, TypeOK, appVars
<1>4. ReportsStep
  BY <1>1 DEF ReportsStep, appVars
<1> QED BY <1>1, <1>3, <1>4, QuietSound

(* A patched session is a session. *)
LEMMA PatchedSound ==
    ASSUME NEW b \in Fields, NEW v \in SUBSET Attr
    PROVE  Patched(b, v) \in Fields
<1>1. v # {} => (CHOOSE a \in v : TRUE) \in Attr
  OBVIOUS
<1> QED BY <1>1 DEF Patched, Fields

LEMMA EnvironmentStep ==
    ASSUME IInv, Environment
    PROVE  IInv' /\ ReportsStep
<1>1. PICK w \in wire : NrfRespond(w) \/ MbsmfRespond(w)
  BY DEF Environment
<1>2. /\ w.x \in Xact /\ w.x.k \in Nat /\ w.x.owner \in Session /\ w.x.body \in Fields
      /\ w.x.op \in ReqOp /\ w.x.patch \in SUBSET Attr
  BY DEF IInv, TypeOK, Xact
<1>3. CASE NrfRespond(w)
  <2>1. PICK out \in NrfOutcomes :
            responses' = responses \cup {[x |-> w.x, from |-> "nrf", outcome |-> out]}
    BY <1>3 DEF NrfRespond
  <2>2. [x |-> w.x, from |-> "nrf", outcome |-> out] \in [x: Xact, from: Peer, outcome: Outcome]
    BY <1>2, PeerAssumption DEF Peer, Outcome
  <2>3. /\ wire' = wire \ {w}
        /\ UNCHANGED <<sessions, made, ses, known, leaked, xacts, serial, fault, appVars, remote>>
    BY <1>3 DEF NrfRespond
  <2>4. TypeOK'
    BY <2>1, <2>2, <2>3 DEF IInv, TypeOK, appVars
  <2>5. ReportsStep
    BY <2>3 DEF ReportsStep, appVars
  <2> QED BY <2>3, <2>4, <2>5, QuietSound
<1>4. CASE MbsmfRespond(w)
  <2>1. PICK out \in Outcomes :
            /\ responses' = responses \cup {[x |-> w.x, from |-> "mbsmf", outcome |-> out]}
            /\ remote' = Handled(w.x, out)
    BY <1>4 DEF MbsmfRespond
  <2>2. [x |-> w.x, from |-> "mbsmf", outcome |-> out] \in [x: Xact, from: Peer, outcome: Outcome]
    BY <1>2, PeerAssumption DEF Peer
  <2>3. /\ wire' = wire \ {w}
        /\ UNCHANGED <<sessions, made, ses, known, leaked, xacts, serial, fault, appVars>>
    BY <1>4 DEF MbsmfRespond
  <2>4. remote' \in SUBSET [id: ResourceId, body: Fields]
    <3> DEFINE R == [id: ResourceId, body: Fields]
    <3>1. remote \in SUBSET R
      BY DEF IInv, TypeOK
    <3>2. CASE out = "error"
      <4>1. remote' = remote
        BY <3>2, <2>1 DEF Handled
      <4> QED BY <4>1, <3>1
    <3>3. CASE out # "error" /\ w.x.op = "create"
      <4>1. remote' = remote \cup {[id |-> Created(w.x), body |-> w.x.body]}
        BY <3>3, <2>1 DEF Handled
      <4>2. Created(w.x) \in ResourceId
        BY <1>2 DEF Created, ResourceId
      <4> QED BY <4>1, <4>2, <3>1, <1>2
    <3>4. CASE out # "error" /\ w.x.op = "update"
      <4>1. remote' = {IF m.id = w.x.target THEN [m EXCEPT !.body = Patched(m.body, w.x.patch)]
                       ELSE m : m \in remote}
        BY <3>4, <2>1 DEF Handled
      <4>2. ASSUME NEW m \in remote
            PROVE  [m EXCEPT !.body = Patched(m.body, w.x.patch)] \in R /\ m \in R
        <5>1. m \in R /\ m.body \in Fields
          BY <3>1
        <5>2. Patched(m.body, w.x.patch) \in Fields
          BY <5>1, <1>2, PatchedSound
        <5> QED BY <5>1, <5>2
      <4> QED BY <4>1, <4>2
    <3>5. CASE out # "error" /\ w.x.op = "remove"
      <4>1. remote' = {m \in remote : m.id # w.x.target}
        BY <3>5, <2>1 DEF Handled
      <4> QED BY <4>1, <3>1
    <3> QED BY <3>2, <3>3, <3>4, <3>5, <1>2 DEF ReqOp
  <2>5. TypeOK'
    BY <2>1, <2>2, <2>3, <2>4 DEF IInv, TypeOK, appVars
  <2>6. ReportsStep
    BY <2>3 DEF ReportsStep, appVars
  <2> QED BY <2>3, <2>5, <2>6, QuietSound
<1> QED BY <1>1, <1>3, <1>4

(* What a callback does to the reports when the transaction ends with it. *)
LEMMA ReportStep ==
    ASSUME IInv, NEW x \in xacts, x \notin xacts',
           NEW to \in sessions, NEW cb \in {"create", "update", "delete"},
           NEW res \in Result,
           res = "OGS_DONE" => ses'[to].live = "freed",
           Report(x, to, cb, res)
    PROVE  /\ reports' \in SUBSET [x: Xact, to: Session, cb: {"create", "update", "delete"},
                                   result: Result]
           /\ ReportsStep
<1>1. TypeOK /\ x \in Xact /\ x.k <= serial /\ to \in Session
  BY DEF IInv, TypeOK, Numbered
<1>2. /\ reports' \in SUBSET [x: Xact, to: Session, cb: {"create", "update", "delete"},
                              result: Result]
      /\ \A r \in reports' : r \notin reports =>
            r = [x |-> x, to |-> to, cb |-> cb, result |-> res]
  BY <1>1, ReportSound
<1>3. reports \subseteq reports'
  BY DEF Report
<1> QED BY <1>1, <1>2, <1>3 DEF ReportsStep

LEMMA TimeoutStep ==
    ASSUME IInv, NEW x \in xacts, Timeout(x)
    PROVE  IInv' /\ ReportsStep
<1>1. /\ xacts' = xacts \ {x}
      /\ lost' = lost \cup {x.owner}
      /\ UNCHANGED <<sessions, made, ses, known, leaked, wire, responses, serial, fault, pushed, remote>>
  BY DEF Timeout
<1>2. x \in Xact /\ x.owner \in Session
  BY DEF IInv, TypeOK, Xact
<1>3. SessionOf(x.obj) \in sessions
  BY SessionOfFound DEF IInv, Timeout
<1>4. /\ reports' \in SUBSET [x: Xact, to: Session, cb: {"create", "update", "delete"},
                              result: Result]
      /\ ReportsStep
  <2>1. CASE x.op = "create"
    <3>1. Report(x, SessionOf(x.obj), "create", "OGS_ETIMEDOUT")
      BY <2>1 DEF Timeout
    <3>2. "OGS_ETIMEDOUT" \in Result /\ "OGS_ETIMEDOUT" # "OGS_DONE"
      BY DEF Result
    <3> QED BY <3>1, <3>2, <1>1, <1>3, ReportStep
  <2>2. CASE x.op # "create"
    <3>1. reports' = reports
      BY <2>2 DEF Timeout
    <3> QED BY <3>1 DEF ReportsStep, IInv, TypeOK
  <2> QED BY <2>1, <2>2
<1>5. TypeOK'
  BY <1>1, <1>2, <1>4 DEF IInv, TypeOK
<1> QED BY <1>1, <1>4, <1>5, QuietSound

LEMMA CreateUnusableStep ==
    ASSUME IInv, NEW m \in responses, CreateUnusable(m)
    PROVE  IInv' /\ ReportsStep
<1> DEFINE s == SessionOf(m.x.obj)
           q == [ses[s] EXCEPT !.id = Created(m.x)]
<1>1. /\ m.x \in xacts /\ m.outcome \in {"noLocation", "badBody"} /\ s # None
      /\ ses' = IF m.outcome = "badBody" THEN [ses EXCEPT ![s].id = Created(m.x)] ELSE ses
      /\ Report(m.x, s, "create", "OGS_ERROR")
      /\ lost' = lost \cup {m.x.owner}
      /\ xacts' = xacts \ {m.x} /\ responses' = responses \ {m}
      /\ UNCHANGED <<sessions, made, known, leaked, wire, serial, pushed, remote, fault>>
  BY DEF CreateUnusable, Answer, Found, End
<1>2. s \in sessions /\ s \in Session /\ m.x \in Xact /\ ses[s].live = "live"
  BY <1>1, FoundSound DEF IInv, TypeOK
<1>3. /\ m.x.owner \in Session /\ m.x.k \in Nat /\ TypeOK
      /\ ses \in [Session -> PrivSession] /\ ses[s] \in PrivSession
  BY <1>2 DEF IInv, TypeOK, Xact
<1> HIDE DEF s
<1>4. Created(m.x) \in ResourceId /\ Created(m.x) # None
  BY <1>3, NoneAssumption DEF Created, ResourceId
<1>5. /\ q \in PrivSession
      /\ q.live = ses[s].live /\ q.obj = ses[s].obj /\ q.cur = ses[s].cur
      /\ q.prev = ses[s].prev /\ q.id = Created(m.x)
  BY <1>3, <1>4 DEF PrivSession
<1>6. ses' = ses \/ ses' = [ses EXCEPT ![s] = q]
  BY <1>1, <1>3
<1> HIDE DEF q
<1>7. ses' \in [Session -> PrivSession]
  BY <1>3, <1>5, <1>6
<1>8. \A u \in Session : /\ ses'[u].live = ses[u].live /\ ses'[u].obj = ses[u].obj
                         /\ ses'[u].cur = ses[u].cur /\ ses'[u].prev = ses[u].prev
                         /\ ses'[u].id = ses[u].id \/ ses'[u].id # None
  BY <1>2, <1>3, <1>4, <1>5, <1>6
<1>9. ListIsLive' /\ LiveStep
  BY <1>1, <1>8 DEF IInv, ListIsLive, Live, LiveStep
<1>10. SessionsSound'
  BY <1>8 DEF IInv, SessionsSound, SessionSound
<1>11. /\ reports' \in SUBSET [x: Xact, to: Session, cb: {"create", "update", "delete"},
                               result: Result]
       /\ ReportsStep
  <2>1. "OGS_ERROR" \in Result /\ "OGS_ERROR" # "OGS_DONE"
    BY DEF Result
  <2>2. m.x \notin xacts'
    BY <1>1
  <2> QED BY <1>1, <1>2, <2>1, <2>2, ReportStep
<1>12. TypeOK'
  BY <1>1, <1>3, <1>7, <1>11 DEF TypeOK
<1>13. XactObjectHeld'
  <2>1. ASSUME NEW x \in xacts' PROVE Held(x.obj, ses', leaked')
    <3>1. x.obj \in Object /\ Held(x.obj, ses, leaked)
      BY <1>1 DEF IInv, TypeOK, Xact, XactObjectHeld
    <3>2. \A u \in Session : ses[u].live = "live" /\ ses[u].obj = x.obj =>
                             ses'[u].live = "live" /\ ses'[u].obj = x.obj
      BY <1>8
    <3>3. leaked \subseteq leaked'
      BY <1>1
    <3> QED BY <3>1, <3>2, <3>3, HeldKept
  <2> QED BY <2>1 DEF XactObjectHeld
<1>14. XactsStep
  <2>1. serial' = serial /\ serial \in Nat /\ xacts' \subseteq xacts
    BY <1>1, <1>3 DEF TypeOK
  <2> QED BY <2>1 DEF XactsStep
<1> QED BY <1>9, <1>10, <1>11, <1>12, <1>13, <1>14, StepSound

LEMMA RemoveAnsweredStep ==
    ASSUME IInv, NEW m \in responses, RemoveAnswered(m)
    PROVE  IInv' /\ ReportsStep
<1> DEFINE s == SessionOf(m.x.obj)
           q == Freed(ses[s])
<1>1. /\ m.x \in xacts /\ s # None
      /\ Report(m.x, s, "delete", "OGS_DONE")
      /\ ses' = [ses EXCEPT ![s] = q]
      /\ sessions' = sessions \ {s}
      /\ xacts' = Surviving(xacts \ {m.x}, ses', leaked)
      /\ lost' = (IF m.outcome = "ok" THEN lost ELSE lost \cup {m.x.owner})
      /\ responses' = responses \ {m}
      /\ UNCHANGED <<made, known, leaked, wire, serial, fault, pushed, remote>>
  BY DEF RemoveAnswered, Answer, Found, FreeSession
<1>2. s \in sessions /\ s \in Session /\ ses[s].live = "live"
  BY <1>1, FoundSound DEF IInv, TypeOK
<1>3. /\ m.x.owner \in Session /\ TypeOK
      /\ ses \in [Session -> PrivSession] /\ ses[s] \in PrivSession
  BY <1>1, <1>2 DEF IInv, TypeOK, Xact
<1> HIDE DEF s
<1>4. /\ q \in PrivSession
      /\ q.live = "freed" /\ q.prev = None
  <2>1. q = [ses[s] EXCEPT !.live = "freed", !.id = None, !.prev = None, !.obj = None]
    BY DEF Freed
  <2> HIDE DEF q
  <2>2. q \in PrivSession
    BY <2>1, <1>3 DEF PrivSession
  <2> QED BY <2>1, <2>2, <1>3 DEF PrivSession
<1> HIDE DEF q
<1>5. ses' \in [Session -> PrivSession] /\ ses'[s] = q
  BY <1>1, <1>2, <1>3, <1>4
<1>6. ListIsLive' /\ LiveStep
  BY <1>1, <1>2, <1>3, <1>4 DEF IInv, ListIsLive, Live, LiveStep
<1>7. SessionsSound'
  <2>1. SessionSound(q)
    BY <1>4 DEF SessionSound
  <2> QED BY <1>1, <1>3, <2>1 DEF IInv, SessionsSound
<1>8. xacts' \subseteq xacts /\ m.x \notin xacts'
  BY <1>1 DEF Surviving
<1>9. /\ reports' \in SUBSET [x: Xact, to: Session, cb: {"create", "update", "delete"},
                              result: Result]
      /\ ReportsStep
  <2>1. "OGS_DONE" \in Result /\ ses'[s].live = "freed"
    BY <1>4, <1>5 DEF Result
  <2> QED BY <1>1, <1>2, <1>3, <1>8, <2>1, ReportStep
<1>10. TypeOK'
  BY <1>1, <1>3, <1>5, <1>8, <1>9 DEF TypeOK
<1>11. XactObjectHeld'
  BY <1>1 DEF XactObjectHeld, Surviving
<1>12. XactsStep
  <2>1. serial' = serial /\ serial \in Nat
    BY <1>1, <1>3 DEF TypeOK
  <2> QED BY <2>1, <1>8 DEF XactsStep
<1> QED BY <1>6, <1>7, <1>9, <1>10, <1>11, <1>12, StepSound

(* What the response to a create and the application's callback make of a   *)
(* session.                                                                 *)
LEMMA ParsedSound ==
    ASSUME NEW q \in PrivSession, NEW x \in Xact, NEW a \in Attr, NEW d \in BOOLEAN,
           q.live = "live", q.obj # None
    PROVE  /\ Edited(Parsed(q, x), a, d) \in PrivSession
           /\ SessionSound(Edited(Parsed(q, x), a, d))
           /\ Edited(Parsed(q, x), a, d).live = q.live
           /\ Edited(Parsed(q, x), a, d).obj = q.obj
<1> DEFINE c == [q.cur EXCEPT !.ssm = IF x.body.ssm # None THEN x.body.ssm ELSE q.cur.ssm,
                              !.tmgi = IF q.cur.req THEN Granted ELSE q.cur.tmgi]
           p == PublicCopy(q.prev, c)
           q1 == Parsed(q, x)
           c2 == [q1.cur EXCEPT !.attr = a]
           q2 == Edited(q1, a, d)
<1>1. q.cur \in Fields /\ q.prev \in Fields \cup {None} /\ x.body \in Fields
  BY DEF PrivSession, Xact
<1>2. c \in Fields
  BY <1>1 DEF Fields
<1>3. p \in Fields
  <2> HIDE DEF c
  <2>1. q.prev # None => q.prev.term \in BOOLEAN
    BY <1>1 DEF Fields
  <2>2. p = [c EXCEPT !.term = IF q.prev = None THEN FALSE ELSE q.prev.term]
    BY DEF PublicCopy
  <2> HIDE DEF p
  <2> QED BY <1>2, <2>1, <2>2 DEF Fields
<1>4. Created(x) \in ResourceId /\ Created(x) # None
  BY NoneAssumption DEF Created, ResourceId, Xact
<1>5. q1 = [q EXCEPT !.id = Created(x), !.cur = c, !.prev = p]
  BY DEF Parsed
<1>6. q2 = [q1 EXCEPT !.cur = c2, !.deleted = d]
  BY DEF Edited
<1>7. q1 \in PrivSession /\ q1.cur \in Fields
  <2> HIDE DEF c, p, q1
  <2>1. q1 \in PrivSession
    BY <1>2, <1>3, <1>4, <1>5 DEF PrivSession
  <2> QED BY <2>1 DEF PrivSession
<1>8. q1.live = q.live /\ q1.obj = q.obj /\ q1.id = Created(x)
  <2> HIDE DEF c, p, q1
  <2> QED BY <1>5 DEF PrivSession
<1> HIDE DEF q1, c, p
<1>9. c2 \in Fields
  BY <1>7 DEF Fields
<1> HIDE DEF c2, q2
<1>10. q2 \in PrivSession
  BY <1>6, <1>7, <1>9 DEF PrivSession
<1>11. q2.live = q1.live /\ q2.obj = q1.obj /\ q2.id = q1.id
  BY <1>6, <1>7 DEF PrivSession
<1>12. SessionSound(q2)
  BY <1>4, <1>8, <1>11 DEF SessionSound
<1> QED BY <1>8, <1>10, <1>11, <1>12 DEF q2, q1

LEMMA CreateAcceptedStep ==
    ASSUME IInv, NEW m \in responses, CreateAccepted(m)
    PROVE  IInv' /\ ReportsStep
<1> DEFINE s == SessionOf(m.x.obj)
<1>1. /\ m.x \in xacts /\ s # None
      /\ Report(m.x, s, "create", "OGS_OK")
      /\ leaked' = leaked \cup (IF ses[s].cur.req THEN LeakOf(ses[s]) ELSE {})
      /\ responses' = responses \ {m}
      /\ UNCHANGED <<sessions, made, known, lost, remote>>
  BY DEF CreateAccepted, Answer, Found
<1>2. PICK a \in Attr, d \in {ses[s].deleted, TRUE} :
          DoPush([ses EXCEPT ![s] = Edited(Parsed(ses[s], m.x), a, d)], {s}, xacts \ {m.x})
  BY DEF CreateAccepted
<1>3. /\ s \in sessions /\ s \in Session /\ ses[s].live = "live" /\ ses[s].obj = m.x.obj
      /\ m.x \in Xact /\ m.x.k <= serial
  BY <1>1, FoundSound DEF IInv, TypeOK
<1> HIDE DEF s
<1>4. /\ TypeOK /\ ses \in [Session -> PrivSession] /\ ses[s] \in PrivSession
      /\ m.x.k \in Nat /\ serial \in Nat
  BY <1>3 DEF IInv, TypeOK, Xact
<1>5. d \in BOOLEAN /\ ses[s].obj # None
  <2>1. m.x.obj \in Object /\ m.x.obj # None
    BY <1>3, NoneAssumption DEF Xact, Object
  <2>2. ses[s].deleted \in BOOLEAN
    BY <1>4 DEF PrivSession
  <2>3. d \in BOOLEAN
    BY <2>2
  <2> QED BY <2>1, <2>3, <1>3
<1> DEFINE q == Edited(Parsed(ses[s], m.x), a, d)
           S == [ses EXCEPT ![s] = q]
           xs == xacts \ {m.x}
<1>6. q \in PrivSession /\ SessionSound(q) /\ q.live = ses[s].live /\ q.obj = ses[s].obj
  BY <1>3, <1>4, <1>5, ParsedSound
<1> HIDE DEF q
<1>7. /\ S \in [Session -> PrivSession]
      /\ \A u \in Session : SessionSound(S[u])
      /\ \A u \in Session : S[u].live = ses[u].live /\ S[u].obj = ses[u].obj
      /\ \A u \in {s} : S[u].live = "live"
  BY <1>3, <1>4, <1>6 DEF IInv, SessionsSound
<1>8. xs \in SUBSET xacts /\ xs \in SUBSET Xact /\ {s} \in SUBSET Session /\ m.x \notin xs
  BY <1>3, <1>4 DEF TypeOK
<1>9. DoPush(S, {s}, xs)
  BY <1>2 DEF q
<1> HIDE DEF S, xs
<1>10. m.x \notin xacts'
  <2>1. /\ S \in [Session -> PrivSession]
        /\ \A u \in Session : SessionSound(S[u])
    BY <1>7
  <2>2. {s} \in SUBSET Session /\ xs \in SUBSET Xact /\ TypeOK
    BY <1>4, <1>8
  <2>3. \A x \in xacts' : x \notin xs => x.k = serial + 1
    BY <1>9, <2>1, <2>2, PushSound
  <2>4. m.x.k # serial + 1
    BY <1>3, <1>4
  <2> QED BY <2>3, <2>4, <1>8
<1>11. /\ reports' \in SUBSET [x: Xact, to: Session, cb: {"create", "update", "delete"},
                               result: Result]
       /\ ReportsStep
  <2>1. "OGS_OK" \in Result /\ "OGS_OK" # "OGS_DONE"
    BY DEF Result
  <2> QED BY <1>1, <1>3, <1>10, <2>1, ReportStep
<1>12. /\ leaked' \in SUBSET Object /\ leaked \subseteq leaked'
       /\ responses' \in SUBSET responses /\ lost' \in SUBSET Session
  BY <1>1, <1>3, <1>4, LeakSound DEF TypeOK
<1>13. UNCHANGED <<sessions, made, known, remote>>
  BY <1>1
<1> QED BY <1>7, <1>8, <1>9, <1>11, <1>12, <1>13, PushStep

-----------------------------------------------------------------------------
(* The invariant *)

LEMMA InitSound == Init => IInv
<1> SUFFICES ASSUME Init PROVE IInv
  OBVIOUS
<1> DEFINE c == [ssm |-> None, tmgi |-> None, req |-> TRUE,
                 attr |-> CHOOSE a \in Attr : TRUE, term |-> FALSE]
           q == [live |-> "none", deleted |-> FALSE, id |-> None, cur |-> c,
                 prev |-> None, obj |-> None, at |-> 0]
<1>1. (CHOOSE a \in Attr : TRUE) \in Attr
  BY AttrAssumption
<1>2. c \in Fields /\ c.tmgi = None
  BY <1>1 DEF Fields
<1>3. ses = [s \in Session |-> q]
  BY DEF Init
<1> HIDE DEF c
<1>4. q \in PrivSession
  BY <1>2 DEF PrivSession
<1>5. q.live = "none" /\ q.prev = None /\ q.cur = c
  OBVIOUS
<1> HIDE DEF q
<1>6. /\ sessions = {} /\ made = 0 /\ known = {} /\ leaked = {} /\ xacts = {} /\ wire = {}
      /\ responses = {} /\ serial = 0 /\ fault = "none" /\ reports = {} /\ pushed = {}
      /\ lost = {} /\ remote = {}
  BY DEF Init
<1>7. TypeOK
  BY <1>3, <1>4, <1>6 DEF TypeOK
<1>8. ListIsLive
  BY <1>3, <1>5, <1>6 DEF ListIsLive, Live
<1>9. SessionsSound
  BY <1>2, <1>3, <1>5 DEF SessionsSound, SessionSound
<1> QED BY <1>6, <1>7, <1>8, <1>9 DEF IInv, PatchTargetKnown, XactObjectHeld, Numbered,
                                      OneReportPerRequest, DoneIsFreed

LEMMA NextSound ==
    ASSUME IInv, Next
    PROVE  IInv' /\ ReportsStep
<1>1. CASE Application
  BY <1>1, NewStep, SetAttrStep, SetSsmStep, SetTmgiStep, UnsetTmgiStep, MarkDeletedStep,
     AppPushStep DEF Application
<1>2. CASE HandleResponse
  BY <1>2, IgnoreStep, DiscoverStep, EndedStep, CreateAcceptedStep, CreateUnusableStep,
     RemoveAnsweredStep DEF HandleResponse
<1>3. CASE HandleTimer
  BY <1>3, TimeoutStep DEF HandleTimer
<1>4. CASE Environment
  BY <1>4, EnvironmentStep
<1> QED BY <1>1, <1>2, <1>3, <1>4 DEF Next

LEMMA StutterSound ==
    ASSUME IInv, UNCHANGED vars
    PROVE  IInv' /\ ReportsStep
<1>1. UNCHANGED <<sessions, made, ses, known, leaked, xacts, wire, responses, serial, fault,
                  appVars, remote>>
  BY DEF vars
<1>2. TypeOK'
  BY <1>1 DEF IInv, TypeOK, appVars
<1>3. ReportsStep
  BY <1>1 DEF ReportsStep, appVars
<1> QED BY <1>1, <1>2, <1>3, QuietSound

(* The invariant holds in every reachable state. *)
THEOREM Invariant == Spec => []IInv
<1>1. IInv /\ [Next]_vars => IInv'
  BY NextSound, StutterSound
<1> QED BY <1>1, InitSound, PTL DEF Spec

-----------------------------------------------------------------------------
(* The theorems *)

(* Every variable of the session state machine keeps its type, for any      *)
(* number of sessions and any behaviour of the peers.                       *)
THEOREM TypeCorrect == Spec => []TypeOK
<1>1. IInv => TypeOK
  BY DEF IInv
<1> QED BY <1>1, Invariant, PTL

(* The context's list of sessions holds exactly the allocated ones, however *)
(* creations, deletions and late answers are interleaved.                   *)
THEOREM ListStaysLive == Spec => []ListIsLive
<1>1. IInv => ListIsLive
  BY DEF IInv
<1> QED BY <1>1, Invariant, PTL

(* A PATCH request always has the resource id of the session.               *)
THEOREM PatchHasTarget == Spec => []PatchTargetKnown
<1>1. IInv => PatchTargetKnown
  BY DEF IInv
<1> QED BY <1>1, Invariant, PTL

(* No transaction outlives the sbi_object it is on, although sessions take  *)
(* over the objects of TMGIs and free their own.                            *)
THEOREM XactsOnHeldObjects == Spec => []XactObjectHeld
<1>1. IInv => XactObjectHeld
  BY DEF IInv
<1> QED BY <1>1, Invariant, PTL

(* The application hears at most once of each request.                      *)
THEOREM ReportedOnce == Spec => []OneReportPerRequest
<1>1. IInv => OneReportPerRequest
  BY DEF IInv
<1> QED BY <1>1, Invariant, PTL

(* After the callback with OGS_DONE a session makes no callback any more.   *)
THEOREM SilentAfterDone == Spec => NoCallbackAfterDone
<1> DEFINE A == \A r \in reports' \ reports :
                   ~\E d \in reports : d.to = r.to /\ d.result = "OGS_DONE"
<1>1. ASSUME IInv, [Next]_vars PROVE A
  <2>1. ReportsStep
    BY <1>1, NextSound, StutterSound
  <2>2. ASSUME NEW r \in reports' \ reports, NEW d \in reports,
               d.to = r.to, d.result = "OGS_DONE"
        PROVE  FALSE
    <3>1. r.to \in sessions
      BY <2>1 DEF ReportsStep
    <3>2. ses[r.to].live = "live"
      BY <3>1, <1>1 DEF IInv, ListIsLive, Live
    <3>3. ses[d.to].live = "freed"
      BY <2>2, <1>1 DEF IInv, DoneIsFreed
    <3> QED BY <2>2, <3>2, <3>3
  <2> QED BY <2>2
<1>2. IInv /\ [Next]_vars => [A]_vars
  BY <1>1
<1> QED BY <1>2, Invariant, PTL DEF Spec, NoCallbackAfterDone

-----------------------------------------------------------------------------
(* Which session a response is given to *)

(* A session has its own object or that of a TMGI, and so has a transaction *)
(* of the session.                                                          *)
ObjectsOwn ==
    /\ \A s \in Session : ses[s].obj \in {s, None} \cup Tmgi
    /\ \A x \in xacts : x.obj \in {x.owner} \cup Tmgi

(* The reports of a step are about a transaction, and go to the session     *)
(* found by its object.                                                     *)
OnlyAbout(x) == \A r \in reports' \ reports : r.x = x /\ r.to = SessionOf(x.obj) /\ r.to # None

ReportsFound ==
    \A r \in reports' \ reports : r.x \in xacts /\ r.to = SessionOf(r.x.obj) /\ r.to # None

LEMMA FoundStep ==
    ASSUME [Next]_vars
    PROVE  ReportsFound
<1>1. ASSUME NEW x \in xacts, OnlyAbout(x) PROVE ReportsFound
  BY <1>1 DEF OnlyAbout, ReportsFound
<1>2. ASSUME reports' = reports PROVE ReportsFound
  BY <1>2 DEF ReportsFound
<1>3. CASE Application
  <2>1. reports' = reports
    BY <1>3 DEF Application, New, SetAttr, SetSsm, SetTmgi, UnsetTmgi, MarkDeleted, Push, PushAll,
                appVars
  <2> QED BY <2>1, <1>2
<1>4. CASE HandleResponse
  <2>1. ASSUME NEW m \in responses,
               IgnoreResponse(m) \/ DiscoverFound(m) \/ DiscoverFailed(m) \/ CreateOrphaned(m)
                 \/ RemoveOrphaned(m) \/ RemoveUnaddressed(m)
        PROVE  ReportsFound
    BY <2>1, <1>2 DEF IgnoreResponse, DiscoverFound, DiscoverFailed, CreateOrphaned,
                      RemoveOrphaned, RemoveUnaddressed, appVars
  <2>2. ASSUME NEW m \in responses,
               BadHeader(m) \/ CreateAccepted(m) \/ CreateUnusable(m) \/ CreateRejected(m)
                 \/ UpdateAnswered(m) \/ RemoveAnswered(m)
        PROVE  ReportsFound
    <3>1. m.x \in xacts
      BY <2>2 DEF BadHeader, CreateAccepted, CreateUnusable, CreateRejected, UpdateAnswered,
                  RemoveAnswered, Answer, Found
    <3>2. \/ Report(m.x, SessionOf(m.x.obj), "create", "OGS_ERROR")
          \/ Report(m.x, SessionOf(m.x.obj), "create", "OGS_OK")
          \/ Report(m.x, SessionOf(m.x.obj), "update", "OGS_OK")
          \/ Report(m.x, SessionOf(m.x.obj), "delete", "OGS_DONE")
      BY <2>2 DEF BadHeader, CreateAccepted, CreateUnusable, CreateRejected, UpdateAnswered,
                  RemoveAnswered
    <3>3. OnlyAbout(m.x)
      BY <3>2 DEF Report, OnlyAbout
    <3> QED BY <3>1, <3>3, <1>1
  <2>3. PICK m \in responses :
            \/ IgnoreResponse(m) \/ DiscoverFound(m) \/ DiscoverFailed(m) \/ CreateOrphaned(m)
            \/ RemoveOrphaned(m) \/ RemoveUnaddressed(m) \/ BadHeader(m) \/ CreateRejected(m)
            \/ UpdateAnswered(m) \/ CreateAccepted(m) \/ CreateUnusable(m) \/ RemoveAnswered(m)
    BY <1>4 DEF HandleResponse
  <2> QED BY <2>1, <2>2, <2>3
<1>5. CASE HandleTimer
  <2>1. PICK x \in xacts : Timeout(x)
    BY <1>5 DEF HandleTimer
  <2>2. CASE x.op = "create"
    <3>1. Report(x, SessionOf(x.obj), "create", "OGS_ETIMEDOUT")
      BY <2>1, <2>2 DEF Timeout
    <3>2. OnlyAbout(x)
      BY <3>1 DEF Report, OnlyAbout
    <3> QED BY <3>2, <1>1
  <2>3. CASE x.op # "create"
    BY <2>1, <2>3, <1>2 DEF Timeout
  <2> QED BY <2>2, <2>3
<1>6. CASE Environment
  BY <1>6, <1>2 DEF Environment, NrfRespond, MbsmfRespond, appVars
<1>7. CASE UNCHANGED vars
  BY <1>7, <1>2 DEF vars, appVars
<1> QED BY <1>3, <1>4, <1>5, <1>6, <1>7 DEF Next

(* A push gives a session its own object if it has none. *)
LEMMA PushObjects ==
    ASSUME TypeOK,
           NEW S \in [Session -> PrivSession], NEW P \in SUBSET Session, NEW xs, xs \subseteq xacts,
           \A s \in Session : SessionSound(S[s]) /\ S[s].obj = ses[s].obj,
           ObjectsOwn, DoPush(S, P, xs)
    PROVE  ObjectsOwn'
<1>1. CASE \E s \in P : PushFaults(S[s])
  BY <1>1 DEF DoPush, ObjectsOwn
<1>2. CASE ~\E s \in P : PushFaults(S[s])
  <2>1. /\ ses' = [s \in Session |->
                     IF s \in P THEN [S[s] EXCEPT !.obj = ObjectFor(s, S[s])] ELSE S[s]]
        /\ xacts' = xs \cup UNION {NewXacts(s, S[s]) : s \in P}
    BY <1>2 DEF DoPush
  <2>2. ASSUME NEW s \in Session
        PROVE  ses'[s].obj \in {s, None} \cup Tmgi
    <3>1. S[s].obj \in {s, None} \cup Tmgi
      BY DEF ObjectsOwn
    <3>2. ObjectFor(s, S[s]) \in {s, None} \cup Tmgi
      BY <3>1 DEF ObjectFor
    <3> QED BY <2>1, <3>1, <3>2 DEF PrivSession
  <2>3. ASSUME NEW x \in xacts' PROVE x.obj \in {x.owner} \cup Tmgi
    <3>1. CASE x \in xs
      BY <3>1 DEF ObjectsOwn
    <3>2. CASE x \notin xs
      <4>1. PICK s \in P : x \in NewXacts(s, S[s])
        BY <3>2, <2>1
      <4>2. x.owner = s /\ x.obj = ObjectFor(s, S[s]) /\ x.obj \in Object
        BY <4>1, <1>2, NewXactsSound DEF Xact
      <4>3. x.obj \in {s, None} \cup Tmgi
        BY <4>2 DEF ObjectFor, ObjectsOwn
      <4> QED BY <4>2, <4>3, NoneAssumption DEF Object
    <3> QED BY <3>1, <3>2
  <2> QED BY <2>2, <2>3 DEF ObjectsOwn
<1> QED BY <1>1, <1>2

LEMMA ObjectsStep ==
    ASSUME IInv, ObjectsOwn, [Next]_vars
    PROVE  ObjectsOwn'
<1>0. TypeOK /\ ses \in [Session -> PrivSession] /\ \A s \in Session : SessionSound(ses[s])
  BY DEF IInv, TypeOK, SessionsSound
<1>1. ASSUME xacts' \subseteq xacts, \A s \in Session : ses'[s].obj \in {ses[s].obj, None} \cup Tmgi
      PROVE  ObjectsOwn'
  BY <1>1 DEF ObjectsOwn
<1>2. CASE Application
  <2>1. ASSUME NEW s \in Session, NEW m, NEW t, New(s, m, t) \/ SetSsm(s, m)
        PROVE  ObjectsOwn'
    <3>1. CASE New(s, m, t)
      <4>1. Opened(ses[s], m, t).obj = ses[s].obj
        BY <1>0 DEF Opened, PrivSession
      <4> QED BY <3>1, <4>1, <1>0, <1>1 DEF New
    <3>2. CASE SetSsm(s, m)
      <4>1. xacts' = xacts /\ \A u \in Session : ses'[u].obj = ses[u].obj
        BY <3>2, <1>0 DEF SetSsm, PrivSession
      <4> QED BY <4>1, <1>1
    <3> QED BY <2>1, <3>1, <3>2
  <2>2. ASSUME NEW s \in Session, NEW a, SetAttr(s, a)
        PROVE  ObjectsOwn'
    <3>1. xacts' = xacts /\ \A u \in Session : ses'[u].obj = ses[u].obj
      BY <2>2, <1>0 DEF SetAttr, PrivSession
    <3> QED BY <3>1, <1>1
  <2>3. ASSUME NEW s \in Session, MarkDeleted(s) \/ UnsetTmgi(s)
        PROVE  ObjectsOwn'
    <3>1. xacts' = xacts /\ \A u \in Session : ses'[u].obj = ses[u].obj
      BY <2>3, <1>0 DEF MarkDeleted, UnsetTmgi, PrivSession
    <3> QED BY <3>1, <1>1
  <2>4. ASSUME NEW s \in Session, NEW t \in Tmgi, SetTmgi(s, t)
        PROVE  ObjectsOwn'
    <3>1. xacts' \subseteq xacts
      BY <2>4 DEF SetTmgi, Surviving
    <3>2. \A u \in Session : ses'[u].obj \in {ses[u].obj, t}
      BY <2>4, <1>0 DEF SetTmgi, Identified, PrivSession
    <3> QED BY <3>1, <3>2, <1>1
  <2>5. ASSUME NEW s \in Session, Push(s)
        PROVE  ObjectsOwn'
    <3>1. DoPush(ses, {s}, xacts) /\ {s} \in SUBSET Session
      BY <2>5 DEF Push
    <3> QED BY <3>1, <1>0, PushObjects
  <2>6. CASE PushAll
    <3>1. DoPush(ses, {s \in Session : Live(s)}, xacts)
      BY <2>6 DEF PushAll
    <3>2. {s \in Session : Live(s)} \in SUBSET Session
      OBVIOUS
    <3> QED BY <3>1, <3>2, <1>0, PushObjects
  <2> QED BY <1>2, <2>1, <2>2, <2>3, <2>4, <2>5, <2>6 DEF Application
<1>3. ASSUME NEW m \in responses, CreateAccepted(m)
      PROVE  ObjectsOwn'
  <2> DEFINE s == SessionOf(m.x.obj)
  <2>1. m.x \in xacts /\ s # None
    BY <1>3 DEF CreateAccepted, Answer, Found
  <2>2. PICK a \in Attr, d \in {ses[s].deleted, TRUE} :
            DoPush([ses EXCEPT ![s] = Edited(Parsed(ses[s], m.x), a, d)], {s}, xacts \ {m.x})
    BY <1>3 DEF CreateAccepted
  <2>3. /\ s \in Session /\ ses[s].live = "live" /\ ses[s].obj = m.x.obj
        /\ m.x \in Xact /\ ses[s] \in PrivSession
    BY <2>1, FoundSound, <1>0 DEF IInv, TypeOK
  <2>4. d \in BOOLEAN /\ ses[s].obj # None
    BY <2>3, NoneAssumption DEF Xact, Object, PrivSession
  <2> HIDE DEF s
  <2> DEFINE q == Edited(Parsed(ses[s], m.x), a, d)
             S == [ses EXCEPT ![s] = q]
  <2>5. q \in PrivSession /\ SessionSound(q) /\ q.obj = ses[s].obj
    BY <2>3, <2>4, ParsedSound
  <2>6. DoPush(S, {s}, xacts \ {m.x})
    BY <2>2
  <2> HIDE DEF q
  <2>7. /\ S \in [Session -> PrivSession]
        /\ \A u \in Session : SessionSound(S[u]) /\ S[u].obj = ses[u].obj
    BY <2>3, <2>5, <1>0
  <2> HIDE DEF S
  <2>8. {s} \in SUBSET Session /\ xacts \ {m.x} \subseteq xacts
    BY <2>3
  <2> QED BY <2>6, <2>7, <2>8, <1>0, PushObjects
<1>4. ASSUME NEW m \in responses, RemoveAnswered(m)
      PROVE  ObjectsOwn'
  <2>1. xacts' \subseteq xacts
    BY <1>4 DEF RemoveAnswered, Surviving
  <2>2. \A u \in Session : ses'[u].obj \in {ses[u].obj, None}
    BY <1>4, <1>0 DEF RemoveAnswered, FreeSession, Freed, PrivSession
  <2> QED BY <2>1, <2>2, <1>1
<1>5. ASSUME NEW m \in responses, CreateUnusable(m)
      PROVE  ObjectsOwn'
  <2>1. xacts' \subseteq xacts
    BY <1>5 DEF CreateUnusable, End
  <2>2. \A u \in Session : ses'[u].obj = ses[u].obj
    BY <1>5, <1>0 DEF CreateUnusable, PrivSession
  <2> QED BY <2>1, <2>2, <1>1
<1>6. ASSUME NEW m \in responses,
             \/ IgnoreResponse(m) \/ DiscoverFound(m) \/ DiscoverFailed(m) \/ CreateOrphaned(m)
             \/ RemoveOrphaned(m) \/ RemoveUnaddressed(m) \/ BadHeader(m) \/ CreateRejected(m)
             \/ UpdateAnswered(m)
      PROVE  ObjectsOwn'
  <2>1. xacts' \subseteq xacts /\ ses' = ses
    BY <1>6 DEF IgnoreResponse, DiscoverFound, DiscoverFailed, CreateOrphaned, RemoveOrphaned,
                RemoveUnaddressed, BadHeader, CreateRejected, UpdateAnswered, End
  <2> QED BY <2>1, <1>1
<1>7. CASE HandleResponse
  <2>1. PICK m \in responses :
            \/ IgnoreResponse(m) \/ DiscoverFound(m) \/ DiscoverFailed(m) \/ CreateOrphaned(m)
            \/ RemoveOrphaned(m) \/ RemoveUnaddressed(m) \/ BadHeader(m) \/ CreateRejected(m)
            \/ UpdateAnswered(m) \/ CreateAccepted(m) \/ CreateUnusable(m) \/ RemoveAnswered(m)
    BY <1>7 DEF HandleResponse
  <2> QED BY <2>1, <1>3, <1>4, <1>5, <1>6
<1>8. CASE HandleTimer \/ Environment \/ UNCHANGED vars
  <2>1. xacts' \subseteq xacts /\ ses' = ses
    BY <1>8 DEF HandleTimer, Timeout, Environment, NrfRespond, MbsmfRespond, vars
  <2> QED BY <2>1, <1>1
<1> QED BY <1>2, <1>7, <1>8 DEF Next

LEMMA ReportedStep ==
    ASSUME IInv, ObjectsOwn, CallbackAboutOwn, [Next]_vars
    PROVE  CallbackAboutOwn'
<1> SUFFICES ASSUME NEW r \in reports', r \notin reports, r.x.obj \in Session
             PROVE  r.to = r.x.owner
  BY DEF CallbackAboutOwn
<1>1. r.x \in xacts /\ r.to = SessionOf(r.x.obj) /\ r.to # None
  BY FoundStep DEF ReportsFound
<1>2. r.to \in Session /\ ses[r.to].obj = r.x.obj
  BY <1>1, SessionOfFound DEF IInv, TypeOK
<1>3. r.x.obj # None /\ r.x.obj \notin Tmgi
  BY NoneAssumption, ObjectAssumption
<1>4. r.x.obj = r.to
  BY <1>2, <1>3 DEF ObjectsOwn
<1>5. r.x.obj = r.x.owner
  BY <1>1, <1>3 DEF ObjectsOwn
<1> QED BY <1>4, <1>5

(* Whatever the application does, the answer to a request on an object that *)
(* a session made is reported to that session, although the lookup goes by  *)
(* the object alone.                                                        *)
THEOREM CallbacksAreOwn == Spec => []CallbackAboutOwn
<1>1. Init => ObjectsOwn /\ CallbackAboutOwn
  BY DEF Init, ObjectsOwn, CallbackAboutOwn
<1>2. IInv /\ ObjectsOwn /\ CallbackAboutOwn /\ [Next]_vars => ObjectsOwn' /\ CallbackAboutOwn'
  BY ObjectsStep, ReportedStep
<1> QED BY <1>1, <1>2, Invariant, PTL DEF Spec

-----------------------------------------------------------------------------
(* An application that waits *)

(* It pushes a session when nothing is outstanding for it, pushes a removal *)
(* when the session was created, and keeps the identity of a session that   *)
(* was pushed. No TMGI is given to a session.                               *)
Careful == Tmgi = {} /\ {"wait", "created", "keep"} \subseteq Rules

(* A session has one request outstanding at most. *)
OneEach == \A x, y \in xacts : x.owner = y.owner => x = y

(* The session of a request exists and has the object. A removal is of a    *)
(* deleted session and names its id, and a session that is being created    *)
(* has none.                                                                *)
Outstanding(x) ==
    LET q == ses[x.owner] IN
    /\ q.live = "live" /\ q.obj = x.obj /\ x.owner \in pushed
    /\ x.op = "remove" => q.deleted /\ x.target = q.id
    /\ x.op = "create" /\ x.owner \notin lost => q.id = None

OutstandingSound == \A x \in xacts : Outstanding(x)

(* The identity of an accepted session stays as it was accepted, and a      *)
(* session that was not accepted has no id, unless a request was lost.      *)
KeptAs(q, s, P, L) ==
    /\ q.prev # None => s \in P /\ q.prev.ssm = q.cur.ssm /\ q.prev.tmgi = q.cur.tmgi
    /\ q.prev = None /\ s \notin L => q.id = None
    /\ q.live # "live" => q.prev = None /\ q.id = None
    /\ q.live = "live" /\ q.id # None => q.obj # None
    /\ q.id # None => q.id[1] = s

SessionsKept == \A s \in Session : KeptAs(ses[s], s, pushed, lost)

(* A request is on the wire, answered or neither, and one on the wire is    *)
(* outstanding, unless it was lost.                                         *)
FlightSound ==
    /\ \A w \in wire : w.x.k <= serial /\ (w.x \in xacts \/ w.x.owner \in lost)
    /\ \A r \in responses : r.x.k <= serial
    /\ \A v, w \in wire : v.x = w.x => v = w
    /\ \A r \in responses, w \in wire : r.x # w.x
    /\ \A q, r \in responses : q.x = r.x => q = r

(* The answer to the creation of a session at the MB-SMF is in the queue.   *)
Coming(m) ==
    \E r \in responses :
        r.x \in xacts /\ r.x.op = "create" /\ r.from = "mbsmf" /\ m.id = Created(r.x)

Known(m) == ses[m.id[1]].live = "live" /\ ses[m.id[1]].id = m.id

(* A session at the MB-SMF is known here, and is gone when its removal is   *)
(* answered.                                                                *)
RemoteSound ==
    /\ \A m \in remote : m.id[1] \in lost \/ Known(m) \/ Coming(m)
    /\ \A r \in responses :
          /\ r.x \in xacts /\ r.x.op = "remove" /\ r.x.owner \notin lost
          /\ r.from = "mbsmf" /\ r.outcome = "ok"
          => \A m \in remote : m.id # r.x.target

CInv ==
    /\ OneEach
    /\ OutstandingSound
    /\ SessionsKept
    /\ FlightSound
    /\ RemoteSound
    /\ NoFault
    /\ FreedWasDeleted

(* The types of a state *)
LEMMA Typed ==
    ASSUME IInv
    PROVE  /\ \A x \in xacts : /\ x \in Xact /\ x.owner \in Session /\ x.obj \in Object
                               /\ x.op \in ReqOp /\ x.k \in Nat /\ x.k <= serial /\ x.obj # None
           /\ \A m \in remote : m.id \in ResourceId /\ m.id[1] \in Session /\ m.id # None
           /\ serial \in Nat /\ TypeOK
           /\ ses \in [Session -> PrivSession]
           /\ \A w \in wire : w \in [x: Xact, to: Peer] /\ w.x \in Xact /\ w.x.owner \in Session
                              /\ w.x.k \in Nat
           /\ \A r \in responses : r.x \in Xact /\ r.x.owner \in Session /\ r.x.k \in Nat
<1>1. /\ serial \in Nat /\ TypeOK /\ ses \in [Session -> PrivSession]
      /\ \A w \in wire : w \in [x: Xact, to: Peer] /\ w.x \in Xact /\ w.x.owner \in Session
                         /\ w.x.k \in Nat
      /\ \A r \in responses : r.x \in Xact /\ r.x.owner \in Session /\ r.x.k \in Nat
  BY DEF IInv, TypeOK, Xact
<1>2. \A x \in xacts : /\ x \in Xact /\ x.owner \in Session /\ x.obj \in Object
                       /\ x.op \in ReqOp /\ x.k \in Nat /\ x.k <= serial
  BY DEF IInv, TypeOK, Numbered, Xact
<1>3. \A x \in xacts : x.obj # None
  BY <1>2, NoneAssumption DEF Object
<1>4. \A m \in remote : m.id \in ResourceId /\ m.id[1] \in Session /\ m.id # None
  BY NoneAssumption DEF IInv, TypeOK, ResourceId
<1> QED BY <1>1, <1>2, <1>3, <1>4

(* The lookup finds the session of an outstanding request. *)
LEMMA OwnerFound ==
    ASSUME IInv, ObjectsOwn, OutstandingSound, Tmgi = {}, NEW x \in xacts
    PROVE  SessionOf(x.obj) = x.owner /\ x.obj = x.owner
<1> DEFINE o == x.owner
           T == {s \in sessions : ses[s].obj = x.obj}
<1>1. o \in Session /\ o # None
  BY Typed, NoneAssumption
<1>2. x.obj = o
  BY DEF ObjectsOwn
<1>3. ses[o].live = "live" /\ ses[o].obj = o /\ o \in sessions
  BY <1>1, <1>2 DEF OutstandingSound, Outstanding, IInv, ListIsLive, Live
<1>4. T = {o}
  BY <1>1, <1>2, <1>3 DEF ObjectsOwn, IInv, TypeOK
<1>5. ses[o].at \in Nat
  BY <1>1 DEF IInv, TypeOK, PrivSession
<1>6. First({o}) = o
  BY <1>5 DEF First
<1> QED BY <1>2, <1>4, <1>6 DEF SessionOf

-----------------------------------------------------------------------------
(* What the steps have in common *)

(* Edits of sessions that nothing is sent for. *)
LEMMA CarefulEdit ==
    ASSUME IInv, CInv, UNCHANGED <<xacts, wire, responses, serial, fault, pushed, lost, remote>>,
           \A u \in Session :
              /\ ses'[u].id = ses[u].id /\ ses'[u].obj = ses[u].obj
              /\ ses[u].live = "live" => ses'[u].live = "live"
              /\ ses'[u].live = "freed" => ses[u].live = "freed"
              /\ ses[u].deleted => ses'[u].deleted
              /\ KeptAs(ses'[u], u, pushed, lost)
    PROVE  CInv'
<1>1. OneEach' /\ FlightSound' /\ NoFault' /\ SessionsKept'
  BY DEF CInv, OneEach, FlightSound, NoFault, SessionsKept
<1>2. OutstandingSound'
  BY Typed DEF CInv, OutstandingSound, Outstanding
<1>3. RemoteSound'
  BY Typed DEF CInv, RemoteSound, Coming, Known
<1>4. FreedWasDeleted'
  BY DEF CInv, FreedWasDeleted
<1> QED BY <1>1, <1>2, <1>3, <1>4 DEF CInv

(* A request ends, answered or lost, and its session at most takes an id.   *)
LEMMA CarefulEnd ==
    ASSUME IInv, CInv, NEW x \in xacts, xacts' = xacts \ {x},
           responses' \subseteq responses, \A r \in responses : r \notin responses' => r.x = x,
           lost \subseteq lost',
           x.owner \in lost' \/ (x.op = "update" /\ \E r \in responses : r.x = x),
           UNCHANGED <<wire, serial, fault, pushed, remote>>,
           \A u \in Session :
              /\ ses'[u].live = ses[u].live /\ ses'[u].obj = ses[u].obj
              /\ ses'[u].prev = ses[u].prev /\ ses'[u].cur = ses[u].cur
              /\ ses'[u].deleted = ses[u].deleted
              /\ ses'[u].id = ses[u].id \/ (u = x.owner /\ u \in lost' /\ ses'[u].id[1] = u)
    PROVE  CInv'
<1>1. OneEach' /\ NoFault' /\ FreedWasDeleted'
  BY DEF CInv, OneEach, NoFault, FreedWasDeleted
<1>2. ses[x.owner].live = "live" /\ ses[x.owner].obj # None /\ x.owner \in Session
  BY Typed DEF CInv, OutstandingSound, Outstanding
<1>3. OutstandingSound'
  <2>1. \A y \in xacts' : y \in xacts /\ y.owner # x.owner /\ y.owner \in Session
    BY Typed DEF CInv, OneEach
  <2> QED BY <2>1 DEF CInv, OutstandingSound, Outstanding
<1>4. SessionsKept'
  BY <1>2 DEF CInv, SessionsKept, KeptAs
<1>5. FlightSound'
  BY DEF CInv, FlightSound
<1>6. RemoteSound'
  <2>1. ASSUME NEW m \in remote PROVE m.id[1] \in lost' \/ Known(m)' \/ Coming(m)'
    <3>1. m.id[1] \in Session
      BY Typed
    <3>2. CASE m.id[1] \in lost
      BY <3>2
    <3>3. CASE Known(m)
      BY <3>1, <3>3 DEF Known
    <3>4. CASE Coming(m)
      <4>1. PICK r \in responses : r.x \in xacts /\ r.x.op = "create" /\ r.from = "mbsmf"
                                   /\ m.id = Created(r.x)
        BY <3>4 DEF Coming
      <4>2. m.id[1] = r.x.owner
        BY <4>1 DEF Created
      <4>3. CASE r.x = x
        BY <4>1, <4>2, <4>3
      <4>4. CASE r.x # x
        BY <4>1, <4>4 DEF Coming
      <4> QED BY <4>3, <4>4
    <3> QED BY <3>2, <3>3, <3>4 DEF CInv, RemoteSound
  <2>2. \A r \in responses' :
           /\ r.x \in xacts' /\ r.x.op = "remove" /\ r.x.owner \notin lost'
           /\ r.from = "mbsmf" /\ r.outcome = "ok"
           => \A m \in remote' : m.id # r.x.target
    BY DEF CInv, RemoteSound
  <2> QED BY <2>1, <2>2 DEF RemoteSound
<1> QED BY <1>1, <1>3, <1>4, <1>5, <1>6 DEF CInv

-----------------------------------------------------------------------------
(* Pushes *)

(* A session that keeps its identity is never removed and created anew.     *)
LEMMA RequestsKept ==
    ASSUME NEW q \in PrivSession,
           q.prev # None => q.prev.ssm = q.cur.ssm /\ q.prev.tmgi = q.cur.tmgi
    PROVE  /\ \A a, b \in Requests(q) : a = b
           /\ "remove" \in Requests(q) => q.deleted
           /\ "create" \in Requests(q) => q.prev = None
<1>1. q.deleted \in BOOLEAN
  BY DEF PrivSession
<1>2. CASE q.deleted
  BY <1>2 DEF Requests
<1>3. CASE ~q.deleted /\ q.prev = None
  BY <1>3 DEF Requests
<1>4. CASE ~q.deleted /\ q.prev # None
  <2>1. Requests(q) = IF PublicEqual(q.prev, q.cur) THEN {} ELSE {"update"}
    BY <1>4 DEF Requests
  <2> QED BY <2>1, <1>4
<1> QED BY <1>1, <1>2, <1>3, <1>4

(* What a push of the sessions P does when none of them has a request.      *)
LEMMA CarefulPushed ==
    ASSUME TypeOK,
           NEW S \in [Session -> PrivSession], NEW P \in SUBSET Session, NEW xs \in SUBSET Xact,
           \A s \in P : /\ KeptAs(S[s], s, pushed \cup P, lost) /\ S[s].live = "live"
                        /\ S[s].deleted => S[s].id # None,
           DoPush(S, P, xs)
    PROVE  /\ fault' = fault /\ pushed' = pushed \cup P
           /\ \A s \in Session :
                 /\ ses'[s].live = S[s].live /\ ses'[s].deleted = S[s].deleted
                 /\ ses'[s].id = S[s].id /\ ses'[s].cur = S[s].cur /\ ses'[s].prev = S[s].prev
                 /\ S[s].obj # None => ses'[s].obj = S[s].obj
           /\ xs \subseteq xacts'
           /\ \A x \in xacts' \ xs :
                 /\ x.owner \in P /\ x.k = serial + 1 /\ serial' = serial + 1
                 /\ ses'[x.owner].obj = x.obj
                 /\ x.op = "remove" => S[x.owner].deleted /\ x.target = S[x.owner].id
                 /\ x.op = "create" => S[x.owner].prev = None
           /\ \A x, y \in xacts' \ xs : x.owner = y.owner => x = y
           /\ \A w \in wire' \ wire : w.x \in xacts' /\ w.x.k = serial + 1
           /\ \A v, w \in wire' \ wire : v.x = w.x => v = w
           /\ wire \subseteq wire' /\ serial' \in {serial, serial + 1}
<1> DEFINE new == UNION {NewXacts(s, S[s]) : s \in P}
<1>1. ASSUME NEW s \in P
      PROVE  /\ S[s] \in PrivSession
             /\ \A a, b \in Requests(S[s]) : a = b
             /\ "remove" \in Requests(S[s]) => S[s].deleted /\ S[s].obj # None
             /\ "create" \in Requests(S[s]) => S[s].prev = None
  <2>1. S[s] \in PrivSession
    OBVIOUS
  <2>2. S[s].prev # None => S[s].prev.ssm = S[s].cur.ssm /\ S[s].prev.tmgi = S[s].cur.tmgi
    BY DEF KeptAs
  <2>3. S[s].deleted => S[s].obj # None
    BY DEF KeptAs
  <2> QED BY <2>1, <2>2, <2>3, RequestsKept
<1>2. ~\E s \in P : PushFaults(S[s])
  BY <1>1 DEF PushFaults
<1>3. /\ ses' = [s \in Session |->
                   IF s \in P THEN [S[s] EXCEPT !.obj = ObjectFor(s, S[s])] ELSE S[s]]
      /\ xacts' = xs \cup new
      /\ wire' = wire \cup {Sent(x) : x \in new}
      /\ serial' = IF new = {} THEN serial ELSE serial + 1
      /\ pushed' = pushed \cup P
      /\ fault' = fault
  BY <1>2 DEF DoPush
<1>4. ASSUME NEW s \in Session
      PROVE  /\ ses'[s].live = S[s].live /\ ses'[s].deleted = S[s].deleted
             /\ ses'[s].id = S[s].id /\ ses'[s].cur = S[s].cur /\ ses'[s].prev = S[s].prev
             /\ S[s].obj # None => ses'[s].obj = S[s].obj
             /\ s \in P => ses'[s].obj = ObjectFor(s, S[s])
  BY <1>3 DEF ObjectFor, PrivSession
<1>5. ASSUME NEW s \in P, NEW x \in NewXacts(s, S[s])
      PROVE  /\ x.owner = s /\ x.k = serial + 1 /\ x.obj = ObjectFor(s, S[s])
             /\ x.op \in Requests(S[s])
             /\ x.op = "remove" => x.target = S[s].id
  BY DEF NewXacts, Target
<1>6. ASSUME NEW s \in P, NEW x \in NewXacts(s, S[s]), NEW y \in NewXacts(s, S[s])
      PROVE  x = y
  BY <1>1 DEF NewXacts
<1>7. \A x \in new : /\ x.owner \in P /\ x.k = serial + 1
                     /\ x \in NewXacts(x.owner, S[x.owner])
                     /\ ses'[x.owner].obj = x.obj
                     /\ x.op = "remove" => S[x.owner].deleted /\ x.target = S[x.owner].id
                     /\ x.op = "create" => S[x.owner].prev = None
  <2>1. ASSUME NEW x \in new
        PROVE  /\ x.owner \in P /\ x.k = serial + 1
               /\ x \in NewXacts(x.owner, S[x.owner])
               /\ ses'[x.owner].obj = x.obj
               /\ x.op = "remove" => S[x.owner].deleted /\ x.target = S[x.owner].id
               /\ x.op = "create" => S[x.owner].prev = None
    <3>1. PICK s \in P : x \in NewXacts(s, S[s])
      OBVIOUS
    <3>2. x.owner = s /\ x.op \in Requests(S[s]) /\ ses'[s].obj = x.obj /\ x.k = serial + 1
      BY <3>1, <1>4, <1>5
    <3>3. x.op = "remove" => S[s].deleted /\ x.target = S[s].id
      BY <3>1, <3>2, <1>1, <1>5
    <3>4. x.op = "create" => S[s].prev = None
      BY <3>2, <1>1
    <3> QED BY <3>1, <3>2, <3>3, <3>4
  <2> QED BY <2>1
<1> HIDE DEF new
<1>8. \A x, y \in new : x.owner = y.owner => x = y
  <2>1. ASSUME NEW x \in new, NEW y \in new, x.owner = y.owner PROVE x = y
    <3>1. /\ x.owner \in P /\ x \in NewXacts(x.owner, S[x.owner])
          /\ y \in NewXacts(x.owner, S[x.owner])
      BY <2>1, <1>7
    <3> QED BY <3>1, <1>6
  <2> QED BY <2>1
<1>9. \A w \in wire' \ wire : \E x \in new : w = Sent(x)
  BY <1>3
<1>10. \A x \in new : Sent(x).x = x
  BY DEF Sent
<1>11. \A v, w \in wire' \ wire : v.x = w.x => v = w
  BY <1>9, <1>10
<1>12. \A x \in xacts' \ xs : x \in new
  BY <1>3
<1>13. ASSUME NEW x \in new PROVE serial' = serial + 1
  <2>1. new # {}
    OBVIOUS
  <2> QED BY <2>1, <1>3
<1>14. \A w \in wire' \ wire : w.x \in xacts' /\ w.x.k = serial + 1
  BY <1>3, <1>7, <1>9, <1>10
<1>15. /\ xs \subseteq xacts' /\ wire \subseteq wire' /\ serial' \in {serial, serial + 1}
       /\ fault' = fault /\ pushed' = pushed \cup P
  BY <1>3
<1> QED BY <1>4, <1>7, <1>8, <1>11, <1>12, <1>13, <1>14, <1>15

(* A push of the sessions P, as S has them, for none of which a request of  *)
(* xs is outstanding.                                                       *)
PushFits(S, P, xs) ==
    /\ S \in [Session -> PrivSession] /\ P \in SUBSET Session /\ xs \subseteq xacts
    /\ \A x \in xs : x.owner \notin P
    /\ \A w \in wire : w.x \in xacts => w.x \in xs
    /\ responses' \subseteq responses /\ lost' = lost /\ remote' = remote
    /\ \A u \in Session :
          /\ u \notin P => S[u] = ses[u]
          /\ S[u].live = ses[u].live
          /\ ses[u].deleted => S[u].deleted
          /\ KeptAs(S[u], u, pushed \cup P, lost)
    /\ \A s \in P : S[s].live = "live" /\ (S[s].deleted => S[s].id # None)
    /\ \A m \in remote :
          \/ m.id[1] \in lost
          \/ S[m.id[1]].live = "live" /\ S[m.id[1]].id = m.id
          \/ \E r \in responses' : /\ r.x \in xs /\ r.x.op = "create" /\ r.from = "mbsmf"
                                   /\ m.id = Created(r.x)

(* A push, of the application or with the response to a creation.           *)
LEMMA CarefulPush ==
    ASSUME IInv, CInv, NEW S, NEW P, NEW xs, PushFits(S, P, xs), DoPush(S, P, xs)
    PROVE  CInv'
<1> USE DEF PushFits
<1>1. TypeOK /\ serial \in Nat /\ xs \in SUBSET Xact
  BY Typed
<1>2. /\ fault' = fault /\ pushed' = pushed \cup P
      /\ \A s \in Session :
            /\ ses'[s].live = S[s].live /\ ses'[s].deleted = S[s].deleted
            /\ ses'[s].id = S[s].id /\ ses'[s].cur = S[s].cur /\ ses'[s].prev = S[s].prev
            /\ S[s].obj # None => ses'[s].obj = S[s].obj
      /\ xs \subseteq xacts'
      /\ \A x \in xacts' \ xs :
            /\ x.owner \in P /\ x.k = serial + 1 /\ serial' = serial + 1
            /\ ses'[x.owner].obj = x.obj
            /\ x.op = "remove" => S[x.owner].deleted /\ x.target = S[x.owner].id
            /\ x.op = "create" => S[x.owner].prev = None
      /\ \A x, y \in xacts' \ xs : x.owner = y.owner => x = y
      /\ \A w \in wire' \ wire : w.x \in xacts' /\ w.x.k = serial + 1
      /\ \A v, w \in wire' \ wire : v.x = w.x => v = w
      /\ wire \subseteq wire' /\ serial' \in {serial, serial + 1}
  BY <1>1, CarefulPushed
<1>3. \A x \in xs : x.owner \in Session /\ x.obj # None /\ x.k \in Nat /\ x.k <= serial
  BY Typed
<1>4. NoFault'
  BY <1>2 DEF CInv, NoFault
<1>5. OneEach'
  BY <1>2 DEF CInv, OneEach
<1>6. OutstandingSound'
  <2>1. ASSUME NEW x \in xacts' PROVE Outstanding(x)'
    <3>1. CASE x \in xs
      <4>1. x.owner \in Session /\ S[x.owner] = ses[x.owner] /\ x.obj # None
        BY <3>1, <1>3
      <4>2. Outstanding(x)
        BY <3>1 DEF CInv, OutstandingSound
      <4> QED BY <4>1, <4>2, <1>2 DEF Outstanding
    <3>2. CASE x \notin xs
      <4>1. /\ x.owner \in P /\ ses'[x.owner].obj = x.obj
            /\ x.op = "remove" => S[x.owner].deleted /\ x.target = S[x.owner].id
            /\ x.op = "create" => S[x.owner].prev = None
        BY <3>2, <1>2
      <4>2. /\ ses'[x.owner].live = "live" /\ ses'[x.owner].id = S[x.owner].id
            /\ ses'[x.owner].deleted = S[x.owner].deleted
            /\ x.owner \in pushed'
        BY <4>1, <1>2
      <4>3. x.op = "create" /\ x.owner \notin lost => S[x.owner].id = None
        BY <4>1 DEF KeptAs
      <4> QED BY <4>1, <4>2, <4>3 DEF Outstanding
    <3> QED BY <3>1, <3>2
  <2> QED BY <2>1 DEF OutstandingSound
<1>7. SessionsKept'
  BY <1>2 DEF KeptAs, SessionsKept
<1>8. FlightSound'
  <2>1. /\ \A w \in wire : w.x.k \in Nat /\ w.x.k <= serial /\ (w.x \in xs \/ w.x.owner \in lost)
        /\ \A r \in responses : r.x.k \in Nat /\ r.x.k <= serial
    BY Typed DEF CInv, FlightSound
  <2>2. \A w \in wire' \ wire : serial' = serial + 1
    BY <1>2, <1>3, <1>1
  <2>3. \A w \in wire' : w.x.k <= serial' /\ (w.x \in xacts' \/ w.x.owner \in lost')
    BY <1>1, <1>2, <2>1, <2>2
  <2>4. \A r \in responses' : r.x.k <= serial'
    BY <1>1, <1>2, <2>1
  <2>5. \A v \in wire, w \in wire' \ wire : v.x # w.x
    BY <1>1, <1>2, <2>1
  <2>6. \A r \in responses, w \in wire' \ wire : r.x # w.x
    BY <1>1, <1>2, <2>1
  <2>7. \A v, w \in wire' : v.x = w.x => v = w
    BY <1>2, <2>5 DEF CInv, FlightSound
  <2>8. \A r \in responses', w \in wire' : r.x # w.x
    BY <2>6 DEF CInv, FlightSound
  <2>9. \A q, r \in responses' : q.x = r.x => q = r
    BY DEF CInv, FlightSound
  <2> QED BY <2>3, <2>4, <2>7, <2>8, <2>9 DEF FlightSound
<1>9. RemoteSound'
  <2>1. \A m \in remote : m.id[1] \in lost \/ Known(m)' \/ Coming(m)'
    BY <1>2, Typed DEF Known, Coming
  <2>2. ASSUME NEW r \in responses', r.x \in xacts' PROVE r.x \in xs
    BY <1>1, <1>2, <2>2, Typed DEF CInv, FlightSound
  <2> QED BY <2>1, <2>2 DEF CInv, RemoteSound
<1>10. FreedWasDeleted'
  BY <1>2 DEF CInv, FreedWasDeleted
<1> QED BY <1>4, <1>5, <1>6, <1>7, <1>8, <1>9, <1>10 DEF CInv

-----------------------------------------------------------------------------
(* The steps of the application *)

LEMMA CarefulNew ==
    ASSUME IInv, CInv, NEW s \in Session, NEW m, NEW t, New(s, m, t)
    PROVE  CInv'
<1> DEFINE q == Opened(ses[s], m, t)
<1>1. /\ ses[s] \in PrivSession /\ ses[s].live = "none" /\ ses \in [Session -> PrivSession]
      /\ ses[s].prev = None /\ ses[s].id = None
  BY DEF New, IInv, TypeOK, CInv, SessionsKept, KeptAs
<1>2. /\ q.live = "live" /\ q.prev = None /\ q.id = None /\ q.obj = ses[s].obj
      /\ q.deleted = ses[s].deleted
  BY <1>1 DEF Opened, PrivSession
<1>3. /\ ses' = [ses EXCEPT ![s] = q]
      /\ UNCHANGED <<xacts, wire, responses, serial, fault, pushed, lost, remote>>
  BY DEF New, appVars
<1> HIDE DEF q
<1>4. KeptAs(q, s, pushed, lost)
  BY <1>2 DEF KeptAs
<1>5. \A u \in Session :
         /\ ses'[u].id = ses[u].id /\ ses'[u].obj = ses[u].obj
         /\ ses[u].live = "live" => ses'[u].live = "live"
         /\ ses'[u].live = "freed" => ses[u].live = "freed"
         /\ ses[u].deleted => ses'[u].deleted
         /\ KeptAs(ses'[u], u, pushed, lost)
  BY <1>1, <1>2, <1>3, <1>4 DEF CInv, SessionsKept
<1> QED BY <1>3, <1>5, CarefulEdit

(* An edit of one session that keeps what the library knows of it. *)
LEMMA CarefulEditOne ==
    ASSUME IInv, CInv, NEW s \in Session, NEW q,
           q.live = ses[s].live, q.id = ses[s].id, q.obj = ses[s].obj, q.prev = ses[s].prev,
           ses[s].deleted => q.deleted,
           ses[s].prev # None => q.cur.ssm = ses[s].cur.ssm /\ q.cur.tmgi = ses[s].cur.tmgi,
           ses' = [ses EXCEPT ![s] = q],
           UNCHANGED <<xacts, wire, responses, serial, fault, appVars, remote>>
    PROVE  CInv'
<1>1. KeptAs(q, s, pushed, lost)
  BY DEF CInv, SessionsKept, KeptAs
<1>2. \A u \in Session :
         /\ ses'[u].id = ses[u].id /\ ses'[u].obj = ses[u].obj
         /\ ses[u].live = "live" => ses'[u].live = "live"
         /\ ses'[u].live = "freed" => ses[u].live = "freed"
         /\ ses[u].deleted => ses'[u].deleted
         /\ KeptAs(ses'[u], u, pushed, lost)
  BY <1>1, Typed DEF CInv, SessionsKept
<1> QED BY <1>2, CarefulEdit DEF appVars

LEMMA CarefulEdits ==
    ASSUME IInv, CInv, Careful, NEW s \in Session,
           \/ \E a \in Attr : SetAttr(s, a)
           \/ \E m \in Ssm \cup {None} : SetSsm(s, m)
           \/ UnsetTmgi(s) \/ MarkDeleted(s)
    PROVE  CInv'
<1>1. ses \in [Session -> PrivSession] /\ ses[s] \in PrivSession /\ ses[s].cur \in Fields
  BY Typed DEF PrivSession
<1>2. MayIdentify(s) => ses[s].prev = None
  BY DEF MayIdentify, Careful, CInv, SessionsKept, KeptAs
<1>3. UNCHANGED <<xacts, wire, responses, serial, fault, appVars, remote>>
  BY DEF SetAttr, SetSsm, UnsetTmgi, MarkDeleted
<1>4. ASSUME NEW a \in Attr, SetAttr(s, a) PROVE CInv'
  <2> DEFINE q == [ses[s] EXCEPT !.cur.attr = a]
  <2>1. /\ q.live = ses[s].live /\ q.id = ses[s].id /\ q.obj = ses[s].obj /\ q.prev = ses[s].prev
        /\ q.deleted = ses[s].deleted
        /\ q.cur.ssm = ses[s].cur.ssm /\ q.cur.tmgi = ses[s].cur.tmgi
    BY <1>1 DEF PrivSession, Fields
  <2>2. ses' = [ses EXCEPT ![s] = q]
    BY <1>1, <1>4 DEF SetAttr
  <2> HIDE DEF q
  <2> QED BY <2>1, <2>2, <1>3, CarefulEditOne
<1>5. ASSUME NEW m \in Ssm \cup {None}, SetSsm(s, m) PROVE CInv'
  <2> DEFINE q == [ses[s] EXCEPT !.cur.ssm = m]
  <2>1. /\ q.live = ses[s].live /\ q.id = ses[s].id /\ q.obj = ses[s].obj /\ q.prev = ses[s].prev
        /\ q.deleted = ses[s].deleted
    BY <1>1 DEF PrivSession
  <2>2. ses' = [ses EXCEPT ![s] = q] /\ ses[s].prev = None
    BY <1>1, <1>2, <1>5 DEF SetSsm
  <2> HIDE DEF q
  <2> QED BY <2>1, <2>2, <1>3, CarefulEditOne
<1>6. CASE UnsetTmgi(s)
  <2> DEFINE q == [ses[s] EXCEPT !.cur.tmgi = None]
  <2>1. /\ q.live = ses[s].live /\ q.id = ses[s].id /\ q.obj = ses[s].obj /\ q.prev = ses[s].prev
        /\ q.deleted = ses[s].deleted
    BY <1>1 DEF PrivSession
  <2>2. ses' = [ses EXCEPT ![s] = q] /\ ses[s].prev = None
    BY <1>1, <1>2, <1>6 DEF UnsetTmgi
  <2> HIDE DEF q
  <2> QED BY <2>1, <2>2, <1>3, CarefulEditOne
<1>7. CASE MarkDeleted(s)
  <2> DEFINE q == [ses[s] EXCEPT !.deleted = TRUE]
  <2>1. /\ q.live = ses[s].live /\ q.id = ses[s].id /\ q.obj = ses[s].obj /\ q.prev = ses[s].prev
        /\ q.deleted /\ q.cur = ses[s].cur
    BY <1>1 DEF PrivSession
  <2>2. ses' = [ses EXCEPT ![s] = q]
    BY <1>1, <1>7 DEF MarkDeleted
  <2> HIDE DEF q
  <2> QED BY <2>1, <2>2, <1>3, CarefulEditOne
<1> QED BY <1>4, <1>5, <1>6, <1>7

LEMMA CarefulAppPush ==
    ASSUME IInv, CInv, Careful, PushAll \/ \E s \in Session : Push(s)
    PROVE  CInv'
<1>1. PICK P \in SUBSET Session :
          /\ \A s \in P : MayPush(s)
          /\ DoPush(ses, P, xacts)
          /\ UNCHANGED <<responses, lost, remote>>
  <2>1. CASE PushAll
    <3>1. {s \in Session : Live(s)} \in SUBSET Session
      OBVIOUS
    <3> QED BY <2>1, <3>1 DEF PushAll
  <2>2. CASE \E s \in Session : Push(s)
    <3>1. PICK s \in Session : Push(s)
      BY <2>2
    <3>2. {s} \in SUBSET Session
      OBVIOUS
    <3> QED BY <3>1, <3>2 DEF Push
  <2> QED BY <2>1, <2>2
<1>2. \A s \in P : ses[s].live = "live" /\ ~Pending(s) /\ (ses[s].deleted => ses[s].id # None)
  BY <1>1 DEF MayPush, Careful, Live
<1>3. \A x \in xacts : x.owner \notin P
  BY <1>2 DEF Pending
<1>4. \A u \in Session : KeptAs(ses[u], u, pushed \cup P, lost)
  BY DEF CInv, SessionsKept, KeptAs
<1>5. \A m \in remote :
         \/ m.id[1] \in lost
         \/ ses[m.id[1]].live = "live" /\ ses[m.id[1]].id = m.id
         \/ \E r \in responses : /\ r.x \in xacts /\ r.x.op = "create" /\ r.from = "mbsmf"
                                 /\ m.id = Created(r.x)
  BY DEF CInv, RemoteSound, Known, Coming
<1>6. PushFits(ses, P, xacts)
  <2>1. responses' = responses /\ lost' = lost /\ remote' = remote
    BY <1>1
  <2>2. ses \in [Session -> PrivSession]
    BY Typed
  <2> QED BY <1>1, <1>2, <1>3, <1>4, <1>5, <2>1, <2>2 DEF PushFits
<1> QED BY <1>1, <1>6, CarefulPush

-----------------------------------------------------------------------------
(* The responses *)

LEMMA CarefulAccepted ==
    ASSUME IInv, ObjectsOwn, CInv, Careful, NEW m \in responses, CreateAccepted(m)
    PROVE  CInv'
<1> DEFINE s == m.x.owner
<1>1. m.x \in xacts /\ m.x.op = "create" /\ SessionOf(m.x.obj) = s
  BY OwnerFound DEF CreateAccepted, Answer, Found, Careful, CInv
<1>2. PICK a \in Attr, d \in {ses[s].deleted, TRUE} :
          DoPush([ses EXCEPT ![s] = Edited(Parsed(ses[s], m.x), a, d)], {s}, xacts \ {m.x})
  BY <1>1 DEF CreateAccepted
<1>3. /\ s \in Session /\ ses[s].live = "live" /\ ses[s].obj # None /\ m.x \in Xact
      /\ ses[s] \in PrivSession /\ ses \in [Session -> PrivSession] /\ s \in pushed
      /\ s \notin lost => ses[s].id = None
  BY <1>1, Typed DEF CInv, OutstandingSound, Outstanding
<1>4. d \in BOOLEAN /\ (ses[s].deleted => d)
  BY <1>3 DEF PrivSession
<1> HIDE DEF s
<1> DEFINE q == Edited(Parsed(ses[s], m.x), a, d)
           S == [ses EXCEPT ![s] = q]
<1>5. /\ q \in PrivSession /\ q.live = "live" /\ q.obj = ses[s].obj
  BY <1>3, <1>4, ParsedSound
<1>6. /\ q.id = Created(m.x) /\ q.deleted = d
      /\ q.prev # None => q.prev.ssm = q.cur.ssm /\ q.prev.tmgi = q.cur.tmgi
      /\ q.prev # None
  <2> DEFINE c == [ses[s].cur EXCEPT !.ssm = IF m.x.body.ssm # None THEN m.x.body.ssm
                                             ELSE ses[s].cur.ssm,
                                     !.tmgi = IF ses[s].cur.req THEN Granted ELSE ses[s].cur.tmgi]
             p == PublicCopy(ses[s].prev, c)
             q1 == Parsed(ses[s], m.x)
  <2>1. c \in Fields
    BY <1>3 DEF Fields, PrivSession, Xact
  <2> HIDE DEF c
  <2>2. p.ssm = c.ssm /\ p.tmgi = c.tmgi /\ p \in Fields
    <3>1. ses[s].prev # None => ses[s].prev.term \in BOOLEAN
      BY <1>3 DEF PrivSession, Fields
    <3> QED BY <2>1, <3>1 DEF PublicCopy, Fields
  <2> HIDE DEF p
  <2>3. q1 = [ses[s] EXCEPT !.id = Created(m.x), !.cur = c, !.prev = p]
    BY DEF Parsed, c, p
  <2>4. q1.id = Created(m.x) /\ q1.cur = c /\ q1.prev = p
    BY <2>3, <1>3 DEF PrivSession
  <2>5. q = [q1 EXCEPT !.cur = [q1.cur EXCEPT !.attr = a], !.deleted = d]
    BY DEF Edited
  <2>6. DOMAIN q1 = DOMAIN ses[s]
    BY <2>3
  <2>7. q.id = q1.id /\ q.prev = q1.prev /\ q.deleted = d /\ q.cur = [c EXCEPT !.attr = a]
    BY <2>3, <2>4, <2>5, <1>3 DEF PrivSession
  <2>8. q.cur.ssm = c.ssm /\ q.cur.tmgi = c.tmgi
    BY <2>1, <2>7 DEF Fields
  <2>9. p # None
    BY <2>2, NoneAssumption
  <2> QED BY <2>2, <2>4, <2>7, <2>8, <2>9
<1> HIDE DEF q
<1>7. S \in [Session -> PrivSession] /\ S[s] = q /\ \A u \in Session : u # s => S[u] = ses[u]
  BY <1>3, <1>5
<1>8. DoPush(S, {s}, xacts \ {m.x})
  BY <1>2 DEF q
<1> HIDE DEF S
<1>9. Created(m.x) # None /\ Created(m.x)[1] = s
  BY <1>3, NoneAssumption DEF Created, ResourceId, Xact, s
<1>10. KeptAs(q, s, pushed \cup {s}, lost)
  BY <1>3, <1>5, <1>6, <1>9 DEF KeptAs
<1>11. \A u \in Session :
          /\ u \notin {s} => S[u] = ses[u]
          /\ S[u].live = ses[u].live
          /\ ses[u].deleted => S[u].deleted
          /\ KeptAs(S[u], u, pushed \cup {s}, lost)
  BY <1>3, <1>4, <1>5, <1>6, <1>7, <1>10 DEF CInv, SessionsKept, KeptAs
<1>12. \A x \in xacts \ {m.x} : x.owner \notin {s}
  BY <1>1 DEF CInv, OneEach, s
<1>13. \A w \in wire : w.x \in xacts => w.x \in xacts \ {m.x}
  BY DEF CInv, FlightSound
<1>14. responses' = responses \ {m} /\ UNCHANGED <<lost, remote>>
  BY DEF CreateAccepted
<1>15. ASSUME NEW n \in remote
       PROVE  \/ n.id[1] \in lost
              \/ S[n.id[1]].live = "live" /\ S[n.id[1]].id = n.id
              \/ \E r \in responses' : /\ r.x \in xacts \ {m.x} /\ r.x.op = "create"
                                       /\ r.from = "mbsmf" /\ n.id = Created(r.x)
  <2>1. n.id[1] \in Session /\ n.id # None
    BY Typed
  <2>2. CASE n.id[1] \in lost
    BY <2>2
  <2>3. CASE n.id[1] \notin lost /\ Known(n)
    <3>1. n.id[1] # s
      BY <2>1, <2>3, <1>3 DEF Known
    <3> QED BY <2>1, <2>3, <3>1, <1>7 DEF Known
  <2>4. CASE Coming(n)
    <3>1. PICK r \in responses : r.x \in xacts /\ r.x.op = "create" /\ r.from = "mbsmf"
                                 /\ n.id = Created(r.x)
      BY <2>4 DEF Coming
    <3>2. CASE r = m
      <4>1. n.id[1] = s
        BY <3>1, <3>2 DEF Created, s
      <4> QED BY <4>1, <3>1, <3>2, <1>5, <1>6, <1>7
    <3>3. CASE r # m
      <4>1. r.x # m.x
        BY <3>3 DEF CInv, FlightSound
      <4> QED BY <4>1, <3>1, <3>3, <1>14
    <3> QED BY <3>2, <3>3
  <2> QED BY <2>2, <2>3, <2>4 DEF CInv, RemoteSound
<1>16. S[s].live = "live" /\ (S[s].deleted => S[s].id # None) /\ {s} \in SUBSET Session
  BY <1>3, <1>5, <1>6, <1>7, <1>9
<1>17. xacts \ {m.x} \subseteq xacts /\ responses' \subseteq responses
  BY <1>14
<1>18. PushFits(S, {s}, xacts \ {m.x})
  <2>1. lost' = lost /\ remote' = remote
    BY <1>14
  <2> QED BY <1>7, <1>11, <1>12, <1>13, <1>15, <1>16, <1>17, <2>1 DEF PushFits
<1> QED BY <1>8, <1>18, CarefulPush

(* A response that belongs to no transaction is dropped. *)
LEMMA CarefulIgnore ==
    ASSUME IInv, CInv, NEW m \in responses, IgnoreResponse(m)
    PROVE  CInv'
<1>1. /\ m.x \notin xacts /\ responses' = responses \ {m} /\ ses' = ses /\ xacts' = xacts
      /\ wire' = wire /\ serial' = serial /\ fault' = fault /\ pushed' = pushed /\ lost' = lost
      /\ remote' = remote
  BY DEF IgnoreResponse, appVars
<1>2. OneEach' /\ OutstandingSound' /\ SessionsKept' /\ NoFault' /\ FreedWasDeleted'
  BY <1>1 DEF CInv, OneEach, OutstandingSound, Outstanding, SessionsKept, NoFault, FreedWasDeleted
<1>3. FlightSound'
  BY <1>1 DEF CInv, FlightSound
<1>4. RemoteSound'
  <2>1. ASSUME NEW n \in remote, Coming(n) PROVE Coming(n)'
    BY <2>1, <1>1 DEF Coming
  <2> QED BY <2>1, <1>1 DEF CInv, RemoteSound, Known
<1> QED BY <1>2, <1>3, <1>4 DEF CInv

(* The NRF named an MB-SMF: the request goes on the wire again. *)
LEMMA CarefulDiscover ==
    ASSUME IInv, CInv, NEW m \in responses, DiscoverFound(m)
    PROVE  CInv'
<1>1. /\ m.x \in xacts /\ m.from = "nrf" /\ responses' = responses \ {m}
      /\ wire' = wire \cup {[x |-> m.x, to |-> "mbsmf"]}
      /\ ses' = ses /\ xacts' = xacts /\ serial' = serial /\ fault' = fault
      /\ pushed' = pushed /\ lost' = lost /\ remote' = remote
  BY DEF DiscoverFound, Found, appVars
<1>2. OneEach' /\ OutstandingSound' /\ SessionsKept' /\ NoFault' /\ FreedWasDeleted'
  BY <1>1 DEF CInv, OneEach, OutstandingSound, Outstanding, SessionsKept, NoFault, FreedWasDeleted
<1>3. FlightSound'
  <2> DEFINE v == [x |-> m.x, to |-> "mbsmf"]
  <2>1. v.x = m.x /\ wire' = wire \cup {v}
    BY <1>1
  <2> HIDE DEF v
  <2>2. \A w \in wire : w.x # m.x
    BY DEF CInv, FlightSound
  <2>3. \A r \in responses' : r \in responses /\ r.x # m.x
    BY <1>1 DEF CInv, FlightSound
  <2>4. m.x.k <= serial
    BY DEF CInv, FlightSound
  <2> QED BY <1>1, <2>1, <2>2, <2>3, <2>4 DEF CInv, FlightSound
<1>4. RemoteSound'
  <2>1. ASSUME NEW n \in remote, Coming(n) PROVE Coming(n)'
    BY <2>1, <1>1 DEF Coming
  <2> QED BY <2>1, <1>1 DEF CInv, RemoteSound, Known
<1> QED BY <1>2, <1>3, <1>4 DEF CInv

(* A request that failed, or an update that was answered. *)
LEMMA CarefulEnded ==
    ASSUME IInv, ObjectsOwn, CInv, Careful, NEW m \in responses,
           \/ DiscoverFailed(m) \/ BadHeader(m) \/ CreateUnusable(m) \/ CreateRejected(m)
           \/ UpdateAnswered(m) \/ RemoveUnaddressed(m)
    PROVE  CInv'
<1>1. /\ m.x \in xacts /\ xacts' = xacts \ {m.x} /\ responses' = responses \ {m}
      /\ wire' = wire /\ serial' = serial /\ fault' = fault /\ pushed' = pushed
      /\ remote' = remote /\ lost \subseteq lost'
  BY DEF DiscoverFailed, BadHeader, CreateUnusable, CreateRejected, UpdateAnswered,
         RemoveUnaddressed, Answer, Found, End
<1>2. m.x.owner \in lost' \/ m.x.op = "update"
  BY DEF DiscoverFailed, BadHeader, CreateUnusable, CreateRejected, UpdateAnswered,
         RemoveUnaddressed, Answer
<1>3. ses' = ses \/ (CreateUnusable(m) /\ ses' = [ses EXCEPT ![m.x.owner].id = Created(m.x)])
  <2>1. SessionOf(m.x.obj) = m.x.owner
    BY <1>1, OwnerFound DEF Careful, CInv
  <2> QED BY <2>1 DEF DiscoverFailed, BadHeader, CreateUnusable, CreateRejected, UpdateAnswered,
                      RemoveUnaddressed
<1>4. CreateUnusable(m) => m.x.owner \in lost'
  BY DEF CreateUnusable
<1>5. Created(m.x)[1] = m.x.owner
  BY DEF Created
<1>6. \A u \in Session :
         /\ ses'[u].live = ses[u].live /\ ses'[u].obj = ses[u].obj
         /\ ses'[u].prev = ses[u].prev /\ ses'[u].cur = ses[u].cur
         /\ ses'[u].deleted = ses[u].deleted
         /\ ses'[u].id = ses[u].id \/ (u = m.x.owner /\ u \in lost' /\ ses'[u].id[1] = u)
  BY <1>3, <1>4, <1>5, Typed DEF PrivSession
<1>7. \A r \in responses : r \notin responses' => r.x = m.x
  BY <1>1
<1> QED BY <1>1, <1>2, <1>6, <1>7, CarefulEnd

LEMMA CarefulTimeout ==
    ASSUME IInv, CInv, NEW x \in xacts, Timeout(x)
    PROVE  CInv'
<1>1. /\ xacts' = xacts \ {x} /\ lost' = lost \cup {x.owner} /\ ses' = ses
      /\ responses' = responses /\ wire' = wire /\ serial' = serial /\ fault' = fault
      /\ pushed' = pushed /\ remote' = remote
  BY DEF Timeout
<1> QED BY <1>1, CarefulEnd

(* The session of an answered removal is freed, and no other transaction    *)
(* goes with it.                                                            *)
LEMMA CarefulRemoved ==
    ASSUME IInv, ObjectsOwn, CInv, Careful, NEW m \in responses, RemoveAnswered(m)
    PROVE  CInv'
<1> DEFINE s == m.x.owner
<1>1. /\ m.x \in xacts /\ m.x.op = "remove" /\ m.from = "mbsmf" /\ SessionOf(m.x.obj) = s
      /\ m.x.target # None
  BY OwnerFound DEF RemoveAnswered, Answer, Found, Careful, CInv
<1>2. /\ s \in Session /\ ses[s].live = "live" /\ ses[s].deleted /\ ses[s].id = m.x.target
      /\ ses \in [Session -> PrivSession]
  BY <1>1, Typed DEF CInv, OutstandingSound, Outstanding
<1>3. /\ ses' = [ses EXCEPT ![s] = Freed(ses[s])]
      /\ xacts' = Surviving(xacts \ {m.x}, ses', leaked)
      /\ lost \subseteq lost' /\ (m.outcome # "ok" => s \in lost')
      /\ responses' = responses \ {m} /\ wire' = wire /\ serial' = serial /\ fault' = fault
      /\ pushed' = pushed /\ remote' = remote
  BY <1>1 DEF RemoveAnswered, FreeSession
<1> HIDE DEF s
<1>4. /\ ses'[s].live = "freed" /\ ses'[s].id = None /\ ses'[s].prev = None /\ ses'[s].deleted
      /\ \A u \in Session : u # s => ses'[u] = ses[u]
  BY <1>2, <1>3 DEF Freed, PrivSession
<1>5. \A y \in xacts : y # m.x => y.owner # s /\ y.owner \in Session
  BY <1>1, Typed DEF CInv, OneEach, s
<1>6. xacts' = xacts \ {m.x}
  <2>1. ASSUME NEW y \in xacts, y # m.x PROVE Held(y.obj, ses', leaked)
    <3>1. ses'[y.owner].live = "live" /\ ses'[y.owner].obj = y.obj /\ y.owner \in Session
      BY <2>1, <1>4, <1>5 DEF CInv, OutstandingSound, Outstanding
    <3> QED BY <3>1 DEF Held
  <2> QED BY <2>1, <1>3 DEF Surviving
<1>7. OneEach' /\ NoFault'
  BY <1>3, <1>6 DEF CInv, OneEach, NoFault
<1>8. OutstandingSound'
  <2>1. ASSUME NEW y \in xacts' PROVE Outstanding(y)'
    <3>1. /\ Outstanding(y) /\ ses'[y.owner] = ses[y.owner] /\ pushed' = pushed
          /\ lost \subseteq lost'
      BY <1>3, <1>4, <1>5, <1>6 DEF CInv, OutstandingSound
    <3> QED BY <3>1 DEF Outstanding
  <2> QED BY <2>1 DEF OutstandingSound
<1>9. SessionsKept'
  <2>1. ASSUME NEW u \in Session PROVE KeptAs(ses'[u], u, pushed', lost')
    <3>1. CASE u = s
      BY <3>1, <1>4 DEF KeptAs
    <3>2. CASE u # s
      BY <3>2, <1>3, <1>4 DEF KeptAs, CInv, SessionsKept
    <3> QED BY <3>1, <3>2
  <2> QED BY <2>1 DEF SessionsKept
<1>10. FlightSound'
  BY <1>3, <1>6 DEF CInv, FlightSound
<1>11. RemoteSound'
  <2>1. ASSUME NEW n \in remote PROVE n.id[1] \in lost' \/ Known(n)' \/ Coming(n)'
    <3>1. n.id[1] \in Session /\ n.id # None
      BY Typed
    <3>2. CASE n.id[1] \in lost
      BY <3>2, <1>3
    <3>3. CASE Known(n) /\ n.id[1] # s
      BY <3>1, <3>3, <1>4 DEF Known
    <3>4. CASE Known(n) /\ n.id[1] = s
      <4>1. n.id = m.x.target
        BY <3>4, <1>2 DEF Known
      <4>2. m.outcome # "ok" \/ s \in lost
        BY <4>1, <1>1 DEF CInv, RemoteSound, s
      <4> QED BY <4>2, <3>4, <1>3
    <3>5. CASE Coming(n)
      <4>1. PICK r \in responses : r.x \in xacts /\ r.x.op = "create" /\ r.from = "mbsmf"
                                   /\ n.id = Created(r.x)
        BY <3>5 DEF Coming
      <4>2. r.x # m.x
        BY <4>1, <1>1
      <4> QED BY <4>1, <4>2, <1>3, <1>6 DEF Coming
    <3> QED BY <3>2, <3>3, <3>4, <3>5 DEF CInv, RemoteSound
  <2>2. \A r \in responses' :
           /\ r.x \in xacts' /\ r.x.op = "remove" /\ r.x.owner \notin lost'
           /\ r.from = "mbsmf" /\ r.outcome = "ok"
           => \A n \in remote' : n.id # r.x.target
    BY <1>3, <1>6 DEF CInv, RemoteSound
  <2> QED BY <2>1, <2>2, <1>3 DEF RemoteSound
<1>12. FreedWasDeleted'
  BY <1>4 DEF CInv, FreedWasDeleted
<1> QED BY <1>7, <1>8, <1>9, <1>10, <1>11, <1>12 DEF CInv

-----------------------------------------------------------------------------
(* The NRF and the MB-SMF *)

(* A request that is taken from the wire and answered stays unique.         *)
LEMMA CarefulAnswered ==
    ASSUME CInv, NEW w \in wire, NEW r, r.x = w.x,
           wire' = wire \ {w}, responses' = responses \cup {r},
           xacts' = xacts, serial' = serial, lost' = lost
    PROVE  FlightSound'
<1>1. \A v \in wire : v # w => v.x # w.x
  BY DEF CInv, FlightSound
<1>2. \A q \in responses : q.x # w.x
  BY DEF CInv, FlightSound
<1>3. w.x.k <= serial
  BY DEF CInv, FlightSound
<1> QED BY <1>1, <1>2, <1>3 DEF CInv, FlightSound

(* What the MB-SMF holds after an answer was held before, or is what the    *)
(* answer speaks of.                                                        *)
LEMMA HandledSound ==
    ASSUME IInv, NEW x \in Xact, NEW out \in Outcome, NEW n \in Handled(x, out)
    PROVE  /\ \/ \E m \in remote : m.id = n.id
              \/ out # "error" /\ x.op = "create" /\ n.id = Created(x)
           /\ out = "ok" /\ x.op = "remove" => n.id # x.target
<1>1. x.op \in ReqOp
  BY DEF Xact
<1>2. CASE out = "error"
  BY <1>2 DEF Handled
<1>3. CASE out # "error" /\ x.op = "create"
  BY <1>3 DEF Handled
<1>4. CASE out # "error" /\ x.op = "update"
  <2>1. PICK m \in remote :
            n = IF m.id = x.target THEN [m EXCEPT !.body = Patched(m.body, x.patch)] ELSE m
    BY <1>4 DEF Handled
  <2>2. m \in [id: ResourceId, body: Fields]
    BY DEF IInv, TypeOK
  <2>3. n.id = m.id
    BY <2>1, <2>2
  <2> QED BY <2>3, <1>4
<1>5. CASE out # "error" /\ x.op = "remove"
  BY <1>5 DEF Handled
<1> QED BY <1>1, <1>2, <1>3, <1>4, <1>5 DEF ReqOp

LEMMA CarefulNrf ==
    ASSUME IInv, CInv, NEW w \in wire, NrfRespond(w)
    PROVE  CInv'
<1>1. /\ wire' = wire \ {w} /\ ses' = ses /\ xacts' = xacts /\ serial' = serial
      /\ fault' = fault /\ pushed' = pushed /\ lost' = lost /\ remote' = remote
  BY DEF NrfRespond, appVars
<1>2. PICK out \in NrfOutcomes :
          responses' = responses \cup {[x |-> w.x, from |-> "nrf", outcome |-> out]}
  BY DEF NrfRespond
<1> DEFINE r == [x |-> w.x, from |-> "nrf", outcome |-> out]
<1>3. r.x = w.x /\ r.from = "nrf" /\ responses' = responses \cup {r}
  BY <1>2
<1> HIDE DEF r
<1>4. FlightSound'
  BY <1>1, <1>3, CarefulAnswered
<1>5. OneEach' /\ OutstandingSound' /\ SessionsKept' /\ NoFault' /\ FreedWasDeleted'
  BY <1>1 DEF CInv, OneEach, OutstandingSound, Outstanding, SessionsKept, NoFault, FreedWasDeleted
<1>6. RemoteSound'
  <2>1. ASSUME NEW n \in remote, Coming(n) PROVE Coming(n)'
    BY <2>1, <1>1, <1>3 DEF Coming
  <2> QED BY <2>1, <1>1, <1>3 DEF CInv, RemoteSound, Known
<1> QED BY <1>4, <1>5, <1>6 DEF CInv

LEMMA CarefulMbsmf ==
    ASSUME IInv, CInv, NEW w \in wire, MbsmfRespond(w)
    PROVE  CInv'
<1>1. /\ wire' = wire \ {w} /\ ses' = ses /\ xacts' = xacts /\ serial' = serial
      /\ fault' = fault /\ pushed' = pushed /\ lost' = lost
  BY DEF MbsmfRespond, appVars
<1>2. PICK out \in Outcomes :
          /\ responses' = responses \cup {[x |-> w.x, from |-> "mbsmf", outcome |-> out]}
          /\ remote' = Handled(w.x, out)
  BY DEF MbsmfRespond
<1> DEFINE r == [x |-> w.x, from |-> "mbsmf", outcome |-> out]
<1>3. r.x = w.x /\ r.from = "mbsmf" /\ r.outcome = out /\ responses' = responses \cup {r}
  BY <1>2
<1> HIDE DEF r
<1>4. FlightSound'
  BY <1>1, <1>3, CarefulAnswered
<1>5. OneEach' /\ OutstandingSound' /\ SessionsKept' /\ NoFault' /\ FreedWasDeleted'
  BY <1>1 DEF CInv, OneEach, OutstandingSound, Outstanding, SessionsKept, NoFault, FreedWasDeleted
<1>6. /\ w.x \in Xact /\ w.x.owner \in Session /\ out \in Outcome
      /\ w.x \in xacts \/ w.x.owner \in lost
  BY Typed, PeerAssumption DEF CInv, FlightSound
<1>7. \A n \in remote' :
         /\ \/ \E m \in remote : m.id = n.id
            \/ out # "error" /\ w.x.op = "create" /\ n.id = Created(w.x)
         /\ out = "ok" /\ w.x.op = "remove" => n.id # w.x.target
  BY <1>2, <1>6, HandledSound
<1>8. Created(w.x)[1] = w.x.owner
  BY DEF Created
<1>9. RemoteSound'
  <2>1. ASSUME NEW n \in remote' PROVE n.id[1] \in lost' \/ Known(n)' \/ Coming(n)'
    <3>1. CASE n.id = Created(w.x) /\ w.x.op = "create"
      BY <3>1, <1>1, <1>3, <1>6, <1>8 DEF Coming
    <3>2. ASSUME NEW m \in remote, m.id = n.id PROVE n.id[1] \in lost' \/ Known(n)' \/ Coming(n)'
      <4>1. m.id[1] \in lost \/ Known(m) \/ Coming(m)
        BY DEF CInv, RemoteSound
      <4>2. CASE Known(m)
        BY <4>2, <3>2, <1>1 DEF Known
      <4>3. CASE Coming(m)
        BY <4>3, <3>2, <1>1, <1>3 DEF Coming
      <4> QED BY <4>1, <4>2, <4>3, <3>2, <1>1
    <3> QED BY <3>1, <3>2, <1>7
  <2>2. ASSUME NEW q \in responses', q.x \in xacts, q.x.op = "remove", q.x.owner \notin lost,
               q.from = "mbsmf", q.outcome = "ok", NEW n \in remote'
        PROVE  n.id # q.x.target
    <3>1. CASE q = r
      BY <3>1, <2>2, <1>3, <1>7
    <3>2. CASE q # r /\ \E m \in remote : m.id = n.id
      BY <3>2, <2>2, <1>3 DEF CInv, RemoteSound
    <3>3. CASE q # r /\ w.x.op = "create" /\ n.id = Created(w.x)
      <4>1. q \in responses /\ q.x.owner \in Session
        BY <3>3, <2>2, <1>3, Typed
      <4>2. w.x.owner # q.x.owner
        <5>1. w.x.owner = q.x.owner => w.x \in xacts
          BY <1>6, <2>2
        <5> QED BY <5>1, <2>2, <3>3 DEF CInv, OneEach
      <4>3. q.x.target = ses[q.x.owner].id
        BY <2>2 DEF CInv, OutstandingSound, Outstanding
      <4>4. q.x.target # None => q.x.target[1] = q.x.owner
        BY <4>1, <4>3 DEF CInv, SessionsKept, KeptAs
      <4>5. n.id # None
        BY <3>3, <1>6, NoneAssumption DEF Created, Xact, ResourceId
      <4> QED BY <4>2, <4>4, <4>5, <3>3, <1>8
    <3> QED BY <3>1, <3>2, <3>3, <1>7
  <2> QED BY <2>1, <2>2, <1>1 DEF RemoteSound
<1> QED BY <1>4, <1>5, <1>9 DEF CInv

-----------------------------------------------------------------------------

LEMMA CarefulInit == Init => CInv
  BY DEF Init, CInv, OneEach, OutstandingSound, SessionsKept, KeptAs, FlightSound, RemoteSound,
         NoFault, FreedWasDeleted

LEMMA CarefulStep ==
    ASSUME IInv, ObjectsOwn, Careful, CInv, [Next]_vars
    PROVE  CInv'
<1>1. CASE Application
  <2>1. ASSUME NEW s \in Session, NEW m \in Ssm \cup {None}, NEW t \in Terms, New(s, m, t)
        PROVE  CInv'
    BY <2>1, CarefulNew
  <2>2. ASSUME NEW s \in Session,
               \/ \E a \in Attr : SetAttr(s, a)
               \/ \E m \in Ssm \cup {None} : SetSsm(s, m)
               \/ UnsetTmgi(s) \/ MarkDeleted(s)
        PROVE  CInv'
    BY <2>2, CarefulEdits
  <2>3. CASE PushAll \/ \E s \in Session : Push(s)
    BY <2>3, CarefulAppPush
  <2>4. ~\E t \in Tmgi : TRUE
    BY DEF Careful
  <2> QED BY <1>1, <2>1, <2>2, <2>3, <2>4 DEF Application
<1>2. CASE HandleResponse
  <2>1. PICK m \in responses :
            \/ IgnoreResponse(m) \/ DiscoverFound(m) \/ DiscoverFailed(m) \/ CreateOrphaned(m)
            \/ RemoveOrphaned(m) \/ RemoveUnaddressed(m) \/ BadHeader(m) \/ CreateRejected(m)
            \/ UpdateAnswered(m) \/ CreateAccepted(m) \/ CreateUnusable(m) \/ RemoveAnswered(m)
    BY <1>2 DEF HandleResponse
  <2>2. CASE CreateOrphaned(m) \/ RemoveOrphaned(m)
    <3>1. m.x \in xacts /\ SessionOf(m.x.obj) = None
      BY <2>2 DEF CreateOrphaned, RemoveOrphaned, Answer, Found
    <3>2. SessionOf(m.x.obj) = m.x.owner /\ m.x.owner \in Session
      BY <3>1, OwnerFound, Typed DEF Careful, CInv
    <3> QED BY <3>1, <3>2, NoneAssumption
  <2> QED BY <2>1, <2>2, CarefulIgnore, CarefulDiscover, CarefulEnded, CarefulAccepted,
             CarefulRemoved
<1>3. CASE HandleTimer
  BY <1>3, CarefulTimeout DEF HandleTimer
<1>4. CASE Environment
  BY <1>4, CarefulNrf, CarefulMbsmf DEF Environment
<1>5. CASE UNCHANGED vars
  <2>1. /\ ses' = ses /\ xacts' = xacts /\ wire' = wire /\ responses' = responses
        /\ serial' = serial /\ fault' = fault /\ pushed' = pushed /\ lost' = lost
        /\ remote' = remote
    BY <1>5 DEF vars, appVars
  <2> QED BY <2>1 DEF CInv, OneEach, OutstandingSound, Outstanding, SessionsKept, FlightSound,
                      RemoteSound, Known, Coming, NoFault, FreedWasDeleted
<1> QED BY <1>1, <1>2, <1>3, <1>4, <1>5 DEF Next

(* The invariant of a careful application. *)
THEOREM CarefulInvariance == Careful => (Spec => []CInv)
<1> SUFFICES ASSUME Careful PROVE Spec => []CInv
  OBVIOUS
<1>1. Init => CInv /\ ObjectsOwn
  BY CarefulInit DEF Init, ObjectsOwn
<1>2. IInv /\ ObjectsOwn /\ CInv /\ [Next]_vars => ObjectsOwn' /\ CInv'
  BY ObjectsStep, CarefulStep
<1> QED BY <1>1, <1>2, Invariant, PTL DEF Spec

(* Every session at the MB-SMF is the one its local session names, unless a *)
(* request of that session failed or is outstanding: a session deleted      *)
(* while it is being created leaves nothing behind, whatever the number of  *)
(* sessions and of pushes.                                                  *)
THEOREM NoSessionOrphaned == Careful => (Spec => []NoOrphan)
<1> SUFFICES ASSUME Careful PROVE Spec => []NoOrphan
  OBVIOUS
<1>1. CInv => NoOrphan
  BY DEF CInv, RemoteSound, Known, Coming, Created, NoOrphan, Live, Pending
<1> QED BY <1>1, CarefulInvariance, PTL

(* The library meets no assertion and no null pointer. *)
THEOREM CarefulSafe == Careful => (Spec => []NoFault)
<1> SUFFICES ASSUME Careful PROVE Spec => []NoFault
  OBVIOUS
<1>1. CInv => NoFault
  BY DEF CInv
<1> QED BY <1>1, CarefulInvariance, PTL

(* The library frees only sessions that the application deleted. *)
THEOREM OnlyDeletedFreed == Careful => (Spec => []FreedWasDeleted)
<1> SUFFICES ASSUME Careful PROVE Spec => []FreedWasDeleted
  OBVIOUS
<1>1. CInv => FreedWasDeleted
  BY DEF CInv
<1> QED BY <1>1, CarefulInvariance, PTL

-----------------------------------------------------------------------------
(* The promise to the application *)

(* A request names a resource of its own session, and a creation that the   *)
(* MB-SMF accepted and whose answer is in the queue is held there.          *)
TargetsOwn ==
    /\ \A x \in xacts : x.target # None => x.target[1] = x.owner
    /\ \A w \in wire : w.x.target # None => w.x.target[1] = w.x.owner

Accepted(r) ==
    /\ r.x \in xacts /\ r.x.op = "create" /\ r.x.owner \notin lost
    /\ r.from = "mbsmf" /\ r.outcome # "error"

CreationsHeld == \A r \in responses : Accepted(r) => \E n \in remote : n.id = Created(r.x)

PInv == TargetsOwn /\ CreationsHeld

(* Steps that send nothing new and do not change the MB-SMF.                *)
LEMMA PromiseQuiet ==
    ASSUME PInv, xacts' \subseteq xacts, \A w \in wire' : w \in wire \/ w.x \in xacts,
           \A r \in responses' : r \in responses \/ r.from = "nrf",
           lost \subseteq lost', remote' = remote
    PROVE  PInv'
<1>1. TargetsOwn'
  BY DEF PInv, TargetsOwn
<1>2. ASSUME NEW r \in responses', Accepted(r)' PROVE \E n \in remote : n.id = Created(r.x)
  <2>1. r \in responses /\ Accepted(r)
    BY <1>2 DEF Accepted
  <2> QED BY <2>1 DEF PInv, CreationsHeld
<1> QED BY <1>1, <1>2 DEF PInv, CreationsHeld

LEMMA PromisePush ==
    ASSUME IInv, CInv, PInv, NEW S, NEW P, P \subseteq Session, NEW xs, xs \subseteq xacts,
           \A s \in P : S[s].id # None => S[s].id[1] = s, DoPush(S, P, xs),
           responses' \subseteq responses, lost' = lost, remote' = remote
    PROVE  PInv'
<1> DEFINE new == UNION {NewXacts(s, S[s]) : s \in P}
<1>1. ASSUME NEW x \in new
      PROVE  x.k = serial + 1 /\ (x.target # None => x.target[1] = x.owner)
  <2>1. PICK s \in P : x \in NewXacts(s, S[s])
    BY <1>1
  <2>2. PICK op \in Requests(S[s]) :
            x = [owner |-> s, k |-> serial + 1, op |-> op, obj |-> ObjectFor(s, S[s]),
                 target |-> Target(op, S[s]), body |-> S[s].cur, patch |-> Patch(op, S[s])]
    BY <2>1 DEF NewXacts
  <2>3. x.owner = s /\ x.k = serial + 1 /\ x.target = Target(op, S[s])
    BY <2>2
  <2> QED BY <2>3 DEF Target
<1>2. /\ \A x \in xacts' : x \in xacts \/ x \in new
      /\ \A w \in wire' : w \in wire \/ w.x \in new
  <2> HIDE DEF new
  <2>1. CASE xacts' = xs /\ wire' = wire
    BY <2>1
  <2>2. CASE xacts' = xs \cup new /\ wire' = wire \cup {Sent(x) : x \in new}
    <3>1. \A x \in new : Sent(x).x = x
      BY DEF Sent
    <3> QED BY <2>2, <3>1
  <2> QED BY <2>1, <2>2 DEF DoPush, new
<1> HIDE DEF new
<1>3. TargetsOwn'
  BY <1>1, <1>2 DEF PInv, TargetsOwn
<1>4. ASSUME NEW r \in responses', Accepted(r)' PROVE \E n \in remote : n.id = Created(r.x)
  <2>1. r \in responses /\ r.x.k \in Nat /\ r.x.k <= serial /\ serial \in Nat
    BY Typed DEF CInv, FlightSound
  <2>2. r.x \notin new
    BY <1>1, <2>1
  <2>3. Accepted(r)
    BY <2>2, <1>2, <1>4 DEF Accepted
  <2> QED BY <2>1, <2>3 DEF PInv, CreationsHeld
<1> QED BY <1>3, <1>4 DEF PInv, CreationsHeld

(* What the MB-SMF held it still holds, but for what is removed.            *)
LEMMA HandledKeeps ==
    ASSUME IInv, NEW x \in Xact, NEW out \in Outcome, NEW m \in remote,
           ~(x.op = "remove" /\ out # "error" /\ m.id = x.target)
    PROVE  \E n \in Handled(x, out) : n.id = m.id
<1>1. x.op \in ReqOp
  BY DEF Xact
<1>2. CASE out = "error"
  BY <1>2 DEF Handled
<1>3. CASE out # "error" /\ x.op = "create"
  BY <1>3 DEF Handled
<1>4. CASE out # "error" /\ x.op = "update"
  <2> DEFINE n == IF m.id = x.target THEN [m EXCEPT !.body = Patched(m.body, x.patch)] ELSE m
  <2>1. m \in [id: ResourceId, body: Fields]
    BY DEF IInv, TypeOK
  <2>2. n.id = m.id
    BY <2>1
  <2>3. n \in Handled(x, out)
    BY <1>4 DEF Handled
  <2> QED BY <2>2, <2>3
<1>5. CASE out # "error" /\ x.op = "remove"
  BY <1>5 DEF Handled
<1> QED BY <1>1, <1>2, <1>3, <1>4, <1>5 DEF ReqOp

LEMMA PromiseMbsmf ==
    ASSUME IInv, CInv, PInv, NEW w \in wire, MbsmfRespond(w)
    PROVE  PInv'
<1>1. wire' = wire \ {w} /\ xacts' = xacts /\ lost' = lost
  BY DEF MbsmfRespond, appVars
<1>2. PICK out \in Outcomes :
          /\ responses' = responses \cup {[x |-> w.x, from |-> "mbsmf", outcome |-> out]}
          /\ remote' = Handled(w.x, out)
  BY DEF MbsmfRespond
<1>3. /\ w.x \in Xact /\ w.x.owner \in Session /\ out \in Outcome
      /\ w.x \in xacts \/ w.x.owner \in lost
  BY Typed, PeerAssumption DEF CInv, FlightSound
<1>4. TargetsOwn'
  BY <1>1 DEF PInv, TargetsOwn
<1>5. ASSUME NEW r \in responses', Accepted(r)' PROVE \E n \in remote' : n.id = Created(r.x)
  <2>1. Accepted(r)
    BY <1>1, <1>5 DEF Accepted
  <2>2. CASE r \in responses
    <3>1. PICK m \in remote : m.id = Created(r.x)
      BY <2>1, <2>2 DEF PInv, CreationsHeld
    <3>2. ~(w.x.op = "remove" /\ m.id = w.x.target)
      <4>1. SUFFICES ASSUME w.x.op = "remove", m.id = w.x.target PROVE FALSE
        OBVIOUS
      <4>2. m.id # None /\ m.id[1] = r.x.owner
        BY <3>1, Typed DEF Created
      <4>3. w.x.owner = r.x.owner
        BY <4>1, <4>2 DEF PInv, TargetsOwn
      <4>4. w.x \in xacts /\ w.x = r.x
        BY <4>3, <1>3, <2>1 DEF Accepted, CInv, OneEach
      <4> QED BY <4>1, <4>4, <2>1 DEF Accepted
    <3> QED BY <3>1, <3>2, <1>2, <1>3, HandledKeeps
  <2>3. CASE r \notin responses
    <3>1. r = [x |-> w.x, from |-> "mbsmf", outcome |-> out]
      BY <2>3, <1>2
    <3>2. r.x = w.x /\ r.outcome = out
      BY <3>1
    <3>3. out # "error" /\ w.x.op = "create"
      BY <3>2, <2>1 DEF Accepted
    <3>4. [id |-> Created(w.x), body |-> w.x.body] \in Handled(w.x, out)
      BY <3>3 DEF Handled
    <3> QED BY <3>2, <3>4, <1>2
  <2> QED BY <2>2, <2>3
<1> QED BY <1>4, <1>5 DEF PInv, CreationsHeld

(* What an accepted creation does to its session before the push.           *)
LEMMA AcceptedIs ==
    ASSUME IInv, ObjectsOwn, CInv, Careful, NEW m \in responses, CreateAccepted(m)
    PROVE  LET s == m.x.owner
           IN /\ s \in Session /\ Answer(m, "mbsmf", "create") /\ m.outcome = "ok"
              /\ ses[s].live = "live"
              /\ \E S \in [Session -> PrivSession] :
                    /\ DoPush(S, {s}, xacts \ {m.x})
                    /\ S[s].id = Created(m.x) /\ S[s].live = "live"
                    /\ ses[s].deleted => S[s].deleted
                    /\ \A u \in Session : u # s => S[u] = ses[u]
              /\ reports' = reports \cup {[x |-> m.x, to |-> s, cb |-> "create", result |-> "OGS_OK"]}
              /\ responses' = responses \ {m} /\ lost' = lost /\ remote' = remote
<1> DEFINE s == m.x.owner
<1>1. m.x \in xacts /\ SessionOf(m.x.obj) = s
  BY OwnerFound DEF CreateAccepted, Answer, Found, Careful, CInv
<1>2. /\ s \in Session /\ s # None /\ m.x \in Xact /\ ses \in [Session -> PrivSession]
      /\ ses[s].live = "live" /\ ses[s] \in PrivSession /\ ses[s].obj # None
  BY <1>1, Typed, NoneAssumption DEF CInv, OutstandingSound, Outstanding
<1>3. PICK a \in Attr, d \in {ses[s].deleted, TRUE} :
          DoPush([ses EXCEPT ![s] = Edited(Parsed(ses[s], m.x), a, d)], {s}, xacts \ {m.x})
  BY <1>1 DEF CreateAccepted
<1>4. /\ Answer(m, "mbsmf", "create") /\ m.outcome = "ok"
      /\ reports' = reports \cup {[x |-> m.x, to |-> s, cb |-> "create", result |-> "OGS_OK"]}
      /\ responses' = responses \ {m} /\ lost' = lost /\ remote' = remote
  BY <1>1, <1>2 DEF CreateAccepted, Report
<1> HIDE DEF s
<1>5. d \in BOOLEAN /\ (ses[s].deleted => d)
  BY <1>2 DEF PrivSession
<1> DEFINE q == Edited(Parsed(ses[s], m.x), a, d)
           S == [ses EXCEPT ![s] = q]
<1>6. q \in PrivSession /\ q.live = "live"
  BY <1>2, <1>5, ParsedSound
<1>7. q.id = Created(m.x) /\ q.deleted = d
  BY <1>2 DEF Edited, Parsed, PrivSession
<1>8. S \in [Session -> PrivSession] /\ S[s] = q /\ \A u \in Session : u # s => S[u] = ses[u]
  BY <1>2, <1>6
<1> HIDE DEF S, q
<1>9. DoPush(S, {s}, xacts \ {m.x})
  BY <1>3 DEF S, q
<1> QED BY <1>2, <1>4, <1>5, <1>6, <1>7, <1>8, <1>9 DEF s

LEMMA PromiseKept ==
    ASSUME IInv, ObjectsOwn, Careful, CInv, PInv, [Next]_vars
    PROVE  PInv'
<1>1. CASE Application
  <2>1. CASE UNCHANGED <<xacts, wire, responses, lost, remote>>
    BY <2>1, PromiseQuiet
  <2>2. ASSUME NEW P, P \subseteq Session, DoPush(ses, P, xacts),
               UNCHANGED <<responses, lost, remote>>
        PROVE  PInv'
    <3>1. \A s \in P : ses[s].id # None => ses[s].id[1] = s
      BY <2>2 DEF CInv, SessionsKept, KeptAs
    <3> QED BY <2>2, <3>1, PromisePush
  <2>3. CASE PushAll
    <3>1. {s \in Session : Live(s)} \subseteq Session
      OBVIOUS
    <3> QED BY <2>2, <2>3, <3>1 DEF PushAll
  <2>4. ASSUME NEW s \in Session, Push(s) PROVE PInv'
    <3>1. {s} \subseteq Session
      OBVIOUS
    <3> QED BY <2>2, <2>4, <3>1 DEF Push
  <2>5. ASSUME NEW s \in Session, NEW m \in Ssm \cup {None}, NEW t \in Terms, New(s, m, t)
        PROVE  PInv'
    BY <2>1, <2>5 DEF New, appVars
  <2>6. ASSUME NEW s \in Session,
               \/ \E a \in Attr : SetAttr(s, a)
               \/ \E m \in Ssm \cup {None} : SetSsm(s, m)
               \/ UnsetTmgi(s) \/ MarkDeleted(s)
        PROVE  PInv'
    BY <2>1, <2>6 DEF SetAttr, SetSsm, UnsetTmgi, MarkDeleted, appVars
  <2>7. ~\E t \in Tmgi : TRUE
    BY DEF Careful
  <2> QED BY <1>1, <2>3, <2>4, <2>5, <2>6, <2>7 DEF Application
<1>2. ASSUME NEW m \in responses, CreateAccepted(m) PROVE PInv'
  <2>1. PICK S \in [Session -> PrivSession] :
            DoPush(S, {m.x.owner}, xacts \ {m.x}) /\ S[m.x.owner].id = Created(m.x)
    BY <1>2, AcceptedIs
  <2>2. /\ m.x.owner \in Session /\ responses' = responses \ {m}
        /\ lost' = lost /\ remote' = remote
    BY <1>2, AcceptedIs
  <2>3. S[m.x.owner].id[1] = m.x.owner
    BY <2>1 DEF Created
  <2>4. {m.x.owner} \subseteq Session /\ xacts \ {m.x} \subseteq xacts
    BY <2>2
  <2> QED BY <2>1, <2>2, <2>3, <2>4, PromisePush
<1>3. ASSUME NEW m \in responses, RemoveAnswered(m) PROVE PInv'
  <2>1. /\ xacts' \subseteq xacts /\ lost \subseteq lost' /\ wire' = wire
        /\ responses' \subseteq responses /\ remote' = remote
    BY <1>3 DEF RemoveAnswered, Surviving
  <2> QED BY <2>1, PromiseQuiet
<1>4. ASSUME NEW m \in responses,
             \/ IgnoreResponse(m) \/ DiscoverFound(m) \/ DiscoverFailed(m) \/ BadHeader(m)
             \/ CreateOrphaned(m) \/ CreateUnusable(m) \/ CreateRejected(m)
             \/ UpdateAnswered(m) \/ RemoveOrphaned(m) \/ RemoveUnaddressed(m)
      PROVE  PInv'
  <2>1. /\ xacts' \subseteq xacts /\ lost \subseteq lost' /\ remote' = remote
        /\ responses' \subseteq responses
        /\ \A w \in wire' : w \in wire \/ w.x \in xacts
    <3>1. CASE DiscoverFound(m)
      BY <3>1 DEF DiscoverFound, Found, appVars
    <3>2. CASE IgnoreResponse(m)
      BY <3>2 DEF IgnoreResponse, appVars
    <3>3. CASE End(m) /\ lost \subseteq lost'
      BY <3>3 DEF End
    <3> QED BY <1>4, <3>1, <3>2, <3>3
            DEF DiscoverFailed, BadHeader, CreateOrphaned, CreateUnusable, CreateRejected,
                UpdateAnswered, RemoveOrphaned, RemoveUnaddressed
  <2> QED BY <2>1, PromiseQuiet
<1>5. ASSUME NEW x \in xacts, Timeout(x) PROVE PInv'
  <2>1. /\ xacts' \subseteq xacts /\ lost \subseteq lost' /\ remote' = remote
        /\ responses' = responses /\ wire' = wire
    BY <1>5 DEF Timeout
  <2> QED BY <2>1, PromiseQuiet
<1>6. ASSUME NEW w \in wire, NrfRespond(w) PROVE PInv'
  <2>1. /\ xacts' = xacts /\ lost' = lost /\ remote' = remote /\ wire' \subseteq wire
        /\ \A r \in responses' : r \in responses \/ r.from = "nrf"
    BY <1>6 DEF NrfRespond, appVars
  <2> QED BY <2>1, PromiseQuiet
<1>7. CASE UNCHANGED vars
  BY <1>7, PromiseQuiet DEF vars, appVars
<1> QED BY <1>1, <1>2, <1>3, <1>4, <1>5, <1>6, <1>7, PromiseMbsmf
        DEF Next, HandleResponse, HandleTimer, Environment

(* The state as the application knows it *)
DeletedOnes == {s \in Session : ses[s].deleted}
HeldNow == [s \in Session |-> HeldOf(s)]
CreatedOnes == Told("create", "OGS_OK")
DoneOnes == Told("delete", "OGS_DONE")

PromiseStep == Promise!Next \/ UNCHANGED Promise!pvars

LEMMA PhaseOf == \A s \in Session : HeldOf(s) \in Promise!Phase /\ HeldOf(s)' \in Promise!Phase
  BY DEF HeldOf, Promise!Phase

(* Only one session is held otherwise than before.                          *)
LEMMA HeldMoves ==
    ASSUME NEW s \in Session, \A u \in Session : u # s => HeldOf(u)' = HeldOf(u)
    PROVE  HeldNow' = [HeldNow EXCEPT ![s] = HeldOf(s)']
  BY DEF HeldNow

LEMMA PromiseStutter ==
    ASSUME UNCHANGED <<DeletedOnes, lost, CreatedOnes, DoneOnes>>,
           \A u \in Session : HeldOf(u)' = HeldOf(u)
    PROVE  PromiseStep
<1>1. HeldNow' = HeldNow
  BY DEF HeldNow
<1> QED BY <1>1 DEF PromiseStep, Promise!pvars, DeletedOnes, HeldNow, CreatedOnes, DoneOnes

LEMMA PromiseFails ==
    ASSUME NEW s \in Session, \A u \in Session : u # s => HeldOf(u)' = HeldOf(u),
           lost' = lost \cup {s},
           \/ UNCHANGED <<DeletedOnes, CreatedOnes, DoneOnes>>
           \/ /\ s \notin DoneOnes
              /\ CreatedOnes' = CreatedOnes \cup {s}
              /\ DeletedOnes' \in {DeletedOnes, DeletedOnes \cup {s}}
              /\ UNCHANGED DoneOnes
           \/ /\ s \in DeletedOnes
              /\ DoneOnes' = DoneOnes \cup {s}
              /\ UNCHANGED <<DeletedOnes, CreatedOnes>>
    PROVE  PromiseStep
<1>1. \E phase \in Promise!Phase : HeldNow' = [HeldNow EXCEPT ![s] = phase]
  BY HeldMoves, PhaseOf
<1>2. Promise!Fail(s)
  BY <1>1 DEF Promise!Fail, DeletedOnes, HeldNow, CreatedOnes, DoneOnes
<1> QED BY <1>2 DEF PromiseStep, Promise!Next

(* What the MB-SMF has of a session depends on these.                       *)
LEMMA HeldSame ==
    ASSUME NEW u, remote' = remote, ses'[u].id = ses[u].id,
           ses'[u].live = "freed" <=> ses[u].live = "freed"
    PROVE  HeldOf(u)' = HeldOf(u)
  BY DEF HeldOf

(* A report that is none of the two that the promise is about.              *)
LEMMA ToldSame ==
    ASSUME NEW R, reports' = reports \cup R,
           \A r \in R : /\ ~(r.cb = "create" /\ r.result = "OGS_OK")
                        /\ ~(r.cb = "delete" /\ r.result = "OGS_DONE")
    PROVE  UNCHANGED <<CreatedOnes, DoneOnes>>
  BY DEF CreatedOnes, DoneOnes, Told

LEMMA PromiseApplication ==
    ASSUME IInv, CInv, Careful, Application
    PROVE  PromiseStep
<1>1. ses \in [Session -> PrivSession]
  BY Typed
<1>2. ASSUME UNCHANGED <<lost, reports, remote>>,
             \A u \in Session :
                /\ ses'[u].id = ses[u].id /\ ses'[u].deleted = ses[u].deleted
                /\ ses'[u].live = "freed" <=> ses[u].live = "freed"
      PROVE  PromiseStep
  <2>1. UNCHANGED <<DeletedOnes, CreatedOnes, DoneOnes>>
    BY <1>2 DEF DeletedOnes, CreatedOnes, DoneOnes, Told
  <2>2. \A u \in Session : HeldOf(u)' = HeldOf(u)
    BY <1>2, HeldSame
  <2> QED BY <2>1, <2>2, <1>2, PromiseStutter
<1>3. ASSUME NEW P, DoPush(ses, P, xacts), UNCHANGED <<lost, reports, remote>>
      PROVE  PromiseStep
  <2>1. \A u \in Session :
           /\ ses'[u].id = ses[u].id /\ ses'[u].deleted = ses[u].deleted
           /\ ses'[u].live = ses[u].live
    BY <1>1, <1>3 DEF DoPush, PrivSession
  <2> QED BY <2>1, <1>2, <1>3
<1>4. CASE PushAll \/ \E s \in Session : Push(s)
  BY <1>3, <1>4 DEF PushAll, Push
<1>5. ASSUME NEW s \in Session, NEW m \in Ssm \cup {None}, NEW t \in Terms, New(s, m, t)
      PROVE  PromiseStep
  <2>1. \A u \in Session :
           /\ ses'[u].id = ses[u].id /\ ses'[u].deleted = ses[u].deleted
           /\ ses'[u].live = "freed" <=> ses[u].live = "freed"
    BY <1>1, <1>5 DEF New, Opened, PrivSession
  <2> QED BY <2>1, <1>2, <1>5 DEF New, appVars
<1>6. ASSUME NEW s \in Session,
             \/ \E a \in Attr : SetAttr(s, a)
             \/ \E m \in Ssm \cup {None} : SetSsm(s, m)
             \/ UnsetTmgi(s)
      PROVE  PromiseStep
  <2>1. \A u \in Session :
           /\ ses'[u].id = ses[u].id /\ ses'[u].deleted = ses[u].deleted
           /\ ses'[u].live = ses[u].live
    BY <1>1, <1>6 DEF SetAttr, SetSsm, UnsetTmgi, PrivSession
  <2> QED BY <2>1, <1>2, <1>6 DEF SetAttr, SetSsm, UnsetTmgi, appVars
<1>7. ASSUME NEW s \in Session, MarkDeleted(s) PROVE PromiseStep
  <2>1. /\ ses' = [ses EXCEPT ![s].deleted = TRUE] /\ lost' = lost /\ reports' = reports
        /\ remote' = remote
    BY <1>7 DEF MarkDeleted, appVars
  <2>2. \A u \in Session : ses'[u].id = ses[u].id /\ ses'[u].live = ses[u].live
    BY <1>1, <2>1 DEF PrivSession
  <2>3. DeletedOnes' = DeletedOnes \cup {s}
    BY <1>1, <2>1 DEF DeletedOnes, PrivSession
  <2>4. HeldNow' = HeldNow
    BY <2>1, <2>2, HeldSame DEF HeldNow
  <2>5. UNCHANGED <<CreatedOnes, DoneOnes>>
    BY <2>1 DEF CreatedOnes, DoneOnes, Told
  <2>6. Promise!Delete(s)
    BY <2>1, <2>3, <2>4, <2>5
       DEF Promise!Delete, DeletedOnes, HeldNow, CreatedOnes, DoneOnes
  <2> QED BY <2>6 DEF PromiseStep, Promise!Next
<1>8. ~\E t \in Tmgi : TRUE
  BY DEF Careful
<1> QED BY <1>4, <1>5, <1>6, <1>7, <1>8 DEF Application

(* A request that failed. *)
LEMMA PromiseEnded ==
    ASSUME IInv, NEW x, x.owner \in Session, NEW R, reports' = reports \cup R,
           \A r \in R : /\ ~(r.cb = "create" /\ r.result = "OGS_OK")
                        /\ ~(r.cb = "delete" /\ r.result = "OGS_DONE"),
           lost' = lost \/ lost' = lost \cup {x.owner}, remote' = remote,
           \A u \in Session :
              /\ ses'[u].deleted = ses[u].deleted /\ ses'[u].live = ses[u].live
              /\ ses'[u].id # ses[u].id => u = x.owner /\ x.owner \in lost'
    PROVE  PromiseStep
<1>1. UNCHANGED <<CreatedOnes, DoneOnes>>
  BY ToldSame
<1>2. DeletedOnes' = DeletedOnes
  BY DEF DeletedOnes
<1>3. \A u \in Session : u # x.owner => HeldOf(u)' = HeldOf(u)
  BY HeldSame
<1>4. CASE lost' = lost \cup {x.owner}
  BY <1>1, <1>2, <1>3, <1>4, PromiseFails
<1>5. CASE x.owner \notin lost'
  <2>1. \A u \in Session : HeldOf(u)' = HeldOf(u)
    BY <1>5, HeldSame
  <2> QED BY <1>1, <1>2, <1>5, <2>1, PromiseStutter
<1>6. CASE lost' = lost /\ x.owner \in lost
  <2>1. lost' = lost \cup {x.owner}
    BY <1>6
  <2> QED BY <2>1, <1>4
<1> QED BY <1>4, <1>5, <1>6

(* The report of a creation finds the session at the MB-SMF, unless a       *)
(* request of it failed.                                                    *)
LEMMA PromiseAccepted ==
    ASSUME IInv, ObjectsOwn, CInv, Careful, PInv, NEW m \in responses, CreateAccepted(m)
    PROVE  PromiseStep
<1> DEFINE s == m.x.owner
<1>1. /\ s \in Session /\ Answer(m, "mbsmf", "create") /\ m.outcome = "ok"
      /\ ses[s].live = "live" /\ lost' = lost /\ remote' = remote
      /\ reports' = reports \cup {[x |-> m.x, to |-> s, cb |-> "create", result |-> "OGS_OK"]}
  BY AcceptedIs
<1>2. PICK S \in [Session -> PrivSession] :
          /\ DoPush(S, {s}, xacts \ {m.x})
          /\ S[s].id = Created(m.x) /\ S[s].live = "live"
          /\ ses[s].deleted => S[s].deleted
          /\ \A u \in Session : u # s => S[u] = ses[u]
  BY AcceptedIs
<1>3. \A u \in Session :
         ses'[u].id = S[u].id /\ ses'[u].deleted = S[u].deleted /\ ses'[u].live = S[u].live
  BY <1>2 DEF DoPush, PrivSession
<1>4. m.x \in xacts
  BY <1>1 DEF Answer, Found
<1>5. s \notin lost => \E n \in remote : n.id[1] = s
  <2>1. s \notin lost => Accepted(m)
    BY <1>1, <1>4 DEF Accepted, Answer
  <2> QED BY <2>1 DEF PInv, CreationsHeld, Created
<1> HIDE DEF s
<1>6. s \notin DoneOnes
  <2>1. \A r \in reports : r.result = "OGS_DONE" => ses[r.to].live = "freed"
    BY DEF IInv, DoneIsFreed
  <2> QED BY <2>1, <1>1 DEF DoneOnes, Told
<1>7. CreatedOnes' = CreatedOnes \cup {s} /\ DoneOnes' = DoneOnes
  <2> DEFINE r == [x |-> m.x, to |-> s, cb |-> "create", result |-> "OGS_OK"]
  <2>1. r.to = s /\ r.cb = "create" /\ r.result = "OGS_OK" /\ reports' = reports \cup {r}
    BY <1>1
  <2> HIDE DEF r
  <2> QED BY <2>1, <1>1 DEF CreatedOnes, DoneOnes, Told
<1>8. DeletedOnes' \in {DeletedOnes, DeletedOnes \cup {s}}
  <2>1. \A u \in Session : u # s => (ses'[u].deleted <=> ses[u].deleted)
    BY <1>2, <1>3
  <2>2. ses[s].deleted => ses'[s].deleted
    BY <1>1, <1>2, <1>3
  <2> QED BY <1>1, <2>1, <2>2 DEF DeletedOnes
<1>9. \A u \in Session : u # s => HeldOf(u)' = HeldOf(u)
  BY <1>1, <1>2, <1>3, HeldSame
<1>10. CASE s \in lost
  <2>1. lost' = lost \cup {s}
    BY <1>1, <1>10
  <2> QED BY <1>1, <1>6, <1>7, <1>8, <1>9, <2>1, PromiseFails
<1>11. CASE s \notin lost
  <2>1. HeldOf(s) = "open" /\ HeldOf(s)' = "open"
    BY <1>1, <1>5, <1>11 DEF HeldOf
  <2>2. HeldNow' = HeldNow /\ HeldNow[s] = "open"
    BY <1>1, <1>9, <2>1 DEF HeldNow
  <2>3. Promise!TellCreated(s)
    BY <1>1, <1>6, <1>7, <1>8, <2>2
       DEF Promise!TellCreated, DeletedOnes, HeldNow, CreatedOnes, DoneOnes
  <2> QED BY <2>3, <1>1 DEF PromiseStep, Promise!Next
<1> QED BY <1>10, <1>11

(* The end of a session is reported when the MB-SMF has it no more.         *)
LEMMA PromiseRemoved ==
    ASSUME IInv, ObjectsOwn, CInv, Careful, NEW m \in responses, RemoveAnswered(m)
    PROVE  PromiseStep
<1> DEFINE s == m.x.owner
<1>1. /\ m.x \in xacts /\ m.x.op = "remove" /\ m.from = "mbsmf" /\ SessionOf(m.x.obj) = s
      /\ m.x.target # None
  BY OwnerFound DEF RemoveAnswered, Answer, Found, Careful, CInv
<1>2. /\ s \in Session /\ s # None /\ ses[s].live = "live" /\ ses[s].deleted
      /\ ses[s].id = m.x.target /\ ses \in [Session -> PrivSession]
  BY <1>1, Typed, NoneAssumption DEF CInv, OutstandingSound, Outstanding
<1>3. /\ ses' = [ses EXCEPT ![s] = Freed(ses[s])] /\ remote' = remote
      /\ lost' = IF m.outcome = "ok" THEN lost ELSE lost \cup {s}
      /\ reports' = reports \cup {[x |-> m.x, to |-> s, cb |-> "delete", result |-> "OGS_DONE"]}
  BY <1>1, <1>2 DEF RemoveAnswered, FreeSession, Report
<1>4. m.outcome = "ok" /\ s \notin lost => \A n \in remote : n.id[1] # s
  <2>1. SUFFICES ASSUME m.outcome = "ok", s \notin lost, NEW n \in remote, n.id[1] = s
                 PROVE  FALSE
    OBVIOUS
  <2>2. n.id # m.x.target
    BY <2>1, <1>1 DEF CInv, RemoteSound
  <2>3. CASE Known(n)
    BY <2>1, <2>2, <2>3, <1>2 DEF Known
  <2>4. CASE Coming(n)
    <3>1. PICK r \in responses : r.x \in xacts /\ r.x.op = "create" /\ n.id = Created(r.x)
      BY <2>4 DEF Coming
    <3>2. r.x.owner = s
      BY <3>1, <2>1 DEF Created
    <3>3. r.x = m.x
      BY <3>1, <3>2, <1>1 DEF CInv, OneEach
    <3> QED BY <3>1, <3>3, <1>1
  <2> QED BY <2>1, <2>3, <2>4 DEF CInv, RemoteSound
<1> HIDE DEF s
<1>5. /\ ses'[s].live = "freed" /\ ses'[s].deleted
      /\ \A u \in Session : u # s => ses'[u] = ses[u]
  BY <1>2, <1>3 DEF Freed, PrivSession
<1>6. DeletedOnes' = DeletedOnes /\ s \in DeletedOnes
  BY <1>2, <1>5 DEF DeletedOnes
<1>7. CreatedOnes' = CreatedOnes /\ DoneOnes' = DoneOnes \cup {s}
  <2> DEFINE r == [x |-> m.x, to |-> s, cb |-> "delete", result |-> "OGS_DONE"]
  <2>1. r.to = s /\ r.cb = "delete" /\ r.result = "OGS_DONE" /\ reports' = reports \cup {r}
    BY <1>3
  <2> HIDE DEF r
  <2> QED BY <2>1, <1>2 DEF CreatedOnes, DoneOnes, Told
<1>8. \A u \in Session : u # s => HeldOf(u)' = HeldOf(u)
  BY <1>3, <1>5, HeldSame
<1>9. CASE lost' = lost \cup {s}
  BY <1>2, <1>6, <1>7, <1>8, <1>9, PromiseFails
<1>10. CASE s \notin lost'
  <2>1. m.outcome = "ok" /\ lost' = lost /\ s \notin lost
    BY <1>3, <1>10
  <2>2. HeldOf(s) = "ended" /\ HeldOf(s)' = "ended"
    BY <2>1, <1>1, <1>2, <1>3, <1>4, <1>5 DEF HeldOf
  <2>3. HeldNow' = HeldNow /\ HeldNow[s] = "ended"
    BY <1>2, <1>8, <2>2 DEF HeldNow
  <2>4. Promise!TellDone(s)
    BY <1>6, <1>7, <2>1, <2>3
       DEF Promise!TellDone, DeletedOnes, HeldNow, CreatedOnes, DoneOnes
  <2> QED BY <2>4, <1>2 DEF PromiseStep, Promise!Next
<1>11. lost' = lost \cup {s} \/ s \notin lost'
  BY <1>3
<1> QED BY <1>9, <1>10, <1>11

LEMMA PromiseResponse ==
    ASSUME IInv, ObjectsOwn, CInv, Careful, PInv, NEW m \in responses,
           \/ IgnoreResponse(m) \/ DiscoverFound(m) \/ DiscoverFailed(m) \/ BadHeader(m)
           \/ CreateUnusable(m) \/ CreateRejected(m) \/ UpdateAnswered(m) \/ RemoveUnaddressed(m)
    PROVE  PromiseStep
<1> DEFINE x == m.x
<1>1. x.owner \in Session /\ ses \in [Session -> PrivSession]
  BY Typed
<1>2. CASE reports' = reports /\ ses' = ses
           /\ (lost' = lost \/ lost' = lost \cup {x.owner}) /\ remote' = remote
  <2> DEFINE R == {}
  <2>1. reports' = reports \cup R /\ \A r \in R : FALSE
    BY <1>2
  <2> HIDE DEF R, x
  <2> QED BY <2>1, <1>1, <1>2, PromiseEnded
<1>3. ASSUME NEW to, NEW cb, NEW result, Report(x, to, cb, result),
             ~(cb = "create" /\ result = "OGS_OK"), cb # "delete",
             lost' = lost \/ lost' = lost \cup {x.owner}, remote' = remote,
             \A u \in Session :
                /\ ses'[u].deleted = ses[u].deleted /\ ses'[u].live = ses[u].live
                /\ ses'[u].id # ses[u].id => u = x.owner /\ x.owner \in lost'
      PROVE  PromiseStep
  <2> DEFINE R == IF to = None THEN {}
                  ELSE {[x |-> x, to |-> to, cb |-> cb, result |-> result]}
  <2>1. reports' = reports \cup R
    BY <1>3 DEF Report
  <2>2. \A r \in R : r.cb = cb /\ r.result = result
    OBVIOUS
  <2> HIDE DEF R, x
  <2> QED BY <2>1, <2>2, <1>1, <1>3, PromiseEnded
<1>4. CASE IgnoreResponse(m) \/ DiscoverFound(m) \/ DiscoverFailed(m) \/ RemoveUnaddressed(m)
  BY <1>2, <1>4 DEF IgnoreResponse, DiscoverFound, DiscoverFailed, RemoveUnaddressed, End, appVars
<1>5. CASE BadHeader(m) \/ CreateRejected(m) \/ UpdateAnswered(m)
  <2>1. /\ ses' = ses /\ remote' = remote /\ (lost' = lost \/ lost' = lost \cup {x.owner})
        /\ \/ Report(x, SessionOf(x.obj), "create", "OGS_ERROR")
           \/ Report(x, SessionOf(x.obj), "update", "OGS_OK")
    BY <1>5 DEF BadHeader, CreateRejected, UpdateAnswered, End
  <2> QED BY <2>1, <1>3
<1>6. CASE CreateUnusable(m)
  <2>1. SessionOf(x.obj) = x.owner
    BY <1>6, OwnerFound DEF CreateUnusable, Answer, Found, Careful, CInv
  <2>2. /\ remote' = remote /\ lost' = lost \cup {x.owner}
        /\ Report(x, x.owner, "create", "OGS_ERROR")
        /\ \/ ses' = [ses EXCEPT ![x.owner].id = Created(x)]
           \/ ses' = ses
    BY <1>6, <2>1 DEF CreateUnusable, End
  <2>3. \A u \in Session :
           /\ ses'[u].deleted = ses[u].deleted /\ ses'[u].live = ses[u].live
           /\ ses'[u].id # ses[u].id => u = x.owner
    BY <1>1, <2>2 DEF PrivSession
  <2> QED BY <2>2, <2>3, <1>3
<1> QED BY <1>4, <1>5, <1>6

LEMMA PromiseTimeout ==
    ASSUME IInv, CInv, NEW x \in xacts, Timeout(x)
    PROVE  PromiseStep
<1> DEFINE R == IF x.op # "create" THEN {}
                ELSE IF SessionOf(x.obj) = None THEN {}
                ELSE {[x |-> x, to |-> SessionOf(x.obj), cb |-> "create",
                       result |-> "OGS_ETIMEDOUT"]}
<1>1. /\ reports' = reports \cup R /\ lost' = lost \cup {x.owner} /\ ses' = ses
      /\ remote' = remote
  BY DEF Timeout, Report
<1>2. \A r \in R : r.cb = "create" /\ r.result = "OGS_ETIMEDOUT"
  OBVIOUS
<1>3. x.owner \in Session
  BY Typed
<1> HIDE DEF R
<1> QED BY <1>1, <1>2, <1>3, PromiseEnded

(* The MB-SMF takes a session that it did not have, and drops one that was  *)
(* deleted.                                                                 *)
LEMMA PromiseAnswer ==
    ASSUME IInv, CInv, PInv, NEW w \in wire, MbsmfRespond(w)
    PROVE  PromiseStep
<1> DEFINE x == w.x
           s == w.x.owner
<1>1. ses' = ses /\ lost' = lost /\ reports' = reports
  BY DEF MbsmfRespond, appVars
<1>2. PICK out \in Outcomes : remote' = Handled(x, out)
  BY DEF MbsmfRespond
<1>3. x \in Xact /\ s \in Session /\ out \in Outcome /\ (x \in xacts \/ s \in lost)
  BY Typed, PeerAssumption DEF CInv, FlightSound
<1>4. x \in xacts =>
         /\ ses[s].live = "live"
         /\ x.op = "remove" => ses[s].deleted /\ x.target = ses[s].id
         /\ x.op = "create" /\ s \notin lost => ses[s].id = None
  BY DEF CInv, OutstandingSound, Outstanding
<1>5. x.target # None => x.target[1] = s
  BY DEF PInv, TargetsOwn
<1>6. \A r \in responses : r.x # x
  BY DEF CInv, FlightSound
<1> HIDE DEF x, s
<1>7. UNCHANGED <<DeletedOnes, CreatedOnes, DoneOnes>>
  BY <1>1 DEF DeletedOnes, CreatedOnes, DoneOnes, Told
<1>8. \A n \in remote' : \/ \E m \in remote : m.id = n.id
                         \/ out # "error" /\ x.op = "create" /\ n.id = Created(x)
  BY <1>2, <1>3, HandledSound
<1>9. \A m \in remote : \/ \E n \in remote' : n.id = m.id
                        \/ out # "error" /\ x.op = "remove" /\ m.id = x.target
  BY <1>2, <1>3, HandledKeeps
<1>10. \A m \in remote : m.id # None
  BY Typed
<1>11. Created(x)[1] = s
  BY DEF Created, x, s
<1>12. \A u \in Session : u # s => HeldOf(u)' = HeldOf(u)
  <2>1. ASSUME NEW u \in Session, u # s
        PROVE  (\E n \in remote' : n.id[1] = u) <=> (\E m \in remote : m.id[1] = u)
    BY <2>1, <1>5, <1>8, <1>9, <1>10, <1>11
  <2> QED BY <2>1, <1>1 DEF HeldOf
<1>13. CASE s \in lost
  <2>1. lost' = lost \cup {s}
    BY <1>1, <1>13
  <2> QED BY <1>3, <1>7, <1>12, <2>1, PromiseFails
<1>14. CASE s \notin lost /\ HeldOf(s)' = HeldOf(s)
  <2>1. \A u \in Session : HeldOf(u)' = HeldOf(u)
    BY <1>12, <1>14
  <2> QED BY <1>1, <1>7, <2>1, PromiseStutter
<1>15. CASE s \notin lost /\ x.op = "create" /\ HeldOf(s)' # HeldOf(s)
  <2>1. \A m \in remote : m.id[1] # s
    <3>1. SUFFICES ASSUME NEW m \in remote, m.id[1] = s PROVE FALSE
      OBVIOUS
    <3>2. ses[s].id = None /\ x \in xacts
      BY <1>3, <1>4, <1>15
    <3>3. CASE Known(m)
      BY <3>1, <3>2, <3>3, <1>10 DEF Known
    <3>4. CASE Coming(m)
      <4>1. PICK r \in responses : r.x \in xacts /\ m.id = Created(r.x)
        BY <3>4 DEF Coming
      <4>2. r.x.owner = s
        BY <4>1, <3>1 DEF Created
      <4>3. r.x = x
        BY <4>1, <4>2, <3>2 DEF CInv, OneEach, x, s
      <4> QED BY <4>1, <4>3, <1>6
    <3> QED BY <3>1, <3>3, <3>4, <1>15 DEF CInv, RemoteSound
  <2>2. HeldOf(s) = "none"
    <3>1. ses[s].id = None /\ ses[s].live = "live"
      BY <1>3, <1>4, <1>15
    <3> QED BY <2>1, <3>1 DEF HeldOf
  <2>3. HeldOf(s)' = "open"
    BY <2>1, <2>2, <1>1, <1>15 DEF HeldOf
  <2>4. HeldNow' = [HeldNow EXCEPT ![s] = "open"] /\ HeldNow[s] = "none"
    BY <1>3, <1>12, <2>2, <2>3, HeldMoves DEF HeldNow
  <2>5. Promise!Take(s)
    BY <1>1, <1>7, <2>4 DEF Promise!Take, DeletedOnes, HeldNow, CreatedOnes, DoneOnes
  <2> QED BY <2>5, <1>3 DEF PromiseStep, Promise!Next
<1>16. CASE s \notin lost /\ x.op # "create" /\ HeldOf(s)' # HeldOf(s)
  <2>1. PICK m \in remote : m.id[1] = s /\ out # "error" /\ x.op = "remove" /\ m.id = x.target
    <3>1. \A n \in remote' : \E m \in remote : m.id = n.id
      BY <1>8, <1>16
    <3>2. ~((\E n \in remote' : n.id[1] = s) <=> (\E m \in remote : m.id[1] = s))
      BY <1>1, <1>16 DEF HeldOf
    <3> QED BY <3>1, <3>2, <1>9
  <2>2. ses[s].deleted /\ ses[s].id # None
    BY <2>1, <1>3, <1>4, <1>10, <1>16
  <2>3. HeldOf(s) = "open" /\ HeldOf(s)' = "ended"
    BY <2>1, <2>2, <1>1, <1>16 DEF HeldOf
  <2>4. HeldNow' = [HeldNow EXCEPT ![s] = "ended"] /\ HeldNow[s] = "open"
    BY <1>3, <1>12, <2>3, HeldMoves DEF HeldNow
  <2>5. s \in DeletedOnes
    BY <1>3, <2>2 DEF DeletedOnes
  <2>6. Promise!Drop(s)
    BY <1>1, <1>7, <2>4, <2>5 DEF Promise!Drop, DeletedOnes, HeldNow, CreatedOnes, DoneOnes
  <2> QED BY <2>6, <1>3 DEF PromiseStep, Promise!Next
<1> QED BY <1>13, <1>14, <1>15, <1>16

LEMMA PromiseNext ==
    ASSUME IInv, ObjectsOwn, CInv, Careful, PInv, [Next]_vars
    PROVE  [Promise!Next]_(Promise!pvars)
<1> SUFFICES PromiseStep
  BY DEF PromiseStep
<1>1. ASSUME UNCHANGED <<ses, lost, reports, remote>> PROVE PromiseStep
  <2>1. UNCHANGED <<DeletedOnes, CreatedOnes, DoneOnes>>
    BY <1>1 DEF DeletedOnes, CreatedOnes, DoneOnes, Told
  <2>2. \A u \in Session : HeldOf(u)' = HeldOf(u)
    BY <1>1, HeldSame
  <2> QED BY <2>1, <2>2, <1>1, PromiseStutter
<1>2. ASSUME NEW m \in responses, CreateOrphaned(m) \/ RemoveOrphaned(m) PROVE FALSE
  <2>1. m.x \in xacts /\ SessionOf(m.x.obj) = None
    BY <1>2 DEF CreateOrphaned, RemoveOrphaned, Answer, Found
  <2>2. SessionOf(m.x.obj) = m.x.owner /\ m.x.owner \in Session
    BY <2>1, OwnerFound, Typed DEF Careful, CInv
  <2> QED BY <2>1, <2>2, NoneAssumption
<1>3. CASE HandleResponse
  BY <1>2, <1>3, PromiseResponse, PromiseAccepted, PromiseRemoved DEF HandleResponse
<1>4. CASE Environment
  <2>1. ASSUME NEW w \in wire, NrfRespond(w) PROVE PromiseStep
    BY <1>1, <2>1 DEF NrfRespond, appVars
  <2> QED BY <1>4, <2>1, PromiseAnswer DEF Environment
<1>5. CASE UNCHANGED vars
  BY <1>1, <1>5 DEF vars, appVars
<1>6. CASE Application
  BY <1>6, PromiseApplication
<1>7. CASE HandleTimer
  BY <1>7, PromiseTimeout DEF HandleTimer
<1> QED BY <1>3, <1>4, <1>5, <1>6, <1>7 DEF Next

LEMMA PromiseInit == Init => Promise!Init
<1> SUFFICES ASSUME Init PROVE Promise!Init
  OBVIOUS
<1>1. DeletedOnes = {} /\ CreatedOnes = {} /\ DoneOnes = {}
  BY DEF Init, DeletedOnes, CreatedOnes, DoneOnes, Told
<1>2. HeldNow = [s \in Session |-> "none"]
  BY DEF Init, HeldNow, HeldOf
<1>3. lost = {}
  BY DEF Init
<1> QED BY <1>1, <1>2, <1>3 DEF Promise!Init, DeletedOnes, HeldNow, CreatedOnes, DoneOnes

(* The library, its application and the MB-SMF together implement           *)
(* MbsPromise, for any number of sessions and pushes: a session is made at  *)
(* the MB-SMF once, stays until the application deletes it, and each report *)
(* is true of the MB-SMF when it is made. A session with a failed request   *)
(* keeps the part of the promise about the reports of its end.              *)
THEOREM KeepsPromise == Careful => (Spec => PromiseSpec)
<1> SUFFICES ASSUME Careful PROVE Spec => PromiseSpec
  OBVIOUS
<1>1. Init => PInv /\ ObjectsOwn
  BY DEF Init, PInv, TargetsOwn, CreationsHeld, ObjectsOwn
<1>2. IInv /\ ObjectsOwn /\ CInv /\ PInv /\ [Next]_vars => ObjectsOwn' /\ PInv'
  BY ObjectsStep, PromiseKept
<1>3. IInv /\ ObjectsOwn /\ CInv /\ PInv /\ [Next]_vars => [Promise!Next]_(Promise!pvars)
  BY PromiseNext
<1> QED BY <1>1, <1>2, <1>3, PromiseInit, Invariant, CarefulInvariance, PTL
        DEF Spec, PromiseSpec, Promise!Spec

=============================================================================
