---------------------- MODULE StatusSubscription_proofs ----------------------
(***************************************************************************)
(* Proofs about StatusSubscription, for any sessions, subscriptions,       *)
(* correlation ids, events and notification servers and any bound on the   *)
(* requests, as long as the application keeps to the rules named in each   *)
(* theorem.                                                                *)
(*                                                                         *)
(* A subscription's own fields say where it is: a new one has no id, an    *)
(* active one has the id that keys its entry, and one to delete has an id  *)
(* and is no longer held by the application.  The answer to a creation     *)
(* finds the subscription it was asked for because that one keeps its      *)
(* correlation id while the request is pending and no other one has it.    *)
(***************************************************************************)
EXTENDS StatusSubscription, TLAPS

-----------------------------------------------------------------------------
(* The inductive invariant *)

(* The rules the containers depend on. *)
Obedient == {"settled", "unique", "emptied"} \subseteq Rules

(* Only a subscription in a session has an id, and one that was made for    *)
(* it; the application holds live subscriptions only.                       *)
SubSound(x) ==
    /\ sub[x].st # "live" => sub[x].session = None
    /\ sub[x].session = None => sub[x].id = None
    /\ sub[x].id # None => sub[x].id.sub = x
    /\ x \in held => sub[x].st = "live"

SubsSound == \A x \in Subs : SubSound(x)

(* No two live subscriptions have the same correlation id. *)
Unique ==
    \A x, y \in Subs :
        sub[x].st = "live" /\ sub[y].st = "live" /\ sub[x].cid = sub[y].cid => x = y

(* What the fields of a subscription in a container say. *)
Placed ==
    \A s \in Sessions :
        /\ \A x \in newl[s] : sub[x].session = s /\ sub[x].id = None /\ x \in held
        /\ \A e \in active[s] :
              sub[e.sub].session = s /\ sub[e.sub].id = e.key /\ e.sub \in held
        /\ \A x \in dele[s] : sub[x].session = s /\ sub[x].id # None /\ x \notin held

(* A subscription that was added to a session is in a container of it. *)
Kept ==
    \A x \in Subs, s \in Sessions :
        sub[x].session = s =>
            \/ x \in newl[s]
            \/ x \in dele[s]
            \/ [key |-> sub[x].id, sub |-> x] \in active[s]

(* A transaction agrees with its session, and a creation also with its      *)
(* subscription, which stays on the list of new ones until it is answered.  *)
XactSound(r) ==
    /\ r.kind = "session" => ses[r.s].asked /\ ~ses[r.s].created
    /\ r.kind = "create" => ses[r.s].created /\ ~sub[r.sub].changed
    /\ r.kind = "remove" => ses[r.s].deleted
    /\ r.kind \in {"create", "update", "delete"} => r.sub # None
    /\ r.kind \in {"create", "session"} /\ r.sub # None =>
          r.sub \in newl[r.s] /\ sub[r.sub].cid = r.cid

XactsSound == \A r \in xacts : XactSound(r)

(* One creation at a time of a session, and of a subscription. *)
AskedOnce ==
    /\ \A r, t \in xacts : r.kind = "session" /\ t.kind = "session" /\ r.s = t.s => r = t
    /\ \A r, t \in xacts : r.kind = "create" /\ t.kind = "create" /\ r.sub = t.sub => r = t

(* Later requests about a subscription have larger numbers, and no          *)
(* request names a server that is not that of its subscription.             *)
Counted ==
    \A r \in xacts \cup wire : r.sub # None =>
        /\ r.cid \in Cids /\ 1 <= r.n
        /\ sub[r.sub].st # "freed" => r.n <= sub[r.sub].n
        /\ r.url # None => sub[r.sub].url = r.url

(* The MB-SMF notifies the server of the subscription a resource was made   *)
(* for, and at a fixed port no two subscriptions ever have the same server. *)
UrlsOwned ==
    /\ \A q \in remote : q.url # None => sub[q.rid.sub].url = q.url
    /\ \A p \in posted : p.url # None /\ sub[p.rid.sub].url = p.url
    /\ Fixed => \A x, y \in Subs : sub[x].url # None /\ sub[x].url = sub[y].url => x = y

(* A deleted session has no active subscription. *)
DeletedEmpty == \A s \in Sessions : ses[s].deleted => active[s] = {}

(* At a fixed port, callbacks reach the subscription they are about. *)
Told == Fixed => ToldToOwner

(* A missing table is the only fault left. *)
Faultless == fault \in {"none", "no table"}

(* The containers. *)
Contained == SubsSound /\ Unique /\ Placed /\ Kept

(* The requests. *)
Requested == XactsSound /\ AskedOnce /\ Counted

IInv ==
    /\ TypeOK
    /\ Contained
    /\ Requested
    /\ UrlsOwned
    /\ DeletedEmpty
    /\ Told
    /\ Faultless

-----------------------------------------------------------------------------
(* Lemmas about the operators *)

(* The record types, field by field. *)
LEMMA FieldTypes ==
    ASSUME TypeOK
    PROVE  /\ \A s \in Sessions : ses[s] \in Session
           /\ \A x \in Subs : sub[x] \in Subscription
           /\ \A s \in Sessions : newl[s] \subseteq Subs /\ dele[s] \subseteq Subs
           /\ \A s \in Sessions : active[s] \subseteq [key : Rids, sub : Subs]
BY DEF TypeOK

(* A request about a subscription is one, if the bound allows it. *)
LEMMA AboutType ==
    ASSUME NEW kind \in {"session", "create", "update", "delete"}, NEW s \in Sessions,
           NEW x \in Subs, sub[x] \in Subscription, sub[x].n < MaxReq
    PROVE  About(kind, s, x) \in Request
<1>1. sub[x].n + 1 \in 0 .. MaxReq
  BY SubsAssumption DEF Subscription
<1>2. sub[x].id \in Rids \cup {None} /\ sub[x].cid \in Cids /\ sub[x].url \in Urls \cup {None}
  BY DEF Subscription
<1> QED BY <1>1, <1>2 DEF About, Request

(* What a request about a subscription holds. *)
LEMMA AboutFields ==
    ASSUME NEW kind, NEW s, NEW x
    PROVE  /\ About(kind, s, x).kind = kind
           /\ About(kind, s, x).s = s
           /\ About(kind, s, x).sub = x
           /\ About(kind, s, x).n = sub[x].n + 1
           /\ About(kind, s, x).id = IF kind = "create" THEN None ELSE sub[x].id
           /\ About(kind, s, x).cid = sub[x].cid
           /\ About(kind, s, x).url = sub[x].url
BY DEF About

(* A request about the session alone is a request. *)
LEMMA PlainType ==
    ASSUME NEW kind \in {"session", "remove"}, NEW s \in Sessions
    PROVE  /\ Plain(kind, s) \in Request
           /\ Plain(kind, s).kind = kind /\ Plain(kind, s).s = s
           /\ Plain(kind, s).sub = None
BY SubsAssumption DEF Plain, Request

(* A freed subscription keeps its correlation id, server and number. *)
LEMMA FreedFields ==
    ASSUME NEW x \in Subs, sub[x] \in Subscription
    PROVE  /\ Freed(x) \in Subscription
           /\ Freed(x).st = "freed" /\ Freed(x).session = None /\ Freed(x).id = None
           /\ Freed(x).cid = sub[x].cid /\ Freed(x).url = sub[x].url
           /\ Freed(x).n = sub[x].n /\ ~Freed(x).changed
BY DEF Freed, Subscription

(* No table has an entry of a freed subscription. *)
LEMMA NothingDangles ==
    ASSUME TypeOK, Contained, NEW s \in Sessions
    PROVE  ~Dangling(s)
BY FieldTypes DEF Contained, Placed, SubsSound, SubSound, Dangling

(* An active subscription is the only one with the key of its entry. *)
LEMMA KeyOfOne ==
    ASSUME TypeOK, Contained, NEW s \in Sessions, NEW e \in active[s], NEW x \in Subs,
           sub[x].id = e.key
    PROVE  e.sub = x
<1>1. e.key \in Rids /\ e.sub \in Subs /\ sub[e.sub].id = e.key
  BY FieldTypes DEF Contained, Placed
<1>2. e.key # None
  BY <1>1, SubsAssumption DEF Contained, Placed, SubsSound, SubSound
<1> QED BY <1>1, <1>2 DEF Contained, SubsSound, SubSound

-----------------------------------------------------------------------------
(* What a step that leaves some of the state alone preserves *)

(* The containers stay sound when neither they nor the subscriptions change. *)
LEMMA ContainersKept ==
    ASSUME Contained, UNCHANGED <<sub, newl, active, dele, held>>
    PROVE  Contained'
BY DEF Contained, SubsSound, SubSound, Unique, Placed, Kept

(* So do the transactions when some end or sessions are only deleted, or    *)
(* others are created, or made ready to be asked again.                     *)
LEMMA FewerRequests ==
    ASSUME Requested, xacts' \subseteq xacts, wire' \subseteq wire,
           UNCHANGED <<sub, newl>>,
           \A r \in xacts' :
               /\ ses'[r.s].created = ses[r.s].created
               /\ r.kind = "session" => ses'[r.s].asked
               /\ r.kind = "remove" => ses'[r.s].deleted
    PROVE  Requested'
<1>1. XactsSound'
  BY DEF Requested, XactsSound, XactSound
<1>2. AskedOnce'
  BY DEF Requested, AskedOnce
<1>3. Counted'
  BY DEF Requested, Counted
<1> QED BY <1>1, <1>2, <1>3 DEF Requested

(* And the servers when nothing is served or posted. *)
LEMMA ServersKept ==
    ASSUME UrlsOwned, remote' = remote, posted' \subseteq posted, sub' = sub
    PROVE  UrlsOwned'
BY DEF UrlsOwned

(* The table of a deleted session stays empty. *)
LEMMA EmptyKept ==
    ASSUME TypeOK, DeletedEmpty, \A s \in Sessions : ses'[s].deleted => ses[s].deleted,
           \A s \in Sessions : active'[s] \subseteq active[s]
    PROVE  DeletedEmpty'
BY DEF DeletedEmpty

(* The initial state satisfies the invariant. *)
LEMMA InvInit == Init => IInv
<1> SUFFICES ASSUME Init PROVE IInv
  OBVIOUS
<1>1. \A x \in Subs :
          /\ sub[x] \in Subscription
          /\ sub[x].st = "none" /\ sub[x].session = None /\ sub[x].id = None
          /\ sub[x].url = None
  <2> TAKE x \in Subs
  <2>1. /\ sub[x] \in [st : {"none"}, session : {None}, id : {None}, cid : Cids,
                       flags : {Events}, changed : {FALSE}, url : {None}, n : {0},
                       at : {0}]
    BY DEF Init
  <2>2. /\ sub[x].st = "none" /\ sub[x].session = None /\ sub[x].id = None
        /\ sub[x].url = None /\ sub[x].n = 0 /\ sub[x].at = 0
        /\ sub[x].cid \in Cids /\ sub[x].flags = Events /\ sub[x].changed = FALSE
    BY <2>1
  <2>3. 0 \in 0 .. MaxReq /\ 0 \in Nat /\ Events \in SUBSET Events
    BY SubsAssumption
  <2>4. sub[x] \in Subscription
    BY <2>1, <2>2, <2>3 DEF Subscription
  <2> QED BY <2>2, <2>4
<1>2. sub \in [Subs -> Subscription]
  BY <1>1 DEF Init
<1>3. ses \in [Sessions -> Session] /\ \A s \in Sessions : ~ses[s].deleted
  BY DEF Init, Session
<1>4. TypeOK
  BY <1>2, <1>3 DEF Init, TypeOK, Faults
<1>5. Contained
  BY <1>1, SubsAssumption
     DEF Init, Contained, SubsSound, SubSound, Unique, Placed, Kept
<1>6. Requested
  BY DEF Init, Requested, XactsSound, AskedOnce, Counted
<1>7. UrlsOwned /\ DeletedEmpty /\ Told /\ Faultless
  BY <1>1, <1>3 DEF Init, UrlsOwned, DeletedEmpty, Told, ToldToOwner, Faultless
<1> QED BY <1>4, <1>5, <1>6, <1>7 DEF IInv

-----------------------------------------------------------------------------
(* Steps that leave the subscriptions and their containers alone *)

LEMMA NewSessionStep ==
    ASSUME IInv, NEW s \in Sessions, NewSession(s)
    PROVE  IInv'
<1>1. TypeOK'
  <2>1. ses[s] \in Session /\ stamp + 1 \in Nat
    BY DEF IInv, TypeOK
  <2>2. [ses[s] EXCEPT !.st = "live", !.at = stamp + 1] \in Session
    BY <2>1 DEF Session
  <2>3. ses' = [ses EXCEPT ![s] = [ses[s] EXCEPT !.st = "live", !.at = stamp + 1]]
    BY DEF NewSession, IInv, TypeOK
  <2>4. ses' \in [Sessions -> Session]
    BY <2>2, <2>3 DEF IInv, TypeOK
  <2> QED BY <2>1, <2>4 DEF IInv, NewSession, TypeOK
<1>2. \A t \in Sessions : /\ ses'[t].created = ses[t].created
                          /\ ses'[t].asked = ses[t].asked
                          /\ ses'[t].deleted = ses[t].deleted
  BY DEF IInv, NewSession, TypeOK, Session
<1>3. \A r \in xacts : r.s \in Sessions
  BY DEF IInv, TypeOK, Request
<1>4. Contained'
  BY ContainersKept DEF IInv, NewSession
<1>5. Requested'
  BY <1>2, <1>3, FewerRequests DEF IInv, Requested, XactsSound, XactSound, NewSession
<1>6. UrlsOwned' /\ DeletedEmpty'
  BY <1>2, ServersKept, EmptyKept DEF IInv, NewSession
<1>7. Told' /\ Faultless'
  BY DEF IInv, NewSession, Told, ToldToOwner, Faultless
<1> QED BY <1>1, <1>4, <1>5, <1>6, <1>7 DEF IInv

LEMMA DeleteSessionStep ==
    ASSUME Obedient, IInv, NEW s \in Sessions, DeleteSession(s)
    PROVE  IInv'
<1>1. TypeOK'
  BY DEF IInv, DeleteSession, TypeOK, Session
<1>2. \A t \in Sessions : /\ ses'[t].created = ses[t].created
                          /\ ses'[t].asked = ses[t].asked
                          /\ ses[t].deleted => ses'[t].deleted
                          /\ ses'[t].deleted => ses[t].deleted \/ t = s
  BY DEF IInv, DeleteSession, TypeOK, Session
<1>3. \A r \in xacts : r.s \in Sessions
  BY DEF IInv, TypeOK, Request
<1>4. Contained'
  BY ContainersKept DEF IInv, DeleteSession
<1>5. Requested'
  BY <1>2, <1>3, FewerRequests DEF IInv, Requested, XactsSound, XactSound, DeleteSession
<1>6. UrlsOwned'
  BY ServersKept DEF IInv, DeleteSession
<1>7. active[s] = {}
  BY DEF Obedient, DeleteSession
<1>8. DeletedEmpty'
  BY <1>2, <1>7 DEF IInv, DeletedEmpty, DeleteSession
<1>9. Told' /\ Faultless'
  BY DEF IInv, DeleteSession, Told, ToldToOwner, Faultless
<1> QED BY <1>1, <1>4, <1>5, <1>6, <1>8, <1>9 DEF IInv

(* Requests about a session alone. *)
LEMMA PushRemoveStep ==
    ASSUME IInv, NEW s \in Sessions, PushRemove(s)
    PROVE  IInv'
<1> DEFINE p == Plain("remove", s)
<1>1. p \in Request /\ p.kind = "remove" /\ p.s = s /\ p.sub = None
  BY PlainType
<1>2. xacts' = xacts \cup {p} /\ wire' = wire \cup {p}
  BY DEF PushRemove, Send
<1>3. TypeOK'
  BY <1>1, <1>2 DEF IInv, PushRemove, TypeOK
<1>4. Contained'
  BY ContainersKept DEF IInv, PushRemove
<1>5. XactsSound'
  <2>1. ses[s].deleted
    BY DEF PushRemove
  <2> HIDE DEF p
  <2> QED BY <1>1, <1>2, <2>1 DEF IInv, Requested, XactsSound, XactSound, PushRemove
<1>6. AskedOnce' /\ Counted'
  <2> HIDE DEF p
  <2> QED BY <1>1, <1>2 DEF IInv, Requested, AskedOnce, Counted, PushRemove
<1>7. UrlsOwned' /\ DeletedEmpty'
  BY ServersKept, EmptyKept DEF IInv, PushRemove
<1>8. Told' /\ Faultless'
  BY DEF IInv, PushRemove, Told, ToldToOwner, Faultless
<1> QED BY <1>3, <1>4, <1>5, <1>6, <1>7, <1>8 DEF IInv, Requested

LEMMA PushCreatePlainStep ==
    ASSUME IInv, NEW s \in Sessions, PushCreatePlain(s)
    PROVE  IInv'
<1> DEFINE p == Plain("session", s)
<1>1. p \in Request /\ p.kind = "session" /\ p.s = s /\ p.sub = None
  BY PlainType
<1>2. xacts' = xacts \cup {p} /\ wire' = wire \cup {p}
  BY DEF PushCreatePlain, Send
<1>3. TypeOK'
  BY <1>1, <1>2 DEF IInv, PushCreatePlain, TypeOK, Session
<1>4. /\ \A t \in Sessions : /\ ses'[t].created = ses[t].created
                             /\ ses[t].asked => ses'[t].asked
                             /\ ses'[t].deleted = ses[t].deleted
      /\ ses'[s].asked /\ ~ses[s].created /\ ~ses[s].asked
  BY DEF IInv, PushCreatePlain, TypeOK, Session
<1>5. \A r \in xacts : r.s \in Sessions
  BY DEF IInv, TypeOK, Request
<1>6. Contained'
  BY ContainersKept DEF IInv, PushCreatePlain
<1> HIDE DEF p
<1>7. XactsSound'
  BY <1>1, <1>2, <1>4, <1>5 DEF IInv, Requested, XactsSound, XactSound, PushCreatePlain
<1>8. AskedOnce'
  BY <1>1, <1>2, <1>4, <1>5 DEF IInv, Requested, XactsSound, XactSound, AskedOnce
<1>9. Counted'
  BY <1>1, <1>2 DEF IInv, Requested, Counted, PushCreatePlain
<1>10. UrlsOwned' /\ DeletedEmpty'
  BY <1>4, ServersKept, EmptyKept DEF IInv, PushCreatePlain
<1>11. Told' /\ Faultless'
  BY DEF IInv, PushCreatePlain, Told, ToldToOwner, Faultless
<1> QED BY <1>3, <1>6, <1>7, <1>8, <1>9, <1>10, <1>11 DEF IInv, Requested

-----------------------------------------------------------------------------
(* The MB-SMF *)

LEMMA ServeStep ==
    ASSUME IInv, NEW r \in wire, NEW ok \in BOOLEAN, Serve(r, ok)
    PROVE  IInv'
<1> DEFINE q == [rid |-> [sub |-> r.sub, n |-> r.n], cid |-> r.cid, url |-> r.url]
<1>1. r \in Request
  BY DEF IInv, TypeOK
<1>2. remote' \subseteq remote \cup (IF r.kind \in {"session", "create"} /\ r.sub # None
                                     THEN {q} ELSE {})
  BY DEF Serve
<1>3. r.sub # None => r.cid \in Cids /\ 1 <= r.n /\ (r.url # None => sub[r.sub].url = r.url)
  BY DEF IInv, Requested, Counted
<1>4. r.kind \in {"session", "create"} /\ r.sub # None => q.rid \in Rids
  BY <1>1, <1>3, SubsAssumption DEF Request, Rids
<1>5. r.kind \in {"session", "create"} /\ r.sub # None => q \in Resource
  BY <1>1, <1>3, <1>4 DEF Request, Resource
<1>6. TypeOK'
  BY <1>1, <1>2, <1>5 DEF IInv, TypeOK, Serve
<1>7. Contained'
  BY ContainersKept DEF IInv, Serve
<1>8. Requested'
  BY FewerRequests DEF IInv, Requested, XactsSound, XactSound, Serve
<1>9. UrlsOwned'
  <2>1. r.sub # None /\ q.url # None => sub[q.rid.sub].url = q.url
    BY <1>3
  <2> HIDE DEF q
  <2> QED BY <1>2, <2>1 DEF IInv, UrlsOwned, Serve
<1>10. DeletedEmpty'
  BY EmptyKept DEF IInv, Serve
<1>11. Told' /\ Faultless'
  BY DEF IInv, Serve, Told, ToldToOwner, Faultless
<1> QED BY <1>6, <1>7, <1>8, <1>9, <1>10, <1>11 DEF IInv

LEMMA PostNotificationStep ==
    ASSUME IInv, NEW q \in remote, NEW e \in Events, PostNotification(q, e)
    PROVE  IInv'
<1> DEFINE p == [rid |-> q.rid, url |-> q.url, event |-> e]
<1>1. q.rid \in Rids /\ q.url \in Urls /\ q.url # None
  BY SubsAssumption DEF IInv, TypeOK, Resource, PostNotification
<1>2. p \in [rid : Rids, url : Urls, event : Events]
  BY <1>1
<1>3. posted' = posted \cup {p}
  BY DEF PostNotification
<1>4. TypeOK'
  BY <1>2, <1>3 DEF IInv, TypeOK, PostNotification
<1>5. Contained'
  BY ContainersKept DEF IInv, PostNotification
<1>6. Requested'
  BY FewerRequests DEF IInv, Requested, XactsSound, XactSound, PostNotification
<1>7. UrlsOwned'
  <2>1. p.url # None /\ sub[p.rid.sub].url = p.url
    BY <1>1 DEF IInv, UrlsOwned
  <2> HIDE DEF p
  <2> QED BY <1>3, <2>1 DEF IInv, UrlsOwned, PostNotification
<1>8. DeletedEmpty'
  BY EmptyKept DEF IInv, PostNotification
<1>9. Told' /\ Faultless'
  BY DEF IInv, PostNotification, Told, ToldToOwner, Faultless
<1> QED BY <1>4, <1>5, <1>6, <1>7, <1>8, <1>9 DEF IInv

-----------------------------------------------------------------------------
(* Answers and time-outs that leave the subscriptions alone *)

LEMMA SessionRefusedStep ==
    ASSUME IInv, NEW a \in answers, SessionRefused(a)
    PROVE  IInv'
<1>1. a.req \in Request /\ a.req \in xacts /\ a.req.kind = "session"
  BY DEF IInv, TypeOK, SessionRefused
<1>2. a.req.s \in Sessions
  BY <1>1 DEF Request
<1>3. TypeOK'
  BY <1>2 DEF IInv, TypeOK, SessionRefused, Session
<1>4. /\ \A t \in Sessions : /\ ses'[t].created = ses[t].created
                             /\ t # a.req.s => ses'[t].asked = ses[t].asked
                             /\ ses'[t].deleted = ses[t].deleted
  BY <1>2 DEF IInv, TypeOK, SessionRefused, Session
<1>5. \A r \in xacts : r.s \in Sessions
  BY DEF IInv, TypeOK, Request
<1>6. \A r \in xacts \ {a.req} : r.kind = "session" => r.s # a.req.s
  BY <1>1 DEF IInv, Requested, AskedOnce
<1>7. Requested'
  BY <1>4, <1>5, <1>6, FewerRequests
     DEF IInv, Requested, XactsSound, XactSound, SessionRefused
<1>8. Contained' /\ UrlsOwned' /\ DeletedEmpty'
  BY <1>4, ContainersKept, ServersKept, EmptyKept DEF IInv, SessionRefused
<1>9. Told' /\ Faultless'
  BY DEF IInv, SessionRefused, Told, ToldToOwner, Faultless
<1> QED BY <1>3, <1>7, <1>8, <1>9 DEF IInv

LEMMA SubscriptionIgnoredStep ==
    ASSUME IInv, NEW a \in answers, SubscriptionIgnored(a)
    PROVE  IInv'
<1>1. TypeOK'
  BY DEF IInv, TypeOK, SubscriptionIgnored
<1>2. Requested'
  BY FewerRequests DEF IInv, Requested, XactsSound, XactSound, SubscriptionIgnored
<1>3. Contained' /\ UrlsOwned' /\ DeletedEmpty'
  BY ContainersKept, ServersKept, EmptyKept DEF IInv, SubscriptionIgnored
<1>4. Told' /\ Faultless'
  BY DEF IInv, SubscriptionIgnored, Told, ToldToOwner, Faultless
<1> QED BY <1>1, <1>2, <1>3, <1>4 DEF IInv

LEMMA TimedOutStep ==
    ASSUME IInv, NEW r \in xacts, TimedOut(r)
    PROVE  IInv'
<1>1. r \in Request /\ r.s \in Sessions
  BY DEF IInv, TypeOK, Request
<1>2. TypeOK'
  BY <1>1 DEF IInv, TypeOK, TimedOut, Session
<1>3. /\ \A t \in Sessions : /\ ses'[t].created = ses[t].created
                             /\ t # r.s \/ r.kind # "session" => ses'[t].asked = ses[t].asked
                             /\ ses'[t].deleted = ses[t].deleted
  BY <1>1 DEF IInv, TypeOK, TimedOut, Session
<1>4. \A t \in xacts : t.s \in Sessions
  BY DEF IInv, TypeOK, Request
<1>5. \A t \in xacts \ {r} : t.kind = "session" => t.s # r.s \/ r.kind # "session"
  BY DEF IInv, Requested, AskedOnce
<1>6. Requested'
  BY <1>3, <1>4, <1>5, FewerRequests DEF IInv, Requested, XactsSound, XactSound, TimedOut
<1>7. Contained' /\ UrlsOwned' /\ DeletedEmpty'
  BY <1>3, ContainersKept, ServersKept, EmptyKept DEF IInv, TimedOut
<1>8. Told' /\ Faultless'
  BY DEF IInv, TimedOut, Told, ToldToOwner, Faultless
<1> QED BY <1>2, <1>6, <1>7, <1>8 DEF IInv

-----------------------------------------------------------------------------
(* Notifications *)

LEMMA NotificationRefusedStep ==
    ASSUME IInv, NEW p \in posted, NotificationRefused(p)
    PROVE  IInv'
<1>1. TypeOK'
  BY DEF IInv, TypeOK, NotificationRefused
<1>2. Requested'
  BY FewerRequests DEF IInv, Requested, XactsSound, XactSound, NotificationRefused
<1>3. Contained' /\ UrlsOwned' /\ DeletedEmpty'
  BY ContainersKept, ServersKept, EmptyKept DEF IInv, NotificationRefused
<1>4. Told' /\ Faultless'
  BY DEF IInv, NotificationRefused, Told, ToldToOwner, Faultless
<1> QED BY <1>1, <1>2, <1>3, <1>4 DEF IInv

(* A report has the type of one. *)
LEMMA ReportType ==
    ASSUME NEW x \in Subs, NEW rid \in Rids, NEW e, Report(x, rid, e)
    PROVE  told' \in [sub : Subs, rid : Rids, held : BOOLEAN] \cup {None}
BY DEF Report

(* A subscription that a notification finds is held. *)
LEMMA FoundByUrl ==
    ASSUME TypeOK, Contained, NEW u, NEW x \in FindByUrl(u)
    PROVE  x \in Subs /\ x \in held /\ sub[x].url = u
BY FieldTypes DEF FindByUrl, Listening, Attached, Listed, Contained, Placed

LEMMA NotificationHandledStep ==
    ASSUME IInv, NEW p \in posted, NotificationHandled(p)
    PROVE  IInv'
<1>1. p.rid \in Rids /\ p.rid.sub \in Subs /\ p.url # None /\ sub[p.rid.sub].url = p.url
  BY DEF IInv, TypeOK, UrlsOwned, Rids
<1>2. \A s \in Listed : ~Dangling(s)
  BY NothingDangles DEF IInv, Listed
<1>3. CASE MeetsNoTable(p.url) \/ FindByUrl(p.url) = {}
  <2>1. told' = None /\ fault' \in {fault, "no table"}
    BY <1>2, <1>3 DEF NotificationHandled
  <2>2. TypeOK'
    BY <2>1 DEF IInv, TypeOK, NotificationHandled, Faults
  <2>3. Told' /\ Faultless'
    BY <2>1 DEF IInv, Told, ToldToOwner, Faultless
  <2> QED BY <2>2, <2>3, ContainersKept, FewerRequests, ServersKept, EmptyKept
          DEF IInv, Requested, XactsSound, XactSound, NotificationHandled
<1>4. CASE ~MeetsNoTable(p.url) /\ FindByUrl(p.url) # {}
  <2>1. PICK x \in FindByUrl(p.url) : Report(x, p.rid, p.event)
    BY <1>2, <1>4 DEF NotificationHandled
  <2>2. fault' = fault
    BY <1>2, <1>4 DEF NotificationHandled
  <2>3. x \in Subs /\ x \in held /\ sub[x].url = p.url
    BY FoundByUrl DEF IInv
  <2>4. TypeOK'
    BY <1>1, <2>1, <2>2, <2>3, ReportType DEF IInv, TypeOK, NotificationHandled
  <2>5. Fixed => x = p.rid.sub
    BY <1>1, <2>3 DEF IInv, UrlsOwned
  <2>6. Told' /\ Faultless'
    BY <2>1, <2>2, <2>3, <2>5 DEF IInv, Told, ToldToOwner, Faultless, Report
  <2>7. Contained' /\ Requested'
    BY ContainersKept, FewerRequests
       DEF IInv, Requested, XactsSound, XactSound, NotificationHandled
  <2>8. UrlsOwned' /\ DeletedEmpty'
    BY ServersKept, EmptyKept DEF IInv, NotificationHandled
  <2> QED BY <2>4, <2>6, <2>7, <2>8 DEF IInv
<1> QED BY <1>3, <1>4

-----------------------------------------------------------------------------
(* Steps that change one subscription *)

(* The transactions stay sound when one subscription changes that has none  *)
(* pending, and its deletion may be asked for.                              *)
LEMMA RequestsKept ==
    ASSUME TypeOK, Requested, NEW x \in Subs, ~Pending(x),
           NEW D, xacts' = xacts \cup D, wire' = wire \cup D,
           \A r \in D : /\ r.kind = "delete" /\ r.sub = x
                        /\ r.cid \in Cids /\ 1 <= r.n /\ r.n <= sub'[x].n
                        /\ r.url = sub'[x].url,
           \A y \in Subs \ {x} : sub'[y] = sub[y],
           sub'[x].url = sub[x].url,
           sub'[x].st # "freed" => sub[x].st # "freed",
           sub'[x].n \in {sub[x].n, sub[x].n + 1},
           \A s \in Sessions : /\ newl[s] \ {x} \subseteq newl'[s]
                               /\ ses'[s].asked = ses[s].asked
                               /\ ses'[s].created = ses[s].created
                               /\ ses'[s].deleted = ses[s].deleted
    PROVE  Requested'
<1>1. \A r \in xacts : r.s \in Sessions /\ r.sub \in Subs \cup {None}
  BY DEF TypeOK, Request
<1>2. \A r \in xacts : r.kind \in {"create", "session"} => r.sub # x
  BY DEF Pending
<1>3. XactsSound'
  <2> SUFFICES ASSUME NEW r \in xacts' PROVE XactSound(r)'
    BY DEF XactsSound
  <2>1. CASE r \in xacts
    <3>1. XactSound(r) /\ r.s \in Sessions /\ r.sub \in Subs \cup {None}
      BY <2>1, <1>1 DEF Requested, XactsSound
    <3>2. r.kind \in {"create", "session"} => r.sub # x
      BY <2>1, <1>2
    <3>3. r.kind \in {"create", "session"} /\ r.sub # None =>
              sub'[r.sub] = sub[r.sub] /\ (r.sub \in newl[r.s] => r.sub \in newl'[r.s])
      BY <3>1, <3>2
    <3> QED BY <3>1, <3>2, <3>3 DEF XactSound
  <2>2. CASE r \in D
    BY <2>2, SubsAssumption DEF XactSound
  <2> QED BY <2>1, <2>2
<1>4. AskedOnce'
  BY DEF Requested, AskedOnce
<1>5. Counted'
  <2> SUFFICES ASSUME NEW r \in (xacts \cup wire)', r.sub # None
               PROVE  /\ r.cid \in Cids /\ 1 <= r.n
                      /\ sub'[r.sub].st # "freed" => r.n <= sub'[r.sub].n
                      /\ r.url # None => sub'[r.sub].url = r.url
    BY DEF Counted
  <2>1. CASE r \in D
    BY <2>1
  <2>2. CASE r \notin D
    <3>1. r \in xacts \cup wire /\ r \in Request
      BY <2>2 DEF TypeOK
    <3>2. r.sub \in Subs /\ r.n \in Nat /\ sub[r.sub].n \in Nat
      BY <3>1, SubsAssumption, FieldTypes DEF Request, Subscription
    <3>3. /\ r.cid \in Cids /\ 1 <= r.n
          /\ sub[r.sub].st # "freed" => r.n <= sub[r.sub].n
          /\ r.url # None => sub[r.sub].url = r.url
      BY <3>1 DEF Requested, Counted
    <3>4. CASE r.sub = x
      BY <3>2, <3>3, <3>4
    <3>5. CASE r.sub # x
      <4>1. sub'[r.sub] = sub[r.sub]
        BY <3>2, <3>5
      <4> QED BY <3>3, <4>1
    <3> QED BY <3>4, <3>5
  <2> QED BY <2>1, <2>2
<1> QED BY <1>3, <1>4, <1>5 DEF Requested

LEMMA RequestsUntouched ==
    ASSUME TypeOK, Requested, NEW x \in Subs, ~Pending(x), xacts' = xacts, wire' = wire,
           \A y \in Subs \ {x} : sub'[y] = sub[y],
           sub'[x].url = sub[x].url,
           sub'[x].st # "freed" => sub[x].st # "freed",
           sub'[x].n = sub[x].n,
           \A s \in Sessions : newl[s] \ {x} \subseteq newl'[s],
           ses' = ses
    PROVE  Requested'
<1> DEFINE D == {}
<1>1. xacts' = xacts \cup D /\ wire' = wire \cup D
  OBVIOUS
<1>2. \A r \in D : /\ r.kind = "delete" /\ r.sub = x
                   /\ r.cid \in Cids /\ 1 <= r.n /\ r.n <= sub'[x].n
                   /\ r.url = sub'[x].url
  OBVIOUS
<1>3. sub'[x].n \in {sub[x].n, sub[x].n + 1}
  OBVIOUS
<1> HIDE DEF D
<1> QED BY <1>1, <1>2, <1>3, RequestsKept

(* The servers stay sound while no subscription gets one. *)
LEMMA ServersUntouched ==
    ASSUME TypeOK, UrlsOwned, remote' = remote, posted' = posted,
           \A y \in Subs : sub'[y].url = sub[y].url
    PROVE  UrlsOwned'
<1>1. \A q \in remote : q.rid.sub \in Subs
  BY DEF TypeOK, Resource, Rids
<1>2. \A p \in posted : p.rid.sub \in Subs
  BY DEF TypeOK, Rids
<1> QED BY <1>1, <1>2 DEF UrlsOwned

(* A subscription in no session has no creation pending. *)
LEMMA UnattachedNotPending ==
    ASSUME TypeOK, Contained, Requested, NEW x \in Subs, sub[x].session = None
    PROVE  ~Pending(x) /\ \A s \in Sessions : /\ x \notin newl[s] /\ x \notin dele[s]
                                              /\ \A e \in active[s] : e.sub # x
<1>1. \A s \in Sessions : /\ x \notin newl[s] /\ x \notin dele[s]
                          /\ \A e \in active[s] : e.sub # x
  <2> TAKE s \in Sessions
  <2>1. sub[x].session # s
    BY SubsAssumption
  <2>2. \A y \in newl[s] \cup dele[s] : sub[y].session = s
    BY DEF Contained, Placed
  <2>3. \A e \in active[s] : sub[e.sub].session = s
    BY DEF Contained, Placed
  <2> QED BY <2>1, <2>2, <2>3
<1>2. \A r \in xacts : r.s \in Sessions
  BY DEF TypeOK, Request
<1>3. ~Pending(x)
  BY <1>1, <1>2, SubsAssumption DEF Pending, Requested, XactsSound, XactSound
<1> QED BY <1>1, <1>3

LEMMA NewSubscriptionStep ==
    ASSUME Obedient, IInv, NEW x \in Subs, NewSubscription(x)
    PROVE  IInv'
<1>1. sub[x] \in Subscription /\ sub[x].st = "none" /\ sub[x].session = None /\ x \notin held
  BY FieldTypes DEF IInv, Contained, SubsSound, SubSound, NewSubscription
<1>2. /\ sub'[x] = [sub[x] EXCEPT !.st = "live"]
      /\ \A y \in Subs \ {x} : sub'[y] = sub[y]
  BY DEF NewSubscription, IInv, TypeOK
<1>3. /\ sub'[x] \in Subscription
      /\ sub'[x].st = "live" /\ sub'[x].session = None /\ sub'[x].id = sub[x].id
      /\ sub'[x].cid = sub[x].cid /\ sub'[x].url = sub[x].url /\ sub'[x].n = sub[x].n
  BY <1>1, <1>2 DEF Subscription
<1>4. TypeOK'
  BY <1>3 DEF IInv, TypeOK, NewSubscription
<1>5. ~Pending(x) /\ \A s \in Sessions : /\ x \notin newl[s] /\ x \notin dele[s]
                                         /\ \A e \in active[s] : e.sub # x
  BY <1>1, UnattachedNotPending DEF IInv
<1>6. SubsSound'
  BY <1>2, <1>3 DEF IInv, Contained, SubsSound, SubSound, NewSubscription
<1>7. Unique'
  BY <1>2, <1>3 DEF IInv, Contained, Unique, NewSubscription, Distinct, Obedient
<1>8. Placed' /\ Kept'
  <2>1. \A s \in Sessions : newl[s] \subseteq Subs /\ dele[s] \subseteq Subs
                            /\ \A e \in active[s] : e.sub \in Subs
    BY FieldTypes DEF IInv
  <2>2. Placed'
    BY <1>2, <1>5, <2>1 DEF IInv, Contained, Placed, NewSubscription
  <2>3. Kept'
    BY <1>2, <1>3, SubsAssumption DEF IInv, Contained, Kept, NewSubscription
  <2> QED BY <2>2, <2>3
<1>9. Requested'
  <2>1. xacts' = xacts /\ wire' = wire /\ ses' = ses /\ newl' = newl
    BY DEF NewSubscription
  <2>2. sub'[x].n \in {sub[x].n, sub[x].n + 1} /\ sub[x].st # "freed"
    BY <1>1, <1>3
  <2> QED BY <1>2, <1>3, <1>5, <2>1, <2>2, RequestsUntouched DEF IInv
<1>10. UrlsOwned' /\ DeletedEmpty'
  BY <1>2, <1>3, ServersUntouched, EmptyKept DEF IInv, NewSubscription
<1>11. Told' /\ Faultless'
  BY DEF IInv, NewSubscription, Told, ToldToOwner, Faultless
<1> QED BY <1>4, <1>6, <1>7, <1>8, <1>9, <1>10, <1>11 DEF IInv, Contained

(* The containers stay sound while sessions and ids stay. *)
LEMMA PlacesKept ==
    ASSUME TypeOK, Contained, UNCHANGED <<newl, active, dele, held>>,
           \A y \in Subs : sub'[y].session = sub[y].session /\ sub'[y].id = sub[y].id
    PROVE  Placed' /\ Kept'
<1>1. \A s \in Sessions : newl[s] \subseteq Subs /\ dele[s] \subseteq Subs
                          /\ \A e \in active[s] : e.sub \in Subs
  BY FieldTypes
<1>2. Placed'
  BY <1>1 DEF Contained, Placed
<1>3. Kept'
  BY DEF Contained, Kept
<1> QED BY <1>2, <1>3

LEMMA SetEventsStep ==
    ASSUME Obedient, IInv, NEW x \in Subs, NEW ev \in SUBSET Events, SetEvents(x, ev)
    PROVE  IInv'
<1>1. sub[x] \in Subscription /\ ~Pending(x)
  BY FieldTypes DEF IInv, SetEvents, Settled, Obedient
<1>2. /\ sub'[x] = [sub[x] EXCEPT !.flags = ev, !.changed = TRUE]
      /\ \A y \in Subs \ {x} : sub'[y] = sub[y]
  BY DEF SetEvents, IInv, TypeOK
<1>3. /\ sub'[x] \in Subscription
      /\ sub'[x].st = sub[x].st /\ sub'[x].session = sub[x].session /\ sub'[x].id = sub[x].id
      /\ sub'[x].cid = sub[x].cid /\ sub'[x].url = sub[x].url /\ sub'[x].n = sub[x].n
  BY <1>1, <1>2 DEF Subscription
<1>4. TypeOK'
  BY <1>3 DEF IInv, TypeOK, SetEvents
<1>5. SubsSound' /\ Unique'
  <2>1. \A y \in Subs : /\ sub'[y].st = sub[y].st /\ sub'[y].session = sub[y].session
                        /\ sub'[y].id = sub[y].id /\ sub'[y].cid = sub[y].cid
    BY <1>2, <1>3
  <2>2. held' = held
    BY DEF SetEvents
  <2> QED BY <2>1, <2>2 DEF IInv, Contained, SubsSound, SubSound, Unique
<1>6. Placed' /\ Kept'
  BY <1>2, <1>3, PlacesKept DEF IInv, SetEvents
<1>7. Requested'
  BY <1>1, <1>2, <1>3, RequestsUntouched DEF IInv, SetEvents
<1>8. UrlsOwned' /\ DeletedEmpty'
  BY <1>2, <1>3, ServersUntouched, EmptyKept DEF IInv, SetEvents
<1>9. Told' /\ Faultless'
  BY DEF IInv, SetEvents, Told, ToldToOwner, Faultless
<1> QED BY <1>4, <1>5, <1>6, <1>7, <1>8, <1>9 DEF IInv, Contained

LEMMA SetCorrelationIdStep ==
    ASSUME Obedient, IInv, NEW x \in Subs, NEW c \in Cids, SetCorrelationId(x, c)
    PROVE  IInv'
<1>1. sub[x] \in Subscription /\ ~Pending(x)
  BY FieldTypes DEF IInv, SetCorrelationId, Settled, Obedient
<1>2. /\ sub'[x] = [sub[x] EXCEPT !.cid = c, !.changed = TRUE]
      /\ \A y \in Subs \ {x} : sub'[y] = sub[y]
  BY DEF SetCorrelationId, IInv, TypeOK
<1>3. /\ sub'[x] \in Subscription
      /\ sub'[x].st = sub[x].st /\ sub'[x].session = sub[x].session /\ sub'[x].id = sub[x].id
      /\ sub'[x].cid = c /\ sub'[x].url = sub[x].url /\ sub'[x].n = sub[x].n
  BY <1>1, <1>2 DEF Subscription
<1>4. TypeOK'
  BY <1>3 DEF IInv, TypeOK, SetCorrelationId
<1>5. SubsSound'
  <2>1. \A y \in Subs : /\ sub'[y].st = sub[y].st /\ sub'[y].session = sub[y].session
                        /\ sub'[y].id = sub[y].id
    BY <1>2, <1>3
  <2>2. held' = held
    BY DEF SetCorrelationId
  <2> QED BY <2>1, <2>2 DEF IInv, Contained, SubsSound, SubSound
<1>6. Unique'
  <2>1. \A y \in Subs \ {x} : sub[y].st = "live" => sub[y].cid # c
    BY DEF SetCorrelationId, Distinct, Obedient
  <2>2. \A y \in Subs : sub'[y].st = sub[y].st /\ (y # x => sub'[y].cid = sub[y].cid)
    BY <1>2, <1>3
  <2> QED BY <1>3, <2>1, <2>2 DEF IInv, Contained, Unique
<1>7. Placed' /\ Kept'
  BY <1>2, <1>3, PlacesKept DEF IInv, SetCorrelationId
<1>8. Requested'
  BY <1>1, <1>2, <1>3, RequestsUntouched DEF IInv, SetCorrelationId
<1>9. UrlsOwned' /\ DeletedEmpty'
  BY <1>2, <1>3, ServersUntouched, EmptyKept DEF IInv, SetCorrelationId
<1>10. Told' /\ Faultless'
  BY DEF IInv, SetCorrelationId, Told, ToldToOwner, Faultless
<1> QED BY <1>4, <1>5, <1>6, <1>7, <1>8, <1>9, <1>10 DEF IInv, Contained

LEMMA DeleteUnattachedStep ==
    ASSUME IInv, NEW x \in Subs, DeleteUnattached(x)
    PROVE  IInv'
<1>1. /\ sub[x] \in Subscription /\ sub[x].session = None
      /\ sub[x].id = None
  BY FieldTypes DEF IInv, Contained, SubsSound, SubSound, DeleteUnattached
<1>2. ~Pending(x) /\ \A s \in Sessions : /\ x \notin newl[s] /\ x \notin dele[s]
                                         /\ \A e \in active[s] : e.sub # x
  BY <1>1, UnattachedNotPending DEF IInv
<1>3. sub'[x] = Freed(x) /\ \A y \in Subs \ {x} : sub'[y] = sub[y]
  BY DEF DeleteUnattached, IInv, TypeOK
<1>4. /\ sub'[x] \in Subscription /\ sub'[x].st = "freed"
      /\ sub'[x].session = None /\ sub'[x].id = None
      /\ sub'[x].cid = sub[x].cid /\ sub'[x].url = sub[x].url /\ sub'[x].n = sub[x].n
  BY <1>1, <1>3, FreedFields
<1>5. TypeOK'
  BY <1>4 DEF IInv, TypeOK, DeleteUnattached
<1>6. SubsSound' /\ Unique'
  BY <1>3, <1>4 DEF IInv, Contained, SubsSound, SubSound, Unique, DeleteUnattached
<1>7. Placed'
  <2>1. \A s \in Sessions : newl[s] \subseteq Subs \ {x} /\ dele[s] \subseteq Subs \ {x}
                            /\ \A e \in active[s] : e.sub \in Subs \ {x}
    BY <1>2, FieldTypes DEF IInv
  <2>2. UNCHANGED <<newl, active, dele>> /\ held' = held \ {x}
    BY DEF DeleteUnattached
  <2> QED BY <1>3, <2>1, <2>2 DEF IInv, Contained, Placed
<1>8. Kept'
  BY <1>1, <1>3, <1>4 DEF IInv, Contained, Kept, DeleteUnattached
<1>9. Requested'
  BY <1>2, <1>3, <1>4, RequestsUntouched DEF IInv, DeleteUnattached
<1>10. UrlsOwned' /\ DeletedEmpty'
  BY <1>3, <1>4, ServersUntouched, EmptyKept DEF IInv, DeleteUnattached
<1>11. Told' /\ Faultless'
  BY DEF IInv, DeleteUnattached, Told, ToldToOwner, Faultless
<1> QED BY <1>5, <1>6, <1>7, <1>8, <1>9, <1>10, <1>11 DEF IInv, Contained

(* Where an active subscription is that the application holds: in the table *)
(* of its session only, under its id, and no other entry has that key.      *)
LEMMA ActiveOne ==
    ASSUME TypeOK, Contained, NEW x \in Subs, x \in held, sub[x].id # None
    PROVE  /\ sub[x].session \in Sessions
           /\ \A t \in Sessions :
                 /\ x \notin newl[t] /\ x \notin dele[t]
                 /\ \A e \in active[t] : e.sub = x <=> e.key = sub[x].id
<1>1. sub[x].session \in Sessions
  BY FieldTypes DEF Subscription, Contained, SubsSound, SubSound
<1>2. ASSUME NEW t \in Sessions PROVE x \notin newl[t] /\ x \notin dele[t]
  BY DEF Contained, Placed
<1>3. ASSUME NEW t \in Sessions, NEW e \in active[t]
      PROVE  e.sub = x <=> e.key = sub[x].id
  <2>1. e.sub = x => e.key = sub[x].id
    BY DEF Contained, Placed
  <2>2. e.key = sub[x].id => e.sub = x
    BY KeyOfOne
  <2> QED BY <2>1, <2>2
<1> QED BY <1>1, <1>2, <1>3

LEMMA AddSubscriptionStep ==
    ASSUME Obedient, IInv, NEW s \in Sessions, NEW x \in Subs, AddSubscription(s, x)
    PROVE  IInv'
<1> DEFINE old == sub[x].session
           D == IF sub[x].id # None THEN {About("delete", old, x)} ELSE {}
<1>1. /\ sub[x] \in Subscription /\ sub[x].n \in Nat /\ sub[x].st = "live" /\ x \in held
      /\ ~Pending(x)
      /\ sub[x].id = None => sub[x].session = None
  <2>1. sub[x] \in Subscription /\ sub[x].n \in Nat
    BY FieldTypes, SubsAssumption DEF IInv, Subscription
  <2>2. x \in held /\ ~Pending(x) /\ (sub[x].id = None => sub[x].session = None)
    BY DEF AddSubscription, Settled, Obedient
  <2>3. sub[x].st = "live"
    BY <2>2 DEF IInv, Contained, SubsSound, SubSound
  <2> QED BY <2>1, <2>2, <2>3
<1>2. \A t \in Sessions : /\ x \notin newl[t] /\ x \notin dele[t]
                          /\ \A e \in active[t] : e.sub = x <=> e.key = sub[x].id
  <2>1. CASE sub[x].id # None
    BY <1>1, <2>1, ActiveOne DEF IInv
  <2>2. CASE sub[x].id = None
    <3>1. \A t \in Sessions : x \notin newl[t] /\ x \notin dele[t]
                              /\ \A e \in active[t] : e.sub # x
      BY <1>1, <2>2, UnattachedNotPending DEF IInv
    <3>2. \A t \in Sessions : \A e \in active[t] : e.key # sub[x].id
      BY <2>2, FieldTypes, SubsAssumption DEF IInv
    <3> QED BY <3>1, <3>2
  <2> QED BY <2>1, <2>2
<1>3. sub[x].id # None => old \in Sessions /\ sub[x].n < MaxReq
  BY <1>1, ActiveOne DEF IInv, AddSubscription
<1>4. xacts' = xacts \cup D /\ wire' = wire \cup D
  BY DEF AddSubscription, Send
<1>5. /\ \A y \in Subs \ {x} : sub'[y] = sub[y]
      /\ sub'[x] = IF sub[x].id # None
                   THEN [sub[x] EXCEPT !.id = None, !.session = s, !.changed = TRUE,
                                       !.n = sub[x].n + 1, !.at = stamp + 1]
                   ELSE [sub[x] EXCEPT !.session = s, !.changed = TRUE, !.at = stamp + 1]
      /\ sub' = [sub EXCEPT ![x] = sub'[x]]
  BY DEF AddSubscription, IInv, TypeOK
<1>6. /\ sub'[x].st = sub[x].st /\ sub'[x].session = s /\ sub'[x].id = None
      /\ sub'[x].cid = sub[x].cid /\ sub'[x].url = sub[x].url
      /\ sub'[x].n = IF sub[x].id # None THEN sub[x].n + 1 ELSE sub[x].n
  BY <1>1, <1>5 DEF Subscription
<1>7. sub'[x] \in Subscription
  <2>1. stamp + 1 \in Nat
    BY DEF IInv, TypeOK
  <2>2. CASE sub[x].id # None
    <3>1. sub[x].n + 1 \in 0 .. MaxReq
      BY <1>1, <1>3, <2>2, SubsAssumption
    <3>2. sub'[x] = [sub[x] EXCEPT !.id = None, !.session = s, !.changed = TRUE,
                                   !.n = sub[x].n + 1, !.at = stamp + 1]
      BY <1>5, <2>2
    <3> QED BY <1>1, <2>1, <3>1, <3>2 DEF Subscription
  <2>3. CASE sub[x].id = None
    <3>1. sub'[x] = [sub[x] EXCEPT !.session = s, !.changed = TRUE, !.at = stamp + 1]
      BY <1>5, <2>3
    <3> QED BY <1>1, <2>1, <3>1 DEF Subscription
  <2> QED BY <2>2, <2>3
<1>8. D \subseteq Request /\ \A r \in D : /\ r.kind = "delete" /\ r.sub = x
                   /\ r.cid \in Cids /\ 1 <= r.n /\ r.n <= sub'[x].n
                   /\ r.url = sub'[x].url
  BY <1>1, <1>3, <1>6, AboutType, AboutFields DEF Subscription
<1> HIDE DEF D
<1>9. \A t \in Sessions : \A e : e \in active'[t] <=> e \in active[t] /\ e.sub # x
  <2>1. CASE sub[x].id # None
    <3>1. \A t \in Sessions \ {old} : active'[t] = active[t]
      BY <2>1 DEF AddSubscription, IInv, TypeOK
    <3>2. active'[old] = TableWithout(old, sub[x].id)
      BY <1>3, <2>1 DEF AddSubscription, IInv, TypeOK
    <3>3. \A e : e \in active'[old] <=> e \in active[old] /\ e.sub # x
      BY <1>2, <1>3, <2>1, <3>2 DEF TableWithout
    <3>4. \A t \in Sessions : \A e \in active[t] : e.sub = x => t = old
      BY DEF IInv, Contained, Placed
    <3> QED BY <3>1, <3>3, <3>4
  <2>2. CASE sub[x].id = None
    <3>1. active' = active
      BY <2>2 DEF AddSubscription
    <3>2. \A t \in Sessions : \A e \in active[t] : e.sub # x
      BY <1>1, <2>2, UnattachedNotPending DEF IInv
    <3> QED BY <3>1, <3>2
  <2> QED BY <2>1, <2>2
<1>10. /\ newl' = [newl EXCEPT ![s] = newl[s] \cup {x}]
       /\ UNCHANGED <<dele, answers, remote, posted, held>>
       /\ told' = None /\ fault' = fault
       /\ ses' = [ses EXCEPT ![s].table = TRUE] /\ stamp' = stamp + 1
  BY <1>2 DEF AddSubscription
<1>11. \A t \in Sessions : newl'[t] = IF t = s THEN newl[t] \cup {x} ELSE newl[t]
  BY <1>10 DEF IInv, TypeOK
<1>12. TypeOK'
  <2>1. ses' \in [Sessions -> Session]
    BY <1>10 DEF IInv, TypeOK, Session
  <2>2. active' \in [Sessions -> SUBSET [key : Rids, sub : Subs]]
    <3>1. active' \in [Sessions -> SUBSET [key : Rids, sub : Subs]]
             \/ active' = active
      <4>1. \A t \in Sessions : active'[t] \subseteq [key : Rids, sub : Subs]
        BY <1>9, FieldTypes DEF IInv
      <4>2. DOMAIN active' = Sessions /\ active' = [t \in Sessions |-> active'[t]]
        BY DEF AddSubscription, IInv, TypeOK
      <4> QED BY <4>1, <4>2
    <3> QED BY <3>1 DEF IInv, TypeOK
  <2>3. sub' \in [Subs -> Subscription]
    BY <1>5, <1>7 DEF IInv, TypeOK
  <2> QED BY <1>4, <1>8, <1>10, <2>1, <2>2, <2>3 DEF IInv, TypeOK
<1>13. SubsSound'
  <2> SUFFICES ASSUME NEW y \in Subs PROVE SubSound(y)'
    BY DEF SubsSound
  <2>1. CASE y = x
    BY <2>1, <1>1, <1>6, <1>10, SubsAssumption DEF SubSound
  <2>2. CASE y # x
    BY <2>2, <1>5, <1>10 DEF IInv, Contained, SubsSound, SubSound
  <2> QED BY <2>1, <2>2
<1>14. Unique'
  <2>1. \A y \in Subs : sub'[y].st = sub[y].st /\ sub'[y].cid = sub[y].cid
    BY <1>5, <1>6
  <2> QED BY <2>1 DEF IInv, Contained, Unique
<1>15. Placed'
  <2> SUFFICES ASSUME NEW t \in Sessions
               PROVE  /\ \A y \in newl'[t] : /\ sub'[y].session = t /\ sub'[y].id = None
                                             /\ y \in held
                      /\ \A e \in active'[t] : /\ sub'[e.sub].session = t
                                               /\ sub'[e.sub].id = e.key
                                               /\ e.sub \in held
                      /\ \A y \in dele[t] : /\ sub'[y].session = t /\ sub'[y].id # None
                                            /\ y \notin held
    BY <1>10 DEF Placed
  <2>1. newl[t] \subseteq Subs \ {x} /\ dele[t] \subseteq Subs \ {x}
    BY <1>2, FieldTypes DEF IInv
  <2>2. \A y \in newl'[t] : sub'[y].session = t /\ sub'[y].id = None /\ y \in held
    <3>1. ASSUME NEW y \in newl[t]
          PROVE  sub'[y].session = t /\ sub'[y].id = None /\ y \in held
      BY <1>5, <2>1 DEF IInv, Contained, Placed
    <3>2. x \in newl'[t] => t = s
      BY <1>11, <2>1
    <3> QED BY <1>1, <1>6, <1>11, <3>1, <3>2
  <2>3. \A e \in active'[t] : e \in active[t] /\ e.sub \in Subs \ {x}
    BY <1>9, FieldTypes DEF IInv
  <2>4. \A e \in active'[t] : sub'[e.sub].session = t /\ sub'[e.sub].id = e.key /\ e.sub \in held
    BY <1>5, <2>3 DEF IInv, Contained, Placed
  <2>5. \A y \in dele[t] : sub'[y].session = t /\ sub'[y].id # None /\ y \notin held
    BY <1>5, <2>1 DEF IInv, Contained, Placed
  <2> QED BY <2>2, <2>4, <2>5
<1>16. Kept'
  <2> SUFFICES ASSUME NEW y \in Subs, NEW t \in Sessions, sub'[y].session = t
               PROVE  \/ y \in newl'[t]
                      \/ y \in dele[t]
                      \/ [key |-> sub'[y].id, sub |-> y] \in active'[t]
    BY <1>10 DEF Kept
  <2>1. CASE y = x
    BY <2>1, <1>6, <1>11
  <2>2. CASE y # x
    <3>1. sub'[y] = sub[y]
      BY <1>5, <2>2
    <3>2. \/ y \in newl[t]
          \/ y \in dele[t]
          \/ [key |-> sub[y].id, sub |-> y] \in active[t]
      BY <3>1 DEF IInv, Contained, Kept
    <3>3. [key |-> sub[y].id, sub |-> y].sub # x
      BY <2>2
    <3> QED BY <1>9, <1>11, <3>1, <3>2, <3>3
  <2> QED BY <2>1, <2>2
<1>17. \A t \in Sessions : /\ newl[t] \ {x} \subseteq newl'[t]
                           /\ ses'[t].asked = ses[t].asked
                           /\ ses'[t].created = ses[t].created
                           /\ ses'[t].deleted = ses[t].deleted
  BY <1>10, <1>11 DEF IInv, TypeOK, Session
<1>18. Requested'
  <2>1. sub'[x].n \in {sub[x].n, sub[x].n + 1} /\ sub[x].st # "freed"
    BY <1>1, <1>6
  <2>2. /\ TypeOK /\ Requested /\ ~Pending(x)
        /\ \A y \in Subs \ {x} : sub'[y] = sub[y]
        /\ sub'[x].url = sub[x].url
        /\ sub'[x].st # "freed" => sub[x].st # "freed"
    BY <1>1, <1>5, <1>6 DEF IInv
  <2>3. \A r \in D : /\ r.kind = "delete" /\ r.sub = x
                     /\ r.cid \in Cids /\ 1 <= r.n /\ r.n <= sub'[x].n
                     /\ r.url = sub'[x].url
    BY <1>8
  <2> QED BY <1>4, <1>17, <2>1, <2>2, <2>3, RequestsKept
<1>19. UrlsOwned'
  BY <1>5, <1>6, <1>10, ServersUntouched DEF IInv
<1>20. DeletedEmpty'
  BY <1>9, <1>17, EmptyKept DEF IInv
<1>21. Told' /\ Faultless'
  BY <1>10 DEF IInv, Told, ToldToOwner, Faultless
<1> QED BY <1>12, <1>13, <1>14, <1>15, <1>16, <1>18, <1>19, <1>20, <1>21 DEF IInv, Contained

LEMMA RemoveActiveStep ==
    ASSUME Obedient, IInv, NEW x \in Subs, RemoveSubscription(x), sub[x].id # None
    PROVE  IInv'
<1> DEFINE s == sub[x].session
<1>1. sub[x] \in Subscription /\ x \in held /\ ~Pending(x)
  BY FieldTypes DEF IInv, RemoveSubscription, Settled, Obedient
<1>2. /\ s \in Sessions
      /\ \A t \in Sessions : /\ x \notin newl[t] /\ x \notin dele[t]
                             /\ \A e \in active[t] : e.sub = x <=> e.key = sub[x].id
  BY <1>1, ActiveOne DEF IInv
<1>3. /\ sub' = [sub EXCEPT ![x].changed = TRUE]
      /\ active' = [active EXCEPT ![s] = TableWithout(s, sub[x].id)]
      /\ dele' = [dele EXCEPT ![s] = dele[s] \cup {x}]
      /\ held' = held \ {x}
      /\ UNCHANGED <<ses, newl, xacts, wire, answers, remote, posted, stamp, fault>>
      /\ told' = None
  BY DEF RemoveSubscription
<1>4. /\ \A y \in Subs \ {x} : sub'[y] = sub[y]
      /\ sub'[x] = [sub[x] EXCEPT !.changed = TRUE]
  BY <1>3 DEF IInv, TypeOK
<1>5. /\ sub'[x] \in Subscription
      /\ sub'[x].st = sub[x].st /\ sub'[x].session = sub[x].session /\ sub'[x].id = sub[x].id
      /\ sub'[x].cid = sub[x].cid /\ sub'[x].url = sub[x].url /\ sub'[x].n = sub[x].n
  BY <1>1, <1>4 DEF Subscription
<1>6. \A t \in Sessions : \A e : e \in active'[t] <=> e \in active[t] /\ e.sub # x
  <2>1. \A t \in Sessions \ {s} : active'[t] = active[t]
    BY <1>3 DEF IInv, TypeOK
  <2>2. active'[s] = TableWithout(s, sub[x].id)
    BY <1>2, <1>3 DEF IInv, TypeOK
  <2>3. \A e : e \in active'[s] <=> e \in active[s] /\ e.sub # x
    BY <1>2, <2>2 DEF TableWithout
  <2>4. \A t \in Sessions : \A e \in active[t] : e.sub = x => t = s
    BY DEF IInv, Contained, Placed
  <2> QED BY <2>1, <2>3, <2>4
<1>7. \A t \in Sessions : dele'[t] = IF t = s THEN dele[t] \cup {x} ELSE dele[t]
  BY <1>3 DEF IInv, TypeOK
<1>8. TypeOK'
  <2>1. TableWithout(s, sub[x].id) \subseteq [key : Rids, sub : Subs]
    BY <1>2, FieldTypes DEF IInv, TableWithout
  <2>2. active' \in [Sessions -> SUBSET [key : Rids, sub : Subs]]
    BY <1>3, <2>1 DEF IInv, TypeOK
  <2>3. sub' \in [Subs -> Subscription]
    BY <1>3, <1>5, <1>4 DEF IInv, TypeOK
  <2>4. dele' \in [Sessions -> SUBSET Subs]
    BY <1>2, <1>3 DEF IInv, TypeOK
  <2> QED BY <1>3, <2>2, <2>3, <2>4 DEF IInv, TypeOK
<1> HIDE DEF s
<1>9. \A y \in Subs : /\ sub'[y].st = sub[y].st /\ sub'[y].session = sub[y].session
                      /\ sub'[y].id = sub[y].id /\ sub'[y].cid = sub[y].cid
                      /\ sub'[y].url = sub[y].url
  BY <1>4, <1>5
<1>10. SubsSound' /\ Unique'
  BY <1>3, <1>9 DEF IInv, Contained, SubsSound, SubSound, Unique
<1>11. Placed'
  <2> SUFFICES ASSUME NEW t \in Sessions
               PROVE  /\ \A y \in newl[t] : /\ sub'[y].session = t /\ sub'[y].id = None
                                            /\ y \in held \ {x}
                      /\ \A e \in active'[t] : /\ sub'[e.sub].session = t
                                               /\ sub'[e.sub].id = e.key
                                               /\ e.sub \in held \ {x}
                      /\ \A y \in dele'[t] : /\ sub'[y].session = t /\ sub'[y].id # None
                                             /\ y \notin held \ {x}
    BY <1>3 DEF Placed
  <2>1. newl[t] \subseteq Subs \ {x} /\ dele[t] \subseteq Subs \ {x}
    BY <1>2, FieldTypes DEF IInv
  <2>2. \A y \in newl[t] : sub'[y].session = t /\ sub'[y].id = None /\ y \in held \ {x}
    BY <1>9, <2>1 DEF IInv, Contained, Placed
  <2>3. \A e \in active'[t] : e \in active[t] /\ e.sub \in Subs \ {x}
    BY <1>6, FieldTypes DEF IInv
  <2>4. \A e \in active'[t] : /\ sub'[e.sub].session = t /\ sub'[e.sub].id = e.key
                              /\ e.sub \in held \ {x}
    BY <1>9, <2>3 DEF IInv, Contained, Placed
  <2>5. ASSUME NEW y \in dele[t]
        PROVE  sub'[y].session = t /\ sub'[y].id # None /\ y \notin held \ {x}
    BY <1>9, <2>1 DEF IInv, Contained, Placed
  <2>6. t = s => sub'[x].session = t /\ sub'[x].id # None
    BY <1>5 DEF s
  <2>7. ASSUME NEW y \in dele'[t]
        PROVE  sub'[y].session = t /\ sub'[y].id # None /\ y \notin held \ {x}
    <3>1. y \in dele[t] \/ (t = s /\ y = x)
      BY <1>7
    <3> QED BY <2>5, <2>6, <3>1
  <2> QED BY <2>2, <2>4, <2>7
<1>12. Kept'
  <2> SUFFICES ASSUME NEW y \in Subs, NEW t \in Sessions, sub'[y].session = t
               PROVE  \/ y \in newl[t]
                      \/ y \in dele'[t]
                      \/ [key |-> sub'[y].id, sub |-> y] \in active'[t]
    BY <1>3 DEF Kept
  <2>1. CASE y = x
    <3>1. t = s
      BY <1>5, <2>1 DEF s
    <3> QED BY <1>7, <2>1, <3>1
  <2>2. CASE y # x
    <3>1. \/ y \in newl[t]
          \/ y \in dele[t]
          \/ [key |-> sub[y].id, sub |-> y] \in active[t]
      BY <1>9 DEF IInv, Contained, Kept
    <3>2. [key |-> sub[y].id, sub |-> y].sub # x
      BY <2>2
    <3> QED BY <1>6, <1>7, <1>9, <3>1, <3>2
  <2> QED BY <2>1, <2>2
<1>13. Requested'
  BY <1>1, <1>3, <1>4, <1>5, RequestsUntouched DEF IInv
<1>14. UrlsOwned' /\ DeletedEmpty'
  BY <1>3, <1>6, <1>9, ServersUntouched, EmptyKept DEF IInv
<1>15. Told' /\ Faultless'
  BY <1>3 DEF IInv, Told, ToldToOwner, Faultless
<1> QED BY <1>8, <1>10, <1>11, <1>12, <1>13, <1>14, <1>15 DEF IInv, Contained

(* An attached subscription without an id is on the list of new ones of its *)
(* session and in no other container.                                       *)
LEMMA NewOne ==
    ASSUME TypeOK, Contained, NEW x \in Subs, x \in held, sub[x].id = None,
           sub[x].session # None
    PROVE  /\ sub[x].session \in Sessions
           /\ x \in newl[sub[x].session]
           /\ \A t \in Sessions : /\ x \in newl[t] => t = sub[x].session
                                  /\ x \notin dele[t]
                                  /\ \A e \in active[t] : e.sub # x
<1> DEFINE s == sub[x].session
<1>1. s \in Sessions
  BY FieldTypes DEF Subscription
<1>2. ASSUME NEW t \in Sessions
      PROVE  /\ x \in newl[t] => t = s
             /\ x \notin dele[t]
             /\ \A e \in active[t] : e.sub # x
  <2>1. (x \in newl[t] => t = s) /\ x \notin dele[t]
    BY DEF Contained, Placed
  <2>2. ASSUME NEW e \in active[t], e.sub = x PROVE FALSE
    <3>1. sub[e.sub].id = e.key
      BY DEF Contained, Placed
    <3>2. e.key \in Rids
      BY FieldTypes
    <3> QED BY <2>2, <3>1, <3>2, SubsAssumption
  <2> QED BY <2>1, <2>2
<1>3. \/ x \in newl[s]
      \/ x \in dele[s]
      \/ [key |-> sub[x].id, sub |-> x] \in active[s]
  BY <1>1 DEF Contained, Kept
<1>4. [key |-> sub[x].id, sub |-> x].sub = x
  OBVIOUS
<1> QED BY <1>1, <1>2, <1>3, <1>4

LEMMA RemoveNewStep ==
    ASSUME Obedient, IInv, NEW x \in Subs, RemoveSubscription(x), sub[x].id = None
    PROVE  IInv'
<1> DEFINE s == sub[x].session
<1>1. sub[x] \in Subscription /\ x \in held /\ ~Pending(x) /\ s # None
  BY FieldTypes DEF IInv, RemoveSubscription, Settled, Obedient
<1>2. /\ s \in Sessions /\ x \in newl[s]
      /\ \A t \in Sessions : /\ x \in newl[t] => t = s
                             /\ x \notin dele[t]
                             /\ \A e \in active[t] : e.sub # x
  BY <1>1, NewOne DEF IInv
<1>3. /\ sub' = [sub EXCEPT ![x] = Freed(x)]
      /\ newl' = [newl EXCEPT ![s] = newl[s] \ {x}]
      /\ held' = held \ {x}
      /\ UNCHANGED <<ses, active, dele, xacts, wire, answers, remote, posted, stamp, fault>>
      /\ told' = None
  BY DEF RemoveSubscription
<1>4. sub'[x] = Freed(x) /\ \A y \in Subs \ {x} : sub'[y] = sub[y]
  BY <1>3 DEF IInv, TypeOK
<1>5. /\ sub'[x] \in Subscription /\ sub'[x].st = "freed"
      /\ sub'[x].session = None /\ sub'[x].id = None
      /\ sub'[x].cid = sub[x].cid /\ sub'[x].url = sub[x].url /\ sub'[x].n = sub[x].n
  BY <1>1, <1>4, FreedFields
<1>6. \A t \in Sessions : newl'[t] = newl[t] \ {x}
  <2>1. \A t \in Sessions : newl'[t] = IF t = s THEN newl[t] \ {x} ELSE newl[t]
    BY <1>3 DEF IInv, TypeOK
  <2> QED BY <1>2, <2>1
<1>7. TypeOK'
  <2>1. newl' \in [Sessions -> SUBSET Subs]
    BY <1>2, <1>3 DEF IInv, TypeOK
  <2>2. sub' \in [Subs -> Subscription]
    BY <1>3, <1>5, <1>4 DEF IInv, TypeOK
  <2> QED BY <1>3, <2>1, <2>2 DEF IInv, TypeOK
<1> HIDE DEF s
<1>8. SubsSound'
  <2> SUFFICES ASSUME NEW y \in Subs PROVE SubSound(y)'
    BY DEF SubsSound
  <2>1. CASE y = x
    BY <2>1, <1>3, <1>5 DEF SubSound
  <2>2. CASE y # x
    BY <2>2, <1>3, <1>4 DEF IInv, Contained, SubsSound, SubSound
  <2> QED BY <2>1, <2>2
<1>9. Unique'
  BY <1>4, <1>5 DEF IInv, Contained, Unique
<1>10. Placed'
  <2>1. \A t \in Sessions : /\ newl'[t] \subseteq Subs \ {x} /\ newl'[t] \subseteq newl[t]
                            /\ dele[t] \subseteq Subs \ {x}
                            /\ \A e \in active[t] : e.sub \in Subs \ {x}
    BY <1>2, <1>6, FieldTypes DEF IInv
  <2> QED BY <1>3, <1>4, <2>1 DEF IInv, Contained, Placed
<1>11. Kept'
  <2> SUFFICES ASSUME NEW y \in Subs, NEW t \in Sessions, sub'[y].session = t
               PROVE  \/ y \in newl'[t]
                      \/ y \in dele[t]
                      \/ [key |-> sub'[y].id, sub |-> y] \in active[t]
    BY <1>3 DEF Kept
  <2>1. y # x
    BY <1>5, SubsAssumption
  <2> QED BY <1>4, <1>6, <2>1 DEF IInv, Contained, Kept
<1>12. Requested'
  BY <1>1, <1>3, <1>4, <1>5, <1>6, RequestsUntouched DEF IInv
<1>13. UrlsOwned' /\ DeletedEmpty'
  <2>1. \A y \in Subs : sub'[y].url = sub[y].url
    BY <1>4, <1>5
  <2> QED BY <1>3, <2>1, ServersUntouched, EmptyKept DEF IInv
<1>14. Told' /\ Faultless'
  BY <1>3 DEF IInv, Told, ToldToOwner, Faultless
<1> QED BY <1>7, <1>8, <1>9, <1>10, <1>11, <1>12, <1>13, <1>14 DEF IInv, Contained

-----------------------------------------------------------------------------
(* Pushes of subscriptions *)

LEMMA PushCreateCarryingStep ==
    ASSUME IInv, NEW s \in Sessions, NEW x \in Subs, NEW u \in Urls,
           PushCreateCarrying(s, x, u)
    PROVE  IInv'
<1> DEFINE p == [About("session", s, x) EXCEPT !.id = None, !.url = u]
<1>1. /\ sub[x] \in Subscription /\ sub[x].n \in Nat /\ sub[x].n < MaxReq
      /\ x \in newl[s] /\ u \in ServersFor(x) /\ u # None
      /\ ~ses[s].created /\ ~ses[s].asked
  <2>1. sub[x] \in Subscription /\ sub[x].n \in Nat
    BY FieldTypes, SubsAssumption DEF IInv, Subscription
  <2> QED BY <2>1, SubsAssumption DEF PushCreateCarrying, Carried
<1>2. /\ p.kind = "session" /\ p.s = s /\ p.sub = x /\ p.n = sub[x].n + 1
      /\ p.cid = sub[x].cid /\ p.url = u
  BY DEF About
<1>3. p \in Request
  <2>1. About("session", s, x) \in Request
    BY <1>1, AboutType
  <2> QED BY <2>1 DEF Request
<1>4. /\ xacts' = xacts \cup {p} /\ wire' = wire \cup {p}
      /\ ses' = [ses EXCEPT ![s].asked = TRUE]
      /\ sub' = [sub EXCEPT ![x].url = u, ![x].n = sub[x].n + 1]
      /\ told' = None
      /\ UNCHANGED <<newl, active, dele, answers, remote, posted, held, stamp, fault>>
  BY DEF PushCreateCarrying, Send
<1> HIDE DEF p
<1>5. /\ \A y \in Subs \ {x} : sub'[y] = sub[y]
      /\ sub'[x] = [sub[x] EXCEPT !.url = u, !.n = sub[x].n + 1]
  BY <1>4 DEF IInv, TypeOK
<1>6. /\ sub'[x].st = sub[x].st /\ sub'[x].session = sub[x].session /\ sub'[x].id = sub[x].id
      /\ sub'[x].cid = sub[x].cid /\ sub'[x].changed = sub[x].changed
      /\ sub'[x].url = u /\ sub'[x].n = sub[x].n + 1
      /\ sub'[x] \in Subscription
  <2>1. sub[x].n + 1 \in 0 .. MaxReq
    BY <1>1, SubsAssumption
  <2> QED BY <1>1, <1>5, <2>1 DEF Subscription
<1>7. \A y \in Subs : /\ sub'[y].st = sub[y].st /\ sub'[y].session = sub[y].session
                      /\ sub'[y].id = sub[y].id /\ sub'[y].cid = sub[y].cid
                      /\ sub'[y].changed = sub[y].changed
  BY <1>5, <1>6
<1>8. \A y \in Subs : sub[y].url # None => sub'[y].url = sub[y].url
  BY <1>1, <1>5, <1>6 DEF ServersFor
<1>9. /\ \A t \in Sessions : /\ ses'[t].created = ses[t].created
                             /\ ses[t].asked => ses'[t].asked
                             /\ ses'[t].deleted = ses[t].deleted
      /\ ses'[s].asked
  BY <1>4 DEF IInv, TypeOK, Session
<1>10. TypeOK'
  <2>1. sub' \in [Subs -> Subscription]
    BY <1>4, <1>5, <1>6 DEF IInv, TypeOK
  <2>2. ses' \in [Sessions -> Session]
    BY <1>4 DEF IInv, TypeOK, Session
  <2> QED BY <1>3, <1>4, <2>1, <2>2 DEF IInv, TypeOK
<1>11. SubsSound' /\ Unique'
  <2>1. held' = held
    BY <1>4
  <2>2. SubsSound'
    BY <1>7, <2>1 DEF IInv, Contained, SubsSound, SubSound
  <2>3. Unique'
    BY <1>7 DEF IInv, Contained, Unique
  <2> QED BY <2>2, <2>3
<1>12. Placed' /\ Kept'
  BY <1>4, <1>7, PlacesKept DEF IInv
<1>13. XactsSound'
  <2> SUFFICES ASSUME NEW r \in xacts' PROVE XactSound(r)'
    BY DEF XactsSound
  <2>1. CASE r = p
    BY <2>1, <1>1, <1>2, <1>4, <1>6, <1>9 DEF XactSound
  <2>2. CASE r \in xacts
    <3>1. XactSound(r) /\ r.s \in Sessions /\ r.sub \in Subs \cup {None}
      BY <2>2 DEF IInv, TypeOK, Request, Requested, XactsSound
    <3>2. r.kind = "create" => r.sub \in Subs
      BY <3>1 DEF XactSound
    <3> QED BY <1>4, <1>7, <1>9, <3>1, <3>2 DEF XactSound
  <2> QED BY <2>1, <2>2, <1>4
<1>14. AskedOnce'
  <2>1. \A r \in xacts : r.kind = "session" => r.s # s
    BY <1>1 DEF IInv, Requested, XactsSound, XactSound
  <2> QED BY <1>2, <1>4, <2>1 DEF IInv, Requested, AskedOnce
<1>15. Counted'
  <2> SUFFICES ASSUME NEW r \in xacts' \cup wire', r.sub # None
               PROVE  /\ r.cid \in Cids /\ 1 <= r.n
                      /\ sub'[r.sub].st # "freed" => r.n <= sub'[r.sub].n
                      /\ r.url # None => sub'[r.sub].url = r.url
    BY DEF Counted
  <2>1. CASE r = p
    <3>1. sub[x].cid \in Cids
      BY <1>1 DEF Subscription
    <3> QED BY <2>1, <1>1, <1>2, <1>6, <3>1
  <2>2. CASE r \in xacts \cup wire
    <3>1. r.sub \in Subs /\ r.n \in Nat /\ sub[r.sub].n \in Nat
      BY <2>2, SubsAssumption, FieldTypes DEF IInv, TypeOK, Request, Subscription
    <3>2. /\ r.cid \in Cids /\ 1 <= r.n
          /\ sub[r.sub].st # "freed" => r.n <= sub[r.sub].n
          /\ r.url # None => sub[r.sub].url = r.url
      BY <2>2 DEF IInv, Requested, Counted
    <3>3. sub'[r.sub].n = sub[r.sub].n \/ sub'[r.sub].n = sub[r.sub].n + 1
      BY <1>5, <1>6, <3>1
    <3>4. sub[r.sub].n <= sub'[r.sub].n
      BY <3>1, <3>3
    <3>5. sub'[r.sub].n \in Nat
      BY <3>1, <3>3
    <3>6. sub'[r.sub].st # "freed" => r.n <= sub'[r.sub].n
      BY <1>7, <3>1, <3>2, <3>4, <3>5
    <3> QED BY <1>8, <3>1, <3>2, <3>6
  <2> QED BY <2>1, <2>2, <1>4
<1>16. UrlsOwned'
  <2>1. \A q \in remote : q.rid.sub \in Subs
    BY DEF IInv, TypeOK, Resource, Rids
  <2>2. \A q \in posted : q.rid.sub \in Subs
    BY DEF IInv, TypeOK, Rids
  <2>3. ASSUME Fixed, NEW y \in Subs, NEW z \in Subs, sub'[y].url # None,
               sub'[y].url = sub'[z].url
        PROVE  y = z
    <3>1. CASE sub[x].url = None
      <4>1. \A w \in Subs : sub[w].url # u
        BY <1>1, <2>3, <3>1 DEF ServersFor
      <4>2. \A w \in Subs : sub'[w].url = IF w = x THEN u ELSE sub[w].url
        BY <1>5, <1>6
      <4>3. CASE y = x \/ z = x
        BY <2>3, <4>1, <4>2, <4>3
      <4>4. CASE y # x /\ z # x
        <5>1. sub[y].url # None /\ sub[y].url = sub[z].url
          BY <2>3, <4>2, <4>4
        <5> QED BY <2>3, <5>1 DEF IInv, UrlsOwned
      <4> QED BY <4>3, <4>4
    <3>2. CASE sub[x].url # None
      <4>1. \A w \in Subs : sub'[w].url = sub[w].url
        BY <1>5, <1>8, <3>2
      <4> QED BY <2>3, <4>1 DEF IInv, UrlsOwned
    <3> QED BY <3>1, <3>2
  <2> QED BY <1>4, <1>8, <2>1, <2>2, <2>3 DEF IInv, UrlsOwned
<1>17. DeletedEmpty'
  BY <1>4, <1>9, EmptyKept DEF IInv
<1>18. Told' /\ Faultless'
  BY <1>4 DEF IInv, Told, ToldToOwner, Faultless
<1> QED BY <1>10, <1>11, <1>12, <1>13, <1>14, <1>15, <1>16, <1>17, <1>18
        DEF IInv, Contained, Requested

(* The requests of a push of subscriptions: a creation of a new one, an     *)
(* update of an active one or the deletion of a removed one.                *)
LEMMA UpdateRequests ==
    ASSUME TypeOK, Contained, NEW s \in Sessions, NEW r \in SubscriptionsRequests(s)
    PROVE  /\ r.sub \in Asked(s) /\ r.sub \in Subs
           /\ r = About(r.kind, s, r.sub)
           /\ r.s = s /\ r.n = sub[r.sub].n + 1
           /\ r.cid = sub[r.sub].cid /\ r.url = sub[r.sub].url
           /\ r.kind \in {"create", "update", "delete"}
           /\ r.kind = "create" => r.sub \in newl[s] /\ sub[r.sub].changed
<1>1. \A x \in ToCreate(s) : x \in Subs /\ x \in newl[s] /\ sub[x].changed
                             /\ sub[x].session = s
  BY FieldTypes DEF ToCreate, Contained, Placed
<1>2. \A x \in ToUpdate(s) : x \in Subs /\ sub[x].session = s
  BY DEF ToUpdate, Contained, Placed
<1>3. \A x \in dele[s] : x \in Subs /\ sub[x].session = s
  BY FieldTypes DEF Contained, Placed
<1>4. PICK kind \in {"create", "update", "delete"}, x \in Asked(s) :
          /\ r = About(kind, s, x) /\ x \in Subs
          /\ kind = "create" => x \in ToCreate(s)
  BY <1>1, <1>2, <1>3 DEF SubscriptionsRequests, Asked
<1>5. r.kind = kind /\ r.s = s /\ r.sub = x /\ r.n = sub[x].n + 1
      /\ r.cid = sub[x].cid /\ r.url = sub[x].url
  BY <1>4, AboutFields
<1> QED BY <1>1, <1>4, <1>5

(* A subscription to delete is neither new nor active. *)
LEMMA DeletedOne ==
    ASSUME TypeOK, Contained, NEW s \in Sessions, NEW x \in dele[s], NEW t \in Sessions
    PROVE  /\ x \notin newl[t]
           /\ \A e \in active[t] : e.sub # x
           /\ x \in dele[t] => t = s
BY DEF Contained, Placed

(* What a push does to each subscription. *)
LEMMA UpdateFields ==
    ASSUME TypeOK, Contained, NEW s \in Sessions, SubscriptionsUpdate(s), NEW x \in Subs
    PROVE  /\ sub'[x] \in Subscription
           /\ sub'[x].cid = sub[x].cid /\ sub'[x].url = sub[x].url
           /\ x \in dele[s] => /\ sub'[x].st = "freed" /\ sub'[x].session = None
                               /\ sub'[x].id = None
           /\ x \notin dele[s] => /\ sub'[x].st = sub[x].st /\ sub'[x].id = sub[x].id
                                  /\ sub'[x].session = sub[x].session
                                  /\ sub'[x].n = IF x \in Asked(s) THEN sub[x].n + 1
                                                                   ELSE sub[x].n
                                  /\ sub'[x].changed => sub[x].changed
                                  /\ x \in Asked(s) => ~sub'[x].changed
<1>1. sub[x] \in Subscription /\ sub[x].n \in Nat
  BY FieldTypes, SubsAssumption DEF Subscription
<1>2. CASE x \in dele[s]
  <2>1. sub'[x] = Freed(x)
    BY <1>2 DEF SubscriptionsUpdate
  <2> QED BY <1>1, <1>2, <2>1, FreedFields
<1>3. CASE x \notin dele[s] /\ x \in Asked(s)
  <2>1. sub'[x] = [sub[x] EXCEPT !.changed = FALSE, !.n = sub[x].n + 1]
    BY <1>3 DEF SubscriptionsUpdate
  <2>2. sub[x].n < MaxReq
    BY <1>3 DEF SubscriptionsUpdate
  <2>3. sub[x].n + 1 \in 0 .. MaxReq
    BY <1>1, <2>2, SubsAssumption
  <2> QED BY <1>1, <1>3, <2>1, <2>3 DEF Subscription
<1>4. CASE x \notin dele[s] /\ x \notin Asked(s)
  <2>1. sub'[x] = sub[x]
    BY <1>4 DEF SubscriptionsUpdate
  <2> QED BY <1>1, <1>4, <2>1
<1> QED BY <1>2, <1>3, <1>4

(* The push of subscriptions, alone or after the creation of the session    *)
(* whose transaction it replaces.                                           *)
LEMMA UpdateStep ==
    ASSUME IInv, NEW s \in Sessions, SubscriptionsUpdate(s),
           NEW kept, kept \subseteq xacts,
           xacts' = kept \cup SubscriptionsRequests(s),
           \A r \in kept : r.kind = "session" => r.s # s,
           \A t \in Sessions : /\ t # s => ses'[t] = ses[t]
                               /\ ses'[t].deleted = ses[t].deleted,
           ses'[s].created,
           UNCHANGED <<newl, active, held, remote, posted>>
    PROVE  /\ sub' \in [Subs -> Subscription]
           /\ dele' \in [Sessions -> SUBSET Subs]
           /\ xacts' \subseteq Request /\ wire' \subseteq Request
           /\ fault' = fault
           /\ Contained' /\ Requested' /\ UrlsOwned' /\ DeletedEmpty'
<1>1. TypeOK /\ Contained /\ Requested /\ UrlsOwned /\ DeletedEmpty
  BY DEF IInv
<1>2. /\ wire' = wire \cup SubscriptionsRequests(s)
      /\ dele' = [dele EXCEPT ![s] = {}]
      /\ fault' = fault
      /\ \A x \in Asked(s) : sub[x].n < MaxReq
      /\ DOMAIN sub' = Subs /\ sub' = [x \in Subs |-> sub'[x]]
  BY <1>1, NothingDangles DEF SubscriptionsUpdate
<1>3. \A x \in Subs : sub'[x] \in Subscription /\ sub'[x].cid = sub[x].cid
                      /\ sub'[x].url = sub[x].url
  BY <1>1, UpdateFields
<1>4. \A x \in dele[s] : x \in Subs /\ sub'[x].st = "freed" /\ sub'[x].session = None
                         /\ sub'[x].id = None
  BY <1>1, UpdateFields, FieldTypes
<1>5. \A x \in Subs \ dele[s] :
          /\ sub'[x].st = sub[x].st /\ sub'[x].id = sub[x].id
          /\ sub'[x].session = sub[x].session
          /\ sub'[x].n = IF x \in Asked(s) THEN sub[x].n + 1 ELSE sub[x].n
          /\ sub'[x].changed => sub[x].changed
          /\ x \in Asked(s) => ~sub'[x].changed
  BY <1>1, UpdateFields
<1>6. \A t \in Sessions : /\ newl[t] \subseteq Subs \ dele[s]
                          /\ \A e \in active[t] : e.sub \in Subs \ dele[s]
                          /\ dele'[t] = dele[t] \ dele[s]
                          /\ dele[t] \subseteq Subs
  <2>1. \A t \in Sessions : dele'[t] = IF t = s THEN {} ELSE dele[t]
    BY <1>1, <1>2 DEF TypeOK
  <2>2. \A t \in Sessions \ {s} : dele[t] \cap dele[s] = {}
    BY <1>1, DeletedOne
  <2>3. \A t \in Sessions : dele'[t] = dele[t] \ dele[s]
    BY <2>1, <2>2
  <2> QED BY <1>1, <2>3, FieldTypes, DeletedOne
<1>7. \A r \in SubscriptionsRequests(s) :
          /\ r.sub \in Asked(s) /\ r.sub \in Subs /\ r.sub # None
          /\ r = About(r.kind, s, r.sub)
          /\ r.s = s /\ r.n = sub[r.sub].n + 1
          /\ r.cid = sub[r.sub].cid /\ r.url = sub[r.sub].url
          /\ r.kind \in {"create", "update", "delete"}
          /\ r.kind = "create" => r.sub \in newl[s] /\ sub[r.sub].changed
  BY <1>1, UpdateRequests, SubsAssumption
<1>8. sub' \in [Subs -> Subscription] /\ dele' \in [Sessions -> SUBSET Subs]
  BY <1>1, <1>2, <1>3 DEF TypeOK
<1>9. SubscriptionsRequests(s) \subseteq Request
  <2> SUFFICES ASSUME NEW r \in SubscriptionsRequests(s) PROVE r \in Request
    OBVIOUS
  <2>1. sub[r.sub] \in Subscription /\ sub[r.sub].n < MaxReq
    BY <1>1, <1>2, <1>7, FieldTypes
  <2> QED BY <1>7, <2>1, AboutType
<1>10. xacts' \subseteq Request /\ wire' \subseteq Request
  BY <1>1, <1>2, <1>9 DEF TypeOK
<1>11. SubsSound' /\ Unique'
  <2>1. SubsSound'
    <3> SUFFICES ASSUME NEW x \in Subs PROVE SubSound(x)'
      BY DEF SubsSound
    <3>1. CASE x \in dele[s]
      <4>1. x \notin held
        BY <1>1, <3>1 DEF Contained, Placed
      <4> QED BY <1>4, <3>1, <4>1 DEF SubSound
    <3>2. CASE x \notin dele[s]
      BY <1>1, <1>5, <3>2 DEF Contained, SubsSound, SubSound
    <3> QED BY <3>1, <3>2
  <2>2. \A x \in Subs : sub'[x].st = "live" => sub[x].st = "live"
    BY <1>4, <1>5
  <2>3. Unique'
    BY <1>1, <1>3, <2>2 DEF Contained, Unique
  <2> QED BY <2>1, <2>3
<1>12. Placed'
  <2>1. \A x \in Subs \ dele[s] : /\ sub'[x].id = sub[x].id
                                  /\ sub'[x].session = sub[x].session
    BY <1>5
  <2> QED BY <1>1, <1>6, <2>1 DEF Contained, Placed
<1>13. Kept'
  <2> SUFFICES ASSUME NEW x \in Subs, NEW t \in Sessions, sub'[x].session = t
               PROVE  \/ x \in newl[t]
                      \/ x \in dele'[t]
                      \/ [key |-> sub'[x].id, sub |-> x] \in active[t]
    BY DEF Kept
  <2>1. x \notin dele[s]
    BY <1>4, SubsAssumption
  <2>2. sub'[x].id = sub[x].id /\ sub[x].session = t
    BY <1>5, <2>1
  <2> QED BY <1>1, <1>6, <2>1, <2>2 DEF Contained, Kept
<1>14. \A r \in kept : /\ XactSound(r) /\ r.s \in Sessions
                       /\ r.sub \in Subs \cup {None} /\ r.n \in Nat
  BY <1>1, SubsAssumption DEF TypeOK, Request, Requested, XactsSound
<1>15. XactsSound'
  <2> SUFFICES ASSUME NEW r \in xacts' PROVE XactSound(r)'
    BY DEF XactsSound
  <2>1. CASE r \in kept
    <3>1. r.kind = "session" => ses'[r.s] = ses[r.s]
      BY <1>14, <2>1
    <3>2. ses[r.s].created => ses'[r.s].created
      BY <1>14, <2>1
    <3>3. ses'[r.s].deleted = ses[r.s].deleted
      BY <1>14, <2>1
    <3>4. r.kind = "create" => r.sub \in newl[r.s] /\ r.sub # None
      BY <1>14, <2>1 DEF XactSound
    <3>5. r.kind = "create" => ~sub'[r.sub].changed
      <4>1. r.kind = "create" => r.sub \in Subs \ dele[s]
        BY <1>6, <1>14, <2>1, <3>4
      <4>2. r.kind = "create" => ~sub[r.sub].changed
        BY <1>14, <2>1 DEF XactSound
      <4> QED BY <1>5, <4>1, <4>2
    <3>6. r.sub # None => sub'[r.sub].cid = sub[r.sub].cid
      BY <1>3, <1>14, <2>1
    <3> QED BY <1>14, <2>1, <3>1, <3>2, <3>3, <3>4, <3>5, <3>6 DEF XactSound
  <2>2. CASE r \in SubscriptionsRequests(s)
    <3>1. r.kind = "create" => ~sub'[r.sub].changed
      BY <1>5, <1>6, <1>7, <2>2
    <3>2. sub'[r.sub].cid = r.cid
      BY <1>3, <1>7, <2>2
    <3> QED BY <1>7, <2>2, <3>1, <3>2 DEF XactSound
  <2> QED BY <2>1, <2>2
<1>16. AskedOnce'
  <2>1. ASSUME NEW r \in xacts', NEW t \in xacts', r.kind = "session", t.kind = "session",
               r.s = t.s
        PROVE  r = t
    <3>1. r \in xacts /\ t \in xacts
      BY <1>7, <2>1
    <3> QED BY <1>1, <2>1, <3>1 DEF Requested, AskedOnce
  <2>2. \A r \in kept : r.kind = "create" => ~sub[r.sub].changed
    BY <1>14 DEF XactSound
  <2>3. ASSUME NEW r \in xacts', NEW t \in xacts', r.kind = "create", t.kind = "create",
               r.sub = t.sub
        PROVE  r = t
    <3>1. CASE r \in kept /\ t \in kept
      BY <1>1, <2>3, <3>1 DEF Requested, AskedOnce
    <3>2. CASE r \in SubscriptionsRequests(s) /\ t \in SubscriptionsRequests(s)
      BY <1>7, <2>3, <3>2
    <3>3. CASE (r \in kept) # (t \in kept)
      BY <1>7, <2>2, <2>3, <3>3
    <3> QED BY <2>3, <3>1, <3>2, <3>3
  <2> QED BY <2>1, <2>3 DEF AskedOnce
<1>17. Counted'
  <2> SUFFICES ASSUME NEW r \in xacts' \cup wire', r.sub # None
               PROVE  /\ r.cid \in Cids /\ 1 <= r.n
                      /\ sub'[r.sub].st # "freed" => r.n <= sub'[r.sub].n
                      /\ r.url # None => sub'[r.sub].url = r.url
    BY DEF Counted
  <2>1. r \in Request /\ r.sub \in Subs /\ r.n \in Nat
    BY <1>10, SubsAssumption DEF Request
  <2>2. sub[r.sub] \in Subscription /\ sub[r.sub].n \in Nat /\ sub[r.sub].cid \in Cids
    BY <1>1, <2>1, FieldTypes, SubsAssumption DEF Subscription
  <2>3. CASE r \in SubscriptionsRequests(s)
    <3>1. sub'[r.sub].st # "freed" => r.n = sub'[r.sub].n
      BY <1>4, <1>5, <1>7, <2>1, <2>3
    <3>2. r.n = sub[r.sub].n + 1 /\ r.cid = sub[r.sub].cid /\ r.url = sub'[r.sub].url
      BY <1>3, <1>7, <2>1, <2>3
    <3> QED BY <2>1, <2>2, <3>1, <3>2
  <2>4. CASE r \in xacts \cup wire
    <3>1. /\ r.cid \in Cids /\ 1 <= r.n
          /\ sub[r.sub].st # "freed" => r.n <= sub[r.sub].n
          /\ r.url # None => sub[r.sub].url = r.url
      BY <1>1, <2>1, <2>4, SubsAssumption DEF Requested, Counted
    <3>2. sub'[r.sub].st # "freed" =>
              /\ sub[r.sub].st # "freed"
              /\ sub'[r.sub].n = sub[r.sub].n \/ sub'[r.sub].n = sub[r.sub].n + 1
      BY <1>4, <1>5, <2>1
    <3>3. sub'[r.sub].st # "freed" => r.n <= sub'[r.sub].n
      BY <2>1, <2>2, <3>1, <3>2
    <3> QED BY <1>3, <2>1, <3>1, <3>3
  <2> QED BY <1>2, <2>3, <2>4
<1>18. UrlsOwned' /\ DeletedEmpty'
  BY <1>1, <1>3, ServersUntouched, EmptyKept
<1> QED BY <1>2, <1>8, <1>10, <1>11, <1>12, <1>13, <1>15, <1>16, <1>17, <1>18
        DEF Contained, Requested

LEMMA PushSubscriptionsStep ==
    ASSUME IInv, NEW s \in Sessions, PushSubscriptions(s)
    PROVE  IInv'
<1>1. /\ SubscriptionsUpdate(s)
      /\ xacts' = xacts \cup SubscriptionsRequests(s)
      /\ UNCHANGED <<ses, newl, active, answers, remote, posted, held, stamp>>
      /\ told' = None /\ ses[s].created
  BY DEF PushSubscriptions
<1>2. \A r \in xacts : r.kind = "session" => r.s # s
  BY <1>1 DEF IInv, Requested, XactsSound, XactSound
<1>3. /\ sub' \in [Subs -> Subscription]
      /\ dele' \in [Sessions -> SUBSET Subs]
      /\ xacts' \subseteq Request /\ wire' \subseteq Request
      /\ fault' = fault
      /\ Contained' /\ Requested' /\ UrlsOwned' /\ DeletedEmpty'
  <2> DEFINE kept == xacts
  <2>1. kept \subseteq xacts /\ xacts' = kept \cup SubscriptionsRequests(s)
        /\ \A r \in kept : r.kind = "session" => r.s # s
    BY <1>1, <1>2
  <2> HIDE DEF kept
  <2> QED BY <1>1, <2>1, UpdateStep
<1>4. TypeOK'
  BY <1>1, <1>3 DEF IInv, TypeOK
<1>5. Told' /\ Faultless'
  BY <1>1, <1>3 DEF IInv, Told, ToldToOwner, Faultless
<1> QED BY <1>3, <1>4, <1>5 DEF IInv

-----------------------------------------------------------------------------
(* Answers to creations *)

(* The answer to a creation finds the subscription it was asked for.        *)
LEMMA FoundByCid ==
    ASSUME TypeOK, Contained, Requested, NEW r \in xacts,
           r.kind \in {"create", "session"}, r.sub # None,
           NEW x \in FindSubscription(r.s, r.cid)
    PROVE  /\ x = r.sub /\ x \in Subs /\ x \in held /\ x \in newl[r.s]
           /\ r.s \in Sessions /\ ~ses[r.s].deleted
           /\ [sub |-> r.sub, n |-> r.n] \in Rids
<1>1. r.s \in Sessions /\ r.sub \in Subs /\ r.n \in 0 .. MaxReq /\ 1 <= r.n
  BY DEF TypeOK, Request, Requested, Counted
<1>2. r.sub \in newl[r.s] /\ sub[r.sub].cid = r.cid
  BY DEF Requested, XactsSound, XactSound
<1>3. x \in Subs /\ x \in held /\ sub[x].cid = r.cid /\ ~ses[r.s].deleted
  <2>1. \A y \in newl[r.s] : y \in Subs /\ y \in held
    BY <1>1, FieldTypes DEF Contained, Placed
  <2>2. \A e \in active[r.s] : e.sub \in Subs /\ e.sub \in held
    BY <1>1, FieldTypes DEF Contained, Placed
  <2> QED BY <2>1, <2>2 DEF FindSubscription
<1>4. r.sub \in held
  BY <1>1, <1>2 DEF Contained, Placed
<1>5. x = r.sub
  BY <1>1, <1>2, <1>3, <1>4 DEF Contained, SubsSound, SubSound, Unique
<1>6. [sub |-> r.sub, n |-> r.n] \in Rids
  BY <1>1, SubsAssumption DEF Rids
<1> QED BY <1>1, <1>2, <1>3, <1>5, <1>6

LEMMA SessionCreatedStep ==
    ASSUME IInv, NEW a \in answers, NEW e, SessionCreated(a, e)
    PROVE  IInv'
<1> DEFINE s == a.req.s
           rid == [sub |-> a.req.sub, n |-> a.req.n]
<1>1. a.req \in Request /\ a.req \in xacts /\ a.req.kind = "session" /\ s \in Sessions
  BY DEF IInv, TypeOK, SessionCreated, Request
<1>2. /\ SubscriptionsUpdate(s)
      /\ xacts' = (xacts \ {a.req}) \cup SubscriptionsRequests(s)
      /\ UNCHANGED <<newl, active, remote, posted, held, stamp>>
      /\ answers' = answers \ {a}
      /\ ses' = [ses EXCEPT ![s].created = TRUE, ![s].asked = FALSE]
  BY DEF SessionCreated
<1>3. \/ told' = None
      \/ /\ a.req.sub # None
         /\ \E x \in FindSubscription(s, a.req.cid) : Report(x, rid, e)
  BY DEF SessionCreated
<1> HIDE DEF s
<1>4. /\ \A t \in Sessions : /\ t # s => ses'[t] = ses[t]
                             /\ ses'[t].deleted = ses[t].deleted
      /\ ses'[s].created
      /\ ses' \in [Sessions -> Session]
  <2>1. ses[s] \in Session /\ ses \in [Sessions -> Session] /\ s \in Sessions
    BY <1>1 DEF s, IInv, TypeOK
  <2>2. /\ ses'[s] = [ses[s] EXCEPT !.created = TRUE, !.asked = FALSE]
        /\ ses' = [ses EXCEPT ![s] = ses'[s]]
    BY <1>2, <2>1
  <2>3. ses'[s] \in Session /\ ses'[s].deleted = ses[s].deleted /\ ses'[s].created
    BY <2>1, <2>2 DEF Session
  <2> QED BY <2>1, <2>2, <2>3
<1>5. \A r \in xacts \ {a.req} : r.kind = "session" => r.s # s
  BY <1>1 DEF s, IInv, Requested, AskedOnce
<1>6. /\ sub' \in [Subs -> Subscription]
      /\ dele' \in [Sessions -> SUBSET Subs]
      /\ xacts' \subseteq Request /\ wire' \subseteq Request
      /\ fault' = fault
      /\ Contained' /\ Requested' /\ UrlsOwned' /\ DeletedEmpty'
  <2> DEFINE kept == xacts \ {a.req}
  <2>1. kept \subseteq xacts /\ xacts' = kept \cup SubscriptionsRequests(s)
        /\ \A r \in kept : r.kind = "session" => r.s # s
    BY <1>2, <1>5
  <2> HIDE DEF kept
  <2> QED BY <1>1, <1>2, <1>4, <2>1, UpdateStep
<1>7. told' \in [sub : Subs, rid : Rids, held : BOOLEAN] \cup {None} /\ ToldToOwner'
  <2>1. CASE told' = None
    BY <2>1 DEF ToldToOwner
  <2>2. CASE told' # None
    <3>1. PICK x \in FindSubscription(s, a.req.cid) : Report(x, rid, e)
      BY <1>3, <2>2
    <3>2. x = a.req.sub /\ x \in Subs /\ x \in held /\ rid \in Rids
      BY <1>1, <1>3, <2>2, FoundByCid DEF s, IInv
    <3>3. told' \in [sub : Subs, rid : Rids, held : BOOLEAN] \cup {None}
      BY <3>1, <3>2, ReportType
    <3>4. rid.sub = x
      BY <3>2
    <3>5. told'.held = (x \in held) /\ told'.rid = rid /\ told'.sub = x
      BY <2>2, <3>1 DEF Report
    <3> QED BY <3>2, <3>3, <3>4, <3>5 DEF ToldToOwner
  <2> QED BY <2>1, <2>2
<1>8. TypeOK'
  BY <1>2, <1>4, <1>6, <1>7 DEF IInv, TypeOK
<1>9. Told' /\ Faultless'
  BY <1>6, <1>7 DEF IInv, Told, Faultless
<1> QED BY <1>6, <1>8, <1>9 DEF IInv

LEMMA SubscriptionCreatedStep ==
    ASSUME IInv, NEW a \in answers, NEW x \in Subs, NEW e, SubscriptionCreated(a, x, e)
    PROVE  IInv' /\ sub[x].id = None /\ (\A y \in Subs \ {x} : sub'[y] = sub[y])
<1> DEFINE s == a.req.s
           rid == [sub |-> a.req.sub, n |-> a.req.n]
           new == [key |-> rid, sub |-> x]
<1>1. /\ a.req \in Request /\ a.req \in xacts /\ a.req.kind = "create" /\ s \in Sessions
      /\ x \in FindSubscription(s, a.req.cid)
  BY DEF IInv, TypeOK, SubscriptionCreated, Request
<1>2. a.req.sub # None /\ ses[s].created
  BY <1>1 DEF IInv, Requested, XactsSound, XactSound
<1>3. /\ x = a.req.sub /\ x \in held /\ x \in newl[s] /\ ~ses[s].deleted
      /\ rid \in Rids /\ rid # None /\ rid.sub = x
  BY <1>1, <1>2, FoundByCid, SubsAssumption DEF IInv
<1>4. sub[x].session = s /\ sub[x].id = None
  BY <1>1, <1>3 DEF IInv, Contained, Placed
<1>5. \A t \in Sessions : /\ x \in newl[t] => t = s
                          /\ x \notin dele[t]
                          /\ \A f \in active[t] : f.sub # x
  <2>1. sub[x].session # None
    BY <1>1, <1>4, SubsAssumption
  <2> QED BY <1>3, <1>4, <2>1, NewOne DEF IInv
<1>6. TableWithout(s, rid) = active[s]
  <2>1. ASSUME NEW f \in active[s], f.key = rid PROVE FALSE
    <3>1. sub[f.sub].id = rid /\ f.sub \in Subs
      BY <1>1, <2>1, FieldTypes DEF IInv, Contained, Placed
    <3>2. f.sub = x
      BY <1>3, <3>1 DEF IInv, Contained, SubsSound, SubSound
    <3> QED BY <1>1, <1>5, <3>2
  <2> QED BY <2>1 DEF TableWithout
<1>7. /\ sub' = [sub EXCEPT ![x].id = rid]
      /\ newl' = [newl EXCEPT ![s] = newl[s] \ {x}]
      /\ active' = [active EXCEPT ![s] = active[s] \cup {new}]
      /\ ses' = [ses EXCEPT ![s].table = TRUE]
      /\ Report(x, rid, e)
      /\ xacts' = xacts \ {a.req} /\ answers' = answers \ {a}
      /\ UNCHANGED <<fault, dele, wire, remote, posted, held, stamp>>
  <2>1. ~Dangling(s)
    BY <1>1, NothingDangles DEF IInv
  <2> QED BY <1>3, <1>6, <2>1 DEF SubscriptionCreated
<1>8. new \in [key : Rids, sub : Subs] /\ new.sub = x /\ new.key = rid
  BY <1>3
<1> HIDE DEF s, rid, new
<1>9. sub[x] \in Subscription /\ sub'[x] = [sub[x] EXCEPT !.id = rid]
      /\ \A y \in Subs \ {x} : sub'[y] = sub[y]
  BY <1>7, FieldTypes DEF IInv, TypeOK
<1>10. /\ sub'[x].st = sub[x].st /\ sub'[x].session = sub[x].session /\ sub'[x].id = rid
       /\ sub'[x].cid = sub[x].cid /\ sub'[x].url = sub[x].url /\ sub'[x].n = sub[x].n
       /\ sub'[x].changed = sub[x].changed
       /\ sub'[x] \in Subscription
  BY <1>3, <1>9 DEF Subscription
<1>11. \A y \in Subs : /\ sub'[y].st = sub[y].st /\ sub'[y].session = sub[y].session
                       /\ sub'[y].cid = sub[y].cid /\ sub'[y].url = sub[y].url
                       /\ sub'[y].n = sub[y].n /\ sub'[y].changed = sub[y].changed
                       /\ sub'[y].id = IF y = x THEN rid ELSE sub[y].id
  BY <1>9, <1>10
<1>12. \A t \in Sessions :
          /\ newl'[t] = newl[t] \ {x}
          /\ active'[t] = IF t = s THEN active[t] \cup {new} ELSE active[t]
          /\ newl[t] \subseteq Subs /\ dele[t] \subseteq Subs \ {x}
          /\ \A f \in active[t] : f.sub \in Subs \ {x}
  <2>1. \A t \in Sessions : newl'[t] = IF t = s THEN newl[t] \ {x} ELSE newl[t]
    BY <1>7 DEF IInv, TypeOK
  <2>2. \A t \in Sessions : newl'[t] = newl[t] \ {x}
    BY <1>5, <2>1
  <2>3. \A t \in Sessions : active'[t] = IF t = s THEN active[t] \cup {new} ELSE active[t]
    BY <1>7 DEF IInv, TypeOK
  <2> QED BY <1>5, <2>2, <2>3, FieldTypes DEF IInv
<1>13. \A t \in Sessions : /\ ses'[t].asked = ses[t].asked
                           /\ ses'[t].created = ses[t].created
                           /\ ses'[t].deleted = ses[t].deleted
  BY <1>7 DEF IInv, TypeOK, Session
<1>14. told' \in [sub : Subs, rid : Rids, held : BOOLEAN] \cup {None} /\ ToldToOwner'
  <2>1. told' \in [sub : Subs, rid : Rids, held : BOOLEAN] \cup {None}
    BY <1>3, <1>7, ReportType DEF rid
  <2>2. told' = None \/ (told'.held = (x \in held) /\ told'.rid = rid /\ told'.sub = x)
    BY <1>7 DEF Report
  <2> QED BY <1>3, <2>1, <2>2 DEF ToldToOwner, rid
<1>15. TypeOK'
  <2>1. sub' \in [Subs -> Subscription]
    BY <1>7, <1>9, <1>10 DEF IInv, TypeOK
  <2>2. ses' \in [Sessions -> Session]
    BY <1>7 DEF IInv, TypeOK, Session
  <2>3. newl' \in [Sessions -> SUBSET Subs]
    BY <1>1, <1>7 DEF IInv, TypeOK
  <2>4. active' \in [Sessions -> SUBSET [key : Rids, sub : Subs]]
    BY <1>1, <1>7, <1>8 DEF IInv, TypeOK
  <2> QED BY <1>7, <1>14, <2>1, <2>2, <2>3, <2>4 DEF IInv, TypeOK
<1>16. SubsSound'
  <2> SUFFICES ASSUME NEW y \in Subs PROVE SubSound(y)'
    BY DEF SubsSound
  <2>1. SubSound(y) /\ held' = held
    BY <1>7 DEF IInv, Contained, SubsSound
  <2>2. CASE y = x
    BY <1>1, <1>3, <1>4, <1>11, <2>1, <2>2, SubsAssumption DEF SubSound, rid, s
  <2>3. CASE y # x
    BY <1>11, <2>1, <2>3 DEF SubSound
  <2> QED BY <2>2, <2>3
<1>17. Unique'
  BY <1>11 DEF IInv, Contained, Unique
<1>18. Placed'
  <2> SUFFICES ASSUME NEW t \in Sessions
               PROVE  /\ \A y \in newl'[t] : /\ sub'[y].session = t /\ sub'[y].id = None
                                             /\ y \in held
                      /\ \A f \in active'[t] : /\ sub'[f.sub].session = t
                                               /\ sub'[f.sub].id = f.key
                                               /\ f.sub \in held
                      /\ \A y \in dele[t] : /\ sub'[y].session = t /\ sub'[y].id # None
                                            /\ y \notin held
    BY <1>7 DEF Placed
  <2>0. /\ newl'[t] \subseteq newl[t] /\ newl'[t] \subseteq Subs \ {x}
        /\ dele[t] \subseteq Subs \ {x}
        /\ \A f \in active[t] : f.sub \in Subs \ {x}
    BY <1>12
  <2>1. \A y \in newl'[t] : sub'[y].session = t /\ sub'[y].id = None /\ y \in held
    BY <1>9, <2>0 DEF IInv, Contained, Placed
  <2>2. ASSUME NEW f \in active[t]
        PROVE  sub'[f.sub].session = t /\ sub'[f.sub].id = f.key /\ f.sub \in held
    BY <1>9, <2>0 DEF IInv, Contained, Placed
  <2>3. t = s => sub'[new.sub].session = t /\ sub'[new.sub].id = new.key /\ new.sub \in held
    BY <1>3, <1>4, <1>8, <1>10
  <2>4. \A y \in dele[t] : sub'[y].session = t /\ sub'[y].id # None /\ y \notin held
    BY <1>9, <2>0 DEF IInv, Contained, Placed
  <2>5. \A f \in active'[t] : f \in active[t] \/ (t = s /\ f = new)
    BY <1>12
  <2> QED BY <2>1, <2>2, <2>3, <2>4, <2>5
<1>19. Kept'
  <2> SUFFICES ASSUME NEW y \in Subs, NEW t \in Sessions, sub'[y].session = t
               PROVE  \/ y \in newl'[t]
                      \/ y \in dele[t]
                      \/ [key |-> sub'[y].id, sub |-> y] \in active'[t]
    BY <1>7 DEF Kept
  <2>1. CASE y = x
    <3>1. t = s
      BY <1>4, <1>11, <2>1
    <3>2. [key |-> sub'[y].id, sub |-> y] = new
      BY <1>10, <2>1 DEF new
    <3> QED BY <1>12, <3>1, <3>2
  <2>2. CASE y # x
    <3>1. \/ y \in newl[t]
          \/ y \in dele[t]
          \/ [key |-> sub[y].id, sub |-> y] \in active[t]
      BY <1>11 DEF IInv, Contained, Kept
    <3> QED BY <1>11, <1>12, <2>2, <3>1
  <2> QED BY <2>1, <2>2
<1>20. \A r \in xacts' : r.kind \in {"create", "session"} => r.sub # x
  <2> SUFFICES ASSUME NEW r \in xacts, r # a.req, r.kind \in {"create", "session"},
                      r.sub = x
               PROVE  FALSE
    BY <1>7
  <2>1. r.s \in Sessions /\ x \in newl[r.s] /\ XactSound(r)
    BY <1>3, <1>2, SubsAssumption
       DEF IInv, TypeOK, Request, Requested, XactsSound, XactSound
  <2>2. r.s = s
    BY <1>5, <2>1
  <2>3. r.kind # "session"
    BY <1>2, <2>1, <2>2 DEF XactSound
  <2> QED BY <1>1, <1>3, <2>3 DEF IInv, Requested, AskedOnce
<1>21. XactsSound'
  <2> SUFFICES ASSUME NEW r \in xacts' PROVE XactSound(r)'
    BY DEF XactsSound
  <2>1. XactSound(r) /\ r.s \in Sessions /\ r.sub \in Subs \cup {None}
    BY <1>7 DEF IInv, TypeOK, Request, Requested, XactsSound
  <2>2. r.sub # None => /\ sub'[r.sub].changed = sub[r.sub].changed
                        /\ sub'[r.sub].cid = sub[r.sub].cid
    BY <1>11, <2>1
  <2>3. r.sub # None /\ r.kind \in {"create", "session"} =>
            (r.sub \in newl[r.s] => r.sub \in newl'[r.s])
    BY <1>12, <1>20, <2>1
  <2> QED BY <1>13, <2>1, <2>2, <2>3 DEF XactSound
<1>22. AskedOnce' /\ Counted'
  <2>1. AskedOnce'
    BY <1>7 DEF IInv, Requested, AskedOnce
  <2>2. \A r \in xacts \cup wire : r.sub \in Subs \cup {None}
    BY DEF IInv, TypeOK, Request
  <2>3. Counted'
    BY <1>7, <1>11, <2>2 DEF IInv, Requested, Counted
  <2> QED BY <2>1, <2>3
<1>23. UrlsOwned'
  BY <1>7, <1>11, ServersUntouched DEF IInv
<1>24. DeletedEmpty'
  BY <1>3, <1>12, <1>13 DEF IInv, DeletedEmpty
<1>25. Told' /\ Faultless'
  BY <1>7, <1>14 DEF IInv, Told, Faultless
<1> QED BY <1>4, <1>9, <1>15, <1>16, <1>17, <1>18, <1>19, <1>21, <1>22, <1>23, <1>24, <1>25
        DEF IInv, Contained, Requested

-----------------------------------------------------------------------------
(* The end of a session *)

LEMMA SessionRemovedStep ==
    ASSUME Obedient, IInv, NEW a \in answers, SessionRemoved(a)
    PROVE  /\ IInv'
           /\ \A x \in Subs : sub'[x] = sub[x] \/ sub[x].session = a.req.s
           /\ ses'[a.req.s].st = "freed"
<1> DEFINE s == a.req.s
           freed == newl[s] \cup dele[s]
<1>1. a.req \in Request /\ a.req \in xacts /\ a.req.kind = "remove" /\ s \in Sessions
  BY DEF IInv, TypeOK, SessionRemoved, Request
<1>2. active[s] = {}
  BY <1>1 DEF IInv, Requested, XactsSound, XactSound, DeletedEmpty
<1>3. /\ ses' = [ses EXCEPT ![s].st = "freed"]
      /\ sub' = [x \in Subs |-> IF x \in freed THEN Freed(x) ELSE sub[x]]
      /\ newl' = [newl EXCEPT ![s] = {}]
      /\ dele' = [dele EXCEPT ![s] = {}]
      /\ xacts' = {r \in xacts : r.s # s}
      /\ answers' = {b \in answers : b.req.s # s}
      /\ held' = held \ freed
      /\ told' = None
      /\ UNCHANGED <<active, wire, remote, posted, stamp, fault>>
  BY <1>2 DEF SessionRemoved
<1>4. \A x \in freed : x \in Subs /\ sub[x].session = s
  BY <1>1, FieldTypes DEF IInv, Contained, Placed
<1>5. \A x \in Subs : sub[x].session = s => x \in freed
  BY <1>1, <1>2 DEF IInv, Contained, Kept
<1> HIDE DEF s, freed
<1>6. \A x \in freed : /\ sub'[x] \in Subscription /\ sub'[x].st = "freed"
                       /\ sub'[x].session = None /\ sub'[x].id = None
                       /\ sub'[x].cid = sub[x].cid /\ sub'[x].url = sub[x].url
                       /\ sub'[x].n = sub[x].n
  <2> TAKE x \in freed
  <2>1. sub'[x] = Freed(x) /\ x \in Subs /\ sub[x] \in Subscription
    BY <1>3, <1>4, FieldTypes DEF IInv
  <2> QED BY <2>1, FreedFields
<1>7. \A x \in Subs \ freed : sub'[x] = sub[x]
  BY <1>3
<1>8. \A t \in Sessions : /\ newl'[t] = IF t = s THEN {} ELSE newl[t]
                          /\ dele'[t] = IF t = s THEN {} ELSE dele[t]
                          /\ ses'[t].asked = ses[t].asked
                          /\ ses'[t].created = ses[t].created
                          /\ ses'[t].deleted = ses[t].deleted
                          /\ ses'[t] \in Session
  BY <1>3 DEF IInv, TypeOK, Session
<1>9. \A t \in Sessions : /\ newl'[t] \subseteq Subs \ freed /\ newl'[t] \subseteq newl[t]
                          /\ dele'[t] \subseteq Subs \ freed /\ dele'[t] \subseteq dele[t]
                          /\ \A e \in active[t] : e.sub \in Subs \ freed
  <2> TAKE t \in Sessions
  <2>1. CASE t = s
    BY <1>2, <1>8, <2>1 DEF s
  <2>2. CASE t # s
    <3>1. newl'[t] = newl[t] /\ dele'[t] = dele[t]
      BY <1>8, <2>2
    <3>2. \A x \in newl[t] \cup dele[t] : x \in Subs /\ sub[x].session = t
      BY FieldTypes DEF IInv, Contained, Placed
    <3>3. \A e \in active[t] : e.sub \in Subs /\ sub[e.sub].session = t
      BY FieldTypes DEF IInv, Contained, Placed
    <3> QED BY <1>4, <2>2, <3>1, <3>2, <3>3
  <2> QED BY <2>1, <2>2
<1>10. TypeOK'
  <2>1. sub' \in [Subs -> Subscription]
    BY <1>3, <1>6, <1>7, FieldTypes DEF IInv
  <2>2. ses' \in [Sessions -> Session]
    BY <1>3, <1>8 DEF IInv, TypeOK
  <2>3. newl' \in [Sessions -> SUBSET Subs] /\ dele' \in [Sessions -> SUBSET Subs]
    BY <1>3 DEF IInv, TypeOK
  <2> QED BY <1>3, <2>1, <2>2, <2>3 DEF IInv, TypeOK
<1>11. SubsSound'
  <2> SUFFICES ASSUME NEW x \in Subs PROVE SubSound(x)'
    BY DEF SubsSound
  <2>1. SubSound(x)
    BY DEF IInv, Contained, SubsSound
  <2>2. CASE x \in freed
    BY <1>3, <1>6, <2>2 DEF SubSound
  <2>3. CASE x \notin freed
    BY <1>3, <1>7, <2>1, <2>3 DEF SubSound
  <2> QED BY <2>2, <2>3
<1>12. Unique'
  <2>1. \A x \in Subs : sub'[x].st = "live" => sub[x].st = "live" /\ sub'[x].cid = sub[x].cid
    BY <1>6, <1>7
  <2> QED BY <2>1 DEF IInv, Contained, Unique
<1>13. Placed'
  BY <1>3, <1>7, <1>9 DEF IInv, Contained, Placed
<1>14. Kept'
  <2> SUFFICES ASSUME NEW x \in Subs, NEW t \in Sessions, sub'[x].session = t
               PROVE  \/ x \in newl'[t]
                      \/ x \in dele'[t]
                      \/ [key |-> sub'[x].id, sub |-> x] \in active[t]
    BY <1>3 DEF Kept
  <2>1. x \notin freed
    BY <1>6, SubsAssumption
  <2>2. sub'[x] = sub[x] /\ t # s
    BY <1>5, <1>7, <2>1
  <2> QED BY <1>8, <2>2 DEF IInv, Contained, Kept
<1>15. XactsSound'
  <2> SUFFICES ASSUME NEW r \in xacts' PROVE XactSound(r)'
    BY DEF XactsSound
  <2>1. XactSound(r) /\ r.s \in Sessions /\ r.s # s /\ r.sub \in Subs \cup {None}
    BY <1>3 DEF IInv, TypeOK, Request, Requested, XactsSound
  <2>2. r.kind \in {"create", "session"} /\ r.sub # None =>
            r.sub \in newl'[r.s] /\ sub'[r.sub] = sub[r.sub]
    <3>1. newl'[r.s] = newl[r.s]
      BY <1>8, <2>1
    <3>2. newl'[r.s] \subseteq Subs \ freed
      BY <1>9, <2>1
    <3> QED BY <1>7, <2>1, <3>1, <3>2 DEF XactSound
  <2> QED BY <1>8, <2>1, <2>2 DEF XactSound
<1>16. AskedOnce' /\ Counted'
  <2>1. AskedOnce'
    BY <1>3 DEF IInv, Requested, AskedOnce
  <2>2. \A r \in xacts \cup wire : r.sub \in Subs \cup {None}
    BY DEF IInv, TypeOK, Request
  <2>3. \A x \in Subs : /\ sub'[x].url = sub[x].url /\ sub'[x].n = sub[x].n
                        /\ sub'[x].st # "freed" => sub[x].st # "freed"
    BY <1>6, <1>7
  <2>4. Counted'
    BY <1>3, <2>2, <2>3 DEF IInv, Requested, Counted
  <2> QED BY <2>1, <2>4
<1>17. UrlsOwned' /\ DeletedEmpty'
  <2>1. \A x \in Subs : sub'[x].url = sub[x].url
    BY <1>6, <1>7
  <2> QED BY <1>3, <1>8, <2>1, ServersUntouched, EmptyKept DEF IInv
<1>18. Told' /\ Faultless'
  BY <1>3 DEF IInv, Told, ToldToOwner, Faultless
<1>19. /\ \A x \in Subs : sub'[x] = sub[x] \/ sub[x].session = s
       /\ ses'[s].st = "freed"
  <2>1. ses'[s].st = "freed"
    BY <1>1, <1>3 DEF s, IInv, TypeOK, Session
  <2> QED BY <1>4, <1>7, <2>1
<1> QED BY <1>10, <1>11, <1>12, <1>13, <1>14, <1>15, <1>16, <1>17, <1>18, <1>19
        DEF IInv, Contained, Requested, s

-----------------------------------------------------------------------------
(* Theorems *)

LEMMA InvNext ==
    ASSUME Obedient, IInv, [Next]_vars
    PROVE  IInv'
<1>1. CASE Application
  <2>1. ASSUME NEW s \in Sessions, NewSession(s) PROVE IInv'
    BY <2>1, NewSessionStep
  <2>2. ASSUME NEW s \in Sessions, DeleteSession(s) PROVE IInv'
    BY <2>2, DeleteSessionStep
  <2>3. ASSUME NEW s \in Sessions, PushRemove(s) PROVE IInv'
    BY <2>3, PushRemoveStep
  <2>4. ASSUME NEW s \in Sessions, PushCreatePlain(s) PROVE IInv'
    BY <2>4, PushCreatePlainStep
  <2>5. ASSUME NEW s \in Sessions, PushSubscriptions(s) PROVE IInv'
    BY <2>5, PushSubscriptionsStep
  <2>6. ASSUME NEW s \in Sessions, NEW x \in Subs, AddSubscription(s, x) PROVE IInv'
    BY <2>6, AddSubscriptionStep
  <2>7. ASSUME NEW s \in Sessions, NEW x \in Subs, NEW u \in Urls,
               PushCreateCarrying(s, x, u)
        PROVE  IInv'
    BY <2>7, PushCreateCarryingStep
  <2>8. ASSUME NEW x \in Subs, NewSubscription(x) PROVE IInv'
    BY <2>8, NewSubscriptionStep
  <2>9. ASSUME NEW x \in Subs, RemoveSubscription(x) PROVE IInv'
    BY <2>9, RemoveActiveStep, RemoveNewStep
  <2>10. ASSUME NEW x \in Subs, DeleteUnattached(x) PROVE IInv'
    BY <2>10, DeleteUnattachedStep
  <2>11. ASSUME NEW x \in Subs, NEW ev \in SUBSET Events, SetEvents(x, ev) PROVE IInv'
    BY <2>11, SetEventsStep
  <2>12. ASSUME NEW x \in Subs, NEW c \in Cids, SetCorrelationId(x, c) PROVE IInv'
    BY <2>12, SetCorrelationIdStep
  <2> QED BY <1>1, <2>1, <2>2, <2>3, <2>4, <2>5, <2>6, <2>7, <2>8, <2>9, <2>10, <2>11,
             <2>12 DEF Application
<1>2. CASE Mbsmf
  BY <1>2, ServeStep, PostNotificationStep DEF Mbsmf
<1>3. CASE Library
  <2>1. ASSUME NEW a \in answers, NEW e \in Events \cup {None}, SessionCreated(a, e)
        PROVE  IInv'
    BY <2>1, SessionCreatedStep
  <2>2. ASSUME NEW a \in answers, NEW e \in Events \cup {None}, NEW x \in Subs,
               SubscriptionCreated(a, x, e)
        PROVE  IInv'
    BY <2>2, SubscriptionCreatedStep
  <2> QED BY <1>3, <2>1, <2>2, SessionRefusedStep, SubscriptionIgnoredStep,
             SessionRemovedStep, TimedOutStep, NotificationRefusedStep,
             NotificationHandledStep DEF Library
<1>4. CASE UNCHANGED vars
  <2>1. TypeOK'
    BY <1>4 DEF IInv, vars, TypeOK
  <2>2. Contained' /\ Requested' /\ UrlsOwned' /\ DeletedEmpty'
    BY <1>4, ContainersKept, FewerRequests, ServersKept, EmptyKept
       DEF IInv, vars, Requested, XactsSound, XactSound
  <2>3. Told' /\ Faultless'
    BY <1>4 DEF IInv, vars, Told, ToldToOwner, Faultless
  <2> QED BY <2>1, <2>2, <2>3 DEF IInv
<1> QED BY <1>1, <1>2, <1>3, <1>4 DEF Next

(* The state has its type and the containers, transactions and servers are  *)
(* sound, whatever the MB-SMF answers and however late.                     *)
THEOREM Invariance == Obedient => (Spec => []IInv)
<1> SUFFICES ASSUME Obedient PROVE Spec => []IInv
  OBVIOUS
<1>1. Init => IInv
  BY InvInit
<1>2. IInv /\ [Next]_vars => IInv'
  BY InvNext
<1> QED BY <1>1, <1>2, PTL DEF Spec

(* The variables keep their types: no id, server or number out of range is  *)
(* ever stored.                                                             *)
THEOREM TypeCorrect == Obedient => (Spec => []TypeOK)
<1>1. IInv => TypeOK
  BY DEF IInv
<1> QED BY <1>1, Invariance, PTL

(* An attached subscription is in exactly one container of its session, and *)
(* no container has a freed one.                                            *)
THEOREM InOneContainer == Obedient => (Spec => []OneContainer)
<1>1. IInv => OneContainer
  <2> SUFFICES ASSUME IInv, NEW x \in Subs, NEW s \in Sessions
               PROVE  IF sub[x].st = "live" /\ sub[x].session = s
                      THEN \/ x \in newl[s] /\ ~InTable(x, s) /\ x \notin dele[s]
                           \/ x \notin newl[s] /\ InTable(x, s) /\ x \notin dele[s]
                           \/ x \notin newl[s] /\ ~InTable(x, s) /\ x \in dele[s]
                      ELSE x \notin newl[s] /\ ~InTable(x, s) /\ x \notin dele[s]
    BY DEF OneContainer
  <2>1. x \in newl[s] => sub[x].session = s /\ sub[x].id = None /\ x \in held
    BY DEF IInv, Contained, Placed
  <2>2. x \in dele[s] => sub[x].session = s /\ sub[x].id # None /\ x \notin held
    BY DEF IInv, Contained, Placed
  <2>3. InTable(x, s) => sub[x].session = s /\ sub[x].id \in Rids /\ x \in held
    BY FieldTypes DEF IInv, Contained, Placed, InTable
  <2>4. sub[x].session = s => x \in newl[s] \/ x \in dele[s] \/ InTable(x, s)
    <3>1. [key |-> sub[x].id, sub |-> x].sub = x
      OBVIOUS
    <3> QED BY <3>1 DEF IInv, Contained, Kept, InTable
  <2>5. sub[x].st # "live" => sub[x].session # s
    BY SubsAssumption DEF IInv, Contained, SubsSound, SubSound
  <2>6. None \notin Rids
    BY SubsAssumption
  <2> QED BY <2>1, <2>2, <2>3, <2>4, <2>5, <2>6
<1> QED BY <1>1, Invariance, PTL

(* The key of an entry of active_subscriptions is the id its subscription   *)
(* has, so that a removal by id removes that subscription.                  *)
THEOREM IdsAreKeys == Obedient => (Spec => []KeyedById)
<1>1. IInv => KeyedById
  BY DEF IInv, Contained, Placed, KeyedById
<1> QED BY <1>1, Invariance, PTL

(* At a fixed notification port, a callback is about the subscription it is *)
(* given, which the application has not given up.                           *)
THEOREM CallbackToOwner == Obedient /\ Fixed => (Spec => []ToldToOwner)
<1> SUFFICES ASSUME Obedient, Fixed PROVE Spec => []ToldToOwner
  OBVIOUS
<1>1. IInv => ToldToOwner
  BY DEF IInv, Told
<1> QED BY <1>1, Invariance, PTL

(* An id is given up by a step that asks for its deletion, or that frees    *)
(* the session.                                                             *)
GivesUp(x) ==
    sub[x].id # None /\ sub'[x].id # sub[x].id =>
        \/ \E r \in wire' \ wire : r.kind = "delete" /\ r.id = sub[x].id
        \/ ses'[sub[x].session].st = "freed"

(* A request with a number that was not used yet is a new one.              *)
LEMMA NewRequest ==
    ASSUME IInv, NEW x \in Subs, sub[x].st # "freed", NEW kind, NEW s
    PROVE  About(kind, s, x) \notin wire
<1>1. sub[x].n \in Nat /\ x # None
  BY FieldTypes, SubsAssumption DEF IInv, Subscription
<1>2. SUFFICES ASSUME About(kind, s, x) \in wire PROVE FALSE
  OBVIOUS
<1>3. About(kind, s, x).sub = x /\ About(kind, s, x).n = sub[x].n + 1
  BY AboutFields
<1>4. About(kind, s, x).n <= sub[x].n
  BY <1>1, <1>2, <1>3 DEF IInv, Requested, Counted
<1> QED BY <1>1, <1>3, <1>4

LEMMA UpdateGivesUp ==
    ASSUME IInv, NEW s \in Sessions, SubscriptionsUpdate(s), NEW x \in Subs
    PROVE  GivesUp(x)
<1>1. CASE x \in dele[s]
  <2> DEFINE r == About("delete", sub[x].session, x)
  <2>1. r \in wire'
    BY <1>1 DEF SubscriptionsUpdate, SubscriptionsRequests
  <2>2. r.kind = "delete" /\ r.id = sub[x].id
    BY AboutFields
  <2>3. sub[x].st # "freed"
    BY <1>1, SubsAssumption DEF IInv, Contained, Placed, SubsSound, SubSound
  <2>4. r \notin wire
    BY <2>3, NewRequest
  <2> HIDE DEF r
  <2> QED BY <2>1, <2>2, <2>4 DEF GivesUp
<1>2. CASE x \notin dele[s]
  BY <1>2, UpdateFields DEF IInv, GivesUp
<1> QED BY <1>1, <1>2

LEMMA AddGivesUp ==
    ASSUME Obedient, IInv, NEW s \in Sessions, NEW y \in Subs, AddSubscription(s, y),
           NEW x \in Subs
    PROVE  GivesUp(x)
<1>1. CASE x # y
  <2>1. sub'[x] = sub[x]
    BY <1>1 DEF AddSubscription, IInv, TypeOK
  <2> QED BY <2>1 DEF GivesUp
<1>2. CASE x = y
  <2> DEFINE r == About("delete", sub[x].session, x)
  <2>1. sub[x].id # None => r \in wire'
    BY <1>2 DEF AddSubscription, Send
  <2>2. r.kind = "delete" /\ r.id = sub[x].id
    BY AboutFields
  <2>3. sub[x].st # "freed"
    BY <1>2 DEF AddSubscription, IInv, Contained, SubsSound, SubSound
  <2>4. r \notin wire
    BY <2>3, NewRequest
  <2> HIDE DEF r
  <2> QED BY <2>1, <2>2, <2>4 DEF GivesUp
<1> QED BY <1>1, <1>2

(* Every step gives ids up as promised. *)
LEMMA StepGivesUp ==
    ASSUME Obedient, IInv, [Next]_vars, NEW x \in Subs
    PROVE  GivesUp(x)
<1>1. ASSUME sub' = sub PROVE GivesUp(x)
  BY <1>1 DEF GivesUp
<1>2. ASSUME sub'[x].id = sub[x].id PROVE GivesUp(x)
  BY <1>2 DEF GivesUp
<1>3. sub \in [Subs -> Subscription]
  BY DEF IInv, TypeOK
<1>4. CASE Application
  <2>1. ASSUME NEW s \in Sessions, NewSession(s) \/ DeleteSession(s) \/ PushRemove(s)
                                   \/ PushCreatePlain(s)
        PROVE  GivesUp(x)
    BY <1>1, <2>1 DEF NewSession, DeleteSession, PushRemove, PushCreatePlain
  <2>2. ASSUME NEW s \in Sessions, PushSubscriptions(s) PROVE GivesUp(x)
    BY <2>2, UpdateGivesUp DEF PushSubscriptions
  <2>3. ASSUME NEW s \in Sessions, NEW y \in Subs, AddSubscription(s, y) PROVE GivesUp(x)
    BY <2>3, AddGivesUp
  <2>4. ASSUME NEW s \in Sessions, NEW y \in Subs, NEW u \in Urls,
               PushCreateCarrying(s, y, u)
        PROVE  GivesUp(x)
    <3>1. sub' = [sub EXCEPT ![y].url = u, ![y].n = sub[y].n + 1]
      BY <2>4 DEF PushCreateCarrying
    <3> QED BY <1>2, <1>3, <3>1 DEF Subscription
  <2>5. ASSUME NEW y \in Subs, NewSubscription(y) PROVE GivesUp(x)
    <3>1. sub' = [sub EXCEPT ![y].st = "live"]
      BY <2>5 DEF NewSubscription
    <3> QED BY <1>2, <1>3, <3>1 DEF Subscription
  <2>6. ASSUME NEW y \in Subs, RemoveSubscription(y) PROVE GivesUp(x)
    <3>1. CASE x = y /\ sub[y].id = None
      BY <3>1 DEF GivesUp
    <3>2. CASE x # y /\ sub[y].id = None
      <4>1. sub' = [sub EXCEPT ![y] = Freed(y)]
        BY <2>6, <3>2 DEF RemoveSubscription
      <4> QED BY <1>2, <1>3, <3>2, <4>1
    <3>3. CASE sub[y].id # None
      <4>1. sub' = [sub EXCEPT ![y].changed = TRUE]
        BY <2>6, <3>3 DEF RemoveSubscription
      <4> QED BY <1>2, <1>3, <4>1 DEF Subscription
    <3> QED BY <3>1, <3>2, <3>3
  <2>7. ASSUME NEW y \in Subs, DeleteUnattached(y) PROVE GivesUp(x)
    <3>1. sub[y].id = None /\ sub' = [sub EXCEPT ![y] = Freed(y)]
      BY <2>7 DEF DeleteUnattached, IInv, Contained, SubsSound, SubSound
    <3>2. CASE x = y
      BY <3>1, <3>2 DEF GivesUp
    <3>3. CASE x # y
      BY <1>2, <1>3, <3>1, <3>3
    <3> QED BY <3>2, <3>3
  <2>8. ASSUME NEW y \in Subs, NEW ev \in SUBSET Events, SetEvents(y, ev) PROVE GivesUp(x)
    <3>1. sub' = [sub EXCEPT ![y].flags = ev, ![y].changed = TRUE]
      BY <2>8 DEF SetEvents
    <3> QED BY <1>2, <1>3, <3>1 DEF Subscription
  <2>9. ASSUME NEW y \in Subs, NEW c \in Cids, SetCorrelationId(y, c) PROVE GivesUp(x)
    <3>1. sub' = [sub EXCEPT ![y].cid = c, ![y].changed = TRUE]
      BY <2>9 DEF SetCorrelationId
    <3> QED BY <1>2, <1>3, <3>1 DEF Subscription
  <2> QED BY <1>4, <2>1, <2>2, <2>3, <2>4, <2>5, <2>6, <2>7, <2>8, <2>9 DEF Application
<1>5. CASE Mbsmf
  BY <1>1, <1>5 DEF Mbsmf, Serve, PostNotification
<1>6. CASE Library
  <2>1. ASSUME NEW a \in answers, SessionRefused(a) \/ SubscriptionIgnored(a)
        PROVE  GivesUp(x)
    BY <1>1, <2>1 DEF SessionRefused, SubscriptionIgnored
  <2>2. ASSUME NEW a \in answers, SessionRemoved(a) PROVE GivesUp(x)
    <3>1. /\ sub'[x] = sub[x] \/ sub[x].session = a.req.s
          /\ ses'[a.req.s].st = "freed"
      BY <2>2, SessionRemovedStep
    <3> QED BY <1>2, <3>1 DEF GivesUp
  <2>3. ASSUME NEW a \in answers, NEW e \in Events \cup {None}, SessionCreated(a, e)
        PROVE  GivesUp(x)
    <3>1. SubscriptionsUpdate(a.req.s) /\ a.req.s \in Sessions
      BY <2>3 DEF SessionCreated, IInv, TypeOK, Request
    <3> QED BY <3>1, UpdateGivesUp
  <2>4. ASSUME NEW a \in answers, NEW e \in Events \cup {None}, NEW y \in Subs,
               SubscriptionCreated(a, y, e)
        PROVE  GivesUp(x)
    <3>1. sub[y].id = None /\ (x # y => sub'[x] = sub[x])
      BY <2>4, SubscriptionCreatedStep
    <3> QED BY <1>2, <3>1 DEF GivesUp
  <2>5. ASSUME NEW r \in xacts, TimedOut(r) PROVE GivesUp(x)
    BY <1>1, <2>5 DEF TimedOut
  <2>6. ASSUME NEW p \in posted, NotificationRefused(p) \/ NotificationHandled(p)
        PROVE  GivesUp(x)
    BY <1>1, <2>6 DEF NotificationRefused, NotificationHandled
  <2> QED BY <1>6, <2>1, <2>2, <2>3, <2>4, <2>5, <2>6 DEF Library
<1>7. CASE UNCHANGED vars
  BY <1>1, <1>7 DEF vars
<1> QED BY <1>4, <1>5, <1>6, <1>7 DEF Next

(* No step loses an id that the MB-SMF gave without asking for its deletion *)
(* or freeing the session: nothing is left behind at the MB-SMF by a move,  *)
(* a removal or a late answer.                                              *)
THEOREM NoIdLost == Obedient => (Spec => IdGivenUpWithDeletion)
<1> SUFFICES ASSUME Obedient PROVE Spec => IdGivenUpWithDeletion
  OBVIOUS
<1> DEFINE A == \A x \in Subs :
                   sub[x].id # None /\ sub'[x].id # sub[x].id =>
                       \/ \E r \in wire' \ wire : r.kind = "delete" /\ r.id = sub[x].id
                       \/ ses'[sub[x].session].st = "freed"
<1>1. IInv /\ [Next]_vars => [A]_vars
  BY StepGivesUp DEF GivesUp
<1> QED BY <1>1, Invariance, PTL DEF Spec, IdGivenUpWithDeletion

(* A session without a table is met by no notification if every new session *)
(* gets a subscription before the program returns to its event loop.        *)
LEMMA NoFaultNext ==
    ASSUME "tables" \in Rules, IInv, IInv', NoFault, [Next]_vars
    PROVE  NoFault'
<1>1. SUFFICES ASSUME fault' = "no table" PROVE FALSE
  BY DEF IInv, Faultless, NoFault
<1>2. CASE Application
  <2>1. ASSUME NEW s \in Sessions, NewSession(s) \/ DeleteSession(s) \/ PushRemove(s)
                                   \/ PushCreatePlain(s)
        PROVE  FALSE
    BY <1>1, <2>1 DEF NoFault, NewSession, DeleteSession, PushRemove, PushCreatePlain
  <2>2. ASSUME NEW s \in Sessions, PushSubscriptions(s) PROVE FALSE
    BY <1>1, <2>2 DEF NoFault, PushSubscriptions, SubscriptionsUpdate
  <2>3. ASSUME NEW s \in Sessions, NEW x \in Subs, AddSubscription(s, x) PROVE FALSE
    BY <1>1, <2>3 DEF NoFault, AddSubscription
  <2>4. ASSUME NEW s \in Sessions, NEW x \in Subs, NEW u \in Urls,
               PushCreateCarrying(s, x, u)
        PROVE  FALSE
    BY <1>1, <2>4 DEF NoFault, PushCreateCarrying
  <2>5. ASSUME NEW x \in Subs, NewSubscription(x) \/ RemoveSubscription(x)
                               \/ DeleteUnattached(x)
        PROVE  FALSE
    BY <1>1, <2>5 DEF NoFault, NewSubscription, RemoveSubscription, DeleteUnattached
  <2>6. ASSUME NEW x \in Subs, NEW ev, SetEvents(x, ev) PROVE FALSE
    BY <1>1, <2>6 DEF NoFault, SetEvents
  <2>7. ASSUME NEW x \in Subs, NEW c, SetCorrelationId(x, c) PROVE FALSE
    BY <1>1, <2>7 DEF NoFault, SetCorrelationId
  <2> QED BY <1>2, <2>1, <2>2, <2>3, <2>4, <2>5, <2>6, <2>7 DEF Application
<1>3. CASE Mbsmf
  BY <1>1, <1>3 DEF NoFault, Mbsmf, Serve, PostNotification
<1>4. CASE Library
  <2>1. ASSUME NEW p \in posted, NotificationHandled(p) PROVE FALSE
    <3>1. ~MeetsNoTable(p.url)
      BY <2>1 DEF NotificationHandled, InLoop, MeetsNoTable, Listed
    <3> QED BY <1>1, <2>1, <3>1 DEF NoFault, NotificationHandled
  <2>2. ASSUME NEW a \in answers, SessionRefused(a) \/ SubscriptionIgnored(a)
                                  \/ SessionRemoved(a)
        PROVE  FALSE
    BY <1>1, <2>2 DEF NoFault, SessionRefused, SubscriptionIgnored, SessionRemoved
  <2>3. ASSUME NEW a \in answers, NEW e, SessionCreated(a, e) PROVE FALSE
    BY <1>1, <2>3 DEF NoFault, SessionCreated, SubscriptionsUpdate
  <2>4. ASSUME NEW a \in answers, NEW x \in Subs, NEW e, SubscriptionCreated(a, x, e)
        PROVE  FALSE
    BY <1>1, <2>4 DEF NoFault, SubscriptionCreated
  <2>5. ASSUME NEW r \in xacts, TimedOut(r) PROVE FALSE
    BY <1>1, <2>5 DEF NoFault, TimedOut
  <2>6. ASSUME NEW p \in posted, NotificationRefused(p) PROVE FALSE
    BY <1>1, <2>6 DEF NoFault, NotificationRefused
  <2> QED BY <1>4, <2>1, <2>2, <2>3, <2>4, <2>5, <2>6 DEF Library
<1>5. CASE UNCHANGED vars
  BY <1>1, <1>5 DEF NoFault, vars
<1> QED BY <1>2, <1>3, <1>4, <1>5 DEF Next

(* Nothing ends the program: no list is linked twice, no table is missing   *)
(* or wrong and no freed subscription is touched.                           *)
THEOREM Safe == Obedient /\ "tables" \in Rules => (Spec => []NoFault)
<1> SUFFICES ASSUME Obedient, "tables" \in Rules PROVE Spec => []NoFault
  OBVIOUS
<1>1. Init => NoFault
  BY DEF Init, NoFault
<1>2. IInv /\ IInv' /\ NoFault /\ [Next]_vars => NoFault'
  BY NoFaultNext
<1> QED BY <1>1, <1>2, Invariance, PTL DEF Spec

=============================================================================
