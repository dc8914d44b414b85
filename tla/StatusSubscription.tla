------------------------- MODULE StatusSubscription -------------------------
(***************************************************************************)
(* The status subscriptions of MBS sessions.  A session keeps its          *)
(* subscriptions in three containers: the list of new ones, the table of   *)
(* active ones, which the id given by the MB-SMF keys, and the list of     *)
(* those to delete.  The application adds, changes and removes             *)
(* subscriptions; a push sends the requests; answers and notifications are *)
(* matched by correlation id and by notification URL.                      *)
(*                                                                         *)
(* The session's own life cycle is that of module MbsSession for an        *)
(* application that waits for the creation of a session and keeps its SSM  *)
(* and TMGI.                                                               *)
(***************************************************************************)
EXTENDS Naturals

CONSTANTS
    Sessions, Subs,
    Cids,       \* correlation ids; NULL is one of them if the instance has it
    Events,     \* event types a subscription may ask for
    Urls,       \* ports, or paths at the fixed port, of notification servers
    Fixed,      \* a fixed notification port is configured
    Rules,      \* what the application refrains from
    MaxReq,     \* bound on the requests made for one subscription
    None

\* A resource of the MB-SMF is named after the request that made it: the n-th request
\* about subscription sub.
Rids == [sub : Subs, n : 1 .. MaxReq]

ASSUME SubsAssumption ==
    /\ None \notin Sessions \cup Subs \cup Urls \cup Events \cup Rids
    /\ Fixed \in BOOLEAN
    /\ MaxReq \in Nat
    /\ Rules \subseteq {"settled", "unique", "emptied", "tables"}

VARIABLES
    ses,        \* the sessions
    sub,        \* the subscriptions
    newl,       \* new_subscriptions of a session
    active,     \* active_subscriptions of a session: entries of the table
    dele,       \* deleted_subscriptions of a session
    xacts,      \* transactions
    wire,       \* requests on their way to the MB-SMF
    answers,    \* answers on their way back
    remote,     \* subscriptions the MB-SMF has
    posted,     \* notifications on their way
    held,       \* subscriptions the application may still use
    told,       \* the notification callback of the last step, if it made one
    stamp,      \* additions to lists so far: lists keep the order of addition
    fault       \* what ended the program, if anything

vars == <<ses, sub, newl, active, dele, xacts, wire, answers, remote, posted,
          held, told, stamp, fault>>

(***************************************************************************)
(* Types.                                                                  *)
(***************************************************************************)
Session == [st : {"none", "live", "freed"}, asked : BOOLEAN, created : BOOLEAN,
            deleted : BOOLEAN, table : BOOLEAN, at : Nat]

Subscription == [st : {"none", "live", "freed"}, session : Sessions \cup {None},
                 id : Rids \cup {None}, cid : Cids, flags : SUBSET Events,
                 changed : BOOLEAN, url : Urls \cup {None}, n : 0 .. MaxReq, at : Nat]

Request == [kind : {"session", "remove", "create", "update", "delete"},
            s : Sessions, sub : Subs \cup {None}, n : 0 .. MaxReq,
            id : Rids \cup {None}, cid : Cids \cup {None}, url : Urls \cup {None}]

Resource == [rid : Rids, cid : Cids, url : Urls \cup {None}]

Faults == {"none", "linked twice", "no table", "bad table", "freed"}

TypeOK ==
    /\ ses \in [Sessions -> Session]
    /\ sub \in [Subs -> Subscription]
    /\ newl \in [Sessions -> SUBSET Subs]
    /\ active \in [Sessions -> SUBSET [key : Rids, sub : Subs]]
    /\ dele \in [Sessions -> SUBSET Subs]
    /\ xacts \subseteq Request
    /\ wire \subseteq Request
    /\ answers \subseteq [req : Request, ok : BOOLEAN]
    /\ remote \subseteq Resource
    /\ posted \subseteq [rid : Rids, url : Urls, event : Events]
    /\ held \subseteq Subs
    /\ told \in [sub : Subs, rid : Rids, held : BOOLEAN] \cup {None}
    /\ stamp \in Nat
    /\ fault \in Faults

Init ==
    /\ ses = [s \in Sessions |-> [st |-> "none", asked |-> FALSE, created |-> FALSE,
                                  deleted |-> FALSE, table |-> FALSE, at |-> 0]]
    /\ sub \in [Subs -> [st : {"none"}, session : {None}, id : {None}, cid : Cids,
                         flags : {Events}, changed : {FALSE}, url : {None}, n : {0},
                         at : {0}]]
    /\ newl = [s \in Sessions |-> {}]
    /\ active = [s \in Sessions |-> {}]
    /\ dele = [s \in Sessions |-> {}]
    /\ xacts = {}
    /\ wire = {}
    /\ answers = {}
    /\ remote = {}
    /\ posted = {}
    /\ held = {}
    /\ told = None
    /\ stamp = 0
    /\ fault = "none"

-----------------------------------------------------------------------------
(***************************************************************************)
(* The rules.  "settled": an attached subscription is changed, moved or    *)
(* removed only before its request was sent or once it has its id.         *)
(* "unique": the subscriptions have different correlation ids.  "emptied": *)
(* a session is deleted only when it has no active subscription.           *)
(* "tables": every new session is given a subscription before the program  *)
(* returns to its event loop.                                              *)
(***************************************************************************)
Pending(x) == \E r \in xacts : r.kind \in {"create", "session"} /\ r.sub = x

Settled(x) == "settled" \in Rules => ~Pending(x)

Distinct(x, c) == "unique" \in Rules =>
                      \A y \in Subs \ {x} : sub[y].st = "live" => sub[y].cid # c

InLoop == "tables" \in Rules =>
              \A s \in Sessions : ses[s].st = "live" => ses[s].table

Running == fault = "none"

\* _mbs_status_subscription_delete: what the freed memory held is of no meaning.
Freed(x) == [sub[x] EXCEPT !.st = "freed", !.session = None, !.id = None, !.flags = {},
                           !.changed = FALSE, !.at = 0]

-----------------------------------------------------------------------------
(***************************************************************************)
(* Lookups.                                                                *)
(***************************************************************************)
\* The entries of a session's table that point to freed memory.
Dangling(s) == \E e \in active[s] : sub[e.sub].st = "freed"

FindSubscriptionMutant(s, c) == newl[s] \cup {e.sub : e \in active[s]}

\* _mbs_session_find_subscription: the first new one, or else any active one, as the
\* table is walked in the order of its hashes.
FindSubscription(s, c) ==
    LET new == {x \in newl[s] : sub[x].cid = c} IN
    IF ses[s].deleted THEN {}
    ELSE IF new # {} THEN {x \in new : \A y \in new : sub[x].at <= sub[y].at}
    ELSE {e.sub : e \in {f \in active[s] : sub[f.sub].cid = c}}

Attached(s) == newl[s] \cup {e.sub : e \in active[s]}

Listening(s, u) == {x \in Attached(s) : sub[x].url = u}

Listed == {s \in Sessions : ses[s].st = "live"}

\* _context_is_notification_server: one server for all at a fixed port, else one each.
IsNotificationServer(u) ==
    \E s \in Listed : \E x \in Attached(s) : IF Fixed THEN sub[x].url # None
                                                    ELSE sub[x].url = u

FindByUrlMutant(u) == UNION {Attached(s) : s \in Listed}

\* _context_find_subscription: the first listed session with a subscription at this URL.
FindByUrl(u) ==
    {x \in Subs : \E s \in Listed :
        /\ x \in Listening(s, u)
        /\ \A t \in Listed : ses[t].at < ses[s].at => Listening(t, u) = {}}

\* The walk also asks the tables of the sessions before that one, and not every session
\* has a table.
MeetsNoTable(u) ==
    \E s \in Listed :
        /\ ~ses[s].table
        /\ \A t \in Listed : ses[t].at <= ses[s].at => Listening(t, u) = {}

-----------------------------------------------------------------------------
(***************************************************************************)
(* Calls of the application.                                               *)
(***************************************************************************)
NewSession(s) ==
    /\ Running /\ InLoop
    /\ ses[s].st = "none"
    /\ ses' = [ses EXCEPT ![s].st = "live", ![s].at = stamp + 1]
    /\ stamp' = stamp + 1
    /\ told' = None
    /\ UNCHANGED <<sub, newl, active, dele, xacts, wire, answers, remote, posted, held,
                   fault>>

NewSubscription(x) ==
    /\ Running
    /\ sub[x].st = "none"
    /\ Distinct(x, sub[x].cid)
    /\ sub' = [sub EXCEPT ![x].st = "live"]
    /\ held' = held \cup {x}
    /\ told' = None
    /\ UNCHANGED <<ses, newl, active, dele, xacts, wire, answers, remote, posted, stamp,
                   fault>>

\* The setters of the area session id, the expiry time and the event flags.
SetEvents(x, ev) ==
    /\ Running /\ x \in held
    /\ Settled(x)
    /\ sub[x].flags # ev
    /\ sub' = [sub EXCEPT ![x].flags = ev, ![x].changed = TRUE]
    /\ told' = None
    /\ UNCHANGED <<ses, newl, active, dele, xacts, wire, answers, remote, posted, held,
                   stamp, fault>>

SetCorrelationId(x, c) ==
    /\ Running /\ x \in held
    /\ Settled(x) /\ Distinct(x, c)
    /\ sub[x].cid # c
    /\ sub' = [sub EXCEPT ![x].cid = c, ![x].changed = TRUE]
    /\ told' = None
    /\ UNCHANGED <<ses, newl, active, dele, xacts, wire, answers, remote, posted, held,
                   stamp, fault>>

AboutMutant(kind, s, x) ==
    [kind |-> kind, s |-> s, sub |-> x, n |-> sub[x].n + 1, id |-> None,
     cid |-> sub[x].cid, url |-> sub[x].url]

\* A request as ogs_sbi_xact_add builds it, from what the subscription holds now.
About(kind, s, x) ==
    [kind |-> kind, s |-> s, sub |-> x, n |-> sub[x].n + 1,
     id |-> IF kind = "create" THEN None ELSE sub[x].id,
     cid |-> sub[x].cid, url |-> sub[x].url]

Send(rs) ==
    /\ xacts' = xacts \cup rs
    /\ wire' = wire \cup rs

TableWithoutMutant(s, id) == active[s]

\* ogs_hash_set of a null value: the entry with this key goes.
TableWithout(s, id) == {e \in active[s] : e.key # id}

\* Adding a subscription that is active elsewhere (or here) takes it from that table by
\* its id and deletes it at the MB-SMF first.
AddSubscription(s, x) ==
    /\ Running /\ x \in held
    /\ ses[s].st = "live" /\ ~ses[s].deleted
    /\ Settled(x)
    /\ "settled" \in Rules => sub[x].session = None \/ sub[x].id # None
    /\ ses' = [ses EXCEPT ![s].table = TRUE]
    /\ IF sub[x].id # None
       THEN LET old == sub[x].session IN
            /\ sub[x].n < MaxReq
            /\ active' = [active EXCEPT ![old] = TableWithout(old, sub[x].id)]
            /\ Send({About("delete", old, x)})
            /\ sub' = [sub EXCEPT ![x].id = None, ![x].session = s, ![x].changed = TRUE,
                                  ![x].n = sub[x].n + 1, ![x].at = stamp + 1]
       ELSE /\ sub' = [sub EXCEPT ![x].session = s, ![x].changed = TRUE, ![x].at = stamp + 1]
            /\ UNCHANGED <<active, xacts, wire>>
    /\ newl' = [newl EXCEPT ![s] = newl[s] \cup {x}]
    /\ stamp' = stamp + 1
    /\ fault' = IF \E t \in Sessions : x \in newl[t] THEN "linked twice" ELSE fault
    /\ told' = None
    /\ UNCHANGED <<dele, answers, remote, posted, held>>

\* mb_smf_sc_mbs_session_remove_subscription, and mb_smf_sc_mbs_status_subscription_delete
\* of an attached subscription: an active one waits for the next push, a new one is freed.
RemoveSubscription(x) ==
    LET s == sub[x].session IN
    /\ Running /\ x \in held
    /\ Settled(x)
    /\ s # None /\ ~ses[s].deleted
    /\ held' = held \ {x}
    /\ IF sub[x].id # None
       THEN /\ active' = [active EXCEPT ![s] = TableWithout(s, sub[x].id)]
            /\ dele' = [dele EXCEPT ![s] = dele[s] \cup {x}]
            /\ sub' = [sub EXCEPT ![x].changed = TRUE]
            /\ UNCHANGED newl
       ELSE /\ newl' = [newl EXCEPT ![s] = newl[s] \ {x}]
            /\ sub' = [sub EXCEPT ![x] = Freed(x)]
            /\ UNCHANGED <<active, dele>>
    /\ told' = None
    /\ UNCHANGED <<ses, xacts, wire, answers, remote, posted, stamp, fault>>

\* mb_smf_sc_mbs_status_subscription_delete of one that was never added.
DeleteUnattached(x) ==
    /\ Running /\ x \in held
    /\ sub[x].session = None
    /\ sub' = [sub EXCEPT ![x] = Freed(x)]
    /\ held' = held \ {x}
    /\ told' = None
    /\ UNCHANGED <<ses, newl, active, dele, xacts, wire, answers, remote, posted, stamp,
                   fault>>

DeleteSession(s) ==
    /\ Running
    /\ ses[s].created /\ ~ses[s].deleted
    /\ "emptied" \in Rules => active[s] = {} /\ ~\E r \in xacts : r.s = s
    /\ ses' = [ses EXCEPT ![s].deleted = TRUE]
    /\ told' = None
    /\ UNCHANGED <<sub, newl, active, dele, xacts, wire, answers, remote, posted, held,
                   stamp, fault>>

-----------------------------------------------------------------------------
(***************************************************************************)
(* Pushes.  _mbs_session_push_changes sends the removal of a deleted       *)
(* session, the creation of one that was not accepted yet, and otherwise   *)
(* brings the subscriptions up to date.                                    *)
(***************************************************************************)
\* A request about the session alone.
Plain(kind, s) ==
    [kind |-> kind, s |-> s, sub |-> None, n |-> 0, id |-> None, cid |-> None, url |-> None]

PushRemove(s) ==
    /\ Running /\ InLoop
    /\ ses[s].st = "live" /\ ses[s].deleted
    /\ Plain("remove", s) \notin wire \cup xacts
    /\ Send({Plain("remove", s)})
    /\ told' = None
    /\ UNCHANGED <<ses, sub, newl, active, dele, answers, remote, posted, held, stamp,
                   fault>>

\* The subscription that the creation of the session carries: the first new one.
Carried(s) == {x \in newl[s] : \A y \in newl[s] : sub[x].at <= sub[y].at}

\* __allocate_notification_server: a path never used before at the fixed port, or a free
\* port, possibly one that a freed subscription had.
ServersFor(x) ==
    IF sub[x].url # None THEN {sub[x].url}
    ELSE Urls \ {sub[y].url : y \in {z \in Subs : Fixed \/ sub[z].st = "live"}}

PushCreatePlain(s) ==
    /\ Running /\ InLoop
    /\ ses[s].st = "live" /\ ~ses[s].created /\ ~ses[s].asked
    /\ \A x \in Carried(s) : sub[x].flags = {}
    /\ Plain("session", s) \notin wire
    /\ ses' = [ses EXCEPT ![s].asked = TRUE]
    /\ Send({Plain("session", s)})
    /\ told' = None
    /\ UNCHANGED <<sub, newl, active, dele, answers, remote, posted, held, stamp, fault>>

PushCreateCarrying(s, x, u) ==
    /\ Running /\ InLoop
    /\ ses[s].st = "live" /\ ~ses[s].created /\ ~ses[s].asked
    /\ x \in Carried(s) /\ sub[x].flags # {} /\ u \in ServersFor(x)
    /\ sub[x].n < MaxReq
    /\ ses' = [ses EXCEPT ![s].asked = TRUE]
    /\ sub' = [sub EXCEPT ![x].url = u, ![x].n = sub[x].n + 1]
    /\ Send({[About("session", s, x) EXCEPT !.id = None, !.url = u]})
    /\ told' = None
    /\ UNCHANGED <<newl, active, dele, answers, remote, posted, held, stamp, fault>>

\* _mbs_session_subscriptions_update: creations for the changed new ones, updates for the
\* changed active ones, deletions for the removed ones, which are freed at once.
ToCreate(s) == {x \in newl[s] : sub[x].changed}
ToUpdate(s) == {x \in Subs : sub[x].changed /\ \E e \in active[s] : e.sub = x}

SubscriptionsRequests(s) ==
    {About("create", sub[x].session, x) : x \in ToCreate(s)}
    \cup {About("update", sub[x].session, x) : x \in ToUpdate(s)}
    \cup {About("delete", sub[x].session, x) : x \in dele[s]}

Asked(s) == ToCreate(s) \cup ToUpdate(s) \cup dele[s]

SubscriptionsUpdateMutant(s) ==
    /\ \A x \in Asked(s) : sub[x].n < MaxReq
    /\ sub' = [x \in Subs |->
                 IF x \in dele[s] THEN Freed(x)
                 ELSE IF x \in Asked(s)
                 THEN [sub[x] EXCEPT !.changed = FALSE, !.n = sub[x].n + 1]
                 ELSE sub[x]]
    /\ wire' = wire \cup SubscriptionsRequests(s)
    /\ dele' = dele
    /\ fault' = IF Dangling(s) THEN "freed" ELSE fault

SubscriptionsUpdate(s) ==
    /\ \A x \in Asked(s) : sub[x].n < MaxReq
    /\ sub' = [x \in Subs |->
                 IF x \in dele[s] THEN Freed(x)
                 ELSE IF x \in Asked(s)
                 THEN [sub[x] EXCEPT !.changed = FALSE, !.n = sub[x].n + 1]
                 ELSE sub[x]]
    /\ wire' = wire \cup SubscriptionsRequests(s)
    /\ dele' = [dele EXCEPT ![s] = {}]
    /\ fault' = IF Dangling(s) THEN "freed" ELSE fault

PushSubscriptions(s) ==
    /\ Running /\ InLoop
    /\ ses[s].st = "live" /\ ses[s].created /\ ~ses[s].deleted
    /\ Asked(s) # {}
    /\ SubscriptionsUpdate(s)
    /\ xacts' = xacts \cup SubscriptionsRequests(s)
    /\ told' = None
    /\ UNCHANGED <<ses, newl, active, answers, remote, posted, held, stamp>>

-----------------------------------------------------------------------------
(***************************************************************************)
(* The MB-SMF, which serves, refuses or never sees a request, and posts    *)
(* notifications.                                                          *)
(***************************************************************************)
Serve(r, ok) ==
    /\ Running /\ r \in wire
    /\ wire' = wire \ {r}
    /\ answers' = IF r \in xacts THEN answers \cup {[req |-> r, ok |-> ok]} ELSE answers
    /\ remote' =
         IF ~ok THEN remote
         ELSE IF r.kind \in {"session", "create"} /\ r.sub # None
         THEN remote \cup {[rid |-> [sub |-> r.sub, n |-> r.n], cid |-> r.cid, url |-> r.url]}
         ELSE IF r.kind = "delete" THEN {q \in remote : q.rid # r.id}
         ELSE remote
    /\ told' = None
    /\ UNCHANGED <<ses, sub, newl, active, dele, xacts, posted, held, stamp, fault>>

\* Notifications are posted one at a time.
PostNotification(q, e) ==
    /\ Running /\ q \in remote /\ q.url # None
    /\ posted = {}
    /\ posted' = posted \cup {[rid |-> q.rid, url |-> q.url, event |-> e]}
    /\ told' = None
    /\ UNCHANGED <<ses, sub, newl, active, dele, xacts, wire, answers, remote, held,
                   stamp, fault>>

-----------------------------------------------------------------------------
(***************************************************************************)
(* Handlers of mb_smf_sc_process_event.                                    *)
(***************************************************************************)
\* The callback of x is called for an event it has asked for; there may be none to report.
Report(x, rid, e) ==
    told' = IF e \in sub[x].flags THEN [sub |-> x, rid |-> rid, held |-> x \in held]
                                   ELSE None

\* An accepted creation of a session may report an event to the subscription it carried,
\* and is followed by a push of the subscriptions.
SessionCreated(a, e) ==
    LET s == a.req.s
        rid == [sub |-> a.req.sub, n |-> a.req.n]
    IN
    /\ Running /\ InLoop /\ a \in answers
    /\ a.req \in xacts /\ a.req.kind = "session" /\ a.ok
    /\ answers' = answers \ {a}
    /\ ses' = [ses EXCEPT ![s].created = TRUE, ![s].asked = FALSE]
    /\ SubscriptionsUpdate(s)
    /\ xacts' = (xacts \ {a.req}) \cup SubscriptionsRequests(s)
    /\ IF a.req.sub = None \/ FindSubscription(s, a.req.cid) = {}
       THEN told' = None
       ELSE \E x \in FindSubscription(s, a.req.cid) : Report(x, rid, e)
    /\ UNCHANGED <<newl, active, remote, posted, held, stamp>>

SessionRefused(a) ==
    /\ Running /\ InLoop /\ a \in answers
    /\ a.req \in xacts /\ a.req.kind = "session" /\ ~a.ok
    /\ answers' = answers \ {a}
    /\ xacts' = xacts \ {a.req}
    /\ ses' = [ses EXCEPT ![a.req.s].asked = FALSE]
    /\ told' = None
    /\ UNCHANGED <<sub, newl, active, dele, wire, remote, posted, held, stamp, fault>>

\* _nmbsmf_mbs_session_subscription_response: the subscription with the correlation id of
\* the answer gets the id, and moves from the list to the table if it is on the list.
SubscriptionCreated(a, x, e) ==
    LET s == a.req.s
        rid == [sub |-> a.req.sub, n |-> a.req.n]
    IN
    /\ Running /\ InLoop /\ a \in answers
    /\ a.req \in xacts /\ a.req.kind = "create" /\ a.ok
    /\ x \in FindSubscription(s, a.req.cid)
    /\ answers' = answers \ {a}
    /\ xacts' = xacts \ {a.req}
    /\ IF Dangling(s)
       THEN /\ fault' = "freed"
            /\ told' = None
            /\ UNCHANGED <<sub, newl, active, ses>>
       ELSE /\ sub' = [sub EXCEPT ![x].id = rid]
            /\ newl' = [newl EXCEPT ![s] = newl[s] \ {x}]
            /\ active' = IF x \in newl[s]
                         THEN [active EXCEPT ![s] = TableWithout(s, rid)
                                                   \cup {[key |-> rid, sub |-> x]}]
                         ELSE active
            /\ ses' = [ses EXCEPT ![s].table = TRUE]
            /\ Report(x, rid, e)
            /\ UNCHANGED fault
    /\ UNCHANGED <<dele, wire, remote, posted, held, stamp>>

\* No such subscription, a refusal, or the answer to an update or a deletion: the library
\* does nothing about it.
SubscriptionIgnored(a) ==
    /\ Running /\ InLoop /\ a \in answers
    /\ a.req \in xacts
    /\ \/ a.req.kind = "create" /\ (~a.ok \/ FindSubscription(a.req.s, a.req.cid) = {})
       \/ a.req.kind \in {"update", "delete"}
    /\ answers' = answers \ {a}
    /\ xacts' = xacts \ {a.req}
    /\ told' = None
    /\ UNCHANGED <<ses, sub, newl, active, dele, wire, remote, posted, held, stamp, fault>>

\* Any answer to the removal of a session destroys it, its subscriptions and its
\* transactions.  The table is freed through a pointer to the session.
SessionRemoved(a) ==
    LET s == a.req.s
        freed == newl[s] \cup dele[s]
    IN
    /\ Running /\ InLoop /\ a \in answers
    /\ a.req \in xacts /\ a.req.kind = "remove"
    /\ IF active[s] # {}
       THEN /\ fault' = "bad table"
            /\ answers' = answers \ {a}
            /\ UNCHANGED <<ses, sub, newl, dele, xacts, held>>
       ELSE /\ ses' = [ses EXCEPT ![s].st = "freed"]
            /\ sub' = [x \in Subs |-> IF x \in freed THEN Freed(x) ELSE sub[x]]
            /\ newl' = [newl EXCEPT ![s] = {}]
            /\ dele' = [dele EXCEPT ![s] = {}]
            /\ xacts' = {r \in xacts : r.s # s}
            /\ answers' = {b \in answers : b.req.s # s}
            /\ held' = held \ freed
            /\ UNCHANGED fault
    /\ told' = None
    /\ UNCHANGED <<active, wire, remote, posted, stamp>>

\* A timer removes its transaction; an answer that comes later finds none and is dropped,
\* so it is dropped here.
TimedOut(r) ==
    /\ Running /\ InLoop /\ r \in xacts
    /\ xacts' = xacts \ {r}
    /\ answers' = {a \in answers : a.req # r}
    /\ ses' = IF r.kind = "session" THEN [ses EXCEPT ![r.s].asked = FALSE] ELSE ses
    /\ told' = None
    /\ UNCHANGED <<sub, newl, active, dele, wire, remote, posted, held, stamp, fault>>

\* OGS_EVENT_SBI_SERVER: refused when no subscription uses the server.
NotificationRefused(p) ==
    /\ Running /\ InLoop /\ p \in posted
    /\ ~IsNotificationServer(p.url)
    /\ posted' = posted \ {p}
    /\ told' = None
    /\ UNCHANGED <<ses, sub, newl, active, dele, xacts, wire, answers, remote, held,
                   stamp, fault>>

NotificationHandled(p) ==
    /\ Running /\ InLoop /\ p \in posted
    /\ IsNotificationServer(p.url)
    /\ posted' = posted \ {p}
    /\ IF MeetsNoTable(p.url)
       THEN fault' = "no table" /\ told' = None
       ELSE IF \E s \in Listed : Dangling(s)
       THEN fault' = "freed" /\ told' = None
       ELSE /\ IF FindByUrl(p.url) = {}
               THEN told' = None
               ELSE \E x \in FindByUrl(p.url) : Report(x, p.rid, p.event)
            /\ UNCHANGED fault
    /\ UNCHANGED <<ses, sub, newl, active, dele, xacts, wire, answers, remote, held, stamp>>

-----------------------------------------------------------------------------
Application ==
    \/ \E s \in Sessions : \/ NewSession(s) \/ DeleteSession(s) \/ PushRemove(s)
                           \/ PushCreatePlain(s) \/ PushSubscriptions(s)
                           \/ \E x \in Subs : \/ AddSubscription(s, x)
                                             \/ \E u \in Urls : PushCreateCarrying(s, x, u)
    \/ \E x \in Subs : \/ NewSubscription(x) \/ RemoveSubscription(x) \/ DeleteUnattached(x)
                       \/ \E ev \in SUBSET Events : SetEvents(x, ev)
                       \/ \E c \in Cids : SetCorrelationId(x, c)

Mbsmf ==
    \/ \E r \in wire, ok \in BOOLEAN : Serve(r, ok)
    \/ \E q \in remote, e \in Events : PostNotification(q, e)

Library ==
    \/ \E a \in answers : \/ SessionRefused(a) \/ SubscriptionIgnored(a) \/ SessionRemoved(a)
                          \/ \E e \in Events \cup {None} :
                                \/ SessionCreated(a, e)
                                \/ \E x \in Subs : SubscriptionCreated(a, x, e)
    \/ \E r \in xacts : TimedOut(r)
    \/ \E p \in posted : NotificationRefused(p) \/ NotificationHandled(p)

Next == Application \/ Mbsmf \/ Library

Spec == Init /\ [][Next]_vars

-----------------------------------------------------------------------------
(***************************************************************************)
(* Properties.                                                             *)
(***************************************************************************)
InTable(x, s) == \E e \in active[s] : e.sub = x

\* A live subscription that was added to a session is in exactly one of the containers of
\* that session and in none of another, and no container has a freed one: whoever walks a
\* container finds every subscription once and touches no freed memory.
OneContainer ==
    \A x \in Subs, s \in Sessions :
        IF sub[x].st = "live" /\ sub[x].session = s
        THEN \/ x \in newl[s] /\ ~InTable(x, s) /\ x \notin dele[s]
             \/ x \notin newl[s] /\ InTable(x, s) /\ x \notin dele[s]
             \/ x \notin newl[s] /\ ~InTable(x, s) /\ x \in dele[s]
        ELSE x \notin newl[s] /\ ~InTable(x, s) /\ x \notin dele[s]

\* active_subscriptions is "indexed by their id": the key of an entry is the id its
\* subscription has now, so that removing by id removes that subscription.
KeyedById == \A s \in Sessions : \A e \in active[s] : sub[e.sub].id = e.key

\* A callback is about a subscription that the application has not given up, and reports
\* an event of a resource that was made for that subscription.
ToldToOwner == told # None => told.held /\ told.rid.sub = told.sub

\* An id that the MB-SMF gave leaves the library only in a step that asks for its
\* deletion, or with the session.
IdGivenUpWithDeletion ==
    [][\A x \in Subs :
          sub[x].id # None /\ sub'[x].id # sub[x].id =>
              \/ \E r \in wire' \ wire : r.kind = "delete" /\ r.id = sub[x].id
              \/ ses'[sub[x].session].st = "freed"]_vars

\* Nothing ends the program: no list is linked twice, no missing or wrong table is used
\* and no freed subscription is touched.
NoFault == fault = "none"
=============================================================================
