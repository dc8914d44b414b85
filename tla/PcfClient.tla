----------------------------- MODULE PcfClient -----------------------------
(***************************************************************************)
(* The PCF service consumer (lib/pcf-service-consumer): PCF sessions, the  *)
(* application sessions on each, their requests to the PCF, the answers,   *)
(* and the notifications of the PCF. One call of the application or one    *)
(* event of pcf_session_process_event is one step.                         *)
(*                                                                         *)
(* A request carries the address of its application session, and so does   *)
(* the notification URL given to the PCF. When an answer or a notification *)
(* comes back, the library looks for that address among the sessions it    *)
(* has. The allocator is free to give the address of a freed session to a  *)
(* new one, so a session is told apart from its address here: mem[a].who   *)
(* numbers the creations. An AppSessionContext at the PCF is named after   *)
(* the request that created it.                                            *)
(*                                                                         *)
(* The application uses an application session from the change callback    *)
(* that gives it the session until the one that gives it a null pointer.   *)
(***************************************************************************)
EXTENDS Naturals, FiniteSets

CONSTANTS
    Pcf,              \* PCF sessions
    Addr,             \* addresses of application sessions
    Outcomes,         \* how requests end
    CallbackCreates,  \* may the application create a session in a callback?
    MaxRequest,       \* bound on the requests
    MaxNotification   \* bound on the notifications

Outcome ==
    {"ok",         \* the status that the handler expects
     "refused",    \* another status
     "unusable",   \* 201 or 200 without what the handler needs, or unparsable
     "timeup",     \* OGS_TIMEUP
     "broken"}     \* OGS_DONE or any other state but OGS_OK

ASSUME PcfAssumption == Pcf # {}
ASSUME OutcomeAssumption == Outcomes \subseteq Outcome
ASSUME CallbackAssumption == CallbackCreates \in BOOLEAN
ASSUME BoundAssumption == MaxRequest \in Nat /\ MaxNotification \in Nat

VARIABLES
    pcf,        \* pcf[p]: the PCF session was never made, is open or freed
    apps,       \* apps[p]: the list pcf_app_sessions
    mem,        \* mem[a]: the application session at an address
    made,       \* number of application sessions created
    serial,     \* number of requests built
    wire,       \* requests the PCF has not answered
    events,     \* client events in the application's queue
    notifs,     \* notifications in flight or in the queue
    fault,      \* "none", or how the program stopped
    reports,    \* history: calls of change callbacks
    notified,   \* history: calls of notification callbacks
    answered,   \* history: creations whose end was taken from the queue, and the outcome
    lost,       \* history: creations with a request that was lost or refused
    hasty,      \* history: the application asked something of a PCF session before
                \* the last answer was dealt with, or a session it created in a
                \* callback fell off the list
    contexts    \* external: the AppSessionContexts at the PCF

history == <<reports, answered, lost>>
vars == <<pcf, apps, mem, made, serial, wire, events, notifs, fault, history, notified, hasty,
          contexts>>

NoId == 0
Nobody == 0

(* A free address is one with Nobody at it. *)
AppSession == [who: Nat, pcf: Pcf, id: Nat]
Op == {"create", "update", "events", "delete"}
Request == [k: Nat, op: Op, a: Addr, who: Nat, pcf: Pcf, target: Nat]
Context == [id: Nat, a: Addr, who: Nat, pcf: Pcf]
What == {"session", "null"}

Running == fault = "none"
Outstanding(p) ==
    \/ \E r \in wire : r.pcf = p
    \/ \E e \in events : e.req.pcf = p

-----------------------------------------------------------------------------
(* The lists *)

(* A check that trusts the address. *)
ExistsMutant(a) == TRUE

(* _pcf_app_session_exists *)
Exists(a) == \E p \in Pcf : pcf[p] = "open" /\ a \in apps[p]

(* Application sessions are added at the end of the list, so its order is   *)
(* that of their creation.                                                  *)
Earlier(a, b) == mem[a].who < mem[b].who

(* The sessions of the list that have the id of the session at a. *)
SameId(a) == {b \in apps[mem[a].pcf] : mem[b].id = mem[a].id}

(* A search that takes the first session of the list. *)
MatchMutant(a) == CHOOSE b \in apps[mem[a].pcf] : \A c \in apps[mem[a].pcf] \ {b} : Earlier(b, c)

(* _pcf_client_context_active_sessions_exists, and the same search in       *)
(* pcf_policyauthorization_delete: the first session with the id.           *)
Match(a) == CHOOSE b \in SameId(a) : \A c \in SameId(a) \ {b} : Earlier(b, c)

(* The search compares ids with strcmp, and a session that was not created  *)
(* at the PCF yet has none.                                                 *)
SearchFaults(a) ==
    \/ mem[a].id = NoId
    \/ \E b \in apps[mem[a].pcf] :
          mem[b].id = NoId /\ \A c \in SameId(a) : Earlier(b, c)

(* An end of session that leaves it in the list. *)
UnlinkedMutant(a) == apps

(* ogs_list_remove of _pcf_app_session_free *)
Unlinked(a) == [apps EXCEPT ![mem[a].pcf] = apps[mem[a].pcf] \ {a}]

(* _pcf_app_session_free *)
FreedAt(a) == [mem EXCEPT ![a] = [who |-> Nobody, pcf |-> mem[a].pcf, id |-> NoId]]

(* The session at a gets its id. *)
Named(a, id) == [mem EXCEPT ![a] = [who |-> mem[a].who, pcf |-> mem[a].pcf, id |-> id]]

(* _pcf_app_session_change_callback_call *)
Tell(a, what, req) == [to |-> mem[a].who, what |-> what, k |-> req.k, asker |-> req.who]

(* Does the application hold the session at a? *)
Holds(a) ==
    /\ mem[a].who # Nobody
    /\ \E r \in reports : r.to = mem[a].who /\ r.what = "session"
    /\ ~\E r \in reports : r.to = mem[a].who /\ r.what = "null"

-----------------------------------------------------------------------------

Init ==
    /\ pcf = [p \in Pcf |-> "none"]
    /\ apps = [p \in Pcf |-> {}]
    /\ mem = [a \in Addr |-> [who |-> Nobody, pcf |-> CHOOSE p \in Pcf : TRUE, id |-> NoId]]
    /\ made = 0
    /\ serial = 0
    /\ wire = {}
    /\ events = {}
    /\ notifs = {}
    /\ fault = "none"
    /\ reports = {}
    /\ notified = {}
    /\ answered = {}
    /\ lost = {}
    /\ hasty = FALSE
    /\ contexts = {}

-----------------------------------------------------------------------------
(* Calls of the application *)

(* ogs_sbi_client_send_request, which may fail: the library logs it. *)
Send(req) ==
    /\ serial' = req.k
    /\ \/ wire' = wire \cup {req} /\ lost' = lost
       \/ wire' = wire /\ lost' = lost \cup {req.who}

NewRequest(op, a) ==
    [k |-> serial + 1, op |-> op, a |-> a, who |-> mem[a].who, pcf |-> mem[a].pcf,
     target |-> mem[a].id]

(* pcf_session_new *)
SessionNew(p) ==
    /\ Running
    /\ pcf[p] = "none"
    /\ pcf' = [pcf EXCEPT ![p] = "open"]
    /\ UNCHANGED <<apps, mem, made, serial, wire, events, notifs, fault, history, notified,
                   hasty, contexts>>

(* _pcf_app_session_new: a new session, at any free address. *)
NewAt(a, p, m) == [m EXCEPT ![a] = [who |-> made + 1, pcf |-> p, id |-> NoId]]
CreateRequest(a, p) ==
    [k |-> serial + 1, op |-> "create", a |-> a, who |-> made + 1, pcf |-> p, target |-> NoId]

(* pcf_session_create_app_session. When the request cannot be sent the      *)
(* session stays, without an id.                                            *)
CreateAppSession(p, a) ==
    /\ Running
    /\ serial < MaxRequest
    /\ pcf[p] = "open"
    /\ mem[a].who = Nobody
    /\ mem' = NewAt(a, p, mem)
    /\ apps' = [apps EXCEPT ![p] = apps[p] \cup {a}]
    /\ made' = made + 1
    /\ Send(CreateRequest(a, p))
    /\ hasty' = (hasty \/ Outstanding(p))
    /\ UNCHANGED <<pcf, events, notifs, fault, reports, notified, answered, contexts>>

(* The application asks something of a session it holds. *)
Ask(a) ==
    /\ Running
    /\ serial < MaxRequest
    /\ Holds(a)
    /\ hasty' = (hasty \/ Outstanding(mem[a].pcf))
    /\ UNCHANGED <<pcf, apps, mem, made, events, notifs, reports, notified, answered, contexts>>

Crash(how) == fault' = how /\ UNCHANGED <<serial, wire, lost>>

(* pcf_session_update_app_session: sent for the session the search finds,   *)
(* if it finds one.                                                         *)
UpdateAppSession(a) ==
    /\ Ask(a)
    /\ IF SearchFaults(a)
         THEN Crash("null")
         ELSE SameId(a) # {} /\ Send(NewRequest("update", Match(a))) /\ UNCHANGED fault

(* pcf_app_session_subscribe_event and pcf_app_session_unsubscribe_event *)
SubscribeEvents(a) ==
    /\ Ask(a)
    /\ Send(NewRequest("events", a))
    /\ UNCHANGED fault

(* pcf_app_session_free: the session is freed when the PCF answers. The     *)
(* request cannot be built without an id.                                   *)
FreeAppSession(a) ==
    /\ Ask(a)
    /\ IF mem[a].id = NoId
         THEN Crash("assert")
         ELSE Send(NewRequest("delete", a)) /\ UNCHANGED fault

(* Every session of P is told and freed, as pcf_sess_remove_all does. *)
FreeAll(P) ==
    /\ mem' = [a \in Addr |->
                 IF \E p \in P : a \in apps[p]
                   THEN [who |-> Nobody, pcf |-> mem[a].pcf, id |-> NoId] ELSE mem[a]]
    /\ reports' = reports \cup
         {[to |-> mem[a].who, what |-> "null", k |-> 0, asker |-> mem[a].who] :
            a \in UNION {apps[p] : p \in P}}
    /\ apps' = [p \in Pcf |-> IF p \in P THEN {} ELSE apps[p]]
    /\ pcf' = [p \in Pcf |-> IF p \in P THEN "freed" ELSE pcf[p]]
    /\ wire' = {r \in wire : r.pcf \notin P}
    /\ hasty' = (hasty \/ \E p \in P : Outstanding(p))
    /\ UNCHANGED <<made, serial, events, notifs, fault, notified, answered, lost, contexts>>

(* pcf_session_free: nothing is sent, and the client goes with its requests. *)
SessionFree(p) ==
    /\ Running
    /\ pcf[p] = "open"
    /\ FreeAll({p})

(* pcf_service_consumer_final. The next call of the library makes a new     *)
(* context.                                                                 *)
Final ==
    /\ Running
    /\ FreeAll({p \in Pcf : pcf[p] = "open"})

-----------------------------------------------------------------------------
(* Client events: _pcf_process_event, OGS_EVENT_SBI_CLIENT *)

(* An answer that the PCF gave, as opposed to a request that was lost. *)
Definite(e) == e.outcome \in {"ok", "refused"}

(* The event is taken from the queue. *)
Take(e) ==
    /\ events' = events \ {e}
    /\ answered' = IF e.req.op = "create"
                     THEN answered \cup {[who |-> e.req.who, outcome |-> e.outcome]}
                     ELSE answered
    /\ lost' = IF Definite(e) /\ (e.req.op = "delete" => e.outcome = "ok")
                 THEN lost ELSE lost \cup {e.req.who}
    /\ UNCHANGED <<pcf, notifs, notified, contexts>>

(* The event is for a session that exists. *)
Ours(e, op) == Running /\ e \in events /\ Exists(e.req.a) /\ e.req.op = op

(* Not one of our client messages. *)
RefuseEvent(e) ==
    /\ Running
    /\ e \in events
    /\ ~Exists(e.req.a)
    /\ Take(e)
    /\ UNCHANGED <<apps, mem, made, serial, wire, fault, reports, hasty>>

(* An answer that does not parse or that lacks what the handler needs, a    *)
(* refused update, and a timeout: the session is left as it is, and the     *)
(* application is not told.                                                 *)
LeaveSession(e) ==
    /\ Running
    /\ e \in events
    /\ Exists(e.req.a)
    /\ \/ e.outcome \in {"unusable", "timeup"}
       \/ e.req.op = "update" /\ e.outcome = "refused"
    /\ Take(e)
    /\ UNCHANGED <<apps, mem, made, serial, wire, fault, reports, hasty>>

(* A creation whose id is forgotten. *)
CreatedMutant(e) ==
    /\ Ours(e, "create")
    /\ e.outcome = "ok"
    /\ reports' = reports \cup {Tell(e.req.a, "session", e.req)}
    /\ Take(e)
    /\ UNCHANGED <<apps, mem, made, serial, wire, fault, hasty>>

(* pcf_policyauthorization_create *)
Created(e) ==
    /\ Ours(e, "create")
    /\ e.outcome = "ok"
    /\ mem' = Named(e.req.a, e.req.k)
    /\ reports' = reports \cup {Tell(e.req.a, "session", e.req)}
    /\ Take(e)
    /\ UNCHANGED <<apps, made, serial, wire, fault, hasty>>

(* pcf_policyauthorization_update *)
Updated(e) ==
    /\ Ours(e, "update")
    /\ e.outcome = "ok"
    /\ reports' = reports \cup {Tell(e.req.a, "session", e.req)}
    /\ Take(e)
    /\ UNCHANGED <<apps, mem, made, serial, wire, fault, hasty>>

(* pcf_policyauthorization_subscribe_event: a failure is told with a null   *)
(* pointer, and the session stays.                                          *)
EventsAnswered(e) ==
    /\ Ours(e, "events")
    /\ Definite(e)
    /\ reports' = reports \cup
         {Tell(e.req.a, IF e.outcome = "ok" THEN "session" ELSE "null", e.req)}
    /\ Take(e)
    /\ UNCHANGED <<apps, mem, made, serial, wire, fault, hasty>>

(* An end of session that nobody is told of. *)
RemoveSilently(e) ==
    /\ Running
    /\ e \in events
    /\ Exists(e.req.a)
    /\ \/ e.outcome = "broken"
       \/ e.req.op = "create" /\ e.outcome = "refused"
    /\ apps' = Unlinked(e.req.a)
    /\ mem' = FreedAt(e.req.a)
    /\ Take(e)
    /\ UNCHANGED <<made, serial, wire, fault, reports, hasty>>

(* pcf_app_sess_remove, for a refused creation, a connection that failed    *)
(* and a request aborted at shutdown.                                       *)
RemoveSession(e) ==
    /\ Running
    /\ e \in events
    /\ Exists(e.req.a)
    /\ \/ e.outcome = "broken"
       \/ e.req.op = "create" /\ e.outcome = "refused"
    /\ reports' = reports \cup {Tell(e.req.a, "null", e.req)}
    /\ apps' = Unlinked(e.req.a)
    /\ mem' = FreedAt(e.req.a)
    /\ Take(e)
    /\ UNCHANGED <<made, serial, wire, fault, hasty>>

(* pcf_policyauthorization_delete takes the session it finds from the list, *)
(* tells the application, takes it from the list again and frees it. The    *)
(* second removal joins the neighbours that the session had: a session that *)
(* the application added behind it in the callback falls off the list.      *)
FallsOff(a) == ~\E c \in apps[mem[a].pcf] : Earlier(a, c)
RelinkedAfter(a, b) ==
    IF ~FallsOff(a)
      THEN [apps EXCEPT ![mem[a].pcf] = (apps[mem[a].pcf] \ {a}) \cup {b}]
      ELSE Unlinked(a)

(* Any status of the PCF ends the session. *)
Deleted(e) ==
    LET a == Match(e.req.a) IN
    /\ Ours(e, "delete")
    /\ Definite(e)
    /\ ~SearchFaults(e.req.a)
    /\ reports' = reports \cup {Tell(a, "null", e.req)}
    /\ apps' = Unlinked(a)
    /\ mem' = FreedAt(a)
    /\ Take(e)
    /\ UNCHANGED <<made, serial, wire, fault, hasty>>

(* Is something outstanding on P besides the answer that is handled? *)
OutstandingBut(e, p) ==
    \/ \E r \in wire : r.pcf = p
    \/ \E f \in events \ {e} : f.req.pcf = p

(* The same when the callback creates the next session, at b. *)
DeletedCreating(e, b) ==
    LET a == Match(e.req.a) IN
    /\ CallbackCreates
    /\ serial < MaxRequest
    /\ Ours(e, "delete")
    /\ Definite(e)
    /\ ~SearchFaults(e.req.a)
    /\ mem[b].who = Nobody
    /\ reports' = reports \cup {Tell(a, "null", e.req)}
    /\ apps' = RelinkedAfter(a, b)
    /\ mem' = NewAt(b, mem[a].pcf, FreedAt(a))
    /\ made' = made + 1
    /\ serial' = serial + 1
    /\ wire' = wire \cup {CreateRequest(b, mem[a].pcf)}
    /\ hasty' = (hasty \/ OutstandingBut(e, mem[a].pcf) \/ FallsOff(a))
    /\ Take(e)
    /\ UNCHANGED fault

DeleteFaults(e) ==
    /\ Ours(e, "delete")
    /\ Definite(e)
    /\ SearchFaults(e.req.a)
    /\ fault' = "null"
    /\ Take(e)
    /\ UNCHANGED <<apps, mem, made, serial, wire, reports, hasty>>

(* OGS_EVENT_SBI_SERVER: a notification on the server of an open PCF        *)
(* session, for an address where a session exists. Any other is answered    *)
(* with an error, or left to the application.                               *)
Notify(n) ==
    /\ Running
    /\ n \in notifs
    /\ notifs' = notifs \ {n}
    /\ notified' = IF pcf[n.pcf] = "open" /\ Exists(n.a)
                     THEN notified \cup {[to |-> mem[n.a].who, from |-> n.who]}
                     ELSE notified
    /\ UNCHANGED <<pcf, apps, mem, made, serial, wire, events, fault, history, hasty, contexts>>

-----------------------------------------------------------------------------
(* The PCF *)

(* The PCF carries out a request. *)
CarriedOut(r) ==
    CASE r.op = "create" -> contexts \cup {[id |-> r.k, a |-> r.a, who |-> r.who, pcf |-> r.pcf]}
      [] r.op = "delete" -> {c \in contexts : c.id # r.target}
      [] OTHER -> contexts

(* A request ends. One that timed out or broke may have been carried out. *)
Complete(r, out) ==
    /\ r \in wire
    /\ wire' = wire \ {r}
    /\ events' = events \cup {[req |-> r, outcome |-> out]}
    /\ \/ out # "refused" /\ contexts' = CarriedOut(r)
       \/ out \in {"refused", "timeup", "broken"} /\ contexts' = contexts
    /\ UNCHANGED <<pcf, apps, mem, made, serial, notifs, fault, history, notified, hasty>>

(* The PCF notifies the URL that it was given with the creation. *)
PcfNotify(c) ==
    /\ c \in contexts
    /\ Cardinality(notifs) + Cardinality(notified) < MaxNotification
    /\ notifs' = notifs \cup {c}
    /\ UNCHANGED <<pcf, apps, mem, made, serial, wire, events, fault, history, notified, hasty,
                   contexts>>

-----------------------------------------------------------------------------

Application ==
    \/ \E p \in Pcf :
          \/ SessionNew(p)
          \/ \E a \in Addr : CreateAppSession(p, a)
          \/ SessionFree(p)
    \/ \E a \in Addr : UpdateAppSession(a) \/ SubscribeEvents(a) \/ FreeAppSession(a)
    \/ Final

HandleEvent ==
    \/ \E e \in events :
          \/ RefuseEvent(e) \/ LeaveSession(e)
          \/ Created(e) \/ Updated(e) \/ EventsAnswered(e)
          \/ RemoveSession(e)
          \/ Deleted(e) \/ DeleteFaults(e)
          \/ \E b \in Addr : DeletedCreating(e, b)
    \/ \E n \in notifs : Notify(n)

Environment ==
    \/ \E r \in wire, out \in Outcomes : Complete(r, out)
    \/ \E c \in contexts : PcfNotify(c)

Next == Application \/ HandleEvent \/ Environment

Spec == Init /\ [][Next]_vars

-----------------------------------------------------------------------------

(* Every variable has its type. *)
TypeOK ==
    /\ pcf \in [Pcf -> {"none", "open", "freed"}]
    /\ apps \in [Pcf -> SUBSET Addr]
    /\ mem \in [Addr -> AppSession]
    /\ made \in Nat
    /\ serial \in Nat
    /\ wire \in SUBSET Request
    /\ events \in SUBSET [req: Request, outcome: Outcome]
    /\ notifs \in SUBSET Context
    /\ fault \in {"none", "null", "assert"}
    /\ reports \in SUBSET [to: Nat, what: What, k: Nat, asker: Nat]
    /\ notified \in SUBSET [to: Nat, from: Nat]
    /\ answered \in SUBSET [who: Nat, outcome: Outcome]
    /\ lost \in SUBSET Nat
    /\ hasty \in BOOLEAN
    /\ contexts \in SUBSET Context

(* What _pcf_app_session_exists rests on: a list holds allocated sessions   *)
(* only, those of its own PCF session, and only an open PCF session has     *)
(* any. This holds whatever the application and the PCF do.                 *)
ListedAlive ==
    \A p \in Pcf : \A a \in apps[p] :
        pcf[p] = "open" /\ mem[a].who # Nobody /\ mem[a].pcf = p

(* A change callback is made for a session that is still allocated, never   *)
(* for one that was freed while its answer was on the way: the application  *)
(* may have dropped the user data with the session.                         *)
SilentAfterGone ==
    [][\A r \in reports' \ reports : \E a \in Addr : mem[a].who = r.to /\ r.to # Nobody]_vars

(* An application that waits for each answer is told of its own requests    *)
(* only, although addresses are used again.                                 *)
AnswerOwn == ~hasty => \A r \in reports : r.to = r.asker

(* The search by id meets no session without one, for an application that   *)
(* waits for each answer and as long as no request is lost.                 *)
NoFault == fault # "none" => hasty \/ lost # {}

(* A context at the PCF has its session here, for an application that waits *)
(* for each answer, unless a request was lost or refused or the application *)
(* freed the PCF session.                                                   *)
NoOrphan ==
    ~hasty =>
        \A c \in contexts :
            \/ \E a \in Addr : mem[a].who = c.who /\ mem[a].id = c.id
            \/ Outstanding(c.pcf)
            \/ c.who \in lost
            \/ pcf[c.pcf] = "freed"

(* The ends of a creation that the code keeps to itself: a 201 without the  *)
(* Location, the AscReqData or the suppFeat that the handler needs, or one  *)
(* that does not parse, and a timeout.                                      *)
Untold == {"unusable", "timeup"}

(* A creation that ended was reported to the application that waits for     *)
(* each answer, whether it was accepted, refused or aborted: its end finds  *)
(* its session, whatever sessions were freed and made at its address        *)
(* before, and also when it was made in the callback of a deletion. The     *)
(* documentation of pcf_app_session_change_callback promises a call for     *)
(* every creation and every error of one; the code has two exceptions,      *)
(* stated here: the ends that are Untold, and a session that the second     *)
(* removal of a deletion dropped from the list (see FallsOff and hasty).    *)
CreationReported ==
    ~hasty =>
        \A d \in answered :
            d.outcome \in Untold \/ \E r \in reports : r.to = d.who

=============================================================================
