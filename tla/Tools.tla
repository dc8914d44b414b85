-------------------------------- MODULE Tools --------------------------------
(***************************************************************************)
(* The three example tools: the MBS service tool, the TMGI tool and the    *)
(* PCF policy authorization tool.  Each has a main thread that waits for a *)
(* signal and then tears the libraries down, and an event thread that pops *)
(* the event queue and hands every event to the libraries first and to the *)
(* tool's state machine otherwise.  Nothing orders the two threads but the *)
(* queue.                                                                  *)
(*                                                                         *)
(* The libraries appear as the tools use them: a request is answered by an *)
(* event or never, and reported to the tool in a callback, which queues a  *)
(* local event.  A tool has one request outstanding at a time.             *)
(***************************************************************************)
EXTENDS Sequences

CONSTANT Rules      \* what the user refrains from

ASSUME ToolsAssumption == Rules \subseteq {"settled"}

VARIABLES
    tool,       \* which program runs, and for the TMGI tool the option delete_tmgi
    given,      \* the address of the PCF is an option
    sm,         \* state of the state machine
    queue,      \* ogs_app()->queue
    closed,     \* the queue was terminated
    loop,       \* the event thread still loops
    main,       \* where the main thread is
    signal,     \* a SIGTERM or SIGINT is pending
    asked,      \* the request that is outstanding in a library
    obj,        \* the MBS session or TMGI of the request
    pcf,        \* g_app_context of the PCF tool, and what the PCF library has
    fault       \* what ended the program, if anything

vars == <<tool, given, sm, queue, closed, loop, main, signal, asked, obj, pcf, fault>>

State == {"init", "create_session", "running", "create_tmgi", "delete_tmgi",
          "discover_pcf", "create_app_session"}

\* app_local_event_id_t of the three tools; "result" stands for the events that carry one.
LocalId == {"ask", "result", "discovered", "discovery_failed", "app_created", "app_destroyed"}

Request == {"create", "allocate", "deallocate", "retrieve", "create_app"}

\* The outcomes of a request.
Outcomes == [create     |-> {"ok", "refused", "timeup"},
             allocate   |-> {"ok", "refused", "bad"},
             deallocate |-> {"ok", "refused", "bad"},
             retrieve   |-> {"ok", "refused", "bad"},
             create_app |-> {"ok", "refused", "timeup"}]

\* A local event, with its result, or a library's event: the answer to a request.
Event == [id : LocalId, ok : BOOLEAN] \cup [id : {"answer"}, of : Request,
                                            res : {"ok", "refused", "bad", "timeup"}]

\* session: of the PCF tool's PCF session pointer.  app: the library has an application
\* session.  bound: the BSF library may have the binding in its cache.
PcfTool == [running : BOOLEAN, address : BOOLEAN, bound : BOOLEAN,
            session : {"none", "live", "freed"}, app : BOOLEAN, context : BOOLEAN]

TypeOK ==
    /\ tool \in {"mbs", "allocate", "deallocate", "pcf"}
    /\ given \in BOOLEAN
    /\ sm \in State
    /\ queue \in Seq(Event)
    /\ closed \in BOOLEAN /\ loop \in BOOLEAN /\ signal \in BOOLEAN
    /\ main \in {"waiting", "stopping", "freeing", "freed", "joining", "over"}
    /\ asked \in Request \cup {"none"}
    /\ obj \in {"none", "listed", "unlisted", "freed"}
    /\ pcf \in PcfTool
    /\ fault \in {"none", "freed", "mutex", "assertion"}

Init ==
    /\ tool \in {"mbs", "allocate", "deallocate", "pcf"}
    /\ given \in BOOLEAN /\ (given => tool = "pcf")
    /\ sm = "init" /\ queue = <<>> /\ closed = FALSE /\ loop = TRUE
    /\ main = "waiting" /\ signal = FALSE
    /\ asked = "none" /\ obj = "none"
    /\ pcf = [running |-> FALSE, address |-> FALSE, bound |-> FALSE,
              session |-> "none", app |-> FALSE, context |-> FALSE]
    /\ fault = "none"

Running == main # "over" /\ fault = "none"

\* The libraries and Open5GS's own were finalised.
Finalised == main \in {"freed", "joining"}

Local(i, r) == [id |-> i, ok |-> r]

-----------------------------------------------------------------------------
(***************************************************************************)
(* Steps of the state machines, made by the event thread.                  *)
(***************************************************************************)
\* A request to a library; after the libraries are gone it uses what was freed.
Ask(r) ==
    /\ asked' = r
    /\ fault' = IF Finalised THEN "freed" ELSE fault

\* _exit(1): the process is over, whatever the main thread does.
Exit ==
    /\ main' = "over"
    /\ UNCHANGED <<signal, asked, obj, pcf, fault>>

Kill ==
    /\ signal' = TRUE
    /\ UNCHANGED <<main, asked, obj, pcf, fault>>

\* An event the state does not expect is only logged.
Dropped == UNCHANGED <<main, signal, asked, obj, pcf, fault>>

\* _start_bsf_discovery holds the mutex of the discovery while it calls the library, which
\* for a cached binding calls _bsf_retrieve_callback at once: that takes the mutex as well.
\* The entry of a state hands its signal to pcf_session_process_event, which makes the
\* context of the PCF library.
StartDiscovery ==
    IF pcf.running THEN UNCHANGED <<asked, pcf, fault>>
    ELSE \E hit \in {FALSE, pcf.bound} :
            /\ pcf' = [pcf EXCEPT !.running = TRUE, !.context = TRUE]
            /\ IF hit THEN fault' = "mutex" /\ UNCHANGED asked
               ELSE Ask("retrieve")

\* pcf_policyauth_get_pcf_address gives an address, or starts the discovery.
HasAddress == given \/ pcf.address

\* pcf_policyauth_get_app_session_context; the request may not be sent.
GetAppSessionContext ==
    IF ~HasAddress THEN StartDiscovery
    ELSE /\ pcf' = [pcf EXCEPT !.session = IF @ = "none" THEN "live" ELSE @, !.app = TRUE,
                               !.context = TRUE]
         /\ \E r \in {"create_app", "none"} : asked' = r
         /\ fault' = IF Finalised \/ pcf.session = "freed" THEN "freed" ELSE fault

\* app_state_init and the entry of the first state.
StartPcf ==
    /\ sm' = IF HasAddress THEN "create_app_session" ELSE "discover_pcf"
    /\ GetAppSessionContext
    /\ UNCHANGED queue

StartTool ==
    /\ Running /\ sm = "init"
    /\ \/ /\ tool # "pcf"
          /\ sm' = CASE tool = "mbs" -> "create_session"
                     [] tool = "allocate" -> "create_tmgi"
                     [] tool = "deallocate" -> "delete_tmgi"
          /\ queue' = Append(queue, Local("ask", FALSE))
          /\ UNCHANGED <<asked, pcf, fault>>
       \/ tool = "pcf" /\ StartPcf
    /\ UNCHANGED <<tool, given, closed, loop, main, signal, obj>>

\* The event thread pops e, and the queue is not terminated.
Pop(e) ==
    /\ Running /\ loop /\ sm # "init" /\ ~closed
    /\ queue # <<>> /\ e = Head(queue)
    /\ UNCHANGED <<tool, given, closed, loop>>

Rest == Tail(queue)

\* app_mbs_session_create resolves the SSM and makes the session, or leaves.
CreateMbsSession ==
    \/ /\ Ask("create")
       /\ obj' = "listed"
       /\ UNCHANGED <<main, signal, pcf>>
    \/ Exit

\* app_state_create_session: a good result is printed with what the session holds.
CreateSession(e) ==
    /\ sm = "create_session"
    /\ queue' = Rest
    /\ sm' = IF e.id = "result" /\ e.ok THEN "running" ELSE sm
    /\ \/ e.id = "ask" /\ CreateMbsSession
       \/ /\ e.id = "result" /\ e.ok
          /\ fault' = IF obj = "freed" THEN "freed" ELSE fault
          /\ UNCHANGED <<main, signal, asked, obj, pcf>>
       \/ e.id = "result" /\ ~e.ok /\ Exit

\* A TMGI of the library, to allocate or with the id to give up.
OperateTmgi ==
    /\ Ask(tool)
    /\ obj' = "listed"
    /\ UNCHANGED <<main, signal, pcf>>

\* Either result ends the tool, and a good one is printed with its TMGI.
FinishTmgi(e) ==
    /\ fault' = IF e.ok /\ obj = "freed" THEN "freed" ELSE fault
    /\ main' = "over"
    /\ UNCHANGED <<signal, asked, obj, pcf>>

CreateTmgi(e) ==
    /\ sm = "create_tmgi"
    /\ queue' = Rest
    /\ UNCHANGED sm
    /\ (e.id = "ask" /\ OperateTmgi) \/ (e.id = "result" /\ FinishTmgi(e))

DeleteTmgi(e) ==
    /\ sm = "delete_tmgi"
    /\ queue' = Rest
    /\ UNCHANGED sm
    /\ (e.id = "ask" /\ OperateTmgi) \/ (e.id = "result" /\ FinishTmgi(e))

DiscoverPcf(e) ==
    /\ sm = "discover_pcf"
    /\ queue' = Rest
    /\ IF e.id = "discovered"
       THEN /\ sm' = "create_app_session"
            /\ GetAppSessionContext
            /\ UNCHANGED <<main, signal, obj>>
       ELSE /\ UNCHANGED sm
            /\ IF e.id = "discovery_failed" THEN Kill ELSE Dropped

CreateAppSessionMutant(e) ==
    /\ sm = "create_app_session"
    /\ queue' = Rest
    /\ sm' = IF e.id = "app_created" THEN "running" ELSE sm
    /\ Dropped

CreateAppSession(e) ==
    /\ sm = "create_app_session"
    /\ queue' = Rest
    /\ sm' = IF e.id = "app_created" THEN "running" ELSE sm
    /\ IF e.id = "app_destroyed" THEN Kill ELSE Dropped

\* app_state_running: the MBS service tool only logs.
Operating(e) ==
    /\ sm = "running"
    /\ queue' = Rest
    /\ UNCHANGED sm
    /\ IF tool = "pcf" /\ e.id = "app_destroyed" THEN Kill ELSE Dropped

-----------------------------------------------------------------------------
(***************************************************************************)
(* The libraries, called first with every event.                           *)
(***************************************************************************)
\* An answer, or a timer, is queued for the outstanding request.
Answer(res) ==
    /\ Running /\ asked # "none" /\ ~closed
    /\ \A i \in DOMAIN queue : queue[i].id # "answer"
    /\ res \in Outcomes[asked]
    /\ queue' = Append(queue, [id |-> "answer", of |-> asked, res |-> res])
    /\ UNCHANGED <<tool, given, sm, closed, loop, main, signal, asked, obj, pcf, fault>>

\* The callback of the tool, which queues a local event; some outcomes are not reported:
\* refused allocations of TMGIs and timers of application sessions.
Reports(a) ==
    CASE a.of = "create"     -> <<Local("result", a.res = "ok")>>
      [] a.of = "allocate"   -> IF a.res = "refused" THEN <<>>
                                ELSE <<Local("result", a.res = "ok")>>
      [] a.of = "deallocate" -> <<Local("result", a.res = "ok")>>
      [] a.of = "retrieve"   -> <<Local(IF a.res = "ok" THEN "discovered"
                                        ELSE "discovery_failed", FALSE)>>
      [] a.of = "create_app" -> IF a.res = "timeup" THEN <<>>
                                ELSE <<Local(IF a.res = "ok" THEN "app_created"
                                             ELSE "app_destroyed", FALSE)>>

BindingFoundMutant(p, a) == [p EXCEPT !.running = FALSE, !.bound = a.res = "ok"]

\* _bsf_retrieve_callback: "bad" is a binding without an end point.
BindingFound(p, a) ==
    [p EXCEPT !.running = FALSE, !.address = a.res = "ok", !.bound = a.res # "refused"]

\* The library takes the event if the request is still its own.
LibraryEvent(a) ==
    /\ a.id = "answer"
    /\ IF asked # a.of
       THEN queue' = Rest /\ UNCHANGED <<asked, obj, pcf>>
       ELSE /\ queue' = Rest \o Reports(a)
            /\ asked' = "none"
            /\ obj' = IF a.of = "deallocate" /\ a.res # "bad" THEN "unlisted" ELSE obj
            /\ pcf' = CASE a.of = "retrieve" -> BindingFound(pcf, a)
                        [] a.of = "create_app" /\ a.res = "refused" -> [pcf EXCEPT !.app = FALSE]
                        [] OTHER -> pcf
    /\ UNCHANGED <<sm, main, signal, fault>>

\* ogs_fsm_dispatch, after the libraries refused the event
Dispatch(e) ==
    /\ e.id # "answer"
    /\ \/ CreateSession(e)
       \/ CreateTmgi(e) \/ DeleteTmgi(e)
       \/ DiscoverPcf(e) \/ CreateAppSession(e) \/ Operating(e)

\* event_thread: a terminated queue ends the loop, events that are left are dropped.
LoopEnds ==
    /\ Running /\ loop /\ sm # "init" /\ closed
    /\ loop' = FALSE
    /\ UNCHANGED <<tool, given, sm, queue, closed, main, signal, asked, obj, pcf, fault>>

EventThread ==
    \/ StartTool
    \/ queue # <<>> /\ LET e == Head(queue) IN Pop(e) /\ (LibraryEvent(e) \/ Dispatch(e))
    \/ LoopEnds

-----------------------------------------------------------------------------
(***************************************************************************)
(* The main thread and the user.                                           *)
(***************************************************************************)
\* What the event thread has yet to do would use what the main thread frees.
Unsettled ==
    \/ sm = "init"
    \/ asked \in {"create", "allocate", "retrieve"}
    \/ \E i \in DOMAIN queue :
            \/ queue[i].id \in {"ask", "discovered"}
            \/ queue[i].id = "result" /\ tool # "deallocate"

\* Under the rule "settled" the user stops a tool only when it has settled.
UserStops ==
    /\ Running /\ main = "waiting" /\ ~signal
    /\ "settled" \in Rules => ~Unsettled
    /\ signal' = TRUE
    /\ UNCHANGED <<tool, given, sm, queue, closed, loop, main, asked, obj, pcf, fault>>

\* process_signal
TakeSignal ==
    /\ Running /\ main = "waiting" /\ signal
    /\ main' = "stopping"
    /\ signal' = FALSE
    /\ UNCHANGED <<tool, given, sm, queue, closed, loop, asked, obj, pcf, fault>>

\* mb_smf_sc_terminate frees the sessions and the TMGIs of the context.
TerminateMbSmf ==
    /\ Running /\ main = "stopping" /\ tool # "pcf"
    /\ main' = "freed"
    /\ obj' = IF obj = "listed" THEN "freed" ELSE obj
    /\ asked' = "none"
    /\ UNCHANGED <<tool, given, sm, queue, closed, loop, signal, pcf, fault>>

\* pcf_session_free reports the application session as destroyed.
FreePcfSession ==
    /\ Running /\ main = "stopping" /\ tool = "pcf"
    /\ main' = "freeing"
    /\ IF pcf.session = "none" THEN UNCHANGED <<queue, asked, pcf>>
       ELSE /\ queue' = IF pcf.app THEN Append(queue, Local("app_destroyed", FALSE)) ELSE queue
            /\ asked' = IF asked = "create_app" THEN "none" ELSE asked
            /\ pcf' = [pcf EXCEPT !.session = "freed", !.app = FALSE]
    /\ UNCHANGED <<tool, given, sm, closed, loop, signal, obj, fault>>

\* bsf_terminate drops a retrieval silently; pcf_context_final asserts that there is a context.
FinalisePcf ==
    /\ Running /\ main = "freeing"
    /\ main' = "freed"
    /\ asked' = "none"
    /\ pcf' = [pcf EXCEPT !.context = FALSE, !.app = FALSE, !.bound = FALSE]
    /\ fault' = IF pcf.context THEN fault ELSE "assertion"
    /\ UNCHANGED <<tool, given, sm, queue, closed, loop, signal, obj>>

TerminateQueue ==
    /\ Running /\ main = "freed"
    /\ closed' = TRUE
    /\ main' = "joining"
    /\ UNCHANGED <<tool, given, sm, queue, loop, signal, asked, obj, pcf, fault>>

\* ogs_thread_destroy joins the event thread; then the process ends.
Join ==
    /\ Running /\ main = "joining" /\ ~loop
    /\ main' = "over"
    /\ UNCHANGED <<tool, given, sm, queue, closed, loop, signal, asked, obj, pcf, fault>>

MainThread ==
    TakeSignal \/ TerminateMbSmf \/ FreePcfSession \/ FinalisePcf \/ TerminateQueue \/ Join

Next == EventThread \/ MainThread \/ UserStops \/ \E res \in {"ok", "refused", "bad", "timeup"} : Answer(res)

\* Both threads are scheduled; nothing is assumed of the user and the network functions.
Spec == Init /\ [][Next]_vars /\ WF_vars(EventThread) /\ WF_vars(MainThread)

-----------------------------------------------------------------------------
(***************************************************************************)
(* Properties.                                                             *)
(***************************************************************************)
Failure(e) == \/ e.id \in {"discovery_failed", "app_destroyed"}
              \/ e.id = "result" /\ (~e.ok \/ tool # "mbs")

\* A tool whose request failed, or which has done its one operation, ends: the event reaches
\* the state machine in a state that acts on it, a signal wakes the main thread, and neither
\* thread waits for the other for ever.
FailureEnds == (\E i \in DOMAIN queue : Failure(queue[i])) ~> (main = "over")

\* The event thread uses nothing that the main thread has freed, no thread waits for a mutex
\* that it holds, and the PCF library has a context when it is finalised.
NoFault == fault = "none"
=============================================================================
