----------------------------- MODULE MbsPromise -----------------------------
(***************************************************************************)
(* What the MB-SMF service consumer promises to an application about its   *)
(* MBS Sessions (lib/mb-smf-service-consumer/mbs-session.h): the MB-SMF    *)
(* takes a session once and keeps it until the application deletes it; a   *)
(* creation is reported when the MB-SMF has the session, the end when it   *)
(* has it no more, and nothing after the end. When a request of a session  *)
(* fails the MB-SMF may have the session or not, and all that is left of   *)
(* the promise is what it says of the reports: the end is only reported of *)
(* sessions that were deleted, and only once nothing else will be.         *)
(***************************************************************************)
CONSTANT Session

VARIABLES
    deleted,    \* the sessions that the application deleted
    failed,     \* the sessions with a request that failed
    held,       \* held[s]: what the MB-SMF has of s: nothing yet, the session, nothing more
    created,    \* the sessions reported as created
    done        \* the sessions reported as removed

pvars == <<deleted, failed, held, created, done>>

Phase == {"none", "open", "ended"}

Init ==
    /\ deleted = {} /\ failed = {}
    /\ held = [s \in Session |-> "none"]
    /\ created = {} /\ done = {}

Delete(s) ==
    /\ deleted' = deleted \cup {s}
    /\ UNCHANGED <<failed, held, created, done>>

Take(s) ==
    /\ held[s] = "none"
    /\ held' = [held EXCEPT ![s] = "open"]
    /\ UNCHANGED <<deleted, failed, created, done>>

Drop(s) ==
    /\ s \in deleted
    /\ held[s] = "open"
    /\ held' = [held EXCEPT ![s] = "ended"]
    /\ UNCHANGED <<deleted, failed, created, done>>

(* The application may delete the session in the callback. *)
TellCreated(s) ==
    /\ held[s] = "open"
    /\ s \notin done
    /\ created' = created \cup {s}
    /\ deleted' \in {deleted, deleted \cup {s}}
    /\ UNCHANGED <<failed, held, done>>

TellDone(s) ==
    /\ s \in deleted
    /\ held[s] = "ended"
    /\ done' = done \cup {s}
    /\ UNCHANGED <<deleted, failed, held, created>>

(* A request failed, now or before. *)
Fail(s) ==
    /\ failed' = failed \cup {s}
    /\ \E phase \in Phase : held' = [held EXCEPT ![s] = phase]
    /\ \/ UNCHANGED <<deleted, created, done>>
       \/ /\ s \notin done
          /\ created' = created \cup {s}
          /\ deleted' \in {deleted, deleted \cup {s}}
          /\ UNCHANGED done
       \/ /\ s \in deleted
          /\ done' = done \cup {s}
          /\ UNCHANGED <<deleted, created>>

Next ==
    \E s \in Session :
        Delete(s) \/ Take(s) \/ Drop(s) \/ TellCreated(s) \/ TellDone(s) \/ Fail(s)

Spec == Init /\ [][Next]_pvars
=============================================================================
