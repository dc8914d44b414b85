---------------------------- MODULE CallbackData ----------------------------
(***************************************************************************)
(* The callback data of one MBS Session of the MB-SMF service consumer     *)
(* (lib/mb-smf-service-consumer/mbs-session.c).                            *)
(*                                                                         *)
(* A session has three result callbacks, for create, update and delete.    *)
(* Each has a data pointer and an optional function that frees that data.  *)
(* The application may give the same pointer to several callbacks, with    *)
(* one call or with several, so the session frees a pointer only when the  *)
(* last callback that holds it lets go of it.                              *)
(*                                                                         *)
(* The callback functions themselves play no part in ownership and are     *)
(* left out; the order in which they are called is in module MbsSession.   *)
(***************************************************************************)
EXTENDS Naturals

CONSTANTS
    Data,      \* the pointers the application may pass as callback data
    NULL,      \* the null pointer
    AppFree    \* AppFree[d]: may d come with a free function, without, or both

Op == {"create", "update", "delete"}

Pointer == Data \cup {NULL}

ASSUME NullAssumption == NULL \notin Data
ASSUME AppFreeAssumption == AppFree \in [Data -> SUBSET BOOLEAN]

VARIABLES
    slots,     \* data and free function of each callback, and how often each
               \* pointer was passed to its free function
    deleted,   \* the session's deleted flag
    alive,     \* the session object has not been freed
    handed     \* history: the pointers the application has handed over

vars == <<slots, deleted, alive, handed>>

Slots == [data: [Op -> Pointer], freefn: [Op -> BOOLEAN], freed: [Data -> Nat]]

-----------------------------------------------------------------------------

(* Does any other callback hold the pointer that op holds? *)
HeldElsewhere(s, op) == \E o \in Op \ {op} : s.data[o] = s.data[op]

(* A release that compares with the delete callback only. *)
ReleaseMutant(s, op) ==
    IF s.data[op] = NULL
      THEN s
      ELSE [data   |-> [s.data EXCEPT ![op] = NULL],
            freefn |-> s.freefn,
            freed  |-> IF s.freefn[op] /\ s.data[op] # s.data["delete"]
                         THEN [s.freed EXCEPT ![s.data[op]] = s.freed[s.data[op]] + 1]
                         ELSE s.freed]

(* _mbs_session_release_<op>_callback_data: call the free function unless   *)
(* another callback still holds the pointer, then clear this callback's     *)
(* pointer. A null pointer is left alone.                                   *)
Release(s, op) ==
    IF s.data[op] = NULL
      THEN s
      ELSE [data   |-> [s.data EXCEPT ![op] = NULL],
            freefn |-> s.freefn,
            freed  |-> IF s.freefn[op] /\ ~HeldElsewhere(s, op)
                         THEN [s.freed EXCEPT ![s.data[op]] = s.freed[s.data[op]] + 1]
                         ELSE s.freed]

(* A setter that forgets the release of the pointer it replaces. *)
SetSlotMutant(s, op, d, f) == [s EXCEPT !.data[op] = d, !.freefn[op] = f]

(* _mbs_session_set_<op>_callback_freefn *)
SetSlot(s, op, d, f) ==
    LET r == IF s.data[op] # d THEN Release(s, op) ELSE s
    IN  [data   |-> [r.data EXCEPT ![op] = d],
         freefn |-> [r.freefn EXCEPT ![op] = f],
         freed  |-> r.freed]

(* _mbs_session_release_callback_data *)
ReleaseAll(s) == Release(Release(Release(s, "create"), "update"), "delete")

-----------------------------------------------------------------------------

(* _mbs_session_new: the structure is zeroed. *)
Init ==
    /\ slots = [data   |-> [op \in Op |-> NULL],
                freefn |-> [op \in Op |-> FALSE],
                freed  |-> [d \in Data |-> 0]]
    /\ deleted = FALSE
    /\ alive = TRUE
    /\ handed = {}

(* The application passes pointers that are still allocated, and free       *)
(* functions as AppFree allows; with a null pointer it may pass anything.   *)
AppMayPass(d, f) == d \in Data => slots.freed[d] = 0 /\ f \in AppFree[d]

(* mb_smf_sc_mbs_session_set_{create,update,delete}_callback[_with_freefn] *)
SetOne(op, d, f) ==
    /\ alive
    /\ AppMayPass(d, f)
    /\ slots' = SetSlot(slots, op, d, f)
    /\ handed' = handed \cup ({d} \cap Data)
    /\ UNCHANGED <<deleted, alive>>

(* mb_smf_sc_mbs_session_set_callback[_with_freefn]: refused once the       *)
(* session is marked deleted, otherwise sets the three callbacks in turn.   *)
SetAll(d, f) ==
    /\ alive
    /\ ~deleted
    /\ AppMayPass(d, f)
    /\ slots' = SetSlot(SetSlot(SetSlot(slots, "create", d, f),
                                "update", d, f),
                        "delete", d, f)
    /\ handed' = handed \cup ({d} \cap Data)
    /\ UNCHANGED <<deleted, alive>>

(* mb_smf_sc_mbs_session_delete only sets the flag. *)
MarkDeleted ==
    /\ alive
    /\ deleted' = TRUE
    /\ UNCHANGED <<slots, alive, handed>>

(* _mbs_session_delete, at the end of a removal or of the context. *)
Destroy ==
    /\ alive
    /\ slots' = ReleaseAll(slots)
    /\ alive' = FALSE
    /\ UNCHANGED <<deleted, handed>>

Next ==
    \/ \E op \in Op, d \in Pointer, f \in BOOLEAN : SetOne(op, d, f)
    \/ \E d \in Pointer, f \in BOOLEAN : SetAll(d, f)
    \/ MarkDeleted
    \/ Destroy

Spec == Init /\ [][Next]_vars

-----------------------------------------------------------------------------

(* Every variable has its type. *)
TypeOK ==
    /\ slots \in Slots
    /\ deleted \in BOOLEAN
    /\ alive \in BOOLEAN
    /\ handed \in SUBSET Data

(* No callback holds data that its free function has destroyed, so that     *)
(* _mbs_session_do_*_callback never passes freed memory to the application, *)
(* whichever setters were called in whichever order.                        *)
NoDanglingData ==
    \A op \in Op : slots.data[op] \in Data => slots.freed[slots.data[op]] = 0

(* The free function runs at most once for a pointer: mbs-session.h says it *)
(* is called when the same pointer has been freed for all callbacks.        *)
NoDoubleFree == \A d \in Data : slots.freed[d] <= 1

(* Data that always comes with a free function is not leaked: it is held by *)
(* a callback of the live session, or it has been freed.                    *)
NoLeak ==
    \A d \in handed :
        AppFree[d] = {TRUE} =>
            \/ alive /\ \E op \in Op : slots.data[op] = d
            \/ slots.freed[d] = 1

=============================================================================
