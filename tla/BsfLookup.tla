----------------------------- MODULE BsfLookup -----------------------------
(***************************************************************************)
(* What the BSF service consumer promises to its application               *)
(* (lib/bsf-service-consumer/bsf-service-consumer.h): the callback of a    *)
(* retrieval runs at most once, and a binding it is given is one that the  *)
(* BSF has held for the UE the application asked about. Nothing is         *)
(* promised about when the callback runs, nor, here, that it does.         *)
(***************************************************************************)
CONSTANTS
    Retrieval,     \* the calls of bsf_retrieve_pcf_binding_for_pdu_session
    UE,            \* UE addresses
    Binding,       \* PCF bindings
    NoBinding      \* the NULL binding of a failed retrieval

VARIABLES
    asked,         \* the retrievals made
    about,         \* the UE each is about
    done,          \* the retrievals whose callback has run
    answer,        \* what the callback was given
    registered     \* the <<ue, binding>> pairs the BSF has ever held

lvars == <<asked, about, done, answer, registered>>

Init ==
    /\ asked = {}
    /\ about \in [Retrieval -> UE]
    /\ done = {}
    /\ answer = [r \in Retrieval |-> NoBinding]
    /\ registered \in SUBSET (UE \X Binding)

Register(ue, b) ==
    /\ registered' = registered \cup {<<ue, b>>}
    /\ UNCHANGED <<asked, about, done, answer>>

Ask(r, ue) ==
    /\ r \notin asked
    /\ asked' = asked \cup {r}
    /\ about' = [about EXCEPT ![r] = ue]
    /\ UNCHANGED <<done, answer, registered>>

(* Asking and answering at once, from what is already known. *)
AskKnown(r, ue, b) ==
    /\ r \notin asked
    /\ <<ue, b>> \in registered
    /\ asked' = asked \cup {r}
    /\ about' = [about EXCEPT ![r] = ue]
    /\ done' = done \cup {r}
    /\ answer' = [answer EXCEPT ![r] = b]
    /\ UNCHANGED registered

Answer(r, b) ==
    /\ r \in asked \ done
    /\ b = NoBinding \/ <<about[r], b>> \in registered
    /\ done' = done \cup {r}
    /\ answer' = [answer EXCEPT ![r] = b]
    /\ UNCHANGED <<asked, about, registered>>

Next ==
    \/ \E ue \in UE, b \in Binding : Register(ue, b)
    \/ \E r \in Retrieval, ue \in UE : Ask(r, ue)
    \/ \E r \in Retrieval, ue \in UE, b \in Binding : AskKnown(r, ue, b)
    \/ \E r \in Retrieval, b \in Binding \cup {NoBinding} : Answer(r, b)

Spec == Init /\ [][Next]_lvars
=============================================================================
