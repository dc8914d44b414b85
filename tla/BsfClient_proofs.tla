-------------------------- MODULE BsfClient_proofs --------------------------
(***************************************************************************)
(* Proofs about the BSF service consumer, for any sets of retrievals, UEs, *)
(* bindings and headers and any bound on the clock: types, at most one     *)
(* callback per retrieval, no transaction of a freed session, no answer    *)
(* from an expired cache entry, and that the client implements BsfLookup.  *)
(*                                                                         *)
(* The callback runs at most once because a session is active only until   *)
(* its callback runs, and every handler that calls it looks for an active  *)
(* session first. What it is given was registered at the BSF because the   *)
(* responses in flight and the cache hold registered bindings only, and    *)
(* the UE of a retrieval does not change once it is asked.                 *)
(***************************************************************************)
EXTENDS BsfClient, TLAPS

(* The life cycle of sessions, transactions and callbacks. *)
LifeCycle ==
    \A r \in Retrieval :
        /\ calls[r] \in {0, 1}
        /\ calls[r] = 1 => sess[r] \in {"none", "freed"}
        /\ self = "up" /\ LiveXact(r) => sess[r] = "active"
        /\ sess[r] = "none" => xact[r] = "none" /\ r \notin localq

(* Requests and responses in flight belong to retrievals that were asked. *)
InFlightAsked ==
    /\ \A p \in wire : sess[p[1]] # "none"
    /\ \A m \in events : sess[m.r] # "none"

(* Only registered bindings travel and are cached. *)
OnlyRegistered ==
    /\ \A ue \in UE : bsf[ue] # NoBinding => <<ue, bsf[ue]>> \in registered
    /\ \A m \in events :
          m.service = "nbsf-management" /\ m.outcome = "ok" =>
              <<about[m.r], m.binding>> \in registered
    /\ \A e \in cache : <<e.ue, e.binding>> \in registered

IInv == TypeOK /\ LifeCycle /\ InFlightAsked /\ OnlyRegistered

-----------------------------------------------------------------------------

(* An expiry time is a number. *)
LEMMA ExpiryTimeType ==
    ASSUME NEW h \in Headers, NEW sent \in Nat, NEW t \in Nat
    PROVE  ExpiryTime(h, sent, t) \in Int
<1>1. h.maxAge \in Int /\ h.age \in Nat  BY HeadersAssumption
<1>2. sent \div Second \in Int  BY SecondAssumption
<1>3. (sent \div Second) * Second \in Int  BY <1>2, SecondAssumption
<1> QED  BY <1>1, <1>3 DEF ExpiryTime

(* The headers of responses whose headers do not matter are headers. *)
LEMMA AnyHeaderType == AnyHeader \in Headers
BY HeadersAssumption DEF AnyHeader

(* No cache entry equals the value that stands for none. *)
LEMMA LookupEntry ==
    ASSUME NEW ue, NEW e \in Lookup(ue) \ {NoEntry}
    PROVE  e \in cache /\ e.ue = ue
BY DEF Lookup

(* The initial state satisfies the inductive invariant. *)
LEMMA InitIInv == Init => IInv
<1> SUFFICES ASSUME Init PROVE IInv  OBVIOUS
<1>1. TypeOK
  <2>1. registered \in SUBSET (UE \X Binding)  BY DEF Init
  <2>2. about \in [Retrieval -> UE]  BY UEAssumption DEF Init
  <2> QED  BY <2>1, <2>2, MaxTimeAssumption DEF Init, TypeOK, SessState, XactState
<1>2. LifeCycle  BY DEF Init, LifeCycle, LiveXact
<1>3. InFlightAsked  BY DEF Init, InFlightAsked
<1>4. OnlyRegistered  BY DEF Init, OnlyRegistered
<1> QED  BY <1>1, <1>2, <1>3, <1>4 DEF IInv

(* Every step preserves the types. *)
LEMMA NextTypeOK == TypeOK /\ OnlyRegistered /\ [Next]_vars => TypeOK'
<1> SUFFICES ASSUME TypeOK, OnlyRegistered, [Next]_vars PROVE TypeOK'  OBVIOUS
<1> USE DEF TypeOK, SessState, XactState, Service
<1>1. ASSUME NEW r \in Retrieval, NEW ue \in UE, RetrieveCached(r, ue)
      PROVE  TypeOK'
  <2>1. PICK e \in Lookup(ue) \ {NoEntry} :
            about' = [about EXCEPT ![r] = ue] /\ CallBack(r, e.binding, e)
    BY <1>1 DEF RetrieveCached
  <2>2. e \in Entry  BY <2>1, LookupEntry
  <2>3. e.binding \in Binding  BY <2>2 DEF Entry
  <2>4. now \in Nat  BY MaxTimeAssumption
  <2> QED  BY <1>1, <2>1, <2>2, <2>3, <2>4 DEF RetrieveCached, CallBack, bsfVars
<1>2. ASSUME NEW r \in Retrieval, NEW ue \in UE, RetrieveNew(r, ue)
      PROVE  TypeOK'
  BY <1>2 DEF RetrieveNew, answerVars, bsfVars
<1>3. CASE Terminate
  BY <1>3 DEF Terminate, answerVars, bsfVars
<1>4. ASSUME NEW r \in Retrieval, LocalDiscoverAndSend(r)
      PROVE  TypeOK'
  BY <1>4 DEF LocalDiscoverAndSend, answerVars, bsfVars
<1>5. ASSUME NEW r \in Retrieval, ResponseTimeout(r)
      PROVE  TypeOK'
  <2>1. now \in Nat  BY MaxTimeAssumption
  <2> QED  BY <1>5, <2>1 DEF ResponseTimeout, CallBack, EndSession, bsfVars
<1>6. ASSUME NEW m \in events, IgnoreResponse(m)
      PROVE  TypeOK'
  BY <1>6 DEF IgnoreResponse, sessVars, answerVars, bsfVars
<1>7. ASSUME NEW m \in events, DiscoveryFound(m)
      PROVE  TypeOK'
  <2>1. m.r \in Retrieval  BY DEF Response
  <2> QED  BY <1>7, <2>1 DEF DiscoveryFound, answerVars, bsfVars
<1>8. ASSUME NEW m \in events, DiscoveryNone(m)
      PROVE  TypeOK'
  BY <1>8 DEF DiscoveryNone, sessVars, answerVars, bsfVars
<1>9. ASSUME NEW m \in events, BindingOk(m)
      PROVE  TypeOK'
  <2>1. /\ m.r \in Retrieval /\ m.header \in Headers /\ m.sent \in Nat
        /\ m.binding \in Binding \cup {NoBinding}
    BY DEF Response
  <2>2. now \in Nat  BY MaxTimeAssumption
  <2>3. ExpiryTime(m.header, m.sent, now) \in Int  BY <2>1, <2>2, ExpiryTimeType
  <2>4. cache' \in SUBSET Entry
    <3>1. <<about[m.r], m.binding>> \in UE \X Binding
      BY <1>9 DEF BindingOk, OnlyRegistered
    <3> QED  BY <1>9, <2>1, <2>2, <2>3, <3>1 DEF BindingOk, CacheAdd, Entry
  <2> QED  BY <1>9, <2>1, <2>2, <2>4 DEF BindingOk, CallBack, EndSession, bsfVars
<1>10. ASSUME NEW m \in events, BindingError(m)
      PROVE  TypeOK'
  <2>1. m.r \in Retrieval  BY DEF Response
  <2>2. now \in Nat  BY MaxTimeAssumption
  <2> QED  BY <1>10, <2>1, <2>2 DEF BindingError, CallBack, EndSession, bsfVars
<1>11. ASSUME NEW r \in Retrieval, NrfRespond(r)
      PROVE  TypeOK'
  BY <1>11, AnyHeaderType DEF NrfRespond, Response, DiscOutcome, answerVars, bsfVars
<1>12. ASSUME NEW r \in Retrieval, BsfRespond(r)
      PROVE  TypeOK'
  <2>1. now \in Nat  BY MaxTimeAssumption
  <2> QED  BY <1>12, <2>1 DEF BsfRespond, Response, BsfOutcome, answerVars, bsfVars
<1>13. ASSUME NEW ue \in UE, NEW b \in Binding, BsfRegister(ue, b)
      PROVE  TypeOK'
  BY <1>13 DEF BsfRegister, sessVars, answerVars
<1>14. CASE Tick
  BY <1>14, MaxTimeAssumption DEF Tick, sessVars, answerVars, bsfVars
<1>15. CASE UNCHANGED vars
  BY <1>15 DEF vars, sessVars, answerVars, bsfVars
<1> QED
  BY <1>1, <1>2, <1>3, <1>4, <1>5, <1>6, <1>7, <1>8, <1>9, <1>10, <1>11, <1>12,
     <1>13, <1>14, <1>15
     DEF Next, Application, HandleEvent, Environment

(* Every step preserves the life cycle of sessions and callbacks. *)
LEMMA NextLifeCycle == IInv /\ [Next]_vars => LifeCycle'
<1> SUFFICES ASSUME IInv, [Next]_vars PROVE LifeCycle'  OBVIOUS
<1> USE DEF LifeCycle, LiveXact
<1>0. /\ TypeOK
      /\ calls \in [Retrieval -> Nat] /\ sess \in [Retrieval -> SessState]
      /\ xact \in [Retrieval -> XactState] /\ localq \in SUBSET Retrieval
      /\ LifeCycle
  BY DEF IInv, TypeOK
<1>1. ASSUME NEW r \in Retrieval, NEW ue \in UE, RetrieveCached(r, ue)
      PROVE  LifeCycle'
  <2>1. /\ calls' = [calls EXCEPT ![r] = @ + 1]
        /\ sess[r] = "none" /\ calls[r] = 0
        /\ UNCHANGED <<self, sess, xact, localq>>
    BY <1>0, <1>1 DEF RetrieveCached, CallBack, Asked
  <2> QED  BY <1>0, <2>1
<1>2. ASSUME NEW r \in Retrieval, NEW ue \in UE, RetrieveNew(r, ue)
      PROVE  LifeCycle'
  <2>1. sess[r] = "none" /\ calls[r] = 0  BY <1>0, <1>2 DEF RetrieveNew, Asked
  <2>2. /\ sess' = [sess EXCEPT ![r] = IF self = "up" THEN "active" ELSE "unlisted"]
        /\ \/ localq' = localq \cup {r} /\ xact' = xact
           \/ localq' = localq /\ xact' = [xact EXCEPT ![r] = "failed"]
        /\ UNCHANGED <<self, calls>>
    BY <1>2 DEF RetrieveNew, answerVars
  <2> QED  BY <1>0, <2>1, <2>2
<1>3. CASE Terminate
  BY <1>0, <1>3 DEF Terminate, answerVars
<1>4. ASSUME NEW r \in Retrieval, LocalDiscoverAndSend(r)
      PROVE  LifeCycle'
  <2>1. /\ sess[r] = "active" /\ self = "up" /\ localq' = localq \ {r}
        /\ xact' \in {[xact EXCEPT ![r] = "disc"], [xact EXCEPT ![r] = "req"],
                      [xact EXCEPT ![r] = "failed"]}
        /\ UNCHANGED <<self, sess, calls>>
    BY <1>4 DEF LocalDiscoverAndSend, answerVars
  <2> QED  BY <1>0, <2>1
<1>5. ASSUME NEW r \in Retrieval, sess[r] = "active",
             calls' = [calls EXCEPT ![r] = @ + 1],
             EndSession(r), UNCHANGED <<self, localq>>
      PROVE  LifeCycle'
  <2>1. calls[r] = 0  BY <1>0, <1>5
  <2> QED  BY <1>0, <1>5, <2>1 DEF EndSession
<1>6. ASSUME NEW r \in Retrieval, ResponseTimeout(r)
      PROVE  LifeCycle'
  BY <1>5, <1>6 DEF ResponseTimeout, CallBack
<1>7. ASSUME NEW m \in events, IgnoreResponse(m)
      PROVE  LifeCycle'
  BY <1>0, <1>7 DEF IgnoreResponse, sessVars, answerVars
<1>8. ASSUME NEW m \in events
      PROVE  m.r \in Retrieval
  BY <1>0, <1>8 DEF TypeOK, Response
<1>9. ASSUME NEW m \in events, DiscoveryFound(m)
      PROVE  LifeCycle'
  <2>1. /\ sess[m.r] = "active" /\ self = "up"
        /\ xact' = [xact EXCEPT ![m.r] = "req"]
        /\ UNCHANGED <<self, sess, localq, calls>>
    BY <1>9 DEF DiscoveryFound, Ours, answerVars
  <2> QED  BY <1>0, <1>8, <2>1
<1>10. ASSUME NEW m \in events, DiscoveryNone(m)
      PROVE  LifeCycle'
  BY <1>0, <1>10 DEF DiscoveryNone, sessVars, answerVars
<1>11. ASSUME NEW m \in events, BindingOk(m) \/ BindingError(m)
      PROVE  LifeCycle'
  BY <1>5, <1>8, <1>11 DEF BindingOk, BindingError, CallBack, Ours
<1>12. CASE Environment
  BY <1>0, <1>12 DEF Environment, NrfRespond, BsfRespond, BsfRegister, Tick,
                     sessVars, answerVars
<1>13. CASE UNCHANGED vars
  BY <1>0, <1>13 DEF vars, sessVars, answerVars
<1> QED
  BY <1>1, <1>2, <1>3, <1>4, <1>6, <1>7, <1>9, <1>10, <1>11, <1>12, <1>13
     DEF Next, Application, HandleEvent

(* Every step keeps what is in flight attached to retrievals that were      *)
(* asked.                                                                   *)
LEMMA NextInFlightAsked == IInv /\ [Next]_vars => InFlightAsked'
<1> SUFFICES ASSUME IInv, [Next]_vars PROVE InFlightAsked'  OBVIOUS
<1>0. TypeOK /\ LifeCycle /\ InFlightAsked  BY DEF IInv
<1>1. sess \in [Retrieval -> SessState]  BY <1>0 DEF TypeOK
<1>2. \A m \in events : m.r \in Retrieval  BY <1>0 DEF TypeOK, Response
<1>3. \A p \in wire : p[1] \in Retrieval  BY <1>0 DEF TypeOK
<1>4. \A r \in Retrieval : sess[r] # "none" => sess'[r] # "none"
  <2>1. CASE Application
    BY <1>1, <2>1 DEF Application, RetrieveCached, RetrieveNew, Terminate
  <2>2. CASE HandleEvent
    BY <1>1, <1>2, <2>2 DEF HandleEvent, LocalDiscoverAndSend, ResponseTimeout,
       EndSession, IgnoreResponse, DiscoveryFound, DiscoveryNone, BindingOk,
       BindingError, sessVars
  <2>3. CASE Environment
    BY <2>3 DEF Environment, NrfRespond, BsfRespond, BsfRegister, Tick, sessVars
  <2>4. CASE UNCHANGED vars  BY <2>4 DEF vars, sessVars
  <2> QED  BY <2>1, <2>2, <2>3, <2>4 DEF Next
<1>5. ASSUME NEW r \in Retrieval, sess[r] # "none",
             \A p \in wire' : p \in wire \/ p[1] = r,
             \A m \in events' : m \in events \/ m.r = r
      PROVE  InFlightAsked'
  BY <1>0, <1>2, <1>3, <1>4, <1>5 DEF InFlightAsked
<1>6. ASSUME wire' \subseteq wire, events' \subseteq events
      PROVE  InFlightAsked'
  BY <1>0, <1>2, <1>3, <1>4, <1>6 DEF InFlightAsked
<1>7. CASE Application
  BY <1>6, <1>7 DEF Application, RetrieveCached, RetrieveNew, Terminate
<1>8. CASE HandleEvent
  <2>1. ASSUME NEW r \in Retrieval, LocalDiscoverAndSend(r)
        PROVE  InFlightAsked'
    <3>1. /\ sess[r] = "active" /\ events' = events
          /\ \A p \in wire' : p \in wire \/ p[1] = r
      BY <2>1 DEF LocalDiscoverAndSend
    <3> QED  BY <1>5, <3>1
  <2>2. ASSUME NEW r \in Retrieval, ResponseTimeout(r)
        PROVE  InFlightAsked'
    BY <1>6, <2>2 DEF ResponseTimeout
  <2>3. ASSUME NEW m \in events, DiscoveryFound(m)
        PROVE  InFlightAsked'
    <3>1. /\ sess[m.r] = "active" /\ events' \subseteq events
          /\ \A p \in wire' : p \in wire \/ p[1] = m.r
      BY <2>3 DEF DiscoveryFound, Ours
    <3> QED  BY <1>2, <1>5, <3>1
  <2>4. ASSUME NEW m \in events,
               \/ IgnoreResponse(m) \/ DiscoveryNone(m)
               \/ BindingOk(m) \/ BindingError(m)
        PROVE  InFlightAsked'
    BY <1>6, <2>4 DEF IgnoreResponse, DiscoveryNone, BindingOk, BindingError, sessVars
  <2> QED  BY <1>8, <2>1, <2>2, <2>3, <2>4 DEF HandleEvent
<1>9. CASE Environment
  <2>1. ASSUME NEW r \in Retrieval, NrfRespond(r) \/ BsfRespond(r)
        PROVE  InFlightAsked'
    <3>1. \E sv \in Service : <<r, sv>> \in wire
      BY <2>1 DEF NrfRespond, BsfRespond, Service
    <3>2. sess[r] # "none"  BY <1>0, <3>1 DEF InFlightAsked
    <3>3. /\ wire' \subseteq wire
          /\ \A m \in events' : m \in events \/ m.r = r
      BY <2>1 DEF NrfRespond, BsfRespond
    <3> QED  BY <1>5, <3>2, <3>3
  <2>2. ASSUME NEW ue \in UE, NEW b \in Binding, BsfRegister(ue, b)
        PROVE  InFlightAsked'
    BY <1>6, <2>2 DEF BsfRegister, sessVars
  <2>3. CASE Tick  BY <1>6, <2>3 DEF Tick, sessVars
  <2> QED  BY <1>9, <2>1, <2>2, <2>3 DEF Environment
<1>10. CASE UNCHANGED vars  BY <1>6, <1>10 DEF vars, sessVars
<1> QED  BY <1>7, <1>8, <1>9, <1>10 DEF Next

(* Every step keeps unregistered bindings out of flight and out of the      *)
(* cache.                                                                   *)
LEMMA NextOnlyRegistered == IInv /\ [Next]_vars => OnlyRegistered'
<1> SUFFICES ASSUME IInv, [Next]_vars PROVE OnlyRegistered'  OBVIOUS
<1>0. TypeOK /\ LifeCycle /\ InFlightAsked /\ OnlyRegistered  BY DEF IInv
<1>1. /\ about \in [Retrieval -> UE]
      /\ \A m \in events : m.r \in Retrieval
  BY <1>0 DEF TypeOK, Response
<1>2. \A m \in events : about'[m.r] = about[m.r]
  <2>1. \A m \in events : Asked(m.r)  BY <1>0 DEF InFlightAsked, Asked
  <2>2. CASE Application
    BY <1>1, <2>1, <2>2 DEF Application, RetrieveCached, RetrieveNew, Terminate
  <2>3. CASE HandleEvent
    BY <2>3 DEF HandleEvent, LocalDiscoverAndSend, ResponseTimeout,
       IgnoreResponse, DiscoveryFound, DiscoveryNone, BindingOk,
       BindingError, sessVars
  <2>4. CASE Environment
    BY <2>4 DEF Environment, NrfRespond, BsfRespond, BsfRegister, Tick, sessVars
  <2>5. CASE UNCHANGED vars  BY <2>5 DEF vars, sessVars
  <2> QED  BY <2>2, <2>3, <2>4, <2>5 DEF Next
<1>3. ASSUME cache' \subseteq cache, events' \subseteq events, UNCHANGED bsfVars
      PROVE  OnlyRegistered'
  BY <1>0, <1>2, <1>3 DEF OnlyRegistered, bsfVars
<1>4. CASE Application
  BY <1>3, <1>4 DEF Application, RetrieveCached, RetrieveNew, Terminate
<1>5. CASE HandleEvent
  <2>1. ASSUME NEW m \in events, BindingOk(m)
        PROVE  OnlyRegistered'
    <3>1. <<about[m.r], m.binding>> \in registered
      BY <1>0, <2>1 DEF BindingOk, OnlyRegistered
    <3>2. /\ \A e \in cache' : \/ e \in cache
                               \/ e.ue = about[m.r] /\ e.binding = m.binding
          /\ events' \subseteq events /\ UNCHANGED bsfVars
      BY <2>1 DEF BindingOk, CacheAdd
    <3> QED  BY <1>0, <1>2, <3>1, <3>2 DEF OnlyRegistered, bsfVars
  <2>2. CASE ~ \E m \in events : BindingOk(m)
    BY <1>3, <1>5, <2>2 DEF HandleEvent, LocalDiscoverAndSend, ResponseTimeout,
       IgnoreResponse, DiscoveryFound, DiscoveryNone, BindingError
  <2> QED  BY <2>1, <2>2
<1>6. CASE Environment
  <2>1. ASSUME NEW r \in Retrieval, NrfRespond(r)
        PROVE  OnlyRegistered'
    <3>1. /\ \A m \in events' : m \in events \/ m.service = "nnrf-disc"
          /\ UNCHANGED <<about, cache, bsfVars>>
      BY <2>1 DEF NrfRespond
    <3> QED  BY <1>0, <3>1 DEF OnlyRegistered, bsfVars
  <2>2. ASSUME NEW r \in Retrieval, BsfRespond(r)
        PROVE  OnlyRegistered'
    <3>1. PICK out \in BsfOutcome, h \in Headers :
            /\ out = "ok" => bsf[about[r]] # NoBinding
            /\ events' = events \cup
                 {[r |-> r, service |-> "nbsf-management", outcome |-> out,
                   binding |-> IF out = "ok" THEN bsf[about[r]] ELSE NoBinding,
                   header |-> h, sent |-> IF out = "ok" THEN now ELSE 0]}
      BY <2>2 DEF BsfRespond
    <3>2. UNCHANGED <<about, cache, bsfVars>>  BY <2>2 DEF BsfRespond
    <3>3. \A m \in events' : \/ m \in events
                             \/ m.outcome # "ok"
                             \/ /\ m.r = r /\ m.binding = bsf[about[r]]
                                /\ bsf[about[r]] # NoBinding
      BY <3>1
    <3>4. bsf[about[r]] # NoBinding => <<about[r], bsf[about[r]]>> \in registered
      BY <1>0, <1>1 DEF OnlyRegistered
    <3> QED  BY <1>0, <3>2, <3>3, <3>4 DEF OnlyRegistered, bsfVars
  <2>3. ASSUME NEW ue \in UE, NEW b \in Binding, BsfRegister(ue, b)
        PROVE  OnlyRegistered'
    <3>1. bsf \in [UE -> Binding \cup {NoBinding}]  BY <1>0 DEF TypeOK
    <3> QED  BY <1>0, <2>3, <3>1 DEF BsfRegister, OnlyRegistered, sessVars
  <2>4. CASE Tick  BY <1>3, <2>4 DEF Tick
  <2> QED  BY <1>6, <2>1, <2>2, <2>3, <2>4 DEF Environment
<1>7. CASE UNCHANGED vars  BY <1>3, <1>7 DEF vars
<1> QED  BY <1>4, <1>5, <1>6, <1>7 DEF Next

(* Every step preserves the inductive invariant. *)
LEMMA NextIInv == IInv /\ [Next]_vars => IInv'
BY NextTypeOK, NextLifeCycle, NextInFlightAsked, NextOnlyRegistered DEF IInv

-----------------------------------------------------------------------------

(* The variables of the BSF client keep their types. *)
THEOREM TypeCorrect == Spec => []TypeOK
<1>1. IInv => TypeOK  BY DEF IInv
<1> QED  BY InitIInv, NextIInv, <1>1, PTL DEF Spec

(* The callback of a retrieval runs at most once, whatever the order of     *)
(* responses, late responses, timers and termination.                       *)
THEOREM CallbackOnce == Spec => []AtMostOneCallback
<1>1. IInv => AtMostOneCallback  BY DEF IInv, LifeCycle, AtMostOneCallback
<1> QED  BY InitIInv, NextIInv, <1>1, PTL DEF Spec

(* A transaction that events can find belongs to an active session whose    *)
(* callback has not run.                                                    *)
THEOREM SessionOutlivesXact == Spec => []XactHasSession
<1>1. IInv => XactHasSession  BY DEF IInv, LifeCycle, XactHasSession
<1> QED  BY InitIInv, NextIInv, <1>1, PTL DEF Spec

(* The client starts as the lookup does. *)
LEMMA InitLookup == Init => Lookups!Init
<1> SUFFICES ASSUME Init PROVE Lookups!Init  OBVIOUS
<1>1. TypeOK  BY InitIInv DEF IInv
<1>2. \A r \in Retrieval : ~Asked(r) /\ ~(calls[r] > 0)  BY DEF Init, Asked
<1> QED  BY <1>1, <1>2 DEF Lookups!Init, Init, TypeOK

(* A step of the client is a step of the lookup or leaves it unchanged. *)
LEMMA NextLookup == IInv /\ [Next]_vars => [Lookups!Next]_(Lookups!lvars)
<1> SUFFICES ASSUME IInv, [Next]_vars PROVE [Lookups!Next]_(Lookups!lvars)  OBVIOUS
<1> DEFINE asked == {r \in Retrieval : Asked(r)}
           done == {r \in Retrieval : calls[r] > 0}
<1>0. TypeOK /\ LifeCycle /\ InFlightAsked /\ OnlyRegistered  BY DEF IInv
<1>t. /\ about \in [Retrieval -> UE] /\ calls \in [Retrieval -> Nat]
      /\ sess \in [Retrieval -> SessState]
      /\ \A m \in events : m.r \in Retrieval
      /\ \A e \in cache : e.binding \in Binding
  BY <1>0 DEF TypeOK, Response, Entry
<1>1. ASSUME UNCHANGED <<about, calls, answer, registered>>,
             \A r \in Retrieval : sess[r] = "none" <=> sess'[r] = "none"
      PROVE  UNCHANGED Lookups!lvars
  BY <1>1 DEF Lookups!lvars, Asked
<1>2. ASSUME NEW r \in Retrieval, NEW ue \in UE, RetrieveCached(r, ue)
      PROVE  Lookups!Next
  <2>1. PICK e \in Lookup(ue) \ {NoEntry} :
            about' = [about EXCEPT ![r] = ue] /\ CallBack(r, e.binding, e)
    BY <1>2 DEF RetrieveCached
  <2>2. <<ue, e.binding>> \in registered /\ e.binding \in Binding
    BY <1>0, <1>t, <2>1, LookupEntry DEF OnlyRegistered
  <2>3. /\ calls' = [calls EXCEPT ![r] = @ + 1] /\ sess' = sess
        /\ ~Asked(r) /\ calls[r] = 0
    BY <1>2, <1>t, <2>1 DEF RetrieveCached, CallBack, Asked
  <2>4. asked' = asked \cup {r} /\ done' = done \cup {r}
    BY <1>t, <2>3 DEF Asked
  <2>5. Lookups!AskKnown(r, ue, e.binding)
    BY <1>2, <2>1, <2>2, <2>3, <2>4
       DEF Lookups!AskKnown, RetrieveCached, CallBack, bsfVars
  <2> QED  BY <2>2, <2>5 DEF Lookups!Next
<1>3. ASSUME NEW r \in Retrieval, NEW ue \in UE, RetrieveNew(r, ue)
      PROVE  Lookups!Next
  <2>1. /\ ~Asked(r) /\ calls' = calls
        /\ sess' = [sess EXCEPT ![r] = IF self = "up" THEN "active" ELSE "unlisted"]
    BY <1>3 DEF RetrieveNew, answerVars
  <2>2. asked' = asked \cup {r} /\ done' = done  BY <1>t, <2>1 DEF Asked
  <2>3. Lookups!Ask(r, ue)
    BY <1>3, <2>1, <2>2 DEF Lookups!Ask, RetrieveNew, answerVars, bsfVars
  <2> QED  BY <2>3 DEF Lookups!Next
<1>4. CASE Terminate
  BY <1>1, <1>4 DEF Terminate, answerVars, bsfVars
<1>5. ASSUME NEW r \in Retrieval, NEW b \in Binding \cup {NoBinding}, NEW e,
             sess[r] = "active", CallBack(r, b, e), EndSession(r),
             b = NoBinding \/ <<about[r], b>> \in registered,
             UNCHANGED <<about, registered>>
      PROVE  Lookups!Next
  <2>1. calls[r] = 0  BY <1>0, <1>5 DEF LifeCycle
  <2>2. asked' = asked /\ done' = done \cup {r} /\ r \in asked \ done
    BY <1>t, <1>5, <2>1 DEF CallBack, EndSession, Asked
  <2>3. Lookups!Answer(r, b)
    BY <1>5, <2>2 DEF Lookups!Answer, CallBack
  <2> QED  BY <2>3 DEF Lookups!Next
<1>6. CASE HandleEvent
  <2>1. ASSUME NEW r \in Retrieval, LocalDiscoverAndSend(r)
        PROVE  UNCHANGED Lookups!lvars
    BY <1>1, <2>1 DEF LocalDiscoverAndSend, answerVars, bsfVars
  <2>2. ASSUME NEW r \in Retrieval, ResponseTimeout(r)
        PROVE  Lookups!Next
    BY <1>5, <2>2 DEF ResponseTimeout, bsfVars
  <2>3. ASSUME NEW m \in events,
               IgnoreResponse(m) \/ DiscoveryFound(m) \/ DiscoveryNone(m)
        PROVE  UNCHANGED Lookups!lvars
    BY <1>1, <2>3 DEF IgnoreResponse, DiscoveryFound, DiscoveryNone,
       sessVars, answerVars, bsfVars
  <2>4. ASSUME NEW m \in events, BindingOk(m)
        PROVE  Lookups!Next
    <3>1. <<about[m.r], m.binding>> \in registered
      BY <1>0, <2>4 DEF BindingOk, OnlyRegistered
    <3>2. m.binding \in Binding \cup {NoBinding}  BY <1>0 DEF TypeOK, Response
    <3> QED  BY <1>5, <1>t, <2>4, <3>1, <3>2 DEF BindingOk, Ours, bsfVars
  <2>5. ASSUME NEW m \in events, BindingError(m)
        PROVE  Lookups!Next
    BY <1>5, <1>t, <2>5 DEF BindingError, Ours, bsfVars
  <2> QED  BY <1>6, <2>1, <2>2, <2>3, <2>4, <2>5 DEF HandleEvent
<1>7. CASE Environment
  <2>1. ASSUME NEW r \in Retrieval, NrfRespond(r) \/ BsfRespond(r)
        PROVE  UNCHANGED Lookups!lvars
    BY <1>1, <2>1 DEF NrfRespond, BsfRespond, answerVars, bsfVars
  <2>2. ASSUME NEW ue \in UE, NEW b \in Binding, BsfRegister(ue, b)
        PROVE  Lookups!Next
    <3>1. Lookups!Register(ue, b)
      BY <2>2 DEF Lookups!Register, BsfRegister, sessVars, answerVars, Asked
    <3> QED  BY <3>1 DEF Lookups!Next
  <2>3. CASE Tick
    BY <1>1, <2>3 DEF Tick, sessVars, answerVars, bsfVars
  <2> QED  BY <1>7, <2>1, <2>2, <2>3 DEF Environment
<1>8. CASE UNCHANGED vars
  BY <1>1, <1>8 DEF vars, sessVars, answerVars, bsfVars
<1> QED  BY <1>2, <1>3, <1>4, <1>6, <1>7, <1>8 DEF Next, Application

(* The client implements the lookup: one answer per retrieval, of a binding *)
(* that the BSF has held for that UE.                                       *)
THEOREM ImplementsLookup == Spec => LookupSpec
BY InitIInv, NextIInv, InitLookup, NextLookup, PTL DEF Spec, LookupSpec, Lookups!Spec
-----------------------------------------------------------------------------
(* Freshness: what the response that brought an entry allowed, and the      *)
(* entries and answers that keep to it.                                     *)
FreshUntil(e) == e.sent + (IF e.header.maxAge < 0 THEN 0 ELSE e.header.maxAge)
Dated(e) == e.header.dated /\ e.header.maxAge # Absent

FreshEntries == \A e \in cache : Dated(e) => e.expires <= FreshUntil(e)
FreshAnswers ==
    \A r \in Retrieval :
        servedBy[r] # NoEntry /\ Dated(servedBy[r]) => servedAt[r] <= FreshUntil(servedBy[r])

(* Truncating to the second does not go forward in time. *)
LEMMA Truncation == ASSUME NEW t \in Nat PROVE (t \div Second) * Second <= t
<1> DEFINE q == t \div Second
<1>1. Second \in Int /\ Second > 0  BY SecondAssumption
<1>2. q \in Int /\ t = Second * q + (t % Second)  BY <1>1
<1>3. t % Second >= 0 /\ t % Second \in Int  BY <1>1
<1> HIDE DEF q
<1>4. Second * q \in Int /\ Second * q = q * Second  BY <1>1, <1>2
<1>5. q * Second <= t  BY <1>2, <1>3, <1>4
<1> QED  BY <1>5 DEF q

(* An expiry time computed from a dated response is within its max-age. *)
LEMMA ExpiryTimeFresh ==
    ASSUME NEW h \in Headers, NEW sent \in Nat, NEW t \in Nat,
           h.dated, h.maxAge # Absent
    PROVE  ExpiryTime(h, sent, t) <= sent + (IF h.maxAge < 0 THEN 0 ELSE h.maxAge)
<1>1. h.maxAge \in Int /\ h.age \in Nat  BY HeadersAssumption
<1> DEFINE base == (sent \div Second) * Second
           remaining == h.maxAge - h.age
<1>2. base \in Int /\ base <= sent  BY SecondAssumption, Truncation
<1>3. ExpiryTime(h, sent, t) = base + (IF remaining < 0 THEN 0 ELSE remaining)
  BY DEF ExpiryTime
<1> HIDE DEF base
<1> QED  BY <1>1, <1>2, <1>3

(* Every step keeps entries and answers fresh: an entry is made from its    *)
(* response, and serves only while it has not expired.                      *)
LEMMA NextFresh ==
    IInv /\ FreshEntries /\ FreshAnswers /\ [Next]_vars => FreshEntries' /\ FreshAnswers'
<1> SUFFICES ASSUME IInv, FreshEntries, FreshAnswers, [Next]_vars
             PROVE  FreshEntries' /\ FreshAnswers'
  OBVIOUS
<1>0. /\ servedBy \in [Retrieval -> Entry \cup {NoEntry}] /\ servedAt \in [Retrieval -> Nat]
      /\ cache \in SUBSET Entry /\ now \in Nat
      /\ \A m \in events : m.r \in Retrieval /\ m.header \in Headers /\ m.sent \in Nat
  BY MaxTimeAssumption DEF IInv, TypeOK, Response
<1>1. ASSUME cache' \subseteq cache, UNCHANGED <<servedBy, servedAt>>
      PROVE  FreshEntries' /\ FreshAnswers'
  BY <1>1 DEF FreshEntries, FreshAnswers, Dated, FreshUntil
<1>2. ASSUME NEW r \in Retrieval, NEW b, CallBack(r, b, NoEntry)
      PROVE  FreshAnswers'
  BY <1>0, <1>2 DEF CallBack, FreshAnswers, Dated, FreshUntil
<1>3. ASSUME NEW r \in Retrieval, NEW ue \in UE, RetrieveCached(r, ue)
      PROVE  FreshEntries' /\ FreshAnswers'
  <2>1. PICK e \in Lookup(ue) \ {NoEntry} :
            ~Expired(e) /\ CallBack(r, e.binding, e) /\ cache' = cache
    BY <1>3 DEF RetrieveCached
  <2>2. e \in cache /\ e \in Entry  BY <1>0, <2>1, LookupEntry
  <2>3. now <= e.expires  BY <1>0, <2>1, <2>2 DEF Expired, Entry
  <2>4. Dated(e) => now <= FreshUntil(e)
    <3>1. e.expires \in Int /\ e.sent \in Nat /\ e.header.maxAge \in Int
      BY <2>2, HeadersAssumption DEF Entry
    <3> QED  BY <1>0, <2>2, <2>3, <3>1 DEF FreshEntries, FreshUntil
  <2>5. servedBy' = [servedBy EXCEPT ![r] = e] /\ servedAt' = [servedAt EXCEPT ![r] = now]
    BY <2>1 DEF CallBack
  <2>6. FreshAnswers'  BY <1>0, <2>4, <2>5 DEF FreshAnswers, Dated, FreshUntil
  <2> QED  BY <2>1, <2>6 DEF FreshEntries, Dated, FreshUntil
<1>4. ASSUME NEW m \in events, BindingOk(m)
      PROVE  FreshEntries' /\ FreshAnswers'
  <2>1. PICK old \in Lookup(about[m.r]) :
            cache' = CacheAdd(old, [ue      |-> about[m.r],
                                    binding |-> m.binding,
                                    expires |-> ExpiryTime(m.header, m.sent, now),
                                    header  |-> m.header,
                                    sent    |-> m.sent,
                                    stored  |-> now])
    BY <1>4 DEF BindingOk
  <2>2. m.header.dated /\ m.header.maxAge # Absent =>
            ExpiryTime(m.header, m.sent, now) <=
                m.sent + (IF m.header.maxAge < 0 THEN 0 ELSE m.header.maxAge)
    BY <1>0, ExpiryTimeFresh
  <2>3. FreshEntries'  BY <2>1, <2>2 DEF FreshEntries, CacheAdd, Dated, FreshUntil
  <2>4. FreshAnswers'  BY <1>0, <1>2, <1>4 DEF BindingOk
  <2> QED  BY <2>3, <2>4
<1>5. CASE Application
  <2>1. ASSUME NEW r \in Retrieval, NEW ue \in UE, RetrieveNew(r, ue)
        PROVE  FreshEntries' /\ FreshAnswers'
    BY <1>1, <2>1 DEF RetrieveNew, answerVars
  <2>2. CASE Terminate  BY <1>1, <2>2 DEF Terminate, answerVars
  <2> QED  BY <1>3, <1>5, <2>1, <2>2 DEF Application
<1>6. CASE HandleEvent
  <2>1. ASSUME NEW r \in Retrieval, LocalDiscoverAndSend(r)
        PROVE  FreshEntries' /\ FreshAnswers'
    BY <1>1, <2>1 DEF LocalDiscoverAndSend, answerVars
  <2>2. ASSUME NEW r \in Retrieval, ResponseTimeout(r)
        PROVE  FreshEntries' /\ FreshAnswers'
    BY <1>2, <2>2 DEF ResponseTimeout, FreshEntries, Dated, FreshUntil
  <2>3. ASSUME NEW m \in events,
               IgnoreResponse(m) \/ DiscoveryFound(m) \/ DiscoveryNone(m)
        PROVE  FreshEntries' /\ FreshAnswers'
    BY <1>1, <2>3 DEF IgnoreResponse, DiscoveryFound, DiscoveryNone, answerVars
  <2>4. ASSUME NEW m \in events, BindingError(m)
        PROVE  FreshEntries' /\ FreshAnswers'
    BY <1>0, <1>2, <2>4 DEF BindingError, FreshEntries, Dated, FreshUntil
  <2> QED  BY <1>4, <1>6, <2>1, <2>2, <2>3, <2>4 DEF HandleEvent
<1>7. CASE Environment
  BY <1>1, <1>7 DEF Environment, NrfRespond, BsfRespond, BsfRegister, Tick, answerVars
<1>8. CASE UNCHANGED vars
  BY <1>1, <1>8 DEF vars, answerVars
<1> QED  BY <1>5, <1>6, <1>7, <1>8 DEF Next

(* An answer from the cache is no staler than the max-age of the response   *)
(* that brought it, although it is computed from a Date cut to the second.  *)
THEOREM AnswersAreFresh == Spec => []CachedAnswerFresh
<1>1. Init => FreshEntries /\ FreshAnswers  BY DEF Init, FreshEntries, FreshAnswers
<1>2. FreshAnswers => CachedAnswerFresh
  BY DEF FreshAnswers, CachedAnswerFresh, Dated, FreshUntil
<1> QED  BY <1>1, <1>2, InitIInv, NextIInv, NextFresh, PTL DEF Spec
=============================================================================
