------------------------ MODULE CallbackData_proofs ------------------------
(***************************************************************************)
(* Proofs that the callback data of a session is never used after it is    *)
(* freed, never freed twice and never leaked, for any set of pointers and  *)
(* any choice of free functions.                                           *)
(*                                                                         *)
(* The three properties are proved together, since a pointer is freed at   *)
(* most once because no callback holds a freed pointer. The argument is    *)
(* about one slot operation at a time: Good(s, H) says that the slots s    *)
(* satisfy the three properties when the pointers of H were handed over,   *)
(* and the lemmas show that releasing or setting one slot preserves it.    *)
(***************************************************************************)
EXTENDS CallbackData, TLAPS

(* The properties of the slots alone. *)
Good(s, H) ==
    /\ s \in Slots
    /\ \A op \in Op : s.data[op] \in Data => s.freed[s.data[op]] = 0
    /\ \A d \in Data : s.freed[d] <= 1
    /\ \A d \in H : AppFree[d] = {TRUE} =>
            (\E op \in Op : s.data[op] = d) \/ s.freed[d] = 1

(* A slot that holds data which always has a free function has that function. *)
Consistent(s) ==
    \A op \in Op : s.data[op] \in Data => s.freefn[op] \in AppFree[s.data[op]]

IInv ==
    /\ TypeOK
    /\ Good(slots, handed)
    /\ Consistent(slots)
    /\ ~alive => \A op \in Op : slots.data[op] = NULL

(* Releasing the data of one callback keeps the other callbacks' data valid, *)
(* frees the pointer at most once and does not leak it.                      *)
LEMMA ReleaseGood ==
    ASSUME NEW s, NEW H \in SUBSET Data, NEW op \in Op,
           Good(s, H), Consistent(s)
    PROVE  /\ Good(Release(s, op), H)
           /\ Consistent(Release(s, op))
           /\ Release(s, op).data = [s.data EXCEPT ![op] = NULL]
           /\ \A d \in Data : d # s.data[op] =>
                 Release(s, op).freed[d] = s.freed[d]
<1> DEFINE r == Release(s, op)
<1>0. s \in Slots /\ op \in Op  BY DEF Good
<1>1. CASE s.data[op] = NULL
  <2>1. r = s  BY <1>1 DEF Release
  <2>2. s.data = [s.data EXCEPT ![op] = NULL]  BY <1>0, <1>1 DEF Slots
  <2> QED  BY <2>1, <2>2
<1>2. CASE s.data[op] # NULL
  <2> DEFINE p == s.data[op]
             frees == s.freefn[op] /\ ~HeldElsewhere(s, op)
  <2>1. p \in Data  BY <1>0, <1>2 DEF Slots, Pointer
  <2>2. /\ r.data = [s.data EXCEPT ![op] = NULL]
        /\ r.freefn = s.freefn
        /\ r.freed = IF frees THEN [s.freed EXCEPT ![p] = s.freed[p] + 1] ELSE s.freed
        /\ r \in Slots
    BY <1>0, <1>2, <2>1, NullAssumption DEF Release, Slots, Pointer
  <2>3. s.freed[p] = 0  BY <2>1 DEF Good
  <2>4. ASSUME NEW o \in Op, r.data[o] \in Data
        PROVE  r.freed[r.data[o]] = 0 /\ r.freefn[o] \in AppFree[r.data[o]]
    <3>1. o # op /\ r.data[o] = s.data[o]  BY <1>0, <2>2, <2>4, NullAssumption DEF Slots
    <3>2. s.freed[s.data[o]] = 0 /\ s.freefn[o] \in AppFree[s.data[o]]
      BY <2>4, <3>1 DEF Good, Consistent
    <3>3. frees => s.data[o] # p  BY <3>1 DEF HeldElsewhere
    <3> QED  BY <1>0, <2>1, <2>2, <2>4, <3>1, <3>2, <3>3 DEF Slots
  <2>5. ASSUME NEW d \in Data  PROVE r.freed[d] <= 1
    <3>1. s.freed \in [Data -> Nat] /\ s.freed[d] <= 1  BY <1>0 DEF Good, Slots
    <3>2. CASE ~frees  BY <2>2, <3>1, <3>2
    <3>3. CASE frees
      <4>1. r.freed = [s.freed EXCEPT ![p] = 1]  BY <2>2, <2>3, <3>3
      <4> HIDE DEF r, p
      <4> QED  BY <3>1, <4>1
    <3> QED  BY <3>2, <3>3
  <2>6. ASSUME NEW d \in H, AppFree[d] = {TRUE}
        PROVE  (\E o \in Op : r.data[o] = d) \/ r.freed[d] = 1
    <3>1. CASE s.freed[d] = 1
      BY <1>0, <2>1, <2>2, <2>3, <3>1 DEF Slots
    <3>2. CASE \E o \in Op \ {op} : s.data[o] = d
      BY <1>0, <2>2, <3>2 DEF Slots
    <3>3. CASE s.data[op] = d /\ ~ \E o \in Op \ {op} : s.data[o] = d
      <4>1. frees  BY <2>1, <2>6, <3>3 DEF Consistent, HeldElsewhere
      <4> QED  BY <1>0, <2>1, <2>2, <2>3, <3>3, <4>1 DEF Slots
    <3> QED  BY <2>6, <3>1, <3>2, <3>3 DEF Good
  <2>7. \A d \in Data : d # p => r.freed[d] = s.freed[d]
    BY <1>0, <2>1, <2>2 DEF Slots
  <2> QED  BY <2>2, <2>4, <2>5, <2>6, <2>7 DEF Good, Consistent
<1> QED  BY <1>1, <1>2

(* Giving a callback a pointer that is not freed preserves the properties,  *)
(* whether or not it held that pointer before, and leaves the pointer       *)
(* allocated.                                                               *)
LEMMA SetSlotGood ==
    ASSUME NEW s, NEW H \in SUBSET Data, NEW op \in Op,
           NEW d \in Pointer, NEW f \in BOOLEAN,
           Good(s, H), Consistent(s),
           d \in Data => s.freed[d] = 0 /\ f \in AppFree[d]
    PROVE  /\ Good(SetSlot(s, op, d, f), H)
           /\ Consistent(SetSlot(s, op, d, f))
           /\ d \in Data => SetSlot(s, op, d, f).freed[d] = 0
           /\ SetSlot(s, op, d, f).data[op] = d
<1> DEFINE r == IF s.data[op] # d THEN Release(s, op) ELSE s
           t == SetSlot(s, op, d, f)
<1>1. /\ Good(r, H) /\ Consistent(r)
      /\ d \in Data => r.freed[d] = 0
      /\ \A o \in Op \ {op} : r.data[o] = s.data[o]
      /\ r.data[op] \in {NULL, d}
  <2>1. CASE s.data[op] # d
    <3>1. r = Release(s, op)  BY <2>1
    <3>2. Good(r, H) /\ Consistent(r)  BY <3>1, ReleaseGood
    <3>3. d \in Data => r.freed[d] = 0  BY <2>1, <3>1, ReleaseGood
    <3>4. r.data = [s.data EXCEPT ![op] = NULL]  BY <3>1, ReleaseGood
    <3>5. s.data \in [Op -> Pointer]  BY DEF Good, Slots
    <3> HIDE DEF r
    <3> QED  BY <3>2, <3>3, <3>4, <3>5
  <2>2. CASE s.data[op] = d  BY <2>2
  <2> QED  BY <2>1, <2>2
<1>2. /\ t.data = [r.data EXCEPT ![op] = d]
      /\ t.freefn = [r.freefn EXCEPT ![op] = f]
      /\ t.freed = r.freed
      /\ t \in Slots
  BY <1>1 DEF SetSlot, Good, Slots
<1>3. r \in Slots  BY <1>1 DEF Good
<1>4. \A o \in Op : t.data[o] \in Data =>
         t.freed[t.data[o]] = 0 /\ t.freefn[o] \in AppFree[t.data[o]]
  BY <1>1, <1>2, <1>3 DEF Good, Consistent, Slots
<1>5. \A e \in Data : t.freed[e] <= 1  BY <1>1, <1>2 DEF Good
<1>6. \A e \in H : AppFree[e] = {TRUE} =>
         (\E o \in Op : t.data[o] = e) \/ t.freed[e] = 1
  <2> SUFFICES ASSUME NEW e \in H, AppFree[e] = {TRUE}
               PROVE  (\E o \in Op : t.data[o] = e) \/ t.freed[e] = 1
    OBVIOUS
  <2>1. (\E o \in Op : r.data[o] = e) \/ r.freed[e] = 1  BY <1>1 DEF Good
  <2>2. t.data[op] = d /\ \A o \in Op \ {op} : t.data[o] = r.data[o]
    BY <1>2, <1>3 DEF Slots
  <2> HIDE DEF r, t
  <2> QED  BY <1>1, <1>2, <2>1, <2>2, NullAssumption
<1> HIDE DEF t
<1>7. t.data[op] = d  BY <1>2, <1>3 DEF Slots
<1>8. d \in Data => t.freed[d] = 0  BY <1>1, <1>2
<1>9. Good(t, H) /\ Consistent(t)  BY <1>2, <1>4, <1>5, <1>6 DEF Good, Consistent
<1> QED  BY <1>7, <1>8, <1>9 DEF t

(* What a callback holds was handed over: adding it to H changes nothing. *)
LEMMA HandOver ==
    ASSUME NEW s, NEW H \in SUBSET Data, NEW op \in Op, NEW d \in Pointer,
           Good(s, H), s.data[op] = d
    PROVE  Good(s, H \cup ({d} \cap Data))
BY DEF Good

(* The initial state satisfies the inductive invariant. *)
LEMMA InitIInv == Init => IInv
<1> SUFFICES ASSUME Init PROVE IInv  OBVIOUS
<1>1. slots \in Slots  BY DEF Init, Slots, Pointer
<1>2. \A op \in Op : slots.data[op] = NULL  BY DEF Init
<1>3. \A d \in Data : slots.freed[d] = 0  BY DEF Init
<1>4. handed = {} /\ deleted \in BOOLEAN /\ alive \in BOOLEAN  BY DEF Init
<1> QED  BY <1>1, <1>2, <1>3, <1>4, NullAssumption DEF IInv, TypeOK, Good, Consistent

(* Every operation of a session preserves the inductive invariant. *)
LEMMA NextIInv == IInv /\ [Next]_vars => IInv'
<1> SUFFICES ASSUME IInv, [Next]_vars PROVE IInv'  OBVIOUS
<1>1. ASSUME NEW op \in Op, NEW d \in Pointer, NEW f \in BOOLEAN, SetOne(op, d, f)
      PROVE  IInv'
  <2>1. /\ Good(slots', handed) /\ Consistent(slots')
        /\ slots'.data[op] = d
    BY <1>1, SetSlotGood DEF SetOne, AppMayPass, IInv, TypeOK
  <2>2. handed \in SUBSET Data  BY DEF IInv, TypeOK
  <2>3. Good(slots', handed \cup ({d} \cap Data))  BY <2>1, <2>2, HandOver
  <2> QED  BY <1>1, <2>1, <2>2, <2>3 DEF SetOne, IInv, TypeOK, Good, Consistent
<1>2. ASSUME NEW d \in Pointer, NEW f \in BOOLEAN, SetAll(d, f)
      PROVE  IInv'
  <2> DEFINE s1 == SetSlot(slots, "create", d, f)
             s2 == SetSlot(s1, "update", d, f)
             s3 == SetSlot(s2, "delete", d, f)
  <2>0. handed \in SUBSET Data  BY DEF IInv, TypeOK
  <2>1. d \in Data => f \in AppFree[d] /\ slots.freed[d] = 0
    BY <1>2 DEF SetAll, AppMayPass
  <2>2. Good(slots, handed) /\ Consistent(slots)  BY DEF IInv
  <2>3. Good(s1, handed) /\ Consistent(s1) /\ (d \in Data => s1.freed[d] = 0)
    BY <2>0, <2>1, <2>2, SetSlotGood DEF Op
  <2> HIDE DEF s1
  <2>4. Good(s2, handed) /\ Consistent(s2) /\ (d \in Data => s2.freed[d] = 0)
    BY <2>0, <2>1, <2>3, SetSlotGood DEF Op
  <2> HIDE DEF s2
  <2>5. Good(s3, handed) /\ Consistent(s3) /\ s3.data["delete"] = d
    BY <2>0, <2>1, <2>4, SetSlotGood DEF Op
  <2> HIDE DEF s3
  <2>6. Good(s3, handed \cup ({d} \cap Data))  BY <2>0, <2>5, HandOver DEF Op
  <2>7. slots' = s3  BY <1>2 DEF SetAll, s1, s2, s3
  <2> QED  BY <1>2, <2>0, <2>5, <2>6, <2>7 DEF SetAll, IInv, TypeOK, Good, Consistent
<1>3. CASE MarkDeleted
  BY <1>3 DEF MarkDeleted, IInv, TypeOK, Good, Consistent
<1>4. CASE Destroy
  <2> DEFINE s1 == Release(slots, "create")
             s2 == Release(s1, "update")
             s3 == Release(s2, "delete")
  <2>0. handed \in SUBSET Data  BY DEF IInv, TypeOK
  <2>2. Good(slots, handed) /\ Consistent(slots)  BY DEF IInv
  <2>3. /\ Good(s1, handed) /\ Consistent(s1)
        /\ s1.data = [slots.data EXCEPT !["create"] = NULL]
    BY <2>0, <2>2, ReleaseGood DEF Op
  <2> HIDE DEF s1
  <2>4. /\ Good(s2, handed) /\ Consistent(s2)
        /\ s2.data = [s1.data EXCEPT !["update"] = NULL]
    BY <2>0, <2>3, ReleaseGood DEF Op
  <2> HIDE DEF s2
  <2>5. /\ Good(s3, handed) /\ Consistent(s3)
        /\ s3.data = [s2.data EXCEPT !["delete"] = NULL]
    BY <2>0, <2>4, ReleaseGood DEF Op
  <2> HIDE DEF s3
  <2>6. \A op \in Op : s3.data[op] = NULL
    BY <2>2, <2>3, <2>4, <2>5 DEF Good, Slots, Op
  <2>7. slots' = s3  BY <1>4 DEF Destroy, ReleaseAll, s1, s2, s3
  <2> QED  BY <1>4, <2>0, <2>5, <2>6, <2>7 DEF Destroy, IInv, TypeOK, Good, Consistent
<1>5. CASE UNCHANGED vars
  BY <1>5 DEF vars, IInv, TypeOK, Good, Consistent
<1> QED  BY <1>1, <1>2, <1>3, <1>4, <1>5 DEF Next

(* The inductive invariant implies the properties the runs check. *)
LEMMA IInvImplies == IInv => NoDanglingData /\ NoDoubleFree /\ NoLeak
BY NullAssumption DEF IInv, TypeOK, Good, NoDanglingData, NoDoubleFree, NoLeak

(* The variables of a session's callback data keep their types. *)
THEOREM TypeCorrect == Spec => []TypeOK
<1>1. IInv => TypeOK  BY DEF IInv
<1> QED  BY InitIInv, NextIInv, <1>1, PTL DEF Spec

(* No result callback is ever given data its free function has destroyed.   *)
THEOREM DataNeverDangles == Spec => []NoDanglingData
BY InitIInv, NextIInv, IInvImplies, PTL DEF Spec

(* No callback data is freed twice. *)
THEOREM DataFreedOnce == Spec => []NoDoubleFree
BY InitIInv, NextIInv, IInvImplies, PTL DEF Spec

(* Data that always has a free function is freed when the session is        *)
(* destroyed, if not before.                                                *)
THEOREM DataNotLeaked == Spec => []NoLeak
BY InitIInv, NextIInv, IInvImplies, PTL DEF Spec
=============================================================================
