------------------------ MODULE SessionPatch_proofs ------------------------
(***************************************************************************)
(* What a patch list does at the MB-SMF: for any values of the fields and  *)
(* lists of any length, the list that _mbs_session_patch_list makes takes  *)
(* the document that the MB-SMF holds to the document of the session.      *)
(*                                                                         *)
(* The peer of JsonPatch is made of two recursive functions, Way and       *)
(* After; what they compute is shown once, by the least number of steps at *)
(* which it would go wrong.  Then:                                         *)
(*                                                                         *)
(*   Puts(items, old, new): the items lead an optional value from one      *)
(*     document to another, by replacing it whole or changing it inside.   *)
(*   Moves(items, name, old, new): with the prefix of an attribute, they   *)
(*     lead that member of any object, and leave the others.               *)
(*   Makes(obj, items, f): they lead obj to the object with the members f. *)
(*                                                                         *)
(* A lemma for each field type, from the leaves up, says that its patch    *)
(* list Puts the document of the old value to that of the new; lists of    *)
(* entries are one argument for all types, by the number of entries done.  *)
(* UpdateLeads puts the members of a session together.  A push that sends  *)
(* nothing is the other half: the lemmas named ...Agree say that values    *)
(* which the comparisons take for equal have the same document.            *)
(***************************************************************************)
EXTENDS SessionUpdate_proofs

-----------------------------------------------------------------------------
(* The recursive functions of the peer *)

(* What Way computes up to n steps.                                         *)
IsWay(f, n, obj, path) ==
    /\ f = [m \in 0 .. n |-> f[m]]
    /\ f[0] = <<obj>>
    /\ \A m \in 1 .. n :
          f[m] = IF f[m - 1] # <<>> /\ There(f[m - 1][1], path[m])
                 THEN <<f[m - 1][1][Place(f[m - 1][1], path[m])]>> ELSE <<>>

LEMMA WayExists ==
    ASSUME NEW obj, NEW path, NEW n \in Nat
    PROVE  \E f : IsWay(f, n, obj, path)
<1> DEFINE B == {j \in Nat : ~\E f : IsWay(f, j, obj, path)}
<1>1. SUFFICES ASSUME B # {} PROVE FALSE
  OBVIOUS
<1>2. PICK j \in B : \A l \in B : j <= l
  <2>1. B \subseteq Nat
    OBVIOUS
  <2> HIDE DEF B
  <2> QED BY <1>1, <2>1, Least
<1>3. j \in Nat /\ ~\E f : IsWay(f, j, obj, path)
  BY <1>2
<1>4. CASE j = 0
  <2> DEFINE f == [m \in 0 .. 0 |-> <<obj>>]
  <2>1. IsWay(f, 0, obj, path)
    BY DEF IsWay
  <2> QED BY <1>3, <1>4, <2>1
<1>5. CASE j # 0
  <2>1. j - 1 \in Nat /\ j - 1 \notin B
    <3>1. j - 1 \in Nat /\ ~(j <= j - 1)
      BY <1>3, <1>5
    <3> HIDE DEF B
    <3> QED BY <1>2, <3>1
  <2>2. PICK h : IsWay(h, j - 1, obj, path)
    BY <2>1
  <2> DEFINE e == IF h[j - 1] # <<>> /\ There(h[j - 1][1], path[j])
                  THEN <<h[j - 1][1][Place(h[j - 1][1], path[j])]>> ELSE <<>>
             g == [m \in 0 .. j |-> IF m = j THEN e ELSE h[m]]
  <2>3. \A m \in 0 .. j - 1 : g[m] = h[m]
    BY <1>3, <1>5
  <2>4. g[j] = e /\ g = [m \in 0 .. j |-> g[m]]
    BY <1>3
  <2> HIDE DEF g
  <2>5. ASSUME NEW m \in 1 .. j
        PROVE  g[m] = IF g[m - 1] # <<>> /\ There(g[m - 1][1], path[m])
                      THEN <<g[m - 1][1][Place(g[m - 1][1], path[m])]>> ELSE <<>>
    <3>1. g[m - 1] = h[m - 1]
      BY <1>3, <2>3
    <3>2. CASE m = j
      BY <3>1, <3>2, <2>4
    <3>3. CASE m # j
      <4>1. m \in 1 .. j - 1 /\ g[m] = h[m]
        BY <1>3, <2>3, <3>3
      <4> QED BY <3>1, <4>1, <2>2 DEF IsWay
    <3> QED BY <3>2, <3>3
  <2>6. g[0] = <<obj>>
    <3>1. g[0] = h[0]
      BY <1>3, <1>5, <2>3
    <3>2. h[0] = <<obj>>
      BY <2>2 DEF IsWay
    <3> QED BY <3>1, <3>2
  <2>7. IsWay(g, j, obj, path)
    BY <2>4, <2>5, <2>6 DEF IsWay
  <2> QED BY <1>3, <2>7
<1> QED BY <1>4, <1>5

LEMMA WayIs ==
    ASSUME NEW obj, NEW path, Len(path) \in Nat \ {0}
    PROVE  IsWay(Way(obj, path), Len(path) - 1, obj, path)
<1> DEFINE n == Len(path) - 1
           F(f) == [m \in 0 .. n |->
                      IF m = 0 THEN <<obj>>
                      ELSE IF f[m - 1] # <<>> /\ There(f[m - 1][1], path[m])
                           THEN <<f[m - 1][1][Place(f[m - 1][1], path[m])]>> ELSE <<>>]
           way == CHOOSE f : f = F(f)
<1>0. n \in Nat
  OBVIOUS
<1>4. Way(obj, path) = way
  BY DEF Way
<1> HIDE DEF n
<1>1. PICK h : IsWay(h, n, obj, path)
  BY <1>0, WayExists
<1>2. h = F(h)
  <2>1. h = [m \in 0 .. n |-> h[m]]
    BY <1>1 DEF IsWay
  <2>2. ASSUME NEW m \in 0 .. n PROVE h[m] = F(h)[m]
    <3>1. CASE m = 0
      BY <1>0, <1>1, <3>1 DEF IsWay
    <3>2. CASE m # 0
      <4>1. m \in 1 .. n
        BY <1>0, <3>2
      <4> QED BY <4>1, <1>1 DEF IsWay
    <3> QED BY <3>1, <3>2
  <2> QED BY <2>1, <2>2
<1>3. way = F(way)
  <2> HIDE DEF F
  <2> QED BY <1>2
<1> HIDE DEF way
<1>5. IsWay(way, n, obj, path)
  <2>1. way = [m \in 0 .. n |-> way[m]]
    BY <1>3
  <2>2. way[0] = <<obj>>
    BY <1>0, <1>3
  <2>3. \A m \in 1 .. n :
          way[m] = IF way[m - 1] # <<>> /\ There(way[m - 1][1], path[m])
                   THEN <<way[m - 1][1][Place(way[m - 1][1], path[m])]>> ELSE <<>>
    <3> TAKE m \in 1 .. n
    <3>1. m \in 0 .. n /\ m # 0
      BY <1>0
    <3>2. way[m] = F(way)[m]
      BY <1>3
    <3> HIDE DEF F
    <3>3. F(way)[m] = IF way[m - 1] # <<>> /\ There(way[m - 1][1], path[m])
                      THEN <<way[m - 1][1][Place(way[m - 1][1], path[m])]>> ELSE <<>>
      BY <3>1 DEF F
    <3> QED BY <3>2, <3>3
  <2> QED BY <2>1, <2>2, <2>3 DEF IsWay
<1> QED BY <1>4, <1>5 DEF n

(* What After computes up to n items.                                       *)
IsAfter(f, n, obj, items) ==
    /\ f = [m \in 0 .. n |-> f[m]]
    /\ f[0] = <<obj>>
    /\ \A m \in 1 .. n :
          f[m] = IF f[m - 1] # <<>> /\ Applies(f[m - 1][1], items[m])
                 THEN <<Applied(f[m - 1][1], items[m])>> ELSE <<>>

LEMMA AfterExists ==
    ASSUME NEW obj, NEW items, NEW n \in Nat
    PROVE  \E f : IsAfter(f, n, obj, items)
<1> DEFINE B == {j \in Nat : ~\E f : IsAfter(f, j, obj, items)}
<1>1. SUFFICES ASSUME B # {} PROVE FALSE
  OBVIOUS
<1>2. PICK j \in B : \A l \in B : j <= l
  <2>1. B \subseteq Nat
    OBVIOUS
  <2> HIDE DEF B
  <2> QED BY <1>1, <2>1, Least
<1>3. j \in Nat /\ ~\E f : IsAfter(f, j, obj, items)
  BY <1>2
<1>4. CASE j = 0
  <2> DEFINE f == [m \in 0 .. 0 |-> <<obj>>]
  <2>1. IsAfter(f, 0, obj, items)
    BY DEF IsAfter
  <2> QED BY <1>3, <1>4, <2>1
<1>5. CASE j # 0
  <2>1. j - 1 \in Nat /\ j - 1 \notin B
    <3>1. j - 1 \in Nat /\ ~(j <= j - 1)
      BY <1>3, <1>5
    <3> HIDE DEF B
    <3> QED BY <1>2, <3>1
  <2>2. PICK h : IsAfter(h, j - 1, obj, items)
    BY <2>1
  <2> DEFINE e == IF h[j - 1] # <<>> /\ Applies(h[j - 1][1], items[j])
                  THEN <<Applied(h[j - 1][1], items[j])>> ELSE <<>>
             g == [m \in 0 .. j |-> IF m = j THEN e ELSE h[m]]
  <2>3. \A m \in 0 .. j - 1 : g[m] = h[m]
    BY <1>3, <1>5
  <2>4. g[j] = e /\ g = [m \in 0 .. j |-> g[m]]
    BY <1>3
  <2> HIDE DEF g
  <2>5. ASSUME NEW m \in 1 .. j
        PROVE  g[m] = IF g[m - 1] # <<>> /\ Applies(g[m - 1][1], items[m])
                      THEN <<Applied(g[m - 1][1], items[m])>> ELSE <<>>
    <3>1. g[m - 1] = h[m - 1]
      BY <1>3, <2>3
    <3>2. CASE m = j
      BY <3>1, <3>2, <2>4
    <3>3. CASE m # j
      <4>1. m \in 1 .. j - 1 /\ g[m] = h[m]
        BY <1>3, <2>3, <3>3
      <4> QED BY <3>1, <4>1, <2>2 DEF IsAfter
    <3> QED BY <3>2, <3>3
  <2>6. g[0] = <<obj>>
    <3>1. g[0] = h[0]
      BY <1>3, <1>5, <2>3
    <3>2. h[0] = <<obj>>
      BY <2>2 DEF IsAfter
    <3> QED BY <3>1, <3>2
  <2>7. IsAfter(g, j, obj, items)
    BY <2>4, <2>5, <2>6 DEF IsAfter
  <2> QED BY <1>3, <2>7
<1> QED BY <1>4, <1>5

LEMMA AfterIs ==
    ASSUME NEW obj, NEW items, Len(items) \in Nat
    PROVE  IsAfter(After(obj, items), Len(items), obj, items)
<1> DEFINE n == Len(items)
           F(f) == [m \in 0 .. n |->
                      IF m = 0 THEN <<obj>>
                      ELSE IF f[m - 1] # <<>> /\ Applies(f[m - 1][1], items[m])
                           THEN <<Applied(f[m - 1][1], items[m])>> ELSE <<>>]
           after == CHOOSE f : f = F(f)
<1>0. n \in Nat
  OBVIOUS
<1>4. After(obj, items) = after
  BY DEF After
<1> HIDE DEF n
<1>1. PICK h : IsAfter(h, n, obj, items)
  BY <1>0, AfterExists
<1>2. h = F(h)
  <2>1. h = [m \in 0 .. n |-> h[m]]
    BY <1>1 DEF IsAfter
  <2>2. ASSUME NEW m \in 0 .. n PROVE h[m] = F(h)[m]
    <3>1. CASE m = 0
      BY <1>0, <1>1, <3>1 DEF IsAfter
    <3>2. CASE m # 0
      <4>1. m \in 1 .. n
        BY <1>0, <3>2
      <4> QED BY <4>1, <1>1 DEF IsAfter
    <3> QED BY <3>1, <3>2
  <2> QED BY <2>1, <2>2
<1>3. after = F(after)
  <2> HIDE DEF F
  <2> QED BY <1>2
<1> HIDE DEF after
<1>5. IsAfter(after, n, obj, items)
  <2>1. after = [m \in 0 .. n |-> after[m]]
    BY <1>3
  <2>2. after[0] = <<obj>>
    BY <1>0, <1>3
  <2>3. \A m \in 1 .. n :
          after[m] = IF after[m - 1] # <<>> /\ Applies(after[m - 1][1], items[m])
                   THEN <<Applied(after[m - 1][1], items[m])>> ELSE <<>>
    <3> TAKE m \in 1 .. n
    <3>1. m \in 0 .. n /\ m # 0
      BY <1>0
    <3>2. after[m] = F(after)[m]
      BY <1>3
    <3> HIDE DEF F
    <3>3. F(after)[m] = IF after[m - 1] # <<>> /\ Applies(after[m - 1][1], items[m])
                      THEN <<Applied(after[m - 1][1], items[m])>> ELSE <<>>
      BY <3>1 DEF F
    <3> QED BY <3>2, <3>3
  <2> QED BY <2>1, <2>2, <2>3 DEF IsAfter
<1> QED BY <1>4, <1>5 DEF n

(* What Applied computes from the n-th document on. *)
IsNew(f, n, obj, item) ==
    /\ f = [m \in n .. Len(item.path) |-> f[m]]
    /\ f[Len(item.path)] = AtPlace(Parent(obj, item)[1], LastStep(item), item)
    /\ \A m \in n .. Len(item.path) - 1 :
          LET at == Way(obj, item.path)[m - 1][1]
          IN f[m] = [at EXCEPT ![Place(at, item.path[m])] = f[m + 1]]

LEMMA NewExists ==
    ASSUME NEW obj, NEW item, Len(item.path) \in Nat \ {0}, NEW k \in 0 .. Len(item.path) - 1
    PROVE  \E f : IsNew(f, Len(item.path) - k, obj, item)
<1> DEFINE l == Len(item.path)
           B == {j \in 0 .. l - 1 : ~\E f : IsNew(f, l - j, obj, item)}
<1>0. l \in Nat \ {0}
  OBVIOUS
<1>1. SUFFICES ASSUME B # {} PROVE FALSE
  OBVIOUS
<1> HIDE DEF l
<1>2. PICK j \in B : \A i \in B : j <= i
  <2>1. B \subseteq Nat
    BY <1>0
  <2> HIDE DEF B
  <2> QED BY <1>1, <2>1, Least
<1>3. j \in 0 .. l - 1 /\ ~\E f : IsNew(f, l - j, obj, item)
  BY <1>2
<1> DEFINE last == AtPlace(Parent(obj, item)[1], LastStep(item), item)
<1>4. CASE j = 0
  <2> DEFINE f == [m \in l .. l |-> last]
  <2>1. f[l] = last /\ f = [m \in l .. l |-> f[m]]
    BY <1>0
  <2>2. l .. l - 1 = {}
    BY <1>0
  <2> HIDE DEF f
  <2>3. IsNew(f, l, obj, item)
    BY <2>1, <2>2 DEF IsNew, l
  <2>4. l - j = l
    BY <1>0, <1>4
  <2> QED BY <1>3, <2>3, <2>4
<1>5. CASE j # 0
  <2>1. j - 1 \in 0 .. l - 1 /\ j - 1 \notin B
    <3>1. j - 1 \in 0 .. l - 1 /\ ~(j <= j - 1)
      BY <1>0, <1>3, <1>5
    <3> HIDE DEF B
    <3> QED BY <1>2, <3>1
  <2>2. PICK h : IsNew(h, l - (j - 1), obj, item)
    BY <2>1
  <2> DEFINE n == l - j
  <2>3. n \in Nat /\ n < l /\ l - (j - 1) = n + 1
    BY <1>0, <1>3, <1>5
  <2> HIDE DEF n
  <2> DEFINE at(m) == Way(obj, item.path)[m - 1][1]
             g == [m \in n .. l |-> IF m = n
                  THEN [at(n) EXCEPT ![Place(at(n), item.path[n])] = h[n + 1]]
                                    ELSE h[m]]
  <2>4. \A m \in n + 1 .. l : g[m] = h[m]
    BY <1>0, <2>3
  <2>5. g[n] = [at(n) EXCEPT ![Place(at(n), item.path[n])] = h[n + 1]]
        /\ g = [m \in n .. l |-> g[m]]
    BY <1>0, <2>3
  <2> HIDE DEF g, at
  <2>6. g[l] = last
    <3>1. g[l] = h[l]
      BY <1>0, <2>3, <2>4
    <3> QED BY <3>1, <2>2 DEF IsNew, l
  <2>7. ASSUME NEW m \in n .. l - 1
        PROVE  g[m] = [at(m) EXCEPT ![Place(at(m), item.path[m])] = g[m + 1]]
    <3>1. g[m + 1] = h[m + 1]
      BY <1>0, <2>3, <2>4
    <3>2. CASE m = n
      BY <3>1, <3>2, <2>5
    <3>3. CASE m # n
      <4>1. m \in n + 1 .. l - 1 /\ g[m] = h[m]
        BY <1>0, <2>3, <2>4, <3>3
      <4> QED BY <3>1, <4>1, <2>2, <2>3 DEF IsNew, at, l
    <3> QED BY <3>2, <3>3
  <2>8. IsNew(g, n, obj, item)
    BY <2>5, <2>6, <2>7 DEF IsNew, at, l
  <2> QED BY <1>3, <2>8 DEF n
<1> QED BY <1>4, <1>5

LEMMA AppliedIs ==
    ASSUME NEW obj, NEW item, Len(item.path) \in Nat \ {0}
    PROVE  \E f : IsNew(f, 1, obj, item) /\ Applied(obj, item) = f[1]
<1> DEFINE l == Len(item.path)
           way == Way(obj, item.path)
           last == AtPlace(way[l - 1][1], LastStep(item), item)
           F(f) == [m \in 1 .. l |->
                      IF m = l THEN AtPlace(way[m - 1][1], LastStep(item), item)
                      ELSE [way[m - 1][1] EXCEPT ![Place(way[m - 1][1], item.path[m])] = f[m + 1]]]
           new == CHOOSE f : f = F(f)
<1>0. l \in Nat \ {0}
  OBVIOUS
<1>1. Applied(obj, item) = new[1]
  BY DEF Applied
<1>2. PICK h : IsNew(h, 1, obj, item)
  <2>1. l - 1 \in 0 .. l - 1 /\ l - (l - 1) = 1
    OBVIOUS
  <2> QED BY <2>1, NewExists
<1>3. last = AtPlace(Parent(obj, item)[1], LastStep(item), item)
  BY DEF Parent
<1> HIDE DEF l, way
<1>4. h = F(h)
  <2>1. h = [m \in 1 .. l |-> h[m]]
    BY <1>2 DEF IsNew, l
  <2>2. ASSUME NEW m \in 1 .. l PROVE h[m] = F(h)[m]
    <3>1. CASE m = l
      BY <1>0, <1>2, <1>3, <3>1 DEF IsNew, l
    <3>2. CASE m # l
      <4>1. m \in 1 .. l - 1
        BY <1>0, <3>2
      <4> QED BY <4>1, <3>2, <1>2 DEF IsNew, l, way
    <3> QED BY <3>1, <3>2
  <2> QED BY <2>1, <2>2
<1>5. new = F(new)
  <2> HIDE DEF F
  <2> QED BY <1>4
<1> HIDE DEF new
<1>6. IsNew(new, 1, obj, item)
  <2>1. new = [m \in 1 .. l |-> new[m]]
    BY <1>5
  <2>2. ASSUME NEW m \in 1 .. l PROVE new[m] = F(new)[m]
    BY <1>5
  <2>3. new[l] = last
    <3>1. new[l] = F(new)[l]
      <4>1. l \in 1 .. l
        BY <1>0
      <4> HIDE DEF F
      <4> QED BY <4>1, <2>2
    <3>2. F(new)[l] = last
      BY <1>0
    <3> QED BY <3>1, <3>2
  <2>4. ASSUME NEW m \in 1 .. l - 1
        PROVE  new[m] = [way[m - 1][1] EXCEPT ![Place(way[m - 1][1], item.path[m])] = new[m + 1]]
    <3>1. m \in 1 .. l /\ m # l
      BY <1>0
    <3>2. new[m] = F(new)[m]
      BY <3>1, <2>2
    <3> QED BY <3>1, <3>2
  <2> QED BY <2>1, <2>3, <2>4, <1>3 DEF IsNew, l, way
<1> QED BY <1>1, <1>6

-----------------------------------------------------------------------------
(* One item *)

(* An item whose path has at least one step. *)
IsItem(item) ==
    /\ item = [op |-> item.op, path |-> item.path, value |-> item.value]
    /\ \E S : item.path \in Seq(S)
    /\ item.path # <<>>

(* The item as the copy under an attribute has it. *)
Under(item, name) == [item EXCEPT !.path = <<Member(name)>> \o @]

LEMMA UnderIs ==
    ASSUME NEW item, IsItem(item), NEW name
    PROVE  LET new == Under(item, name)
           IN /\ Len(item.path) \in Nat \ {0}
              /\ new.op = item.op /\ new.value = item.value
              /\ Len(new.path) = Len(item.path) + 1
              /\ new.path[1] = Member(name)
              /\ \A n \in 1 .. Len(item.path) : new.path[n + 1] = item.path[n]
              /\ IsItem(new)
<1> DEFINE new == Under(item, name)
           path == <<Member(name)>> \o item.path
<1>1. PICK S : item.path \in Seq(S)
  BY DEF IsItem
<1>2. new = [op |-> item.op, path |-> path, value |-> item.value]
  <2>1. \A o, p, v, q : [[op |-> o, path |-> p, value |-> v] EXCEPT !.path = q]
                         = [op |-> o, path |-> q, value |-> v]
    OBVIOUS
  <2>2. item = [op |-> item.op, path |-> item.path, value |-> item.value]
    BY DEF IsItem
  <2>3. new = [item EXCEPT !.path = path]
    BY DEF Under
  <2> HIDE DEF path, new
  <2>4. [item EXCEPT !.path = path]
          = [[op |-> item.op, path |-> item.path, value |-> item.value] EXCEPT !.path = path]
    BY <2>2
  <2> QED BY <2>1, <2>3, <2>4
<1> DEFINE T == S \cup {Member(name)}
<1>3. item.path \in Seq(T) /\ <<Member(name)>> \in Seq(T)
  <2>1. S \subseteq T /\ Member(name) \in T
    OBVIOUS
  <2> HIDE DEF T
  <2> QED BY <1>1, <2>1
<1> HIDE DEF T
<1>4. /\ path \in Seq(T) /\ Len(path) = Len(item.path) + 1 /\ path[1] = Member(name)
      /\ \A n \in 1 .. Len(item.path) : path[n + 1] = item.path[n]
  BY <1>3
<1>5. Len(item.path) \in Nat \ {0}
  BY <1>1 DEF IsItem
<1> HIDE DEF path, new
<1>6. IsItem(new)
  <2>1. path # <<>>
    BY <1>4, <1>5
  <2> QED BY <1>2, <1>4, <2>1 DEF IsItem
<1> QED BY <1>2, <1>4, <1>5, <1>6 DEF new

(* The way under an attribute is the way from its value. *)
LEMMA WayUnder ==
    ASSUME NEW obj, NEW name \in DOMAIN obj, NEW item, IsItem(item),
           NEW n \in 0 .. Len(item.path) - 1
    PROVE  Way(obj, Under(item, name).path)[n + 1] = Way(obj[name], item.path)[n]
<1> DEFINE l == Len(item.path)
           p == Under(item, name).path
           u == Way(obj, p)
           w == Way(obj[name], item.path)
           B == {j \in 0 .. l - 1 : u[j + 1] # w[j]}
<1>1. /\ l \in Nat \ {0} /\ Len(p) = l + 1 /\ p[1] = Member(name)
      /\ \A m \in 1 .. l : p[m + 1] = item.path[m]
  BY UnderIs
<1> HIDE DEF p
<1>2. IsWay(u, l, obj, p)
  <2>1. Len(p) \in Nat \ {0} /\ Len(p) - 1 = l
    BY <1>1
  <2> QED BY <2>1, WayIs
<1>3. IsWay(w, l - 1, obj[name], item.path)
  BY <1>1, WayIs
<1> HIDE DEF l, u, w
<1>4. ASSUME B # {} PROVE FALSE
  <2>1. PICK j \in B : \A i \in B : j <= i
    <3>1. B \subseteq Nat
      BY <1>1
    <3> HIDE DEF B
    <3> QED BY <1>4, <3>1, Least
  <2>2. j \in 0 .. l - 1 /\ u[j + 1] # w[j]
    BY <2>1
  <2>3. CASE j = 0
    <3>1. u[0] = <<obj>> /\ u[0][1] = obj /\ u[0] # <<>>
      <4>1. u[0] = <<obj>>
        BY <1>2 DEF IsWay
      <4> QED BY <4>1
    <3>2. There(obj, Member(name)) /\ Place(obj, Member(name)) = name
      BY DEF There, Place, IsIndex, Member
    <3>3. 1 \in 1 .. l /\ 1 - 1 = 0
      BY <1>1
    <3>4. u[1] = IF u[0] # <<>> /\ There(u[0][1], p[1])
          THEN <<u[0][1][Place(u[0][1], p[1])]>> ELSE <<>>
      BY <1>2, <3>3 DEF IsWay
    <3>5. u[1] = <<obj[name]>>
      BY <1>1, <3>1, <3>2, <3>4
    <3>6. w[0] = <<obj[name]>>
      BY <1>3 DEF IsWay
    <3> QED BY <2>2, <2>3, <3>5, <3>6
  <2>4. CASE j # 0
    <3>1. j - 1 \in 0 .. l - 1 /\ j - 1 \notin B /\ j \in 1 .. l - 1
      <4>1. j - 1 \in 0 .. l - 1 /\ ~(j <= j - 1) /\ j \in 1 .. l - 1
        BY <1>1, <2>2, <2>4
      <4> HIDE DEF B
      <4> QED BY <2>1, <4>1
    <3>2. u[j] = w[j - 1]
      <4>1. u[(j - 1) + 1] = w[j - 1] /\ (j - 1) + 1 = j
        BY <3>1
      <4> QED BY <4>1
    <3>3. w[j] = IF w[j - 1] # <<>> /\ There(w[j - 1][1], item.path[j])
                 THEN <<w[j - 1][1][Place(w[j - 1][1], item.path[j])]>> ELSE <<>>
      BY <1>3, <3>1 DEF IsWay
    <3>4. j + 1 \in 1 .. l /\ (j + 1) - 1 = j /\ p[j + 1] = item.path[j]
      BY <1>1, <3>1
    <3>5. u[j + 1] = IF u[j] # <<>> /\ There(u[j][1], p[j + 1])
                     THEN <<u[j][1][Place(u[j][1], p[j + 1])]>> ELSE <<>>
      BY <1>2, <3>4 DEF IsWay
    <3> QED BY <2>2, <3>2, <3>3, <3>4, <3>5
  <2> QED BY <2>3, <2>4
<1>5. n \notin B
  BY <1>4
<1> QED BY <1>5 DEF l, u, w, p

(* What an item does under an attribute is what it does to the value. *)
LEMMA AppliedUnder ==
    ASSUME NEW obj, NEW name \in DOMAIN obj, NEW item, IsItem(item)
    PROVE  /\ Applies(obj, Under(item, name)) <=> Applies(obj[name], item)
           /\ Applied(obj, Under(item, name)) = [obj EXCEPT ![name] = Applied(obj[name], item)]
<1> DEFINE l == Len(item.path)
           new == Under(item, name)
<1>1. /\ l \in Nat \ {0} /\ Len(new.path) = l + 1 /\ new.path[1] = Member(name)
      /\ \A m \in 1 .. l : new.path[m + 1] = item.path[m]
      /\ new.op = item.op /\ new.value = item.value
  BY UnderIs
<1>2. \A n \in 0 .. l - 1 : Way(obj, new.path)[n + 1] = Way(obj[name], item.path)[n]
  BY WayUnder
<1> HIDE DEF new
<1>3. Parent(obj, new) = Parent(obj[name], item) /\ LastStep(new) = LastStep(item)
  <2>1. Way(obj, new.path)[(l - 1) + 1] = Way(obj[name], item.path)[l - 1]
        /\ (l - 1) + 1 = l /\ Len(new.path) - 1 = l /\ new.path[l + 1] = item.path[l]
    BY <1>1, <1>2
  <2> QED BY <1>1, <2>1 DEF Parent, LastStep, l
<1>4. Applies(obj, new) <=> Applies(obj[name], item)
  BY <1>1, <1>3 DEF Applies
<1>5. PICK f : IsNew(f, 1, obj[name], item) /\ Applied(obj[name], item) = f[1]
  BY <1>1, AppliedIs
<1>6. PICK g : IsNew(g, 1, obj, new) /\ Applied(obj, new) = g[1]
  <2>1. Len(new.path) \in Nat \ {0}
    BY <1>1
  <2> QED BY <2>1, AppliedIs
<1> HIDE DEF l
<1> DEFINE B == {j \in 0 .. l - 1 : g[l - j + 1] # f[l - j]}
<1>7. ASSUME B # {} PROVE FALSE
  <2>1. PICK j \in B : \A i \in B : j <= i
    <3>1. B \subseteq Nat
      BY <1>1
    <3> HIDE DEF B
    <3> QED BY <1>7, <3>1, Least
  <2>2. j \in 0 .. l - 1 /\ g[l - j + 1] # f[l - j]
    BY <2>1
  <2>3. CASE j = 0
    <3>1. g[l + 1] = AtPlace(Parent(obj, new)[1], LastStep(new), new)
      BY <1>1, <1>6 DEF IsNew
    <3>2. f[l] = AtPlace(Parent(obj[name], item)[1], LastStep(item), item)
      BY <1>5 DEF IsNew, l
    <3>3. \A d, s : AtPlace(d, s, new) = AtPlace(d, s, item)
      BY <1>1 DEF AtPlace
    <3>4. g[l + 1] = f[l] /\ l - j = l
      BY <1>1, <1>3, <2>3, <3>1, <3>2, <3>3
    <3> QED BY <2>2, <3>4
  <2>4. CASE j # 0
    <3> DEFINE m == l - j
    <3>1. /\ j - 1 \in 0 .. l - 1 /\ j - 1 \notin B
          /\ m \in 1 .. l - 1 /\ l - (j - 1) = m + 1 /\ l - j = m
      <4>1. j - 1 \in 0 .. l - 1 /\ ~(j <= j - 1)
        BY <1>1, <2>2, <2>4
      <4>2. m \in 1 .. l - 1 /\ l - (j - 1) = m + 1 /\ l - j = m
        BY <1>1, <2>2, <2>4
      <4> HIDE DEF B, m
      <4> QED BY <2>1, <4>1, <4>2
    <3> HIDE DEF m
    <3>2. g[m + 1 + 1] = f[m + 1]
      <4>1. g[l - (j - 1) + 1] = f[l - (j - 1)]
        BY <3>1
      <4> QED BY <3>1, <4>1
    <3> DEFINE at == Way(obj[name], item.path)[m - 1][1]
    <3>3. f[m] = [at EXCEPT ![Place(at, item.path[m])] = f[m + 1]]
      BY <1>5, <3>1 DEF IsNew, l
    <3>4. /\ m + 1 \in 1 .. Len(new.path) - 1 /\ (m + 1) - 1 = m
          /\ new.path[m + 1] = item.path[m]
          /\ Way(obj, new.path)[m][1] = at
      <4>1. Way(obj, new.path)[(m - 1) + 1] = Way(obj[name], item.path)[m - 1]
            /\ (m - 1) + 1 = m
        BY <1>1, <1>2, <3>1
      <4>2. m + 1 \in 1 .. Len(new.path) - 1 /\ (m + 1) - 1 = m /\ new.path[m + 1] = item.path[m]
        BY <1>1, <3>1
      <4> QED BY <4>1, <4>2
    <3> HIDE DEF at
    <3>5. g[m + 1] = [at EXCEPT ![Place(at, new.path[m + 1])] = g[m + 1 + 1]]
      BY <1>6, <3>4 DEF IsNew
    <3>6. g[m + 1] = f[m]
      BY <3>2, <3>3, <3>4, <3>5
    <3> QED BY <2>2, <3>1, <3>6
  <2> QED BY <2>3, <2>4
<1>8. g[2] = f[1]
  <2>1. l - 1 \notin B /\ l - 1 \in 0 .. l - 1
    <3>1. l - 1 \in 0 .. l - 1
      BY <1>1
    <3> HIDE DEF B
    <3> QED BY <3>1, <1>7
  <2>2. g[l - (l - 1) + 1] = f[l - (l - 1)]
    BY <2>1
  <2>3. l - (l - 1) = 1 /\ 1 + 1 = 2
    BY <1>1
  <2> QED BY <2>2, <2>3
<1>9. g[1] = [obj EXCEPT ![name] = g[2]]
  <2>1. 1 \in 1 .. Len(new.path) - 1 /\ 1 - 1 = 0 /\ 1 + 1 = 2
    BY <1>1
  <2>2. Way(obj, new.path)[0] = <<obj>>
    <3>1. Len(new.path) \in Nat \ {0}
      BY <1>1
    <3> QED BY <3>1, WayIs DEF IsWay
  <2>3. Place(obj, Member(name)) = name
    BY DEF Place, IsIndex, Member
  <2>4. LET at == Way(obj, new.path)[1 - 1][1]
        IN g[1] = [at EXCEPT ![Place(at, new.path[1])] = g[1 + 1]]
    BY <1>6, <2>1 DEF IsNew
  <2>5. Way(obj, new.path)[1 - 1][1] = obj
    BY <2>1, <2>2
  <2> QED BY <1>1, <2>1, <2>3, <2>4, <2>5
<1> QED BY <1>4, <1>5, <1>6, <1>8, <1>9 DEF new

(* An item with a path of one step. *)
LEMMA AppliedHere ==
    ASSUME NEW obj, NEW item, IsItem(item), NEW step, item.path = <<step>>
    PROVE  /\ Applies(obj, item) <=> IF item.op = "add" THEN MayAdd(obj, step) ELSE There(obj, step)
           /\ Applied(obj, item) = AtPlace(obj, step, item)
<1>1. Len(item.path) = 1 /\ Len(item.path) \in Nat \ {0} /\ item.path[1] = step
  OBVIOUS
<1>2. Way(obj, item.path)[0] = <<obj>>
  BY <1>1, WayIs DEF IsWay
<1>3. Parent(obj, item) = <<obj>> /\ LastStep(item) = step
  BY <1>1, <1>2 DEF Parent, LastStep
<1>4. PICK f : IsNew(f, 1, obj, item) /\ Applied(obj, item) = f[1]
  BY <1>1, AppliedIs
<1>5. f[1] = AtPlace(Parent(obj, item)[1], LastStep(item), item)
  BY <1>1, <1>4 DEF IsNew
<1> QED BY <1>3, <1>4, <1>5 DEF Applies

-----------------------------------------------------------------------------
(* Lists of items *)

(* A list of items, each with a path of at least one step. *)
Items(items) == \E S : items \in Seq(S) /\ \A item \in S : IsItem(item)

(* The list put under an attribute. *)
Raised(items, name) == [i \in DOMAIN items |-> Under(items[i], name)]

LEMMA PatchedNone == \A obj : Patched(obj, <<>>) = <<obj>>
  BY AfterIs DEF Patched, IsAfter

LEMMA PatchedOne ==
    ASSUME NEW obj, NEW item, Applies(obj, item)
    PROVE  Patched(obj, <<item>>) = <<Applied(obj, item)>>
<1> DEFINE items == <<item>>
           f == After(obj, items)
<1>1. Len(items) = 1 /\ items[1] = item
  OBVIOUS
<1> HIDE DEF items
<1>2. IsAfter(f, 1, obj, items)
  <2>1. Len(items) \in Nat
    BY <1>1
  <2>2. IsAfter(After(obj, items), Len(items), obj, items)
    BY <2>1, AfterIs
  <2> QED BY <1>1, <2>2
<1> HIDE DEF f
<1>3. f[0] = <<obj>>
  BY <1>2 DEF IsAfter
<1>4. f[0] # <<>> /\ f[0][1] = obj
  BY <1>3
<1>5. f[1] = IF f[0] # <<>> /\ Applies(f[0][1], items[1])
      THEN <<Applied(f[0][1], items[1])>> ELSE <<>>
  <2>1. 1 \in 1 .. 1 /\ 1 - 1 = 0
    OBVIOUS
  <2> QED BY <1>2, <2>1 DEF IsAfter
<1> QED BY <1>1, <1>4, <1>5 DEF Patched, f, items

(* A list is carried out one part after the other. *)
LEMMA PatchedJoin ==
    ASSUME NEW obj, NEW S, NEW p \in Seq(S), NEW q \in Seq(S), NEW mid, Patched(obj, p) = <<mid>>
    PROVE  Patched(obj, p \o q) = Patched(mid, q)
<1> DEFINE n == Len(p)
           m == Len(q)
           r == p \o q
           f == After(obj, p)
           g == After(mid, q)
           h == After(obj, r)
<1>1. /\ n \in Nat /\ m \in Nat /\ Len(r) = n + m
      /\ \A i \in 1 .. n : r[i] = p[i]
      /\ \A i \in 1 .. m : r[n + i] = q[i]
  OBVIOUS
<1> HIDE DEF r
<1>2. IsAfter(f, n, obj, p) /\ IsAfter(g, m, mid, q) /\ IsAfter(h, n + m, obj, r)
  <2>1. Len(p) \in Nat /\ Len(q) \in Nat /\ Len(r) \in Nat
    BY <1>1
  <2>2. IsAfter(After(obj, r), Len(r), obj, r)
    BY <2>1, AfterIs
  <2>3. IsAfter(After(obj, p), Len(p), obj, p) /\ IsAfter(After(mid, q), Len(q), mid, q)
    BY <2>1, AfterIs
  <2> QED BY <1>1, <2>2, <2>3
<1>3. f[n] = <<mid>>
  BY DEF Patched
<1>9. n \in Nat /\ m \in Nat
  BY <1>1
<1>4. Patched(obj, r) = h[n + m] /\ Patched(mid, q) = g[m]
  BY <1>1 DEF Patched
<1> HIDE DEF n, m, f, g, h
<1> DEFINE B == {i \in 0 .. n : h[i] # f[i]}
<1>5. ASSUME B # {} PROVE FALSE
  <2>1. PICK j \in B : \A i \in B : j <= i
    <3>1. B \subseteq Nat
      OBVIOUS
    <3> HIDE DEF B
    <3> QED BY <1>5, <3>1, Least
  <2>2. j \in 0 .. n /\ h[j] # f[j]
    BY <2>1
  <2>3. j # 0
    BY <1>2, <2>2 DEF IsAfter
  <2>4. j - 1 \notin B /\ j - 1 \in 0 .. n
    <3>1. j - 1 \in 0 .. n /\ ~(j <= j - 1)
      BY <1>9, <2>2, <2>3
    <3> HIDE DEF B
    <3> QED BY <2>1, <3>1
  <2>5. h[j - 1] = f[j - 1] /\ r[j] = p[j] /\ j \in 1 .. n /\ j \in 1 .. n + m
    BY <1>1, <2>2, <2>3, <2>4
  <2> HIDE DEF B
  <2> QED BY <1>2, <2>2, <2>5 DEF IsAfter
<1>6. h[n] = <<mid>>
  <2>1. n \in 0 .. n
    BY <1>1
  <2> QED BY <1>3, <1>5, <2>1
<1> DEFINE C == {i \in 0 .. m : h[n + i] # g[i]}
<1>7. ASSUME C # {} PROVE FALSE
  <2>1. PICK j \in C : \A i \in C : j <= i
    <3>1. C \subseteq Nat
      OBVIOUS
    <3> HIDE DEF C
    <3> QED BY <1>7, <3>1, Least
  <2>2. j \in 0 .. m /\ h[n + j] # g[j]
    BY <2>1
  <2>3. j # 0
    <3>1. g[0] = <<mid>> /\ n + 0 = n
      BY <1>1, <1>2 DEF IsAfter
    <3> QED BY <1>6, <2>2, <3>1
  <2>4. j - 1 \notin C /\ j - 1 \in 0 .. m
    <3>1. j - 1 \in 0 .. m /\ ~(j <= j - 1)
      BY <1>9, <2>2, <2>3
    <3> HIDE DEF C
    <3> QED BY <2>1, <3>1
  <2>5. h[n + j - 1] = g[j - 1] /\ r[n + j] = q[j] /\ j \in 1 .. m /\ n + j \in 1 .. n + m
    <3>1. n + (j - 1) = n + j - 1
      BY <1>1, <2>2
    <3> QED BY <1>1, <2>2, <2>3, <2>4, <3>1
  <2> HIDE DEF C
  <2>6. h[n + j] = IF h[n + j - 1] # <<>> /\ Applies(h[n + j - 1][1], r[n + j])
                   THEN <<Applied(h[n + j - 1][1], r[n + j])>> ELSE <<>>
    <3> DEFINE k == n + j
    <3>1. k \in 1 .. n + m
      BY <2>5
    <3>2. IsAfter(h, n + m, obj, r)
      BY <1>2
    <3>4. k = n + j /\ k - 1 = n + j - 1
      BY <1>9, <2>2
    <3> HIDE DEF k
    <3>3. h[k] = IF h[k - 1] # <<>> /\ Applies(h[k - 1][1], r[k])
                 THEN <<Applied(h[k - 1][1], r[k])>> ELSE <<>>
      BY <3>1, <3>2 DEF IsAfter
    <3> QED BY <3>3, <3>4
  <2>7. g[j] = IF g[j - 1] # <<>> /\ Applies(g[j - 1][1], q[j])
               THEN <<Applied(g[j - 1][1], q[j])>> ELSE <<>>
    BY <1>2, <2>5 DEF IsAfter
  <2> QED BY <2>2, <2>5, <2>6, <2>7
<1>8. h[n + m] = g[m]
  <2>1. m \in 0 .. m
    BY <1>1
  <2> QED BY <1>7, <2>1
<1> QED BY <1>4, <1>8 DEF r

(* Items under an attribute change its value as they change it by itself. *)
LEMMA PatchedUnder ==
    ASSUME NEW obj, obj = [n \in DOMAIN obj |-> obj[n]], NEW name \in DOMAIN obj,
           NEW items, Items(items), NEW new, Patched(obj[name], items) = <<new>>
    PROVE  Patched(obj, Raised(items, name)) = <<[obj EXCEPT ![name] = new]>>
<1>1. PICK S : items \in Seq(S) /\ \A item \in S : IsItem(item)
  BY DEF Items
<1> DEFINE n == Len(items)
           below == Raised(items, name)
           f == After(obj[name], items)
           g == After(obj, below)
<1>2. n \in Nat /\ Len(below) = n /\ \A i \in 1 .. n : below[i] = Under(items[i], name)
      /\ IsItem(items[i])
  <2>1. \A i \in 1 .. n : IsItem(items[i])
    BY <1>1
  <2> QED BY <1>1, <2>1 DEF Raised
<1> HIDE DEF below
<1>3. IsAfter(f, n, obj[name], items) /\ IsAfter(g, n, obj, below)
  BY <1>2, AfterIs
<1>4. f[n] = <<new>> /\ Patched(obj, below) = g[n]
  BY <1>2 DEF Patched
<1> HIDE DEF n, f, g
\* No step on the way fails.
<1> DEFINE D == {i \in Nat : i <= n /\ f[n - i] = <<>>}
<1>5. ASSUME D # {} PROVE FALSE
  <2>1. PICK j \in D : \A i \in D : j <= i
    <3>1. D \subseteq Nat
      OBVIOUS
    <3> HIDE DEF D
    <3> QED BY <1>5, <3>1, Least
  <2>2. j \in Nat /\ j <= n /\ f[n - j] = <<>>
    BY <2>1
  <2>3. j # 0
    <3>1. f[n] # <<>> /\ n - 0 = n
      BY <1>2, <1>4
    <3> QED BY <2>2, <3>1
  <2>4. n - (j - 1) \in 1 .. n /\ n - (j - 1) - 1 = n - j /\ j - 1 \in Nat /\ j - 1 <= n
        /\ ~(j <= j - 1)
    BY <1>2, <2>2, <2>3
  <2>5. f[n - (j - 1)] = <<>>
    BY <1>3, <2>2, <2>4 DEF IsAfter
  <2>6. j - 1 \in D
    BY <2>4, <2>5
  <2> HIDE DEF D
  <2> QED BY <2>1, <2>4, <2>6
<1>6. \A i \in 0 .. n : f[i] # <<>>
  <2> TAKE i \in 0 .. n
  <2>1. n - i \in Nat /\ n - i <= n /\ n - (n - i) = i
    BY <1>2
  <2>2. n - i \notin D
    BY <1>5
  <2> QED BY <2>1, <2>2
<1> DEFINE B == {i \in 0 .. n : g[i] # <<[obj EXCEPT ![name] = f[i][1]]>>}
<1>7. ASSUME B # {} PROVE FALSE
  <2>1. PICK j \in B : \A i \in B : j <= i
    <3>1. B \subseteq Nat
      OBVIOUS
    <3> HIDE DEF B
    <3> QED BY <1>7, <3>1, Least
  <2>2. j \in 0 .. n /\ g[j] # <<[obj EXCEPT ![name] = f[j][1]]>>
    BY <2>1
  <2>3. CASE j = 0
    <3>1. g[0] = <<obj>> /\ f[0] = <<obj[name]>>
      BY <1>3 DEF IsAfter
    <3>2. f[0][1] = obj[name]
      BY <3>1
    <3>3. [obj EXCEPT ![name] = obj[name]] = obj
      OBVIOUS
    <3> QED BY <2>2, <2>3, <3>1, <3>2, <3>3
  <2>4. CASE j # 0
    <3>1. j - 1 \notin B /\ j - 1 \in 0 .. n /\ j \in 1 .. n
      <4>1. j - 1 \in 0 .. n /\ ~(j <= j - 1) /\ j \in 1 .. n
        BY <1>2, <2>2, <2>4
      <4> HIDE DEF B
      <4> QED BY <2>1, <4>1
    <3> DEFINE v == f[j - 1][1]
               d == [obj EXCEPT ![name] = v]
               item == items[j]
    <3>2. g[j - 1] = <<d>>
      BY <3>1
    <3> HIDE DEF B
    <3>3. f[j - 1] # <<>> /\ f[j] # <<>>
      BY <1>6, <3>1, <2>2
    <3>4. f[j] = <<Applied(v, item)>> /\ Applies(v, item)
      <4>1. f[j] = IF f[j - 1] # <<>> /\ Applies(f[j - 1][1], items[j])
                   THEN <<Applied(f[j - 1][1], items[j])>> ELSE <<>>
        BY <1>3, <3>1 DEF IsAfter
      <4> QED BY <3>3, <4>1
    <3>5. name \in DOMAIN d /\ d[name] = v
          /\ \A w : [d EXCEPT ![name] = w] = [obj EXCEPT ![name] = w]
      OBVIOUS
    <3>6. g[j - 1] # <<>> /\ g[j - 1][1] = d
      BY <3>2
    <3> HIDE DEF d, v
    <3>7. below[j] = Under(item, name) /\ IsItem(item)
      BY <1>2, <3>1
    <3>8. Applies(d, Under(item, name))
          /\ Applied(d, Under(item, name)) = [d EXCEPT ![name] = Applied(v, item)]
      <4>1. /\ Applies(d, Under(item, name)) <=> Applies(d[name], item)
            /\ Applied(d, Under(item, name)) = [d EXCEPT ![name] = Applied(d[name], item)]
        BY <3>5, <3>7, AppliedUnder
      <4> QED BY <3>4, <3>5, <4>1
    <3>9. g[j] = <<[obj EXCEPT ![name] = Applied(v, item)]>>
      <4>1. g[j] = IF g[j - 1] # <<>> /\ Applies(g[j - 1][1], below[j])
                   THEN <<Applied(g[j - 1][1], below[j])>> ELSE <<>>
        BY <1>3, <3>1 DEF IsAfter
      <4> QED BY <4>1, <3>5, <3>6, <3>7, <3>8
    <3>10. f[j][1] = Applied(v, item)
      BY <3>4
    <3> QED BY <2>2, <3>9, <3>10
  <2> QED BY <2>3, <2>4
<1>8. g[n] = <<[obj EXCEPT ![name] = f[n][1]]>>
  <2>1. n \in 0 .. n
    BY <1>2
  <2> QED BY <1>7, <2>1
<1>9. f[n][1] = new
  BY <1>4
<1> QED BY <1>4, <1>8, <1>9 DEF below

(* The lists of a flattened list are carried out one after the other. *)
LEMMA PatchedFlat ==
    ASSUME NEW S, NEW n \in Nat, NEW lists \in [1 .. n -> Seq(S)], NEW d,
           \A i \in 1 .. n : Patched(d[i - 1], lists[i]) = <<d[i]>>
    PROVE  Patched(d[0], FlattenSeq(lists)) = <<d[n]>>
<1>1. lists \in Seq(Seq(S)) /\ Len(lists) = n
  OBVIOUS
<1>2. PICK f : /\ IsFlat(f, n, lists, S)
               /\ FlattenSeq(lists) = IF n = 0 THEN <<>> ELSE f[n]
  BY <1>1, FlatIs
<1> DEFINE B == {i \in 1 .. n : Patched(d[0], f[i]) # <<d[i]>>}
<1>3. ASSUME B # {} PROVE FALSE
  <2>1. PICK j \in B : \A i \in B : j <= i
    <3>1. B \subseteq Nat
      OBVIOUS
    <3> HIDE DEF B
    <3> QED BY <1>3, <3>1, Least
  <2>2. j \in 1 .. n /\ Patched(d[0], f[j]) # <<d[j]>>
    BY <2>1
  <2>3. CASE j = 1
    <3>1. f[j] = lists[j] /\ j - 1 = 0
      BY <1>2, <2>2, <2>3 DEF IsFlat
    <3> QED BY <2>2, <3>1
  <2>4. CASE j # 1
    <3>1. j - 1 \in 1 .. n /\ j - 1 \notin B
      <4>1. j - 1 \in 1 .. n /\ ~(j <= j - 1)
        BY <2>2, <2>4
      <4> HIDE DEF B
      <4> QED BY <2>1, <4>1
    <3>2. Patched(d[0], f[j - 1]) = <<d[j - 1]>>
      BY <3>1
    <3> HIDE DEF B
    <3>3. f[j] = f[j - 1] \o lists[j] /\ f[j - 1] \in Seq(S) /\ lists[j] \in Seq(S)
      BY <1>2, <2>2, <2>4, <3>1 DEF IsFlat
    <3>4. Patched(d[0], f[j]) = Patched(d[j - 1], lists[j])
      BY <3>2, <3>3, PatchedJoin
    <3> QED BY <2>2, <3>4
  <2> QED BY <2>3, <2>4
<1>4. CASE n = 0
  BY <1>2, <1>4, PatchedNone
<1>5. CASE n # 0
  <2>1. n \in 1 .. n
    BY <1>5
  <2> QED BY <1>2, <1>3, <1>5, <2>1
<1> QED BY <1>4, <1>5

-----------------------------------------------------------------------------
(* Members of objects *)

IsObject(obj) == obj = [n \in DOMAIN obj |-> obj[n]]

(* A member that may be absent, and the object with another one. *)
MemberOf(obj, name) == IF name \in DOMAIN obj THEN <<obj[name]>> ELSE <<>>
With(obj, name, opt) ==
    IF Len(opt) = 0 THEN Without(obj, name) ELSE Put(obj, name, opt[1])

(* The list takes a member from one value to another and leaves the rest. *)
Moves(items, name, old, new) ==
    /\ Items(items)
    /\ \A obj : IsObject(obj) /\ MemberOf(obj, name) = old
                => Patched(obj, items) = <<With(obj, name, new)>>

LEMMA NewItem ==
    ASSUME NEW op, NEW value, NEW step
    PROVE  /\ IsItem(Item(op, <<step>>, value))
           /\ Item(op, <<step>>, value).op = op
           /\ Item(op, <<step>>, value).path = <<step>>
           /\ Item(op, <<step>>, value).value = value
<1> DEFINE S == {step}
<1>1. step \in S
  OBVIOUS
<1> HIDE DEF S
<1>2. <<step>> \in Seq(S) /\ <<step>> # <<>>
  BY <1>1
<1> QED BY <1>2 DEF IsItem, Item

LEMMA ItemsNone == Items(<<>>)
<1> DEFINE S == {}
<1>1. \A item \in S : IsItem(item)
  OBVIOUS
<1> HIDE DEF S
<1>2. <<>> \in Seq(S)
  OBVIOUS
<1> QED BY <1>1, <1>2 DEF Items

LEMMA ItemsOne ==
    ASSUME NEW item, IsItem(item)
    PROVE  Items(<<item>>)
<1> DEFINE S == {item}
<1>1. item \in S /\ \A i \in S : IsItem(i)
  OBVIOUS
<1> HIDE DEF S
<1>2. <<item>> \in Seq(S)
  BY <1>1
<1> QED BY <1>1, <1>2 DEF Items

LEMMA ItemsJoin ==
    ASSUME NEW p, NEW q, Items(p), Items(q)
    PROVE  Items(p \o q)
<1>1. PICK S : p \in Seq(S) /\ \A item \in S : IsItem(item)
  BY DEF Items
<1>2. PICK T : q \in Seq(T) /\ \A item \in T : IsItem(item)
  BY DEF Items
<1>3. p \in Seq(S \cup T) /\ q \in Seq(S \cup T)
  BY <1>1, <1>2
<1>4. p \o q \in Seq(S \cup T)
  BY <1>3
<1> QED BY <1>1, <1>2, <1>4 DEF Items

(* Lists one after the other. *)
LEMMA PatchedThen ==
    ASSUME NEW obj, NEW p, NEW q, Items(p), Items(q), NEW mid, Patched(obj, p) = <<mid>>
    PROVE  Patched(obj, p \o q) = Patched(mid, q)
<1>1. PICK S : p \in Seq(S) /\ \A item \in S : IsItem(item)
  BY DEF Items
<1>2. PICK T : q \in Seq(T) /\ \A item \in T : IsItem(item)
  BY DEF Items
<1> DEFINE U == S \cup T
<1>3. p \in Seq(U) /\ q \in Seq(U)
  BY <1>1, <1>2
<1> HIDE DEF U
<1> QED BY <1>3, PatchedJoin

LEMMA MovesNothing == \A name, v : Moves(<<>>, name, v, v)
<1> TAKE name, v
<1>1. ASSUME NEW obj, IsObject(obj), MemberOf(obj, name) = v
      PROVE  With(obj, name, v) = obj
  <2>1. CASE name \in DOMAIN obj
    <3>1. v = <<obj[name]>> /\ Len(v) = 1 /\ v[1] = obj[name]
      BY <1>1, <2>1 DEF MemberOf
    <3>2. Put(obj, name, obj[name]) = [n \in DOMAIN obj |-> obj[n]]
      BY <2>1 DEF Put
    <3> QED BY <1>1, <3>1, <3>2 DEF With, IsObject
  <2>2. CASE name \notin DOMAIN obj
    <3>1. v = <<>> /\ Len(v) = 0 /\ DOMAIN obj \ {name} = DOMAIN obj
      BY <1>1, <2>2 DEF MemberOf
    <3> QED BY <1>1, <3>1 DEF With, Without, IsObject
  <2> QED BY <2>1, <2>2
<1> QED BY <1>1, ItemsNone, PatchedNone DEF Moves

(* One item for a member. *)
LEMMA MovesAdd ==
    ASSUME NEW name, NEW w
    PROVE  \A old : Moves(<<AddItem(<<Member(name)>>, w)>>, name, old, <<w>>)
<1> TAKE old
<1> DEFINE step == Member(name)
           item == AddItem(<<step>>, w)
<1>1. IsItem(item) /\ item.op = "add" /\ item.path = <<step>> /\ item.value = <<w>>
  BY NewItem DEF AddItem
<1>2. ~IsIndex(step) /\ step[2] = name
  BY DEF IsIndex, Member
<1> HIDE DEF item, step
<1>3. ASSUME NEW obj PROVE Patched(obj, <<item>>) = <<With(obj, name, <<w>>)>>
  <2>1. Applies(obj, item) /\ Applied(obj, item) = AtPlace(obj, step, item)
    BY <1>1, <1>2, AppliedHere DEF MayAdd
  <2>2. AtPlace(obj, step, item) = Put(obj, name, w)
    BY <1>1, <1>2 DEF AtPlace, Place
  <2>3. With(obj, name, <<w>>) = Put(obj, name, w)
    BY DEF With
  <2> QED BY <2>1, <2>2, <2>3, PatchedOne
<1>4. Items(<<item>>)
  BY <1>1, ItemsOne
<1> QED BY <1>3, <1>4 DEF Moves, item, step

LEMMA MovesReplace ==
    ASSUME NEW name, NEW v, NEW w
    PROVE  Moves(<<ReplaceItem(<<Member(name)>>, w)>>, name, <<v>>, <<w>>)
<1> DEFINE step == Member(name)
           item == ReplaceItem(<<step>>, w)
<1>1. IsItem(item) /\ item.op = "replace" /\ item.path = <<step>> /\ item.value = <<w>>
  BY NewItem DEF ReplaceItem
<1>2. ~IsIndex(step) /\ step[2] = name
  BY DEF IsIndex, Member
<1> HIDE DEF item, step
<1>3. ASSUME NEW obj, MemberOf(obj, name) = <<v>>
      PROVE  Patched(obj, <<item>>) = <<With(obj, name, <<w>>)>>
  <2>0. name \in DOMAIN obj
    BY <1>3 DEF MemberOf
  <2>1. Applies(obj, item) /\ Applied(obj, item) = AtPlace(obj, step, item)
    BY <1>1, <1>2, <2>0, AppliedHere DEF There
  <2>2. AtPlace(obj, step, item) = Put(obj, name, w)
    BY <1>1, <1>2 DEF AtPlace, Place
  <2>3. With(obj, name, <<w>>) = Put(obj, name, w)
    BY DEF With
  <2> QED BY <2>1, <2>2, <2>3, PatchedOne
<1>4. Items(<<item>>)
  BY <1>1, ItemsOne
<1> QED BY <1>3, <1>4 DEF Moves, item, step

LEMMA MovesRemove ==
    ASSUME NEW name, NEW v
    PROVE  Moves(<<RemoveItem(<<Member(name)>>)>>, name, <<v>>, <<>>)
<1> DEFINE step == Member(name)
           item == RemoveItem(<<step>>)
<1>1. IsItem(item) /\ item.op = "remove" /\ item.path = <<step>>
  BY NewItem DEF RemoveItem
<1>2. ~IsIndex(step) /\ step[2] = name
  BY DEF IsIndex, Member
<1> HIDE DEF item, step
<1>3. ASSUME NEW obj, MemberOf(obj, name) = <<v>>
      PROVE  Patched(obj, <<item>>) = <<With(obj, name, <<>>)>>
  <2>0. name \in DOMAIN obj
    BY <1>3 DEF MemberOf
  <2>1. Applies(obj, item) /\ Applied(obj, item) = AtPlace(obj, step, item)
    BY <1>1, <1>2, <2>0, AppliedHere DEF There
  <2>2. AtPlace(obj, step, item) = Without(obj, name)
    BY <1>1, <1>2 DEF AtPlace, Place
  <2>3. With(obj, name, <<>>) = Without(obj, name)
    BY DEF With
  <2> QED BY <2>1, <2>2, <2>3, PatchedOne
<1>4. Items(<<item>>)
  BY <1>1, ItemsOne
<1> QED BY <1>3, <1>4 DEF Moves, item, step

LEMMA OptIs ==
    ASSUME NEW S, NEW a \in Optional(S)
    PROVE  /\ Len(a) \in Nat
           /\ Len(a) = 0 => a = <<>>
           /\ Len(a) # 0 => Len(a) = 1 /\ a = <<a[1]>> /\ a[1] \in S
<1>1. a \in Seq(S) /\ Len(a) <= 1 /\ Len(a) \in Nat
  BY DEF Optional
<1>2. Len(a) # 0 => Len(a) = 1
  <2> DEFINE n == Len(a)
  <2>1. n \in Nat /\ n <= 1
    BY <1>1
  <2> HIDE DEF n
  <2>2. n # 0 => n = 1
    BY <2>1
  <2> QED BY <2>2 DEF n
<1>3. Len(a) = 1 => a[1] \in S /\ a = <<a[1]>>
  BY <1>1, FirstIn
<1> QED BY <1>1, <1>2, <1>3

LEMMA MovesOpt ==
    ASSUME NEW name, NEW S, NEW a \in Optional(S), NEW b \in Optional(S)
    PROVE  Moves(OptPatch(name, a, b), name, a, b)
<1>1. CASE a = b
  BY <1>1, MovesNothing DEF OptPatch
<1>2. CASE a # b /\ Len(a) = 0
  <2>1. Len(b) # 0 /\ b = <<b[1]>>
    BY <1>2, OptIs
  <2> QED BY <1>2, <2>1, MovesAdd DEF OptPatch
<1>3. CASE a # b /\ Len(a) # 0 /\ Len(b) = 0
  <2>1. a = <<a[1]>> /\ b = <<>>
    BY <1>3, OptIs
  <2> QED BY <1>3, <2>1, MovesRemove DEF OptPatch
<1>4. CASE a # b /\ Len(a) # 0 /\ Len(b) # 0
  <2>1. a = <<a[1]>> /\ b = <<b[1]>>
    BY <1>4, OptIs
  <2>2. OptPatch(name, a, b) = <<ReplaceItem(<<Member(name)>>, b[1])>>
    BY <1>4 DEF OptPatch
  <2>3. Moves(<<ReplaceItem(<<Member(name)>>, b[1])>>, name, <<a[1]>>, <<b[1]>>)
    BY MovesReplace
  <2> QED BY <2>1, <2>2, <2>3
<1> QED BY <1>1, <1>2, <1>3, <1>4

-----------------------------------------------------------------------------
(* Lists put under an attribute *)

LEMMA RaisedIs ==
    ASSUME NEW items, Valued(items), NEW name
    PROVE  AppendList(items, name) = Raised(items, name)
<1>1. PICK S : items \in Seq(S) /\ \A item \in S : HasValue(item)
  BY DEF Valued
<1>2. \A i \in DOMAIN items : WithPrefix(items[i], name) = Under(items[i], name)
  <2> TAKE i \in DOMAIN items
  <2>1. HasValue(items[i])
    BY <1>1
  <2> QED BY <2>1 DEF HasValue, WithPrefix, Under
<1> QED BY <1>2 DEF AppendList, Mapped, Raised

LEMMA RootedIs == \A items : Rooted(items) = Raised(items, "list")
  BY DEF Rooted, Raised, Under

LEMMA RaisedWhole ==
    ASSUME NEW op, NEW value, NEW name
    PROVE  Raised(<<Item(op, <<>>, value)>>, name) = <<Item(op, <<Member(name)>>, value)>>
<1> DEFINE item == Item(op, <<>>, value)
           step == Member(name)
<1>1. Under(item, name) = Item(op, <<step>>, value)
  <2>1. <<step>> \o <<>> = <<step>>
    OBVIOUS
  <2> HIDE DEF step
  <2>2. \A path : [Item(op, <<>>, value) EXCEPT !.path = path] = Item(op, path, value)
    BY DEF Item
  <2>3. Under(item, name) = [item EXCEPT !.path = <<step>> \o item.path] /\ item.path = <<>>
    BY DEF Under, step, Item
  <2> QED BY <2>1, <2>2, <2>3
<1> HIDE DEF item, step
<1>2. Raised(<<item>>, name) = <<Under(item, name)>>
  BY DEF Raised
<1> QED BY <1>1, <1>2 DEF item, step

LEMMA RaisedItems ==
    ASSUME NEW items, Items(items), NEW name
    PROVE  Items(Raised(items, name))
<1>1. PICK S : items \in Seq(S) /\ \A item \in S : IsItem(item)
  BY DEF Items
<1> DEFINE T == {Under(item, name) : item \in S}
           below == Raised(items, name)
<1>2. \A item \in T : IsItem(item)
  BY <1>1, UnderIs
<1>3. below \in Seq(T)
  <2>1. \A i \in DOMAIN items : Under(items[i], name) \in T
    BY <1>1
  <2>2. Len(items) \in Nat /\ DOMAIN items = 1 .. Len(items)
    BY <1>1
  <2> HIDE DEF T
  <2> QED BY <2>1, <2>2 DEF Raised
<1> HIDE DEF T
<1> QED BY <1>2, <1>3 DEF Items

(* A list takes an optional value from one document to another: it leaves   *)
(* it, adds, replaces or removes it whole or changes it inside.             *)
Puts(items, old, new) ==
    \/ items = <<>> /\ old = new
    \/ \E w : items = <<AddItem(<<>>, w)>> /\ old = <<>> /\ new = <<w>>
    \/ \E v, w : items = <<ReplaceItem(<<>>, w)>> /\ old = <<v>> /\ new = <<w>>
    \/ \E v : items = <<RemoveItem(<<>>)>> /\ old = <<v>> /\ new = <<>>
    \/ Items(items) /\ \E v, w : old = <<v>> /\ new = <<w>> /\ Patched(v, items) = <<w>>

LEMMA PutsMoves ==
    ASSUME NEW items, NEW old, NEW new, Puts(items, old, new), NEW name
    PROVE  Moves(Raised(items, name), name, old, new)
<1>1. CASE items = <<>> /\ old = new
  <2>1. Raised(<<>>, name) = <<>>
    BY DEF Raised
  <2> QED BY <1>1, <2>1, MovesNothing
<1>2. CASE \E w : items = <<AddItem(<<>>, w)>> /\ old = <<>> /\ new = <<w>>
  BY <1>2, RaisedWhole, MovesAdd DEF AddItem
<1>3. CASE \E v, w : items = <<ReplaceItem(<<>>, w)>> /\ old = <<v>> /\ new = <<w>>
  <2>1. PICK v, w : items = <<ReplaceItem(<<>>, w)>> /\ old = <<v>> /\ new = <<w>>
    BY <1>3
  <2>2. Raised(<<ReplaceItem(<<>>, w)>>, name) = <<ReplaceItem(<<Member(name)>>, w)>>
    BY RaisedWhole DEF ReplaceItem
  <2> QED BY <2>1, <2>2, MovesReplace
<1>4. CASE \E v : items = <<RemoveItem(<<>>)>> /\ old = <<v>> /\ new = <<>>
  BY <1>4, RaisedWhole, MovesRemove DEF RemoveItem
<1>5. ASSUME Items(items), NEW v, NEW w, old = <<v>>, new = <<w>>, Patched(v, items) = <<w>>
      PROVE  Moves(Raised(items, name), name, old, new)
  <2>1. ASSUME NEW obj, IsObject(obj), MemberOf(obj, name) = <<v>>
        PROVE  Patched(obj, Raised(items, name)) = <<With(obj, name, <<w>>)>>
    <3>1. name \in DOMAIN obj
      BY <2>1 DEF MemberOf
    <3>2. obj[name] = v
      BY <2>1, <3>1 DEF MemberOf
    <3>3. Patched(obj, Raised(items, name)) = <<[obj EXCEPT ![name] = w]>>
      BY <1>5, <2>1, <3>1, <3>2, PatchedUnder DEF IsObject
    <3>4. [obj EXCEPT ![name] = w] = Put(obj, name, w)
      BY <2>1, <3>1 DEF IsObject, Put
    <3>5. With(obj, name, <<w>>) = Put(obj, name, w)
      BY DEF With
    <3> QED BY <3>3, <3>4, <3>5
  <2> QED BY <1>5, <2>1, RaisedItems DEF Moves
<1> QED BY <1>1, <1>2, <1>3, <1>4, <1>5 DEF Puts

-----------------------------------------------------------------------------
(* Objects made of optional members *)

IsForm(f) == IsObject(f) /\ \A n \in DOMAIN f : f[n] = <<>> \/ f[n] = <<f[n][1]>>

(* The list leads from a document to the object with these members. *)
Makes(obj, items, f) == Items(items) /\ IsForm(f) /\ Patched(obj, items) = <<Obj(f)>>

LEMMA OptLen ==
    ASSUME NEW v, v = <<>> \/ v = <<v[1]>>
    PROVE  \/ v = <<>> /\ Len(v) = 0
           \/ v = <<v[1]>> /\ Len(v) = 1
<1>1. CASE v = <<>>
  <2>1. Len(<<>>) = 0
    OBVIOUS
  <2> QED BY <1>1, <2>1, Zenon
<1>2. CASE v = <<v[1]>>
  <2> DEFINE e == v[1]
  <2>1. v = <<e>>
    BY <1>2
  <2> HIDE DEF e
  <2>2. Len(v) = 1
    BY <2>1
  <2> QED BY <1>2, <2>2
<1> QED BY <1>1, <1>2

LEMMA ObjIs ==
    ASSUME NEW f, IsForm(f), NEW name \in DOMAIN f, NEW v, v = <<>> \/ v = <<v[1]>>
    PROVE  /\ IsObject(Obj(f))
           /\ MemberOf(Obj(f), name) = f[name]
           /\ With(Obj(f), name, v) = Obj([f EXCEPT ![name] = v])
           /\ IsForm([f EXCEPT ![name] = v])
<1> DEFINE g == [f EXCEPT ![name] = v]
           d == Obj(f)
<1>1. /\ DOMAIN g = DOMAIN f /\ g[name] = v /\ IsObject(g)
      /\ \A n \in DOMAIN f : n # name => g[n] = f[n]
  BY DEF IsForm, IsObject
<1>2. \A n \in DOMAIN f :
        \/ f[n] = <<>> /\ Len(f[n]) = 0
        \/ f[n] = <<f[n][1]>> /\ Len(f[n]) = 1
  BY OptLen DEF IsForm
<1>3. \/ v = <<>> /\ Len(v) = 0
      \/ v = <<v[1]>> /\ Len(v) = 1
  BY OptLen
<1>4. IsForm(g)
  BY <1>1 DEF IsForm
<1>5. /\ IsObject(d) /\ DOMAIN d = {n \in DOMAIN f : Len(f[n]) = 1}
      /\ \A n \in DOMAIN d : d[n] = f[n][1]
  BY DEF Obj, IsObject
<1> HIDE DEF d
<1>6. MemberOf(d, name) = f[name]
  BY <1>2, <1>5 DEF MemberOf
<1> HIDE DEF g
<1>7. With(d, name, v) = Obj(g)
  <2>1. CASE Len(v) = 0
    <3>1. With(d, name, v) = [n \in DOMAIN d \ {name} |-> d[n]]
      BY <2>1 DEF With, Without
    <3>2. Obj(g) = [n \in DOMAIN d \ {name} |-> d[n]]
      <4>1. {n \in DOMAIN g : Len(g[n]) = 1} = DOMAIN d \ {name}
        BY <1>1, <1>5, <2>1
      <4>2. \A n \in DOMAIN d \ {name} : g[n][1] = d[n]
        BY <1>1, <1>5
      <4> QED BY <4>1, <4>2 DEF Obj
    <3> QED BY <3>1, <3>2
  <2>2. CASE Len(v) # 0
    <3>1. With(d, name, v) = [n \in DOMAIN d \cup {name} |-> IF n = name THEN v[1] ELSE d[n]]
      BY <2>2 DEF With, Put
    <3>2. Obj(g) = [n \in DOMAIN d \cup {name} |-> IF n = name THEN v[1] ELSE d[n]]
      <4>1. {n \in DOMAIN g : Len(g[n]) = 1} = DOMAIN d \cup {name}
        BY <1>1, <1>3, <1>5, <2>2
      <4>2. \A n \in DOMAIN d \cup {name} : g[n][1] = IF n = name THEN v[1] ELSE d[n]
        BY <1>1, <1>5
      <4> QED BY <4>1, <4>2 DEF Obj
    <3> QED BY <3>1, <3>2
  <2> QED BY <2>1, <2>2
<1> QED BY <1>4, <1>5, <1>6, <1>7 DEF d, g

LEMMA MakesFirst ==
    ASSUME NEW f, IsForm(f), NEW name \in DOMAIN f, NEW v, v = <<>> \/ v = <<v[1]>>,
           NEW items, Moves(items, name, f[name], v)
    PROVE  Makes(Obj(f), items, [f EXCEPT ![name] = v])
<1>1. /\ IsObject(Obj(f)) /\ MemberOf(Obj(f), name) = f[name]
      /\ With(Obj(f), name, v) = Obj([f EXCEPT ![name] = v])
      /\ IsForm([f EXCEPT ![name] = v])
  BY ObjIs
<1>2. Patched(Obj(f), items) = <<With(Obj(f), name, v)>>
  BY <1>1 DEF Moves
<1> QED BY <1>1, <1>2 DEF Makes, Moves

LEMMA MakesThen ==
    ASSUME NEW obj, NEW p, NEW f, Makes(obj, p, f), NEW name \in DOMAIN f,
           NEW v, v = <<>> \/ v = <<v[1]>>, NEW q, Moves(q, name, f[name], v)
    PROVE  Makes(obj, p \o q, [f EXCEPT ![name] = v])
<1>1. Makes(Obj(f), q, [f EXCEPT ![name] = v])
  BY MakesFirst DEF Makes
<1>2. Patched(obj, p \o q) = Patched(Obj(f), q)
  BY <1>1, PatchedThen DEF Makes
<1> QED BY <1>1, <1>2, ItemsJoin DEF Makes

-----------------------------------------------------------------------------
(* Arrays *)

LEMMA FlattenItems ==
    ASSUME NEW n \in Nat, NEW lists, lists = [i \in 1 .. n |-> lists[i]],
           \A i \in 1 .. n : Items(lists[i])
    PROVE  /\ Items(FlattenSeq(lists))
           /\ \E S : lists \in [1 .. n -> Seq(S)]
<1> DEFINE T(i) == CHOOSE S : lists[i] \in Seq(S) /\ \A item \in S : IsItem(item)
           S == UNION {T(i) : i \in 1 .. n}
<1>1. \A i \in 1 .. n : lists[i] \in Seq(T(i)) /\ \A item \in T(i) : IsItem(item)
  BY DEF Items
<1> HIDE DEF T
<1>2. \A i \in 1 .. n : lists[i] \in Seq(S)
  <2> TAKE i \in 1 .. n
  <2>1. T(i) \subseteq S
    OBVIOUS
  <2> HIDE DEF S
  <2> QED BY <1>1, <2>1
<1>3. \A item \in S : IsItem(item)
  BY <1>1
<1> HIDE DEF S
<1>4. lists \in [1 .. n -> Seq(S)] /\ lists \in Seq(Seq(S))
  BY <1>2
<1>5. FlattenSeq(lists) \in Seq(S)
  BY <1>4, FlatTyped
<1> QED BY <1>3, <1>4, <1>5 DEF Items

LEMMA FlattenPatched ==
    ASSUME NEW n \in Nat, NEW lists, lists = [i \in 1 .. n |-> lists[i]],
           \A i \in 1 .. n : Items(lists[i]),
           NEW d, \A i \in 1 .. n : Patched(d[i - 1], lists[i]) = <<d[i]>>
    PROVE  Items(FlattenSeq(lists)) /\ Patched(d[0], FlattenSeq(lists)) = <<d[n]>>
  BY FlattenItems, PatchedFlat

LEMMA StepAdd ==
    ASSUME NEW V, NEW d \in Seq(V), NEW w \in V, NEW step \in {End, Nth(Len(d))}
    PROVE  /\ Items(<<AddItem(<<step>>, w)>>)
           /\ Patched(d, <<AddItem(<<step>>, w)>>) = <<Append(d, w)>>
<1> DEFINE item == AddItem(<<step>>, w)
<1>1. IsItem(item) /\ item.op = "add" /\ item.path = <<step>> /\ item.value = <<w>>
  BY NewItem DEF AddItem
<1>2. IsIndex(step) /\ Position(d, step) = Len(d) + 1 /\ Place(d, step) = Len(d) + 1
  BY DEF IsIndex, End, Nth, Position, Place
<1> HIDE DEF item
<1>3. Applies(d, item) /\ Applied(d, item) = AtPlace(d, step, item)
  BY <1>1, <1>2, AppliedHere DEF MayAdd
<1>4. AtPlace(d, step, item) = InsertAt(d, Len(d) + 1, w)
  BY <1>1, <1>2 DEF AtPlace
<1>5. InsertAt(d, Len(d) + 1, w) = Append(d, w)
  <2>1. SubSeq(d, 1, (Len(d) + 1) - 1) = d /\ SubSeq(d, Len(d) + 1, Len(d)) = <<>>
    OBVIOUS
  <2>2. (d \o <<w>>) \o <<>> = Append(d, w)
    OBVIOUS
  <2> QED BY <2>1, <2>2 DEF InsertAt
<1> QED BY <1>1, <1>3, <1>4, <1>5, PatchedOne, ItemsOne DEF item

LEMMA StepReplace ==
    ASSUME NEW V, NEW d \in Seq(V), NEW w \in V, NEW k \in 1 .. Len(d)
    PROVE  /\ Items(<<ReplaceItem(<<Nth(k - 1)>>, w)>>)
           /\ Patched(d, <<ReplaceItem(<<Nth(k - 1)>>, w)>>) = <<[d EXCEPT ![k] = w]>>
<1> DEFINE step == Nth(k - 1)
           item == ReplaceItem(<<step>>, w)
<1>1. IsItem(item) /\ item.op = "replace" /\ item.path = <<step>> /\ item.value = <<w>>
  BY NewItem DEF ReplaceItem
<1>2. IsIndex(step) /\ Position(d, step) = k /\ Place(d, step) = k
  BY DEF IsIndex, End, Nth, Position, Place
<1> HIDE DEF item, step
<1>3. Applies(d, item) /\ Applied(d, item) = AtPlace(d, step, item)
  BY <1>1, <1>2, AppliedHere DEF There
<1>4. AtPlace(d, step, item) = Put(d, k, w)
  BY <1>1, <1>2 DEF AtPlace
<1>5. Put(d, k, w) = [d EXCEPT ![k] = w]
  BY DEF Put
<1> QED BY <1>1, <1>3, <1>4, <1>5, PatchedOne, ItemsOne DEF item, step

LEMMA StepRemove ==
    ASSUME NEW V, NEW d \in Seq(V), NEW k \in 1 .. Len(d)
    PROVE  /\ Items(<<RemoveItem(<<Nth(k - 1)>>)>>)
           /\ Patched(d, <<RemoveItem(<<Nth(k - 1)>>)>>)
                = <<[j \in 1 .. Len(d) - 1 |-> IF j < k THEN d[j] ELSE d[j + 1]]>>
<1> DEFINE step == Nth(k - 1)
           item == RemoveItem(<<step>>)
<1>1. IsItem(item) /\ item.op = "remove" /\ item.path = <<step>>
  BY NewItem DEF RemoveItem
<1>2. IsIndex(step) /\ Position(d, step) = k /\ Place(d, step) = k
  BY DEF IsIndex, End, Nth, Position, Place
<1> HIDE DEF item, step
<1>3. Applies(d, item) /\ Applied(d, item) = AtPlace(d, step, item)
  BY <1>1, <1>2, AppliedHere DEF There
<1>4. AtPlace(d, step, item) = RemoveAt(d, k)
  BY <1>1, <1>2 DEF AtPlace
<1>5. RemoveAt(d, k) = [j \in 1 .. Len(d) - 1 |-> IF j < k THEN d[j] ELSE d[j + 1]]
  <2> DEFINE e == SubSeq(d, 1, k - 1)
             f == SubSeq(d, k + 1, Len(d))
  <2>1. /\ e \in Seq(V) /\ Len(e) = k - 1 /\ f \in Seq(V) /\ Len(f) = Len(d) - k
        /\ \A j \in 1 .. k - 1 : e[j] = d[j]
        /\ \A j \in 1 .. Len(d) - k : f[j] = d[k + j]
    OBVIOUS
  <2> HIDE DEF e, f
  <2>2. /\ e \o f \in Seq(V) /\ Len(e \o f) = Len(d) - 1
        /\ \A j \in 1 .. Len(d) - 1 : (e \o f)[j] = IF j < k THEN d[j] ELSE d[j + 1]
    <3>1. e \o f \in Seq(V) /\ Len(e \o f) = Len(d) - 1
      <4>1. e \o f \in Seq(V) /\ Len(e \o f) = Len(e) + Len(f)
        <5>1. \A a, b \in Seq(V) : a \o b \in Seq(V) /\ Len(a \o b) = Len(a) + Len(b)
          OBVIOUS
        <5> QED BY <2>1, <5>1
      <4>2. Len(d) \in Nat /\ k \in Nat
        OBVIOUS
      <4>3. (k - 1) + (Len(d) - k) = Len(d) - 1
        BY <4>2
      <4> QED BY <2>1, <4>1, <4>3
    <3>2. ASSUME NEW j \in 1 .. Len(d) - 1
          PROVE  (e \o f)[j] = IF j < k THEN d[j] ELSE d[j + 1]
      <4>1. CASE j < k
        BY <2>1, <4>1
      <4>2. CASE ~(j < k)
        <5>1. j - (k - 1) \in 1 .. Len(d) - k /\ k + (j - (k - 1)) = j + 1
          BY <4>2
        <5>2. (e \o f)[j] = f[j - (k - 1)]
          BY <2>1, <4>2
        <5> QED BY <2>1, <4>2, <5>1, <5>2
      <4> QED BY <4>1, <4>2
    <3> QED BY <3>1, <3>2
  <2>3. RemoveAt(d, k) = e \o f
    BY DEF RemoveAt, e, f
  <2> DEFINE g == e \o f
  <2>4. g \in Seq(V) /\ Len(g) = Len(d) - 1
    BY <2>2
  <2>5. \A j \in 1 .. Len(d) - 1 : g[j] = IF j < k THEN d[j] ELSE d[j + 1]
    BY <2>2
  <2> HIDE DEF g
  <2>6. g = [j \in 1 .. Len(d) - 1 |-> g[j]]
    BY <2>4
  <2>7. g = [j \in 1 .. Len(d) - 1 |-> IF j < k THEN d[j] ELSE d[j + 1]]
    BY <2>5, <2>6
  <2> QED BY <2>3, <2>7 DEF g
<1> QED BY <1>1, <1>3, <1>4, <1>5, PatchedOne, ItemsOne DEF item, step

(* The items for the entries of two arrays, as EntryPatches makes them. *)
IsEntries(lists, X, Y) ==
    LET n == IF Len(X) > Len(Y) THEN Len(X) ELSE Len(Y)
    IN /\ lists = [i \in 1 .. n |-> lists[i]]
       /\ \A i \in 1 .. n :
            IF i > Len(X)
            THEN \E step \in {End, Nth(i - 1)} : lists[i] = <<AddItem(<<step>>, Y[i])>>
            ELSE IF i > Len(Y) THEN lists[i] = <<RemoveItem(<<Nth((Len(Y) + 1) - 1)>>)>>
            ELSE \/ lists[i] = <<>> /\ X[i] = Y[i]
                 \/ lists[i] = <<ReplaceItem(<<Nth(i - 1)>>, Y[i])>>

(* They lead from the one to the other. *)
LEMMA EntriesPatched ==
    ASSUME NEW V, NEW X \in Seq(V), NEW Y \in Seq(V), NEW lists, IsEntries(lists, X, Y)
    PROVE  Items(FlattenSeq(lists)) /\ Patched(X, FlattenSeq(lists)) = <<Y>>
<1> DEFINE nx == Len(X)
           ny == Len(Y)
           n == IF nx > ny THEN nx ELSE ny
<1>1. /\ nx \in Nat /\ ny \in Nat /\ n \in Nat /\ nx <= n /\ ny <= n
      /\ n = nx \/ n = ny
      /\ X = [j \in 1 .. nx |-> X[j]] /\ Y = [j \in 1 .. ny |-> Y[j]]
      /\ \A j \in 1 .. nx : X[j] \in V
      /\ \A j \in 1 .. ny : Y[j] \in V
  OBVIOUS
<1>2. /\ lists = [i \in 1 .. n |-> lists[i]]
      /\ \A i \in 1 .. n :
            IF i > nx THEN \E step \in {End, Nth(i - 1)} : lists[i] = <<AddItem(<<step>>, Y[i])>>
            ELSE IF i > ny THEN lists[i] = <<RemoveItem(<<Nth((ny + 1) - 1)>>)>>
            ELSE \/ lists[i] = <<>> /\ X[i] = Y[i]
                 \/ lists[i] = <<ReplaceItem(<<Nth(i - 1)>>, Y[i])>>
  BY DEF IsEntries
<1> HIDE DEF nx, ny, n
<1> DEFINE Shift(i) == IF i > ny THEN i - ny ELSE 0
           Size(i) == IF i > nx THEN i ELSE nx - Shift(i)
           D(i) == [j \in 1 .. Size(i) |-> IF j <= i /\ j <= ny THEN Y[j] ELSE X[j + Shift(i)]]
           d == [i \in 0 .. n |-> D(i)]
<1>3. ASSUME NEW i \in 0 .. n
      PROVE  Size(i) \in Nat /\ D(i) \in Seq(V) /\ Len(D(i)) = Size(i)
  <2>1. Size(i) \in Nat
    BY <1>1
  <2>2. ASSUME NEW j \in 1 .. Size(i) PROVE D(i)[j] \in V
    <3>1. CASE j <= i /\ j <= ny
      BY <1>1, <3>1
    <3>2. CASE ~(j <= i /\ j <= ny)
      <4>1. j + Shift(i) \in 1 .. nx
        BY <1>1, <3>2
      <4>2. D(i)[j] = X[j + Shift(i)]
        BY <3>2
      <4> QED BY <1>1, <4>1, <4>2
    <3> QED BY <3>1, <3>2
  <2>3. D(i) = [j \in 1 .. Size(i) |-> D(i)[j]]
    OBVIOUS
  <2> HIDE DEF D, Size
  <2> DEFINE e == D(i)
  <2>4. e = [j \in 1 .. Size(i) |-> e[j]] /\ \A j \in 1 .. Size(i) : e[j] \in V
    BY <2>2, <2>3
  <2> HIDE DEF e
  <2> DEFINE m == Size(i)
  <2>5. m \in Nat /\ e = [j \in 1 .. m |-> e[j]] /\ \A j \in 1 .. m : e[j] \in V
    BY <2>1, <2>4
  <2> HIDE DEF m
  <2>7. e \in [1 .. m -> V]
    BY <2>5
  <2>6. e \in Seq(V) /\ Len(e) = m
    BY <2>5, <2>7
  <2> QED BY <2>1, <2>6 DEF e, m
<1>4. D(0) = X
  <2>1. Size(0) = nx /\ Shift(0) = 0
    BY <1>1
  <2>2. \A j \in 1 .. nx : (IF j <= 0 /\ j <= ny THEN Y[j] ELSE X[j + 0]) = X[j]
    BY <1>1
  <2> QED BY <1>1, <2>1, <2>2
<1>5. D(n) = Y
  <2>1. Size(n) = ny
    BY <1>1
  <2>2. \A j \in 1 .. ny : (IF j <= n /\ j <= ny THEN Y[j] ELSE X[j + Shift(n)]) = Y[j]
    BY <1>1
  <2> HIDE DEF Size, Shift
  <2> QED BY <1>1, <2>1, <2>2
<1>6. ASSUME NEW i \in 1 .. n
      PROVE  Items(lists[i]) /\ Patched(D(i - 1), lists[i]) = <<D(i)>>
  <2>0. i \in Nat /\ i - 1 \in 0 .. n /\ i \in 0 .. n /\ i >= 1
    BY <1>1
  <2> DEFINE e == D(i - 1)
  <2>1. e \in Seq(V) /\ Len(e) = Size(i - 1)
    BY <1>3, <2>0
  <2>2. CASE i > nx
    <3>1. Size(i - 1) = i - 1 /\ i <= ny /\ Size(i) = i /\ i - 1 <= ny
      BY <1>1, <2>0, <2>2
    <3>2. PICK step \in {End, Nth(i - 1)} : lists[i] = <<AddItem(<<step>>, Y[i])>>
      BY <1>2, <2>2
    <3>3. Y[i] \in V
      BY <1>1, <3>1
    <3>4. ASSUME NEW j \in 1 .. i - 1 PROVE e[j] = Y[j]
      <4>1. j <= i - 1 /\ j <= ny
        BY <1>1, <2>0, <3>1
      <4>2. j \in 1 .. Size(i - 1)
        BY <3>1
      <4> HIDE DEF Size, Shift
      <4> QED BY <4>1, <4>2
    <3>5. D(i) = [j \in 1 .. i |-> Y[j]]
      <4>1. \A j \in 1 .. i : j <= i /\ j <= ny
        BY <3>1, <1>1, <2>0
      <4> HIDE DEF Size, Shift
      <4> QED BY <3>1, <4>1
    <3>6. Append(e, Y[i]) = [j \in 1 .. i |-> Y[j]]
      <4> HIDE DEF e
      <4>1. Len(e) = i - 1
        BY <2>1, <3>1
      <4> DEFINE g == Append(e, Y[i])
      <4>2. g \in Seq(V) /\ Len(g) = i
        BY <2>0, <2>1, <3>3, <4>1
      <4>3. \A j \in 1 .. i : g[j] = Y[j]
        BY <2>0, <2>1, <3>4, <4>1
      <4> HIDE DEF g
      <4>4. g = [j \in 1 .. i |-> g[j]]
        BY <4>2
      <4>5. g = [j \in 1 .. i |-> Y[j]]
        BY <4>3, <4>4
      <4> QED BY <4>5 DEF g
    <3> HIDE DEF D, e
    <3>7. step \in {End, Nth(Len(e))}
      BY <2>1, <3>1
    <3>8. /\ Items(<<AddItem(<<step>>, Y[i])>>)
          /\ Patched(e, <<AddItem(<<step>>, Y[i])>>) = <<Append(e, Y[i])>>
      BY <2>1, <3>3, <3>7, StepAdd
    <3> QED BY <3>2, <3>5, <3>6, <3>8 DEF e
  <2>3. CASE ~(i > nx) /\ i > ny
    <3>1. /\ Size(i - 1) = nx - ((i - 1) - ny) /\ Size(i) = nx - (i - ny)
          /\ Shift(i - 1) = (i - 1) - ny /\ Shift(i) = i - ny
          /\ ny + 1 \in 1 .. Size(i - 1) /\ Size(i - 1) - 1 = Size(i)
      BY <1>1, <2>0, <2>3
    <3>2. lists[i] = <<RemoveItem(<<Nth((ny + 1) - 1)>>)>>
      BY <1>2, <2>3
    <3>3. [j \in 1 .. Size(i) |-> IF j < ny + 1 THEN e[j] ELSE e[j + 1]] = D(i)
      <4>1. ASSUME NEW j \in 1 .. Size(i)
            PROVE  (IF j < ny + 1 THEN e[j] ELSE e[j + 1]) = D(i)[j]
        <5>1. CASE j < ny + 1
          <6> HIDE DEF Size, Shift, D
          <6>1. j <= i /\ j <= ny /\ j <= i - 1 /\ j \in 1 .. Size(i - 1)
            <7>1. nx \in Nat /\ ny \in Nat /\ i \in Nat /\ i <= nx /\ i > ny
              BY <1>1, <2>0, <2>3
            <7>2. j \in Nat /\ j >= 1 /\ j <= nx - (i - ny)
              <8>1. nx - (i - ny) \in Nat
                BY <7>1
              <8> QED BY <3>1, <8>1
            <7>3. Size(i - 1) = nx - ((i - 1) - ny) /\ nx - ((i - 1) - ny) \in Nat
              BY <3>1, <7>1
            <7> QED BY <5>1, <7>1, <7>2, <7>3
          <6>2. e[j] = Y[j] /\ D(i)[j] = Y[j]
            BY <6>1 DEF D
          <6> QED BY <5>1, <6>2
        <5>2. CASE ~(j < ny + 1)
          <6> HIDE DEF Size, Shift, D
          <6>1. ~(j <= ny) /\ ~(j + 1 <= ny) /\ j + 1 \in 1 .. Size(i - 1)
            <7>1. nx \in Nat /\ ny \in Nat /\ i \in Nat /\ i <= nx /\ i > ny
              BY <1>1, <2>0, <2>3
            <7>2. j \in Nat /\ j >= 1 /\ j <= nx - (i - ny)
              <8>1. nx - (i - ny) \in Nat
                BY <7>1
              <8> QED BY <3>1, <8>1
            <7>3. Size(i - 1) = nx - ((i - 1) - ny) /\ nx - ((i - 1) - ny) \in Nat
              BY <3>1, <7>1
            <7> QED BY <5>2, <7>1, <7>2, <7>3
          <6>2. e[j + 1] = X[(j + 1) + Shift(i - 1)] /\ D(i)[j] = X[j + Shift(i)]
            BY <6>1 DEF D
          <6>3. (j + 1) + Shift(i - 1) = j + Shift(i)
            <7>1. j \in Nat
              BY <1>1, <2>0, <3>1
            <7> QED BY <1>1, <2>0, <3>1, <7>1
          <6> QED BY <5>2, <6>2, <6>3
        <5> QED BY <5>1, <5>2
      <4> DEFINE g == D(i)
      <4>2. g = [j \in 1 .. Size(i) |-> g[j]]
        OBVIOUS
      <4>3. \A j \in 1 .. Size(i) : (IF j < ny + 1 THEN e[j] ELSE e[j + 1]) = g[j]
        BY <4>1
      <4> HIDE DEF g, e, Size
      <4> QED BY <4>2, <4>3 DEF g
    <3> HIDE DEF D, e, Size
    <3>4. Patched(e, <<RemoveItem(<<Nth((ny + 1) - 1)>>)>>)
            = <<[j \in 1 .. Len(e) - 1 |-> IF j < ny + 1 THEN e[j] ELSE e[j + 1]]>>
          /\ Items(<<RemoveItem(<<Nth((ny + 1) - 1)>>)>>)
      <4>1. ny + 1 \in 1 .. Len(e)
        BY <2>1, <3>1
      <4> QED BY <2>1, <4>1, StepRemove
    <3> QED BY <2>1, <3>1, <3>2, <3>3, <3>4 DEF e
  <2>4. CASE ~(i > nx) /\ ~(i > ny)
    <3>1. /\ Size(i - 1) = nx /\ Size(i) = nx /\ Shift(i - 1) = 0 /\ Shift(i) = 0
          /\ i \in 1 .. nx /\ i \in 1 .. ny /\ Y[i] \in V
      BY <1>1, <2>0, <2>4
    <3>2. \/ lists[i] = <<>> /\ X[i] = Y[i]
          \/ lists[i] = <<ReplaceItem(<<Nth(i - 1)>>, Y[i])>>
      BY <1>2, <2>4
    <3>3. D(i) = [j \in 1 .. nx |-> IF j = i THEN Y[i] ELSE e[j]]
      <4>1. ASSUME NEW j \in 1 .. nx
            PROVE  D(i)[j] = IF j = i THEN Y[i] ELSE e[j]
        <5>1. D(i)[j] = IF j <= i /\ j <= ny THEN Y[j] ELSE X[j]
          BY <1>1, <3>1
        <5>2. e[j] = IF j <= i - 1 /\ j <= ny THEN Y[j] ELSE X[j]
          BY <1>1, <3>1
        <5>3. CASE j = i
          BY <3>1, <5>1, <5>3
        <5>4. CASE j # i
          <6>1. j <= i <=> j <= i - 1
            BY <1>1, <2>0, <5>4
          <6> QED BY <5>1, <5>2, <5>4, <6>1
        <5> QED BY <5>3, <5>4
      <4> DEFINE g == D(i)
      <4>2. g = [j \in 1 .. nx |-> g[j]]
        BY <3>1
      <4>3. \A j \in 1 .. nx : g[j] = IF j = i THEN Y[i] ELSE e[j]
        BY <4>1
      <4> HIDE DEF g, e
      <4> QED BY <4>2, <4>3 DEF g
    <3>4. X[i] = e[i]
      <4>1. e[i] = IF i <= i - 1 /\ i <= ny THEN Y[i] ELSE X[i + 0]
        BY <3>1
      <4>2. ~(i <= i - 1) /\ i + 0 = i
        BY <2>0
      <4> QED BY <4>1, <4>2
    <3> HIDE DEF D, e, Size
    <3>5. e = [j \in 1 .. nx |-> e[j]] /\ Len(e) = nx
      BY <2>1, <3>1
    <3>6. CASE lists[i] = <<>> /\ X[i] = Y[i]
      <4>1. D(i) = e
        BY <3>3, <3>4, <3>5, <3>6
      <4> QED BY <3>6, <4>1, ItemsNone, PatchedNone DEF e
    <3>7. CASE lists[i] = <<ReplaceItem(<<Nth(i - 1)>>, Y[i])>>
      <4>1. [e EXCEPT ![i] = Y[i]] = D(i)
        BY <3>1, <3>3, <3>5
      <4>2. /\ Items(<<ReplaceItem(<<Nth(i - 1)>>, Y[i])>>)
            /\ Patched(e, <<ReplaceItem(<<Nth(i - 1)>>, Y[i])>>) = <<[e EXCEPT ![i] = Y[i]]>>
        <5>1. i \in 1 .. Len(e)
          BY <3>1, <3>5
        <5> QED BY <2>1, <3>1, <5>1, StepReplace
      <4> QED BY <3>7, <4>1, <4>2 DEF e
    <3> QED BY <3>2, <3>6, <3>7
  <2> QED BY <2>2, <2>3, <2>4
<1> HIDE DEF D
<1>7. d[0] = X /\ d[n] = Y
  <2>1. 0 \in 0 .. n /\ n \in 0 .. n
    BY <1>1
  <2> QED BY <1>4, <1>5, <2>1
<1>8. \A i \in 1 .. n : Items(lists[i]) /\ Patched(d[i - 1], lists[i]) = <<d[i]>>
  <2> TAKE i \in 1 .. n
  <2>1. d[i - 1] = D(i - 1) /\ d[i] = D(i)
    BY <1>1
  <2> QED BY <1>6, <2>1
<1> HIDE DEF d
<1>9. Items(FlattenSeq(lists)) /\ Patched(d[0], FlattenSeq(lists)) = <<d[n]>>
  BY <1>1, <1>2, <1>8, FlattenPatched
<1> QED BY <1>7, <1>9

-----------------------------------------------------------------------------
(* The patches of the lists *)

LEMMA ListPuts ==
    ASSUME NEW V, NEW X \in Seq(V), NEW Y \in Seq(V), NEW items,
           Len(X) = 0 => items = IF Len(Y) = 0 THEN <<>> ELSE <<AddItem(<<>>, Y)>>,
           Len(X) # 0 /\ Len(Y) = 0 => items = <<RemoveItem(<<>>)>>,
           Len(X) # 0 /\ Len(Y) # 0
             => \/ items = <<ReplaceItem(<<>>, Y)>>
                \/ \E lists : IsEntries(lists, X, Y) /\ items = FlattenSeq(lists)
    PROVE  Puts(items, NonEmpty(X), NonEmpty(Y))
<1>1. /\ Len(X) = 0 => NonEmpty(X) = <<>>
      /\ Len(X) # 0 => NonEmpty(X) = <<X>>
      /\ Len(Y) = 0 => NonEmpty(Y) = <<>>
      /\ Len(Y) # 0 => NonEmpty(Y) = <<Y>>
  BY DEF NonEmpty
<1>2. CASE Len(X) = 0
  BY <1>1, <1>2 DEF Puts
<1>3. CASE Len(X) # 0 /\ Len(Y) = 0
  <2>1. items = <<RemoveItem(<<>>)>> /\ NonEmpty(X) = <<X>> /\ NonEmpty(Y) = <<>>
    BY <1>1, <1>3
  <2> QED BY <2>1 DEF Puts
<1>4. CASE Len(X) # 0 /\ Len(Y) # 0
  <2>1. NonEmpty(X) = <<X>> /\ NonEmpty(Y) = <<Y>>
    BY <1>1, <1>4
  <2>2. CASE items = <<ReplaceItem(<<>>, Y)>>
    BY <2>1, <2>2 DEF Puts
  <2>3. ASSUME NEW lists, IsEntries(lists, X, Y), items = FlattenSeq(lists)
        PROVE  Puts(items, NonEmpty(X), NonEmpty(Y))
    <3>1. Items(items) /\ Patched(X, items) = <<Y>>
      BY <2>3, EntriesPatched
    <3> QED BY <2>1, <3>1 DEF Puts
  <2> QED BY <1>4, <2>2, <2>3
<1> QED BY <1>2, <1>3, <1>4

LEMMA FlowsPuts ==
    ASSUME NEW a \in Seq(STRING), NEW b \in Seq(STRING)
    PROVE  Puts(FlowsPatch(a, b), NonEmpty(Mapped(a, FlowDoc)), NonEmpty(Mapped(b, FlowDoc)))
<1> DEFINE V == {FlowDoc(v) : v \in STRING}
           X == Mapped(a, FlowDoc)
           Y == Mapped(b, FlowDoc)
           n == IF Len(a) > Len(b) THEN Len(a) ELSE Len(b)
           lists ==
             [i \in 1 .. n |->
                IF i > Len(a) THEN <<AddItem(<<AtEnd(i)>>, FlowDoc(b[i]))>>
                ELSE IF i > Len(b) THEN <<RemoveItem(<<Index(Len(b) + 1)>>)>>
                ELSE IF FlowEqual(a[i], b[i]) THEN <<>>
                ELSE <<ReplaceItem(<<Index(i)>>, FlowDoc(b[i]))>>]
<1>1. /\ X \in Seq(V) /\ Len(X) = Len(a) /\ \A i \in 1 .. Len(a) : X[i] = FlowDoc(a[i])
      /\ Y \in Seq(V) /\ Len(Y) = Len(b) /\ \A i \in 1 .. Len(b) : Y[i] = FlowDoc(b[i])
      /\ n \in Nat /\ n = IF Len(X) > Len(Y) THEN Len(X) ELSE Len(Y)
  BY DEF Mapped
<1>2. EntryPatches(a, b, FlowEqual, FlowDoc, AtEnd) = FlattenSeq(lists)
  BY Zenon DEF EntryPatches
<1>3. IsEntries(lists, X, Y)
  <2>1. lists = [i \in 1 .. n |-> lists[i]]
    OBVIOUS
  <2>2. ASSUME NEW i \in 1 .. n
        PROVE  IF i > Len(X)
               THEN \E step \in {End, Nth(i - 1)} : lists[i] = <<AddItem(<<step>>, Y[i])>>
               ELSE IF i > Len(Y) THEN lists[i] = <<RemoveItem(<<Nth((Len(Y) + 1) - 1)>>)>>
               ELSE \/ lists[i] = <<>> /\ X[i] = Y[i]
                    \/ lists[i] = <<ReplaceItem(<<Nth(i - 1)>>, Y[i])>>
    <3> HIDE DEF X, Y
    <3>1. CASE i > Len(a)
      <4>1. i \in 1 .. Len(b)
        BY <1>1, <3>1
      <4>2. lists[i] = <<AddItem(<<AtEnd(i)>>, Y[i])>>
        BY <1>1, <3>1, <4>1
      <4>3. AtEnd(i) \in {End, Nth(i - 1)}
        BY DEF Index, AtEnd
      <4> HIDE DEF lists
      <4> QED BY <1>1, <3>1, <4>2, <4>3
    <3>2. CASE ~(i > Len(a)) /\ i > Len(b)
      <4>1. lists[i] = <<RemoveItem(<<Nth((Len(Y) + 1) - 1)>>)>>
        BY <1>1, <3>2 DEF Index
      <4> HIDE DEF lists
      <4> QED BY <1>1, <3>2, <4>1
    <3>3. CASE ~(i > Len(a)) /\ ~(i > Len(b))
      <4>1. i \in 1 .. Len(a) /\ i \in 1 .. Len(b)
        BY <1>1, <3>3
      <4>2. a[i] \in STRING /\ b[i] \in STRING /\ X[i] = FlowDoc(a[i]) /\ Y[i] = FlowDoc(b[i])
        BY <1>1, <4>1
      <4>3. FlowEqual(a[i], b[i]) => X[i] = Y[i]
        BY <4>2 DEF FlowEqual
      <4>4. lists[i] = IF FlowEqual(a[i], b[i]) THEN <<>> ELSE <<ReplaceItem(<<Nth(i - 1)>>, Y[i])>>
        BY <3>3, <4>2 DEF Index
      <4> HIDE DEF lists
      <4> QED BY <1>1, <3>3, <4>3, <4>4
    <3> QED BY <3>1, <3>2, <3>3
  <2> HIDE DEF lists, X, Y
  <2> QED BY <1>1, <2>1, <2>2 DEF IsEntries
<1>4. /\ Len(a) = 0 => NonEmpty(a) = <<>>
      /\ Len(a) # 0 => NonEmpty(a) = <<a>>
      /\ Len(b) = 0 => NonEmpty(b) = <<>>
      /\ Len(b) # 0 => NonEmpty(b) = <<b>>
  BY DEF NonEmpty
<1>5. Len(a) = 0 => FlowsPatch(a, b) = IF Len(b) = 0 THEN <<>> ELSE <<AddItem(<<>>, Y)>>
  <2>1. CASE Len(b) = 0
    BY <1>4, <2>1 DEF FlowsPatch, ListPatch, StructPatch, Mapped
  <2>2. CASE Len(b) # 0
    BY <1>4, <2>2 DEF FlowsPatch, ListPatch, StructPatch, Mapped
  <2> QED BY <2>1, <2>2
<1>6. ASSUME Len(a) # 0, Len(b) = 0 PROVE FlowsPatch(a, b) = <<RemoveItem(<<>>)>>
  <2>1. NonEmpty(a) = <<a>> /\ NonEmpty(b) = <<>>
    BY <1>4, <1>6
  <2> QED BY <2>1 DEF FlowsPatch, ListPatch, StructPatch
<1>7. ASSUME Len(a) # 0, Len(b) # 0 PROVE FlowsPatch(a, b) = FlattenSeq(lists)
  <2>1. NonEmpty(a) = <<a>> /\ NonEmpty(b) = <<b>>
    BY <1>4, <1>7
  <2>2. FlowsPatch(a, b) = EntryPatches(a, b, FlowEqual, FlowDoc, AtEnd)
    BY <2>1 DEF FlowsPatch, ListPatch, StructPatch
  <2> HIDE DEF lists
  <2> QED BY <1>2, <2>2
<1> DEFINE items == FlowsPatch(a, b)
<1> HIDE DEF lists, X, Y, V, n, items
<1>8. Len(X) = 0 => items = IF Len(Y) = 0 THEN <<>> ELSE <<AddItem(<<>>, Y)>>
  BY <1>1, <1>5 DEF items
<1>9. Len(X) # 0 /\ Len(Y) = 0 => items = <<RemoveItem(<<>>)>>
  BY <1>1, <1>6 DEF items
<1>10. Len(X) # 0 /\ Len(Y) # 0
         => \/ items = <<ReplaceItem(<<>>, Y)>>
            \/ \E l : IsEntries(l, X, Y) /\ items = FlattenSeq(l)
  BY <1>1, <1>3, <1>7 DEF items
<1>11. Puts(items, NonEmpty(X), NonEmpty(Y))
  BY <1>1, <1>8, <1>9, <1>10, ListPuts
<1> QED BY <1>11 DEF items, X, Y

LEMMA FsasPuts ==
    ASSUME NEW a \in Seq(STRING), NEW b \in Seq(STRING)
    PROVE  Puts(FsasPatch(a, b), NonEmpty(Mapped(a, FsaDoc)), NonEmpty(Mapped(b, FsaDoc)))
<1> DEFINE V == {FsaDoc(v) : v \in STRING}
           X == Mapped(a, FsaDoc)
           Y == Mapped(b, FsaDoc)
           n == IF Len(a) > Len(b) THEN Len(a) ELSE Len(b)
           lists ==
             [i \in 1 .. n |->
                IF i > Len(a) THEN <<AddItem(<<Index(i)>>, FsaDoc(b[i]))>>
                ELSE IF i > Len(b) THEN <<RemoveItem(<<Index(Len(b) + 1)>>)>>
                ELSE IF FsaEqual(a[i], b[i]) THEN <<>>
                ELSE <<ReplaceItem(<<Index(i)>>, FsaDoc(b[i]))>>]
<1>1. /\ X \in Seq(V) /\ Len(X) = Len(a) /\ \A i \in 1 .. Len(a) : X[i] = FsaDoc(a[i])
      /\ Y \in Seq(V) /\ Len(Y) = Len(b) /\ \A i \in 1 .. Len(b) : Y[i] = FsaDoc(b[i])
      /\ n \in Nat /\ n = IF Len(X) > Len(Y) THEN Len(X) ELSE Len(Y)
  BY DEF Mapped
<1>2. EntryPatches(a, b, FsaEqual, FsaDoc, Index) = FlattenSeq(lists)
  BY Zenon DEF EntryPatches
<1>3. IsEntries(lists, X, Y)
  <2>1. lists = [i \in 1 .. n |-> lists[i]]
    OBVIOUS
  <2>2. ASSUME NEW i \in 1 .. n
        PROVE  IF i > Len(X)
               THEN \E step \in {End, Nth(i - 1)} : lists[i] = <<AddItem(<<step>>, Y[i])>>
               ELSE IF i > Len(Y) THEN lists[i] = <<RemoveItem(<<Nth((Len(Y) + 1) - 1)>>)>>
               ELSE \/ lists[i] = <<>> /\ X[i] = Y[i]
                    \/ lists[i] = <<ReplaceItem(<<Nth(i - 1)>>, Y[i])>>
    <3> HIDE DEF X, Y
    <3>1. CASE i > Len(a)
      <4>1. i \in 1 .. Len(b)
        BY <1>1, <3>1
      <4>2. lists[i] = <<AddItem(<<Index(i)>>, Y[i])>>
        BY <1>1, <3>1, <4>1
      <4>3. Index(i) \in {End, Nth(i - 1)}
        BY DEF Index, AtEnd
      <4> HIDE DEF lists
      <4> QED BY <1>1, <3>1, <4>2, <4>3
    <3>2. CASE ~(i > Len(a)) /\ i > Len(b)
      <4>1. lists[i] = <<RemoveItem(<<Nth((Len(Y) + 1) - 1)>>)>>
        BY <1>1, <3>2 DEF Index
      <4> HIDE DEF lists
      <4> QED BY <1>1, <3>2, <4>1
    <3>3. CASE ~(i > Len(a)) /\ ~(i > Len(b))
      <4>1. i \in 1 .. Len(a) /\ i \in 1 .. Len(b)
        BY <1>1, <3>3
      <4>2. a[i] \in STRING /\ b[i] \in STRING /\ X[i] = FsaDoc(a[i]) /\ Y[i] = FsaDoc(b[i])
        BY <1>1, <4>1
      <4>3. FsaEqual(a[i], b[i]) => X[i] = Y[i]
        BY <4>2 DEF FsaEqual
      <4>4. lists[i] = IF FsaEqual(a[i], b[i]) THEN <<>> ELSE <<ReplaceItem(<<Nth(i - 1)>>, Y[i])>>
        BY <3>3, <4>2 DEF Index
      <4> HIDE DEF lists
      <4> QED BY <1>1, <3>3, <4>3, <4>4
    <3> QED BY <3>1, <3>2, <3>3
  <2> HIDE DEF lists, X, Y
  <2> QED BY <1>1, <2>1, <2>2 DEF IsEntries
<1>4. /\ Len(a) = 0 => NonEmpty(a) = <<>>
      /\ Len(a) # 0 => NonEmpty(a) = <<a>>
      /\ Len(b) = 0 => NonEmpty(b) = <<>>
      /\ Len(b) # 0 => NonEmpty(b) = <<b>>
  BY DEF NonEmpty
<1>5. Len(a) = 0 => FsasPatch(a, b) = IF Len(b) = 0 THEN <<>> ELSE <<AddItem(<<>>, Y)>>
  <2>1. CASE Len(b) = 0
    BY <1>4, <2>1 DEF FsasPatch, ListPatch, StructPatch, Mapped
  <2>2. CASE Len(b) # 0
    BY <1>4, <2>2 DEF FsasPatch, ListPatch, StructPatch, Mapped
  <2> QED BY <2>1, <2>2
<1>6. ASSUME Len(a) # 0, Len(b) = 0 PROVE FsasPatch(a, b) = <<RemoveItem(<<>>)>>
  <2>1. NonEmpty(a) = <<a>> /\ NonEmpty(b) = <<>>
    BY <1>4, <1>6
  <2> QED BY <2>1 DEF FsasPatch, ListPatch, StructPatch
<1>7. ASSUME Len(a) # 0, Len(b) # 0 PROVE FsasPatch(a, b) = FlattenSeq(lists)
  <2>1. NonEmpty(a) = <<a>> /\ NonEmpty(b) = <<b>>
    BY <1>4, <1>7
  <2>2. FsasPatch(a, b) = EntryPatches(a, b, FsaEqual, FsaDoc, Index)
    BY <2>1 DEF FsasPatch, ListPatch, StructPatch
  <2> HIDE DEF lists
  <2> QED BY <1>2, <2>2
<1> DEFINE items == FsasPatch(a, b)
<1> HIDE DEF lists, X, Y, V, n, items
<1>8. Len(X) = 0 => items = IF Len(Y) = 0 THEN <<>> ELSE <<AddItem(<<>>, Y)>>
  BY <1>1, <1>5 DEF items
<1>9. Len(X) # 0 /\ Len(Y) = 0 => items = <<RemoveItem(<<>>)>>
  BY <1>1, <1>6 DEF items
<1>10. Len(X) # 0 /\ Len(Y) # 0
         => \/ items = <<ReplaceItem(<<>>, Y)>>
            \/ \E l : IsEntries(l, X, Y) /\ items = FlattenSeq(l)
  BY <1>1, <1>3, <1>7 DEF items
<1>11. Puts(items, NonEmpty(X), NonEmpty(Y))
  BY <1>1, <1>8, <1>9, <1>10, ListPuts
<1> QED BY <1>11 DEF items, X, Y

LEMMA CivicsPuts ==
    ASSUME NEW a \in Seq(CivicType), NEW b \in Seq(CivicType)
    PROVE  Puts(CivicsPatch(a, b), NonEmpty(Mapped(a, CivicDoc)), NonEmpty(Mapped(b, CivicDoc)))
<1> DEFINE V == {CivicDoc(v) : v \in CivicType}
           X == Mapped(a, CivicDoc)
           Y == Mapped(b, CivicDoc)
           n == IF Len(a) > Len(b) THEN Len(a) ELSE Len(b)
           lists ==
             [i \in 1 .. n |->
                IF i > Len(a) THEN <<AddItem(<<AtEnd(i)>>, CivicDoc(b[i]))>>
                ELSE IF i > Len(b) THEN <<RemoveItem(<<Index(Len(b) + 1)>>)>>
                ELSE IF CivicEqual(a[i], b[i]) THEN <<>>
                ELSE <<ReplaceItem(<<Index(i)>>, CivicDoc(b[i]))>>]
<1>1. /\ X \in Seq(V) /\ Len(X) = Len(a) /\ \A i \in 1 .. Len(a) : X[i] = CivicDoc(a[i])
      /\ Y \in Seq(V) /\ Len(Y) = Len(b) /\ \A i \in 1 .. Len(b) : Y[i] = CivicDoc(b[i])
      /\ n \in Nat /\ n = IF Len(X) > Len(Y) THEN Len(X) ELSE Len(Y)
  BY DEF Mapped
<1>2. EntryPatches(a, b, CivicEqual, CivicDoc, AtEnd) = FlattenSeq(lists)
  BY Zenon DEF EntryPatches
<1>3. IsEntries(lists, X, Y)
  <2>1. lists = [i \in 1 .. n |-> lists[i]]
    OBVIOUS
  <2>2. ASSUME NEW i \in 1 .. n
        PROVE  IF i > Len(X)
               THEN \E step \in {End, Nth(i - 1)} : lists[i] = <<AddItem(<<step>>, Y[i])>>
               ELSE IF i > Len(Y) THEN lists[i] = <<RemoveItem(<<Nth((Len(Y) + 1) - 1)>>)>>
               ELSE \/ lists[i] = <<>> /\ X[i] = Y[i]
                    \/ lists[i] = <<ReplaceItem(<<Nth(i - 1)>>, Y[i])>>
    <3> HIDE DEF X, Y
    <3>1. CASE i > Len(a)
      <4>1. i \in 1 .. Len(b)
        BY <1>1, <3>1
      <4>2. lists[i] = <<AddItem(<<AtEnd(i)>>, Y[i])>>
        BY <1>1, <3>1, <4>1
      <4>3. AtEnd(i) \in {End, Nth(i - 1)}
        BY DEF Index, AtEnd
      <4> HIDE DEF lists
      <4> QED BY <1>1, <3>1, <4>2, <4>3
    <3>2. CASE ~(i > Len(a)) /\ i > Len(b)
      <4>1. lists[i] = <<RemoveItem(<<Nth((Len(Y) + 1) - 1)>>)>>
        BY <1>1, <3>2 DEF Index
      <4> HIDE DEF lists
      <4> QED BY <1>1, <3>2, <4>1
    <3>3. CASE ~(i > Len(a)) /\ ~(i > Len(b))
      <4>1. i \in 1 .. Len(a) /\ i \in 1 .. Len(b)
        BY <1>1, <3>3
      <4>2. a[i] \in CivicType /\ b[i] \in CivicType /\ X[i] = CivicDoc(a[i])
            /\ Y[i] = CivicDoc(b[i])
        BY <1>1, <4>1
      <4>3. CivicEqual(a[i], b[i]) => X[i] = Y[i]
        BY <4>2 DEF CivicEqual, CivicType
      <4>4. lists[i] = IF CivicEqual(a[i], b[i])
            THEN <<>> ELSE <<ReplaceItem(<<Nth(i - 1)>>, Y[i])>>
        BY <3>3, <4>2 DEF Index
      <4> HIDE DEF lists
      <4> QED BY <1>1, <3>3, <4>3, <4>4
    <3> QED BY <3>1, <3>2, <3>3
  <2> HIDE DEF lists, X, Y
  <2> QED BY <1>1, <2>1, <2>2 DEF IsEntries
<1>4. /\ Len(a) = 0 => NonEmpty(a) = <<>>
      /\ Len(a) # 0 => NonEmpty(a) = <<a>>
      /\ Len(b) = 0 => NonEmpty(b) = <<>>
      /\ Len(b) # 0 => NonEmpty(b) = <<b>>
  BY DEF NonEmpty
<1>5. Len(a) = 0 => CivicsPatch(a, b) = IF Len(b) = 0 THEN <<>> ELSE <<AddItem(<<>>, Y)>>
  <2>1. CASE Len(b) = 0
    BY <1>4, <2>1 DEF CivicsPatch, ListPatch, StructPatch, Mapped
  <2>2. CASE Len(b) # 0
    BY <1>4, <2>2 DEF CivicsPatch, ListPatch, StructPatch, Mapped
  <2> QED BY <2>1, <2>2
<1>6. ASSUME Len(a) # 0, Len(b) = 0 PROVE CivicsPatch(a, b) = <<RemoveItem(<<>>)>>
  <2>1. NonEmpty(a) = <<a>> /\ NonEmpty(b) = <<>>
    BY <1>4, <1>6
  <2> QED BY <2>1 DEF CivicsPatch, ListPatch, StructPatch
<1>7. ASSUME Len(a) # 0, Len(b) # 0 PROVE CivicsPatch(a, b) = FlattenSeq(lists)
  <2>1. NonEmpty(a) = <<a>> /\ NonEmpty(b) = <<b>>
    BY <1>4, <1>7
  <2>2. CivicsPatch(a, b) = EntryPatches(a, b, CivicEqual, CivicDoc, AtEnd)
    BY <2>1 DEF CivicsPatch, ListPatch, StructPatch
  <2> HIDE DEF lists
  <2> QED BY <1>2, <2>2
<1> DEFINE items == CivicsPatch(a, b)
<1> HIDE DEF lists, X, Y, V, n, items
<1>8. Len(X) = 0 => items = IF Len(Y) = 0 THEN <<>> ELSE <<AddItem(<<>>, Y)>>
  BY <1>1, <1>5 DEF items
<1>9. Len(X) # 0 /\ Len(Y) = 0 => items = <<RemoveItem(<<>>)>>
  BY <1>1, <1>6 DEF items
<1>10. Len(X) # 0 /\ Len(Y) # 0
         => \/ items = <<ReplaceItem(<<>>, Y)>>
            \/ \E l : IsEntries(l, X, Y) /\ items = FlattenSeq(l)
  BY <1>1, <1>3, <1>7 DEF items
<1>11. Puts(items, NonEmpty(X), NonEmpty(Y))
  BY <1>1, <1>8, <1>9, <1>10, ListPuts
<1> QED BY <1>11 DEF items, X, Y

LEMMA GeosPuts ==
    ASSUME NEW a \in Seq(PointType), NEW b \in Seq(PointType)
    PROVE  Puts(GeosPatch(a, b), NonEmpty(Mapped(a, GeoDoc)), NonEmpty(Mapped(b, GeoDoc)))
<1> DEFINE V == {GeoDoc(v) : v \in PointType}
           X == Mapped(a, GeoDoc)
           Y == Mapped(b, GeoDoc)
           n == IF Len(a) > Len(b) THEN Len(a) ELSE Len(b)
           lists ==
             [i \in 1 .. n |->
                IF i > Len(a) THEN <<AddItem(<<AtEnd(i)>>, GeoDoc(b[i]))>>
                ELSE IF i > Len(b) THEN <<RemoveItem(<<Index(Len(b) + 1)>>)>>
                ELSE IF GeoEqual(a[i], b[i]) THEN <<>>
                ELSE <<ReplaceItem(<<Index(i)>>, GeoDoc(b[i]))>>]
<1>1. /\ X \in Seq(V) /\ Len(X) = Len(a) /\ \A i \in 1 .. Len(a) : X[i] = GeoDoc(a[i])
      /\ Y \in Seq(V) /\ Len(Y) = Len(b) /\ \A i \in 1 .. Len(b) : Y[i] = GeoDoc(b[i])
      /\ n \in Nat /\ n = IF Len(X) > Len(Y) THEN Len(X) ELSE Len(Y)
  BY DEF Mapped
<1>2. EntryPatches(a, b, GeoEqual, GeoDoc, AtEnd) = FlattenSeq(lists)
  BY Zenon DEF EntryPatches
<1>3. IsEntries(lists, X, Y)
  <2>1. lists = [i \in 1 .. n |-> lists[i]]
    OBVIOUS
  <2>2. ASSUME NEW i \in 1 .. n
        PROVE  IF i > Len(X)
               THEN \E step \in {End, Nth(i - 1)} : lists[i] = <<AddItem(<<step>>, Y[i])>>
               ELSE IF i > Len(Y) THEN lists[i] = <<RemoveItem(<<Nth((Len(Y) + 1) - 1)>>)>>
               ELSE \/ lists[i] = <<>> /\ X[i] = Y[i]
                    \/ lists[i] = <<ReplaceItem(<<Nth(i - 1)>>, Y[i])>>
    <3> HIDE DEF X, Y
    <3>1. CASE i > Len(a)
      <4>1. i \in 1 .. Len(b)
        BY <1>1, <3>1
      <4>2. lists[i] = <<AddItem(<<AtEnd(i)>>, Y[i])>>
        BY <1>1, <3>1, <4>1
      <4>3. AtEnd(i) \in {End, Nth(i - 1)}
        BY DEF Index, AtEnd
      <4> HIDE DEF lists
      <4> QED BY <1>1, <3>1, <4>2, <4>3
    <3>2. CASE ~(i > Len(a)) /\ i > Len(b)
      <4>1. lists[i] = <<RemoveItem(<<Nth((Len(Y) + 1) - 1)>>)>>
        BY <1>1, <3>2 DEF Index
      <4> HIDE DEF lists
      <4> QED BY <1>1, <3>2, <4>1
    <3>3. CASE ~(i > Len(a)) /\ ~(i > Len(b))
      <4>1. i \in 1 .. Len(a) /\ i \in 1 .. Len(b)
        BY <1>1, <3>3
      <4>2. a[i] \in PointType /\ b[i] \in PointType /\ X[i] = GeoDoc(a[i]) /\ Y[i] = GeoDoc(b[i])
        BY <1>1, <4>1
      <4>3. GeoEqual(a[i], b[i]) => X[i] = Y[i]
        BY <4>2 DEF GeoEqual, PointType
      <4>4. lists[i] = IF GeoEqual(a[i], b[i]) THEN <<>> ELSE <<ReplaceItem(<<Nth(i - 1)>>, Y[i])>>
        BY <3>3, <4>2 DEF Index
      <4> HIDE DEF lists
      <4> QED BY <1>1, <3>3, <4>3, <4>4
    <3> QED BY <3>1, <3>2, <3>3
  <2> HIDE DEF lists, X, Y
  <2> QED BY <1>1, <2>1, <2>2 DEF IsEntries
<1>4. /\ Len(a) = 0 => NonEmpty(a) = <<>>
      /\ Len(a) # 0 => NonEmpty(a) = <<a>>
      /\ Len(b) = 0 => NonEmpty(b) = <<>>
      /\ Len(b) # 0 => NonEmpty(b) = <<b>>
  BY DEF NonEmpty
<1>5. Len(a) = 0 => GeosPatch(a, b) = IF Len(b) = 0 THEN <<>> ELSE <<AddItem(<<>>, Y)>>
  <2>1. CASE Len(b) = 0
    BY <1>4, <2>1 DEF GeosPatch, ListPatch, StructPatch, Mapped
  <2>2. CASE Len(b) # 0
    BY <1>4, <2>2 DEF GeosPatch, ListPatch, StructPatch, Mapped
  <2> QED BY <2>1, <2>2
<1>6. ASSUME Len(a) # 0, Len(b) = 0 PROVE GeosPatch(a, b) = <<RemoveItem(<<>>)>>
  <2>1. NonEmpty(a) = <<a>> /\ NonEmpty(b) = <<>>
    BY <1>4, <1>6
  <2> QED BY <2>1 DEF GeosPatch, ListPatch, StructPatch
<1>7. ASSUME Len(a) # 0, Len(b) # 0 PROVE GeosPatch(a, b) = FlattenSeq(lists)
  <2>1. NonEmpty(a) = <<a>> /\ NonEmpty(b) = <<b>>
    BY <1>4, <1>7
  <2>2. GeosPatch(a, b) = EntryPatches(a, b, GeoEqual, GeoDoc, AtEnd)
    BY <2>1 DEF GeosPatch, ListPatch, StructPatch
  <2> HIDE DEF lists
  <2> QED BY <1>2, <2>2
<1> DEFINE items == GeosPatch(a, b)
<1> HIDE DEF lists, X, Y, V, n, items
<1>8. Len(X) = 0 => items = IF Len(Y) = 0 THEN <<>> ELSE <<AddItem(<<>>, Y)>>
  BY <1>1, <1>5 DEF items
<1>9. Len(X) # 0 /\ Len(Y) = 0 => items = <<RemoveItem(<<>>)>>
  BY <1>1, <1>6 DEF items
<1>10. Len(X) # 0 /\ Len(Y) # 0
         => \/ items = <<ReplaceItem(<<>>, Y)>>
            \/ \E l : IsEntries(l, X, Y) /\ items = FlattenSeq(l)
  BY <1>1, <1>3, <1>7 DEF items
<1>11. Puts(items, NonEmpty(X), NonEmpty(Y))
  BY <1>1, <1>8, <1>9, <1>10, ListPuts
<1> QED BY <1>11 DEF items, X, Y

LEMMA TaisPuts ==
    ASSUME NEW a \in Seq(TaiType), NEW b \in Seq(TaiType)
    PROVE  Puts(TaisPatch(a, b), NonEmpty(Mapped(a, TaiDoc)), NonEmpty(Mapped(b, TaiDoc)))
<1> DEFINE V == {TaiDoc(v) : v \in TaiType}
           X == Mapped(a, TaiDoc)
           Y == Mapped(b, TaiDoc)
           n == IF Len(a) > Len(b) THEN Len(a) ELSE Len(b)
           lists ==
             [i \in 1 .. n |->
                IF i > Len(a) THEN <<AddItem(<<AtEnd(i)>>, TaiDoc(b[i]))>>
                ELSE IF i > Len(b) THEN <<RemoveItem(<<Index(Len(b) + 1)>>)>>
                ELSE IF TaiEqual(a[i], b[i]) THEN <<>>
                ELSE <<ReplaceItem(<<Index(i)>>, TaiDoc(b[i]))>>]
<1>1. /\ X \in Seq(V) /\ Len(X) = Len(a) /\ \A i \in 1 .. Len(a) : X[i] = TaiDoc(a[i])
      /\ Y \in Seq(V) /\ Len(Y) = Len(b) /\ \A i \in 1 .. Len(b) : Y[i] = TaiDoc(b[i])
      /\ n \in Nat /\ n = IF Len(X) > Len(Y) THEN Len(X) ELSE Len(Y)
  BY DEF Mapped
<1>2. EntryPatches(a, b, TaiEqual, TaiDoc, AtEnd) = FlattenSeq(lists)
  BY Zenon DEF EntryPatches
<1>3. IsEntries(lists, X, Y)
  <2>1. lists = [i \in 1 .. n |-> lists[i]]
    OBVIOUS
  <2>2. ASSUME NEW i \in 1 .. n
        PROVE  IF i > Len(X)
               THEN \E step \in {End, Nth(i - 1)} : lists[i] = <<AddItem(<<step>>, Y[i])>>
               ELSE IF i > Len(Y) THEN lists[i] = <<RemoveItem(<<Nth((Len(Y) + 1) - 1)>>)>>
               ELSE \/ lists[i] = <<>> /\ X[i] = Y[i]
                    \/ lists[i] = <<ReplaceItem(<<Nth(i - 1)>>, Y[i])>>
    <3> HIDE DEF X, Y
    <3>1. CASE i > Len(a)
      <4>1. i \in 1 .. Len(b)
        BY <1>1, <3>1
      <4>2. lists[i] = <<AddItem(<<AtEnd(i)>>, Y[i])>>
        BY <1>1, <3>1, <4>1
      <4>3. AtEnd(i) \in {End, Nth(i - 1)}
        BY DEF Index, AtEnd
      <4> HIDE DEF lists
      <4> QED BY <1>1, <3>1, <4>2, <4>3
    <3>2. CASE ~(i > Len(a)) /\ i > Len(b)
      <4>1. lists[i] = <<RemoveItem(<<Nth((Len(Y) + 1) - 1)>>)>>
        BY <1>1, <3>2 DEF Index
      <4> HIDE DEF lists
      <4> QED BY <1>1, <3>2, <4>1
    <3>3. CASE ~(i > Len(a)) /\ ~(i > Len(b))
      <4>1. i \in 1 .. Len(a) /\ i \in 1 .. Len(b)
        BY <1>1, <3>3
      <4>2. a[i] \in TaiType /\ b[i] \in TaiType /\ X[i] = TaiDoc(a[i]) /\ Y[i] = TaiDoc(b[i])
        BY <1>1, <4>1
      <4>3. TaiEqual(a[i], b[i]) => X[i] = Y[i]
        BY <4>2 DEF TaiEqual, TaiType
      <4>4. lists[i] = IF TaiEqual(a[i], b[i]) THEN <<>> ELSE <<ReplaceItem(<<Nth(i - 1)>>, Y[i])>>
        BY <3>3, <4>2 DEF Index
      <4> HIDE DEF lists
      <4> QED BY <1>1, <3>3, <4>3, <4>4
    <3> QED BY <3>1, <3>2, <3>3
  <2> HIDE DEF lists, X, Y
  <2> QED BY <1>1, <2>1, <2>2 DEF IsEntries
<1>4. /\ Len(a) = 0 => NonEmpty(a) = <<>>
      /\ Len(a) # 0 => NonEmpty(a) = <<a>>
      /\ Len(b) = 0 => NonEmpty(b) = <<>>
      /\ Len(b) # 0 => NonEmpty(b) = <<b>>
  BY DEF NonEmpty
<1>5. Len(a) = 0 => TaisPatch(a, b) = IF Len(b) = 0 THEN <<>> ELSE <<AddItem(<<>>, Y)>>
  <2>1. CASE Len(b) = 0
    BY <1>4, <2>1 DEF TaisPatch, PrefixedListPatch, ListPatch, StructPatch, Mapped
  <2>2. CASE Len(b) # 0
    BY <1>4, <2>2 DEF TaisPatch, PrefixedListPatch, ListPatch, StructPatch, Mapped
  <2> QED BY <2>1, <2>2
<1>6. ASSUME Len(a) # 0, Len(b) = 0 PROVE TaisPatch(a, b) = <<RemoveItem(<<>>)>>
  <2>1. NonEmpty(a) = <<a>> /\ NonEmpty(b) = <<>>
    BY <1>4, <1>6
  <2> QED BY <2>1 DEF TaisPatch, PrefixedListPatch, ListPatch, StructPatch
<1>7. Len(a) # 0 /\ Len(b) # 0 => \/ TaisPatch(a, b) = <<ReplaceItem(<<>>, Y)>>
                                  \/ TaisPatch(a, b) = FlattenSeq(lists)
  <2> SUFFICES ASSUME Len(a) # 0, Len(b) # 0
               PROVE  \/ TaisPatch(a, b) = <<ReplaceItem(<<>>, Y)>>
                      \/ TaisPatch(a, b) = FlattenSeq(lists)
    OBVIOUS
  <2>1. TaisPatch(a, b) = IF TaiEqual(a[1], b[1]) THEN EntryPatches(a, b, TaiEqual, TaiDoc, AtEnd)
                       ELSE <<ReplaceItem(<<>>, Mapped(b, TaiDoc))>>
    <3>1. NonEmpty(a) = <<a>> /\ NonEmpty(b) = <<b>>
      BY <1>4
    <3> QED BY <3>1 DEF TaisPatch, PrefixedListPatch, ListPatch, StructPatch
  <2> HIDE DEF lists
  <2> QED BY <1>2, <2>1
<1> DEFINE items == TaisPatch(a, b)
<1> HIDE DEF lists, X, Y, V, n, items
<1>8. Len(X) = 0 => items = IF Len(Y) = 0 THEN <<>> ELSE <<AddItem(<<>>, Y)>>
  BY <1>1, <1>5 DEF items
<1>9. Len(X) # 0 /\ Len(Y) = 0 => items = <<RemoveItem(<<>>)>>
  BY <1>1, <1>6 DEF items
<1>10. Len(X) # 0 /\ Len(Y) # 0
         => \/ items = <<ReplaceItem(<<>>, Y)>>
            \/ \E l : IsEntries(l, X, Y) /\ items = FlattenSeq(l)
  BY <1>1, <1>3, <1>7 DEF items
<1>11. Puts(items, NonEmpty(X), NonEmpty(Y))
  BY <1>1, <1>8, <1>9, <1>10, ListPuts
<1> QED BY <1>11 DEF items, X, Y

-----------------------------------------------------------------------------
(* Each list by itself *)

LEMMA PutsLead ==
    ASSUME NEW items, NEW X, NEW Y, Puts(items, NonEmpty(X), NonEmpty(Y))
    PROVE  Patched(Obj([list |-> NonEmpty(X)]), Rooted(items)) = <<Obj([list |-> NonEmpty(Y)])>>
<1> DEFINE old == NonEmpty(X)
           new == NonEmpty(Y)
           f == [list |-> old]
<1>1. (old = <<>> \/ old = <<old[1]>>) /\ (new = <<>> \/ new = <<new[1]>>)
  BY DEF NonEmpty
<1> HIDE DEF old, new
<1>2. IsForm(f) /\ "list" \in DOMAIN f /\ f["list"] = old
      /\ [f EXCEPT !["list"] = new] = [list |-> new]
  BY <1>1 DEF IsForm, IsObject
<1> HIDE DEF f
<1>3. Moves(Rooted(items), "list", old, new)
  BY PutsMoves, RootedIs DEF old, new
<1>4. Makes(Obj(f), Rooted(items), [list |-> new])
  BY <1>1, <1>2, <1>3, MakesFirst
<1> QED BY <1>4 DEF Makes, f, old, new

(* The patch of each list of ids, areas, addresses or flow descriptions leads *)
(* from the old list to the new one, whatever was added, changed or removed,  *)
(* for lists of any length.                                                   *)
THEOREM ListsLead == Spec => []ListsPatched
<1>1. IInv => ListsPatched
  <2> SUFFICES ASSUME IInv, phase = "created" PROVE ListsPatched
    BY DEF ListsPatched
  <2> DEFINE a == prev[1]
  <2>1. IsSession(a) /\ IsSession(sess)
    <3>1. prev = <<PublicCopy(was[1])>>
      BY DEF IInv, Phased
    <3>2. prev # <<>>
      BY <3>1
    <3> QED BY <3>2 DEF IInv, TypeOK
  <2> HIDE DEF a
  <2>2. Leads(a.fsas, sess.fsas, FsaDoc, FsasPatch(a.fsas, sess.fsas))
    BY <2>1, FieldsOf, FsasPuts, PutsLead DEF Leads
  <2>3. ASSUME Len(a.area) = 1, Len(sess.area) = 1
        PROVE  LET x == a.area[1]
                   y == sess.area[1]
               IN Leads(x.tais, y.tais, TaiDoc, TaisPatch(x.tais, y.tais))
    <3> DEFINE x == a.area[1]
               y == sess.area[1]
    <3>1. x \in AreaType /\ y \in AreaType
      BY <2>1, <2>3, FieldsOf, OptIs
    <3> HIDE DEF x, y
    <3>2. x.tais \in Seq(TaiType) /\ y.tais \in Seq(TaiType)
      BY <3>1 DEF AreaType
    <3>3. Leads(x.tais, y.tais, TaiDoc, TaisPatch(x.tais, y.tais))
      BY <3>2, TaisPuts, PutsLead DEF Leads
    <3> QED BY <3>3 DEF x, y
  <2>4. ASSUME Len(a.ext) = 1, Len(sess.ext) = 1
        PROVE  LET x == a.ext[1]
                   y == sess.ext[1]
               IN /\ Leads(x.civics, y.civics, CivicDoc, CivicsPatch(x.civics, y.civics))
                  /\ Leads(x.geos, y.geos, GeoDoc, GeosPatch(x.geos, y.geos))
    <3> DEFINE x == a.ext[1]
               y == sess.ext[1]
    <3>1. x \in ExtAreaType /\ y \in ExtAreaType
      BY <2>1, <2>4, FieldsOf, OptIs
    <3> HIDE DEF x, y
    <3>2. /\ x.civics \in Seq(CivicType) /\ y.civics \in Seq(CivicType)
          /\ x.geos \in Seq(PointType) /\ y.geos \in Seq(PointType)
      BY <3>1 DEF ExtAreaType
    <3>3. Leads(x.civics, y.civics, CivicDoc, CivicsPatch(x.civics, y.civics))
      BY <3>2, CivicsPuts, PutsLead DEF Leads
    <3>4. Leads(x.geos, y.geos, GeoDoc, GeosPatch(x.geos, y.geos))
      BY <3>2, GeosPuts, PutsLead DEF Leads
    <3> QED BY <3>3, <3>4 DEF x, y
  <2>5. ASSUME Len(a.info) = 1, Len(sess.info) = 1,
               NEW n \in DOMAIN a.info[1].comps \cap DOMAIN sess.info[1].comps
        PROVE  LET x == a.info[1].comps[n]
                   y == sess.info[1].comps[n]
               IN Leads(x.flows, y.flows, FlowDoc, FlowsPatch(x.flows, y.flows))
    <3> DEFINE x == a.info[1].comps[n]
               y == sess.info[1].comps[n]
    <3>1. a.info # <<>> /\ sess.info # <<>>
      BY <2>5
    <3>2. IsServiceInfo(a.info[1]) /\ IsServiceInfo(sess.info[1])
      BY <2>1, <3>1, FieldsOf DEF IsInfo
    <3>3. x \in CompType /\ y \in CompType
      BY <3>2 DEF IsServiceInfo
    <3> HIDE DEF x, y
    <3>4. x.flows \in Seq(STRING) /\ y.flows \in Seq(STRING)
      BY <3>3 DEF CompType
    <3>5. Leads(x.flows, y.flows, FlowDoc, FlowsPatch(x.flows, y.flows))
      BY <3>4, FlowsPuts, PutsLead DEF Leads
    <3> QED BY <3>5 DEF x, y
  <2> QED BY <2>2, <2>3, <2>4, <2>5 DEF ListsPatched, CommonComps, Both, a
<1> QED BY <1>1, Invariance, PTL

-----------------------------------------------------------------------------
(* The patches of the structures *)

(* An optional value. *)
IsOpt(v) == v = <<>> \/ v = <<v[1]>>

LEMMA OptMapped ==
    ASSUME NEW S, NEW a \in Optional(S)
    PROVE  IsOpt(a)
  BY OptIs DEF IsOpt

(* A structure is added or removed whole or changed inside. *)
LEMMA StructPuts ==
    ASSUME NEW X, NEW Y, NEW items,
           X = <<>> /\ Y = <<>> => items = <<>>,
           \A w : X = <<>> /\ Y = <<w>> => items = <<AddItem(<<>>, w)>>,
           \A v : X = <<v>> /\ Y = <<>> => items = <<RemoveItem(<<>>)>>,
           \A v, w : X = <<v>> /\ Y = <<w>> => Items(items) /\ Patched(v, items) = <<w>>,
           IsOpt(X), IsOpt(Y)
    PROVE  Puts(items, X, Y)
<1>1. CASE X = <<>> /\ Y = <<>>
  BY <1>1 DEF Puts
<1>2. CASE X = <<>> /\ Y = <<Y[1]>>
  BY <1>2 DEF Puts
<1>3. CASE X = <<X[1]>> /\ Y = <<>>
  BY <1>3 DEF Puts
<1>4. CASE X = <<X[1]>> /\ Y = <<Y[1]>>
  BY <1>4 DEF Puts
<1> QED BY <1>1, <1>2, <1>3, <1>4 DEF IsOpt

LEMMA LeafNothing == \A name, v : LeafPatch(name, v, v) = <<>>
  BY DEF LeafPatch

LEMMA ArpNothing ==
    ASSUME NEW a \in Optional(ArpType)
    PROVE  ArpPatch(a, a) = <<>>
<1>1. CASE Len(a) = 0
  BY <1>1, OptIs DEF ArpPatch, StructPatch, Mapped
<1>2. CASE Len(a) # 0
  <2>1. ArpPatch(a, a) = <<>> \o <<>>
    BY <1>2, LeafNothing DEF ArpPatch, StructPatch
  <2> QED BY <2>1
<1> QED BY <1>1, <1>2

(* The members of the document of a QoS requirement. *)
QosForm(qos) ==
    [n \in {"5qi", "guarBitRate", "maxBitRate", "reqMbsArp"} |->
       CASE n = "5qi" -> <<qos.fiveQi>>
         [] n = "guarBitRate" -> qos.guarBitRate
         [] n = "maxBitRate" -> qos.maxBitRate
         [] n = "reqMbsArp" -> Mapped(qos.arp, ArpDoc)]

LEMMA QosFormIs ==
    ASSUME NEW qos \in QosReqType
    PROVE  IsForm(QosForm(qos)) /\ QosReqDoc(qos) = Obj(QosForm(qos))
<1> DEFINE f == [guarBitRate |-> qos.guarBitRate, maxBitRate |-> qos.maxBitRate,
                 reqMbsArp |-> Mapped(qos.arp, ArpDoc)]
           g == QosForm(qos)
<1>1. IsOpt(qos.guarBitRate) /\ IsOpt(qos.maxBitRate) /\ IsOpt(Mapped(qos.arp, ArpDoc))
  <2>1. qos.guarBitRate \in Optional(STRING) /\ qos.maxBitRate \in Optional(STRING)
        /\ qos.arp \in Optional(ArpType)
    BY DEF QosReqType
  <2>2. IsOpt(Mapped(qos.arp, ArpDoc))
    <3>1. qos.arp = <<>> \/ qos.arp = <<qos.arp[1]>>
      BY <2>1, OptIs
    <3> QED BY <3>1 DEF IsOpt, Mapped
  <2> QED BY <2>1, <2>2, OptMapped
<1>2. /\ g["5qi"] = <<qos.fiveQi>> /\ g["guarBitRate"] = f["guarBitRate"]
      /\ g["maxBitRate"] = f["maxBitRate"] /\ g["reqMbsArp"] = f["reqMbsArp"]
      /\ DOMAIN g = {"5qi", "guarBitRate", "maxBitRate", "reqMbsArp"} /\ IsObject(g)
      /\ DOMAIN f = {"guarBitRate", "maxBitRate", "reqMbsArp"}
  BY DEF QosForm, IsObject
<1>3. IsForm(g)
  <2>1. IsOpt(<<qos.fiveQi>>)
    BY DEF IsOpt
  <2>2. \A n \in DOMAIN g : IsOpt(g[n])
    BY <1>1, <1>2, <2>1
  <2> HIDE DEF g
  <2> QED BY <1>2, <2>2 DEF IsForm, IsOpt
<1>4. Len(<<qos.fiveQi>>) = 1 /\ <<qos.fiveQi>>[1] = qos.fiveQi
  OBVIOUS
<1> HIDE DEF f, g
<1>5. {n \in DOMAIN g : Len(g[n]) = 1} = {n \in DOMAIN f : Len(f[n]) = 1} \cup {"5qi"}
  BY <1>2, <1>4
<1>6. \A n \in {m \in DOMAIN g : Len(g[m]) = 1} :
        g[n][1] = IF n = "5qi" THEN qos.fiveQi ELSE Obj(f)[n]
  BY <1>2, <1>4 DEF Obj
<1>7. Put(Obj(f), "5qi", qos.fiveQi) = Obj(g)
  <2>1. DOMAIN Obj(f) = {n \in DOMAIN f : Len(f[n]) = 1}
    BY DEF Obj
  <2>2. Obj(g) = [n \in DOMAIN Obj(f) \cup {"5qi"} |-> IF n = "5qi" THEN qos.fiveQi ELSE Obj(f)[n]]
    BY <1>5, <1>6, <2>1 DEF Obj
  <2> QED BY <2>2 DEF Put
<1> QED BY <1>3, <1>7 DEF QosReqDoc, f, g

(* What an update may do to the QoS requirement of a component. *)
QosFits(x, y) == x.arp = y.arp /\ x.fiveQi = y.fiveQi

LEMMA QosLeads ==
    ASSUME NEW x \in QosReqType, NEW y \in QosReqType, QosFits(x, y)
    PROVE  LET items == LeafPatch("5Qi", x.fiveQi, y.fiveQi)
                        \o OptPatch("guarBitRate", x.guarBitRate, y.guarBitRate)
                        \o OptPatch("maxBitRate", x.maxBitRate, y.maxBitRate)
                        \o AppendList(ArpPatch(x.arp, y.arp), "regMbsArp")
           IN Items(items) /\ Patched(QosReqDoc(x), items) = <<QosReqDoc(y)>>
<1> DEFINE p == OptPatch("guarBitRate", x.guarBitRate, y.guarBitRate)
           q == OptPatch("maxBitRate", x.maxBitRate, y.maxBitRate)
           f == QosForm(x)
           g == [f EXCEPT !["guarBitRate"] = y.guarBitRate]
           h == [g EXCEPT !["maxBitRate"] = y.maxBitRate]
<1>1. /\ x.guarBitRate \in Optional(STRING) /\ x.maxBitRate \in Optional(STRING)
      /\ y.guarBitRate \in Optional(STRING) /\ y.maxBitRate \in Optional(STRING)
      /\ x.arp \in Optional(ArpType) /\ x.arp = y.arp /\ x.fiveQi = y.fiveQi
  BY DEF QosReqType, QosFits
<1>2. LeafPatch("5Qi", x.fiveQi, y.fiveQi) = <<>>
      /\ AppendList(ArpPatch(x.arp, y.arp), "regMbsArp") = <<>>
  BY <1>1, LeafNothing, ArpNothing DEF AppendList, Mapped
<1>3. IsForm(f) /\ f["guarBitRate"] = x.guarBitRate /\ f["maxBitRate"] = x.maxBitRate
      /\ "guarBitRate" \in DOMAIN f /\ "maxBitRate" \in DOMAIN f
  BY QosFormIs DEF QosForm
<1>4. h = QosForm(y)
  BY <1>1 DEF QosForm
<1>5. g["maxBitRate"] = x.maxBitRate /\ "maxBitRate" \in DOMAIN g
  BY <1>3
<1>6. IsOpt(y.guarBitRate) /\ IsOpt(y.maxBitRate)
  BY <1>1, OptMapped
<1>7. Moves(p, "guarBitRate", x.guarBitRate, y.guarBitRate)
      /\ Moves(q, "maxBitRate", x.maxBitRate, y.maxBitRate)
  BY <1>1, MovesOpt
<1> HIDE DEF p, q, f, g, h
<1>8. Makes(Obj(f), p, g)
  BY <1>3, <1>6, <1>7, MakesFirst DEF IsOpt, g
<1>9. Makes(Obj(f), p \o q, h)
  BY <1>5, <1>6, <1>7, <1>8, MakesThen DEF IsOpt, h
<1>10. Items(p \o q) /\ Patched(QosReqDoc(x), p \o q) = <<QosReqDoc(y)>>
  BY <1>4, <1>9, QosFormIs DEF Makes, f
<1>11. (<<>> \o p \o q) \o <<>> = p \o q
  <2>1. PICK S : p \in Seq(S)
    BY <1>7 DEF Moves, Items
  <2>2. PICK T : q \in Seq(T)
    BY <1>7 DEF Moves, Items
  <2> DEFINE U == S \cup T
  <2>3. p \in Seq(U) /\ q \in Seq(U)
    BY <2>1, <2>2
  <2> HIDE DEF U
  <2>4. p \o q \in Seq(U)
    BY <2>3
  <2>5. <<>> \o p = p /\ (p \o q) \o <<>> = p \o q
    BY <2>3, <2>4
  <2> QED BY <2>5
<1> QED BY <1>2, <1>10, <1>11 DEF p, q

LEMMA QosPuts ==
    ASSUME NEW a \in Optional(QosReqType), NEW b \in Optional(QosReqType), Both(a, b, QosFits)
    PROVE  Puts(QosReqPatch(a, b), Mapped(a, QosReqDoc), Mapped(b, QosReqDoc))
<1>1. CASE Len(a) = 0 /\ Len(b) = 0
  <2>1. QosReqPatch(a, b) = <<>> /\ Mapped(a, QosReqDoc) = <<>> /\ Mapped(b, QosReqDoc) = <<>>
    BY <1>1, OptIs DEF QosReqPatch, StructPatch, Mapped
  <2> QED BY <2>1 DEF Puts
<1>2. CASE Len(a) = 0 /\ Len(b) # 0
  <2>1. a = <<>> /\ b = <<b[1]>>
    BY <1>2, OptIs
  <2>2. QosReqPatch(a, b) = Mapped(b, LAMBDA v : AddItem(<<>>, QosReqDoc(v)))
    BY <1>2 DEF QosReqPatch, StructPatch
  <2>3. /\ QosReqPatch(a, b) = <<AddItem(<<>>, QosReqDoc(b[1]))>>
        /\ Mapped(a, QosReqDoc) = <<>> /\ Mapped(b, QosReqDoc) = <<QosReqDoc(b[1])>>
    BY <2>1, <2>2 DEF Mapped
  <2> QED BY <2>3 DEF Puts
<1>3. CASE Len(a) # 0 /\ Len(b) = 0
  <2>1. a = <<a[1]>> /\ b = <<>>
    BY <1>3, OptIs
  <2>2. /\ QosReqPatch(a, b) = <<RemoveItem(<<>>)>>
        /\ Mapped(a, QosReqDoc) = <<QosReqDoc(a[1])>> /\ Mapped(b, QosReqDoc) = <<>>
    BY <1>3, <2>1 DEF QosReqPatch, StructPatch, Mapped
  <2> QED BY <2>2 DEF Puts
<1>4. CASE Len(a) # 0 /\ Len(b) # 0
  <2> DEFINE x == a[1]
             y == b[1]
             items == QosReqPatch(a, b)
  <2>1. /\ a = <<x>> /\ b = <<y>> /\ x \in QosReqType /\ y \in QosReqType
        /\ Len(a) = 1 /\ Len(b) = 1
    BY <1>4, OptIs
  <2>2. QosFits(x, y)
    BY <2>1 DEF Both
  <2>3. items = LeafPatch("5Qi", x.fiveQi, y.fiveQi)
                  \o OptPatch("guarBitRate", x.guarBitRate, y.guarBitRate)
                  \o OptPatch("maxBitRate", x.maxBitRate, y.maxBitRate)
                  \o AppendList(ArpPatch(x.arp, y.arp), "regMbsArp")
    BY <2>1 DEF QosReqPatch, StructPatch
  <2>4. Mapped(a, QosReqDoc) = <<QosReqDoc(x)>> /\ Mapped(b, QosReqDoc) = <<QosReqDoc(y)>>
    <3> HIDE DEF x, y
    <3> QED BY <2>1 DEF Mapped
  <2> HIDE DEF x, y, items
  <2>5. Items(items) /\ Patched(QosReqDoc(x), items) = <<QosReqDoc(y)>>
    BY <2>1, <2>2, <2>3, QosLeads
  <2> QED BY <2>4, <2>5 DEF Puts, items
<1> QED BY <1>1, <1>2, <1>3, <1>4

-----------------------------------------------------------------------------
(* Codecs and media information *)

LEMMA AppendIs ==
    ASSUME NEW S, NEW s \in Seq(S), NEW e \in S
    PROVE  /\ Append(s, e) \in Seq(S)
           /\ Len(Append(s, e)) = Len(s) + 1
           /\ \A i \in 1 .. Len(s) : Append(s, e)[i] = s[i]
           /\ Append(s, e)[Len(s) + 1] = e
  OBVIOUS

LEMMA PairIs ==
    ASSUME NEW S, NEW s \in S, NEW e \in S
    PROVE  <<s>> \o <<e>> = <<s, e>>
<1> DEFINE t == <<s>> \o <<e>>
           r == <<s, e>>
<1>1. t \in Seq(S) /\ Len(t) = 2 /\ r \in Seq(S) /\ Len(r) = 2
  OBVIOUS
<1>2. t[1] = r[1] /\ t[2] = r[2]
  OBVIOUS
<1> HIDE DEF t, r
<1>3. t = r
  BY <1>1, <1>2
<1> QED BY <1>3 DEF t, r

(* Two moves of a member, one after the other. *)
LEMMA MovesJoin ==
    ASSUME NEW p, NEW q, NEW name, NEW u, NEW v, NEW w, v = <<>> \/ v = <<v[1]>>,
           Moves(p, name, u, v), Moves(q, name, v, w)
    PROVE  Moves(p \o q, name, u, w)
<1>1. Items(p) /\ Items(q)
  BY DEF Moves
<1>2. ASSUME NEW obj, IsObject(obj), MemberOf(obj, name) = u
      PROVE  Patched(obj, p \o q) = <<With(obj, name, w)>>
  <2> DEFINE mid == With(obj, name, v)
  <2>1. Patched(obj, p) = <<mid>>
    BY <1>2 DEF Moves
  <2>2. IsObject(mid) /\ MemberOf(mid, name) = v /\ With(mid, name, w) = With(obj, name, w)
    <3>1. CASE Len(v) = 0
      <4>1. mid = Without(obj, name) /\ v = <<>>
        BY <3>1, OptLen DEF With
      <4>2. With(mid, name, w) = With(obj, name, w)
        BY <4>1 DEF With, Without, Put
      <4> QED BY <4>1, <4>2 DEF IsObject, MemberOf, Without
    <3>2. CASE Len(v) # 0
      <4>1. mid = Put(obj, name, v[1]) /\ v = <<v[1]>>
        BY <3>2, OptLen DEF With
      <4>2. With(mid, name, w) = With(obj, name, w)
        BY <4>1 DEF With, Without, Put
      <4> QED BY <4>1, <4>2 DEF IsObject, MemberOf, Put
    <3> QED BY <3>1, <3>2
  <2> HIDE DEF mid
  <2>3. Patched(obj, p \o q) = Patched(mid, q)
    BY <1>1, <2>1, PatchedThen
  <2>4. Patched(mid, q) = <<With(mid, name, w)>>
    BY <2>2 DEF Moves
  <2> QED BY <2>2, <2>3, <2>4
<1> QED BY <1>1, <1>2, ItemsJoin DEF Moves

LEMMA RaisedNone == \A name : Raised(<<>>, name) = <<>>
  BY DEF Raised

LEMMA RaisedOne ==
    ASSUME NEW op, NEW step, NEW value, NEW name
    PROVE  Raised(<<Item(op, <<step>>, value)>>, name) = <<Item(op, <<Member(name), step>>, value)>>
<1> DEFINE item == Item(op, <<step>>, value)
<1>1. item.path = <<step>>
      /\ Item(op, <<Member(name), step>>, value) = [item EXCEPT !.path = <<Member(name), step>>]
  BY DEF Item
<1>2. <<Member(name)>> \o <<step>> = <<Member(name), step>>
  <2> DEFINE m == Member(name)
             S == {m, step}
  <2>1. m \in S /\ step \in S
    OBVIOUS
  <2> HIDE DEF S, m
  <2>2. <<m>> \o <<step>> = <<m, step>>
    BY <2>1, PairIs
  <2> QED BY <2>2 DEF m
<1> HIDE DEF item
<1>3. Under(item, name) = Item(op, <<Member(name), step>>, value)
  BY <1>1, <1>2 DEF Under
<1>4. Raised(<<item>>, name) = <<Under(item, name)>>
  BY DEF Raised
<1> QED BY <1>3, <1>4 DEF item

(* One codec replaced, one added. *)
LEMMA CodecReplaced ==
    ASSUME NEW d \in Seq(STRING), NEW w \in STRING, NEW k \in 1 .. Len(d)
    PROVE  Moves(<<ReplaceItem(<<Member("codecs"), Index(k)>>, w)>>, "codecs", <<d>>,
           <<[d EXCEPT ![k] = w]>>)
<1> DEFINE items == <<ReplaceItem(<<Nth(k - 1)>>, w)>>
<1>1. Items(items) /\ Patched(d, items) = <<[d EXCEPT ![k] = w]>>
  BY StepReplace
<1>2. Raised(items, "codecs") = <<ReplaceItem(<<Member("codecs"), Index(k)>>, w)>>
  BY RaisedOne DEF ReplaceItem, Index
<1> HIDE DEF items
<1>3. Puts(items, <<d>>, <<[d EXCEPT ![k] = w]>>)
  BY <1>1 DEF Puts
<1> QED BY <1>2, <1>3, PutsMoves

LEMMA CodecAdded ==
    ASSUME NEW d \in Seq(STRING), NEW w \in STRING
    PROVE  Moves(<<AddItem(<<Member("codecs"), End>>, w)>>, "codecs", <<d>>, <<Append(d, w)>>)
<1> DEFINE items == <<AddItem(<<End>>, w)>>
<1>1. Items(items) /\ Patched(d, items) = <<Append(d, w)>>
  BY StepAdd
<1>2. Raised(items, "codecs") = <<AddItem(<<Member("codecs"), End>>, w)>>
  BY RaisedOne DEF AddItem
<1> HIDE DEF items
<1>3. Puts(items, <<d>>, <<Append(d, w)>>)
  BY <1>1 DEF Puts
<1> QED BY <1>2, <1>3, PutsMoves

LEMMA CodecsMove ==
    ASSUME NEW a \in Seq(STRING), NEW b \in Seq(STRING), Len(a) <= Len(b), Len(b) <= 2,
           a = <<>> => b = <<>>
    PROVE  Moves(CodecsPatch(a, b), "codecs", NonEmpty(a), NonEmpty(b))
<1> DEFINE Slot(i) ==
             IF i > Len(a)
             THEN IF i > Len(b) THEN <<>> ELSE <<AddItem(<<Member("codecs"), End>>, b[i])>>
             ELSE IF i <= Len(b)
             THEN IF a[i] = b[i] THEN <<>>
                  ELSE <<ReplaceItem(<<Member("codecs"), Index(i)>>, b[i])>>
             ELSE IF i = 1 THEN <<RemoveItem(<<Member("codecs")>>)>>
             ELSE IF Len(b) = 0 THEN <<>> ELSE <<RemoveItem(<<Member("codecs"), Index(i)>>)>>
<1>1. CodecsPatch(a, b) = Slot(1) \o Slot(2)
  BY DEF CodecsPatch
<1>2. Len(a) \in Nat /\ Len(b) \in Nat
      /\ (NonEmpty(b) = <<>> \/ NonEmpty(b) = <<NonEmpty(b)[1]>>)
  BY DEF NonEmpty
<1>3. CASE Len(b) = 0
  <2>1. Slot(1) = <<>> /\ Slot(2) = <<>> /\ a = <<>> /\ b = <<>>
    BY <1>3
  <2>2. CodecsPatch(a, b) = <<>>
    BY <1>1, <2>1
  <2> QED BY <2>1, <2>2, MovesNothing
<1>4. CASE Len(b) # 0
  <2>0. a # <<>> /\ Len(a) # 0
    <3>1. b # <<>>
      BY <1>4
    <3>2. Len(a) = 0 => a = <<>>
      OBVIOUS
    <3> QED BY <3>1, <3>2
  <2>1. Len(a) \in 1 .. 2 /\ Len(b) \in 1 .. 2 /\ Len(a) <= Len(b)
    <3> DEFINE m == Len(a)
               n == Len(b)
    <3>1. m \in Nat /\ n \in Nat /\ m # 0 /\ m <= n /\ n <= 2
      BY <2>0
    <3> HIDE DEF m, n
    <3>2. m \in 1 .. 2 /\ n \in 1 .. 2
      BY <3>1
    <3> QED BY <3>1, <3>2 DEF m, n
  <2>2. NonEmpty(a) = <<a>> /\ NonEmpty(b) = <<b>>
    BY <2>1 DEF NonEmpty
  <2> DEFINE c == [a EXCEPT ![1] = b[1]]
  <2>3. /\ c \in Seq(STRING) /\ Len(c) = Len(a) /\ c[1] = b[1] /\ b[1] \in STRING
        /\ Len(a) = 2 => c[2] = a[2]
    BY <2>1
  <2>4. Moves(Slot(1), "codecs", <<a>>, <<c>>)
    <3>1. CASE a[1] = b[1]
      <4>1. Slot(1) = <<>> /\ c = a
        BY <2>1, <3>1
      <4> QED BY <4>1, MovesNothing
    <3>2. CASE a[1] # b[1]
      <4>1. Slot(1) = <<ReplaceItem(<<Member("codecs"), Index(1)>>, b[1])>>
        BY <2>1, <3>2
      <4>2. 1 \in 1 .. Len(a)
        BY <2>1
      <4> HIDE DEF Slot
      <4> QED BY <2>3, <4>1, <4>2, CodecReplaced
    <3> QED BY <3>1, <3>2
  <2>5. Moves(Slot(2), "codecs", <<c>>, <<b>>)
    <3> HIDE DEF c
    <3>1. CASE Len(b) = 1
      <4>1. Slot(2) = <<>> /\ c = b
        BY <2>1, <2>3, <3>1
      <4> QED BY <4>1, MovesNothing
    <3>2. CASE Len(a) = 1 /\ Len(b) = 2
      <4>1. Slot(2) = <<AddItem(<<Member("codecs"), End>>, b[2])>> /\ b[2] \in STRING
        BY <3>2
      <4>2. Append(c, b[2]) = b
        <5>1. Append(c, b[2]) \in Seq(STRING) /\ Len(Append(c, b[2])) = 2
          <6>1. c \in Seq(STRING) /\ Len(c) = 1 /\ b[2] \in STRING
            BY <2>3, <3>2, <4>1
          <6>2. Append(c, b[2]) \in Seq(STRING) /\ Len(Append(c, b[2])) = Len(c) + 1
            BY <6>1, AppendIs
          <6> QED BY <6>1, <6>2
        <5>2. Append(c, b[2])[1] = b[1] /\ Append(c, b[2])[2] = b[2]
          BY <2>3, <3>2, <4>1
        <5> DEFINE e == Append(c, b[2])
        <5> HIDE DEF e
        <5>3. e \in Seq(STRING) /\ Len(e) = 2 /\ e[1] = b[1] /\ e[2] = b[2]
          BY <5>1, <5>2 DEF e
        <5>4. \A i \in 1 .. 2 : e[i] = b[i]
          BY <5>3
        <5>5. e = b
          BY <3>2, <5>3, <5>4
        <5> QED BY <5>5 DEF e
      <4>3. Moves(<<AddItem(<<Member("codecs"), End>>, b[2])>>, "codecs", <<c>>,
            <<Append(c, b[2])>>)
        BY <2>3, <4>1, CodecAdded
      <4> QED BY <4>1, <4>2, <4>3
    <3>3. CASE Len(a) = 2 /\ Len(b) = 2
      <4>1. b[2] \in STRING /\ 2 \in 1 .. Len(c)
        BY <2>3, <3>3
      <4>2. [c EXCEPT ![2] = b[2]] = b
        <5>1. \A i \in 1 .. 2 : [c EXCEPT ![2] = b[2]][i] = b[i]
          BY <2>3, <3>3
        <5>2. [c EXCEPT ![2] = b[2]] \in Seq(STRING) /\ Len([c EXCEPT ![2] = b[2]]) = 2
          BY <2>3, <3>3, <4>1
        <5> QED BY <3>3, <5>1, <5>2
      <4>3. CASE a[2] = b[2]
        <5>1. Slot(2) = <<>> /\ c = b
          <6>1. c[2] = b[2]
            BY <2>3, <3>3, <4>3
          <6>2. \A i \in 1 .. 2 : c[i] = b[i]
            BY <2>3, <3>3, <6>1
          <6> QED BY <2>3, <3>3, <4>3, <6>2
        <5> QED BY <5>1, MovesNothing
      <4>4. CASE a[2] # b[2]
        <5>1. Slot(2) = <<ReplaceItem(<<Member("codecs"), Index(2)>>, b[2])>>
          BY <3>3, <4>4
        <5>2. Moves(<<ReplaceItem(<<Member("codecs"), Index(2)>>, b[2])>>, "codecs", <<c>>,
              <<[c EXCEPT ![2] = b[2]]>>)
          BY <2>3, <4>1, CodecReplaced
        <5> QED BY <4>2, <5>1, <5>2
      <4> QED BY <4>3, <4>4
    <3> QED BY <2>1, <3>1, <3>2, <3>3
  <2> HIDE DEF c, Slot
  <2>6. <<c>> = <<<<c>>[1]>>
    OBVIOUS
  <2>7. Moves(Slot(1) \o Slot(2), "codecs", <<a>>, <<b>>)
    BY <2>4, <2>5, <2>6, MovesJoin
  <2> QED BY <1>1, <2>2, <2>7
<1> QED BY <1>3, <1>4

(* What an update may do to the media information of a component. *)
MediaFits(x, y) ==
    /\ Len(Codecs(x)) <= Len(Codecs(y))
    /\ Codecs(x) = <<>> => Codecs(y) = <<>>

MediaForm(info) ==
    [mbsMedType |-> info.type, maxReqMbsBwDl |-> info.maxBw,
     minReqMbsBwDl |-> info.minBw, codecs |-> NonEmpty(Codecs(info))]

LEMMA MediaFormIs ==
    ASSUME NEW info \in MediaInfoType
    PROVE  IsForm(MediaForm(info))
<1> DEFINE f == MediaForm(info)
<1>1. /\ info.type \in Optional(STRING) /\ info.maxBw \in Optional(STRING)
      /\ info.minBw \in Optional(STRING)
  BY DEF MediaInfoType
<1>2. IsOpt(info.type) /\ IsOpt(info.maxBw) /\ IsOpt(info.minBw) /\ IsOpt(NonEmpty(Codecs(info)))
  <2>1. IsOpt(NonEmpty(Codecs(info)))
    BY DEF NonEmpty, IsOpt
  <2> QED BY <1>1, <2>1, OptMapped
<1>3. /\ IsObject(f) /\ DOMAIN f = {"mbsMedType", "maxReqMbsBwDl", "minReqMbsBwDl", "codecs"}
      /\ f["mbsMedType"] = info.type /\ f["maxReqMbsBwDl"] = info.maxBw
      /\ f["minReqMbsBwDl"] = info.minBw /\ f["codecs"] = NonEmpty(Codecs(info))
  BY DEF MediaForm, IsObject
<1> HIDE DEF f
<1>4. \A n \in DOMAIN f : IsOpt(f[n])
  BY <1>2, <1>3
<1>5. IsForm(f)
  BY <1>3, <1>4 DEF IsForm, IsOpt
<1> QED BY <1>5 DEF f

LEMMA MediaLeads ==
    ASSUME NEW x \in MediaInfoType, NEW y \in MediaInfoType, MediaFits(x, y)
    PROVE  LET items == OptPatch("mbsMedType", x.type, y.type)
                        \o OptPatch("maxReqMbsBwDl", x.maxBw, y.maxBw)
                        \o OptPatch("minReqMbsBwDl", x.minBw, y.minBw)
                        \o CodecsPatch(Codecs(x), Codecs(y))
           IN Items(items) /\ Patched(MediaInfoDoc(x), items) = <<MediaInfoDoc(y)>>
<1> DEFINE p == OptPatch("mbsMedType", x.type, y.type)
           q == OptPatch("maxReqMbsBwDl", x.maxBw, y.maxBw)
           r == OptPatch("minReqMbsBwDl", x.minBw, y.minBw)
           s == CodecsPatch(Codecs(x), Codecs(y))
           e == MediaForm(x)
           f == [e EXCEPT !["mbsMedType"] = y.type]
           g == [f EXCEPT !["maxReqMbsBwDl"] = y.maxBw]
           h == [g EXCEPT !["minReqMbsBwDl"] = y.minBw]
           k == [h EXCEPT !["codecs"] = NonEmpty(Codecs(y))]
<1>1. /\ x.type \in Optional(STRING) /\ x.maxBw \in Optional(STRING) /\ x.minBw \in Optional(STRING)
      /\ y.type \in Optional(STRING) /\ y.maxBw \in Optional(STRING) /\ y.minBw \in Optional(STRING)
  BY DEF MediaInfoType
<1>2. IsForm(e) /\ IsForm(MediaForm(y))
  BY MediaFormIs
<1>3. DOMAIN e = {"mbsMedType", "maxReqMbsBwDl", "minReqMbsBwDl", "codecs"}
      /\ e["mbsMedType"] = x.type /\ f["maxReqMbsBwDl"] = x.maxBw
      /\ g["minReqMbsBwDl"] = x.minBw /\ h["codecs"] = NonEmpty(Codecs(x))
      /\ DOMAIN f = DOMAIN e /\ DOMAIN g = DOMAIN e /\ DOMAIN h = DOMAIN e
  BY DEF MediaForm
<1>4. k = MediaForm(y)
  BY DEF MediaForm
<1>5. IsOpt(y.type) /\ IsOpt(y.maxBw) /\ IsOpt(y.minBw) /\ IsOpt(NonEmpty(Codecs(y)))
  <2>1. IsOpt(NonEmpty(Codecs(y)))
    BY DEF NonEmpty, IsOpt
  <2> QED BY <1>1, <2>1, OptMapped
<1>6. /\ Moves(p, "mbsMedType", x.type, y.type)
      /\ Moves(q, "maxReqMbsBwDl", x.maxBw, y.maxBw)
      /\ Moves(r, "minReqMbsBwDl", x.minBw, y.minBw)
  BY <1>1, MovesOpt
<1>7. Moves(s, "codecs", NonEmpty(Codecs(x)), NonEmpty(Codecs(y)))
  BY CodecsTyped, CodecsMove DEF MediaFits
<1> HIDE DEF p, q, r, s, e, f, g, h, k
<1>8. Makes(Obj(e), p, f)
  BY <1>2, <1>3, <1>5, <1>6, MakesFirst DEF IsOpt, f
<1>9. Makes(Obj(e), p \o q, g)
  BY <1>3, <1>5, <1>6, <1>8, MakesThen DEF IsOpt, g
<1>10. Makes(Obj(e), p \o q \o r, h)
  BY <1>3, <1>5, <1>6, <1>9, MakesThen DEF IsOpt, h
<1>11. Makes(Obj(e), p \o q \o r \o s, k)
  BY <1>3, <1>5, <1>7, <1>10, MakesThen DEF IsOpt, k
<1>12. MediaInfoDoc(x) = Obj(e) /\ MediaInfoDoc(y) = Obj(k)
  BY <1>4 DEF MediaInfoDoc, MediaForm, e
<1> QED BY <1>11, <1>12 DEF Makes, p, q, r, s

LEMMA MediaPuts ==
    ASSUME NEW a \in Optional(MediaInfoType),
           NEW b \in Optional(MediaInfoType), Both(a, b, MediaFits)
    PROVE  Puts(MediaInfoPatch(a, b), Mapped(a, MediaInfoDoc), Mapped(b, MediaInfoDoc))
<1>1. CASE Len(a) = 0 /\ Len(b) = 0
  <2>1. MediaInfoPatch(a, b) = <<>> /\ Mapped(a, MediaInfoDoc) = <<>>
        /\ Mapped(b, MediaInfoDoc) = <<>>
    BY <1>1, OptIs DEF MediaInfoPatch, StructPatch, Mapped
  <2> QED BY <2>1 DEF Puts
<1>2. CASE Len(a) = 0 /\ Len(b) # 0
  <2>1. a = <<>> /\ b = <<b[1]>>
    BY <1>2, OptIs
  <2>2. MediaInfoPatch(a, b) = Mapped(b, LAMBDA v : AddItem(<<>>, MediaInfoDoc(v)))
    BY <1>2 DEF MediaInfoPatch, StructPatch
  <2>3. /\ MediaInfoPatch(a, b) = <<AddItem(<<>>, MediaInfoDoc(b[1]))>>
        /\ Mapped(a, MediaInfoDoc) = <<>> /\ Mapped(b, MediaInfoDoc) = <<MediaInfoDoc(b[1])>>
    BY <2>1, <2>2 DEF Mapped
  <2> QED BY <2>3 DEF Puts
<1>3. CASE Len(a) # 0 /\ Len(b) = 0
  <2>1. a = <<a[1]>> /\ b = <<>>
    BY <1>3, OptIs
  <2>2. /\ MediaInfoPatch(a, b) = <<RemoveItem(<<>>)>>
        /\ Mapped(a, MediaInfoDoc) = <<MediaInfoDoc(a[1])>> /\ Mapped(b, MediaInfoDoc) = <<>>
    BY <1>3, <2>1 DEF MediaInfoPatch, StructPatch, Mapped
  <2> QED BY <2>2 DEF Puts
<1>4. CASE Len(a) # 0 /\ Len(b) # 0
  <2> DEFINE x == a[1]
             y == b[1]
             items == MediaInfoPatch(a, b)
  <2>1. /\ a = <<x>> /\ b = <<y>> /\ x \in MediaInfoType /\ y \in MediaInfoType
        /\ Len(a) = 1 /\ Len(b) = 1
    BY <1>4, OptIs
  <2>2. MediaFits(x, y)
    BY <2>1 DEF Both
  <2>3. items = OptPatch("mbsMedType", x.type, y.type)
                  \o OptPatch("maxReqMbsBwDl", x.maxBw, y.maxBw)
                  \o OptPatch("minReqMbsBwDl", x.minBw, y.minBw)
                  \o CodecsPatch(Codecs(x), Codecs(y))
    BY <2>1 DEF MediaInfoPatch, StructPatch
  <2>4. Mapped(a, MediaInfoDoc) = <<MediaInfoDoc(x)>>
        /\ Mapped(b, MediaInfoDoc) = <<MediaInfoDoc(y)>>
    <3> HIDE DEF x, y
    <3> QED BY <2>1 DEF Mapped
  <2> HIDE DEF x, y, items
  <2>5. Items(items) /\ Patched(MediaInfoDoc(x), items) = <<MediaInfoDoc(y)>>
    BY <2>1, <2>2, <2>3, MediaLeads
  <2> QED BY <2>4, <2>5 DEF Puts, items
<1> QED BY <1>1, <1>2, <1>3, <1>4

-----------------------------------------------------------------------------
(* Media components *)

(* A list that can be put under an attribute and leads from one to the other. *)
LEMMA PartMoves ==
    ASSUME NEW items, Valued(items), NEW old, NEW new, Puts(items, old, new), NEW name
    PROVE  Moves(AppendList(items, name), name, old, new)
  BY RaisedIs, PutsMoves

(* A component that describes its QoS in at most one way. *)
OneQos(c) == Len(c.media) + Len(c.qosRef) + Len(c.qos) <= 1

(* What an update may do to a component. *)
CompFits(x, y) ==
    /\ CompGrows(x, y) /\ OneQos(x) /\ OneQos(y)
    /\ Both(x.media, y.media, MediaFits)
    /\ Both(x.qosRef, y.qosRef, LAMBDA v, w : v = w)
    /\ Both(x.qos, y.qos, QosFits)

CompForm(c) ==
    [mbsFlowDescs |-> NonEmpty(Mapped(c.flows, FlowDoc)), mbsSdfResPrio |-> c.prio,
     mbsMediaInfo |-> Mapped(c.media, MediaInfoDoc), qosRef |-> c.qosRef,
     mbsQoSReq |-> Mapped(c.qos, QosReqDoc)]

LEMMA CompTyped ==
    ASSUME NEW c \in CompType
    PROVE  /\ c.flows \in Seq(STRING) /\ c.prio \in Optional(STRING)
           /\ c.media \in Optional(MediaInfoType) /\ c.qosRef \in Optional(STRING)
           /\ c.qos \in Optional(QosReqType)
  BY DEF CompType

LEMMA CompOpts ==
    ASSUME NEW c \in CompType
    PROVE  /\ IsOpt(NonEmpty(Mapped(c.flows, FlowDoc))) /\ IsOpt(c.prio)
           /\ IsOpt(Mapped(c.media, MediaInfoDoc)) /\ IsOpt(c.qosRef)
           /\ IsOpt(Mapped(c.qos, QosReqDoc))
<1>1. IsOpt(c.prio) /\ IsOpt(c.media) /\ IsOpt(c.qosRef) /\ IsOpt(c.qos)
  BY CompTyped, OptMapped
<1>2. IsOpt(Mapped(c.media, MediaInfoDoc)) /\ IsOpt(Mapped(c.qos, QosReqDoc))
  BY <1>1 DEF IsOpt, Mapped
<1>3. IsOpt(NonEmpty(Mapped(c.flows, FlowDoc)))
  BY DEF NonEmpty, IsOpt
<1> QED BY <1>1, <1>2, <1>3

LEMMA CompFormIs ==
    ASSUME NEW c \in CompType, OneQos(c)
    PROVE  IsForm(CompForm(c)) /\ CompDoc(c) = Obj(CompForm(c))
<1> DEFINE f == CompForm(c)
<1>1. /\ IsObject(f)
      /\ DOMAIN f = {"mbsFlowDescs", "mbsSdfResPrio", "mbsMediaInfo", "qosRef", "mbsQoSReq"}
      /\ f["mbsFlowDescs"] = NonEmpty(Mapped(c.flows, FlowDoc)) /\ f["mbsSdfResPrio"] = c.prio
      /\ f["mbsMediaInfo"] = Mapped(c.media, MediaInfoDoc) /\ f["qosRef"] = c.qosRef
      /\ f["mbsQoSReq"] = Mapped(c.qos, QosReqDoc)
  BY DEF CompForm, IsObject
<1>2. IsForm(f)
  <2> HIDE DEF f
  <2>1. \A n \in DOMAIN f : IsOpt(f[n])
    BY <1>1, CompOpts
  <2> QED BY <1>1, <2>1 DEF IsForm, IsOpt
<1>3. /\ (IF Len(c.media) = 0 THEN c.qosRef ELSE <<>>) = c.qosRef
      /\ (IF Len(c.media \o c.qosRef) = 0 THEN Mapped(c.qos, QosReqDoc) ELSE <<>>)
           = Mapped(c.qos, QosReqDoc)
  <2> DEFINE m == c.media
             r == c.qosRef
             q == c.qos
  <2>1. /\ m \in Seq(MediaInfoType) /\ r \in Seq(STRING) /\ q \in Seq(QosReqType)
        /\ Len(m) \in Nat /\ Len(r) \in Nat /\ Len(q) \in Nat /\ Len(m) + Len(r) + Len(q) <= 1
    <3>1. m \in Seq(MediaInfoType) /\ r \in Seq(STRING) /\ q \in Seq(QosReqType)
      BY CompTyped DEF Optional
    <3>2. Len(m) + Len(r) + Len(q) <= 1
      BY DEF OneQos
    <3> HIDE DEF m, r, q
    <3> QED BY <3>1, <3>2
  <2> HIDE DEF m, r, q
  <2>2. Len(m) # 0 => Len(r) = 0
    BY <2>1
  <2>3. Len(m \o r) # 0 => Len(q) = 0
    <3>1. Len(m \o r) = Len(m) + Len(r)
      <4> DEFINE S == MediaInfoType \cup STRING
      <4>1. m \in Seq(S) /\ r \in Seq(S)
        BY <2>1
      <4> HIDE DEF S
      <4> QED BY <4>1
    <3> QED BY <2>1, <3>1
  <2>4. (Len(r) = 0 => r = <<>>) /\ (Len(q) = 0 => q = <<>>)
    BY <2>1
  <2>5. Mapped(<<>>, QosReqDoc) = <<>>
    BY DEF Mapped
  <2> QED BY <2>2, <2>3, <2>4, <2>5 DEF m, r, q
<1>4. CompDoc(c) = Obj(f)
  <2>1. FlowsDoc(c.flows) = Mapped(c.flows, FlowDoc)
    BY DEF FlowsDoc
  <2> QED BY <1>3, <2>1 DEF CompDoc, CompForm
<1> QED BY <1>2, <1>4

LEMMA QosRefMoves ==
    ASSUME NEW a \in Optional(STRING), NEW b \in Optional(STRING), Both(a, b, LAMBDA v, w : v = w)
    PROVE  Moves(QosRefPatch(a, b), "qosRef", a, b)
<1>1. CASE Len(a) = Len(b)
  <2>1. a = b
    <3>1. /\ Len(a) # 0 => Len(a) = 1 /\ a = <<a[1]>>
          /\ Len(b) # 0 => Len(b) = 1 /\ b = <<b[1]>>
      BY OptIs
    <3>2. Len(a) = 1 /\ Len(b) = 1 => a[1] = b[1]
      BY DEF Both
    <3>3. CASE Len(a) = 0
      <4>1. a = <<>> /\ b = <<>>
        BY <1>1, <3>3, OptIs, Zenon
      <4> QED BY <4>1
    <3>4. CASE Len(a) # 0
      <4>1. Len(a) = 1 /\ Len(b) = 1 /\ a = <<a[1]>> /\ b = <<b[1]>>
        BY <1>1, <3>1, <3>4
      <4>2. a[1] = b[1]
        BY <3>2, <4>1
      <4>3. <<a[1]>> = <<b[1]>>
        BY <4>2
      <4> QED BY <4>1, <4>3, Zenon
    <3> QED BY <3>3, <3>4
  <2> QED BY <1>1, <2>1, MovesNothing DEF QosRefPatch
<1>2. CASE Len(a) # Len(b)
  BY <1>2, MovesOpt DEF QosRefPatch
<1> QED BY <1>1, <1>2

LEMMA CompLeads ==
    ASSUME NEW x \in CompType, NEW y \in CompType, CompFits(x, y)
    PROVE  Items(CompPatch(x, y)) /\ Patched(CompDoc(x), CompPatch(x, y)) = <<CompDoc(y)>>
<1> DEFINE p == AppendList(FlowsPatch(x.flows, y.flows), "mbsFlowDescs")
           q == OptPatch("mbsSdfResPrio", x.prio, y.prio)
           r == AppendList(MediaInfoPatch(x.media, y.media), "mbsMediaInfo")
           s == QosRefPatch(x.qosRef, y.qosRef)
           t == AppendList(QosReqPatch(x.qos, y.qos), "mbsQoSReq")
           d == CompForm(x)
           e == [d EXCEPT !["mbsFlowDescs"] = NonEmpty(Mapped(y.flows, FlowDoc))]
           f == [e EXCEPT !["mbsSdfResPrio"] = y.prio]
           g == [f EXCEPT !["mbsMediaInfo"] = Mapped(y.media, MediaInfoDoc)]
           h == [g EXCEPT !["qosRef"] = y.qosRef]
           k == [h EXCEPT !["mbsQoSReq"] = Mapped(y.qos, QosReqDoc)]
<1>1. IsForm(d) /\ CompDoc(x) = Obj(d) /\ k = CompForm(y) /\ CompDoc(y) = Obj(CompForm(y))
  <2>1. OneQos(x) /\ OneQos(y)
    BY DEF CompFits
  <2>2. k = CompForm(y)
    BY DEF CompForm
  <2> HIDE DEF k, d
  <2> QED BY <2>1, <2>2, CompFormIs DEF d
<1>2. /\ DOMAIN d = {"mbsFlowDescs", "mbsSdfResPrio", "mbsMediaInfo", "qosRef", "mbsQoSReq"}
      /\ DOMAIN e = DOMAIN d /\ DOMAIN f = DOMAIN d /\ DOMAIN g = DOMAIN d /\ DOMAIN h = DOMAIN d
      /\ d["mbsFlowDescs"] = NonEmpty(Mapped(x.flows, FlowDoc)) /\ e["mbsSdfResPrio"] = x.prio
      /\ f["mbsMediaInfo"] = Mapped(x.media, MediaInfoDoc) /\ g["qosRef"] = x.qosRef
      /\ h["mbsQoSReq"] = Mapped(x.qos, QosReqDoc)
  BY DEF CompForm
<1>3. Moves(p, "mbsFlowDescs", NonEmpty(Mapped(x.flows, FlowDoc)),
      NonEmpty(Mapped(y.flows, FlowDoc)))
  BY CompTyped, FlowsPuts, FlowsValued, PartMoves DEF CompFits, CompGrows
<1>4. Moves(q, "mbsSdfResPrio", x.prio, y.prio)
  BY CompTyped, MovesOpt
<1>5. Moves(r, "mbsMediaInfo", Mapped(x.media, MediaInfoDoc), Mapped(y.media, MediaInfoDoc))
  BY CompTyped, MediaPuts, MediaInfoValued, PartMoves DEF CompFits, CompGrows
<1>6. Moves(s, "qosRef", x.qosRef, y.qosRef)
  BY CompTyped, QosRefMoves DEF CompFits
<1>7. Moves(t, "mbsQoSReq", Mapped(x.qos, QosReqDoc), Mapped(y.qos, QosReqDoc))
  BY CompTyped, QosPuts, QosReqValued, PartMoves DEF CompFits, CompGrows
<1>8. CompPatch(x, y) = p \o q \o r \o s \o t
  BY DEF CompPatch
<1> HIDE DEF p, q, r, s, t, d, e, f, g, h, k
<1>9. Makes(Obj(d), p, e)
  BY <1>1, <1>2, <1>3, CompOpts, MakesFirst DEF IsOpt, e
<1>10. Makes(Obj(d), p \o q, f)
  BY <1>2, <1>4, <1>9, CompOpts, MakesThen DEF IsOpt, f
<1>11. Makes(Obj(d), p \o q \o r, g)
  BY <1>2, <1>5, <1>10, CompOpts, MakesThen DEF IsOpt, g
<1>12. Makes(Obj(d), p \o q \o r \o s, h)
  BY <1>2, <1>6, <1>11, CompOpts, MakesThen DEF IsOpt, h
<1>13. Makes(Obj(d), p \o q \o r \o s \o t, k)
  BY <1>2, <1>7, <1>12, CompOpts, MakesThen DEF IsOpt, k
<1> QED BY <1>1, <1>8, <1>13 DEF Makes

(* The components in the order that the patch is made in: each of them once. *)
LEMMA SeqOfIs ==
    ASSUME NEW S, IsFiniteSet(S)
    PROVE  /\ \A i, j \in 1 .. Cardinality(S) : SetToSeq(S)[i] = SetToSeq(S)[j] => i = j
           /\ \A n \in S : \E i \in 1 .. Cardinality(S) : SetToSeq(S)[i] = n
<1> DEFINE f == SetToSeq(S)
           N == 1 .. Cardinality(S)
<1>1. Cardinality(S) \in Nat /\ ExistsBijection(N, S)
  BY FS_CardinalityType
<1>2. \E g \in [N -> S] : IsInjective(g)
  BY <1>1 DEF ExistsBijection, Bijection, Injection
<1>3. f \in [N -> S] /\ IsInjective(f)
  BY <1>2 DEF SetToSeq
<1>4. f \in Injection(N, S)
  BY <1>3 DEF Injection
<1>5. Cardinality(N) = Cardinality(S)
  BY <1>1, FS_Interval
<1> HIDE DEF f, N
<1>6. f \in Surjection(N, S)
  BY <1>4, <1>5, FS_Injection
<1>7. /\ \A i, j \in N : f[i] = f[j] => i = j
      /\ \A n \in S : \E i \in N : f[i] = n
  BY <1>3, <1>6 DEF IsInjective, Surjection
<1> QED BY <1>7 DEF f, N

LEMMA CompsLeads ==
    ASSUME NEW a, IsComps(a), NEW b, IsComps(b), DOMAIN a = DOMAIN b,
           \A n \in DOMAIN a : CompFits(a[n], b[n])
    PROVE  Items(CompsInside(a, b)) /\ Patched(CompsDoc(a), CompsInside(a, b)) = <<CompsDoc(b)>>
<1> DEFINE D == DOMAIN a
           old == SetToSeq(D)
           new == SetToSeq(DOMAIN b \ DOMAIN a)
           size == Cardinality(D)
           lists == [i \in 1 .. size |-> AppendList(CompPatch(a[old[i]], b[old[i]]), old[i])]
<1>1. DOMAIN b = D /\ DOMAIN b \ DOMAIN a = {} /\ IsFiniteSet(D)
  BY DEF IsComps
<1>2. size \in Nat /\ old \in [1 .. size -> D]
  BY <1>1, SeqOfTyped
<1>3. /\ \A i, j \in 1 .. size : old[i] = old[j] => i = j
      /\ \A n \in D : \E i \in 1 .. size : old[i] = n
  BY <1>1, SeqOfIs
<1>4. [i \in DOMAIN new |-> Fault] = <<>>
  <2>1. new = SetToSeq({})
    BY <1>1
  <2>2. new \in [1 .. 0 -> {}]
    BY <2>1, SeqOfTyped, FS_EmptySet
  <2> QED BY <2>2
<1> HIDE DEF old, new, size, D
<1>5. FlattenSeq(Mapped(old, LAMBDA n : IF n \in DOMAIN b
                                       THEN AppendList(CompPatch(a[n], b[n]), n)
                                       ELSE <<RemoveItem(<<Member(n)>>)>>)) = FlattenSeq(lists)
  BY <1>1, <1>2 DEF Mapped
<1>6. CompsInside(a, b) = FlattenSeq(lists) \o [i \in DOMAIN new |-> Fault]
  BY <1>5 DEF CompsInside, old, new, D
<1> DEFINE Doc(i) == [n \in D |-> IF \E j \in 1 .. i : old[j] = n
    THEN CompDoc(b[n]) ELSE CompDoc(a[n])]
           d == [i \in 0 .. size |-> Doc(i)]
<1>7. ASSUME NEW i \in 1 .. size
      PROVE  Items(lists[i]) /\ Patched(Doc(i - 1), lists[i]) = <<Doc(i)>>
  <2> DEFINE m == old[i]
             items == CompPatch(a[m], b[m])
             e == Doc(i - 1)
  <2>1. m \in D /\ a[m] \in CompType /\ b[m] \in CompType /\ CompFits(a[m], b[m])
    BY <1>1, <1>2 DEF IsComps, D
  <2>2. lists[i] = AppendList(items, m)
    OBVIOUS
  <2>3. Items(items) /\ Patched(CompDoc(a[m]), items) = <<CompDoc(b[m])>>
    BY <2>1, CompLeads
  <2>4. Valued(items)
    BY <2>1, CompValued DEF CompFits
  <2>5. e = [n \in DOMAIN e |-> e[n]] /\ m \in DOMAIN e /\ e[m] = CompDoc(a[m])
    <3>1. ~\E j \in 1 .. i - 1 : old[j] = m
      <4> SUFFICES ASSUME NEW j \in 1 .. i - 1, old[j] = m PROVE FALSE
        OBVIOUS
      <4>1. j \in 1 .. size /\ j # i
        BY <1>2
      <4> QED BY <1>3, <4>1
    <3> QED BY <2>1, <3>1
  <2>6. [e EXCEPT ![m] = CompDoc(b[m])] = Doc(i)
    <3>1. ASSUME NEW n \in D
          PROVE  [e EXCEPT ![m] = CompDoc(b[m])][n] = Doc(i)[n]
      <4>1. CASE n = m
        <5>1. \E j \in 1 .. i : old[j] = n
          BY <1>2, <4>1
        <5> QED BY <2>1, <4>1, <5>1
      <4>2. CASE n # m
        <5>1. (\E j \in 1 .. i : old[j] = n) <=> \E j \in 1 .. i - 1 : old[j] = n
          <6>1. \A j \in 1 .. i : j = i \/ j \in 1 .. i - 1
            BY <1>2
          <6>2. \A j \in 1 .. i - 1 : j \in 1 .. i
            BY <1>2
          <6> QED BY <4>2, <6>1, <6>2
        <5> QED BY <4>2, <5>1
      <4> QED BY <4>1, <4>2
    <3> DEFINE g == [e EXCEPT ![m] = CompDoc(b[m])]
               h == Doc(i)
    <3>2. g = [n \in D |-> g[n]] /\ h = [n \in D |-> h[n]]
      OBVIOUS
    <3>3. \A n \in D : g[n] = h[n]
      BY <3>1
    <3> HIDE DEF g, h
    <3>4. g = h
      BY <3>2, <3>3
    <3> QED BY <3>4 DEF g, h
  <2> HIDE DEF items, e, m, Doc, lists
  <2>7. Patched(e, Raised(items, m)) = <<[e EXCEPT ![m] = CompDoc(b[m])]>>
    BY <2>3, <2>5, PatchedUnder
  <2>8. lists[i] = Raised(items, m) /\ Items(lists[i])
    BY <2>2, <2>3, <2>4, RaisedIs, RaisedItems
  <2> QED BY <2>6, <2>7, <2>8 DEF e
<1>8. lists = [i \in 1 .. size |-> lists[i]]
  OBVIOUS
<1>9. Doc(0) = CompsDoc(a) /\ Doc(size) = CompsDoc(b)
  <2>1. 1 .. 0 = {}
    OBVIOUS
  <2> QED BY <1>1, <1>3, <2>1 DEF CompsDoc, D
<1> HIDE DEF Doc, lists
<1>10. d[0] = Doc(0) /\ d[size] = Doc(size)
  BY <1>2
<1>11. \A i \in 1 .. size : Items(lists[i]) /\ Patched(d[i - 1], lists[i]) = <<d[i]>>
  <2> TAKE i \in 1 .. size
  <2>1. d[i - 1] = Doc(i - 1) /\ d[i] = Doc(i)
    BY <1>2
  <2> QED BY <1>7, <2>1
<1> HIDE DEF d
<1>12. Items(FlattenSeq(lists)) /\ Patched(d[0], FlattenSeq(lists)) = <<d[size]>>
  BY <1>2, <1>8, <1>11, FlattenPatched
<1>13. FlattenSeq(lists) \o <<>> = FlattenSeq(lists)
  <2>1. PICK S : FlattenSeq(lists) \in Seq(S)
    BY <1>12 DEF Items
  <2> QED BY <2>1
<1> QED BY <1>4, <1>6, <1>9, <1>10, <1>12, <1>13

LEMMA CompsPuts ==
    ASSUME NEW a, IsComps(a), NEW b, IsComps(b), DOMAIN a # {} => DOMAIN a = DOMAIN b,
           \A n \in DOMAIN a : CompFits(a[n], b[n])
    PROVE  Puts(CompsPatch(a, b), Mapped(Tabled(a), CompsDoc), Mapped(Tabled(b), CompsDoc))
<1>1. CASE DOMAIN a = {} /\ DOMAIN b = {}
  <2>1. Tabled(a) = <<>> /\ Tabled(b) = <<>>
    BY <1>1 DEF Tabled
  <2>2. CompsPatch(a, b) = <<>> /\ Mapped(<<>>, CompsDoc) = <<>>
    BY <2>1 DEF CompsPatch, StructPatch, Mapped
  <2> QED BY <2>1, <2>2 DEF Puts
<1>2. CASE DOMAIN a = {} /\ DOMAIN b # {}
  <2>1. Tabled(a) = <<>> /\ Tabled(b) = <<b>>
    BY <1>2 DEF Tabled
  <2>2. /\ CompsPatch(a, b) = <<AddItem(<<>>, CompsDoc(b))>>
        /\ Mapped(<<>>, CompsDoc) = <<>> /\ Mapped(<<b>>, CompsDoc) = <<CompsDoc(b)>>
    BY <2>1 DEF CompsPatch, StructPatch, Mapped
  <2> QED BY <2>1, <2>2 DEF Puts
<1>3. CASE DOMAIN a # {}
  <2>1. DOMAIN a = DOMAIN b /\ Tabled(a) = <<a>> /\ Tabled(b) = <<b>>
    BY <1>3 DEF Tabled
  <2>2. CompsPatch(a, b) = CompsInside(a, b)
    BY <2>1 DEF CompsPatch, StructPatch
  <2>3. Mapped(<<a>>, CompsDoc) = <<CompsDoc(a)>> /\ Mapped(<<b>>, CompsDoc) = <<CompsDoc(b)>>
    BY DEF Mapped
  <2>4. Items(CompsInside(a, b)) /\ Patched(CompsDoc(a), CompsInside(a, b)) = <<CompsDoc(b)>>
    BY <2>1, CompsLeads
  <2> QED BY <2>1, <2>2, <2>3, <2>4 DEF Puts
<1> QED BY <1>1, <1>2, <1>3

-----------------------------------------------------------------------------
(* Service information *)

InfoFits(x, y) ==
    /\ InfoGrows(x, y)
    /\ \A n \in DOMAIN x.comps : CompFits(x.comps[n], y.comps[n])

InfoForm(info) ==
    [mbsMediaComps |-> Mapped(Tabled(info.comps), CompsDoc),
     mbsSdfResPrio |-> info.prio, afAppId |-> info.app,
     mbsSessionAmbr |-> info.ambr]

LEMMA InfoTyped ==
    ASSUME NEW info, IsServiceInfo(info)
    PROVE  /\ info.prio \in Optional(STRING) /\ info.app \in Optional(STRING)
           /\ info.ambr \in Optional(STRING) /\ IsComps(info.comps)
  BY DEF IsServiceInfo, IsComps

LEMMA InfoOpts ==
    ASSUME NEW info, IsServiceInfo(info)
    PROVE  /\ IsOpt(info.prio) /\ IsOpt(info.app) /\ IsOpt(info.ambr)
           /\ IsOpt(Mapped(Tabled(info.comps), CompsDoc))
<1>1. IsOpt(info.prio) /\ IsOpt(info.app) /\ IsOpt(info.ambr)
  BY InfoTyped, OptMapped
<1>2. IsOpt(Mapped(Tabled(info.comps), CompsDoc))
  BY DEF Tabled, IsOpt, Mapped
<1> QED BY <1>1, <1>2

LEMMA InfoFormIs ==
    ASSUME NEW info, IsServiceInfo(info)
    PROVE  IsForm(InfoForm(info))
<1> DEFINE f == InfoForm(info)
<1>1. /\ IsObject(f) /\ DOMAIN f = {"mbsMediaComps", "mbsSdfResPrio", "afAppId", "mbsSessionAmbr"}
      /\ f["mbsMediaComps"] = Mapped(Tabled(info.comps), CompsDoc) /\ f["mbsSdfResPrio"] = info.prio
      /\ f["afAppId"] = info.app /\ f["mbsSessionAmbr"] = info.ambr
  BY DEF InfoForm, IsObject
<1> HIDE DEF f
<1>2. \A n \in DOMAIN f : IsOpt(f[n])
  BY <1>1, InfoOpts
<1>3. IsForm(f)
  BY <1>1, <1>2 DEF IsForm, IsOpt
<1> QED BY <1>3 DEF f

LEMMA AppMoves ==
    ASSUME NEW a \in Optional(STRING), NEW b \in Optional(STRING)
    PROVE  Moves(AppPatch(a, b), "afAppId", a, b)
<1>1. CASE Len(a) = 1 /\ Len(b) = 1
  <2>1. a = <<a[1]>> /\ b = <<b[1]>>
    BY <1>1, OptIs
  <2>2. AppPatch(a, b) = <<ReplaceItem(<<Member("afAppId")>>, b[1])>>
    BY <1>1 DEF AppPatch
  <2>3. Moves(<<ReplaceItem(<<Member("afAppId")>>, b[1])>>, "afAppId", <<a[1]>>, <<b[1]>>)
    BY MovesReplace
  <2> QED BY <2>1, <2>2, <2>3
<1>2. CASE ~(Len(a) = 1 /\ Len(b) = 1)
  BY <1>2, MovesOpt DEF AppPatch
<1> QED BY <1>1, <1>2

LEMMA InfoLeads ==
    ASSUME NEW x, IsServiceInfo(x), NEW y, IsServiceInfo(y), InfoFits(x, y)
    PROVE  LET items == AppendList(CompsPatch(x.comps, y.comps), "mbsMediaComps")
                        \o OptPatch("mbsSdfResPrio", x.prio, y.prio)
                        \o AppPatch(x.app, y.app)
                        \o OptPatch("mbsSessionAmbr", x.ambr, y.ambr)
           IN Items(items) /\ Patched(ServiceInfoDoc(x), items) = <<ServiceInfoDoc(y)>>
<1> DEFINE p == AppendList(CompsPatch(x.comps, y.comps), "mbsMediaComps")
           q == OptPatch("mbsSdfResPrio", x.prio, y.prio)
           r == AppPatch(x.app, y.app)
           s == OptPatch("mbsSessionAmbr", x.ambr, y.ambr)
           e == InfoForm(x)
           f == [e EXCEPT !["mbsMediaComps"] = Mapped(Tabled(y.comps), CompsDoc)]
           g == [f EXCEPT !["mbsSdfResPrio"] = y.prio]
           h == [g EXCEPT !["afAppId"] = y.app]
           k == [h EXCEPT !["mbsSessionAmbr"] = y.ambr]
<1>1. IsForm(e)
  BY InfoFormIs
<1>2. /\ DOMAIN e = {"mbsMediaComps", "mbsSdfResPrio", "afAppId", "mbsSessionAmbr"}
      /\ DOMAIN f = DOMAIN e /\ DOMAIN g = DOMAIN e /\ DOMAIN h = DOMAIN e
      /\ e["mbsMediaComps"] = Mapped(Tabled(x.comps), CompsDoc) /\ f["mbsSdfResPrio"] = x.prio
      /\ g["afAppId"] = x.app /\ h["mbsSessionAmbr"] = x.ambr
  BY DEF InfoForm
<1>3. k = InfoForm(y)
  BY DEF InfoForm
<1>4. Moves(p, "mbsMediaComps", Mapped(Tabled(x.comps), CompsDoc),
      Mapped(Tabled(y.comps), CompsDoc))
  <2>1. IsComps(x.comps) /\ IsComps(y.comps)
    BY InfoTyped
  <2>2. /\ DOMAIN x.comps # {} => DOMAIN x.comps = DOMAIN y.comps
        /\ \A n \in DOMAIN x.comps : CompFits(x.comps[n], y.comps[n])
        /\ \A n \in DOMAIN x.comps : CompGrows(x.comps[n], y.comps[n])
    BY DEF InfoFits, InfoGrows
  <2>3. Puts(CompsPatch(x.comps, y.comps), Mapped(Tabled(x.comps), CompsDoc),
        Mapped(Tabled(y.comps), CompsDoc))
    BY <2>1, <2>2, CompsPuts
  <2>4. Valued(CompsPatch(x.comps, y.comps))
    BY <2>1, <2>2, CompsValued
  <2> QED BY <2>3, <2>4, PartMoves
<1>5. Moves(q, "mbsSdfResPrio", x.prio, y.prio) /\ Moves(s, "mbsSessionAmbr", x.ambr, y.ambr)
  BY InfoTyped, MovesOpt
<1>6. Moves(r, "afAppId", x.app, y.app)
  BY InfoTyped, AppMoves
<1> HIDE DEF p, q, r, s, e, f, g, h, k
<1>7. Makes(Obj(e), p, f)
  BY <1>1, <1>2, <1>4, InfoOpts, MakesFirst DEF IsOpt, f
<1>8. Makes(Obj(e), p \o q, g)
  BY <1>2, <1>5, <1>7, InfoOpts, MakesThen DEF IsOpt, g
<1>9. Makes(Obj(e), p \o q \o r, h)
  BY <1>2, <1>6, <1>8, InfoOpts, MakesThen DEF IsOpt, h
<1>10. Makes(Obj(e), p \o q \o r \o s, k)
  BY <1>2, <1>5, <1>9, InfoOpts, MakesThen DEF IsOpt, k
<1>11. ServiceInfoDoc(x) = Obj(e) /\ ServiceInfoDoc(y) = Obj(k)
  BY <1>3 DEF ServiceInfoDoc, InfoForm, e
<1> QED BY <1>10, <1>11 DEF Makes, p, q, r, s

LEMMA InfoIs ==
    ASSUME NEW a, IsInfo(a)
    PROVE  /\ Len(a) = 0 => a = <<>>
           /\ Len(a) # 0 => Len(a) = 1 /\ a = <<a[1]>> /\ IsServiceInfo(a[1])
<1>1. CASE a = <<>>
  BY <1>1
<1>2. CASE a = <<a[1]>> /\ IsServiceInfo(a[1])
  <2>1. Len(a) = 1
    BY <1>2
  <2> QED BY <1>2, <2>1
<1> QED BY <1>1, <1>2 DEF IsInfo

LEMMA InfoPuts ==
    ASSUME NEW a, IsInfo(a), NEW b, IsInfo(b), Both(a, b, InfoFits)
    PROVE  Puts(ServiceInfoPatch(a, b), Mapped(a, ServiceInfoDoc), Mapped(b, ServiceInfoDoc))
<1>1. CASE Len(a) = 0 /\ Len(b) = 0
  <2>1. ServiceInfoPatch(a, b) = <<>> /\ Mapped(a, ServiceInfoDoc) = <<>>
        /\ Mapped(b, ServiceInfoDoc) = <<>>
    BY <1>1, InfoIs DEF ServiceInfoPatch, StructPatch, Mapped
  <2> QED BY <2>1 DEF Puts
<1>2. CASE Len(a) = 0 /\ Len(b) # 0
  <2>1. a = <<>> /\ b = <<b[1]>>
    BY <1>2, InfoIs
  <2>2. ServiceInfoPatch(a, b) = Mapped(b, LAMBDA v : AddItem(<<>>, ServiceInfoDoc(v)))
    BY <1>2 DEF ServiceInfoPatch, StructPatch
  <2>3. /\ ServiceInfoPatch(a, b) = <<AddItem(<<>>, ServiceInfoDoc(b[1]))>>
        /\ Mapped(a, ServiceInfoDoc) = <<>> /\ Mapped(b, ServiceInfoDoc) = <<ServiceInfoDoc(b[1])>>
    BY <2>1, <2>2 DEF Mapped
  <2> QED BY <2>3 DEF Puts
<1>3. CASE Len(a) # 0 /\ Len(b) = 0
  <2>1. a = <<a[1]>> /\ b = <<>>
    BY <1>3, InfoIs
  <2>2. /\ ServiceInfoPatch(a, b) = <<RemoveItem(<<>>)>>
        /\ Mapped(a, ServiceInfoDoc) = <<ServiceInfoDoc(a[1])>> /\ Mapped(b, ServiceInfoDoc) = <<>>
    BY <1>3, <2>1 DEF ServiceInfoPatch, StructPatch, Mapped
  <2> QED BY <2>2 DEF Puts
<1>4. CASE Len(a) # 0 /\ Len(b) # 0
  <2> DEFINE x == a[1]
             y == b[1]
             items == ServiceInfoPatch(a, b)
  <2>1. /\ a = <<x>> /\ b = <<y>> /\ IsServiceInfo(x) /\ IsServiceInfo(y)
        /\ Len(a) = 1 /\ Len(b) = 1
    BY <1>4, InfoIs
  <2>2. InfoFits(x, y)
    BY <2>1 DEF Both
  <2>3. items = AppendList(CompsPatch(x.comps, y.comps), "mbsMediaComps")
                  \o OptPatch("mbsSdfResPrio", x.prio, y.prio)
                  \o AppPatch(x.app, y.app)
                  \o OptPatch("mbsSessionAmbr", x.ambr, y.ambr)
    BY <2>1 DEF ServiceInfoPatch, StructPatch
  <2>4. Mapped(a, ServiceInfoDoc) = <<ServiceInfoDoc(x)>>
        /\ Mapped(b, ServiceInfoDoc) = <<ServiceInfoDoc(y)>>
    <3> HIDE DEF x, y
    <3> QED BY <2>1 DEF Mapped
  <2> HIDE DEF x, y, items
  <2>5. Items(items) /\ Patched(ServiceInfoDoc(x), items) = <<ServiceInfoDoc(y)>>
    BY <2>1, <2>2, <2>3, InfoLeads
  <2> QED BY <2>4, <2>5 DEF Puts, items
<1> QED BY <1>1, <1>2, <1>3, <1>4

-----------------------------------------------------------------------------
(* Service areas *)

(* The copy has no cells and the comparison does not look at them: the patch *)
(* is right when the cells of a tracking area that stays are not changed.    *)
LEMMA NcgiTaisPuts ==
    ASSUME NEW o \in Seq(NcgiTaiType), NEW b \in Seq(NcgiTaiType),
           \A i \in DOMAIN o \cap DOMAIN b : o[i].tai = b[i].tai => o[i] = b[i]
    PROVE  Puts(NcgiTaisPatch(Mapped(o, NcgiTaiCopy), b),
                NonEmpty(Mapped(o, NcgiTaiDoc)), NonEmpty(Mapped(b, NcgiTaiDoc)))
<1> DEFINE a == Mapped(o, NcgiTaiCopy)
           V == {NcgiTaiDoc(v) : v \in NcgiTaiType}
           X == Mapped(o, NcgiTaiDoc)
           Y == Mapped(b, NcgiTaiDoc)
           n == IF Len(a) > Len(b) THEN Len(a) ELSE Len(b)
           lists ==
             [i \in 1 .. n |->
                IF i > Len(a) THEN <<AddItem(<<Index(i)>>, NcgiTaiDoc(b[i]))>>
                ELSE IF i > Len(b) THEN <<RemoveItem(<<Index(Len(b) + 1)>>)>>
                ELSE IF NcgiTaiEqual(a[i], b[i]) THEN <<>>
                ELSE <<ReplaceItem(<<Index(i)>>, NcgiTaiDoc(b[i]))>>]
<1>0. /\ a \in Seq(NcgiTaiType) /\ Len(a) = Len(o)
      /\ \A i \in 1 .. Len(o) : a[i] = NcgiTaiCopy(o[i]) /\ a[i].tai = o[i].tai
  <2>1. \A v \in NcgiTaiType : NcgiTaiCopy(v) \in NcgiTaiType /\ NcgiTaiCopy(v).tai = v.tai
    BY TaiCopied DEF NcgiTaiType, NcgiTaiCopy
  <2> QED BY <2>1 DEF Mapped
<1>1. /\ X \in Seq(V) /\ Len(X) = Len(o) /\ \A i \in 1 .. Len(o) : X[i] = NcgiTaiDoc(o[i])
      /\ Y \in Seq(V) /\ Len(Y) = Len(b) /\ \A i \in 1 .. Len(b) : Y[i] = NcgiTaiDoc(b[i])
      /\ n \in Nat /\ Len(X) = Len(a)
      /\ n = IF Len(X) > Len(Y) THEN Len(X) ELSE Len(Y)
  <2>1. X \in Seq(V) /\ Len(X) = Len(o) /\ \A i \in 1 .. Len(o) : X[i] = NcgiTaiDoc(o[i])
    BY DEF Mapped
  <2>2. Y \in Seq(V) /\ Len(Y) = Len(b) /\ \A i \in 1 .. Len(b) : Y[i] = NcgiTaiDoc(b[i])
    BY DEF Mapped
  <2> HIDE DEF X, Y, V, a
  <2>3. Len(a) \in Nat /\ Len(b) \in Nat /\ Len(X) = Len(a)
    BY <1>0, <2>1
  <2> QED BY <2>1, <2>2, <2>3
<1> HIDE DEF a
<1>2. EntryPatches(a, b, NcgiTaiEqual, NcgiTaiDoc, Index) = FlattenSeq(lists)
  BY Zenon DEF EntryPatches
<1>3. IsEntries(lists, X, Y)
  <2>1. lists = [i \in 1 .. n |-> lists[i]]
    OBVIOUS
  <2>2. ASSUME NEW i \in 1 .. n
        PROVE  IF i > Len(X)
               THEN \E step \in {End, Nth(i - 1)} : lists[i] = <<AddItem(<<step>>, Y[i])>>
               ELSE IF i > Len(Y) THEN lists[i] = <<RemoveItem(<<Nth((Len(Y) + 1) - 1)>>)>>
               ELSE \/ lists[i] = <<>> /\ X[i] = Y[i]
                    \/ lists[i] = <<ReplaceItem(<<Nth(i - 1)>>, Y[i])>>
    <3> HIDE DEF X, Y
    <3>1. CASE i > Len(a)
      <4>1. i \in 1 .. Len(b)
        BY <1>1, <3>1
      <4>2. lists[i] = <<AddItem(<<Index(i)>>, Y[i])>>
        BY <1>1, <3>1, <4>1
      <4>3. Index(i) \in {End, Nth(i - 1)}
        BY DEF Index, Index
      <4> HIDE DEF lists
      <4> QED BY <1>1, <3>1, <4>2, <4>3
    <3>2. CASE ~(i > Len(a)) /\ i > Len(b)
      <4>1. lists[i] = <<RemoveItem(<<Nth((Len(Y) + 1) - 1)>>)>>
        BY <1>1, <3>2 DEF Index
      <4> HIDE DEF lists
      <4> QED BY <1>1, <3>2, <4>1
    <3>3. CASE ~(i > Len(a)) /\ ~(i > Len(b))
      <4>1. i \in 1 .. Len(a) /\ i \in 1 .. Len(b)
        BY <1>1, <3>3
      <4>2. /\ o[i] \in NcgiTaiType /\ b[i] \in NcgiTaiType /\ a[i].tai = o[i].tai
            /\ X[i] = NcgiTaiDoc(o[i]) /\ Y[i] = NcgiTaiDoc(b[i]) /\ i \in DOMAIN o \cap DOMAIN b
        BY <1>0, <1>1, <4>1
      <4>3. NcgiTaiEqual(a[i], b[i]) => X[i] = Y[i]
        <5>1. NcgiTaiEqual(a[i], b[i]) => o[i].tai = b[i].tai
          <6>1. o[i].tai \in TaiType /\ b[i].tai \in TaiType
            BY <4>2 DEF NcgiTaiType
          <6>2. \A v, w \in TaiType : TaiEqual(v, w) => v = w
            BY DEF TaiEqual, TaiType
          <6> QED BY <4>2, <6>1, <6>2 DEF NcgiTaiEqual
        <5> QED BY <4>2, <5>1
      <4>4. lists[i] = IF NcgiTaiEqual(a[i], b[i])
            THEN <<>> ELSE <<ReplaceItem(<<Nth(i - 1)>>, Y[i])>>
        BY <3>3, <4>2 DEF Index
      <4> HIDE DEF lists
      <4> QED BY <1>1, <3>3, <4>3, <4>4
    <3> QED BY <3>1, <3>2, <3>3
  <2> HIDE DEF lists, X, Y
  <2> QED BY <1>1, <2>1, <2>2 DEF IsEntries
<1>4. /\ Len(a) = 0 => NonEmpty(a) = <<>>
      /\ Len(a) # 0 => NonEmpty(a) = <<a>>
      /\ Len(b) = 0 => NonEmpty(b) = <<>>
      /\ Len(b) # 0 => NonEmpty(b) = <<b>>
  BY DEF NonEmpty
<1>5. Len(a) = 0 => NcgiTaisPatch(a, b) = IF Len(b) = 0 THEN <<>> ELSE <<AddItem(<<>>, Y)>>
  <2>1. CASE Len(b) = 0
    BY <1>4, <2>1 DEF NcgiTaisPatch, PrefixedListPatch, ListPatch, StructPatch, Mapped
  <2>2. CASE Len(b) # 0
    BY <1>4, <2>2 DEF NcgiTaisPatch, PrefixedListPatch, ListPatch, StructPatch, Mapped
  <2> QED BY <2>1, <2>2
<1>6. ASSUME Len(a) # 0, Len(b) = 0 PROVE NcgiTaisPatch(a, b) = <<RemoveItem(<<>>)>>
  <2>1. NonEmpty(a) = <<a>> /\ NonEmpty(b) = <<>>
    BY <1>4, <1>6
  <2> QED BY <2>1 DEF NcgiTaisPatch, PrefixedListPatch, ListPatch, StructPatch
<1>7. Len(a) # 0 /\ Len(b) # 0 => \/ NcgiTaisPatch(a, b) = <<ReplaceItem(<<>>, Y)>>
                                  \/ NcgiTaisPatch(a, b) = FlattenSeq(lists)
  <2> SUFFICES ASSUME Len(a) # 0, Len(b) # 0
               PROVE  \/ NcgiTaisPatch(a, b) = <<ReplaceItem(<<>>, Y)>>
                      \/ NcgiTaisPatch(a, b) = FlattenSeq(lists)
    OBVIOUS
  <2>1. NcgiTaisPatch(a, b) = IF NcgiTaiEqual(a[1], b[1])
        THEN EntryPatches(a, b, NcgiTaiEqual, NcgiTaiDoc, Index)
                       ELSE <<ReplaceItem(<<>>, Mapped(b, NcgiTaiDoc))>>
    <3>1. NonEmpty(a) = <<a>> /\ NonEmpty(b) = <<b>>
      BY <1>4
    <3> QED BY <3>1 DEF NcgiTaisPatch, PrefixedListPatch, ListPatch, StructPatch
  <2> HIDE DEF lists
  <2> QED BY <1>2, <2>1
<1> DEFINE items == NcgiTaisPatch(a, b)
<1> HIDE DEF lists, X, Y, V, n, items
<1>8. Len(X) = 0 => items = IF Len(Y) = 0 THEN <<>> ELSE <<AddItem(<<>>, Y)>>
  BY <1>1, <1>5 DEF items
<1>9. Len(X) # 0 /\ Len(Y) = 0 => items = <<RemoveItem(<<>>)>>
  BY <1>1, <1>6 DEF items
<1>10. Len(X) # 0 /\ Len(Y) # 0
         => \/ items = <<ReplaceItem(<<>>, Y)>>
            \/ \E l : IsEntries(l, X, Y) /\ items = FlattenSeq(l)
  BY <1>1, <1>3, <1>7 DEF items
<1>11. Puts(items, NonEmpty(X), NonEmpty(Y))
  BY <1>1, <1>8, <1>9, <1>10, ListPuts
<1> QED BY <1>11 DEF items, X, Y, a

(* What an update may do to a service area. *)
AreaFits(x, y) ==
    /\ AreaGrows(x, y)
    /\ \A i \in DOMAIN x.ncgiTais \cap DOMAIN y.ncgiTais :
          x.ncgiTais[i].tai = y.ncgiTais[i].tai => x.ncgiTais[i] = y.ncgiTais[i]

AreaForm(area) ==
    [ncgiList |-> NonEmpty(Mapped(area.ncgiTais, NcgiTaiDoc)),
     taiList |-> NonEmpty(Mapped(area.tais, TaiDoc))]

LEMMA NonEmptyOpt == \A list : IsOpt(NonEmpty(list))
  BY DEF NonEmpty, IsOpt

LEMMA AreaFormIs ==
    ASSUME NEW area
    PROVE  IsForm(AreaForm(area)) /\ AreaDoc(area) = Obj(AreaForm(area))
<1> DEFINE f == AreaForm(area)
<1>1. /\ IsObject(f) /\ DOMAIN f = {"ncgiList", "taiList"}
      /\ f["ncgiList"] = NonEmpty(Mapped(area.ncgiTais, NcgiTaiDoc))
      /\ f["taiList"] = NonEmpty(Mapped(area.tais, TaiDoc))
  BY DEF AreaForm, IsObject
<1>2. AreaDoc(area) = Obj(f)
  BY DEF AreaDoc, AreaForm, NcgiTaisDoc, TaisDoc
<1> HIDE DEF f
<1>3. \A n \in DOMAIN f : IsOpt(f[n])
  BY <1>1, NonEmptyOpt
<1>4. IsForm(f)
  BY <1>1, <1>3 DEF IsForm, IsOpt
<1> QED BY <1>2, <1>4 DEF f

LEMMA NcgiTaisCopyIs ==
    ASSUME NEW list \in Seq(NcgiTaiType)
    PROVE  /\ Mapped(list, NcgiTaiCopy) \in Seq(NcgiTaiType)
           /\ Len(Mapped(list, NcgiTaiCopy)) = Len(list)
           /\ Len(list) > 0 => Mapped(list, NcgiTaiCopy)[1].tai = list[1].tai
<1>1. \A v \in NcgiTaiType : NcgiTaiCopy(v) \in NcgiTaiType /\ NcgiTaiCopy(v).tai = v.tai
  BY TaiCopied DEF NcgiTaiType, NcgiTaiCopy
<1> QED BY <1>1 DEF Mapped

LEMMA AreaLeads ==
    ASSUME NEW x \in AreaType, NEW y \in AreaType, AreaFits(x, y)
    PROVE  LET items == AppendList(NcgiTaisPatch(AreaCopy(x).ncgiTais, y.ncgiTais), "ncgiList")
                        \o AppendList(TaisPatch(AreaCopy(x).tais, y.tais), "taiList")
           IN Items(items) /\ Patched(AreaDoc(x), items) = <<AreaDoc(y)>>
<1> DEFINE p == AppendList(NcgiTaisPatch(AreaCopy(x).ncgiTais, y.ncgiTais), "ncgiList")
           q == AppendList(TaisPatch(AreaCopy(x).tais, y.tais), "taiList")
           e == AreaForm(x)
           f == [e EXCEPT !["ncgiList"] = NonEmpty(Mapped(y.ncgiTais, NcgiTaiDoc))]
           g == [f EXCEPT !["taiList"] = NonEmpty(Mapped(y.tais, TaiDoc))]
<1>1. /\ x.ncgiTais \in Seq(NcgiTaiType) /\ y.ncgiTais \in Seq(NcgiTaiType)
      /\ x.tais \in Seq(TaiType) /\ y.tais \in Seq(TaiType)
  BY DEF AreaType
<1>2. AreaCopy(x).tais = x.tais /\ AreaCopy(x).ncgiTais = Mapped(x.ncgiTais, NcgiTaiCopy)
  BY <1>1, TaisCopied DEF AreaCopy
<1>3. /\ DOMAIN e = {"ncgiList", "taiList"} /\ DOMAIN f = DOMAIN e
      /\ e["ncgiList"] = NonEmpty(Mapped(x.ncgiTais, NcgiTaiDoc))
      /\ f["taiList"] = NonEmpty(Mapped(x.tais, TaiDoc))
  BY DEF AreaForm
<1>4. g = AreaForm(y)
  BY DEF AreaForm
<1>5. Moves(p, "ncgiList", NonEmpty(Mapped(x.ncgiTais, NcgiTaiDoc)),
      NonEmpty(Mapped(y.ncgiTais, NcgiTaiDoc)))
  <2> DEFINE o == x.ncgiTais
             b == y.ncgiTais
             a == Mapped(o, NcgiTaiCopy)
  <2>1. o \in Seq(NcgiTaiType) /\ b \in Seq(NcgiTaiType)
    BY <1>1
  <2>2. Puts(NcgiTaisPatch(a, b), NonEmpty(Mapped(o, NcgiTaiDoc)), NonEmpty(Mapped(b, NcgiTaiDoc)))
    BY <2>1, NcgiTaisPuts DEF AreaFits
  <2>3. Lasting(Tais(o), Tais(b))
    BY DEF AreaFits, AreaGrows
  <2> HIDE DEF o, b
  <2>4. a \in Seq(NcgiTaiType) /\ Len(a) = Len(o) /\ (Len(o) > 0 => a[1].tai = o[1].tai)
        /\ Len(o) \in Nat /\ Len(b) \in Nat
    BY <2>1, NcgiTaisCopyIs
  <2>5. Len(a) > Len(b) => Len(b) > 0 /\ a[1].tai # b[1].tai
    <3>1. /\ Len(Tais(o)) = Len(o) /\ (Len(o) > 0 => Tais(o)[1] = o[1].tai)
          /\ Len(Tais(b)) = Len(b) /\ (Len(b) > 0 => Tais(b)[1] = b[1].tai)
      BY <2>1, TaisOf
    <3>2. Len(Tais(o)) > Len(Tais(b)) => Len(Tais(b)) > 0 /\ Tais(o)[1] # Tais(b)[1]
      BY <2>3 DEF Lasting
    <3> HIDE DEF a
    <3> QED BY <2>4, <3>1, <3>2
  <2>6. Valued(NcgiTaisPatch(a, b))
    BY <2>1, <2>4, <2>5, NcgiTaisValued
  <2>7. Moves(AppendList(NcgiTaisPatch(a, b), "ncgiList"), "ncgiList",
        NonEmpty(Mapped(o, NcgiTaiDoc)), NonEmpty(Mapped(b, NcgiTaiDoc)))
    BY <2>2, <2>6, PartMoves
  <2> QED BY <1>2, <2>7 DEF o, b
<1>6. Moves(q, "taiList", NonEmpty(Mapped(x.tais, TaiDoc)), NonEmpty(Mapped(y.tais, TaiDoc)))
  <2>1. Valued(TaisPatch(x.tais, y.tais))
    BY <1>1, TaisValued DEF AreaFits, AreaGrows, Lasting
  <2> QED BY <1>1, <1>2, <2>1, TaisPuts, PartMoves
<1> HIDE DEF p, q, e, f, g
<1>7. Makes(Obj(e), p, f)
  BY <1>3, <1>5, AreaFormIs, NonEmptyOpt, MakesFirst DEF IsOpt, e, f
<1>8. Makes(Obj(e), p \o q, g)
  BY <1>3, <1>6, <1>7, NonEmptyOpt, MakesThen DEF IsOpt, g
<1>9. AreaDoc(x) = Obj(e) /\ AreaDoc(y) = Obj(g)
  BY <1>4, AreaFormIs DEF e
<1> QED BY <1>8, <1>9 DEF Makes, p, q

LEMMA AreaPuts ==
    ASSUME NEW a \in Optional(AreaType), NEW b \in Optional(AreaType), Both(a, b, AreaFits)
    PROVE  Puts(AreaPatch(Mapped(a, AreaCopy), b), Mapped(a, AreaDoc), Mapped(b, AreaDoc))
<1>0. Len(Mapped(a, AreaCopy)) = Len(a)
  BY DEF Mapped, Optional
<1>1. CASE Len(a) = 0 /\ Len(b) = 0
  <2>1. AreaPatch(Mapped(a, AreaCopy), b) = <<>> /\ Mapped(a, AreaDoc) = <<>>
        /\ Mapped(b, AreaDoc) = <<>>
    BY <1>0, <1>1, OptIs DEF AreaPatch, StructPatch, Mapped
  <2> QED BY <2>1 DEF Puts
<1>2. CASE Len(a) = 0 /\ Len(b) # 0
  <2>1. a = <<>> /\ b = <<b[1]>>
    BY <1>2, OptIs
  <2>2. AreaPatch(Mapped(a, AreaCopy), b) = Mapped(b, LAMBDA v : AddItem(<<>>, AreaDoc(v)))
    BY <1>0, <1>2 DEF AreaPatch, StructPatch
  <2>3. /\ AreaPatch(Mapped(a, AreaCopy), b) = <<AddItem(<<>>, AreaDoc(b[1]))>>
        /\ Mapped(a, AreaDoc) = <<>> /\ Mapped(b, AreaDoc) = <<AreaDoc(b[1])>>
    BY <2>1, <2>2 DEF Mapped
  <2> QED BY <2>3 DEF Puts
<1>3. CASE Len(a) # 0 /\ Len(b) = 0
  <2>1. a = <<a[1]>> /\ b = <<>>
    BY <1>3, OptIs
  <2>2. /\ AreaPatch(Mapped(a, AreaCopy), b) = <<RemoveItem(<<>>)>>
        /\ Mapped(a, AreaDoc) = <<AreaDoc(a[1])>> /\ Mapped(b, AreaDoc) = <<>>
    BY <1>0, <1>3, <2>1 DEF AreaPatch, StructPatch, Mapped
  <2> QED BY <2>2 DEF Puts
<1>4. CASE Len(a) # 0 /\ Len(b) # 0
  <2> DEFINE x == a[1]
             y == b[1]
             items == AreaPatch(Mapped(a, AreaCopy), b)
  <2>1. /\ a = <<x>> /\ b = <<y>> /\ x \in AreaType /\ y \in AreaType
        /\ Len(a) = 1 /\ Len(b) = 1
    BY <1>4, OptIs
  <2>2. AreaFits(x, y)
    BY <2>1 DEF Both
  <2>3. items = AppendList(NcgiTaisPatch(AreaCopy(x).ncgiTais, y.ncgiTais), "ncgiList")
                  \o AppendList(TaisPatch(AreaCopy(x).tais, y.tais), "taiList")
    <3>1. Mapped(a, AreaCopy)[1] = AreaCopy(x)
      BY <2>1 DEF Mapped
    <3> QED BY <1>0, <2>1, <3>1 DEF AreaPatch, StructPatch
  <2>4. Mapped(a, AreaDoc) = <<AreaDoc(x)>> /\ Mapped(b, AreaDoc) = <<AreaDoc(y)>>
    <3> HIDE DEF x, y
    <3> QED BY <2>1 DEF Mapped
  <2> HIDE DEF x, y, items
  <2>5. Items(items) /\ Patched(AreaDoc(x), items) = <<AreaDoc(y)>>
    BY <2>1, <2>2, <2>3, AreaLeads
  <2> QED BY <2>4, <2>5 DEF Puts, items
<1> QED BY <1>1, <1>2, <1>3, <1>4

-----------------------------------------------------------------------------
(* External service areas *)

ExtForm(ext) ==
    [geographicAreaList |-> NonEmpty(Mapped(ext.geos, GeoDoc)),
     civicAddressList |-> NonEmpty(Mapped(ext.civics, CivicDoc))]

(* The document with the geographic areas that ExtAreaDoc leaves out. *)
FullExt(ext) == Obj(ExtForm(ext))

LEMMA ExtFormIs ==
    ASSUME NEW ext
    PROVE  IsForm(ExtForm(ext))
<1> DEFINE f == ExtForm(ext)
<1>1. /\ IsObject(f) /\ DOMAIN f = {"geographicAreaList", "civicAddressList"}
      /\ f["geographicAreaList"] = NonEmpty(Mapped(ext.geos, GeoDoc))
      /\ f["civicAddressList"] = NonEmpty(Mapped(ext.civics, CivicDoc))
  BY DEF ExtForm, IsObject
<1> HIDE DEF f
<1>2. \A n \in DOMAIN f : IsOpt(f[n])
  BY <1>1, NonEmptyOpt
<1>3. IsForm(f)
  BY <1>1, <1>2 DEF IsForm, IsOpt
<1> QED BY <1>3 DEF f

(* Without geographic areas nothing is left out. *)
LEMMA FullExtIs ==
    ASSUME NEW ext \in ExtAreaType, Len(ext.geos) = 0
    PROVE  ExtAreaDoc(ext) = FullExt(ext)
<1> DEFINE f == ExtForm(ext)
           e == [civicAddressList |-> NonEmpty(CivicsDoc(ext.civics))]
<1>1. f["geographicAreaList"] = <<>>
  <2>1. ext.geos = <<>>
    BY DEF ExtAreaType
  <2>2. Mapped(ext.geos, GeoDoc) = <<>>
    BY <2>1 DEF Mapped
  <2> QED BY <2>2 DEF ExtForm, NonEmpty
<1>2. /\ DOMAIN f = {"geographicAreaList", "civicAddressList"}
      /\ DOMAIN e = {"civicAddressList"} /\ f["civicAddressList"] = e["civicAddressList"]
  BY DEF ExtForm, CivicsDoc
<1>3. Len(<<>>) # 1
  OBVIOUS
<1>4. ExtAreaDoc(ext) = Obj(e) /\ FullExt(ext) = Obj(f)
  BY DEF ExtAreaDoc, FullExt
<1> HIDE DEF e, f
<1>5. {n \in DOMAIN f : Len(f[n]) = 1} = {n \in DOMAIN e : Len(e[n]) = 1}
  BY <1>1, <1>2, <1>3
<1>6. \A n \in {m \in DOMAIN e : Len(e[m]) = 1} : f[n][1] = e[n][1]
  BY <1>2
<1> QED BY <1>4, <1>5, <1>6 DEF Obj

LEMMA ExtAreaLeads ==
    ASSUME NEW x \in ExtAreaType, NEW y \in ExtAreaType, ExtAreaGrows(x, y)
    PROVE  LET items == AppendList(GeosPatch(x.geos, y.geos), "geographicAreaList")
                        \o AppendList(CivicsPatch(x.civics, y.civics), "civicAddressList")
           IN Items(items) /\ Patched(FullExt(x), items) = <<FullExt(y)>>
<1> DEFINE p == AppendList(GeosPatch(x.geos, y.geos), "geographicAreaList")
           q == AppendList(CivicsPatch(x.civics, y.civics), "civicAddressList")
           e == ExtForm(x)
           f == [e EXCEPT !["geographicAreaList"] = NonEmpty(Mapped(y.geos, GeoDoc))]
           g == [f EXCEPT !["civicAddressList"] = NonEmpty(Mapped(y.civics, CivicDoc))]
<1>1. /\ x.geos \in Seq(PointType) /\ y.geos \in Seq(PointType)
      /\ x.civics \in Seq(CivicType) /\ y.civics \in Seq(CivicType)
  BY DEF ExtAreaType
<1>2. Len(x.geos) <= Len(y.geos) /\ Len(x.civics) <= Len(y.civics)
  <2>1. Len(x.geos) = 0 /\ Len(x.civics) <= Len(y.civics)
    BY DEF ExtAreaGrows
  <2>2. Len(y.geos) \in Nat
    BY <1>1
  <2> QED BY <2>1, <2>2
<1>3. /\ DOMAIN e = {"geographicAreaList", "civicAddressList"} /\ DOMAIN f = DOMAIN e
      /\ e["geographicAreaList"] = NonEmpty(Mapped(x.geos, GeoDoc))
      /\ f["civicAddressList"] = NonEmpty(Mapped(x.civics, CivicDoc))
  BY DEF ExtForm
<1>4. g = ExtForm(y)
  BY DEF ExtForm
<1>5. Moves(p, "geographicAreaList", NonEmpty(Mapped(x.geos, GeoDoc)),
      NonEmpty(Mapped(y.geos, GeoDoc)))
  BY <1>1, <1>2, GeosPuts, GeosValued, PartMoves
<1>6. Moves(q, "civicAddressList", NonEmpty(Mapped(x.civics, CivicDoc)),
      NonEmpty(Mapped(y.civics, CivicDoc)))
  BY <1>1, <1>2, CivicsPuts, CivicsValued, PartMoves
<1> HIDE DEF p, q, e, f, g
<1>7. Makes(Obj(e), p, f)
  BY <1>3, <1>5, ExtFormIs, NonEmptyOpt, MakesFirst DEF IsOpt, e, f
<1>8. Makes(Obj(e), p \o q, g)
  BY <1>3, <1>6, <1>7, NonEmptyOpt, MakesThen DEF IsOpt, g
<1>9. FullExt(x) = Obj(e) /\ FullExt(y) = Obj(g)
  BY <1>4 DEF e, FullExt
<1> QED BY <1>8, <1>9 DEF Makes, p, q

LEMMA ExtAreaPuts ==
    ASSUME NEW a \in Optional(ExtAreaType),
           NEW b \in Optional(ExtAreaType), Both(a, b, ExtAreaGrows),
           Len(a) = 0 => \A i \in DOMAIN b : Len(b[i].geos) = 0
    PROVE  Puts(ExtAreaPatch(a, b), Mapped(a, FullExt), Mapped(b, FullExt))
<1>1. CASE Len(a) = 0 /\ Len(b) = 0
  <2>1. ExtAreaPatch(a, b) = <<>> /\ Mapped(a, FullExt) = <<>> /\ Mapped(b, FullExt) = <<>>
    BY <1>1, OptIs DEF ExtAreaPatch, StructPatch, Mapped
  <2> QED BY <2>1 DEF Puts
<1>2. CASE Len(a) = 0 /\ Len(b) # 0
  <2>1. a = <<>> /\ b = <<b[1]>>
    BY <1>2, OptIs
  <2>2. ExtAreaPatch(a, b) = Mapped(b, LAMBDA v : AddItem(<<>>, ExtAreaDoc(v)))
    BY <1>2 DEF ExtAreaPatch, StructPatch
  <2>3. ExtAreaDoc(b[1]) = FullExt(b[1])
    <3>1. b[1] \in ExtAreaType /\ 1 \in DOMAIN b
      BY <1>2, OptIs DEF Optional
    <3> QED BY <1>2, <3>1, FullExtIs
  <2>4. /\ ExtAreaPatch(a, b) = <<AddItem(<<>>, ExtAreaDoc(b[1]))>>
        /\ Mapped(a, FullExt) = <<>> /\ Mapped(b, FullExt) = <<FullExt(b[1])>>
    BY <2>1, <2>2 DEF Mapped
  <2> QED BY <2>3, <2>4 DEF Puts
<1>3. CASE Len(a) # 0 /\ Len(b) = 0
  <2>1. a = <<a[1]>> /\ b = <<>>
    BY <1>3, OptIs
  <2>2. /\ ExtAreaPatch(a, b) = <<RemoveItem(<<>>)>>
        /\ Mapped(a, FullExt) = <<FullExt(a[1])>> /\ Mapped(b, FullExt) = <<>>
    BY <1>3, <2>1 DEF ExtAreaPatch, StructPatch, Mapped
  <2> QED BY <2>2 DEF Puts
<1>4. CASE Len(a) # 0 /\ Len(b) # 0
  <2> DEFINE x == a[1]
             y == b[1]
             items == ExtAreaPatch(a, b)
  <2>1. /\ a = <<x>> /\ b = <<y>> /\ x \in ExtAreaType /\ y \in ExtAreaType
        /\ Len(a) = 1 /\ Len(b) = 1
    BY <1>4, OptIs
  <2>2. ExtAreaGrows(x, y)
    BY <2>1 DEF Both
  <2>3. items = AppendList(GeosPatch(x.geos, y.geos), "geographicAreaList")
                  \o AppendList(CivicsPatch(x.civics, y.civics), "civicAddressList")
    BY <2>1 DEF ExtAreaPatch, StructPatch
  <2>4. Mapped(a, FullExt) = <<FullExt(x)>> /\ Mapped(b, FullExt) = <<FullExt(y)>>
    <3> HIDE DEF x, y
    <3> QED BY <2>1 DEF Mapped
  <2> HIDE DEF x, y, items
  <2>5. Items(items) /\ Patched(FullExt(x), items) = <<FullExt(y)>>
    BY <2>1, <2>2, <2>3, ExtAreaLeads
  <2> QED BY <2>4, <2>5 DEF Puts, items
<1> QED BY <1>1, <1>2, <1>3, <1>4

-----------------------------------------------------------------------------
(* Service information and its copy *)

LEMMA MediaDocOfCopy ==
    ASSUME NEW info \in MediaInfoType
    PROVE  MediaInfoDoc(MediaInfoCopy(info)) = MediaInfoDoc(info)
<1>1. Codecs(MediaInfoCopy(info)) = Codecs(info)
  BY CodecsCopied
<1>2. /\ MediaInfoCopy(info).type = info.type /\ MediaInfoCopy(info).maxBw = info.maxBw
      /\ MediaInfoCopy(info).minBw = info.minBw
  BY DEF MediaInfoCopy, MediaInfoType
<1> QED BY <1>1, <1>2 DEF MediaInfoDoc

LEMMA CompCopyIs ==
    ASSUME NEW v \in CompType
    PROVE  /\ CompCopy(v).flows = v.flows /\ CompCopy(v).prio = v.prio
           /\ CompCopy(v).qosRef = v.qosRef /\ CompCopy(v).qos = v.qos
           /\ CompCopy(v).media = Mapped(v.media, MediaInfoCopy)
           /\ Len(CompCopy(v).media) = Len(v.media)
           /\ Len(v.media) = 1 => CompCopy(v).media[1] = MediaInfoCopy(v.media[1])
<1>1. v.media \in Seq(MediaInfoType) /\ v.qos \in Seq(QosReqType) /\ v.flows \in Seq(STRING)
  BY DEF CompType, Optional
<1>2. /\ CompCopy(v).prio = v.prio /\ CompCopy(v).qosRef = v.qosRef
      /\ CompCopy(v).flows = v.flows
      /\ CompCopy(v).media = Mapped(v.media, MediaInfoCopy)
      /\ CompCopy(v).qos = Mapped(v.qos, QosReqCopy)
  BY <1>1, FlowsCopied DEF CompCopy, CompType
<1>3. Mapped(v.qos, QosReqCopy) = v.qos
  BY <1>1, QosReqCopied DEF Mapped
<1>4. /\ Len(CompCopy(v).media) = Len(v.media)
      /\ Len(v.media) = 1 => CompCopy(v).media[1] = MediaInfoCopy(v.media[1])
  BY <1>1, <1>2 DEF Mapped
<1> QED BY <1>2, <1>3, <1>4

LEMMA CompDocOfCopy ==
    ASSUME NEW v \in CompType
    PROVE  CompDoc(CompCopy(v)) = CompDoc(v)
<1> DEFINE c == CompCopy(v)
<1>1. v.media \in Seq(MediaInfoType)
  BY DEF CompType, Optional
<1>2. Mapped(Mapped(v.media, MediaInfoCopy), MediaInfoDoc) = Mapped(v.media, MediaInfoDoc)
  BY <1>1, MediaDocOfCopy DEF Mapped
<1>3. /\ c.flows = v.flows /\ c.prio = v.prio /\ c.qosRef = v.qosRef /\ c.qos = v.qos
      /\ c.media = Mapped(v.media, MediaInfoCopy) /\ Len(c.media) = Len(v.media)
  BY CompCopyIs
<1>4. Len(c.media \o c.qosRef) = Len(v.media \o v.qosRef)
  <2> DEFINE S == UNION {MediaInfoType, STRING, {MediaInfoCopy(m) : m \in MediaInfoType}}
  <2>1. v.media \in Seq(S) /\ v.qosRef \in Seq(S)
    BY DEF CompType, Optional
  <2>2. c.media \in Seq(S)
    BY <1>1, <1>3 DEF Mapped
  <2> HIDE DEF S, c
  <2>3. Len(c.media \o v.qosRef) = Len(c.media) + Len(v.qosRef)
        /\ Len(v.media \o v.qosRef) = Len(v.media) + Len(v.qosRef)
    BY <2>1, <2>2
  <2> QED BY <1>3, <2>3
<1> HIDE DEF c
<1>5. Mapped(c.media, MediaInfoDoc) = Mapped(v.media, MediaInfoDoc)
  BY <1>2, <1>3
<1> QED BY <1>3, <1>4, <1>5 DEF CompDoc, c

LEMMA InfoCopyIs ==
    ASSUME NEW x, IsServiceInfo(x)
    PROVE  /\ ServiceInfoCopy(x).comps = [n \in DOMAIN x.comps |-> CompCopy(x.comps[n])]
           /\ ServiceInfoCopy(x).prio = x.prio /\ ServiceInfoCopy(x).app = x.app
           /\ ServiceInfoCopy(x).ambr = x.ambr
  BY DEF ServiceInfoCopy, IsServiceInfo

LEMMA InfoDocOfCopy ==
    ASSUME NEW x, IsServiceInfo(x)
    PROVE  ServiceInfoDoc(ServiceInfoCopy(x)) = ServiceInfoDoc(x)
<1> DEFINE c == ServiceInfoCopy(x)
<1>1. /\ c.comps = [n \in DOMAIN x.comps |-> CompCopy(x.comps[n])]
      /\ c.prio = x.prio /\ c.app = x.app /\ c.ambr = x.ambr
  BY InfoCopyIs
<1> HIDE DEF c
<1>2. DOMAIN c.comps = DOMAIN x.comps
  BY <1>1
<1>3. CompsDoc(c.comps) = CompsDoc(x.comps)
  <2>1. \A n \in DOMAIN x.comps : CompDoc(c.comps[n]) = CompDoc(x.comps[n])
    BY <1>1, CompDocOfCopy DEF IsServiceInfo
  <2> QED BY <1>2, <2>1 DEF CompsDoc
<1>4. Mapped(Tabled(c.comps), CompsDoc) = Mapped(Tabled(x.comps), CompsDoc)
  <2>1. CASE DOMAIN x.comps = {}
    BY <1>2, <2>1 DEF Tabled
  <2>2. CASE DOMAIN x.comps # {}
    <3>1. Tabled(c.comps) = <<c.comps>> /\ Tabled(x.comps) = <<x.comps>>
      BY <1>2, <2>2 DEF Tabled
    <3>2. \A t : Mapped(<<t>>, CompsDoc) = <<CompsDoc(t)>>
      BY DEF Mapped
    <3> QED BY <1>3, <3>1, <3>2
  <2> QED BY <2>1, <2>2
<1> QED BY <1>1, <1>4 DEF ServiceInfoDoc, c

(* What the application keeps to lets every component be patched. *)
LEMMA InfoFitsOfCopy ==
    ASSUME NEW w, IsSession(w), Untimed(w), OneOfThree(w),
           NEW s, IsSession(s), Expressible(w, s), Kept(w, s)
    PROVE  Both(PublicCopy(w).info, s.info, InfoFits)
<1> DEFINE a == PublicCopy(w)
<1>1. a.info = Mapped(w.info, ServiceInfoCopy) /\ IsInfo(w.info) /\ IsInfo(s.info)
  BY FieldsOf DEF PublicCopy, IsSession, FieldNames
<1>2. Both(a.info, s.info, InfoGrows)
  BY KeptOfCopy DEF SessionGrows
<1> HIDE DEF a
<1>3. SUFFICES ASSUME Len(a.info) = 1, Len(s.info) = 1 PROVE InfoFits(a.info[1], s.info[1])
  BY DEF Both, a
<1> DEFINE x == w.info[1]
           y == s.info[1]
           c == ServiceInfoCopy(x)
<1>4. Len(w.info) = 1 /\ 1 \in DOMAIN w.info /\ 1 \in DOMAIN s.info /\ a.info[1] = c
      /\ w.info # <<>> /\ s.info # <<>>
  <2>1. w.info # <<>>
    <3>1. w.info = <<>> => Mapped(w.info, ServiceInfoCopy) = <<>>
      BY DEF Mapped
    <3> QED BY <1>1, <1>3, <3>1
  <2>2. w.info = <<x>>
    BY <1>1, <2>1 DEF IsInfo
  <2>3. s.info # <<>>
    BY <1>3
  <2>4. s.info = <<y>>
    BY <1>1, <2>3 DEF IsInfo
  <2> HIDE DEF x, y
  <2>5. a.info[1] = c
    BY <1>1, <2>2 DEF Mapped
  <2>6. Len(w.info) = 1 /\ 1 \in DOMAIN w.info /\ 1 \in DOMAIN s.info
    BY <2>2, <2>4
  <2> HIDE DEF c
  <2> QED BY <2>1, <2>3, <2>5, <2>6
<1>5. IsServiceInfo(x) /\ IsServiceInfo(y) /\ InfoGrows(c, y)
  BY <1>1, <1>2, <1>3, <1>4 DEF IsInfo, Both
<1>6. /\ \A n \in DOMAIN x.comps : OneQos(x.comps[n])
      /\ \A n \in DOMAIN y.comps : OneQos(y.comps[n])
  BY <1>4 DEF OneOfThree, Expressible, OneQos
<1>7. \A n \in DOMAIN x.comps \cap DOMAIN y.comps :
        LET v == x.comps[n]
            u == y.comps[n]
        IN /\ Both(v.qosRef, u.qosRef, LAMBDA p, q : p = q)
           /\ Both(v.qos, u.qos, LAMBDA p, q : p.arp = q.arp /\ p.fiveQi = q.fiveQi)
           /\ Both(v.media, u.media, LAMBDA p, q : Codecs(p) = <<>> => Codecs(q) = <<>>)
  BY <1>3, <1>4 DEF Expressible, CommonComps, Both
<1> HIDE DEF x, y
<1>8. c.comps = [n \in DOMAIN x.comps |-> CompCopy(x.comps[n])]
  BY <1>5, InfoCopyIs
<1> HIDE DEF c
<1>9. ASSUME NEW n \in DOMAIN c.comps PROVE CompFits(c.comps[n], y.comps[n])
  <2> DEFINE v == x.comps[n]
             u == y.comps[n]
  <2>1. /\ n \in DOMAIN x.comps \cap DOMAIN y.comps /\ c.comps[n] = CompCopy(v)
        /\ v \in CompType /\ u \in CompType /\ CompGrows(CompCopy(v), u)
    BY <1>5, <1>8 DEF IsServiceInfo, InfoGrows
  <2>2. OneQos(v) /\ OneQos(u)
    BY <1>6, <2>1
  <2>3. /\ Len(v.qosRef) = 1 /\ Len(u.qosRef) = 1 => v.qosRef[1] = u.qosRef[1]
        /\ Len(v.qos) = 1 /\ Len(u.qos) = 1 => QosFits(v.qos[1], u.qos[1])
        /\ Len(v.media) = 1 /\ Len(u.media) = 1
             => (Codecs(v.media[1]) = <<>> => Codecs(u.media[1]) = <<>>)
    BY <1>7, <2>1 DEF Both, QosFits
  <2> HIDE DEF v, u
  <2>4. OneQos(CompCopy(v))
    BY <2>1, <2>2, CompCopyIs DEF OneQos
  <2>5. /\ Both(CompCopy(v).qosRef, u.qosRef, LAMBDA p, q : p = q)
        /\ Both(CompCopy(v).qos, u.qos, QosFits)
    BY <2>1, <2>3, CompCopyIs DEF Both
  <2>6. Both(CompCopy(v).media, u.media, MediaFits)
    <3> SUFFICES ASSUME Len(CompCopy(v).media) = 1, Len(u.media) = 1
                 PROVE  MediaFits(CompCopy(v).media[1], u.media[1])
      BY DEF Both
    <3>1. Len(v.media) = 1 /\ CompCopy(v).media[1] = MediaInfoCopy(v.media[1])
      BY <2>1, CompCopyIs
    <3>2. v.media[1] \in MediaInfoType
      BY <2>1, <3>1, CompTyped, OptIs
    <3>3. Codecs(MediaInfoCopy(v.media[1])) = Codecs(v.media[1])
      BY <3>2, CodecsCopied
    <3>4. MediaGrows(CompCopy(v).media[1], u.media[1])
      BY <2>1 DEF CompGrows, Both
    <3> QED BY <2>3, <3>1, <3>3, <3>4 DEF MediaFits, MediaGrows
  <2>7. CompFits(CompCopy(v), u)
    BY <2>1, <2>2, <2>4, <2>5, <2>6 DEF CompFits
  <2> QED BY <2>1, <2>7 DEF u
<1> QED BY <1>4, <1>5, <1>9 DEF InfoFits, y

-----------------------------------------------------------------------------
(* The session as a whole *)

(* A filled session as an object, with the parts that SessionDoc leaves out. *)
SessForm(s) ==
    [dnn |-> <<s.dnn>>, mbsServiceArea |-> Mapped(s.area, AreaDoc),
     extMbsServiceArea |-> Mapped(s.ext, FullExt),
     mbsServInfo |-> Mapped(s.info, ServiceInfoDoc), activityStatus |-> s.status,
     mbsFsaIdList |-> NonEmpty(Mapped(s.fsas, FsaDoc))]

SessNames == {"dnn", "mbsServiceArea", "extMbsServiceArea", "mbsServInfo",
              "activityStatus", "mbsFsaIdList"}

LEMMA SessFields ==
    ASSUME NEW s
    PROVE  /\ IsObject(SessForm(s)) /\ DOMAIN SessForm(s) = SessNames
           /\ SessForm(s)["dnn"] = <<s.dnn>>
           /\ SessForm(s)["mbsServiceArea"] = Mapped(s.area, AreaDoc)
           /\ SessForm(s)["extMbsServiceArea"] = Mapped(s.ext, FullExt)
           /\ SessForm(s)["mbsServInfo"] = Mapped(s.info, ServiceInfoDoc)
           /\ SessForm(s)["activityStatus"] = s.status
           /\ SessForm(s)["mbsFsaIdList"] = NonEmpty(Mapped(s.fsas, FsaDoc))
  BY DEF SessForm, SessNames, IsObject

LEMMA MappedOpt ==
    /\ \A S : \A a \in Optional(S) : IsOpt(Mapped(a, AreaDoc)) /\ IsOpt(Mapped(a, FullExt))
    /\ \A a : IsInfo(a) => IsOpt(Mapped(a, ServiceInfoDoc))
<1>1. ASSUME NEW a, IsOpt(a)
      PROVE  IsOpt(Mapped(a, AreaDoc)) /\ IsOpt(Mapped(a, FullExt))
             /\ IsOpt(Mapped(a, ServiceInfoDoc))
  BY <1>1 DEF IsOpt, Mapped
<1>2. \A a : IsInfo(a) => IsOpt(a)
  BY DEF IsInfo, IsOpt
<1> QED BY <1>1, <1>2, OptMapped

LEMMA SessOpts ==
    ASSUME NEW s, IsSession(s)
    PROVE  /\ IsOpt(Mapped(s.area, AreaDoc)) /\ IsOpt(Mapped(s.ext, FullExt))
           /\ IsOpt(Mapped(s.info, ServiceInfoDoc)) /\ IsOpt(s.status)
           /\ IsOpt(NonEmpty(Mapped(s.fsas, FsaDoc)))
  BY FieldsOf, MappedOpt, OptMapped, NonEmptyOpt

LEMMA SessFormIs ==
    ASSUME NEW s, IsSession(s)
    PROVE  IsForm(SessForm(s))
<1>1. IsOpt(<<s.dnn>>)
  BY DEF IsOpt
<1> DEFINE f == SessForm(s)
<1>2. \A n \in DOMAIN f : IsOpt(f[n])
  <2> TAKE n \in DOMAIN f
  <2> QED BY <1>1, SessFields, SessOpts DEF SessNames
<1>3. IsObject(f)
  BY SessFields
<1> HIDE DEF f
<1>4. IsForm(f)
  BY <1>2, <1>3 DEF IsForm, IsOpt
<1> QED BY <1>4 DEF f

(* A filled area is not left out. *)
LEMMA FilledArea ==
    ASSUME NEW s, IsSession(s), Filled(s), NEW i \in DOMAIN s.area
    PROVE  Len(s.area[i].ncgiTais) + Len(s.area[i].tais) # 0
<1> DEFINE x == s.area[i]
<1>1. x \in AreaType
  BY FieldsOf DEF Optional
<1>2. Len(x.tais) + Len(x.ncgiTais) > 0
  BY Zenon DEF Filled
<1> HIDE DEF x
<1>3. x.ncgiTais \in Seq(NcgiTaiType) /\ x.tais \in Seq(TaiType)
  BY <1>1 DEF AreaType
<1> DEFINE m == Len(x.tais)
           n == Len(x.ncgiTais)
<1>4. m \in Nat /\ n \in Nat
  BY <1>3
<1>5. m + n > 0
  BY <1>2, Zenon
<1> HIDE DEF m, n
<1>6. n + m # 0
  BY <1>4, <1>5
<1> QED BY <1>6 DEF m, n, x

LEMMA FilledExt ==
    ASSUME NEW s, IsSession(s), Filled(s), NEW i \in DOMAIN s.ext
    PROVE  Len(s.ext[i].geos) + Len(s.ext[i].civics) # 0
<1> DEFINE x == s.ext[i]
<1>1. x \in ExtAreaType
  BY FieldsOf DEF Optional
<1>2. Len(x.civics) > 0
  BY Zenon DEF Filled
<1> HIDE DEF x
<1>3. x.geos \in Seq(PointType) /\ x.civics \in Seq(CivicType)
  BY <1>1 DEF ExtAreaType
<1> DEFINE m == Len(x.geos)
           n == Len(x.civics)
<1>4. m \in Nat /\ n \in Nat
  BY <1>3
<1>5. n > 0
  BY <1>2, Zenon
<1> HIDE DEF m, n
<1>6. m + n # 0
  BY <1>4, <1>5
<1> QED BY <1>6 DEF m, n, x

(* Without geographic areas, the body of the creation says all. *)
LEMMA CreatedForm ==
    ASSUME NEW s, IsSession(s), Filled(s), \A i \in DOMAIN s.ext : Len(s.ext[i].geos) = 0
    PROVE  SessionDoc(s) = Obj(SessForm(s))
<1>1. s.area \in Seq(AreaType) /\ s.ext \in Seq(ExtAreaType)
  BY FieldsOf DEF Optional
<1>2. ~\E i \in DOMAIN s.area : Len(s.area[i].ncgiTais) + Len(s.area[i].tais) = 0
  BY FilledArea
<1>3. ~\E i \in DOMAIN s.ext : Len(s.ext[i].geos) + Len(s.ext[i].civics) = 0
  BY FilledExt
<1>4. Mapped(s.ext, ExtAreaDoc) = Mapped(s.ext, FullExt)
  <2>1. \A i \in DOMAIN s.ext : ExtAreaDoc(s.ext[i]) = FullExt(s.ext[i])
    <3> TAKE i \in DOMAIN s.ext
    <3>1. s.ext[i] \in ExtAreaType /\ Len(s.ext[i].geos) = 0
      BY <1>1
    <3> QED BY <3>1, FullExtIs
  <2> QED BY <2>1 DEF Mapped
<1>5. SessForm(s) = [dnn |-> <<s.dnn>>, mbsServiceArea |-> Mapped(s.area, AreaDoc),
                     extMbsServiceArea |-> Mapped(s.ext, ExtAreaDoc),
                     mbsServInfo |-> Mapped(s.info, ServiceInfoDoc), activityStatus |-> s.status,
                     mbsFsaIdList |-> NonEmpty(FsasDoc(s.fsas))]
  BY <1>4 DEF SessForm, FsasDoc
<1> QED BY <1>2, <1>3, <1>5 DEF SessionDoc

(* What ExtAreaDoc leaves out, put back. *)
LEMMA AllExtIs ==
    ASSUME NEW ext \in ExtAreaType
    PROVE  [n \in DOMAIN ExtAreaDoc(ext) \cup IF ext.geos = <<>>
           THEN {} ELSE {"geographicAreaList"} |->
               IF n \in {"geographicAreaList"} THEN GeosDoc(ext.geos) ELSE ExtAreaDoc(ext)[n]]
             = FullExt(ext)
<1> DEFINE f == ExtForm(ext)
           g == "geographicAreaList"
           c == "civicAddressList"
           e == [civicAddressList |-> NonEmpty(CivicsDoc(ext.civics))]
           d == ExtAreaDoc(ext)
<1>1. /\ DOMAIN f = {g, c} /\ DOMAIN e = {c} /\ f[c] = e[c]
      /\ f[g] = NonEmpty(Mapped(ext.geos, GeoDoc)) /\ g # c
  BY DEF ExtForm, CivicsDoc
<1>2. f[g] = IF ext.geos = <<>> THEN <<>> ELSE <<GeosDoc(ext.geos)>>
  <2>1. ext.geos \in Seq(PointType)
    BY DEF ExtAreaType
  <2>2. Len(Mapped(ext.geos, GeoDoc)) = Len(ext.geos) /\ (Len(ext.geos) = 0 <=> ext.geos = <<>>)
    BY <2>1 DEF Mapped
  <2> HIDE DEF f
  <2> QED BY <1>1, <2>2 DEF NonEmpty, GeosDoc
<1>3. \A v : Len(<<>>) # 1 /\ Len(<<v>>) = 1 /\ <<v>>[1] = v
  OBVIOUS
<1>4. d = Obj(e) /\ FullExt(ext) = Obj(f)
  BY DEF ExtAreaDoc, FullExt
<1> HIDE DEF e, f, d, g, c
<1>5. /\ DOMAIN Obj(f) = DOMAIN d \cup IF ext.geos = <<>> THEN {} ELSE {g}
      /\ \A n \in DOMAIN Obj(f) : Obj(f)[n] = IF n \in {g} THEN GeosDoc(ext.geos) ELSE d[n]
  <2>1. DOMAIN d = {n \in {c} : Len(e[n]) = 1} /\ \A n \in DOMAIN d : d[n] = e[n][1]
    BY <1>1, <1>4 DEF Obj
  <2>2. DOMAIN Obj(f) = {n \in {g, c} : Len(f[n]) = 1}
        /\ \A n \in DOMAIN Obj(f) : Obj(f)[n] = f[n][1]
    BY <1>1 DEF Obj
  <2>3. Len(f[g]) = 1 <=> ext.geos # <<>>
    BY <1>2, <1>3
  <2>4. ext.geos # <<>> => f[g][1] = GeosDoc(ext.geos)
    BY <1>2, <1>3
  <2> QED BY <1>1, <2>1, <2>2, <2>3, <2>4
<1>6. Obj(f) = [n \in DOMAIN Obj(f) |-> Obj(f)[n]]
  BY DEF Obj
<1> QED BY <1>4, <1>5, <1>6 DEF d, g

LEMMA WantedForm ==
    ASSUME NEW s, IsSession(s), Filled(s)
    PROVE  Wanted(s) = Obj(SessForm(s))
<1> DEFINE x == "extMbsServiceArea"
           f == SessForm(s)
           e == [f EXCEPT ![x] = Mapped(s.ext, ExtAreaDoc)]
<1>1. s.area \in Seq(AreaType) /\ s.ext \in Optional(ExtAreaType)
  BY FieldsOf DEF Optional
<1>2. SessionDoc(s) = Obj(e)
  <2>1. ~\E i \in DOMAIN s.area : Len(s.area[i].ncgiTais) + Len(s.area[i].tais) = 0
    BY FilledArea
  <2>2. ~\E i \in DOMAIN s.ext : Len(s.ext[i].geos) + Len(s.ext[i].civics) = 0
    BY FilledExt
  <2>3. e = [dnn |-> <<s.dnn>>, mbsServiceArea |-> Mapped(s.area, AreaDoc),
             extMbsServiceArea |-> Mapped(s.ext, ExtAreaDoc),
             mbsServInfo |-> Mapped(s.info, ServiceInfoDoc), activityStatus |-> s.status,
             mbsFsaIdList |-> NonEmpty(FsasDoc(s.fsas))]
    BY DEF SessForm, FsasDoc
  <2> QED BY <2>1, <2>2, <2>3 DEF SessionDoc
<1>3. /\ DOMAIN e = DOMAIN f /\ x \in DOMAIN f
      /\ e[x] = Mapped(s.ext, ExtAreaDoc) /\ f[x] = Mapped(s.ext, FullExt)
      /\ \A n \in DOMAIN f : n # x => e[n] = f[n]
  BY DEF SessForm
<1> HIDE DEF e, f
<1>4. Len(e[x]) = Len(f[x])
      /\ (Len(f[x]) = 1 => s.ext[1] \in ExtAreaType /\ f[x][1] = FullExt(s.ext[1]))
  <2>1. CASE Len(s.ext) = 0
    <3>1. s.ext = <<>>
      BY <1>1, <2>1, OptIs
    <3>2. Mapped(<<>>, ExtAreaDoc) = <<>> /\ Mapped(<<>>, FullExt) = <<>> /\ Len(<<>>) # 1
      BY DEF Mapped
    <3> QED BY <1>3, <3>1, <3>2
  <2>2. CASE Len(s.ext) # 0
    <3> DEFINE v == s.ext[1]
    <3>1. s.ext = <<v>> /\ v \in ExtAreaType
      BY <1>1, <2>2, OptIs
    <3> HIDE DEF v
    <3>2. Mapped(<<v>>, ExtAreaDoc) = <<ExtAreaDoc(v)>> /\ Mapped(<<v>>, FullExt) = <<FullExt(v)>>
      BY DEF Mapped
    <3>3. e[x] = <<ExtAreaDoc(v)>> /\ f[x] = <<FullExt(v)>>
      BY <1>3, <3>1, <3>2
    <3>4. Len(e[x]) = 1 /\ Len(f[x]) = 1 /\ f[x][1] = FullExt(v)
      BY <3>3
    <3> QED BY <3>1, <3>4 DEF v
  <2> QED BY <2>1, <2>2
<1>5. /\ DOMAIN Obj(e) = {n \in DOMAIN f : Len(f[n]) = 1} /\ DOMAIN Obj(f) = DOMAIN Obj(e)
      /\ \A n \in DOMAIN Obj(f) : n # x => Obj(f)[n] = Obj(e)[n]
      /\ x \in DOMAIN Obj(f) => Obj(f)[x] = FullExt(s.ext[1]) /\ s.ext[1] \in ExtAreaType
  BY <1>3, <1>4 DEF Obj
<1>6. Obj(f) = [n \in DOMAIN Obj(f) |-> Obj(f)[n]]
  BY DEF Obj
<1> DEFINE d == Obj(e)
           k == [m \in DOMAIN ExtAreaDoc(s.ext[1]) \cup IF s.ext[1].geos = <<>>
                THEN {} ELSE {"geographicAreaList"} |->
                    IF m \in {"geographicAreaList"}
                      THEN GeosDoc(s.ext[1].geos) ELSE ExtAreaDoc(s.ext[1])[m]]
<1> HIDE DEF d
<1>7. Wanted(s) = [n \in DOMAIN d |-> IF n = x THEN k ELSE d[n]]
  BY <1>2, Zenon DEF Wanted, d
<1>8. x \in DOMAIN d => k = FullExt(s.ext[1])
  BY <1>5, AllExtIs DEF d
<1> HIDE DEF k
<1>9. Wanted(s) = [n \in DOMAIN Obj(f) |-> Obj(f)[n]]
  BY <1>5, <1>7, <1>8 DEF d
<1> QED BY <1>6, <1>9 DEF f

(* The parts of the update of a session w to s. *)
Updates(w, s) ==
    /\ IsSession(w) /\ Untimed(w) /\ Filled(w) /\ OneOfThree(w)
    /\ IsSession(s) /\ s.type = w.type
    /\ Noticed(w, s) /\ Expressible(w, s) /\ Kept(w, s)

LEMMA CopyFields ==
    ASSUME NEW w, IsSession(w)
    PROVE  /\ PublicCopy(w).type = w.type /\ PublicCopy(w).contact = w.contact
           /\ PublicCopy(w).status = w.status /\ PublicCopy(w).fsas = w.fsas
           /\ PublicCopy(w).area = Mapped(w.area, AreaCopy)
           /\ PublicCopy(w).ext = Mapped(w.ext, ExtAreaCopy)
           /\ PublicCopy(w).info = Mapped(w.info, ServiceInfoCopy)
  BY FieldsOf, FsasCopied DEF PublicCopy, IsSession, FieldNames

LEMMA AreaMoves ==
    ASSUME NEW w, NEW s, Updates(w, s)
    PROVE  Moves(AppendList(AreaPatch(PublicCopy(w).area, s.area), "mbsServiceArea"),
                 "mbsServiceArea", Mapped(w.area, AreaDoc), Mapped(s.area, AreaDoc))
<1> DEFINE a == PublicCopy(w)
<1>1. SessionGrows(a, s) /\ IsSession(a)
  BY KeptOfCopy, CopyTyped DEF Updates
<1>2. w.area \in Optional(AreaType) /\ s.area \in Optional(AreaType)
      /\ a.area \in Optional(AreaType)
  BY <1>1, FieldsOf DEF Updates
<1>3. a.area = Mapped(w.area, AreaCopy)
  BY CopyFields DEF Updates
<1> HIDE DEF a
<1>4. Both(w.area, s.area, AreaFits)
  BY DEF Updates, Kept, Noticed, Both, AreaFits, AreaGrows
<1>5. Puts(AreaPatch(a.area, s.area), Mapped(w.area, AreaDoc), Mapped(s.area, AreaDoc))
  BY <1>2, <1>3, <1>4, AreaPuts
<1>6. Valued(AreaPatch(a.area, s.area))
  BY <1>1, <1>2, AreaValued DEF SessionGrows
<1> QED BY <1>5, <1>6, PartMoves DEF a

LEMMA ExtMoves ==
    ASSUME NEW w, NEW s, Updates(w, s)
    PROVE  Moves(AppendList(ExtAreaPatch(PublicCopy(w).ext, s.ext), "extMbsServiceArea"),
                 "extMbsServiceArea", Mapped(w.ext, FullExt), Mapped(s.ext, FullExt))
<1> DEFINE a == PublicCopy(w)
<1>1. SessionGrows(a, s) /\ IsSession(a)
  BY KeptOfCopy, CopyTyped DEF Updates
<1>2. w.ext \in Optional(ExtAreaType) /\ s.ext \in Optional(ExtAreaType)
  BY FieldsOf DEF Updates
<1>3. a.ext = w.ext
  <2>1. a.ext = Mapped(w.ext, ExtAreaCopy)
    BY CopyFields DEF Updates
  <2>2. \A i \in DOMAIN w.ext : ExtAreaCopy(w.ext[i]) = w.ext[i]
    <3> TAKE i \in DOMAIN w.ext
    <3> DEFINE x == w.ext[i]
    <3>1. x \in ExtAreaType /\ Len(x.geos) = 0
      BY <1>2 DEF Updates, Untimed, Optional
    <3> HIDE DEF x
    <3>2. x.geos = <<>> /\ x.civics \in Seq(CivicType) /\ x = [geos |-> x.geos, civics |-> x.civics]
      BY <3>1 DEF ExtAreaType
    <3>3. GeosCopy(<<>>) = <<>>
      BY DEF GeosCopy, Mapped
    <3>4. ExtAreaCopy(x) = x
      BY <3>2, <3>3, CivicsCopied DEF ExtAreaCopy
    <3> QED BY <3>4 DEF x
  <2> HIDE DEF a
  <2> QED BY <1>2, <2>1, <2>2 DEF Mapped, Optional
<1> HIDE DEF a
<1>4. Len(a.ext) = 0 => \A i \in DOMAIN s.ext : Len(s.ext[i].geos) = 0
  BY <1>3 DEF Updates, Expressible
<1>5. Puts(ExtAreaPatch(a.ext, s.ext), Mapped(w.ext, FullExt), Mapped(s.ext, FullExt))
  BY <1>1, <1>2, <1>3, <1>4, ExtAreaPuts DEF SessionGrows
<1>6. Valued(ExtAreaPatch(a.ext, s.ext))
  BY <1>1, <1>2, <1>3, ExtAreaValued DEF SessionGrows
<1> QED BY <1>5, <1>6, PartMoves DEF a

LEMMA InfoMoves ==
    ASSUME NEW w, NEW s, Updates(w, s)
    PROVE  Moves(AppendList(ServiceInfoPatch(PublicCopy(w).info, s.info), "mbsServInfo"),
                 "mbsServInfo", Mapped(w.info, ServiceInfoDoc), Mapped(s.info, ServiceInfoDoc))
<1> DEFINE a == PublicCopy(w)
<1>1. SessionGrows(a, s) /\ IsSession(a)
  BY KeptOfCopy, CopyTyped DEF Updates
<1>2. IsInfo(w.info) /\ IsInfo(s.info) /\ IsInfo(a.info)
  BY <1>1, FieldsOf DEF Updates
<1>3. Both(a.info, s.info, InfoFits)
  BY InfoFitsOfCopy DEF Updates
<1>4. a.info = Mapped(w.info, ServiceInfoCopy)
  BY CopyFields DEF Updates
<1> HIDE DEF a
<1>5. Mapped(a.info, ServiceInfoDoc) = Mapped(w.info, ServiceInfoDoc)
  <2>1. CASE w.info = <<>>
    BY <1>4, <2>1 DEF Mapped
  <2>2. CASE w.info # <<>>
    <3> DEFINE x == w.info[1]
    <3>1. w.info = <<x>> /\ IsServiceInfo(x)
      BY <1>2, <2>2 DEF IsInfo
    <3> HIDE DEF x
    <3>2. Mapped(<<x>>, ServiceInfoCopy) = <<ServiceInfoCopy(x)>>
      BY DEF Mapped
    <3>3. \A v : Mapped(<<v>>, ServiceInfoDoc) = <<ServiceInfoDoc(v)>>
      BY DEF Mapped
    <3> QED BY <1>4, <3>1, <3>2, <3>3, InfoDocOfCopy
  <2> QED BY <2>1, <2>2
<1>6. Puts(ServiceInfoPatch(a.info, s.info), Mapped(a.info, ServiceInfoDoc),
      Mapped(s.info, ServiceInfoDoc))
  BY <1>2, <1>3, InfoPuts
<1>7. Valued(ServiceInfoPatch(a.info, s.info))
  BY <1>1, <1>2, ServiceInfoValued DEF SessionGrows
<1> QED BY <1>5, <1>6, <1>7, PartMoves DEF a

LEMMA FsasMoves ==
    ASSUME NEW w, NEW s, Updates(w, s), w.type = "broadcast"
    PROVE  Moves(AppendList(FsasPatch(PublicCopy(w).fsas, s.fsas), "mbsFsaIdList"),
                 "mbsFsaIdList", NonEmpty(Mapped(w.fsas, FsaDoc)), NonEmpty(Mapped(s.fsas, FsaDoc)))
<1>1. w.fsas \in Seq(STRING) /\ s.fsas \in Seq(STRING) /\ PublicCopy(w).fsas = w.fsas
  BY FieldsOf, CopyFields DEF Updates
<1>2. Len(w.fsas) <= Len(s.fsas)
  BY DEF Updates, Kept
<1>3. Valued(FsasPatch(w.fsas, s.fsas))
  BY <1>1, <1>2, FsasValued
<1>4. Puts(FsasPatch(w.fsas, s.fsas), NonEmpty(Mapped(w.fsas, FsaDoc)),
      NonEmpty(Mapped(s.fsas, FsaDoc)))
  BY <1>1, FsasPuts
<1> QED BY <1>1, <1>3, <1>4, PartMoves

(* What the MB-SMF holds after the update: what s asks for, except for the    *)
(* attributes that are not updated.                                           *)
UpdatedForm(w, s) ==
    [dnn |-> <<w.dnn>>, mbsServiceArea |-> Mapped(s.area, AreaDoc),
     extMbsServiceArea |-> Mapped(s.ext, FullExt),
     mbsServInfo |-> Mapped(s.info, ServiceInfoDoc),
     activityStatus |-> IF w.type = "broadcast" THEN w.status ELSE s.status,
     mbsFsaIdList |-> NonEmpty(Mapped(IF w.type = "broadcast" THEN s.fsas ELSE w.fsas, FsaDoc))]

LEMMA UpdateLeads ==
    ASSUME NEW w, NEW s, Updates(w, s)
    PROVE  Patched(SessionDoc(w), PublicPatch(PublicCopy(w), s)) = <<Obj(UpdatedForm(w, s))>>
<1> DEFINE a == PublicCopy(w)
           p == AppendList(AreaPatch(a.area, s.area), "mbsServiceArea")
           q == AppendList(ExtAreaPatch(a.ext, s.ext), "extMbsServiceArea")
           r == AppendList(ServiceInfoPatch(a.info, s.info), "mbsServInfo")
           t == AppendList(FsasPatch(a.fsas, s.fsas), "mbsFsaIdList")
           u == OptPatch("activityStatus", a.status, s.status)
           e == SessForm(w)
           f == [e EXCEPT !["mbsServiceArea"] = Mapped(s.area, AreaDoc)]
           g == [f EXCEPT !["extMbsServiceArea"] = Mapped(s.ext, FullExt)]
           h == [g EXCEPT !["mbsServInfo"] = Mapped(s.info, ServiceInfoDoc)]
           k == [h EXCEPT !["mbsFsaIdList"] = NonEmpty(Mapped(s.fsas, FsaDoc))]
           l == [h EXCEPT !["activityStatus"] = s.status]
<1>1. IsSession(w) /\ IsSession(s) /\ IsForm(e) /\ SessionDoc(w) = Obj(e)
  BY SessFormIs, CreatedForm DEF Updates, Untimed
<1>2. /\ DOMAIN e = SessNames /\ DOMAIN f = DOMAIN e /\ DOMAIN g = DOMAIN e /\ DOMAIN h = DOMAIN e
      /\ e["mbsServiceArea"] = Mapped(w.area, AreaDoc)
         /\ f["extMbsServiceArea"] = Mapped(w.ext, FullExt)
      /\ g["mbsServInfo"] = Mapped(w.info, ServiceInfoDoc) /\ h["activityStatus"] = w.status
      /\ h["mbsFsaIdList"] = NonEmpty(Mapped(w.fsas, FsaDoc))
  BY DEF SessForm, SessNames
<1>3. /\ w.type = "broadcast" => k = UpdatedForm(w, s)
      /\ w.type # "broadcast" => l = UpdatedForm(w, s)
  <2> DEFINE A == Mapped(s.area, AreaDoc)
             E == Mapped(s.ext, FullExt)
             I == Mapped(s.info, ServiceInfoDoc)
             F(v) == NonEmpty(Mapped(v, FsaDoc))
  <2>1. CASE w.type = "broadcast"
    <3>1. UpdatedForm(w, s) = [dnn |-> <<w.dnn>>, mbsServiceArea |-> A, extMbsServiceArea |-> E,
                               mbsServInfo |-> I, activityStatus |-> w.status,
                               mbsFsaIdList |-> F(s.fsas)]
      BY <2>1 DEF UpdatedForm
    <3> HIDE DEF A, E, I, F
    <3>2. k = [dnn |-> <<w.dnn>>, mbsServiceArea |-> A, extMbsServiceArea |-> E,
               mbsServInfo |-> I, activityStatus |-> w.status, mbsFsaIdList |-> F(s.fsas)]
      BY DEF SessForm, A, E, I, F
    <3> QED BY <2>1, <3>1, <3>2
  <2>2. CASE w.type # "broadcast"
    <3>1. UpdatedForm(w, s) = [dnn |-> <<w.dnn>>, mbsServiceArea |-> A, extMbsServiceArea |-> E,
                               mbsServInfo |-> I, activityStatus |-> s.status,
                               mbsFsaIdList |-> F(w.fsas)]
      BY <2>2 DEF UpdatedForm
    <3> HIDE DEF A, E, I, F
    <3>2. l = [dnn |-> <<w.dnn>>, mbsServiceArea |-> A, extMbsServiceArea |-> E,
               mbsServInfo |-> I, activityStatus |-> s.status, mbsFsaIdList |-> F(w.fsas)]
      BY DEF SessForm, A, E, I, F
    <3> QED BY <2>2, <3>1, <3>2
  <2> QED BY <2>1, <2>2
<1>4. Moves(p, "mbsServiceArea", Mapped(w.area, AreaDoc), Mapped(s.area, AreaDoc))
  BY AreaMoves
<1>5. Moves(q, "extMbsServiceArea", Mapped(w.ext, FullExt), Mapped(s.ext, FullExt))
  BY ExtMoves
<1>6. Moves(r, "mbsServInfo", Mapped(w.info, ServiceInfoDoc), Mapped(s.info, ServiceInfoDoc))
  BY InfoMoves
<1>7. w.type = "broadcast" =>
        Moves(t, "mbsFsaIdList", NonEmpty(Mapped(w.fsas, FsaDoc)), NonEmpty(Mapped(s.fsas, FsaDoc)))
  BY FsasMoves
<1>8. a.type = w.type /\ a.status = w.status /\ a.contact = s.contact
  BY CopyFields DEF Updates, Expressible
<1>9. Moves(u, "activityStatus", w.status, s.status)
  <2>1. w.status \in Optional(STRING) /\ s.status \in Optional(STRING)
    BY <1>1, FieldsOf
  <2> HIDE DEF a
  <2> QED BY <1>8, <2>1, MovesOpt
<1> HIDE DEF a
<1>10. PublicPatch(a, s) = <<>> \o p \o q \o r \o IF a.type = "broadcast" THEN t ELSE u
  BY <1>8, LeafNothing DEF PublicPatch
<1> HIDE DEF p, q, r, t, u, e, f, g, h, k, l
<1>11. SessNames = {"dnn", "mbsServiceArea", "extMbsServiceArea", "mbsServInfo",
                    "activityStatus", "mbsFsaIdList"}
  BY DEF SessNames
<1>12. Makes(Obj(e), <<>>, e)
  BY <1>1, ItemsNone, PatchedNone DEF Makes
<1>13. Makes(Obj(e), <<>> \o p, f)
  BY <1>1, <1>2, <1>4, <1>11, <1>12, SessOpts, MakesThen DEF IsOpt, f
<1>14. Makes(Obj(e), <<>> \o p \o q, g)
  BY <1>1, <1>2, <1>5, <1>11, <1>13, SessOpts, MakesThen DEF IsOpt, g
<1>15. Makes(Obj(e), <<>> \o p \o q \o r, h)
  BY <1>1, <1>2, <1>6, <1>11, <1>14, SessOpts, MakesThen DEF IsOpt, h
<1>16. w.type = "broadcast" => Makes(Obj(e), <<>> \o p \o q \o r \o t, k)
  BY <1>1, <1>2, <1>7, <1>11, <1>15, SessOpts, MakesThen DEF IsOpt, k
<1>17. Makes(Obj(e), <<>> \o p \o q \o r \o u, l)
  BY <1>1, <1>2, <1>9, <1>11, <1>15, SessOpts, MakesThen DEF IsOpt, l
<1>18. CASE w.type = "broadcast"
  BY <1>1, <1>3, <1>8, <1>10, <1>16, <1>18 DEF Makes, a
<1>19. CASE w.type # "broadcast"
  BY <1>1, <1>3, <1>8, <1>10, <1>17, <1>19 DEF Makes, a
<1> QED BY <1>18, <1>19

(* Documents that agree in all that an update may change. *)
UpdatableOf(type, d) ==
    LET fixed == {"dnn"} \cup (IF type = "broadcast" THEN {"activityStatus"} ELSE {"mbsFsaIdList"})
    IN [n \in DOMAIN d \ fixed |-> d[n]]

LEMMA UpdatableForm ==
    ASSUME NEW f, NEW g, NEW type, DOMAIN f = SessNames, DOMAIN g = SessNames,
           \A n \in SessNames \ ({"dnn"} \cup (IF type = "broadcast" THEN {"activityStatus"}
                                               ELSE {"mbsFsaIdList"})) : f[n] = g[n]
    PROVE  UpdatableOf(type, Obj(f)) = UpdatableOf(type, Obj(g))
<1> DEFINE fixed == {"dnn"} \cup (IF type = "broadcast" THEN {"activityStatus"}
                                  ELSE {"mbsFsaIdList"})
<1>1. \A n \in SessNames \ fixed : f[n] = g[n]
  OBVIOUS
<1>2. \A d : UpdatableOf(type, d) = [n \in DOMAIN d \ fixed |-> d[n]]
  BY DEF UpdatableOf
<1> HIDE DEF fixed
<1>3. DOMAIN Obj(f) \ fixed = DOMAIN Obj(g) \ fixed
  BY <1>1 DEF Obj
<1>4. \A n \in DOMAIN Obj(f) \ fixed : Obj(f)[n] = Obj(g)[n]
  BY <1>1 DEF Obj
<1>5. UpdatableOf(type, Obj(f)) = [n \in DOMAIN Obj(f) \ fixed |-> Obj(f)[n]]
      /\ UpdatableOf(type, Obj(g)) = [n \in DOMAIN Obj(g) \ fixed |-> Obj(g)[n]]
  BY <1>2
<1> DEFINE df == Obj(f)
           dg == Obj(g)
<1> HIDE DEF df, dg
<1>6. [n \in DOMAIN df \ fixed |-> df[n]] = [n \in DOMAIN dg \ fixed |-> dg[n]]
  BY <1>3, <1>4 DEF df, dg
<1> QED BY <1>5, <1>6 DEF df, dg

(* After the update the attributes that it may change are as wanted.        *)
LEMMA UpdateDone ==
    ASSUME NEW w, NEW s, Updates(w, s)
    PROVE  UpdatableOf(s.type, Obj(UpdatedForm(w, s))) = UpdatableOf(s.type, Wanted(s))
<1>1. Wanted(s) = Obj(SessForm(s))
  BY WantedForm DEF Updates, Expressible
<1>2. DOMAIN UpdatedForm(w, s) = SessNames /\ DOMAIN SessForm(s) = SessNames
  BY DEF UpdatedForm, SessForm, SessNames
<1>3. /\ UpdatedForm(w, s)["mbsServiceArea"] = SessForm(s)["mbsServiceArea"]
      /\ UpdatedForm(w, s)["extMbsServiceArea"] = SessForm(s)["extMbsServiceArea"]
      /\ UpdatedForm(w, s)["mbsServInfo"] = SessForm(s)["mbsServInfo"]
  BY DEF UpdatedForm, SessForm
<1>4. /\ s.type = "broadcast" => UpdatedForm(w, s)["mbsFsaIdList"] = SessForm(s)["mbsFsaIdList"]
      /\ s.type # "broadcast" => UpdatedForm(w, s)["activityStatus"] = SessForm(s)["activityStatus"]
  BY DEF UpdatedForm, SessForm, Updates
<1>5. \A n \in SessNames \ ({"dnn"} \cup (IF s.type = "broadcast" THEN {"activityStatus"}
                                          ELSE {"mbsFsaIdList"})) :
        UpdatedForm(w, s)[n] = SessForm(s)[n]
  BY <1>3, <1>4 DEF SessNames
<1> QED BY <1>1, <1>2, <1>5, UpdatableForm

-----------------------------------------------------------------------------
(* Values between which the comparisons find no difference *)

LEMMA TaisAgree ==
    ASSUME NEW a \in Seq(TaiType), NEW b \in Seq(TaiType),
           SameEntries(a, b, TaiEqual), ~Reordered(a, b)
    PROVE  a = b
<1>1. \A x, y \in TaiType : TaiEqual(x, y) <=> x = y
  <2>1. \A x, y : TaiEqual(x, y) => TaiCopy(x) = TaiCopy(y)
    BY DEF TaiEqual, TaiCopy
  <2>2. \A x : TaiEqual(x, x)
    BY DEF TaiEqual
  <2> QED BY <2>1, <2>2, TaiCopied
<1>2. \A i \in DOMAIN a :
        /\ {j \in DOMAIN b : TaiEqual(a[i], b[j])} = {j \in DOMAIN b : a[i] = b[j]}
        /\ {j \in DOMAIN a : TaiEqual(a[i], a[j])} = {j \in DOMAIN a : a[i] = a[j]}
  BY <1>1
<1>3. /\ Len(a) = Len(b)
      /\ \A i \in DOMAIN a :
           /\ {j \in DOMAIN b : TaiEqual(a[i], b[j])} # {}
           /\ Cardinality({j \in DOMAIN a : TaiEqual(a[i], a[j])})
                = Cardinality({j \in DOMAIN b : TaiEqual(a[i], b[j])})
  BY DEF SameEntries
<1>4. \A i \in DOMAIN a :
        /\ {j \in DOMAIN b : a[i] = b[j]} # {}
        /\ Cardinality({j \in DOMAIN a : a[i] = a[j]}) = Cardinality({j \in DOMAIN b : a[i] = b[j]})
  BY <1>2, <1>3
<1> QED BY <1>3, <1>4 DEF Reordered, SameEntries

LEMMA CivicsAgree ==
    ASSUME NEW a \in Seq(CivicType), NEW b \in Seq(CivicType),
           SameEntries(a, b, CivicEqual), ~Reordered(a, b)
    PROVE  a = b
<1>1. \A x, y \in CivicType : CivicEqual(x, y) <=> x = y
  <2>1. \A x, y : CivicEqual(x, y) => CivicCopy(x) = CivicCopy(y)
    BY DEF CivicEqual, CivicCopy
  <2>2. \A x : CivicEqual(x, x)
    BY DEF CivicEqual
  <2> QED BY <2>1, <2>2, CivicCopied
<1>2. \A i \in DOMAIN a :
        /\ {j \in DOMAIN b : CivicEqual(a[i], b[j])} = {j \in DOMAIN b : a[i] = b[j]}
        /\ {j \in DOMAIN a : CivicEqual(a[i], a[j])} = {j \in DOMAIN a : a[i] = a[j]}
  BY <1>1
<1>3. /\ Len(a) = Len(b)
      /\ \A i \in DOMAIN a :
           /\ {j \in DOMAIN b : CivicEqual(a[i], b[j])} # {}
           /\ Cardinality({j \in DOMAIN a : CivicEqual(a[i], a[j])})
                = Cardinality({j \in DOMAIN b : CivicEqual(a[i], b[j])})
  BY DEF SameEntries
<1>4. \A i \in DOMAIN a :
        /\ {j \in DOMAIN b : a[i] = b[j]} # {}
        /\ Cardinality({j \in DOMAIN a : a[i] = a[j]}) = Cardinality({j \in DOMAIN b : a[i] = b[j]})
  BY <1>2, <1>3
<1> QED BY <1>3, <1>4 DEF Reordered, SameEntries

LEMMA TaisAre ==
    ASSUME NEW list \in Seq(NcgiTaiType)
    PROVE  /\ Tais(list) \in Seq(TaiType) /\ Len(Tais(list)) = Len(list)
           /\ \A i \in DOMAIN list : Tais(list)[i] = list[i].tai
<1>1. \A x \in NcgiTaiType : x.tai \in TaiType
  BY DEF NcgiTaiType
<1> QED BY <1>1 DEF Tais, Mapped

LEMMA NcgiTaiCopiesAre ==
    ASSUME NEW list \in Seq(NcgiTaiType)
    PROVE  /\ Mapped(list, NcgiTaiCopy) \in Seq(NcgiTaiType)
           /\ Len(Mapped(list, NcgiTaiCopy)) = Len(list)
           /\ \A i \in DOMAIN list : Mapped(list, NcgiTaiCopy)[i].tai = list[i].tai
<1>1. \A v \in NcgiTaiType : NcgiTaiCopy(v) \in NcgiTaiType /\ NcgiTaiCopy(v).tai = v.tai
  BY TaiCopied DEF NcgiTaiType, NcgiTaiCopy
<1> QED BY <1>1 DEF Mapped

(* Tracking areas with cells, of which the comparison sees the areas. *)
LEMMA NcgiTaisAgree ==
    ASSUME NEW a \in Seq(NcgiTaiType), NEW b \in Seq(NcgiTaiType),
           SameEntries(Mapped(a, NcgiTaiCopy), b, NcgiTaiEqual), ~Reordered(Tais(a), Tais(b)),
           \A i \in DOMAIN a \cap DOMAIN b : a[i].tai = b[i].tai => a[i] = b[i]
    PROVE  a = b
<1> DEFINE c == Mapped(a, NcgiTaiCopy)
           v == Tais(a)
           u == Tais(b)
<1>1. /\ c \in Seq(NcgiTaiType) /\ Len(c) = Len(a) /\ DOMAIN c = DOMAIN a
      /\ \A i \in DOMAIN a : c[i].tai = a[i].tai
  <2>1. c \in Seq(NcgiTaiType) /\ Len(c) = Len(a) /\ \A i \in DOMAIN a : c[i].tai = a[i].tai
    BY NcgiTaiCopiesAre
  <2> HIDE DEF c
  <2> QED BY <2>1
<1>2. /\ v \in Seq(TaiType) /\ u \in Seq(TaiType) /\ Len(v) = Len(a) /\ Len(u) = Len(b)
      /\ \A i \in DOMAIN a : v[i] = a[i].tai
      /\ \A i \in DOMAIN b : u[i] = b[i].tai
  BY TaisAre
<1>3. /\ Len(c) = Len(b)
      /\ \A i \in DOMAIN c :
           /\ {j \in DOMAIN b : NcgiTaiEqual(c[i], b[j])} # {}
           /\ Cardinality({j \in DOMAIN c : NcgiTaiEqual(c[i], c[j])})
                = Cardinality({j \in DOMAIN b : NcgiTaiEqual(c[i], b[j])})
  BY DEF SameEntries
<1> HIDE DEF c, v, u
<1>4. \A x, y \in NcgiTaiType : NcgiTaiEqual(x, y) <=> TaiEqual(x.tai, y.tai)
  BY DEF NcgiTaiEqual
<1>5. DOMAIN v = DOMAIN c /\ DOMAIN u = DOMAIN b
  BY <1>1, <1>2
<1>6. \A i \in DOMAIN c :
        /\ {j \in DOMAIN b : NcgiTaiEqual(c[i], b[j])} = {j \in DOMAIN u : TaiEqual(v[i], u[j])}
        /\ {j \in DOMAIN c : NcgiTaiEqual(c[i], c[j])} = {j \in DOMAIN v : TaiEqual(v[i], v[j])}
  <2> TAKE i \in DOMAIN c
  <2>1. \A j \in DOMAIN b : NcgiTaiEqual(c[i], b[j]) <=> TaiEqual(v[i], u[j])
    BY <1>1, <1>2, <1>4
  <2>2. \A j \in DOMAIN c : NcgiTaiEqual(c[i], c[j]) <=> TaiEqual(v[i], v[j])
    BY <1>1, <1>2, <1>4
  <2> QED BY <1>5, <2>1, <2>2
<1>7. SameEntries(v, u, TaiEqual)
  <2>1. Len(v) = Len(u)
    BY <1>1, <1>2, <1>3
  <2>2. \A i \in DOMAIN v :
           /\ {j \in DOMAIN u : TaiEqual(v[i], u[j])} # {}
           /\ Cardinality({j \in DOMAIN v : TaiEqual(v[i], v[j])})
                = Cardinality({j \in DOMAIN u : TaiEqual(v[i], u[j])})
    BY <1>3, <1>5, <1>6
  <2> QED BY <2>1, <2>2 DEF SameEntries
<1>8. v = u
  BY <1>2, <1>7, TaisAgree DEF v, u
<1>9. Len(a) = Len(b) /\ DOMAIN a = DOMAIN b
  BY <1>1, <1>2, <1>8
<1>10. \A i \in DOMAIN a : a[i] = b[i]
  BY <1>2, <1>8, <1>9
<1> QED BY <1>9, <1>10

LEMMA MediaAgree ==
    ASSUME NEW v \in MediaInfoType, NEW u \in MediaInfoType, MediaInfoEqual(MediaInfoCopy(v), u),
           Both(v.maxBw, u.maxBw, LAMBDA m, n : m = n), Both(v.minBw, u.minBw, LAMBDA m, n : m = n),
           ~Reordered(Codecs(v), Codecs(u))
    PROVE  MediaInfoDoc(v) = MediaInfoDoc(u)
<1> DEFINE c == MediaInfoCopy(v)
<1>1. /\ c.type = v.type /\ c.maxBw = v.maxBw /\ c.minBw = v.minBw /\ Codecs(c) = Codecs(v)
  BY CodecsCopied DEF MediaInfoCopy, MediaInfoType
<1> HIDE DEF c
<1>2. /\ v.type = u.type /\ Len(v.maxBw) = Len(u.maxBw) /\ Len(v.minBw) = Len(u.minBw)
      /\ SameEntries(Codecs(v), Codecs(u), LAMBDA x, y : x = y)
  BY <1>1 DEF MediaInfoEqual, c
<1>3. Codecs(v) = Codecs(u)
  BY <1>2 DEF Reordered
<1>4. \A x, y \in Optional(STRING) : Len(x) = Len(y) /\ Both(x, y, LAMBDA m, n : m = n) => x = y
  <2> SUFFICES ASSUME NEW x \in Optional(STRING), NEW y \in Optional(STRING), Len(x) = Len(y),
                      Both(x, y, LAMBDA m, n : m = n)
               PROVE  x = y
    OBVIOUS
  <2>1. CASE Len(x) = 0
    <3>1. x = <<>>
      BY <2>1, OptIs
    <3>2. y = <<>>
      BY <2>1, OptIs
    <3> QED BY <3>1, <3>2
  <2>2. CASE Len(x) # 0
    <3>1. Len(x) = 1 /\ Len(y) = 1 /\ x = <<x[1]>> /\ y = <<y[1]>>
      BY <2>2, OptIs
    <3>2. x[1] = y[1]
      BY <3>1 DEF Both
    <3> QED BY <3>1, <3>2
  <2> QED BY <2>1, <2>2
<1>5. v.maxBw = u.maxBw /\ v.minBw = u.minBw
  BY <1>2, <1>4 DEF MediaInfoType
<1> QED BY <1>2, <1>3, <1>5 DEF MediaInfoDoc

LEMMA QosAgree ==
    ASSUME NEW v \in QosReqType, NEW u \in QosReqType, QosReqEqual(v, u)
    PROVE  v = u
<1>1. v.fiveQi = u.fiveQi /\ v.guarBitRate = u.guarBitRate /\ v.maxBitRate = u.maxBitRate
  BY DEF QosReqEqual
<1>2. v.arp = u.arp
  <2>1. v.arp \in Optional(ArpType) /\ u.arp \in Optional(ArpType)
    BY DEF QosReqType
  <2>2. Len(v.arp) = Len(u.arp) /\ \A i \in DOMAIN v.arp : ArpEqual(v.arp[i], u.arp[i])
    BY DEF QosReqEqual, OptEqual
  <2>3. \A x, y \in ArpType : ArpEqual(x, y) => x = y
    BY DEF ArpType, ArpEqual
  <2>4. \A i \in DOMAIN v.arp : v.arp[i] = u.arp[i]
    BY <2>1, <2>2, <2>3 DEF Optional
  <2> QED BY <2>1, <2>2, <2>4 DEF Optional
<1> QED BY <1>1, <1>2 DEF QosReqType

(* What an update changes of a component without the comparison noticing. *)
CompNoticed(x, y) ==
    /\ Len(x.flows) = Len(y.flows) => x.flows = y.flows
    /\ Both(x.media, y.media,
            LAMBDA v, w : /\ Both(v.maxBw, w.maxBw, LAMBDA m, n : m = n)
                          /\ Both(v.minBw, w.minBw, LAMBDA m, n : m = n)
                          /\ ~Reordered(Codecs(v), Codecs(w)))

LEMMA CompAgree ==
    ASSUME NEW v \in CompType, NEW u \in CompType, OneQos(v), OneQos(u),
           CompEqual(CompCopy(v), u), CompNoticed(v, u)
    PROVE  CompDoc(v) = CompDoc(u)
<1> DEFINE c == CompCopy(v)
<1>1. /\ c.flows = v.flows /\ c.prio = v.prio /\ c.qosRef = v.qosRef /\ c.qos = v.qos
      /\ Len(c.media) = Len(v.media)
      /\ Len(v.media) = 1 => c.media[1] = MediaInfoCopy(v.media[1])
  BY CompCopyIs
<1> HIDE DEF c
<1>2. /\ v.prio = u.prio /\ v.qosRef = u.qosRef /\ Len(v.flows) = Len(u.flows)
      /\ OptEqual(c.media, u.media, MediaInfoEqual) /\ OptEqual(v.qos, u.qos, QosReqEqual)
  BY <1>1 DEF CompEqual, FlowsEqual, c
<1>3. v.flows = u.flows
  BY <1>2 DEF CompNoticed
<1>4. v.qos = u.qos
  <2>1. v.qos \in Optional(QosReqType) /\ u.qos \in Optional(QosReqType)
    BY CompTyped
  <2>2. Len(v.qos) = Len(u.qos) /\ \A i \in DOMAIN v.qos : QosReqEqual(v.qos[i], u.qos[i])
    BY <1>2 DEF OptEqual
  <2>3. \A i \in DOMAIN v.qos : v.qos[i] = u.qos[i]
    BY <2>1, <2>2, QosAgree DEF Optional
  <2> QED BY <2>1, <2>2, <2>3 DEF Optional
<1>5. Mapped(v.media, MediaInfoDoc) = Mapped(u.media, MediaInfoDoc)
  <2> DEFINE a == v.media
             b == u.media
  <2>1. a \in Optional(MediaInfoType) /\ b \in Optional(MediaInfoType)
    BY CompTyped
  <2>2. Len(a) = Len(b) /\ \A i \in DOMAIN c.media : MediaInfoEqual(c.media[i], b[i])
    BY <1>1, <1>2 DEF OptEqual
  <2>3. ASSUME Len(a) = 1 PROVE MediaInfoDoc(a[1]) = MediaInfoDoc(b[1])
    <3>1. a[1] \in MediaInfoType /\ b[1] \in MediaInfoType
      <4>1. \A e \in Optional(MediaInfoType) : Len(e) = 1 => e[1] \in MediaInfoType
        BY DEF Optional
      <4> QED BY <2>1, <2>2, <2>3, <4>1
    <3>2. 1 \in DOMAIN c.media
      <4>1. c.media = Mapped(v.media, MediaInfoCopy)
        BY CompCopyIs DEF c
      <4>2. 1 \in DOMAIN v.media
        BY <2>1, <2>3 DEF Optional
      <4> QED BY <4>1, <4>2 DEF Mapped
    <3>3. MediaInfoEqual(MediaInfoCopy(a[1]), b[1])
      BY <1>1, <2>2, <2>3, <3>2
    <3>4. /\ Both(a[1].maxBw, b[1].maxBw, LAMBDA m, n : m = n)
          /\ Both(a[1].minBw, b[1].minBw, LAMBDA m, n : m = n)
          /\ ~Reordered(Codecs(a[1]), Codecs(b[1]))
      BY <2>2, <2>3 DEF CompNoticed, Both
    <3> HIDE DEF a, b
    <3> QED BY <3>1, <3>3, <3>4, MediaAgree
  <2> HIDE DEF a, b
  <2>4. Mapped(a, MediaInfoDoc) = Mapped(b, MediaInfoDoc)
    <3>1. CASE Len(a) = 0
      <4>1. a = <<>>
        BY <2>1, <3>1, OptIs
      <4>2. b = <<>>
        BY <2>1, <2>2, <3>1, OptIs
      <4> QED BY <4>1, <4>2
    <3>2. CASE Len(a) # 0
      <4>1. Len(a) = 1 /\ a = <<a[1]>>
        BY <2>1, <3>2, OptIs
      <4>2. b = <<b[1]>>
        BY <2>1, <2>2, <3>2, OptIs
      <4>3. \A e : Mapped(<<e>>, MediaInfoDoc) = <<MediaInfoDoc(e)>>
        BY DEF Mapped
      <4>4. Mapped(a, MediaInfoDoc) = <<MediaInfoDoc(a[1])>>
        BY <4>1, <4>3, Zenon
      <4>5. Mapped(b, MediaInfoDoc) = <<MediaInfoDoc(b[1])>>
        BY <4>2, <4>3, Zenon
      <4> QED BY <2>3, <4>1, <4>4, <4>5
    <3> QED BY <3>1, <3>2
  <2> QED BY <2>4 DEF a, b
<1>6. CompForm(v) = CompForm(u)
  BY <1>2, <1>3, <1>4, <1>5 DEF CompForm
<1> QED BY <1>6, CompFormIs

LEMMA InfoAgree ==
    ASSUME NEW x, IsServiceInfo(x), NEW y, IsServiceInfo(y),
           \A n \in DOMAIN x.comps : OneQos(x.comps[n]),
           \A n \in DOMAIN y.comps : OneQos(y.comps[n]),
           ServiceInfoEqual(ServiceInfoCopy(x), y),
           \A n \in DOMAIN x.comps \cap DOMAIN y.comps : CompNoticed(x.comps[n], y.comps[n])
    PROVE  ServiceInfoDoc(x) = ServiceInfoDoc(y)
<1> DEFINE c == ServiceInfoCopy(x)
<1>1. /\ c.comps = [n \in DOMAIN x.comps |-> CompCopy(x.comps[n])]
      /\ c.prio = x.prio /\ c.app = x.app /\ c.ambr = x.ambr
  BY InfoCopyIs
<1> HIDE DEF c
<1>2. /\ x.prio = y.prio /\ x.app = y.app /\ x.ambr = y.ambr
      /\ Cardinality(DOMAIN x.comps) = Cardinality(DOMAIN y.comps)
      /\ \A n \in DOMAIN x.comps : n \in DOMAIN y.comps
         /\ CompEqual(CompCopy(x.comps[n]), y.comps[n])
  BY <1>1 DEF ServiceInfoEqual, c
<1>3. DOMAIN x.comps = DOMAIN y.comps
  <2> DEFINE S == DOMAIN x.comps
             T == DOMAIN y.comps
  <2>1. S \subseteq T /\ IsFiniteSet(T) /\ Cardinality(S) = Cardinality(T)
    BY <1>2 DEF IsServiceInfo
  <2> HIDE DEF S, T
  <2>2. S = T
    BY <2>1, FS_Subset
  <2> QED BY <2>2 DEF S, T
<1>4. \A n \in DOMAIN x.comps : CompDoc(x.comps[n]) = CompDoc(y.comps[n])
  BY <1>2, <1>3, CompAgree DEF IsServiceInfo
<1>5. CompsDoc(x.comps) = CompsDoc(y.comps)
  BY <1>3, <1>4 DEF CompsDoc
<1>6. Mapped(Tabled(x.comps), CompsDoc) = Mapped(Tabled(y.comps), CompsDoc)
  <2>1. CASE DOMAIN x.comps = {}
    BY <1>3, <2>1 DEF Tabled
  <2>2. CASE DOMAIN x.comps # {}
    <3>1. Tabled(x.comps) = <<x.comps>> /\ Tabled(y.comps) = <<y.comps>>
      BY <1>3, <2>2 DEF Tabled
    <3>2. \A t : Mapped(<<t>>, CompsDoc) = <<CompsDoc(t)>>
      BY DEF Mapped
    <3> QED BY <1>5, <3>1, <3>2
  <2> QED BY <2>1, <2>2
<1> QED BY <1>2, <1>6 DEF ServiceInfoDoc

LEMMA AreasAgree ==
    ASSUME NEW w, NEW s, Updates(w, s), PublicEqual(PublicCopy(w), s)
    PROVE  w.area = s.area
<1> DEFINE a == PublicCopy(w).area
<1>1. w.area \in Seq(AreaType) /\ s.area \in Seq(AreaType) /\ Len(w.area) <= 1
  BY FieldsOf DEF Updates, Optional
<1>2. a = Mapped(w.area, AreaCopy) /\ OptEqual(a, s.area, AreaEqual)
  BY CopyFields DEF Updates, PublicEqual
<1> HIDE DEF a
<1>3. Len(w.area) = Len(s.area) /\ DOMAIN a = DOMAIN w.area
  BY <1>1, <1>2 DEF OptEqual, Mapped
<1>4. ASSUME NEW i \in DOMAIN w.area PROVE w.area[i] = s.area[i]
  <2> DEFINE x == w.area[i]
             y == s.area[i]
  <2>1. x \in AreaType /\ y \in AreaType /\ a[i] = AreaCopy(x) /\ AreaEqual(a[i], y)
    <3>1. i \in DOMAIN s.area /\ i \in DOMAIN a
      BY <1>1, <1>3, <1>4
    <3>2. x \in AreaType
      BY <1>1, <1>4
    <3>3. y \in AreaType
      BY <1>1, <3>1
    <3>4. a[i] = AreaCopy(x)
      BY <1>2, <1>4 DEF Mapped
    <3>5. AreaEqual(a[i], y)
      BY <1>2, <3>1 DEF OptEqual
    <3> QED BY <3>2, <3>3, <3>4, <3>5
  <2>2. /\ ~Reordered(x.tais, y.tais) /\ ~Reordered(Tais(x.ncgiTais), Tais(y.ncgiTais))
        /\ \A j \in DOMAIN x.ncgiTais \cap DOMAIN y.ncgiTais :
              x.ncgiTais[j].tai = y.ncgiTais[j].tai => x.ncgiTais[j] = y.ncgiTais[j]
    <3>1. i = 1 /\ Len(w.area) = 1 /\ Len(s.area) = 1
      <4> DEFINE n == Len(w.area)
      <4>1. n \in Nat /\ n <= 1 /\ i \in 1 .. n
        BY <1>1, <1>4
      <4> HIDE DEF n
      <4>2. i = 1 /\ n = 1
        BY <4>1
      <4> QED BY <1>3, <4>2 DEF n
    <3> QED BY <3>1 DEF Updates, Noticed, Both
  <2> HIDE DEF x, y
  <2>3. /\ x.tais \in Seq(TaiType) /\ y.tais \in Seq(TaiType)
        /\ x.ncgiTais \in Seq(NcgiTaiType) /\ y.ncgiTais \in Seq(NcgiTaiType)
        /\ x = [ncgiTais |-> x.ncgiTais, tais |-> x.tais]
        /\ y = [ncgiTais |-> y.ncgiTais, tais |-> y.tais]
    BY <2>1 DEF AreaType
  <2>4. SameEntries(x.tais, y.tais, TaiEqual)
    <3>1. AreaCopy(x).tais = x.tais
      BY <2>3, TaisCopied DEF AreaCopy
    <3> QED BY <2>1, <3>1 DEF AreaEqual
  <2>5. SameEntries(Mapped(x.ncgiTais, NcgiTaiCopy), y.ncgiTais, NcgiTaiEqual)
    <3>1. AreaCopy(x).ncgiTais = Mapped(x.ncgiTais, NcgiTaiCopy)
      BY DEF AreaCopy
    <3> QED BY <2>1, <3>1 DEF AreaEqual
  <2>6. x.tais = y.tais
    BY <2>2, <2>3, <2>4, TaisAgree
  <2>7. x.ncgiTais = y.ncgiTais
    BY <2>2, <2>3, <2>5, NcgiTaisAgree
  <2> QED BY <2>3, <2>6, <2>7 DEF x, y
<1> QED BY <1>1, <1>3, <1>4

LEMMA ExtsAgree ==
    ASSUME NEW w, NEW s, Updates(w, s), PublicEqual(PublicCopy(w), s)
    PROVE  w.ext = s.ext
<1> DEFINE a == PublicCopy(w).ext
<1>1. w.ext \in Seq(ExtAreaType) /\ s.ext \in Seq(ExtAreaType) /\ Len(w.ext) <= 1
  BY FieldsOf DEF Updates, Optional
<1>2. a = Mapped(w.ext, ExtAreaCopy) /\ OptEqual(a, s.ext, ExtAreaEqual)
  BY CopyFields DEF Updates, PublicEqual
<1> HIDE DEF a
<1>3. Len(w.ext) = Len(s.ext) /\ DOMAIN a = DOMAIN w.ext
  BY <1>1, <1>2 DEF OptEqual, Mapped
<1>4. ASSUME NEW i \in DOMAIN w.ext PROVE w.ext[i] = s.ext[i]
  <2> DEFINE x == w.ext[i]
             y == s.ext[i]
  <2>1. x \in ExtAreaType /\ y \in ExtAreaType /\ a[i] = ExtAreaCopy(x) /\ ExtAreaEqual(a[i], y)
    <3>1. i \in DOMAIN s.ext /\ i \in DOMAIN a
      BY <1>1, <1>3, <1>4
    <3>2. x \in ExtAreaType
      BY <1>1, <1>4
    <3>3. y \in ExtAreaType
      BY <1>1, <3>1
    <3>4. a[i] = ExtAreaCopy(x)
      BY <1>2, <1>4 DEF Mapped
    <3>5. ExtAreaEqual(a[i], y)
      BY <1>2, <3>1 DEF OptEqual
    <3> QED BY <3>2, <3>3, <3>4, <3>5
  <2>2. ~Reordered(x.civics, y.civics)
    <3>1. i = 1 /\ Len(w.ext) = 1 /\ Len(s.ext) = 1
      <4> DEFINE n == Len(w.ext)
      <4>1. n \in Nat /\ n <= 1 /\ i \in 1 .. n
        BY <1>1, <1>4
      <4> HIDE DEF n
      <4>2. i = 1 /\ n = 1
        BY <4>1
      <4> QED BY <1>3, <4>2 DEF n
    <3> QED BY <3>1 DEF Updates, Noticed, Both
  <2>3. Len(x.geos) = 0
    BY <1>4 DEF Updates, Untimed
  <2> HIDE DEF x, y
  <2>4. /\ x.civics \in Seq(CivicType) /\ y.civics \in Seq(CivicType) /\ x.geos = <<>>
        /\ y.geos \in Seq(PointType)
        /\ x = [geos |-> x.geos, civics |-> x.civics]
        /\ y = [geos |-> y.geos, civics |-> y.civics]
    BY <2>1, <2>3 DEF ExtAreaType
  <2>5. ExtAreaCopy(x).civics = x.civics /\ ExtAreaCopy(x).geos = <<>>
    <3>1. GeosCopy(<<>>) = <<>>
      BY DEF GeosCopy, Mapped
    <3> QED BY <2>4, <3>1, CivicsCopied DEF ExtAreaCopy
  <2>6. SameEntries(x.civics, y.civics, CivicEqual)
    BY <2>1, <2>5 DEF ExtAreaEqual, CivicsEqual
  <2>7. x.civics = y.civics
    BY <2>2, <2>4, <2>6, CivicsAgree
  <2>8. y.geos = <<>>
    <3>1. Len(<<>>) = Len(y.geos)
      BY <2>1, <2>5 DEF ExtAreaEqual, GeosEqual, SameEntries
    <3>2. Len(y.geos) = 0
      BY <3>1
    <3> QED BY <2>4, <3>2
  <2> QED BY <2>4, <2>7, <2>8 DEF x, y
<1> QED BY <1>1, <1>3, <1>4

LEMMA InfosAgree ==
    ASSUME NEW w, NEW s, Updates(w, s), PublicEqual(PublicCopy(w), s)
    PROVE  Mapped(w.info, ServiceInfoDoc) = Mapped(s.info, ServiceInfoDoc)
<1> DEFINE a == PublicCopy(w).info
<1>1. IsInfo(w.info) /\ IsInfo(s.info)
  BY FieldsOf DEF Updates
<1>2. a = Mapped(w.info, ServiceInfoCopy) /\ OptEqual(a, s.info, ServiceInfoEqual)
  BY CopyFields DEF Updates, PublicEqual
<1> HIDE DEF a
<1>3. Len(a) = Len(w.info) /\ DOMAIN a = DOMAIN w.info
  <2>1. CASE w.info = <<>>
    BY <1>2, <2>1 DEF Mapped
  <2>2. CASE w.info # <<>>
    <3> DEFINE x == w.info[1]
    <3>1. w.info = <<x>>
      BY <1>1, <2>2 DEF IsInfo
    <3> HIDE DEF x
    <3> QED BY <1>2, <3>1 DEF Mapped
  <2> QED BY <2>1, <2>2
<1>4. Len(a) = Len(s.info) /\ \A i \in DOMAIN a : ServiceInfoEqual(a[i], s.info[i])
  BY <1>2 DEF OptEqual
<1>5. CASE Len(w.info) = 0
  <2>1. w.info = <<>>
    BY <1>1, <1>5, InfoIs
  <2>2. s.info = <<>>
    BY <1>1, <1>3, <1>4, <1>5, InfoIs
  <2> QED BY <2>1, <2>2
<1>6. CASE Len(w.info) # 0
  <2> DEFINE x == w.info[1]
             y == s.info[1]
  <2>1. Len(w.info) = 1 /\ IsServiceInfo(x)
    BY <1>1, <1>6, InfoIs
  <2>2. Len(s.info) = 1 /\ IsServiceInfo(y)
    BY <1>1, <1>3, <1>4, <1>6, InfoIs
  <2>3. /\ \A i \in DOMAIN w.info : \A n \in DOMAIN w.info[i].comps : OneQos(w.info[i].comps[n])
        /\ \A i \in DOMAIN s.info : \A n \in DOMAIN s.info[i].comps : OneQos(s.info[i].comps[n])
    BY DEF Updates, Expressible, OneOfThree, OneQos
  <2>4. \A n \in DOMAIN x.comps \cap DOMAIN y.comps : CompNoticed(x.comps[n], y.comps[n])
    BY <2>1, <2>2 DEF Updates, Noticed, CommonComps, Both, CompNoticed
  <2>5. w.info = <<x>>
    BY <1>1, <1>6, InfoIs
  <2>6. s.info = <<y>>
    BY <1>1, <2>2, InfoIs
  <2> HIDE DEF x, y
  <2>7. 1 \in DOMAIN w.info
    BY <2>5
  <2>8. 1 \in DOMAIN s.info
    BY <2>6
  <2>9. /\ \A n \in DOMAIN x.comps : OneQos(x.comps[n])
        /\ \A n \in DOMAIN y.comps : OneQos(y.comps[n])
    BY <2>3, <2>7, <2>8 DEF x, y
  <2>10. ServiceInfoEqual(ServiceInfoCopy(x), y)
    <3>1. a[1] = ServiceInfoCopy(x)
      BY <1>2, <2>7 DEF Mapped, x
    <3> QED BY <1>3, <1>4, <2>7, <3>1 DEF y
  <2>11. ServiceInfoDoc(x) = ServiceInfoDoc(y)
    BY <2>1, <2>2, <2>4, <2>9, <2>10, InfoAgree
  <2>12. \A e : Mapped(<<e>>, ServiceInfoDoc) = <<ServiceInfoDoc(e)>>
    BY DEF Mapped
  <2> QED BY <2>5, <2>6, <2>11, <2>12, Zenon
<1> QED BY <1>5, <1>6

(* A push that finds no difference leaves nothing to be changed.             *)
LEMMA NothingToUpdate ==
    ASSUME NEW w, NEW s, Updates(w, s), PublicEqual(PublicCopy(w), s)
    PROVE  SessForm(w) = SessForm(s)
<1>1. w.dnn = s.dnn /\ w.status = s.status
  <2>1. PublicCopy(w).dnn = w.dnn /\ PublicCopy(w).status = w.status
    BY DEF PublicCopy, Updates, IsSession, FieldNames
  <2> QED BY <2>1 DEF PublicEqual
<1>2. w.fsas = s.fsas
  <2>1. w.fsas \in Seq(STRING) /\ s.fsas \in Seq(STRING) /\ PublicCopy(w).fsas = w.fsas
    BY FieldsOf, CopyFields DEF Updates
  <2>2. FsasEqual(w.fsas, s.fsas)
    BY <2>1 DEF PublicEqual
  <2> QED BY <2>1, <2>2 DEF FsasEqual, FsaEqual
<1> QED BY <1>1, <1>2, AreasAgree, ExtsAgree, InfosAgree DEF SessForm

-----------------------------------------------------------------------------
(* What the MB-SMF holds *)

AllRules == {"waits", "once", "noticed", "expressible", "kept", "untimed"} \subseteq Rules

InStep ==
    phase \in {"created", "updated"} /\ edits = 0
      => UpdatableOf(sess.type, doc[1]) = UpdatableOf(sess.type, Wanted(sess))

(* Until the first update is answered the MB-SMF holds the session as it was *)
(* when its creation was accepted, and an update in flight is the patch from *)
(* the copy to the session of now.                                           *)
Held ==
    /\ phase \in {"new", "creating"} => Filled(sess) /\ OneOfThree(sess)
    /\ phase = "creating" => doc = <<SessionDoc(sess)>>
    /\ phase \in {"created", "updating"} =>
          /\ doc = <<SessionDoc(was[1])>>
          /\ Filled(was[1]) /\ OneOfThree(was[1])
          /\ sess.type = was[1].type
    /\ phase = "updating" => sent = PublicPatch(prev[1], sess) /\ Updates(was[1], sess)
    /\ phase \in {"creating", "updating", "updated"} => edits = 0
    /\ InStep

LEMMA PushUpdates ==
    ASSUME AllRules, IInv, Held, phase = "created", MayPush
    PROVE  Updates(was[1], sess)
<1>1. /\ IsSession(was[1]) /\ IsSession(sess) /\ Untimed(was[1])
  BY CopyHeld DEF AllRules
<1>2. /\ Filled(was[1]) /\ OneOfThree(was[1]) /\ sess.type = was[1].type
  BY DEF Held
<1>3. Noticed(was[1], sess) /\ Expressible(was[1], sess) /\ Kept(was[1], sess)
  BY DEF MayPush, AllRules
<1> QED BY <1>1, <1>2, <1>3 DEF Updates

LEMMA UpdateInFlight ==
    ASSUME AllRules, IInv, Held, phase = "updating"
    PROVE  Patched(doc[1], sent) = <<Obj(UpdatedForm(was[1], sess))>>
<1>1. doc[1] = SessionDoc(was[1])
  BY DEF Held
<1>2. sent = PublicPatch(PublicCopy(was[1]), sess) /\ Updates(was[1], sess)
  BY CopyHeld DEF Held, AllRules
<1> QED BY <1>1, <1>2, UpdateLeads

LEMMA SetFieldHeld ==
    ASSUME AllRules, IInv, Held, NEW f \in FieldNames, NEW v \in Values[f], SetField(f, v)
    PROVE  Held'
<1>1. phase \in {"new", "created"} /\ UNCHANGED <<prev, doc, sent, phase, was>>
  BY DEF SetField, AllRules
<1>2. edits' # 0
  <2>1. edits \in 0..MaxEdits /\ edits' = edits + 1
    BY DEF IInv, TypeOK, SetField
  <2> QED BY <2>1, MaxEditsAssumption
<1>3. phase = "new" => Filled(sess') /\ OneOfThree(sess')
  BY DEF SetField, MayCreate, AllRules
<1>4. sess'.type = sess.type
  <2>1. f # "type" /\ sess' = [sess EXCEPT ![f] = v]
    BY DEF SetField, FieldNames
  <2> QED BY <2>1 DEF IInv, TypeOK, IsSession
<1>5. InStep'
  BY <1>2 DEF InStep
<1> QED BY <1>1, <1>3, <1>4, <1>5 DEF Held

LEMMA PushCreateHeld ==
    ASSUME AllRules, IInv, Held, PushCreate
    PROVE  Held'
  BY DEF PushCreate, Held, InStep

LEMMA CreateAcceptedHeld ==
    ASSUME AllRules, IInv, Held, CreateAccepted
    PROVE  Held'
<1>1. /\ phase = "creating" /\ phase' = "created" /\ was'[1] = sess
      /\ UNCHANGED <<sess, doc, edits>>
  BY DEF CreateAccepted
<1>2. doc = <<SessionDoc(sess)>> /\ Filled(sess) /\ OneOfThree(sess)
  BY <1>1 DEF Held
<1>3. IsSession(sess) /\ Untimed(sess)
  BY <1>1 DEF IInv, TypeOK, Phased, AllRules
<1>4. SessionDoc(sess) = Wanted(sess)
  BY <1>2, <1>3, CreatedForm, WantedForm DEF Untimed
<1>5. InStep'
  BY <1>1, <1>2, <1>4 DEF InStep
<1> QED BY <1>1, <1>2, <1>5 DEF Held

LEMMA PushNothingHeld ==
    ASSUME AllRules, IInv, Held, PushNothing
    PROVE  Held'
<1>1. /\ phase \in {"created", "updated"} /\ MayPush /\ PublicEqual(prev[1], sess) /\ edits' = 0
      /\ UNCHANGED <<sess, prev, doc, sent, phase, was>>
  BY DEF PushNothing
<1>2. CASE phase = "updated"
  BY <1>1, <1>2 DEF Held, InStep
<1>3. CASE phase = "created"
  <2>1. Updates(was[1], sess) /\ PublicEqual(PublicCopy(was[1]), sess)
    BY <1>1, <1>3, PushUpdates, CopyHeld DEF AllRules
  <2>2. doc[1] = Obj(SessForm(was[1]))
    <3>1. doc[1] = SessionDoc(was[1])
      BY <1>3 DEF Held
    <3> QED BY <2>1, <3>1, CreatedForm DEF Updates, Untimed
  <2>3. Wanted(sess) = Obj(SessForm(sess))
    BY <2>1, WantedForm DEF Updates, Expressible
  <2>4. doc[1] = Wanted(sess)
    BY <2>1, <2>2, <2>3, NothingToUpdate
  <2>5. InStep'
    BY <1>1, <2>4 DEF InStep
  <2> QED BY <1>1, <1>3, <2>5 DEF Held
<1> QED BY <1>1, <1>2, <1>3

LEMMA PushUpdateHeld ==
    ASSUME AllRules, IInv, Held, PushUpdate
    PROVE  Held'
<1>1. /\ phase = "created" /\ MayPush /\ edits' = 0 /\ phase' \in {"gone", "updating"}
      /\ UNCHANGED <<sess, prev, doc, was>>
      /\ phase' = "updating" => sent' = PublicPatch(prev[1], sess)
  BY DEF PushUpdate, Changes, AllRules
<1>2. Updates(was[1], sess)
  BY <1>1, PushUpdates
<1> QED BY <1>1, <1>2 DEF Held, InStep

LEMMA UpdateAcceptedHeld ==
    ASSUME AllRules, IInv, Held, UpdateAccepted
    PROVE  Held'
<1>1. /\ phase = "updating" /\ phase' = "updated" /\ doc' = Patched(doc[1], sent)
      /\ UNCHANGED <<sess, prev, was, edits>>
  BY DEF UpdateAccepted
<1>2. doc'[1] = Obj(UpdatedForm(was[1], sess))
  BY <1>1, UpdateInFlight
<1>3. Updates(was[1], sess) /\ edits = 0
  BY <1>1 DEF Held
<1>4. InStep'
  BY <1>1, <1>2, <1>3, UpdateDone DEF InStep
<1> QED BY <1>1, <1>3, <1>4 DEF Held

LEMMA StepHeld == AllRules /\ IInv /\ Held /\ [Next]_vars => Held'
<1> SUFFICES ASSUME AllRules, IInv, Held, [Next]_vars PROVE Held'
  OBVIOUS
<1>1. ASSUME NEW f \in FieldNames, NEW v \in Values[f], SetField(f, v) PROVE Held'
  BY <1>1, SetFieldHeld
<1>2. CASE UpdateRefused
  BY <1>2 DEF UpdateRefused, Held, InStep
<1>3. CASE Delete
  BY <1>3 DEF Delete, Held, InStep
<1>4. CASE Restart
  BY <1>4, BasesAssumption DEF Restart, Held, InStep, MayCreate, AllRules
<1>5. CASE UNCHANGED vars
  BY <1>5 DEF vars, Held, InStep
<1> QED BY <1>1, <1>2, <1>3, <1>4, <1>5, PushCreateHeld, CreateAcceptedHeld, PushNothingHeld,
           PushUpdateHeld, UpdateAcceptedHeld DEF Next

LEMMA AlwaysHeld == ASSUME AllRules PROVE Spec => []Held
<1>1. Init => Held
  BY BasesAssumption DEF Init, Held, InStep, MayCreate, AllRules
<1>2. IInv /\ Held /\ [Next]_vars => Held'
  BY StepHeld
<1> QED BY <1>1, <1>2, Invariance, PTL DEF Spec

(* Every item of the PATCH that _mbs_session_patch_list makes names a place   *)
(* that exists at the MB-SMF when its turn comes, whatever the values of the  *)
(* fields and however long their lists: for an application that keeps to all  *)
(* the rules, which name what the code gets wrong.                            *)
THEOREM UpdateApplies ==
    ASSUME AllRules
    PROVE  Spec => []PatchApplies
<1>1. IInv /\ Held => PatchApplies
  BY UpdateInFlight DEF PatchApplies
<1> QED BY <1>1, AlwaysHeld, Invariance, PTL

(* When a push has sent nothing or its update is accepted, the MB-SMF holds   *)
(* the session as the application wants it, in every attribute that           *)
(* an update may change: under the rules no comparison of                     *)
(* _mbs_session_public_equal overlooks a change, and the patch list leads     *)
(* from the document of the creation to the document of the session.          *)
THEOREM MbSmfInSync ==
    ASSUME AllRules
    PROVE  Spec => []InSync
<1>1. Held => InSync
  BY DEF Held, InStep, InSync, Updatable, UpdatableOf
<1> QED BY <1>1, AlwaysHeld, PTL
=============================================================================
