----------------------------- MODULE Tmgi_proofs -----------------------------
(***************************************************************************)
(* Proofs about Tmgi, for any number of TMGIs, ids and requests: the       *)
(* context's linked list holds what was added and not removed, in the      *)
(* order in which it was added, and an application that keeps every rule   *)
(* gets its own answers.                                                   *)
(***************************************************************************)
EXTENDS Tmgi, TLAPS, FiniteSetTheorems

-----------------------------------------------------------------------------
(* The list *)

(* A nonempty set of naturals has a least element. *)
LEMMA Least ==
    ASSUME NEW T, T \subseteq Nat, T # {}
    PROVE  \E x \in T : \A y \in T : x <= y
<1> DEFINE R == {p \in Nat \X Nat : p[1] < p[2]}
<1>1. IsWellFoundedOn(R, Nat)
  BY NatLessThanWellFounded DEF OpToRel
<1>2. \E x \in T : \A y \in T : ~(<<y, x>> \in R)
  <2> HIDE DEF R
  <2> QED BY <1>1, WFMin
<1>3. PICK x \in T : \A y \in T : ~(<<y, x>> \in R)
  BY <1>2
<1>4. ASSUME NEW y \in T PROVE x <= y
  <2>1. ~(<<y, x>> \in R)
    BY <1>3
  <2>2. ~(y < x)
    BY <2>1
  <2> QED BY <2>2
<1> QED BY <1>3, <1>4

LEMMA LengthNat == Length \in Nat
  BY TmgiAssumption, FS_CardinalityType DEF Length

(* What a walk is, on links that may be anything. *)
IsWalk(g, m, n) ==
    /\ g \in [0 .. m -> Nodes]
    /\ g[0] = n[None]
    /\ \A i \in 1 .. m : g[i] = IF g[i - 1] = None THEN None ELSE n[g[i - 1]]

LEMMA WalkExists ==
    ASSUME NEW n \in [Nodes -> Nodes], NEW m \in Nat
    PROVE  \E g : IsWalk(g, m, n)
<1> DEFINE B == {j \in Nat : ~\E g : IsWalk(g, j, n)}
<1>1. SUFFICES ASSUME B # {} PROVE FALSE
  OBVIOUS
<1>2. PICK j \in B : \A l \in B : j <= l
  <2>1. B \subseteq Nat
    OBVIOUS
  <2> HIDE DEF B
  <2> QED BY <1>1, <2>1, Least
<1>3. j \in Nat /\ ~\E g : IsWalk(g, j, n)
  BY <1>2
<1>4. CASE j = 0
  <2> DEFINE g == [i \in 0 .. 0 |-> n[None]]
  <2>1. IsWalk(g, 0, n)
    BY DEF IsWalk, Nodes
  <2> QED BY <1>3, <1>4, <2>1
<1>5. CASE j # 0
  <2>1. j - 1 \in Nat /\ j - 1 \notin B
    BY <1>2, <1>3, <1>5
  <2>2. PICK h : IsWalk(h, j - 1, n)
    BY <2>1
  <2> DEFINE e == IF h[j - 1] = None THEN None ELSE n[h[j - 1]]
             g == [i \in 0 .. j |-> IF i = j THEN e ELSE h[i]]
  <2>3. h[j - 1] \in Nodes
    BY <2>1, <2>2 DEF IsWalk
  <2>4. e \in Nodes
    BY <2>3 DEF Nodes
  <2>5. g \in [0 .. j -> Nodes]
    <3> HIDE DEF e
    <3> QED BY <2>2, <2>4, <1>3 DEF IsWalk
  <2>6. g[0] = n[None]
    BY <2>2, <1>3, <1>5 DEF IsWalk
  <2>7. ASSUME NEW i \in 1 .. j
        PROVE  g[i] = IF g[i - 1] = None THEN None ELSE n[g[i - 1]]
    <3>1. g[i - 1] = h[i - 1]
      BY <2>7, <1>3
    <3>2. CASE i = j
      BY <3>1, <3>2, <1>3
    <3>3. CASE i # j
      <4>1. i \in 1 .. j - 1 /\ g[i] = h[i]
        BY <3>3, <1>3
      <4> QED BY <4>1, <3>1, <2>2 DEF IsWalk
    <3> QED BY <3>2, <3>3
  <2>8. IsWalk(g, j, n)
    <3> HIDE DEF g
    <3> QED BY <2>5, <2>6, <2>7 DEF IsWalk
  <2> QED BY <2>8, <1>3
<1> QED BY <1>4, <1>5

LEMMA WalkIs ==
    ASSUME NEW n \in [Nodes -> Nodes]
    PROVE  IsWalk(WalkOf(n), Length, n)
<1> DEFINE F(g) == [i \in 0 .. Length |->
                      IF i = 0 THEN n[None] ELSE IF g[i - 1] = None THEN None ELSE n[g[i - 1]]]
           W == WalkOf(n)
<1>1. PICK h : IsWalk(h, Length, n)
  BY WalkExists, LengthNat
<1>2. h = F(h)
  <2>1. h = [i \in 0 .. Length |-> h[i]]
    BY <1>1 DEF IsWalk
  <2>2. ASSUME NEW i \in 0 .. Length PROVE h[i] = F(h)[i]
    BY <1>1, <2>2, LengthNat DEF IsWalk
  <2> QED BY <2>1, <2>2
<1>3. W = CHOOSE g : g = F(g)
  BY DEF WalkOf
<1>4. W = F(W)
  <2> HIDE DEF F, W
  <2> QED BY <1>2, <1>3
<1> DEFINE B == {j \in Nat : j <= Length /\ W[j] \notin Nodes}
<1>5. W[0] = n[None] /\ \A i \in 1 .. Length : W[i] = IF W[i - 1] = None THEN None ELSE n[W[i - 1]]
  <2>0. \A i \in 0 .. Length : W[i] = F(W)[i]
    BY <1>4
  <2> HIDE DEF W
  <2> QED BY <2>0, LengthNat
<1> HIDE DEF W
<1>6. B = {}
  <2>1. SUFFICES ASSUME B # {} PROVE FALSE
    OBVIOUS
  <2>2. PICK j \in B : \A l \in B : j <= l
    <3>1. B \subseteq Nat
      OBVIOUS
    <3> HIDE DEF B
    <3> QED BY <2>1, <3>1, Least
  <2>3. j # 0
    BY <1>5, <2>2 DEF Nodes
  <2>4. j - 1 \in Nat /\ j - 1 <= Length /\ W[j - 1] \in Nodes /\ j \in 1 .. Length
    BY <2>2, <2>3, LengthNat
  <2> QED BY <1>5, <2>2, <2>4 DEF Nodes
<1>7. W \in [0 .. Length -> Nodes]
  <2>1. W = [i \in 0 .. Length |-> W[i]]
    BY <1>4
  <2>2. \A i \in 0 .. Length : W[i] \in Nodes
    BY <1>6, LengthNat
  <2> QED BY <2>1, <2>2
<1> QED BY <1>5, <1>7 DEF IsWalk, W

LEMMA ListTyped ==
    ASSUME NEW n \in [Nodes -> Nodes]
    PROVE  ListOf(n) \subseteq Tmgis
<1>1. \A i \in 0 .. Length : WalkOf(n)[i] \in Nodes
  BY WalkIs DEF IsWalk
<1> QED BY <1>1 DEF ListOf, Nodes

(* The first node of the walk in a set. *)
LEMMA FirstIs ==
    ASSUME NEW n \in [Nodes -> Nodes], NEW S \in SUBSET Tmgis, ListOf(n) \cap S # {}
    PROVE  \E i \in 0 .. Length :
              /\ FirstOf(n, S) = WalkOf(n)[i] /\ WalkOf(n)[i] \in S
              /\ \A j \in 0 .. i - 1 : WalkOf(n)[j] \notin S
<1> DEFINE W == WalkOf(n)
           B == {i \in Nat : i <= Length /\ W[i] \in S}
           First(i) == W[i] \in S /\ \A j \in 0 .. i - 1 : W[j] \notin S
<1>1. B # {}
  BY LengthNat DEF ListOf
<1>2. PICK i \in B : \A l \in B : i <= l
  <2>1. B \subseteq Nat
    OBVIOUS
  <2> HIDE DEF B
  <2> QED BY <1>1, <2>1, Least
<1>3. i \in 0 .. Length /\ First(i)
  <2>1. i \in 0 .. Length /\ W[i] \in S
    BY LengthNat
  <2>2. ASSUME NEW j \in 0 .. i - 1 PROVE W[j] \notin S
    <3>1. j \in Nat /\ j < i /\ j <= Length
      BY LengthNat, <2>1
    <3>2. j \notin B
      BY <1>2, <3>1
    <3> QED BY <3>1, <3>2
  <2> QED BY <2>1, <2>2
<1>4. FirstOf(n, S) = W[CHOOSE c \in 0 .. Length : First(c)]
  BY DEF FirstOf
<1> DEFINE c == CHOOSE c \in 0 .. Length : First(c)
<1>5. c \in 0 .. Length /\ First(c)
  <2> HIDE DEF First
  <2> QED BY <1>3
<1> HIDE DEF c
<1> QED BY <1>4, <1>5 DEF c

LEMMA FirstTyped ==
    ASSUME NEW n \in [Nodes -> Nodes], NEW S \in SUBSET Tmgis
    PROVE  /\ FirstOf(n, S) \in Tmgis \cup {None}
           /\ FirstOf(n, S) # None => FirstOf(n, S) \in S \cap ListOf(n)
           /\ FirstOf(n, S) = None => S \cap ListOf(n) = {}
<1>1. None \notin Tmgis
  BY TmgiAssumption
<1>2. CASE ListOf(n) \cap S = {}
  BY <1>1, <1>2 DEF FirstOf
<1>3. CASE ListOf(n) \cap S # {}
  <2>1. PICK i \in 0 .. Length : FirstOf(n, S) = WalkOf(n)[i] /\ WalkOf(n)[i] \in S
    BY <1>3, FirstIs
  <2> QED BY <2>1, <1>1 DEF ListOf
<1> QED BY <1>2, <1>3

(* The links n and p make a ring of the nodes L and the list's head, in the *)
(* order of rank.                                                           *)
Linked(n, p, L, rank) ==
    /\ n \in [Nodes -> Nodes] /\ p \in [Nodes -> Nodes]
    /\ L \subseteq Tmgis
    /\ rank \in [Tmgis -> Nat]
    /\ \A x, y \in L : rank[x] = rank[y] => x = y
    /\ \A x \in L \cup {None} : /\ n[x] \in L \cup {None} /\ p[x] \in L \cup {None}
                                /\ n[p[x]] = x /\ p[n[x]] = x
    /\ \A y \in L : n[None] # None /\ rank[n[None]] <= rank[y]
    /\ \A x \in L : n[x] # None => rank[n[x]] > rank[x]
    /\ \A x, y \in L : rank[y] > rank[x] => n[x] # None /\ rank[n[x]] <= rank[y]

(* A node that is appended comes after all others. *)
LEMMA AppendLinked ==
    ASSUME NEW n, NEW p, NEW L, NEW rank, Linked(n, p, L, rank),
           NEW x \in Tmgis \ L, NEW b \in Nat, \A y \in L : rank[y] < b
    PROVE  Linked(Appended(n, p, x).nxt, Appended(n, p, x).prv, L \cup {x}, [rank EXCEPT ![x] = b])
<1> DEFINE m == [n EXCEPT ![p[None]] = x, ![x] = None]
           q == [p EXCEPT ![x] = p[None], ![None] = x]
           r == [rank EXCEPT ![x] = b]
           l == p[None]
<1>1. /\ n \in [Nodes -> Nodes] /\ p \in [Nodes -> Nodes] /\ L \subseteq Tmgis
      /\ rank \in [Tmgis -> Nat] /\ x \in Nodes /\ None \in Nodes /\ x # None
      /\ l \in L \cup {None} /\ n[l] = None /\ None \notin Tmgis /\ l # x /\ l \in Nodes
  BY TmgiAssumption DEF Linked, Nodes
<1>2. /\ m \in [Nodes -> Nodes] /\ q \in [Nodes -> Nodes] /\ r \in [Tmgis -> Nat]
      /\ m[l] = x /\ m[x] = None /\ q[x] = l /\ q[None] = x /\ r[x] = b
      /\ \A y \in Nodes \ {l, x} : m[y] = n[y]
      /\ \A y \in Nodes \ {None, x} : q[y] = p[y]
      /\ \A y \in Tmgis \ {x} : r[y] = rank[y]
  BY <1>1
<1>3. Appended(n, p, x).nxt = m /\ Appended(n, p, x).prv = q
  BY DEF Appended
<1> HIDE DEF m, q, r, l
<1>4. \A y \in L \cup {None} : n[y] = None => y = l
  BY <1>1 DEF Linked, l
<1>5. \A y, z \in L \cup {x} : r[y] = r[z] => y = z
  BY <1>1, <1>2 DEF Linked
<1>6. ASSUME NEW y \in L \cup {x, None}
      PROVE  /\ m[y] \in L \cup {x, None} /\ q[y] \in L \cup {x, None}
             /\ m[q[y]] = y /\ q[m[y]] = y
  <2>1. CASE y = x
    BY <2>1, <1>1, <1>2
  <2>2. CASE y = l
    <3>1. m[y] = x /\ q[x] = y
      BY <2>2, <1>2
    <3>2. CASE y = None
      BY <3>1, <3>2, <1>1, <1>2
    <3>3. CASE y # None
      <4>1. q[y] = p[y] /\ y \in L /\ n[p[y]] = y /\ p[y] \in L \cup {None}
        BY <3>3, <2>2, <1>1, <1>2 DEF Linked
      <4>2. p[y] # l
        BY <4>1, <3>3, <2>2, <1>1
      <4> QED BY <3>1, <4>1, <4>2, <1>1, <1>2 DEF Nodes
    <3> QED BY <3>2, <3>3
  <2>3. CASE y # l /\ y # x /\ y = None
    <3>1. q[y] = x /\ m[x] = None
      BY <2>3, <1>2
    <3>2. m[y] = n[y] /\ n[y] \in L /\ p[n[y]] = y
      BY <2>3, <1>1, <1>2, <1>4 DEF Linked
    <3> QED BY <3>1, <3>2, <2>3, <1>1, <1>2 DEF Nodes
  <2>4. CASE y # l /\ y # x /\ y # None
    <3>1. y \in L /\ q[y] = p[y] /\ n[p[y]] = y /\ p[y] \in L \cup {None} /\ p[y] # l
      BY <2>4, <1>1, <1>2 DEF Linked, Nodes
    <3>2. m[y] = n[y] /\ n[y] \in L /\ p[n[y]] = y
      BY <2>4, <3>1, <1>1, <1>2, <1>4 DEF Linked, Nodes
    <3> QED BY <3>1, <3>2, <2>4, <1>1, <1>2 DEF Nodes
  <2> QED BY <2>1, <2>2, <2>3, <2>4
<1>7. ASSUME NEW y \in L \cup {x} PROVE m[None] # None /\ r[m[None]] <= r[y]
  <2>1. CASE l = None
    <3>1. L = {}
      BY <2>1, <1>1 DEF Linked
    <3> QED BY <3>1, <2>1, <1>1, <1>2
  <2>2. CASE l # None
    <3>1. m[None] = n[None] /\ n[None] \in L /\ rank[n[None]] < b
      BY <2>2, <1>1, <1>2 DEF Linked
    <3> QED BY <3>1, <1>1, <1>2 DEF Linked
  <2> QED BY <2>1, <2>2
<1>8. \A y \in L \cup {x} : m[y] # None => r[m[y]] > r[y]
  <2>1. ASSUME NEW y \in L, y # l, n[y] # None PROVE r[m[y]] > r[y]
    BY <2>1, <1>1, <1>2 DEF Linked, Nodes
  <2>2. l # None => r[m[l]] > r[l]
    BY <1>1, <1>2
  <2> QED BY <2>1, <2>2, <1>1, <1>2 DEF Nodes
<1>9. ASSUME NEW y \in L \cup {x}, NEW z \in L \cup {x}, r[z] > r[y]
      PROVE  m[y] # None /\ r[m[y]] <= r[z]
  <2>1. y \in L /\ r[y] = rank[y]
    BY <1>9, <1>1, <1>2
  <2>2. CASE y = l
    <3>1. z = x
      BY <2>1, <2>2, <1>9, <1>1, <1>2 DEF Linked
    <3> QED BY <3>1, <2>2, <1>1, <1>2
  <2>3. CASE y # l
    <3>1. m[y] = n[y] /\ n[y] \in L /\ rank[n[y]] < b
      BY <2>1, <2>3, <1>1, <1>2, <1>4 DEF Linked, Nodes
    <3> QED BY <3>1, <2>1, <1>9, <1>1, <1>2 DEF Linked
  <2> QED BY <2>2, <2>3
<1> QED
  <2>1. L \cup {x} \subseteq Tmgis
    BY <1>1
  <2>2. Linked(m, q, L \cup {x}, r)
    BY <2>1, <1>2, <1>5, <1>6, <1>7, <1>8, <1>9 DEF Linked
  <2> QED BY <2>2, <1>3 DEF r

(* Taking a node out joins its neighbours. *)
LEMMA RemoveLinked ==
    ASSUME NEW n, NEW p, NEW L, NEW rank, Linked(n, p, L, rank), NEW x \in L
    PROVE  Linked(Removed(n, p, x).nxt, Removed(n, p, x).prv, L \ {x}, rank)
<1> DEFINE u == p[x]
           v == n[x]
           m == [n EXCEPT ![u] = v]
           q == [p EXCEPT ![v] = u]
<1>1. /\ n \in [Nodes -> Nodes] /\ p \in [Nodes -> Nodes] /\ L \subseteq Tmgis
      /\ rank \in [Tmgis -> Nat] /\ x \in Tmgis /\ x # None /\ None \notin Tmgis
      /\ u \in L \cup {None} /\ v \in L \cup {None} /\ n[u] = x /\ p[v] = x
      /\ n[x] = v /\ p[x] = u
  BY TmgiAssumption DEF Linked, Nodes
<1>2. u # x /\ v # x
  <2>1. n[x] # x
    BY <1>1 DEF Linked
  <2> QED BY <2>1, <1>1
<1>3. /\ m \in [Nodes -> Nodes] /\ q \in [Nodes -> Nodes]
      /\ m[u] = v /\ \A y \in Nodes : y # u => m[y] = n[y]
      /\ q[v] = u /\ \A y \in Nodes : y # v => q[y] = p[y]
      /\ u \in Nodes /\ v \in Nodes
  BY <1>1 DEF Nodes
<1>4. Removed(n, p, x).nxt = m /\ Removed(n, p, x).prv = q
  BY DEF Removed
<1> HIDE DEF u, v, m, q
<1>5. ASSUME NEW y \in (L \ {x}) \cup {None}
      PROVE  /\ m[y] \in (L \ {x}) \cup {None} /\ q[y] \in (L \ {x}) \cup {None}
             /\ m[q[y]] = y /\ q[m[y]] = y
  <2>1. /\ n[y] \in L \cup {None} /\ p[y] \in L \cup {None} /\ n[p[y]] = y /\ p[n[y]] = y
        /\ y \in Nodes /\ y # x
    BY <1>1 DEF Linked, Nodes
  <2>2. m[y] \in (L \ {x}) \cup {None} /\ q[m[y]] = y
    <3>1. CASE y = u
      BY <3>1, <1>1, <1>2, <1>3
    <3>2. CASE y # u
      <4>1. m[y] = n[y] /\ n[y] # x /\ n[y] # v
        BY <3>2, <2>1, <1>1, <1>3
      <4> QED BY <4>1, <2>1, <1>1, <1>3 DEF Nodes
    <3> QED BY <3>1, <3>2
  <2>3. q[y] \in (L \ {x}) \cup {None} /\ m[q[y]] = y
    <3>1. CASE y = v
      BY <3>1, <1>1, <1>2, <1>3
    <3>2. CASE y # v
      <4>1. q[y] = p[y] /\ p[y] # x /\ p[y] # u
        BY <3>2, <2>1, <1>1, <1>3
      <4> QED BY <4>1, <2>1, <1>1, <1>3 DEF Nodes
    <3> QED BY <3>1, <3>2
  <2> QED BY <2>2, <2>3
<1>6. v # None => rank[v] > rank[x]
  BY <1>1 DEF Linked
<1>7. ASSUME NEW y \in L \ {x} PROVE m[None] # None /\ rank[m[None]] <= rank[y]
  <2>1. CASE u = None
    <3>1. n[None] = x /\ rank[x] <= rank[y] /\ rank[y] # rank[x]
      BY <2>1, <1>1 DEF Linked
    <3>2. rank[y] > rank[x]
      BY <3>1, <1>1
    <3>3. v # None /\ rank[v] <= rank[y]
      BY <3>2, <1>1 DEF Linked
    <3> QED BY <3>3, <2>1, <1>3
  <2>2. CASE u # None
    <3>1. m[None] = n[None]
      BY <2>2, <1>3 DEF Nodes
    <3> QED BY <3>1 DEF Linked
  <2> QED BY <2>1, <2>2
<1>8. ASSUME NEW y \in L \ {x}, m[y] # None PROVE rank[m[y]] > rank[y]
  <2>1. CASE y = u
    <3>1. rank[x] > rank[y] /\ m[y] = v /\ v \in L /\ rank[v] > rank[x]
      BY <2>1, <1>1, <1>3, <1>6, <1>8 DEF Linked
    <3> QED BY <3>1, <1>1
  <2>2. CASE y # u
    BY <2>2, <1>1, <1>3, <1>8 DEF Linked, Nodes
  <2> QED BY <2>1, <2>2
<1>9. ASSUME NEW y \in L \ {x}, NEW z \in L \ {x}, rank[z] > rank[y]
      PROVE  m[y] # None /\ rank[m[y]] <= rank[z]
  <2>1. CASE y = u
    <3>1. rank[x] <= rank[z] /\ rank[x] # rank[z]
      BY <2>1, <1>1, <1>9 DEF Linked
    <3>2. rank[z] > rank[x]
      BY <3>1, <1>1
    <3>3. v # None /\ rank[v] <= rank[z]
      BY <3>2, <1>1 DEF Linked
    <3> QED BY <3>3, <2>1, <1>3
  <2>2. CASE y # u
    <3>1. m[y] = n[y]
      BY <2>2, <1>1, <1>3 DEF Nodes
    <3> QED BY <3>1, <1>9 DEF Linked
  <2> QED BY <2>1, <2>2
<1>10. Linked(m, q, L \ {x}, rank)
  <2>1. L \ {x} \subseteq Tmgis /\ \A y, z \in L \ {x} : rank[y] = rank[z] => y = z
    BY <1>1 DEF Linked
  <2> QED BY <2>1, <1>1, <1>3, <1>5, <1>7, <1>8, <1>9 DEF Linked
<1> QED BY <1>10, <1>4

(* The walk meets the nodes in the order of rank. *)
LEMMA WalkLinked ==
    ASSUME NEW n, NEW p, NEW L, NEW rank, Linked(n, p, L, rank)
    PROVE  /\ \A i \in 0 .. Length : WalkOf(n)[i] \in L \cup {None}
           /\ \A i, j \in 0 .. Length : i < j /\ WalkOf(n)[j] # None =>
                 WalkOf(n)[i] # None /\ rank[WalkOf(n)[i]] < rank[WalkOf(n)[j]]
<1> DEFINE W == WalkOf(n)
<1>1. /\ n \in [Nodes -> Nodes] /\ L \subseteq Tmgis /\ rank \in [Tmgis -> Nat] /\ None \notin L
      /\ \A x \in L \cup {None} : n[x] \in L \cup {None}
  BY TmgiAssumption DEF Linked
<1>2. W[0] = n[None] /\ \A i \in 1 .. Length : W[i] = IF W[i - 1] = None THEN None ELSE n[W[i - 1]]
  BY <1>1, WalkIs DEF IsWalk
<1> HIDE DEF W
<1>3. \A i \in 0 .. Length : W[i] \in L \cup {None}
  <2> DEFINE B == {i \in Nat : i <= Length /\ W[i] \notin L \cup {None}}
  <2>1. SUFFICES ASSUME B # {} PROVE FALSE
    BY LengthNat
  <2>2. PICK j \in B : \A l \in B : j <= l
    <3>1. B \subseteq Nat
      OBVIOUS
    <3> HIDE DEF B
    <3> QED BY <2>1, <3>1, Least
  <2>3. j # 0
    BY <1>1, <1>2, <2>2
  <2>4. j - 1 \in Nat /\ j - 1 <= Length /\ W[j - 1] \in L \cup {None} /\ j \in 1 .. Length
    BY <2>2, <2>3, LengthNat
  <2> QED BY <1>1, <1>2, <2>2, <2>4
<1>4. ASSUME NEW i \in 0 .. Length
      PROVE  \A j \in 0 .. Length : i < j /\ W[j] # None => W[i] # None /\ rank[W[i]] < rank[W[j]]
  <2> DEFINE B == {j \in Nat : /\ i < j /\ j <= Length /\ W[j] # None
                               /\ ~(W[i] # None /\ rank[W[i]] < rank[W[j]])}
  <2>1. SUFFICES ASSUME B # {} PROVE FALSE
    BY LengthNat
  <2>2. PICK j \in B : \A l \in B : j <= l
    <3>1. B \subseteq Nat
      OBVIOUS
    <3> HIDE DEF B
    <3> QED BY <2>1, <3>1, Least
  <2>3. /\ j \in 1 .. Length /\ j - 1 \in Nat /\ j - 1 \in 0 .. Length /\ i <= j - 1
        /\ i \in Nat /\ j \in Nat /\ j - 1 \notin B
    BY <2>2, LengthNat
  <2>4. W[j - 1] # None /\ W[j] = n[W[j - 1]] /\ W[j - 1] \in L /\ W[j] \in L
    BY <1>2, <1>3, <2>2, <2>3, LengthNat
  <2>5. rank[W[j]] > rank[W[j - 1]] /\ rank[W[j]] \in Nat /\ rank[W[j - 1]] \in Nat
    BY <1>1, <2>2, <2>4 DEF Linked
  <2>6. CASE i = j - 1
    BY <2>2, <2>4, <2>5, <2>6
  <2>7. CASE i < j - 1
    <3>1. W[i] # None /\ rank[W[i]] < rank[W[j - 1]]
      BY <2>3, <2>4, <2>7
    <3>2. rank[W[i]] \in Nat
      BY <3>1, <1>1, <1>3
    <3> QED BY <3>1, <3>2, <2>2, <2>5
  <2> QED BY <2>3, <2>6, <2>7
<1> QED BY <1>3, <1>4 DEF W

(* The walk meets every node of the ring. *)
LEMMA ListLinked ==
    ASSUME NEW n, NEW p, NEW L, NEW rank, Linked(n, p, L, rank)
    PROVE  ListOf(n) = L
<1> DEFINE W == WalkOf(n)
<1>1. /\ n \in [Nodes -> Nodes] /\ L \subseteq Tmgis /\ rank \in [Tmgis -> Nat] /\ None \notin Tmgis
  BY TmgiAssumption DEF Linked
<1>2. W[0] = n[None] /\ \A i \in 1 .. Length : W[i] = IF W[i - 1] = None THEN None ELSE n[W[i - 1]]
  BY <1>1, WalkIs DEF IsWalk
<1>3. /\ \A i \in 0 .. Length : W[i] \in L \cup {None}
      /\ \A i, j \in 0 .. Length : i < j /\ W[j] # None => W[i] # None /\ rank[W[i]] < rank[W[j]]
  BY WalkLinked
<1>4. \A y \in Tmgis : y \in ListOf(n) <=> \E i \in 0 .. Length : W[i] = y
  BY <1>1 DEF ListOf
<1>5. ListOf(n) \subseteq L
  BY <1>3, <1>4, <1>1, ListTyped
<1> HIDE DEF W
<1>6. W[Length] = None
  <2>1. SUFFICES ASSUME W[Length] # None PROVE FALSE
    OBVIOUS
  <2> DEFINE I == 0 .. Length
             f == [i \in I |-> W[i]]
  <2>2. \A i \in I : W[i] \in Tmgis
    BY <1>1, <1>3, <2>1, LengthNat
  <2>3. \A i, j \in I : W[i] = W[j] => i = j
    <3>1. ASSUME NEW i \in I, NEW j \in I, i < j PROVE W[i] # W[j]
      <4>1. rank[W[i]] < rank[W[j]] /\ rank[W[i]] \in Nat /\ rank[W[j]] \in Nat
        BY <1>1, <1>3, <2>2, <3>1
      <4> QED BY <4>1
    <3> QED BY <3>1, LengthNat
  <2>4. f \in Injection(I, Tmgis)
    <3>1. f \in [I -> Tmgis] /\ \A i, j \in I : f[i] = f[j] => i = j
      BY <2>2, <2>3
    <3> HIDE DEF f, I
    <3> QED BY <3>1 DEF Injection, IsInjective
  <2>5. Cardinality(I) <= Cardinality(Tmgis)
    <3> HIDE DEF f, I
    <3> QED BY <2>4, FS_Injection, TmgiAssumption
  <2>6. Cardinality(I) = Length + 1
    BY LengthNat, FS_Interval
  <2> QED BY <2>5, <2>6, LengthNat DEF Length
<1>7. L \subseteq ListOf(n)
  <2> DEFINE R == {rank[y] : y \in L \ ListOf(n)}
  <2>1. SUFFICES ASSUME R # {} PROVE FALSE
    OBVIOUS
  <2>2. PICK k0 \in R : \A l \in R : k0 <= l
    <3>1. R \subseteq Nat
      BY <1>1
    <3> HIDE DEF R
    <3> QED BY <2>1, <3>1, Least
  <2>3. PICK y \in L \ ListOf(n) : \A z \in L \ ListOf(n) : rank[y] <= rank[z]
    BY <2>2
  <2>4. /\ p[y] \in L \cup {None} /\ n[p[y]] = y /\ y \in Tmgis /\ y # None
    BY <1>1 DEF Linked
  <2>5. CASE p[y] = None
    BY <1>2, <1>4, <2>3, <2>4, <2>5, LengthNat
  <2>6. CASE p[y] # None
    <3>1. p[y] \in L /\ rank[y] > rank[p[y]] /\ rank[y] \in Nat /\ rank[p[y]] \in Nat
      BY <1>1, <2>4, <2>6 DEF Linked
    <3>2. p[y] \in ListOf(n)
      BY <2>3, <3>1
    <3>3. PICK i \in 0 .. Length : W[i] = p[y]
      BY <1>1, <1>4, <3>1, <3>2
    <3>4. i # Length
      BY <1>6, <2>6, <3>3
    <3>5. i + 1 \in 1 .. Length /\ i + 1 \in 0 .. Length /\ (i + 1) - 1 = i
      BY <3>4, LengthNat
    <3>6. W[i + 1] = IF W[(i + 1) - 1] = None THEN None ELSE n[W[(i + 1) - 1]]
      BY <1>2, <3>5
    <3>7. W[i + 1] = y
      BY <2>4, <2>6, <3>3, <3>5, <3>6
    <3> QED BY <1>4, <2>3, <2>4, <3>5, <3>7
  <2> QED BY <2>5, <2>6
<1> QED BY <1>5, <1>7

(* The first of a set is the one added first. *)
LEMMA FirstLinked ==
    ASSUME NEW n, NEW p, NEW L, NEW rank, Linked(n, p, L, rank),
           NEW S \in SUBSET Tmgis, NEW z \in S \cap L
    PROVE  /\ FirstOf(n, S) \in S \cap L
           /\ rank[FirstOf(n, S)] <= rank[z]
<1> DEFINE W == WalkOf(n)
<1>1. /\ n \in [Nodes -> Nodes] /\ L \subseteq Tmgis /\ rank \in [Tmgis -> Nat] /\ None \notin Tmgis
  BY TmgiAssumption DEF Linked
<1>2. ListOf(n) = L
  BY ListLinked
<1>3. \A i, j \in 0 .. Length : i < j /\ W[j] # None => W[i] # None /\ rank[W[i]] < rank[W[j]]
  BY WalkLinked
<1>4. PICK i \in 0 .. Length : /\ FirstOf(n, S) = W[i] /\ W[i] \in S
                               /\ \A j \in 0 .. i - 1 : W[j] \notin S
  BY <1>1, <1>2, FirstIs
<1>5. PICK j \in 0 .. Length : W[j] = z
  BY <1>2 DEF ListOf
<1> HIDE DEF W
<1>6. j \notin 0 .. i - 1
  BY <1>4, <1>5
<1>7. i <= j
  BY <1>6, LengthNat
<1>8. W[i] \in L
  BY <1>1, <1>2, <1>4, FirstTyped
<1>9. W[i] = z \/ rank[W[i]] < rank[z]
  BY <1>1, <1>3, <1>5, <1>7, LengthNat
<1>10. rank[W[i]] \in Nat /\ rank[z] \in Nat
  BY <1>1, <1>8
<1> QED BY <1>4, <1>8, <1>9, <1>10

-----------------------------------------------------------------------------
(* Types *)

LEMMA RemovedTyped ==
    ASSUME NEW n \in [Nodes -> Nodes], NEW p \in [Nodes -> Nodes], NEW x \in Tmgis
    PROVE  /\ Removed(n, p, x).nxt \in [Nodes -> Nodes] /\ Removed(n, p, x).prv \in [Nodes -> Nodes]
           /\ Appended(n, p, x).nxt \in [Nodes -> Nodes] /\ Appended(n, p, x).prv \in [Nodes -> Nodes]
<1>1. x \in Nodes /\ None \in Nodes /\ p[x] \in Nodes /\ n[x] \in Nodes /\ p[None] \in Nodes
  BY DEF Nodes
<1> QED BY <1>1 DEF Removed, Appended

(* A lookup yields a listed TMGI of those it looks for, or none.            *)
LEMMA LookupTyped ==
    ASSUME TypeOK, NEW o
    PROVE  /\ TmgiOf(o) \in Tmgis \cup {None}
           /\ TmgiOf(o) # None => TmgiOf(o) \in Listed /\ tmgi[TmgiOf(o)].obj = o
           /\ Matching(o) \in Tmgis \cup {None}
           /\ Matching(o) # None => Matching(o) \in Listed
<1>1. nxt \in [Nodes -> Nodes]
  BY DEF TypeOK
<1>2. {x \in Tmgis : tmgi[x].obj = o} \in SUBSET Tmgis
  OBVIOUS
<1>3. {x \in Tmgis : tmgi[x].sid = o \/ (tmgi[x].sid = None /\ ~tmgi[x].allocated)} \in SUBSET Tmgis
  OBVIOUS
<1> QED BY <1>1, <1>2, <1>3, FirstTyped DEF TmgiOf, Matching, FirstIn, Listed

(* The TMGI of a callback awaits no more. *)
LEMMA TellTyped ==
    ASSUME NEW x \in Tmgis \cup {None}, NEW t \in [Tmgis -> TmgiObject], NEW a \in Answer,
           NEW res \in {"OK", "DONE", "ERROR"}, Tell(x, t, res, a)
    PROVE  tmgi' \in [Tmgis -> TmgiObject] /\ told' \in Result \cup {None}
<1>1. CASE x # None /\ tmgi[x].callback
  <2>1. /\ x \in Tmgis /\ tmgi' = [t EXCEPT ![x].awaits = FALSE]
        /\ told' = [to |-> x, res |-> res, sid |-> t[x].sid, req |-> a.req]
    BY <1>1 DEF Tell
  <2>2. t[x].sid \in Ids \cup {None} /\ a.req \in Request
    BY <2>1 DEF TmgiObject, Answer
  <2> QED BY <2>1, <2>2 DEF TmgiObject, Result
<1>2. CASE ~(x # None /\ tmgi[x].callback)
  <2>1. tmgi' = t /\ told' = None
    BY <1>2 DEF Tell
  <2> QED BY <2>1
<1> QED BY <1>1, <1>2

LEMMA AllocateTyped ==
    ASSUME TypeOK, NEW x \in Tmgis, NEW t \in [Tmgis -> TmgiObject], Allocate(x, t)
    PROVE  /\ tmgi' \in [Tmgis -> TmgiObject] /\ xacts' \subseteq Request /\ wire' \subseteq Request
           /\ k' \in 0 .. MaxReq
<1>1. k \in 0 .. MaxReq /\ k < MaxReq /\ MaxReq \in Nat /\ k' = k + 1
  BY TmgiAssumption DEF TypeOK, Allocate
<1>2. k + 1 \in 1 .. MaxReq /\ k + 1 \in SessionObj .. MaxReq /\ k + 1 \in NoObj .. MaxReq
  BY <1>1 DEF SessionObj, NoObj
<1> DEFINE r == [k |-> k + 1, op |-> "allocate", of |-> x, obj |-> k + 1, sid |-> None]
           u == [t EXCEPT ![x].obj = k + 1, ![x].awaits = TRUE]
<1>3. r \in Request
  BY <1>2 DEF Request
<1>4. u \in [Tmgis -> TmgiObject]
  BY <1>2 DEF TmgiObject
<1>5. tmgi' = u /\ xacts' = Surviving(u) \cup {r} /\ wire' = wire \cup {r}
  BY DEF Allocate
<1> HIDE DEF r, u
<1> QED BY <1>1, <1>3, <1>4, <1>5 DEF TypeOK, Surviving

LEMMA TypeStep == TypeOK /\ [Next]_vars => TypeOK'
<1> SUFFICES ASSUME TypeOK, [Next]_vars PROVE TypeOK'
  OBVIOUS
<1>0. /\ tmgi \in [Tmgis -> TmgiObject] /\ nxt \in [Nodes -> Nodes] /\ prv \in [Nodes -> Nodes]
      /\ xacts \subseteq Request /\ wire \subseteq Request /\ answers \subseteq Answer
      /\ remote \subseteq Ids /\ k \in 0 .. MaxReq /\ failed \in BOOLEAN /\ MaxReq \in Nat
      /\ fault \in {"none", "freed", "null"}
  BY TmgiAssumption DEF TypeOK
<1>1. ASSUME NEW x \in Tmgis, CreateTmgi(x) PROVE TypeOK'
  <2> DEFINE t == [tmgi EXCEPT ![x].st = "live", ![x].by = "app", ![x].callback = TRUE]
  <2>1. t \in [Tmgis -> TmgiObject]
    <3> DEFINE q == [tmgi[x] EXCEPT !.st = "live", !.by = "app", !.callback = TRUE]
    <3>1. q \in TmgiObject
      BY <1>0 DEF TmgiObject
    <3>2. t = [tmgi EXCEPT ![x] = q]
      BY <1>0
    <3> HIDE DEF q, t
    <3> QED BY <1>0, <3>1, <3>2
  <2>2. Allocate(x, t) /\ Relink(Appended(nxt, prv, x))
    BY <1>1 DEF CreateTmgi
  <2> HIDE DEF t
  <2>3. /\ tmgi' \in [Tmgis -> TmgiObject] /\ xacts' \subseteq Request /\ wire' \subseteq Request
        /\ k' \in 0 .. MaxReq
    BY <2>1, <2>2, AllocateTyped
  <2> QED BY <1>0, <1>1, <2>2, <2>3, RemovedTyped DEF TypeOK, CreateTmgi, Relink
<1>2. ASSUME NEW x \in Tmgis, NEW i \in Ids \cup {None}, NEW c \in BOOLEAN, NewTmgi(x, i, c)
      PROVE  TypeOK'
  <2>1. tmgi' \in [Tmgis -> TmgiObject]
    BY <1>0, <1>2 DEF NewTmgi, TmgiObject, NoObj
  <2> QED BY <1>0, <1>2, <2>1, RemovedTyped DEF TypeOK, NewTmgi, Relink
<1>3. ASSUME NEW x \in Tmgis, SendAllocate(x) PROVE TypeOK'
  <2>1. /\ tmgi' \in [Tmgis -> TmgiObject] /\ xacts' \subseteq Request /\ wire' \subseteq Request
        /\ k' \in 0 .. MaxReq
    BY <1>0, <1>3, AllocateTyped DEF SendAllocate
  <2> QED BY <1>0, <1>3, <2>1 DEF TypeOK, SendAllocate
<1>4. ASSUME NEW x \in Tmgis, SendDeallocate(x) PROVE TypeOK'
  <2> DEFINE o == ObjectFor(x)
             r == [k |-> k + 1, op |-> "deallocate", of |-> x, obj |-> o, sid |-> tmgi[x].sid]
  <2>1. k + 1 \in 1 .. MaxReq /\ k' = k + 1
    BY <1>0, <1>4 DEF SendDeallocate
  <2>2. o \in SessionObj .. MaxReq
    BY <1>0, <2>1 DEF ObjectFor, TmgiObject, SessionObj, NoObj
  <2>3. /\ tmgi' = [tmgi EXCEPT ![x].obj = o, ![x].awaits = TRUE]
        /\ xacts' = xacts \cup {r} /\ wire' = wire \cup {r}
    BY <1>4 DEF SendDeallocate
  <2> HIDE DEF o
  <2>4. r \in Request
    BY <1>0, <2>1, <2>2 DEF Request, TmgiObject
  <2>5. tmgi' \in [Tmgis -> TmgiObject]
    <3>1. o \in NoObj .. MaxReq
      BY <2>2, <1>0 DEF SessionObj, NoObj
    <3> DEFINE q == [tmgi[x] EXCEPT !.obj = o, !.awaits = TRUE]
    <3>2. q \in TmgiObject
      BY <1>0, <3>1 DEF TmgiObject
    <3>3. tmgi' = [tmgi EXCEPT ![x] = q]
      BY <1>0, <2>3
    <3> HIDE DEF q
    <3> QED BY <1>0, <3>2, <3>3
  <2> HIDE DEF r
  <2> QED BY <1>0, <1>4, <2>1, <2>3, <2>4, <2>5 DEF TypeOK, SendDeallocate
<1>5. ASSUME NEW x \in Tmgis, FreeTmgi(x) PROVE TypeOK'
  <2>1. tmgi' \in [Tmgis -> TmgiObject]
    BY <1>0, <1>5 DEF FreeTmgi, Freed, TmgiObject
  <2>2. xacts' \subseteq xacts
    BY <1>5 DEF FreeTmgi, Surviving
  <2> QED BY <1>0, <1>5, <2>1, <2>2, RemovedTyped DEF TypeOK, FreeTmgi, Relink
<1>6. ASSUME NEW x \in Tmgis, NEW y \in Tmgis, NEW i \in Ids, SessionAccepted(x, y, i) PROVE TypeOK'
  <2>1. tmgi' \in [Tmgis -> TmgiObject]
    <3> DEFINE of(c) == [st |-> "live", by |-> "session", sid |-> i, allocated |-> c,
                         callback |-> FALSE, obj |-> SessionObj, awaits |-> FALSE]
    <3>1. of(TRUE) \in TmgiObject /\ of(FALSE) \in TmgiObject
      BY <1>0 DEF TmgiObject, SessionObj, NoObj
    <3>2. tmgi' = [tmgi EXCEPT ![x] = of(TRUE), ![y] = of(FALSE)]
      BY <1>6 DEF SessionAccepted
    <3> HIDE DEF of
    <3> QED BY <1>0, <3>1, <3>2
  <2> DEFINE one == Appended(nxt, prv, x)
  <2>2. one.nxt \in [Nodes -> Nodes] /\ one.prv \in [Nodes -> Nodes]
    BY <1>0, RemovedTyped
  <2>3. nxt' = Appended(one.nxt, one.prv, y).nxt /\ prv' = Appended(one.nxt, one.prv, y).prv
    BY <1>6 DEF SessionAccepted, Relink
  <2> HIDE DEF one
  <2>4. nxt' \in [Nodes -> Nodes] /\ prv' \in [Nodes -> Nodes]
    BY <2>2, <2>3, RemovedTyped
  <2> QED BY <1>0, <1>6, <2>1, <2>4 DEF TypeOK, SessionAccepted
<1>7. ASSUME NEW x \in Tmgis, NEW y \in Tmgis, SessionGone(x, y) PROVE TypeOK'
  <2>1. tmgi' \in [Tmgis -> TmgiObject]
    BY <1>0, <1>7 DEF SessionGone, TmgiObject
  <2> DEFINE one == Removed(nxt, prv, x)
  <2>2. one.nxt \in [Nodes -> Nodes] /\ one.prv \in [Nodes -> Nodes]
    BY <1>0, RemovedTyped
  <2>3. nxt' = Removed(one.nxt, one.prv, y).nxt /\ prv' = Removed(one.nxt, one.prv, y).prv
    BY <1>7 DEF SessionGone, Relink
  <2> HIDE DEF one
  <2>4. nxt' \in [Nodes -> Nodes] /\ prv' \in [Nodes -> Nodes]
    BY <2>2, <2>3, RemovedTyped
  <2> QED BY <1>0, <1>7, <2>1, <2>4 DEF TypeOK, SessionGone
<1>8. CASE Mbsmf
  <2>1. ASSUME NEW r \in wire, NEW res \in {"ok", "refused", "bad"}, NEW i \in Ids \cup {None},
               wire' = wire \ {r}, answers' = answers \cup {[req |-> r, res |-> res, sid |-> i]},
               remote' \subseteq Ids, told' = None, UNCHANGED <<tmgi, nxt, prv, xacts, k, failed, fault>>
        PROVE  TypeOK'
    <3>1. [req |-> r, res |-> res, sid |-> i] \in Answer
      BY <1>0, <2>1 DEF Answer
    <3> QED BY <1>0, <2>1, <3>1 DEF TypeOK
  <2>2. ASSUME NEW r \in wire, NEW i \in Ids, ServeAllocate(r, i) PROVE TypeOK'
    BY <1>0, <2>1, <2>2 DEF ServeAllocate
  <2>3. ASSUME NEW r \in wire, ServeDeallocate(r) PROVE TypeOK'
    <3>1. r.sid \in Ids \cup {None}
      BY <1>0 DEF Request
    <3> QED BY <1>0, <2>1, <2>3, <3>1 DEF ServeDeallocate
  <2>4. ASSUME NEW r \in wire, NEW res \in {"refused", "bad"}, Refuse(r, res) PROVE TypeOK'
    BY <1>0, <2>1, <2>4 DEF Refuse
  <2> QED BY <1>8, <2>2, <2>3, <2>4 DEF Mbsmf
<1>9. CASE Library
  <2>1. ASSUME NEW a \in answers, Consume(a)
        PROVE  /\ answers' \subseteq Answer /\ xacts' \subseteq Request /\ wire' \subseteq Request
               /\ remote' \subseteq Ids /\ k' \in 0 .. MaxReq /\ fault' \in {"none", "freed", "null"}
               /\ a \in Answer
    BY <1>0, <2>1 DEF Consume
  <2>2. ASSUME NEW a \in answers, Unparsable(a) PROVE TypeOK'
    <3>1. TmgiOf(a.req.obj) \in Tmgis \cup {None}
      BY LookupTyped
    <3>2. tmgi' \in [Tmgis -> TmgiObject] /\ told' \in Result \cup {None}
      BY <1>0, <2>1, <2>2, <3>1, TellTyped DEF Unparsable
    <3> QED BY <1>0, <2>1, <2>2, <3>2 DEF TypeOK, Unparsable
  <2>3. ASSUME NEW a \in answers, Allocated(a) PROVE TypeOK'
    <3> DEFINE x == Matching(a.sid)
               t == IF x = None THEN tmgi ELSE [tmgi EXCEPT ![x].sid = a.sid, ![x].allocated = TRUE]
    <3>1. x \in Tmgis \cup {None}
      BY LookupTyped
    <3>2. t \in [Tmgis -> TmgiObject]
      <4>1. a.sid \in Ids \cup {None}
        BY <1>0 DEF Answer
      <4> HIDE DEF x
      <4> DEFINE q == [tmgi[x] EXCEPT !.sid = a.sid, !.allocated = TRUE]
      <4>2. x # None => q \in TmgiObject /\ t = [tmgi EXCEPT ![x] = q]
        BY <1>0, <3>1, <4>1 DEF TmgiObject
      <4> HIDE DEF q
      <4> QED BY <1>0, <3>1, <4>2
    <3>3. Tell(x, t, "OK", a)
      BY <2>3 DEF Allocated
    <3> HIDE DEF x, t
    <3>4. tmgi' \in [Tmgis -> TmgiObject] /\ told' \in Result \cup {None}
      BY <1>0, <3>1, <3>2, <3>3, TellTyped
    <3> QED BY <1>0, <2>1, <2>3, <3>4 DEF TypeOK, Allocated
  <2>4. ASSUME NEW a \in answers, AllocationRefused(a) PROVE TypeOK'
    BY <1>0, <2>1, <2>4 DEF TypeOK, AllocationRefused
  <2>5. ASSUME NEW a \in answers, Deallocated(a) PROVE TypeOK'
    <3> DEFINE x == Matching(a.req.sid)
    <3>1. x \in Tmgis \cup {None}
      BY LookupTyped
    <3>2. /\ Tell(x, tmgi, IF a.res = "ok" THEN "DONE" ELSE "ERROR", a) /\ Consume(a)
          /\ failed' = failed
          /\ IF x = None THEN UNCHANGED <<nxt, prv>> ELSE Relink(Removed(nxt, prv, x))
      BY <2>5 DEF Deallocated
    <3> HIDE DEF x
    <3>3. tmgi' \in [Tmgis -> TmgiObject] /\ told' \in Result \cup {None}
      BY <1>0, <3>1, <3>2, TellTyped
    <3>4. nxt' \in [Nodes -> Nodes] /\ prv' \in [Nodes -> Nodes]
      BY <1>0, <3>1, <3>2, RemovedTyped DEF Relink
    <3> QED BY <1>0, <2>1, <3>2, <3>3, <3>4 DEF TypeOK
  <2>6. ASSUME NEW a \in answers, NotOurs(a) PROVE TypeOK'
    BY <1>0, <2>6 DEF TypeOK, NotOurs
  <2> QED BY <1>9, <2>2, <2>3, <2>4, <2>5, <2>6 DEF Library
<1>10. CASE UNCHANGED vars
  BY <1>10 DEF vars, TypeOK
<1> QED BY <1>1, <1>2, <1>3, <1>4, <1>5, <1>6, <1>7, <1>8, <1>9, <1>10
        DEF Next, Application, Session

LEMMA TypeInit == Init => TypeOK
<1> SUFFICES ASSUME Init PROVE TypeOK
  OBVIOUS
<1>1. tmgi \in [Tmgis -> TmgiObject]
  BY TmgiAssumption DEF Init, TmgiObject, NoObj
<1>2. 0 \in 0 .. MaxReq
  BY TmgiAssumption
<1> QED BY <1>1, <1>2 DEF Init, TypeOK, Nodes

(* Every variable has its type, whatever the application does. *)
THEOREM TypeCorrect == Spec => []TypeOK
  BY TypeInit, TypeStep, PTL DEF Spec

-----------------------------------------------------------------------------
(* A disciplined application *)

(* The application keeps every rule. *)
Disciplined == Rules = {"waits", "fresh", "quiet", "apart", "used", "kept", "session"}

Live(x) == tmgi[x].st = "live"

(* The places of the nodes in the list. A TMGI of the application comes     *)
(* before those of the session that have its id.                            *)
Chained(rank, b) ==
    /\ Linked(nxt, prv, Listed, rank)
    /\ \A x \in Listed : rank[x] < b
    /\ \A x, y \in Listed :
          tmgi[x].by = "app" /\ tmgi[y].by = "session" /\ tmgi[x].sid = tmgi[y].sid
          => rank[x] < rank[y]

Chain == \E rank \in [Tmgis -> Nat], b \in Nat : Chained(rank, b)

(* A listed TMGI is allocated. A live one without an id is on the list,     *)
(* belongs to the application and has its callback; those of the session    *)
(* are listed, and their id is allocated. The application's TMGIs share no  *)
(* sbi_object.                                                              *)
TmgiSound(x) ==
    /\ tmgi[x].by \in {"app", "session"} /\ tmgi[x].obj <= k
    /\ tmgi[x].by = "app" => tmgi[x].obj # SessionObj
    /\ tmgi[x].by = "session" => x \in Listed /\ tmgi[x].obj = SessionObj /\ tmgi[x].sid \in remote
    /\ tmgi[x].sid = None =>
          x \in Listed /\ tmgi[x].by = "app" /\ tmgi[x].callback /\ ~tmgi[x].allocated

TmgisSound ==
    /\ \A x \in Listed : Live(x)
    /\ \A x \in Tmgis : tmgi[x].st = "none" =>
          tmgi[x].obj = NoObj /\ tmgi[x].by = None /\ tmgi[x].sid = None /\ ~tmgi[x].allocated
    /\ \A x \in Tmgis : Live(x) => TmgiSound(x)
    /\ \A x, y \in Tmgis :
          /\ Live(x) /\ Live(y) /\ tmgi[x].by = "app" /\ tmgi[y].by = "app"
          /\ tmgi[x].obj # NoObj /\ tmgi[x].obj = tmgi[y].obj
          => x = y
    /\ \A x, y, z \in Tmgis :
          tmgi[x].by = "session" /\ tmgi[y].by = "session" /\ tmgi[z].by = "session"
          => x = y \/ y = z \/ x = z

(* A transaction is of a listed TMGI of the application and on its object.  *)
(* A deallocation names the id of the TMGI, is awaited, and the only one.   *)
OwnRequest(r) ==
    /\ r.of \in Listed /\ tmgi[r.of].by = "app" /\ tmgi[r.of].obj = r.obj
    /\ r.op = "deallocate" => r.sid = tmgi[r.of].sid /\ r.sid # None /\ tmgi[r.of].awaits

RequestsSound ==
    /\ \A r \in xacts : OwnRequest(r)
    /\ \A r, q \in xacts : r.op = "deallocate" /\ q.op = "deallocate" /\ r.of = q.of => r = q
    /\ Deallocating => Unnamed = {}

(* A request is on the wire, answered or neither. *)
MessagesSound ==
    /\ \A r \in xacts \cup wire : r.k <= k
    /\ \A a \in answers : a.req.k <= k /\ a.req \notin wire
    /\ \A a, b \in answers : a.req = b.req => a = b

(* The deallocation of x was served and is not handled yet. *)
Gone(x) ==
    \E a \in answers :
        a.res = "ok" /\ a.req \in xacts /\ a.req.of = x /\ a.req.op = "deallocate"

(* The ids that answers bring. *)
Granted(a) == a.req \in xacts /\ a.req.op = "allocate" /\ a.res = "ok"

(* A deallocation on the wire names an allocated id that only the TMGI it   *)
(* is about has, and a granted id is nobody's yet.                          *)
IdsInTransit ==
    /\ \A r \in wire : r.op = "deallocate" =>
          /\ r.sid \in remote
          /\ \A x \in Listed : tmgi[x].sid = r.sid => r \in xacts /\ r.of = x
          /\ \A q \in wire : q.op = "deallocate" /\ q.sid = r.sid => q = r
    /\ \A a \in answers : Granted(a) =>
          /\ a.sid \in remote
          /\ \A x \in Listed : tmgi[x].sid # a.sid
          /\ \A r \in wire : r.op = "deallocate" => r.sid # a.sid
          /\ \A b \in answers : Granted(b) /\ a.sid = b.sid => a = b

(* An id of the application is allocated until its deallocation is served,  *)
(* and only then the session may have it.                                   *)
IdsKept ==
    \A x \in Listed : tmgi[x].by = "app" /\ tmgi[x].sid # None =>
        /\ tmgi[x].sid \in remote \/ Gone(x)
        /\ \A y \in Listed \ {x} : tmgi[y].sid = tmgi[x].sid => tmgi[y].by = "session" /\ Gone(x)

(* The allocations outstanding, and the TMGIs that wait for an id. *)
Allocating == {r \in xacts : r.op = "allocate"}
Waiting == {x \in Unnamed : tmgi[x].awaits}

Counted ==
    /\ IsFiniteSet(Allocating)
    /\ Cardinality(Allocating) <= Cardinality(Waiting)
    /\ ~failed => Cardinality(Allocating) = Cardinality(Waiting) /\ Waiting = Unnamed

Others ==
    /\ TmgisSound
    /\ RequestsSound
    /\ MessagesSound
    /\ IdsInTransit
    /\ IdsKept
    /\ Counted
    /\ NoFault
    /\ DoneToAsker

TInv == TypeOK /\ Chain /\ Others

-----------------------------------------------------------------------------
(* What the steps do to the list *)

(* TMGIs of the application and the session that have the same id. *)
SameId(x, y) == tmgi[x].by = "app" /\ tmgi[y].by = "session" /\ tmgi[x].sid = tmgi[y].sid

(* The ranks when x is put after all others. *)
Placed(rank, x, b) == [rank EXCEPT ![x] = b]

(* All ranks are below b. *)
Below(n, p, L, rank, b) == Linked(n, p, L, rank) /\ b \in Nat /\ \A y \in L : rank[y] < b

(* The list r with x put after all others. *)
PlacedIn(n, p, L, rank, x, b, r) ==
    /\ Below(Appended(n, p, x).nxt, Appended(n, p, x).prv, L \cup {x}, r, b + 1)
    /\ r \in [Tmgis -> Nat]
    /\ \A y \in L : r[y] = rank[y]
    /\ r[x] = b

LEMMA Ranked ==
    ASSUME NEW n, NEW p, NEW L, NEW rank, NEW b, Below(n, p, L, rank, b),
           NEW x \in Tmgis \ L
    PROVE  PlacedIn(n, p, L, rank, x, b, Placed(rank, x, b))
<1> DEFINE r == Placed(rank, x, b)
<1>1. rank \in [Tmgis -> Nat] /\ L \subseteq Tmgis /\ Linked(n, p, L, rank) /\ b \in Nat
      /\ \A y \in L : rank[y] < b
  BY DEF Linked, Below
<1>2. Linked(Appended(n, p, x).nxt, Appended(n, p, x).prv, L \cup {x}, r)
  BY <1>1, AppendLinked DEF Placed
<1>3. r \in [Tmgis -> Nat] /\ (\A y \in L : r[y] = rank[y]) /\ r[x] = b
  BY <1>1 DEF Placed
<1> HIDE DEF r
<1>4. \A y \in L \cup {x} : r[y] < b + 1
  BY <1>1, <1>3
<1> QED BY <1>1, <1>2, <1>3, <1>4 DEF PlacedIn, Below, r

LEMMA ChainSame ==
    ASSUME Chain, nxt' = nxt, prv' = prv,
           \A x, y \in Listed : SameId(x, y)' => SameId(x, y)
    PROVE  Chain' /\ Listed' = Listed
<1>1. Listed' = Listed
  BY DEF Listed
<1>2. PICK rank \in [Tmgis -> Nat], b \in Nat : Chained(rank, b)
  BY DEF Chain
<1>3. Chained(rank, b)'
  BY <1>1, <1>2 DEF Chained, SameId
<1> QED BY <1>1, <1>3 DEF Chain

LEMMA ChainAppend ==
    ASSUME Chain, NEW x \in Tmgis \ Listed, Relink(Appended(nxt, prv, x)),
           \A y, z \in Listed \cup {x} : SameId(y, z)' => SameId(y, z) /\ y # x /\ z # x
    PROVE  Chain' /\ Listed' = Listed \cup {x}
<1>1. PICK rank \in [Tmgis -> Nat], b \in Nat : Chained(rank, b)
  BY DEF Chain
<1> DEFINE r == Placed(rank, x, b)
<1>2. PlacedIn(nxt, prv, Listed, rank, x, b, r)
  <2>1. Below(nxt, prv, Listed, rank, b)
    BY <1>1 DEF Chained, Below
  <2> QED BY <2>1, Ranked
<1> HIDE DEF r
<1>3. /\ Below(nxt', prv', Listed \cup {x}, r, b + 1) /\ r \in [Tmgis -> Nat]
      /\ \A y \in Listed : r[y] = rank[y]
  BY <1>2 DEF PlacedIn, Relink
<1>4. Linked(nxt', prv', Listed \cup {x}, r)
  BY <1>3 DEF Below
<1>5. Listed' = Listed \cup {x}
  BY <1>4, ListLinked DEF Listed
<1>6. Linked(nxt, prv, Listed, r)' /\ b + 1 \in Nat /\ \A y \in Listed' : r[y] < b + 1
  BY <1>3, <1>4, <1>5 DEF Below
<1>7. \A y, z \in Listed' : SameId(y, z)' => r[y] < r[z]
  BY <1>1, <1>3, <1>5 DEF Chained, SameId
<1>8. Chained(r, b + 1)'
  BY <1>6, <1>7 DEF Chained, SameId
<1> QED BY <1>3, <1>5, <1>6, <1>8 DEF Chain

LEMMA ChainRemove ==
    ASSUME Chain, NEW x \in Listed, Relink(Removed(nxt, prv, x)),
           \A y, z \in Listed \ {x} : SameId(y, z)' => SameId(y, z)
    PROVE  Chain' /\ Listed' = Listed \ {x}
<1>1. PICK rank \in [Tmgis -> Nat], b \in Nat : Chained(rank, b)
  BY DEF Chain
<1>2. Linked(nxt', prv', Listed \ {x}, rank)
  BY <1>1, RemoveLinked DEF Chained, Relink
<1>3. Listed' = Listed \ {x}
  BY <1>2, ListLinked DEF Listed
<1>4. Linked(nxt, prv, Listed, rank)'
  BY <1>2, <1>3
<1>5. Chained(rank, b)'
  BY <1>1, <1>3, <1>4 DEF Chained, SameId
<1> QED BY <1>3, <1>5 DEF Chain

(* The TMGIs of a new session come after all others. *)
LEMMA ChainSession ==
    ASSUME Chain, NEW x \in Tmgis \ Listed, NEW y \in Tmgis \ (Listed \cup {x}),
           LET one == Appended(nxt, prv, x) IN Relink(Appended(one.nxt, one.prv, y)),
           \A u, v \in Listed \cup {x, y} : SameId(u, v)' => u \in Listed /\ v \notin Listed
    PROVE  Chain' /\ Listed' = Listed \cup {x, y}
<1> DEFINE one == Appended(nxt, prv, x)
<1>1. PICK rank \in [Tmgis -> Nat], b \in Nat : Chained(rank, b)
  BY DEF Chain
<1> DEFINE r == Placed(rank, x, b)
<1>2. PlacedIn(nxt, prv, Listed, rank, x, b, r)
  <2>1. Below(nxt, prv, Listed, rank, b)
    BY <1>1 DEF Chained, Below
  <2> QED BY <2>1, Ranked
<1> HIDE DEF r
<1>3. /\ Below(one.nxt, one.prv, Listed \cup {x}, r, b + 1)
      /\ \A u \in Listed : r[u] = rank[u]
      /\ r[x] = b
  BY <1>2 DEF PlacedIn
<1>4. Relink(Appended(one.nxt, one.prv, y))
  OBVIOUS
<1> HIDE DEF one
<1> DEFINE s == Placed(r, y, b + 1)
<1>5. PlacedIn(one.nxt, one.prv, Listed \cup {x}, r, y, b + 1, s)
  <2>1. y \in Tmgis \ (Listed \cup {x})
    OBVIOUS
  <2> HIDE DEF s
  <2> QED BY <1>3, <2>1, Ranked DEF s
<1> HIDE DEF s
<1>6. (Listed \cup {x}) \cup {y} = Listed \cup {x, y}
  OBVIOUS
<1>7. /\ Below(nxt', prv', Listed \cup {x, y}, s, b + 1 + 1) /\ s \in [Tmgis -> Nat]
      /\ \A u \in Listed \cup {x} : s[u] = r[u]
      /\ s[y] = b + 1
  BY <1>5, <1>4, <1>6 DEF PlacedIn, Relink
<1>8. Linked(nxt', prv', Listed \cup {x, y}, s)
  BY <1>7 DEF Below
<1>9. Listed' = Listed \cup {x, y}
  BY <1>8, ListLinked DEF Listed
<1>10. Linked(nxt, prv, Listed, s)' /\ b + 1 + 1 \in Nat /\ \A u \in Listed' : s[u] < b + 1 + 1
  BY <1>7, <1>8, <1>9 DEF Below
<1>11. ASSUME NEW u \in Listed', NEW v \in Listed', SameId(u, v)' PROVE s[u] < s[v]
  <2>1. u \in Listed /\ v \in {x, y}
    BY <1>11, <1>9
  <2>2. s[u] = rank[u] /\ rank[u] < b /\ rank[u] \in Nat /\ s[v] \in {b, b + 1}
    BY <2>1, <1>1, <1>3, <1>7 DEF Chained, Linked
  <2> QED BY <2>2
<1>12. Chained(s, b + 1 + 1)'
  BY <1>10, <1>11 DEF Chained, SameId
<1> QED BY <1>7, <1>9, <1>10, <1>12 DEF Chain

(* The TMGIs of a session that is gone are taken off. *)
LEMMA ChainGone ==
    ASSUME Chain, NEW x \in Listed, NEW y \in Listed \ {x},
           LET one == Removed(nxt, prv, x) IN Relink(Removed(one.nxt, one.prv, y)),
           \A u, v \in Listed \ {x, y} : SameId(u, v)' => SameId(u, v)
    PROVE  Chain' /\ Listed' = Listed \ {x, y}
<1> DEFINE one == Removed(nxt, prv, x)
<1>1. PICK rank \in [Tmgis -> Nat], b \in Nat : Chained(rank, b)
  BY DEF Chain
<1>2. Linked(one.nxt, one.prv, Listed \ {x}, rank)
  BY <1>1, RemoveLinked DEF Chained
<1>3. Relink(Removed(one.nxt, one.prv, y))
  OBVIOUS
<1> HIDE DEF one
<1>4. Linked(nxt', prv', (Listed \ {x}) \ {y}, rank)
  <2>1. y \in Listed \ {x}
    OBVIOUS
  <2>2. Linked(Removed(one.nxt, one.prv, y).nxt, Removed(one.nxt, one.prv, y).prv,
               (Listed \ {x}) \ {y}, rank)
    BY <1>2, <2>1, RemoveLinked
  <2> QED BY <2>2, <1>3 DEF Relink
<1>5. (Listed \ {x}) \ {y} = Listed \ {x, y}
  OBVIOUS
<1>6. Listed' = Listed \ {x, y} /\ Linked(nxt, prv, Listed, rank)'
  BY <1>4, <1>5, ListLinked DEF Listed
<1>7. Chained(rank, b)'
  BY <1>1, <1>6 DEF Chained, SameId
<1> QED BY <1>6, <1>7 DEF Chain

-----------------------------------------------------------------------------
(* What the invariant says of a state *)

LEMMA Listing ==
    ASSUME TypeOK, TmgisSound
    PROVE  /\ Listed \subseteq Tmgis /\ None \notin Tmgis /\ None \notin Ids
           /\ \A x \in Listed : Live(x) /\ TmgiSound(x)
           /\ ~WalkFaults
<1>1. Listed \subseteq Tmgis
  BY ListTyped DEF TypeOK, Listed
<1> QED BY <1>1, TmgiAssumption DEF TmgisSound, WalkFaults, Live

(* A transaction leads to the TMGI it was made for. *)
LEMMA OwnLookup ==
    ASSUME TypeOK, TmgisSound, RequestsSound, NEW r \in xacts
    PROVE  TmgiOf(r.obj) = r.of
<1> DEFINE S == {x \in Tmgis : tmgi[x].obj = r.obj}
           y == TmgiOf(r.obj)
<1>1. r.of \in Listed /\ r.of \in Tmgis /\ tmgi[r.of].by = "app" /\ tmgi[r.of].obj = r.obj
  BY Listing DEF RequestsSound, OwnRequest
<1>2. r.obj # NoObj /\ r.obj # SessionObj
  <2>1. r.obj \in SessionObj .. MaxReq
    BY DEF TypeOK, Request
  <2>2. TmgiSound(r.of)
    BY <1>1, Listing
  <2> QED BY <1>1, <2>1, <2>2, TmgiAssumption DEF SessionObj, NoObj, TmgiSound
<1>3. y \in S \cap Listed
  <2>1. r.of \in S \cap Listed
    BY <1>1
  <2>2. y = FirstOf(nxt, S) /\ S \in SUBSET Tmgis
    BY DEF TmgiOf, FirstIn
  <2> HIDE DEF S, y
  <2> QED BY <2>1, <2>2, FirstTyped DEF Listed, TypeOK
<1>4. Live(y) /\ TmgiSound(y) /\ Live(r.of) /\ y \in Tmgis /\ tmgi[y].obj = r.obj
  BY <1>1, <1>3, Listing
<1>5. tmgi[y].by = "app"
  BY <1>2, <1>4 DEF TmgiSound
<1> HIDE DEF y
<1>6. y = r.of
  BY <1>1, <1>2, <1>4, <1>5 DEF TmgisSound
<1> QED BY <1>6 DEF y

LEMMA OursIsOwn ==
    ASSUME TypeOK, TmgisSound, RequestsSound, NEW a \in answers
    PROVE  Ours(a) <=> a.req \in xacts
<1>1. ASSUME a.req \in xacts PROVE TmgiOf(a.req.obj) # None
  <2>1. TmgiOf(a.req.obj) = a.req.of
    BY <1>1, OwnLookup
  <2>2. a.req.of \in Listed
    BY <1>1 DEF RequestsSound, OwnRequest
  <2> QED BY <2>1, <2>2, Listing
<1> QED BY <1>1 DEF Ours

(* Allocations are outstanding only while a TMGI waits. *)
LEMMA SomeWait ==
    ASSUME TypeOK, RequestsSound, Counted
    PROVE  /\ IsFiniteSet(Unnamed) /\ IsFiniteSet(Waiting) /\ IsFiniteSet(Allocating)
           /\ Waiting = {} => Allocating = {}
           /\ Allocating # {} => ~Deallocating /\ Waiting # {}
<1>1. IsFiniteSet(Unnamed)
  BY TmgiAssumption, FS_Subset DEF Unnamed
<1>2. IsFiniteSet(Waiting)
  BY <1>1, FS_Subset DEF Waiting
<1>3. IsFiniteSet(Allocating) /\ Cardinality(Allocating) <= Cardinality(Waiting)
  BY DEF Counted
<1>4. ASSUME Waiting = {} PROVE Allocating = {}
  <2>1. Cardinality(Waiting) = 0
    BY <1>4, FS_EmptySet
  <2>2. Cardinality(Allocating) \in Nat
    BY <1>3, FS_CardinalityType
  <2>3. Cardinality(Allocating) = 0
    BY <1>3, <2>1, <2>2
  <2> QED BY <1>3, <2>3, FS_EmptySet
<1>5. Deallocating => Waiting = {}
  BY DEF RequestsSound, Waiting
<1> QED BY <1>1, <1>2, <1>3, <1>4, <1>5

LEMMA CountSame ==
    ASSUME Counted, Allocating' = Allocating, Unnamed' = Unnamed, Waiting' = Waiting,
           failed' = failed
    PROVE  Counted'
  BY DEF Counted

(* With other objects unchanged, and that of x gone or new, the transactions *)
(* of x are gone and the others are left.                                    *)
LEMMA OthersSurvive ==
    ASSUME TypeOK, TmgisSound, RequestsSound, NEW x \in Tmgis, NEW t,
           \A z \in Tmgis \ {x} : t[z].st = tmgi[z].st /\ t[z].obj = tmgi[z].obj,
           t[x].st = "live" => t[x].obj > k
    PROVE  Surviving(t) = {r \in xacts : r.of # x}
<1>1. ASSUME NEW r \in xacts
      PROVE  /\ r.of \in Tmgis /\ Live(r.of) /\ tmgi[r.of].by = "app" /\ tmgi[r.of].obj = r.obj
             /\ r.obj # SessionObj /\ r.obj # NoObj /\ r.obj <= k
  <2>1. /\ r.of \in Listed /\ r.of \in Tmgis /\ tmgi[r.of].by = "app" /\ tmgi[r.of].obj = r.obj
        /\ Live(r.of) /\ TmgiSound(r.of)
    BY Listing DEF RequestsSound, OwnRequest
  <2>2. r.obj \in SessionObj .. MaxReq
    BY DEF TypeOK, Request
  <2> QED BY <2>1, <2>2, TmgiAssumption DEF SessionObj, NoObj, TmgiSound
<1>2. ASSUME NEW r \in xacts, r.of # x PROVE r \in Surviving(t)
  BY <1>1, <1>2 DEF Surviving, Live
<1>3. ASSUME NEW r \in Surviving(t) PROVE r \in xacts /\ r.of # x
  <2>1. r \in xacts
    BY DEF Surviving
  <2>2. PICK z \in Tmgis : t[z].st = "live" /\ t[z].obj = r.obj
    BY <2>1, <1>1 DEF Surviving
  <2>3. z # x
    <3>1. SUFFICES ASSUME z = x PROVE FALSE
      OBVIOUS
    <3>2. t[x].obj > k /\ t[x].obj = r.obj /\ r.obj <= k
      BY <2>1, <2>2, <3>1, <1>1
    <3>3. r.obj \in SessionObj .. MaxReq /\ k \in 0 .. MaxReq
      BY <2>1 DEF TypeOK, Request
    <3> QED BY <3>2, <3>3, TmgiAssumption DEF SessionObj
  <2>4. Live(z) /\ tmgi[z].obj = r.obj /\ TmgiSound(z)
    BY <2>2, <2>3 DEF Live, TmgisSound
  <2>5. tmgi[z].by = "app"
    BY <2>1, <2>4, <1>1 DEF TmgiSound
  <2>6. z = r.of
    BY <2>1, <2>4, <2>5, <1>1 DEF TmgisSound
  <2> QED BY <2>1, <2>3, <2>6
<1>4. Surviving(t) \subseteq xacts
  BY DEF Surviving
<1> QED BY <1>2, <1>3, <1>4

-----------------------------------------------------------------------------
(* The steps of the MB-SMF, and answers of no transaction *)

(* What the MB-SMF leaves alone. *)
Untouched == tmgi' = tmgi /\ nxt' = nxt /\ prv' = prv /\ xacts' = xacts /\ k' = k /\ failed' = failed

LEMMA ListStays ==
    ASSUME Chain, Untouched
    PROVE  Chain' /\ Listed' = Listed
<1>1. nxt' = nxt /\ prv' = prv /\ \A x, y \in Listed : SameId(x, y)' => SameId(x, y)
  BY DEF SameId, Untouched
<1> QED BY <1>1, ChainSame

LEMMA CountStays ==
    ASSUME Counted, Untouched
    PROVE  Counted'
  BY CountSame DEF Untouched, Allocating, Unnamed, Waiting

LEMMA RequestsStay ==
    ASSUME RequestsSound, Untouched, Listed' = Listed
    PROVE  RequestsSound'
  BY DEF RequestsSound, OwnRequest, Untouched, Deallocating, Unnamed

LEMMA ServeAllocateKeeps ==
    ASSUME TypeOK, Chain, Others, NEW r \in wire, NEW i \in Ids, ServeAllocate(r, i)
    PROVE  Chain' /\ Others'
<1> DEFINE a == [req |-> r, res |-> "ok", sid |-> i]
<1>1. /\ r.op = "allocate" /\ i \notin remote /\ wire' = wire \ {r} /\ remote' = remote \cup {i}
      /\ answers' = answers \cup {a} /\ told' = None /\ fault' = fault
      /\ a.req = r /\ a.res = "ok" /\ a.sid = i
  BY DEF ServeAllocate
<1> HIDE DEF a
<1>2. Untouched
  BY DEF ServeAllocate, Untouched
<1>3. Chain' /\ Listed' = Listed
  BY <1>2, ListStays
<1>4. Listed \subseteq Tmgis /\ None \notin Ids /\ \A x \in Listed : Live(x) /\ TmgiSound(x)
  BY Listing DEF Others
<1>5. TmgisSound'
  BY <1>1, <1>2, <1>3 DEF Others, Untouched, TmgisSound, TmgiSound, Live
<1>6. RequestsSound' /\ Counted'
  BY <1>2, <1>3, RequestsStay, CountStays DEF Others
<1>7. MessagesSound'
  BY <1>1, <1>2 DEF Others, MessagesSound, Untouched
<1>8. \A x \in Listed : Gone(x) => Gone(x)'
  BY <1>1, <1>2 DEF Gone, Untouched
<1>9. Granted(a)' => \A x \in Listed : ~Gone(x)
  <2>1. Granted(a)' => r \in Allocating
    BY <1>1, <1>2 DEF Granted, Allocating, Untouched
  <2>2. r \in Allocating => ~Deallocating
    BY SomeWait DEF Others
  <2> QED BY <2>1, <2>2 DEF Gone, Deallocating
<1>10. \A b \in answers : Granted(b)' => Granted(b)
  BY <1>2 DEF Granted, Untouched
<1>11. IdsInTransit'
  <2>1. ASSUME NEW q \in wire', q.op = "deallocate"
        PROVE  /\ q.sid \in remote'
               /\ \A x \in Listed' : tmgi'[x].sid = q.sid => q \in xacts' /\ q.of = x
               /\ \A p \in wire' : p.op = "deallocate" /\ p.sid = q.sid => p = q
    BY <2>1, <1>1, <1>2, <1>3 DEF Others, IdsInTransit, Untouched
  <2>2. \A q \in wire : q.op = "deallocate" => q.sid \in remote
    BY DEF Others, IdsInTransit
  <2>3. \A b \in answers : Granted(b) => b.sid \in remote
    BY DEF Others, IdsInTransit
  <2>4. ASSUME Granted(a)', NEW x \in Listed PROVE tmgi[x].sid # i
    <3>1. TmgiSound(x) /\ tmgi[x].by \in {"app", "session"}
      BY <1>4 DEF TmgiSound
    <3>2. tmgi[x].by = "session" => tmgi[x].sid \in remote
      BY <3>1 DEF TmgiSound
    <3>3. tmgi[x].by = "app" /\ tmgi[x].sid # None => tmgi[x].sid \in remote
      BY <2>4, <1>9 DEF Others, IdsKept
    <3> QED BY <3>1, <3>2, <3>3, <1>1, <1>4
  <2>5. ASSUME NEW b \in answers', Granted(b)'
        PROVE  /\ b.sid \in remote'
               /\ \A x \in Listed' : tmgi'[x].sid # b.sid
               /\ \A q \in wire' : q.op = "deallocate" => q.sid # b.sid
    <3>1. CASE b = a
      BY <3>1, <2>2, <2>4, <2>5, <1>1, <1>2, <1>3 DEF Untouched
    <3>2. CASE b # a
      BY <3>2, <2>5, <1>1, <1>2, <1>3, <1>10 DEF Untouched, Others, IdsInTransit
    <3> QED BY <3>1, <3>2
  <2>6. ASSUME NEW b \in answers', Granted(b)', NEW c \in answers', Granted(c)', b.sid = c.sid
        PROVE  b = c
    <3>1. b \in answers /\ c \in answers => b = c
      BY <2>6, <1>10 DEF Others, IdsInTransit
    <3> QED BY <3>1, <2>3, <2>6, <1>1, <1>10
  <2> QED BY <2>1, <2>5, <2>6 DEF IdsInTransit
<1>12. IdsKept'
  BY <1>1, <1>2, <1>3, <1>8 DEF Others, IdsKept, Untouched
<1>13. NoFault' /\ DoneToAsker'
  BY <1>1 DEF Others, NoFault, DoneToAsker
<1> QED BY <1>3, <1>5, <1>6, <1>7, <1>11, <1>12, <1>13 DEF Others

(* Serving a deallocation makes the id free, and nobody else has it. *)
LEMMA ServeDeallocateKeeps ==
    ASSUME TypeOK, Chain, Others, NEW r \in wire, ServeDeallocate(r)
    PROVE  Chain' /\ Others'
<1> DEFINE a == [req |-> r, res |-> "ok", sid |-> r.sid]
<1>1. /\ r.op = "deallocate" /\ wire' = wire \ {r} /\ remote' = remote \ {r.sid}
      /\ answers' = answers \cup {a} /\ told' = None /\ fault' = fault
      /\ a.req = r /\ a.res = "ok" /\ a.sid = r.sid
  BY DEF ServeDeallocate
<1> HIDE DEF a
<1>2. Untouched
  BY DEF ServeDeallocate, Untouched
<1>3. Chain' /\ Listed' = Listed
  BY <1>2, ListStays
<1>4. Listed \subseteq Tmgis /\ \A x \in Listed : Live(x) /\ TmgiSound(x)
  BY Listing DEF Others
<1>5. ASSUME NEW x \in Listed, tmgi[x].sid = r.sid
      PROVE  r \in xacts /\ r.of = x /\ tmgi[x].by = "app"
  <2>1. r \in xacts /\ r.of = x
    BY <1>1, <1>5 DEF Others, IdsInTransit
  <2> QED BY <2>1 DEF Others, RequestsSound, OwnRequest
<1>6. TmgisSound'
  <2>1. \A x \in Tmgis : Live(x) /\ tmgi[x].by = "session" => x \in Listed /\ tmgi[x].sid # r.sid
    BY <1>5 DEF Others, TmgisSound, TmgiSound
  <2>2. \A x \in Tmgis : TmgiSound(x) /\ Live(x) => TmgiSound(x)'
    BY <2>1, <1>1, <1>2, <1>3 DEF Untouched, TmgiSound
  <2> QED BY <2>2, <1>2, <1>3 DEF Others, Untouched, TmgisSound, Live
<1>7. RequestsSound' /\ Counted'
  BY <1>2, <1>3, RequestsStay, CountStays DEF Others
<1>8. MessagesSound'
  BY <1>1, <1>2 DEF Others, MessagesSound, Untouched
<1>9. \A x \in Listed : Gone(x) => Gone(x)'
  BY <1>1, <1>2 DEF Gone, Untouched
<1>10. \A b \in answers' : Granted(b)' => b \in answers /\ Granted(b)
  BY <1>1, <1>2 DEF Granted, Untouched
<1>11. IdsInTransit'
  <2>1. ASSUME NEW q \in wire', q.op = "deallocate"
        PROVE  /\ q.sid \in remote'
               /\ \A x \in Listed' : tmgi'[x].sid = q.sid => q \in xacts' /\ q.of = x
               /\ \A p \in wire' : p.op = "deallocate" /\ p.sid = q.sid => p = q
    BY <2>1, <1>1, <1>2, <1>3 DEF Others, IdsInTransit, Untouched
  <2>2. ASSUME NEW b \in answers', Granted(b)'
        PROVE  /\ b.sid \in remote'
               /\ \A x \in Listed' : tmgi'[x].sid # b.sid
               /\ \A q \in wire' : q.op = "deallocate" => q.sid # b.sid
    BY <2>2, <1>1, <1>2, <1>3, <1>10 DEF Others, IdsInTransit, Untouched
  <2>3. ASSUME NEW b \in answers', Granted(b)', NEW c \in answers', Granted(c)', b.sid = c.sid
        PROVE  b = c
    BY <2>3, <1>10 DEF Others, IdsInTransit
  <2> QED BY <2>1, <2>2, <2>3 DEF IdsInTransit
<1>12. IdsKept'
  <2>1. ASSUME NEW x \in Listed, tmgi[x].by = "app", tmgi[x].sid # None
        PROVE  tmgi[x].sid \in remote' \/ Gone(x)'
    <3>1. CASE tmgi[x].sid = r.sid
      BY <3>1, <1>1, <1>2, <1>5 DEF Gone, Untouched
    <3>2. CASE tmgi[x].sid # r.sid
      BY <3>2, <2>1, <1>1, <1>9 DEF Others, IdsKept
    <3> QED BY <3>1, <3>2
  <2> QED BY <2>1, <1>2, <1>3, <1>9 DEF Others, IdsKept, Untouched
<1>13. NoFault' /\ DoneToAsker'
  BY <1>1 DEF Others, NoFault, DoneToAsker
<1> QED BY <1>3, <1>6, <1>7, <1>8, <1>11, <1>12, <1>13 DEF Others

LEMMA RefuseKeeps ==
    ASSUME TypeOK, Chain, Others, NEW r \in wire, NEW res \in {"refused", "bad"}, Refuse(r, res)
    PROVE  Chain' /\ Others'
<1> DEFINE a == [req |-> r, res |-> res, sid |-> None]
<1>1. /\ wire' = wire \ {r} /\ remote' = remote /\ answers' = answers \cup {a}
      /\ told' = None /\ fault' = fault /\ a.req = r /\ a.res # "ok"
  BY DEF Refuse
<1> HIDE DEF a
<1>2. Untouched
  BY DEF Refuse, Untouched
<1>3. Chain' /\ Listed' = Listed
  BY <1>2, ListStays
<1>4. TmgisSound'
  BY <1>1, <1>2, <1>3 DEF Others, Untouched, TmgisSound, TmgiSound, Live
<1>5. RequestsSound' /\ Counted'
  BY <1>2, <1>3, RequestsStay, CountStays DEF Others
<1>6. MessagesSound'
  BY <1>1, <1>2 DEF Others, MessagesSound, Untouched
<1>7. \A x \in Listed : Gone(x) => Gone(x)'
  BY <1>1, <1>2 DEF Gone, Untouched
<1>8. \A b \in answers' : Granted(b)' => b \in answers /\ Granted(b)
  BY <1>1, <1>2 DEF Granted, Untouched
<1>9. IdsInTransit'
  BY <1>1, <1>2, <1>3, <1>8 DEF Others, IdsInTransit, Untouched
<1>10. IdsKept'
  BY <1>1, <1>2, <1>3, <1>7 DEF Others, IdsKept, Untouched
<1>11. NoFault' /\ DoneToAsker'
  BY <1>1 DEF Others, NoFault, DoneToAsker
<1> QED BY <1>3, <1>4, <1>5, <1>6, <1>9, <1>10, <1>11 DEF Others

(* An answer of no transaction changes nothing that matters. *)
LEMMA NotOursKeeps ==
    ASSUME TypeOK, Chain, Others, NEW a \in answers, NotOurs(a)
    PROVE  Chain' /\ Others'
<1>1. /\ wire' = wire /\ remote' = remote /\ answers' = answers \ {a} /\ told' = None
      /\ fault' = IF a.req \in xacts /\ WalkFaults THEN "freed" ELSE fault
      /\ ~Ours(a)
  BY DEF NotOurs
<1>2. Untouched
  BY DEF NotOurs, Untouched
<1>3. Chain' /\ Listed' = Listed
  BY <1>2, ListStays
<1>4. a.req \notin xacts
  BY <1>1, OursIsOwn DEF Others
<1>5. TmgisSound'
  BY <1>1, <1>2, <1>3 DEF Others, Untouched, TmgisSound, TmgiSound, Live
<1>6. RequestsSound' /\ Counted'
  BY <1>2, <1>3, RequestsStay, CountStays DEF Others
<1>7. MessagesSound'
  BY <1>1, <1>2 DEF Others, MessagesSound, Untouched
<1>8. \A x \in Listed : Gone(x) => Gone(x)'
  BY <1>1, <1>2, <1>4 DEF Gone, Untouched
<1>9. \A b \in answers' : Granted(b)' => b \in answers /\ Granted(b)
  BY <1>1, <1>2 DEF Granted, Untouched
<1>10. IdsInTransit'
  BY <1>1, <1>2, <1>3, <1>9 DEF Others, IdsInTransit, Untouched
<1>11. IdsKept'
  BY <1>1, <1>2, <1>3, <1>8 DEF Others, IdsKept, Untouched
<1>12. NoFault' /\ DoneToAsker'
  BY <1>1, <1>4 DEF Others, NoFault, DoneToAsker
<1> QED BY <1>3, <1>5, <1>6, <1>7, <1>10, <1>11, <1>12 DEF Others

-----------------------------------------------------------------------------
(* The answers *)

(* TMGI objects that differ in awaits at most. *)
Like(u, t) ==
    \A z \in Tmgis : /\ u[z].st = t[z].st /\ u[z].by = t[z].by /\ u[z].sid = t[z].sid
                     /\ u[z].allocated = t[z].allocated /\ u[z].callback = t[z].callback
                     /\ u[z].obj = t[z].obj

(* What calling the application about x, or nobody, changes. *)
Told(x, t, a) ==
    /\ Like(tmgi', t)
    /\ \A z \in Tmgis \ {x} : tmgi'[z].awaits = t[z].awaits
    /\ x # None => IF tmgi[x].callback THEN ~tmgi'[x].awaits
                                       ELSE tmgi'[x].awaits = t[x].awaits
    /\ told' # None => told'.to = x /\ told'.req = a.req

LEMMA TellTold ==
    ASSUME NEW t \in [Tmgis -> TmgiObject], NEW x \in Tmgis \cup {None}, NEW res, NEW a,
           Tell(x, t, res, a)
    PROVE  Told(x, t, a)
<1> DEFINE calls == x # None /\ tmgi[x].callback
           q == [t[x] EXCEPT !.awaits = FALSE]
<1>1. /\ told' = IF calls THEN [to |-> x, res |-> res, sid |-> t[x].sid, req |-> a.req] ELSE None
      /\ tmgi' = IF calls THEN [t EXCEPT ![x] = q] ELSE t
  BY DEF Tell
<1>2. CASE calls
  <2>1. /\ q.st = t[x].st /\ q.by = t[x].by /\ q.sid = t[x].sid /\ q.allocated = t[x].allocated
        /\ q.callback = t[x].callback /\ q.obj = t[x].obj /\ ~q.awaits
    BY <1>2 DEF TmgiObject
  <2>2. x \in Tmgis /\ tmgi' = [t EXCEPT ![x] = q] /\ told'.to = x /\ told'.req = a.req
    BY <1>1, <1>2
  <2> HIDE DEF q
  <2> QED BY <2>1, <2>2, <1>2 DEF Told, Like
<1>3. CASE ~calls
  BY <1>1, <1>3 DEF Told, Like
<1> QED BY <1>2, <1>3

(* What consuming an answer does. *)
Consumed(a) ==
    /\ a.req \in xacts /\ OwnRequest(a.req) /\ TmgiOf(a.req.obj) = a.req.of
    /\ a.req.of \in Tmgis /\ a.req.of # None
    /\ answers' = answers \ {a} /\ xacts' = xacts \ {a.req}
    /\ wire' = wire /\ remote' = remote /\ k' = k /\ fault' = fault
    /\ a.req \notin wire
    /\ \A b \in answers' : b.req # a.req

LEMMA ConsumeOwn ==
    ASSUME TypeOK, Others, NEW a \in answers, Consume(a)
    PROVE  Consumed(a) /\ MessagesSound'
<1>1. a.req \in xacts /\ OwnRequest(a.req) /\ TmgiOf(a.req.obj) = a.req.of
  BY OursIsOwn, OwnLookup DEF Consume, Others, RequestsSound
<1>2. a.req.of \in Tmgis /\ a.req.of # None /\ ~WalkFaults
  BY <1>1, Listing DEF Others, OwnRequest
<1>3. /\ answers' = answers \ {a} /\ xacts' = xacts \ {a.req}
      /\ wire' = wire /\ remote' = remote /\ k' = k /\ fault' = fault
  BY <1>1, <1>2 DEF Consume
<1>4. a.req \notin wire /\ \A b \in answers' : b.req # a.req
  BY <1>3 DEF Others, MessagesSound
<1>5. MessagesSound'
  BY <1>3 DEF Others, MessagesSound
<1> QED BY <1>1, <1>2, <1>3, <1>4, <1>5 DEF Consumed

(* An allocation that is answered is no longer outstanding. *)
LEMMA OneAnswered ==
    ASSUME TypeOK, Others, NEW a \in answers, Consumed(a)
    PROVE  /\ a.req.op # "allocate" => Allocating' = Allocating
           /\ a.req.op = "allocate" => /\ Allocating' = Allocating \ {a.req}
                                       /\ Cardinality(Allocating') = Cardinality(Allocating) - 1
           /\ IsFiniteSet(Allocating')
<1>1. xacts' = xacts \ {a.req} /\ a.req \in xacts
  BY DEF Consumed
<1>2. IsFiniteSet(Allocating)
  BY DEF Others, Counted
<1>3. a.req.op # "allocate" => Allocating' = Allocating
  BY <1>1 DEF Allocating
<1>4. a.req.op = "allocate" => Allocating' = Allocating \ {a.req} /\ a.req \in Allocating
  BY <1>1 DEF Allocating
<1> QED BY <1>2, <1>3, <1>4, FS_RemoveElement

(* The transactions that are left, when only awaits changed, and only of x. *)
LEMMA RequestsLeft ==
    ASSUME TypeOK, Others, NEW a \in answers, Consumed(a), Like(tmgi', tmgi),
           \A z \in Tmgis \ {a.req.of} : tmgi'[z].awaits = tmgi[z].awaits,
           \A r \in xacts' : r.of \in Listed'
    PROVE  RequestsSound' /\ Unnamed' = Unnamed
<1>1. Unnamed' = Unnamed
  BY DEF Unnamed, Like
<1>2. a.req \in xacts /\ xacts' = xacts \ {a.req} /\ Listed \subseteq Tmgis
  BY Listing DEF Consumed, Others
<1>3. Deallocating' => Deallocating
  BY <1>2 DEF Deallocating
<1>4. ASSUME NEW r \in xacts', r.op = "deallocate" PROVE r.of # a.req.of
  <2>1. r \in xacts /\ r # a.req /\ Deallocating
    BY <1>2, <1>4 DEF Deallocating
  <2>2. a.req.op = "deallocate" => r.of # a.req.of
    BY <1>2, <1>4, <2>1 DEF Others, RequestsSound
  <2>3. a.req.op # "allocate"
    BY <1>2, <2>1, SomeWait DEF Others, Allocating
  <2>4. a.req.op = "deallocate"
    BY <1>2, <2>3 DEF TypeOK, Request
  <2> QED BY <2>2, <2>4
<1>5. ASSUME NEW r \in xacts' PROVE OwnRequest(r)'
  <2>1. r \in xacts /\ OwnRequest(r) /\ r.of \in Tmgis
    BY <1>2 DEF Others, RequestsSound, OwnRequest
  <2> QED BY <2>1, <1>4 DEF OwnRequest, Like
<1>6. \A r, q \in xacts' : r.op = "deallocate" /\ q.op = "deallocate" /\ r.of = q.of => r = q
  BY <1>2 DEF Others, RequestsSound
<1>7. Deallocating' => Unnamed' = {}
  BY <1>1, <1>3 DEF Others, RequestsSound
<1> QED BY <1>1, <1>5, <1>6, <1>7 DEF RequestsSound

(* The ids when an answer is consumed that gives none. *)
LEMMA IdsLeft ==
    ASSUME TypeOK, Others, NEW a \in answers, Consumed(a), Like(tmgi', tmgi), Listed' \subseteq Listed
    PROVE  /\ IdsInTransit'
           /\ (\A x \in Listed' : Gone(x) => Gone(x)') => IdsKept'
<1>1. /\ wire' = wire /\ remote' = remote /\ a.req \notin wire /\ Listed \subseteq Tmgis
      /\ xacts' = xacts \ {a.req} /\ answers' = answers \ {a}
  BY Listing DEF Consumed, Others
<1>2. \A b \in answers' : Granted(b)' => b \in answers /\ Granted(b)
  BY <1>1 DEF Granted
<1>3. \A x \in Listed' : x \in Listed /\ tmgi'[x].sid = tmgi[x].sid /\ tmgi'[x].by = tmgi[x].by
  BY <1>1 DEF Like
<1>4. IdsInTransit'
  <2>1. ASSUME NEW q \in wire', q.op = "deallocate"
        PROVE  /\ q.sid \in remote'
               /\ \A x \in Listed' : tmgi'[x].sid = q.sid => q \in xacts' /\ q.of = x
               /\ \A p \in wire' : p.op = "deallocate" /\ p.sid = q.sid => p = q
    BY <2>1, <1>1, <1>3 DEF Others, IdsInTransit
  <2>2. ASSUME NEW b \in answers', Granted(b)'
        PROVE  /\ b.sid \in remote'
               /\ \A x \in Listed' : tmgi'[x].sid # b.sid
               /\ \A q \in wire' : q.op = "deallocate" => q.sid # b.sid
               /\ \A c \in answers' : Granted(c)' /\ b.sid = c.sid => b = c
    BY <2>2, <1>1, <1>2, <1>3 DEF Others, IdsInTransit
  <2> QED BY <2>1, <2>2 DEF IdsInTransit
<1>5. ASSUME \A x \in Listed' : Gone(x) => Gone(x)' PROVE IdsKept'
  BY <1>5, <1>1, <1>3 DEF Others, IdsKept
<1> QED BY <1>4, <1>5

(* Answers that are left tell as much as before of other TMGIs. *)
LEMMA GoneLeft ==
    ASSUME Others, NEW a \in answers, Consumed(a), NEW x, Gone(x),
           a.req.of # x \/ a.req.op # "deallocate" \/ a.res # "ok"
    PROVE  Gone(x)'
<1>1. PICK b \in answers : b.res = "ok" /\ b.req \in xacts /\ b.req.of = x /\ b.req.op = "deallocate"
  BY DEF Gone
<1>2. b # a /\ answers' = answers \ {a} /\ xacts' = xacts \ {a.req}
  BY <1>1 DEF Consumed
<1>3. b \in answers' /\ b.req \in xacts'
  BY <1>1, <1>2 DEF Consumed
<1> QED BY <1>1, <1>3 DEF Gone

LEMMA SoundLike ==
    ASSUME TypeOK, TmgisSound, Like(tmgi', tmgi), k' = k, remote' = remote, Listed' \subseteq Listed,
           \A x \in Listed \ Listed' : tmgi[x].by = "app" /\ tmgi[x].sid # None
    PROVE  TmgisSound'
<1>1. ASSUME NEW x \in Tmgis, TmgiSound(x) PROVE TmgiSound(x)'
  BY <1>1 DEF TmgiSound, Like
<1>2. \A x \in Listed' : x \in Tmgis
  BY Listing
<1> QED BY <1>1, <1>2 DEF TmgisSound, Live, Like

LEMMA UnparsableKeeps ==
    ASSUME TypeOK, Chain, Others, NEW a \in answers, Unparsable(a)
    PROVE  Chain' /\ Others'
<1> DEFINE x == a.req.of
<1>1. Consumed(a) /\ MessagesSound' /\ nxt' = nxt /\ prv' = prv
      /\ failed' = (failed \/ a.req.op = "allocate") /\ a.res = "bad"
  BY ConsumeOwn DEF Unparsable
<1>2. x \in Tmgis /\ x # None /\ a.req \in xacts /\ OwnRequest(a.req)
  BY <1>1 DEF Consumed
<1>3. Told(x, tmgi, a)
  <2>1. Tell(x, tmgi, "ERROR", a)
    BY <1>1 DEF Unparsable, Consumed
  <2> QED BY <2>1, <1>2, TellTold DEF TypeOK
<1>4. Like(tmgi', tmgi) /\ (\A z \in Tmgis \ {x} : tmgi'[z].awaits = tmgi[z].awaits)
      /\ IF tmgi[x].callback THEN ~tmgi'[x].awaits ELSE tmgi'[x].awaits = tmgi[x].awaits
  BY <1>2, <1>3 DEF Told
<1> HIDE DEF x
<1>5. Listed \subseteq Tmgis /\ \A z \in Listed : TmgiSound(z)
  BY Listing DEF Others
<1>6. Chain' /\ Listed' = Listed
  <2>1. \A y, z \in Listed : SameId(y, z)' => SameId(y, z)
    BY <1>4, <1>5 DEF SameId, Like
  <2> QED BY <1>1, <2>1, ChainSame
<1>7. TmgisSound'
  BY <1>1, <1>4, <1>6, SoundLike DEF Others, Consumed
<1>8. RequestsSound' /\ Unnamed' = Unnamed
  <2>1. \A r \in xacts' : r.of \in Listed'
    BY <1>1, <1>6 DEF Consumed, Others, RequestsSound, OwnRequest
  <2> QED BY <1>1, <1>4, <2>1, RequestsLeft DEF x
<1>9. IdsInTransit' /\ IdsKept'
  <2>1. \A z \in Listed' : Gone(z) => Gone(z)'
    BY <1>1, GoneLeft
  <2> QED BY <1>1, <1>4, <1>6, <2>1, IdsLeft
<1>10. Counted'
  <2>0. /\ IsFiniteSet(Waiting) /\ IsFiniteSet(Allocating')
        /\ a.req.op # "allocate" => Allocating' = Allocating
        /\ a.req.op = "allocate" => Cardinality(Allocating') = Cardinality(Allocating) - 1
    BY <1>1, SomeWait, OneAnswered DEF Others
  <2>1. Cardinality(Allocating) <= Cardinality(Waiting) /\ Cardinality(Waiting) \in Nat
        /\ IsFiniteSet(Allocating)
    BY <2>0, FS_CardinalityType DEF Others, Counted
  <2>2. Cardinality(Allocating) \in Nat
    BY <2>1, FS_CardinalityType
  <2>3. CASE a.req.op = "allocate"
    <3>1. failed'
      BY <1>1, <2>3
    <3>2. CASE x \in Unnamed
      <4>1. tmgi[x].callback
        BY <3>2, <1>2, <1>5 DEF Unnamed, Others, TmgisSound, TmgiSound, Live
      <4>2. Waiting' = Waiting \ {x}
        BY <1>2, <1>4, <1>8, <4>1 DEF Waiting, Unnamed
      <4>3. Cardinality(Waiting') >= Cardinality(Waiting) - 1
        <5>1. x \in Waiting => Cardinality(Waiting') = Cardinality(Waiting) - 1
          BY <2>0, <4>2, FS_RemoveElement
        <5>2. x \notin Waiting => Waiting' = Waiting
          BY <4>2
        <5> QED BY <5>1, <5>2, <2>1
      <4>4. IsFiniteSet(Waiting')
        BY <4>2, <2>0, FS_RemoveElement, FS_Subset
      <4>5. Cardinality(Waiting') \in Nat
        BY <4>4, FS_CardinalityType
      <4>6. Cardinality(Allocating') <= Cardinality(Waiting')
        BY <2>0, <2>1, <2>2, <2>3, <4>3, <4>5
      <4> QED BY <2>0, <3>1, <4>6 DEF Counted
    <3>3. CASE x \notin Unnamed
      <4>1. Waiting' = Waiting
        BY <3>3, <1>4, <1>8 DEF Waiting, Unnamed
      <4>2. Cardinality(Allocating') <= Cardinality(Waiting')
        BY <2>0, <2>1, <2>2, <2>3, <4>1
      <4> QED BY <2>0, <3>1, <4>2 DEF Counted
    <3> QED BY <3>2, <3>3
  <2>4. CASE a.req.op # "allocate"
    <3>1. a.req.op = "deallocate"
      BY <1>2, <2>4 DEF TypeOK, Request
    <3>2. Unnamed = {}
      BY <1>2, <3>1 DEF Others, RequestsSound, Deallocating
    <3>3. Waiting' = Waiting /\ failed' = failed
      BY <3>2, <1>1, <1>8, <2>4 DEF Waiting, TypeOK
    <3> QED BY <2>0, <2>4, <3>3, <1>8, CountSame DEF Others
  <2> QED BY <2>3, <2>4
<1>11. NoFault' /\ DoneToAsker'
  BY <1>1, <1>3 DEF Others, NoFault, DoneToAsker, Consumed, Told, x
<1> QED BY <1>1, <1>6, <1>7, <1>8, <1>9, <1>10, <1>11 DEF Others

LEMMA AllocationRefusedKeeps ==
    ASSUME TypeOK, Chain, Others, NEW a \in answers, AllocationRefused(a)
    PROVE  Chain' /\ Others'
<1>1. Consumed(a) /\ MessagesSound' /\ nxt' = nxt /\ prv' = prv /\ tmgi' = tmgi
      /\ failed' = TRUE /\ told' = None /\ a.req.op = "allocate"
  BY ConsumeOwn DEF AllocationRefused
<1>2. Like(tmgi', tmgi)
  BY <1>1 DEF Like
<1>3. Chain' /\ Listed' = Listed
  <2>1. \A y, z \in Listed : SameId(y, z)' => SameId(y, z)
    BY <1>1 DEF SameId
  <2> QED BY <1>1, <2>1, ChainSame
<1>4. TmgisSound'
  BY <1>1, <1>2, <1>3, SoundLike DEF Others, Consumed
<1>5. RequestsSound' /\ Unnamed' = Unnamed
  <2>1. \A r \in xacts' : r.of \in Listed'
    BY <1>1, <1>3 DEF Consumed, Others, RequestsSound, OwnRequest
  <2> QED BY <1>1, <1>2, <2>1, RequestsLeft
<1>6. IdsInTransit' /\ IdsKept'
  <2>1. \A z \in Listed' : Gone(z) => Gone(z)'
    BY <1>1, GoneLeft
  <2> QED BY <1>1, <1>2, <1>3, <2>1, IdsLeft
<1>7. Counted'
  <2>1. /\ IsFiniteSet(Waiting) /\ IsFiniteSet(Allocating') /\ IsFiniteSet(Allocating)
        /\ Cardinality(Allocating') = Cardinality(Allocating) - 1
    BY <1>1, SomeWait, OneAnswered DEF Others
  <2>2. Cardinality(Allocating) <= Cardinality(Waiting) /\ Cardinality(Waiting) \in Nat
        /\ Cardinality(Allocating) \in Nat
    BY <2>1, FS_CardinalityType DEF Others, Counted
  <2>3. Waiting' = Waiting
    BY <1>1, <1>5 DEF Waiting
  <2>4. Cardinality(Allocating') <= Cardinality(Waiting')
    BY <2>1, <2>2, <2>3
  <2> QED BY <1>1, <2>1, <2>4 DEF Counted
<1>8. NoFault' /\ DoneToAsker'
  BY <1>1 DEF Others, NoFault, DoneToAsker, Consumed
<1> QED BY <1>1, <1>3, <1>4, <1>5, <1>6, <1>7, <1>8 DEF Others

(* An id that is granted goes to a TMGI that has none. *)
LEMMA GrantMatches ==
    ASSUME TypeOK, Others, NEW a \in answers, Granted(a)
    PROVE  Matching(a.sid) \in Unnamed \cap Listed
<1> DEFINE S == {x \in Tmgis : tmgi[x].sid = a.sid \/ (tmgi[x].sid = None /\ ~tmgi[x].allocated)}
           m == Matching(a.sid)
<1>1. a.req \in Allocating
  BY DEF Granted, Allocating
<1>2. PICK y : y \in Unnamed
  BY <1>1, SomeWait DEF Others, Waiting
<1>3. y \in S \cap Listed
  BY <1>2 DEF Unnamed, Others, TmgisSound, TmgiSound, Live
<1>4. m \in S \cap Listed
  <2>1. m = FirstOf(nxt, S) /\ S \in SUBSET Tmgis
    BY DEF Matching, FirstIn
  <2> HIDE DEF S, m
  <2> QED BY <2>1, <1>3, FirstTyped DEF Listed, TypeOK
<1>5. tmgi[m].sid # a.sid
  BY <1>4 DEF Others, IdsInTransit
<1>6. tmgi[m].sid = None /\ Live(m) /\ m \in Tmgis
  BY <1>4, <1>5 DEF Others, TmgisSound
<1> HIDE DEF m
<1> QED BY <1>4, <1>6 DEF Unnamed, Live, m

LEMMA AllocatedKeeps ==
    ASSUME TypeOK, Chain, Others, NEW a \in answers, Allocated(a)
    PROVE  Chain' /\ Others'
<1> DEFINE x == Matching(a.sid)
           q == [tmgi[x] EXCEPT !.sid = a.sid, !.allocated = TRUE]
           t == [tmgi EXCEPT ![x] = q]
<1>1. Consumed(a) /\ MessagesSound' /\ nxt' = nxt /\ prv' = prv /\ failed' = failed
      /\ a.req.op = "allocate" /\ a.res = "ok"
  BY ConsumeOwn DEF Allocated
<1>2. Granted(a) /\ a.req \in xacts /\ a.req \in Allocating
  BY <1>1 DEF Consumed, Granted, Allocating
<1>3. x \in Unnamed /\ x \in Listed /\ x \in Tmgis /\ x # None
  BY <1>2, GrantMatches, Listing DEF Others
<1>4. tmgi[x].st = "live" /\ tmgi[x].by = "app" /\ tmgi[x].callback /\ tmgi[x].sid = None
  BY <1>3 DEF Unnamed, Others, TmgisSound, TmgiSound, Live
<1>5. Tell(x, IF x = None THEN tmgi ELSE [tmgi EXCEPT ![x].sid = a.sid, ![x].allocated = TRUE], "OK", a)
  BY DEF Allocated
<1>6. a.sid \in remote /\ a.sid \in Ids /\ a.sid # None
  <2>1. a.sid \in remote
    BY <1>2 DEF Others, IdsInTransit
  <2> QED BY <2>1, TmgiAssumption DEF TypeOK
<1> HIDE DEF x
<1>7. Tell(x, t, "OK", a)
  <2>1. [tmgi EXCEPT ![x].sid = a.sid, ![x].allocated = TRUE] = t
    BY <1>3 DEF TypeOK, TmgiObject
  <2> QED BY <1>3, <1>5, <2>1
<1>8. /\ q \in TmgiObject /\ q.st = "live" /\ q.by = "app" /\ q.sid = a.sid /\ q.allocated
      /\ q.callback = tmgi[x].callback /\ q.obj = tmgi[x].obj /\ q.awaits = tmgi[x].awaits
  BY <1>3, <1>4, <1>6 DEF TypeOK, TmgiObject
<1> HIDE DEF q
<1>9. /\ t \in [Tmgis -> TmgiObject] /\ t[x] = q /\ \A z \in Tmgis \ {x} : t[z] = tmgi[z]
  BY <1>3, <1>8 DEF TypeOK
<1> HIDE DEF t
<1>10. Told(x, t, a)
  BY <1>3, <1>7, <1>9, TellTold
<1>11. /\ tmgi'[x].st = "live" /\ tmgi'[x].by = "app" /\ tmgi'[x].sid = a.sid
       /\ tmgi'[x].obj = tmgi[x].obj /\ ~tmgi'[x].awaits
  BY <1>3, <1>4, <1>8, <1>9, <1>10 DEF Told, Like
<1>12. ASSUME NEW z \in Tmgis \ {x}
       PROVE  /\ tmgi'[z].st = tmgi[z].st /\ tmgi'[z].by = tmgi[z].by /\ tmgi'[z].sid = tmgi[z].sid
              /\ tmgi'[z].allocated = tmgi[z].allocated /\ tmgi'[z].callback = tmgi[z].callback
              /\ tmgi'[z].obj = tmgi[z].obj /\ tmgi'[z].awaits = tmgi[z].awaits
  BY <1>9, <1>10 DEF Told, Like
<1>13. Listed \subseteq Tmgis /\ (\A z \in Listed : TmgiSound(z)) /\ \A z \in Listed : tmgi[z].sid # a.sid
  BY <1>2, Listing DEF Others, IdsInTransit
<1>14. Chain' /\ Listed' = Listed
  <2>1. ASSUME NEW y \in Listed, NEW z \in Listed, SameId(y, z)' PROVE SameId(y, z)
    <3>1. y \in Tmgis /\ z \in Tmgis
      BY <1>13
    <3>2. z # x
      BY <2>1, <1>11 DEF SameId
    <3>3. y # x
      BY <2>1, <3>1, <3>2, <1>11, <1>12, <1>13 DEF SameId
    <3> QED BY <2>1, <3>1, <3>2, <3>3, <1>12 DEF SameId
  <2> QED BY <1>1, <2>1, ChainSame
<1>15. remote' = remote /\ wire' = wire /\ k' = k /\ fault' = fault /\ answers' = answers \ {a}
       /\ xacts' = xacts \ {a.req}
  BY <1>1 DEF Consumed
<1>16. TmgisSound'
  <2>1. ASSUME NEW z \in Tmgis, z = x PROVE TmgiSound(z)'
    <3>1. TmgiSound(z)
      BY <2>1, <1>3, <1>13
    <3> QED BY <2>1, <3>1, <1>4, <1>6, <1>11, <1>15, TmgiAssumption DEF TmgiSound
  <2>2. ASSUME NEW z \in Tmgis \ {x}, Live(z) PROVE TmgiSound(z)'
    <3>1. TmgiSound(z)
      BY <2>2 DEF Others, TmgisSound
    <3> QED BY <3>1, <1>12, <1>14, <1>15 DEF TmgiSound
  <2>3. \A z \in Tmgis : tmgi'[z].st = tmgi[z].st /\ tmgi'[z].by = tmgi[z].by /\ tmgi'[z].obj = tmgi[z].obj
    BY <1>4, <1>11, <1>12
  <2>4. ASSUME NEW z \in Tmgis, Live(z)' PROVE TmgiSound(z)'
    <3>1. z = x \/ (z \in Tmgis \ {x} /\ Live(z))
      BY <2>3, <2>4 DEF Live
    <3> QED BY <3>1, <2>1, <2>2
  <2>5. \A z \in Tmgis : tmgi'[z].st = "none" =>
          tmgi'[z].obj = NoObj /\ tmgi'[z].by = None /\ tmgi'[z].sid = None /\ ~tmgi'[z].allocated
    <3>1. ASSUME NEW z \in Tmgis, tmgi'[z].st = "none" PROVE z # x
      BY <3>1, <1>11
    <3> QED BY <3>1, <1>12 DEF Others, TmgisSound
  <2> QED BY <2>3, <2>4, <2>5, <1>13, <1>14 DEF Others, TmgisSound, Live
<1>17. ~Deallocating /\ IsFiniteSet(Unnamed) /\ IsFiniteSet(Waiting) /\ IsFiniteSet(Allocating)
  BY <1>2, SomeWait DEF Others
<1>18. ~Deallocating'
  BY <1>15, <1>17 DEF Deallocating
<1>19. RequestsSound'
  <2>1. ASSUME NEW r \in xacts' PROVE OwnRequest(r)'
    <3>1. r \in xacts /\ r.op # "deallocate" /\ OwnRequest(r)
      BY <1>15, <1>17 DEF Deallocating, Others, RequestsSound
    <3> QED BY <3>1, <1>4, <1>11, <1>12, <1>13, <1>14 DEF OwnRequest
  <2> QED BY <2>1, <1>18 DEF RequestsSound, Deallocating
<1>20. \A b \in answers' : Granted(b)' => b \in answers /\ Granted(b) /\ b # a
  BY <1>15 DEF Granted
<1>21. IdsInTransit'
  <2>1. ASSUME NEW r \in wire', r.op = "deallocate"
        PROVE  /\ r.sid \in remote'
               /\ \A z \in Listed' : tmgi'[z].sid = r.sid => r \in xacts' /\ r.of = z
               /\ \A p \in wire' : p.op = "deallocate" /\ p.sid = r.sid => p = r
    <3>1. r.sid # a.sid /\ r \in wire /\ r # a.req
      BY <2>1, <1>1, <1>2, <1>15 DEF Others, IdsInTransit
    <3>2. ASSUME NEW z \in Listed', tmgi'[z].sid = r.sid PROVE r \in xacts' /\ r.of = z
      <4>1. z # x /\ z \in Listed
        BY <3>1, <3>2, <1>11, <1>14
      <4>2. tmgi[z].sid = r.sid
        BY <4>1, <3>2, <1>12, <1>13
      <4> QED BY <4>1, <4>2, <3>1, <2>1, <1>15 DEF Others, IdsInTransit
    <3> QED BY <2>1, <3>1, <3>2, <1>15 DEF Others, IdsInTransit
  <2>2. ASSUME NEW b \in answers', Granted(b)'
        PROVE  /\ b.sid \in remote'
               /\ \A z \in Listed' : tmgi'[z].sid # b.sid
               /\ \A r \in wire' : r.op = "deallocate" => r.sid # b.sid
               /\ \A c \in answers' : Granted(c)' /\ b.sid = c.sid => b = c
    <3>1. b \in answers /\ Granted(b) /\ b # a
      BY <2>2, <1>20
    <3>2. b.sid # a.sid
      BY <3>1, <1>2 DEF Others, IdsInTransit
    <3>3. ASSUME NEW z \in Listed' PROVE tmgi'[z].sid # b.sid
      <4>1. CASE z = x
        BY <4>1, <3>2, <1>11
      <4>2. CASE z # x
        BY <4>2, <3>1, <1>12, <1>13, <1>14 DEF Others, IdsInTransit
      <4> QED BY <4>1, <4>2
    <3> QED BY <3>1, <3>3, <1>15, <1>20 DEF Others, IdsInTransit
  <2> QED BY <2>1, <2>2 DEF IdsInTransit
<1>22. IdsKept'
  <2>1. ASSUME NEW z \in Listed, tmgi'[z].by = "app", tmgi'[z].sid # None
        PROVE  tmgi'[z].sid \in remote /\ \A y \in Listed \ {z} : tmgi'[y].sid # tmgi'[z].sid
    <3>1. CASE z = x
      BY <3>1, <1>6, <1>11, <1>12, <1>13
    <3>2. CASE z # x
      <4>1. tmgi'[z].sid = tmgi[z].sid /\ tmgi'[z].by = tmgi[z].by
        BY <3>2, <1>12, <1>13
      <4>2. ~Gone(z)
        BY <1>17 DEF Gone, Deallocating
      <4>3. tmgi[z].sid \in remote /\ \A y \in Listed \ {z} : tmgi[y].sid # tmgi[z].sid
        BY <2>1, <4>1, <4>2 DEF Others, IdsKept
      <4>4. tmgi'[x].sid # tmgi'[z].sid
        BY <4>1, <1>11, <1>13
      <4> QED BY <4>1, <4>3, <4>4, <1>12, <1>13
    <3> QED BY <3>1, <3>2
  <2> QED BY <2>1, <1>14, <1>15 DEF IdsKept
<1>23. Counted'
  <2>1. Unnamed' = Unnamed \ {x}
    BY <1>3, <1>6, <1>11, <1>12, TmgiAssumption DEF Unnamed
  <2>2. Waiting' = Waiting \ {x}
    BY <2>1, <1>12 DEF Waiting, Unnamed
  <2>3. IsFiniteSet(Allocating') /\ Cardinality(Allocating') = Cardinality(Allocating) - 1
    BY <1>1, OneAnswered
  <2>4. Cardinality(Allocating) <= Cardinality(Waiting) /\ Cardinality(Waiting) \in Nat
        /\ Cardinality(Allocating) \in Nat
    BY <1>17, FS_CardinalityType DEF Others, Counted
  <2>5. x \in Waiting => Cardinality(Waiting') = Cardinality(Waiting) - 1
    BY <1>17, <2>2, FS_RemoveElement
  <2>6. x \notin Waiting => Waiting' = Waiting
    BY <2>2
  <2>7. Cardinality(Allocating') <= Cardinality(Waiting')
    BY <2>3, <2>4, <2>5, <2>6
  <2>8. ~failed => x \in Waiting /\ Cardinality(Allocating) = Cardinality(Waiting) /\ Waiting = Unnamed
    BY <1>3 DEF Others, Counted
  <2>9. ~failed => Cardinality(Allocating') = Cardinality(Waiting') /\ Waiting' = Unnamed'
    BY <2>1, <2>2, <2>3, <2>5, <2>8
  <2> QED BY <2>3, <2>7, <2>9, <1>1 DEF Counted
<1>24. NoFault' /\ DoneToAsker'
  BY <1>1, <1>10, <1>15 DEF Others, NoFault, DoneToAsker, Told
<1> QED BY <1>1, <1>14, <1>16, <1>19, <1>21, <1>22, <1>23, <1>24 DEF Others

(* A deallocation is matched to the TMGI that asked for it: it comes before *)
(* those of the session that have the same id, and no other has it.         *)
LEMMA DeallocationMatches ==
    ASSUME TypeOK, Chain, Others, NEW r \in xacts, r.op = "deallocate"
    PROVE  Matching(r.sid) = r.of
<1> DEFINE S == {x \in Tmgis : tmgi[x].sid = r.sid \/ (tmgi[x].sid = None /\ ~tmgi[x].allocated)}
           m == Matching(r.sid)
           y == r.of
<1>1. /\ y \in Listed /\ y \in Tmgis /\ tmgi[y].by = "app" /\ tmgi[y].sid = r.sid /\ r.sid # None
  BY Listing DEF Others, RequestsSound, OwnRequest
<1>2. PICK rank \in [Tmgis -> Nat], b \in Nat : Chained(rank, b)
  BY DEF Chain
<1>3. m \in S \cap Listed /\ rank[m] <= rank[y]
  <2>1. y \in S \cap Listed
    BY <1>1
  <2>2. m = FirstOf(nxt, S) /\ S \in SUBSET Tmgis /\ Linked(nxt, prv, Listed, rank)
    BY <1>2 DEF Matching, FirstIn, Chained
  <2> HIDE DEF S, m
  <2> QED BY <2>1, <2>2, FirstLinked
<1>4. Unnamed = {}
  BY DEF Others, RequestsSound, Deallocating
<1>5. m \in Listed /\ m \in Tmgis /\ Live(m) /\ tmgi[m].sid # None
  BY <1>3, <1>4, Listing DEF Others, Unnamed, Live
<1>6. tmgi[m].sid = r.sid
  BY <1>3, <1>5
<1> HIDE DEF m, y
<1>7. m # y => tmgi[m].by = "session"
  BY <1>1, <1>5, <1>6 DEF Others, IdsKept
<1>8. m # y => rank[y] < rank[m]
  BY <1>1, <1>2, <1>5, <1>6, <1>7 DEF Chained
<1>9. rank[y] \in Nat /\ rank[m] \in Nat
  BY <1>1, <1>5
<1>10. m = y
  BY <1>3, <1>8, <1>9
<1> QED BY <1>10 DEF m, y

LEMMA DeallocatedKeeps ==
    ASSUME TypeOK, Chain, Others, NEW a \in answers, Deallocated(a)
    PROVE  Chain' /\ Others'
<1> DEFINE x == a.req.of
<1>1. Consumed(a) /\ MessagesSound' /\ failed' = failed /\ a.req.op = "deallocate"
  BY ConsumeOwn DEF Deallocated
<1>2. a.req \in xacts /\ Matching(a.req.sid) = x
  BY <1>1, DeallocationMatches DEF Consumed
<1>3. /\ x \in Listed /\ x \in Tmgis /\ x # None /\ tmgi[x].by = "app"
      /\ tmgi[x].sid # None
  BY <1>1, Listing DEF Others, Consumed, OwnRequest
<1>4. Relink(Removed(nxt, prv, x)) /\ Told(x, tmgi, a)
  <2>1. /\ Tell(x, tmgi, IF a.res = "ok" THEN "DONE" ELSE "ERROR", a)
        /\ Relink(Removed(nxt, prv, x))
    BY <1>2, <1>3 DEF Deallocated
  <2> QED BY <2>1, <1>3, TellTold DEF TypeOK
<1>5. Like(tmgi', tmgi) /\ \A z \in Tmgis \ {x} : tmgi'[z].awaits = tmgi[z].awaits
  BY <1>4 DEF Told
<1> HIDE DEF x
<1>6. Listed \subseteq Tmgis
  BY Listing DEF Others
<1>7. Chain' /\ Listed' = Listed \ {x}
  <2>1. \A y, z \in Listed \ {x} : SameId(y, z)' => SameId(y, z)
    BY <1>5, <1>6 DEF SameId, Like
  <2> QED BY <1>3, <1>4, <2>1, ChainRemove
<1>8. TmgisSound'
  <2>1. \A z \in Listed \ Listed' : tmgi[z].by = "app" /\ tmgi[z].sid # None
    BY <1>3, <1>7
  <2>2. k' = k /\ remote' = remote /\ Listed' \subseteq Listed
    BY <1>1, <1>7 DEF Consumed
  <2> QED BY <1>5, <2>1, <2>2, SoundLike DEF Others
<1>9. Unnamed = {} /\ Waiting = {} /\ Allocating = {}
  <2>1. Unnamed = {}
    BY <1>1, <1>2 DEF Others, RequestsSound, Deallocating
  <2> QED BY <2>1, SomeWait DEF Others, Waiting
<1>10. ASSUME NEW r \in xacts' PROVE r \in xacts /\ r.op = "deallocate" /\ r.of # x
  <2>1. r \in xacts /\ r # a.req /\ r \in Request
    BY <1>1 DEF Consumed, TypeOK
  <2>2. r.op = "deallocate"
    BY <2>1, <1>9 DEF Allocating, Request
  <2> QED BY <2>1, <2>2, <1>1, <1>2 DEF Others, RequestsSound, x
<1>11. RequestsSound' /\ Unnamed' = Unnamed
  <2>1. \A r \in xacts' : r.of \in Listed'
    BY <1>7, <1>10 DEF Others, RequestsSound, OwnRequest
  <2> QED BY <1>1, <1>5, <2>1, RequestsLeft DEF x
<1>12. IdsInTransit' /\ IdsKept'
  <2>1. \A z \in Listed' : Gone(z) => Gone(z)'
    BY <1>1, <1>7, GoneLeft DEF x
  <2>2. Listed' \subseteq Listed
    BY <1>7
  <2> QED BY <1>1, <1>5, <2>1, <2>2, IdsLeft
<1>13. Counted'
  <2>1. Allocating' = Allocating
    BY <1>1, OneAnswered
  <2>2. Waiting' = Waiting
    BY <1>9, <1>11 DEF Waiting
  <2> QED BY <2>1, <2>2, <1>1, <1>11, CountSame DEF Others
<1>14. NoFault' /\ DoneToAsker'
  BY <1>1, <1>4 DEF Others, NoFault, DoneToAsker, Consumed, Told, x
<1> QED BY <1>1, <1>7, <1>8, <1>11, <1>12, <1>13, <1>14 DEF Others

-----------------------------------------------------------------------------
(* The requests *)

(* A TMGI of the application, without an id, that does not wait for one. *)
Fresh(t, x) ==
    /\ t \in [Tmgis -> TmgiObject] /\ \A z \in Tmgis \ {x} : t[z] = tmgi[z]
    /\ t[x].st = "live" /\ t[x].by = "app" /\ t[x].sid = None /\ t[x].callback /\ ~t[x].allocated
    /\ x \notin Waiting /\ (failed \/ x \notin Listed)

(* What sending an allocation for it does. *)
Requested(x, t, r) ==
    /\ r.k = k + 1 /\ r.op = "allocate" /\ r.of = x /\ r.obj = k + 1
    /\ k' = k + 1 /\ k \in Nat
    /\ xacts' = {q \in xacts : q.of # x} \cup {r}
    /\ wire' = wire \cup {r}
    /\ tmgi' \in [Tmgis -> TmgiObject]
    /\ \A z \in Tmgis \ {x} : tmgi'[z] = tmgi[z]
    /\ tmgi'[x].st = "live" /\ tmgi'[x].by = "app" /\ tmgi'[x].sid = None /\ tmgi'[x].callback
    /\ ~tmgi'[x].allocated /\ tmgi'[x].obj = k + 1 /\ tmgi'[x].awaits

LEMMA AllocateRequests ==
    ASSUME TypeOK, Others, NEW x \in Tmgis, NEW t, Fresh(t, x), Allocate(x, t)
    PROVE  \E r : Requested(x, t, r)
<1> DEFINE r == [k |-> k + 1, op |-> "allocate", of |-> x, obj |-> k + 1, sid |-> None]
           q == [t[x] EXCEPT !.obj = k + 1, !.awaits = TRUE]
           u == [t EXCEPT ![x] = q]
<1>1. k \in Nat /\ k < MaxReq /\ k + 1 \in NoObj .. MaxReq /\ MaxReq \in Nat
  BY TmgiAssumption DEF Allocate, TypeOK, NoObj
<1>2. /\ q \in TmgiObject /\ q.st = "live" /\ q.by = "app" /\ q.sid = None /\ q.callback
      /\ ~q.allocated /\ q.obj = k + 1 /\ q.awaits
  BY <1>1 DEF Fresh, TmgiObject
<1>3. [t EXCEPT ![x].obj = k + 1, ![x].awaits = TRUE] = u
  BY DEF Fresh, TmgiObject
<1>4. k' = k + 1 /\ tmgi' = u /\ xacts' = Surviving(u) \cup {r} /\ wire' = wire \cup {r}
  BY <1>3 DEF Allocate
<1>5. r.k = k + 1 /\ r.op = "allocate" /\ r.of = x /\ r.obj = k + 1
  OBVIOUS
<1> HIDE DEF q, r
<1>6. u \in [Tmgis -> TmgiObject] /\ u[x] = q /\ \A z \in Tmgis \ {x} : u[z] = tmgi[z]
  BY <1>2 DEF Fresh
<1> HIDE DEF u
<1>7. Surviving(u) = {p \in xacts : p.of # x}
  <2>1. u[x].obj > k
    BY <1>1, <1>2, <1>6
  <2>2. \A z \in Tmgis \ {x} : u[z].st = tmgi[z].st /\ u[z].obj = tmgi[z].obj
    BY <1>6
  <2> QED BY <2>1, <2>2, OthersSurvive DEF Others
<1>8. Requested(x, t, r)
  BY <1>1, <1>2, <1>4, <1>5, <1>6, <1>7 DEF Requested
<1> QED BY <1>8

LEMMA AllocateKeeps ==
    ASSUME TypeOK, Others, ~Deallocating, NEW x \in Tmgis, NEW t, Fresh(t, x), Allocate(x, t),
           Listed' = Listed \cup {x}, told' = None,
           answers' = answers, remote' = remote, failed' = failed, fault' = fault
    PROVE  Others'
<1>1. PICK r : Requested(x, t, r)
  BY AllocateRequests
<1>2. Listed \subseteq Tmgis /\ None \notin Ids /\ (\A z \in Listed : Live(z) /\ TmgiSound(z))
  BY Listing DEF Others
<1>3. /\ r.k = k + 1 /\ r.op = "allocate" /\ r.of = x /\ r.obj = k + 1
      /\ k' = k + 1 /\ k \in Nat
      /\ xacts' = {q \in xacts : q.of # x} \cup {r} /\ wire' = wire \cup {r}
  BY <1>1 DEF Requested
<1>4. \A z \in Tmgis \ {x} : tmgi'[z] = tmgi[z]
  BY <1>1 DEF Requested
<1>5. /\ tmgi'[x].st = "live" /\ tmgi'[x].by = "app" /\ tmgi'[x].sid = None /\ tmgi'[x].callback
      /\ ~tmgi'[x].allocated /\ tmgi'[x].obj = k + 1 /\ tmgi'[x].awaits
  BY <1>1 DEF Requested
<1>6. \A z \in Tmgis : Live(z) => tmgi[z].obj <= k /\ tmgi[z].obj \in Int
  BY DEF Others, TmgisSound, TmgiSound, TypeOK, TmgiObject, NoObj
<1>7. TmgisSound'
  <2>1. TmgiSound(x)'
    BY <1>3, <1>5 DEF TmgiSound, SessionObj
  <2>2. ASSUME NEW z \in Tmgis \ {x}, Live(z) PROVE TmgiSound(z)'
    <3>1. TmgiSound(z)
      BY <2>2 DEF Others, TmgisSound
    <3> QED BY <2>2, <3>1, <1>3, <1>4, <1>6 DEF TmgiSound
  <2>3. \A z \in Tmgis : Live(z)' => TmgiSound(z)'
    BY <2>1, <2>2, <1>4 DEF Live
  <2>4. \A z \in Listed' : Live(z)'
    BY <1>2, <1>4, <1>5 DEF Live
  <2>5. \A z \in Tmgis : tmgi'[z].st = "none" =>
          tmgi'[z].obj = NoObj /\ tmgi'[z].by = None /\ tmgi'[z].sid = None /\ ~tmgi'[z].allocated
    BY <1>4, <1>5 DEF Others, TmgisSound
  <2>6. ASSUME NEW y \in Tmgis, NEW z \in Tmgis, Live(y)', Live(z)', tmgi'[y].by = "app", tmgi'[z].by = "app",
               tmgi'[y].obj # NoObj, tmgi'[y].obj = tmgi'[z].obj
        PROVE  y = z
    <3>1. CASE y # x /\ z # x
      BY <2>6, <3>1, <1>4 DEF Others, TmgisSound, Live
    <3>2. CASE y = x /\ z # x
      BY <2>6, <3>2, <1>3, <1>4, <1>5, <1>6 DEF Live
    <3>3. CASE y # x /\ z = x
      BY <2>6, <3>3, <1>3, <1>4, <1>5, <1>6 DEF Live
    <3> QED BY <3>1, <3>2, <3>3
  <2>7. \A u, y, z \in Tmgis :
          tmgi'[u].by = "session" /\ tmgi'[y].by = "session" /\ tmgi'[z].by = "session"
          => u = y \/ y = z \/ u = z
    <3>1. \A z \in Tmgis : tmgi'[z].by = "session" => tmgi[z].by = "session"
      BY <1>4, <1>5
    <3> QED BY <3>1 DEF Others, TmgisSound
  <2> QED BY <2>3, <2>4, <2>5, <2>6, <2>7 DEF TmgisSound
<1>8. ~Deallocating'
  BY <1>3 DEF Deallocating
<1>9. RequestsSound'
  <2>1. ASSUME NEW q \in xacts' PROVE OwnRequest(q)'
    <3>1. CASE q = r
      BY <3>1, <1>3, <1>5 DEF OwnRequest
    <3>2. CASE q # r
      <4>1. q \in xacts /\ q.of # x /\ q.op # "deallocate" /\ OwnRequest(q)
        BY <3>2, <1>3 DEF Others, RequestsSound, Deallocating
      <4> QED BY <4>1, <1>2, <1>4 DEF OwnRequest
    <3> QED BY <3>1, <3>2
  <2> QED BY <2>1, <1>8 DEF RequestsSound, Deallocating
<1>10. \A q \in xacts \cup wire : q.k <= k /\ q.k \in Int
  BY DEF Others, MessagesSound, TypeOK, Request
<1>11. \A b \in answers : b.req.k <= k /\ b.req.k \in Int
  BY DEF Others, MessagesSound, TypeOK, Answer, Request
<1>12. MessagesSound'
  <2>1. \A q \in (xacts \cup wire)' : q.k <= k'
    BY <1>3, <1>10
  <2>2. \A b \in answers' : b.req.k <= k' /\ b.req \notin wire'
    BY <1>3, <1>11 DEF Others, MessagesSound
  <2> QED BY <2>1, <2>2 DEF Others, MessagesSound
<1>13. \A b \in answers : b.req \in xacts' => b.req \in xacts /\ b.req # r
  BY <1>3, <1>11
<1>14. \A b \in answers' : Granted(b)' => Granted(b)
  BY <1>13 DEF Granted
<1>15. IdsInTransit'
  <2>1. ASSUME NEW q \in wire', q.op = "deallocate"
        PROVE  /\ q.sid \in remote'
               /\ \A z \in Listed' : tmgi'[z].sid = q.sid => q \in xacts' /\ q.of = z
               /\ \A p \in wire' : p.op = "deallocate" /\ p.sid = q.sid => p = q
    <3>1. q \in wire /\ q.sid \in remote /\ q.sid # None
      BY <2>1, <1>2, <1>3 DEF Others, IdsInTransit, TypeOK
    <3>2. \A z \in Listed : tmgi[z].sid # q.sid
      BY <2>1, <3>1 DEF Others, IdsInTransit, Deallocating
    <3>3. \A z \in Listed' : tmgi'[z].sid # q.sid
      BY <3>1, <3>2, <1>2, <1>4, <1>5
    <3> QED BY <2>1, <3>1, <3>3, <1>3 DEF Others, IdsInTransit
  <2>2. ASSUME NEW b \in answers', Granted(b)'
        PROVE  /\ b.sid \in remote'
               /\ \A z \in Listed' : tmgi'[z].sid # b.sid
               /\ \A q \in wire' : q.op = "deallocate" => q.sid # b.sid
               /\ \A c \in answers' : Granted(c)' /\ b.sid = c.sid => b = c
    <3>1. Granted(b) /\ b \in answers
      BY <2>2, <1>14
    <3>2. b.sid \in remote /\ b.sid # None
      BY <3>1, <1>2 DEF Others, IdsInTransit, TypeOK
    <3>3. \A z \in Listed' : tmgi'[z].sid # b.sid
      BY <3>1, <3>2, <1>2, <1>4, <1>5 DEF Others, IdsInTransit
    <3> QED BY <3>1, <3>2, <3>3, <1>3, <1>14 DEF Others, IdsInTransit
  <2> QED BY <2>1, <2>2 DEF IdsInTransit
<1>16. IdsKept'
  <2>1. \A z \in Listed : ~Gone(z)
    BY DEF Gone, Deallocating
  <2>2. ASSUME NEW z \in Listed', tmgi'[z].by = "app", tmgi'[z].sid # None
        PROVE  tmgi'[z].sid \in remote /\ \A y \in Listed' \ {z} : tmgi'[y].sid # tmgi'[z].sid
    <3>1. z # x /\ z \in Listed
      BY <2>2, <1>5
    <3>2. tmgi'[z] = tmgi[z]
      BY <3>1, <1>2, <1>4
    <3>3. tmgi[z].sid \in remote /\ \A y \in Listed \ {z} : tmgi[y].sid # tmgi[z].sid
      BY <2>1, <2>2, <3>1, <3>2 DEF Others, IdsKept
    <3> QED BY <2>2, <3>2, <3>3, <1>2, <1>4, <1>5
  <2> QED BY <2>2 DEF IdsKept
<1>17. Counted'
  <2> DEFINE A == {q \in Allocating : q.of # x}
  <2>1. /\ IsFiniteSet(Unnamed) /\ IsFiniteSet(Waiting) /\ IsFiniteSet(Allocating)
        /\ Cardinality(Allocating) <= Cardinality(Waiting)
        /\ ~failed => Cardinality(Allocating) = Cardinality(Waiting) /\ Waiting = Unnamed
    BY SomeWait DEF Others, Counted
  <2>2. Allocating' = A \cup {r} /\ r \notin A
    BY <1>3, <1>10 DEF Allocating
  <2>3. IsFiniteSet(A) /\ Cardinality(A) <= Cardinality(Allocating)
    BY <2>1, FS_Subset
  <2>4. ~failed => A = Allocating
    BY DEF Fresh, Others, RequestsSound, OwnRequest, Allocating
  <2>5. Waiting' = Waiting \cup {x} /\ x \notin Waiting /\ Unnamed' = Unnamed \cup {x}
    <3>1. Unnamed' = Unnamed \cup {x}
      BY <1>4, <1>5 DEF Unnamed
    <3>2. x \notin Waiting
      BY DEF Fresh
    <3>3. Waiting' = Waiting \cup {x}
      BY <3>1, <1>4, <1>5 DEF Waiting, Unnamed
    <3> QED BY <3>1, <3>2, <3>3
  <2> HIDE DEF A
  <2>6. Cardinality(Allocating') = Cardinality(A) + 1 /\ IsFiniteSet(Allocating')
    BY <2>2, <2>3, FS_AddElement
  <2>7. Cardinality(Waiting') = Cardinality(Waiting) + 1
    BY <2>1, <2>5, FS_AddElement
  <2>8. Cardinality(A) \in Nat /\ Cardinality(Allocating) \in Nat /\ Cardinality(Waiting) \in Nat
    BY <2>1, <2>3, FS_CardinalityType
  <2>9. Cardinality(Allocating') <= Cardinality(Waiting')
    BY <2>1, <2>3, <2>6, <2>7, <2>8
  <2>10. ~failed => Cardinality(Allocating') = Cardinality(Waiting') /\ Waiting' = Unnamed'
    BY <2>1, <2>4, <2>5, <2>6, <2>7
  <2> QED BY <2>6, <2>9, <2>10 DEF Counted
<1>18. NoFault' /\ DoneToAsker'
  BY DEF Others, NoFault, DoneToAsker
<1> QED BY <1>7, <1>9, <1>12, <1>15, <1>16, <1>17, <1>18 DEF Others

LEMMA CreateTmgiKeeps ==
    ASSUME Disciplined, TypeOK, Chain, Others, NEW x \in Tmgis, CreateTmgi(x)
    PROVE  Chain' /\ Others'
<1> DEFINE q == [tmgi[x] EXCEPT !.st = "live", !.by = "app", !.callback = TRUE]
           t == [tmgi EXCEPT ![x] = q]
<1>1. /\ ~Deallocating /\ tmgi[x].st = "none" /\ Relink(Appended(nxt, prv, x)) /\ told' = None
      /\ answers' = answers /\ remote' = remote /\ failed' = failed /\ fault' = fault
      /\ Allocate(x, [tmgi EXCEPT ![x].st = "live", ![x].by = "app", ![x].callback = TRUE])
  BY DEF CreateTmgi, Apart, Disciplined
<1>2. [tmgi EXCEPT ![x].st = "live", ![x].by = "app", ![x].callback = TRUE] = t
  BY DEF TypeOK, TmgiObject
<1>3. tmgi[x].sid = None /\ ~tmgi[x].allocated /\ x \notin Listed /\ x \notin Waiting
  BY <1>1 DEF Others, TmgisSound, Live, Waiting, Unnamed
<1>4. /\ q \in TmgiObject /\ q.st = "live" /\ q.by = "app" /\ q.sid = None /\ q.callback
      /\ ~q.allocated
  <2>1. tmgi[x] \in TmgiObject
    BY DEF TypeOK
  <2>2. q \in TmgiObject
    BY <2>1 DEF TmgiObject
  <2>3. q.st = "live" /\ q.by = "app" /\ q.sid = tmgi[x].sid /\ q.callback /\ q.allocated = tmgi[x].allocated
    BY <2>1 DEF TmgiObject
  <2> QED BY <2>2, <2>3, <1>3
<1> HIDE DEF q
<1>5. Fresh(t, x)
  BY <1>3, <1>4 DEF Fresh, TypeOK
<1>6. Allocate(x, t)
  BY <1>1, <1>2
<1> HIDE DEF t
<1>7. PICK r : Requested(x, t, r)
  BY <1>5, <1>6, AllocateRequests
<1>8. /\ Listed \subseteq Tmgis /\ None \notin Ids
      /\ \A z \in Listed : TmgiSound(z)
  BY Listing DEF Others
<1>9. /\ \A z \in Listed : tmgi'[z] = tmgi[z]
      /\ tmgi'[x].by = "app" /\ tmgi'[x].sid = None
  BY <1>3, <1>7, <1>8 DEF Requested
<1>10. Chain' /\ Listed' = Listed \cup {x}
  <2>1. ASSUME NEW y \in Listed \cup {x}, NEW z \in Listed \cup {x}, SameId(y, z)'
        PROVE  SameId(y, z) /\ y # x /\ z # x
    <3>1. z # x /\ z \in Listed
      BY <2>1, <1>9 DEF SameId
    <3>2. tmgi[z].by = "session"
      BY <2>1, <3>1, <1>9 DEF SameId
    <3>3. tmgi[z].sid # None
      BY <3>1, <3>2, <1>8 DEF TmgiSound
    <3>4. y # x
      BY <2>1, <3>1, <3>3, <1>9 DEF SameId
    <3> QED BY <2>1, <3>1, <3>4, <1>9 DEF SameId
  <2> QED BY <1>1, <1>3, <2>1, ChainAppend
<1>11. Others'
  BY <1>1, <1>5, <1>6, <1>10, AllocateKeeps
<1> QED BY <1>10, <1>11

LEMMA SendAllocateKeeps ==
    ASSUME Disciplined, TypeOK, Chain, Others, NEW x \in Tmgis, SendAllocate(x)
    PROVE  Chain' /\ Others'
<1>1. /\ tmgi[x].st = "live" /\ x \in Listed /\ ~tmgi[x].awaits /\ tmgi[x].sid = None
      /\ Allocate(x, tmgi) /\ told' = None /\ nxt' = nxt /\ prv' = prv
      /\ answers' = answers /\ remote' = remote /\ failed' = failed /\ fault' = fault
  BY DEF SendAllocate, MaySend, May, Disciplined
<1>2. x \in Unnamed /\ x \notin Waiting
  BY <1>1 DEF Unnamed, Waiting
<1>3. TmgiSound(x)
  BY <1>1, Listing DEF Others
<1>4. Fresh(tmgi, x)
  BY <1>1, <1>2, <1>3 DEF Fresh, TypeOK, TmgiSound, Others, Counted
<1>5. ~Deallocating
  BY <1>2 DEF Others, RequestsSound
<1>6. PICK r : Requested(x, tmgi, r)
  BY <1>1, <1>4, AllocateRequests
<1>7. \A z \in Tmgis : tmgi'[z].by = tmgi[z].by /\ tmgi'[z].sid = tmgi[z].sid
  BY <1>1, <1>4, <1>6 DEF Requested, Fresh
<1>8. Chain' /\ Listed' = Listed
  <2>1. \A y, z \in Listed : SameId(y, z)' => SameId(y, z)
    BY <1>7, Listing DEF SameId, Others
  <2> QED BY <1>1, <2>1, ChainSame
<1>9. Listed' = Listed \cup {x}
  BY <1>1, <1>8
<1>10. Others'
  BY <1>1, <1>4, <1>5, <1>9, AllocateKeeps
<1> QED BY <1>8, <1>10

(* The application makes a TMGI of an id that is nobody's. *)
LEMMA NewTmgiKeeps ==
    ASSUME Disciplined, TypeOK, Chain, Others,
           NEW x \in Tmgis, NEW i \in Ids \cup {None}, NEW c \in BOOLEAN, NewTmgi(x, i, c)
    PROVE  Chain' /\ Others'
<1> DEFINE q == [st |-> "live", by |-> "app", sid |-> i, allocated |-> i # None,
                 callback |-> c, obj |-> NoObj, awaits |-> FALSE]
<1>1. /\ tmgi[x].st = "none" /\ i # None /\ i \in remote /\ Holders(i) = {} /\ ~InTransit(i)
      /\ Relink(Appended(nxt, prv, x)) /\ tmgi' = [tmgi EXCEPT ![x] = q] /\ told' = None
      /\ xacts' = xacts /\ wire' = wire /\ answers' = answers /\ remote' = remote /\ k' = k
      /\ failed' = failed /\ fault' = fault
  BY DEF NewTmgi, Disciplined
<1>2. q.st = "live" /\ q.by = "app" /\ q.sid = i /\ q.obj = NoObj
  OBVIOUS
<1> HIDE DEF q
<1>3. x \notin Listed
  BY <1>1 DEF Others, TmgisSound, Live
<1>4. Listed \subseteq Tmgis /\ \A z \in Listed : Live(z) /\ TmgiSound(z)
  BY Listing DEF Others
<1>5. tmgi'[x] = q /\ \A z \in Tmgis \ {x} : tmgi'[z] = tmgi[z]
  BY <1>1 DEF TypeOK
<1>6. \A z \in Listed : tmgi[z].sid # i /\ tmgi'[z] = tmgi[z]
  BY <1>1, <1>3, <1>4, <1>5 DEF Holders, Live
<1>7. Chain' /\ Listed' = Listed \cup {x}
  <2>1. ASSUME NEW y \in Listed \cup {x}, NEW z \in Listed \cup {x}, SameId(y, z)'
        PROVE  SameId(y, z) /\ y # x /\ z # x
    BY <2>1, <1>2, <1>5, <1>6 DEF SameId
  <2> QED BY <1>1, <1>3, <2>1, ChainAppend
<1>8. k \in Nat
  BY DEF TypeOK
<1>9. TmgisSound'
  <2>1. TmgiSound(x)'
    BY <1>1, <1>2, <1>5, <1>8 DEF TmgiSound, SessionObj, NoObj
  <2>2. ASSUME NEW z \in Tmgis \ {x}, Live(z) PROVE TmgiSound(z)'
    <3>1. TmgiSound(z)
      BY <2>2 DEF Others, TmgisSound
    <3> QED BY <3>1, <1>1, <1>5, <1>7 DEF TmgiSound
  <2>3. \A z \in Tmgis : Live(z)' => TmgiSound(z)'
    BY <2>1, <2>2, <1>5 DEF Live
  <2>4. \A z \in Listed' : Live(z)'
    BY <1>2, <1>4, <1>5, <1>7 DEF Live
  <2>5. \A z \in Tmgis : tmgi'[z].st = "none" =>
          tmgi'[z].obj = NoObj /\ tmgi'[z].by = None /\ tmgi'[z].sid = None /\ ~tmgi'[z].allocated
    BY <1>2, <1>5 DEF Others, TmgisSound
  <2>6. ASSUME NEW y \in Tmgis, NEW z \in Tmgis, Live(y)', Live(z)', tmgi'[y].by = "app", tmgi'[z].by = "app",
               tmgi'[y].obj # NoObj, tmgi'[y].obj = tmgi'[z].obj
        PROVE  y = z
    <3>1. y # x /\ z # x
      BY <2>6, <1>2, <1>5
    <3> QED BY <2>6, <3>1, <1>5 DEF Others, TmgisSound, Live
  <2>7. \A u, y, z \in Tmgis :
          tmgi'[u].by = "session" /\ tmgi'[y].by = "session" /\ tmgi'[z].by = "session"
          => u = y \/ y = z \/ u = z
    <3>1. \A z \in Tmgis : tmgi'[z].by = "session" => tmgi[z].by = "session"
      BY <1>2, <1>5
    <3> QED BY <3>1 DEF Others, TmgisSound
  <2> QED BY <2>3, <2>4, <2>5, <2>6, <2>7 DEF TmgisSound
<1>10. Unnamed' = Unnamed
  BY <1>1, <1>2, <1>5 DEF Unnamed
<1>11. RequestsSound'
  <2>1. ASSUME NEW r \in xacts' PROVE OwnRequest(r)'
    <3>1. r \in xacts /\ OwnRequest(r) /\ r.of \in Listed
      BY <1>1 DEF Others, RequestsSound, OwnRequest
    <3>2. tmgi'[r.of] = tmgi[r.of] /\ r.of \in Listed'
      BY <3>1, <1>6, <1>7
    <3> QED BY <3>1, <3>2 DEF OwnRequest
  <2> QED BY <2>1, <1>1, <1>10 DEF Others, RequestsSound, Deallocating
<1>12. MessagesSound'
  BY <1>1 DEF Others, MessagesSound
<1>13. \A b \in answers : (Granted(b)' <=> Granted(b)) /\ b.sid # i
  BY <1>1 DEF Granted, InTransit
<1>14. \A r \in wire : r.sid # i
  BY <1>1 DEF InTransit
<1>15. IdsInTransit'
  <2>1. ASSUME NEW r \in wire', r.op = "deallocate"
        PROVE  /\ r.sid \in remote'
               /\ \A z \in Listed' : tmgi'[z].sid = r.sid => r \in xacts' /\ r.of = z
               /\ \A p \in wire' : p.op = "deallocate" /\ p.sid = r.sid => p = r
    BY <2>1, <1>1, <1>2, <1>5, <1>6, <1>7, <1>14 DEF Others, IdsInTransit
  <2>2. ASSUME NEW b \in answers', Granted(b)'
        PROVE  /\ b.sid \in remote'
               /\ \A z \in Listed' : tmgi'[z].sid # b.sid
               /\ \A r \in wire' : r.op = "deallocate" => r.sid # b.sid
               /\ \A d \in answers' : Granted(d)' /\ b.sid = d.sid => b = d
    BY <2>2, <1>1, <1>2, <1>5, <1>6, <1>7, <1>13 DEF Others, IdsInTransit
  <2> QED BY <2>1, <2>2 DEF IdsInTransit
<1>16. IdsKept'
  <2>1. \A z \in Listed : Gone(z)' <=> Gone(z)
    BY <1>1 DEF Gone
  <2>2. ASSUME NEW z \in Listed, tmgi'[z].by = "app", tmgi'[z].sid # None
        PROVE  /\ tmgi'[z].sid \in remote' \/ Gone(z)'
               /\ \A y \in Listed' \ {z} : tmgi'[y].sid = tmgi'[z].sid => tmgi'[y].by = "session" /\ Gone(z)'
    BY <2>1, <2>2, <1>1, <1>2, <1>5, <1>6, <1>7 DEF Others, IdsKept
  <2>3. tmgi'[x].sid \in remote' /\ \A y \in Listed' \ {x} : tmgi'[y].sid # tmgi'[x].sid
    BY <1>1, <1>2, <1>5, <1>6, <1>7
  <2> QED BY <2>2, <2>3, <1>7 DEF IdsKept
<1>17. Counted'
  <2>1. x \notin Unnamed
    BY <1>1 DEF Unnamed
  <2>2. Waiting' = Waiting
    BY <2>1, <1>5, <1>10 DEF Waiting, Unnamed
  <2>3. Allocating' = Allocating
    BY <1>1 DEF Allocating
  <2> QED BY <2>2, <2>3, <1>1, <1>10, CountSame DEF Others
<1>18. NoFault' /\ DoneToAsker'
  BY <1>1 DEF Others, NoFault, DoneToAsker
<1> QED BY <1>7, <1>9, <1>11, <1>12, <1>15, <1>16, <1>17, <1>18 DEF Others

(* A deallocation names an id that is allocated, and that no other request *)
(* of a deallocation names.                                                *)
LEMMA SendDeallocateKeeps ==
    ASSUME Disciplined, TypeOK, Chain, Others, NEW x \in Tmgis, SendDeallocate(x)
    PROVE  Chain' /\ Others'
<1> DEFINE o == ObjectFor(x)
           r == [k |-> k + 1, op |-> "deallocate", of |-> x, obj |-> o, sid |-> tmgi[x].sid]
           q == [tmgi[x] EXCEPT !.obj = o, !.awaits = TRUE]
<1>1. /\ tmgi[x].st = "live" /\ x \in Listed /\ ~tmgi[x].awaits /\ tmgi[x].sid # None
      /\ tmgi[x].by = "app" /\ Unnamed = {} /\ k < MaxReq /\ k' = k + 1
      /\ xacts' = xacts \cup {r} /\ wire' = wire \cup {r} /\ told' = None
      /\ nxt' = nxt /\ prv' = prv /\ answers' = answers /\ remote' = remote /\ failed' = failed
      /\ fault' = fault /\ tmgi' = [tmgi EXCEPT ![x].obj = o, ![x].awaits = TRUE]
  BY DEF SendDeallocate, MaySend, May, Disciplined
<1>2. /\ r.k = k + 1 /\ r.op = "deallocate" /\ r.of = x /\ r.obj = o /\ r.sid = tmgi[x].sid
  OBVIOUS
<1>3. /\ k \in Nat /\ tmgi[x] \in TmgiObject
      /\ \A z \in Tmgis : Live(z) => tmgi[z].obj <= k /\ tmgi[z].obj \in Int
      /\ Live(x) /\ TmgiSound(x)
  BY <1>1 DEF TypeOK, Others, TmgisSound, TmgiSound, TmgiObject, NoObj, Live
<1>4. o \in Int /\ o # NoObj /\ o # SessionObj /\ o <= k + 1
      /\ (tmgi[x].obj # NoObj => o = tmgi[x].obj) /\ (tmgi[x].obj = NoObj => o = k + 1)
  BY <1>1, <1>3 DEF ObjectFor, NoObj, SessionObj, TmgiSound
<1> HIDE DEF o
<1>5. tmgi' = [tmgi EXCEPT ![x] = q]
  BY <1>1 DEF TypeOK, TmgiObject
<1>6. /\ q.st = "live" /\ q.by = "app" /\ q.sid = tmgi[x].sid /\ q.obj = o /\ q.awaits
      /\ q.callback = tmgi[x].callback /\ q.allocated = tmgi[x].allocated
  BY <1>1, <1>3 DEF TmgiObject
<1> HIDE DEF q, r
<1>7. tmgi'[x] = q /\ \A z \in Tmgis \ {x} : tmgi'[z] = tmgi[z]
  BY <1>5 DEF TypeOK
<1>8. \A z \in Tmgis : tmgi'[z].st = tmgi[z].st /\ tmgi'[z].by = tmgi[z].by /\ tmgi'[z].sid = tmgi[z].sid
  BY <1>1, <1>6, <1>7
<1>9. Listed \subseteq Tmgis
  BY Listing DEF Others
<1>10. Chain' /\ Listed' = Listed
  <2>1. \A y, z \in Listed : SameId(y, z)' => SameId(y, z)
    BY <1>8, <1>9 DEF SameId
  <2> QED BY <1>1, <2>1, ChainSame
<1>11. \A p \in xacts : p.of = x => p.op # "deallocate"
  BY <1>1 DEF Others, RequestsSound, OwnRequest
<1>12. ~Gone(x)
  BY <1>11 DEF Gone
<1>13. tmgi[x].sid \in remote /\ \A y \in Listed \ {x} : tmgi[y].sid # tmgi[x].sid
  BY <1>1, <1>12 DEF Others, IdsKept
<1>14. TmgisSound'
  <2>1. ASSUME NEW z \in Tmgis, Live(z) PROVE TmgiSound(z)'
    <3>1. TmgiSound(z)
      BY <2>1 DEF Others, TmgisSound
    <3>2. CASE z = x
      <4>1. tmgi'[z].obj = o /\ tmgi'[z].by = "app" /\ tmgi'[z].sid # None
        BY <3>2, <1>1, <1>6, <1>7
      <4> QED BY <4>1, <1>1, <1>4 DEF TmgiSound
    <3>3. CASE z # x
      <4>1. tmgi'[z] = tmgi[z] /\ remote' = remote /\ k' = k + 1
        BY <3>3, <1>1, <1>7
      <4>2. tmgi[z].obj <= k + 1
        BY <2>1, <1>3
      <4> QED BY <3>1, <4>1, <4>2, <1>10 DEF TmgiSound
    <3> QED BY <3>2, <3>3
  <2>2. \A z \in Tmgis : tmgi'[z].st = "none" =>
          tmgi'[z].obj = NoObj /\ tmgi'[z].by = None /\ tmgi'[z].sid = None /\ ~tmgi'[z].allocated
    <3>1. ASSUME NEW z \in Tmgis, tmgi'[z].st = "none" PROVE tmgi'[z] = tmgi[z]
      <4>1. tmgi[z].st = "none" /\ tmgi[x].st = "live"
        BY <3>1, <1>1, <1>8
      <4>2. z # x
        BY <4>1
      <4> QED BY <4>2, <1>7
    <3> QED BY <3>1 DEF Others, TmgisSound
  <2>3. ASSUME NEW y \in Tmgis, NEW z \in Tmgis, Live(y)', Live(z)', tmgi'[y].by = "app", tmgi'[z].by = "app",
               tmgi'[y].obj # NoObj, tmgi'[y].obj = tmgi'[z].obj
        PROVE  y = z
    <3>0. Live(y) /\ Live(z) /\ tmgi[y].by = "app" /\ tmgi[z].by = "app"
      BY <2>3, <1>8 DEF Live
    <3>1. CASE y # x /\ z # x
      BY <2>3, <3>0, <3>1, <1>7 DEF Others, TmgisSound
    <3>2. CASE y = x /\ z # x
      <4>1. o = tmgi[z].obj
        BY <2>3, <3>2, <1>6, <1>7
      <4>2. tmgi[x].obj # NoObj /\ tmgi[x].obj = tmgi[z].obj
        BY <4>1, <3>0, <1>3, <1>4
      <4> QED BY <4>2, <3>0, <3>2 DEF Others, TmgisSound
    <3>3. CASE y # x /\ z = x
      <4>1. o = tmgi[y].obj
        BY <2>3, <3>3, <1>6, <1>7
      <4>2. tmgi[x].obj # NoObj /\ tmgi[x].obj = tmgi[y].obj
        BY <4>1, <3>0, <1>3, <1>4
      <4> QED BY <4>2, <3>0, <3>3 DEF Others, TmgisSound
    <3> QED BY <3>1, <3>2, <3>3
  <2>4. \A z \in Tmgis : Live(z)' => TmgiSound(z)'
    BY <2>1, <1>8 DEF Live
  <2>5. \A z \in Listed' : Live(z)'
    BY <1>8, <1>9, <1>10 DEF Others, TmgisSound, Live
  <2>6. \A u, y, z \in Tmgis :
          tmgi'[u].by = "session" /\ tmgi'[y].by = "session" /\ tmgi'[z].by = "session"
          => u = y \/ y = z \/ u = z
    BY <1>8 DEF Others, TmgisSound
  <2> QED BY <2>2, <2>3, <2>4, <2>5, <2>6 DEF TmgisSound
<1>15. Unnamed' = Unnamed
  BY <1>8 DEF Unnamed
<1>16. RequestsSound'
  <2>1. ASSUME NEW p \in xacts' PROVE OwnRequest(p)'
    <3>1. CASE p = r
      BY <3>1, <1>1, <1>2, <1>6, <1>7, <1>10 DEF OwnRequest
    <3>2. CASE p # r
      <4>1. p \in xacts /\ OwnRequest(p) /\ p.of \in Tmgis /\ p.obj \in SessionObj .. MaxReq
        BY <3>2, <1>1, <1>9 DEF Others, RequestsSound, OwnRequest, TypeOK, Request
      <4>2. p.obj # NoObj
        BY <4>1, TmgiAssumption DEF SessionObj, NoObj
      <4>3. tmgi'[p.of].obj = tmgi[p.of].obj
        <5>1. p.of = x => tmgi[x].obj = p.obj
          BY <4>1 DEF OwnRequest
        <5> QED BY <5>1, <4>1, <4>2, <1>4, <1>6, <1>7
      <4>4. tmgi'[p.of].by = tmgi[p.of].by /\ tmgi'[p.of].sid = tmgi[p.of].sid
        BY <4>1, <1>8
      <4>5. p.op = "deallocate" => tmgi'[p.of].awaits
        BY <4>1, <1>6, <1>7 DEF OwnRequest
      <4> QED BY <4>1, <4>3, <4>4, <4>5, <1>10 DEF OwnRequest
    <3> QED BY <3>1, <3>2
  <2>2. \A p, s \in xacts' : p.op = "deallocate" /\ s.op = "deallocate" /\ p.of = s.of => p = s
    BY <1>1, <1>2, <1>11 DEF Others, RequestsSound
  <2> QED BY <2>1, <2>2, <1>1, <1>15 DEF RequestsSound
<1>17. \A p \in xacts \cup wire : p.k <= k /\ p.k \in Int
  BY DEF Others, MessagesSound, TypeOK, Request
<1>18. \A b \in answers : b.req.k <= k /\ b.req.k \in Int
  BY DEF Others, MessagesSound, TypeOK, Answer, Request
<1>19. MessagesSound'
  <2>1. \A p \in (xacts \cup wire)' : p.k <= k'
    BY <1>1, <1>2, <1>3, <1>17
  <2>2. \A b \in answers' : b.req.k <= k' /\ b.req \notin wire'
    BY <1>1, <1>2, <1>3, <1>18 DEF Others, MessagesSound
  <2> QED BY <2>1, <2>2, <1>1 DEF Others, MessagesSound
<1>20. Allocating' = Allocating /\ Allocating = {}
  <2>1. Allocating = {}
    BY <1>1, SomeWait DEF Others, Waiting
  <2>2. Allocating' = Allocating
    BY <1>1, <1>2 DEF Allocating
  <2> QED BY <2>1, <2>2
<1>21. \A b \in answers' : ~Granted(b)'
  BY <1>20 DEF Granted, Allocating
<1>22. IdsInTransit'
  <2>1. ASSUME NEW p \in wire', p.op = "deallocate"
        PROVE  /\ p.sid \in remote'
               /\ \A z \in Listed' : tmgi'[z].sid = p.sid => p \in xacts' /\ p.of = z
               /\ \A s \in wire' : s.op = "deallocate" /\ s.sid = p.sid => s = p
    <3>0. ASSUME NEW s \in wire, s.op = "deallocate" PROVE s.sid # r.sid
      <4>1. SUFFICES ASSUME s.sid = r.sid PROVE FALSE
        OBVIOUS
      <4>2. s \in xacts /\ s.of = x
        BY <3>0, <4>1, <1>1, <1>2 DEF Others, IdsInTransit
      <4> QED BY <3>0, <4>2, <1>11
    <3>1. CASE p = r
      <4>1. \A z \in Listed' : tmgi'[z].sid = p.sid => z = x
        BY <3>1, <1>2, <1>8, <1>9, <1>10, <1>13
      <4>2. \A s \in wire' : s.op = "deallocate" /\ s.sid = p.sid => s = p
        BY <3>0, <3>1, <1>1
      <4> QED BY <3>1, <4>1, <4>2, <1>1, <1>2, <1>13
    <3>2. CASE p # r
      <4>1. p \in wire
        BY <3>2, <1>1
      <4>2. \A z \in Listed' : tmgi'[z].sid = p.sid => p \in xacts' /\ p.of = z
        BY <2>1, <4>1, <1>1, <1>8, <1>9, <1>10 DEF Others, IdsInTransit
      <4>3. \A s \in wire' : s.op = "deallocate" /\ s.sid = p.sid => s = p
        BY <2>1, <4>1, <3>0, <1>1 DEF Others, IdsInTransit
      <4> QED BY <2>1, <4>1, <4>2, <4>3, <1>1 DEF Others, IdsInTransit
    <3> QED BY <3>1, <3>2
  <2> QED BY <2>1, <1>21 DEF IdsInTransit
<1>23. IdsKept'
  <2>1. \A z \in Listed : Gone(z) => Gone(z)'
    BY <1>1 DEF Gone
  <2>2. remote' = remote
    BY <1>1
  <2>3. \A z \in Listed : tmgi'[z].by = tmgi[z].by /\ tmgi'[z].sid = tmgi[z].sid
    BY <1>8, <1>9
  <2>4. IdsKept
    BY DEF Others
  <2> QED BY <2>1, <2>2, <2>3, <2>4, <1>10 DEF IdsKept
<1>24. Counted'
  <2>1. Waiting' = Waiting
    BY <1>1, <1>15 DEF Waiting
  <2> QED BY <2>1, <1>1, <1>15, <1>20, CountSame DEF Others
<1>25. NoFault' /\ DoneToAsker'
  BY <1>1 DEF Others, NoFault, DoneToAsker
<1> QED BY <1>10, <1>14, <1>16, <1>19, <1>22, <1>23, <1>24, <1>25 DEF Others

LEMMA FreeTmgiKeeps ==
    ASSUME Disciplined, TypeOK, Chain, Others, NEW x \in Tmgis, FreeTmgi(x)
    PROVE  Chain' /\ Others'
<1>1. /\ tmgi[x].st = "live" /\ tmgi[x].by = "app" /\ x \in Listed
      /\ \A y \in Unnamed : ~tmgi[y].awaits
      /\ Relink(Removed(nxt, prv, x)) /\ tmgi' = Freed(x) /\ xacts' = Surviving(Freed(x))
      /\ told' = None /\ wire' = wire /\ answers' = answers /\ remote' = remote /\ k' = k
      /\ failed' = failed
  BY DEF FreeTmgi, May, Disciplined
<1>2. /\ tmgi'[x].st = "freed" /\ \A z \in Tmgis \ {x} : tmgi'[z] = tmgi[z]
      /\ \A z \in Tmgis : /\ tmgi'[z].by = tmgi[z].by /\ tmgi'[z].sid = tmgi[z].sid
                          /\ tmgi'[z].awaits = tmgi[z].awaits
  <2> DEFINE q == [tmgi[x] EXCEPT !.st = "freed"]
  <2>1. q.st = "freed" /\ q.by = tmgi[x].by /\ q.sid = tmgi[x].sid /\ q.awaits = tmgi[x].awaits
    BY DEF TypeOK, TmgiObject
  <2>2. tmgi' = [tmgi EXCEPT ![x] = q]
    BY <1>1 DEF Freed
  <2> HIDE DEF q
  <2> QED BY <2>1, <2>2 DEF TypeOK
<1>3. /\ Listed \subseteq Tmgis /\ None \notin Tmgis
      /\ \A z \in Listed : Live(z) /\ TmgiSound(z)
  BY Listing DEF Others
<1>4. Chain' /\ Listed' = Listed \ {x}
  <2>1. \A y, z \in Listed \ {x} : SameId(y, z)' => SameId(y, z)
    BY <1>2, <1>3 DEF SameId
  <2> QED BY <1>1, <2>1, ChainRemove
<1>5. xacts' = {r \in xacts : r.of # x}
  <2>1. /\ \A z \in Tmgis \ {x} : Freed(x)[z].st = tmgi[z].st /\ Freed(x)[z].obj = tmgi[z].obj
        /\ Freed(x)[x].st # "live"
    BY <1>1, <1>2
  <2>2. Surviving(Freed(x)) = {r \in xacts : r.of # x}
    BY <2>1, OthersSurvive DEF Others
  <2> QED BY <2>2, <1>1
<1>6. fault' = fault
  <2>1. PICK rank \in [Tmgis -> Nat], b \in Nat : Chained(rank, b)
    BY DEF Chain
  <2>2. prv[x] \in Listed \cup {None} /\ nxt[x] \in Listed \cup {None}
    BY <2>1, <1>1 DEF Chained, Linked
  <2>3. \A n \in {prv[x], nxt[x]} \cap Tmgis : tmgi[n].st # "freed"
    BY <2>2, <1>3 DEF Live
  <2> QED BY <2>3 DEF FreeTmgi
<1>7. Waiting = {} /\ Allocating = {}
  <2>1. Waiting = {}
    BY <1>1 DEF Waiting
  <2> QED BY <2>1, SomeWait DEF Others
<1>8. TmgisSound'
  <2>1. ASSUME NEW z \in Tmgis \ {x}, TmgiSound(z) PROVE TmgiSound(z)'
    <3>1. tmgi'[z] = tmgi[z] /\ k' = k /\ remote' = remote /\ (z \in Listed => z \in Listed')
      BY <1>1, <1>2, <1>4
    <3> QED BY <2>1, <3>1 DEF TmgiSound
  <2>2. \A z \in Tmgis : Live(z)' => z # x /\ Live(z)
    BY <1>2 DEF Live
  <2>3. \A z \in Tmgis : Live(z)' => TmgiSound(z)'
    BY <2>1, <2>2 DEF Others, TmgisSound
  <2>4. \A z \in Listed' : Live(z)'
    BY <1>2, <1>3, <1>4 DEF Live
  <2>5. \A z \in Tmgis : tmgi'[z].st = "none" =>
          tmgi'[z].obj = NoObj /\ tmgi'[z].by = None /\ tmgi'[z].sid = None /\ ~tmgi'[z].allocated
    BY <1>2 DEF Others, TmgisSound
  <2>6. ASSUME NEW y \in Tmgis, NEW z \in Tmgis, Live(y)', Live(z)', tmgi'[y].by = "app", tmgi'[z].by = "app",
               tmgi'[y].obj # NoObj, tmgi'[y].obj = tmgi'[z].obj
        PROVE  y = z
    <3>1. y # x /\ z # x /\ Live(y) /\ Live(z)
      BY <2>2, <2>6
    <3>2. tmgi'[y] = tmgi[y] /\ tmgi'[z] = tmgi[z]
      BY <3>1, <1>2
    <3> QED BY <2>6, <3>1, <3>2 DEF Others, TmgisSound
  <2>7. \A u, y, z \in Tmgis :
          tmgi'[u].by = "session" /\ tmgi'[y].by = "session" /\ tmgi'[z].by = "session"
          => u = y \/ y = z \/ u = z
    BY <1>2 DEF Others, TmgisSound
  <2> QED BY <2>3, <2>4, <2>5, <2>6, <2>7 DEF TmgisSound
<1>9. Unnamed' = Unnamed \ {x}
  BY <1>2 DEF Unnamed
<1>10. RequestsSound'
  <2>1. ASSUME NEW r \in xacts' PROVE OwnRequest(r)'
    <3>1. r \in xacts /\ r.of # x /\ OwnRequest(r) /\ r.of \in Tmgis
      BY <1>3, <1>5 DEF Others, RequestsSound, OwnRequest
    <3>2. tmgi'[r.of] = tmgi[r.of]
      BY <3>1, <1>2
    <3> QED BY <3>1, <3>2, <1>4 DEF OwnRequest
  <2>2. Deallocating' => Unnamed' = {}
    BY <1>5, <1>9 DEF Deallocating, Others, RequestsSound
  <2> QED BY <2>1, <2>2, <1>5 DEF Others, RequestsSound
<1>11. MessagesSound'
  BY <1>1, <1>5 DEF Others, MessagesSound
<1>12. \A b \in answers' : ~Granted(b)'
  BY <1>5, <1>7 DEF Granted, Allocating
<1>13. \A z \in Listed' : z \in Listed /\ tmgi'[z] = tmgi[z]
  BY <1>2, <1>3, <1>4
<1>14. IdsInTransit'
  <2>1. ASSUME NEW q \in wire', q.op = "deallocate"
        PROVE  /\ q.sid \in remote'
               /\ \A z \in Listed' : tmgi'[z].sid = q.sid => q \in xacts' /\ q.of = z
               /\ \A p \in wire' : p.op = "deallocate" /\ p.sid = q.sid => p = q
    <3>1. IdsInTransit /\ q \in wire /\ wire' = wire /\ remote' = remote
      BY <1>1 DEF Others
    <3>2. ASSUME NEW z \in Listed', tmgi'[z].sid = q.sid PROVE q \in xacts' /\ q.of = z
      <4>1. q \in xacts /\ q.of = z /\ z # x
        BY <2>1, <3>1, <3>2, <1>4, <1>13 DEF IdsInTransit
      <4> QED BY <4>1, <1>5
    <3> QED BY <2>1, <3>1, <3>2 DEF IdsInTransit
  <2> QED BY <2>1, <1>12 DEF IdsInTransit
<1>15. IdsKept'
  <2>1. ASSUME NEW z \in Listed', Gone(z) PROVE Gone(z)'
    BY <2>1, <1>1, <1>4, <1>5 DEF Gone
  <2>2. IdsKept /\ remote' = remote
    BY <1>1 DEF Others
  <2> QED BY <2>1, <2>2, <1>13 DEF IdsKept
<1>16. Counted'
  <2>1. Allocating' = {} /\ Waiting' = {}
    <3>1. Allocating' = {}
      BY <1>5, <1>7 DEF Allocating
    <3>2. \A z \in Unnamed' : z \in Unnamed /\ z \in Tmgis
      BY <1>9 DEF Unnamed
    <3>3. Waiting' = {}
      BY <3>2, <1>2, <1>7 DEF Waiting
    <3> QED BY <3>1, <3>3
  <2>2. ~failed => Unnamed = {}
    BY <1>7 DEF Others, Counted
  <2>3. ~failed' => Unnamed' = {}
    BY <2>2, <1>1, <1>9
  <2> QED BY <2>1, <2>3, FS_EmptySet DEF Counted
<1>17. NoFault' /\ DoneToAsker'
  BY <1>1, <1>6 DEF Others, NoFault, DoneToAsker
<1> QED BY <1>4, <1>8, <1>10, <1>11, <1>14, <1>15, <1>16, <1>17 DEF Others

-----------------------------------------------------------------------------
(* The session *)

(* The TMGIs of the session come after the one of the application that has  *)
(* the same id, if its deallocation was served.                             *)
LEMMA SessionAcceptedKeeps ==
    ASSUME TypeOK, Chain, Others, NEW x \in Tmgis, NEW y \in Tmgis, NEW i \in Ids,
           SessionAccepted(x, y, i)
    PROVE  Chain' /\ Others'
<1> DEFINE of(a) == [st |-> "live", by |-> "session", sid |-> i, allocated |-> a,
                     callback |-> FALSE, obj |-> SessionObj, awaits |-> FALSE]
<1>1. /\ NoSession /\ x # y /\ tmgi[x].st = "none" /\ tmgi[y].st = "none" /\ i \notin remote
      /\ remote' = remote \cup {i} /\ told' = None
      /\ LET one == Appended(nxt, prv, x) IN Relink(Appended(one.nxt, one.prv, y))
      /\ xacts' = xacts /\ wire' = wire /\ answers' = answers /\ k' = k /\ failed' = failed
      /\ fault' = fault
  BY DEF SessionAccepted
<1>2. /\ \A z \in {x, y} : /\ tmgi'[z].st = "live" /\ tmgi'[z].by = "session" /\ tmgi'[z].sid = i
                           /\ tmgi'[z].obj = SessionObj
      /\ \A z \in Tmgis \ {x, y} : tmgi'[z] = tmgi[z]
  <2>1. tmgi' = [tmgi EXCEPT ![x] = of(TRUE), ![y] = of(FALSE)]
    BY DEF SessionAccepted
  <2>2. \A a \in BOOLEAN : of(a).st = "live" /\ of(a).by = "session" /\ of(a).sid = i /\ of(a).obj = SessionObj
    OBVIOUS
  <2> HIDE DEF of
  <2>3. tmgi'[x] = of(TRUE) /\ tmgi'[y] = of(FALSE) /\ \A z \in Tmgis \ {x, y} : tmgi'[z] = tmgi[z]
    BY <2>1, <1>1 DEF TypeOK
  <2> QED BY <2>2, <2>3
<1> HIDE DEF of
<1>3. /\ Listed \subseteq Tmgis /\ None \notin Ids
      /\ \A z \in Listed : Live(z) /\ TmgiSound(z)
  BY Listing DEF Others
<1>4. x \notin Listed /\ y \notin Listed
  BY <1>1, <1>3 DEF Live
<1>5. \A z \in Listed : tmgi'[z] = tmgi[z] /\ tmgi[z].by = "app"
  BY <1>1, <1>2, <1>3, <1>4 DEF NoSession, TmgiSound
<1>6. Chain' /\ Listed' = Listed \cup {x, y}
  <2>1. ASSUME NEW u \in Listed \cup {x, y}, NEW v \in Listed \cup {x, y}, SameId(u, v)'
        PROVE  u \in Listed /\ v \notin Listed
    BY <2>1, <1>2, <1>5 DEF SameId
  <2> QED BY <1>1, <1>4, <2>1, ChainSession
<1>7. i # None /\ i \in remote' /\ k \in Nat
  BY <1>1, <1>3 DEF TypeOK
<1>8. TmgisSound'
  <2>1. ASSUME NEW z \in {x, y} PROVE TmgiSound(z)'
    <3>1. /\ tmgi'[z].by = "session" /\ tmgi'[z].sid = i /\ tmgi'[z].obj = 0 /\ z \in Listed'
          /\ k' = k
      BY <1>1, <1>2, <1>6 DEF SessionObj
    <3> QED BY <3>1, <1>7 DEF TmgiSound, SessionObj
  <2>2. ASSUME NEW z \in Tmgis \ {x, y}, Live(z) PROVE TmgiSound(z)'
    <3>1. TmgiSound(z)
      BY <2>2 DEF Others, TmgisSound
    <3>2. tmgi'[z] = tmgi[z] /\ k' = k /\ remote' = remote \cup {i} /\ (z \in Listed => z \in Listed')
      BY <1>1, <1>2, <1>6
    <3> QED BY <3>1, <3>2 DEF TmgiSound
  <2>3. ASSUME NEW z \in Tmgis, Live(z)' PROVE TmgiSound(z)'
    <3>1. z \notin {x, y} => Live(z)
      BY <2>3, <1>2 DEF Live
    <3> QED BY <3>1, <2>1, <2>2
  <2>4. \A z \in Listed' : Live(z)'
    BY <1>2, <1>3, <1>5, <1>6 DEF Live
  <2>5. ASSUME NEW z \in Tmgis, tmgi'[z].st = "none"
        PROVE  tmgi'[z].obj = NoObj /\ tmgi'[z].by = None /\ tmgi'[z].sid = None /\ ~tmgi'[z].allocated
    <3>1. z \notin {x, y}
      BY <2>5, <1>2
    <3> QED BY <2>5, <3>1, <1>2 DEF Others, TmgisSound
  <2>6. ASSUME NEW u \in Tmgis, NEW z \in Tmgis, Live(u)', Live(z)', tmgi'[u].by = "app", tmgi'[z].by = "app",
               tmgi'[u].obj # NoObj, tmgi'[u].obj = tmgi'[z].obj
        PROVE  u = z
    <3>1. u \notin {x, y} /\ z \notin {x, y}
      BY <2>6, <1>2
    <3> QED BY <2>6, <3>1, <1>2 DEF Others, TmgisSound, Live
  <2>7. \A z \in Tmgis : tmgi'[z].by = "session" => z \in {x, y}
    BY <1>1, <1>2 DEF NoSession
  <2> QED BY <2>3, <2>4, <2>5, <2>6, <2>7 DEF TmgisSound
<1>9. Unnamed' = Unnamed
  <2>1. x \notin Unnamed /\ y \notin Unnamed /\ x \notin Unnamed' /\ y \notin Unnamed'
    BY <1>1, <1>2, <1>7 DEF Unnamed
  <2>2. \A z \in Tmgis \ {x, y} : z \in Unnamed' <=> z \in Unnamed
    BY <1>2 DEF Unnamed
  <2> QED BY <2>1, <2>2 DEF Unnamed
<1>10. RequestsSound'
  <2>1. ASSUME NEW r \in xacts' PROVE OwnRequest(r)'
    <3>1. r \in xacts /\ OwnRequest(r) /\ r.of \in Listed
      BY <1>1 DEF Others, RequestsSound, OwnRequest
    <3> QED BY <3>1, <1>5, <1>6 DEF OwnRequest
  <2> QED BY <2>1, <1>1, <1>9 DEF Others, RequestsSound, Deallocating
<1>11. MessagesSound'
  BY <1>1 DEF Others, MessagesSound
<1>12. \A b \in answers : Granted(b)' <=> Granted(b)
  BY <1>1 DEF Granted
<1>13. \A z \in Listed' : z \in {x, y} \/ z \in Listed
  BY <1>6
<1>14. IdsInTransit'
  <2>0. IdsInTransit /\ wire' = wire /\ answers' = answers
    BY <1>1 DEF Others
  <2>1. ASSUME NEW q \in wire', q.op = "deallocate"
        PROVE  /\ q.sid \in remote'
               /\ \A z \in Listed' : tmgi'[z].sid = q.sid => q \in xacts' /\ q.of = z
               /\ \A p \in wire' : p.op = "deallocate" /\ p.sid = q.sid => p = q
    <3>1. q \in wire /\ q.sid \in remote /\ q.sid # i
      BY <2>0, <2>1, <1>1 DEF IdsInTransit
    <3>2. ASSUME NEW z \in Listed', tmgi'[z].sid = q.sid PROVE q \in xacts' /\ q.of = z
      <4>1. z \in Listed
        BY <3>1, <3>2, <1>2, <1>13
      <4> QED BY <4>1, <2>0, <2>1, <3>1, <3>2, <1>1, <1>5 DEF IdsInTransit
    <3>3. \A p \in wire' : p.op = "deallocate" /\ p.sid = q.sid => p = q
      BY <2>0, <2>1 DEF IdsInTransit
    <3> QED BY <3>1, <3>2, <3>3, <1>1
  <2>2. ASSUME NEW b \in answers', Granted(b)'
        PROVE  /\ b.sid \in remote'
               /\ \A z \in Listed' : tmgi'[z].sid # b.sid
               /\ \A q \in wire' : q.op = "deallocate" => q.sid # b.sid
               /\ \A c \in answers' : Granted(c)' /\ b.sid = c.sid => b = c
    <3>1. b \in answers /\ Granted(b) /\ b.sid \in remote /\ b.sid # i
      BY <2>0, <2>2, <1>1, <1>12 DEF IdsInTransit
    <3>2. \A z \in Listed' : tmgi'[z].sid # b.sid
      BY <2>0, <3>1, <1>2, <1>5, <1>13 DEF IdsInTransit
    <3>3. \A q \in wire' : q.op = "deallocate" => q.sid # b.sid
      BY <2>0, <3>1 DEF IdsInTransit
    <3>4. \A c \in answers' : Granted(c)' /\ b.sid = c.sid => b = c
      BY <2>0, <3>1, <1>12 DEF IdsInTransit
    <3> QED BY <3>1, <3>2, <3>3, <3>4, <1>1
  <2> QED BY <2>1, <2>2 DEF IdsInTransit
<1>15. IdsKept'
  <2>1. \A z \in Listed : Gone(z) => Gone(z)'
    BY <1>1 DEF Gone
  <2>2. ASSUME NEW z \in Listed', tmgi'[z].by = "app", tmgi'[z].sid # None
        PROVE  /\ tmgi'[z].sid \in remote' \/ Gone(z)'
               /\ \A u \in Listed' \ {z} : tmgi'[u].sid = tmgi'[z].sid => tmgi'[u].by = "session" /\ Gone(z)'
    <3>1. z \in Listed /\ tmgi'[z] = tmgi[z]
      BY <2>2, <1>2, <1>5, <1>13
    <3>2. tmgi[z].sid \in remote \/ Gone(z)
      BY <2>2, <3>1 DEF Others, IdsKept
    <3>3. ASSUME NEW u \in Listed' \ {z}, tmgi'[u].sid = tmgi'[z].sid
          PROVE  tmgi'[u].by = "session" /\ Gone(z)
      <4>1. CASE u \in {x, y}
        BY <3>1, <3>2, <3>3, <4>1, <1>1, <1>2
      <4>2. CASE u \notin {x, y}
        <5>1. u \in Listed \ {z} /\ tmgi'[u] = tmgi[u]
          BY <4>2, <1>5, <1>13
        <5> QED BY <2>2, <3>1, <3>3, <5>1 DEF Others, IdsKept
      <4> QED BY <4>1, <4>2
    <3> QED BY <2>1, <3>1, <3>2, <3>3, <1>1
  <2> QED BY <2>2 DEF IdsKept
<1>16. Counted'
  <2>1. Allocating' = Allocating
    BY <1>1 DEF Allocating
  <2>2. x \notin Unnamed /\ y \notin Unnamed
    BY <1>1 DEF Unnamed
  <2>3. Waiting' = Waiting
    BY <2>2, <1>2, <1>9 DEF Waiting, Unnamed
  <2> QED BY <2>1, <2>3, <1>1, <1>9, CountSame DEF Others
<1>17. NoFault' /\ DoneToAsker'
  BY <1>1 DEF Others, NoFault, DoneToAsker
<1> QED BY <1>6, <1>8, <1>10, <1>11, <1>14, <1>15, <1>16, <1>17 DEF Others

(* The session goes with its TMGIs: its id is freed, which an application's *)
(* TMGI has only if its deallocation was served.                            *)
LEMMA SessionGoneKeeps ==
    ASSUME TypeOK, Chain, Others, NEW x \in Tmgis, NEW y \in Tmgis, SessionGone(x, y)
    PROVE  Chain' /\ Others'
<1> DEFINE i == tmgi[x].sid
<1>1. /\ x # y /\ tmgi[x].st = "live" /\ tmgi[x].by = "session"
      /\ tmgi[y].st = "live" /\ tmgi[y].by = "session"
      /\ LET one == Removed(nxt, prv, x) IN Relink(Removed(one.nxt, one.prv, y))
      /\ remote' = remote \ {i} /\ xacts' = {r \in xacts : r.obj # SessionObj}
      /\ told' = None /\ wire' = wire /\ answers' = answers /\ k' = k /\ failed' = failed
      /\ fault' = fault
  BY DEF SessionGone
<1>2. /\ \A z \in {x, y} : tmgi'[z].st = "freed"
      /\ \A z \in Tmgis \ {x, y} : tmgi'[z] = tmgi[z]
      /\ \A z \in Tmgis : /\ tmgi'[z].by = tmgi[z].by /\ tmgi'[z].sid = tmgi[z].sid
                          /\ tmgi'[z].awaits = tmgi[z].awaits
  <2> DEFINE q(z) == [tmgi[z] EXCEPT !.st = "freed"]
  <2>1. \A z \in {x, y} : /\ q(z).st = "freed" /\ q(z).by = tmgi[z].by /\ q(z).sid = tmgi[z].sid
                          /\ q(z).awaits = tmgi[z].awaits
    BY DEF TypeOK, TmgiObject
  <2>2. tmgi' = [tmgi EXCEPT ![x] = q(x), ![y] = q(y)]
    BY <1>1 DEF SessionGone, TypeOK
  <2> HIDE DEF q
  <2>3. tmgi'[x] = q(x) /\ tmgi'[y] = q(y) /\ \A z \in Tmgis \ {x, y} : tmgi'[z] = tmgi[z]
    BY <2>2, <1>1 DEF TypeOK
  <2> QED BY <2>1, <2>3
<1> HIDE DEF i
<1>3. Listed \subseteq Tmgis /\ \A z \in Listed : Live(z) /\ TmgiSound(z)
  BY Listing DEF Others
<1>4. /\ x \in Listed /\ y \in Listed \ {x}
      /\ \A z \in Tmgis : Live(z) /\ tmgi[z].by = "session" => z \in {x, y}
      /\ tmgi[x].sid \in remote /\ tmgi[y].sid \in remote /\ remote \subseteq Ids /\ None \notin Ids
  BY <1>1, TmgiAssumption DEF Others, TmgisSound, TmgiSound, Live, TypeOK
<1>5. Chain' /\ Listed' = Listed \ {x, y}
  <2>1. \A u, v \in Listed \ {x, y} : SameId(u, v)' => SameId(u, v)
    BY <1>2, <1>3 DEF SameId
  <2> QED BY <1>1, <1>4, <2>1, ChainGone
<1>6. \A r \in xacts : r.obj # SessionObj /\ r.of \in Listed /\ r.of \notin {x, y} /\ tmgi[r.of].by = "app"
  BY <1>1, <1>3 DEF Others, RequestsSound, OwnRequest, TmgiSound
<1>7. xacts' = xacts
  BY <1>1, <1>6
<1>8. TmgisSound'
  <2>1. ASSUME NEW z \in Tmgis, Live(z)' PROVE z \notin {x, y} /\ Live(z) /\ tmgi'[z] = tmgi[z] /\ tmgi[z].by = "app"
    <3>1. z \notin {x, y} /\ Live(z) /\ tmgi'[z] = tmgi[z]
      BY <2>1, <1>2 DEF Live
    <3> QED BY <3>1, <1>4 DEF Others, TmgisSound, TmgiSound
  <2>2. ASSUME NEW z \in Tmgis, Live(z)' PROVE TmgiSound(z)'
    <3>1. TmgiSound(z)
      BY <2>1, <2>2 DEF Others, TmgisSound
    <3>2. k' = k /\ (z \in Listed => z \in Listed')
      BY <2>1, <2>2, <1>1, <1>5
    <3> QED BY <2>1, <2>2, <3>1, <3>2 DEF TmgiSound
  <2>3. \A z \in Listed' : Live(z)'
    BY <1>2, <1>3, <1>5 DEF Live
  <2>4. \A z \in Tmgis : tmgi'[z].st = "none" =>
          tmgi'[z].obj = NoObj /\ tmgi'[z].by = None /\ tmgi'[z].sid = None /\ ~tmgi'[z].allocated
    BY <1>2 DEF Others, TmgisSound
  <2>5. ASSUME NEW u \in Tmgis, NEW z \in Tmgis, Live(u)', Live(z)', tmgi'[u].by = "app", tmgi'[z].by = "app",
               tmgi'[u].obj # NoObj, tmgi'[u].obj = tmgi'[z].obj
        PROVE  u = z
    BY <2>1, <2>5 DEF Others, TmgisSound
  <2>6. \A u, v, z \in Tmgis :
          tmgi'[u].by = "session" /\ tmgi'[v].by = "session" /\ tmgi'[z].by = "session"
          => u = v \/ v = z \/ u = z
    BY <1>2 DEF Others, TmgisSound
  <2> QED BY <2>2, <2>3, <2>4, <2>5, <2>6 DEF TmgisSound
<1>9. Unnamed' = Unnamed
  <2>1. x \notin Unnamed /\ y \notin Unnamed /\ x \notin Unnamed' /\ y \notin Unnamed'
    BY <1>2, <1>4 DEF Unnamed
  <2>2. \A z \in Tmgis \ {x, y} : z \in Unnamed' <=> z \in Unnamed
    BY <1>2 DEF Unnamed
  <2> QED BY <2>1, <2>2 DEF Unnamed
<1>10. RequestsSound'
  <2>1. ASSUME NEW r \in xacts' PROVE OwnRequest(r)'
    <3>1. r \in xacts /\ OwnRequest(r) /\ r.of \in Tmgis \ {x, y} /\ r.of \in Listed'
      BY <1>3, <1>5, <1>6, <1>7 DEF Others, RequestsSound
    <3>2. tmgi'[r.of] = tmgi[r.of]
      BY <3>1, <1>2
    <3> QED BY <3>1, <3>2 DEF OwnRequest
  <2> QED BY <2>1, <1>7, <1>9 DEF Others, RequestsSound, Deallocating
<1>11. MessagesSound'
  BY <1>1, <1>7 DEF Others, MessagesSound
<1>12. \A b \in answers : Granted(b)' <=> Granted(b)
  BY <1>7 DEF Granted
<1>13. \A z \in Listed' : z \in Listed /\ z \notin {x, y} /\ tmgi'[z] = tmgi[z]
  BY <1>2, <1>3, <1>5
<1>14. IdsInTransit'
  <2>0. IdsInTransit /\ wire' = wire /\ answers' = answers
    BY <1>1 DEF Others
  <2>1. ASSUME NEW q \in wire', q.op = "deallocate"
        PROVE  /\ q.sid \in remote'
               /\ \A z \in Listed' : tmgi'[z].sid = q.sid => q \in xacts' /\ q.of = z
               /\ \A p \in wire' : p.op = "deallocate" /\ p.sid = q.sid => p = q
    <3>1. q \in wire /\ q.sid \in remote
      BY <2>0, <2>1 DEF IdsInTransit
    <3>2. q.sid # i
      <4>1. q.sid = i => q \in xacts /\ q.of = x
        BY <2>0, <2>1, <3>1, <1>4 DEF IdsInTransit, i
      <4> QED BY <4>1, <1>6
    <3>3. \A z \in Listed' : tmgi'[z].sid = q.sid => q \in xacts' /\ q.of = z
      BY <2>0, <2>1, <3>1, <1>7, <1>13 DEF IdsInTransit
    <3>4. \A p \in wire' : p.op = "deallocate" /\ p.sid = q.sid => p = q
      BY <2>0, <2>1 DEF IdsInTransit
    <3> QED BY <3>1, <3>2, <3>3, <3>4, <1>1
  <2>2. ASSUME NEW b \in answers', Granted(b)'
        PROVE  /\ b.sid \in remote'
               /\ \A z \in Listed' : tmgi'[z].sid # b.sid
               /\ \A q \in wire' : q.op = "deallocate" => q.sid # b.sid
               /\ \A c \in answers' : Granted(c)' /\ b.sid = c.sid => b = c
    <3>1. b \in answers /\ Granted(b) /\ b.sid \in remote
      BY <2>0, <2>2, <1>12 DEF IdsInTransit
    <3>2. b.sid # i
      BY <2>0, <3>1, <1>4 DEF IdsInTransit, i
    <3>3. \A z \in Listed' : tmgi'[z].sid # b.sid
      BY <2>0, <3>1, <1>13 DEF IdsInTransit
    <3>4. \A q \in wire' : q.op = "deallocate" => q.sid # b.sid
      BY <2>0, <3>1 DEF IdsInTransit
    <3>5. \A c \in answers' : Granted(c)' /\ b.sid = c.sid => b = c
      BY <2>0, <3>1, <1>12 DEF IdsInTransit
    <3> QED BY <3>1, <3>2, <3>3, <3>4, <3>5, <1>1
  <2> QED BY <2>1, <2>2 DEF IdsInTransit
<1>15. IdsKept'
  <2>1. \A z \in Listed : Gone(z) => Gone(z)'
    BY <1>1, <1>7 DEF Gone
  <2>2. ASSUME NEW z \in Listed', tmgi'[z].by = "app", tmgi'[z].sid # None
        PROVE  /\ tmgi'[z].sid \in remote' \/ Gone(z)'
               /\ \A u \in Listed' \ {z} : tmgi'[u].sid = tmgi'[z].sid => tmgi'[u].by = "session" /\ Gone(z)'
    <3>1. z \in Listed /\ tmgi'[z] = tmgi[z] /\ z # x
      BY <2>2, <1>13
    <3>2. tmgi[z].sid \in remote \/ Gone(z)
      BY <2>2, <3>1 DEF Others, IdsKept
    <3>3. tmgi[z].sid = i => Gone(z)
      BY <2>2, <3>1, <1>4 DEF Others, IdsKept, i
    <3>4. \A u \in Listed \ {z} : tmgi[u].sid = tmgi[z].sid => tmgi[u].by = "session" /\ Gone(z)
      BY <2>2, <3>1 DEF Others, IdsKept
    <3>5. \A u \in Listed' \ {z} : tmgi'[u].sid = tmgi'[z].sid => tmgi'[u].by = "session" /\ Gone(z)'
      BY <2>1, <3>1, <3>4, <1>13
    <3> QED BY <2>1, <3>1, <3>2, <3>3, <3>5, <1>1
  <2> QED BY <2>2 DEF IdsKept
<1>16. Counted'
  <2>1. Allocating' = Allocating
    BY <1>7 DEF Allocating
  <2>2. Waiting' = Waiting
    BY <1>2, <1>9 DEF Waiting, Unnamed
  <2> QED BY <2>1, <2>2, <1>1, <1>9, CountSame DEF Others
<1>17. NoFault' /\ DoneToAsker'
  BY <1>1 DEF Others, NoFault, DoneToAsker
<1> QED BY <1>5, <1>8, <1>10, <1>11, <1>14, <1>15, <1>16, <1>17 DEF Others

-----------------------------------------------------------------------------
(* The theorems *)

LEMMA TInvInit == Init => TInv
<1> SUFFICES ASSUME Init PROVE TInv
  OBVIOUS
<1>1. TypeOK
  BY TypeInit
<1> DEFINE rank == [x \in Tmgis |-> 0]
<1>2. rank \in [Tmgis -> Nat] /\ 1 \in Nat
  OBVIOUS
<1> HIDE DEF rank
<1>3. nxt = [n \in Nodes |-> None] /\ prv = [n \in Nodes |-> None] /\ None \in Nodes
  BY DEF Init, Nodes
<1>4. Linked(nxt, prv, {}, rank)
  BY <1>1, <1>2, <1>3 DEF Linked, TypeOK
<1>5. Listed = {}
  BY <1>4, ListLinked DEF Listed
<1>6. Chain
  BY <1>2, <1>4, <1>5 DEF Chain, Chained
<1>7. /\ \A x \in Tmgis : /\ tmgi[x].st = "none" /\ tmgi[x].by = None /\ tmgi[x].sid = None
                          /\ ~tmgi[x].allocated /\ tmgi[x].obj = NoObj
      /\ xacts = {} /\ wire = {} /\ answers = {} /\ told = None /\ failed = FALSE /\ fault = "none"
  BY DEF Init
<1>8. TmgisSound
  <2>1. \A x \in Tmgis : ~Live(x) /\ tmgi[x].by # "session"
    BY <1>7, TmgiAssumption DEF Live
  <2> QED BY <1>5, <1>7, <2>1 DEF TmgisSound
<1>9. RequestsSound /\ MessagesSound /\ IdsInTransit /\ IdsKept /\ NoFault /\ DoneToAsker
  BY <1>5, <1>7 DEF RequestsSound, Deallocating, MessagesSound, IdsInTransit, IdsKept, NoFault, DoneToAsker
<1>10. Counted
  <2>1. Allocating = {} /\ Unnamed = {} /\ Waiting = {}
    BY <1>7 DEF Allocating, Unnamed, Waiting
  <2> QED BY <2>1, FS_EmptySet DEF Counted
<1> QED BY <1>1, <1>6, <1>8, <1>9, <1>10 DEF TInv, Others

LEMMA OthersStutter ==
    ASSUME Chain, Others, UNCHANGED vars
    PROVE  Chain' /\ Others'
<1>1. /\ tmgi' = tmgi /\ nxt' = nxt /\ prv' = prv /\ xacts' = xacts /\ wire' = wire
      /\ answers' = answers /\ remote' = remote /\ k' = k /\ told' = told /\ failed' = failed
      /\ fault' = fault
  BY DEF vars
<1>2. Untouched
  BY <1>1 DEF Untouched
<1>3. Chain' /\ Listed' = Listed
  BY <1>2, ListStays
<1>4. RequestsSound' /\ Counted'
  BY <1>2, <1>3, RequestsStay, CountStays DEF Others
<1>5. TmgisSound'
  BY <1>1, <1>3 DEF Others, TmgisSound, TmgiSound, Live
<1>6. MessagesSound' /\ NoFault' /\ DoneToAsker'
  BY <1>1 DEF Others, MessagesSound, NoFault, DoneToAsker
<1>7. IdsInTransit' /\ IdsKept'
  BY <1>1, <1>3 DEF Others, IdsInTransit, IdsKept, Granted, Gone
<1> QED BY <1>3, <1>4, <1>5, <1>6, <1>7 DEF Others

LEMMA TInvNext ==
    ASSUME Disciplined, TInv, [Next]_vars
    PROVE  TInv'
<1>1. TypeOK /\ Chain /\ Others
  BY DEF TInv
<1>2. TypeOK'
  BY <1>1, TypeStep
<1>3. CASE Application
  <2>1. PICK x \in Tmgis :
            \/ CreateTmgi(x) \/ SendAllocate(x) \/ SendDeallocate(x) \/ FreeTmgi(x)
            \/ \E i \in Ids \cup {None}, c \in BOOLEAN : NewTmgi(x, i, c)
    BY <1>3 DEF Application
  <2>2. CASE CreateTmgi(x)
    BY <2>2, <1>1, <1>2, CreateTmgiKeeps DEF TInv
  <2>3. CASE SendAllocate(x)
    BY <2>3, <1>1, <1>2, SendAllocateKeeps DEF TInv
  <2>4. CASE SendDeallocate(x)
    BY <2>4, <1>1, <1>2, SendDeallocateKeeps DEF TInv
  <2>5. CASE FreeTmgi(x)
    BY <2>5, <1>1, <1>2, FreeTmgiKeeps DEF TInv
  <2>6. ASSUME NEW i \in Ids \cup {None}, NEW c \in BOOLEAN, NewTmgi(x, i, c) PROVE TInv'
    BY <2>6, <1>1, <1>2, NewTmgiKeeps DEF TInv
  <2> QED BY <2>1, <2>2, <2>3, <2>4, <2>5, <2>6
<1>4. CASE Session
  <2>1. ASSUME NEW x \in Tmgis, NEW y \in Tmgis, SessionGone(x, y) PROVE TInv'
    BY <2>1, <1>1, <1>2, SessionGoneKeeps DEF TInv
  <2>2. ASSUME NEW x \in Tmgis, NEW y \in Tmgis, NEW i \in Ids, SessionAccepted(x, y, i) PROVE TInv'
    BY <2>2, <1>1, <1>2, SessionAcceptedKeeps DEF TInv
  <2> QED BY <1>4, <2>1, <2>2 DEF Session
<1>5. CASE Mbsmf
  <2>1. ASSUME NEW r \in wire, NEW i \in Ids, ServeAllocate(r, i) PROVE TInv'
    BY <2>1, <1>1, <1>2, ServeAllocateKeeps DEF TInv
  <2>2. ASSUME NEW r \in wire, ServeDeallocate(r) PROVE TInv'
    BY <2>2, <1>1, <1>2, ServeDeallocateKeeps DEF TInv
  <2>3. ASSUME NEW r \in wire, NEW res \in {"refused", "bad"}, Refuse(r, res) PROVE TInv'
    BY <2>3, <1>1, <1>2, RefuseKeeps DEF TInv
  <2> QED BY <1>5, <2>1, <2>2, <2>3 DEF Mbsmf
<1>6. CASE Library
  <2>1. PICK a \in answers : \/ Unparsable(a) \/ Allocated(a) \/ AllocationRefused(a)
                             \/ Deallocated(a) \/ NotOurs(a)
    BY <1>6 DEF Library
  <2>2. CASE Unparsable(a)
    BY <2>2, <1>1, <1>2, UnparsableKeeps DEF TInv
  <2>3. CASE Allocated(a)
    BY <2>3, <1>1, <1>2, AllocatedKeeps DEF TInv
  <2>4. CASE AllocationRefused(a)
    BY <2>4, <1>1, <1>2, AllocationRefusedKeeps DEF TInv
  <2>5. CASE Deallocated(a)
    BY <2>5, <1>1, <1>2, DeallocatedKeeps DEF TInv
  <2>6. CASE NotOurs(a)
    BY <2>6, <1>1, <1>2, NotOursKeeps DEF TInv
  <2> QED BY <2>1, <2>2, <2>3, <2>4, <2>5, <2>6
<1>7. CASE UNCHANGED vars
  BY <1>7, <1>1, <1>2, OthersStutter DEF TInv
<1> QED BY <1>3, <1>4, <1>5, <1>6, <1>7 DEF Next

(* The invariant holds for an application that keeps every rule. *)
THEOREM DisciplinedInvariance == Disciplined => (Spec => []TInv)
<1>1. ASSUME Disciplined, TInv, [Next]_vars PROVE TInv'
  BY <1>1, TInvNext
<1>2. Disciplined => (TInv /\ [][Next]_vars => []TInv)
  <2> SUFFICES ASSUME Disciplined PROVE TInv /\ [][Next]_vars => []TInv
    OBVIOUS
  <2>1. TInv /\ [Next]_vars => TInv'
    BY <1>1
  <2> QED BY <2>1, PTL
<1> QED BY <1>2, TInvInit, PTL DEF Spec

LEMMA TInvIdsSound == TInv => IdsSound
<1> SUFFICES ASSUME TInv, NEW x \in Listed, tmgi[x].by = "app", tmgi[x].sid # None
             PROVE  /\ tmgi[x].sid \in remote \/ \E r \in xacts : r.of = x /\ r.op = "deallocate"
                    /\ \A y \in Listed \ {x} : tmgi[y].by = "app" => tmgi[y].sid # tmgi[x].sid
  BY DEF IdsSound
<1>1. /\ tmgi[x].sid \in remote \/ Gone(x)
      /\ \A y \in Listed \ {x} : tmgi[y].sid = tmgi[x].sid => tmgi[y].by = "session"
  BY DEF TInv, Others, IdsKept
<1> QED BY <1>1 DEF Gone

LEMMA TInvAllServed == TInv => AllServed
<1> SUFFICES ASSUME TInv, ~failed, \A r \in xacts : r.op # "allocate"
             PROVE  Unnamed = {}
  BY DEF AllServed, Unnamed
<1>1. Allocating = {}
  BY DEF Allocating
<1>2. Cardinality(Waiting) = 0 /\ Waiting = Unnamed
  BY <1>1, FS_EmptySet DEF TInv, Others, Counted
<1>3. IsFiniteSet(Unnamed)
  BY TmgiAssumption, FS_Subset DEF Unnamed
<1> QED BY <1>2, <1>3, FS_EmptySet

(* The listed TMGIs of the application have ids that are allocated, or are   *)
(* being deallocated, and no two have the same: _nmbsmf_tmgi_allocated gives *)
(* an id to a TMGI that has none, and _nmbsmf_tmgi_deallocated takes off the *)
(* list the one that asked.                                                  *)
THEOREM IdsStaySound == Disciplined => (Spec => []IdsSound)
  BY DisciplinedInvariance, TInvIdsSound, PTL

(* No TMGI waits in vain: allocations outstanding are as many as TMGIs that  *)
(* have no id, although an answer serves the first of them in the list.      *)
THEOREM EveryoneServed == Disciplined => (Spec => []AllServed)
  BY DisciplinedInvariance, TInvAllServed, PTL

(* The callback of a deallocation is made for the TMGI that asked for it. *)
THEOREM DoneReachesAsker == Disciplined => (Spec => []DoneToAsker)
<1>1. TInv => DoneToAsker
  BY DEF TInv, Others
<1> QED BY <1>1, DisciplinedInvariance, PTL

(* No handler walks through a freed TMGI or calls through a null pointer. *)
THEOREM TmgiSafe == Disciplined => (Spec => []NoFault)
<1>1. TInv => NoFault
  BY DEF TInv, Others
<1> QED BY <1>1, DisciplinedInvariance, PTL

=============================================================================
