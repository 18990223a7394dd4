---------------------------- MODULE GlobalProofs ----------------------------
(***************************************************************************)
(* Proofs about the shared facts, for any sessions and any facts: the two  *)
(* dependency indexes say the same, Partition finds the components, and a  *)
(* retraction reaches every session that rests on the fact's component.    *)
(***************************************************************************)
EXTENDS GlobalTruth, RecursionLemmas

(* The indexes have an entry for every fact and every session, and they    *)
(* mirror each other.                                                      *)
IndexInv ==
    /\ depIndex \in [GlobalId -> SUBSET Session]
    /\ sessionDeps \in [Session -> SUBSET GlobalId]
    /\ DOMAIN facts \subseteq GlobalId
    /\ IndexMirrors

LEMMA SetSessionIndexMirrors ==
    ASSUME IndexInv, NEW s \in Session, NEW deps \in SUBSET GlobalId,
           SetSessionIndex(s, deps), UNCHANGED facts
    PROVE  IndexInv'
<1> USE DEF IndexInv, SetSessionIndex
<1>1. depIndex' \in [GlobalId -> SUBSET Session] /\ sessionDeps' \in [Session -> SUBSET GlobalId]
  OBVIOUS
<1>2. IndexMirrors'
  BY DEF IndexMirrors
<1> QED
  BY <1>1, <1>2

LEMMA IndexInvStep == IndexInv /\ [Next]_vars => IndexInv'
<1> SUFFICES ASSUME IndexInv, [Next]_vars PROVE IndexInv'
  OBVIOUS
<1>1. ASSUME NEW s \in Session, Subscribe(s) PROVE IndexInv'
  <2>1. PICK eng : SetSessionIndex(s, References(eng))
    BY <1>1 DEF Subscribe
  <2>2. References(eng) \in SUBSET GlobalId
    BY DEF References, IndexInv
  <2>3. UNCHANGED facts
    BY <1>1 DEF Subscribe
  <2> QED
    BY <2>1, <2>2, <2>3, SetSessionIndexMirrors
<1>2. ASSUME NEW s \in Session, Unsubscribe(s) PROVE IndexInv'
  <2>1. SetSessionIndex(s, {}) /\ UNCHANGED facts
    BY <1>2 DEF Unsubscribe
  <2> QED
    BY <2>1, SetSessionIndexMirrors
<1>3. ASSUME NEW s \in Session, NEW l \in LocalId, IndexFactDependencies(s, l) PROVE IndexInv'
  <2> DEFINE deps == Needs[l] \cap DOMAIN facts
  <2>1. /\ sessionDeps' = [sessionDeps EXCEPT ![s] = @ \cup deps]
        /\ depIndex' = [g \in GlobalId |-> IF g \in deps
                                           THEN depIndex[g] \cup {s} ELSE depIndex[g]]
        /\ UNCHANGED facts
    BY <1>3 DEF IndexFactDependencies
  <2>2. deps \subseteq GlobalId
    BY DEF IndexInv
  <2> HIDE DEF deps
  <2>3. depIndex' \in [GlobalId -> SUBSET Session] /\ sessionDeps' \in [Session -> SUBSET GlobalId]
    BY <2>1, <2>2 DEF IndexInv
  <2>4. IndexMirrors'
    BY <2>1, <2>2 DEF IndexInv, IndexMirrors
  <2> QED
    BY <2>1, <2>3, <2>4 DEF IndexInv
<1>4. ASSUME NEW g \in GlobalId, NEW v \in Value, AssertGlobal(g, v) PROVE IndexInv'
  <2>1. /\ facts' = [h \in DOMAIN facts \cup {g} |-> IF h = g THEN v ELSE facts[h]]
        /\ UNCHANGED <<depIndex, sessionDeps>>
    BY <1>4 DEF AssertGlobal
  <2>2. DOMAIN facts' = DOMAIN facts \cup {g}
    BY <2>1
  <2> QED
    BY <2>1, <2>2 DEF IndexInv, IndexMirrors
<1>5. ASSUME UNCHANGED <<facts, depIndex, sessionDeps>> PROVE IndexInv'
  BY <1>5 DEF IndexInv, IndexMirrors
<1>6. ASSUME NEW g \in GlobalId, RetractGlobal(g) PROVE IndexInv'
  BY <1>5, <1>6 DEF RetractGlobal
<1>7. ASSUME NEW s \in Session, NEW l \in LocalId, AssertLocalFact(s, l) PROVE IndexInv'
  BY <1>5, <1>7 DEF AssertLocalFact, gtVars
<1>8. CASE UNCHANGED vars
  BY <1>5, <1>8 DEF vars
<1> QED
  BY <1>1, <1>2, <1>3, <1>4, <1>6, <1>7, <1>8 DEF Next

(* Sessions come, go and are indexed late, yet depIndex and sessionDeps    *)
(* mirror each other: removeSessionIndexLocked misses no entry and leaves  *)
(* none behind.                                                            *)
THEOREM IndexesMirror == Spec => []IndexMirrors
<1>1. Init => IndexInv
  BY DEF Init, IndexInv, IndexMirrors
<1>2. IndexInv => IndexMirrors
  BY DEF IndexInv
<1> QED
  BY <1>1, <1>2, IndexInvStep, PTL DEF Spec
-----------------------------------------------------------------------------
(* Union-find.  Partition starts with every fact its own parent and links  *)
(* representatives; Find climbs as many times as there are facts.          *)

(* Whoever climbs inside a set of facts comes to a root or leaves the set. *)
Rooted(P, D) ==
    /\ P \in [D -> D]
    /\ \A S \in SUBSET D : S # {} => \E x \in S : P[x] = x \/ P[x] \notin S

LEMMA FindIs ==
    ASSUME NEW D, NEW P \in [D -> D], NEW x \in D
    PROVE  \E u : Iterates(D, x, P, u) /\ Find(P, x) = u[Cardinality(D)]
<1> DEFINE up[n \in Nat] == IF n = 0 THEN x ELSE P[up[n - 1]]
<1>1. up = CHOOSE g : g = [n \in Nat |-> IF n = 0 THEN x ELSE P[g[n - 1]]]
  OBVIOUS
<1>2. Find(P, x) = up[Cardinality(D)]
  BY DEF Find
<1> HIDE DEF up
<1>3. Iterates(D, x, P, up)
  BY <1>1, IterationIs
<1> QED
  BY <1>2, <1>3

LEMMA FindRoot ==
    ASSUME NEW D, IsFiniteSet(D), NEW P, Rooted(P, D), NEW x \in D
    PROVE  Find(P, x) \in D /\ P[Find(P, x)] = Find(P, x)
<1> DEFINE N == Cardinality(D)
<1>1. P \in [D -> D] /\ N \in Nat
  BY FS_CardinalityType DEF Rooted
<1>2. PICK u : Iterates(D, x, P, u) /\ Find(P, x) = u[N]
  BY <1>1, FindIs
<1>3. \A n \in Nat : u[n] \in D /\ u[n + 1] = P[u[n]]
  BY <1>2 DEF Iterates
<1> HIDE DEF N
<1>4. SUFFICES ASSUME P[u[N]] # u[N] PROVE FALSE
  BY <1>1, <1>2, <1>3
<1>5. ASSUME NEW a \in 0..N PROVE P[u[a]] # u[a]
  <2>1. SUFFICES ASSUME P[u[a]] = u[a] PROVE FALSE
    OBVIOUS
  <2> DEFINE T == {n \in Nat : u[a + n] = u[a]}
  <2>2. 0 \in T
    BY <1>1
  <2>3. ASSUME NEW n \in Nat, n \in T PROVE n + 1 \in T
    <3>1. a + n \in Nat /\ a + (n + 1) = (a + n) + 1
      BY <1>1
    <3> QED
      BY <1>3, <2>1, <2>3, <3>1
  <2>4. N - a \in Nat /\ a + (N - a) = N
    BY <1>1
  <2>5. \A n \in Nat : n \in T
    <3> HIDE DEF T
    <3> QED
      BY <2>2, <2>3, ClimbAll
  <2>6. u[N] = u[a]
    BY <2>4, <2>5
  <2> QED
    BY <1>4, <2>1, <2>6
<1>6. PICK a \in 0..N, b \in 0..N : a # b /\ u[a] = u[b]
  <2> DEFINE v == [n \in 0..N |-> u[n]]
  <2>1. v \in [0..N -> D] /\ \A n \in 0..N : v[n] = u[n]
    BY <1>1, <1>3
  <2>2. IsFiniteSet(0..N) /\ Cardinality(0..N) = N + 1
    BY <1>1, FS_Interval
  <2>3. Cardinality(D) < Cardinality(0..N)
    BY <1>1, <2>2 DEF N
  <2> HIDE DEF v
  <2>4. PICK I : I = 0..N
    OBVIOUS
  <2>5. /\ IsFiniteSet(I) /\ IsFiniteSet(D) /\ Cardinality(D) < Cardinality(I)
        /\ v \in [I -> D]
    BY <2>1, <2>2, <2>3, <2>4
  <2>6. \E a, b \in I : a # b /\ v[a] = v[b]
    BY ONLY <2>5, FS_PigeonHole, Zenon
  <2>7. PICK a \in 0..N, b \in 0..N : a # b /\ v[a] = v[b]
    BY <2>4, <2>6
  <2> QED
    BY <2>1, <2>7
<1>7. PICK c \in 0..N, d \in 0..N : c < d /\ u[c] = u[d]
  BY <1>1, <1>6
<1> DEFINE S == {u[n] : n \in c..d - 1}
<1>8. S \in SUBSET D /\ u[c] \in S
  BY <1>1, <1>3, <1>7
<1>9. ASSUME NEW y \in S PROVE P[y] \in S /\ P[y] # y
  <2>1. PICK n \in c..d - 1 : y = u[n]
    OBVIOUS
  <2>2. n \in Nat /\ n \in 0..N /\ n + 1 \in c..d
    BY <1>1, <1>7
  <2>3. P[y] = u[n + 1]
    BY <1>3, <2>1, <2>2
  <2>4. P[y] \in S
    <3>1. CASE n + 1 = d
      BY <1>7, <1>8, <2>3, <3>1
    <3>2. CASE n + 1 # d
      BY <1>1, <1>7, <2>2, <2>3, <3>2
    <3> QED
      BY <3>1, <3>2
  <2> QED
    BY <1>5, <2>1, <2>2, <2>4
<1> HIDE DEF S
<1> QED
  BY <1>8, <1>9 DEF Rooted

(* What climbing does not change is the same at the representative.        *)
LEMMA FindKeeps ==
    ASSUME NEW D, IsFiniteSet(D), NEW P \in [D -> D], NEW x \in D, NEW Q,
           \A y \in D : Q[P[y]] = Q[y]
    PROVE  Q[Find(P, x)] = Q[x]
<1>1. PICK u : Iterates(D, x, P, u) /\ Find(P, x) = u[Cardinality(D)]
  BY FindIs
<1> DEFINE T == {n \in Nat : Q[u[n]] = Q[x]}
<1>2. 0 \in T
  BY <1>1 DEF Iterates
<1>3. ASSUME NEW n \in Nat, n \in T PROVE n + 1 \in T
  BY <1>1, <1>3 DEF Iterates
<1>4. \A n \in Nat : n \in T
  <2> HIDE DEF T
  <2> QED
    BY <1>2, <1>3, ClimbAll
<1> QED
  BY <1>1, <1>4, FS_CardinalityType

LEMMA FindUnique ==
    ASSUME NEW D, IsFiniteSet(D), NEW P, Rooted(P, D), NEW x \in D, NEW Q,
           \A y \in D : Q[P[y]] = Q[y] /\ (P[y] = y => Q[y] = y)
    PROVE  Find(P, x) = Q[x]
<1>1. Find(P, x) \in D /\ P[Find(P, x)] = Find(P, x)
  BY FindRoot
<1>2. Q[Find(P, x)] = Q[x]
  BY FindKeeps DEF Rooted
<1> QED
  BY <1>1, <1>2

LEMMA FindOfRoot ==
    ASSUME NEW D, IsFiniteSet(D), NEW P, Rooted(P, D), NEW x \in D, P[x] = x
    PROVE  Find(P, x) = x
<1>1. P \in [D -> D]
  BY DEF Rooted
<1>2. PICK u : Iterates(D, x, P, u) /\ Find(P, x) = u[Cardinality(D)]
  BY <1>1, FindIs
<1> DEFINE T == {n \in Nat : u[n] = x}
<1>3. 0 \in T
  BY <1>2 DEF Iterates
<1>4. ASSUME NEW n \in Nat, n \in T PROVE n + 1 \in T
  BY <1>2, <1>4 DEF Iterates
<1>5. \A n \in Nat : n \in T
  <2> HIDE DEF T
  <2> QED
    BY <1>3, <1>4, ClimbAll
<1> QED
  BY <1>2, <1>5, FS_CardinalityType

LEMMA FindOfParent ==
    ASSUME NEW D, IsFiniteSet(D), NEW P, Rooted(P, D), NEW x \in D
    PROVE  Find(P, P[x]) = Find(P, x)
<1> DEFINE N == Cardinality(D)
<1>1. P \in [D -> D] /\ P[x] \in D /\ N \in Nat
  BY FS_CardinalityType DEF Rooted
<1>2. PICK u : Iterates(D, x, P, u) /\ Find(P, x) = u[N]
  BY <1>1, FindIs
<1>3. PICK v : Iterates(D, P[x], P, v) /\ Find(P, P[x]) = v[N]
  BY <1>1, FindIs
<1> HIDE DEF N
<1> DEFINE T == {n \in Nat : v[n] = u[n + 1]}
<1>4. 0 \in T
  <2>1. u[0 + 1] = P[u[0]] /\ u[0] = x /\ v[0] = P[x]
    BY <1>2, <1>3 DEF Iterates
  <2> QED
    BY <2>1
<1>5. ASSUME NEW n \in Nat, n \in T PROVE n + 1 \in T
  <2>1. n + 1 \in Nat /\ v[n + 1] = P[v[n]] /\ u[(n + 1) + 1] = P[u[n + 1]]
    BY <1>2, <1>3 DEF Iterates
  <2> QED
    BY <1>5, <2>1
<1>6. \A n \in Nat : n \in T
  <2> HIDE DEF T
  <2> QED
    BY <1>4, <1>5, ClimbAll
<1>7. v[N] = P[u[N]]
  BY <1>1, <1>2, <1>6 DEF Iterates
<1> QED
  BY <1>2, <1>3, <1>7, FindRoot

(* Two representatives are linked: who had the first one has the second.   *)
LEMMA UnionStep ==
    ASSUME NEW D, IsFiniteSet(D), NEW P, Rooted(P, D), NEW x \in D, NEW y \in D
    PROVE  /\ Rooted(Union(P, x, y), D)
           /\ \A z \in D : Find(Union(P, x, y), z) =
                              IF Find(P, z) = Find(P, x) THEN Find(P, y) ELSE Find(P, z)
<1> DEFINE a == Find(P, x)
           b == Find(P, y)
           P1 == Union(P, x, y)
           Q == [z \in D |-> IF Find(P, z) = a THEN b ELSE Find(P, z)]
<1>1. a \in D /\ b \in D /\ P[a] = a /\ P[b] = b /\ P \in [D -> D]
  BY FindRoot DEF Rooted
<1>2. P1 \in [D -> D] /\ P1[a] = b /\ \A z \in D \ {a} : P1[z] = P[z]
  BY <1>1 DEF Union
<1>3. \A z \in D : Q[z] = IF Find(P, z) = a THEN b ELSE Find(P, z)
  OBVIOUS
<1>4. Find(P, a) = a /\ Find(P, b) = b
  BY <1>1, FindOfRoot
<1> HIDE DEF a, b, P1, Q
<1>5. Rooted(P1, D)
  <2> SUFFICES ASSUME NEW S \in SUBSET D, S # {} PROVE \E z \in S : P1[z] = z \/ P1[z] \notin S
    BY <1>2 DEF Rooted
  <2>1. PICK z \in S : P[z] = z \/ P[z] \notin S
    BY DEF Rooted
  <2>2. CASE z # a
    BY <1>2, <2>1, <2>2
  <2>3. CASE z = a
    <3>1. CASE b \in S
      BY <1>1, <1>2, <2>3, <3>1
    <3>2. CASE b \notin S
      BY <1>2, <2>3, <3>2
    <3> QED
      BY <3>1, <3>2
  <2> QED
    BY <2>2, <2>3
<1>6. ASSUME NEW z \in D PROVE Q[P1[z]] = Q[z] /\ (P1[z] = z => Q[z] = z)
  <2>1. CASE z = a
    BY <1>1, <1>2, <1>3, <1>4, <2>1
  <2>2. CASE z # a
    <3>1. P1[z] = P[z] /\ P[z] \in D
      BY <1>1, <1>2, <2>2
    <3>2. Find(P, P[z]) = Find(P, z)
      BY FindOfParent
    <3>3. P[z] = z => Find(P, z) = z
      BY FindOfRoot
    <3> QED
      BY <1>3, <2>2, <3>1, <3>2, <3>3
  <2> QED
    BY <2>1, <2>2
<1>7. \A z \in D : Find(P1, z) = Q[z]
  BY <1>5, <1>6, FindUnique
<1> QED
  BY <1>3, <1>5, <1>7 DEF a, b, P1

LEMMA OrderIs ==
    ASSUME NEW S, IsFiniteSet(S), NEW q \in Orders(S)
    PROVE  /\ Len(q) \in Nat /\ DOMAIN q = 1..Len(q) /\ \A n \in 1..Len(q) : q[n] \in S
           /\ \A x \in S : \E n \in 1..Len(q) : q[n] = x
<1>1. Cardinality(S) \in Nat
  BY FS_CardinalityType
<1>2. q \in [1..Cardinality(S) -> S] /\ \A x \in S : \E i \in DOMAIN q : q[i] = x
  BY DEF Orders
<1>3. q \in Seq(S) /\ Len(q) = Cardinality(S)
  BY <1>1, <1>2
<1> QED
  BY <1>1, <1>2, <1>3

LEMMA OrdersExist ==
    ASSUME NEW S, IsFiniteSet(S)
    PROVE  Orders(S) # {}
<1>1. PICK q : q \in Bijection(1..Cardinality(S), S)
  BY FS_CardinalityType DEF ExistsBijection
<1>2. q \in Orders(S)
  BY <1>1 DEF Orders, Bijection, Surjection
<1> QED
  BY <1>2

(* The parents after every edge of an order, and what the last ones say.   *)
LEMMA PartitionIs ==
    ASSUME IsFiniteSet(DOMAIN facts), NEW order \in Orders(Edges)
    PROVE  \E R \in [DOMAIN facts -> DOMAIN facts] :
              /\ Partition(order) =
                    {{h \in DOMAIN facts : R[h] = R[g]} : g \in DOMAIN facts}
              /\ \A e \in Edges : R[e[1]] = R[e[2]]
              /\ \A S \in SUBSET DOMAIN facts :
                    (\A e \in Edges : e[1] \in S <=> e[2] \in S)
                       => \A g \in DOMAIN facts : g \in S <=> R[g] \in S
<1> DEFINE D == DOMAIN facts
           K == Len(order)
           start == [g \in D |-> g]
<1>0. IsFiniteSet(D) /\ IsFiniteSet(Edges)
  <2>1. IsFiniteSet(D \X D)
    BY FS_Product
  <2> QED
    BY <2>1, FS_Subset DEF Edges
<1>1. K \in Nat /\ \A e \in Edges : \E n \in 1..K : order[n] = e
  BY <1>0, OrderIs
<1>2. \A n \in 1..K : order[n] \in Edges /\ order[n][1] \in D /\ order[n][2] \in D
  BY <1>0, OrderIs DEF Edges
<1> DEFINE X == {P \in [D -> D] : Rooted(P, D)}
           h == [n \in 1..K |-> [P \in X |-> Union(P, order[n][1], order[n][2])]]
           parent[i \in 0..K] == IF i = 0 THEN start
                                 ELSE Union(parent[i - 1], order[i][1], order[i][2])
<1> DEFINE final == parent[K]
           root(g) == Find(final, g)
<1>3. Partition(order) = {{g2 \in D : root(g2) = root(g)} : g \in D}
  BY DEF Partition
<1>4. start \in X
  <2>1. Rooted(start, D)
    BY DEF Rooted
  <2> QED
    BY <2>1
<1>5. h \in [1..K -> [X -> X]]
  <2> HIDE DEF K
  <2>1. ASSUME NEW n \in 1..K, NEW P \in X PROVE Union(P, order[n][1], order[n][2]) \in X
    <3>1. Rooted(Union(P, order[n][1], order[n][2]), D)
      BY <1>0, <1>2, UnionStep
    <3> QED
      BY <3>1 DEF Rooted
  <2> HIDE DEF X
  <2> QED
    BY <2>1
<1>6. PICK f : Chains(X, start, h, K, f)
  <2> HIDE DEF X, h, K, start
  <2> QED
    BY <1>1, <1>4, <1>5, ChainExists
<1> HIDE DEF K
<1>7. /\ f \in [0..K -> X] /\ f[0] = start
      /\ \A n \in 1..K : f[n] = Union(f[n - 1], order[n][1], order[n][2])
  <2>1. /\ f \in [0..K -> X] /\ f[0] = start
        /\ \A n \in 1..K : f[n] = h[n][f[n - 1]]
    BY <1>6 DEF Chains
  <2>2. \A n \in 1..K : n - 1 \in 0..K
    BY <1>1
  <2> HIDE DEF X
  <2> QED
    BY <2>1, <2>2
<1> HIDE DEF X, h, start
<1>8. f = [i \in 0..K |-> IF i = 0 THEN start
                          ELSE Union(f[i - 1], order[i][1], order[i][2])]
  <2>1. \A i \in 0..K : f[i] = IF i = 0 THEN start ELSE Union(f[i - 1], order[i][1], order[i][2])
    BY <1>1, <1>7
  <2> QED
    BY <1>7, <2>1
<1>9. parent = [i \in 0..K |-> IF i = 0 THEN start
                               ELSE Union(parent[i - 1], order[i][1], order[i][2])]
  BY <1>8
<1> HIDE DEF parent
<1>10. \A i \in 0..K : parent[i] = f[i]
  <2> DEFINE T == {i \in 0..K : parent[i] = f[i]}
  <2>1. 0 \in T
    BY <1>1, <1>7, <1>9
  <2>2. ASSUME NEW n \in 1..K, n - 1 \in T PROVE n \in T
    BY <1>1, <1>7, <1>9, <2>2
  <2>3. \A n \in 0..K : n \in T
    <3> HIDE DEF T
    <3> QED
      BY <1>1, <2>1, <2>2, Climb
  <2> QED
    BY <2>3
<1>11. \A n \in 0..K : Rooted(f[n], D)
  BY <1>7 DEF X
<1>12. ASSUME NEW n \in 1..K, NEW g \in D
       PROVE  Find(f[n], g) = IF Find(f[n - 1], g) = Find(f[n - 1], order[n][1])
                              THEN Find(f[n - 1], order[n][2]) ELSE Find(f[n - 1], g)
  <2>1. n - 1 \in 0..K
    BY <1>1
  <2> HIDE DEF D
  <2> QED
    BY <1>0, <1>2, <1>7, <1>11, <2>1, UnionStep
<1> DEFINE R == [g \in D |-> root(g)]
<1>13. \A g \in D : R[g] = Find(f[K], g) /\ R[g] \in D
  <2>1. K \in 0..K
    BY <1>1
  <2>2. \A g \in D : Find(f[K], g) \in D
    <3> HIDE DEF D
    <3> QED
      BY <1>0, <1>11, <2>1, FindRoot
  <2> QED
    BY <1>10, <2>1, <2>2
<1>14. R \in [D -> D]
  BY <1>13
<1>15. Partition(order) = {{g2 \in D : R[g2] = R[g]} : g \in D}
  BY <1>3
<1> HIDE DEF R, D
<1>16. ASSUME NEW e \in Edges PROVE R[e[1]] = R[e[2]]
  <2>1. PICK m \in 1..K : order[m] = e
    BY <1>1
  <2>2. e[1] \in D /\ e[2] \in D
    BY <1>2, <2>1
  <2> DEFINE T == {n \in 0..K : n >= m => Find(f[n], e[1]) = Find(f[n], e[2])}
  <2>3. 0 \in T
    BY <1>1
  <2>4. ASSUME NEW n \in 1..K, n - 1 \in T PROVE n \in T
    <3>1. CASE n = m
      BY <1>12, <2>1, <2>2, <3>1
    <3>2. CASE n > m
      <4>1. Find(f[n - 1], e[1]) = Find(f[n - 1], e[2])
        BY <1>1, <2>4, <3>2
      <4> QED
        BY <1>12, <2>2, <4>1
    <3>3. CASE n < m
      BY <1>1, <3>3
    <3> QED
      BY <1>1, <3>1, <3>2, <3>3
  <2>5. \A n \in 0..K : n \in T
    <3> HIDE DEF T
    <3> QED
      BY <1>1, <2>3, <2>4, Climb
  <2>6. K \in 0..K /\ K >= m
    BY <1>1
  <2>7. Find(f[K], e[1]) = Find(f[K], e[2])
    BY <2>5, <2>6
  <2> QED
    BY <1>13, <2>2, <2>7
<1>17. ASSUME NEW S \in SUBSET D, \A e \in Edges : e[1] \in S <=> e[2] \in S
       PROVE  \A g \in D : g \in S <=> R[g] \in S
  <2> DEFINE T == {n \in 0..K : \A g \in D : g \in S <=> Find(f[n], g) \in S}
  <2>1. 0 \in T
    <3>1. 0 \in 0..K /\ \A g \in D : f[0][g] = g
      BY <1>1, <1>7 DEF start
    <3>2. \A g \in D : Find(f[0], g) = g
      BY <1>0, <1>11, <3>1, FindOfRoot
    <3> QED
      BY <3>1, <3>2
  <2>2. ASSUME NEW n \in 1..K, n - 1 \in T PROVE n \in T
    <3>1. \A g \in D : g \in S <=> Find(f[n - 1], g) \in S
      BY <2>2
    <3>2. order[n][1] \in D /\ order[n][2] \in D /\ (order[n][1] \in S <=> order[n][2] \in S)
      BY <1>2, <1>17
    <3>3. \A g \in D : g \in S <=> Find(f[n], g) \in S
      BY <1>12, <3>1, <3>2
    <3>4. n \in 0..K
      BY <1>1
    <3> QED
      BY <3>3, <3>4
  <2>3. \A n \in 0..K : n \in T
    <3> HIDE DEF T
    <3> QED
      BY <1>1, <2>1, <2>2, Climb
  <2>4. K \in 0..K
    BY <1>1
  <2>5. \A g \in D : g \in S <=> Find(f[K], g) \in S
    BY <2>3, <2>4
  <2> QED
    BY <1>13, <2>5
<1> QED
  BY <1>14, <1>15, <1>16, <1>17 DEF D

-----------------------------------------------------------------------------
(* The reference components: closed under edges, and least.                *)
LEMMA ComponentIs ==
    ASSUME IsFiniteSet(DOMAIN facts), NEW g \in DOMAIN facts
    PROVE  /\ g \in Component(g) /\ Component(g) \subseteq DOMAIN facts
           /\ \A e \in Edges : e[1] \in Component(g) <=> e[2] \in Component(g)
           /\ \A C : g \in C /\ (\A e \in Edges : e[1] \in C <=> e[2] \in C)
                        => Component(g) \subseteq C
<1> DEFINE D == DOMAIN facts
           near(x) == {y \in D : <<x, y>> \in Edges \/ <<y, x>> \in Edges}
           G == [S \in SUBSET D |-> S \cup UNION {near(x) : x \in S}]
           grown[n \in Nat] == IF n = 0 THEN {g}
                               ELSE grown[n - 1] \cup UNION {near(x) : x \in grown[n - 1]}
<1>1. Component(g) = grown[Cardinality(D)]
  BY DEF Component
<1>2. G \in [SUBSET D -> SUBSET D] /\ \A S \in SUBSET D : S \subseteq G[S]
  OBVIOUS
<1>3. PICK f : Iterates(SUBSET D, {g}, G, f)
  <2> HIDE DEF G
  <2> QED
    BY <1>2, IterationExists
<1>4. f = [n \in Nat |-> IF n = 0 THEN {g} ELSE f[n - 1] \cup UNION {near(x) : x \in f[n - 1]}]
  <2>1. ASSUME NEW n \in Nat, n # 0 PROVE f[n] = f[n - 1] \cup UNION {near(x) : x \in f[n - 1]}
    <3>1. n - 1 \in Nat /\ (n - 1) + 1 = n
      BY <2>1
    <3>2. f[n] = G[f[n - 1]] /\ f[n - 1] \in SUBSET D
      BY <1>3, <3>1 DEF Iterates
    <3> QED
      BY <3>2
  <2> HIDE DEF G, near
  <2> QED
    BY <1>3, <2>1 DEF Iterates
<1>5. grown = [n \in Nat |-> IF n = 0 THEN {g}
                             ELSE grown[n - 1] \cup UNION {near(x) : x \in grown[n - 1]}]
  BY <1>4
<1> HIDE DEF grown
<1>6. \A n \in Nat : grown[n] = f[n]
  <2> DEFINE T == {n \in Nat : grown[n] = f[n]}
  <2>1. 0 \in T
    BY <1>3, <1>5 DEF Iterates
  <2>2. ASSUME NEW n \in Nat, n \in T PROVE n + 1 \in T
    <3>1. n + 1 \in Nat /\ n + 1 # 0 /\ (n + 1) - 1 = n
      OBVIOUS
    <3> HIDE DEF near
    <3>2. grown[n + 1] = grown[n] \cup UNION {near(x) : x \in grown[n]}
      BY <1>5, <3>1
    <3>3. f[n + 1] = f[n] \cup UNION {near(x) : x \in f[n]}
      BY <1>4, <3>1
    <3> QED
      BY <2>2, <3>1, <3>2, <3>3
  <2> HIDE DEF T
  <2>3. \A n \in Nat : n \in T
    BY <2>1, <2>2, ClimbAll
  <2> QED
    BY <2>3 DEF T
<1> DEFINE C == f[Cardinality(D)]
<1>7. C \in SUBSET D /\ {g} \subseteq C /\ G[C] = C
  <2>1. IsFiniteSet(D) /\ {g} \in SUBSET D
    OBVIOUS
  <2>2. G \in [SUBSET D -> SUBSET D] /\ (\A S \in SUBSET D : S \subseteq G[S])
    BY <1>2
  <2> HIDE DEF G, D, near, C
  <2>3. Grows(D, {g}, G, f)
    BY <2>1, <2>2, <1>3 DEF Grows
  <2>4. /\ f[Cardinality(D)] \in SUBSET D /\ {g} \subseteq f[Cardinality(D)]
        /\ G[f[Cardinality(D)]] = f[Cardinality(D)]
    BY <2>3, GrowthCloses
  <2> QED
    BY <2>4 DEF C
<1>8. Component(g) = C
  BY <1>1, <1>6, FS_CardinalityType
<1>9. \A e \in Edges : e[1] \in C <=> e[2] \in C
  <2> SUFFICES ASSUME NEW e \in Edges PROVE e[1] \in C <=> e[2] \in C
    OBVIOUS
  <2>1. e[1] \in D /\ e[2] \in D /\ e = <<e[1], e[2]>>
    BY DEF Edges
  <2>2. ASSUME NEW x \in C, NEW y \in near(x) PROVE y \in C
    BY <1>7, <2>2
  <2>3. e[2] \in near(e[1]) /\ e[1] \in near(e[2])
    BY <2>1
  <2> HIDE DEF near, C
  <2> QED
    BY <2>2, <2>3
<1>10. ASSUME NEW B, g \in B, \A e \in Edges : e[1] \in B <=> e[2] \in B
       PROVE  C \subseteq B
  <2>1. ASSUME NEW S \in SUBSET D, S \subseteq B PROVE G[S] \subseteq B
    <3>1. ASSUME NEW x \in S, NEW y \in near(x) PROVE y \in B
      <4>1. x \in B
        BY <2>1
      <4>2. CASE <<x, y>> \in Edges
        BY <1>10, <4>1, <4>2
      <4>3. CASE <<y, x>> \in Edges
        BY <1>10, <4>1, <4>3
      <4> QED
        BY <4>2, <4>3
    <3> HIDE DEF near
    <3> QED
      BY <2>1, <3>1
  <2>2. Cardinality(D) \in Nat
    BY FS_CardinalityType
  <2> HIDE DEF G
  <2>3. \A n \in Nat : f[n] \subseteq B
    BY <1>3, <1>10, <2>1, GrowthLeast
  <2> QED
    BY <2>2, <2>3
<1> HIDE DEF C
<1> QED
  BY <1>7, <1>8, <1>9, <1>10

LEMMA PartitionIsComponents ==
    ASSUME IsFiniteSet(DOMAIN facts), NEW order \in Orders(Edges)
    PROVE  Partition(order) = {Component(g) : g \in DOMAIN facts}
<1> DEFINE D == DOMAIN facts
<1>1. PICK R \in [D -> D] :
         /\ Partition(order) = {{h \in D : R[h] = R[g]} : g \in D}
         /\ \A e \in Edges : R[e[1]] = R[e[2]]
         /\ \A S \in SUBSET D :
               (\A e \in Edges : e[1] \in S <=> e[2] \in S) => \A g \in D : g \in S <=> R[g] \in S
  BY PartitionIs
<1>2. ASSUME NEW g \in D PROVE {h \in D : R[h] = R[g]} = Component(g)
  <2> DEFINE B == {h \in D : R[h] = R[g]}
  <2>1. \A e \in Edges : e[1] \in D /\ e[2] \in D
    BY DEF Edges
  <2>2. g \in B /\ \A e \in Edges : e[1] \in B <=> e[2] \in B
    BY <1>1, <2>1
  <2>3. Component(g) \subseteq B
    <3> HIDE DEF B
    <3> QED
      BY <2>2, ComponentIs
  <2>4. /\ g \in Component(g) /\ Component(g) \in SUBSET D
        /\ \A e \in Edges : e[1] \in Component(g) <=> e[2] \in Component(g)
    BY ComponentIs
  <2>5. \A h \in D : h \in Component(g) <=> R[h] \in Component(g)
    BY <1>1, <2>4
  <2>6. B \subseteq Component(g)
    BY <2>4, <2>5
  <2> QED
    BY <2>3, <2>6
<1> HIDE DEF D
<1>3. {{h \in D : R[h] = R[g]} : g \in D} = {Component(g) : g \in D}
  <2> DEFINE A(g) == {h \in D : R[h] = R[g]}
  <2>1. \A g \in D : A(g) = Component(g)
    BY <1>2
  <2> HIDE DEF A
  <2>2. {A(g) : g \in D} = {Component(g) : g \in D}
    BY <2>1
  <2> QED
    BY <2>2 DEF A
<1> QED
  BY <1>1, <1>3 DEF D

(* A session that references a fact of g's component is affected.          *)
LEMMA AffectedReach ==
    ASSUME IsFiniteSet(DOMAIN facts), NEW g \in DOMAIN facts, NEW h \in Component(g)
    PROVE  depIndex[h] \subseteq AffectedSubscribers(g)
<1> DEFINE order == CHOOSE q \in Orders(Edges) : TRUE
<1>1. IsFiniteSet(Edges)
  <2>1. IsFiniteSet((DOMAIN facts) \X (DOMAIN facts))
    BY FS_Product
  <2> QED
    BY <2>1, FS_Subset DEF Edges
<1>2. order \in Orders(Edges)
  BY <1>1, OrdersExist
<1>3. AffectedSubscribers(g) =
         UNION {depIndex[x] : x \in UNION {comp \in Partition(order) : g \in comp}}
  BY DEF AffectedSubscribers
<1> HIDE DEF order
<1>4. Component(g) \in Partition(order) /\ g \in Component(g)
  BY <1>2, PartitionIsComponents, ComponentIs
<1> QED
  BY <1>3, <1>4


(* Partition finds the components whatever order the edges come in.        *)
LEMMA FactsFiniteStep ==
    IsFiniteSet(DOMAIN facts) /\ [Next]_vars => IsFiniteSet(DOMAIN facts)'
<1> SUFFICES ASSUME IsFiniteSet(DOMAIN facts), [Next]_vars PROVE IsFiniteSet(DOMAIN facts')
  OBVIOUS
<1>1. CASE UNCHANGED facts
  BY <1>1
<1>2. ASSUME NEW g \in GlobalId, NEW v \in Value, AssertGlobal(g, v)
      PROVE  IsFiniteSet(DOMAIN facts')
  <2>1. DOMAIN facts' = DOMAIN facts \cup {g}
    BY <1>2 DEF AssertGlobal
  <2> QED
    BY <2>1, FS_AddElement
<1> QED
  BY <1>1, <1>2 DEF Next, vars, Subscribe, Unsubscribe, AssertLocalFact,
     IndexFactDependencies, RetractGlobal, gtVars

(* Partition's union-find, with the edges in any order a map iteration may *)
(* give them in, yields the connected components of the shared facts.      *)
THEOREM PartitionFindsComponents == Spec => []PartitionCorrect
<1>1. Init => IsFiniteSet(DOMAIN facts)
  <2> SUFFICES ASSUME Init PROVE IsFiniteSet(DOMAIN facts)
    OBVIOUS
  <2>1. DOMAIN facts = {}
    BY DEF Init
  <2> QED
    BY <2>1, FS_EmptySet
<1>2. IsFiniteSet(DOMAIN facts) => PartitionCorrect
  BY PartitionIsComponents DEF PartitionCorrect
<1> QED
  BY <1>1, <1>2, FactsFiniteStep, PTL DEF Spec

-----------------------------------------------------------------------------
(* The fan-out of a retraction.                                            *)

CopyMaps == UNION {[A -> Value] : A \in SUBSET GlobalId}

EngineType == [copy : CopyMaps, dropped : SUBSET GlobalId, local : SUBSET LocalId]

(* An engine copies facts that are known, and accepted its local facts on  *)
(* copies it has.                                                          *)
Grounded(eng, known) ==
    /\ DOMAIN eng.copy \subseteq known
    /\ \A l \in eng.local : Needs[l] \subseteq DOMAIN eng.copy

(* There are finitely many facts; the engines are grounded in them; and a  *)
(* subscribed session is indexed for each of its local facts, unless the   *)
(* indexing is still to come.                                              *)
ReachInv ==
    /\ IndexInv
    /\ IsFiniteSet(DOMAIN facts) /\ facts \in [DOMAIN facts -> Value]
    /\ engine \in [Session -> EngineType]
    /\ \A s \in Session : Grounded(engine[s], DOMAIN facts)
    /\ \A s \in subscribers : s \in Session
    /\ \A s \in subscribers, l \in LocalId :
          l \in engine[s].local /\ <<s, l>> \notin pending => Needs[l] \subseteq sessionDeps[s]

LEMMA AssertCopyKeeps ==
    ASSUME NEW eng \in EngineType, NEW known, Grounded(eng, known),
           NEW g \in GlobalId, g \in known, NEW v \in Value
    PROVE  /\ AssertCopy(eng, g, v) \in EngineType /\ Grounded(AssertCopy(eng, g, v), known)
           /\ AssertCopy(eng, g, v).local = eng.local
<1> DEFINE c == [h \in DOMAIN eng.copy \cup {g} |-> IF h = g THEN v ELSE eng.copy[h]]
<1>1. CASE AssertCopy(eng, g, v) = eng
  BY <1>1
<1>2. CASE AssertCopy(eng, g, v) = [eng EXCEPT !.copy = c]
  <2>1. PICK A \in SUBSET GlobalId : eng.copy \in [A -> Value]
    BY DEF EngineType, CopyMaps
  <2>2. DOMAIN c = DOMAIN eng.copy \cup {g} /\ c \in [A \cup {g} -> Value]
    BY <2>1
  <2>3. c \in CopyMaps
    BY <2>2 DEF CopyMaps
  <2> HIDE DEF c
  <2>4. /\ AssertCopy(eng, g, v).copy = c /\ AssertCopy(eng, g, v).local = eng.local
        /\ AssertCopy(eng, g, v) \in EngineType
    BY <1>2, <2>3 DEF EngineType
  <2> QED
    BY <2>2, <2>4 DEF Grounded
<1> QED
  BY <1>1, <1>2 DEF AssertCopy

LEMMA ReplayIntoKeeps ==
    ASSUME ReachInv, NEW S \in SUBSET (DOMAIN facts), NEW q \in Orders(S),
           NEW eng \in EngineType, Grounded(eng, DOMAIN facts)
    PROVE  /\ ReplayInto(eng, q) \in EngineType
           /\ Grounded(ReplayInto(eng, q), DOMAIN facts)
           /\ ReplayInto(eng, q).local = eng.local
<1> DEFINE K == Len(q)
           X == {e \in EngineType : Grounded(e, DOMAIN facts) /\ e.local = eng.local}
           h == [n \in 1..K |-> [e \in X |-> AssertCopy(e, q[n], facts[q[n]])]]
           after[i \in 0..K] == IF i = 0 THEN eng ELSE AssertCopy(after[i - 1], q[i], facts[q[i]])
<1>1. K \in Nat /\ \A n \in 1..K : q[n] \in DOMAIN facts
  <2>1. IsFiniteSet(S)
    BY FS_Subset DEF ReachInv
  <2> QED
    BY <2>1, OrderIs
<1>2. ReplayInto(eng, q) = after[K]
  BY DEF ReplayInto
<1>3. after = CHOOSE f : f = [i \in 0..K |-> IF i = 0 THEN eng
                                             ELSE AssertCopy(f[i - 1], q[i], facts[q[i]])]
  OBVIOUS
<1> HIDE DEF after, K
<1>4. h \in [1..K -> [X -> X]]
  <2>1. ASSUME NEW n \in 1..K, NEW e \in X PROVE AssertCopy(e, q[n], facts[q[n]]) \in X
    <3>1. q[n] \in DOMAIN facts /\ q[n] \in GlobalId /\ facts[q[n]] \in Value
      BY <1>1 DEF ReachInv, IndexInv
    <3> QED
      BY <3>1, AssertCopyKeeps
  <2> HIDE DEF X
  <2> QED
    BY <2>1
<1>5. PICK f : Chains(X, eng, h, K, f)
  <2>1. eng \in X
    OBVIOUS
  <2> HIDE DEF X, h
  <2> QED
    BY <1>1, <1>4, <2>1, ChainExists
<1>6. f = [i \in 0..K |-> IF i = 0 THEN eng ELSE AssertCopy(f[i - 1], q[i], facts[q[i]])]
  <2>1. ASSUME NEW n \in 1..K PROVE f[n] = AssertCopy(f[n - 1], q[n], facts[q[n]])
    <3>1. n - 1 \in 0..K
      BY <1>1
    <3>2. f[n] = h[n][f[n - 1]] /\ f[n - 1] \in X
      BY <1>5, <3>1 DEF Chains
    <3> HIDE DEF X
    <3> QED
      BY <3>2
  <2>2. \A i \in 0..K : i # 0 => i \in 1..K
    BY <1>1
  <2> HIDE DEF X, h
  <2> QED
    BY <1>5, <2>1, <2>2 DEF Chains
<1>7. \A n \in 0..K : after[n] \in X
  <2>1. after = [i \in 0..K |-> IF i = 0 THEN eng
                                ELSE AssertCopy(after[i - 1], q[i], facts[q[i]])]
    BY <1>3, <1>6
  <2> DEFINE T == {n \in 0..K : after[n] \in X}
  <2>2. 0 \in T
    BY <1>1, <2>1
  <2>3. ASSUME NEW n \in 1..K, n - 1 \in T PROVE n \in T
    <3>1. after[n] = AssertCopy(after[n - 1], q[n], facts[q[n]]) /\ after[n - 1] \in X
      BY <2>1, <2>3
    <3>2. q[n] \in DOMAIN facts /\ q[n] \in GlobalId /\ facts[q[n]] \in Value
      BY <1>1 DEF ReachInv, IndexInv
    <3> QED
      BY <3>1, <3>2, AssertCopyKeeps
  <2> HIDE DEF T
  <2>4. \A n \in 0..K : n \in T
    BY <1>1, <2>2, <2>3, Climb
  <2> QED
    BY <2>4 DEF T
<1> QED
  BY <1>1, <1>2, <1>7


(* What an engine that is subscribed starts from.                          *)
LEMMA BootGrounded ==
    ASSUME ReachInv, NEW s \in Session,
           NEW eng \in {engine[s], [NewEngine EXCEPT !.local =
                                      {l \in engine[s].local : Needs[l] = {}}]}
    PROVE  eng \in EngineType /\ Grounded(eng, DOMAIN facts)
<1>1. engine[s] \in EngineType /\ Grounded(engine[s], DOMAIN facts)
  BY DEF ReachInv
<1> DEFINE L == {l \in engine[s].local : Needs[l] = {}}
           none == [g \in {} |-> g]
<1>2. L \in SUBSET LocalId
  BY <1>1 DEF EngineType
<1>3. none \in CopyMaps
  <2>1. none \in [{} -> Value]
    OBVIOUS
  <2> QED
    BY <2>1 DEF CopyMaps
<1>4. DOMAIN none = {} /\ \A l \in L : Needs[l] = {}
  OBVIOUS
<1> HIDE DEF L, none
<1>5. [copy |-> none, dropped |-> {}, local |-> L] \in EngineType
  BY <1>2, <1>3 DEF EngineType
<1>6. Grounded([copy |-> none, dropped |-> {}, local |-> L], DOMAIN facts)
  BY <1>4 DEF Grounded
<1>7. [NewEngine EXCEPT !.local = L] = [copy |-> none, dropped |-> {}, local |-> L]
  <2>1. NewEngine = [copy |-> none, dropped |-> {}, local |-> {}]
    BY DEF NewEngine, none
  <2> QED
    BY <2>1
<1> QED
  BY <1>1, <1>5, <1>6, <1>7 DEF L

LEMMA ReachInvStep == ReachInv /\ [Next]_vars => ReachInv'
<1> SUFFICES ASSUME ReachInv, [Next]_vars PROVE ReachInv'
  OBVIOUS
<1>1. IndexInv' /\ IsFiniteSet(DOMAIN facts')
  BY IndexInvStep, FactsFiniteStep DEF ReachInv
<1>2. ASSUME NEW s \in Session, Subscribe(s) PROVE ReachInv'
  <2>1. PICK eng \in {engine[s], [NewEngine EXCEPT !.local =
                                    {l \in engine[s].local : Needs[l] = {}}]},
             q \in Orders(DOMAIN facts \ retracted) :
          engine' = [engine EXCEPT ![s] = ReplayInto(eng, q)] /\ SetSessionIndex(s, References(eng))
    BY <1>2 DEF Subscribe
  <2>2. subscribers' = subscribers \cup {s} /\ UNCHANGED <<facts, retracted, pending>>
    BY <1>2 DEF Subscribe
  <2>3. eng \in EngineType /\ Grounded(eng, DOMAIN facts)
    BY BootGrounded
  <2> DEFINE new == ReplayInto(eng, q)
  <2>4. DOMAIN facts \ retracted \in SUBSET (DOMAIN facts)
    OBVIOUS
  <2>5. new \in EngineType /\ Grounded(new, DOMAIN facts) /\ new.local = eng.local
    BY <2>3, <2>4, ReplayIntoKeeps
  <2> HIDE DEF new
  <2>6. engine' = [engine EXCEPT ![s] = new]
    BY <2>1 DEF new
  <2>7. sessionDeps' = [sessionDeps EXCEPT ![s] = References(eng)]
    BY <2>1 DEF SetSessionIndex
  <2>8. engine' \in [Session -> EngineType] /\ \A t \in Session : Grounded(engine'[t], DOMAIN facts)
    BY <2>5, <2>6 DEF ReachInv
  <2>9. \A l \in eng.local : Needs[l] \subseteq References(eng)
    BY <2>3 DEF Grounded, References
  <2>10. ASSUME NEW t \in subscribers', NEW l \in LocalId,
                l \in engine'[t].local, <<t, l>> \notin pending'
         PROVE  Needs[l] \subseteq sessionDeps'[t]
    <3>1. CASE t = s
      BY <2>5, <2>6, <2>7, <2>9, <2>10, <3>1 DEF ReachInv, IndexInv
    <3>2. CASE t # s
      BY <2>2, <2>6, <2>7, <2>10, <3>2 DEF ReachInv, IndexInv
    <3> QED
      BY <3>1, <3>2
  <2> QED
    BY <1>1, <2>2, <2>8, <2>10 DEF ReachInv
<1>3. ASSUME NEW s \in Session, Unsubscribe(s) PROVE ReachInv'
  <2>1. /\ subscribers' = subscribers \ {s} /\ UNCHANGED <<facts, engine, pending>>
        /\ sessionDeps' = [sessionDeps EXCEPT ![s] = {}]
    BY <1>3 DEF Unsubscribe, SetSessionIndex
  <2>2. ASSUME NEW t \in subscribers', NEW l \in LocalId,
               l \in engine'[t].local, <<t, l>> \notin pending'
        PROVE  Needs[l] \subseteq sessionDeps'[t]
    BY <2>1, <2>2 DEF ReachInv, IndexInv
  <2> QED
    BY <1>1, <2>1, <2>2 DEF ReachInv
<1>4. ASSUME NEW s \in Session, NEW l \in LocalId, AssertLocalFact(s, l) PROVE ReachInv'
  <2>1. /\ s \in subscribers /\ AssertLocal(engine[s], l) # engine[s]
        /\ engine' = [engine EXCEPT ![s] = AssertLocal(engine[s], l)]
        /\ pending' = pending \cup {<<s, l>>}
        /\ UNCHANGED <<facts, subscribers, sessionDeps>>
    BY <1>4 DEF AssertLocalFact, gtVars, ReachInv
  <2>2. engine[s] \in EngineType /\ Grounded(engine[s], DOMAIN facts)
    BY DEF ReachInv
  <2> DEFINE new == [engine[s] EXCEPT !.local = engine[s].local \cup {l}]
  <2>3. Needs[l] \subseteq DOMAIN engine[s].copy /\ AssertLocal(engine[s], l) = new
    BY <2>1, <2>2 DEF AssertLocal, EngineType
  <2>4. /\ new \in EngineType /\ new.local = engine[s].local \cup {l}
        /\ new.copy = engine[s].copy
    BY <2>2 DEF EngineType
  <2> HIDE DEF new
  <2>5. Grounded(new, DOMAIN facts)
    BY <2>2, <2>3, <2>4 DEF Grounded
  <2>6. engine' = [engine EXCEPT ![s] = new]
    BY <2>1, <2>3
  <2>7. engine' \in [Session -> EngineType] /\ \A t \in Session : Grounded(engine'[t], DOMAIN facts)
    BY <2>4, <2>5, <2>6 DEF ReachInv
  <2>8. ASSUME NEW t \in subscribers', NEW x \in LocalId,
               x \in engine'[t].local, <<t, x>> \notin pending'
        PROVE  Needs[x] \subseteq sessionDeps'[t]
    <3>1. x \in engine[t].local /\ <<t, x>> \notin pending /\ t \in subscribers
      BY <2>1, <2>4, <2>6, <2>8 DEF ReachInv
    <3> QED
      BY <2>1, <3>1 DEF ReachInv
  <2> QED
    BY <1>1, <2>1, <2>7, <2>8 DEF ReachInv
<1>5. ASSUME NEW s \in Session, NEW l \in LocalId, IndexFactDependencies(s, l) PROVE ReachInv'
  <2>1. /\ pending' = pending \ {<<s, l>>}
        /\ sessionDeps' = [sessionDeps EXCEPT ![s] = @ \cup (Needs[l] \cap DOMAIN facts)]
        /\ UNCHANGED <<facts, subscribers, engine>>
    BY <1>5 DEF IndexFactDependencies
  <2>2. ASSUME NEW t \in subscribers', NEW x \in LocalId,
               x \in engine'[t].local, <<t, x>> \notin pending'
        PROVE  Needs[x] \subseteq sessionDeps'[t]
    <3>1. t \in Session /\ t \in subscribers /\ x \in engine[t].local
      BY <2>1, <2>2 DEF ReachInv
    <3>2. CASE <<t, x>> = <<s, l>>
      <4>1. Needs[l] \subseteq DOMAIN facts
        BY <3>1, <3>2 DEF ReachInv, Grounded
      <4> QED
        BY <2>1, <3>1, <3>2, <4>1 DEF ReachInv, IndexInv
    <3>3. CASE <<t, x>> # <<s, l>>
      <4>1. Needs[x] \subseteq sessionDeps[t]
        BY <2>1, <2>2, <3>1, <3>3 DEF ReachInv
      <4>2. sessionDeps[t] \subseteq sessionDeps'[t]
        BY <2>1, <3>1 DEF ReachInv, IndexInv
      <4> QED
        BY <4>1, <4>2
    <3> QED
      BY <3>2, <3>3
  <2> QED
    BY <1>1, <2>1, <2>2 DEF ReachInv
<1>6. ASSUME NEW g \in GlobalId, NEW v \in Value, AssertGlobal(g, v) PROVE ReachInv'
  <2>1. PICK targets :
          engine' = [s \in Session |-> IF s \in targets THEN AssertCopy(engine[s], g, v)
                                                        ELSE engine[s]]
    BY <1>6 DEF AssertGlobal
  <2>2. /\ facts' = [h \in DOMAIN facts \cup {g} |-> IF h = g THEN v ELSE facts[h]]
        /\ UNCHANGED <<subscribers, sessionDeps, pending>>
    BY <1>6 DEF AssertGlobal
  <2>3. /\ DOMAIN facts' = DOMAIN facts \cup {g} /\ facts' \in [DOMAIN facts' -> Value]
    BY <2>2 DEF ReachInv
  <2>4. ASSUME NEW s \in Session
        PROVE  /\ engine'[s] \in EngineType /\ Grounded(engine'[s], DOMAIN facts')
               /\ engine'[s].local = engine[s].local
    <3>1. engine[s] \in EngineType /\ Grounded(engine[s], DOMAIN facts')
      BY <2>3 DEF ReachInv, Grounded
    <3>2. g \in DOMAIN facts'
      BY <2>3
    <3>3. /\ AssertCopy(engine[s], g, v) \in EngineType
          /\ Grounded(AssertCopy(engine[s], g, v), DOMAIN facts')
          /\ AssertCopy(engine[s], g, v).local = engine[s].local
      BY <3>1, <3>2, AssertCopyKeeps
    <3>4. engine'[s] = engine[s] \/ engine'[s] = AssertCopy(engine[s], g, v)
      BY <2>1
    <3> QED
      BY <3>1, <3>3, <3>4
  <2>5. engine' \in [Session -> EngineType]
    BY <2>1, <2>4
  <2>6. ASSUME NEW t \in subscribers', NEW l \in LocalId,
               l \in engine'[t].local, <<t, l>> \notin pending'
        PROVE  Needs[l] \subseteq sessionDeps'[t]
    BY <2>2, <2>4, <2>6 DEF ReachInv
  <2> QED
    BY <1>1, <2>2, <2>3, <2>4, <2>5, <2>6 DEF ReachInv
<1>7. ASSUME NEW g \in GlobalId, RetractGlobal(g) PROVE ReachInv'
  <2>1. PICK targets :
          engine' = [s \in Session |-> IF s \in targets THEN RetractCopy(engine[s], g)
                                                        ELSE engine[s]]
    BY <1>7 DEF RetractGlobal
  <2>2. UNCHANGED <<facts, subscribers, sessionDeps, pending>>
    BY <1>7 DEF RetractGlobal
  <2>3. ASSUME NEW s \in Session
        PROVE  /\ engine'[s] \in EngineType
               /\ engine'[s].local = engine[s].local /\ engine'[s].copy = engine[s].copy
    <3>1. engine[s] \in EngineType
      BY DEF ReachInv
    <3>2. /\ RetractCopy(engine[s], g) \in EngineType
          /\ RetractCopy(engine[s], g).local = engine[s].local
          /\ RetractCopy(engine[s], g).copy = engine[s].copy
      BY <3>1 DEF RetractCopy, EngineType
    <3>3. engine'[s] = engine[s] \/ engine'[s] = RetractCopy(engine[s], g)
      BY <2>1
    <3> QED
      BY <3>1, <3>2, <3>3
  <2>4. engine' \in [Session -> EngineType]
    BY <2>1, <2>3
  <2>5. \A s \in Session : Grounded(engine'[s], DOMAIN facts)
    BY <2>3 DEF ReachInv, Grounded
  <2>6. ASSUME NEW t \in subscribers', NEW l \in LocalId,
               l \in engine'[t].local, <<t, l>> \notin pending'
        PROVE  Needs[l] \subseteq sessionDeps'[t]
    BY <2>2, <2>3, <2>6 DEF ReachInv
  <2> QED
    BY <1>1, <2>2, <2>4, <2>5, <2>6 DEF ReachInv
<1>8. CASE UNCHANGED vars
  BY <1>1, <1>8 DEF vars, ReachInv
<1> QED
  BY <1>2, <1>3, <1>4, <1>5, <1>6, <1>7, <1>8 DEF Next

LEMMA RetractionReachesStep ==
    ASSUME ReachInv, [Next]_vars, NEW g \in GlobalId, g \in retracted' \ retracted,
           NEW s \in subscribers, NEW l \in LocalId,
           l \in engine[s].local, <<s, l>> \notin pending,
           Needs[l] \cap Component(g) # {}, g \in DOMAIN engine[s].copy
    PROVE  g \in engine'[s].dropped
<1>1. RetractGlobal(g)
  <2>1. PICK x \in GlobalId : RetractGlobal(x)
    BY DEF Next, vars, Subscribe, Unsubscribe, AssertLocalFact, IndexFactDependencies,
       AssertGlobal, gtVars
  <2>2. x = g
    BY <2>1 DEF RetractGlobal
  <2> QED
    BY <2>1, <2>2
<1>2. PICK h \in Component(g) : h \in Needs[l]
  OBVIOUS
<1>3. /\ s \in Session /\ g \in DOMAIN facts /\ engine[s] \in EngineType
      /\ IsFiniteSet(DOMAIN facts)
  BY <1>1 DEF ReachInv, RetractGlobal
<1>4. s \in AffectedSubscribers(g)
  <2>1. h \in sessionDeps[s] /\ h \in GlobalId
    BY <1>2, <1>3 DEF ReachInv, IndexInv
  <2>2. s \in depIndex[h]
    BY <1>3, <2>1 DEF ReachInv, IndexInv, IndexMirrors
  <2> QED
    BY <1>2, <1>3, <2>2, AffectedReach
<1>5. engine'[s] = RetractCopy(engine[s], g)
  BY <1>1, <1>3, <1>4 DEF RetractGlobal
<1> QED
  BY <1>3, <1>5 DEF RetractCopy, EngineType

(* However the selective fan-out is decided, a retraction has reached      *)
(* every subscribed engine with an indexed local fact on the retracted     *)
(* fact's component when RetractGlobal returns.                            *)
THEOREM RetractionReaches == Spec => DependentsReached
<1>1. Init => ReachInv
  <2> SUFFICES ASSUME Init PROVE ReachInv
    OBVIOUS
  <2> DEFINE none == [g \in {} |-> g]
  <2>1. IndexInv /\ facts = none /\ engine = [s \in Session |-> NewEngine] /\ subscribers = {}
    BY DEF Init, IndexInv, IndexMirrors
  <2>2. DOMAIN none = {} /\ none \in [{} -> Value]
    OBVIOUS
  <2>3. none \in CopyMaps
    BY <2>2 DEF CopyMaps
  <2>4. NewEngine = [copy |-> none, dropped |-> {}, local |-> {}]
    BY DEF NewEngine
  <2> HIDE DEF none
  <2>5. NewEngine \in EngineType /\ Grounded(NewEngine, {})
    BY <2>2, <2>3, <2>4 DEF EngineType, Grounded
  <2> QED
    BY <2>1, <2>2, <2>5, FS_EmptySet DEF ReachInv
<1>2. ReachInv /\ [Next]_vars =>
        [\A g \in GlobalId : g \in retracted' \ retracted =>
            \A s \in subscribers, l \in LocalId :
               ( /\ l \in engine[s].local /\ <<s, l>> \notin pending
                 /\ Needs[l] \cap Component(g) # {}
                 /\ g \in DOMAIN engine[s].copy )
               => g \in engine'[s].dropped]_vars
  BY RetractionReachesStep
<1> QED
  BY <1>1, <1>2, ReachInvStep, PTL DEF Spec, DependentsReached
=============================================================================
