-------------------------- MODULE RecursionLemmas ---------------------------
(***************************************************************************)
(* What the proofs of this project use in place of an induction rule: a    *)
(* set of naturals that is not empty has a least element.  From it, that a *)
(* claim climbs from number to number, that a function defined by          *)
(* recursion over the naturals is what its equations say, and that a set   *)
(* that grows inside a finite one is closed after as many rounds as the    *)
(* finite one has elements.                                                *)
(***************************************************************************)
EXTENDS Integers, FiniteSets, FiniteSetTheorems, WellFoundedInduction, TLAPS

LEMMA LeastNatural ==
    ASSUME NEW T \in SUBSET Nat, T # {}
    PROVE  \E m \in T : \A n \in T : m <= n
<1> DEFINE R == {ss \in Nat \X Nat : ss[1] < ss[2]}
<1>1. IsWellFoundedOn(R, Nat)
  BY NatLessThanWellFounded DEF OpToRel
<1>2. \E m \in T : \A n \in T : ~ (<<n, m>> \in R)
  <2> HIDE DEF R
  <2> QED
    BY <1>1, WFMin
<1>3. PICK m \in T : \A n \in T : ~ (<<n, m>> \in R)
  BY <1>2
<1>4. \A n \in T : ~ (n < m)
  <2> TAKE n \in T
  <2>1. <<n, m>> \in Nat \X Nat
    OBVIOUS
  <2>2. n < m => <<n, m>> \in R
    BY <2>1
  <2> QED
    BY <2>2, <1>3
<1> QED
  BY <1>4

(* What holds at 0 and goes from a number to the next holds up to k.       *)
LEMMA Climb ==
    ASSUME NEW k \in Nat, NEW T, 0 \in T, \A n \in 1..k : n - 1 \in T => n \in T
    PROVE  \A n \in 0..k : n \in T
<1> DEFINE B == {n \in 0..k : n \notin T}
<1> SUFFICES ASSUME B # {} PROVE FALSE
  OBVIOUS
<1>1. B \in SUBSET Nat
  OBVIOUS
<1>2. PICK m \in B : \A n \in B : m <= n
  <2> HIDE DEF B
  <2> QED
    BY <1>1, LeastNatural
<1>3. m \in 1..k /\ m - 1 \in 0..k /\ ~ (m <= m - 1) /\ m \notin T
  BY <1>2
<1>4. m - 1 \notin B
  <2> HIDE DEF B
  <2> QED
    BY <1>2, <1>3
<1> QED
  BY <1>3, <1>4

(* ... and, if it goes on for ever, everywhere.                            *)
LEMMA ClimbAll ==
    ASSUME NEW T, 0 \in T, \A n \in Nat : n \in T => n + 1 \in T
    PROVE  \A n \in Nat : n \in T
<1> TAKE k \in Nat
<1>1. ASSUME NEW n \in 1..k, n - 1 \in T PROVE n \in T
  <2>1. n - 1 \in Nat /\ (n - 1) + 1 = n
    OBVIOUS
  <2> QED
    BY <1>1, <2>1
<1>2. \A n \in 0..k : n \in T
  BY <1>1, Climb
<1> QED
  BY <1>2

(* Of finitely many things one has the highest number.                     *)
LEMMA HighestOf ==
    ASSUME NEW S, IsFiniteSet(S), S # {}, NEW g \in [S -> Nat]
    PROVE  \E i \in S : \A j \in S : g[i] >= g[j]
<1> DEFINE Topless(R) == R # {} /\ \A i \in R : \E j \in R : g[j] > g[i]
<1> DEFINE Sizes == {n \in Nat : \E R \in SUBSET S : Topless(R) /\ Cardinality(R) = n}
<1>1. SUFFICES ASSUME Topless(S) PROVE FALSE
  OBVIOUS
<1>2. Cardinality(S) \in Sizes
  BY <1>1, FS_CardinalityType
<1>3. PICK n \in Sizes : \A k \in Sizes : n <= k
  <2> HIDE DEF Sizes
  <2>1. Sizes \in SUBSET Nat
    BY DEF Sizes
  <2> QED
    BY <1>2, <2>1, LeastNatural
<1>4. PICK R \in SUBSET S : Topless(R) /\ Cardinality(R) = n
  OBVIOUS
<1>5. PICK i \in R : TRUE
  BY <1>4
<1>6. PICK j \in R : g[j] > g[i]
  BY <1>4
<1>7. Cardinality(R \ {i}) = n - 1 /\ n - 1 \in Nat
  <2>1. IsFiniteSet(R)
    BY <1>4, FS_Subset
  <2>2. Cardinality(R \ {i}) = Cardinality(R) - 1 /\ IsFiniteSet(R \ {i})
    BY <2>1, FS_RemoveElement
  <2> QED
    BY <1>4, <2>2, FS_CardinalityType
<1>8. Topless(R \ {i})
  <2>1. j \in R \ {i}
    BY <1>5, <1>6
  <2>2. ASSUME NEW a \in R \ {i} PROVE \E b \in R \ {i} : g[b] > g[a]
    <3>1. PICK b \in R : g[b] > g[a]
      BY <1>4
    <3>2. CASE b # i
      BY <3>1, <3>2
    <3>3. CASE b = i
      <4>1. g[i] \in Nat /\ g[j] \in Nat /\ g[a] \in Nat
        OBVIOUS
      <4>2. g[j] > g[a]
        BY <1>6, <3>1, <3>3, <4>1
      <4> QED
        BY <2>1, <4>2
    <3> QED
      BY <3>2, <3>3
  <2> QED
    BY <2>1, <2>2
<1>9. n - 1 \in Sizes
  BY <1>7, <1>8
<1> QED
  BY <1>3, <1>7, <1>9

-----------------------------------------------------------------------------
(* Recursion up to k: f starts with x, and step says what follows what.    *)
Chains(X, x, step, k, f) ==
    /\ f \in [0..k -> X]
    /\ f[0] = x
    /\ \A n \in 1..k : f[n] = step[n][f[n - 1]]

LEMMA ChainExists ==
    ASSUME NEW X, NEW x \in X, NEW k \in Nat, NEW step \in [1..k -> [X -> X]]
    PROVE  \E f : Chains(X, x, step, k, f)
<1> DEFINE T == {m \in 0..k : \E f : Chains(X, x, step, m, f)}
<1>1. 0 \in T
  <2>1. Chains(X, x, step, 0, [n \in 0..0 |-> x])
    BY DEF Chains
  <2> QED
    BY <2>1
<1>2. ASSUME NEW m \in 1..k, m - 1 \in T PROVE m \in T
  <2>1. PICK f : Chains(X, x, step, m - 1, f)
    BY <1>2
  <2> DEFINE g == [n \in 0..m |-> IF n = m THEN step[m][f[m - 1]] ELSE f[n]]
  <2>2. /\ f \in [0..m - 1 -> X] /\ f[0] = x
        /\ \A n \in 1..m - 1 : f[n] = step[n][f[n - 1]]
        /\ m \in Nat \ {0} /\ f[m - 1] \in X /\ step[m][f[m - 1]] \in X
    <3>1. f \in [0..m - 1 -> X] /\ m \in Nat \ {0} /\ m - 1 \in 0..m - 1
      BY <2>1 DEF Chains
    <3>2. f[m - 1] \in X
      BY <3>1
    <3> QED
      BY <2>1, <3>1, <3>2 DEF Chains
  <2>3. g \in [0..m -> X] /\ g[0] = x
    BY <2>2
  <2>4. ASSUME NEW n \in 1..m PROVE g[n] = step[n][g[n - 1]]
    <3>1. g[m] = step[m][f[m - 1]] /\ g[m - 1] = f[m - 1]
      BY <2>2
    <3>2. n # m => g[n] = f[n] /\ g[n - 1] = f[n - 1] /\ n \in 1..m - 1
      BY <2>2
    <3> HIDE DEF g
    <3> QED
      BY <2>2, <3>1, <3>2
  <2>5. Chains(X, x, step, m, g)
    <3> HIDE DEF g
    <3> QED
      BY <2>3, <2>4 DEF Chains
  <2> QED
    BY <2>5
<1>3. \A n \in 0..k : n \in T
  <2> HIDE DEF T
  <2> QED
    BY <1>1, <1>2, Climb
<1> QED
  BY <1>3

LEMMA ChainUnique ==
    ASSUME NEW X, NEW x \in X, NEW k \in Nat, NEW step, NEW f, Chains(X, x, step, k, f),
           NEW m \in 0..k, NEW g, Chains(X, x, step, m, g)
    PROVE  \A n \in 0..m : g[n] = f[n]
<1> DEFINE T == {n \in 0..m : g[n] = f[n]}
<1>1. 0 \in T /\ m \in Nat
  BY DEF Chains
<1>2. ASSUME NEW n \in 1..m, n - 1 \in T PROVE n \in T
  BY <1>1, <1>2 DEF Chains
<1>3. \A n \in 0..m : n \in T
  <2> HIDE DEF T
  <2> QED
    BY <1>1, <1>2, Climb
<1> QED
  BY <1>3

(* Recursion without end: f starts with x and goes on as G says.           *)
Iterates(X, x, G, f) ==
    /\ f \in [Nat -> X]
    /\ f[0] = x
    /\ \A n \in Nat : f[n + 1] = G[f[n]]

LEMMA IterationExists ==
    ASSUME NEW X, NEW x \in X, NEW G \in [X -> X]
    PROVE  \E f : Iterates(X, x, G, f)
<1> DEFINE h(k) == [n \in 1..k |-> G]
           F(k) == CHOOSE f : Chains(X, x, h(k), k, f)
           f == [n \in Nat |-> F(n)[n]]
<1>1. ASSUME NEW k \in Nat
      PROVE  /\ F(k) \in [0..k -> X] /\ F(k)[0] = x
             /\ \A n \in 1..k : F(k)[n] = G[F(k)[n - 1]]
  <2>1. h(k) \in [1..k -> [X -> X]]
    OBVIOUS
  <2>2. Chains(X, x, h(k), k, F(k))
    <3> HIDE DEF h
    <3> QED
      BY <2>1, ChainExists
  <2>3. \A n \in 1..k : h(k)[n] = G
    OBVIOUS
  <2> HIDE DEF h, F
  <2> QED
    BY <2>2, <2>3 DEF Chains
<1>2. ASSUME NEW k \in Nat, NEW m \in 0..k PROVE F(k)[m] = F(m)[m]
  <2> DEFINE T == {n \in 0..m : F(k)[n] = F(m)[n]}
  <2>1. m \in Nat
    OBVIOUS
  <2> HIDE DEF h, F
  <2>2. 0 \in T
    BY <1>1, <2>1
  <2>3. ASSUME NEW n \in 1..m, n - 1 \in T PROVE n \in T
    BY <1>1, <2>1, <2>3
  <2>4. \A n \in 0..m : n \in T
    <3> HIDE DEF T
    <3> QED
      BY <2>1, <2>2, <2>3, Climb
  <2> QED
    BY <2>1, <2>4
<1> HIDE DEF F
<1>3. \A n \in Nat : f[n] = F(n)[n] /\ f[n] \in X
  BY <1>1
<1>4. ASSUME NEW n \in Nat PROVE f[n + 1] = G[f[n]]
  <2>1. /\ n + 1 \in Nat /\ n + 1 \in 1..n + 1 /\ n \in 0..n + 1
    OBVIOUS
  <2>2. F(n + 1)[n + 1] = G[F(n + 1)[n]]
    BY <1>1, <2>1
  <2>3. F(n + 1)[n] = F(n)[n]
    BY <1>2, <2>1
  <2> HIDE DEF f
  <2> QED
    BY <1>3, <2>1, <2>2, <2>3
<1>5. f[0] = x
  BY <1>1, <1>3
<1>6. f \in [Nat -> X]
  BY <1>1
<1> QED
  BY <1>4, <1>5, <1>6 DEF Iterates

(* A recursive definition over the naturals is such an iteration: what is  *)
(* chosen to satisfy its equation satisfies it.                            *)
LEMMA IterationIs ==
    ASSUME NEW X, NEW x \in X, NEW G \in [X -> X], NEW f,
           f = CHOOSE g : g = [n \in Nat |-> IF n = 0 THEN x ELSE G[g[n - 1]]]
    PROVE  Iterates(X, x, G, f)
<1>1. PICK e : Iterates(X, x, G, e)
  BY IterationExists
<1>2. e = [n \in Nat |-> IF n = 0 THEN x ELSE G[e[n - 1]]]
  <2>1. \A n \in Nat : n # 0 => n - 1 \in Nat /\ (n - 1) + 1 = n
    OBVIOUS
  <2>2. \A n \in Nat : n # 0 => e[n] = G[e[n - 1]]
    BY <1>1, <2>1 DEF Iterates
  <2> QED
    BY <1>1, <2>2 DEF Iterates
<1>3. f = [n \in Nat |-> IF n = 0 THEN x ELSE G[f[n - 1]]]
  BY <1>2
<1>4. f[0] = x
  BY <1>3
<1>5. ASSUME NEW n \in Nat PROVE f[n + 1] = G[f[n]]
  <2>1. n + 1 \in Nat /\ n + 1 # 0 /\ (n + 1) - 1 = n
    OBVIOUS
  <2>2. f[n + 1] = IF n + 1 = 0 THEN x ELSE G[f[(n + 1) - 1]]
    BY <1>3, <2>1
  <2> QED
    BY <2>1, <2>2
<1> DEFINE T == {n \in Nat : f[n] \in X}
<1>6. \A n \in Nat : n \in T
  <2>1. 0 \in T
    BY <1>4
  <2>2. \A n \in Nat : n \in T => n + 1 \in T
    BY <1>5
  <2> HIDE DEF T
  <2> QED
    BY <2>1, <2>2, ClimbAll
<1>7. f \in [Nat -> X]
  BY <1>3, <1>6
<1> QED
  BY <1>4, <1>5, <1>7 DEF Iterates

-----------------------------------------------------------------------------
(* A set that G makes grow inside D: after as many rounds as D has         *)
(* elements G adds nothing, and what contains the first set and is closed  *)
(* under G contains every round.                                           *)
Grows(D, x, G, f) ==
    /\ IsFiniteSet(D) /\ x \in SUBSET D /\ G \in [SUBSET D -> SUBSET D]
    /\ \A S \in SUBSET D : S \subseteq G[S]
    /\ Iterates(SUBSET D, x, G, f)

LEMMA GrowthCloses ==
    ASSUME NEW D, NEW x, NEW G, NEW f, Grows(D, x, G, f)
    PROVE  /\ f[Cardinality(D)] \in SUBSET D
           /\ x \subseteq f[Cardinality(D)]
           /\ G[f[Cardinality(D)]] = f[Cardinality(D)]
<1> DEFINE N == Cardinality(D)
           T == {n \in Nat : /\ x \subseteq f[n]
                             /\ G[f[n]] = f[n] \/ Cardinality(f[n]) >= n}
<1> USE DEF Grows
<1>1. N \in Nat
  BY FS_CardinalityType
<1>2. \A n \in Nat : f[n] \in SUBSET D /\ IsFiniteSet(f[n]) /\ Cardinality(f[n]) \in Nat
  BY FS_Subset, FS_CardinalityType DEF Iterates
<1>3. 0 \in T
  BY <1>2 DEF Iterates
<1>4. ASSUME NEW n \in Nat, n \in T PROVE n + 1 \in T
  <2>1. f[n + 1] = G[f[n]] /\ n + 1 \in Nat /\ f[n] \subseteq f[n + 1]
    BY <1>2 DEF Iterates
  <2>2. x \subseteq f[n + 1]
    BY <1>4, <2>1
  <2>3. CASE G[f[n]] = f[n]
    BY <2>1, <2>2, <2>3
  <2>4. CASE G[f[n]] # f[n]
    <3>1. Cardinality(f[n]) >= n
      BY <1>4, <2>4
    <3>2. Cardinality(f[n]) <= Cardinality(f[n + 1]) /\ Cardinality(f[n]) # Cardinality(f[n + 1])
      BY <1>2, <2>1, <2>4, FS_Subset
    <3>3. Cardinality(f[n + 1]) >= n + 1
      BY <1>2, <2>1, <3>1, <3>2
    <3> QED
      BY <2>1, <2>2, <3>3
  <2> QED
    BY <2>3, <2>4
<1>5. N \in T
  <2>1. \A n \in Nat : n \in T
    <3> HIDE DEF T
    <3> QED
      BY <1>3, <1>4, ClimbAll
  <2> QED
    BY <1>1, <2>1
<1>6. CASE Cardinality(f[N]) >= N
  <2>1. f[N] = D
    BY <1>1, <1>2, <1>6, FS_Subset
  <2>2. G[f[N]] \in SUBSET D /\ f[N] \subseteq G[f[N]]
    BY <1>1, <1>2
  <2> QED
    BY <1>5, <2>1, <2>2
<1> QED
  BY <1>1, <1>2, <1>5, <1>6

LEMMA GrowthLeast ==
    ASSUME NEW X, NEW x, NEW G, NEW f, Iterates(X, x, G, f),
           NEW C, x \subseteq C, \A S \in X : S \subseteq C => G[S] \subseteq C
    PROVE  \A n \in Nat : f[n] \subseteq C
<1> DEFINE T == {n \in Nat : f[n] \subseteq C}
<1>1. 0 \in T
  BY DEF Iterates
<1>2. ASSUME NEW n \in Nat, n \in T PROVE n + 1 \in T
  BY <1>2 DEF Iterates
<1>3. \A n \in Nat : n \in T
  <2> HIDE DEF T
  <2> QED
    BY <1>1, <1>2, ClimbAll
<1> QED
  BY <1>3
=============================================================================
