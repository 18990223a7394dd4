---------------------------- MODULE EngineProofs ----------------------------
(***************************************************************************)
(* Proofs about Engine, and about what its readers are told                *)
(* (EngineQueries), for every set of facts and every scale of confidence   *)
(* that the assumptions of Engine admit.                                   *)
(***************************************************************************)
EXTENDS EngineQueries, RecursionLemmas

-----------------------------------------------------------------------------
(* Least and greatest statuses                                             *)

(* The minimum the code computes over a set of confidences is in the set.  *)
LEMMA LeastOfMember ==
    ASSUME NEW S, S \subseteq Nat, S # {}
    PROVE  LeastOf(S) \in S /\ \A y \in S : LeastOf(S) <= y
BY LeastNatural DEF LeastOf

(* The maximum the code computes over a set of confidences is in the set.  *)
LEMMA GreatestOfMember ==
    ASSUME NEW S, NEW n \in Nat, S \subseteq 0..n, S # {}
    PROVE  GreatestOf(S) \in S /\ \A y \in S : GreatestOf(S) >= y
<1> DEFINE T == {n - x : x \in S}
<1>1. T \subseteq Nat /\ T # {}
  <2>1. PICK x \in S : TRUE
    OBVIOUS
  <2>2. n - x \in T
    BY <2>1
  <2>3. QED
    BY <2>2
<1>2. PICK y \in T : \A z \in T : y <= z
    BY <1>1, LeastNatural
<1>3. PICK x \in S : y = n - x
    OBVIOUS
<1>4. \A z \in S : x >= z
  <2> TAKE z \in S
  <2>1. n - x <= n - z
    BY <1>2, <1>3
  <2>2. x \in 0..n /\ z \in 0..n
    OBVIOUS
  <2>3. QED
    BY <2>1, <2>2
<1>5. QED
    BY <1>4 DEF GreatestOf

-----------------------------------------------------------------------------
(* Types                                                                   *)

(* The identifier of a justification set: a derived fact and one of its    *)
(* sets of tokens.                                                         *)
LEMMA JSetIdType ==
    ASSUME TypeOK, NEW j \in JSetIds
    PROVE  /\ j[1] \in Registered
           /\ j[1] \in FactId
           /\ ~ body[j[1]].isRoot
           /\ j[2] \in body[j[1]].sets
           /\ j[2] \subseteq Token
           /\ ParentIds(j[2]) \subseteq FactId
<1>1. PICK f \in Registered : ~ body[f].isRoot /\ j \in {f} \X body[f].sets
    BY DEF JSetIds
<1>2. j[1] = f /\ j[2] \in body[f].sets
    BY <1>1
<1>3. body[f] \in Fact
    BY <1>1 DEF TypeOK
<1>4. body[f].sets \subseteq SUBSET Token
    BY <1>3, FactAssumption DEF FactType
<1>5. j[2] \subseteq Token
    BY <1>2, <1>4
<1>6. ParentIds(j[2]) \subseteq FactId
    BY <1>5 DEF ParentIds, Token
<1>7. QED
    BY <1>1, <1>2, <1>5, <1>6 DEF TypeOK

(* There are finitely many tokens, and so every set of justification sets  *)
(* is finite.                                                              *)
LEMMA TokenFinite == IsFiniteSet(Token)
<1> DEFINE F == [t \in Token |-> <<t.id, t.neg>>]
<1>1. IsFiniteSet(BOOLEAN)
  <2>1. IsFiniteSet({TRUE}) /\ IsFiniteSet({FALSE})
    BY FS_Singleton, Zenon
  <2>2. IsFiniteSet({TRUE} \cup {FALSE})
    BY <2>1, FS_Union, Zenon
  <2>3. BOOLEAN = {TRUE} \cup {FALSE}
    BY Zenon
  <2>4. QED
    BY <2>2, <2>3, Zenon
<1>2. IsFiniteSet(FactId \X BOOLEAN)
    BY <1>1, FS_Product, FactIdAssumption, Zenon
<1>3. F \in Injection(Token, FactId \X BOOLEAN)
  <2>1. F \in [Token -> FactId \X BOOLEAN]
    BY DEF Token
  <2>2. ASSUME NEW t \in Token, NEW u \in Token, F[t] = F[u]
        PROVE  t = u
    BY <2>2 DEF Token
  <2>3. QED
    BY <2>1, <2>2 DEF Injection, IsInjective
<1>4. QED
    BY <1>2, <1>3, FS_Injection, Zenon

(* The state computeJustificationSetParentsUnsafe yields is well typed.    *)
LEMMA SetStateType ==
    ASSUME NEW facts, NEW child, NEW s \in SUBSET Token, NEW view, NEW ver,
           NEW old,
           \A t \in s : view[t.id] \in Status
    PROVE  JustificationSetState(facts, child, s, view, ver, old)
              \in [valid : Nat, conf : Status]
<1> DEFINE sat(t) == DependencySatisfied(facts, child, t, view[t.id], ver, old)
           C == {Valid} \cup {DependencyConfidence(view[t.id], t.neg) : t \in s}
           V == {t \in s : sat(t)}
<1>1. Cardinality(V) \in Nat
  <2>1. V \in SUBSET Token
    OBVIOUS
  <2>2. IsFiniteSet(V)
    BY <2>1, TokenFinite, FS_Subset, Zenon
  <2>3. QED
    BY <2>2, FS_CardinalityType, Zenon
<1>2. C \subseteq Status
    BY StatusAssumption DEF DependencyConfidence
<1>3. LeastOf(C) \in Status
  <2>1. Valid \in C
    OBVIOUS
  <2> HIDE DEF C
  <2>2. C \subseteq Nat /\ C # {}
    BY <1>2, <2>1, StatusAssumption
  <2>3. QED
    BY <1>2, <2>2, LeastOfMember, Zenon
<1> HIDE DEF sat, C, V
<1>4. JustificationSetState(facts, child, s, view, ver, old)
        = [valid |-> Cardinality(V),
           conf |-> IF \A t \in s : sat(t) THEN LeastOf(C) ELSE Invalid]
    BY DEF JustificationSetState, sat, C, V
<1>5. QED
    BY <1>1, <1>3, <1>4, StatusAssumption

(* Two computations that agree on every parent agree.                      *)
LEMMA SetStateAgrees ==
    ASSUME NEW facts1, NEW facts2, NEW child, NEW s, NEW v1, NEW v2,
           NEW ver1, NEW ver2, NEW old1, NEW old2,
           \A t \in s : v1[t.id] = v2[t.id],
           \A t \in s : DependencySatisfied(facts1, child, t, v1[t.id], ver1, old1)
                    <=> DependencySatisfied(facts2, child, t, v2[t.id], ver2, old2)
    PROVE  JustificationSetState(facts1, child, s, v1, ver1, old1)
             = JustificationSetState(facts2, child, s, v2, ver2, old2)
<1> DEFINE sat1(t) == DependencySatisfied(facts1, child, t, v1[t.id], ver1, old1)
           sat2(t) == DependencySatisfied(facts2, child, t, v2[t.id], ver2, old2)
           C1 == {DependencyConfidence(v1[t.id], t.neg) : t \in s}
           C2 == {DependencyConfidence(v2[t.id], t.neg) : t \in s}
<1>1. {t \in s : sat1(t)} = {t \in s : sat2(t)}
    BY Zenon
<1>2. (\A t \in s : sat1(t)) <=> (\A t \in s : sat2(t))
    BY Zenon
<1>3. C1 = C2
  <2>1. \A t \in s : DependencyConfidence(v1[t.id], t.neg)
                   = DependencyConfidence(v2[t.id], t.neg)
    BY DEF DependencyConfidence
  <2>2. QED
    BY <2>1, Zenon
<1> DEFINE n1 == Cardinality({t \in s : sat1(t)})
           n2 == Cardinality({t \in s : sat2(t)})
           c1 == IF \A t \in s : sat1(t) THEN LeastOf({Valid} \cup C1) ELSE Invalid
           c2 == IF \A t \in s : sat2(t) THEN LeastOf({Valid} \cup C2) ELSE Invalid
<1>4. /\ JustificationSetState(facts1, child, s, v1, ver1, old1)
            = [valid |-> n1, conf |-> c1]
      /\ JustificationSetState(facts2, child, s, v2, ver2, old2)
            = [valid |-> n2, conf |-> c2]
    BY Zenon DEF JustificationSetState
<1> HIDE DEF sat1, sat2, C1, C2
<1>5. n1 = n2
    BY <1>1, Zenon
<1>6. c1 = c2
    BY <1>2, <1>3, Zenon
<1> HIDE DEF n1, n2, c1, c2
<1>7. QED
    BY <1>4, <1>5, <1>6, Zenon

(* What readers and the propagation see of a parent is a status.           *)
LEMMA EffectiveStatusType ==
    ASSUME TypeOK, NEW f \in FactId, NEW d \in [FactId -> Status]
    PROVE  EffectiveStatus(f, d) \in Status
BY StatusAssumption DEF TypeOK, EffectiveStatus

(* So is what a justification set computes from them.                      *)
LEMMA ComputeType ==
    ASSUME TypeOK, NEW child, NEW s \in SUBSET Token,
           NEW d \in [FactId -> Status], NEW ver
    PROVE  Compute(child, s, d, ver) \in [valid : Nat, conf : Status]
<1> DEFINE view == [p \in ParentIds(s) |-> EffectiveStatus(p, d)]
<1>1. \A t \in s : view[t.id] \in Status
  <2> TAKE t \in s
  <2>1. t.id \in ParentIds(s) /\ t.id \in FactId
    BY DEF ParentIds, Token
  <2>2. QED
    BY <2>1, EffectiveStatusType
<1> HIDE DEF view
<1>2. JustificationSetState(body, child, s, view, ver, aged)
        \in [valid : Nat, conf : Status]
    BY <1>1, SetStateType
<1>3. QED
    BY <1>2 DEF Compute, view

(* The status propagate computes for a fact.                               *)
LEMMA NewStatusType ==
    ASSUME TypeOK, NEW f \in Registered
    PROVE  NewStatus(f) \in Status
<1> DEFINE C == {Invalid} \cup
                  {c \in {jset[j].conf : j \in {k \in DOMAIN jset : k[1] = f}} :
                     c >= Threshold}
<1>1. C \subseteq Status /\ C # {}
  <2>1. \A j \in DOMAIN jset : jset[j].conf \in Status
    BY DEF TypeOK
  <2>2. Invalid \in C
    OBVIOUS
  <2>3. QED
    BY <2>1, <2>2, StatusAssumption
<1>2. GreatestOf(C) \in Status
  <2> HIDE DEF C
  <2>1. C \subseteq 0..Valid /\ Valid \in Nat
    BY <1>1, StatusAssumption
  <2>2. QED
    BY <1>1, <2>1, GreatestOfMember
<1>3. manual[f] \in Status
    BY DEF TypeOK
<1> HIDE DEF C
<1>4. NewStatus(f) = IF f \in retracted THEN Invalid
                     ELSE IF body[f].isRoot THEN manual[f] ELSE GreatestOf(C)
    BY DEF NewStatus, C
<1>5. QED
    BY <1>2, <1>3, <1>4, StatusAssumption

-----------------------------------------------------------------------------
(* The work queue                                                          *)

(* The identifiers of justification sets are finitely many.                *)
LEMMA JSetIdsFinite ==
    ASSUME TypeOK
    PROVE  IsFiniteSet(JSetIds)
<1>1. IsFiniteSet(FactId \X SUBSET Token)
    BY TokenFinite, FS_SUBSET, FS_Product, FactIdAssumption, Zenon
<1>2. JSetIds \subseteq FactId \X SUBSET Token
  <2> SUFFICES ASSUME NEW j \in JSetIds
               PROVE  j \in FactId \X SUBSET Token
    OBVIOUS
  <2>1. j[1] \in FactId /\ j[2] \subseteq Token
    BY JSetIdType
  <2>2. j = <<j[1], j[2]>>
    BY DEF JSetIds
  <2>3. QED
    BY <2>1, <2>2
<1>3. QED
    BY <1>1, <1>2, FS_Subset, Zenon

(* The effect of the loop over ChildrenIndex[p]: the sets p occurs in are  *)
(* recomputed, the rest stay, and the child of every set that changed is   *)
(* on the queue, behind what was there before.                             *)
LEMMA RecomputeChildrenEffect ==
    ASSUME TypeOK, NEW p, NEW d \in [FactId -> Status], NEW ver,
           NEW q \in Seq(Registered), RecomputeChildren(p, d, ver, q)
    PROVE  /\ jset' \in [JSetIds -> [valid : Nat, conf : Status]]
           /\ \A j \in JSetIds :
                 jset'[j] = IF p \in ParentIds(j[2])
                            THEN Compute(body[j[1]], j[2], d, ver)
                            ELSE jset[j]
           /\ queue' \in Seq(Registered)
           /\ \A i \in DOMAIN q : \E k \in DOMAIN queue' : queue'[k] = q[i]
           /\ \A j \in JSetIds : jset'[j] # jset[j] =>
                 \E k \in DOMAIN queue' : queue'[k] = j[1]
<1> DEFINE new(j) == Compute(body[j[1]], j[2], d, ver)
           changed == {j \in ChildrenIndex(p) : new(j) # jset[j]}
<1>1. DOMAIN jset = JSetIds
    BY DEF TypeOK
<1>2. ChildrenIndex(p) = {j \in JSetIds : p \in ParentIds(j[2])}
    BY <1>1 DEF ChildrenIndex
<1>3. /\ jset' = [j \in JSetIds |->
                    IF j \in ChildrenIndex(p) THEN new(j) ELSE jset[j]]
      /\ \E order \in Orders(changed) :
            queue' = q \o [i \in DOMAIN order |-> order[i][1]]
    BY <1>1, Zenon DEF RecomputeChildren
<1>4. \A j \in JSetIds : new(j) \in [valid : Nat, conf : Status]
    BY JSetIdType, ComputeType
<1>5. IsFiniteSet(changed) /\ Cardinality(changed) \in Nat
  <2>1. changed \in SUBSET JSetIds
    BY <1>2
  <2>2. QED
    BY <2>1, JSetIdsFinite, FS_Subset, FS_CardinalityType, Zenon
<1>6. \A j \in changed : j[1] \in Registered
    BY <1>2, JSetIdType
<1> HIDE DEF new, changed
<1>7. PICK order \in Orders(changed) :
            queue' = q \o [i \in DOMAIN order |-> order[i][1]]
    BY <1>3
<1> DEFINE r == [i \in DOMAIN order |-> order[i][1]]
<1>8. /\ order \in [1..Cardinality(changed) -> changed]
      /\ \A x \in changed : \E i \in DOMAIN order : order[i] = x
    BY <1>7 DEF Orders
<1>9. /\ r \in Seq(Registered)
      /\ \A x \in changed : \E i \in DOMAIN r : r[i] = x[1]
  <2>1. r \in [1..Cardinality(changed) -> Registered]
    BY <1>6, <1>8
  <2>2. r \in Seq(Registered)
    BY <1>5, <2>1
  <2>3. \A x \in changed : \E i \in DOMAIN r : r[i] = x[1]
    BY <1>8
  <2>4. QED
    BY <2>2, <2>3
<1> HIDE DEF r
<1>10. queue' = q \o r
    BY <1>7 DEF r
<1>11. queue' \in Seq(Registered)
    BY <1>9, <1>10
<1>12. \A i \in DOMAIN q : \E k \in DOMAIN queue' : queue'[k] = q[i]
  <2> TAKE i \in DOMAIN q
  <2>1. i \in DOMAIN queue' /\ queue'[i] = q[i]
    BY <1>9, <1>10
  <2>2. QED
    BY <2>1
<1>13. \A x \in changed : \E k \in DOMAIN queue' : queue'[k] = x[1]
  <2> TAKE x \in changed
  <2>1. PICK i \in DOMAIN r : r[i] = x[1]
    BY <1>9
  <2>2. Len(q) + i \in DOMAIN queue' /\ queue'[Len(q) + i] = r[i]
    BY <1>9, <1>10
  <2>3. QED
    BY <2>1, <2>2
<1>14. \A j \in JSetIds : jset'[j] # jset[j] => j \in changed
    BY <1>3 DEF changed
<1>15. QED
  <2>1. jset' \in [JSetIds -> [valid : Nat, conf : Status]]
    BY <1>3, <1>4 DEF TypeOK
  <2>2. \A j \in JSetIds : jset'[j] = IF p \in ParentIds(j[2])
                            THEN Compute(body[j[1]], j[2], d, ver)
                            ELSE jset[j]
    BY <1>2, <1>3 DEF new
  <2>3. QED
    BY <1>11, <1>12, <1>13, <1>14, <2>1, <2>2

-----------------------------------------------------------------------------
(* Type correctness                                                        *)

(* AssertFact, which registers a fact and computes its first status,       *)
(* preserves the types.                                                    *)
LEMMA AssertFactType ==
    ASSUME TypeOK, NEW f \in Fact, AssertFact(f)
    PROVE  TypeOK'
<1>1. FactType(f)
    BY FactAssumption
<1>2. /\ body' = [g \in Registered \cup {f.id} |-> IF g = f.id THEN f ELSE body[g]]
      /\ f.id \notin Registered
      /\ \A s \in f.sets : s # {} /\ ParentIds(s) \subseteq Registered
      /\ queue' = <<f.id>> /\ sweep = {} /\ sweep' = sweep
      /\ retracted' = retracted /\ expired' = expired /\ aged' = aged
      /\ manual' = [manual EXCEPT ![f.id] = f.manual]
      /\ verified' = IF f.verified THEN verified \cup {f.id} ELSE verified
    BY DEF AssertFact, ValidateAssertFact, RegisterFact, Locked, clockVars
<1>3. /\ Registered' = Registered \cup {f.id}
      /\ Registered' \subseteq FactId
      /\ body' \in [Registered' -> Fact]
      /\ \A g \in Registered' : body'[g].id = g
    BY <1>1, <1>2 DEF TypeOK, Registered, FactType
<1>4. manual' \in [FactId -> Status]
    BY <1>1, <1>2 DEF TypeOK, FactType
<1>5. /\ verified' \subseteq Registered'
      /\ retracted' \subseteq Registered'
      /\ expired' \subseteq Registered'
      /\ aged' \subseteq Registered'
      /\ queue' \in Seq(Registered')
      /\ sweep' \subseteq retracted'
    BY <1>2, <1>3 DEF TypeOK
<1>6. JSetIds' = JSetIds \cup (IF f.isRoot THEN {} ELSE {f.id} \X f.sets)
  <2>1. JSetIds' = UNION {{g} \X body'[g].sets :
                           g \in {h \in Registered' : ~ body'[h].isRoot}}
    BY DEF JSetIds, Registered
  <2>2. \A g \in Registered : g \in Registered' /\ body'[g] = body[g]
    BY <1>2, <1>3
  <2>3. f.id \in Registered' /\ body'[f.id] = f
    BY <1>2, <1>3
  <2>4. QED
    BY <1>3, <2>1, <2>2, <2>3 DEF JSetIds
<1>7. CASE f.isRoot
  <2>1. /\ derived' = [derived EXCEPT ![f.id] = f.manual]
        /\ collapsed' = IF f.manual < Threshold THEN collapsed \cup {f.id}
                                                ELSE collapsed
        /\ jset' = jset
    BY <1>7 DEF AssertFact, InitializeRootFact
  <2>2. derived' \in [FactId -> Status] /\ collapsed' \subseteq FactId
    BY <1>1, <2>1 DEF TypeOK, FactType
  <2>3. jset' \in [JSetIds' -> [valid : Nat, conf : Status]]
    BY <1>6, <1>7, <2>1 DEF TypeOK
  <2>4. QED
    BY <1>3, <1>4, <1>5, <2>2, <2>3 DEF TypeOK
<1>8. CASE ~ f.isRoot
  <2>1. /\ derived' = [derived EXCEPT ![f.id] = Invalid]
        /\ jset' = [j \in DOMAIN jset \cup ({f.id} \X f.sets) |->
                      IF j \in DOMAIN jset THEN jset[j]
                      ELSE Compute(f, j[2], derived, verified)]
        /\ collapsed' = collapsed
    BY <1>8, Zenon DEF AssertFact, InitializeDerivedFact
  <2>2. derived' \in [FactId -> Status] /\ collapsed' \subseteq FactId
    BY <2>1, StatusAssumption DEF TypeOK
  <2>3. DOMAIN jset = JSetIds
    BY DEF TypeOK
  <2>4. \A j \in {f.id} \X f.sets :
            Compute(f, j[2], derived, verified) \in [valid : Nat, conf : Status]
    <3> TAKE j \in {f.id} \X f.sets
    <3>1. j[2] \in SUBSET Token
      BY <1>1 DEF FactType
    <3>2. derived \in [FactId -> Status]
      BY DEF TypeOK
    <3>3. QED
      BY <3>1, <3>2, ComputeType
  <2>5. jset' \in [JSetIds' -> [valid : Nat, conf : Status]]
    BY <1>6, <1>8, <2>1, <2>3, <2>4 DEF TypeOK
  <2>6. QED
    BY <1>3, <1>4, <1>5, <2>2, <2>5 DEF TypeOK
<1>9. QED
    BY <1>7, <1>8

(* Every step of the engine preserves the types.                           *)
LEMMA TypeStep ==
    ASSUME TypeOK, [Next]_vars
    PROVE  TypeOK'
<1>1. ASSUME NEW f \in Fact, AssertFact(f)
      PROVE  TypeOK'
    BY <1>1, AssertFactType
<1>2. ASSUME UNCHANGED body
      PROVE  JSetIds' = JSetIds /\ Registered' = Registered
    BY <1>2 DEF JSetIds, Registered
<1>3. ASSUME NEW f \in FactId, InvalidateRoot(f)
      PROVE  TypeOK'
  <2>1. UNCHANGED <<body, derived, jset, retracted, verified, expired, aged, sweep>>
    BY <1>3 DEF InvalidateRoot, clockVars
  <2>2. manual' \in [FactId -> Status] /\ collapsed' \subseteq FactId
    BY <1>3, StatusAssumption DEF InvalidateRoot, TypeOK
  <2>3. queue' \in Seq(Registered)
    BY <1>3 DEF InvalidateRoot
  <2>4. QED
    BY <1>2, <2>1, <2>2, <2>3 DEF TypeOK
<1>4. ASSUME NEW f \in FactId, NEW s \in Status, SetRootConfidence(f, s)
      PROVE  TypeOK'
  <2>1. UNCHANGED <<body, derived, jset, retracted, verified, expired, aged, sweep>>
    BY <1>4 DEF SetRootConfidence, clockVars
  <2>2. manual' \in [FactId -> Status] /\ collapsed' \subseteq FactId
    BY <1>4 DEF SetRootConfidence, TypeOK
  <2>3. queue' \in Seq(Registered)
    BY <1>4 DEF SetRootConfidence
  <2>4. QED
    BY <1>2, <2>1, <2>2, <2>3 DEF TypeOK
<1>5. ASSUME NEW f \in FactId, RetractFact(f)
      PROVE  TypeOK'
  <2>1. UNCHANGED <<body, manual, derived, jset, collapsed, verified, expired,
                    aged, sweep>>
    BY <1>5 DEF RetractFact, clockVars
  <2>2. retracted' \subseteq Registered /\ sweep \subseteq retracted'
    BY <1>5 DEF RetractFact, TypeOK
  <2>3. queue' \in Seq(Registered)
    BY <1>5 DEF RetractFact
  <2>4. QED
    BY <1>2, <2>1, <2>2, <2>3 DEF TypeOK
<1>6. ASSUME NEW f \in FactId, NEW ver \in BOOLEAN, SetFactVerification(f, ver)
      PROVE  TypeOK'
  <2>1. UNCHANGED <<body, manual, derived, collapsed, retracted, expired, aged,
                    sweep>>
    BY <1>6 DEF SetFactVerification, clockVars
  <2>2. verified' \subseteq Registered
    BY <1>6 DEF SetFactVerification, TypeOK
  <2>3. RecomputeChildren(f, derived, verified', <<>>)
    BY <1>6 DEF SetFactVerification
  <2>4. /\ jset' \in [JSetIds -> [valid : Nat, conf : Status]]
        /\ queue' \in Seq(Registered)
    <3>1. derived \in [FactId -> Status] /\ <<>> \in Seq(Registered)
      BY DEF TypeOK
    <3>2. QED
      BY <2>3, <3>1, RecomputeChildrenEffect
  <2>5. QED
    BY <1>2, <2>1, <2>2, <2>4 DEF TypeOK
<1>7. ASSUME SweepExpiredFacts \/ SweepNext
      PROVE  TypeOK'
  <2>1. UNCHANGED <<body, manual, derived, jset, collapsed, verified, expired, aged>>
    BY <1>7 DEF SweepExpiredFacts, SweepNext, clockVars
  <2>2. CASE SweepExpiredFacts
    <3>1. /\ retracted' \subseteq Registered
          /\ sweep' \subseteq retracted'
          /\ queue' = queue
      BY <2>2 DEF SweepExpiredFacts, TypeOK
    <3>2. QED
      BY <1>2, <2>1, <3>1 DEF TypeOK
  <2>3. CASE SweepNext
    <3>1. /\ queue' \in Seq(Registered)
          /\ sweep' \subseteq retracted
          /\ retracted' = retracted
      BY <2>3 DEF SweepNext, TypeOK
    <3>2. QED
      BY <1>2, <2>1, <3>1 DEF TypeOK
  <2>4. QED
    BY <1>7, <2>2, <2>3
<1>8. ASSUME Propagate
      PROVE  TypeOK'
  <2> DEFINE f == Head(queue)
  <2>1. UNCHANGED <<body, manual, collapsed, retracted, verified, expired, aged,
                    sweep>>
    BY <1>8 DEF Propagate, clockVars
  <2>2. f \in Registered /\ Tail(queue) \in Seq(Registered)
    BY <1>8 DEF Propagate, TypeOK
  <2>3. NewStatus(f) \in Status
    BY <2>2, NewStatusType
  <2>4. derived' = [derived EXCEPT ![f] = NewStatus(f)]
    BY <1>8 DEF Propagate
  <2>5. derived' \in [FactId -> Status]
    BY <2>3, <2>4 DEF TypeOK
  <2>6. /\ jset' \in [JSetIds -> [valid : Nat, conf : Status]]
        /\ queue' \in Seq(Registered)
    <3>1. CASE NewStatus(f) = derived[f]
      BY <1>8, <2>2, <3>1 DEF Propagate, TypeOK
    <3>2. CASE NewStatus(f) # derived[f]
      <4>1. RecomputeChildren(f, derived', verified, Tail(queue))
        BY <1>8, <3>2 DEF Propagate
      <4>2. QED
        BY <2>2, <2>5, <4>1, RecomputeChildrenEffect
    <3>3. QED
      BY <3>1, <3>2
  <2>7. QED
    BY <1>2, <2>1, <2>5, <2>6 DEF TypeOK
<1>9. ASSUME NEW f \in FactId, Expire(f) \/ Age(f)
      PROVE  TypeOK'
  <2>1. /\ UNCHANGED <<body, manual, derived, jset, collapsed, retracted, verified,
                       queue, sweep>>
        /\ expired' \subseteq Registered
        /\ aged' \subseteq Registered
    BY <1>9 DEF Expire, Age, lockVars, TypeOK
  <2>2. QED
    BY <1>2, <2>1 DEF TypeOK
<1>10. ASSUME UNCHANGED vars
       PROVE  TypeOK'
    BY <1>2, <1>10 DEF TypeOK, vars
<1>11. QED
    BY <1>1, <1>3, <1>4, <1>5, <1>6, <1>7, <1>8, <1>9, <1>10, MaxFactsAssumption
    DEF Next

(* Type correctness of the engine.                                         *)
THEOREM TypeCorrect == Spec => []TypeOK
<1>1. Init => TypeOK
    BY StatusAssumption DEF Init, TypeOK, Registered, JSetIds
<1>2. TypeOK /\ [Next]_vars => TypeOK'
    BY TypeStep
<1>3. QED
    BY <1>1, <1>2, PTL DEF Spec

-----------------------------------------------------------------------------
(* The graph                                                               *)

(* Only an assertion changes the graph.                                    *)
LEMMA GraphStep ==
    ASSUME [Next]_vars, ~ \E f \in Fact : AssertFact(f)
    PROVE  UNCHANGED body
BY DEF Next, vars, InvalidateRoot, SetRootConfidence, RetractFact,
       SetFactVerification, Expire, Age, SweepExpiredFacts, SweepNext, Propagate

(* What an assertion does to the graph: it adds the fact, and its          *)
(* justification sets if it is derived, and nothing else changes.          *)
LEMMA AssertFactGraph ==
    ASSUME TypeOK, TypeOK', NEW f \in Fact, AssertFact(f)
    PROVE  /\ f.id \notin Registered
           /\ Registered' = Registered \cup {f.id}
           /\ body'[f.id] = f
           /\ \A g \in Registered : body'[g] = body[g]
           /\ DOMAIN jset' = DOMAIN jset \cup
                 (IF f.isRoot THEN {} ELSE {f.id} \X f.sets)
           /\ \A j \in DOMAIN jset : j[1] \in Registered /\ j[1] # f.id
           /\ \A s \in f.sets : s # {} /\ ParentIds(s) \subseteq Registered
<1>1. /\ body' = [g \in Registered \cup {f.id} |-> IF g = f.id THEN f ELSE body[g]]
      /\ f.id \notin Registered
      /\ \A s \in f.sets : s # {} /\ ParentIds(s) \subseteq Registered
    BY DEF AssertFact, ValidateAssertFact, RegisterFact
<1>2. DOMAIN jset' = DOMAIN jset \cup (IF f.isRoot THEN {} ELSE {f.id} \X f.sets)
  <2>1. CASE f.isRoot
    BY <2>1 DEF AssertFact, InitializeRootFact
  <2>2. CASE ~ f.isRoot
    <3>1. jset' = [j \in DOMAIN jset \cup ({f.id} \X f.sets) |->
                      IF j \in DOMAIN jset THEN jset[j]
                      ELSE Compute(f, j[2], derived, verified)]
      BY <2>2, Zenon DEF AssertFact, InitializeDerivedFact
    <3>2. QED
      BY <2>2, <3>1
  <2>3. QED
    BY <2>1, <2>2
<1>3. \A j \in DOMAIN jset : j[1] \in Registered /\ j[1] # f.id
  <2>1. DOMAIN jset = JSetIds
    BY DEF TypeOK
  <2>2. QED
    BY <1>1, <2>1, JSetIdType
<1>4. Registered' = Registered \cup {f.id}
    BY <1>1 DEF Registered
<1>5. QED
    BY <1>1, <1>2, <1>3, <1>4

(* The graph stays acyclic.  The parents of a new fact are registered      *)
(* before it, so it closes no cycle: the guard on unknown parents already  *)
(* excludes what detectCycle looks for.                                    *)
LEMMA AcyclicStep ==
    ASSUME TypeOK, TypeOK', Acyclic, [Next]_vars
    PROVE  Acyclic'
<1>1. CASE \E f \in Fact : AssertFact(f)
  <2>1. PICK f \in Fact : AssertFact(f)
    BY <1>1
  <2>2. /\ f.id \notin Registered
        /\ Registered' = Registered \cup {f.id}
        /\ DOMAIN jset' = DOMAIN jset \cup
              (IF f.isRoot THEN {} ELSE {f.id} \X f.sets)
        /\ \A j \in DOMAIN jset : j[1] \in Registered /\ j[1] # f.id
        /\ \A s \in f.sets : ParentIds(s) \subseteq Registered
    BY <2>1, AssertFactGraph
  <2>3. \A g \in Registered : Parents(g)' = Parents(g)
    <3> TAKE g \in Registered
    <3>1. {k \in DOMAIN jset' : k[1] = g} = {k \in DOMAIN jset : k[1] = g}
      BY <2>2
    <3>2. QED
      BY <3>1 DEF Parents
  <2>4. Parents(f.id)' \subseteq Registered
    <3>1. \A k \in DOMAIN jset' : k[1] = f.id => ParentIds(k[2]) \subseteq Registered
      BY <2>2
    <3>2. QED
      BY <3>1 DEF Parents
  <2>5. \A g \in Registered' : Parents(g)' \subseteq Registered
    BY <2>2, <2>3, <2>4 DEF Acyclic
  <2>6. ASSUME NEW S \in SUBSET Registered', S # {}
        PROVE  \E g \in S : Parents(g)' \cap S = {}
    <3>1. CASE S \cap Registered = {}
      <4>1. f.id \in S /\ Parents(f.id)' \cap S = {}
        BY <2>2, <2>4, <2>6, <3>1
      <4>2. QED
        BY <4>1
    <3>2. CASE S \cap Registered # {}
      <4>1. PICK g \in S \cap Registered : Parents(g) \cap (S \cap Registered) = {}
        BY <3>2 DEF Acyclic
      <4>2. Parents(g)' \cap S = {}
        BY <2>3, <2>5, <4>1, <2>2
      <4>3. QED
        BY <4>1, <4>2
    <3>3. QED
      BY <3>1, <3>2
  <2>7. QED
    BY <2>2, <2>5, <2>6 DEF Acyclic
<1>2. CASE ~ \E f \in Fact : AssertFact(f)
  <2>1. body' = body
    BY <1>2, GraphStep
  <2>2. Registered' = Registered /\ DOMAIN jset' = DOMAIN jset
    BY <2>1 DEF TypeOK, Registered, JSetIds
  <2>3. \A g : Parents(g)' = Parents(g)
    BY <2>2 DEF Parents
  <2>4. QED
    BY <2>2, <2>3 DEF Acyclic
<1>3. QED
    BY <1>1, <1>2

(* No sequence of operations makes a justification circular.               *)
THEOREM GraphAcyclic == Spec => []Acyclic
<1>1. Init => Acyclic
    BY DEF Init, Acyclic, Registered, Parents
<1>2. TypeOK /\ TypeOK' /\ Acyclic /\ [Next]_vars => Acyclic'
    BY AcyclicStep
<1>3. QED
    BY <1>1, <1>2, TypeCorrect, PTL DEF Spec

(* detectCycle never has anything to report when a fact is asserted: an    *)
(* unregistered id is reachable from no registered parent.                 *)
THEOREM AssertNeverCycles ==
    ASSUME TypeOK, NEW f \in Fact, f.id \notin Registered,
           \A s \in f.sets : ParentIds(s) \subseteq Registered
    PROVE  ~ DetectCycle(f)
<1>1. SUFFICES ASSUME NEW s \in f.sets, NEW t \in s, Reachable(t.id, f.id)
               PROVE  FALSE
    BY DEF DetectCycle
<1>2. t.id \in Registered
    BY DEF ParentIds
<1>3. \A j \in DOMAIN jset : j[1] \in Registered
  <2>1. DOMAIN jset = JSetIds
    BY DEF TypeOK
  <2>2. QED
    BY <2>1, JSetIdType
<1>4. f.id \in Registered
    BY <1>1, <1>2, <1>3 DEF Reachable
<1>5. QED
    BY <1>4

(* CollapsedRoots holds exactly the roots below the threshold.             *)
THEOREM CollapsedRootsExact == Spec => []CollapsedExact
<1>1. Init => CollapsedExact
    BY DEF Init, CollapsedExact, Registered
<1>2. ASSUME TypeOK, TypeOK', CollapsedExact, [Next]_vars
      PROVE  CollapsedExact'
  <2>1. CASE \E f \in Fact : AssertFact(f)
    <3>1. PICK f \in Fact : AssertFact(f)
      BY <2>1
    <3>2. /\ f.id \notin Registered
          /\ Registered' = Registered \cup {f.id}
          /\ body'[f.id] = f
          /\ \A g \in Registered : body'[g] = body[g]
      BY <1>2, <3>1, AssertFactGraph
    <3>3. /\ manual' = [manual EXCEPT ![f.id] = f.manual]
          /\ collapsed' = IF f.isRoot /\ f.manual < Threshold
                          THEN collapsed \cup {f.id} ELSE collapsed
      BY <3>1 DEF AssertFact, RegisterFact, InitializeRootFact,
                  InitializeDerivedFact
    <3>4. /\ manual'[f.id] = f.manual
          /\ \A g \in Registered : manual'[g] = manual[g]
      BY <1>2, <3>2, <3>3 DEF TypeOK
    <3>5. QED
      BY <1>2, <3>2, <3>3, <3>4 DEF CollapsedExact
  <2>2. CASE \E f \in FactId : InvalidateRoot(f)
    BY <1>2, <2>2, StatusAssumption DEF InvalidateRoot, CollapsedExact, TypeOK, Registered, Invalid
  <2>3. CASE \E f \in FactId, s \in Status : SetRootConfidence(f, s)
    BY <1>2, <2>3, StatusAssumption DEF SetRootConfidence, CollapsedExact, TypeOK, Registered
  <2>4. CASE UNCHANGED <<body, manual, collapsed>>
    BY <1>2, <2>4 DEF CollapsedExact, Registered
  <2>5. QED
    BY <1>2, <2>1, <2>2, <2>3, <2>4
    DEF Next, vars, RetractFact, SetFactVerification, Expire, Age,
        SweepExpiredFacts, SweepNext, Propagate
<1>3. QED
    BY <1>1, <1>2, TypeCorrect, PTL DEF Spec

-----------------------------------------------------------------------------
(* Propagation: the statuses are a fixpoint of the justification graph     *)
(* whenever the lock is free (Settled), and the only one once time has     *)
(* been caught up with (Confluent).                                        *)

(* A fact's status depends on the retractions, its manual status and the   *)
(* confidence of its own justification sets.                               *)
LEMMA NewStatusSame ==
    ASSUME NEW f,
           f \in retracted' <=> f \in retracted,
           body'[f].isRoot = body[f].isRoot,
           manual'[f] = manual[f],
           {k \in DOMAIN jset' : k[1] = f} = {k \in DOMAIN jset : k[1] = f},
           \A k \in DOMAIN jset : k[1] = f => jset'[k] = jset[k]
    PROVE  NewStatus(f)' = NewStatus(f)
<1> DEFINE C  == {jset[j].conf : j \in {k \in DOMAIN jset : k[1] = f}}
           Cp == {jset'[j].conf : j \in {k \in DOMAIN jset' : k[1] = f}}
           G  == GreatestOf({Invalid} \cup {c \in C : c >= Threshold})
           Gp == GreatestOf({Invalid} \cup {c \in Cp : c >= Threshold})
<1>1. /\ NewStatus(f) = IF f \in retracted THEN Invalid
                        ELSE IF body[f].isRoot THEN manual[f] ELSE G
      /\ NewStatus(f)' = IF f \in retracted' THEN Invalid
                         ELSE IF body'[f].isRoot THEN manual'[f] ELSE Gp
    BY Zenon DEF NewStatus
<1>2. C = Cp
    BY Zenon
<1> HIDE DEF C, Cp
<1>3. G = Gp
    BY <1>2, Zenon
<1> HIDE DEF G, Gp
<1>4. QED
    BY <1>1, <1>3

(* A justification set that is recomputed is computed from statuses that   *)
(* SeenStatuses allows.                                                    *)
LEMMA ComputeSeen ==
    ASSUME TypeOK, NEW s \in SUBSET Token, NEW d \in [FactId -> Status],
           \A p \in ParentIds(s) :
               body[p].isRoot /\ p \notin retracted => d[p] = manual[p]
    PROVE  LET view == [p \in ParentIds(s) |-> EffectiveStatus(p, d)]
           IN  /\ view \in [ParentIds(s) -> Status]
               /\ \A p \in ParentIds(s) :
                     \/ view[p] = d[p]
                     \/ p \in expired \cup retracted /\ view[p] = Invalid
<1>1. ParentIds(s) \subseteq FactId
    BY DEF ParentIds, Token
<1>2. \A p \in ParentIds(s) : EffectiveStatus(p, d) \in Status
    BY <1>1, EffectiveStatusType
<1>3. \A p \in ParentIds(s) :
          \/ EffectiveStatus(p, d) = d[p]
          \/ p \in expired \cup retracted /\ EffectiveStatus(p, d) = Invalid
    BY DEF EffectiveStatus
<1>4. QED
    BY <1>2, <1>3

(* The state of a set is read from its parents only.                       *)
LEMMA SetStateKept ==
    ASSUME NEW facts1, NEW facts2, NEW child, NEW s, NEW v, NEW ver1, NEW ver2,
           NEW old,
           \A p \in ParentIds(s) : facts1[p] = facts2[p],
           \A p \in ParentIds(s) : p \in ver1 <=> p \in ver2
    PROVE  JustificationSetState(facts1, child, s, v, ver1, old)
             = JustificationSetState(facts2, child, s, v, ver2, old)
<1>1. ASSUME NEW t \in s
      PROVE  DependencySatisfied(facts1, child, t, v[t.id], ver1, old)
         <=> DependencySatisfied(facts2, child, t, v[t.id], ver2, old)
  <2>1. t.id \in ParentIds(s)
    BY DEF ParentIds
  <2>2. facts1[t.id] = facts2[t.id] /\ (t.id \in ver1 <=> t.id \in ver2)
    BY <2>1
  <2>3. QED
    BY <2>2, Zenon DEF DependencySatisfied, DependencyGroundingSatisfied
<1>2. QED
    BY <1>1, SetStateAgrees

(* The condition SetsUpToDate puts on one set, spelled out.                *)
LEMMA SetsUpToDateMember ==
    ASSUME SetsUpToDate, NEW j \in DOMAIN jset
    PROVE  \E v \in [ParentIds(j[2]) -> Status], old \in SUBSET aged :
             /\ \A p \in ParentIds(j[2]) :
                   \/ v[p] = derived[p]
                   \/ p \in expired \cup retracted /\ v[p] = Invalid
             /\ jset[j] =
                  JustificationSetState(body, body[j[1]], j[2], v, verified, old)
BY DEF SetsUpToDate, SeenStatuses

(* A set that is left alone stays up to date, as long as its parents keep  *)
(* their derived status, their content and their verification.             *)
LEMMA SetKept ==
    ASSUME TypeOK, SetsUpToDate, NEW j \in DOMAIN jset,
           jset'[j] = jset[j],
           body'[j[1]] = body[j[1]],
           \A p \in ParentIds(j[2]) :
               /\ derived'[p] = derived[p]
               /\ body'[p] = body[p]
               /\ p \in verified' <=> p \in verified,
           expired \subseteq expired',
           retracted \subseteq retracted',
           aged \subseteq aged'
    PROVE  \E v \in [ParentIds(j[2]) -> Status], old \in SUBSET aged' :
             /\ \A p \in ParentIds(j[2]) :
                   \/ v[p] = derived'[p]
                   \/ p \in expired' \cup retracted' /\ v[p] = Invalid
             /\ jset'[j] =
                  JustificationSetState(body', body'[j[1]], j[2], v, verified', old)
<1>1. PICK v \in [ParentIds(j[2]) -> Status], old \in SUBSET aged :
             /\ \A p \in ParentIds(j[2]) :
                   \/ v[p] = derived[p]
                   \/ p \in expired \cup retracted /\ v[p] = Invalid
             /\ jset[j] =
                  JustificationSetState(body, body[j[1]], j[2], v, verified, old)
    BY SetsUpToDateMember
<1>2. JustificationSetState(body, body[j[1]], j[2], v, verified, old)
        = JustificationSetState(body', body[j[1]], j[2], v, verified', old)
    BY SetStateKept
<1>3. old \in SUBSET aged'
    OBVIOUS
<1>4. \A p \in ParentIds(j[2]) :
          \/ v[p] = derived'[p]
          \/ p \in expired' \cup retracted' /\ v[p] = Invalid
    BY <1>1
<1>5. jset'[j] =
          JustificationSetState(body', body'[j[1]], j[2], v, verified', old)
    BY <1>1, <1>2
<1>6. QED
    BY <1>3, <1>4, <1>5

(* What has to be shown of the sets after a step.                          *)
LEMMA SetsUpToDateNext ==
    ASSUME \A j \in DOMAIN jset' :
             \E v \in [ParentIds(j[2]) -> Status], old \in SUBSET aged' :
               /\ \A p \in ParentIds(j[2]) :
                     \/ v[p] = derived'[p]
                     \/ p \in expired' \cup retracted' /\ v[p] = Invalid
               /\ jset'[j] =
                    JustificationSetState(body', body'[j[1]], j[2], v, verified', old)
    PROVE  SetsUpToDate'
BY DEF SetsUpToDate, SeenStatuses

(* One iteration of propagate keeps the invariant.                         *)
LEMMA PropagateKeepsInv ==
    ASSUME TypeOK, TypeOK', Acyclic, PropagationInv, Propagate
    PROVE  PropagationInv'
<1> DEFINE f == Head(queue)
<1>1. UNCHANGED <<body, manual, collapsed, retracted, verified, expired, aged, sweep>>
    BY DEF Propagate, clockVars
<1>2. /\ derived' = [derived EXCEPT ![f] = NewStatus(f)]
      /\ IF NewStatus(f) = derived[f]
         THEN jset' = jset /\ queue' = Tail(queue)
         ELSE RecomputeChildren(f, derived', verified, Tail(queue))
      /\ queue # <<>>
    BY DEF Propagate
<1>3. queue \in Seq(Registered) /\ f \in Registered /\ f \in FactId
    BY <1>2 DEF TypeOK
<1>4. Tail(queue) \in Seq(Registered)
    BY <1>2, <1>3
<1> HIDE DEF f
<1>4a. ASSUME NewStatus(f) # derived[f]
       PROVE  /\ \A j \in JSetIds :
                   jset'[j] = IF f \in ParentIds(j[2])
                              THEN Compute(body[j[1]], j[2], derived', verified)
                              ELSE jset[j]
              /\ \A i \in DOMAIN Tail(queue) :
                   \E k \in DOMAIN queue' : queue'[k] = Tail(queue)[i]
              /\ \A j \in JSetIds : jset'[j] # jset[j] =>
                   \E k \in DOMAIN queue' : queue'[k] = j[1]
  <2>1. RecomputeChildren(f, derived', verified, Tail(queue))
    BY <1>2, <1>4a
  <2>2. derived' \in [FactId -> Status]
    BY DEF TypeOK
  <2> DEFINE d == derived'
             q == Tail(queue)
  <2> HIDE DEF d, q
  <2>3. d \in [FactId -> Status] /\ q \in Seq(Registered)
    BY <1>4, <2>2 DEF d, q
  <2>4. RecomputeChildren(f, d, verified, q)
    BY <2>1 DEF d, q
  <2>5. /\ \A j \in JSetIds :
             jset'[j] = IF f \in ParentIds(j[2])
                        THEN Compute(body[j[1]], j[2], d, verified)
                        ELSE jset[j]
        /\ \A i \in DOMAIN q : \E k \in DOMAIN queue' : queue'[k] = q[i]
        /\ \A j \in JSetIds : jset'[j] # jset[j] =>
             \E k \in DOMAIN queue' : queue'[k] = j[1]
    BY <2>3, <2>4, RecomputeChildrenEffect
  <2>6. QED
    BY <2>5 DEF d, q
<1>5. \A g : InQueue(g) /\ g # f => \E i \in DOMAIN Tail(queue) : Tail(queue)[i] = g
  <2> SUFFICES ASSUME NEW g, NEW i \in DOMAIN queue, queue[i] = g, g # f
               PROVE  \E k \in DOMAIN Tail(queue) : Tail(queue)[k] = g
    BY DEF InQueue
  <2>1. i # 1
    BY <1>2, <1>3 DEF f
  <2>2. i - 1 \in DOMAIN Tail(queue) /\ Tail(queue)[i - 1] = queue[i]
    BY <1>2, <1>3, <2>1
  <2>3. QED
    BY <2>2
<1>6. /\ derived'[f] = NewStatus(f)
      /\ \A g \in FactId : g # f => derived'[g] = derived[g]
    BY <1>2, <1>3 DEF TypeOK
<1>7. DOMAIN jset = JSetIds /\ DOMAIN jset' = JSetIds
    BY <1>1 DEF TypeOK, JSetIds, Registered
<1>8. /\ \A g \in FactId : InQueue(g) /\ g # f => InQueue(g)'
      /\ \A j \in JSetIds : jset'[j] # jset[j] => InQueue(j[1])'
  <2>1. CASE NewStatus(f) = derived[f]
    <3>1. jset' = jset /\ queue' = Tail(queue)
      BY <1>2, <2>1
    <3>2. QED
      BY <1>5, <3>1 DEF InQueue
  <2>2. CASE NewStatus(f) # derived[f]
    <3>1. \A g \in FactId : InQueue(g) /\ g # f => InQueue(g)'
      <4> SUFFICES ASSUME NEW g \in FactId, InQueue(g), g # f
                   PROVE  \E k \in DOMAIN queue' : queue'[k] = g
        BY DEF InQueue
      <4>1. PICK i \in DOMAIN Tail(queue) : Tail(queue)[i] = g
        BY <1>5
      <4>2. QED
        BY <1>4a, <2>2, <4>1
    <3>2. \A j \in JSetIds : jset'[j] # jset[j] => InQueue(j[1])'
      BY <1>4a, <2>2 DEF InQueue
    <3>3. QED
      BY <3>1, <3>2
  <2>3. QED
    BY <2>1, <2>2
<1>9. \A r \in Registered \ retracted : body[r].isRoot => derived'[r] = manual[r]
  <2> SUFFICES ASSUME NEW r \in Registered \ retracted, body[r].isRoot
               PROVE  derived'[r] = manual[r]
    OBVIOUS
  <2>1. r \in FactId
    BY DEF TypeOK
  <2>2. CASE r = f
    BY <1>6, <2>2 DEF NewStatus
  <2>3. CASE r # f
    <3>1. queue # <<r>>
      BY <2>3 DEF f
    <3>2. derived[r] = manual[r]
      BY <3>1 DEF PropagationInv, RootsUpToDate
    <3>3. QED
      BY <1>6, <2>1, <2>3, <3>2
  <2>4. QED
    BY <2>2, <2>3
<1>10. StatusesUpToDate'
  <2> SUFFICES ASSUME NEW g \in Registered', ~ InQueue(g)', g \notin sweep'
               PROVE  derived'[g] = NewStatus(g)'
    BY DEF StatusesUpToDate
  <2>1. g \in Registered /\ g \notin sweep
    BY <1>1 DEF Registered
  <2>2. g \in FactId
    BY <2>1 DEF TypeOK
  <2>3. \A k \in DOMAIN jset : k[1] = g => jset'[k] = jset[k]
    BY <1>7, <1>8
  <2>4. NewStatus(g)' = NewStatus(g)
    <3>1. {k \in DOMAIN jset' : k[1] = g} = {k \in DOMAIN jset : k[1] = g}
      BY <1>7
    <3>2. /\ g \in retracted' <=> g \in retracted
          /\ body'[g].isRoot = body[g].isRoot
          /\ manual'[g] = manual[g]
      BY <1>1
    <3>3. QED
      BY <2>3, <3>1, <3>2, NewStatusSame
  <2>5. CASE g = f
    BY <1>6, <2>4, <2>5
  <2>6. CASE g # f
    <3>1. ~ InQueue(g)
      BY <1>8, <2>2, <2>6
    <3>2. derived[g] = NewStatus(g)
      BY <2>1, <3>1 DEF PropagationInv, StatusesUpToDate
    <3>3. QED
      BY <1>6, <2>2, <2>4, <2>6, <3>2
  <2>7. QED
    BY <2>5, <2>6
<1>11. RootsUpToDate'
    BY <1>1, <1>9 DEF RootsUpToDate, Registered
<1>12. SetsUpToDate'
  <2> SUFFICES ASSUME NEW j \in DOMAIN jset'
               PROVE  \E v \in [ParentIds(j[2]) -> Status], old \in SUBSET aged' :
                        /\ \A p \in ParentIds(j[2]) :
                              \/ v[p] = derived'[p]
                              \/ p \in expired' \cup retracted' /\ v[p] = Invalid
                        /\ jset'[j] = JustificationSetState(body', body'[j[1]],
                                                     j[2], v, verified', old)
    BY SetsUpToDateNext
  <2>1. /\ j \in JSetIds
        /\ j[1] \in Registered
        /\ j[2] \subseteq Token
        /\ ParentIds(j[2]) \subseteq FactId
    BY <1>7, JSetIdType
  <2>2. ParentIds(j[2]) \subseteq Registered
    <3>1. ParentIds(j[2]) \subseteq Parents(j[1])
      BY <1>7, <2>1 DEF Parents
    <3>2. QED
      BY <2>1, <3>1 DEF Acyclic
  <2>3. CASE jset'[j] = jset[j] /\ \A p \in ParentIds(j[2]) : derived'[p] = derived[p]
    <3>1. /\ body'[j[1]] = body[j[1]]
          /\ \A p \in ParentIds(j[2]) :
               /\ derived'[p] = derived[p]
               /\ body'[p] = body[p]
               /\ p \in verified' <=> p \in verified
          /\ expired \subseteq expired' /\ retracted \subseteq retracted'
          /\ aged \subseteq aged'
      BY <1>1, <2>3
    <3>2. SetsUpToDate /\ j \in DOMAIN jset /\ jset'[j] = jset[j]
      BY <1>7, <2>1, <2>3 DEF PropagationInv
    <3>3. QED
      BY <3>1, <3>2, SetKept
  <2>4. CASE /\ f \in ParentIds(j[2])
             /\ NewStatus(f) # derived[f]
    <3> DEFINE view == [p \in ParentIds(j[2]) |-> EffectiveStatus(p, derived')]
    <3>2. derived' \in [FactId -> Status]
      BY DEF TypeOK
    <3>3. jset'[j] = Compute(body[j[1]], j[2], derived', verified)
      BY <1>4a, <2>1, <2>4
    <3>4. jset'[j] =
            JustificationSetState(body, body[j[1]], j[2], view, verified, aged)
      BY <3>3 DEF Compute
    <3>5. /\ view \in [ParentIds(j[2]) -> Status]
          /\ \A p \in ParentIds(j[2]) :
                \/ view[p] = derived'[p]
                \/ p \in expired \cup retracted /\ view[p] = Invalid
      <4>1. \A p \in ParentIds(j[2]) :
               body[p].isRoot /\ p \notin retracted => derived'[p] = manual[p]
        BY <1>9, <2>2
      <4>2. QED
        BY <2>1, <3>2, <4>1, ComputeSeen
    <3> HIDE DEF view
    <3>6. QED
      BY <1>1, <3>4, <3>5
  <2>5. CASE NewStatus(f) = derived[f]
    <3>1. jset' = jset /\ \A p \in ParentIds(j[2]) : derived'[p] = derived[p]
      BY <1>2, <1>6, <2>1, <2>5
    <3>2. QED
      BY <2>3, <3>1
  <2>6. CASE NewStatus(f) # derived[f] /\ f \notin ParentIds(j[2])
    <3>3. jset'[j] = jset[j]
      BY <1>4a, <2>1, <2>6
    <3>4. \A p \in ParentIds(j[2]) : derived'[p] = derived[p]
      BY <1>6, <2>1, <2>6
    <3>5. QED
      BY <2>3, <3>3, <3>4
  <2>7. QED
    BY <2>4, <2>5, <2>6
<1>13. QED
    BY <1>10, <1>11, <1>12 DEF PropagationInv

(* A step that touches neither the graph nor the statuses keeps the        *)
(* invariant if it puts on the queue what it gives a reason to change.     *)
LEMMA OutsideKeepsInv ==
    ASSUME TypeOK, TypeOK', PropagationInv,
           UNCHANGED <<body, derived, jset, verified>>,
           expired \subseteq expired', aged \subseteq aged',
           retracted \subseteq retracted',
           \A g \in Registered : ~ InQueue(g)' /\ g \notin sweep' =>
               /\ ~ InQueue(g) /\ g \notin sweep
               /\ g \in retracted' <=> g \in retracted
               /\ manual'[g] = manual[g],
           \A r \in Registered :
               queue' = <<r>> \/ (manual'[r] = manual[r] /\ queue # <<r>>)
    PROVE  PropagationInv'
<1>1. Registered' = Registered /\ DOMAIN jset' = DOMAIN jset
    BY DEF Registered
<1>2. StatusesUpToDate'
  <2> SUFFICES ASSUME NEW g \in Registered, ~ InQueue(g)', g \notin sweep'
               PROVE  derived'[g] = NewStatus(g)'
    BY <1>1 DEF StatusesUpToDate
  <2>1. /\ ~ InQueue(g) /\ g \notin sweep
        /\ g \in retracted' <=> g \in retracted
        /\ manual'[g] = manual[g]
    OBVIOUS
  <2>2. derived[g] = NewStatus(g)
    BY <2>1 DEF PropagationInv, StatusesUpToDate
  <2>3. NewStatus(g)' = NewStatus(g)
    <3>1. /\ {k \in DOMAIN jset' : k[1] = g} = {k \in DOMAIN jset : k[1] = g}
          /\ \A k \in DOMAIN jset : k[1] = g => jset'[k] = jset[k]
          /\ body'[g].isRoot = body[g].isRoot
      OBVIOUS
    <3>2. QED
      BY <2>1, <3>1, NewStatusSame
  <2>4. QED
    BY <2>2, <2>3
<1>3. RootsUpToDate'
    BY <1>1 DEF PropagationInv, RootsUpToDate
<1>4. SetsUpToDate'
  <2>1. ASSUME NEW j \in DOMAIN jset
        PROVE  \E v \in [ParentIds(j[2]) -> Status], old \in SUBSET aged' :
                 /\ \A p \in ParentIds(j[2]) :
                       \/ v[p] = derived'[p]
                       \/ p \in expired' \cup retracted' /\ v[p] = Invalid
                 /\ jset'[j] = JustificationSetState(body', body'[j[1]],
                                              j[2], v, verified', old)
    <3>1. /\ SetsUpToDate
          /\ jset'[j] = jset[j]
          /\ body'[j[1]] = body[j[1]]
          /\ \A p \in ParentIds(j[2]) :
               /\ derived'[p] = derived[p]
               /\ body'[p] = body[p]
               /\ p \in verified' <=> p \in verified
      BY DEF PropagationInv
    <3>2. QED
      BY <3>1, SetKept
  <2>2. QED
    BY <1>1, <2>1, SetsUpToDateNext
<1>5. QED
    BY <1>2, <1>3, <1>4 DEF PropagationInv

(* A verification recomputes the sets the fact occurs in.                  *)
LEMMA VerificationKeepsInv ==
    ASSUME TypeOK, TypeOK', Acyclic, PropagationInv,
           NEW f \in FactId, NEW ver \in BOOLEAN, SetFactVerification(f, ver)
    PROVE  PropagationInv'
<1>1. /\ UNCHANGED <<body, manual, derived, collapsed, retracted, expired, aged, sweep>>
      /\ verified' = IF ver THEN verified \cup {f} ELSE verified \ {f}
      /\ RecomputeChildren(f, derived, verified', <<>>)
      /\ queue = <<>> /\ sweep = {}
    BY DEF SetFactVerification, clockVars, Locked
<1>2. DOMAIN jset = JSetIds /\ DOMAIN jset' = JSetIds /\ Registered' = Registered
    BY <1>1 DEF TypeOK, JSetIds, Registered
<1>3. /\ \A j \in JSetIds :
           jset'[j] = IF f \in ParentIds(j[2])
                      THEN Compute(body[j[1]], j[2], derived, verified')
                      ELSE jset[j]
      /\ \A j \in JSetIds : jset'[j] # jset[j] => InQueue(j[1])'
  <2> DEFINE w == verified'
  <2>1. derived \in [FactId -> Status] /\ <<>> \in Seq(Registered)
    BY DEF TypeOK
  <2>2. RecomputeChildren(f, derived, w, <<>>)
    BY <1>1
  <2> HIDE DEF w
  <2>3. /\ \A j \in JSetIds :
             jset'[j] = IF f \in ParentIds(j[2])
                        THEN Compute(body[j[1]], j[2], derived, w)
                        ELSE jset[j]
        /\ \A j \in JSetIds : jset'[j] # jset[j] =>
             \E k \in DOMAIN queue' : queue'[k] = j[1]
    BY <2>1, <2>2, RecomputeChildrenEffect
  <2>4. QED
    BY <2>3 DEF w, InQueue
<1>4. \A g : ~ InQueue(g)
    BY <1>1 DEF InQueue
<1>5. StatusesUpToDate'
  <2> SUFFICES ASSUME NEW g \in Registered, ~ InQueue(g)'
               PROVE  derived'[g] = NewStatus(g)'
    BY <1>2 DEF StatusesUpToDate
  <2>1. derived[g] = NewStatus(g)
    BY <1>1, <1>4 DEF PropagationInv, StatusesUpToDate
  <2>2. NewStatus(g)' = NewStatus(g)
    <3>1. /\ {k \in DOMAIN jset' : k[1] = g} = {k \in DOMAIN jset : k[1] = g}
          /\ \A k \in DOMAIN jset : k[1] = g => jset'[k] = jset[k]
          /\ g \in retracted' <=> g \in retracted
          /\ body'[g].isRoot = body[g].isRoot
          /\ manual'[g] = manual[g]
      BY <1>1, <1>2, <1>3
    <3>2. QED
      BY <3>1, NewStatusSame
  <2>3. QED
    BY <1>1, <2>1, <2>2
<1>6. \A r \in Registered \ retracted : body[r].isRoot => derived[r] = manual[r]
    BY <1>1 DEF PropagationInv, RootsUpToDate
<1>7. RootsUpToDate'
    BY <1>1, <1>2, <1>6 DEF RootsUpToDate
<1>8. ASSUME NEW j \in JSetIds
      PROVE  \E v \in [ParentIds(j[2]) -> Status], old \in SUBSET aged' :
               /\ \A p \in ParentIds(j[2]) :
                     \/ v[p] = derived'[p]
                     \/ p \in expired' \cup retracted' /\ v[p] = Invalid
               /\ jset'[j] = JustificationSetState(body', body'[j[1]],
                                            j[2], v, verified', old)
  <2>1. /\ j[1] \in Registered
        /\ j[2] \subseteq Token
        /\ ParentIds(j[2]) \subseteq Registered
    <3>1. ParentIds(j[2]) \subseteq Parents(j[1])
      BY <1>2 DEF Parents
    <3>2. QED
      BY <3>1, JSetIdType DEF Acyclic
  <2>2. CASE f \in ParentIds(j[2])
    <3> DEFINE view == [p \in ParentIds(j[2]) |-> EffectiveStatus(p, derived)]
    <3>1. jset'[j] =
            JustificationSetState(body, body[j[1]], j[2], view, verified', aged)
      BY <1>3, <2>2 DEF Compute
    <3>2. /\ view \in [ParentIds(j[2]) -> Status]
          /\ \A p \in ParentIds(j[2]) :
                \/ view[p] = derived[p]
                \/ p \in expired \cup retracted /\ view[p] = Invalid
      <4>1. derived \in [FactId -> Status]
        BY DEF TypeOK
      <4>2. \A p \in ParentIds(j[2]) :
               body[p].isRoot /\ p \notin retracted => derived[p] = manual[p]
        BY <1>6, <2>1
      <4>3. QED
        BY <2>1, <4>1, <4>2, ComputeSeen
    <3> HIDE DEF view
    <3>3. QED
      BY <1>1, <3>1, <3>2
  <2>3. CASE f \notin ParentIds(j[2])
    <3>1. /\ SetsUpToDate
          /\ j \in DOMAIN jset
          /\ jset'[j] = jset[j]
          /\ body'[j[1]] = body[j[1]]
          /\ \A p \in ParentIds(j[2]) :
               /\ derived'[p] = derived[p]
               /\ body'[p] = body[p]
               /\ p \in verified' <=> p \in verified
          /\ expired \subseteq expired' /\ retracted \subseteq retracted'
          /\ aged \subseteq aged'
      BY <1>1, <1>2, <1>3, <2>3 DEF PropagationInv
    <3>2. QED
      BY <3>1, SetKept
  <2>4. QED
    BY <2>2, <2>3
<1>9. SetsUpToDate'
    BY <1>2, <1>8, SetsUpToDateNext
<1>10. QED
    BY <1>5, <1>7, <1>9 DEF PropagationInv

(* An assertion computes the sets of the new fact and leaves the others.   *)
LEMMA AssertKeepsInv ==
    ASSUME TypeOK, TypeOK', Acyclic, PropagationInv,
           NEW f \in Fact, AssertFact(f)
    PROVE  PropagationInv'
<1>1. /\ f.id \notin Registered
      /\ Registered' = Registered \cup {f.id}
      /\ body'[f.id] = f
      /\ \A g \in Registered : body'[g] = body[g]
      /\ DOMAIN jset' = DOMAIN jset \cup
            (IF f.isRoot THEN {} ELSE {f.id} \X f.sets)
      /\ \A j \in DOMAIN jset : j[1] \in Registered /\ j[1] # f.id
      /\ \A s \in f.sets : ParentIds(s) \subseteq Registered
    BY AssertFactGraph
<1>2. /\ manual' = [manual EXCEPT ![f.id] = f.manual]
      /\ verified' = IF f.verified THEN verified \cup {f.id} ELSE verified
      /\ queue = <<>> /\ sweep = {}
      /\ queue' = <<f.id>>
      /\ UNCHANGED <<retracted, expired, aged, sweep>>
    BY DEF AssertFact, RegisterFact, Locked, clockVars
<1>3. f.id \in FactId
    BY FactAssumption DEF FactType
<1>4. /\ \A g \in Registered : derived'[g] = derived[g] /\ manual'[g] = manual[g]
      /\ f.isRoot => derived'[f.id] = manual'[f.id]
      /\ \A j \in DOMAIN jset : jset'[j] = jset[j]
      /\ ~ f.isRoot => \A j \in {f.id} \X f.sets :
            jset'[j] = Compute(f, j[2], derived, verified)
  <2>1. CASE f.isRoot
    <3>1. derived' = [derived EXCEPT ![f.id] = f.manual] /\ jset' = jset
      BY <2>1 DEF AssertFact, InitializeRootFact
    <3>2. QED
      BY <1>1, <1>2, <1>3, <2>1, <3>1 DEF TypeOK
  <2>2. CASE ~ f.isRoot
    <3>1. /\ derived' = [derived EXCEPT ![f.id] = Invalid]
          /\ jset' = [j \in DOMAIN jset \cup ({f.id} \X f.sets) |->
                        IF j \in DOMAIN jset THEN jset[j]
                        ELSE Compute(f, j[2], derived, verified)]
      BY <2>2, Zenon DEF AssertFact, InitializeDerivedFact
    <3>2. \A g \in Registered : derived'[g] = derived[g] /\ manual'[g] = manual[g]
      BY <1>1, <1>2, <1>3, <3>1 DEF TypeOK
    <3>3. \A j \in DOMAIN jset : jset'[j] = jset[j]
      BY <3>1
    <3>4. \A j \in {f.id} \X f.sets : j \notin DOMAIN jset
      BY <1>1
    <3>5. \A j \in {f.id} \X f.sets :
              jset'[j] = Compute(f, j[2], derived, verified)
      BY <3>1, <3>4
    <3>6. QED
      BY <2>2, <3>2, <3>3, <3>5
  <2>3. QED
    BY <2>1, <2>2
<1>5. StatusesUpToDate'
  <2> SUFFICES ASSUME NEW g \in Registered', ~ InQueue(g)', g \notin sweep'
               PROVE  derived'[g] = NewStatus(g)'
    BY DEF StatusesUpToDate
  <2>1. g # f.id
    BY <1>2 DEF InQueue
  <2>2. g \in Registered
    BY <1>1, <2>1
  <2>3. derived[g] = NewStatus(g)
    BY <1>2, <2>2 DEF PropagationInv, StatusesUpToDate, InQueue
  <2>4. NewStatus(g)' = NewStatus(g)
    <3>1. /\ {k \in DOMAIN jset' : k[1] = g} = {k \in DOMAIN jset : k[1] = g}
          /\ \A k \in DOMAIN jset : k[1] = g => jset'[k] = jset[k]
          /\ g \in retracted' <=> g \in retracted
          /\ body'[g].isRoot = body[g].isRoot
          /\ manual'[g] = manual[g]
      BY <1>1, <1>2, <1>4, <2>1, <2>2
    <3>2. QED
      BY <3>1, NewStatusSame
  <2>5. QED
    BY <1>4, <2>2, <2>3, <2>4
<1>6. \A r \in Registered \ retracted : body[r].isRoot => derived[r] = manual[r]
    BY <1>2 DEF PropagationInv, RootsUpToDate
<1>7. RootsUpToDate'
  <2> SUFFICES ASSUME NEW r \in Registered' \ retracted', body'[r].isRoot
               PROVE  derived'[r] = manual'[r]
    BY DEF RootsUpToDate
  <2>1. CASE r = f.id
    BY <1>1, <1>4, <2>1
  <2>2. CASE r \in Registered
    BY <1>1, <1>2, <1>4, <1>6, <2>2
  <2>3. QED
    BY <1>1, <2>1, <2>2
<1>8. ASSUME NEW j \in DOMAIN jset'
      PROVE  \E v \in [ParentIds(j[2]) -> Status], old \in SUBSET aged' :
               /\ \A p \in ParentIds(j[2]) :
                     \/ v[p] = derived'[p]
                     \/ p \in expired' \cup retracted' /\ v[p] = Invalid
               /\ jset'[j] = JustificationSetState(body', body'[j[1]],
                                            j[2], v, verified', old)
  <2>1. CASE j \in DOMAIN jset
    <3>1. DOMAIN jset = JSetIds
      BY DEF TypeOK
    <3>2. j[1] \in Registered /\ ParentIds(j[2]) \subseteq Registered
      <4>1. ParentIds(j[2]) \subseteq Parents(j[1])
        BY <2>1 DEF Parents
      <4>2. QED
        BY <2>1, <3>1, <4>1, JSetIdType DEF Acyclic
    <3>3. /\ SetsUpToDate
          /\ jset'[j] = jset[j]
          /\ body'[j[1]] = body[j[1]]
          /\ \A p \in ParentIds(j[2]) :
               /\ derived'[p] = derived[p]
               /\ body'[p] = body[p]
               /\ p \in verified' <=> p \in verified
          /\ expired \subseteq expired' /\ retracted \subseteq retracted'
          /\ aged \subseteq aged'
      BY <1>1, <1>2, <1>4, <2>1, <3>2 DEF PropagationInv
    <3>4. QED
      BY <2>1, <3>3, SetKept
  <2>2. CASE j \notin DOMAIN jset
    <3>1. ~ f.isRoot /\ j \in {f.id} \X f.sets
      BY <1>1, <1>8, <2>2
    <3>2. /\ j[1] = f.id
          /\ j[2] \subseteq Token
          /\ ParentIds(j[2]) \subseteq Registered
      BY <1>1, <3>1, FactAssumption DEF FactType
    <3> DEFINE view == [p \in ParentIds(j[2]) |-> EffectiveStatus(p, derived)]
    <3>3. jset'[j] =
            JustificationSetState(body, f, j[2], view, verified, aged)
      BY <1>4, <3>1 DEF Compute
    <3>4. /\ view \in [ParentIds(j[2]) -> Status]
          /\ \A p \in ParentIds(j[2]) :
                \/ view[p] = derived[p]
                \/ p \in expired \cup retracted /\ view[p] = Invalid
      <4>1. derived \in [FactId -> Status]
        BY DEF TypeOK
      <4>2. \A p \in ParentIds(j[2]) :
               body[p].isRoot /\ p \notin retracted => derived[p] = manual[p]
        BY <1>6, <3>2
      <4>3. QED
        BY <3>2, <4>1, <4>2, ComputeSeen
    <3> HIDE DEF view
    <3>5. JustificationSetState(body, f, j[2], view, verified, aged)
            = JustificationSetState(body', f, j[2], view, verified', aged)
      <4>1. /\ \A p \in ParentIds(j[2]) : body[p] = body'[p]
            /\ \A p \in ParentIds(j[2]) : p \in verified <=> p \in verified'
        BY <1>1, <1>2, <3>2
      <4>2. QED
        BY <4>1, SetStateKept
    <3>6. /\ jset'[j] = JustificationSetState(body', body'[j[1]], j[2], view,
                                              verified', aged)
          /\ aged \in SUBSET aged'
      BY <1>1, <1>2, <3>2, <3>3, <3>5
    <3>7. \A p \in ParentIds(j[2]) :
                \/ view[p] = derived'[p]
                \/ p \in expired' \cup retracted' /\ view[p] = Invalid
      BY <1>2, <1>4, <3>2, <3>4
    <3>8. QED
      BY <3>4, <3>6, <3>7
  <2>3. QED
    BY <2>1, <2>2
<1>9. SetsUpToDate'
    BY <1>8, SetsUpToDateNext
<1>10. QED
    BY <1>5, <1>7, <1>9 DEF PropagationInv

(* Every step of the engine keeps the invariant.                           *)
LEMMA PropagationInvStep ==
    ASSUME TypeOK, TypeOK', Acyclic, PropagationInv, [Next]_vars
    PROVE  PropagationInv'
<1>1. ASSUME NEW f \in Fact, AssertFact(f)
      PROVE  PropagationInv'
    BY <1>1, AssertKeepsInv
<1>2. ASSUME NEW f \in FactId, NEW ver \in BOOLEAN, SetFactVerification(f, ver)
      PROVE  PropagationInv'
    BY <1>2, VerificationKeepsInv
<1>3. ASSUME Propagate
      PROVE  PropagationInv'
    BY <1>3, PropagateKeepsInv
<1>4. ASSUME NEW f \in FactId,
             InvalidateRoot(f) \/ \E s \in Status : SetRootConfidence(f, s)
      PROVE  PropagationInv'
  <2>1. /\ UNCHANGED <<body, derived, jset, retracted, verified, expired, aged, sweep>>
        /\ queue = <<>> /\ sweep = {} /\ queue' = <<f>>
        /\ \A g \in FactId : g # f => manual'[g] = manual[g]
    BY <1>4 DEF InvalidateRoot, SetRootConfidence, Locked, clockVars, TypeOK
  <2>2. /\ \A g \in Registered : ~ InQueue(g)' => g # f /\ ~ InQueue(g)
        /\ \A r \in Registered : queue # <<r>>
        /\ Registered \subseteq FactId
    BY <2>1 DEF InQueue, TypeOK
  <2>3. QED
    BY <2>1, <2>2, OutsideKeepsInv
<1>5. ASSUME NEW f \in FactId, RetractFact(f)
      PROVE  PropagationInv'
  <2>1. /\ UNCHANGED <<body, manual, derived, jset, verified, expired, aged, sweep>>
        /\ queue = <<>> /\ sweep = {} /\ queue' = <<f>>
        /\ retracted' = retracted \cup {f}
    BY <1>5 DEF RetractFact, Locked, clockVars
  <2>2. /\ \A g \in Registered : ~ InQueue(g)' => g # f /\ ~ InQueue(g)
        /\ \A r \in Registered : queue # <<r>>
    BY <2>1 DEF InQueue
  <2>3. QED
    BY <2>1, <2>2, OutsideKeepsInv
<1>6. ASSUME SweepExpiredFacts
      PROVE  PropagationInv'
  <2>1. /\ UNCHANGED <<body, manual, derived, jset, verified, expired, aged, queue>>
        /\ queue = <<>> /\ sweep = {}
        /\ retracted' = retracted \cup sweep'
    BY <1>6 DEF SweepExpiredFacts, Locked, clockVars
  <2>2. /\ \A g \in Registered : ~ InQueue(g)
        /\ \A r \in Registered : queue # <<r>>
    BY <2>1 DEF InQueue
  <2>3. QED
    BY <2>1, <2>2, OutsideKeepsInv
<1>7. ASSUME SweepNext
      PROVE  PropagationInv'
  <2>1. /\ UNCHANGED <<body, manual, derived, jset, verified, expired, aged, retracted>>
        /\ queue = <<>>
        /\ \E f \in sweep : queue' = <<f>> /\ sweep' = sweep \ {f}
    BY <1>7 DEF SweepNext, clockVars
  <2>2. /\ \A g \in Registered : ~ InQueue(g)' /\ g \notin sweep' =>
             ~ InQueue(g) /\ g \notin sweep
        /\ \A r \in Registered : queue # <<r>>
    BY <2>1 DEF InQueue
  <2>3. QED
    BY <2>1, <2>2, OutsideKeepsInv
<1>8. ASSUME \/ \E f \in FactId : Expire(f) \/ Age(f)
             \/ UNCHANGED vars
      PROVE  PropagationInv'
  <2>1. /\ UNCHANGED <<body, manual, derived, jset, verified, retracted, queue, sweep>>
        /\ expired \subseteq expired' /\ aged \subseteq aged'
    BY <1>8 DEF Expire, Age, vars, lockVars
  <2>2. /\ \A g \in Registered : InQueue(g)' <=> InQueue(g)
        /\ \A r \in Registered : queue' = <<r>> \/ queue # <<r>>
    BY <2>1 DEF InQueue
  <2>3. QED
    BY <2>1, <2>2, OutsideKeepsInv
<1>9. QED
    BY <1>1, <1>2, <1>3, <1>4, <1>5, <1>6, <1>7, <1>8, MaxFactsAssumption DEF Next

(* What the invariant says once the lock is free.                          *)
LEMMA InvImpliesSettled ==
    ASSUME TypeOK, Acyclic, PropagationInv
    PROVE  Settled
<1> SUFFICES ASSUME ~ Locked
             PROVE  /\ \A f \in Registered : derived[f] = NewStatus(f)
                    /\ \A j \in DOMAIN jset : Timely(j) =>
                          jset[j] = Compute(body[j[1]], j[2], derived, verified)
    BY DEF Settled
<1>1. queue = <<>> /\ sweep = {}
    BY DEF Locked
<1>2. \A f \in Registered : derived[f] = NewStatus(f)
    BY <1>1 DEF PropagationInv, StatusesUpToDate, InQueue
<1>3. \A r \in Registered \ retracted : body[r].isRoot => derived[r] = manual[r]
    BY <1>1 DEF PropagationInv, RootsUpToDate
<1>4. ASSUME NEW j \in DOMAIN jset, Timely(j)
      PROVE  jset[j] = Compute(body[j[1]], j[2], derived, verified)
  <2> DEFINE view == [p \in ParentIds(j[2]) |-> EffectiveStatus(p, derived)]
  <2>1. PICK v \in [ParentIds(j[2]) -> Status], old \in SUBSET aged :
             /\ \A p \in ParentIds(j[2]) :
                   \/ v[p] = derived[p]
                   \/ p \in expired \cup retracted /\ v[p] = Invalid
             /\ jset[j] =
                  JustificationSetState(body, body[j[1]], j[2], v, verified, old)
    BY SetsUpToDateMember DEF PropagationInv
  <2>2. ParentIds(j[2]) \subseteq Registered
    <3>1. DOMAIN jset = JSetIds
      BY DEF TypeOK
    <3>2. j[1] \in Registered
      BY <3>1, JSetIdType
    <3>3. ParentIds(j[2]) \subseteq Parents(j[1])
      BY DEF Parents
    <3>4. QED
      BY <3>2, <3>3 DEF Acyclic
  <2>3. \A p \in ParentIds(j[2]) : v[p] = EffectiveStatus(p, derived)
    <3> TAKE p \in ParentIds(j[2])
    <3>1. CASE p \in retracted
      <4>1. derived[p] = Invalid
        BY <1>2, <2>2, <3>1 DEF NewStatus
      <4>2. QED
        BY <2>1, <3>1, <4>1 DEF EffectiveStatus
    <3>2. CASE p \notin retracted
      <4>1. p \notin expired
        BY <1>4, <3>2 DEF Timely
      <4>2. v[p] = derived[p]
        BY <2>1, <3>2, <4>1
      <4>3. QED
        BY <1>3, <2>2, <3>2, <4>1, <4>2 DEF EffectiveStatus
    <3>3. QED
      BY <3>1, <3>2
  <2>4. \A t \in j[2] : t.id \in ParentIds(j[2])
    BY DEF ParentIds
  <2>5. \A t \in j[2] : v[t.id] = view[t.id]
    BY <2>3, <2>4
  <2> HIDE DEF view
  <2>6. \A t \in j[2] :
           DependencySatisfied(body, body[j[1]], t, v[t.id], verified, old)
             <=> DependencySatisfied(body, body[j[1]], t, view[t.id], verified, aged)
    <3> TAKE t \in j[2]
    <3>1. body[j[1]].limitsAge => t.id \notin aged /\ t.id \notin old
      BY <1>4, <2>1, <2>4 DEF Timely
    <3>2. v[t.id] = view[t.id]
      BY <2>5
    <3>3. QED
      BY <3>1, <3>2, Zenon DEF DependencySatisfied, DependencyGroundingSatisfied
  <2>7. JustificationSetState(body, body[j[1]], j[2], v, verified, old)
          = JustificationSetState(body, body[j[1]], j[2], view, verified, aged)
    BY <2>5, <2>6, SetStateAgrees
  <2>8. QED
    BY <2>1, <2>7 DEF Compute, view
<1>5. QED
    BY <1>2, <1>4

(* The invariant holds in every reachable state.                           *)
THEOREM PropagationInvariant == Spec => []PropagationInv
<1>1. Init => PropagationInv
    BY DEF Init, PropagationInv, StatusesUpToDate, RootsUpToDate, SetsUpToDate,
           Registered
<1>2. TypeOK /\ TypeOK' /\ Acyclic /\ PropagationInv /\ [Next]_vars => PropagationInv'
    BY PropagationInvStep
<1>3. QED
    BY <1>1, <1>2, TypeCorrect, GraphAcyclic, PTL DEF Spec

(* Whenever no operation is under way, the statuses are a fixpoint of the  *)
(* justification graph, whatever the order in which maps were iterated,    *)
(* facts asserted, retracted, verified and swept, and time passed.         *)
THEOREM StatusesSettled == Spec => []Settled
<1>1. TypeOK /\ Acyclic /\ PropagationInv => Settled
    BY InvImpliesSettled
<1>2. QED
    BY <1>1, TypeCorrect, GraphAcyclic, PropagationInvariant, PTL

(* A retracted fact never has a status again.                              *)
THEOREM RetractionIsFinal == Spec => NoResurrection
<1>1. ASSUME TypeOK, [Next]_vars, NEW f \in retracted
      PROVE  f \in retracted' /\ (derived[f] = Invalid => derived'[f] = Invalid)
  <2>1. CASE \E g \in Fact : AssertFact(g)
    <3>1. PICK g \in Fact : AssertFact(g)
      BY <2>1
    <3>2. g.id # f /\ g.id \in FactId /\ f \in FactId
      BY <1>1, <3>1, FactAssumption
      DEF AssertFact, ValidateAssertFact, FactType, TypeOK
    <3>3. \/ derived' = [derived EXCEPT ![g.id] = g.manual]
          \/ derived' = [derived EXCEPT ![g.id] = Invalid]
      BY <3>1 DEF AssertFact, InitializeRootFact, InitializeDerivedFact
    <3>4. retracted' = retracted
      BY <3>1 DEF AssertFact
    <3>5. QED
      BY <1>1, <3>2, <3>3, <3>4 DEF TypeOK
  <2>2. CASE Propagate
    <3>1. /\ derived' = [derived EXCEPT ![Head(queue)] = NewStatus(Head(queue))]
          /\ retracted' = retracted
      BY <2>2 DEF Propagate
    <3>2. NewStatus(f) = Invalid
      BY DEF NewStatus
    <3>3. f \in FactId
      BY <1>1 DEF TypeOK
    <3>4. QED
      BY <1>1, <3>1, <3>2, <3>3 DEF TypeOK
  <2>3. CASE derived' = derived /\ retracted \subseteq retracted'
    BY <2>3
  <2>4. QED
    BY <1>1, <2>1, <2>2, <2>3
    DEF Next, vars, InvalidateRoot, SetRootConfidence, RetractFact,
        SetFactVerification, Expire, Age, SweepExpiredFacts, SweepNext
<1>2. TypeOK /\ [Next]_vars =>
         [\A f \in retracted : /\ f \in retracted'
                               /\ derived[f] = Invalid => derived'[f] = Invalid]_vars
    BY <1>1
<1>3. QED
    BY <1>2, TypeCorrect, PTL DEF Spec, NoResurrection

-----------------------------------------------------------------------------
(* Uniqueness                                                              *)

(* Two labellings of an acyclic graph cannot differ: a fact on which they  *)
(* do and none of whose parents they do on would be labelled alike.        *)
LEMMA LabellingUnique ==
    ASSUME TypeOK, Acyclic, PropagationInv, Settled, ~ Locked,
           expired \subseteq retracted, aged = {},
           NEW L \in [Registered -> Status], IsLabelling(L)
    PROVE  L = [f \in Registered |-> derived[f]]
<1> DEFINE D == {f \in Registered : L[f] # derived[f]}
<1>1. /\ \A f \in Registered : derived[f] = NewStatus(f)
      /\ \A j \in DOMAIN jset :
            jset[j] = Compute(body[j[1]], j[2], derived, verified)
  <2>1. \A j \in DOMAIN jset : Timely(j)
    BY DEF Timely
  <2>2. QED
    BY <2>1 DEF Settled
<1>2. \A p \in Registered : EffectiveStatus(p, derived) = derived[p]
  <2> TAKE p \in Registered
  <2>1. CASE p \in retracted
    BY <1>1, <2>1 DEF NewStatus, EffectiveStatus
  <2>2. CASE p \notin retracted
    <3>1. queue # <<p>>
      BY DEF Locked
    <3>2. body[p].isRoot => derived[p] = manual[p]
      BY <2>2, <3>1 DEF PropagationInv, RootsUpToDate
    <3>3. QED
      BY <2>2, <3>2 DEF EffectiveStatus
  <2>3. QED
    BY <2>1, <2>2
<1>3. ASSUME D # {}
      PROVE  FALSE
  <2>1. D \subseteq Registered
    OBVIOUS
  <2>2. PICK f \in D : Parents(f) \cap D = {}
    BY <1>3, <2>1 DEF Acyclic
  <2>3. f \in Registered /\ L[f] # derived[f]
    OBVIOUS
  <2>4. ASSUME NEW j \in DOMAIN jset, j[1] = f
        PROVE  JustificationSetState(body, body[f], j[2], L, verified, aged)
                 = jset[j]
    <3> DEFINE view == [p \in ParentIds(j[2]) |-> EffectiveStatus(p, derived)]
    <3>1. ParentIds(j[2]) \subseteq Parents(f)
      BY <2>4 DEF Parents
    <3>2. \A t \in j[2] : t.id \in ParentIds(j[2])
      BY DEF ParentIds
    <3>3. \A p \in ParentIds(j[2]) : p \in Registered /\ L[p] = derived[p]
      BY <2>2, <2>3, <3>1 DEF Acyclic
    <3>4. \A t \in j[2] : L[t.id] = view[t.id]
      BY <1>2, <3>2, <3>3
    <3> HIDE DEF view
    <3>5. JustificationSetState(body, body[f], j[2], L, verified, aged)
            = JustificationSetState(body, body[f], j[2], view, verified, aged)
      <4>1. \A t \in j[2] :
              DependencySatisfied(body, body[f], t, L[t.id], verified, aged)
              <=> DependencySatisfied(body, body[f], t, view[t.id], verified, aged)
        BY <3>4
      <4>2. QED
        BY <3>4, <4>1, SetStateAgrees
    <3>6. QED
      BY <1>1, <2>4, <3>5 DEF Compute, view
  <2> DEFINE J  == {k \in DOMAIN jset : k[1] = f}
             C1 == {JustificationSetState(body, body[f], j[2], L, verified,
                                          aged).conf : j \in J}
             C2 == {jset[j].conf : j \in J}
             G1 == GreatestOf({Invalid} \cup {c \in C1 : c >= Threshold})
             G2 == GreatestOf({Invalid} \cup {c \in C2 : c >= Threshold})
  <2>5. C1 = C2
    BY <2>4, Zenon
  <2>6. L[f] = IF f \in retracted THEN Invalid
               ELSE IF body[f].isRoot THEN manual[f] ELSE G1
    BY <2>3, Zenon DEF IsLabelling
  <2>7. NewStatus(f) = IF f \in retracted THEN Invalid
                       ELSE IF body[f].isRoot THEN manual[f] ELSE G2
    BY Zenon DEF NewStatus
  <2> HIDE DEF J, C1, C2
  <2>8. G1 = G2
    BY <2>5, Zenon
  <2> HIDE DEF G1, G2
  <2>9. QED
    BY <1>1, <2>3, <2>6, <2>7, <2>8
<1>4. QED
    BY <1>3

(* Once time has been caught up with, the statuses are determined by the   *)
(* graph, the manual statuses, the retractions and the verifications.      *)
THEOREM StatusesConfluent == Spec => []Confluent
<1>1. TypeOK /\ Acyclic /\ PropagationInv /\ Settled => Confluent
    BY LabellingUnique DEF Confluent
<1>2. QED
    BY <1>1, TypeCorrect, GraphAcyclic, PropagationInvariant, StatusesSettled, PTL

-----------------------------------------------------------------------------
(* Support                                                                 *)

(* A set is worth the threshold iff each of its dependencies is satisfied  *)
(* with at least that confidence.                                          *)
LEMMA SetStateAboveThreshold ==
    ASSUME NEW facts, NEW child, NEW s \in SUBSET Token, NEW view, NEW ver,
           NEW old, \A t \in s : view[t.id] \in Status
    PROVE  JustificationSetState(facts, child, s, view, ver, old).conf >= Threshold
             <=> \A t \in s :
                   /\ DependencySatisfied(facts, child, t, view[t.id], ver, old)
                   /\ DependencyConfidence(view[t.id], t.neg) >= Threshold
<1> DEFINE sat(t) == DependencySatisfied(facts, child, t, view[t.id], ver, old)
           conf(t) == DependencyConfidence(view[t.id], t.neg)
           C == {Valid} \cup {conf(t) : t \in s}
<1>1. C \subseteq Status
    BY StatusAssumption DEF DependencyConfidence
<1>2. Valid \in C /\ \A t \in s : conf(t) \in C
    OBVIOUS
<1>3. \A c \in C : c = Valid \/ \E t \in s : c = conf(t)
    OBVIOUS
<1>4. JustificationSetState(facts, child, s, view, ver, old).conf
        = IF \A t \in s : sat(t) THEN LeastOf(C) ELSE Invalid
    BY DEF JustificationSetState
<1> HIDE DEF C, sat, conf
<1>5. C \subseteq Nat /\ C # {}
    BY <1>1, <1>2, StatusAssumption
<1>6. LeastOf(C) \in C /\ \A c \in C : LeastOf(C) <= c
    BY <1>5, LeastOfMember
<1>7. LeastOf(C) >= Threshold <=> \A t \in s : conf(t) >= Threshold
  <2>1. ASSUME LeastOf(C) >= Threshold, NEW t \in s
        PROVE  conf(t) >= Threshold
    <3>1. LeastOf(C) <= conf(t) /\ conf(t) \in Nat /\ LeastOf(C) \in Nat
      BY <1>2, <1>5, <1>6
    <3>2. QED
      BY <2>1, <3>1, StatusAssumption
  <2>2. ASSUME \A t \in s : conf(t) >= Threshold
        PROVE  LeastOf(C) >= Threshold
    BY <1>3, <1>6, <2>2, StatusAssumption
  <2>3. QED
    BY <2>1, <2>2
<1>8. ~ (Invalid >= Threshold)
    BY StatusAssumption DEF Invalid
<1>9. QED
  <2>1. CASE \A t \in s : sat(t)
    BY <1>4, <1>7, <2>1 DEF sat, conf
  <2>2. CASE ~ \A t \in s : sat(t)
    BY <1>4, <1>8, <2>2 DEF sat, conf
  <2>3. QED
    BY <2>1, <2>2

(* A settled status reaches the threshold iff some justification holds.    *)
LEMMA SettledMeansSupported ==
    ASSUME TypeOK, Settled
    PROVE  ValidIffSupported
<1> SUFFICES ASSUME ~ Locked, NEW f \in Registered \ retracted,
                    ~ body[f].isRoot,
                    \A j \in DOMAIN jset : j[1] = f => Timely(j)
             PROVE  derived[f] >= Threshold <=> Supported(f)
    BY DEF ValidIffSupported
<1> DEFINE C == {jset[j].conf : j \in {k \in DOMAIN jset : k[1] = f}}
           G == {Invalid} \cup {c \in C : c >= Threshold}
<1>1. derived[f] = GreatestOf(G)
  <2>1. derived[f] = NewStatus(f)
    BY DEF Settled
  <2>2. QED
    BY <2>1, Zenon DEF NewStatus
<1>2. C \subseteq Status
    BY DEF TypeOK
<1>3. G \subseteq 0..Valid /\ G # {} /\ Valid \in Nat
  <2>1. Invalid \in G
    OBVIOUS
  <2>2. QED
    BY <1>2, <2>1, StatusAssumption
<1>4. GreatestOf(G) \in G /\ \A c \in G : GreatestOf(G) >= c
  <2> HIDE DEF G
  <2>1. QED
    BY <1>3, GreatestOfMember
<1>5. derived[f] >= Threshold <=> \E j \in DOMAIN jset : j[1] = f /\ jset[j].conf >= Threshold
  <2>1. ~ (Invalid >= Threshold)
    BY StatusAssumption DEF Invalid
  <2>2. ASSUME derived[f] >= Threshold
        PROVE  \E j \in DOMAIN jset : j[1] = f /\ jset[j].conf >= Threshold
    BY <1>1, <1>4, <2>1, <2>2
  <2>3. ASSUME NEW j \in DOMAIN jset, j[1] = f, jset[j].conf >= Threshold
        PROVE  derived[f] >= Threshold
    <3>1. jset[j].conf \in G
      BY <2>3
    <3>2. GreatestOf(G) >= jset[j].conf
      BY <1>4, <3>1
    <3>3. GreatestOf(G) \in Nat /\ jset[j].conf \in Nat /\ Threshold \in Nat
      BY <1>3, <1>4, <3>1, StatusAssumption
    <3> HIDE DEF G
    <3>4. QED
      BY <1>1, <2>3, <3>2, <3>3
  <2>4. QED
    BY <2>2, <2>3
<1>6. ASSUME NEW j \in DOMAIN jset, j[1] = f
      PROVE  jset[j].conf >= Threshold <=>
               \A t \in j[2] :
                 /\ DependencySatisfied(body, body[f], t,
                      EffectiveStatus(t.id, derived), verified, aged)
                 /\ DependencyConfidence(EffectiveStatus(t.id, derived), t.neg)
                      >= Threshold
  <2> DEFINE view == [p \in ParentIds(j[2]) |-> EffectiveStatus(p, derived)]
  <2>1. jset[j] = Compute(body[f], j[2], derived, verified)
    BY <1>6 DEF Settled
  <2>2. DOMAIN jset = JSetIds /\ derived \in [FactId -> Status]
    BY DEF TypeOK
  <2>3. j[2] \subseteq Token /\ ParentIds(j[2]) \subseteq FactId
    BY <2>2, JSetIdType
  <2>4. \A t \in j[2] : t.id \in ParentIds(j[2])
    BY DEF ParentIds
  <2>5. \A t \in j[2] : /\ view[t.id] = EffectiveStatus(t.id, derived)
                        /\ view[t.id] \in Status
    BY <2>2, <2>3, <2>4, EffectiveStatusType
  <2> HIDE DEF view
  <2>6. jset[j] = JustificationSetState(body, body[f], j[2], view, verified, aged)
    BY <2>1 DEF Compute, view
  <2>7. QED
    BY <2>3, <2>5, <2>6, SetStateAboveThreshold
<1>7. QED
    BY <1>5, <1>6 DEF Supported

(* A derived fact is believed exactly when a justification of it holds.    *)
THEOREM BeliefIffSupport == Spec => []ValidIffSupported
<1>1. TypeOK /\ Settled => ValidIffSupported
    BY SettledMeansSupported
<1>2. QED
    BY <1>1, TypeCorrect, StatusesSettled, PTL


-----------------------------------------------------------------------------
(* What readers are told: GetStatus on chains                              *)

(* A query changes nothing an operation of the engine changes.             *)
LEMMA QueryStepIsStep == [QueryNext]_queryVars => [Next]_vars
BY DEF QueryNext, queryVars, EngineStep, RecomputeDominators, GetImpact,
   SimulateJustificationSet, SimulateNextFact, ReturnImpact

LEMMA QueriesRefineEngine == QuerySpec => Spec
<1>1. QueryInit => Init
    BY DEF QueryInit
<1>2. QED
    BY <1>1, QueryStepIsStep, PTL DEF QuerySpec, Spec

(* In a fresh dominator tree a root has no dominator above it, and a fact  *)
(* with one positive dependency has that one.                              *)
TreeInv ==
    ~ dirty =>
        /\ idom \in [Registered -> Registered \cup {None}]
        /\ \A f \in Registered : body[f].isRoot => idom[f] = None
        /\ \A f, p \in Registered :
              ~ body[f].isRoot /\ body[f].sets = {{[id |-> p, neg |-> FALSE]}} => idom[f] = p

LEMMA LCAOfOne ==
    ASSUME NEW D, NEW x, NEW q, Len(q) = 1, q[1] = x
    PROVE  LCASeq(D, q) = x
<1> DEFINE fold[i \in 1..Len(q)] == IF i = 1 THEN q[1] ELSE LCA(D, fold[i - 1], q[i])
           one == [i \in 1..Len(q) |-> x]
<1>1. LCASeq(D, q) = fold[Len(q)]
    BY DEF LCASeq
<1>2. fold = CHOOSE g : g = [i \in 1..Len(q) |-> IF i = 1 THEN q[1] ELSE LCA(D, g[i - 1], q[i])]
    OBVIOUS
<1>3. one = [i \in 1..Len(q) |-> IF i = 1 THEN q[1] ELSE LCA(D, one[i - 1], q[i])]
    OBVIOUS
<1> HIDE DEF fold, one
<1>4. fold = [i \in 1..Len(q) |-> IF i = 1 THEN q[1] ELSE LCA(D, fold[i - 1], q[i])]
    BY <1>2, <1>3
<1>5. 1 \in 1..Len(q)
    OBVIOUS
<1>6. QED
    BY <1>1, <1>4, <1>5

LEMMA OrderOfOne ==
    ASSUME NEW x, NEW q \in Orders({x})
    PROVE  Len(q) = 1 /\ q[1] = x /\ DOMAIN q = 1..1
<1>1. Cardinality({x}) = 1
    BY FS_Singleton
<1>2. q \in [1..1 -> {x}]
    BY <1>1 DEF Orders
<1>3. q \in Seq({x}) /\ Len(q) = 1
  <2>1. 1 \in Nat /\ q = [i \in 1..1 |-> q[i]] /\ \A i \in 1..1 : q[i] \in {x}
      BY <1>2
  <2>2. QED
      BY <2>1
<1>4. QED
    BY <1>2, <1>3

LEMMA FactIDomOf ==
    ASSUME NEW x, NEW D, NEW f, x \in FactIDoms(D, f)
    PROVE  \E q \in Orders(body[f].sets), choice \in [body[f].sets -> Registered \cup {None}] :
              /\ \A s \in body[f].sets : choice[s] \in SetIDoms(D, s)
              /\ x = LCASeq(D, [i \in DOMAIN q |-> choice[q[i]]])
BY DEF FactIDoms

LEMMA TreeOfChain ==
    ASSUME NEW D \in DominatorTrees, NEW f \in Registered, NEW p \in Registered,
           ~ body[f].isRoot, body[f].sets = {{[id |-> p, neg |-> FALSE]}}
    PROVE  D[f] = p
<1> DEFINE s == {[id |-> p, neg |-> FALSE]}
<1>1. body[f].sets = {s} /\ ParentIds(s) = {p}
    BY DEF ParentIds
<1> HIDE DEF s
<1>2. D[f] \in FactIDoms(D, f)
    BY DEF DominatorTrees
<1>3. PICK q \in Orders({s}), choice \in [{s} -> Registered \cup {None}] :
         choice[s] \in SetIDoms(D, s) /\ D[f] = LCASeq(D, [i \in DOMAIN q |-> choice[q[i]]])
  <2>1. PICK q \in Orders(body[f].sets), choice \in [body[f].sets -> Registered \cup {None}] :
            /\ \A t \in body[f].sets : choice[t] \in SetIDoms(D, t)
            /\ D[f] = LCASeq(D, [i \in DOMAIN q |-> choice[q[i]]])
      BY ONLY <1>2, FactIDomOf
  <2>2. s \in body[f].sets /\ q \in Orders({s})
      BY <1>1, <2>1
  <2>3. choice[s] \in SetIDoms(D, s)
      BY <2>1, <2>2
  <2>4. QED
      BY <2>1, <2>2, <2>3
<1>4. Len(q) = 1 /\ q[1] = s /\ DOMAIN q = 1..1
    BY <1>3, OrderOfOne
<1>5. choice[s] = p
  <2>1. choice[s] \in SetIDoms(D, s)
      BY <1>3
  <2>2. \E o \in Orders(ParentIds(s)) : choice[s] = LCASeq(D, o)
      BY <2>1 DEF SetIDoms
  <2>3. PICK o \in Orders({p}) : choice[s] = LCASeq(D, o)
      BY <1>1, <2>2
  <2>4. Len(o) = 1 /\ o[1] = p
      BY OrderOfOne
  <2>5. LCASeq(D, o) = p
      BY <2>4, LCAOfOne
  <2>6. QED
      BY <2>3, <2>5
<1> DEFINE r == [i \in DOMAIN q |-> choice[q[i]]]
<1>6. r \in Seq({p}) /\ Len(r) = 1 /\ r[1] = p
  <2>1. r \in [1..1 -> {p}]
      BY <1>4, <1>5
  <2>2. QED
      BY <2>1
<1> HIDE DEF r
<1>7. LCASeq(D, r) = p
    BY <1>6, LCAOfOne
<1>8. QED
    BY <1>3, <1>7 DEF r

LEMMA TreeInvStep ==
    ASSUME TreeInv, [QueryNext]_queryVars
    PROVE  TreeInv'
<1>1. CASE UNCHANGED <<body, idom, dirty>>
    BY <1>1 DEF TreeInv, Registered
<1>2. CASE EngineStep
    BY <1>2 DEF EngineStep, TreeInv, Registered
<1>3. CASE RecomputeDominators
  <2>1. PICK D \in DominatorTrees : idom' = D
      BY <1>3 DEF RecomputeDominators
  <2>2. body' = body
      BY <1>3 DEF RecomputeDominators, vars
  <2>3. /\ D \in [Registered -> Registered \cup {None}]
        /\ \A f \in Registered : body[f].isRoot => D[f] = None
      BY <2>1 DEF DominatorTrees
  <2>4. \A f, p \in Registered :
           ~ body[f].isRoot /\ body[f].sets = {{[id |-> p, neg |-> FALSE]}} => D[f] = p
      BY <2>1, TreeOfChain
  <2>5. QED
      BY <2>1, <2>2, <2>3, <2>4 DEF TreeInv, Registered
<1>4. QED
    BY <1>1, <1>2, <1>3 DEF QueryNext, queryVars, vars, GetImpact,
       SimulateJustificationSet, SimulateNextFact, ReturnImpact


(* The ancestors of a fact: its parents, and the parents of each of them.  *)
LEMMA AncestorsClosed ==
    ASSUME TypeOK, Acyclic, NEW f \in Registered
    PROVE  /\ Parents(f) \subseteq Ancestors(f) /\ Ancestors(f) \subseteq Registered
           /\ \A g \in Ancestors(f) : Parents(g) \subseteq Ancestors(f)
<1> DEFINE D == Registered
           G == [S \in SUBSET D |-> S \cup UNION {Parents(g) : g \in S}]
           above[n \in Nat] == IF n = 0 THEN Parents(f)
                               ELSE above[n - 1] \cup UNION {Parents(g) : g \in above[n - 1]}
<1>1. Ancestors(f) = above[Cardinality(D)]
    BY DEF Ancestors
<1>2. \A g \in D : Parents(g) \in SUBSET D
    BY DEF Acyclic
<1>3. G \in [SUBSET D -> SUBSET D] /\ \A S \in SUBSET D : S \subseteq G[S]
    BY <1>2
<1>4. PICK u : Iterates(SUBSET D, Parents(f), G, u)
  <2> HIDE DEF G
  <2>1. QED
      BY <1>2, <1>3, IterationExists
<1>5. u = [n \in Nat |-> IF n = 0 THEN Parents(f)
                         ELSE u[n - 1] \cup UNION {Parents(g) : g \in u[n - 1]}]
  <2>1. ASSUME NEW n \in Nat, n # 0
        PROVE  u[n] = u[n - 1] \cup UNION {Parents(g) : g \in u[n - 1]}
    <3>1. n - 1 \in Nat /\ (n - 1) + 1 = n
        BY <2>1
    <3>2. u[n] = G[u[n - 1]] /\ u[n - 1] \in SUBSET D
        BY <1>4, <3>1 DEF Iterates
    <3>3. QED
        BY <3>2
  <2> HIDE DEF G
  <2>2. QED
      BY <1>4, <2>1 DEF Iterates
<1>6. above = CHOOSE h : h = [n \in Nat |-> IF n = 0 THEN Parents(f)
                                ELSE h[n - 1] \cup UNION {Parents(g) : g \in h[n - 1]}]
    OBVIOUS
<1> HIDE DEF above
<1>7. above = [n \in Nat |-> IF n = 0 THEN Parents(f)
                             ELSE above[n - 1] \cup UNION {Parents(g) : g \in above[n - 1]}]
    BY <1>5, <1>6
<1>8. \A n \in Nat : above[n] = u[n]
  <2> DEFINE T == {n \in Nat : above[n] = u[n]}
  <2>1. 0 \in T
      BY <1>4, <1>7 DEF Iterates
  <2>2. ASSUME NEW n \in Nat, n \in T PROVE n + 1 \in T
    <3>1. n + 1 \in Nat /\ n + 1 # 0 /\ (n + 1) - 1 = n
        OBVIOUS
    <3>2. above[n + 1] = above[n] \cup UNION {Parents(g) : g \in above[n]}
        BY <1>7, <3>1
    <3>3. u[n + 1] = u[n] \cup UNION {Parents(g) : g \in u[n]}
        BY <1>5, <3>1
    <3>4. QED
        BY <2>2, <3>1, <3>2, <3>3
  <2> HIDE DEF T
  <2>3. \A n \in Nat : n \in T
      BY <2>1, <2>2, ClimbAll
  <2>4. QED
      BY <2>3 DEF T
<1> DEFINE A == u[Cardinality(D)]
<1>9. A \in SUBSET D /\ Parents(f) \subseteq A /\ G[A] = A
  <2>1. IsFiniteSet(D) /\ Parents(f) \in SUBSET D
      BY <1>2, FactIdAssumption, FS_Subset DEF TypeOK
  <2>2. Grows(D, Parents(f), G, u)
    <3> HIDE DEF G, D
    <3>1. QED
        BY <1>3, <1>4, <2>1 DEF Grows
  <2> HIDE DEF G, D, A
  <2>3. /\ u[Cardinality(D)] \in SUBSET D /\ Parents(f) \subseteq u[Cardinality(D)]
        /\ G[u[Cardinality(D)]] = u[Cardinality(D)]
      BY <2>2, GrowthCloses
  <2>4. QED
      BY <2>3 DEF A
<1>10. Ancestors(f) = A
  <2>1. Cardinality(D) \in Nat
      BY FactIdAssumption, FS_Subset, FS_CardinalityType DEF TypeOK
  <2>2. QED
      BY <1>1, <1>8, <2>1
<1> HIDE DEF A
<1>11. \A g \in A : Parents(g) \subseteq A
    BY <1>9
<1>12. QED
    BY <1>9, <1>10, <1>11

(* Whatever holds f and, with a fact, its immediate dominator, holds the   *)
(* path of f.                                                              *)
LEMMA DominatorPathLeast ==
    ASSUME NEW R, IsFiniteSet(R), NEW D \in [R -> R \cup {None}], NEW f \in R,
           NEW C, f \in C, \A g \in C \cap R : D[g] \in C \cup {None}
    PROVE  DominatorPath(D, f) \subseteq C
<1> DEFINE G == [S \in SUBSET R |-> S \cup ({D[g] : g \in S} \ {None})]
           path[n \in Nat] == IF n = 0 THEN {f}
                              ELSE path[n - 1] \cup ({D[g] : g \in path[n - 1]} \ {None})
<1>1. DominatorPath(D, f) = path[Cardinality(R)]
    BY DEF DominatorPath
<1>2. G \in [SUBSET R -> SUBSET R]
    OBVIOUS
<1>3. PICK u : Iterates(SUBSET R, {f}, G, u)
  <2> HIDE DEF G
  <2>1. QED
      BY <1>2, IterationExists
<1>4. u = [n \in Nat |-> IF n = 0 THEN {f}
                         ELSE u[n - 1] \cup ({D[g] : g \in u[n - 1]} \ {None})]
  <2>1. ASSUME NEW n \in Nat, n # 0
        PROVE  u[n] = u[n - 1] \cup ({D[g] : g \in u[n - 1]} \ {None})
    <3>1. n - 1 \in Nat /\ (n - 1) + 1 = n
        BY <2>1
    <3>2. u[n] = G[u[n - 1]] /\ u[n - 1] \in SUBSET R
        BY <1>3, <3>1 DEF Iterates
    <3>3. QED
        BY <3>2
  <2> HIDE DEF G
  <2>2. QED
      BY <1>3, <2>1 DEF Iterates
<1>5. path = CHOOSE h : h = [n \in Nat |-> IF n = 0 THEN {f}
                               ELSE h[n - 1] \cup ({D[g] : g \in h[n - 1]} \ {None})]
    OBVIOUS
<1> HIDE DEF path
<1>6. path = [n \in Nat |-> IF n = 0 THEN {f}
                            ELSE path[n - 1] \cup ({D[g] : g \in path[n - 1]} \ {None})]
    BY <1>4, <1>5
<1> DEFINE T == {n \in Nat : path[n] \subseteq C \cap R}
<1>7. 0 \in T
    BY <1>6
<1>8. ASSUME NEW n \in Nat, n \in T PROVE n + 1 \in T
  <2>1. n + 1 \in Nat /\ n + 1 # 0 /\ (n + 1) - 1 = n
      OBVIOUS
  <2>2. path[n + 1] = path[n] \cup ({D[g] : g \in path[n]} \ {None})
      BY <1>6, <2>1
  <2>3. \A g \in path[n] : D[g] \in (C \cap R) \cup {None}
      BY <1>8
  <2>4. QED
      BY <1>8, <2>1, <2>2, <2>3
<1>9. \A n \in Nat : n \in T
  <2> HIDE DEF T
  <2>1. QED
      BY <1>7, <1>8, ClimbAll
<1>10. QED
    BY <1>1, <1>9, FS_CardinalityType

(* On a chain a fact whose one parent is below the threshold is invalid.   *)
LEMMA ChainFalls ==
    ASSUME TypeOK, Settled, SetsUpToDate, ~ Locked,
           NEW f \in Registered, NEW p \in Registered, ~ body[f].isRoot,
           body[f].sets = {{[id |-> p, neg |-> FALSE]}}, derived[p] < Threshold
    PROVE  derived[f] < Threshold
<1> DEFINE t == [id |-> p, neg |-> FALSE]
           j == <<f, {t}>>
<1>1. DOMAIN jset = JSetIds /\ {k \in DOMAIN jset : k[1] = f} = {j}
    BY DEF TypeOK, JSetIds
<1>2. t.id = p /\ t.neg = FALSE /\ j[1] = f /\ j[2] = {t} /\ ParentIds({t}) = {p}
    BY DEF ParentIds
<1> HIDE DEF t
<1>3. j \in DOMAIN jset
    BY <1>1
<1> HIDE DEF j
<1>4. PICK v \in [ParentIds(j[2]) -> Status], old \in SUBSET aged :
         /\ \A g \in ParentIds(j[2]) :
               \/ v[g] = derived[g]
               \/ g \in expired \cup retracted /\ v[g] = Invalid
         /\ jset[j] = JustificationSetState(body, body[j[1]], j[2], v, verified, old)
    BY <1>3, SetsUpToDateMember
<1>5. v[p] < Threshold
  <2>1. Invalid < Threshold
      BY StatusAssumption DEF Invalid
  <2>2. QED
      BY <1>2, <1>4, <2>1
<1>6. ~ DependencySatisfied(body, body[f], t, v[t.id], verified, old)
  <2>1. v[p] \in Nat /\ Threshold \in Nat
    <3>1. p \in ParentIds(j[2])
        BY <1>2
    <3>2. v[p] \in Status
        BY <1>4, <3>1
    <3>3. \A x \in Status : x \in Nat
        BY ONLY StatusAssumption
    <3>4. Threshold \in Nat
        BY ONLY StatusAssumption
    <3>5. QED
        BY <3>2, <3>3, <3>4
  <2>2. ~ (v[p] >= Threshold)
      BY <1>5, <2>1
  <2>3. QED
      BY <1>2, <2>2 DEF DependencySatisfied
<1>7. jset[j].conf = Invalid
  <2> DEFINE sat(x) == DependencySatisfied(body, body[f], x, v[x.id], verified, old)
  <2>1. jset[j] = JustificationSetState(body, body[f], {t}, v, verified, old)
      BY <1>2, <1>4
  <2>2. ~ \A x \in {t} : sat(x)
      BY <1>6
  <2>3. JustificationSetState(body, body[f], {t}, v, verified, old).conf =
           IF \A x \in {t} : sat(x)
           THEN LeastOf({Valid} \cup {DependencyConfidence(v[x.id], x.neg) : x \in {t}})
           ELSE Invalid
      BY DEF JustificationSetState
  <2> HIDE DEF sat
  <2>4. QED
      BY <2>1, <2>2, <2>3
<1>8. NewStatus(f) = Invalid
  <2>1. {jset[k].conf : k \in {k \in DOMAIN jset : k[1] = f}} = {Invalid}
      BY <1>1, <1>7
  <2>2. {c \in {jset[k].conf : k \in {k \in DOMAIN jset : k[1] = f}} : c >= Threshold} = {}
      BY <2>1, StatusAssumption DEF Invalid
  <2>3. GreatestOf({Invalid}) = Invalid
    <3>1. {Invalid} \subseteq 0..1 /\ {Invalid} # {}
        BY DEF Invalid
    <3>2. QED
        BY <3>1, GreatestOfMember
  <2>4. {Invalid} \cup {} = {Invalid}
      OBVIOUS
  <2>5. QED
      BY <2>2, <2>3, <2>4 DEF NewStatus
<1>9. QED
    BY <1>8, StatusAssumption DEF Settled, Invalid

(* A collapsed root has no status, and a fact without a status is not      *)
(* reported to have one.                                                   *)
LEMMA CollapsedFallen ==
    ASSUME TypeOK, Settled, CollapsedExact, ~ Locked, NEW r \in collapsed
    PROVE  r \in Registered /\ derived[r] < Threshold
<1>1. r \in Registered /\ body[r].isRoot /\ manual[r] < Threshold
    BY DEF CollapsedExact
<1>2. derived[r] = NewStatus(r)
    BY <1>1 DEF Settled
<1>3. NewStatus(r) = Invalid \/ NewStatus(r) = manual[r]
    BY <1>1 DEF NewStatus
<1>4. Invalid < Threshold
    BY StatusAssumption DEF Invalid
<1>5. QED
    BY <1>1, <1>2, <1>3, <1>4

LEMMA FallenIsResolved ==
    ASSUME TypeOK, Settled, ~ Locked, NEW f \in Registered, derived[f] < Threshold
    PROVE  EffectiveStatus(f, derived) < Threshold
<1>1. derived[f] = NewStatus(f)
    BY DEF Settled
<1>2. Invalid < Threshold
    BY StatusAssumption DEF Invalid
<1>3. CASE f \in retracted \cup expired
    BY <1>2, <1>3 DEF EffectiveStatus
<1>4. CASE f \notin retracted \cup expired /\ body[f].isRoot
  <2>1. NewStatus(f) = manual[f] /\ EffectiveStatus(f, derived) = manual[f]
      BY <1>4 DEF NewStatus, EffectiveStatus
  <2>2. QED
      BY <1>1, <2>1
<1>5. CASE f \notin retracted \cup expired /\ ~ body[f].isRoot
  <2>1. EffectiveStatus(f, derived) = derived[f]
      BY <1>5 DEF EffectiveStatus
  <2>2. QED
      BY <2>1
<1>6. QED
    BY <1>3, <1>4, <1>5

LEMMA ChainResolves ==
    ASSUME TypeOK, Acyclic, PropagationInv, Settled, CollapsedExact, TreeInv,
           ~ Locked, ~ dirty, NEW f \in Registered, OnChain(f)
    PROVE  GetStatus(f) = ResolvedStatus(f)
<1>1. SUFFICES ASSUME NEW r \in collapsed, r \in DominatorPath(idom, f)
               PROVE  EffectiveStatus(f, derived) < Threshold
    BY DEF GetStatus, ResolvedStatus, IsDominatorAncestor
<1> DEFINE A == Ancestors(f) \cup {f}
           C == {g \in A : derived[g] < Threshold => derived[f] < Threshold}
<1>2. A \subseteq Registered /\ \A g \in A : Parents(g) \subseteq A
    BY AncestorsClosed
<1>3. idom \in [Registered -> Registered \cup {None}] /\ IsFiniteSet(Registered)
    BY FactIdAssumption, FS_Subset DEF TreeInv, TypeOK
<1>4. ASSUME NEW g \in A, derived[g] < Threshold => derived[f] < Threshold, idom[g] # None
      PROVE  idom[g] \in A /\ (derived[idom[g]] < Threshold => derived[f] < Threshold)
  <2>1. ~ body[g].isRoot
      BY <1>2, <1>4 DEF TreeInv
  <2>2. PICK p \in Registered : body[g].sets = {{[id |-> p, neg |-> FALSE]}}
      BY <2>1 DEF OnChain
  <2>3. idom[g] = p
      BY <1>2, <2>1, <2>2 DEF TreeInv
  <2>4. p \in Parents(g)
    <3>1. <<g, {[id |-> p, neg |-> FALSE]}>> \in DOMAIN jset
        BY <1>2, <2>1, <2>2 DEF TypeOK, JSetIds
    <3>2. p \in ParentIds({[id |-> p, neg |-> FALSE]})
        BY DEF ParentIds
    <3> DEFINE j == <<g, {[id |-> p, neg |-> FALSE]}>>
    <3>3. j[1] = g /\ j[2] = {[id |-> p, neg |-> FALSE]}
        OBVIOUS
    <3> HIDE DEF j
    <3>4. j \in {k \in DOMAIN jset : k[1] = g} /\ p \in ParentIds(j[2])
        BY <3>1, <3>2, <3>3 DEF j
    <3>5. QED
        BY <3>4 DEF Parents
  <2>5. derived[p] < Threshold => derived[g] < Threshold
      BY <1>2, <2>1, <2>2, ChainFalls DEF PropagationInv
  <2>6. QED
      BY <1>2, <1>4, <2>3, <2>4, <2>5
<1> HIDE DEF A
<1>5. f \in C /\ \A g \in C \cap Registered : idom[g] \in C \cup {None}
    BY <1>4 DEF A
<1>6. DominatorPath(idom, f) \subseteq C
  <2> HIDE DEF C
  <2>1. QED
      BY <1>3, <1>5, DominatorPathLeast
<1>7. derived[f] < Threshold
    BY <1>1, <1>6, CollapsedFallen
<1>8. QED
    BY <1>7, FallenIsResolved

(* On a chain of positive dependencies the pruning by the cached dominator *)
(* tree never changes the answer of GetStatus, in whatever order facts     *)
(* were asserted, collapsed and restored.                                  *)
THEOREM ChainStatusesResolve == QuerySpec => []ChainsResolve
<1>1. QueryInit => TreeInv
    BY DEF QueryInit, Init, TreeInv, Registered
<1>2. TypeOK /\ Acyclic /\ PropagationInv /\ Settled /\ CollapsedExact /\ TreeInv => ChainsResolve
    BY ChainResolves DEF ChainsResolve
<1>3. TreeInv /\ [QueryNext]_queryVars => TreeInv'
    BY TreeInvStep
<1>4. QuerySpec => []TreeInv
    BY <1>1, <1>3, PTL DEF QuerySpec
<1>5. QED
    BY <1>2, <1>4, QueriesRefineEngine, TypeCorrect, GraphAcyclic, PropagationInvariant,
       StatusesSettled, CollapsedRootsExact, PTL


-----------------------------------------------------------------------------
(* What readers are told: GetImpact where nothing is negated               *)

(* The graphs MonotoneImpactExact is about.                                *)
Monotone ==
    /\ retracted = {} /\ expired = {} /\ aged = {}
    /\ \A j \in DOMAIN jset : \A t \in j[2] : ~ t.neg

(* Every parent of the set is satisfied if the statuses are those of view. *)
Meets(j, view) ==
    \A t \in j[2] : DependencySatisfied(body, body[j[1]], t, view[t.id], verified, aged)

(* A simulation s has still to look at a set when a parent of it has       *)
(* fallen and waits on the queue, or is the one being processed.           *)
Pending(s, j) ==
    j \in s.todo \/ \E i \in 2..Len(s.queue) : s.queue[i] \in ParentIds(j[2])

SimType(s) ==
    /\ DOMAIN s = {"root", "status", "conf", "impacted", "queue", "todo"}
    /\ s.root \in Registered
    /\ s.status \in [Registered -> Status]
    /\ s.conf \in [DOMAIN jset -> Status]
    /\ s.impacted \subseteq Registered /\ s.root \in s.impacted
    /\ s.queue \in Seq(Registered) /\ s.queue # <<>>
    /\ s.todo \subseteq DOMAIN jset

(* A set counts for a fact exactly when its parents, as far as they have   *)
(* been simulated, satisfy it, unless it is still to be looked at.         *)
SetsSimulated(s) ==
    \A j \in DOMAIN jset :
        /\ s.conf[j] = Invalid \/ s.conf[j] >= Threshold
        /\ Meets(j, s.status) => s.conf[j] >= Threshold
        /\ s.conf[j] >= Threshold /\ ~ Pending(s, j) => Meets(j, s.status)

(* A fact has the simulated status of its sets, and those that fell below  *)
(* the threshold are the ones counted as impacted.                         *)
FactsSimulated(s) ==
    \A g \in Registered :
        /\ s.status[g] = IF g = s.root THEN Invalid
                         ELSE IF body[g].isRoot THEN manual[g]
                         ELSE SimulatedDerivedStatus(g, s.conf)
        /\ g # s.root =>
             IF g \in s.impacted
             THEN EffectiveStatus(g, derived) >= Threshold /\ ~ (s.status[g] >= Threshold)
             ELSE s.status[g] >= Threshold <=> EffectiveStatus(g, derived) >= Threshold

SimInv ==
    sim # None /\ Monotone /\ body[sim.root].isRoot =>
        SimType(sim) /\ SetsSimulated(sim) /\ FactsSimulated(sim)

(* What a set without negation is worth: nothing, or the threshold when    *)
(* its parents satisfy it.                                                 *)
LEMMA PlainSetState ==
    ASSUME TypeOK, NEW j \in DOMAIN jset, \A t \in j[2] : ~ t.neg,
           NEW view, \A t \in j[2] : view[t.id] \in Status,
           NEW c, c = JustificationSetState(body, body[j[1]], j[2], view, verified, aged).conf
    PROVE  /\ c \in Status
           /\ c >= Threshold <=> Meets(j, view)
           /\ c = Invalid \/ c >= Threshold
<1> DEFINE state == JustificationSetState(body, body[j[1]], j[2], view, verified, aged)
<1>1. j[2] \in SUBSET Token
    BY JSetIdType DEF TypeOK
<1>2. c \in Status
  <2>1. state \in [valid : Nat, conf : Status]
    BY <1>1, SetStateType
  <2> HIDE DEF state
  <2>2. state.conf \in Status
    BY <2>1
  <2>3. QED
    BY <2>2 DEF state
<1>3. c >= Threshold <=>
        \A t \in j[2] :
          /\ DependencySatisfied(body, body[j[1]], t, view[t.id], verified, aged)
          /\ DependencyConfidence(view[t.id], t.neg) >= Threshold
    BY <1>1, SetStateAboveThreshold
<1>4. ASSUME NEW t \in j[2],
             DependencySatisfied(body, body[j[1]], t, view[t.id], verified, aged)
      PROVE  DependencyConfidence(view[t.id], t.neg) >= Threshold
    BY <1>4 DEF DependencySatisfied, DependencyConfidence
<1>5. c >= Threshold <=> Meets(j, view)
    BY <1>3, <1>4 DEF Meets
<1>6. ~ Meets(j, view) => c = Invalid
    BY DEF Meets, JustificationSetState
<1>7. QED
    BY <1>2, <1>5, <1>6

(* The best of the confidences that reach the threshold, or Invalid.       *)
LEMMA BestAbove ==
    ASSUME NEW C, C \subseteq Status,
           NEW G, G = {Invalid} \cup {c \in C : c >= Threshold}
    PROVE  /\ GreatestOf(G) \in Status
           /\ GreatestOf(G) >= Threshold <=> \E c \in C : c >= Threshold
           /\ (\A c \in C : c = Invalid \/ c >= Threshold) =>
                GreatestOf(G) = GreatestOf({Invalid} \cup C)
<1>1. G \subseteq Status /\ G # {} /\ Status \subseteq 0..Valid /\ Valid \in Nat
      /\ Threshold \in Nat /\ ~ (Invalid >= Threshold)
  <2>1. Status \subseteq 0..Valid /\ Valid \in Nat /\ Threshold \in Nat /\ Invalid \in Status
    BY StatusAssumption
  <2>2. ~ (Invalid >= Threshold)
    BY StatusAssumption DEF Invalid
  <2>3. G \subseteq Status /\ Invalid \in G
    BY <2>1, Zenon
  <2>4. QED
    BY <2>1, <2>2, <2>3
<1>2. GreatestOf(G) \in G /\ \A c \in G : GreatestOf(G) >= c
  <2>1. G \subseteq 0..Valid
    BY <1>1
  <2>2. QED
    BY <1>1, <2>1, GreatestOfMember
<1>3. GreatestOf(G) \in Status
    BY <1>1, <1>2
<1>4. ASSUME NEW c \in C, c >= Threshold PROVE GreatestOf(G) >= Threshold
  <2>1. GreatestOf(G) >= c
    BY <1>2, <1>4
  <2>2. GreatestOf(G) \in 0..Valid /\ c \in 0..Valid
    BY <1>1, <1>3, Zenon
  <2>3. QED
    BY ONLY <1>1, <1>4, <2>1, <2>2
<1>5. GreatestOf(G) >= Threshold => \E c \in C : c >= Threshold
    BY <1>1, <1>2
<1>6. (\A c \in C : c = Invalid \/ c >= Threshold) => G = {Invalid} \cup C
    OBVIOUS
<1>7. QED
    BY <1>3, <1>4, <1>5, <1>6

(* simulatedDerivedStatusUnsafe agrees with propagate where no set is      *)
(* worth something below the threshold.                                    *)
LEMMA SimulatedBest ==
    ASSUME NEW conf, \A j \in DOMAIN conf : conf[j] \in Status,
           \A j \in DOMAIN conf : conf[j] = Invalid \/ conf[j] >= Threshold, NEW f
    PROVE  /\ SimulatedDerivedStatus(f, conf) \in Status
           /\ SimulatedDerivedStatus(f, conf) = Invalid
              \/ SimulatedDerivedStatus(f, conf) >= Threshold
           /\ SimulatedDerivedStatus(f, conf) >= Threshold
                <=> \E j \in DOMAIN conf : j[1] = f /\ conf[j] >= Threshold
           /\ SimulatedDerivedStatus(f, conf) =
                GreatestOf({Invalid} \cup
                   {c \in {conf[j] : j \in {k \in DOMAIN conf : k[1] = f}} : c >= Threshold})
<1> DEFINE C == {conf[j] : j \in {k \in DOMAIN conf : k[1] = f}}
           G == {Invalid} \cup {c \in C : c >= Threshold}
<1>1. C \subseteq Status /\ \A c \in C : c = Invalid \/ c >= Threshold
    OBVIOUS
<1>2. SimulatedDerivedStatus(f, conf) = GreatestOf({Invalid} \cup C)
    BY DEF SimulatedDerivedStatus
<1>3. (\E c \in C : c >= Threshold) <=> \E j \in DOMAIN conf : j[1] = f /\ conf[j] >= Threshold
    OBVIOUS
<1> HIDE DEF C
<1>4. /\ GreatestOf(G) \in Status
      /\ GreatestOf(G) >= Threshold <=> \E c \in C : c >= Threshold
      /\ GreatestOf(G) = GreatestOf({Invalid} \cup C)
    BY <1>1, BestAbove
<1>5. GreatestOf(G) = Invalid \/ GreatestOf(G) >= Threshold
  <2>1. GreatestOf(G) \in G
    <3>1. G \subseteq 0..Valid /\ G # {} /\ Valid \in Nat
      BY <1>1, StatusAssumption DEF Invalid
    <3> HIDE DEF G
    <3>2. QED
      BY <3>1, GreatestOfMember
  <2>2. QED
    BY <2>1
<1> HIDE DEF G
<1>6. SimulatedDerivedStatus(f, conf) = GreatestOf(G)
    BY <1>2, <1>4
<1>7. QED
    BY <1>3, <1>4, <1>5, <1>6 DEF G, C


LEMMA ParentOfSet ==
    ASSUME TypeOK, Acyclic, NEW j \in DOMAIN jset, NEW t \in j[2]
    PROVE  /\ j[1] \in Registered /\ ~ body[j[1]].isRoot
           /\ t.id \in Registered /\ t.id \in ParentIds(j[2]) /\ t.id \in Parents(j[1])
           /\ t.id # j[1]
<1>1. j[1] \in Registered /\ ~ body[j[1]].isRoot
    BY JSetIdType DEF TypeOK
<1>2. t.id \in ParentIds(j[2])
    BY DEF ParentIds
<1>3. t.id \in Parents(j[1])
    BY <1>2 DEF Parents
<1>4. t.id \in Registered
    BY <1>1, <1>3 DEF Acyclic
<1>5. Parents(j[1]) \cap {j[1]} = {}
  <2>1. {j[1]} \in SUBSET Registered /\ {j[1]} # {}
    BY <1>1
  <2>2. \E f \in {j[1]} : Parents(f) \cap {j[1]} = {}
    BY <2>1 DEF Acyclic
  <2>3. QED
    BY <2>2
<1>6. QED
    BY <1>1, <1>2, <1>3, <1>4, <1>5

(* Without negation, better parents satisfy whatever worse ones did.       *)
LEMMA MeetsMore ==
    ASSUME NEW j, \A t \in j[2] : ~ t.neg, NEW v, NEW w,
           \A t \in j[2] : v[t.id] >= Threshold => w[t.id] >= Threshold,
           Meets(j, v)
    PROVE  Meets(j, w)
BY DEF Meets, DependencySatisfied

(* While nothing is retracted or expired, a settled set is worth what the  *)
(* statuses that readers see make of it.                                   *)
LEMMA MonotoneSets ==
    ASSUME TypeOK, Acyclic, Settled, ~ Locked, Monotone, NEW j \in DOMAIN jset
    PROVE  /\ jset[j].conf = Invalid \/ jset[j].conf >= Threshold
           /\ jset[j].conf >= Threshold
                <=> Meets(j, [g \in Registered |-> EffectiveStatus(g, derived)])
<1> DEFINE view == [p \in ParentIds(j[2]) |-> EffectiveStatus(p, derived)]
           seen == [g \in Registered |-> EffectiveStatus(g, derived)]
<1>1. jset[j] = Compute(body[j[1]], j[2], derived, verified)
  <2>1. Timely(j)
    BY DEF Monotone, Timely
  <2>2. QED
    BY <2>1 DEF Settled
<1>2. \A t \in j[2] : ~ t.neg
    BY DEF Monotone
<1>3. ASSUME NEW t \in j[2] PROVE view[t.id] \in Status /\ view[t.id] = seen[t.id]
  <2>1. t.id \in ParentIds(j[2]) /\ t.id \in Registered
    BY ParentOfSet
  <2>2. t.id \in FactId /\ derived \in [FactId -> Status]
    BY <2>1 DEF TypeOK
  <2>3. EffectiveStatus(t.id, derived) \in Status
    BY <2>2, EffectiveStatusType
  <2>4. QED
    BY <2>1, <2>3
<1> HIDE DEF view, seen
<1>4. jset[j] = JustificationSetState(body, body[j[1]], j[2], view, verified, aged)
    BY <1>1 DEF Compute, view
<1>5. PICK c : c = JustificationSetState(body, body[j[1]], j[2], view, verified, aged).conf
    OBVIOUS
<1>6. (c >= Threshold <=> Meets(j, view)) /\ (c = Invalid \/ c >= Threshold)
    BY <1>2, <1>3, <1>5, PlainSetState
<1>7. Meets(j, view) <=> Meets(j, seen)
    BY <1>3 DEF Meets
<1>8. QED
    BY <1>4, <1>5, <1>6, <1>7 DEF seen

LEMMA GetImpactExact ==
    ASSUME TypeOK, Acyclic, Settled, ~ Locked, Monotone, NEW f \in Registered, body[f].isRoot,
           NEW s,
           s = [root     |-> f,
                status   |-> [g \in Registered |->
                                IF g = f THEN Invalid ELSE EffectiveStatus(g, derived)],
                conf     |-> [j \in DOMAIN jset |-> jset[j].conf],
                impacted |-> {f},
                queue    |-> <<f>>,
                todo     |-> ChildrenIndex(f)]
    PROVE  SimType(s) /\ SetsSimulated(s) /\ FactsSimulated(s)
<1> DEFINE seen == [g \in Registered |-> EffectiveStatus(g, derived)]
<1>1. /\ DOMAIN s = {"root", "status", "conf", "impacted", "queue", "todo"}
      /\ s.root = f /\ s.impacted = {f} /\ s.queue = <<f>> /\ s.todo = ChildrenIndex(f)
      /\ s.status = [g \in Registered |-> IF g = f THEN Invalid ELSE EffectiveStatus(g, derived)]
      /\ s.conf = [j \in DOMAIN jset |-> jset[j].conf]
    OBVIOUS
<1>2. \A g \in Registered : EffectiveStatus(g, derived) \in Status
    BY EffectiveStatusType DEF TypeOK
<1>3. ~ (Invalid >= Threshold) /\ Invalid \in Status
    BY StatusAssumption DEF Invalid
<1>4. SimType(s)
  <2>1. s.status \in [Registered -> Status]
    BY <1>1, <1>2, <1>3
  <2>2. s.conf \in [DOMAIN jset -> Status]
    BY <1>1 DEF TypeOK
  <2>3. s.queue \in Seq(Registered) /\ s.queue # <<>>
    BY <1>1
  <2>4. s.todo \subseteq DOMAIN jset
    BY <1>1 DEF ChildrenIndex
  <2>5. QED
    BY <1>1, <2>1, <2>2, <2>3, <2>4 DEF SimType
<1>5. ASSUME NEW j \in DOMAIN jset
      PROVE  /\ s.conf[j] = Invalid \/ s.conf[j] >= Threshold
             /\ Meets(j, s.status) => s.conf[j] >= Threshold
             /\ s.conf[j] >= Threshold /\ ~ Pending(s, j) => Meets(j, s.status)
  <2>1. s.conf[j] = jset[j].conf
    BY <1>1
  <2>2. \A t \in j[2] : ~ t.neg
    BY DEF Monotone
  <2>3. \A t \in j[2] : t.id \in Registered /\ t.id \in ParentIds(j[2])
    BY ParentOfSet
  <2>4. \A t \in j[2] : s.status[t.id] >= Threshold => seen[t.id] >= Threshold
    BY <1>1, <1>3, <2>3
  <2>5. ~ Pending(s, j) => \A t \in j[2] : seen[t.id] >= Threshold => s.status[t.id] >= Threshold
    BY <1>1, <2>3 DEF Pending, ChildrenIndex
  <2>6. /\ jset[j].conf = Invalid \/ jset[j].conf >= Threshold
        /\ jset[j].conf >= Threshold <=> Meets(j, seen)
    BY MonotoneSets
  <2> HIDE DEF seen
  <2>7. Meets(j, s.status) => Meets(j, seen)
    BY <2>2, <2>4, MeetsMore
  <2>8. ~ Pending(s, j) /\ Meets(j, seen) => Meets(j, s.status)
    BY <2>2, <2>5, MeetsMore
  <2>9. QED
    BY <2>1, <2>6, <2>7, <2>8
<1>6. SetsSimulated(s)
    BY <1>5 DEF SetsSimulated
<1>7. ASSUME NEW g \in Registered
      PROVE  /\ s.status[g] = IF g = s.root THEN Invalid
                              ELSE IF body[g].isRoot THEN manual[g]
                              ELSE SimulatedDerivedStatus(g, s.conf)
             /\ g # s.root =>
                  /\ g \notin s.impacted
                  /\ s.status[g] >= Threshold <=> EffectiveStatus(g, derived) >= Threshold
  <2>1. s.status[g] = IF g = f THEN Invalid ELSE EffectiveStatus(g, derived)
    BY <1>1
  <2>2. EffectiveStatus(g, derived) = IF body[g].isRoot THEN manual[g] ELSE derived[g]
    BY DEF EffectiveStatus, Monotone
  <2>3. CASE ~ body[g].isRoot
    <3> DEFINE C == {jset[j].conf : j \in {k \in DOMAIN jset : k[1] = g}}
               D == {s.conf[j] : j \in {k \in DOMAIN s.conf : k[1] = g}}
    <3>1. DOMAIN s.conf = DOMAIN jset /\ \A j \in DOMAIN jset : s.conf[j] = jset[j].conf
      BY <1>1
    <3>2. C = D
      BY <3>1
    <3>3. derived[g] = NewStatus(g)
      BY DEF Settled
    <3>4. NewStatus(g) = GreatestOf({Invalid} \cup {c \in C : c >= Threshold})
      BY <2>3 DEF NewStatus, Monotone
    <3>5. \A j \in DOMAIN s.conf : s.conf[j] \in Status
                                   /\ (s.conf[j] = Invalid \/ s.conf[j] >= Threshold)
      BY <1>4, <1>5, <3>1 DEF SimType
    <3>6. SimulatedDerivedStatus(g, s.conf)
            = GreatestOf({Invalid} \cup {c \in D : c >= Threshold})
      BY <3>5, SimulatedBest
    <3> HIDE DEF C, D
    <3>7. derived[g] = SimulatedDerivedStatus(g, s.conf)
      BY <3>2, <3>3, <3>4, <3>6
    <3>8. g # f
      BY <2>3
    <3>9. QED
      BY <1>1, <2>1, <2>2, <2>3, <3>7, <3>8
  <2>4. CASE body[g].isRoot
    BY <1>1, <2>1, <2>2, <2>4
  <2>5. QED
    BY <2>3, <2>4
<1>8. FactsSimulated(s)
    BY <1>7 DEF FactsSimulated
<1>9. QED
    BY <1>4, <1>6, <1>8


(* One justification set of the fact being processed is simulated.         *)
LEMMA SimulateSetExact ==
    ASSUME TypeOK, Acyclic, Monotone,
           NEW s, SimType(s), SetsSimulated(s), FactsSimulated(s), body[s.root].isRoot,
           NEW j \in s.todo, NEW new,
           new = JustificationSetState(body, body[j[1]], j[2], s.status, verified, aged).conf,
           NEW conf, conf = [s.conf EXCEPT ![j] = new],
           NEW status, status = SimulatedDerivedStatus(j[1], conf),
           NEW changes \in BOOLEAN, changes <=> conf # s.conf /\ status # s.status[j[1]],
           NEW falls \in BOOLEAN,
           falls <=> changes /\ status < Threshold /\ j[1] \notin s.impacted,
           NEW s2, s2 = [s EXCEPT !.conf = conf,
                                  !.status[j[1]] = IF changes THEN status ELSE @,
                                  !.impacted = IF falls THEN @ \cup {j[1]} ELSE @,
                                  !.queue = IF falls THEN Append(@, j[1]) ELSE @,
                                  !.todo = @ \ {j}]
    PROVE  SimType(s2) /\ SetsSimulated(s2) /\ FactsSimulated(s2)
<1> DEFINE child == j[1]
           Falls == child \notin s.impacted /\ s.status[child] >= Threshold
                    /\ ~ (status >= Threshold)
<1>1. /\ j \in DOMAIN jset /\ child \in Registered /\ ~ body[child].isRoot /\ child # s.root
      /\ \A t \in j[2] : ~ t.neg /\ t.id \in Registered /\ t.id # child
  <2>1. j \in DOMAIN jset
    BY DEF SimType
  <2>2. child \in Registered /\ ~ body[child].isRoot
    BY <2>1, JSetIdType DEF TypeOK
  <2>3. \A t \in j[2] : ~ t.neg
    BY <2>1 DEF Monotone
  <2>4. QED
    BY <2>1, <2>2, <2>3, ParentOfSet
<1>2. s.status \in [Registered -> Status] /\ s.conf \in [DOMAIN jset -> Status]
      /\ Threshold \in Nat /\ Status \subseteq Int /\ ~ (Invalid >= Threshold)
  <2>1. s.status \in [Registered -> Status] /\ s.conf \in [DOMAIN jset -> Status]
    BY DEF SimType
  <2>2. Threshold \in Nat /\ Status \subseteq Int
    BY StatusAssumption
  <2>3. ~ (Invalid >= Threshold)
    BY StatusAssumption DEF Invalid
  <2>4. QED
    BY <2>1, <2>2, <2>3
<1>3. /\ new \in Status
      /\ new >= Threshold <=> Meets(j, s.status)
      /\ new = Invalid \/ new >= Threshold
  <2>1. \A t \in j[2] : s.status[t.id] \in Status
    BY <1>1, <1>2
  <2>2. QED
    BY <1>1, <2>1, PlainSetState
<1>4. /\ conf \in [DOMAIN jset -> Status] /\ conf[j] = new
      /\ \A k \in DOMAIN jset : k # j => conf[k] = s.conf[k]
    BY <1>1, <1>2, <1>3
<1>5. /\ \A k \in DOMAIN jset : s.conf[k] = Invalid \/ s.conf[k] >= Threshold
      /\ \A k \in DOMAIN jset : conf[k] = Invalid \/ conf[k] >= Threshold
    BY <1>3, <1>4 DEF SetsSimulated
<1>6. \A k \in DOMAIN jset : conf[k] >= Threshold => s.conf[k] >= Threshold
    BY <1>1, <1>3, <1>4 DEF SetsSimulated
<1>7. ASSUME NEW g \in Registered, g # child
      PROVE  SimulatedDerivedStatus(g, conf) = SimulatedDerivedStatus(g, s.conf)
  <2> DEFINE C == {conf[k] : k \in {l \in DOMAIN conf : l[1] = g}}
             D == {s.conf[k] : k \in {l \in DOMAIN s.conf : l[1] = g}}
  <2>1. DOMAIN conf = DOMAIN jset /\ DOMAIN s.conf = DOMAIN jset
    BY <1>2, <1>4
  <2>2. \A k \in DOMAIN jset : k[1] = g => conf[k] = s.conf[k]
    BY <1>4, <1>7
  <2>3. C = D
    BY ONLY <2>1, <2>2
  <2>4. SimulatedDerivedStatus(g, conf) = GreatestOf({Invalid} \cup C)
    BY Zenon DEF SimulatedDerivedStatus
  <2>5. SimulatedDerivedStatus(g, s.conf) = GreatestOf({Invalid} \cup D)
    BY Zenon DEF SimulatedDerivedStatus
  <2> HIDE DEF C, D
  <2>6. QED
    BY <2>3, <2>4, <2>5
<1>8. s.status[child] = SimulatedDerivedStatus(child, s.conf)
    BY <1>1 DEF FactsSimulated
<1>9. /\ status \in Status /\ (status = Invalid \/ status >= Threshold)
      /\ status >= Threshold <=> \E k \in DOMAIN jset : k[1] = child /\ conf[k] >= Threshold
  <2>1. DOMAIN conf = DOMAIN jset /\ \A k \in DOMAIN conf : conf[k] \in Status
    BY <1>4
  <2>2. \A k \in DOMAIN conf : conf[k] = Invalid \/ conf[k] >= Threshold
    BY <1>5, <2>1
  <2> HIDE DEF child
  <2>3. /\ SimulatedDerivedStatus(child, conf) \in Status
        /\ SimulatedDerivedStatus(child, conf) = Invalid
           \/ SimulatedDerivedStatus(child, conf) >= Threshold
        /\ SimulatedDerivedStatus(child, conf) >= Threshold
             <=> \E k \in DOMAIN conf : k[1] = child /\ conf[k] >= Threshold
    BY ONLY <2>1, <2>2, SimulatedBest
  <2>4. status = SimulatedDerivedStatus(child, conf)
    BY DEF child
  <2>5. QED
    BY ONLY <2>1, <2>3, <2>4
<1>10. /\ s.status[child] \in Status
       /\ s.status[child] = Invalid \/ s.status[child] >= Threshold
       /\ s.status[child] >= Threshold
            <=> \E k \in DOMAIN jset : k[1] = child /\ s.conf[k] >= Threshold
  <2>1. DOMAIN s.conf = DOMAIN jset /\ \A k \in DOMAIN s.conf : s.conf[k] \in Status
    BY <1>2
  <2>2. \A k \in DOMAIN s.conf : s.conf[k] = Invalid \/ s.conf[k] >= Threshold
    BY <1>5, <2>1
  <2> HIDE DEF child
  <2>3. /\ SimulatedDerivedStatus(child, s.conf) \in Status
        /\ SimulatedDerivedStatus(child, s.conf) = Invalid
           \/ SimulatedDerivedStatus(child, s.conf) >= Threshold
        /\ SimulatedDerivedStatus(child, s.conf) >= Threshold
             <=> \E k \in DOMAIN s.conf : k[1] = child /\ s.conf[k] >= Threshold
    BY ONLY <2>1, <2>2, SimulatedBest
  <2>4. QED
    BY ONLY <1>8, <2>1, <2>3
<1>11. status >= Threshold => s.status[child] >= Threshold
    BY <1>6, <1>9, <1>10
<1>12. falls <=> Falls
  <2>1. status < Threshold <=> ~ (status >= Threshold)
    BY <1>2, <1>9
  <2>2. ASSUME s.status[child] >= Threshold, ~ (status >= Threshold) PROVE changes
    BY <1>8, <2>2
  <2>3. ASSUME ~ (s.status[child] >= Threshold), ~ (status >= Threshold) PROVE ~ changes
    BY <1>9, <1>10, <2>3
  <2>4. QED
    BY <2>1, <2>2, <2>3
<1>13. /\ DOMAIN s2 = {"root", "status", "conf", "impacted", "queue", "todo"}
       /\ s2.root = s.root /\ s2.conf = conf /\ s2.todo = s.todo \ {j}
       /\ s2.impacted = IF falls THEN s.impacted \cup {child} ELSE s.impacted
       /\ s2.queue = IF falls THEN Append(s.queue, child) ELSE s.queue
       /\ s2.status = [s.status EXCEPT ![child] = IF changes THEN status ELSE @]
    BY DEF SimType
<1>14. s2.status = [s.status EXCEPT ![child] = status]
    BY <1>8, <1>13
<1>15. /\ s2.status \in [Registered -> Status] /\ s2.status[child] = status
       /\ \A g \in Registered : g # child => s2.status[g] = s.status[g]
    BY <1>1, <1>2, <1>9, <1>14
<1>16. SimType(s2)
  <2>1. s2.impacted \subseteq Registered /\ s2.root \in s2.impacted /\ s2.root \in Registered
    BY <1>1, <1>13 DEF SimType
  <2>2. s2.queue \in Seq(Registered) /\ s2.queue # <<>>
    BY <1>1, <1>13 DEF SimType
  <2>3. s2.todo \subseteq DOMAIN jset
    BY <1>13 DEF SimType
  <2>4. QED
    BY <1>4, <1>13, <1>15, <2>1, <2>2, <2>3 DEF SimType
<1> HIDE DEF child
<1>17. ASSUME NEW k \in DOMAIN jset
       PROVE  /\ Meets(k, s2.status) => conf[k] >= Threshold
              /\ conf[k] >= Threshold /\ ~ Pending(s2, k) => Meets(k, s2.status)
  <2>1. \A t \in k[2] : ~ t.neg /\ t.id \in Registered /\ t.id \in ParentIds(k[2])
    BY ParentOfSet DEF Monotone
  <2>2. \A t \in k[2] : s2.status[t.id] >= Threshold => s.status[t.id] >= Threshold
    BY <1>11, <1>15, <2>1
  <2>3. Meets(k, s2.status) => Meets(k, s.status)
    BY <2>1, <2>2, MeetsMore
  <2>4. CASE k = j
    <3>1. \A t \in k[2] : s2.status[t.id] = s.status[t.id]
      BY <1>1, <1>15, <2>4
    <3>2. \A t \in k[2] : s.status[t.id] >= Threshold => s2.status[t.id] >= Threshold
      BY <3>1
    <3>3. Meets(k, s.status) => Meets(k, s2.status)
      BY ONLY <2>1, <3>2, MeetsMore
    <3>4. QED
      BY <1>3, <1>4, <2>3, <2>4, <3>3
  <2>5. CASE k # j
    <3>1. conf[k] = s.conf[k]
      BY <1>4, <2>5
    <3>2. ASSUME conf[k] >= Threshold, ~ Pending(s2, k) PROVE Meets(k, s2.status)
      <4>1. s.queue \in Seq(Registered) /\ Len(s.queue) \in Nat /\ Len(s.queue) >= 1
        <5>1. s.queue \in Seq(Registered) /\ s.queue # <<>>
          BY DEF SimType
        <5>2. QED
          BY <5>1
      <4>2. k \notin s.todo
        BY <1>13, <2>5, <3>2 DEF Pending
      <4>3. ~ Pending(s, k)
        <5>1. SUFFICES ASSUME NEW i \in 2..Len(s.queue), s.queue[i] \in ParentIds(k[2]) PROVE FALSE
          BY <4>2 DEF Pending
        <5>2. s2.queue[i] = s.queue[i] /\ i \in 2..Len(s2.queue)
          BY <1>1, <1>13, <4>1
        <5>3. QED
          BY <3>2, <5>1, <5>2 DEF Pending
      <4>4. Meets(k, s.status)
        BY <3>1, <3>2, <4>3 DEF SetsSimulated
      <4>5. falls => child \notin ParentIds(k[2])
        <5>1. ASSUME falls
              PROVE  Len(s.queue) + 1 \in 2..Len(s2.queue) /\ s2.queue[Len(s.queue) + 1] = child
          BY <1>1, <1>13, <4>1, <5>1
        <5>2. QED
          BY <3>2, <5>1 DEF Pending
      <4>6. ASSUME NEW t \in k[2], s.status[t.id] >= Threshold PROVE s2.status[t.id] >= Threshold
        <5>1. CASE t.id # child
          BY <1>15, <2>1, <4>6, <5>1
        <5>2. CASE t.id = child
          <6>1. ~ falls /\ child \in Registered
            BY <2>1, <4>5, <5>2
          <6>2. child \notin s.impacted
            BY <1>1, <4>6, <5>2, <6>1 DEF FactsSimulated, child
          <6>3. QED
            BY <1>12, <1>15, <4>6, <5>2, <6>1, <6>2
        <5>3. QED
          BY <5>1, <5>2
      <4>7. QED
        BY <2>1, <4>4, <4>6, MeetsMore
    <3>3. QED
      BY <2>3, <3>1, <3>2 DEF SetsSimulated
  <2>6. QED
    BY <2>4, <2>5
<1>18. SetsSimulated(s2)
    BY <1>5, <1>13, <1>17 DEF SetsSimulated
<1>19. ASSUME NEW g \in Registered
       PROVE  /\ s2.status[g] = IF g = s2.root THEN Invalid
                                ELSE IF body[g].isRoot THEN manual[g]
                                ELSE SimulatedDerivedStatus(g, s2.conf)
              /\ g # s2.root =>
                   IF g \in s2.impacted
                   THEN EffectiveStatus(g, derived) >= Threshold /\ ~ (s2.status[g] >= Threshold)
                   ELSE s2.status[g] >= Threshold <=> EffectiveStatus(g, derived) >= Threshold
  <2>1. /\ s.status[g] = IF g = s.root THEN Invalid
                         ELSE IF body[g].isRoot THEN manual[g]
                         ELSE SimulatedDerivedStatus(g, s.conf)
        /\ g # s.root =>
             IF g \in s.impacted
             THEN EffectiveStatus(g, derived) >= Threshold /\ ~ (s.status[g] >= Threshold)
             ELSE s.status[g] >= Threshold <=> EffectiveStatus(g, derived) >= Threshold
    BY DEF FactsSimulated
  <2>2. CASE g # child
    <3>1. s2.status[g] = s.status[g] /\ (g \in s2.impacted <=> g \in s.impacted)
      BY <1>13, <1>15, <2>2
    <3>2. QED
      BY <1>7, <1>13, <2>1, <2>2, <3>1
  <2>3. CASE g = child
    <3>1. ~ body[g].isRoot /\ g # s2.root /\ s2.status[g] = status
          /\ status = SimulatedDerivedStatus(g, s2.conf)
      BY <1>1, <1>13, <1>15, <2>3 DEF child
    <3>2. g \in s2.impacted <=> g \in s.impacted \/ falls
      BY <1>13, <2>3
    <3>3. QED
      BY <1>11, <1>12, <1>13, <2>1, <2>3, <3>1, <3>2
  <2>4. QED
    BY <2>2, <2>3
<1>20. FactsSimulated(s2)
    BY <1>19 DEF FactsSimulated
<1>21. QED
    BY <1>16, <1>18, <1>20

(* The simulation goes on from the next fact that fell.                    *)
LEMMA SimulateNextExact ==
    ASSUME TypeOK, NEW s, SimType(s), SetsSimulated(s), FactsSimulated(s),
           s.todo = {}, Len(s.queue) > 1,
           NEW s2, s2 = [s EXCEPT !.queue = Tail(@), !.todo = ChildrenIndex(s.queue[2])]
    PROVE  SimType(s2) /\ SetsSimulated(s2) /\ FactsSimulated(s2)
<1>1. /\ DOMAIN s2 = {"root", "status", "conf", "impacted", "queue", "todo"}
      /\ s2.root = s.root /\ s2.status = s.status /\ s2.conf = s.conf
      /\ s2.impacted = s.impacted /\ s2.queue = Tail(s.queue)
      /\ s2.todo = ChildrenIndex(s.queue[2])
    BY DEF SimType
<1>2. s.queue \in Seq(Registered) /\ Len(s.queue) \in Nat
    BY DEF SimType
<1>3. /\ s2.queue \in Seq(Registered) /\ s2.queue # <<>> /\ Len(s2.queue) = Len(s.queue) - 1
      /\ \A i \in 1..Len(s2.queue) : s2.queue[i] = s.queue[i + 1]
  <2> DEFINE q == s.queue
             r == s2.queue
  <2>1. q \in Seq(Registered) /\ Len(q) > 1 /\ r = Tail(q)
    BY <1>1, <1>2
  <2> HIDE DEF q, r
  <2>2. r \in Seq(Registered) /\ r # <<>> /\ Len(r) = Len(q) - 1
        /\ \A i \in 1..Len(r) : r[i] = q[i + 1]
    <3>1. q # <<>> /\ Len(q) \in Nat
      BY ONLY <2>1
    <3>2. r \in Seq(Registered) /\ Len(r) = Len(q) - 1 /\ \A i \in 1..Len(r) : r[i] = q[i + 1]
      BY ONLY <2>1, <3>1
    <3>3. QED
      BY ONLY <2>1, <3>1, <3>2
  <2>3. QED
    BY <2>2 DEF q, r
<1>4. SimType(s2)
  <2>1. s2.todo \subseteq DOMAIN jset
    BY <1>1 DEF ChildrenIndex
  <2>2. QED
    BY <1>1, <1>3, <2>1 DEF SimType
<1>5. ASSUME NEW k \in DOMAIN jset, Pending(s, k) PROVE Pending(s2, k)
  <2>1. PICK i \in 2..Len(s.queue) : s.queue[i] \in ParentIds(k[2])
    BY <1>5 DEF Pending
  <2>2. CASE i = 2
    BY <1>1, <2>1, <2>2 DEF Pending, ChildrenIndex
  <2>3. CASE i # 2
    <3>1. i - 1 \in 2..Len(s2.queue) /\ s2.queue[i - 1] = s.queue[i]
      BY <1>2, <1>3, <2>3
    <3>2. QED
      BY <2>1, <3>1 DEF Pending
  <2>4. QED
    BY <2>2, <2>3
<1>6. SetsSimulated(s2)
    BY <1>1, <1>5 DEF SetsSimulated
<1>7. FactsSimulated(s2)
    BY <1>1 DEF FactsSimulated
<1>8. QED
    BY <1>4, <1>6, <1>7


(* What the equations of the graph give fact g, if root f had no           *)
(* confidence and the other facts had the statuses L.                      *)
WorthWithout(f, g, L) ==
    IF g = f \/ g \in retracted \cup expired THEN Invalid
    ELSE IF body[g].isRoot THEN manual[g]
    ELSE GreatestOf({Invalid} \cup
           {c \in {JustificationSetState(body, body[g], j[2], L, verified, aged).conf :
                     j \in {k \in DOMAIN jset : k[1] = g}} : c >= Threshold})

LEMMA WorthType ==
    ASSUME TypeOK, Acyclic, NEW f, NEW g \in Registered, NEW L \in [Registered -> Status]
    PROVE  WorthWithout(f, g, L) \in Status
<1> DEFINE C == {JustificationSetState(body, body[g], j[2], L, verified, aged).conf :
                   j \in {k \in DOMAIN jset : k[1] = g}}
           G == {Invalid} \cup {c \in C : c >= Threshold}
<1>1. ASSUME NEW j \in DOMAIN jset, j[1] = g
      PROVE  JustificationSetState(body, body[g], j[2], L, verified, aged).conf \in Status
  <2>1. j[2] \in SUBSET Token
    BY JSetIdType DEF TypeOK
  <2>2. \A t \in j[2] : L[t.id] \in Status
    BY ParentOfSet
  <2>3. JustificationSetState(body, body[g], j[2], L, verified, aged)
          \in [valid : Nat, conf : Status]
    BY <2>1, <2>2, SetStateType
  <2>4. QED
    BY <2>3
<1>2. C \subseteq Status
    BY <1>1
<1>3. WorthWithout(f, g, L) = IF g = f \/ g \in retracted \cup expired THEN Invalid
                              ELSE IF body[g].isRoot THEN manual[g] ELSE GreatestOf(G)
    BY DEF WorthWithout
<1> HIDE DEF C
<1>4. GreatestOf(G) \in Status
    BY <1>2, BestAbove
<1> HIDE DEF G
<1>5. manual[g] \in Status /\ Invalid \in Status
    BY StatusAssumption DEF TypeOK
<1>6. QED
    BY <1>3, <1>4, <1>5

LEMMA WorthAgrees ==
    ASSUME NEW f, NEW g, NEW L, NEW M, \A p \in Parents(g) : L[p] = M[p]
    PROVE  WorthWithout(f, g, L) = WorthWithout(f, g, M)
<1> DEFINE J == {k \in DOMAIN jset : k[1] = g}
           state(j, v) == JustificationSetState(body, body[g], j[2], v, verified, aged)
           C == {state(j, L).conf : j \in J}
           D == {state(j, M).conf : j \in J}
<1>1. ASSUME NEW j \in J PROVE state(j, L) = state(j, M)
  <2>1. \A t \in j[2] : t.id \in Parents(g)
    BY DEF Parents, ParentIds
  <2>2. \A t \in j[2] : L[t.id] = M[t.id]
    BY <2>1
  <2>3. \A t \in j[2] : DependencySatisfied(body, body[g], t, L[t.id], verified, aged)
                    <=> DependencySatisfied(body, body[g], t, M[t.id], verified, aged)
    BY <2>2
  <2>4. QED
    BY <2>2, <2>3, SetStateAgrees
<1>2. C = D
    BY <1>1, Zenon
<1>3. /\ WorthWithout(f, g, L) = IF g = f \/ g \in retracted \cup expired THEN Invalid
                                 ELSE IF body[g].isRoot THEN manual[g]
                                 ELSE GreatestOf({Invalid} \cup {c \in C : c >= Threshold})
      /\ WorthWithout(f, g, M) = IF g = f \/ g \in retracted \cup expired THEN Invalid
                                 ELSE IF body[g].isRoot THEN manual[g]
                                 ELSE GreatestOf({Invalid} \cup {c \in D : c >= Threshold})
    BY Zenon DEF WorthWithout
<1> HIDE DEF C, D
<1>4. QED
    BY <1>2, <1>3

(* An acyclic graph has a labelling: one of the facts outside the largest  *)
(* labelled part rests on that part alone, and can be labelled too.        *)
LEMMA LabellingExists ==
    ASSUME TypeOK, Acyclic, NEW f
    PROVE  \E L \in [Registered -> Status] : IsLabellingWithout(f, L)
<1> DEFINE Labels(L, S) == \A g \in S : Parents(g) \subseteq S /\ L[g] = WorthWithout(f, g, L)
           Parts == {S \in SUBSET Registered : \E L \in [Registered -> Status] : Labels(L, S)}
           size == [S \in Parts |-> Cardinality(S)]
<1>1. IsFiniteSet(Registered)
    BY FactIdAssumption, FS_Subset DEF TypeOK
<1>2. IsFiniteSet(Parts) /\ Parts # {} /\ size \in [Parts -> Nat]
  <2>1. IsFiniteSet(SUBSET Registered)
    BY <1>1, FS_SUBSET
  <2>2. Parts \subseteq SUBSET Registered
    OBVIOUS
  <2>3. {} \in Parts
    <3>1. [g \in Registered |-> Invalid] \in [Registered -> Status]
      BY StatusAssumption
    <3>2. QED
      BY <3>1
  <2>4. \A S \in Parts : Cardinality(S) \in Nat
    BY <1>1, FS_Subset, FS_CardinalityType
  <2> HIDE DEF Parts
  <2>5. QED
    BY <2>1, <2>2, <2>3, <2>4, FS_Subset
<1>3. PICK S \in Parts : \A R \in Parts : size[S] >= size[R]
  <2> HIDE DEF Parts, size
  <2>1. QED
    BY <1>2, HighestOf
<1>4. PICK L \in [Registered -> Status] : Labels(L, S)
    OBVIOUS
<1>5. S = Registered
  <2>1. SUFFICES ASSUME S # Registered PROVE FALSE
    OBVIOUS
  <2>2. PICK g \in Registered \ S : Parents(g) \cap (Registered \ S) = {}
    <3>1. Registered \ S \in SUBSET Registered /\ Registered \ S # {}
      BY <2>1
    <3>2. QED
      BY <3>1 DEF Acyclic
  <2>3. Parents(g) \subseteq S
    BY <2>2 DEF Acyclic
  <2> DEFINE M == [L EXCEPT ![g] = WorthWithout(f, g, L)]
             R == S \cup {g}
  <2>4. /\ M \in [Registered -> Status] /\ M[g] = WorthWithout(f, g, L)
        /\ \A h \in S : M[h] = L[h]
    BY <2>2, WorthType
  <2> HIDE DEF M
  <2>5. ASSUME NEW h \in R PROVE Parents(h) \subseteq S /\ M[h] = WorthWithout(f, h, L)
    BY <1>4, <2>3, <2>4
  <2>6. ASSUME NEW h \in R PROVE Parents(h) \subseteq R /\ M[h] = WorthWithout(f, h, M)
    <3>1. \A p \in Parents(h) : L[p] = M[p]
      BY <2>4, <2>5
    <3>2. WorthWithout(f, h, L) = WorthWithout(f, h, M)
      BY <3>1, WorthAgrees
    <3>3. QED
      BY <2>5, <3>2
  <2>7. R \in Parts
    <3>1. R \in SUBSET Registered
      BY <2>2
    <3>2. Labels(M, R)
      BY <2>6
    <3>3. QED
      BY <2>4, <3>1, <3>2
  <2>8. IsFiniteSet(S) /\ Cardinality(S) \in Nat /\ Cardinality(R) = Cardinality(S) + 1
    <3>1. IsFiniteSet(S)
      BY <1>1, FS_Subset
    <3>2. QED
      BY <2>2, <3>1, FS_AddElement, FS_CardinalityType
  <2>9. Cardinality(S) >= Cardinality(R)
    BY <1>3, <2>7
  <2>10. QED
    BY ONLY <2>8, <2>9
<1>6. IsLabellingWithout(f, L)
  <2>1. \A g \in Registered : L[g] = WorthWithout(f, g, L)
    BY <1>4, <1>5
  <2>2. QED
    BY <2>1, Zenon DEF IsLabellingWithout, WorthWithout
<1>7. QED
    BY <1>6


(* At the end of the simulation every labelling without the root and the   *)
(* simulated statuses have the same facts below the threshold: a fact on   *)
(* which they differ and none of whose parents they differ on has the same *)
(* sets in both.                                                           *)
LEMMA LabellingSimulated ==
    ASSUME TypeOK, Acyclic, Monotone,
           NEW s, SimType(s), SetsSimulated(s), FactsSimulated(s),
           \A j \in DOMAIN jset : ~ Pending(s, j),
           NEW L \in [Registered -> Status], IsLabellingWithout(s.root, L)
    PROVE  \A g \in Registered : L[g] >= Threshold <=> s.status[g] >= Threshold
<1> DEFINE D == {g \in Registered : ~ (L[g] >= Threshold <=> s.status[g] >= Threshold)}
<1>1. SUFFICES ASSUME D # {} PROVE FALSE
    OBVIOUS
<1>2. PICK g \in D : Parents(g) \cap D = {}
    BY <1>1 DEF Acyclic
<1>3. g \in Registered /\ \A p \in Parents(g) : p \in Registered /\ p \notin D
    BY <1>2 DEF Acyclic
<1>4. s.status \in [Registered -> Status] /\ s.conf \in [DOMAIN jset -> Status]
    BY DEF SimType
<1>5. s.status[g] = IF g = s.root THEN Invalid
                    ELSE IF body[g].isRoot THEN manual[g]
                    ELSE SimulatedDerivedStatus(g, s.conf)
    BY <1>3 DEF FactsSimulated
<1> DEFINE C == {JustificationSetState(body, body[g], j[2], L, verified, aged).conf :
                   j \in {k \in DOMAIN jset : k[1] = g}}
           G == {Invalid} \cup {c \in C : c >= Threshold}
<1>6. L[g] = IF g = s.root THEN Invalid
             ELSE IF body[g].isRoot THEN manual[g] ELSE GreatestOf(G)
  <2>1. L[g] = IF g = s.root \/ g \in retracted \cup expired THEN Invalid
               ELSE IF body[g].isRoot THEN manual[g] ELSE GreatestOf(G)
    BY <1>3, Zenon DEF IsLabellingWithout
  <2>2. retracted \cup expired = {}
    BY DEF Monotone
  <2> HIDE DEF G
  <2>3. QED
    BY <2>1, <2>2
<1>7. ASSUME NEW j \in DOMAIN jset, j[1] = g
      PROVE  LET c == JustificationSetState(body, body[g], j[2], L, verified, aged).conf
             IN  c \in Status /\ (c >= Threshold <=> s.conf[j] >= Threshold)
  <2>1. \A t \in j[2] : ~ t.neg
    BY DEF Monotone
  <2>2. \A t \in j[2] : t.id \in Registered /\ t.id \in Parents(g)
    BY <1>7, ParentOfSet
  <2>3. PICK c : c = JustificationSetState(body, body[g], j[2], L, verified, aged).conf
    OBVIOUS
  <2>4. c \in Status /\ (c >= Threshold <=> Meets(j, L))
    <3>1. \A t \in j[2] : L[t.id] \in Status
      BY <2>2
    <3>2. QED
      BY <1>7, <2>1, <2>3, <3>1, PlainSetState
  <2>5. \A t \in j[2] : L[t.id] >= Threshold <=> s.status[t.id] >= Threshold
    BY <1>3, <2>2
  <2>6. Meets(j, L) <=> Meets(j, s.status)
    BY <2>1, <2>5, MeetsMore
  <2>7. Meets(j, s.status) <=> s.conf[j] >= Threshold
    BY DEF SetsSimulated
  <2>8. QED
    BY <2>3, <2>4, <2>6, <2>7
<1>8. C \subseteq Status
    BY <1>7
<1>9. (\E c \in C : c >= Threshold) <=> \E j \in DOMAIN jset : j[1] = g /\ s.conf[j] >= Threshold
    BY <1>7
<1> HIDE DEF C
<1>10. GreatestOf(G) >= Threshold <=> \E c \in C : c >= Threshold
    BY <1>8, BestAbove
<1> HIDE DEF G
<1>11. SimulatedDerivedStatus(g, s.conf) >= Threshold
         <=> \E j \in DOMAIN jset : j[1] = g /\ s.conf[j] >= Threshold
  <2>1. DOMAIN s.conf = DOMAIN jset /\ \A j \in DOMAIN s.conf : s.conf[j] \in Status
    BY <1>4
  <2>2. \A j \in DOMAIN s.conf : s.conf[j] = Invalid \/ s.conf[j] >= Threshold
    BY <2>1 DEF SetsSimulated
  <2>3. SimulatedDerivedStatus(g, s.conf) >= Threshold
          <=> \E j \in DOMAIN s.conf : j[1] = g /\ s.conf[j] >= Threshold
    BY ONLY <2>1, <2>2, SimulatedBest
  <2>4. QED
    BY ONLY <2>1, <2>3
<1>12. QED
    BY <1>2, <1>5, <1>6, <1>9, <1>10, <1>11

LEMMA ImpactExact ==
    ASSUME TypeOK, Acyclic, Monotone,
           NEW s, SimType(s), SetsSimulated(s), FactsSimulated(s), s.todo = {}, Len(s.queue) = 1
    PROVE  s.impacted = WouldFall(s.root)
<1>1. \A j \in DOMAIN jset : ~ Pending(s, j)
    BY DEF Pending
<1>2. s.root \in Registered /\ s.root \in s.impacted /\ s.impacted \subseteq Registered
    BY DEF SimType
<1>3. PICK L0 \in [Registered -> Status] : IsLabellingWithout(s.root, L0)
    BY LabellingExists
<1>4. ASSUME NEW L \in [Registered -> Status], IsLabellingWithout(s.root, L), NEW g \in Registered
      PROVE  L[g] < Threshold <=> ~ (s.status[g] >= Threshold)
  <2>1. L[g] \in Status /\ Status \subseteq Int /\ Threshold \in Nat
    BY StatusAssumption
  <2>2. L[g] < Threshold <=> ~ (L[g] >= Threshold)
    BY <2>1
  <2>3. QED
    BY <1>1, <1>4, <2>2, LabellingSimulated
<1>5. ASSUME NEW g \in Registered, g # s.root
      PROVE  g \in s.impacted <=>
               /\ EffectiveStatus(g, derived) >= Threshold
               /\ \E L \in [Registered -> Status] :
                     IsLabellingWithout(s.root, L) /\ L[g] < Threshold
  <2>1. IF g \in s.impacted
        THEN EffectiveStatus(g, derived) >= Threshold /\ ~ (s.status[g] >= Threshold)
        ELSE s.status[g] >= Threshold <=> EffectiveStatus(g, derived) >= Threshold
    BY <1>5 DEF FactsSimulated
  <2>2. CASE g \in s.impacted
    BY <1>3, <1>4, <2>1, <2>2
  <2>3. CASE g \notin s.impacted
    BY <1>4, <2>1, <2>3
  <2>4. QED
    BY <2>2, <2>3
<1>6. QED
    BY <1>2, <1>5 DEF WouldFall

(* The simulation reads the engine and changes nothing of it.              *)
LEMMA SimInvKept ==
    ASSUME UNCHANGED vars, NEW s, sim' = s,
           Monotone /\ body[s.root].isRoot => SimType(s) /\ SetsSimulated(s) /\ FactsSimulated(s)
    PROVE  SimInv'
<1>1. /\ UNCHANGED <<body, manual, derived, jset, retracted, verified, expired, aged>>
    BY DEF vars
<1>2. \A j : Meets(j, s.status)' <=> Meets(j, s.status)
    BY <1>1 DEF Meets
<1>3. \A j : Pending(s, j)' <=> Pending(s, j)
    BY DEF Pending
<1>4. \A g : EffectiveStatus(g, derived)' = EffectiveStatus(g, derived)
    BY <1>1 DEF EffectiveStatus
<1>5. Monotone' <=> Monotone
    BY <1>1 DEF Monotone
<1>6. SimType(s)' <=> SimType(s)
    BY <1>1 DEF SimType, Registered
<1>7. SetsSimulated(s)' <=> SetsSimulated(s)
    BY <1>1, <1>2, <1>3 DEF SetsSimulated
<1>8. FactsSimulated(s)' <=> FactsSimulated(s)
    BY <1>1, <1>4 DEF FactsSimulated, Registered
<1>9. ASSUME Monotone', body'[s.root].isRoot
      PROVE  SimType(s)' /\ SetsSimulated(s)' /\ FactsSimulated(s)'
    BY <1>1, <1>5, <1>6, <1>7, <1>8, <1>9
<1>10. SimType(sim)' <=> SimType(s)'
    BY DEF SimType
<1>11. SetsSimulated(sim)' <=> SetsSimulated(s)'
    BY DEF SetsSimulated, Pending
<1>12. FactsSimulated(sim)' <=> FactsSimulated(s)'
    BY DEF FactsSimulated
<1>13. QED
    BY <1>9, <1>10, <1>11, <1>12 DEF SimInv

LEMMA SimInvStep ==
    ASSUME TypeOK, Acyclic, Settled, SimInv, [QueryNext]_queryVars
    PROVE  SimInv'
<1>1. ASSUME UNCHANGED <<vars, sim>> PROVE SimInv'
  <2>1. CASE sim = None
    BY <1>1, <2>1 DEF SimInv
  <2>2. CASE sim # None
    BY <1>1, <2>2, SimInvKept DEF SimInv
  <2>3. QED
    BY <2>1, <2>2
<1>2. CASE EngineStep
  <2>1. CASE sim = None
    BY <1>2, <2>1 DEF EngineStep, SimInv
  <2>2. CASE sim # None
    <3>1. PICK f \in FactId : Expire(f) \/ Age(f)
      BY <1>2, <2>2 DEF EngineStep
    <3>2. f \in expired' \/ f \in aged'
      BY <3>1 DEF Expire, Age
    <3>3. ~ Monotone'
      BY <3>2 DEF Monotone
    <3>4. QED
      BY <3>3 DEF SimInv
  <2>3. QED
    BY <2>1, <2>2
<1>3. CASE RecomputeDominators
    BY <1>1, <1>3 DEF RecomputeDominators
<1>4. ASSUME NEW f \in FactId, GetImpact(f) PROVE SimInv'
  <2> DEFINE s == [root     |-> f,
                   status   |-> [g \in Registered |->
                                   IF g = f THEN Invalid ELSE EffectiveStatus(g, derived)],
                   conf     |-> [j \in DOMAIN jset |-> jset[j].conf],
                   impacted |-> {f},
                   queue    |-> <<f>>,
                   todo     |-> ChildrenIndex(f)]
  <2>1. ~ Locked /\ f \in Registered /\ sim' = s /\ UNCHANGED vars
    BY <1>4 DEF GetImpact
  <2>2. s.root = f
    OBVIOUS
  <2>3. Monotone /\ body[f].isRoot => SimType(s) /\ SetsSimulated(s) /\ FactsSimulated(s)
    BY <2>1, GetImpactExact
  <2> HIDE DEF s
  <2>4. QED
    BY <2>1, <2>2, <2>3, SimInvKept
<1>5. ASSUME NEW j \in DOMAIN jset, SimulateJustificationSet(j) PROVE SimInv'
  <2> DEFINE new     == JustificationSetState(body, body[j[1]], j[2], sim.status,
                                              verified, aged).conf
             conf    == [sim.conf EXCEPT ![j] = new]
             status  == SimulatedDerivedStatus(j[1], conf)
             changes == conf # sim.conf /\ status # sim.status[j[1]]
             falls   == changes /\ status < Threshold /\ j[1] \notin sim.impacted
             s2      == [sim EXCEPT
                           !.conf = conf,
                           !.status[j[1]] = IF changes THEN status ELSE @,
                           !.impacted = IF falls THEN @ \cup {j[1]} ELSE @,
                           !.queue = IF falls THEN Append(@, j[1]) ELSE @,
                           !.todo = @ \ {j}]
  <2>1. sim # None /\ j \in sim.todo /\ sim' = s2 /\ UNCHANGED vars
    BY <1>5, Zenon DEF SimulateJustificationSet
  <2>2. ASSUME Monotone, body[s2.root].isRoot
        PROVE  SimType(s2) /\ SetsSimulated(s2) /\ FactsSimulated(s2)
    <3>1. s2.root = sim.root
      OBVIOUS
    <3>2. SimType(sim) /\ SetsSimulated(sim) /\ FactsSimulated(sim) /\ body[sim.root].isRoot
      BY <2>1, <2>2, <3>1 DEF SimInv
    <3>3. QED
      BY <2>1, <2>2, <3>2, SimulateSetExact
  <2> HIDE DEF s2
  <2>3. QED
    BY <2>1, <2>2, SimInvKept
<1>6. CASE SimulateNextFact
  <2> DEFINE s2 == [sim EXCEPT !.queue = Tail(@), !.todo = ChildrenIndex(sim.queue[2])]
  <2>1. sim # None /\ sim.todo = {} /\ Len(sim.queue) > 1 /\ sim' = s2 /\ UNCHANGED vars
    BY <1>6 DEF SimulateNextFact
  <2>2. s2.root = sim.root
    OBVIOUS
  <2>3. ASSUME Monotone, body[s2.root].isRoot
        PROVE  SimType(s2) /\ SetsSimulated(s2) /\ FactsSimulated(s2)
    BY <2>1, <2>2, <2>3, SimulateNextExact DEF SimInv
  <2> HIDE DEF s2
  <2>4. QED
    BY <2>1, <2>3, SimInvKept
<1>7. CASE ReturnImpact
    BY <1>7 DEF ReturnImpact, SimInv
<1>8. CASE UNCHANGED queryVars
    BY <1>1, <1>8 DEF queryVars
<1>9. QED
    BY <1>2, <1>3, <1>4, <1>5, <1>6, <1>7, <1>8 DEF QueryNext

(* In a graph without negation, and while nothing is retracted or expired, *)
(* GetImpact of a root returns exactly the facts its invalidation would    *)
(* make invalid, in whatever order it visits the sets.                     *)
THEOREM ImpactsExact == QuerySpec => []MonotoneImpactExact
<1>1. QueryInit => SimInv
    BY DEF QueryInit, SimInv
<1>2. QuerySpec => []TypeOK /\ []Acyclic /\ []Settled
    BY QueriesRefineEngine, TypeCorrect, GraphAcyclic, StatusesSettled, PTL
<1>3. TypeOK /\ Acyclic /\ Settled /\ SimInv /\ [QueryNext]_queryVars => SimInv'
    BY SimInvStep
<1>4. TypeOK /\ Acyclic /\ SimInv => MonotoneImpactExact
  <2>1. SUFFICES ASSUME TypeOK, Acyclic, SimInv, Simulated, body[sim.root].isRoot, Monotone
                 PROVE  sim.impacted = WouldFall(sim.root)
    BY DEF MonotoneImpactExact, Monotone
  <2>2. QED
    BY <2>1, ImpactExact DEF SimInv, Simulated
<1>5. QED
    BY <1>1, <1>2, <1>3, <1>4, PTL DEF QuerySpec
=============================================================================
