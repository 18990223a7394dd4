------------------------------- MODULE Engine -------------------------------
(***************************************************************************)
(* The truth-maintenance engine of one session (src/core/engine.go): facts *)
(* registered in a justification graph, the status propagated through it,  *)
(* and the operations that change either.  Every operation holds e.mu from *)
(* its first to its last step; what happens while the lock is held is      *)
(* modelled one work-queue item at a time, because the clock (ValidUntil,  *)
(* grounding_max_age_seconds) is read in the middle of the propagation.    *)
(*                                                                         *)
(* A status (a float64 in [0, 1]) is a natural number in 0..Valid.         *)
(***************************************************************************)
EXTENDS Integers, Sequences, FiniteSets

CONSTANTS
    FactId,      \* identifiers of facts
    Fact,        \* the facts clients may assert
    Status,      \* levels of confidence in use
    Valid,       \* full confidence (1.0 in the code)
    Threshold,   \* ConfidenceThreshold (0.6 in the code)
    MaxFacts,    \* MaxFactsPerSession
    Verifiable   \* the facts clients send verifications for

Invalid == 0

(* A dependency token: a fact id, negated when it is written "!id".        *)
Token == [id : FactId, neg : BOOLEAN]

(* What an assertion fixes about a fact for good: its identity, whether it *)
(* is a root, the confidence it is asserted with, its OR-of-AND            *)
(* justification sets, its scope (hypothetical or fictional, or about the  *)
(* real world), its source, what it demands of the facts that ground it    *)
(* (source types, if any are named, verification, and a maximum age),      *)
(* whether it is asserted as verified, and whether it has a ValidUntil.    *)
FactType(f) ==
    /\ f.id \in FactId
    /\ f.isRoot \in BOOLEAN
    /\ f.manual \in Status
    /\ f.sets \subseteq SUBSET Token
    /\ f.hypothetical \in BOOLEAN
    /\ f.needsVerified \in BOOLEAN
    /\ f.limitsAge \in BOOLEAN
    /\ f.verified \in BOOLEAN
    /\ f.expires \in BOOLEAN

ASSUME FactIdAssumption == IsFiniteSet(FactId)

ASSUME StatusAssumption ==
    /\ Valid \in Nat
    /\ Threshold \in 1..Valid
    /\ Status \subseteq 0..Valid
    /\ {Invalid, Valid} \subseteq Status
    /\ \A s \in Status : Valid - s \in Status

ASSUME FactAssumption == \A f \in Fact : FactType(f)

ASSUME MaxFactsAssumption == MaxFacts \in Nat /\ Verifiable \subseteq FactId

VARIABLES
    body,       \* Facts: the registered facts, by id
    manual,     \* ManualStatus
    derived,    \* DerivedStatus
    jset,       \* JustificationSets: count of valid parents and confidence
    collapsed,  \* CollapsedRoots
    retracted,  \* keys of RetractedFacts
    verified,   \* facts with verification_status "verified"
    expired,    \* facts whose ValidUntil has passed
    aged,       \* facts older than the maximum age a child may demand
    queue,      \* the work queue of propagate
    sweep       \* facts SweepExpiredFacts has still to propagate

lockVars == <<queue, sweep>>
clockVars == <<expired, aged>>
vars == <<body, manual, derived, jset, collapsed, retracted, verified,
          expired, aged, queue, sweep>>

Registered == DOMAIN body

ParentIds(s) == {t.id : t \in s}

(* ChildrenIndex[p]: the justification sets p occurs in.                   *)
ChildrenIndex(p) == {j \in DOMAIN jset : p \in ParentIds(j[2])}

(* An operation is under way, and nobody else can take e.mu.               *)
Locked == queue # <<>> \/ sweep # {}

-----------------------------------------------------------------------------
(* Statuses                                                                *)

(* The least and the greatest element of a finite set of statuses.         *)
LeastOf(S) == CHOOSE x \in S : \A y \in S : x <= y
GreatestOf(S) == CHOOSE x \in S : \A y \in S : x >= y

(* effectiveStatusUnsafe, with d the derived statuses to read.             *)
EffectiveStatus(f, d) ==
    IF f \in retracted \cup expired THEN Invalid
    ELSE IF body[f].isRoot THEN manual[f]
    ELSE d[f]

DependencyConfidence(st, neg) == IF neg THEN Valid - st ELSE st

(* A hypothetical or fictional fact grounds nothing about the real world.  *)
DependencyScopeSatisfied(parent, child) ==
    ~ (parent.hypothetical /\ ~ child.hypothetical)

DependencyGroundingSatisfied(facts, p, child, ver, old) ==
    /\ child.allowedSources # {} => facts[p].source \in child.allowedSources
    /\ child.needsVerified => p \in ver
    /\ child.limitsAge => p \notin old

DependencySatisfied(facts, child, t, st, ver, old) ==
    IF t.neg THEN st < Threshold
    ELSE /\ DependencyScopeSatisfied(facts[t.id], child)
         /\ DependencyGroundingSatisfied(facts, t.id, child, ver, old)
         /\ st >= Threshold

(* Mutant: one satisfied parent is enough for the whole set.               *)
JustificationSetStateOfAny(facts, child, s, view, ver, old) ==
    LET sat(t) == DependencySatisfied(facts, child, t, view[t.id], ver, old)
    IN  [valid |-> Cardinality({t \in s : sat(t)}),
         conf  |-> IF \E t \in s : sat(t)
                   THEN LeastOf({Valid} \cup
                          {DependencyConfidence(view[t.id], t.neg) :
                             t \in {u \in s : sat(u)}})
                   ELSE Invalid]

(* computeJustificationSetParentsUnsafe and the confidence its callers     *)
(* give the set: the least confidence of the parents if every one of them  *)
(* is satisfied.  facts are the registered facts, view gives the status of *)
(* each parent, ver the verified and old the aged facts.                   *)
JustificationSetState(facts, child, s, view, ver, old) ==
    LET sat(t) == DependencySatisfied(facts, child, t, view[t.id], ver, old)
    IN  [valid |-> Cardinality({t \in s : sat(t)}),
         conf  |-> IF \A t \in s : sat(t)
                   THEN LeastOf({Valid} \cup
                          {DependencyConfidence(view[t.id], t.neg) : t \in s})
                   ELSE Invalid]

(* What a justification set is worth now.                                  *)
Compute(child, s, d, ver) ==
    JustificationSetState(body, child, s,
        [p \in ParentIds(s) |-> EffectiveStatus(p, d)], ver, aged)

(* The status propagate gives a fact: OR over its justification sets.      *)
NewStatus(f) ==
    IF f \in retracted THEN Invalid
    ELSE IF body[f].isRoot THEN manual[f]
    ELSE GreatestOf({Invalid} \cup
           {c \in {jset[j].conf : j \in {k \in DOMAIN jset : k[1] = f}} :
              c >= Threshold})

(* Go iterates over a map in any order: the sequences that list S.         *)
Orders(S) ==
    {q \in [1..Cardinality(S) -> S] : \A x \in S : \E i \in DOMAIN q : q[i] = x}

(* Mutant: a set whose confidence alone changed does not wake its child.   *)
RecomputeChildrenByCount(p, d, ver, q) ==
    LET new(j)  == Compute(body[j[1]], j[2], d, ver)
        changed == {j \in ChildrenIndex(p) : new(j).valid # jset[j].valid}
    IN  /\ jset' = [j \in DOMAIN jset |->
                      IF j \in ChildrenIndex(p) THEN new(j) ELSE jset[j]]
        /\ \E order \in Orders(changed) :
              queue' = q \o [i \in DOMAIN order |-> order[i][1]]

(* Recompute the sets p occurs in and append the child of every set that   *)
(* changed to the queue q, in any order (recomputeChildrenForParentUnsafe, *)
(* and the same loop in propagate).                                        *)
RecomputeChildren(p, d, ver, q) ==
    LET new(j)  == Compute(body[j[1]], j[2], d, ver)
        changed == {j \in ChildrenIndex(p) : new(j) # jset[j]}
    IN  /\ jset' = [j \in DOMAIN jset |->
                      IF j \in ChildrenIndex(p) THEN new(j) ELSE jset[j]]
        /\ \E order \in Orders(changed) :
              queue' = q \o [i \in DOMAIN order |-> order[i][1]]

-----------------------------------------------------------------------------
(* Assertion                                                               *)

(* detectCycle's reachable(from, to): every set of facts that holds from   *)
(* and is closed under ChildrenIndex holds to.                             *)
Reachable(from, to) ==
    \A S \in SUBSET (Registered \cup {from, to}) :
        ( /\ from \in S
          /\ \A j \in DOMAIN jset : ParentIds(j[2]) \cap S # {} => j[1] \in S )
        => to \in S

DetectCycle(f) == \E s \in f.sets : \E t \in s : Reachable(t.id, f.id)

(* validateAssertFactLocked.  An id that is already registered is either   *)
(* a no-op or an error: nothing changes, so nothing is enabled.            *)
ValidateAssertFact(f) ==
    /\ Cardinality(Registered) < MaxFacts
    /\ f.id \notin Registered
    /\ f.isRoot \/ f.sets # {}
    /\ \A s \in f.sets : s # {} /\ ParentIds(s) \subseteq Registered
    /\ ~ DetectCycle(f)

RegisterFact(f) ==
    /\ body' = [g \in Registered \cup {f.id} |-> IF g = f.id THEN f ELSE body[g]]
    /\ manual' = [manual EXCEPT ![f.id] = f.manual]
    /\ verified' = IF f.verified THEN verified \cup {f.id} ELSE verified

InitializeRootFact(f) ==
    /\ derived' = [derived EXCEPT ![f.id] = f.manual]
    /\ collapsed' = IF f.manual < Threshold THEN collapsed \cup {f.id}
                                            ELSE collapsed
    /\ jset' = jset

InitializeDerivedFact(f) ==
    /\ derived' = [derived EXCEPT ![f.id] = Invalid]
    /\ jset' = [j \in DOMAIN jset \cup ({f.id} \X f.sets) |->
                  IF j \in DOMAIN jset THEN jset[j]
                  ELSE Compute(f, j[2], derived, verified)]
    /\ collapsed' = collapsed

(* Mutant: the parents are looked up after the fact is registered, and the *)
(* cycle check looks at the graph without it: a fact may rest on itself.   *)
AssertFactRegisteredFirst(f) ==
    /\ ~ Locked
    /\ Cardinality(Registered) < MaxFacts
    /\ f.id \notin Registered
    /\ f.isRoot \/ f.sets # {}
    /\ \A s \in f.sets : s # {} /\ ParentIds(s) \subseteq Registered \cup {f.id}
    /\ RegisterFact(f)
    /\ IF f.isRoot THEN InitializeRootFact(f)
       ELSE /\ derived' = [derived EXCEPT ![f.id] = Invalid]
            /\ jset' = [j \in DOMAIN jset \cup ({f.id} \X f.sets) |->
                 IF j \in DOMAIN jset THEN jset[j]
                 ELSE JustificationSetState(body', f, j[2],
                        [p \in ParentIds(j[2]) |->
                           IF p = f.id THEN Invalid
                           ELSE EffectiveStatus(p, derived)], verified, aged)]
            /\ collapsed' = collapsed
    /\ queue' = <<f.id>>
    /\ UNCHANGED <<retracted, clockVars, sweep>>

AssertFact(f) ==
    /\ ~ Locked
    /\ ValidateAssertFact(f)
    /\ RegisterFact(f)
    /\ IF f.isRoot THEN InitializeRootFact(f) ELSE InitializeDerivedFact(f)
    /\ queue' = <<f.id>>
    /\ UNCHANGED <<retracted, clockVars, sweep>>

-----------------------------------------------------------------------------
(* Operations on a registered fact                                         *)

InvalidateRoot(f) ==
    /\ ~ Locked
    /\ f \in Registered /\ body[f].isRoot
    /\ manual[f] # Invalid
    /\ manual' = [manual EXCEPT ![f] = Invalid]
    /\ collapsed' = collapsed \cup {f}
    /\ queue' = <<f>>
    /\ UNCHANGED <<body, derived, jset, retracted, verified, clockVars, sweep>>

(* Mutant: a root that regains confidence stays in CollapsedRoots.         *)
SetRootConfidenceKeepingCollapse(f, confidence) ==
    /\ ~ Locked
    /\ f \in Registered /\ body[f].isRoot
    /\ manual[f] # confidence
    /\ manual' = [manual EXCEPT ![f] = confidence]
    /\ collapsed' = IF confidence < Threshold THEN collapsed \cup {f}
                                              ELSE collapsed
    /\ queue' = <<f>>
    /\ UNCHANGED <<body, derived, jset, retracted, verified, clockVars, sweep>>

(* Mutant: new confidence in a root takes its retraction back.             *)
SetRootConfidenceReviving(f, confidence) ==
    /\ ~ Locked
    /\ f \in Registered /\ body[f].isRoot
    /\ manual[f] # confidence
    /\ manual' = [manual EXCEPT ![f] = confidence]
    /\ collapsed' = IF confidence < Threshold THEN collapsed \cup {f}
                                              ELSE collapsed \ {f}
    /\ retracted' = retracted \ {f}
    /\ queue' = <<f>>
    /\ UNCHANGED <<body, derived, jset, verified, clockVars, sweep>>

SetRootConfidence(f, confidence) ==
    /\ ~ Locked
    /\ f \in Registered /\ body[f].isRoot
    /\ manual[f] # confidence
    /\ manual' = [manual EXCEPT ![f] = confidence]
    /\ collapsed' = IF confidence < Threshold THEN collapsed \cup {f}
                                              ELSE collapsed \ {f}
    /\ queue' = <<f>>
    /\ UNCHANGED <<body, derived, jset, retracted, verified, clockVars, sweep>>

(* The reason of a retraction is not kept: a second retraction for another *)
(* reason propagates a fact whose status is already Invalid.               *)
RetractFact(f) ==
    /\ ~ Locked
    /\ f \in Registered
    /\ retracted' = retracted \cup {f}
    /\ queue' = <<f>>
    /\ UNCHANGED <<body, manual, derived, jset, collapsed, verified, clockVars,
                   sweep>>

(* Mutant: the verdict is stored and the children are left as they are.    *)
SetFactVerificationQuietly(f, ver) ==
    /\ ~ Locked
    /\ f \in Registered
    /\ verified' = IF ver THEN verified \cup {f} ELSE verified \ {f}
    /\ UNCHANGED <<body, manual, derived, jset, collapsed, retracted, clockVars,
                   queue, sweep>>

SetFactVerification(f, ver) ==
    /\ ~ Locked
    /\ f \in Registered
    /\ verified' = IF ver THEN verified \cup {f} ELSE verified \ {f}
    /\ RecomputeChildren(f, derived, verified', <<>>)
    /\ UNCHANGED <<body, manual, derived, collapsed, retracted, clockVars, sweep>>

(* Mutant: expired facts are retracted, and nothing is propagated.         *)
SweepExpiredFactsQuietly ==
    /\ ~ Locked
    /\ expired \ retracted # {}
    /\ retracted' = retracted \cup expired
    /\ UNCHANGED <<body, manual, derived, jset, collapsed, verified, clockVars,
                   queue, sweep>>

(* The sweep compares ValidUntil with a time read before it had the lock,  *)
(* so a fact that lapsed while it waited is left for the next sweep.       *)
SweepExpiredFacts ==
    /\ ~ Locked
    /\ \E S \in SUBSET (expired \ retracted) :
          /\ S # {}
          /\ retracted' = retracted \cup S
          /\ sweep' = S
    /\ UNCHANGED <<body, manual, derived, jset, collapsed, verified, clockVars,
                   queue>>

SweepNext ==
    /\ queue = <<>>
    /\ \E f \in sweep : queue' = <<f>> /\ sweep' = sweep \ {f}
    /\ UNCHANGED <<body, manual, derived, jset, collapsed, retracted, verified,
                   clockVars>>

(* One iteration of propagate's loop.                                      *)
Propagate ==
    /\ queue # <<>>
    /\ LET f   == Head(queue)
           new == NewStatus(f)
       IN  /\ derived' = [derived EXCEPT ![f] = new]
           /\ IF new = derived[f]
              THEN jset' = jset /\ queue' = Tail(queue)
              ELSE RecomputeChildren(f, derived', verified, Tail(queue))
    /\ UNCHANGED <<body, manual, collapsed, retracted, verified, clockVars, sweep>>

(* Time passes, whoever holds the lock.                                    *)
Expire(f) ==
    /\ f \in Registered \ expired
    /\ body[f].expires
    /\ expired' = expired \cup {f}
    /\ UNCHANGED <<body, manual, derived, jset, collapsed, retracted, verified,
                   aged, lockVars>>

(* Only the age of a fact that a child may limit is ever looked at.        *)
Age(f) ==
    /\ f \in Registered \ aged
    /\ \E g \in Fact : g.limitsAge /\ \E s \in g.sets : f \in ParentIds(s)
    /\ aged' = aged \cup {f}
    /\ UNCHANGED <<body, manual, derived, jset, collapsed, retracted, verified,
                   expired, lockVars>>

-----------------------------------------------------------------------------

Init ==
    /\ body = [f \in {} |-> f]
    /\ manual = [f \in FactId |-> Invalid]
    /\ derived = [f \in FactId |-> Invalid]
    /\ jset = [j \in {} |-> j]
    /\ collapsed = {}
    /\ retracted = {}
    /\ verified = {}
    /\ expired = {}
    /\ aged = {}
    /\ queue = <<>>
    /\ sweep = {}

Next ==
    \/ \E f \in Fact : AssertFact(f)
    \/ \E f \in FactId :
          \/ InvalidateRoot(f)
          \/ \E s \in Status : SetRootConfidence(f, s)
          \/ RetractFact(f)
          \/ Expire(f)
          \/ Age(f)
    \/ \E f \in Verifiable, ver \in BOOLEAN : SetFactVerification(f, ver)
    \/ SweepExpiredFacts
    \/ SweepNext
    \/ Propagate

Spec == Init /\ [][Next]_vars

-----------------------------------------------------------------------------
(* Properties                                                              *)

JSetIds == UNION {{f} \X body[f].sets : f \in {g \in Registered : ~ body[g].isRoot}}

(* Every variable has its type, and JustificationSets holds exactly the    *)
(* sets of the derived facts that are registered.                          *)
TypeOK ==
    /\ Registered \subseteq FactId
    /\ body \in [Registered -> Fact]
    /\ \A f \in Registered : body[f].id = f
    /\ manual \in [FactId -> Status]
    /\ derived \in [FactId -> Status]
    /\ jset \in [JSetIds -> [valid : Nat, conf : Status]]
    /\ collapsed \subseteq FactId
    /\ retracted \subseteq Registered
    /\ verified \subseteq Registered
    /\ expired \subseteq Registered
    /\ aged \subseteq Registered
    /\ queue \in Seq(Registered)
    /\ sweep \subseteq retracted

(* The facts a fact rests on.                                              *)
Parents(f) == UNION {ParentIds(j[2]) : j \in {k \in DOMAIN jset : k[1] = f}}

(* No justification is circular: every set of facts has a member that      *)
(* rests on none of the others, and every parent is registered.            *)
(* validateAssertFactLocked and detectCycle are to guarantee it; the       *)
(* propagation would otherwise not end.                                    *)
Acyclic ==
    /\ \A f \in Registered : Parents(f) \subseteq Registered
    /\ \A S \in SUBSET Registered :
          S # {} => \E f \in S : Parents(f) \cap S = {}

(* A justification set none of whose parents changed merely because time   *)
(* passed: no parent is past its ValidUntil and still unswept, none is     *)
(* over an age the child limits.                                           *)
Timely(j) ==
    \A p \in ParentIds(j[2]) :
        /\ p \notin expired \ retracted
        /\ body[j[1]].limitsAge => p \notin aged

(* When the lock is free the statuses are a fixpoint: every fact has the   *)
(* status its justification sets give it, and every timely set is worth    *)
(* what its parents' statuses say.  This is what propagate is for,         *)
(* whatever order the map iterations and the operations came in.           *)
Settled ==
    ~ Locked =>
        /\ \A f \in Registered : derived[f] = NewStatus(f)
        /\ \A j \in DOMAIN jset :
              Timely(j) => jset[j] = Compute(body[j[1]], j[2], derived, verified)

(* A fact some justification of which holds, by the statuses that readers  *)
(* see (effectiveStatusUnsafe).                                            *)
Supported(f) ==
    \E j \in DOMAIN jset :
        /\ j[1] = f
        /\ \A t \in j[2] :
              /\ DependencySatisfied(body, body[f], t,
                                     EffectiveStatus(t.id, derived),
                                     verified, aged)
              /\ DependencyConfidence(EffectiveStatus(t.id, derived), t.neg)
                    >= Threshold

(* Settled is not inductive: it says nothing while an operation is under   *)
(* way.  What holds then, in three parts.                                  *)

InQueue(f) == \E i \in DOMAIN queue : queue[i] = f

(* (1) A fact that is not waiting to be processed has its status.          *)
StatusesUpToDate ==
    \A f \in Registered :
        ~ InQueue(f) /\ f \notin sweep => derived[f] = NewStatus(f)

(* (2) A root's manual and derived statuses differ only while the root is  *)
(* the one fact on the queue: nothing is recomputed from the new manual    *)
(* status before the derived one is adjusted.                              *)
RootsUpToDate ==
    \A r \in Registered \ retracted :
        body[r].isRoot => derived[r] = manual[r] \/ queue = <<r>>

(* (3) Every justification set was computed from its parents' statuses,    *)
(* except that a parent that is retracted or past its ValidUntil may       *)
(* already have counted as Invalid, and from some earlier ages.            *)
SeenStatuses(j) ==
    {v \in [ParentIds(j[2]) -> Status] :
        \A p \in ParentIds(j[2]) :
            \/ v[p] = derived[p]
            \/ p \in expired \cup retracted /\ v[p] = Invalid}

SetsUpToDate ==
    \A j \in DOMAIN jset :
        \E v \in SeenStatuses(j), old \in SUBSET aged :
            jset[j] =
                JustificationSetState(body, body[j[1]], j[2], v, verified, old)

(* The inductive invariant behind Settled.                                 *)
PropagationInv == StatusesUpToDate /\ RootsUpToDate /\ SetsUpToDate

(* A derived fact is believed exactly when some justification of it holds: *)
(* it is neither kept after its last support went nor left out once a      *)
(* justification is satisfied again (scope, sources, verification, age     *)
(* and negation included).                                                 *)
ValidIffSupported ==
    ~ Locked =>
        \A f \in Registered \ retracted :
            ( /\ ~ body[f].isRoot
              /\ \A j \in DOMAIN jset : j[1] = f => Timely(j) )
            => (derived[f] >= Threshold <=> Supported(f))

(* A labelling that satisfies the equations of the graph.                  *)
IsLabelling(L) ==
    \A f \in Registered :
        L[f] = IF f \in retracted THEN Invalid
               ELSE IF body[f].isRoot THEN manual[f]
               ELSE GreatestOf({Invalid} \cup
                      {c \in {JustificationSetState(body, body[f], j[2], L,
                                                    verified, aged).conf :
                                j \in {k \in DOMAIN jset : k[1] = f}} :
                         c >= Threshold})

(* Once time has been caught up with, the statuses are the only labelling  *)
(* of the graph: they depend on what is asserted, retracted and verified,  *)
(* and not on the order in which it happened.                              *)
Confluent ==
    (~ Locked /\ expired \subseteq retracted /\ aged = {}) =>
        \A L \in [Registered -> Status] :
            IsLabelling(L) => L = [f \in Registered |-> derived[f]]

(* CollapsedRoots, which GetStatus prunes with, are exactly the roots      *)
(* whose manual confidence is below the threshold.                         *)
CollapsedExact ==
    collapsed = {f \in Registered : body[f].isRoot /\ manual[f] < Threshold}

(* A retraction is for good: no later operation, on the fact or on what it *)
(* rests on, gives a retracted fact a status again.                        *)
NoResurrection ==
    [][\A f \in retracted : /\ f \in retracted'
                            /\ derived[f] = Invalid => derived'[f] = Invalid]_vars

(* Every operation gives the lock back: the propagation through an         *)
(* and/or/not graph comes to an end.                                       *)
PropagationEnds == Locked ~> ~ Locked

(* A fact past its ValidUntil is retracted and loses its status, at the    *)
(* latest when the expiry sweep comes round.  That it stays so and that    *)
(* what rests on it follows is NoResurrection and PropagationInv.          *)
ExpiryTakesEffect ==
    \A f \in FactId : (f \in expired) ~> (f \in retracted /\ derived[f] = Invalid)

=============================================================================
