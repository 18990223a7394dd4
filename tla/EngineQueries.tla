---------------------------- MODULE EngineQueries ----------------------------
(***************************************************************************)
(* What readers of an engine are told: GetStatus, which answers from a     *)
(* dominator tree it caches (src/core/dominators.go), and GetImpact, which *)
(* simulates the invalidation of a fact (src/core/engine.go).  GetStatus   *)
(* takes e.mu for writing.  GetImpact holds it for reading: no writer runs *)
(* meanwhile, but the clock goes on, and Go iterates over its maps in any  *)
(* order, so the simulation is one step per justification set.             *)
(***************************************************************************)
EXTENDS Engine

CONSTANT None   \* the empty fact id, and no simulation

ASSUME NoneAssumption == None \notin FactId

VARIABLES
    idom,    \* IDom of every fact that had one at the last recomputation
    dirty,   \* DirtyDominators
    sim      \* the simulation of a GetImpact under way, or None

queryVars == <<vars, idom, dirty, sim>>

-----------------------------------------------------------------------------
(* The dominator tree                                                      *)

(* getDominatorPath, as a set: a fact and the facts above it in D.         *)
DominatorPath(D, f) ==
    LET path[n \in Nat] ==
            IF n = 0 THEN {f}
            ELSE path[n - 1] \cup ({D[g] : g \in path[n - 1]} \ {None})
    IN  path[Cardinality(DOMAIN D)]

(* lca: the lowest fact on both paths.  An empty id gives the other one.   *)
LCA(D, x, y) ==
    IF x = None THEN y
    ELSE IF y = None THEN x
    ELSE LET common == DominatorPath(D, x) \cap DominatorPath(D, y)
         IN  IF common = {} THEN None
             ELSE CHOOSE z \in common : common \subseteq DominatorPath(D, z)

(* The lca of a sequence of ids, from its first one on.                    *)
LCASeq(D, q) ==
    LET fold[i \in 1..Len(q)] ==
            IF i = 1 THEN q[1] ELSE LCA(D, fold[i - 1], q[i])
    IN  fold[Len(q)]

(* IDom of a justification set, whose parents come in the order in which   *)
(* the client wrote them.                                                  *)
SetIDoms(D, s) == {LCASeq(D, q) : q \in Orders(ParentIds(s))}

(* IDom of a derived fact: its justification sets come in map order.       *)
FactIDoms(D, f) ==
    LET sets == body[f].sets
    IN  {LCASeq(D, [i \in DOMAIN q |-> choice[q[i]]]) :
            q \in Orders(sets),
            choice \in {c \in [sets -> Registered \cup {None}] :
                          \A s \in sets : c[s] \in SetIDoms(D, s)}}

(* recomputeDominators goes through the graph in topological order, so an  *)
(* IDom is an ancestor in the graph and depends on the ancestors' IDoms.   *)
Ancestors(f) ==
    LET above[n \in Nat] ==
            IF n = 0 THEN Parents(f)
            ELSE above[n - 1] \cup UNION {Parents(g) : g \in above[n - 1]}
    IN  above[Cardinality(Registered)]

DominatorTrees ==
    {D \in {T \in [Registered -> Registered \cup {None}] :
              \A f \in Registered : T[f] \in Ancestors(f) \cup {None}} :
       \A f \in Registered :
          IF body[f].isRoot THEN D[f] = None ELSE D[f] \in FactIDoms(D, f)}

(* The intervals of computeDominatorIntervals are nested exactly when u is *)
(* v or above it in the tree.                                              *)
IsDominatorAncestor(u, v) == u \in DominatorPath(idom, v)

(* GetStatus finds the dominators dirty and recomputes them.               *)
RecomputeDominators ==
    /\ ~ Locked /\ sim = None
    /\ dirty
    /\ \E D \in DominatorTrees : idom' = D
    /\ dirty' = FALSE
    /\ UNCHANGED <<vars, sim>>

(* The answer of GetStatus, once the dominators are fresh.                 *)
GetStatus(f) ==
    LET current == EffectiveStatus(f, derived)
    IN  IF current < Threshold \/ \E r \in collapsed : IsDominatorAncestor(r, f)
        THEN Invalid ELSE current

-----------------------------------------------------------------------------
(* GetImpact                                                               *)

GetImpact(f) ==
    /\ ~ Locked /\ sim = None
    /\ f \in Registered
    /\ sim' = [root     |-> f,
               status   |-> [g \in Registered |->
                               IF g = f THEN Invalid
                               ELSE EffectiveStatus(g, derived)],
               conf     |-> [j \in DOMAIN jset |-> jset[j].conf],
               impacted |-> {f},
               queue    |-> <<f>>,
               todo     |-> ChildrenIndex(f)]
    /\ UNCHANGED <<vars, idom, dirty>>

(* Mutant: a fact falls with the first of its justification sets.          *)
SimulatedDerivedStatusOfAll(f, conf) ==
    LeastOf({Valid} \cup {conf[j] : j \in {k \in DOMAIN conf : k[1] = f}})

(* simulatedDerivedStatusUnsafe: unlike propagate it knows no threshold,   *)
(* no retraction and no ValidUntil.                                        *)
SimulatedDerivedStatus(f, conf) ==
    GreatestOf({Invalid} \cup
               {conf[j] : j \in {k \in DOMAIN conf : k[1] = f}})

(* One justification set of the fact at the head of the queue.             *)
SimulateJustificationSet(j) ==
    /\ sim # None /\ j \in sim.todo
    /\ LET child   == j[1]
           conf    == [sim.conf EXCEPT ![j] =
                         JustificationSetState(body, body[child], j[2],
                                               sim.status, verified, aged).conf]
           status  == SimulatedDerivedStatus(child, conf)
           changes == conf # sim.conf /\ status # sim.status[child]
           falls   == /\ changes /\ status < Threshold
                      /\ child \notin sim.impacted
       IN  sim' = [sim EXCEPT
                     !.conf = conf,
                     !.status[child] = IF changes THEN status ELSE @,
                     !.impacted = IF falls THEN @ \cup {child} ELSE @,
                     !.queue = IF falls THEN Append(@, child) ELSE @,
                     !.todo = @ \ {j}]
    /\ UNCHANGED <<vars, idom, dirty>>

SimulateNextFact ==
    /\ sim # None /\ sim.todo = {} /\ Len(sim.queue) > 1
    /\ sim' = [sim EXCEPT !.queue = Tail(@),
                          !.todo = ChildrenIndex(sim.queue[2])]
    /\ UNCHANGED <<vars, idom, dirty>>

Simulated == sim # None /\ sim.todo = {} /\ Len(sim.queue) = 1

ReturnImpact ==
    /\ Simulated
    /\ sim' = None
    /\ UNCHANGED <<vars, idom, dirty>>

-----------------------------------------------------------------------------

QueryInit ==
    /\ Init
    /\ idom = [f \in {} |-> None]
    /\ dirty = FALSE
    /\ sim = None

(* registerFactLocked marks the dominators dirty.  Only the clock runs     *)
(* while a reader holds the lock.                                          *)
EngineStep ==
    /\ Next
    /\ sim # None => \E f \in FactId : Expire(f) \/ Age(f)
    /\ dirty' = (dirty \/ body' # body)
    /\ UNCHANGED <<idom, sim>>

QueryNext ==
    \/ EngineStep
    \/ RecomputeDominators
    \/ \E f \in FactId : GetImpact(f)
    \/ \E j \in DOMAIN jset : SimulateJustificationSet(j)
    \/ SimulateNextFact
    \/ ReturnImpact

QuerySpec == QueryInit /\ [][QueryNext]_queryVars

(* Whoever holds the lock, to write or to read, runs to the end of its     *)
(* operation, and the expiry ticker gets the lock in the end: a Go mutex   *)
(* is not unfair to a waiter, however many readers there are.              *)
WriterStep == sim = None /\ (SweepNext \/ Propagate) /\ UNCHANGED <<idom, dirty, sim>>
ReaderStep == \/ \E j \in DOMAIN jset : SimulateJustificationSet(j)
              \/ SimulateNextFact
              \/ ReturnImpact
TickerStep == sim = None /\ SweepExpiredFacts /\ UNCHANGED <<idom, dirty, sim>>

FairQuerySpec ==
    /\ QuerySpec
    /\ WF_queryVars(WriterStep)
    /\ WF_queryVars(ReaderStep)
    /\ SF_queryVars(TickerStep)

-----------------------------------------------------------------------------
(* Properties                                                              *)

(* The status propagation gave a fact, unless it is below the threshold.   *)
ResolvedStatus(f) ==
    LET current == EffectiveStatus(f, derived)
    IN  IF current < Threshold THEN Invalid ELSE current

(* The comment of GetStatus: it "returns the logically resolved status of  *)
(* a fact".  The pruning by dominators must not change the answer.         *)
GetStatusResolves ==
    ~ Locked /\ ~ dirty => \A f \in Registered : GetStatus(f) = ResolvedStatus(f)

(* f and what it rests on are a chain of positive dependencies, each the   *)
(* only one of its fact.                                                   *)
OnChain(f) ==
    \A g \in Ancestors(f) \cup {f} :
        body[g].isRoot \/ \E p \in Registered :
                              body[g].sets = {{[id |-> p, neg |-> FALSE]}}

(* On deep chains, for which the comment of GetStatus says it is made, the *)
(* pruning by dominators never changes the answer, whichever order facts   *)
(* were asserted, collapsed and restored in, and however stale the cached  *)
(* tree was before the call.                                               *)
ChainsResolve ==
    ~ Locked /\ ~ dirty =>
        \A f \in Registered : OnChain(f) => GetStatus(f) = ResolvedStatus(f)

(* The labelling of the graph if root f had no confidence.                 *)
IsLabellingWithout(f, L) ==
    \A g \in Registered :
        L[g] = IF g = f \/ g \in retracted \cup expired THEN Invalid
               ELSE IF body[g].isRoot THEN manual[g]
               ELSE GreatestOf({Invalid} \cup
                      {c \in {JustificationSetState(body, body[g], j[2], L,
                                                    verified, aged).conf :
                                j \in {k \in DOMAIN jset : k[1] = g}} :
                         c >= Threshold})

(* The facts an invalidation of f would make invalid, and f.               *)
WouldFall(f) ==
    {f} \cup
    {g \in Registered :
       /\ EffectiveStatus(g, derived) >= Threshold
       /\ \E L \in [Registered -> Status] :
             IsLabellingWithout(f, L) /\ L[g] < Threshold}

(* In a graph without negation, and while nothing is retracted, the        *)
(* simulation finds exactly the facts that would fall, although it goes on *)
(* only from facts that have fallen and visits the sets in any order.      *)
MonotoneImpactExact ==
    ( /\ Simulated /\ body[sim.root].isRoot
      /\ retracted = {} /\ expired = {} /\ aged = {}
      /\ \A j \in DOMAIN jset : \A t \in j[2] : ~ t.neg )
    => sim.impacted = WouldFall(sim.root)

=============================================================================
