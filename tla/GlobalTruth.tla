----------------------------- MODULE GlobalTruth -----------------------------
(***************************************************************************)
(* The org-wide facts shared by the sessions of a server                   *)
(* (src/core/global_truth.go) and the engines that subscribe to them.      *)
(* Every operation of GlobalTruth holds gt.mu and changes the subscribed   *)
(* engines before it returns.  A session's handler asserts a local fact    *)
(* into its engine first and tells GlobalTruth of it afterwards, in a      *)
(* second step (src/api/server.go).                                        *)
(*                                                                         *)
(* Of an engine the model keeps its copies of global facts, which of them  *)
(* it has retracted, and its local facts that rest on global ones.         *)
(***************************************************************************)
EXTENDS Integers, Sequences, FiniteSets

CONSTANTS
    Session,
    GlobalId,    \* ids of global facts
    GParents,    \* the global facts a global fact rests on
    Value,       \* contents a global fact is asserted with
    LocalId,     \* ids of facts local to a session
    Needs        \* the global facts a local fact rests on

ASSUME GlobalAssumption ==
    /\ GParents \in [GlobalId -> SUBSET GlobalId]
    /\ Needs \in [LocalId -> SUBSET GlobalId]

VARIABLES
    facts,        \* gt.facts: content by id
    retracted,    \* keys of gt.retracted
    subscribers,  \* sessions with a subscribed engine
    depIndex,     \* depIndex: sessions that reference a global fact
    sessionDeps,  \* sessionDeps: the same by session
    engine,       \* the engine of every session
    pending       \* local facts asserted and not indexed yet: <<session, id>>

gtVars == <<facts, retracted, subscribers, depIndex, sessionDeps>>
vars == <<facts, retracted, subscribers, depIndex, sessionDeps, engine, pending>>

-----------------------------------------------------------------------------
(* Engines                                                                 *)

NewEngine == [copy |-> [g \in {} |-> g], dropped |-> {}, local |-> {}]

(* Engine.AssertFact of a copy: a known id is left alone whether or not    *)
(* the content is the same, and an unknown parent is an error.             *)
AssertCopy(eng, g, v) ==
    IF g \in DOMAIN eng.copy \/ ~ GParents[g] \subseteq DOMAIN eng.copy
    THEN eng
    ELSE [eng EXCEPT !.copy = [h \in DOMAIN @ \cup {g} |->
                                 IF h = g THEN v ELSE @[h]]]

RetractCopy(eng, g) ==
    IF g \in DOMAIN eng.copy THEN [eng EXCEPT !.dropped = @ \cup {g}] ELSE eng

AssertLocal(eng, l) ==
    IF Needs[l] \subseteq DOMAIN eng.copy
    THEN [eng EXCEPT !.local = @ \cup {l}] ELSE eng

-----------------------------------------------------------------------------
(* Partition: union-find over the dependency edges, in map order           *)

Edges == {e \in (DOMAIN facts) \X (DOMAIN facts) : e[2] \in GParents[e[1]]}

Orders(S) ==
    {q \in [1..Cardinality(S) -> S] : \A x \in S : \E i \in DOMAIN q : q[i] = x}

Find(parent, x) ==
    LET up[n \in Nat] == IF n = 0 THEN x ELSE parent[up[n - 1]]
    IN  up[Cardinality(DOMAIN parent)]

(* Mutant: the facts themselves are linked, not their representatives.     *)
UnionUnrooted(parent, x, y) == [parent EXCEPT ![x] = y]

Union(parent, x, y) == [parent EXCEPT ![Find(parent, x)] = Find(parent, y)]

Partition(order) ==
    LET parent[i \in 0..Len(order)] ==
            IF i = 0 THEN [g \in DOMAIN facts |-> g]
            ELSE Union(parent[i - 1], order[i][1], order[i][2])
        final == parent[Len(order)]
        root(g) == Find(final, g)
    IN  {{h \in DOMAIN facts : root(h) = root(g)} : g \in DOMAIN facts}

(* Mutant: only sessions that reference the fact itself are affected.      *)
AffectedSubscribersDirectly(g) == depIndex[g]

(* affectedSubscribersLocked: every session that references some fact of   *)
(* g's component, subscribed or not.                                       *)
AffectedSubscribers(g) ==
    UNION {depIndex[h] : h \in UNION {comp \in Partition(CHOOSE q \in Orders(Edges) : TRUE) :
                                        g \in comp}}

-----------------------------------------------------------------------------
(* The dependency index                                                    *)

(* removeSessionIndexLocked takes the session out of the entries that      *)
(* sessionDeps names, and of no other; then come the references deps of a  *)
(* rebuilt index.                                                          *)
SetSessionIndex(s, deps) ==
    LET removed == [g \in GlobalId |-> IF g \in sessionDeps[s] THEN depIndex[g] \ {s}
                                                              ELSE depIndex[g]]
    IN  /\ sessionDeps' = [sessionDeps EXCEPT ![s] = deps]
        /\ depIndex' = [g \in GlobalId |-> IF g \in deps THEN removed[g] \cup {s}
                                                        ELSE removed[g]]

(* rebuildSessionIndexLocked: the global facts some fact of the engine     *)
(* rests on, a copy of a global fact included.                             *)
References(eng) ==
    (UNION {Needs[l] : l \in eng.local} \cup UNION {GParents[g] : g \in DOMAIN eng.copy})
        \cap DOMAIN facts

-----------------------------------------------------------------------------
(* Operations                                                              *)

(* The copies an engine ends up with when the facts that are not retracted *)
(* are asserted in the order q.                                            *)
ReplayInto(eng, q) ==
    LET after[i \in 0..Len(q)] ==
            IF i = 0 THEN eng ELSE AssertCopy(after[i - 1], q[i], facts[q[i]])
    IN  after[Len(q)]

(* getEngine and handleRevalidate: an engine is booted from its last       *)
(* snapshot or by replaying the session's own journal, in which the facts  *)
(* that rest on global ones are rejected, and only then subscribed.  It    *)
(* replaces the engine of a session that was subscribed already.           *)
Subscribe(s) ==
    LET boot == {engine[s], [NewEngine EXCEPT !.local =
                               {l \in engine[s].local : Needs[l] = {}}]}
    IN  /\ \E eng \in boot, q \in Orders(DOMAIN facts \ retracted) :
              /\ engine' = [engine EXCEPT ![s] = ReplayInto(eng, q)]
              /\ SetSessionIndex(s, References(eng))
        /\ subscribers' = subscribers \cup {s}
        /\ UNCHANGED <<facts, retracted, pending>>

(* Eviction or deletion of a session; its last engine is its snapshot.     *)
Unsubscribe(s) ==
    /\ s \in subscribers
    /\ subscribers' = subscribers \ {s}
    /\ SetSessionIndex(s, {})
    /\ UNCHANGED <<facts, retracted, engine, pending>>

(* A new fact goes to every subscriber, an update to the affected ones or, *)
(* if there are none, to every one.                                        *)
AssertGlobal(g, v) ==
    LET affected == AffectedSubscribers(g) \cap subscribers
        targets  == IF g \in DOMAIN facts /\ affected # {} THEN affected
                    ELSE subscribers
    IN  /\ facts' = [h \in DOMAIN facts \cup {g} |-> IF h = g THEN v ELSE facts[h]]
        /\ retracted' = retracted \ {g}
        /\ engine' = [s \in Session |-> IF s \in targets
                                        THEN AssertCopy(engine[s], g, v)
                                        ELSE engine[s]]
        /\ UNCHANGED <<subscribers, depIndex, sessionDeps, pending>>

(* The affected sessions are counted whether they are subscribed or not.   *)
RetractGlobal(g) ==
    LET affected == AffectedSubscribers(g)
        targets  == IF 0 < Cardinality(affected)
                       /\ Cardinality(affected) < Cardinality(subscribers)
                    THEN affected \cap subscribers ELSE subscribers
    IN  /\ g \in DOMAIN facts
        /\ retracted' = retracted \cup {g}
        /\ engine' = [s \in Session |-> IF s \in targets
                                        THEN RetractCopy(engine[s], g)
                                        ELSE engine[s]]
        /\ UNCHANGED <<facts, subscribers, depIndex, sessionDeps, pending>>

(* handleAssertFact: the engine accepts the fact ...                       *)
AssertLocalFact(s, l) ==
    /\ s \in subscribers
    /\ AssertLocal(engine[s], l) # engine[s]
    /\ engine' = [engine EXCEPT ![s] = AssertLocal(@, l)]
    /\ pending' = pending \cup {<<s, l>>}
    /\ UNCHANGED gtVars

(* ... and its references are indexed, whatever has become of the session. *)
IndexFactDependencies(s, l) ==
    LET deps == Needs[l] \cap DOMAIN facts
    IN  /\ <<s, l>> \in pending
        /\ pending' = pending \ {<<s, l>>}
        /\ sessionDeps' = [sessionDeps EXCEPT ![s] = @ \cup deps]
        /\ depIndex' = [g \in GlobalId |-> IF g \in deps
                                           THEN depIndex[g] \cup {s} ELSE depIndex[g]]
        /\ UNCHANGED <<facts, retracted, subscribers, engine>>

-----------------------------------------------------------------------------

Init ==
    /\ facts = [g \in {} |-> g]
    /\ retracted = {}
    /\ subscribers = {}
    /\ depIndex = [g \in GlobalId |-> {}]
    /\ sessionDeps = [s \in Session |-> {}]
    /\ engine = [s \in Session |-> NewEngine]
    /\ pending = {}

Next ==
    \/ \E s \in Session :
          \/ Subscribe(s) \/ Unsubscribe(s)
          \/ \E l \in LocalId : AssertLocalFact(s, l) \/ IndexFactDependencies(s, l)
    \/ \E g \in GlobalId :
          \/ \E v \in Value : AssertGlobal(g, v)
          \/ RetractGlobal(g)

Spec == Init /\ [][Next]_vars

-----------------------------------------------------------------------------
(* Properties                                                              *)

(* The two indexes say the same, whichever way sessions come, go and are   *)
(* indexed late: removeSessionIndexLocked can find what it has to remove.  *)
IndexMirrors ==
    \A g \in GlobalId, s \in Session : s \in depIndex[g] <=> g \in sessionDeps[s]

(* Reference definition of the components: the least sets that hold a fact *)
(* and, with a fact, its neighbours.                                       *)
Component(g) ==
    LET near(x) == {y \in DOMAIN facts : <<x, y>> \in Edges \/ <<y, x>> \in Edges}
        grown[n \in Nat] ==
            IF n = 0 THEN {g}
            ELSE grown[n - 1] \cup UNION {near(x) : x \in grown[n - 1]}
    IN  grown[Cardinality(DOMAIN facts)]

(* Partition finds the connected components whatever order the map         *)
(* iteration gives the edges in.                                           *)
PartitionCorrect ==
    \A order \in Orders(Edges) :
        Partition(order) = {Component(g) : g \in DOMAIN facts}

(* The selective fan-out leaves out nobody who is concerned: when a global *)
(* fact is retracted, every subscribed engine with an indexed local fact   *)
(* that rests on its component has retracted its copy when RetractGlobal   *)
(* returns.                                                                *)
DependentsReached ==
    [][\A g \in GlobalId : g \in retracted' \ retracted =>
          \A s \in subscribers, l \in LocalId :
             ( /\ l \in engine[s].local /\ <<s, l>> \notin pending
               /\ Needs[l] \cap Component(g) # {}
               /\ g \in DOMAIN engine[s].copy )
             => g \in engine'[s].dropped]_vars

=============================================================================
