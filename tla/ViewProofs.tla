----------------------------- MODULE ViewProofs -----------------------------
(***************************************************************************)
(* Proofs about what is derived from the engine of a session, for any      *)
(* facts, verdicts and numbers of writers: the journal, the cached slice   *)
(* and the search documents follow it, whatever the order in which the     *)
(* writers take their steps.                                               *)
(***************************************************************************)
EXTENDS SessionViews, TLAPS

-----------------------------------------------------------------------------
(* The steps a writer still has to take.                                   *)

Steps == {"engine", "append", "purge", "clear", "replay", "sync"}
Ops == {"assert", "perceive", "extract", "retract", "flag", "auto", "chain", "settle", "verify",
        "webhook", "review", "expire", "revalidate"}

Before(q, s, t) ==
    \A i \in 1 .. Len(q) : q[i] = s => \E j \in 1 .. Len(q) : i < j /\ q[j] = t
Once(q) == \A i, j \in 1 .. Len(q) : q[i] = q[j] => i = j

LEMMA TailSteps ==
    ASSUME NEW q \in Seq(Steps), q # <<>>, Once(q)
    PROVE  /\ Tail(q) \in Seq(Steps) /\ Once(Tail(q))
           /\ Has(q, Head(q)) /\ ~Has(Tail(q), Head(q))
           /\ \A s : s # Head(q) => (Has(Tail(q), s) <=> Has(q, s))
           /\ \A s, t : Before(q, s, t) => Before(Tail(q), s, t)
           /\ \A t : Before(q, Head(q), t) => Has(Tail(q), t)
<1>1. /\ Tail(q) \in Seq(Steps) /\ Len(q) \in Nat \ {0} /\ Len(Tail(q)) = Len(q) - 1
      /\ Head(q) = q[1] /\ \A i \in 1 .. Len(q) - 1 : Tail(q)[i] = q[i + 1]
  OBVIOUS
<1>2. \A j \in 1 .. Len(q) : j # 1 => /\ j - 1 \in 1 .. Len(Tail(q)) /\ Tail(q)[j - 1] = q[j]
  BY <1>1
<1>3. \A i \in 1 .. Len(Tail(q)) : i + 1 \in 1 .. Len(q) /\ i + 1 # 1 /\ Tail(q)[i] = q[i + 1]
  BY <1>1
<1>4. 1 \in 1 .. Len(q)
  BY <1>1
<1>5. Once(Tail(q))
  BY <1>1, <1>3 DEF Once
<1>6. Has(q, Head(q)) /\ ~Has(Tail(q), Head(q))
  BY <1>1, <1>3, <1>4 DEF Has, Once
<1>7. \A s : s # Head(q) => (Has(Tail(q), s) <=> Has(q, s))
  BY <1>1, <1>2, <1>3 DEF Has
<1>8. ASSUME NEW s, NEW t, Before(q, s, t) PROVE Before(Tail(q), s, t)
  <2> SUFFICES ASSUME NEW i \in 1 .. Len(Tail(q)), Tail(q)[i] = s
               PROVE  \E j \in 1 .. Len(Tail(q)) : i < j /\ Tail(q)[j] = t
    BY DEF Before
  <2>1. PICK j \in 1 .. Len(q) : i + 1 < j /\ q[j] = t
    BY <1>3, <1>8 DEF Before
  <2>2. j # 1 /\ i < j - 1
    BY <1>1, <2>1
  <2> QED
    BY <1>2, <2>1, <2>2
<1>9. ASSUME NEW t, Before(q, Head(q), t) PROVE Has(Tail(q), t)
  <2>1. PICK j \in 1 .. Len(q) : 1 < j /\ q[j] = t
    BY <1>1, <1>4, <1>9 DEF Before
  <2> QED
    BY <1>2, <2>1 DEF Has
<1> QED
  BY <1>1, <1>5, <1>6, <1>7, <1>8, <1>9

LEMMA WithoutSteps ==
    ASSUME NEW q \in Seq(Steps), Once(q), NEW s
    PROVE  /\ Without(q, s) \in Seq(Steps) /\ Once(Without(q, s))
           /\ \A t : t # s => (Has(Without(q, s), t) <=> Has(q, t))
           /\ \A t, u : u # s /\ Before(q, t, u) => Before(Without(q, s), t, u)
<1>1. CASE ~Has(q, s)
  BY <1>1 DEF Without, Has
<1>2. CASE Has(q, s)
  <2>0. PICK i \in 1 .. Len(q) : /\ q[i] = s
                                 /\ i = CHOOSE k \in 1 .. Len(q) : q[k] = s
    BY <1>2 DEF Has
  <2> DEFINE p == [j \in 1 .. Len(q) - 1 |-> IF j < i THEN q[j] ELSE q[j + 1]]
             up(j) == IF j < i THEN j ELSE j + 1
             down(j) == IF j < i THEN j ELSE j - 1
  <2>1. Without(q, s) = p
    BY <1>2, <2>0 DEF Without, Has
  <2>2. p \in Seq(Steps) /\ Len(p) = Len(q) - 1 /\ Len(q) \in Nat \ {0}
    BY <2>0
  <2>3. ASSUME NEW j \in 1 .. Len(p)
        PROVE  up(j) \in 1 .. Len(q) /\ up(j) # i /\ p[j] = q[up(j)]
    <3>1. j \in 1 .. Len(q) - 1 /\ j \in Nat /\ i \in Nat
      BY <2>2
    <3>2. p[j] = IF j < i THEN q[j] ELSE q[j + 1]
      BY <3>1
    <3> QED
      BY <2>2, <3>1, <3>2
  <2>4. \A j \in 1 .. Len(q) : j # i => down(j) \in 1 .. Len(p) /\ p[down(j)] = q[j]
    BY <2>0, <2>2
  <2>5. \A j, k \in 1 .. Len(p) : up(j) = up(k) => j = k
    BY <2>0, <2>2
  <2>6. \A j \in 1 .. Len(p) : \A k \in 1 .. Len(q) : up(j) < k /\ k # i => j < down(k)
    BY <2>0, <2>2
  <2> HIDE DEF p, up, down
  <2>7. Once(p)
    BY <2>3, <2>5 DEF Once
  <2>8. \A t : t # s => (Has(p, t) <=> Has(q, t))
    BY <2>0, <2>3, <2>4 DEF Has
  <2>9. ASSUME NEW t, NEW u, u # s, Before(q, t, u) PROVE Before(p, t, u)
    <3> SUFFICES ASSUME NEW j \in 1 .. Len(p), p[j] = t
                 PROVE  \E k \in 1 .. Len(p) : j < k /\ p[k] = u
      BY DEF Before
    <3>1. PICK k \in 1 .. Len(q) : up(j) < k /\ q[k] = u
      BY <2>3, <2>9 DEF Before
    <3>2. k # i
      BY <2>0, <2>9, <3>1
    <3> QED
      BY <2>4, <2>6, <3>1, <3>2
  <2> QED
    BY <2>1, <2>2, <2>7, <2>8, <2>9
<1> QED
  BY <1>1, <1>2

(* What holds of the steps a writer op still has to take: none is taken    *)
(* twice, the view that is followed is reached after the engine, and only  *)
(* a revalidation empties the engine and fills it again.                   *)
TodoOK(op, q) ==
    /\ q \in Seq(Steps) /\ Once(q)
    /\ watched = "slice" /\ op \notin Unpurging => Before(q, "engine", "purge")
    /\ watched # "slice" /\ op \notin Unsyncing => Before(q, "engine", "sync")
    /\ Before(q, "clear", "replay")
    /\ Has(q, "clear") \/ Has(q, "replay") => op = "revalidate"

LEMMA StepsOfWriters ==
    ASSUME NEW op \in Ops
    PROVE  /\ StepsOf(op) \in Seq(Steps) /\ Once(StepsOf(op))
           /\ op \notin Unpurging => Before(StepsOf(op), "engine", "purge")
           /\ op \notin Unsyncing => Before(StepsOf(op), "engine", "sync")
           /\ Before(StepsOf(op), "clear", "replay")
           /\ IF op = "revalidate" THEN Has(StepsOf(op), "clear")
              ELSE /\ Has(StepsOf(op), "engine") /\ Has(StepsOf(op), "append")
                   /\ ~Has(StepsOf(op), "clear") /\ ~Has(StepsOf(op), "replay")
<1> USE DEF Steps, Once, Has, Before, StepsOf, Unpurging, Unsyncing
<1>1. CASE op = "assert"
  BY <1>1 DEF HandleAssertFact
<1>2. CASE op = "perceive"
  BY <1>2 DEF HandleRecordPerception
<1>3. CASE op = "extract"
  BY <1>3 DEF HandleExtractAndAssert
<1>4. CASE op = "retract"
  BY <1>4 DEF HandleRetractFact
<1>5. CASE op = "flag"
  BY <1>5 DEF FlagFactsForReviewOnIssues
<1>6. CASE op = "auto"
  BY <1>6 DEF HandleConsistencyCheck
<1>7. CASE op = "chain"
  BY <1>7 DEF HandleVerifyReasoningChain
<1>8. CASE op = "settle"
  BY <1>8 DEF AutoRetractContradictions
<1>9. CASE op = "verify"
  BY <1>9 DEF HandleVerifyFact
<1>10. CASE op = "webhook"
  BY <1>10 DEF MaybeStartVerification
<1>11. CASE op = "review"
  BY <1>11 DEF HandleReviewFact
<1>12. CASE op = "expire"
  BY <1>12 DEF PerformExpirySweep
<1>13. CASE op = "revalidate"
  BY <1>13 DEF HandleRevalidate
<1> QED
  BY <1>1, <1>2, <1>3, <1>4, <1>5, <1>6, <1>7, <1>8, <1>9, <1>10, <1>11, <1>12, <1>13 DEF Ops

LEMMA FollowedSteps ==
    ASSUME NEW op \in Ops, watched \in {"slice", "documents"}
    PROVE  LET q == Followed(StepsOf(op))
           IN  /\ TodoOK(op, q) /\ q # <<>>
               /\ IF op = "revalidate" THEN Has(q, "clear")
                  ELSE Has(q, "engine") /\ Has(q, "append") /\ ~Has(q, "replay")
<1> DEFINE s == IF watched = "slice" THEN "sync" ELSE "purge"
           q == Without(StepsOf(op), s)
<1>1. /\ q \in Seq(Steps) /\ Once(q)
      /\ \A t : t # s => (Has(q, t) <=> Has(StepsOf(op), t))
      /\ \A t, u : u # s /\ Before(StepsOf(op), t, u) => Before(q, t, u)
  BY StepsOfWriters, WithoutSteps
<1> HIDE DEF q
<1>2. IF op = "revalidate" THEN Has(q, "clear")
      ELSE /\ Has(q, "engine") /\ Has(q, "append") /\ ~Has(q, "replay") /\ ~Has(q, "clear")
  BY <1>1, StepsOfWriters
<1>3. q # <<>>
  BY <1>2 DEF Has
<1>4. TodoOK(op, q)
  BY <1>1, <1>2, StepsOfWriters DEF TodoOK
<1> QED
  BY <1>2, <1>3, <1>4 DEF Followed, q

(* A writer that takes its next step.                                      *)
LEMMA StepLeaves ==
    ASSUME NEW op, NEW q, TodoOK(op, q), q # <<>>
    PROVE  /\ TodoOK(op, Tail(q))
           /\ Has(q, Head(q)) /\ ~Has(Tail(q), Head(q))
           /\ \A s : s # Head(q) => (Has(Tail(q), s) <=> Has(q, s))
           /\ \A t : Before(q, Head(q), t) => Has(Tail(q), t)
           /\ Head(q) = "replay" => ~Has(q, "clear")
<1>1. /\ Tail(q) \in Seq(Steps) /\ Once(Tail(q))
      /\ Has(q, Head(q)) /\ ~Has(Tail(q), Head(q))
      /\ \A s : s # Head(q) => (Has(Tail(q), s) <=> Has(q, s))
      /\ \A s, t : Before(q, s, t) => Before(Tail(q), s, t)
      /\ \A t : Before(q, Head(q), t) => Has(Tail(q), t)
  BY TailSteps DEF TodoOK
<1>2. TodoOK(op, Tail(q))
  BY <1>1 DEF TodoOK
<1>3. ASSUME Head(q) = "replay", Has(q, "clear") PROVE FALSE
  <2>1. PICK i \in 1 .. Len(q) : q[i] = "clear"
    BY <1>3 DEF Has
  <2>2. PICK j \in 1 .. Len(q) : i < j /\ q[j] = "replay"
    BY <2>1 DEF TodoOK, Before
  <2>3. q \in Seq(Steps) /\ 1 \in 1 .. Len(q) /\ q[1] = "replay"
    BY <1>3 DEF TodoOK
  <2>4. j = 1
    BY <2>2, <2>3 DEF TodoOK, Once
  <2> QED
    BY <2>1, <2>2, <2>4
<1> QED
  BY <1>1, <1>2, <1>3

(* A writer whose append has failed.                                       *)
LEMMA FailureLeaves ==
    ASSUME NEW op \in Ops, NEW q, TodoOK(op, q), q # <<>>, Head(q) = "append",
           watched \in {"slice", "documents"}
    PROVE  LET rest == AfterFailedAppend(op, Tail(q))
           IN  /\ TodoOK(op, rest)
               /\ ~Has(q, "engine") => ~Has(rest, "engine")
               /\ op = "expire" => rest = Tail(q)
<1>1. CASE op \in {"extract", "flag", "auto", "settle", "verify", "webhook", "expire"}
  BY <1>1, StepLeaves DEF AfterFailedAppend
<1>2. CASE op = "chain"
  <2> DEFINE p == <<"purge", "sync">>
             s == IF watched = "slice" THEN "sync" ELSE "purge"
             rest == AfterFailedAppend(op, Tail(q))
  <2>1. /\ p \in Seq(Steps) /\ Once(p) /\ \A t : Before(p, "engine", t) /\ Before(p, "clear", t)
        /\ ~Has(p, "engine") /\ ~Has(p, "clear") /\ ~Has(p, "replay")
    BY DEF Steps, Once, Before, Has
  <2>2. rest = Without(p, s)
    BY <1>2 DEF AfterFailedAppend, Followed
  <2> HIDE DEF p, rest
  <2>3. /\ rest \in Seq(Steps) /\ Once(rest)
        /\ \A t : t # s => (Has(rest, t) <=> Has(p, t))
        /\ \A t, u : u # s /\ Before(p, t, u) => Before(rest, t, u)
    BY <2>1, <2>2, WithoutSteps
  <2>4. TodoOK(op, rest) /\ ~Has(rest, "engine")
    BY <2>1, <2>3 DEF TodoOK
  <2> QED
    BY <1>2, <2>4 DEF rest
<1>3. CASE op \notin {"extract", "flag", "auto", "settle", "verify", "webhook", "expire", "chain"}
  <2>1. AfterFailedAppend(op, Tail(q)) = <<>>
    BY <1>3 DEF AfterFailedAppend
  <2>2. TodoOK(op, <<>>) /\ ~Has(<<>>, "engine")
    BY DEF TodoOK, Once, Before, Has
  <2> QED
    BY <1>3, <2>1, <2>2
<1> QED
  BY <1>1, <1>2, <1>3

-----------------------------------------------------------------------------
(* The inductive invariant.                                                *)

FactState ==
    {NoFact} \cup [state : {"live", "gone"}, verdict : Verdicts \cup {"none"}, review : BOOLEAN]

WriterOK(r) ==
    \/ r = NoWriter
    \/ /\ r \in [op : Ops, on : SUBSET ViewFact, verdict : Verdicts \cup {"none"}, todo : Seq(Steps)]
       /\ r.todo # <<>> /\ TodoOK(r.op, r.todo)
       /\ r.op = "expire" => r.on \subseteq due
       /\ r.op = "revalidate" => r.on = ViewFact

ViewsTypeOK ==
    /\ watched \in {"slice", "documents"}
    /\ facts \in [ViewFact -> FactState]
    /\ replayed \in [ViewFact -> FactState]
    /\ documents \in [ViewFact -> FactState]
    /\ DOMAIN writers = Writer /\ \A w \in Writer : WriterOK(writers[w])
    /\ reader \in [busy : BOOLEAN, facts : [ViewFact -> FactState], dirty : BOOLEAN]

(* Engine and journal agree about a fact, or differ in an expiry.          *)
Agree(f, a, b) ==
    \/ a = b
    \/ f \in due /\ b # NoFact /\ a = [b EXCEPT !.state = "gone"]

(* What x will be once w has taken its step s.                             *)
Pending(w, s, x) ==
    IF Has(writers[w].todo, s) THEN Effect(writers[w].op, writers[w].verdict, x) ELSE x

(* Changes that neither overlap nor fail: engine and journal agree as soon *)
(* as the one writer at work, if any, has taken its steps; a revalidation  *)
(* finds the engine empty of the fact when it replays the journal.         *)
Settling(f, w) ==
    IF Has(writers[w].todo, "replay") THEN Has(writers[w].todo, "clear") \/ facts[f] = NoFact
    ELSE Agree(f, Pending(w, "engine", facts[f]), Pending(w, "append", replayed[f]))

JournalFollows ==
    \A f \in ViewFact \ (mixed \cup faulted) :
        /\ \A v, w \in WritersOf(f) : v = w
        /\ WritersOf(f) = {} => Agree(f, facts[f], replayed[f])
        /\ \A w \in WritersOf(f) : Settling(f, w)

(* A slice that is being computed says what the engine says, unless the    *)
(* engine has changed since.                                               *)
SliceFollows ==
    /\ reader.busy /\ ~reader.dirty => reader.facts = facts
    /\ watched # "slice" => ~reader.busy /\ ~slice.held
    /\ SliceCurrent

(* What a sync has listed is what the engine holds, unless the engine has  *)
(* changed since.                                                          *)
List == [stage : {"none", "listed", "resolved"}, facts : [ViewFact -> FactState],
         behind : SUBSET ViewFact]
Fresh(w) ==
    \A f \in ViewFact \ lists[w].behind : Listed(w, f) => lists[w].facts[f] = facts[f]
ListsFollow ==
    /\ lists \in [Writer -> List]
    /\ \A w \in Writer : lists[w].stage # "none" =>
          writers[w].todo # <<>> /\ Head(writers[w].todo) = "sync" /\ Fresh(w)

(* A document that differs from the engine is about to be written, by a    *)
(* sync that has the fact as it is or has not listed it yet.               *)
WillSync(w, f) ==
    /\ Has(writers[w].todo, "sync") /\ ~Has(writers[w].todo, "engine")
    /\ lists[w].stage = "none" \/ (Listed(w, f) /\ f \notin lists[w].behind)
DocumentsFollow ==
    \A f \in ViewFact \ unsynced :
        /\ ~Present(f) => documents[f] = NoFact
        /\ watched = "documents" => documents[f] = facts[f] \/ \E w \in WritersOf(f) : WillSync(w, f)

ViewsInv == ViewsTypeOK /\ JournalFollows /\ SliceFollows /\ ListsFollow /\ DocumentsFollow

vNext == ViewsNext \/ (Tick /\ UNCHANGED viewVars)
vVars == <<platformVars, viewVars>>

(* What the operations make of a fact.                                     *)
LEMMA EffectOnFact ==
    ASSUME NEW op \in Ops, NEW v \in Verdicts \cup {"none"}, NEW x \in FactState
    PROVE  /\ Effect(op, v, x) \in FactState
           /\ x # NoFact => Effect(op, v, x) # NoFact
           /\ op \notin Asserts /\ x = NoFact => Effect(op, v, x) = NoFact
           /\ op = "revalidate" => Effect(op, v, x) = x
<1>1. CASE x = NoFact
  <2>0. /\ LiveFact.state = "live" /\ NoFact.state = "absent"
        /\ LiveFact \in [state : {"live"}, verdict : {"none"}, review : {FALSE}]
    BY DEF LiveFact, NoFact
  <2>1. LiveFact # NoFact /\ LiveFact \in FactState
    BY <2>0 DEF FactState
  <2> QED
    BY <1>1, <2>1 DEF Effect, FactState, Asserts
<1>2. CASE x # NoFact
  <2>0. /\ x \in [state : {"live", "gone"}, verdict : Verdicts \cup {"none"}, review : BOOLEAN]
        /\ NoFact.state = "absent"
    BY <1>2 DEF FactState, NoFact
  <2>1. \/ Effect(op, v, x) = [x EXCEPT !.state = "gone"]
        \/ Effect(op, v, x) = [x EXCEPT !.verdict = v]
        \/ Effect(op, v, x) = [x EXCEPT !.review = TRUE]
        \/ Effect(op, v, x) = x
    BY <1>2 DEF Effect
  <2>2. /\ Effect(op, v, x) \in [state : {"live", "gone"}, verdict : Verdicts \cup {"none"},
                                  review : BOOLEAN]
    BY <2>0, <2>1
  <2>3. Effect(op, v, x) # NoFact
    BY <2>0, <2>2
  <2>4. op = "revalidate" => Effect(op, v, x) = x
    BY <1>2 DEF Effect
  <2> QED
    BY <1>2, <2>2, <2>3, <2>4 DEF FactState
<1> QED
  BY <1>1, <1>2

(* An operation that is applied to both sides keeps them in agreement; an  *)
(* expiry need not reach the journal.                                      *)
LEMMA EffectAgrees ==
    ASSUME NEW f, NEW op \in Ops, NEW v \in Verdicts \cup {"none"},
           NEW a \in FactState, NEW b \in FactState, Agree(f, a, b)
    PROVE  Agree(f, Effect(op, v, a), Effect(op, v, b))
<1> SUFFICES ASSUME f \in due, b # NoFact, a = [b EXCEPT !.state = "gone"], a # b
             PROVE  Agree(f, Effect(op, v, a), Effect(op, v, b))
  BY DEF Agree
<1>1. /\ b \in [state : {"live", "gone"}, verdict : Verdicts \cup {"none"}, review : BOOLEAN]
      /\ NoFact.state = "absent" /\ a # NoFact
  BY DEF FactState, NoFact
<1>2. Effect(op, v, b) # NoFact
  BY EffectOnFact
<1>3. CASE op \in {"retract", "auto", "chain", "settle", "expire"}
  <2>1. Effect(op, v, a) = [a EXCEPT !.state = "gone"] /\ Effect(op, v, b) = [b EXCEPT !.state = "gone"]
    BY <1>1, <1>3 DEF Effect
  <2> QED
    BY <1>1, <2>1 DEF Agree
<1>4. CASE op \in {"verify", "webhook"}
  <2>1. Effect(op, v, a) = [a EXCEPT !.verdict = v] /\ Effect(op, v, b) = [b EXCEPT !.verdict = v]
    BY <1>1, <1>4 DEF Effect
  <2>2. Effect(op, v, a) = [Effect(op, v, b) EXCEPT !.state = "gone"]
    BY <1>1, <2>1
  <2> QED
    BY <1>2, <2>2 DEF Agree
<1>5. CASE op \in {"review", "flag"}
  <2>1. Effect(op, v, a) = [a EXCEPT !.review = TRUE] /\ Effect(op, v, b) = [b EXCEPT !.review = TRUE]
    BY <1>1, <1>5 DEF Effect
  <2>2. Effect(op, v, a) = [Effect(op, v, b) EXCEPT !.state = "gone"]
    BY <1>1, <2>1
  <2> QED
    BY <1>2, <2>2 DEF Agree
<1>6. CASE op \in {"assert", "perceive", "extract", "revalidate"}
  <2>1. Effect(op, v, a) = a /\ Effect(op, v, b) = b
    BY <1>1, <1>6 DEF Effect
  <2> QED
    BY <2>1 DEF Agree
<1> QED
  BY <1>3, <1>4, <1>5, <1>6 DEF Ops

LEMMA ExpiryForgiven ==
    ASSUME NEW f \in due, NEW v, NEW a \in FactState, NEW b \in FactState,
           Agree(f, a, Effect("expire", v, b))
    PROVE  Agree(f, a, b)
<1>1. CASE b = NoFact
  BY <1>1 DEF Effect, Asserts
<1>2. CASE b # NoFact
  <2>1. Effect("expire", v, b) = [b EXCEPT !.state = "gone"]
    BY <1>2 DEF Effect
  <2>2. b \in [state : {"live", "gone"}, verdict : Verdicts \cup {"none"}, review : BOOLEAN]
    BY <1>2 DEF FactState
  <2>3. [[b EXCEPT !.state = "gone"] EXCEPT !.state = "gone"] = [b EXCEPT !.state = "gone"]
    BY <2>2
  <2> QED
    BY <1>2, <2>1, <2>3 DEF Agree
<1> QED
  BY <1>1, <1>2

-----------------------------------------------------------------------------
(* A writer goes on.                                                       *)

LEMMA SomethingLeft == ASSUME NEW q, NEW s, Has(q, s) PROVE q # <<>>
  BY DEF Has

LEMMA WriterAtWork ==
    ASSUME ViewsTypeOK, NEW w \in Writer, writers[w].todo # <<>>
    PROVE  /\ writers[w] \in [op : Ops, on : SUBSET ViewFact, verdict : Verdicts \cup {"none"},
                              todo : Seq(Steps)]
           /\ TodoOK(writers[w].op, writers[w].todo)
           /\ writers[w].op = "expire" => writers[w].on \subseteq due
           /\ writers[w].op = "revalidate" => writers[w].on = ViewFact
<1>1. WriterOK(writers[w]) /\ NoWriter.todo = <<>>
  BY DEF ViewsTypeOK, NoWriter
<1> QED
  BY <1>1 DEF WriterOK

(* It takes its next step, or is left with the steps todo.                 *)
LEMMA WriterContinues ==
    ASSUME ViewsTypeOK, watched' = watched, due' = due, NEW w \in Writer,
           writers[w].todo # <<>>, NEW todo, Continue(w, todo), TodoOK(writers[w].op, todo)
    PROVE  /\ DOMAIN writers' = Writer /\ \A v \in Writer : WriterOK(writers[v])'
           /\ \A v \in Writer \ {w} : writers'[v] = writers[v]
           /\ writers'[w].todo = todo
           /\ todo # <<>> => /\ writers'[w].op = writers[w].op
                             /\ writers'[w].on = writers[w].on
                             /\ writers'[w].verdict = writers[w].verdict
           /\ todo = <<>> => writers'[w].on = {}
<1>1. /\ DOMAIN writers = Writer
      /\ writers' = [writers EXCEPT ![w] = IF todo = <<>> THEN NoWriter
                                            ELSE [writers[w] EXCEPT !.todo = todo]]
      /\ NoWriter.on = {} /\ NoWriter.todo = <<>>
  BY DEF ViewsTypeOK, Continue, NoWriter
<1>2. \A v \in Writer : WriterOK(writers[v])
  BY DEF ViewsTypeOK
<1>3. /\ writers[w] \in [op : Ops, on : SUBSET ViewFact, verdict : Verdicts \cup {"none"},
                          todo : Seq(Steps)]
      /\ writers[w].op = "expire" => writers[w].on \subseteq due
      /\ writers[w].op = "revalidate" => writers[w].on = ViewFact
  BY WriterAtWork
<1>4. /\ DOMAIN writers' = Writer /\ \A v \in Writer \ {w} : writers'[v] = writers[v]
      /\ writers'[w] = IF todo = <<>> THEN NoWriter ELSE [writers[w] EXCEPT !.todo = todo]
  BY <1>1
<1>5. WriterOK(writers[w])'
  <2>1. CASE todo = <<>>
    BY <1>4, <2>1 DEF WriterOK
  <2>2. CASE todo # <<>>
    <3> DEFINE r == [writers[w] EXCEPT !.todo = todo]
    <3>0. todo \in Seq(Steps)
      BY DEF TodoOK
    <3>1. /\ r \in [op : Ops, on : SUBSET ViewFact, verdict : Verdicts \cup {"none"}, todo : Seq(Steps)]
          /\ r.todo = todo /\ r.op = writers[w].op /\ r.on = writers[w].on
      BY <1>3, <3>0
    <3>2. writers'[w] = r
      BY <1>4, <2>2
    <3> HIDE DEF r
    <3> QED
      BY <1>3, <2>2, <3>1, <3>2 DEF WriterOK, TodoOK
  <2> QED
    BY <2>1, <2>2
<1>6. \A v \in Writer \ {w} : WriterOK(writers[v])'
  BY <1>2, <1>4 DEF WriterOK, TodoOK
<1>7. /\ todo # <<>> => /\ writers'[w].op = writers[w].op /\ writers'[w].on = writers[w].on
                        /\ writers'[w].verdict = writers[w].verdict
      /\ writers'[w].todo = todo
      /\ todo = <<>> => writers'[w].on = {}
  BY <1>1, <1>3, <1>4
<1> QED
  BY <1>4, <1>5, <1>6, <1>7

LEMMA StepTaken ==
    ASSUME ViewsTypeOK, due' = due, NEW w \in Writer, NEW s, Turn(w, s),
           Continue(w, RestOf(w))
    PROVE  /\ DOMAIN writers' = Writer /\ \A v \in Writer : WriterOK(writers[v])'
           /\ \A v \in Writer \ {w} : writers'[v] = writers[v]
           /\ Has(writers[w].todo, s) /\ ~Has(writers'[w].todo, s)
           /\ \A t : t # s => (Has(writers'[w].todo, t) <=> Has(writers[w].todo, t))
           /\ \A t : Before(writers[w].todo, s, t) => Has(writers'[w].todo, t)
           /\ s = "replay" => ~Has(writers[w].todo, "clear")
           /\ \A g, t : \A v \in WritersOf(g) : t # s /\ Has(writers[v].todo, t)
                 => /\ v \in WritersOf(g)' /\ Has(writers'[v].todo, t)
                    /\ writers'[v].op = writers[v].op
           /\ \/ writers'[w].on = {} /\ writers'[w].todo = <<>>
              \/ /\ writers'[w].op = writers[w].op /\ writers'[w].on = writers[w].on
                 /\ writers'[w].verdict = writers[w].verdict
<1> DEFINE q == writers[w].todo
<1>1. q # <<>> /\ Head(q) = s /\ Continue(w, Tail(q)) /\ watched' = watched
  BY DEF Turn, Next1, RestOf, Views
<1>2. TodoOK(writers[w].op, q)
  BY <1>1, WriterAtWork
<1> HIDE DEF q
<1>3. /\ TodoOK(writers[w].op, Tail(q))
      /\ Has(q, s) /\ ~Has(Tail(q), s)
      /\ \A t : t # s => (Has(Tail(q), t) <=> Has(q, t))
      /\ \A t : Before(q, s, t) => Has(Tail(q), t)
      /\ s = "replay" => ~Has(q, "clear")
  BY <1>1, <1>2, StepLeaves
<1>4. /\ DOMAIN writers' = Writer /\ \A v \in Writer : WriterOK(writers[v])'
      /\ \A v \in Writer \ {w} : writers'[v] = writers[v]
      /\ writers'[w].todo = Tail(q)
      /\ Tail(q) # <<>> => /\ writers'[w].op = writers[w].op
                           /\ writers'[w].on = writers[w].on
                           /\ writers'[w].verdict = writers[w].verdict
      /\ Tail(q) = <<>> => writers'[w].on = {}
  BY <1>1, <1>3, WriterContinues DEF q
<1>5. ASSUME NEW g, NEW t, t # s, NEW v \in WritersOf(g), Has(writers[v].todo, t)
      PROVE  /\ v \in WritersOf(g)' /\ Has(writers'[v].todo, t)
             /\ writers'[v].op = writers[v].op
  <2>1. CASE v # w
    BY <1>4, <1>5, <2>1 DEF WritersOf
  <2>2. CASE v = w
    <3>1. Has(Tail(q), t)
      BY <1>3, <1>5, <2>2 DEF q
    <3>2. Tail(q) # <<>>
      BY <3>1, SomethingLeft
    <3> QED
      BY <1>4, <1>5, <2>2, <3>1, <3>2 DEF WritersOf
  <2> QED
    BY <2>1, <2>2
<1> QED
  BY <1>3, <1>4, <1>5 DEF q

-----------------------------------------------------------------------------
(* The journal.                                                            *)

LEMMA WritersOfOthers ==
    ASSUME NEW w \in Writer, \A v \in Writer \ {w} : writers'[v] = writers[v],
           writers'[w].on = {} \/ writers'[w].on = writers[w].on,
           NEW g, g \notin writers[w].on
    PROVE  WritersOf(g)' = WritersOf(g) /\ w \notin WritersOf(g)
  BY DEF WritersOf

(* Of a fact with one writer, that writer may go on.                       *)
LEMMA OnlyWriter ==
    ASSUME NEW w \in Writer, \A v \in Writer \ {w} : writers'[v] = writers[v],
           NEW g, g \in writers[w].on, \A u, v \in WritersOf(g) : u = v
    PROVE  WritersOf(g) = {w} /\ (WritersOf(g)' = {} \/ WritersOf(g)' = {w})
  BY DEF WritersOf

LEMMA JournalAfterStep ==
    ASSUME ViewsTypeOK, JournalFollows, UNCHANGED <<mixed, faulted, due>>,
           NEW w \in Writer, NEW s, s \notin {"clear", "replay"},
           Turn(w, s), Continue(w, RestOf(w)),
           \A g \in ViewFact :
              /\ facts'[g] = IF g \in writers[w].on /\ s = "engine"
                             THEN Effect(writers[w].op, writers[w].verdict, facts[g])
                             ELSE facts[g]
              /\ replayed'[g] = IF g \in writers[w].on /\ s = "append"
                                THEN Effect(writers[w].op, writers[w].verdict, replayed[g])
                                ELSE replayed[g]
    PROVE  JournalFollows'
<1> DEFINE r == writers[w]
<1>0. /\ r.op \in Ops /\ r.verdict \in Verdicts \cup {"none"}
      /\ Has(r.todo, "replay") => r.op = "revalidate"
  BY WriterAtWork DEF Turn, TodoOK
<1>1. /\ \A v \in Writer \ {w} : writers'[v] = writers[v]
      /\ Has(r.todo, s) /\ ~Has(writers'[w].todo, s)
      /\ \A t : t # s => (Has(writers'[w].todo, t) <=> Has(r.todo, t))
      /\ \/ writers'[w].on = {} /\ writers'[w].todo = <<>>
         \/ /\ writers'[w].op = r.op /\ writers'[w].on = r.on
            /\ writers'[w].verdict = r.verdict
  BY StepTaken
<1>2. SUFFICES ASSUME NEW g \in ViewFact, g \notin mixed, g \notin faulted
      PROVE  /\ \A u, v \in WritersOf(g)' : u = v
             /\ WritersOf(g)' = {} => Agree(g, facts[g], replayed[g])'
             /\ \A v \in WritersOf(g)' : Settling(g, v)'
  BY DEF JournalFollows
<1>3. CASE g \notin r.on
  <2>1. WritersOf(g)' = WritersOf(g) /\ w \notin WritersOf(g)
    BY <1>1, <1>3, WritersOfOthers
  <2>2. \A v \in WritersOf(g) : writers'[v] = writers[v]
    BY <1>1, <2>1 DEF WritersOf
  <2>3. facts'[g] = facts[g] /\ replayed'[g] = replayed[g]
    BY <1>3
  <2> QED
    BY <1>2, <2>1, <2>2, <2>3 DEF JournalFollows, Settling, Agree, Pending
<1>4. CASE g \in r.on
  <2>1. WritersOf(g) = {w} /\ (WritersOf(g)' = {} \/ WritersOf(g)' = {w})
    BY <1>1, <1>2, <1>4, OnlyWriter DEF JournalFollows
  <2>2. Settling(g, w)
    BY <1>2, <2>1 DEF JournalFollows
  <2>3. CASE Has(r.todo, "replay")
    <3>1. /\ r.op = "revalidate" /\ Has(writers'[w].todo, "replay")
          /\ Has(writers'[w].todo, "clear") <=> Has(r.todo, "clear")
      BY <1>0, <1>1, <2>3
    <3>2. facts[g] \in FactState /\ facts'[g] = facts[g]
      BY <1>0, <3>1, EffectOnFact DEF ViewsTypeOK
    <3>3. Settling(g, w)'
      BY <2>2, <2>3, <3>1, <3>2 DEF Settling
    <3>4. writers'[w].on # {}
      BY <1>1, <1>4, <3>1, SomethingLeft
    <3>5. w \in WritersOf(g)'
      BY <1>1, <1>4, <3>4 DEF WritersOf
    <3> QED
      BY <2>1, <3>3, <3>5
  <2>4. CASE ~Has(r.todo, "replay")
    <3>1. Agree(g, Pending(w, "engine", facts[g]), Pending(w, "append", replayed[g]))
      BY <2>2, <2>4 DEF Settling
    <3>2. /\ Pending(w, "engine", facts[g]) =
                IF Has(writers'[w].todo, "engine") THEN Effect(r.op, r.verdict, facts'[g])
                ELSE facts'[g]
          /\ Pending(w, "append", replayed[g]) =
                IF Has(writers'[w].todo, "append") THEN Effect(r.op, r.verdict, replayed'[g])
                ELSE replayed'[g]
      BY <1>1, <1>4 DEF Pending
    <3>3. CASE WritersOf(g)' = {}
      <4>1. writers'[w].todo = <<>>
        BY <1>1, <1>4, <3>3 DEF WritersOf
      <4>2. ~Has(writers'[w].todo, "engine") /\ ~Has(writers'[w].todo, "append")
        BY <4>1 DEF Has
      <4>3. Agree(g, facts'[g], replayed'[g])
        BY <3>1, <3>2, <4>2
      <4> QED
        BY <3>3, <4>3 DEF Agree
    <3>4. CASE WritersOf(g)' = {w}
      <4>1. writers'[w].op = r.op /\ writers'[w].verdict = r.verdict
        BY <1>1, <3>4 DEF WritersOf
      <4>2. /\ Pending(w, "engine", facts[g])' = Pending(w, "engine", facts[g])
            /\ Pending(w, "append", replayed[g])' = Pending(w, "append", replayed[g])
        BY <3>2, <4>1 DEF Pending
      <4>3. Agree(g, Pending(w, "engine", facts[g]), Pending(w, "append", replayed[g]))'
        BY <3>1, <4>2 DEF Agree
      <4>4. s # "replay" /\ ~Has(writers'[w].todo, "replay")
        BY <1>1, <2>4
      <4> QED
        BY <3>4, <4>3, <4>4 DEF Settling
    <3> QED
      BY <2>1, <3>3, <3>4
  <2> QED
    BY <2>3, <2>4
<1> QED
  BY <1>3, <1>4

LEMMA JournalAfterFailure ==
    ASSUME ViewsTypeOK, JournalFollows, NEW w \in Writer, AppendFails(w)
    PROVE  /\ ViewsTypeOK' /\ JournalFollows'
           /\ \A v \in Writer \ {w} : writers'[v] = writers[v]
           /\ writers'[w].todo = AfterFailedAppend(writers[w].op, RestOf(w))
           /\ ~Has(writers[w].todo, "engine") => ~Has(writers'[w].todo, "engine")
           /\ writers'[w].on = {} \/ writers'[w].on = writers[w].on
           /\ writers'[w].todo # <<>> => /\ writers'[w].on = writers[w].on
                                         /\ writers'[w].op = writers[w].op
<1> DEFINE r == writers[w]
           rest == AfterFailedAppend(r.op, Tail(r.todo))
<1>1. /\ UNCHANGED <<watched, facts, replayed, documents, due, reader, mixed>>
      /\ faulted' = IF r.op = "expire" THEN faulted ELSE faulted \cup r.on
      /\ Turn(w, "append") /\ Continue(w, rest) /\ r.todo # <<>>
      /\ Head(r.todo) = "append"
  BY DEF AppendFails, Turn, Views, RestOf, Next1
<1>2. /\ r \in [op : Ops, on : SUBSET ViewFact, verdict : Verdicts \cup {"none"}, todo : Seq(Steps)]
      /\ TodoOK(r.op, r.todo)
      /\ r.op = "expire" => r.on \subseteq due
  BY <1>1, WriterAtWork
<1>3. /\ Has(r.todo, "append") /\ ~Has(Tail(r.todo), "append")
      /\ Has(Tail(r.todo), "engine") <=> Has(r.todo, "engine")
      /\ Has(r.todo, "replay") => r.op = "revalidate"
      /\ Has(Tail(r.todo), "replay") <=> Has(r.todo, "replay")
  <2> DEFINE q == r.todo
  <2>1. TodoOK(r.op, q) /\ q # <<>> /\ Head(q) = "append"
    BY <1>1, <1>2
  <2> HIDE DEF q
  <2>2. /\ Has(q, "append") /\ ~Has(Tail(q), "append")
        /\ \A s : s # "append" => (Has(Tail(q), s) <=> Has(q, s))
    BY <2>1, StepLeaves
  <2>3. Has(q, "replay") => r.op = "revalidate"
    BY <2>1 DEF TodoOK
  <2> QED
    BY <2>2, <2>3 DEF q
<1>4. /\ TodoOK(r.op, rest)
      /\ ~Has(r.todo, "engine") => ~Has(rest, "engine")
      /\ r.op = "expire" => rest = Tail(r.todo)
  BY <1>1, <1>2, FailureLeaves DEF ViewsTypeOK
<1> HIDE DEF rest
<1>5. /\ DOMAIN writers' = Writer /\ \A v \in Writer : WriterOK(writers[v])'
      /\ \A v \in Writer \ {w} : writers'[v] = writers[v]
      /\ writers'[w].todo = rest
      /\ rest # <<>> => /\ writers'[w].op = r.op /\ writers'[w].on = r.on
                        /\ writers'[w].verdict = r.verdict
      /\ rest = <<>> => writers'[w].on = {}
  BY <1>1, <1>4, WriterContinues
<1>6. ViewsTypeOK'
  BY <1>1, <1>5 DEF ViewsTypeOK
<1>7. JournalFollows'
  <2> SUFFICES ASSUME NEW g \in ViewFact, g \notin mixed', g \notin faulted'
      PROVE  /\ \A u, v \in WritersOf(g)' : u = v
             /\ WritersOf(g)' = {} => Agree(g, facts[g], replayed[g])'
             /\ \A v \in WritersOf(g)' : Settling(g, v)'
    BY DEF JournalFollows
  <2>0. g \notin mixed /\ g \notin faulted
    BY <1>1
  <2>1. CASE g \notin r.on
    <3>1. WritersOf(g)' = WritersOf(g) /\ w \notin WritersOf(g)
      BY <1>5, <2>1, WritersOfOthers
    <3>2. \A v \in WritersOf(g) : writers'[v] = writers[v]
      BY <1>5, <3>1 DEF WritersOf
    <3> QED
      BY <1>1, <2>0, <3>1, <3>2 DEF JournalFollows, Settling, Agree, Pending
  <2>2. CASE g \in r.on
    <3>0. r.op = "expire" /\ rest = Tail(r.todo) /\ g \in due /\ ~Has(r.todo, "replay")
      BY <1>1, <1>2, <1>3, <1>4, <2>2
    <3>1. WritersOf(g) = {w} /\ (WritersOf(g)' = {} \/ WritersOf(g)' = {w})
      BY <1>5, <2>0, <2>2, OnlyWriter DEF JournalFollows
    <3> DEFINE a == Pending(w, "engine", facts[g])
    <3>2. Agree(g, a, Effect("expire", r.verdict, replayed[g]))
      BY <1>3, <2>0, <3>0, <3>1 DEF JournalFollows, Settling, Pending
    <3>3. a \in FactState /\ replayed[g] \in FactState
      BY <1>2, EffectOnFact DEF ViewsTypeOK, Pending
    <3>4. Agree(g, a, replayed[g])
      <4> HIDE DEF a
      <4> QED
        BY <3>0, <3>2, <3>3, ExpiryForgiven
    <3>5. CASE WritersOf(g)' = {w}
      <4>1. writers'[w].op = r.op /\ writers'[w].verdict = r.verdict
        BY <1>5, <2>2, <3>5 DEF WritersOf
      <4>2. Pending(w, "engine", facts[g])' = a /\ Pending(w, "append", replayed[g])' = replayed[g]
        BY <1>1, <1>3, <1>5, <3>0, <4>1 DEF Pending
      <4>3. Agree(g, Pending(w, "engine", facts[g]), Pending(w, "append", replayed[g]))'
        BY <1>1, <3>4, <4>2 DEF Agree
      <4>4. ~Has(writers'[w].todo, "replay")
        BY <1>3, <1>5, <3>0
      <4> QED
        BY <3>5, <4>3, <4>4 DEF Settling
    <3>6. CASE WritersOf(g)' = {}
      <4>1. rest = <<>>
        BY <1>5, <2>2, <3>6 DEF WritersOf
      <4>2. ~Has(r.todo, "engine")
        BY <1>3, <3>0, <4>1, SomethingLeft
      <4>3. a = facts[g]
        BY <4>2 DEF Pending
      <4>4. Agree(g, facts[g], replayed[g])'
        BY <1>1, <3>4, <4>3 DEF Agree
      <4> QED
        BY <3>6, <4>4
    <3> QED
      BY <3>1, <3>5, <3>6
  <2> QED
    BY <2>1, <2>2
<1>8. /\ ~Has(r.todo, "engine") => ~Has(writers'[w].todo, "engine")
      /\ writers'[w].on = {} \/ writers'[w].on = r.on
      /\ writers'[w].todo = AfterFailedAppend(r.op, RestOf(w))
  BY <1>4, <1>5 DEF rest, RestOf
<1> QED
  BY <1>5, <1>6, <1>7, <1>8

-----------------------------------------------------------------------------
(* The actions.                                                            *)

LEMMA BeginStep ==
    ASSUME ViewsInv, NEW w \in Writer, NEW op \in Ops, NEW on \in SUBSET ViewFact,
           NEW v \in Verdicts \cup {"none"}, Begin(w, op, on, v),
           op = "expire" => on \subseteq due, op = "revalidate" => on = ViewFact
    PROVE  ViewsInv'
<1> USE DEF ViewsInv
<1>0. PICK r : r = [op |-> op, on |-> on, verdict |-> v, todo |-> Followed(StepsOf(op))]
  OBVIOUS
<1>1. /\ UNCHANGED <<watched, facts, replayed, due, slice, reader, documents, lists, faulted,
                     sliceStale, unsynced>>
      /\ writers[w] = NoWriter /\ writers' = [writers EXCEPT ![w] = r]
      /\ mixed' = mixed \cup {f \in on : WritersOf(f) # {}}
  BY <1>0 DEF Begin, Views
<1>2. /\ TodoOK(op, r.todo) /\ r.todo # <<>>
      /\ IF op = "revalidate" THEN Has(r.todo, "clear")
         ELSE Has(r.todo, "engine") /\ Has(r.todo, "append") /\ ~Has(r.todo, "replay")
  BY <1>0, FollowedSteps DEF ViewsTypeOK
<1>3. /\ r.op = op /\ r.on = on /\ r.verdict = v /\ NoWriter.on = {} /\ NoWriter.todo = <<>>
      /\ r \in [op : Ops, on : SUBSET ViewFact, verdict : Verdicts \cup {"none"}, todo : Seq(Steps)]
  BY <1>0, <1>2 DEF NoWriter, TodoOK
<1>4. /\ DOMAIN writers' = Writer /\ writers'[w] = r
      /\ \A u \in Writer \ {w} : writers'[u] = writers[u]
  BY <1>1 DEF ViewsTypeOK
<1>5. ViewsTypeOK'
  <2>1. \A u \in Writer : WriterOK(writers[u])'
    <3>1. \A u \in Writer \ {w} : WriterOK(writers[u])'
      BY <1>1, <1>4 DEF ViewsTypeOK, WriterOK, TodoOK
    <3>2. WriterOK(writers[w])'
      BY <1>1, <1>2, <1>3, <1>4 DEF WriterOK, TodoOK
    <3> QED
      BY <3>1, <3>2
  <2> QED
    BY <1>1, <1>4, <2>1 DEF ViewsTypeOK
<1>6. /\ \A g \in on : WritersOf(g)' = WritersOf(g) \cup {w}
      /\ \A g : g \notin on => WritersOf(g)' = WritersOf(g)
      /\ \A g : w \notin WritersOf(g)
  BY <1>1, <1>3, <1>4 DEF WritersOf
<1>7. \A g : \A u \in WritersOf(g) : u \in WritersOf(g)' /\ u # w /\ writers'[u] = writers[u]
  BY <1>4, <1>6 DEF WritersOf
<1>8. JournalFollows'
  <2> SUFFICES ASSUME NEW g \in ViewFact, g \notin mixed', g \notin faulted'
      PROVE  /\ \A t, u \in WritersOf(g)' : t = u
             /\ WritersOf(g)' = {} => Agree(g, facts[g], replayed[g])'
             /\ \A u \in WritersOf(g)' : Settling(g, u)'
    BY DEF JournalFollows
  <2>0. g \notin mixed /\ g \notin faulted
    BY <1>1
  <2>1. CASE g \notin on
    <3>1. WritersOf(g)' = WritersOf(g) /\ \A u \in WritersOf(g) : writers'[u] = writers[u]
      BY <1>6, <1>7, <2>1
    <3> QED
      BY <1>1, <2>0, <3>1 DEF JournalFollows, Agree, Pending, Settling
  <2>2. CASE g \in on
    <3>1. WritersOf(g) = {} /\ WritersOf(g)' = {w}
      BY <1>1, <1>6, <2>2
    <3>2. Agree(g, facts[g], replayed[g])
      BY <2>0, <3>1 DEF JournalFollows
    <3>3. Settling(g, w)'
      <4>1. CASE op = "revalidate"
        <5>1. Agree(g, facts[g], replayed[g])'
          BY <1>1, <3>2 DEF Agree
        <5>2. Has(writers'[w].todo, "clear")
          BY <1>2, <1>4, <4>1
        <5>3. /\ Pending(w, "engine", facts[g])' = facts'[g]
              /\ Pending(w, "append", replayed[g])' = replayed'[g]
          BY <1>1, <1>3, <1>4, <4>1, EffectOnFact DEF Pending, ViewsTypeOK
        <5>4. Agree(g, Pending(w, "engine", facts[g]), Pending(w, "append", replayed[g]))'
          BY <5>1, <5>3 DEF Agree
        <5> QED
          BY <5>2, <5>4 DEF Settling
      <4>2. CASE op # "revalidate"
        <5>1. Agree(g, Effect(op, v, facts[g]), Effect(op, v, replayed[g]))
          BY <3>2, EffectAgrees DEF ViewsTypeOK
        <5>2. /\ Pending(w, "engine", facts[g])' = Effect(op, v, facts[g])
              /\ Pending(w, "append", replayed[g])' = Effect(op, v, replayed[g])
          BY <1>1, <1>2, <1>3, <1>4, <4>2 DEF Pending
        <5>3. Agree(g, Pending(w, "engine", facts[g]), Pending(w, "append", replayed[g]))'
          BY <1>1, <5>1, <5>2 DEF Agree
        <5> QED
          BY <1>2, <1>4, <4>2, <5>3 DEF Settling
      <4> QED
        BY <4>1, <4>2
    <3> QED
      BY <3>1, <3>3
  <2> QED
    BY <2>1, <2>2
<1>9. SliceFollows'
  <2>1. \A u \in Writer : Has(writers[u].todo, "purge") => writers'[u] = writers[u]
    <3>1. ~Has(writers[w].todo, "purge")
      BY <1>1, <1>3, SomethingLeft
    <3> QED
      BY <1>4, <3>1
  <2>2. SliceCurrent'
    BY <1>1, <2>1 DEF SliceFollows, SliceCurrent
  <2> QED
    BY <1>1, <2>2 DEF SliceFollows
<1>10. ListsFollow'
  <2>1. lists[w].stage = "none"
    BY <1>1, <1>3 DEF ListsFollow
  <2> QED
    BY <1>1, <1>4, <2>1 DEF ListsFollow, Fresh, Listed
<1>11. DocumentsFollow'
  <2>1. \A g : \A u \in WritersOf(g) : WillSync(u, g) => WillSync(u, g)'
    BY <1>1, <1>7 DEF WillSync, Listed
  <2> QED
    BY <1>1, <1>7, <2>1 DEF DocumentsFollow, Present
<1> QED
  BY <1>5, <1>8, <1>9, <1>10, <1>11

(* Steps on which the slice does not depend.                               *)
LEMMA SliceAfterStep ==
    ASSUME ViewsTypeOK, SliceFollows, UNCHANGED <<facts, due, slice, reader, sliceStale>>,
           NEW w \in Writer, NEW s, s # "purge", Turn(w, s), Continue(w, RestOf(w))
    PROVE  SliceFollows'
<1>1. \A u \in Writer : Has(writers[u].todo, "purge") /\ ~Has(writers[u].todo, "engine")
         => Has(writers'[u].todo, "purge") /\ ~Has(writers'[u].todo, "engine")
  <2>1. /\ \A u \in Writer \ {w} : writers'[u] = writers[u]
        /\ Has(writers[w].todo, "purge") => Has(writers'[w].todo, "purge")
        /\ ~Has(writers[w].todo, "engine") => ~Has(writers'[w].todo, "engine")
    BY StepTaken
  <2> QED
    BY <2>1
<1>2. watched' = watched
  BY DEF Turn, Views
<1>3. SliceCurrent'
  BY <1>1 DEF SliceFollows, SliceCurrent
<1> QED
  BY <1>2, <1>3 DEF SliceFollows

(* Steps other than those of a sync find the writer with nothing listed.   *)
LEMMA NothingListed ==
    ASSUME ListsFollow, NEW w \in Writer, NEW s, s # "sync", Turn(w, s)
    PROVE  lists[w].stage = "none"
  BY DEF ListsFollow, Turn, Next1

LEMMA ListsAfterStep ==
    ASSUME ListsFollow, UNCHANGED <<facts, lists>>,
           NEW w \in Writer, NEW s, s # "sync", Turn(w, s),
           \A v \in Writer \ {w} : writers'[v] = writers[v]
    PROVE  ListsFollow'
<1>1. lists[w].stage = "none"
  BY NothingListed
<1>2. \A v \in Writer : Fresh(v) => Fresh(v)'
  BY DEF Fresh, Listed
<1> QED
  BY <1>1, <1>2 DEF ListsFollow

(* Lists while facts of the engine change.                                 *)
LEMMA ListsAfterChange ==
    ASSUME ListsFollow, NEW changed \in SUBSET ViewFact, EngineChanges(changed),
           \A f \in ViewFact \ changed : facts'[f] = facts[f],
           \A v \in Writer : lists[v].stage # "none" => writers'[v] = writers[v]
    PROVE  /\ ListsFollow'
           /\ \A v \in Writer : /\ lists'[v].stage = lists[v].stage /\ lists'[v].facts = lists[v].facts
                                /\ \A f : f \notin changed /\ f \notin lists[v].behind
                                             => f \notin lists'[v].behind
<1>1. /\ lists' = [w \in Writer |-> IF lists[w].stage = "none" THEN lists[w]
                                    ELSE [lists[w] EXCEPT !.behind = @ \cup changed]]
      /\ \A v \in Writer : lists[v] \in List
  BY DEF EngineChanges, ListsFollow
<1>2. ASSUME NEW v \in Writer
      PROVE  /\ lists'[v] \in List
             /\ lists'[v].stage = lists[v].stage /\ lists'[v].facts = lists[v].facts
             /\ lists'[v].behind = IF lists[v].stage = "none" THEN lists[v].behind
                                   ELSE lists[v].behind \cup changed
  <2>1. lists'[v] = IF lists[v].stage = "none" THEN lists[v]
                    ELSE [lists[v] EXCEPT !.behind = @ \cup changed]
    BY <1>1
  <2> QED
    BY <1>1, <2>1 DEF List
<1>3. ASSUME NEW v \in Writer, lists[v].stage # "none", Fresh(v) PROVE Fresh(v)'
  BY <1>2, <1>3 DEF Fresh, Listed
<1>4. lists' \in [Writer -> List]
  BY <1>1, <1>2
<1>5. ListsFollow'
  BY <1>2, <1>3, <1>4 DEF ListsFollow
<1> QED
  BY <1>2, <1>5

LEMMA EngineStep == ASSUME ViewsInv, NEW w \in Writer, ChangeEngine(w) PROVE ViewsInv'
<1> USE DEF ViewsInv
<1> DEFINE r == writers[w]
<1>1. /\ UNCHANGED <<watched, replayed, due, slice, documents, mixed, faulted>>
      /\ facts' = [f \in ViewFact |-> IF f \in r.on THEN Effect(r.op, r.verdict, facts[f])
                                      ELSE facts[f]]
      /\ EngineChanges(r.on)
      /\ sliceStale' = IF r.op \in Unpurging THEN slice.held ELSE sliceStale
      /\ unsynced' = IF r.op \in Unsyncing THEN unsynced \cup r.on ELSE unsynced
      /\ Turn(w, "engine") /\ Continue(w, RestOf(w))
  BY DEF ChangeEngine, Turn, Views
<1>2. /\ DOMAIN writers' = Writer /\ \A v \in Writer : WriterOK(writers[v])'
      /\ \A v \in Writer \ {w} : writers'[v] = writers[v]
      /\ Has(r.todo, "engine") /\ ~Has(writers'[w].todo, "engine")
      /\ \A t : Before(r.todo, "engine", t) => Has(writers'[w].todo, t)
      /\ \A g, t : \A v \in WritersOf(g) : t # "engine" /\ Has(writers[v].todo, t)
            => /\ v \in WritersOf(g)' /\ Has(writers'[v].todo, t)
               /\ writers'[v].op = writers[v].op
      /\ (writers'[w].on = {} /\ writers'[w].todo = <<>>) \/ writers'[w].on = r.on
  BY <1>1, StepTaken
<1>3. /\ r.op \in Ops /\ r.on \subseteq ViewFact /\ r.verdict \in Verdicts \cup {"none"}
      /\ watched = "slice" /\ r.op \notin Unpurging => Before(r.todo, "engine", "purge")
      /\ watched # "slice" /\ r.op \notin Unsyncing => Before(r.todo, "engine", "sync")
  BY <1>1, WriterAtWork DEF Turn, TodoOK
<1>4. /\ \A g \in ViewFact : facts'[g] = IF g \in r.on THEN Effect(r.op, r.verdict, facts[g])
                                         ELSE facts[g]
      /\ facts' \in [ViewFact -> FactState]
  BY <1>1, <1>3, EffectOnFact DEF ViewsTypeOK
<1>5. /\ reader' = [reader EXCEPT !.dirty = @ \/ reader.busy]
      /\ reader' \in [busy : BOOLEAN, facts : [ViewFact -> FactState], dirty : BOOLEAN]
      /\ reader'.busy = reader.busy /\ (reader'.busy => reader'.dirty)
  BY <1>1 DEF ViewsTypeOK, EngineChanges
<1>6. ViewsTypeOK'
  BY <1>1, <1>2, <1>4, <1>5 DEF ViewsTypeOK
<1>7. JournalFollows'
  <2>1. \A g \in ViewFact : replayed'[g] = replayed[g]
    BY <1>1
  <2> QED
    BY <1>1, <1>4, <2>1, JournalAfterStep
<1>8. SliceFollows'
  <2>1. watched = "slice" /\ r.op \notin Unpurging => Has(writers'[w].todo, "purge")
    BY <1>2, <1>3
  <2>2. SliceCurrent'
    BY <1>1, <1>2, <2>1 DEF SliceFollows, SliceCurrent, ViewsTypeOK
  <2> QED
    BY <1>1, <1>5, <2>2 DEF SliceFollows
<1>9. /\ ListsFollow'
      /\ lists[w].stage = "none"
      /\ \A v \in Writer : /\ lists'[v].stage = lists[v].stage /\ lists'[v].facts = lists[v].facts
                           /\ \A f : f \notin r.on /\ f \notin lists[v].behind
                                        => f \notin lists'[v].behind
  <2>1. lists[w].stage = "none"
    BY <1>1, NothingListed
  <2> QED
    BY <1>1, <1>2, <1>3, <1>4, <2>1, ListsAfterChange
<1>10. DocumentsFollow'
  <2> SUFFICES ASSUME NEW g \in ViewFact, g \notin unsynced'
      PROVE  /\ ~Present(g)' => documents[g] = NoFact
             /\ watched = "documents" =>
                   documents[g] = facts'[g] \/ \E v \in WritersOf(g)' : WillSync(v, g)'
    BY <1>1 DEF DocumentsFollow
  <2>0. /\ ~Present(g) => documents[g] = NoFact
        /\ watched = "documents" =>
              documents[g] = facts[g] \/ \E v \in WritersOf(g) : WillSync(v, g)
        /\ r.op \in Unsyncing => g \notin r.on
    BY <1>1 DEF DocumentsFollow
  <2>1. CASE g \notin r.on
    <3>1. ASSUME NEW v \in WritersOf(g), WillSync(v, g)
          PROVE  v \in WritersOf(g)' /\ WillSync(v, g)'
      <4>1. v \in Writer /\ v # w
        BY <1>2, <3>1 DEF WillSync, WritersOf
      <4> QED
        BY <1>2, <1>9, <2>1, <3>1, <4>1 DEF WillSync, WritersOf, Listed
    <3> QED
      BY <1>4, <2>0, <2>1, <3>1 DEF Present
  <2>2. CASE g \in r.on
    <3>1. Present(g) => Present(g)'
      BY <1>3, <1>4, <2>2, EffectOnFact DEF ViewsTypeOK, Present
    <3>2. watched = "documents" => w \in WritersOf(g)' /\ WillSync(w, g)'
      <4>1. SUFFICES ASSUME watched = "documents" PROVE w \in WritersOf(g)' /\ WillSync(w, g)'
        OBVIOUS
      <4>2. Has(writers'[w].todo, "sync")
        BY <1>2, <1>3, <2>0, <2>2, <4>1
      <4>3. writers'[w].on = r.on
        BY <1>2, <4>2, SomethingLeft
      <4> QED
        BY <1>2, <1>9, <2>2, <4>2, <4>3 DEF WillSync, WritersOf
    <3> QED
      BY <2>0, <3>1, <3>2
  <2> QED
    BY <2>1, <2>2
<1> QED
  BY <1>6, <1>7, <1>8, <1>9, <1>10

(* An engine that refuses a change has not got the fact, and neither has   *)
(* the journal once the change is appended.                                *)
LEMMA RefusedStep == ASSUME ViewsInv, NEW w \in Writer, ChangeRefused(w) PROVE ViewsInv'
<1> USE DEF ViewsInv
<1> DEFINE r == writers[w]
<1>1. /\ UNCHANGED <<watched, facts, replayed, due, slice, reader, documents, lists, mixed, faulted,
                     sliceStale, unsynced>>
      /\ Turn(w, "engine") /\ Continue(w, <<>>) /\ r.todo # <<>> /\ Head(r.todo) = "engine"
      /\ r.op \in {"retract", "review", "verify", "webhook"}
      /\ \A f \in r.on : facts[f] = NoFact
  BY DEF ChangeRefused, Turn, Next1, Views, Refused, Present
<1>2. TodoOK(r.op, <<>>) /\ TodoOK(r.op, r.todo) /\ r.op \in Ops /\ r.verdict \in Verdicts \cup {"none"}
  <2>1. TodoOK(r.op, <<>>)
    BY DEF TodoOK, Once, Before, Has
  <2> QED
    BY <1>1, <2>1, WriterAtWork
<1>3. Has(r.todo, "engine") /\ ~Has(r.todo, "replay")
  <2> DEFINE q == r.todo
             op == r.op
  <2>1. TodoOK(op, q) /\ q # <<>> /\ Head(q) = "engine" /\ op # "revalidate"
    BY <1>1, <1>2
  <2> HIDE DEF q, op
  <2>2. Has(q, "engine") /\ ~Has(q, "replay")
    BY <2>1, StepLeaves DEF TodoOK
  <2> QED
    BY <2>2 DEF q
<1>4. /\ DOMAIN writers' = Writer /\ \A v \in Writer : WriterOK(writers[v])'
      /\ \A v \in Writer \ {w} : writers'[v] = writers[v]
      /\ writers'[w].on = {} /\ writers'[w].todo = <<>>
  BY <1>1, <1>2, WriterContinues
<1>5. ViewsTypeOK'
  BY <1>1, <1>4 DEF ViewsTypeOK
<1>6. JournalFollows'
  <2> SUFFICES ASSUME NEW g \in ViewFact, g \notin mixed, g \notin faulted
      PROVE  /\ \A u, v \in WritersOf(g)' : u = v
             /\ WritersOf(g)' = {} => Agree(g, facts[g], replayed[g])'
             /\ \A v \in WritersOf(g)' : Settling(g, v)'
    BY <1>1 DEF JournalFollows
  <2>1. CASE g \notin r.on
    <3>1. WritersOf(g)' = WritersOf(g) /\ w \notin WritersOf(g)
      BY <1>4, <2>1, WritersOfOthers
    <3>2. \A v \in WritersOf(g) : writers'[v] = writers[v]
      BY <1>4, <3>1 DEF WritersOf
    <3> QED
      BY <1>1, <3>1, <3>2 DEF JournalFollows, Settling, Agree, Pending
  <2>2. CASE g \in r.on
    <3>1. WritersOf(g) = {w} /\ WritersOf(g)' = {}
      BY <1>4, <2>2 DEF JournalFollows, WritersOf
    <3> DEFINE a == Effect(r.op, r.verdict, NoFact)
               b == Effect(r.op, r.verdict, replayed[g])
    <3>2. /\ a = NoFact /\ replayed[g] \in FactState /\ b \in FactState
          /\ replayed[g] # NoFact => b # NoFact
      <4>1. NoFact \in FactState /\ r.op \notin Asserts /\ replayed[g] \in FactState
        BY <1>1, <2>2 DEF FactState, Asserts, ViewsTypeOK
      <4>2. a = NoFact
        BY <1>2, <4>1, EffectOnFact
      <4>3. b \in FactState /\ (replayed[g] # NoFact => b # NoFact)
        BY <1>2, <4>1, EffectOnFact
      <4> QED
        BY <4>1, <4>2, <4>3
    <3>3. Agree(g, a, b) \/ Agree(g, a, replayed[g])
      BY <1>1, <1>3, <2>2, <3>1 DEF JournalFollows, Settling, Pending
    <3> HIDE DEF a, b
    <3>4. \A x \in FactState : Agree(g, NoFact, x) => x = NoFact
      BY DEF Agree, FactState, NoFact
    <3>5. replayed[g] = NoFact /\ facts[g] = NoFact
      BY <1>1, <2>2, <3>2, <3>3, <3>4
    <3> QED
      BY <1>1, <3>1, <3>5 DEF Agree
  <2> QED
    BY <2>1, <2>2
<1>7. SliceFollows'
  <2>1. SliceCurrent'
    BY <1>1, <1>3, <1>4 DEF SliceFollows, SliceCurrent
  <2> QED
    BY <1>1, <2>1 DEF SliceFollows
<1>8. ListsFollow'
  BY <1>1, <1>4, ListsAfterStep
<1>9. DocumentsFollow'
  <2>1. ASSUME NEW g, NEW v \in WritersOf(g), WillSync(v, g)
        PROVE  v \in WritersOf(g)' /\ WillSync(v, g)'
    BY <1>1, <1>3, <1>4, <2>1 DEF WillSync, WritersOf, Listed
  <2> QED
    BY <1>1, <2>1 DEF DocumentsFollow, Present
<1> QED
  BY <1>5, <1>6, <1>7, <1>8, <1>9

(* Steps on which the documents do not depend.                             *)
LEMMA DocumentsAfterStep ==
    ASSUME ViewsTypeOK, DocumentsFollow, UNCHANGED <<facts, due, documents, lists, unsynced>>,
           NEW w \in Writer, NEW s, s # "sync", Turn(w, s), Continue(w, RestOf(w))
    PROVE  DocumentsFollow'
<1>1. /\ \A v \in Writer \ {w} : writers'[v] = writers[v]
      /\ ~Has(writers[w].todo, "engine") => ~Has(writers'[w].todo, "engine")
      /\ \A g, t : \A v \in WritersOf(g) : t # s /\ Has(writers[v].todo, t)
            => v \in WritersOf(g)' /\ Has(writers'[v].todo, t)
  BY StepTaken
<1>2. watched' = watched
  BY DEF Turn, Views
<1>3. ASSUME NEW g, NEW v \in WritersOf(g), WillSync(v, g)
      PROVE  v \in WritersOf(g)' /\ WillSync(v, g)'
  BY <1>1, <1>3 DEF WillSync, WritersOf, Listed
<1> QED
  BY <1>2, <1>3 DEF DocumentsFollow, Present

LEMMA AppendStep == ASSUME ViewsInv, NEW w \in Writer, Append1(w) PROVE ViewsInv'
<1> USE DEF ViewsInv
<1> DEFINE r == writers[w]
<1>1. /\ UNCHANGED <<watched, facts, due, slice, reader, documents, lists, mixed, faulted, sliceStale,
                     unsynced>>
      /\ replayed' = [f \in ViewFact |-> IF f \in r.on THEN Effect(r.op, r.verdict, replayed[f])
                                         ELSE replayed[f]]
      /\ Turn(w, "append") /\ Continue(w, RestOf(w))
  BY DEF Append1, Turn, Views
<1>2. /\ DOMAIN writers' = Writer /\ \A v \in Writer : WriterOK(writers[v])'
      /\ \A v \in Writer \ {w} : writers'[v] = writers[v]
      /\ r.op \in Ops /\ r.verdict \in Verdicts \cup {"none"}
  BY <1>1, StepTaken, WriterAtWork DEF Turn
<1>3. /\ \A g \in ViewFact : replayed'[g] = IF g \in r.on THEN Effect(r.op, r.verdict, replayed[g])
                                            ELSE replayed[g]
      /\ replayed' \in [ViewFact -> FactState]
  BY <1>1, <1>2, EffectOnFact DEF ViewsTypeOK
<1>4. ViewsTypeOK'
  BY <1>1, <1>2, <1>3 DEF ViewsTypeOK
<1>5. JournalFollows'
  BY <1>1, <1>3, JournalAfterStep
<1>6. SliceFollows'
  BY <1>1, SliceAfterStep
<1>7. ListsFollow'
  BY <1>1, <1>2, ListsAfterStep
<1>8. DocumentsFollow'
  BY <1>1, DocumentsAfterStep
<1> QED
  BY <1>4, <1>5, <1>6, <1>7, <1>8

LEMMA AppendFailsStep == ASSUME ViewsInv, NEW w \in Writer, AppendFails(w) PROVE ViewsInv'
<1> USE DEF ViewsInv
<1> DEFINE r == writers[w]
           todo == AfterFailedAppend(r.op, RestOf(w))
<1>1. /\ UNCHANGED <<watched, facts, replayed, due, slice, reader, documents, lists, mixed>>
      /\ sliceStale' = IF GivesUp(w, todo, "purge") THEN slice.held ELSE sliceStale
      /\ unsynced' = IF GivesUp(w, todo, "sync") THEN unsynced \cup r.on ELSE unsynced
      /\ Turn(w, "append")
  BY DEF AppendFails, Turn, Views
<1>2. /\ ViewsTypeOK' /\ JournalFollows'
      /\ \A v \in Writer \ {w} : writers'[v] = writers[v]
      /\ writers'[w].todo = todo
      /\ ~Has(r.todo, "engine") => ~Has(todo, "engine")
      /\ todo # <<>> => writers'[w].on = r.on
  BY JournalAfterFailure
<1> HIDE DEF todo
<1>3. SliceFollows'
  <2>1. CASE GivesUp(w, todo, "purge")
    BY <1>1, <2>1 DEF SliceFollows, SliceCurrent
  <2>2. CASE ~GivesUp(w, todo, "purge")
    <3>1. \A u \in Writer : Has(writers[u].todo, "purge") /\ ~Has(writers[u].todo, "engine")
             => Has(writers'[u].todo, "purge") /\ ~Has(writers'[u].todo, "engine")
      BY <1>2, <2>2 DEF GivesUp
    <3>2. SliceCurrent'
      BY <1>1, <2>2, <3>1 DEF SliceFollows, SliceCurrent
    <3> QED
      BY <1>1, <3>2 DEF SliceFollows
  <2> QED
    BY <2>1, <2>2
<1>4. ListsFollow'
  BY <1>1, <1>2, ListsAfterStep
<1>5. DocumentsFollow'
  <2>1. ASSUME NEW g \in ViewFact, g \notin unsynced', NEW v \in WritersOf(g), WillSync(v, g)
        PROVE  v \in WritersOf(g)' /\ WillSync(v, g)'
    <3>1. CASE v # w
      BY <1>1, <1>2, <2>1, <3>1 DEF WillSync, WritersOf, Listed
    <3>2. CASE v = w
      <4>1. g \in r.on /\ Has(r.todo, "sync") /\ ~Has(r.todo, "engine")
        BY <2>1, <3>2 DEF WillSync, WritersOf
      <4>2. ~GivesUp(w, todo, "sync")
        BY <1>1, <2>1, <4>1
      <4>3. Has(todo, "sync") /\ ~Has(todo, "engine")
        BY <1>2, <4>1, <4>2 DEF GivesUp
      <4>4. writers'[w].on = r.on
        BY <1>2, <4>3, SomethingLeft
      <4> QED
        BY <1>1, <1>2, <2>1, <3>2, <4>1, <4>3, <4>4 DEF WillSync, WritersOf, Listed
    <3> QED
      BY <3>1, <3>2
  <2>2. unsynced \subseteq unsynced'
    BY <1>1
  <2> QED
    BY <1>1, <2>1, <2>2 DEF DocumentsFollow, Present
<1> QED
  BY <1>2, <1>3, <1>4, <1>5

LEMMA PurgeStep == ASSUME ViewsInv, NEW w \in Writer, InvalidateSliceCache(w) PROVE ViewsInv'
<1> USE DEF ViewsInv
<1>1. /\ UNCHANGED <<watched, facts, replayed, due, reader, documents, lists, mixed, faulted, unsynced>>
      /\ slice' = NoSlice /\ Turn(w, "purge") /\ Continue(w, RestOf(w))
  BY DEF InvalidateSliceCache, Turn, Views
<1>2. /\ DOMAIN writers' = Writer /\ \A v \in Writer : WriterOK(writers[v])'
      /\ \A v \in Writer \ {w} : writers'[v] = writers[v]
  BY <1>1, StepTaken
<1>3. ViewsTypeOK'
  BY <1>1, <1>2 DEF ViewsTypeOK
<1>4. JournalFollows'
  BY <1>1, JournalAfterStep
<1>5. SliceFollows'
  <2>1. ~slice'.held
    BY <1>1 DEF NoSlice
  <2> QED
    BY <1>1, <2>1 DEF SliceFollows, SliceCurrent
<1>6. ListsFollow'
  BY <1>1, <1>2, ListsAfterStep
<1>7. DocumentsFollow'
  BY <1>1, DocumentsAfterStep
<1> QED
  BY <1>3, <1>4, <1>5, <1>6, <1>7

(* The steps of a sync leave everything else as it is.                     *)
LEMMA ListingStep ==
    ASSUME ViewsInv, NEW w \in Writer, ListDocuments(w) \/ ResolveStatus(w) PROVE ViewsInv'
<1> USE DEF ViewsInv
<1> DEFINE r == writers[w]
<1>1. /\ UNCHANGED <<watched, facts, replayed, due, writers, slice, reader, documents, mixed, faulted,
                     sliceStale, unsynced>>
      /\ r.todo # <<>> /\ Head(r.todo) = "sync"
  BY DEF ListDocuments, ResolveStatus, Syncing, Turn, Next1, Views
<1>2. ViewsTypeOK' /\ JournalFollows' /\ SliceFollows'
  BY <1>1 DEF ViewsTypeOK, WriterOK, TodoOK, JournalFollows, WritersOf, Settling, Agree, Pending,
              SliceFollows, SliceCurrent
<1>3. /\ lists \in [Writer -> List] /\ facts \in [ViewFact -> FactState]
      /\ NoFact \in FactState /\ LiveFact \in FactState /\ r.on \subseteq ViewFact
  BY <1>1, WriterAtWork DEF ListsFollow, ViewsTypeOK, FactState, LiveFact, NoFact
<1>4. /\ lists' \in [Writer -> List] /\ \A v \in Writer \ {w} : lists'[v] = lists[v]
      /\ Fresh(w)' /\ lists'[w].stage # "none"
      /\ \A g \in ViewFact \ unsynced : w \in WritersOf(g) /\ WillSync(w, g)
            => WillSync(w, g)' \/ documents[g] = facts[g]
  <2>1. CASE ListDocuments(w)
    <3> DEFINE x == [stage |-> "listed", behind |-> Lost(w),
                     facts |-> [f \in ViewFact |-> IF f \in Lost(w) THEN LiveFact
                                                   ELSE IF Own(w) /\ f \notin r.on THEN NoFact
                                                   ELSE facts[f]]]
    <3>1. lists' = [lists EXCEPT ![w] = x]
      BY <2>1 DEF ListDocuments
    <3>2. /\ x \in List /\ x.behind = Lost(w)
          /\ \A f \in ViewFact : x.facts[f] = IF f \in Lost(w) THEN LiveFact
                                              ELSE IF Own(w) /\ f \notin r.on THEN NoFact
                                              ELSE facts[f]
      BY <1>3 DEF List, Lost
    <3> HIDE DEF x
    <3>3. lists'[w] = x /\ lists' \in [Writer -> List] /\ \A v \in Writer \ {w} : lists'[v] = lists[v]
      BY <1>3, <3>1, <3>2
    <3>4. Fresh(w)'
      BY <1>1, <3>2, <3>3 DEF Fresh, Listed
    <3>5. ASSUME NEW g \in ViewFact, g \notin unsynced, w \in WritersOf(g), WillSync(w, g)
          PROVE  WillSync(w, g)' \/ documents[g] = facts[g]
      <4>1. CASE Present(g)
        <5>1. g \in r.on /\ g \notin Lost(w)
          BY <3>5, <4>1 DEF WritersOf, Lost
        <5>2. Listed(w, g)' /\ g \notin lists'[w].behind
          BY <3>2, <3>3, <4>1, <5>1 DEF Listed, Present
        <5> QED
          BY <1>1, <3>5, <5>2 DEF WillSync
      <4>2. CASE ~Present(g)
        BY <3>5, <4>2 DEF DocumentsFollow, Present
      <4> QED
        BY <4>1, <4>2
    <3>6. x.stage # "none"
      BY DEF x
    <3> QED
      BY <3>3, <3>4, <3>5, <3>6
  <2>2. CASE ResolveStatus(w)
    <3> DEFINE old == lists[w]
               fs == [f \in ViewFact |-> IF old.facts[f] # NoFact
                                         THEN [old.facts[f] EXCEPT !.state = GetStatus(f)]
                                         ELSE NoFact]
               x == [old EXCEPT !.stage = "resolved", !.facts = fs]
    <3>1. lists' = [lists EXCEPT ![w].stage = "resolved", ![w].facts = fs] /\ old.stage = "listed"
      BY <2>2 DEF ResolveStatus, Listed, Syncing
    <3>2. old \in List /\ Fresh(w)
      BY <1>3, <3>1 DEF ListsFollow
    <3>3. ASSUME NEW f \in ViewFact
          PROVE  /\ fs[f] \in FactState /\ (fs[f] # NoFact <=> old.facts[f] # NoFact)
                 /\ old.facts[f] # NoFact /\ f \notin old.behind => fs[f] = facts[f]
      <4>1. CASE old.facts[f] = NoFact
        BY <1>3, <4>1
      <4>2. CASE old.facts[f] # NoFact
        <5> DEFINE y == old.facts[f]
                   st == GetStatus(f)
        <5>1. /\ y \in [state : {"live", "gone"}, verdict : Verdicts \cup {"none"}, review : BOOLEAN]
              /\ fs[f] = [y EXCEPT !.state = st] /\ NoFact.state = "absent"
          BY <3>2, <4>2 DEF FactState, List, NoFact
        <5>2. /\ st \in {"live", "gone"}
              /\ facts[f] # NoFact => st = facts[f].state
          BY <1>3 DEF GetStatus, FactState, Present
        <5>3. f \notin old.behind => y = facts[f]
          BY <3>2, <4>2 DEF Fresh, Listed
        <5> HIDE DEF y, st
        <5>4. /\ [y EXCEPT !.state = st] \in [state : {"live", "gone"}, verdict : Verdicts \cup {"none"},
                                              review : BOOLEAN]
              /\ [y EXCEPT !.state = st].state = st
          BY <5>1, <5>2
        <5>5. [y EXCEPT !.state = st] # NoFact /\ [y EXCEPT !.state = st] \in FactState
          BY <5>1, <5>2, <5>4 DEF FactState
        <5>6. f \notin old.behind => [y EXCEPT !.state = st] = facts[f]
          <6>1. SUFFICES ASSUME f \notin old.behind PROVE [y EXCEPT !.state = st] = facts[f]
            OBVIOUS
          <6>2. y = facts[f] /\ st = y.state
            BY <4>2, <5>2, <5>3, <6>1 DEF y
          <6> QED
            BY <5>1, <6>2
        <5> QED
          BY <4>2, <5>1, <5>5, <5>6
      <4> QED
        BY <4>1, <4>2
    <3>4. fs \in [ViewFact -> FactState]
      <4>1. \A f \in ViewFact : fs[f] \in FactState
        BY <3>3
      <4>2. fs = [f \in ViewFact |-> fs[f]]
        OBVIOUS
      <4> HIDE DEF fs
      <4> QED
        BY <4>1, <4>2
    <3> HIDE DEF fs
    <3>5. /\ x \in List /\ x.stage = "resolved" /\ x.facts = fs /\ x.behind = old.behind
      BY <3>2, <3>4 DEF List
    <3>6. lists'[w] = x /\ lists' \in [Writer -> List] /\ \A v \in Writer \ {w} : lists'[v] = lists[v]
      BY <1>3, <3>1, <3>5
    <3>7. Fresh(w)'
      BY <1>1, <3>3, <3>5, <3>6 DEF Fresh, Listed
    <3>8. \A g \in ViewFact : WillSync(w, g) => WillSync(w, g)'
      BY <1>1, <3>1, <3>3, <3>5, <3>6 DEF WillSync, Listed
    <3> QED
      BY <3>5, <3>6, <3>7, <3>8
  <2> QED
    BY <2>1, <2>2
<1>5. ListsFollow'
  BY <1>1, <1>4 DEF ListsFollow, Fresh, Listed
<1>6. DocumentsFollow'
  <2>1. \A g : WritersOf(g)' = WritersOf(g)
    BY <1>1 DEF WritersOf
  <2>2. \A g : \A v \in WritersOf(g) \ {w} : WillSync(v, g) => WillSync(v, g)'
    BY <1>1, <1>4 DEF WillSync, Listed, WritersOf
  <2> QED
    BY <1>1, <1>4, <2>1, <2>2 DEF DocumentsFollow, Present
<1> QED
  BY <1>2, <1>5, <1>6

LEMMA UpsertStep ==
    ASSUME ViewsInv, NEW w \in Writer, UpsertDocuments(w) \/ UpsertFails(w) PROVE ViewsInv'
<1> USE DEF ViewsInv
<1> DEFINE r == writers[w]
           l == lists[w]
<1>1. /\ UNCHANGED <<watched, facts, replayed, due, slice, reader, mixed, faulted, sliceStale>>
      /\ Turn(w, "sync") /\ Continue(w, RestOf(w)) /\ l.stage = "resolved"
      /\ lists' = [lists EXCEPT ![w] = NoList]
  BY DEF UpsertDocuments, UpsertFails, Syncing, Turn, Views
<1>2. /\ DOMAIN writers' = Writer /\ \A v \in Writer : WriterOK(writers[v])'
      /\ \A v \in Writer \ {w} : writers'[v] = writers[v]
  BY <1>1, StepTaken
<1>3. /\ l \in List /\ Fresh(w) /\ lists \in [Writer -> List]
  BY <1>1 DEF ListsFollow
<1>4. documents' \in [ViewFact -> FactState]
  <2>1. CASE UpsertDocuments(w)
    BY <1>3, <2>1 DEF UpsertDocuments, ViewsTypeOK, List
  <2>2. CASE UpsertFails(w)
    BY <2>2 DEF UpsertFails, ViewsTypeOK
  <2> QED
    BY <2>1, <2>2
<1>5. ViewsTypeOK'
  BY <1>1, <1>2, <1>4 DEF ViewsTypeOK
<1>6. JournalFollows'
  <2>1. \A g \in ViewFact : facts'[g] = facts[g] /\ replayed'[g] = replayed[g]
    BY <1>1
  <2> QED
    BY <1>1, <2>1, JournalAfterStep
<1>7. SliceFollows'
  BY <1>1, SliceAfterStep
<1>8. /\ ListsFollow' /\ \A v \in Writer \ {w} : lists'[v] = lists[v]
  <2>1. NoList \in List /\ NoList.stage = "none"
    BY DEF NoList, List, NoFacts, FactState
  <2>2. /\ lists'[w] = NoList /\ lists' \in [Writer -> List]
        /\ \A v \in Writer \ {w} : lists'[v] = lists[v]
    BY <1>1, <1>3, <2>1
  <2>3. \A v \in Writer \ {w} : Fresh(v) => Fresh(v)'
    BY <1>1, <2>2 DEF Fresh, Listed
  <2> QED
    BY <1>2, <2>1, <2>2, <2>3 DEF ListsFollow
<1>9. DocumentsFollow'
  <2>0. ASSUME NEW g, NEW v \in WritersOf(g), v # w, WillSync(v, g)
        PROVE  v \in WritersOf(g)' /\ WillSync(v, g)'
    BY <1>2, <1>8, <2>0 DEF WillSync, Listed, WritersOf
  <2>1. CASE UpsertDocuments(w)
    <3> SUFFICES ASSUME NEW g \in ViewFact, g \notin unsynced'
        PROVE  /\ ~Present(g) => documents'[g] = NoFact
               /\ watched = "documents" =>
                     documents'[g] = facts[g] \/ \E v \in WritersOf(g)' : WillSync(v, g)'
      BY <1>1 DEF DocumentsFollow, Present
    <3>1. /\ documents'[g] = IF Listed(w, g) THEN l.facts[g] ELSE documents[g]
          /\ IF Listed(w, g) THEN g \notin l.behind ELSE g \notin unsynced
      BY <2>1 DEF UpsertDocuments
    <3>2. CASE Listed(w, g)
      <4>1. documents'[g] = facts[g]
        BY <1>3, <3>1, <3>2 DEF Fresh
      <4> QED
        BY <4>1 DEF Present
    <3>3. CASE ~Listed(w, g)
      <4>1. documents'[g] = documents[g] /\ ~WillSync(w, g)
        BY <1>1, <3>1, <3>3 DEF WillSync
      <4>2. /\ ~Present(g) => documents[g] = NoFact
            /\ watched = "documents" => documents[g] = facts[g] \/ \E v \in WritersOf(g) : WillSync(v, g)
        BY <3>1, <3>3 DEF DocumentsFollow
      <4> QED
        BY <2>0, <4>1, <4>2
    <3> QED
      BY <3>2, <3>3
  <2>2. CASE UpsertFails(w)
    <3>1. unsynced' = unsynced \cup r.on /\ documents' = documents
      BY <2>2 DEF UpsertFails
    <3>2. \A g : g \notin r.on => w \notin WritersOf(g)
      BY DEF WritersOf
    <3> QED
      BY <1>1, <2>0, <3>1, <3>2 DEF DocumentsFollow, Present
  <2> QED
    BY <2>1, <2>2
<1> QED
  BY <1>5, <1>6, <1>7, <1>8, <1>9

(* Facts of the engine change in one step and the views are not told.      *)
LEMMA ViewsAfterChange ==
    ASSUME ViewsInv, NEW changed \in SUBSET ViewFact, EngineChanges(changed),
           UNCHANGED <<watched, slice, documents>>, facts' \in [ViewFact -> FactState],
           \A f \in ViewFact \ changed : facts'[f] = facts[f],
           sliceStale' = slice.held,
           \A f \in ViewFact \ unsynced' : f \notin changed /\ f \notin unsynced,
           \A v \in Writer : lists[v].stage # "none" => writers'[v] = writers[v],
           changed = ViewFact \/ writers' = writers
    PROVE  /\ reader' \in [busy : BOOLEAN, facts : [ViewFact -> FactState], dirty : BOOLEAN]
           /\ SliceFollows' /\ ListsFollow' /\ DocumentsFollow'
<1> USE DEF ViewsInv
<1>1. /\ reader' = [reader EXCEPT !.dirty = @ \/ reader.busy]
      /\ reader' \in [busy : BOOLEAN, facts : [ViewFact -> FactState], dirty : BOOLEAN]
      /\ reader'.busy = reader.busy /\ (reader'.busy => reader'.dirty)
  BY DEF ViewsTypeOK, EngineChanges
<1>2. SliceFollows'
  BY <1>1 DEF SliceFollows, SliceCurrent
<1>3. /\ ListsFollow'
      /\ \A v \in Writer : /\ lists'[v].stage = lists[v].stage /\ lists'[v].facts = lists[v].facts
                           /\ \A f : f \notin changed /\ f \notin lists[v].behind
                                        => f \notin lists'[v].behind
  BY ListsAfterChange
<1>4. DocumentsFollow'
  <2>1. CASE changed = ViewFact
    BY <2>1 DEF DocumentsFollow
  <2>2. CASE writers' = writers
    <3> SUFFICES ASSUME NEW g \in ViewFact, g \notin unsynced'
        PROVE  /\ ~Present(g)' => documents[g] = NoFact
               /\ watched = "documents" =>
                     documents[g] = facts'[g] \/ \E v \in WritersOf(g)' : WillSync(v, g)'
      BY DEF DocumentsFollow
    <3>1. g \notin changed /\ g \notin unsynced /\ facts'[g] = facts[g] /\ WritersOf(g)' = WritersOf(g)
      BY <2>2 DEF WritersOf
    <3>2. \A v \in WritersOf(g) : WillSync(v, g) => WillSync(v, g)'
      BY <1>3, <2>2, <3>1 DEF WillSync, Listed, WritersOf
    <3> QED
      BY <3>1, <3>2 DEF DocumentsFollow, Present
  <2> QED
    BY <2>1, <2>2
<1> QED
  BY <1>1, <1>2, <1>3, <1>4

(* A revalidation touches every fact and is the one writer of those whose  *)
(* changes do not overlap.                                                 *)
LEMMA Revalidating ==
    ASSUME ViewsInv, NEW w \in Writer, NEW s \in {"clear", "replay"}, Turn(w, s),
           Continue(w, RestOf(w)), due' = due
    PROVE  /\ DOMAIN writers' = Writer /\ \A v \in Writer : WriterOK(writers[v])'
           /\ \A v \in Writer \ {w} : writers'[v] = writers[v]
           /\ \A v \in Writer : lists[v].stage # "none" => writers'[v] = writers[v]
           /\ writers[w].op = "revalidate" /\ writers[w].verdict \in Verdicts \cup {"none"}
           /\ Has(writers[w].todo, "replay") /\ ~Has(writers'[w].todo, "clear")
           /\ Has(writers'[w].todo, "replay") <=> s = "clear"
           /\ s = "replay" => ~Has(writers[w].todo, "clear")
           /\ \A g \in ViewFact \ (mixed \cup faulted) :
                 /\ WritersOf(g) = {w} /\ Settling(g, w)
                 /\ WritersOf(g)' = {} \/ WritersOf(g)' = {w}
                 /\ s = "clear" => WritersOf(g)' = {w}
           /\ \/ writers'[w].on = {} /\ writers'[w].todo = <<>>
              \/ writers'[w].op = "revalidate" /\ writers'[w].verdict = writers[w].verdict
<1> USE DEF ViewsInv
<1> DEFINE r == writers[w]
<1>1. /\ DOMAIN writers' = Writer /\ \A v \in Writer : WriterOK(writers[v])'
      /\ \A v \in Writer \ {w} : writers'[v] = writers[v]
      /\ Has(r.todo, s) /\ ~Has(writers'[w].todo, s)
      /\ \A t : t # s => (Has(writers'[w].todo, t) <=> Has(r.todo, t))
      /\ \A t : Before(r.todo, s, t) => Has(writers'[w].todo, t)
      /\ s = "replay" => ~Has(r.todo, "clear")
      /\ \/ writers'[w].on = {} /\ writers'[w].todo = <<>>
         \/ /\ writers'[w].op = r.op /\ writers'[w].on = r.on
            /\ writers'[w].verdict = r.verdict
  BY StepTaken
<1>2. /\ r.op = "revalidate" /\ r.on = ViewFact /\ r.verdict \in Verdicts \cup {"none"}
      /\ Before(r.todo, "clear", "replay")
  BY <1>1, WriterAtWork DEF Turn, TodoOK
<1>3. /\ Has(r.todo, "replay") /\ ~Has(writers'[w].todo, "clear")
      /\ Has(writers'[w].todo, "replay") <=> s = "clear"
  <2>1. CASE s = "clear"
    BY <1>1, <1>2, <2>1
  <2>2. CASE s = "replay"
    BY <1>1, <2>2
  <2> QED
    BY <2>1, <2>2
<1>4. lists[w].stage = "none"
  BY NothingListed
<1>5. ASSUME NEW g \in ViewFact, g \notin mixed, g \notin faulted
      PROVE  /\ WritersOf(g) = {w} /\ Settling(g, w)
             /\ WritersOf(g)' = {} \/ WritersOf(g)' = {w}
             /\ s = "clear" => WritersOf(g)' = {w}
  <2>1. WritersOf(g) = {w} /\ (WritersOf(g)' = {} \/ WritersOf(g)' = {w})
    BY <1>1, <1>2, <1>5, OnlyWriter DEF JournalFollows
  <2>2. s = "clear" => writers'[w].on = ViewFact
    BY <1>1, <1>2, <1>3, SomethingLeft
  <2>3. s = "clear" => WritersOf(g)' = {w}
    BY <2>1, <2>2 DEF WritersOf
  <2>4. Settling(g, w)
    BY <1>5, <2>1 DEF JournalFollows
  <2> QED
    BY <2>1, <2>3, <2>4
<1>6. \A v \in Writer : lists[v].stage # "none" => writers'[v] = writers[v]
  BY <1>1, <1>4
<1> QED
  BY <1>1, <1>2, <1>3, <1>5, <1>6

LEMMA ClearStep == ASSUME ViewsInv, NEW w \in Writer, ClearEngine(w) PROVE ViewsInv'
<1> USE DEF ViewsInv
<1>1. /\ UNCHANGED <<watched, replayed, due, slice, documents, mixed, faulted>>
      /\ facts' = NoFacts /\ EngineChanges(ViewFact)
      /\ sliceStale' = slice.held /\ unsynced' = ViewFact
      /\ Turn(w, "clear") /\ Continue(w, RestOf(w))
  BY DEF ClearEngine, Turn, Views
<1>2. facts' \in [ViewFact -> FactState] /\ \A g \in ViewFact : facts'[g] = NoFact
  BY <1>1 DEF NoFacts, FactState
<1>3. /\ DOMAIN writers' = Writer /\ \A v \in Writer : WriterOK(writers[v])'
      /\ \A v \in Writer : lists[v].stage # "none" => writers'[v] = writers[v]
      /\ Has(writers'[w].todo, "replay")
      /\ \A g \in ViewFact \ (mixed \cup faulted) : WritersOf(g)' = {w}
  BY <1>1, Revalidating
<1>4. /\ reader' \in [busy : BOOLEAN, facts : [ViewFact -> FactState], dirty : BOOLEAN]
      /\ SliceFollows' /\ ListsFollow' /\ DocumentsFollow'
  BY <1>1, <1>2, <1>3, ViewsAfterChange
<1>5. ViewsTypeOK'
  BY <1>1, <1>2, <1>3, <1>4 DEF ViewsTypeOK
<1>6. JournalFollows'
  BY <1>1, <1>2, <1>3 DEF JournalFollows, Settling
<1> QED
  BY <1>4, <1>5, <1>6

LEMMA ReplayedFact ==
    ASSUME NEW x \in FactState, NEW y \in FactState
    PROVE  ReplayedOnto(x, y) \in FactState /\ (x = NoFact => ReplayedOnto(x, y) = y)
<1>1. CASE x = NoFact \/ y = NoFact
  BY <1>1 DEF ReplayedOnto
<1>2. CASE x # NoFact /\ y # NoFact
  BY <1>2 DEF ReplayedOnto, FactState
<1> QED
  BY <1>1, <1>2

(* Of a fact nobody else has changed the engine is empty by then.          *)
LEMMA ReplayStep ==
    ASSUME ViewsInv, NEW w \in Writer, ReplayHistory(w) PROVE ViewsInv'
<1> USE DEF ViewsInv
<1>1. /\ UNCHANGED <<watched, replayed, due, slice, documents, mixed, faulted>>
      /\ facts' = [f \in ViewFact |-> ReplayedOnto(facts[f], replayed[f])]
      /\ EngineChanges(ViewFact)
      /\ sliceStale' = slice.held /\ unsynced' = ViewFact
      /\ Turn(w, "replay") /\ Continue(w, RestOf(w))
  BY DEF ReplayHistory, Turn, Views
<1>2. /\ facts' \in [ViewFact -> FactState] /\ replayed \in [ViewFact -> FactState]
      /\ \A g \in ViewFact : facts[g] = NoFact => facts'[g] = replayed[g]
  BY <1>1, ReplayedFact DEF ViewsTypeOK
<1>3. /\ DOMAIN writers' = Writer /\ \A v \in Writer : WriterOK(writers[v])'
      /\ \A v \in Writer : lists[v].stage # "none" => writers'[v] = writers[v]
      /\ Has(writers[w].todo, "replay") /\ ~Has(writers[w].todo, "clear")
      /\ ~Has(writers'[w].todo, "replay")
      /\ writers[w].verdict \in Verdicts \cup {"none"}
      /\ \A g \in ViewFact \ (mixed \cup faulted) :
            Settling(g, w) /\ (WritersOf(g)' = {} \/ WritersOf(g)' = {w})
      /\ \/ writers'[w].on = {} /\ writers'[w].todo = <<>>
         \/ writers'[w].op = "revalidate" /\ writers'[w].verdict = writers[w].verdict
  BY <1>1, Revalidating
<1>4. /\ reader' \in [busy : BOOLEAN, facts : [ViewFact -> FactState], dirty : BOOLEAN]
      /\ SliceFollows' /\ ListsFollow' /\ DocumentsFollow'
  BY <1>1, <1>2, <1>3, ViewsAfterChange
<1>5. ViewsTypeOK'
  BY <1>1, <1>2, <1>3, <1>4 DEF ViewsTypeOK
<1>6. JournalFollows'
  <2> SUFFICES ASSUME NEW g \in ViewFact, g \notin mixed, g \notin faulted
      PROVE  /\ \A u, v \in WritersOf(g)' : u = v
             /\ WritersOf(g)' = {} => Agree(g, facts[g], replayed[g])'
             /\ \A v \in WritersOf(g)' : Settling(g, v)'
    BY <1>1 DEF JournalFollows
  <2>1. facts'[g] = replayed[g] /\ replayed'[g] = replayed[g]
    BY <1>1, <1>2, <1>3 DEF Settling
  <2>2. w \in WritersOf(g)' => Settling(g, w)'
    <3> SUFFICES ASSUME w \in WritersOf(g)' PROVE Settling(g, w)'
      OBVIOUS
    <3>1. writers'[w].op = "revalidate" /\ writers'[w].verdict = writers[w].verdict
      BY <1>3 DEF WritersOf
    <3>2. "revalidate" \in Ops /\ replayed[g] \in FactState
      BY <1>2 DEF Ops
    <3>3. Effect("revalidate", writers[w].verdict, replayed[g]) = replayed[g]
      BY <1>3, <3>2, EffectOnFact
    <3>4. Pending(w, "engine", facts[g])' = facts'[g] /\ Pending(w, "append", replayed[g])' = facts'[g]
      BY <2>1, <3>1, <3>3 DEF Pending
    <3>5. Agree(g, Pending(w, "engine", facts[g]), Pending(w, "append", replayed[g]))'
      BY <3>4 DEF Agree
    <3> QED
      BY <1>3, <3>5 DEF Settling
  <2> QED
    BY <1>3, <2>1, <2>2 DEF Agree
<1> QED
  BY <1>4, <1>5, <1>6

LEMMA HistoryUnreadStep == ASSUME ViewsInv, NEW w \in Writer, HistoryUnread(w) PROVE ViewsInv'
<1> USE DEF ViewsInv
<1>1. /\ UNCHANGED <<watched, facts, replayed, due, slice, reader, documents, lists, mixed,
                     sliceStale, unsynced>>
      /\ faulted' = ViewFact /\ Turn(w, "replay") /\ Continue(w, RestOf(w))
  BY DEF HistoryUnread, Turn, Views
<1>2. /\ DOMAIN writers' = Writer /\ \A v \in Writer : WriterOK(writers[v])'
      /\ \A v \in Writer \ {w} : writers'[v] = writers[v]
  BY <1>1, StepTaken
<1>3. ViewsTypeOK' /\ JournalFollows'
  BY <1>1, <1>2 DEF ViewsTypeOK, JournalFollows
<1>4. SliceFollows'
  BY <1>1, SliceAfterStep
<1>5. ListsFollow'
  BY <1>1, <1>2, ListsAfterStep
<1>6. DocumentsFollow'
  BY <1>1, DocumentsAfterStep
<1> QED
  BY <1>3, <1>4, <1>5, <1>6

(* A shared fact falls; from then on the fact counts as mixed.             *)
LEMMA PropagateStep == ASSUME ViewsInv, NEW f \in ViewFact, PropagateGlobal(f) PROVE ViewsInv'
<1> USE DEF ViewsInv
<1>1. /\ UNCHANGED <<watched, replayed, due, writers, slice, documents, faulted>>
      /\ facts[f].state = "live" /\ facts' = [facts EXCEPT ![f].state = "gone"]
      /\ mixed' = mixed \cup {f} /\ unsynced' = unsynced \cup {f}
      /\ EngineChanges({f}) /\ sliceStale' = slice.held
  BY DEF PropagateGlobal, Views
<1>2. facts' \in [ViewFact -> FactState] /\ \A g \in ViewFact \ {f} : facts'[g] = facts[g]
  <2>1. facts[f] # NoFact /\ facts[f] \in FactState
    BY <1>1 DEF NoFact, ViewsTypeOK
  <2>2. [facts[f] EXCEPT !.state = "gone"] \in FactState
    BY <2>1 DEF FactState
  <2> QED
    BY <1>1, <2>2 DEF ViewsTypeOK
<1>3. /\ reader' \in [busy : BOOLEAN, facts : [ViewFact -> FactState], dirty : BOOLEAN]
      /\ SliceFollows' /\ ListsFollow' /\ DocumentsFollow'
  BY <1>1, <1>2, ViewsAfterChange
<1>4. ViewsTypeOK'
  BY <1>1, <1>2, <1>3 DEF ViewsTypeOK, WriterOK, TodoOK
<1>5. JournalFollows'
  <2>1. \A g \in ViewFact \ mixed' : g # f /\ g \notin mixed /\ facts'[g] = facts[g]
    BY <1>1, <1>2
  <2> QED
    BY <1>1, <2>1 DEF JournalFollows, WritersOf, Agree, Pending, Settling
<1> QED
  BY <1>3, <1>4, <1>5

LEMMA RebuildStep == ASSUME ViewsInv, Rebuild PROVE ViewsInv'
<1> USE DEF ViewsInv
<1>1. /\ UNCHANGED <<watched, replayed, due, writers, slice, documents, mixed, faulted>>
      /\ \A w \in Writer : writers[w] = NoWriter
      /\ facts' = replayed /\ EngineChanges(ViewFact)
      /\ sliceStale' = slice.held /\ unsynced' = ViewFact
  BY DEF Rebuild, Views
<1>2. facts' \in [ViewFact -> FactState]
  BY <1>1 DEF ViewsTypeOK
<1>3. /\ reader' \in [busy : BOOLEAN, facts : [ViewFact -> FactState], dirty : BOOLEAN]
      /\ SliceFollows' /\ ListsFollow' /\ DocumentsFollow'
  BY <1>1, <1>2, ViewsAfterChange
<1>4. ViewsTypeOK'
  BY <1>1, <1>2, <1>3 DEF ViewsTypeOK, WriterOK, TodoOK
<1>5. JournalFollows'
  BY <1>1 DEF JournalFollows, WritersOf, Agree, NoWriter
<1> QED
  BY <1>3, <1>4, <1>5

LEMMA OtherStep ==
    ASSUME ViewsInv,
           \/ \E f \in ViewFact : FallsDue(f) \/ WebhookFails(f)
           \/ SelectBeliefSlice \/ HandleGetSlice \/ PurgeSliceCache
           \/ UNCHANGED viewVars
    PROVE  ViewsInv'
<1> USE DEF ViewsInv
<1>1. /\ UNCHANGED <<watched, facts, replayed, writers, documents, lists, mixed, faulted, unsynced>>
      /\ due \subseteq due'
      /\ \/ UNCHANGED <<slice, reader, sliceStale>>
         \/ /\ reader' = [busy |-> TRUE, facts |-> facts, dirty |-> FALSE] /\ watched = "slice"
            /\ UNCHANGED <<slice, sliceStale>>
         \/ /\ reader.busy /\ slice' = [held |-> TRUE, facts |-> reader.facts, at |-> clock]
            /\ sliceStale' = reader.dirty /\ reader' = NoReader
         \/ slice' = NoSlice /\ reader' = reader
  BY DEF FallsDue, WebhookFails, SelectBeliefSlice, HandleGetSlice, PurgeSliceCache, Views, viewVars
<1>2. reader' \in [busy : BOOLEAN, facts : [ViewFact -> FactState], dirty : BOOLEAN]
  <2>1. NoReader \in [busy : BOOLEAN, facts : [ViewFact -> FactState], dirty : BOOLEAN]
    BY DEF NoReader, NoFacts, FactState
  <2> DEFINE x == [busy |-> TRUE, facts |-> facts, dirty |-> FALSE]
  <2>2. x \in [busy : BOOLEAN, facts : [ViewFact -> FactState], dirty : BOOLEAN]
    BY DEF ViewsTypeOK
  <2>3. reader' \in {reader, NoReader, x}
    BY <1>1
  <2> QED
    BY <2>1, <2>2, <2>3 DEF ViewsTypeOK
<1>3. \A w \in Writer : WriterOK(writers[w])'
  BY <1>1 DEF ViewsTypeOK, WriterOK, TodoOK
<1>4. ViewsTypeOK'
  BY <1>1, <1>2, <1>3 DEF ViewsTypeOK
<1>5. JournalFollows' /\ DocumentsFollow' /\ ListsFollow'
  <2>1. \A f, a, b : Agree(f, a, b) => Agree(f, a, b)'
    BY <1>1 DEF Agree
  <2>2. JournalFollows'
    BY <1>1, <2>1 DEF JournalFollows, WritersOf, Pending, Settling, Agree
  <2>3. DocumentsFollow' /\ ListsFollow'
    BY <1>1 DEF DocumentsFollow, ListsFollow, WritersOf, Present, WillSync, Listed, Fresh
  <2> QED
    BY <2>2, <2>3
<1>6. SliceFollows'
  <2>1. SliceCurrent'
    BY <1>1 DEF SliceFollows, SliceCurrent, NoSlice
  <2> QED
    BY <1>1, <2>1 DEF SliceFollows, NoReader, NoSlice
<1> QED
  BY <1>4, <1>5, <1>6

-----------------------------------------------------------------------------
(* The theorems.                                                           *)

LEMMA ViewsInitially == ViewsInit => ViewsInv
<1> SUFFICES ASSUME ViewsInit PROVE ViewsInv
  OBVIOUS
<1>1. /\ NoFact \in FactState /\ LiveFact \in FactState
  BY DEF FactState, LiveFact, NoFact
<1>2. facts \in [ViewFact -> FactState] /\ replayed = facts /\ documents = facts
  BY <1>1 DEF ViewsInit, NoFacts
<1>3. /\ DOMAIN writers = Writer /\ \A w \in Writer : writers[w] = NoWriter
      /\ NoWriter.op = "none" /\ NoWriter.on = {}
  BY DEF ViewsInit, NoWriter
<1>4. /\ reader \in [busy : BOOLEAN, facts : [ViewFact -> FactState], dirty : BOOLEAN]
      /\ ~reader.busy /\ ~slice.held
  BY <1>1 DEF ViewsInit, NoReader, NoSlice, NoFacts
<1>5. ViewsTypeOK
  BY <1>2, <1>3, <1>4 DEF ViewsTypeOK, ViewsInit, WriterOK
<1>6. \A f : WritersOf(f) = {}
  BY <1>3 DEF WritersOf
<1>7. JournalFollows /\ DocumentsFollow
  BY <1>2, <1>6 DEF JournalFollows, DocumentsFollow, Agree, Present
<1>8. SliceFollows
  BY <1>4 DEF SliceFollows, SliceCurrent
<1>9. ListsFollow
  BY <1>1 DEF ListsFollow, ViewsInit, NoList, List, NoFacts
<1> QED
  BY <1>5, <1>7, <1>8, <1>9 DEF ViewsInv

LEMMA ViewsStep == ViewsInv /\ [vNext]_vVars => ViewsInv'
<1> SUFFICES ASSUME ViewsInv, [vNext]_vVars PROVE ViewsInv'
  OBVIOUS
<1>1. ASSUME NEW w \in Writer, NEW f \in ViewFact, StartAssert(w, f) PROVE ViewsInv'
  <2>1. PICK op \in Asserts : Begin(w, op, {f}, "none")
    BY <1>1 DEF StartAssert
  <2> QED
    BY <2>1, BeginStep DEF Ops, Asserts
<1>2. ASSUME NEW w \in Writer, NEW f \in ViewFact, StartChange(w, f) PROVE ViewsInv'
  <2>1. PICK op \in {"retract", "flag", "auto", "chain", "settle", "review"} :
           Begin(w, op, {f}, "none")
    BY <1>2 DEF StartChange
  <2> QED
    BY <2>1, BeginStep DEF Ops
<1>3. ASSUME NEW w \in Writer, NEW f \in ViewFact, NEW v \in Verdicts,
             StartVerify(w, f, v) \/ WebhookAnswers(w, f, v)
      PROVE  ViewsInv'
  <2>1. Begin(w, "verify", {f}, v) \/ Begin(w, "webhook", {f}, v)
    BY <1>3 DEF StartVerify, WebhookAnswers
  <2> QED
    BY <2>1, BeginStep DEF Ops
<1>4. ASSUME NEW w \in Writer, NEW f \in ViewFact, SweepExpiredFacts(w, f) PROVE ViewsInv'
  <2>1. f \in due /\ Begin(w, "expire", {f}, "none")
    BY <1>4 DEF SweepExpiredFacts
  <2> QED
    BY <2>1, BeginStep DEF Ops
<1>5. ASSUME NEW w \in Writer, StartRevalidate(w) PROVE ViewsInv'
  <2>1. Begin(w, "revalidate", ViewFact, "none")
    BY <1>5 DEF StartRevalidate
  <2> QED
    BY <2>1, BeginStep DEF Ops
<1>6. ASSUME NEW f \in ViewFact, FallsDue(f) \/ WebhookFails(f) \/ PropagateGlobal(f)
      PROVE  ViewsInv'
  BY <1>6, OtherStep, PropagateStep
<1>7. ASSUME NEW w \in Writer,
             \/ ChangeEngine(w) \/ ChangeRefused(w) \/ Append1(w) \/ AppendFails(w)
             \/ InvalidateSliceCache(w)
      PROVE  ViewsInv'
  BY <1>7, EngineStep, RefusedStep, AppendStep, AppendFailsStep, PurgeStep
<1>8. ASSUME NEW w \in Writer,
             \/ ClearEngine(w) \/ ReplayHistory(w) \/ HistoryUnread(w)
             \/ ListDocuments(w) \/ ResolveStatus(w) \/ UpsertDocuments(w) \/ UpsertFails(w)
      PROVE  ViewsInv'
  BY <1>8, ClearStep, ReplayStep, HistoryUnreadStep, ListingStep, UpsertStep
<1>9. CASE Rebuild \/ SelectBeliefSlice \/ HandleGetSlice \/ PurgeSliceCache \/ UNCHANGED viewVars
  BY <1>9, RebuildStep, OtherStep
<1> QED
  BY <1>1, <1>2, <1>3, <1>4, <1>5, <1>6, <1>7, <1>8, <1>9 DEF vNext, vVars, ViewsNext

LEMMA ViewsFollow == ViewsSpec => []ViewsInv
<1>1. ViewsInv /\ [vNext]_vVars => ViewsInv'
  BY ViewsStep
<1> QED
  BY <1>1, ViewsInitially, PTL DEF ViewsSpec, vNext, vVars

(* Whatever the writers of a session do, and in whatever order their steps *)
(* fall, the engine getEngine rebuilds from the journal agrees with        *)
(* the running one about every fact whose changes are over, did not        *)
(* overlap and were all appended, revalidations included; an expiry need   *)
(* not have been appended.                                                 *)
THEOREM RebuiltEngineAgrees == ViewsSpec => []RebuildAgrees
<1>1. ViewsInv => RebuildAgrees
  BY DEF ViewsInv, JournalFollows, RebuildAgrees, Agree
<1> QED
  BY <1>1, ViewsFollow, PTL

(* A slice served from the cache of handleGetSlice is what the engine      *)
(* holds, unless a change overlapped its computation, a writer that does   *)
(* not purge has run since (flagFactsForReviewOnIssues, the retractions of *)
(* an extraction, handleRevalidate, a shared fact, a rebuild) or one gave  *)
(* up half-way: every other change still has the purge of the cache before *)
(* it, whether or not its append failed.                                   *)
THEOREM CachedSliceCurrent == ViewsSpec => []SliceCurrent
<1>1. ViewsInv => SliceCurrent
  BY DEF ViewsInv, SliceFollows
<1> QED
  BY <1>1, ViewsFollow, PTL

(* The documents of a fact say what the engine says once its changes are   *)
(* over, though a sync reads facts, statuses and documents one after the   *)
(* other while others write: unless the last sync of the fact failed, or   *)
(* listed it before its last change, or that change was of a writer that   *)
(* syncs nothing (a sweep, a webhook, a flag for review, a retraction of a *)
(* check, a shared fact, a rebuild).                                       *)
THEOREM SearchDocumentsCurrent == ViewsSpec => []SearchCurrent
<1>1. ViewsInv => SearchCurrent
  BY DEF ViewsInv, DocumentsFollow, SearchCurrent
<1> QED
  BY <1>1, ViewsFollow, PTL
=============================================================================
