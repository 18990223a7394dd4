--------------------------- MODULE DecisionProofs ---------------------------
(***************************************************************************)
(* What holds of decisions for every number of requests, decisions and     *)
(* facts, whatever overlaps, fails or changes.                             *)
(***************************************************************************)
EXTENDS DecisionExecution, TLAPS

(* The version a handler that has changed the engine is about to write.    *)
Reserved == mutator = "append" => version < MaxVersion

TypeInv == TypeOK /\ Reserved

(* A handler in the middle of its check has seen all there is to see now.  *)
Sees(h) == h.pc \in Checking => Now \subseteq h.was

(* A premise that was seen valid, and its record seen to be good enough.   *)
Grounds(h, f) == {<<f, "vetted">>, <<None, "lax">>, <<None, "unread">>} \cap h.was # {}

Accepts(h, f) == <<f, "valid">> \in h.was /\ Grounds(h, f)

(* What a handler has checked so far bears out its verdict so far.         *)
Checks(h) ==
    /\ h.pc \in {"decision", "build", "deps", "token", "policy"}
          => h.reading = None /\ h.verified = {} /\ h.policy = "unread"
    /\ h.pc = "policy" => h.left = h.deps.facts
    /\ h.pc = "check" => /\ h.left \subseteq h.deps.facts
                         /\ h.reading \in h.deps.facts \cup {None}
                         /\ <<None, h.policy>> \in h.was
    /\ h.pc \in {"check", "quorum"} =>
          /\ h.verified \subseteq h.deps.facts
          /\ \A f \in h.verified : <<f, "vetted">> \in h.was
    /\ h.pc = "check" /\ h.executable =>
          \A f \in h.deps.facts \ h.left :
             <<f, "valid">> \in h.was /\ (f # h.reading => Grounds(h, f))
    /\ h.pc \in {"quorum", "save"} /\ h.executable => \A f \in h.deps.facts : Accepts(h, f)
    /\ h.pc = "save" /\ h.executable
          => {f \in h.deps.facts : <<f, "vetted">> \in h.was} \in Enough

(* A premise that speaks against the decision.                             *)
Refutes(h, f) ==
    \/ {<<f, "invalid">>, <<f, "awaited">>} \cap h.was # {}
    \/ {<<f, "unvetted">>, <<None, "strict">>} \subseteq h.was

Refuted(h) == \E f \in h.deps.facts : Refutes(h, f)

Short(h) == {f \in h.deps.facts : <<f, "unvetted">> \notin h.was} \notin Enough

(* Without reviews, a verdict against the decision has a reason that was   *)
(* there while the handler looked.                                         *)
Reasons(h) ==
    ~ Reviews =>
       /\ h.deps.review = {}
       /\ h.pc \in {"decision", "build", "deps", "token", "policy"} => h.executable
       /\ h.pc \in {"check", "quorum"} /\ ~ h.executable => Refuted(h)
       /\ h.pc = "check" => \A f \in h.deps.facts \ (h.left \cup {h.reading}) :
                               f \in h.verified \/ <<f, "unvetted">> \in h.was
       /\ h.pc = "quorum" => \A f \in h.deps.facts :
                                f \in h.verified \/ <<f, "unvetted">> \in h.was
       /\ h.pc = "save" /\ ~ h.executable => Refuted(h) \/ Short(h)

(* Without reviews, nothing has recorded a fact that awaits one.           *)
Unreviewed == ~ Reviews => review = {} /\ \A d \in Decision : deps[d].review = {}

Sound(h) == Sees(h) /\ Checks(h) /\ Reasons(h)

VerdictInv == Unreviewed /\ \A r \in Request : Sound(req[r])

-----------------------------------------------------------------------------
(* Type correctness                                                        *)

(* Idle is a handler, Absent a decision.                                   *)
LEMMA IdleType == Idle \in Handler /\ Absent \in Saved /\ NoDeps \in Deps
BY DecisionAssumption DEF Idle, Handler, Absent, Saved, NoDeps, Deps, Step, Kind, State,
   Time, Version, Checking

(* What there is to see now.                                               *)
LEMMA NowType ==
    ASSUME valid \subseteq Fact, vetted \subseteq Fact, review \subseteq Fact,
           policy \in {"lax", "strict"}
    PROVE  Now \in SUBSET Sight
BY DEF Now, Sight

LEMMA NowShows ==
    /\ \A f \in Fact : /\ f \in valid => <<f, "valid">> \in Now
                       /\ f \notin valid => <<f, "invalid">> \in Now
                       /\ f \in vetted => <<f, "vetted">> \in Now
                       /\ f \notin vetted => <<f, "unvetted">> \in Now
    /\ \A f \in review : <<f, "awaited">> \in Now
    /\ <<None, policy>> \in Now
BY DEF Now

LEMMA NowSame == UNCHANGED <<valid, vetted, policy, review>> => Now' = Now
BY DEF Now

(* What a handler has seen may be extended.                                *)
LEMMA SeenType ==
    ASSUME NEW h \in Handler, NEW W \in SUBSET Sight
    PROVE  [h EXCEPT !.was = h.was \cup W] \in Handler
<1>1. h.was \cup W \in SUBSET Sight
  BY DEF Handler
<1> QED
  BY <1>1 DEF Handler

(* Handlers that observe an instant are handlers.                          *)
LEMMA ObserveType ==
    ASSUME req \in [Request -> Handler], Observe, Now' \in SUBSET Sight
    PROVE  req' \in [Request -> Handler]
<1>1. ASSUME NEW r \in Request PROVE req'[r] \in Handler
  <2>1. req[r] \in Handler
    OBVIOUS
  <2>2. [req[r] EXCEPT !.was = req[r].was \cup Now'] \in Handler
    BY <2>1, SeenType
  <2> QED
    BY <2>1, <2>2 DEF Observe
<1> QED
  BY <1>1 DEF Observe

(* A handler that moves on is a handler, and the others stay as they are.  *)
LEMMA GotoType ==
    ASSUME req \in [Request -> Handler], NEW r \in Request,
           NEW pc \in Step, NEW h \in Handler, Goto(r, pc, h)
    PROVE  req' \in [Request -> Handler]
<1>1. [h EXCEPT !.pc = pc] \in Handler
  BY DEF Handler
<1> QED
  BY <1>1 DEF Goto

(* So is one that ends.                                                    *)
LEMMA FinishType ==
    ASSUME req \in [Request -> Handler], NEW r \in Request, Finish(r)
    PROVE  req' \in [Request -> Handler]
BY IdleType DEF Finish

(* The session's own steps keep the types.                                 *)
LEMMA SessionType == TypeInv /\ SessionNext => TypeInv'
<1> SUFFICES ASSUME TypeInv, SessionNext PROVE TypeInv'
  OBVIOUS
<1>0. /\ TypeOK /\ Reserved
      /\ valid \in SUBSET Fact /\ vetted \in SUBSET Fact /\ review \in SUBSET Fact
      /\ policy \in {"lax", "strict"} /\ req \in [Request -> Handler]
  BY DEF TypeInv, TypeOK
<1>1. ASSUME NEW f \in Fact, NEW v, NEW k, SetFact(f, v, k)
      PROVE  /\ valid' \in SUBSET Fact /\ vetted' \in SUBSET Fact
             /\ review' = review /\ policy' = policy /\ req' \in [Request -> Handler]
  <2>1. /\ valid' \in SUBSET Fact /\ vetted' \in SUBSET Fact
        /\ review' = review /\ policy' = policy
    BY <1>0, <1>1 DEF SetFact
  <2>2. Now' \in SUBSET Sight
    BY <1>0, <2>1 DEF Now, Sight
  <2>3. req' \in [Request -> Handler]
    BY <1>0, <1>1, <2>2, ObserveType DEF SetFact
  <2> QED
    BY <2>1, <2>3
<1>2. ASSUME NEW f \in Fact, NEW v \in BOOLEAN, NEW k \in BOOLEAN, ChangeFirst(f, v, k)
      PROVE  TypeInv'
  BY <1>0, <1>1, <1>2 DEF ChangeFirst, TypeInv, TypeOK, store, Reserved
<1>3. ASSUME NEW f \in Fact, NEW v \in BOOLEAN, ReviewFact(f, v) PROVE TypeInv'
  <2>1. review' \in SUBSET Fact /\ UNCHANGED <<valid, vetted, policy>>
    BY <1>0, <1>3 DEF ReviewFact
  <2>2. Now' \in SUBSET Sight
    BY <1>0, <2>1 DEF Now, Sight
  <2>3. req' \in [Request -> Handler]
    BY <1>0, <1>3, <2>2, ObserveType DEF ReviewFact
  <2> QED
    BY <1>0, <1>3, <2>1, <2>3 DEF ReviewFact, TypeInv, TypeOK, store, Reserved
<1>4. ASSUME NEW f \in Fact, AppendFirst(f) PROVE TypeInv'
  BY <1>0, <1>4, DecisionAssumption DEF AppendFirst, TypeInv, TypeOK, store, Version, Reserved
<1>5. ASSUME NEW f \in Fact, Expire(f) PROVE TypeInv'
  BY <1>0, <1>1, <1>5 DEF Expire, TypeInv, TypeOK, store, Reserved
<1>6. ASSUME NEW p \in {"lax", "strict"}, ChangePolicy(p) PROVE TypeInv'
  <2>1. policy' \in {"lax", "strict"} /\ UNCHANGED <<valid, vetted, review>>
    BY <1>6 DEF ChangePolicy
  <2>2. Now' \in SUBSET Sight
    BY <1>0, <2>1 DEF Now, Sight
  <2>3. req' \in [Request -> Handler]
    BY <1>0, <1>6, <2>2, ObserveType DEF ChangePolicy
  <2> QED
    BY <1>0, <1>6, <2>1, <2>3 DEF ChangePolicy, TypeInv, TypeOK, store, Reserved
<1>7. CASE AppendAfterwards
  BY <1>0, <1>7, DecisionAssumption
  DEF AppendAfterwards, TypeInv, TypeOK, store, Version, Reserved
<1>8. CASE ChangeAfterwards
  BY <1>0, <1>1, <1>8, DecisionAssumption DEF ChangeAfterwards, TypeInv, TypeOK, store, Reserved
<1>9. CASE Tick
  BY <1>0, <1>9, DecisionAssumption DEF Tick, TypeInv, TypeOK, store, session, Time, Reserved
<1> QED
  BY <1>2, <1>3, <1>4, <1>5, <1>6, <1>7, <1>8, <1>9 DEF SessionNext

(* What the steps of a handler that only read leave alone.                 *)
LEMMA ReadType ==
    ASSUME TypeInv, req' \in [Request -> Handler], UNCHANGED store, Unobserved
    PROVE  TypeInv'
BY DEF TypeInv, TypeOK, Reserved, Unobserved, store, session

(* A check that starts.                                                    *)
LEMMA StartCheckType ==
    ASSUME TypeInv, NEW r \in Request, NEW h \in Handler, StartCheck(r, h)
    PROVE  req' \in [Request -> Handler]
<1>1. /\ req \in [Request -> Handler] /\ Now \in SUBSET Sight /\ now \in Time
      /\ h.deps.facts \in SUBSET Fact
  BY NowType DEF TypeInv, TypeOK, Handler, Deps
<1>2. [h EXCEPT !.left = h.deps.facts, !.at = now, !.was = Now] \in Handler
  BY <1>1 DEF Handler
<1> QED
  BY <1>1, <1>2, GotoType DEF StartCheck, Step, Checking

(* The steps of the handlers keep the types.                               *)
LEMMA HandlerType ==
    ASSUME TypeInv, NEW r \in Request, HandlerNext(r) PROVE TypeInv'
<1> DEFINE h == req[r]
<1>0. /\ req \in [Request -> Handler] /\ h \in Handler
      /\ h.deps \in Deps /\ h.own \in Saved
      /\ now \in Time /\ version \in Version
      /\ saved \in [Decision -> Saved] /\ deps \in [Decision -> Deps]
  BY DEF TypeInv, TypeOK, Handler
<1> HIDE DEF h
<1>1. ASSUME NEW kind \in Kind, NEW d \in Decision, NEW F \in SUBSET Fact,
             NEW t \in tokens \cup {None}, Start(r, kind, d, F, t)
      PROVE  TypeInv'
  <2> DEFINE x == [pc |-> IF kind = "create" THEN "build" ELSE "decision",
                   kind |-> kind, d |-> d, own |-> Absent,
                   deps |-> [facts |-> F, review |-> {}], token |-> t,
                   policy |-> "unread", left |-> {}, reading |-> None, verified |-> {},
                   executable |-> TRUE, at |-> now, updated |-> now, version |-> 0,
                   was |-> {}]
  <2>1. t \in Token \cup {None} /\ 0 \in Version /\ [facts |-> F, review |-> {}] \in Deps
    BY DecisionAssumption DEF TypeInv, TypeOK, Version, Deps
  <2>2. x \in Handler
    BY <1>0, <2>1, IdleType DEF Handler, Step
  <2>3. req' = [req EXCEPT ![r] = x]
    BY <1>1 DEF Start
  <2>4. req' \in [Request -> Handler]
    BY <1>0, <2>2, <2>3
  <2> QED
    BY <1>1, <2>4, ReadType DEF Start
<1>2. CASE GetDecision(r)
  <2> DEFINE pc == IF h.kind = "recompute" THEN "build" ELSE "deps"
             x == [h EXCEPT !.own = saved[h.d]]
  <2>1. Finish(r) \/ Goto(r, pc, x)
    BY <1>2 DEF GetDecision, GivesUp, h
  <2>2. pc \in Step /\ x \in Handler
    <3>1. saved[h.d] \in Saved
      BY <1>0 DEF Handler
    <3> QED
      BY <1>0, <3>1 DEF Handler, Step
  <2>3. req' \in [Request -> Handler]
    BY <1>0, <2>1, <2>2, FinishType, GotoType
  <2> QED
    BY <1>2, <2>3, ReadType DEF GetDecision
<1>3. CASE BuildDecisionDependencies(r)
  <2> DEFINE x == [h EXCEPT !.deps.review = h.deps.facts \cap review]
  <2>1. StartCheck(r, x)
    BY <1>3 DEF BuildDecisionDependencies, h
  <2>2. x \in Handler
    <3>1. [h.deps EXCEPT !.review = h.deps.facts \cap review] \in Deps
      BY <1>0 DEF Deps
    <3> QED
      BY <1>0, <3>1 DEF Handler
  <2>3. req' \in [Request -> Handler]
    BY <2>1, <2>2, StartCheckType
  <2> QED
    BY <1>3, <2>3, ReadType DEF BuildDecisionDependencies
<1>4. CASE GetDecisionDependencies(r)
  <2> DEFINE x == [h EXCEPT !.deps = deps[h.d]]
  <2>1. Finish(r) \/ StartCheck(r, x) \/ Goto(r, "token", x)
    BY <1>4 DEF GetDecisionDependencies, GivesUp, h
  <2>2. x \in Handler
    <3>1. deps[h.d] \in Deps
      BY <1>0 DEF Handler
    <3> QED
      BY <1>0, <3>1 DEF Handler
  <2>3. req' \in [Request -> Handler]
    BY <1>0, <2>1, <2>2, StartCheckType, GotoType, FinishType DEF Step
  <2> QED
    BY <1>4, <2>3, ReadType DEF GetDecisionDependencies
<1>5. CASE VerifyToken(r)
  <2>1. Finish(r) \/ StartCheck(r, h)
    BY <1>5 DEF VerifyToken, h
  <2>2. req' \in [Request -> Handler]
    BY <1>0, <2>1, StartCheckType, FinishType
  <2> QED
    BY <1>5, <2>2, ReadType DEF VerifyToken
<1>6. CASE LoadPolicyControls(r)
  <2> DEFINE x == [h EXCEPT !.policy = policy]
             y == [h EXCEPT !.was = h.was \cup {<<None, "unread">>}]
  <2>1. Goto(r, "check", x) \/ Goto(r, "check", y)
    BY <1>6 DEF LoadPolicyControls, h
  <2>2. x \in Handler
    BY <1>0 DEF Handler, TypeInv, TypeOK
  <2>3. y \in Handler
    <3>1. {<<None, "unread">>} \in SUBSET Sight
      BY DEF Sight
    <3> QED
      BY <1>0, <3>1, SeenType
  <2>4. req' \in [Request -> Handler]
    BY <1>0, <2>1, <2>2, <2>3, GotoType DEF Step, Checking
  <2> QED
    BY <1>6, <2>4, ReadType DEF LoadPolicyControls
<1>7. ASSUME NEW f \in Fact, CheckStatus(r, f) \/ CountSource(r, f) PROVE TypeInv'
  <2> DEFINE x == [h EXCEPT !.left = @ \ {f}, !.reading = f,
                            !.executable = @ /\ f \in valid]
             y == [h EXCEPT !.left = @ \ {f},
                            !.verified = IF f \in vetted THEN @ ELSE @ \ {f}]
  <2>1. Goto(r, "check", x) \/ Goto(r, "quorum", y)
    BY <1>7 DEF CheckStatus, CountSource, h
  <2>2. h.left \ {f} \in SUBSET Fact /\ h.verified \ {f} \in SUBSET Fact
    BY <1>0 DEF Handler
  <2>3. x \in Handler
    <3>1. (h.executable /\ f \in valid) \in BOOLEAN
      OBVIOUS
    <3> QED
      BY <1>0, <2>2, <3>1 DEF Handler
  <2>4. y \in Handler
    BY <1>0, <2>2 DEF Handler
  <2>5. req' \in [Request -> Handler]
    BY <1>0, <2>1, <2>3, <2>4, GotoType DEF Step, Checking
  <2> QED
    BY <1>7, <2>5, ReadType DEF CheckStatus, CountSource
<1>a. CASE CheckRecord(r)
  <2> DEFINE f == h.reading
             x == [h EXCEPT !.reading = None,
                            !.verified = IF f \in vetted THEN @ \cup {f} ELSE @,
                            !.executable = /\ @ /\ Grounded(h, f)
                                           /\ f \notin h.deps.review]
  <2>1. Goto(r, "check", x) /\ f # None
    BY <1>a DEF CheckRecord, h
  <2>2. f \in Fact /\ h.verified \cup {f} \in SUBSET Fact
    BY <1>0, <2>1 DEF Handler
  <2>3. x \in Handler
    <3>1. (h.executable /\ Grounded(h, f) /\ f \notin h.deps.review) \in BOOLEAN
      OBVIOUS
    <3> QED
      BY <1>0, <2>2, <3>1 DEF Handler
  <2>4. req' \in [Request -> Handler]
    BY <1>0, <2>1, <2>3, GotoType DEF Step, Checking
  <2> QED
    BY <1>a, <2>4, ReadType DEF CheckRecord
<1>b. CASE CheckQuorum(r)
  <2> DEFINE x == [h EXCEPT !.left = h.verified]
  <2>1. Goto(r, "quorum", x)
    BY <1>b DEF CheckQuorum, h
  <2>2. x \in Handler
    BY <1>0 DEF Handler
  <2>3. req' \in [Request -> Handler]
    BY <1>0, <2>1, <2>2, GotoType DEF Step, Checking
  <2> QED
    BY <1>b, <2>3, ReadType DEF CheckQuorum
<1>c. CASE Stamp(r)
  <2>1. PICK v \in IF h.kind = "check" THEN VersionsRead ELSE {0} :
          Goto(r, "save", [h EXCEPT !.executable = @ /\ h.verified \in Enough,
                                    !.verified = {}, !.policy = "unread", !.version = v,
                                    !.updated = IF h.kind = "create" THEN @ ELSE now])
    BY <1>c DEF Stamp, h
  <2> DEFINE x == [h EXCEPT !.executable = @ /\ h.verified \in Enough,
                            !.verified = {}, !.policy = "unread", !.version = v,
                            !.updated = IF h.kind = "create" THEN @ ELSE now]
  <2>2. v \in Version
    BY <1>0, <2>1, DecisionAssumption DEF VersionsRead, Version
  <2>3. x \in Handler
    <3>1. (h.executable /\ h.verified \in Enough) \in BOOLEAN
      OBVIOUS
    <3> QED
      BY <1>0, <2>2, <3>1 DEF Handler
  <2>4. req' \in [Request -> Handler]
    BY <1>0, <2>1, <2>3, GotoType DEF Step
  <2> QED
    BY <1>c, <2>4, ReadType DEF Stamp
<1>8. h.d \in Decision /\ h.at \in Time /\ h.updated \in Time /\ h.version \in Version
  BY <1>0 DEF Handler
<1>9. tokens \cup Issued(h) \subseteq Token
  BY <1>8 DEF TypeInv, TypeOK, Issued, Token
<1>10. CASE SaveDecision(r)
  <2>1. Goto(r, "saveDeps", h) \/ Finish(r)
    BY <1>10 DEF SaveDecision, h
  <2>2. req' \in [Request -> Handler]
    BY <1>0, <2>1, GotoType, FinishType DEF Step
  <2>3. saved' \in [Decision -> Saved]
    <3> DEFINE new == [state |-> NewState(h), checked |-> h.at, updated |-> h.updated]
    <3>1. new \in Saved
      BY <1>8 DEF Saved, State, NewState, DecisionStatusFromCheck
    <3>2. saved' = [saved EXCEPT ![h.d] = new]
      BY <1>10 DEF SaveDecision, h
    <3> QED
      BY <1>0, <3>1, <3>2
  <2>4. tokens' \subseteq Token
    BY <1>9, <1>10 DEF SaveDecision, h
  <2>5. executions' \in [Decision -> 0..2]
    <3>1. executions \in [Decision -> 0..2]
      BY DEF TypeInv, TypeOK
    <3> DEFINE n == IF h.kind = "create" \/ ~ h.executable THEN 0
                    ELSE IF h.kind = "execute" /\ executions[h.d] < 2
                         THEN executions[h.d] + 1 ELSE executions[h.d]
    <3>2. n \in 0..2
      BY <1>8, <3>1
    <3>3. executions' = [executions EXCEPT ![h.d] = n]
      BY <1>10 DEF SaveDecision, h
    <3> QED
      BY <3>1, <3>2, <3>3
  <2>6. declared' \in [Decision -> SUBSET Fact]
    <3>1. h.deps.facts \in SUBSET Fact
      BY <1>0 DEF Deps
    <3>2. declared' = declared \/ declared' = [declared EXCEPT ![h.d] = h.deps.facts]
      BY <1>10 DEF SaveDecision, h
    <3> QED
      BY <3>1, <3>2 DEF TypeInv, TypeOK
  <2> QED
    BY <1>10, <2>2, <2>3, <2>4, <2>5, <2>6
    DEF SaveDecision, TypeInv, TypeOK, Reserved, session
<1>11. CASE SaveDecisionFails(r)
  <2>1. req' \in [Request -> Handler]
    BY <1>0, <1>11, FinishType DEF SaveDecisionFails
  <2>2. tokens' \subseteq Token
    BY <1>9, <1>11 DEF SaveDecisionFails, h
  <2> QED
    BY <1>11, <2>1, <2>2 DEF SaveDecisionFails, TypeInv, TypeOK, Reserved, session, store
<1>12. CASE SaveDecisionDependencies(r)
  <2>1. req' \in [Request -> Handler]
    BY <1>0, <1>12, FinishType DEF SaveDecisionDependencies
  <2>2. deps' \in [Decision -> Deps]
    BY <1>0, <1>8, <1>12 DEF SaveDecisionDependencies, h
  <2> QED
    BY <1>12, <2>1, <2>2
    DEF SaveDecisionDependencies, TypeInv, TypeOK, Reserved, session, Unobserved
<1>13. CASE SaveDecisionDependenciesFails(r)
  <2>1. req' \in [Request -> Handler]
    BY <1>0, <1>13, FinishType DEF SaveDecisionDependenciesFails
  <2> QED
    BY <1>13, <2>1, ReadType DEF SaveDecisionDependenciesFails
<1> QED
  BY <1>1, <1>2, <1>3, <1>4, <1>5, <1>6, <1>7, <1>10, <1>11, <1>12, <1>13, <1>a, <1>b, <1>c
  DEF HandlerNext

(* Every variable keeps its type, and a version that a handler is about to *)
(* write is within the bound.                                              *)
LEMMA TypeInvariant == Spec => []TypeInv
<1>1. Init => TypeInv
  BY DecisionAssumption, IdleType
  DEF Init, TypeInv, TypeOK, Reserved, Version, Time
<1>2. TypeInv /\ [Next]_vars => TypeInv'
  <2>1. TypeInv /\ UNCHANGED vars => TypeInv'
    BY DEF vars, TypeInv, TypeOK, Reserved
  <2> QED
    BY <2>1, SessionType, HandlerType DEF Next
<1> QED
  BY <1>1, <1>2, PTL DEF Spec

(* Every variable of the decision store and of the handlers has its type,  *)
(* for any number of requests, decisions and facts.                        *)
THEOREM DecisionTypeCorrect == Spec => []TypeOK
<1>1. TypeInv => TypeOK
  BY DEF TypeInv
<1> QED
  BY <1>1, TypeInvariant, PTL

-----------------------------------------------------------------------------
(* The verdict of a check                                                  *)

(* A step that gives one handler sound local variables and leaves the      *)
(* session and the recorded dependencies alone.                            *)
LEMMA VerdictMoves ==
    ASSUME VerdictInv, req \in [Request -> Handler], NEW r \in Request,
           NEW x, req' = [req EXCEPT ![r] = x],
           UNCHANGED <<valid, vetted, policy, review>>, Unreviewed', Sound(x)
    PROVE  VerdictInv'
<1> SUFFICES ASSUME NEW q \in Request PROVE Sound(req[q])'
  BY DEF VerdictInv
<1>0. Now' = Now
  BY NowSame
<1>1. Sound(req'[q])
  BY DEF VerdictInv
<1> QED
  BY <1>0, <1>1 DEF Sound, Sees, Checks, Reasons, Refuted, Short, Refutes, Accepts, Grounds

(* A handler that has ended has nothing to bear out.                       *)
LEMMA VerdictEnds ==
    ASSUME VerdictInv, req \in [Request -> Handler], NEW r \in Request, Finish(r),
           UNCHANGED <<valid, vetted, policy, review>>, Unreviewed'
    PROVE  VerdictInv'
<1>1. Sound(Idle)
  BY DEF Sound, Sees, Checks, Reasons, Idle, NoDeps, Checking
<1> QED
  BY <1>1, VerdictMoves DEF Finish

(* What a handler knows survives an instant at which other facts are       *)
(* valid, because it observes the instant.                                 *)
LEMMA VerdictObserves ==
    ASSUME VerdictInv, req \in [Request -> Handler], Unreviewed', Observe
    PROVE  VerdictInv'
<1> SUFFICES ASSUME NEW q \in Request PROVE Sound(req[q])'
  BY DEF VerdictInv
<1> DEFINE h == req[q]
           x == req'[q]
<1>0. Sound(h)
  BY DEF VerdictInv
<1>1. /\ x.pc = h.pc /\ x.left = h.left /\ x.deps = h.deps /\ x.reading = h.reading
      /\ x.verified = h.verified /\ x.policy = h.policy
      /\ x.executable = h.executable
      /\ h.was \subseteq x.was
      /\ h.pc \in Checking => Now' \subseteq x.was
      /\ h.pc \notin Checking => x.was = h.was
  BY DEF Observe, Handler
<1> HIDE DEF h, x
<1>2. h.pc \in Checking => Now' \subseteq x.was
  BY <1>1
<1>3. Checks(x)
  <2>1. ASSUME NEW f PROVE Grounds(h, f) => Grounds(x, f)
    BY <1>1 DEF Grounds
  <2>2. ASSUME NEW f PROVE Accepts(h, f) => Accepts(x, f)
    BY <1>1, <2>1 DEF Accepts
  <2>3. CASE h.pc \in Checking
    BY <1>0, <1>1, <2>1, <2>2, <2>3 DEF Sound, Checks, Checking
  <2>4. CASE h.pc \notin Checking
    BY <1>0, <1>1, <2>2, <2>4 DEF Sound, Checks, Checking
  <2> QED
    BY <2>3, <2>4
<1>4. Reasons(x)
  <2>1. Refuted(h) => Refuted(x)
    BY <1>1 DEF Refuted, Refutes
  <2>2. CASE h.pc \in Checking
    BY <1>0, <1>1, <2>1, <2>2 DEF Sound, Reasons, Checking
  <2>3. CASE h.pc \notin Checking
    <3>1. Short(h) => Short(x)
      BY <1>1, <2>3 DEF Short
    <3> QED
      BY <1>0, <1>1, <2>1, <2>3, <3>1 DEF Sound, Reasons, Checking
  <2> QED
    BY <2>2, <2>3
<1>5. Sees(req[q])'
  BY <1>1, <1>2 DEF Sees, x
<1>6. Checks(req[q])'
  BY <1>3 DEF Checks, Accepts, Grounds, x
<1>7. Reasons(req[q])'
  BY <1>4 DEF Reasons, Refuted, Refutes, Short, x
<1> QED
  BY <1>5, <1>6, <1>7 DEF Sound

(* The session's own steps.                                                *)
LEMMA VerdictSession ==
    ASSUME VerdictInv, TypeInv, SessionNext PROVE VerdictInv'
<1>0. req \in [Request -> Handler]
  BY DEF TypeInv, TypeOK
<1>1. Unreviewed'
  BY DEF VerdictInv, Unreviewed, SessionNext, ChangeFirst, ReviewFact, AppendFirst, Expire,
         AppendAfterwards, ChangeAfterwards, ChangePolicy, Tick, SetFact, session, store
<1>2. CASE UNCHANGED <<valid, vetted, policy, review, req>>
  <2>1. Now' = Now
    BY <1>2, NowSame
  <2> QED
    <3>1. ASSUME NEW r \in Request PROVE Sound(req[r])'
      BY <1>2, <2>1 DEF VerdictInv, Sound, Sees, Checks, Reasons, Refuted, Short, Refutes,
                        Accepts, Grounds
    <3> QED
      BY <1>1, <3>1 DEF VerdictInv
<1>3. CASE Observe
  BY <1>0, <1>1, <1>3, VerdictObserves
<1>4. UNCHANGED <<valid, vetted, policy, review, req>> \/ Observe
  BY DEF SessionNext, ChangeFirst, ReviewFact, AppendFirst, Expire, AppendAfterwards,
         ChangeAfterwards, ChangePolicy, Tick, SetFact, session
<1> QED
  BY <1>2, <1>3, <1>4

(* A check that starts has nothing against the decision yet, and sees      *)
(* what there is to see.                                                   *)
LEMMA VerdictStarts ==
    ASSUME VerdictInv, req \in [Request -> Handler], NEW r \in Request, NEW h \in Handler,
           StartCheck(r, h), h.reading = None, h.verified = {}, h.policy = "unread",
           ~ Reviews => h.deps.review = {} /\ h.executable,
           UNCHANGED <<valid, vetted, policy, review>>, Unreviewed'
    PROVE  VerdictInv'
<1> DEFINE x == [[h EXCEPT !.left = h.deps.facts, !.at = now, !.was = Now]
                   EXCEPT !.pc = "policy"]
<1>1. /\ x.pc = "policy" /\ x.left = x.deps.facts /\ x.reading = None /\ x.verified = {}
      /\ x.was = Now /\ x.deps = h.deps /\ x.executable = h.executable
      /\ x.policy = "unread"
  BY DEF Handler
<1>2. req' = [req EXCEPT ![r] = x]
  BY DEF StartCheck, Goto
<1> HIDE DEF x
<1>3. Sound(x)
  BY <1>1 DEF Sound, Sees, Checks, Reasons, Checking
<1> QED
  BY <1>2, <1>3, VerdictMoves

(* The steps of a handler.                                                 *)
LEMMA VerdictHandler ==
    ASSUME VerdictInv, TypeInv, NEW r \in Request, HandlerNext(r) PROVE VerdictInv'
<1> DEFINE h == req[r]
<1>0. req \in [Request -> Handler] /\ h \in Handler /\ Sound(h) /\ Unreviewed
  BY DEF TypeInv, TypeOK, VerdictInv
<1> HIDE DEF h
<1>1. UNCHANGED store /\ Unobserved => UNCHANGED <<valid, vetted, policy, review>> /\ Unreviewed'
  BY <1>0 DEF Unobserved, session, store, Unreviewed
<1>2. ASSUME NEW kind \in Kind, NEW d \in Decision, NEW F \in SUBSET Fact,
             NEW t \in tokens \cup {None}, Start(r, kind, d, F, t)
      PROVE  VerdictInv'
  <2> DEFINE x == [pc |-> IF kind = "create" THEN "build" ELSE "decision",
                   kind |-> kind, d |-> d, own |-> Absent,
                   deps |-> [facts |-> F, review |-> {}], token |-> t,
                   policy |-> "unread", left |-> {}, reading |-> None, verified |-> {},
                   executable |-> TRUE, at |-> now, updated |-> now, version |-> 0,
                   was |-> {}]
  <2>1. Sound(x)
    BY DEF Sound, Sees, Checks, Reasons, Checking
  <2>2. req' = [req EXCEPT ![r] = x]
    BY <1>2 DEF Start
  <2>3. UNCHANGED <<valid, vetted, policy, review>> /\ Unreviewed'
    BY <1>1, <1>2 DEF Start
  <2> HIDE DEF x
  <2> QED
    BY <1>0, <2>1, <2>2, <2>3, VerdictMoves
<1>3. CASE GetDecision(r)
  <2>0. UNCHANGED <<valid, vetted, policy, review>> /\ Unreviewed'
    BY <1>1, <1>3 DEF GetDecision
  <2>1. CASE Finish(r)
    BY <1>0, <2>0, <2>1, VerdictEnds
  <2>2. ASSUME NEW pc \in {"build", "deps"},
               Goto(r, pc, [h EXCEPT !.own = saved[h.d]])
        PROVE  VerdictInv'
    <3> DEFINE x == [[h EXCEPT !.own = saved[h.d]] EXCEPT !.pc = pc]
    <3>1. /\ x.pc = pc /\ x.reading = h.reading /\ x.verified = h.verified /\ x.policy = h.policy
          /\ x.executable = h.executable /\ x.deps = h.deps
      BY <1>0 DEF Handler
    <3>2. h.pc = "decision"
      BY <1>3 DEF GetDecision, At, h
    <3>3. req' = [req EXCEPT ![r] = x]
      BY <2>2 DEF Goto
    <3> HIDE DEF x
    <3>4. Sound(x)
      BY <1>0, <3>1, <3>2 DEF Sound, Sees, Checks, Reasons, Checking
    <3> QED
      BY <1>0, <2>0, <3>3, <3>4, VerdictMoves
  <2> QED
    BY <1>3, <2>1, <2>2 DEF GetDecision, GivesUp, h
<1>4. CASE BuildDecisionDependencies(r)
  <2> DEFINE x == [h EXCEPT !.deps.review = h.deps.facts \cap review]
  <2>0. h.pc = "build" /\ UNCHANGED store /\ Unobserved /\ StartCheck(r, x)
    BY <1>4 DEF BuildDecisionDependencies, At, h
  <2>1. /\ x.reading = h.reading /\ x.verified = h.verified /\ x.policy = h.policy
        /\ x.executable = h.executable /\ x.deps.review = h.deps.facts \cap review
    BY <1>0 DEF Handler, Deps
  <2>2. x \in Handler
    <3>1. [h.deps EXCEPT !.review = h.deps.facts \cap review] \in Deps
      BY <1>0 DEF Handler, Deps
    <3> QED
      BY <1>0, <3>1 DEF Handler
  <2> HIDE DEF x
  <2>3. /\ x.reading = None /\ x.verified = {} /\ x.policy = "unread"
        /\ ~ Reviews => x.deps.review = {} /\ x.executable
    BY <1>0, <2>0, <2>1 DEF Sound, Reasons, Unreviewed, Checks
  <2> QED
    BY <1>0, <1>1, <2>0, <2>2, <2>3, VerdictStarts
<1>5. CASE GetDecisionDependencies(r)
  <2> DEFINE x == [h EXCEPT !.deps = deps[h.d]]
             y == [x EXCEPT !.pc = "token"]
  <2>0. /\ UNCHANGED <<valid, vetted, policy, review>> /\ Unreviewed' /\ h.pc = "deps"
        /\ Finish(r) \/ StartCheck(r, x) \/ Goto(r, "token", x)
    BY <1>1, <1>5 DEF GetDecisionDependencies, GivesUp, At, h
  <2>1. x \in Handler /\ h.d \in Decision
    <3>1. deps[h.d] \in Deps /\ h.d \in Decision
      BY <1>0 DEF Handler, TypeInv, TypeOK
    <3> QED
      BY <1>0, <3>1 DEF Handler
  <2>2. /\ x.reading = h.reading /\ x.verified = h.verified /\ x.policy = h.policy
        /\ x.executable = h.executable /\ x.deps = deps[h.d]
        /\ y.pc = "token" /\ y.reading = h.reading /\ y.verified = h.verified /\ y.policy = h.policy
        /\ y.executable = h.executable /\ y.deps = deps[h.d]
    BY <1>0 DEF Handler
  <2>3. Goto(r, "token", x) => req' = [req EXCEPT ![r] = y]
    BY DEF Goto
  <2> HIDE DEF x, y
  <2>4. CASE Finish(r)
    BY <1>0, <2>0, <2>4, VerdictEnds
  <2>5. CASE StartCheck(r, x)
    <3>1. /\ x.reading = None /\ x.verified = {} /\ x.policy = "unread"
          /\ ~ Reviews => x.deps.review = {} /\ x.executable
      BY <1>0, <2>0, <2>1, <2>2 DEF Sound, Reasons, Unreviewed, Checks
    <3> QED
      BY <1>0, <2>0, <2>1, <2>5, <3>1, VerdictStarts
  <2>6. CASE Goto(r, "token", x)
    <3>1. Sound(y)
      BY <1>0, <2>0, <2>1, <2>2 DEF Sound, Sees, Checks, Reasons, Unreviewed, Checking
    <3> QED
      BY <1>0, <2>0, <2>3, <2>6, <3>1, VerdictMoves
  <2> QED
    BY <2>0, <2>4, <2>5, <2>6
<1>6. CASE VerifyToken(r)
  <2>0. /\ UNCHANGED <<valid, vetted, policy, review>> /\ Unreviewed' /\ h.pc = "token"
        /\ Finish(r) \/ StartCheck(r, h)
    BY <1>1, <1>6 DEF VerifyToken, At, h
  <2>1. CASE Finish(r)
    BY <1>0, <2>0, <2>1, VerdictEnds
  <2>2. CASE StartCheck(r, h)
    <3>1. /\ h.reading = None /\ h.verified = {} /\ h.policy = "unread"
          /\ ~ Reviews => h.deps.review = {} /\ h.executable
      BY <1>0, <2>0 DEF Sound, Reasons, Checks
    <3> QED
      BY <1>0, <2>0, <2>2, <3>1, VerdictStarts
  <2> QED
    BY <2>0, <2>1, <2>2
<1>7. CASE LoadPolicyControls(r)
  <2>0. h.pc = "policy" /\ UNCHANGED store /\ Unobserved
    BY <1>7 DEF LoadPolicyControls, At, h
  <2>1. \E p \in {"lax", "strict", "unread"} :
          /\ <<None, p>> \in Now \cup {<<None, "unread">>}
          /\ \/ p = policy /\ Goto(r, "check", [h EXCEPT !.policy = p])
             \/ /\ p = h.policy
                /\ Goto(r, "check", [h EXCEPT !.was = @ \cup {<<None, "unread">>}])
    <3>1. policy \in {"lax", "strict"}
      BY DEF TypeInv, TypeOK
    <3>2. h.policy = "unread"
      BY <1>0, <2>0 DEF Sound, Checks
    <3> QED
      BY <1>7, <3>1, <3>2, NowShows DEF LoadPolicyControls, h
  <2>2. Now \subseteq h.was
    BY <1>0, <2>0 DEF Sound, Sees, Checking
  <2> DEFINE x == req'[r]
  <2>3. /\ x.pc = "check" /\ x.left = h.left /\ x.deps = h.deps
        /\ x.reading = h.reading /\ x.verified = h.verified /\ x.executable = h.executable
        /\ h.was \subseteq x.was /\ <<None, x.policy>> \in x.was
        /\ req' = [req EXCEPT ![r] = x]
    <3>1. PICK p \in {"lax", "strict", "unread"} :
            /\ <<None, p>> \in Now \cup {<<None, "unread">>}
            /\ \/ p = policy /\ Goto(r, "check", [h EXCEPT !.policy = p])
               \/ /\ p = h.policy
                  /\ Goto(r, "check", [h EXCEPT !.was = @ \cup {<<None, "unread">>}])
      BY <2>1
    <3>2. CASE p = policy /\ Goto(r, "check", [h EXCEPT !.policy = p])
      <4> DEFINE y == [[h EXCEPT !.policy = p] EXCEPT !.pc = "check"]
      <4>1. /\ y.pc = "check" /\ y.left = h.left /\ y.deps = h.deps /\ y.reading = h.reading
            /\ y.verified = h.verified /\ y.executable = h.executable /\ y.was = h.was
            /\ y.policy = p
        BY <1>0 DEF Handler
      <4>2. req' = [req EXCEPT ![r] = y]
        BY <3>2 DEF Goto
      <4> HIDE DEF y
      <4>3. <<None, policy>> \in Now
        BY NowShows
      <4> QED
        BY <1>0, <2>2, <3>2, <4>1, <4>2, <4>3
    <3>3. CASE /\ p = h.policy
               /\ Goto(r, "check", [h EXCEPT !.was = @ \cup {<<None, "unread">>}])
      <4> DEFINE y == [[h EXCEPT !.was = @ \cup {<<None, "unread">>}] EXCEPT !.pc = "check"]
      <4>1. /\ y.pc = "check" /\ y.left = h.left /\ y.deps = h.deps /\ y.reading = h.reading
            /\ y.verified = h.verified /\ y.executable = h.executable
            /\ y.was = h.was \cup {<<None, "unread">>} /\ y.policy = h.policy
        BY <1>0 DEF Handler
      <4>2. req' = [req EXCEPT ![r] = y]
        BY <3>3 DEF Goto
      <4> HIDE DEF y
      <4> QED
        BY <1>0, <2>2, <3>1, <3>3, <4>1, <4>2
    <3> QED
      BY <3>1, <3>2, <3>3
  <2> HIDE DEF x
  <2>4. Sound(x)
    BY <1>0, <2>0, <2>2, <2>3 DEF Sound, Sees, Checks, Reasons, Checking
  <2> QED
    BY <1>0, <1>1, <2>0, <2>3, <2>4, VerdictMoves
<1>8. ASSUME NEW f \in Fact, CheckStatus(r, f) PROVE VerdictInv'
  <2> DEFINE x == [[h EXCEPT !.left = @ \ {f}, !.reading = f,
                             !.executable = @ /\ f \in valid] EXCEPT !.pc = "check"]
  <2>1. /\ x.pc = "check" /\ x.was = h.was /\ x.deps = h.deps /\ x.policy = h.policy
        /\ x.left = h.left \ {f} /\ x.reading = f /\ x.verified = h.verified
        /\ x.executable <=> h.executable /\ f \in valid
    BY <1>0 DEF Handler
  <2>2. h.pc = "check" /\ f \in h.left /\ h.reading = None /\ UNCHANGED store /\ Unobserved
    BY <1>8 DEF CheckStatus, At, h
  <2>3. req' = [req EXCEPT ![r] = x]
    BY <1>8 DEF CheckStatus, Goto, h
  <2>4. Now \subseteq h.was /\ None \notin Fact
    BY <1>0, <2>2, DecisionAssumption DEF Sound, Sees, Checking
  <2>5. (f \in valid => <<f, "valid">> \in h.was) /\ (f \notin valid => <<f, "invalid">> \in h.was)
    BY <2>4, NowShows
  <2>6. h.deps.facts \subseteq Fact
    BY <1>0 DEF Handler, Deps
  <2> HIDE DEF x
  <2>7. Sees(x)
    BY <2>1, <2>4 DEF Sees
  <2>8. Checks(x)
    BY <1>0, <2>1, <2>2, <2>4, <2>5, <2>6 DEF Sound, Checks, Grounds
  <2>9. Reasons(x)
    <3>1. ~ Reviews /\ ~ h.executable => Refuted(h)
      BY <1>0, <2>2 DEF Sound, Reasons
    <3>2. ~ Reviews /\ ~ x.executable => Refuted(x)
      BY <1>0, <2>1, <2>2, <2>5, <3>1 DEF Sound, Checks, Refuted, Refutes
    <3> QED
      BY <1>0, <2>1, <2>2, <2>4, <2>6, <3>2 DEF Sound, Checks, Reasons
  <2> QED
    BY <1>0, <1>1, <2>2, <2>3, <2>7, <2>8, <2>9, VerdictMoves DEF Sound
<1>9. CASE CheckRecord(r)
  <2> DEFINE f == h.reading
             x == [[h EXCEPT !.reading = None,
                             !.verified = IF f \in vetted THEN @ \cup {f} ELSE @,
                             !.executable = /\ @ /\ Grounded(h, f)
                                            /\ f \notin h.deps.review] EXCEPT !.pc = "check"]
  <2>1. /\ x.pc = "check" /\ x.was = h.was /\ x.deps = h.deps /\ x.policy = h.policy
        /\ x.left = h.left /\ x.reading = None
        /\ x.verified = IF f \in vetted THEN h.verified \cup {f} ELSE h.verified
        /\ x.executable <=> h.executable /\ Grounded(h, f) /\ f \notin h.deps.review
    BY <1>0 DEF Handler
  <2>2. h.pc = "check" /\ f # None /\ UNCHANGED store /\ Unobserved
    BY <1>9 DEF CheckRecord, At, h
  <2>3. req' = [req EXCEPT ![r] = x]
    BY <1>9 DEF CheckRecord, Goto, h
  <2>4. /\ Now \subseteq h.was /\ f \in h.deps.facts /\ h.deps.facts \subseteq Fact
        /\ None \notin Fact
    BY <1>0, <2>2, DecisionAssumption DEF Sound, Sees, Checking, Checks, Handler, Deps
  <2>5. /\ f \in vetted => <<f, "vetted">> \in h.was
        /\ f \notin vetted => <<f, "unvetted">> \in h.was
        /\ <<None, h.policy>> \in h.was /\ h.policy \in {"lax", "strict", "unread"}
    BY <1>0, <2>2, <2>4, NowShows DEF Sound, Checks, Handler
  <2>6. Grounded(h, f) => Grounds(h, f)
    BY <2>5 DEF Grounded, Grounds
  <2>7. ~ Grounded(h, f) => Refutes(h, f)
    BY <2>5 DEF Grounded, Refutes
  <2> HIDE DEF x, f
  <2>8. f = h.reading
    BY DEF f
  <2>9. Checks(x)
    <3>1. ASSUME NEW g PROVE Grounds(x, g) <=> Grounds(h, g)
      BY <2>1 DEF Grounds
    <3> QED
      BY <1>0, <2>1, <2>2, <2>4, <2>5, <2>6, <2>8, <3>1 DEF Sound, Checks
  <2>10. Reasons(x)
    <3>1. ~ Reviews /\ ~ h.executable => Refuted(h)
      BY <1>0, <2>2 DEF Sound, Reasons
    <3>2. ~ Reviews => h.deps.review = {}
      BY <1>0 DEF Sound, Reasons
    <3>3. ~ Reviews /\ ~ x.executable => Refuted(h)
      BY <2>1, <2>4, <2>7, <3>1, <3>2 DEF Refuted
    <3>4. Refuted(h) => Refuted(x)
      BY <2>1 DEF Refuted, Refutes
    <3>5. ~ Reviews => \A g \in x.deps.facts \ (x.left \cup {x.reading}) :
                         g \in x.verified \/ <<g, "unvetted">> \in x.was
      BY <1>0, <2>1, <2>2, <2>5, <2>8 DEF Sound, Reasons
    <3> QED
      BY <2>1, <3>2, <3>3, <3>4, <3>5 DEF Reasons
  <2>11. Sees(x)
    BY <2>1, <2>4 DEF Sees
  <2> QED
    BY <1>0, <1>1, <2>2, <2>3, <2>9, <2>10, <2>11, VerdictMoves DEF Sound
<1>10. CASE CheckQuorum(r)
  <2> DEFINE x == [[h EXCEPT !.left = h.verified] EXCEPT !.pc = "quorum"]
  <2>1. /\ x.pc = "quorum" /\ x.was = h.was /\ x.deps = h.deps /\ x.left = h.verified
        /\ x.verified = h.verified /\ x.executable = h.executable
    BY <1>0 DEF Handler
  <2>2. /\ h.pc = "check" /\ h.left = {} /\ h.reading = None /\ UNCHANGED store /\ Unobserved
        /\ None \notin h.deps.facts
    BY <1>0, <1>10, DecisionAssumption DEF CheckQuorum, At, h, Handler, Deps
  <2>3. req' = [req EXCEPT ![r] = x]
    BY <1>10 DEF CheckQuorum, Goto, h
  <2> HIDE DEF x
  <2>4. Checks(x)
    BY <1>0, <2>1, <2>2 DEF Sound, Checks, Accepts, Grounds
  <2>5. Reasons(x) /\ Sees(x)
    BY <1>0, <2>1, <2>2 DEF Sound, Reasons, Sees, Checking, Refuted, Refutes
  <2> QED
    BY <1>0, <1>1, <2>2, <2>3, <2>4, <2>5, VerdictMoves DEF Sound
<1>11. ASSUME NEW f \in Fact, CountSource(r, f) PROVE VerdictInv'
  <2> DEFINE x == [[h EXCEPT !.left = @ \ {f},
                             !.verified = IF f \in vetted THEN @ ELSE @ \ {f}]
                     EXCEPT !.pc = "quorum"]
  <2>1. /\ x.pc = "quorum" /\ x.was = h.was /\ x.deps = h.deps
        /\ x.verified = (IF f \in vetted THEN h.verified ELSE h.verified \ {f})
        /\ x.executable = h.executable
    BY <1>0 DEF Handler
  <2>2. h.pc = "quorum" /\ f \in h.left /\ UNCHANGED store /\ Unobserved
    BY <1>11 DEF CountSource, At, h
  <2>3. req' = [req EXCEPT ![r] = x]
    BY <1>11 DEF CountSource, Goto, h
  <2>4. f \notin vetted => <<f, "unvetted">> \in h.was
    BY <1>0, <2>2, NowShows DEF Sound, Sees, Checking
  <2> HIDE DEF x
  <2>5. Checks(x)
    BY <1>0, <2>1, <2>2 DEF Sound, Checks, Accepts, Grounds
  <2>6. Reasons(x) /\ Sees(x)
    BY <1>0, <2>1, <2>2, <2>4 DEF Sound, Reasons, Sees, Checking, Refuted, Refutes
  <2> QED
    BY <1>0, <1>1, <2>2, <2>3, <2>5, <2>6, VerdictMoves DEF Sound
<1>12. CASE Stamp(r)
  <2>1. PICK v : Goto(r, "save", [h EXCEPT !.executable = @ /\ h.verified \in Enough,
                                    !.verified = {}, !.policy = "unread", !.version = v,
                                    !.updated = IF h.kind = "create" THEN @ ELSE now])
    BY <1>12 DEF Stamp, h
  <2> DEFINE x == [[h EXCEPT !.executable = @ /\ h.verified \in Enough,
                             !.verified = {}, !.policy = "unread", !.version = v,
                             !.updated = IF h.kind = "create" THEN @ ELSE now]
                     EXCEPT !.pc = "save"]
  <2>2. /\ x.pc = "save" /\ x.was = h.was /\ x.deps = h.deps
        /\ x.executable <=> h.executable /\ h.verified \in Enough
    BY <1>0 DEF Handler
  <2>3. h.pc = "quorum" /\ UNCHANGED store /\ Unobserved
    BY <1>12 DEF Stamp, At, h
  <2>4. req' = [req EXCEPT ![r] = x]
    BY <2>1 DEF Goto
  <2> HIDE DEF x
  <2>5. /\ h.deps.facts \in SUBSET Fact /\ h.verified \subseteq h.deps.facts
        /\ \A f \in h.verified : <<f, "vetted">> \in h.was
        /\ h.executable => \A f \in h.deps.facts : Accepts(h, f)
    BY <1>0, <2>3 DEF Sound, Checks, Handler, Deps
  <2>6. Checks(x)
    <3> DEFINE B == {f \in h.deps.facts : <<f, "vetted">> \in h.was}
    <3>1. h.verified \in Enough => B \in Enough
      <4>1. h.verified \subseteq B /\ B \in SUBSET Fact
        BY <2>5
      <4> QED
        BY <4>1, DecisionAssumption
    <3>2. x.executable => \A f \in x.deps.facts : Accepts(x, f)
      BY <2>2, <2>5 DEF Accepts, Grounds
    <3> QED
      BY <2>2, <3>1, <3>2 DEF Checks
  <2>7. Reasons(x)
    <3> DEFINE A == {f \in h.deps.facts : <<f, "unvetted">> \notin h.was}
    <3>1. ~ Reviews /\ A \in Enough => h.verified \in Enough
      <4>1. ~ Reviews => A \subseteq h.verified
        BY <1>0, <2>3 DEF Sound, Reasons
      <4> QED
        BY <2>5, <4>1, DecisionAssumption
    <3>2. ~ Reviews /\ ~ h.executable => Refuted(h)
      BY <1>0, <2>3 DEF Sound, Reasons
    <3>3. Refuted(h) => Refuted(x)
      BY <2>2 DEF Refuted, Refutes
    <3>4. Short(x) <=> A \notin Enough
      BY <2>2 DEF Short
    <3>5. ~ Reviews => x.deps.review = {}
      BY <1>0, <2>2 DEF Sound, Reasons
    <3> HIDE DEF A
    <3> QED
      BY <2>2, <3>1, <3>2, <3>3, <3>4, <3>5 DEF Reasons
  <2>8. Sees(x)
    BY <2>2 DEF Sees, Checking
  <2> QED
    BY <1>0, <1>1, <2>3, <2>4, <2>6, <2>7, <2>8, VerdictMoves DEF Sound
<1>13. CASE SaveDecision(r)
  <2>0. UNCHANGED <<valid, vetted, policy, review>> /\ Unreviewed'
    BY <1>0, <1>13 DEF SaveDecision, session, Unreviewed
  <2>1. CASE Finish(r)
    BY <1>0, <2>0, <2>1, VerdictEnds
  <2>2. CASE Goto(r, "saveDeps", h)
    <3> DEFINE x == [h EXCEPT !.pc = "saveDeps"]
    <3>1. x.pc = "saveDeps" /\ x.deps = h.deps
      BY <1>0 DEF Handler
    <3>2. req' = [req EXCEPT ![r] = x]
      BY <2>2 DEF Goto
    <3> HIDE DEF x
    <3>3. Sound(x)
      BY <1>0, <3>1 DEF Sound, Sees, Checks, Reasons, Checking
    <3> QED
      BY <1>0, <2>0, <3>2, <3>3, VerdictMoves
  <2> QED
    BY <1>13, <2>1, <2>2 DEF SaveDecision, h
<1>14. CASE SaveDecisionFails(r)
  BY <1>0, <1>14, VerdictEnds DEF SaveDecisionFails, session, store, Unreviewed
<1>15. CASE SaveDecisionDependencies(r)
  <2>1. UNCHANGED <<valid, vetted, policy, review>> /\ Finish(r)
    BY <1>15 DEF SaveDecisionDependencies, Unobserved, session
  <2>2. Unreviewed'
    <3>1. deps' = [deps EXCEPT ![h.d] = h.deps]
      BY <1>15 DEF SaveDecisionDependencies, h
    <3>2. deps \in [Decision -> Deps]
      BY DEF TypeInv, TypeOK
    <3> QED
      BY <1>0, <2>1, <3>1, <3>2 DEF Unreviewed, Sound, Reasons
  <2> QED
    BY <1>0, <2>1, <2>2, VerdictEnds
<1>16. CASE SaveDecisionDependenciesFails(r)
  BY <1>0, <1>1, <1>16, VerdictEnds DEF SaveDecisionDependenciesFails
<1> QED
  BY <1>2, <1>3, <1>4, <1>5, <1>6, <1>7, <1>8, <1>9, <1>10, <1>11, <1>12, <1>13, <1>14, <1>15,
     <1>16 DEF HandlerNext

(* What every handler has checked so far bears out its verdict.            *)
LEMMA VerdictInvariant == Spec => []VerdictInv
<1>1. Init => VerdictInv
  BY DEF Init, VerdictInv, Sound, Sees, Checks, Reasons, Unreviewed, Idle, NoDeps, Checking
<1>2. TypeInv /\ VerdictInv /\ [Next]_vars => VerdictInv'
  <2>1. VerdictInv /\ UNCHANGED vars => VerdictInv'
    <3> SUFFICES ASSUME VerdictInv, UNCHANGED vars PROVE VerdictInv'
      OBVIOUS
    <3>1. Now' = Now /\ req' = req /\ deps' = deps /\ review' = review
      BY NowSame DEF vars
    <3>2. ASSUME NEW r \in Request PROVE Sound(req[r])'
      BY <3>1 DEF VerdictInv, Sound, Sees, Checks, Reasons, Refuted, Short, Refutes, Accepts,
                  Grounds
    <3> QED
      BY <3>1, <3>2 DEF VerdictInv, Unreviewed
  <2> QED
    BY <2>1, VerdictSession, VerdictHandler DEF Next
<1> QED
  BY <1>1, <1>2, TypeInvariant, PTL DEF Spec

(* However many requests overlap, fail and race with changes of the        *)
(* session and of the policies, no check finds a decision executable, and  *)
(* execute executes none, unless each premise was valid at some instant of *)
(* the check, and at some instant vetted or under lax or unread policies,  *)
(* and those seen vetted meet the quorum.  The reads have locks of their   *)
(* own: that one instant saw it all is more than the code gives.           *)
THEOREM NoStaleExecution == Spec => []ExecutionJustified
<1>1. VerdictInv => ExecutionJustified
  BY DEF VerdictInv, Sound, Checks, Accepts, Grounds, ExecutionJustified
<1> QED
  BY <1>1, VerdictInvariant, PTL

(* Where no fact awaits a human review, no check blocks a decision whose   *)
(* premises were all in order throughout the check, or would have been for *)
(* the policies that were in force, and meet the quorum.                   *)
THEOREM NoSpuriousBlock == ASSUME ~ Reviews PROVE Spec => []BlockJustified
<1>1. VerdictInv => BlockJustified
  BY DEF VerdictInv, Sound, Reasons, Refuted, Refutes, Short, BlockJustified
<1> QED
  BY <1>1, VerdictInvariant, PTL

-----------------------------------------------------------------------------
(* One request at a time                                                   *)

One == \A r, q \in Request : req[r].pc # "idle" /\ req[q].pc # "idle" => r = q

(* A decision that was executed says so.                                   *)
Counted ==
    \A d \in Decision :
        executions[d] <= 1 /\ (executions[d] = 1 => saved[d].state = "executed")

(* What a handler read is what is in the store.                            *)
Abreast(h) ==
    /\ h.kind # "create" /\ h.pc \in {"build", "deps", "token", "save"} \cup Checking
          => h.own.state = saved[h.d].state
    /\ h.kind = "execute" /\ h.pc \in {"token", "save"} \cup Checking => h.own.state # "executed"
    /\ ~ Failures =>
          /\ h.kind \in {"check", "execute"} /\ h.pc \in {"token", "save"} \cup Checking
                => h.deps.facts = declared[h.d]
          /\ h.pc = "saveDeps" => h.deps.facts = declared[h.d]

(* Unless a write failed, the dependencies in the store are those of the   *)
(* decision, or are about to be.                                           *)
Recorded ==
    ~ Failures =>
        \A d \in Decision :
            \/ deps[d].facts = declared[d]
            \/ \E r \in Request : req[r].pc = "saveDeps" /\ req[r].d = d

OnceInv == One /\ Counted /\ Recorded /\ \A r \in Request : Abreast(req[r])

(* A handler goes on and changes nothing in the store.                     *)
LEMMA OnceMoves ==
    ASSUME OnceInv, req \in [Request -> Handler], NEW r \in Request,
           NEW x, req' = [req EXCEPT ![r] = x],
           UNCHANGED <<saved, deps, executions, declared>>,
           \A q \in Request \ {r} : req[q].pc = "idle",
           req[r].pc # "saveDeps" \/ Failures, Abreast(x)
    PROVE  OnceInv'
<1>1. req'[r] = x /\ \A q \in Request \ {r} : req'[q] = req[q]
  OBVIOUS
<1>2. One' /\ Counted'
  BY <1>1 DEF OnceInv, One, Counted
<1>3. Recorded'
  BY <1>1 DEF OnceInv, Recorded
<1>4. ASSUME NEW q \in Request PROVE Abreast(req[q])'
  <2>1. CASE q = r
    BY <1>1, <2>1 DEF Abreast
  <2>2. CASE q # r
    BY <1>1, <2>2 DEF OnceInv, Abreast
  <2> QED
    BY <2>1, <2>2
<1> QED
  BY <1>2, <1>3, <1>4 DEF OnceInv

LEMMA OnceEnds ==
    ASSUME OnceInv, req \in [Request -> Handler], NEW r \in Request, Finish(r),
           UNCHANGED <<saved, deps, executions, declared>>,
           \A q \in Request \ {r} : req[q].pc = "idle",
           req[r].pc # "saveDeps" \/ Failures
    PROVE  OnceInv'
<1>1. Abreast(Idle)
  BY DEF Abreast, Idle, Checking
<1> QED
  BY <1>1, OnceMoves DEF Finish

(* A check that starts.                                                    *)
LEMMA OnceStarts ==
    ASSUME OnceInv, req \in [Request -> Handler], NEW r \in Request, NEW h \in Handler,
           StartCheck(r, h),
           UNCHANGED <<saved, deps, executions, declared>>,
           \A q \in Request \ {r} : req[q].pc = "idle",
           req[r].pc # "saveDeps" \/ Failures, Abreast([h EXCEPT !.pc = "policy"])
    PROVE  OnceInv'
<1> DEFINE x == [[h EXCEPT !.left = h.deps.facts, !.at = now, !.was = Now]
                   EXCEPT !.pc = "policy"]
           y == [h EXCEPT !.pc = "policy"]
<1>1. /\ x.pc = y.pc /\ x.kind = y.kind /\ x.d = y.d /\ x.own = y.own /\ x.deps = y.deps
  BY DEF Handler
<1>2. req' = [req EXCEPT ![r] = x]
  BY DEF StartCheck, Goto
<1> HIDE DEF x, y
<1>3. Abreast(x)
  BY <1>1 DEF Abreast, y
<1> QED
  BY <1>2, <1>3, OnceMoves

LEMMA OnceSession ==
    ASSUME OnceInv, TypeInv, SessionNext \/ UNCHANGED vars PROVE OnceInv'
<1>0. req \in [Request -> Handler]
  BY DEF TypeInv, TypeOK
<1>1. UNCHANGED <<saved, deps, executions, declared>>
  BY DEF SessionNext, ChangeFirst, ReviewFact, AppendFirst, Expire, AppendAfterwards,
         ChangeAfterwards, ChangePolicy, Tick, session, store, vars
<1>2. req' = req \/ Observe
  BY DEF SessionNext, ChangeFirst, ReviewFact, AppendFirst, Expire, AppendAfterwards,
         ChangeAfterwards, ChangePolicy, Tick, SetFact, vars
<1>3. \A q \in Request : /\ req'[q].pc = req[q].pc /\ req'[q].kind = req[q].kind
                         /\ req'[q].d = req[q].d /\ req'[q].own = req[q].own
                         /\ req'[q].deps = req[q].deps
  BY <1>0, <1>2 DEF Observe, Handler
<1>4. One' /\ Counted' /\ Recorded'
  BY <1>1, <1>3 DEF OnceInv, One, Counted, Recorded
<1>5. ASSUME NEW q \in Request PROVE Abreast(req[q])'
  BY <1>1, <1>3 DEF OnceInv, Abreast
<1> QED
  BY <1>4, <1>5 DEF OnceInv

LEMMA OnceHandler ==
    ASSUME ~ Overlap, OnceInv, TypeInv, NEW r \in Request, HandlerNext(r) PROVE OnceInv'
<1> DEFINE h == req[r]
<1>0. /\ req \in [Request -> Handler] /\ h \in Handler /\ Abreast(h) /\ h.d \in Decision
      /\ saved \in [Decision -> Saved] /\ executions \in [Decision -> 0..2]
      /\ deps \in [Decision -> Deps] /\ declared \in [Decision -> SUBSET Fact]
  BY DEF TypeInv, TypeOK, OnceInv, Handler
<1> HIDE DEF h
<1>1. UNCHANGED store /\ Unobserved => UNCHANGED <<saved, deps, executions, declared>>
  BY DEF Unobserved, store
<1>2. h.pc # "idle" => \A q \in Request \ {r} : req[q].pc = "idle"
  BY DEF OnceInv, One, h
<1>3. ASSUME NEW kind \in Kind, NEW d \in Decision, NEW F \in SUBSET Fact,
             NEW t \in tokens \cup {None}, Start(r, kind, d, F, t)
      PROVE  OnceInv'
  <2> DEFINE x == [pc |-> IF kind = "create" THEN "build" ELSE "decision",
                   kind |-> kind, d |-> d, own |-> Absent,
                   deps |-> [facts |-> F, review |-> {}], token |-> t,
                   policy |-> "unread", left |-> {}, reading |-> None, verified |-> {},
                   executable |-> TRUE, at |-> now, updated |-> now, version |-> 0,
                   was |-> {}]
  <2>0. x.kind = kind /\ x.pc \in {"build", "decision"} /\ (x.pc = "build" => kind = "create")
    OBVIOUS
  <2>1. req' = [req EXCEPT ![r] = x]
    BY <1>3 DEF Start
  <2> HIDE DEF x
  <2>2. Abreast(x)
    BY <2>0 DEF Abreast, Checking, x
  <2>3. \A q \in Request : req[q].pc = "idle"
    BY <1>3 DEF Start
  <2> QED
    BY <1>0, <1>1, <1>3, <2>1, <2>2, <2>3, OnceMoves DEF Start
<1>4. CASE GetDecision(r)
  <2>0. /\ UNCHANGED <<saved, deps, executions, declared>>
        /\ h.pc = "decision" /\ req[r].pc = "decision"
    BY <1>1, <1>4 DEF GetDecision, At, h
  <2>1. CASE Finish(r)
    BY <1>0, <1>2, <2>0, <2>1, OnceEnds
  <2>2. ASSUME NEW pc \in {"build", "deps"},
               Goto(r, pc, [h EXCEPT !.own = saved[h.d]])
        PROVE  OnceInv'
    <3> DEFINE x == [[h EXCEPT !.own = saved[h.d]] EXCEPT !.pc = pc]
    <3>1. x.pc = pc /\ x.own = saved[h.d] /\ x.d = h.d
      BY <1>0 DEF Handler
    <3>2. req' = [req EXCEPT ![r] = x]
      BY <2>2 DEF Goto
    <3> HIDE DEF x
    <3>3. Abreast(x)
      BY <3>1 DEF Abreast, Checking
    <3> QED
      BY <1>0, <1>2, <2>0, <3>2, <3>3, OnceMoves
  <2> QED
    BY <1>4, <2>1, <2>2 DEF GetDecision, GivesUp, h
<1>5. CASE BuildDecisionDependencies(r)
  <2> DEFINE x == [h EXCEPT !.deps.review = h.deps.facts \cap review]
             y == [x EXCEPT !.pc = "policy"]
  <2>1. y.pc = "policy" /\ y.kind = h.kind /\ y.d = h.d /\ y.own = h.own
    BY <1>0 DEF Handler
  <2>2. /\ h.pc = "build" /\ h.kind \in {"create", "recompute"} /\ req[r].pc = "build"
        /\ UNCHANGED store /\ Unobserved /\ StartCheck(r, x)
    BY <1>5 DEF BuildDecisionDependencies, At, h
  <2>3. x \in Handler
    <3>1. [h.deps EXCEPT !.review = h.deps.facts \cap review] \in Deps
      BY <1>0 DEF Handler, Deps
    <3> QED
      BY <1>0, <3>1 DEF Handler
  <2> HIDE DEF x, y
  <2>4. Abreast(y)
    BY <1>0, <2>1, <2>2 DEF Abreast
  <2> QED
    BY <1>0, <1>1, <1>2, <2>2, <2>3, <2>4, OnceStarts DEF y
<1>6. CASE GetDecisionDependencies(r)
  <2> DEFINE x == [h EXCEPT !.deps = deps[h.d]]
             y(pc) == [x EXCEPT !.pc = pc]
  <2>0. /\ UNCHANGED <<saved, deps, executions, declared>>
        /\ h.pc = "deps" /\ req[r].pc = "deps"
    BY <1>1, <1>6 DEF GetDecisionDependencies, At, h
  <2>1. \/ Finish(r)
        \/ /\ h.kind = "execute" => h.own.state # "executed"
           /\ StartCheck(r, x) \/ Goto(r, "token", x)
    BY <1>6 DEF GetDecisionDependencies, GivesUp, At, h
  <2>2. x \in Handler
    <3>1. deps[h.d] \in Deps
      BY <1>0
    <3> QED
      BY <1>0, <3>1 DEF Handler
  <2>3. ~ Failures => deps[h.d].facts = declared[h.d]
    BY <1>0, <1>2, <2>0 DEF OnceInv, Recorded
  <2>4. ASSUME NEW pc \in {"policy", "token"},
               h.kind = "execute" => h.own.state # "executed"
        PROVE  Abreast(y(pc))
    <3>1. /\ y(pc).pc = pc /\ y(pc).deps = deps[h.d] /\ y(pc).kind = h.kind
          /\ y(pc).d = h.d /\ y(pc).own = h.own
      BY <1>0 DEF Handler
    <3> HIDE DEF y
    <3> QED
      BY <1>0, <2>0, <2>3, <2>4, <3>1 DEF Abreast
  <2>5. Goto(r, "token", x) => req' = [req EXCEPT ![r] = y("token")]
    BY DEF Goto
  <2> HIDE DEF x
  <2>6. CASE Finish(r)
    BY <1>0, <1>2, <2>0, <2>6, OnceEnds
  <2>7. ASSUME StartCheck(r, x), h.kind = "execute" => h.own.state # "executed"
        PROVE  OnceInv'
    BY <1>0, <1>2, <2>0, <2>2, <2>4, <2>7, OnceStarts
  <2>8. ASSUME Goto(r, "token", x), h.kind = "execute" => h.own.state # "executed"
        PROVE  OnceInv'
    <3>1. Abreast(y("token"))
      BY <2>4, <2>8
    <3> HIDE DEF y
    <3> QED
      BY <1>0, <1>2, <2>0, <2>5, <2>8, <3>1, OnceMoves
  <2> QED
    BY <2>1, <2>6, <2>7, <2>8
<1>7. CASE VerifyToken(r)
  <2> DEFINE y == [h EXCEPT !.pc = "policy"]
  <2>0. /\ UNCHANGED <<saved, deps, executions, declared>>
        /\ h.pc = "token" /\ req[r].pc = "token"
        /\ Finish(r) \/ StartCheck(r, h)
    BY <1>1, <1>7 DEF VerifyToken, At, h
  <2>1. /\ y.pc = "policy" /\ y.deps = h.deps /\ y.kind = h.kind /\ y.d = h.d
        /\ y.own = h.own
    BY <1>0 DEF Handler
  <2> HIDE DEF y
  <2>2. Abreast(y)
    BY <1>0, <2>0, <2>1 DEF Abreast
  <2>3. CASE Finish(r)
    BY <1>0, <1>2, <2>0, <2>3, OnceEnds
  <2>4. CASE StartCheck(r, h)
    BY <1>0, <1>2, <2>0, <2>2, <2>4, OnceStarts DEF y
  <2> QED
    BY <2>0, <2>3, <2>4
<1>8. ASSUME NEW x \in Handler, x.kind = h.kind, x.d = h.d, x.own = h.own, x.deps = h.deps,
             x.pc \in {"check", "quorum", "save"}, h.pc \in Checking,
             req' = [req EXCEPT ![r] = x], UNCHANGED store, Unobserved
      PROVE  OnceInv'
  <2>1. Abreast(x)
    BY <1>0, <1>8 DEF Abreast, Checking
  <2>2. req[r].pc # "saveDeps" /\ h.pc # "idle"
    BY <1>8 DEF Checking, h
  <2> QED
    BY <1>0, <1>1, <1>2, <1>8, <2>1, <2>2, OnceMoves
<1>9. ASSUME LoadPolicyControls(r) \/ CheckRecord(r) \/ CheckQuorum(r) \/ Stamp(r)
             \/ \E f \in Fact : CheckStatus(r, f) \/ CountSource(r, f)
      PROVE  OnceInv'
  <2>1. h.pc \in Checking /\ UNCHANGED store /\ Unobserved
    BY <1>9 DEF LoadPolicyControls, CheckRecord, CheckQuorum, Stamp, CheckStatus, CountSource,
                At, Checking, h
  <2>2. req' \in [Request -> Handler]
    BY HandlerType DEF TypeInv, TypeOK
  <2>3. CASE LoadPolicyControls(r) /\ Goto(r, "check", [h EXCEPT !.policy = policy])
    <3> DEFINE x == [[h EXCEPT !.policy = policy]
                       EXCEPT !.pc = "check"]
    <3>1. x.kind = h.kind /\ x.d = h.d /\ x.own = h.own /\ x.deps = h.deps /\ x.pc = "check"
      BY <1>0 DEF Handler
    <3>2. req' = [req EXCEPT ![r] = x]
      BY <2>3 DEF LoadPolicyControls, Goto, h
    <3> HIDE DEF x
    <3>3. x \in Handler
      BY <1>0, <2>2, <3>2
    <3> QED
      BY <1>8, <2>1, <3>1, <3>2, <3>3
  <2>4. CASE LoadPolicyControls(r)
           /\ Goto(r, "check", [h EXCEPT !.was = @ \cup {<<None, "unread">>}])
    <3> DEFINE x == [[h EXCEPT !.was = @ \cup {<<None, "unread">>}]
                       EXCEPT !.pc = "check"]
    <3>1. x.kind = h.kind /\ x.d = h.d /\ x.own = h.own /\ x.deps = h.deps /\ x.pc = "check"
      BY <1>0 DEF Handler
    <3>2. req' = [req EXCEPT ![r] = x]
      BY <2>4 DEF LoadPolicyControls, Goto, h
    <3> HIDE DEF x
    <3>3. x \in Handler
      BY <1>0, <2>2, <3>2
    <3> QED
      BY <1>8, <2>1, <3>1, <3>2, <3>3
  <2>5. CASE CheckRecord(r)
    <3> DEFINE x == [[h EXCEPT !.reading = None,
                              !.verified = IF h.reading \in vetted THEN @ \cup {h.reading}
                                           ELSE @,
                              !.executable = /\ @ /\ Grounded(h, h.reading)
                                             /\ h.reading \notin h.deps.review]
                       EXCEPT !.pc = "check"]
    <3>1. x.kind = h.kind /\ x.d = h.d /\ x.own = h.own /\ x.deps = h.deps /\ x.pc = "check"
      BY <1>0 DEF Handler
    <3>2. req' = [req EXCEPT ![r] = x]
      BY <2>5 DEF CheckRecord, Goto, h
    <3> HIDE DEF x
    <3>3. x \in Handler
      BY <1>0, <2>2, <3>2
    <3> QED
      BY <1>8, <2>1, <3>1, <3>2, <3>3
  <2>6. CASE CheckQuorum(r)
    <3> DEFINE x == [[h EXCEPT !.left = h.verified]
                       EXCEPT !.pc = "quorum"]
    <3>1. x.kind = h.kind /\ x.d = h.d /\ x.own = h.own /\ x.deps = h.deps /\ x.pc = "quorum"
      BY <1>0 DEF Handler
    <3>2. req' = [req EXCEPT ![r] = x]
      BY <2>6 DEF CheckQuorum, Goto, h
    <3> HIDE DEF x
    <3>3. x \in Handler
      BY <1>0, <2>2, <3>2
    <3> QED
      BY <1>8, <2>1, <3>1, <3>2, <3>3
  <2>7. ASSUME NEW f \in Fact, CheckStatus(r, f)
        PROVE  OnceInv'
    <3> DEFINE x == [[h EXCEPT !.left = @ \ {f}, !.reading = f,
                              !.executable = @ /\ f \in valid]
                       EXCEPT !.pc = "check"]
    <3>1. x.kind = h.kind /\ x.d = h.d /\ x.own = h.own /\ x.deps = h.deps /\ x.pc = "check"
      BY <1>0 DEF Handler
    <3>2. req' = [req EXCEPT ![r] = x]
      BY <2>7 DEF CheckStatus, Goto, h
    <3> HIDE DEF x
    <3>3. x \in Handler
      BY <1>0, <2>2, <3>2
    <3> QED
      BY <1>8, <2>1, <3>1, <3>2, <3>3
  <2>8. ASSUME NEW f \in Fact, CountSource(r, f)
        PROVE  OnceInv'
    <3> DEFINE x == [[h EXCEPT !.left = @ \ {f},
                              !.verified = IF f \in vetted THEN @ ELSE @ \ {f}]
                       EXCEPT !.pc = "quorum"]
    <3>1. x.kind = h.kind /\ x.d = h.d /\ x.own = h.own /\ x.deps = h.deps /\ x.pc = "quorum"
      BY <1>0 DEF Handler
    <3>2. req' = [req EXCEPT ![r] = x]
      BY <2>8 DEF CountSource, Goto, h
    <3> HIDE DEF x
    <3>3. x \in Handler
      BY <1>0, <2>2, <3>2
    <3> QED
      BY <1>8, <2>1, <3>1, <3>2, <3>3
  <2>9. CASE Stamp(r)
    <3>0. PICK v : Goto(r, "save",
                        [h EXCEPT !.executable = @ /\ h.verified \in Enough,
                                  !.verified = {}, !.policy = "unread", !.version = v,
                                  !.updated = IF h.kind = "create" THEN @ ELSE now])
      BY <2>9 DEF Stamp, h
    <3> DEFINE x == [[h EXCEPT !.executable = @ /\ h.verified \in Enough,
                              !.verified = {}, !.policy = "unread", !.version = v,
                              !.updated = IF h.kind = "create" THEN @ ELSE now]
                       EXCEPT !.pc = "save"]
    <3>1. x.kind = h.kind /\ x.d = h.d /\ x.own = h.own /\ x.deps = h.deps /\ x.pc = "save"
      BY <1>0 DEF Handler
    <3>2. req' = [req EXCEPT ![r] = x]
      BY <3>0 DEF Goto, h
    <3> HIDE DEF x
    <3>3. x \in Handler
      BY <1>0, <2>2, <3>2
    <3> QED
      BY <1>8, <2>1, <3>1, <3>2, <3>3
  <2> QED
    BY <1>9, <2>3, <2>4, <2>5, <2>6, <2>7, <2>8, <2>9 DEF LoadPolicyControls, h
<1>10. CASE SaveDecision(r)
  <2>1. h.pc = "save" /\ deps' = deps /\ \A q \in Request \ {r} : req[q].pc = "idle"
    BY <1>2, <1>10 DEF SaveDecision, At, h
  <2>2. /\ saved'[h.d].state = NewState(h)
        /\ \A d \in Decision \ {h.d} : saved'[d] = saved[d]
    BY <1>0, <1>10 DEF SaveDecision, h
  <2>3. /\ executions'[h.d] = IF h.kind = "create" \/ ~ h.executable THEN 0
                              ELSE IF h.kind = "execute" /\ executions[h.d] < 2
                                   THEN executions[h.d] + 1 ELSE executions[h.d]
        /\ \A d \in Decision \ {h.d} : executions'[d] = executions[d]
    BY <1>0, <1>10 DEF SaveDecision, h
  <2>4. Counted'
    <3>1. executions'[h.d] <= 1 /\ (executions'[h.d] = 1 => NewState(h) = "executed")
      <4>1. CASE h.kind = "create" \/ ~ h.executable
        BY <2>3, <4>1
      <4>2. CASE h.kind = "execute" /\ h.executable
        <5>1. saved[h.d].state # "executed"
          BY <1>0, <2>1, <4>2 DEF Abreast
        <5>2. executions[h.d] = 0
          BY <1>0, <5>1 DEF OnceInv, Counted
        <5> QED
          BY <2>3, <4>2, <5>2 DEF NewState
      <4>3. CASE h.kind \notin {"create", "execute"} /\ h.executable
        <5>1. h.own.state = saved[h.d].state /\ executions'[h.d] = executions[h.d]
          BY <1>0, <2>1, <2>3, <4>3 DEF Abreast
        <5> QED
          BY <1>0, <4>3, <5>1 DEF OnceInv, Counted, NewState, DecisionStatusFromCheck
      <4> QED
        BY <4>1, <4>2, <4>3
    <3> QED
      BY <2>2, <2>3, <3>1 DEF OnceInv, Counted
  <2>5. CASE h.kind \in {"create", "recompute"}
    <3> DEFINE x == [h EXCEPT !.pc = "saveDeps"]
    <3>1. x.pc = "saveDeps" /\ x.deps = h.deps /\ x.d = h.d
      BY <1>0 DEF Handler
    <3>2. req' = [req EXCEPT ![r] = x] /\ declared' = [declared EXCEPT ![h.d] = h.deps.facts]
      BY <1>10, <2>5 DEF SaveDecision, Goto, h
    <3> HIDE DEF x
    <3>3. req'[r] = x /\ \A q \in Request \ {r} : req'[q] = req[q]
      BY <1>0, <3>2
    <3>4. declared'[h.d] = h.deps.facts /\ \A d \in Decision \ {h.d} : declared'[d] = declared[d]
      BY <1>0, <3>2
    <3>5. One'
      BY <2>1, <3>3 DEF One
    <3>6. Recorded'
      <4>1. \A q \in Request : req[q].pc # "saveDeps"
        BY <2>1 DEF h
      <4>2. ~ Failures => \A d \in Decision : deps[d].facts = declared[d]
        BY <4>1 DEF OnceInv, Recorded
      <4>3. req'[r].pc = "saveDeps" /\ req'[r].d = h.d
        BY <3>1, <3>3
      <4> QED
        BY <2>1, <3>4, <4>2, <4>3 DEF Recorded
    <3>7. ASSUME NEW q \in Request PROVE Abreast(req[q])'
      BY <2>1, <3>1, <3>3, <3>4 DEF Abreast, Checking
    <3> QED
      BY <2>4, <3>5, <3>6, <3>7 DEF OnceInv
  <2>6. CASE h.kind \notin {"create", "recompute"}
    <3>1. Finish(r) /\ declared' = declared
      BY <1>10, <2>6 DEF SaveDecision, h
    <3>2. req'[r].pc = "idle" /\ \A q \in Request \ {r} : req'[q] = req[q]
      BY <1>0, <3>1 DEF Finish, Idle
    <3>3. \A q \in Request : req'[q].pc = "idle"
      BY <2>1, <3>2
    <3>4. One' /\ \A q \in Request : Abreast(req[q])'
      BY <3>3 DEF One, Abreast, Checking
    <3>5. Recorded'
      <4>1. \A q \in Request : req[q].pc # "saveDeps"
        BY <2>1 DEF h
      <4>2. ~ Failures => \A d \in Decision : deps[d].facts = declared[d]
        BY <4>1 DEF OnceInv, Recorded
      <4> QED
        BY <2>1, <3>1, <4>2 DEF Recorded
    <3> QED
      BY <2>4, <3>4, <3>5 DEF OnceInv
  <2> QED
    BY <2>5, <2>6
<1>11. CASE SaveDecisionFails(r)
  BY <1>0, <1>2, <1>11, OnceEnds DEF SaveDecisionFails, store, At, h
<1>12. CASE SaveDecisionDependencies(r)
  <2>1. /\ h.pc = "saveDeps" /\ \A q \in Request \ {r} : req[q].pc = "idle"
        /\ UNCHANGED <<saved, executions, declared>> /\ Finish(r)
        /\ deps' = [deps EXCEPT ![h.d] = h.deps]
    BY <1>2, <1>12 DEF SaveDecisionDependencies, Unobserved, At, h
  <2>2. \A q \in Request : req'[q].pc = "idle"
    BY <1>0, <2>1 DEF Finish, Idle
  <2>3. One' /\ Counted' /\ \A q \in Request : Abreast(req[q])'
    BY <2>1, <2>2 DEF One, Abreast, OnceInv, Counted, Checking
  <2>4. ~ Failures => \A d \in Decision : deps'[d].facts = declared[d]
    <3>1. deps'[h.d] = h.deps /\ \A d \in Decision \ {h.d} : deps'[d] = deps[d]
      BY <1>0, <2>1
    <3> QED
      BY <1>0, <2>1, <3>1 DEF OnceInv, Recorded, Abreast, h
  <2> QED
    BY <2>1, <2>3, <2>4 DEF OnceInv, Recorded
<1>13. CASE SaveDecisionDependenciesFails(r)
  BY <1>0, <1>1, <1>2, <1>13, OnceEnds DEF SaveDecisionDependenciesFails, At, h
<1> QED
  BY <1>3, <1>4, <1>5, <1>6, <1>7, <1>9, <1>10, <1>11, <1>12, <1>13 DEF HandlerNext

LEMMA OnceInvariant == ASSUME ~ Overlap PROVE Spec => []OnceInv
<1>1. Init => OnceInv
  BY DEF Init, OnceInv, One, Counted, Recorded, Abreast, Idle, NoDeps, Checking
<1>2. TypeInv /\ OnceInv /\ [Next]_vars => OnceInv'
  BY OnceSession, OnceHandler DEF Next
<1> QED
  BY <1>1, <1>2, TypeInvariant, PTL DEF Spec

(* Requests that do not overlap execute a decision at most once between    *)
(* two blocking verdicts, for any tokens in circulation, writes that fail, *)
(* checks and recomputations that write the decision back, and changes of  *)
(* the session under the running handler.                                  *)
THEOREM ExecutedAtMostOnce == ASSUME ~ Overlap PROVE Spec => []AtMostOnce
<1>1. OnceInv => AtMostOnce
  BY DEF OnceInv, Counted, AtMostOnce
<1> QED
  BY <1>1, OnceInvariant, PTL

(* When no write fails either, a decision is executed on the facts it was  *)
(* last recorded with, also while it is created again or recomputed with   *)
(* others.                                                                 *)
THEOREM ExecutedOnDeclared ==
    ASSUME ~ Overlap, ~ Failures PROVE Spec => []ExecutesOnDeclared
<1>1. OnceInv => ExecutesOnDeclared
  BY DEF OnceInv, Abreast, ExecutesOnDeclared, At
<1> QED
  BY <1>1, OnceInvariant, PTL
=============================================================================
