-------------------------- MODULE DecisionExecution --------------------------
(***************************************************************************)
(* Decisions and the execution boundary (src/api/decision_contracts.go).   *)
(* A decision rests on facts of a session.  execute-check computes whether *)
(* it is executable and issues a token bound to the version of the         *)
(* decision and of the session; execute verifies the token, computes the   *)
(* check again and marks the decision executed.  The handlers of several   *)
(* requests interleave at every access to the store and to the engine:     *)
(* nothing is locked from one access to the next and a decision is written *)
(* back whole.                                                             *)
(*                                                                         *)
(* Of a fact the model keeps what computeDecisionCheck asks the engine     *)
(* for, call by call: whether its status is valid now (GetStatus), whether *)
(* its record is vetted, that is verified, of a source that the policies   *)
(* allow and asserted late enough (GetFact), and whether it awaits a human *)
(* review.  How much the policies ask of a record is read apart, and with  *)
(* it the clock that ages are measured by: while they are strict, only a   *)
(* vetted record will do.                                                  *)
(***************************************************************************)
EXTENDS Integers, FiniteSets

CONSTANTS
    Request, Decision, Fact,
    MaxTime,     \* bound on the clock, in milliseconds
    MaxVersion,  \* bound on the session version
    MaxTokens,   \* bound on the tokens in circulation
    TTL,         \* executionTokenTTL
    Overlap,     \* requests may overlap
    Recovery,    \* a fact may become valid again
    Policies,    \* records and what the policies ask of them may change
    Enough,      \* the sets of facts that meet the quorum of verified sources
    Redefine,    \* decisions are recomputed with other facts, or created again
    Reviews,     \* facts may await a human review
    Failures,    \* calls to the store may fail
    None

Time == 0..MaxTime
Version == 0..MaxVersion
State == {"absent", "pending", "blocked", "executed"}
Kind == {"create", "recompute", "check", "execute"}
Checking == {"policy", "check", "quorum"}
Step == {"idle", "decision", "build", "deps", "token", "save", "saveDeps"} \cup Checking
Saved == [state : State, checked : Time, updated : Time]
Deps == [facts : SUBSET Fact, review : SUBSET Fact]
Token == [d : Decision, updated : Time, version : Version, checked : Time]

ASSUME DecisionAssumption ==
    /\ Decision # {}
    /\ MaxTime \in Nat /\ MaxVersion \in Nat /\ MaxTokens \in Nat /\ TTL \in Nat
    /\ {Overlap, Recovery, Policies, Redefine, Reviews, Failures} \subseteq BOOLEAN
    /\ \A A \in Enough, B \in SUBSET Fact : A \subseteq B => B \in Enough
    /\ None \notin Fact \cup Token \cup {"append"} /\ "append" \notin Fact

VARIABLES
    valid,      \* facts that are valid now
    vetted,     \* facts whose record would satisfy strict policies
    policy,     \* what the policies ask for now: "lax" or "strict"
    review,     \* facts that await a human review
    version,    \* the session version
    mutator,    \* what the handler that changes the session has left to do
    now,
    saved,      \* decisions in the store: ExecutionStatus, LastCheckedAt, UpdatedAt
    deps,       \* their dependencies in the store
    tokens,     \* tokens issued
    req,        \* the handler of every request, with its local variables
    executions, \* how often a decision was executed since it was created or
                \* last found blocked: never, once or more often
    declared    \* the facts the last recorded decision was declared to rest on

store == <<saved, deps>>
session == <<valid, vetted, policy, review, version, mutator>>
vars == <<valid, vetted, policy, review, version, mutator, now, saved, deps, tokens,
          req, executions, declared>>

Absent == [state |-> "absent", checked |-> 0, updated |-> 0]
NoDeps == [facts |-> {}, review |-> {}]
Idle == [pc |-> "idle", kind |-> "check", d |-> CHOOSE d \in Decision : TRUE,
         own |-> Absent, deps |-> NoDeps, token |-> None, policy |-> "unread",
         left |-> {}, reading |-> None, verified |-> {}, executable |-> TRUE,
         at |-> 0, updated |-> 0, version |-> 0, was |-> {}]

(* What can be seen at an instant: how a fact was, what the policies asked *)
(* for, or that they could not be read.                                    *)
Sight == (Fact \X {"valid", "invalid", "vetted", "unvetted", "awaited"})
         \cup ({None} \X {"lax", "strict", "unread"})

(* The local variables of a handler: the decision, the dependencies and    *)
(* the policies as they were read, the facts still to look at, the one     *)
(* between its two reads, those found verified, the verdict so far, the    *)
(* times and the version it stamps.  was is no part of the code: all there *)
(* was to see while computeDecisionCheck was at work.                      *)
Handler ==
    [pc : Step, kind : Kind, d : Decision, own : Saved, deps : Deps,
     token : Token \cup {None}, policy : {"lax", "strict", "unread"},
     left : SUBSET Fact, reading : Fact \cup {None}, verified : SUBSET Fact,
     executable : BOOLEAN, at : Time, updated : Time, version : Version,
     was : SUBSET Sight]

-----------------------------------------------------------------------------
(* The session changes under the handlers                                  *)

Now ==
    {<<f, IF f \in valid THEN "valid" ELSE "invalid">> : f \in Fact}
       \cup {<<f, IF f \in vetted THEN "vetted" ELSE "unvetted">> : f \in Fact}
       \cup {<<f, "awaited">> : f \in review} \cup {<<None, policy>>}

(* Every handler in the middle of a check sees one more instant.           *)
Observe ==
    req' = [r \in Request |->
              IF req[r].pc \in Checking THEN [req[r] EXCEPT !.was = @ \cup Now'] ELSE req[r]]

SetFact(f, v, k) ==
    /\ valid' = IF v THEN valid \cup {f} ELSE valid \ {f}
    /\ vetted' = IF k THEN vetted \cup {f} ELSE vetted \ {f}
    /\ UNCHANGED <<review, policy>>
    /\ Observe

(* handleAssertFact and handleVerifyFact: the engine is changed, and the   *)
(* journal entry bumps the version afterwards.  A handler whose append     *)
(* fails is one that never comes to it.                                    *)
ChangeFirst(f, v, k) ==
    /\ mutator = None
    /\ version < MaxVersion
    /\ v => Recovery
    /\ Policies \/ (k <=> f \in vetted)
    /\ SetFact(f, v, k)
    /\ mutator' = "append"
    /\ UNCHANGED <<version, now, store, tokens, executions, declared>>

AppendAfterwards ==
    /\ mutator = "append"
    /\ version' = version + 1
    /\ mutator' = None
    /\ UNCHANGED <<valid, vetted, policy, review, now, store, tokens, req, executions,
                   declared>>

(* handleInvalidateRoot and handleRetractFact: the other way round.        *)
AppendFirst(f) ==
    /\ mutator = None
    /\ version < MaxVersion
    /\ version' = version + 1
    /\ mutator' = f
    /\ UNCHANGED <<valid, vetted, policy, review, now, store, tokens, req, executions,
                   declared>>

ChangeAfterwards ==
    /\ mutator \in Fact
    /\ SetFact(mutator, FALSE, mutator \in vetted)
    /\ mutator' = None
    /\ UNCHANGED <<version, now, store, tokens, executions, declared>>

(* valid_until passes: the journal hears nothing.                          *)
Expire(f) ==
    /\ f \in valid
    /\ SetFact(f, FALSE, f \in vetted)
    /\ UNCHANGED <<version, mutator, now, store, tokens, executions, declared>>

(* handleCreatePolicy, handlePatchPolicy and handleDeletePolicy; or        *)
(* records have grown too old for policies that set a limit to their age.  *)
ChangePolicy(p) ==
    /\ Policies
    /\ policy' = p
    /\ UNCHANGED <<valid, vetted, review>>
    /\ Observe
    /\ UNCHANGED <<version, mutator, now, store, tokens, executions, declared>>

(* handleReviewFact: SetFactReview, then the journal entry.                *)
ReviewFact(f, pending) ==
    /\ Reviews
    /\ mutator = None
    /\ version < MaxVersion
    /\ review' = IF pending THEN review \cup {f} ELSE review \ {f}
    /\ UNCHANGED <<valid, vetted, policy>>
    /\ Observe
    /\ mutator' = "append"
    /\ UNCHANGED <<version, now, store, tokens, executions, declared>>

Tick ==
    /\ now < MaxTime
    /\ now' = now + 1
    /\ UNCHANGED <<session, store, tokens, req, executions, declared>>

-----------------------------------------------------------------------------
(* The handlers                                                            *)

(* The handler moves on to step pc with the local variables h.             *)
Goto(r, pc, h) == req' = [req EXCEPT ![r] = [h EXCEPT !.pc = pc]]

Finish(r) == req' = [req EXCEPT ![r] = Idle]

At(r, pc, kinds) == req[r].pc = pc /\ req[r].kind \in kinds

Unobserved == UNCHANGED <<session, now, tokens, executions, declared>>

(* A request arrives.  A decision is created under an id of the client's   *)
(* choice; its facts are those the request names or those its fact is      *)
(* derived from.                                                           *)
Start(r, kind, d, F, t) ==
    /\ req[r].pc = "idle"
    /\ Overlap \/ \A q \in Request : req[q].pc = "idle"
    /\ kind = "create" => Redefine \/ saved[d] = Absent
    /\ kind = "recompute" => Redefine \/ F = declared[d]
    /\ kind \in {"check", "execute"} => F = {}
    /\ kind = "check" => Cardinality(tokens) < MaxTokens
    /\ IF kind = "execute" THEN t \in tokens ELSE t = None
    /\ req' = [req EXCEPT ![r] =
                 [pc |-> IF kind = "create" THEN "build" ELSE "decision",
                  kind |-> kind, d |-> d, own |-> Absent,
                  deps |-> [facts |-> F, review |-> {}], token |-> t,
                  policy |-> "unread", left |-> {}, reading |-> None, verified |-> {},
                  executable |-> TRUE, at |-> now, updated |-> now, version |-> 0,
                  was |-> {}]]
    /\ UNCHANGED store /\ Unobserved

(* A call of the store fails, and the handler answers with an error.       *)
GivesUp(r) == Failures /\ Finish(r)

(* GetDecision: an unknown decision is answered with 404.                  *)
GetDecision(r) ==
    LET h == req[r]
    IN  /\ At(r, "decision", {"recompute", "check", "execute"})
        /\ IF saved[h.d] = Absent THEN Finish(r)
           ELSE \/ GivesUp(r)
                \/ Goto(r, IF h.kind = "recompute" THEN "build" ELSE "deps",
                        [h EXCEPT !.own = saved[h.d]])
        /\ UNCHANGED store /\ Unobserved

(* computeDecisionCheck begins with the policies, at CheckedAt.            *)
StartCheck(r, h) ==
    Goto(r, "policy", [h EXCEPT !.left = h.deps.facts, !.at = now, !.was = Now])

(* buildDecisionDependencies records which facts await a review now.       *)
BuildDecisionDependencies(r) ==
    LET h == req[r]
    IN  /\ At(r, "build", {"create", "recompute"})
        /\ StartCheck(r, [h EXCEPT !.deps.review = h.deps.facts \cap review])
        /\ UNCHANGED store /\ Unobserved

(* Mutant: the check starts from the recorded verdict.                     *)
GetDecisionDependenciesStillBlocked(r) ==
    LET h == req[r]
        got == [h EXCEPT !.deps = deps[h.d], !.executable = h.own.state # "blocked"]
    IN  /\ At(r, "deps", {"check", "execute"})
        /\ \/ GivesUp(r)
           \/ h.kind = "check" /\ StartCheck(r, got)
           \/ h.kind = "execute" /\ h.own.state = "executed" /\ Finish(r)
           \/ h.kind = "execute" /\ h.own.state # "executed" /\ Goto(r, "token", got)
        /\ UNCHANGED store /\ Unobserved

(* GetDecisionDependencies, and the guard of an executed decision.         *)
GetDecisionDependencies(r) ==
    LET h == req[r]
        got == [h EXCEPT !.deps = deps[h.d]]
    IN  /\ At(r, "deps", {"check", "execute"})
        /\ \/ GivesUp(r)
           \/ h.kind = "check" /\ StartCheck(r, got)
           \/ h.kind = "execute" /\ h.own.state = "executed" /\ Finish(r)
           \/ h.kind = "execute" /\ h.own.state # "executed" /\ Goto(r, "token", got)
        /\ UNCHANGED store /\ Unobserved

(* GetSessionVersion as the handlers take it: its error is ignored, and    *)
(* the version is 0 then.                                                  *)
VersionsRead == {version} \cup (IF Failures THEN {0} ELSE {})

(* parseExecutionToken and the comparisons after it.                       *)
TokenAccepted(h, v) ==
    /\ now < h.token.checked + TTL
    /\ h.token.d = h.d
    /\ h.token.version = v
    /\ h.token.updated = h.own.updated
    /\ h.token.checked = h.own.checked

VerifyToken(r) ==
    LET h == req[r]
    IN  /\ At(r, "token", {"execute"})
        /\ \E v \in VersionsRead : IF TokenAccepted(h, v) THEN StartCheck(r, h) ELSE Finish(r)
        /\ UNCHANGED store /\ Unobserved

(* loadPolicyControls: policies that cannot be listed ask for nothing.     *)
LoadPolicyControls(r) ==
    LET h == req[r]
    IN  /\ At(r, "policy", Kind)
        /\ \/ Goto(r, "check", [h EXCEPT !.policy = policy])
           \/ /\ Failures
              /\ Goto(r, "check", [h EXCEPT !.was = @ \cup {<<None, "unread">>}])
        /\ UNCHANGED store /\ Unobserved

(* Mutant: the status of a dependency is the one in the store.             *)
CheckStatusOnRecord(r, f) ==
    LET h == req[r]
    IN  /\ At(r, "check", Kind)
        /\ h.reading = None /\ f \in h.left
        /\ Goto(r, "check", [h EXCEPT !.left = @ \ {f}, !.reading = f])
        /\ UNCHANGED store /\ Unobserved

(* computeDecisionCheck, one dependency: GetStatus,                        *)
CheckStatus(r, f) ==
    LET h == req[r]
    IN  /\ At(r, "check", Kind)
        /\ h.reading = None /\ f \in h.left
        /\ Goto(r, "check", [h EXCEPT !.left = @ \ {f}, !.reading = f,
                                      !.executable = @ /\ f \in valid])
        /\ UNCHANGED store /\ Unobserved

(* Is a record accepted under the policies as they were read?              *)
Grounded(h, f) == h.policy = "strict" => f \in vetted

(* then GetFact for its record, the engine unlocked in between.  Its       *)
(* review flag is the one recorded with the dependency.                    *)
CheckRecord(r) ==
    LET h == req[r]
        f == h.reading
    IN  /\ At(r, "check", Kind)
        /\ f # None
        /\ Goto(r, "check", [h EXCEPT !.reading = None,
                                      !.verified = IF f \in vetted THEN @ \cup {f} ELSE @,
                                      !.executable = /\ @ /\ Grounded(h, f)
                                                     /\ f \notin h.deps.review])
        /\ UNCHANGED store /\ Unobserved

(* The quorum: the verified ones are read again, for claim and source.     *)
CheckQuorum(r) ==
    LET h == req[r]
    IN  /\ At(r, "check", Kind)
        /\ h.left = {} /\ h.reading = None
        /\ Goto(r, "quorum", [h EXCEPT !.left = h.verified])
        /\ UNCHANGED store /\ Unobserved

CountSource(r, f) ==
    LET h == req[r]
    IN  /\ At(r, "quorum", Kind)
        /\ f \in h.left
        /\ Goto(r, "quorum", [h EXCEPT !.left = @ \ {f},
                                       !.verified = IF f \in vetted THEN @ ELSE @ \ {f}])
        /\ UNCHANGED store /\ Unobserved

(* The verdict; the session version and UpdatedAt are read after the check.*)
Stamp(r) ==
    LET h == req[r]
    IN  /\ At(r, "quorum", Kind)
        /\ h.left = {}
        /\ \E v \in IF h.kind = "check" THEN VersionsRead ELSE {0} :
              Goto(r, "save", [h EXCEPT !.executable = @ /\ h.verified \in Enough,
                                        !.verified = {}, !.policy = "unread", !.version = v,
                                        !.updated = IF h.kind = "create" THEN @ ELSE now])
        /\ UNCHANGED store /\ Unobserved

(* Mutant: an executable decision is pending, executed before or not.      *)
DecisionStatusFromCheckForgetful(h) == IF h.executable THEN "pending" ELSE "blocked"

DecisionStatusFromCheck(h) ==
    IF h.executable THEN IF h.own.state = "executed" THEN "executed" ELSE "pending"
    ELSE "blocked"

NewState(h) ==
    IF h.kind = "execute" THEN IF h.executable THEN "executed" ELSE "blocked"
    ELSE DecisionStatusFromCheck(h)

(* issueExecutionToken: only an executable check issues one.               *)
Issued(h) ==
    IF h.kind = "check" /\ h.executable
    THEN {[d |-> h.d, updated |-> h.updated, version |-> h.version, checked |-> h.at]}
    ELSE {}

(* SaveDecision: the whole decision is written, as it was read and changed *)
(* since.  An executable check hands out its token.                        *)
SaveDecision(r) ==
    LET h == req[r]
    IN  /\ At(r, "save", Kind)
        /\ saved' = [saved EXCEPT ![h.d] = [state |-> NewState(h), checked |-> h.at,
                                            updated |-> h.updated]]
        /\ tokens' = tokens \cup Issued(h)
        /\ executions' = [executions EXCEPT ![h.d] =
                            IF h.kind = "create" \/ ~ h.executable THEN 0
                            ELSE IF h.kind = "execute" /\ @ < 2 THEN @ + 1 ELSE @]
        /\ declared' = IF h.kind \in {"create", "recompute"}
                       THEN [declared EXCEPT ![h.d] = h.deps.facts] ELSE declared
        /\ IF h.kind \in {"create", "recompute"} THEN Goto(r, "saveDeps", h) ELSE Finish(r)
        /\ UNCHANGED <<session, now, deps>>

(* SaveDecision fails: execute-check ignores it and hands out its token,   *)
(* the other handlers answer with an error.                                *)
SaveDecisionFails(r) ==
    LET h == req[r]
    IN  /\ Failures
        /\ At(r, "save", Kind)
        /\ tokens' = tokens \cup Issued(h)
        /\ Finish(r)
        /\ UNCHANGED <<session, now, store, executions, declared>>

(* Mutant: a recomputed decision keeps its old dependencies.               *)
SaveDecisionDependenciesOnce(r) ==
    LET h == req[r]
    IN  /\ At(r, "saveDeps", {"create", "recompute"})
        /\ deps' = IF h.kind = "create" THEN [deps EXCEPT ![h.d] = h.deps] ELSE deps
        /\ Finish(r)
        /\ UNCHANGED saved /\ Unobserved

SaveDecisionDependencies(r) ==
    LET h == req[r]
    IN  /\ At(r, "saveDeps", {"create", "recompute"})
        /\ deps' = [deps EXCEPT ![h.d] = h.deps]
        /\ Finish(r)
        /\ UNCHANGED saved /\ Unobserved

SaveDecisionDependenciesFails(r) ==
    /\ Failures
    /\ At(r, "saveDeps", {"create", "recompute"})
    /\ Finish(r)
    /\ UNCHANGED store /\ Unobserved

-----------------------------------------------------------------------------

Init ==
    /\ valid = Fact
    /\ vetted = Fact
    /\ policy = "strict"
    /\ review \in IF Reviews THEN SUBSET Fact ELSE {{}}
    /\ version = 0
    /\ mutator = None
    /\ now = 0
    /\ saved = [d \in Decision |-> Absent]
    /\ deps = [d \in Decision |-> NoDeps]
    /\ tokens = {}
    /\ req = [r \in Request |-> Idle]
    /\ executions = [d \in Decision |-> 0]
    /\ declared = [d \in Decision |-> {}]

SessionNext ==
    \/ \E f \in Fact :
          \/ \E v, k \in BOOLEAN : ChangeFirst(f, v, k)
          \/ \E pending \in BOOLEAN : ReviewFact(f, pending)
          \/ AppendFirst(f) \/ Expire(f)
    \/ \E p \in {"lax", "strict"} : ChangePolicy(p)
    \/ AppendAfterwards \/ ChangeAfterwards \/ Tick

HandlerNext(r) ==
    \/ \E kind \in Kind, d \in Decision, F \in SUBSET Fact, t \in tokens \cup {None} :
          Start(r, kind, d, F, t)
    \/ GetDecision(r) \/ BuildDecisionDependencies(r) \/ GetDecisionDependencies(r)
    \/ VerifyToken(r) \/ LoadPolicyControls(r)
    \/ \E f \in Fact : CheckStatus(r, f) \/ CountSource(r, f)
    \/ CheckRecord(r) \/ CheckQuorum(r)
    \/ Stamp(r) \/ SaveDecision(r) \/ SaveDecisionFails(r)
    \/ SaveDecisionDependencies(r) \/ SaveDecisionDependenciesFails(r)

Next == SessionNext \/ \E r \in Request : HandlerNext(r)

Spec == Init /\ [][Next]_vars

-----------------------------------------------------------------------------
(* Properties                                                              *)

TypeOK ==
    /\ valid \in SUBSET Fact
    /\ vetted \in SUBSET Fact
    /\ policy \in {"lax", "strict"}
    /\ review \in SUBSET Fact
    /\ version \in Version
    /\ mutator \in Fact \cup {"append", None}
    /\ now \in Time
    /\ saved \in [Decision -> Saved]
    /\ deps \in [Decision -> Deps]
    /\ tokens \subseteq Token
    /\ req \in [Request -> Handler]
    /\ executions \in [Decision -> 0..2]
    /\ declared \in [Decision -> SUBSET Fact]

(* "blocks stale execution": when a decision is found executable, every    *)
(* premise was valid at some instant of the check, and at some instant its *)
(* record was vetted or the policies were lax, or could not be read; and   *)
(* enough premises for the quorum were vetted, each at some instant.  That *)
(* is all that reads under separate locks give, however they interleave    *)
(* with changes of the session and with other requests: no one instant     *)
(* need have seen all of it.                                               *)
ExecutionJustified ==
    \A r \in Request :
        LET h == req[r]
        IN  h.pc = "save" /\ h.executable
              => /\ \A f \in h.deps.facts :
                       /\ <<f, "valid">> \in h.was
                       /\ {<<f, "vetted">>, <<None, "lax">>, <<None, "unread">>} \cap h.was # {}
                 /\ {f \in h.deps.facts : <<f, "vetted">> \in h.was} \in Enough

(* Nor is a decision blocked unless some premise was invalid, or awaited   *)
(* its review, or was not vetted while the check was at work that also saw *)
(* strict policies, or those vetted throughout are no quorum.              *)
BlockJustified ==
    \A r \in Request :
        LET h == req[r]
        IN  h.pc = "save" /\ ~ h.executable
              => \/ \E f \in h.deps.facts :
                       \/ {<<f, "invalid">>, <<f, "awaited">>} \cap h.was # {}
                       \/ {<<f, "unvetted">>, <<None, "strict">>} \subseteq h.was
                 \/ {f \in h.deps.facts : <<f, "unvetted">> \notin h.was} \notin Enough

(* "decision already executed": from one blocking verdict to the next, a   *)
(* decision is executed once, whatever tokens were issued and whatever     *)
(* checks and recomputations write the decision back meanwhile.            *)
AtMostOnce == \A d \in Decision : executions[d] <= 1

(* Executions stay "tied to the facts that justify them": a decision is    *)
(* executed on the facts it was last recorded with.                        *)
ExecutesOnDeclared ==
    \A r \in Request :
        At(r, "save", {"execute"}) /\ req[r].executable
           => req[r].deps.facts = declared[req[r].d]

=============================================================================
