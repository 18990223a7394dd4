# A TLA+ development for Velarix

Velarix keeps, per session, a graph of facts with justifications, decides which
facts are believed, journals every change, and lets an agent's decisions be
executed only while the facts they rest on hold. Around this core is a control
plane: accounts and keys, sessions and plans, billing, exports, listings, rate
limits and idempotency, on Badger or Postgres, with or without Redis. This
directory models both in TLA+, checks the models with TLC on small instances and
proves the main invariants with TLAPS for every value of the constants.
`PROJECT.json` lists the components, runs, mutants, the map from definitions to
source lines, the findings, the hazards and the theorems.

## 1. Inventory of the system

| Component | State | Operations | What makes it correct |
|---|---|---|---|
| Truth-maintenance engine (`core/engine.go`, `dependencies.go`, `cycles.go`, `verification.go`) | `Facts`, `JustificationSets`, `ChildrenIndex`, `CollapsedRoots`, `RetractedFacts`, statuses | `AssertFact`, `InvalidateRoot`, `SetRootConfidence`, `RetractFact`, `SetFactVerification`, `SweepExpiredFacts`, `propagate` | the graph is acyclic; a derived fact is believed exactly when a justification holds; the result does not depend on map order; retraction is final; propagation ends |
| Queries (`core/engine.go`, `dominators.go`) | the cached dominator tree, `DirtyDominators` | `GetStatus`, `GetImpact` | shortcut and simulation answer what the definitions say |
| Session cache, journal, snapshots (`api/server.go`, `store/`) | `Engines`, `Versions`, journal, latest snapshot, session version | `getEngine`, the fact handlers, `checkSnapshotTrigger`, `PurgeJournalBeforeSnapshot`, `PerformEvictionSweep` | what was acknowledged survives crash, eviction and compaction; a client reads its writes; the journal replays |
| Views of a session (`api/server.go`, `search_contracts.go`, `reasoning_contracts.go`, `governance.go`, `verification.go`) | slice cache, search documents, review and verification metadata | every handler and goroutine that changes a fact, `handleGetSlice`, `syncSessionSearchDocuments` | a rebuilt engine, the slice and the documents say what the engine says |
| Global truth (`core/global_truth.go`, `api/global_facts.go`) | org-wide facts, subscribers, `depIndex`, `sessionDeps` | `Subscribe`, `Unsubscribe`, `AssertGlobal`, `RetractGlobal`, `IndexFactDependencies`, `Partition` | a change reaches every indexed dependent |
| Decisions (`api/decision_contracts.go`) | decisions, their dependencies, execution tokens | create, recompute, execute-check, execute | nothing is executed or blocked without a reason the session gave while it was checked; one execution, on the recorded facts |
| Middleware (`api/server.go`, `enterprise_controls.go`, `store/redis`) | rate-limit lists, idempotency records, write slots, usage counters | `checkRateLimit`, `idempotencyMiddleware`, `writeLimitMiddleware`, `orgMetricsMiddleware` | the limit holds but for requests that could not be counted, and a list that was read refuses nobody early; one effect per key while its record is kept and found; no slot leaks; every request counted once |
| Accounts (`api/auth.go`, `console_contracts.go`) | user record, key index, token versions, invitation | register, accept, change and reset of the password, keys, onboarding, key authentication | a write of the record loses no other; a reset ends sessions; a handed key works; one account per address, unless the first could not be read |
| Session catalogue (`api/console_contracts.go`) | `OrgSessionMeta` | create under the plan, touch, patch, archive | the plan limit is exceeded only by overlap and by a listing that fails; labels are kept unless the listing does not show them; archived stays archived |
| Listings and retention (`store/badger.go`, `store/postgres/`) | logs, notifications, sessions, documents | six paged listings on two stores, `EnforceRetention` | by key, a walk misses nothing and repeats nothing; by offset it misses no more than left before the offset |
| Console records | organisation, settings, integrations, policies, tickets, notifications | create, patch, delete | a patch changes what it was given; deleted stays deleted |
| Billing (`control-plane/billing/main.go`, `api/billing_checkout.go`) | billing record, processed events | webhook, patch, checkout | acknowledged means applied; duplicates undo nothing; a failed read costs no more than what a fresh record lacks; every event takes effect |
| Export jobs (`api/export_jobs.go`) | job records and data | create, goroutine, direct export | the states a client may rely on; the chain head covers the rows |
| Explanations, extraction, CLI, SDKs, web, demo | none of their own | reads, formatting, language-model calls | – |

Interactions. A handler passes the middleware, calls `getEngine`, which under
`s.mu` returns the cached engine if its version is the store's, or rebuilds one
from the latest snapshot and the journal after it, subscribes it to the global
truth and caches it. The handler then changes engine, journal, slice cache and
search documents, in an order that differs from handler to handler, with no lock
across them; every `Append` and every snapshot bumps the session version.
Mutations may start a goroutine that writes a snapshot or calls the verification
webhook. Tickers sweep expired facts, evict idle engines and enforce retention.
Decision handlers read the decision, its dependencies and the engine one after
the other and write the decision back whole; the handlers of the control plane
treat user, billing, organisation and session records the same way. A global
fact is pushed into the engines of the subscribed sessions under `gt.mu`.

Hard behaviours: map iteration order inside propagation, replay and partition;
the clock read in the middle of a propagation; state changed in two steps with
crashes, failures and other requests in between; goroutines that outlive their
request; facts, records and policies that change between the reads of a check; reads and
writes whose error nobody looks at; tokens and caches that
outlive what they were made from; whole records written back; events that are
delivered twice or out of order; cursors into a list that moves. Each is an entry
of "hazards" in `PROJECT.json`.

## 2. Modules and their correspondence to the code

| Module | Models | Proofs |
|---|---|---|
| `Engine` | the engine, one action per operation and per work-queue item | `EngineProofs` |
| `EngineQueries` | `GetStatus` and `GetImpact`, extends `Engine` | `EngineProofs` |
| `SessionStore` | one session between handlers and store | `SessionProofs` |
| `GlobalTruth` | the shared facts and the engines subscribed | `GlobalProofs` |
| `DecisionExecution` | the decision handlers, access by access | `DecisionProofs` |
| `Platform` | the store and the clock the control plane shares | |
| `Listings` | paged listings and retention | `ConsoleProofs` |
| `Catalogue` | sessions of an organisation under its plan | `ConsoleProofs` |
| `ExportJobs`, `JobLifecycle` | exports, and what a client of a job may rely on | `ServiceProofs` |
| `Billing` | the billing record and Stripe's events | `ConsoleProofs` |
| `Records` | the documents of the console | `ConsoleProofs` |
| `Accounts` | one user account with its tokens, keys and invitation | `ConsoleProofs` |
| `Gateway` | rate limit, idempotency, write slots | `ServiceProofs` |
| `SessionViews` | journal, slice and search documents following the engine | `ViewProofs` |
| `Usage` | usage counters | `ServiceProofs` |
| `RecursionLemmas` | nothing of the code: recursion without an induction rule, for the proofs | its own |

`MC*` modules instantiate them for TLC. `MCControlPlane` composes the modules
that extend `Platform`. Their states are disjoint, so a behaviour that mixes two
of them is for each one of its own behaviours with idle steps; the variable
`part`, chosen at the start, says which one a behaviour is about, and TLC sees
the sum of the state spaces and not their product.

**Engine.** `body` is `Facts` (what an assertion fixes: root or derived, the
OR-of-AND sets of possibly negated parents, scope, source, demands on premises,
`ValidUntil`), `manual`/`derived` the two statuses, `jset` the justification sets
with their count of valid parents and confidence, `queue` the work queue of
`propagate` and `sweep` what `SweepExpiredFacts` has still to propagate. Every
operation holds `e.mu` throughout, so an operation starts only when both are
empty; `Propagate` takes one item, recomputes the children in any order, and
`Expire`/`Age` – the clock – may happen between two items because the code calls
`time.Now` inside the loop. A status is a number 0..`Valid` (confidence in
tenths in the runs). Left out: payloads, `MutationCount`, listeners and the text
of a retraction reason, none of which feeds back into a status.

**EngineQueries.** `idom`/`dirty` are the cached tree and `DirtyDominators`.
`DominatorTrees` is the set of trees `recomputeDominators` can produce over all
map orders; the pre/post-order intervals are abstracted to the ancestor relation
they encode. `GetImpact` runs set by set in any order over a private copy.

**SessionStore.** An engine's content is the set of facts it holds and which are
invalidated, retracted and verified; `heap` holds one content per engine object
so that a handler can keep an engine that is no longer cached. A request walks
through `GetEngine`, `LoadEngine`, `CacheEngine` and the two halves of its
handler: `ChangeEngineFirst`/`JournalAfterwards` for assert and verify,
`JournalFirst`/`ChangeEngineAfterwards` for invalidate and retract, three steps
for revalidate. When `checkSnapshotTrigger` fires (50 mutations, five minutes, or
a rebuilt engine's first mutation) is left open. Environment constants say what
a run assumes: `Overlap` (requests and snapshot goroutines overlap), `Patient`
(a client waits for the acknowledgement of a fact before it refers to it),
`Complete` (revalidation is asked for only while the journal is complete),
`Snapshots`, `Purging`, `Failures`.

**GlobalTruth.** Every operation holds `gt.mu`, so it is one action; the
exception is a local fact, which is asserted into the engine and indexed
afterwards in a second step. A session boots from its last snapshot or from its
journal, which replays before `Subscribe` and therefore rejects local facts that
rest on global ones. `Partition` is the code's union-find, folded over the edges
in any order.

**DecisionExecution.** Of a fact the session keeps `valid` (what `GetStatus`
answers), `vetted` (its record, from `GetFact`, would satisfy strict policies) and
`review` (it awaits a human); `policy` is how much the policies ask for now, the age
limits included. A handler is a record of local variables with a program counter
that stops at every call of the store or the engine: `computeDecisionCheck` is
`LoadPolicyControls`, then for each dependency `CheckStatus` and `CheckRecord`, then
`CheckQuorum` and `CountSource`, and anything may change between two of them.
`Enough` are the sets of facts that meet the quorum. `was` is history: all there was
to see while the check was at work. The session changes under the handlers
engine-first or journal-first, as the fact handlers do, by expiry, which the journal
does not hear of, and by changes of the policies. `GivesUp`, `VersionsRead`
and the failing `LoadPolicyControls` are failing reads: answered with an error, taken
for version 0, taken for no policies. Constants: `Overlap`, `Recovery` (a fact may
become valid again), `Policies`, `Redefine` (decisions are recomputed with other
facts or created again), `Reviews`, `Failures`. Left out: read models, check history
and the wording of reasons; one engine serves the session;
`buildDecisionDependencies` reads its flags at once.

**Listings.** A record has a time, a type and a state. `KeyPage` is Badger's
reverse iteration with the key after the page as cursor, `OffsetPage` Postgres'
`LIMIT`/`OFFSET`; `ListOrgSessions` and `ListNotifications` have cursors of their
own. `walk` is a client's walk with what it has listed; `disturbed` collects the
records that a writer moved or removed under it, and only these; `left` counts
those that left the listing from before its offset. The retention sweep reads all
settings first and deletes later.

**Catalogue.** Check and creation are two steps of a request, as are the two
halves of a patch. `WithinPlan` counts one page of the listing, with its cap, as
the code does. `FailOne` is a failing call: a listing that fails grants the creation
(`blind` counts them) and leaves a patch without the other label, a subscription that
fails counts as the free plan, labels that cannot be saved are lost (`unseen`).

**ExportJobs.** `worker` is the goroutine of a job, or the request of a direct
export, between its reads, each of which may come back empty; `Ignored` is a write
whose error nobody looks at; on Postgres `SaveExportJobResult` always fails;
`Crash` ends every goroutine. `JobLifecycle` is the abstract specification; the
refinement mapping is the job record and its data.

**Billing.** `WebhookCheck`, `HandleSubscriptionEvent`, `SaveSubscription`,
`MarkStripeEventProcessed` are the store calls of the webhook; `Fail` is a
failing save or a crash at any of them. `GetBilling` may fail on a record that is
there, and webhook and patch then go on from a fresh one (`misread`). `expected` is
history: the record if every writer had changed it in place.

**Records** and **Accounts** have the same shape: a request reads the record, and
a later step writes all of it back with its change; `meant` and `accountMeant`
are the record if each change had been made in place, `raced` and `overlap` say
whether two writers met. In `Accounts` the key index is kept by `SaveUser` on
Badger and by the handlers on Postgres, tokens carry the version of the record
they were issued from, and every request with an API key is a writer
(`last_used_at`). Registration and acceptance take an account they cannot read
for none (`TakenForMissing`, counted by `misreads`) and save a new record over it.

**Gateway.** Requests are tries of one operation under one key. Lists of stamps
and the record are kept in the primary store or in Redis, which forgets them
after `RateTTL` and `RecordTTL`. `admitted` counts what the limit let pass,
`uncounted` those of them whose list could not be saved, `refusal` is the promise of
the last `Retry-After`, `lapses` counts the records not saved or not found.
`FailClosed` is the refusal of a request whose list cannot be read; a subscription
that cannot be read leaves a request the limit without a plan.

**SessionViews.** A writer is a sequence of steps – engine, append, purge, sync –
in the order of its handler (`HandleAssertFact`, ..., `PerformExpirySweep`);
`AfterFailedAppend` says which of them give up. `FlagFactsForReviewOnIssues` is the
review flag that a consistency check, a chain audit or an extraction sets on each fact
of an issue: engine and journal, nothing else. `HandleRevalidate` empties the engine
and, in a later step, replays the journal into whatever others have asserted
meanwhile (`ReplayedOnto`), or leaves it empty when the journal cannot be read; its
new subscription to the global truth is left to `GlobalTruth`. A sync takes three
steps, `ListDocuments`, `ResolveStatus` and `UpsertDocuments` (or `UpsertFails`), and
`lists` holds what it has listed: two syncs may write in the other order. A document
stands for the search document of a fact, which carries its status, and on
Postgres the semantic one, which carries review and verification too. `replayed` is
what the journal would rebuild. A behaviour follows the slice or the documents beside
the journal (`watched`); neither view feeds back into anything.

**Usage.** The three increments after a request, on Badger as transactions that
may conflict, on Postgres as upserts that may fail; `missed` is history.

## 3. Runs

| Run | Checks | Instance and why it is enough |
|---|---|---|
| `EngineGraph` | `Acyclic`, `PropagationInv`, `ValidIffSupported`, `Confluent`, `NoResurrection` | four ids, eight facts: alternatives, conjunction, negation, both scopes, demands on verification, source and age, an expiring root, a self-parent; confidences 0, 4, 5, 6, 10 around the threshold 6. A diamond with a negated edge is the smallest graph on which propagation order matters |
| `Queries` | `ChainsResolve`, `MonotoneImpactExact`, `PropagationEnds`, `ExpiryTakesEffect` | two roots, one of which expires, conjunction, alternatives, a chain, a negation, a fact that rests on its own negation (rejected; accepted it would make propagation endless) |
| `QueriesStatus` (violation) | `GetStatusResolves` | three roots and a fact justified by {a} or {b, c} |
| `StoreSequential` | `Durable`, `ReadYourWrites` | one request at a time, a fact and one that rests on it, three journal entries, three milliseconds, failing appends, snapshots, purges, evictions, crashes; `Complete` |
| `StoreConcurrent` | `JournalReplays`, `Durable`, `CacheCurrent` | two overlapping requests, evictions and crashes, no snapshots, patient clients |
| `StorePurge` (violation) | `ReadYourWrites` | as `StoreSequential`, revalidation at any time |
| `GlobalIndex` | `PartitionCorrect`, `DependentsReached` | two sessions, a fact joining two, a local fact on it |
| `DecisionConcurrent` | `ExecutionJustified`, `BlockJustified` | one request after the other of any kind against everything that can change under it: two facts whose validity and records come and go, two changes of the version, policies that change, a quorum of one, failing calls. A verdict rests on the reads of one request, so one is enough to split them; that overlapping requests add nothing is what the theorems say |
| `DecisionSequential` | `ExecutesOnDeclared`, `AtMostOnce` | one request at a time, two facts, reviews, redefinition, two tokens, two milliseconds with a token life that spans both |
| `DecisionReview` (violation) | `BlockJustified` | one request at a time, one fact awaiting its review |
| `ControlPlane` | 16 invariants and the step property `NoEarlyRefusal` of eight parts | below; 2,400,000 states |
| `ControlPlaneLive` | `JobsImplemented`, `JobsEnd`, `EventsApplied` | two exports, a journal of two entries, crashes and failing writes at any point; two events, one handler, one fault, both stores |

In `ControlPlane` every part has two requests in flight and both stores wherever
they differ:

| Part | Instance | Shows |
|---|---|---|
| listings | three records, pages of one and two, a clock of three, retention of one or two days: walks of three pages, and walks whose last page is full | `ListedOnce`: paged by key, no record appears twice; `WalkComplete`: paged by key, no walk misses a record that was there and left alone; by offset, it misses no more of these than records left the listing before its offset |
| catalogue | three sessions, a free plan of one session, a page of two, one failing call; two labels are alike and one is patched | `OvershootBounded`: overlapping creations exceed the plan by one less than their number, and by one for each that got no listing; `PatchKeepsLabels`: a label is as last asked for, or empty because a request could not see it |
| billing | two events with different plans, one fault | `OrderlyBilling`: redelivered and half-done events undo nothing, a failed read only what a fresh record does not say |
| records | one document of each kind | `PatchesKeepRest` |
| accounts | two keys, two resets, four writes of the record, one failing read | `AccountAsMeant`, `ResetEndsSessions`, `HandedKeysWork` |
| gateway | three tries, limits 1 and 2, windows of one and two, one write slot; Redis forgets after one unit, below the longer window | `WithinRate` (but for those not counted), `NoEarlyRefusal` (whatever overlaps, for lists that were read), `RetryAfterHonest`, `RunsOnce` (but for records not saved or not found); any list, subscription or record may fail to be read or saved |
| views | one fact, two changes under way at once by any writer, failing appends, upserts and reads of the journal | `RebuildAgrees`, `SliceCurrent`, `SearchCurrent`: which of the modelled writers, and which races, leave which view behind |
| usage | three requests, three minutes, two of them an hour | `CountsAccounted`: total, series and breakdown account for every request |

Symmetry permutes requests, facts or sessions that an instance does not tell
apart (`Twins`, `Symmetry`); it is used with invariants and step properties only,
never with liveness.

Bounds. `MaxTime`, `MaxJournal`, `MaxVersion`, `MaxTokens`, `MaxFaults`, `MaxSaves`,
`MaxTries`, `MaxChanges`, `MaxServed`, `MaxResets` stop counters the code does not
stop. Two moments are needed to separate "same instant" from "later", three to
let something run out in between; three journal entries hold a fact, its
dependent and a change of either; `executions` saturates at two. `MaxFacts`, page
sizes, plan limits, `RateTTL`, `RecordTTL`, `SliceTTL` and `MaxWrites` are limits of
the code, scaled down with their order kept.

Deadlock is not checked in the decision and control-plane runs, whose bounded
counters leave a finished behaviour with nothing to do.

Fairness. `FairQuerySpec`: weak fairness of the writer and of the reader that
holds `e.mu` – the goroutine runs to the end of its operation; strong fairness of
the sweep – the ticker calls it forever and a Go mutex does not starve a waiter,
although others may hold the lock whenever it looks. `ExportJobsFairness`: the Go
scheduler runs every goroutine. `BillingFairness`: handlers run, and Stripe
delivers an event again until it is acknowledged, so that it is delivered
infinitely often if a handler is free infinitely often (strong fairness of
`Redeliver`). No fairness is assumed of clients, faults or the clock.

Every property of a passing run has a mutant in `PROJECT.json`: a plausible bug
(a version read too late, an event marked before its effect, a cursor that
repeats the last key, a record merged on save, a slice not purged) under which TLC finds the property violated.

## 4. Proofs

Assumptions: `FactIdAssumption` (finitely many ids), `StatusAssumption` (the
levels of confidence contain 0 and full confidence and are closed under
complement), `FactAssumption` (what clients assert is well formed),
`MaxFactsAssumption`, `StoreAssumption` (finitely many requests in flight, and the
types of the constants), `NoneAssumption`, `DecisionAssumption`,
`GlobalAssumption`, `MaxJournalAssumption`, `BillingAssumption`,
`AccountsAssumption`, `CatalogueAssumption` (finitely many requests; the limit of the
free plan is below the cap of a page, as 50 is below 200), `GatewayAssumption` (the default limit and the windows
are positive, as `effectiveRateLimitConfig` makes them), `UsageAssumption` and
`IdAssumption` (finitely many requests in flight and listed records, which are
numbered), `PageAssumption` (the default page is not empty and at most a whole one),
`ViewsAssumption`, `MaxTimeAssumption`, `MaxFaultsAssumption` (types of the constants). Nothing bounds the number of facts, requests, decisions,
sessions, exports, events or keys.

What a recursive function computes is proved without an induction rule, in
`RecursionLemmas`. A set of naturals has a least element (`LeastNatural`, from the
well-foundedness of the order); the least counterexample is neither 0 nor the
successor of a number for which the claim holds (`Climb`). From this: a recursion
over the steps of a sequence, or without end, has exactly one result (`Chains`,
`Iterates`), and a set that grows inside a finite one is closed after as many rounds
as that one has elements, and is then the least closed set (`Grows`). So `Replay` over
the journal, the sums of the rate limit and of the usage series, the order of the
session listing, the parents in `Partition`, its components, and the paths in a
dominator tree are dealt with for every length.

`EngineProofs`
- `TypeCorrect`: types, and that `jset` is indexed exactly by the sets of the
  registered derived facts.
- `GraphAcyclic`: every non-empty set of registered facts has a member none of
  whose parents is in the set. Inductive with types: an accepted assertion names
  registered parents and a new id, on which no registered fact rests.
- `AssertNeverCycles`: for a new id with registered parents `detectCycle` finds
  nothing, so the code's check is redundant after the checks before it.
- `CollapsedRootsExact`.
- `PropagationInvariant`: `Settled` says nothing while the lock is held, so it is
  not inductive. `PropagationInv` is: a fact that is not queued has its status; a
  root's two statuses differ only while it is the one queued fact; every
  justification set was computed from its parents' statuses, except that a parent
  retracted or past its `ValidUntil` may have counted as invalid, and from some
  earlier ages.
- `StatusesSettled`: with an empty queue the invariant is the fixpoint.
- `RetractionIsFinal`: an action property from the same invariant.
- `StatusesConfluent`: on an acyclic graph the fixpoint is the only labelling
  (a minimal fact on which two labellings differ has parents on which they agree).
- `BeliefIffSupport`.
- `ChainStatusesResolve`: while the dominator tree is fresh, a root has nothing above it
  and a fact with one positive dependency has that one (`TreeInv`, of every
  tree `recomputeDominators` can produce). On a chain the dominators of a fact
  are then its ancestors, and the status falls with any of them.
- `ImpactsExact`: a simulation in progress agrees neither with the statuses before the
  root falls nor with those after. `SimInv` says of each justification set that it
  counts exactly when its parents, as far as they are simulated, satisfy it – unless
  one of them has fallen and is still on the queue (`Pending`) – and of each fact that
  it has the status of its sets and is reported exactly if it fell. When nothing
  is left on the queue no set is pending. `WouldFall` speaks of the labelling of the graph
  in which the root is invalid: on an acyclic graph there is one (`LabellingExists`: the
  largest labelled part can be extended), and the simulated statuses have the same facts
  below the threshold (`LabellingSimulated`, by a minimal fact on which they differ).

`DecisionProofs`
- `DecisionTypeCorrect`: `TypeOK` with `Reserved` (a handler that has changed the
  engine and not yet the journal has a version left to write).
- `NoStaleExecution`, `NoSpuriousBlock`, from `VerdictInv`, whatever overlaps, fails or
  races with the session and the policies. A handler in the middle of a check has seen
  all there is to see now (`Sees`). What it has ticked off while the decision was still
  executable was seen valid and, after its record was read, seen vetted or read under lax
  or unread policies; those found verified were seen vetted (`Checks`, `Grounds`,
  `Accepts`). A negative verdict so far has a premise that was seen to speak against
  the decision, or too few that were not seen unvetted (`Reasons`, `Refutes`, `Short`).
  The reads have locks of their own, so no more is claimed than the code gives: each
  read was right at some instant of the check, and no one instant need have seen them
  all. The second theorem supposes `~Reviews`; with reviews it is false, which
  `DecisionReview` shows.
- `ExecutedAtMostOnce`, `ExecutedOnDeclared`, for requests that do not overlap, the
  second when no write fails: `OnceInv` says that one handler is at work (`One`),
  that an execution counted is recorded in the decision until a blocking verdict
  (`Counted`), that what the handler has read is what is stored (`Abreast`), and
  that the stored dependencies are the declared ones or about to be (`Recorded`).
  The counters alone are not inductive: execute writes back the decision it read.

`SessionProofs`
- `SessionTypeCorrect`: `TypeOK`, with `Shape`, which says at which steps a handler has
  an engine. That `LoadEngine` always finds an engine nobody uses is counting:
  cache, handlers and goroutines hold at most 2n of the 2n + 1.
- `JournalAlwaysReplays` (`Patient`, no purges, no invalidations): what is acknowledged
  is in the journal, and a handler refers to what is acknowledged, so that every
  entry finds its parents before it (`JournalInv`).
- `CacheAlwaysCurrent` (no failing append, no revalidation; any overlap, snapshots,
  purges, crashes): `CacheInv` adds that no version lies ahead of the session's
  (`NoneAhead`), that an engine not yet cached has one user (`Private`) and is
  current if its version is (`BuiltCurrent`), and that who has written the journal
  works on an engine whose version is past (`Outdated`).
- `DurableWithoutSnapshots` (`Patient`, any overlap): an entry just written is in the
  rebuilt engine (`Entered`), and later entries take nothing away.
- `DurableInSequence`, `AlwaysReadYourWrites` (one request at a time, `Patient`,
  revalidation only while the journal is complete): `SeqInv` says of the rebuilt
  engine, of the one a handler was given, of the one cached and of the snapshot
  being written that each has what was acknowledged (`Durable`, `Given`, `Cached`,
  `Written`), and that a handler is alone and the clock past the snapshot (`Alone`).
  All are needed together: each of the four is the source of another after a
  snapshot, a crash or an eviction. In both, where appends may fail nothing is
  verified, because `handleVerifyFact` acknowledges without looking at the error.
  The hypotheses are those of the runs; `StorePurge` and section 5 show what
  happens without them.

`ViewProofs`, all from `ViewsInv`
- The steps of a writer: none is taken twice, the view that is followed is reached after
  the engine, and only a revalidation empties the engine and fills it again (`TodoOK`).
- `RebuiltEngineAgrees`: engine and journal agree about a fact once its one writer has
  taken its steps, and a revalidation finds the engine empty of the fact when it
  replays the journal (`JournalFollows`, `Settling`).
- `CachedSliceCurrent`: a slice being computed says what the engine says unless the
  engine has changed since (`SliceFollows`).
- `SearchDocumentsCurrent`: what a sync has listed is what the engine holds unless the
  engine has changed since (`ListsFollow`), and a document that differs from the engine
  has a sync before it that has not listed the fact yet, or has it as it is
  (`DocumentsFollow`, `WillSync`).


`GlobalProofs`
- `IndexesMirror`, from `IndexInv` (the two indexes have an entry for every fact and
  session and mirror each other, one session at a time). Taking a session out touches
  only the entries its own list of dependencies names, as `removeSessionIndexLocked`
  does, so that no other entry has it is the mirror of the state before.
- `PartitionFindsComponents`: whatever edges the union-find has processed, every fact
  reaches a representative that is its own parent, and two facts have the same one
  exactly if the edges so far connect them; an edge joins two such classes. A
  component, which `Component` defines by rounds of growth, is the class of all edges.
- `RetractionReaches`, from `ReachInv`: an engine has accepted its local facts on copies
  it holds (`Grounded`), and a subscribed session is indexed for all that its local
  facts need unless the indexing is still pending. A retraction that is fanned out
  selectively therefore visits every session that rests on the component.

`ConsoleProofs`
- Accounts: `RecordAsMeant`, `ResetsEndSessions`, `AccountMadeOnce` from `AccountsInv`:
  while no two writers have overlapped at most one is at work and has read the
  record as it is (`OneWriter`), the account was made before any token, and once plus
  once for each failed read that was taken for its absence (`MadeOnce`), and tokens
  from before a reset of the present record have a lower version than it (`TokensInv`). `RevocationsStay` needs only that a handler that is about to mark an
  invitation accepted had read it open. `KeysHandedOutWork` from `KeysInv`: a key
  that was handed out and is live in the record is in the index unless a write of
  the index failed, and a handler makes only new keys and takes only revoked ones
  out of the index (`CallKeys`).
- Records: `PatchesKeepTheRest` from `OneEditor`, the same for documents.
- Catalogue: `OvershootWithinRequests` counts the sessions alive and the requests
  granted and not yet created, and needs that a page shows all sessions while there
  are fewer than its size (`NewerOrder`: the order of the listing is strict).
  What was granted on a listing that failed is counted apart (`blind`).
  `LabelsKept` from `LabelsInv`: a patch under way has read the labels that are
  there, or none of a session it could not see (`KeptOrEmpty`), unless the session is
  contended.
- Billing: `AcknowledgedIsApplied` from `AckInv` (a handler past the save has an event
  that was applied); `BillingAsMeant` from `OrderInv` (while all is orderly at most one
  handler is at work, its event is the latest, and it has read the record as it is, or
  goes on from a fresh one because it could not be read: `ReadMeant`, `Meant`).
- Listings: `WalkedOnce` from `ListingsInv`: what has been listed lies above the cursor
  (`Passed`). A page by key holds only records at or below its cursor, and the next
  cursor lies below all of them (`Paged`, for `KeyPage`, the notifications with
  their foreign key and the two listings with a cutoff); on these listings no writer
  and no sweep moves a record that was written (`PlacesKept`).
  `WalksComplete`, for all listings on both stores, from `CompleteInv`: by key, a record that
  was there when the walk began, and was left alone, is listed, deleted, or still ahead of
  the cursor (`Coming`). By offset it may also have slipped behind the offset: those
  that have (`Slipped`) are at most as many as the records that left the listing before
  the offset (`left`), since each departure lowers the count above a record by one.
  Ahead means at or below a key, or, by offset, having at least as many matching
  records above it as the offset says. Every page covers what was
  ahead of its cursor and not of the next one (`PageCovers`). A writer only puts
  records above the others or disturbs the one it moves (`OneWritten`), so the count
  above a record grows or stays; a sweep takes records out from below, the oldest
  first (`SweepGoesOn`), and does not lower it.

`ServiceProofs`
- `NoSlotLeaks` from `SlotsInv` (the slots are the cardinality of the handlers inside);
  `TriesRunOnce` from `OnceInv`: a run beyond the first was lost before, because its
  record could not be saved or read (`lapses`).
- `RateLimitHolds`, `RefusalsDeserved`, `RetryAfterKept` from `RateInv`. No list counts a
  request that was not admitted (`ListsAdmitted`), whatever overlaps: hence no early
  refusal. While checks do not overlap, a check works on the saved list or, in
  Redis, on none (`OneCheck`); the list was whole when the last request was
  admitted, in which case every check counts all admitted requests of its window but those whose
  list could not be saved (`Counted`), and a window that ends earlier is not touched by an admission (`WindowsInv`).
  A refusal is deserved by a full window or by a list that could not be read. After a
  refusal for a full window, until the next admission, the list still has the request
  whose leaving was promised (`PromiseInv`). That an admission saves only the current
  window is why the list is compared with `admitted` from an instant on, and why
  Redis must keep it for a window.
- `ExportHeadCovers`, `JobsRefine` from `ExportInv`, which says what a worker has read at
  each step (`ReadsInv`) and how far the record can be when its goroutine is there
  (`RecordInv`): the initial state maps to the initial state of `JobLifecycle` and
  every step to a step or a stutter. The invariant is needed because
  `SaveExportJobResult` does not look at the record it replaces.
- `EveryRequestAccounted` from `UsageInv`: for each counter, what it shows, what it has
  missed and the requests still on their way to it add up to the requests served.
  Every step of a request moves its one from one of the three to another
  (`CounterMove`). For the series this needs that one more in a minute raises exactly
  one point, whatever the width of the buckets, and that no minute to come has a
  count; on Badger, that a transaction which commits has read the latest total.

Stated by a theorem and not checked again by a run: `TypeOK` of `Engine`,
`SessionStore` and `DecisionExecution`, `CollapsedExact`, `Settled` (with an empty queue it is
`PropagationInv`), `IndexMirrors`, `HeadCoversRows`, `AckedApplied`, `OneAccount`,
`RevocationStays`, `SlotsExact`.

Only model-checked: the liveness properties `PropagationEnds`, `ExpiryTakesEffect`,
`JobsEnd` and `EventsApplied`, because fairness and ENABLED are out of the prover's
reach. Every invariant and every action property of a passing run is stated by a
theorem; where a theorem needs a hypothesis on the constants, such as requests that
do not overlap, it is that of the run.

## 5. Where code and documentation disagree

Shown by a violation run:
- `QueriesStatus`: `lca` treats an empty id as neutral, so a fact justified by {a}
  or {b, c} is dominated by a, and is reported invalid when only a falls.
- `StorePurge`: revalidation replays the journal without the snapshot; after a
  purge the facts the snapshot covers are gone from the engine.
- `DecisionReview`: the check uses the review flag recorded at creation; an
  approval does not unblock the decision.

Observed while modelling, stated as the assumption of a passing run or as the
note of a hazard.

Engine and session:
- Between the expiry of a root and the sweep, facts derived from it still read as
  valid (`engine.go:138` speaks of reads that are "always-correct").
- `GetStatus` also answers invalid for a fact that rests on the negation of a
  collapsed root; `GetImpact` does not follow facts that rise, so with negation
  the report can miss facts.
- With overlapping requests the snapshot goroutine may write an engine that has
  been replaced, under a later timestamp than an acknowledged change that it
  misses; a dependent fact may be journaled before its parent when a client does
  not wait (`Patient`); after a failed append a fact stays in the cached engine.
- An entry written in the millisecond of the snapshot, after it, is skipped at
  reload (`Quiet` waits for the clock).
- A verification whose append fails is acknowledged, and lost at the next reload;
  after a failed append a perception or a review leaves the cached slice.
- Sweeps, webhook answers, review flags, the retractions of a consistency check, changes
  of global facts and reloads do not sync the search documents, and a sync that fails to write
  one says nothing; two syncs at once may leave the older list. Review flags,
  revalidation and the retractions after an extraction leave the cached slice, and a
  slice computed across a change is served for up to `SliceTTL`.
- A revalidation that cannot read the history leaves the engine it has emptied in the
  cache, and answers with an empty summary; a version that cannot be read counts as 0.
- `RetractGlobal` changes the engines of the indexed sessions only: a subscribed
  session that is not indexed keeps its copy. `Subscribe` replays in map order and
  drops facts that precede their parents; it does not retract copies a snapshot
  brings back; local facts on global ones are rejected at reload.
- A decision check reads status, record, policies and quorum under locks of their own:
  each premise was in order at some instant of the check, and there need be no instant
  at which all were. Policies that cannot be read count as none.
- A decision executed, then blocked by a failing premise, becomes pending and
  executable again when the premise recovers; overlapping executions are not
  excluded by a compare-and-swap; when saving the dependencies fails, the
  decision stays without any and is executable; `recompute` with an empty body
  replaces explicit dependencies.

Control plane:
- The plan limit is compared with one page of sessions: the limit of the pro plan
  (500) is above the cap of a page (200), the page falls back to 50, and the limit
  is never reached. A refusal without a billing record dereferences its plan.
- Overlapping writers of a user, billing, organisation or session record lose
  updates, and a patch that overlaps a deletion brings the document back; the
  write-back of `last_used_at` is such a writer on every request with a key.
- Two requests that make an account for one address at once both succeed.
- A read that fails is often taken for a record that is not there. Registration and the
  acceptance of an invitation then write a new account over the old, whose token
  versions start anew (tokens from before a reset count again); a webhook or a patch of
  the billing record goes on from a fresh one; a session is created although the plan
  is full, or measured against the free limit; a patch of one label of a session writes
  the other one empty; an export has no rows, and no chain head.
- A request whose list of timestamps cannot be saved is admitted and not counted; one
  whose list cannot be read is refused, with no window full (`server.go:1045` says so).
- Two tries under one Idempotency-Key at once both run, and so does a try whose record
  could not be read or saved; the key's record does not cover the body; Redis drops a record after a day and the list of requests after
  two minutes, whatever window the organisation has set.
- A walk by offset lists a record twice when new ones arrive, and skips one that was left
  alone for each that leaves the listing before the offset; the session listing
  starts again when the session its cursor names has moved.
- A job whose goroutine died, or whose last write failed, stays queued or running:
  nothing resumes it. On Postgres the statement of `SaveExportJobResult` has a
  third parameter of no type, which it does not use (`postgres/meta.go:713-717`), and
  the server refuses it: there every job is one whose last write failed.
- A failed write of the key index on Postgres leaves the client with a key that is
  not found; increments of usage counters that conflict or fail are dropped.

## 6. Not modelled

- Explanations and counterfactual texts read the graph and format it; ranking of
  slices and search results is floating-point similarity.
- What the extractor and the SRL service find: they call language models and apply
  heuristics to text; contradiction detection and the reasoning audit compare texts and scores,
  and only the changes they cause are modelled.
- CLI, SDKs, web console and demo are clients without protocol state.
- Hashing, mail, expiry of reset tokens and invitations by the clock, the
  migration of legacy keys in `handleListKeys`, and the layout of CSV and PDF.
- Backup and restore of a whole store, configuration, tracing and Prometheus
  metrics.
- `applyFactGovernance` sets fields of a fact as it is asserted; the fields are inputs of
  `Engine` and `DecisionExecution`. Of what `loadPolicyControls` reads
  `DecisionExecution` keeps whether the policies are lax or strict.
- `DependencyIDs` is an input of `DecisionExecution`.

## 7. What could follow

An abstract session – a set of acknowledged operations that survives everything –
refined by `SessionStore` under the hypotheses of `DurableInSequence`; a composition
of `SessionStore` with `GlobalTruth` once the reload order of local and global facts
is settled.
