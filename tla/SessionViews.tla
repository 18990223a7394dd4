---------------------------- MODULE SessionViews ----------------------------
(***************************************************************************)
(* What is derived from the engine of a session and has to follow it: the  *)
(* journal from which it is rebuilt, the cache of slices and the search    *)
(* documents.  A change goes through engine, journal, cache and search     *)
(* documents one after the other, in an order of its handler's own; store  *)
(* calls may fail, and some writers leave a view out.  A handler that      *)
(* touches several facts, or a fact more than once, is one change for each.*)
(* SessionStore has the versions, snapshots and crashes left out here.     *)
(***************************************************************************)
EXTENDS Platform, Sequences

CONSTANTS
    ViewFact,   \* facts of the session
    Writer,     \* handlers, sweeps and webhook goroutines at work at once
    Verdicts,   \* what a verification may say
    SliceTTL,   \* 30 seconds: the age up to which a slice is served
    MaxChanges  \* changes altogether

ASSUME ViewsAssumption == SliceTTL \in Nat /\ MaxChanges \in Nat

VARIABLES
    watched,    \* the view this behaviour follows beside the journal
    facts,      \* facts[f]: the fact in the engine
    replayed,   \* replayed[f]: the fact as the journal replays it
    due,        \* facts past their valid_until
    asked,      \* facts whose verification webhook has not answered yet
    writers,    \* writers[w]: a change and the steps it still has to take
    slice,      \* the cached slice
    reader,     \* a request that computes a slice
    documents,  \* documents[f]: the fact in its search and semantic documents
    lists,      \* lists[w]: what a sync has listed and not written yet
    changesLeft,
    mixed,      \* facts with two changes under way at once
    faulted,    \* facts whose journal could not be written or read
    sliceStale, \* the slice was computed across a change, or kept by a writer
                \* that does not purge it
    unsynced    \* facts changed by a writer that syncs no documents, or whose
                \* document a slower sync wrote last

viewVars == <<watched, facts, replayed, due, asked, writers, slice, reader, documents, lists,
              changesLeft, mixed, faulted, sliceStale, unsynced>>

NoFact == [state |-> "absent", verdict |-> "none", review |-> FALSE]
LiveFact == [NoFact EXCEPT !.state = "live"]
NoFacts == [f \in ViewFact |-> NoFact]
NoWriter == [op |-> "none", on |-> {}, verdict |-> "none", todo |-> <<>>]
NoSlice == [held |-> FALSE, facts |-> NoFacts, at |-> 0]
NoReader == [busy |-> FALSE, facts |-> NoFacts, dirty |-> FALSE]
NoList == [stage |-> "none", facts |-> NoFacts, behind |-> {}]

(* A new session, or one whose facts were asserted before.                 *)
ViewsInit ==
    /\ watched \in {"slice", "documents"}
    /\ facts \in {NoFacts, [f \in ViewFact |-> LiveFact]}
    /\ replayed = facts /\ documents = facts
    /\ due = {} /\ asked = {f \in ViewFact : facts[f] = LiveFact}
    /\ writers = [w \in Writer |-> NoWriter] /\ lists = [w \in Writer |-> NoList]
    /\ slice = NoSlice /\ reader = NoReader
    /\ changesLeft = MaxChanges
    /\ mixed = {} /\ faulted = {} /\ unsynced = {}
    /\ sliceStale = FALSE

(* The effect on a fact, in the engine and again in a replay; what is not  *)
(* there cannot be changed.                                                *)
Asserts == {"assert", "perceive", "extract"}
Effect(op, verdict, x) ==
    IF x = NoFact THEN IF op \in Asserts THEN LiveFact ELSE x
    ELSE CASE op \in {"retract", "auto", "chain", "settle", "expire"} -> [x EXCEPT !.state = "gone"]
           [] op \in {"verify", "webhook"} -> [x EXCEPT !.verdict = verdict]
           [] op \in {"review", "flag"} -> [x EXCEPT !.review = TRUE]
           [] OTHER -> x

(* The steps of each writer, in the order of its code.  A root is          *)
(* invalidated as a fact is retracted.  What a check finds contradictory   *)
(* is flagged for review first, by checks that retract and by those that   *)
(* do not; extracted facts are retracted after the purge.                  *)
HandleAssertFact == <<"engine", "purge", "append", "sync">>
HandleRecordPerception == <<"engine", "append", "purge", "sync">>
HandleExtractAndAssert == <<"engine", "append", "purge", "sync">>
HandleRetractFact == <<"append", "engine", "purge", "sync">>
FlagFactsForReviewOnIssues == <<"engine", "append">>
HandleConsistencyCheck == <<"append", "engine", "purge">>
HandleVerifyReasoningChain == <<"append", "engine", "purge", "sync">>
AutoRetractContradictions == <<"append", "engine", "sync">>
HandleRevalidate == <<"clear", "replay", "sync">>

(* Mutants: not journaled; cache not purged; documents not synced.         *)
VerificationUnjournaled == <<"engine", "purge">>
SweepWithoutPurge == <<"engine", "append">>
ReviewWithoutSync == <<"engine", "append", "purge">>

HandleVerifyFact == <<"engine", "append", "purge", "sync">>
MaybeStartVerification == <<"engine", "append", "purge">>
HandleReviewFact == <<"engine", "append", "purge", "sync">>
PerformExpirySweep == <<"engine", "append", "purge">>

StepsOf(op) ==
    CASE op = "assert"     -> HandleAssertFact
      [] op = "perceive"   -> HandleRecordPerception
      [] op = "extract"    -> HandleExtractAndAssert
      [] op = "retract"    -> HandleRetractFact
      [] op = "flag"       -> FlagFactsForReviewOnIssues
      [] op = "auto"       -> HandleConsistencyCheck
      [] op = "chain"      -> HandleVerifyReasoningChain
      [] op = "settle"     -> AutoRetractContradictions
      [] op = "verify"     -> HandleVerifyFact
      [] op = "webhook"    -> MaybeStartVerification
      [] op = "review"     -> HandleReviewFact
      [] op = "expire"     -> PerformExpirySweep
      [] op = "revalidate" -> HandleRevalidate

(* Writers whose change purges no slice, and those that sync no document.  *)
Unpurging == {"flag", "settle", "revalidate"}
Unsyncing == {"auto", "webhook", "expire", "flag"}

Has(steps, s) == \E i \in 1 .. Len(steps) : steps[i] = s

(* Nobody takes a step twice.                                              *)
Without(steps, s) ==
    IF Has(steps, s)
    THEN LET i == CHOOSE i \in 1 .. Len(steps) : steps[i] = s
         IN  [j \in 1 .. Len(steps) - 1 |-> IF j < i THEN steps[j] ELSE steps[j + 1]]
    ELSE steps

(* The steps that concern the view not followed are left out.              *)
Followed(steps) == Without(steps, IF watched = "slice" THEN "sync" ELSE "purge")

(* What is left of a change whose append failed: many handlers give up,    *)
(* some only log it, the check of a chain skips the fact.                  *)
AfterFailedAppend(op, rest) ==
    CASE op \in {"extract", "flag", "auto", "settle", "verify", "webhook", "expire"} -> rest
      [] op = "chain" -> Followed(<<"purge", "sync">>)
      [] OTHER -> <<>>

-----------------------------------------------------------------------------
Views == part = "views" /\ UNCHANGED <<platformVars, watched>>
WritersOf(f) == {w \in Writer : f \in writers[w].on}
Present(f) == facts[f] # NoFact

Begin(w, op, on, verdict) ==
    /\ Views /\ writers[w] = NoWriter /\ changesLeft > 0
    /\ writers' = [writers EXCEPT ![w] = [op |-> op, on |-> on, verdict |-> verdict,
                                          todo |-> Followed(StepsOf(op))]]
    /\ changesLeft' = changesLeft - 1
    /\ mixed' = mixed \cup {f \in on : WritersOf(f) # {}}
    /\ UNCHANGED <<facts, replayed, due, slice, reader, documents, lists, faulted, sliceStale,
                   unsynced>>

StartAssert(w, f) ==
    /\ \E op \in Asserts : ~Present(f) /\ Begin(w, op, {f}, "none")
    /\ asked' = asked \cup {f}
StartChange(w, f) ==
    /\ \E op \in {"retract", "flag", "auto", "chain", "settle", "review"} :
           Present(f) /\ Begin(w, op, {f}, "none")
    /\ UNCHANGED asked
StartVerify(w, f, v) == Present(f) /\ Begin(w, "verify", {f}, v) /\ UNCHANGED asked
StartRevalidate(w) == Begin(w, "revalidate", ViewFact, "none") /\ UNCHANGED asked

(* The webhook answers; a failure or a time-out leaves the fact as it is.  *)
WebhookAnswers(w, f, v) ==
    /\ f \in asked /\ Present(f)
    /\ Begin(w, "webhook", {f}, v)
    /\ asked' = asked \ {f}
WebhookFails(f) ==
    /\ Views /\ f \in asked
    /\ asked' = asked \ {f}
    /\ UNCHANGED <<facts, replayed, due, writers, slice, reader, documents, lists, changesLeft,
                   mixed, faulted, sliceStale, unsynced>>

(* A sweep finds a fact that is due and not retracted yet.                 *)
SweepExpiredFacts(w, f) ==
    facts[f].state = "live" /\ f \in due /\ Begin(w, "expire", {f}, "none") /\ UNCHANGED asked

FallsDue(f) ==
    /\ Views /\ Present(f) /\ f \notin due
    /\ due' = due \cup {f}
    /\ UNCHANGED <<facts, replayed, asked, writers, slice, reader, documents, lists, changesLeft,
                   mixed, faulted, sliceStale, unsynced>>

-----------------------------------------------------------------------------
(* The steps of a writer.                                                  *)

Next1(w) == Head(writers[w].todo)
Turn(w, step) == Views /\ writers[w].todo # <<>> /\ Next1(w) = step
Continue(w, todo) ==
    writers' = [writers EXCEPT ![w] = IF todo = <<>> THEN NoWriter ELSE [@ EXCEPT !.todo = todo]]
RestOf(w) == Tail(writers[w].todo)

(* Facts of the engine change under the slice that is being computed and   *)
(* under the syncs that have listed them.                                  *)
EngineChanges(changed) ==
    /\ reader' = [reader EXCEPT !.dirty = @ \/ reader.busy]
    /\ lists' = [w \in Writer |-> IF lists[w].stage = "none" THEN lists[w]
                                  ELSE [lists[w] EXCEPT !.behind = @ \cup changed]]

(* Review, verification and retraction fail on a fact that is not there.   *)
Refused(w) ==
    /\ writers[w].op \in {"retract", "review", "verify", "webhook"}
    /\ \A f \in writers[w].on : ~Present(f)

ChangeEngine(w) ==
    LET r == writers[w]
    IN  /\ Turn(w, "engine") /\ ~Refused(w)
        /\ facts' = [f \in ViewFact |-> IF f \in r.on THEN Effect(r.op, r.verdict, facts[f])
                                        ELSE facts[f]]
        /\ EngineChanges(r.on)
        /\ sliceStale' = IF r.op \in Unpurging THEN slice.held ELSE sliceStale
        /\ unsynced' = IF r.op \in Unsyncing THEN unsynced \cup r.on ELSE unsynced
        /\ Continue(w, RestOf(w))
        /\ UNCHANGED <<replayed, due, asked, slice, documents, changesLeft, mixed, faulted>>

ChangeRefused(w) ==
    /\ Turn(w, "engine") /\ Refused(w)
    /\ Continue(w, <<>>)
    /\ UNCHANGED <<facts, replayed, due, asked, slice, reader, documents, lists, changesLeft, mixed,
                   faulted, sliceStale, unsynced>>

Append1(w) ==
    LET r == writers[w]
    IN  /\ Turn(w, "append")
        /\ replayed' = [f \in ViewFact |-> IF f \in r.on THEN Effect(r.op, r.verdict, replayed[f])
                                           ELSE replayed[f]]
        /\ Continue(w, RestOf(w))
        /\ UNCHANGED <<facts, due, asked, slice, reader, documents, lists, changesLeft, mixed,
                       faulted, sliceStale, unsynced>>

(* A handler that gives up after it has changed the engine leaves slice    *)
(* and documents as they are.                                              *)
GivesUp(w, todo, step) ==
    Has(writers[w].todo, step) /\ ~Has(todo, step) /\ ~Has(writers[w].todo, "engine")

AppendFails(w) ==
    LET r == writers[w]
        todo == AfterFailedAppend(r.op, RestOf(w))
    IN  /\ Turn(w, "append")
        /\ faulted' = IF r.op = "expire" THEN faulted ELSE faulted \cup r.on
        /\ sliceStale' = IF GivesUp(w, todo, "purge") THEN slice.held ELSE sliceStale
        /\ unsynced' = IF GivesUp(w, todo, "sync") THEN unsynced \cup r.on ELSE unsynced
        /\ Continue(w, todo)
        /\ UNCHANGED <<facts, replayed, due, asked, slice, reader, documents, lists, changesLeft,
                       mixed>>

InvalidateSliceCache(w) ==
    /\ Turn(w, "purge")
    /\ slice' = NoSlice /\ sliceStale' = FALSE
    /\ Continue(w, RestOf(w))
    /\ UNCHANGED <<facts, replayed, due, asked, reader, documents, lists, changesLeft, mixed,
                   faulted, unsynced>>

-----------------------------------------------------------------------------
(* syncSessionSearchDocuments, or for an asserted fact                     *)
(* syncFactSearchDocument: the facts are listed, then the status of each   *)
(* is asked for, then the documents are written; errors are ignored.  The  *)
(* handler of an assertion still holds the fact when the engine has lost   *)
(* it to a revalidation.                                                   *)
Syncing(w, stage) == Turn(w, "sync") /\ lists[w].stage = stage
Own(w) == writers[w].op \in {"assert", "perceive"}
Lost(w) == IF Own(w) THEN {f \in writers[w].on : ~Present(f)} ELSE {}
Listed(w, f) == lists[w].facts[f] # NoFact

ListDocuments(w) ==
    /\ Syncing(w, "none")
    /\ lists' = [lists EXCEPT ![w] =
          [stage |-> "listed", behind |-> Lost(w),
           facts |-> [f \in ViewFact |-> IF f \in Lost(w) THEN LiveFact
                                         ELSE IF Own(w) /\ f \notin writers[w].on THEN NoFact
                                         ELSE facts[f]]]]
    /\ UNCHANGED <<facts, replayed, due, asked, writers, slice, reader, documents, changesLeft,
                   mixed, faulted, sliceStale, unsynced>>

GetStatus(f) == IF Present(f) THEN facts[f].state ELSE "gone"
ResolveStatus(w) ==
    /\ Syncing(w, "listed")
    /\ lists' = [lists EXCEPT ![w].stage = "resolved",
                              ![w].facts = [f \in ViewFact |->
                                  IF Listed(w, f) THEN [lists[w].facts[f] EXCEPT !.state = GetStatus(f)]
                                  ELSE NoFact]]
    /\ UNCHANGED <<facts, replayed, due, asked, writers, slice, reader, documents, changesLeft,
                   mixed, faulted, sliceStale, unsynced>>

UpsertDocuments(w) ==
    /\ Syncing(w, "resolved")
    /\ documents' = [f \in ViewFact |-> IF Listed(w, f) THEN lists[w].facts[f] ELSE documents[f]]
    /\ unsynced' = {f \in ViewFact : IF Listed(w, f) THEN f \in lists[w].behind ELSE f \in unsynced}
    /\ lists' = [lists EXCEPT ![w] = NoList]
    /\ Continue(w, RestOf(w))
    /\ UNCHANGED <<facts, replayed, due, asked, slice, reader, changesLeft, mixed, faulted, sliceStale>>

UpsertFails(w) ==
    /\ Syncing(w, "resolved")
    /\ unsynced' = unsynced \cup writers[w].on
    /\ lists' = [lists EXCEPT ![w] = NoList]
    /\ Continue(w, RestOf(w))
    /\ UNCHANGED <<facts, replayed, due, asked, slice, reader, documents, changesLeft, mixed,
                   faulted, sliceStale>>

-----------------------------------------------------------------------------
(* handleRevalidate empties the engine in place and replays the journal    *)
(* into it, with no lock held between the two and no purge of the cache.   *)
(* When the journal cannot be read the engine stays as it is then.         *)
ClearEngine(w) ==
    /\ Turn(w, "clear")
    /\ facts' = NoFacts
    /\ EngineChanges(ViewFact)
    /\ sliceStale' = slice.held /\ unsynced' = ViewFact
    /\ Continue(w, RestOf(w))
    /\ UNCHANGED <<replayed, due, asked, slice, documents, changesLeft, mixed, faulted>>

(* What others have asserted anew meanwhile is kept, and changed again.    *)
ReplayedOnto(x, y) ==
    IF x = NoFact THEN y
    ELSE IF y = NoFact THEN x
    ELSE [state |-> IF y.state = "gone" THEN "gone" ELSE x.state,
          verdict |-> IF y.verdict # "none" THEN y.verdict ELSE x.verdict,
          review |-> x.review \/ y.review]

ReplayHistory(w) ==
    /\ Turn(w, "replay")
    /\ facts' = [f \in ViewFact |-> ReplayedOnto(facts[f], replayed[f])]
    /\ EngineChanges(ViewFact)
    /\ sliceStale' = slice.held /\ unsynced' = ViewFact
    /\ Continue(w, RestOf(w))
    /\ UNCHANGED <<replayed, due, asked, slice, documents, changesLeft, mixed, faulted>>

HistoryUnread(w) ==
    /\ Turn(w, "replay")
    /\ faulted' = ViewFact
    /\ Continue(w, RestOf(w))
    /\ UNCHANGED <<facts, replayed, due, asked, slice, reader, documents, lists, changesLeft, mixed,
                   sliceStale, unsynced>>

-----------------------------------------------------------------------------
(* A fact shared by all sessions changes in the engine and nowhere else.   *)
PropagateGlobal(f) ==
    /\ Views /\ changesLeft > 0 /\ facts[f].state = "live" /\ f \notin mixed
    /\ changesLeft' = changesLeft - 1
    /\ facts' = [facts EXCEPT ![f].state = "gone"]
    /\ mixed' = mixed \cup {f} /\ unsynced' = unsynced \cup {f}
    /\ EngineChanges({f})
    /\ sliceStale' = slice.held
    /\ UNCHANGED <<replayed, due, asked, writers, slice, documents, faulted>>

(* The session is evicted and its engine rebuilt; cache and documents stay *)
(* as they are.                                                            *)
Rebuild ==
    /\ Views /\ \A w \in Writer : writers[w] = NoWriter
    /\ facts # replayed
    /\ facts' = replayed
    /\ EngineChanges(ViewFact)
    /\ sliceStale' = slice.held
    /\ unsynced' = ViewFact
    /\ UNCHANGED <<replayed, due, asked, writers, slice, documents, changesLeft, mixed, faulted>>

-----------------------------------------------------------------------------
(* handleGetSlice: a hit, or a slice computed without a lock and cached.   *)
SliceHit == slice.held /\ clock - slice.at < SliceTTL

SelectBeliefSlice ==
    /\ Views /\ watched = "slice" /\ ~reader.busy /\ ~SliceHit
    /\ reader' = [busy |-> TRUE, facts |-> facts, dirty |-> FALSE]
    /\ UNCHANGED <<facts, replayed, due, asked, writers, slice, documents, lists, changesLeft,
                   mixed, faulted, sliceStale, unsynced>>

HandleGetSlice ==
    /\ Views /\ reader.busy
    /\ slice' = [held |-> TRUE, facts |-> reader.facts, at |-> clock]
    /\ sliceStale' = reader.dirty
    /\ reader' = NoReader
    /\ UNCHANGED <<facts, replayed, due, asked, writers, documents, lists, changesLeft, mixed,
                   faulted, unsynced>>

(* StartSliceCachePurgeTicker drops what is no longer served.              *)
PurgeSliceCache ==
    /\ Views /\ slice.held /\ ~SliceHit
    /\ slice' = NoSlice /\ sliceStale' = FALSE
    /\ UNCHANGED <<facts, replayed, due, asked, writers, reader, documents, lists, changesLeft,
                   mixed, faulted, unsynced>>

ViewsNext ==
    \/ \E w \in Writer, f \in ViewFact :
          \/ StartAssert(w, f)
          \/ StartChange(w, f)
          \/ \E v \in Verdicts : StartVerify(w, f, v) \/ WebhookAnswers(w, f, v)
          \/ SweepExpiredFacts(w, f)
    \/ \E f \in ViewFact : FallsDue(f) \/ WebhookFails(f) \/ PropagateGlobal(f)
    \/ \E w \in Writer :
          \/ StartRevalidate(w)
          \/ ChangeEngine(w)
          \/ ChangeRefused(w)
          \/ Append1(w)
          \/ AppendFails(w)
          \/ InvalidateSliceCache(w)
          \/ ClearEngine(w)
          \/ ReplayHistory(w)
          \/ HistoryUnread(w)
          \/ ListDocuments(w)
          \/ ResolveStatus(w)
          \/ UpsertDocuments(w)
          \/ UpsertFails(w)
    \/ Rebuild
    \/ SelectBeliefSlice
    \/ HandleGetSlice
    \/ PurgeSliceCache

ViewsSpec ==
    /\ PlatformInit /\ ViewsInit
    /\ [][ViewsNext \/ (Tick /\ UNCHANGED viewVars)]_<<platformVars, viewVars>>

-----------------------------------------------------------------------------
(* Once the changes of a fact are over, a rebuilt engine agrees with the   *)
(* running one about it, if they did not overlap and every append worked.  *)
(* An expiry is forgiven its append: the rebuilt engine holds the fact as  *)
(* live again only when it is due, so that the next sweep takes it.        *)
RebuildAgrees ==
    \A f \in ViewFact \ (mixed \cup faulted) :
        WritersOf(f) = {} =>
            \/ facts[f] = replayed[f]
            \/ /\ f \in due
               /\ facts[f] = [replayed[f] EXCEPT !.state = "gone"]

(* A cached slice is what the engine holds, unless a change is on its way  *)
(* from the engine to the cache; apart from slices computed across a       *)
(* change, and from the writers that purge nothing: flagging for review,   *)
(* retraction of extracted facts, revalidation, shared facts, a rebuild,   *)
(* and those that give up after a failed append.                           *)
SliceCurrent ==
    slice.held /\ ~sliceStale
        => \/ slice.facts = facts
           \/ \E w \in Writer : Has(writers[w].todo, "purge") /\ ~Has(writers[w].todo, "engine")

(* The documents of a fact say what the engine says once its changes are   *)
(* over; apart from writers that sync nothing (sweeps, webhooks, review    *)
(* flags, retractions of a check, shared facts, a rebuild), syncs that     *)
(* fail or are given up, and a sync that listed the fact before its last   *)
(* change and wrote it after.  Each of these is made good by the next sync *)
(* of the fact.                                                            *)
SearchCurrent ==
    watched = "documents" =>
        \A f \in ViewFact \ unsynced : WritersOf(f) = {} => documents[f] = facts[f]
=============================================================================
