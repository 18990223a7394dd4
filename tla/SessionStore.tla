---------------------------- MODULE SessionStore ----------------------------
(***************************************************************************)
(* One session between the HTTP handlers and the store: the engine that    *)
(* getEngine caches by session version and rebuilds from the latest        *)
(* snapshot and the journal (src/api/server.go), the handlers that change  *)
(* engine and journal one after the other, the goroutine that writes       *)
(* snapshots, the purge of the journal (src/store), and crashes.           *)
(*                                                                         *)
(* The content of an engine is abstracted to which facts it holds and      *)
(* which of them are invalidated, retracted and verified; module Engine    *)
(* says what statuses follow.  Requests are handled concurrently unless    *)
(* Overlap is FALSE.                                                       *)
(***************************************************************************)
EXTENDS Integers, Sequences, FiniteSets

CONSTANTS
    Request,     \* slots for requests in flight
    FactId,
    Parents,     \* the facts a fact rests on: a root has none
    Kinds,       \* what clients ask for, see Op
    MaxTime,     \* bound on the clock (milliseconds)
    MaxJournal,  \* bound on the length of the journal
    Overlap,     \* may a request start while another one, or the snapshot
                 \* goroutine of an earlier one, is still running?
    Patient,     \* do clients wait until the assertion of a fact is
                 \* acknowledged before they refer to the fact?
    Snapshots,   \* does checkSnapshotTrigger ever fire?
    Purging,     \* does PurgeJournalBeforeSnapshot run?
    Complete,    \* is revalidation asked for only while the journal is
                 \* complete?
    Failures,    \* may Append fail?
    None

ASSUME StoreAssumption ==
    /\ IsFiniteSet(Request)
    /\ Parents \in [FactId -> SUBSET FactId]
    /\ Kinds \subseteq {"assert", "invalidate", "retract", "verify", "revalidate"}
    /\ MaxTime \in Nat /\ MaxJournal \in Nat
    /\ {Overlap, Patient, Snapshots, Purging, Complete, Failures} \subseteq BOOLEAN

(* What a client asks for; "revalidate" is about no fact in particular.    *)
Mutation == [kind : Kinds \ {"revalidate"}, fact : FactId]
Op == Mutation \cup (IF "revalidate" \in Kinds
                     THEN {[kind |-> "revalidate", fact |-> None]} ELSE {})

(* Enough engines for the cache, every request and every goroutine.        *)
EngineId == 1 .. (2 * Cardinality(Request) + 1)

ASSUME NoneAssumption == None \notin EngineId

VARIABLES
    journal,   \* the session's history, in key order
    snap,      \* the latest snapshot: [ts, content], or None
    version,   \* the session version
    clock,     \* the current millisecond
    cache,     \* s.Engines and s.Versions: [eng, version], or None
    heap,      \* the content of every engine
    req,       \* the requests in flight
    writer,    \* the snapshot goroutines: [eng, image], or None
    acked      \* operations a client was told have succeeded

storeVars == <<journal, snap, version>>
vars == <<journal, snap, version, clock, cache, heap, req, writer, acked>>

-----------------------------------------------------------------------------
(* The content of an engine                                                *)

Content == [facts : SUBSET FactId, invalid : SUBSET FactId,
            retracted : SUBSET FactId, verified : SUBSET FactId]
Empty == [facts |-> {}, invalid |-> {}, retracted |-> {}, verified |-> {}]

(* An engine operation succeeds, changing the content or not.              *)
Accepts(content, op) ==
    CASE op.kind = "assert"     -> Parents[op.fact] \subseteq content.facts
      [] op.kind = "invalidate" -> op.fact \in content.facts /\ Parents[op.fact] = {}
      [] OTHER                  -> op.fact \in content.facts

Apply(content, op) ==
    IF ~ Accepts(content, op) THEN content
    ELSE CASE op.kind = "assert"     -> [content EXCEPT !.facts = @ \cup {op.fact}]
           [] op.kind = "invalidate" -> [content EXCEPT !.invalid = @ \cup {op.fact}]
           [] op.kind = "retract"    -> [content EXCEPT !.retracted = @ \cup {op.fact}]
           [] op.kind = "verify"     -> [content EXCEPT !.verified = @ \cup {op.fact}]

(* Mutant: retractions are not replayed.                                   *)
ReplayWithoutRetractions(content, history) ==
    LET run[n \in 0 .. Len(history)] ==
            IF n = 0 THEN content
            ELSE IF history[n].op.kind = "retract" THEN run[n - 1]
            ELSE Apply(run[n - 1], history[n].op)
    IN  run[Len(history)]

Replay(content, history) ==
    LET run[n \in 0 .. Len(history)] ==
            IF n = 0 THEN content ELSE Apply(run[n - 1], history[n].op)
    IN  run[Len(history)]

(* The entries of a history from time ts on.                               *)
EntriesFrom(history, ts) ==
    LET kept[n \in 0 .. Len(history)] ==
            IF n = 0 THEN <<>>
            ELSE IF history[n].ts >= ts THEN Append(kept[n - 1], history[n])
            ELSE kept[n - 1]
    IN  kept[Len(history)]

(* Mutant: an entry counts as later only from the next unit of time on.    *)
HistoryAfterRounded(ts) == EntriesFrom(journal, ts + 2)

(* GetSessionHistoryAfter.                                                 *)
HistoryAfter(ts) == EntriesFrom(journal, ts + 1)

(* What getEngine builds: the snapshot and the entries after it, or the    *)
(* whole journal.  Entries the engine rejects are skipped.                 *)
Rebuilt ==
    IF snap = None THEN Replay(Empty, journal)
    ELSE Replay(snap.content, HistoryAfter(snap.ts))

-----------------------------------------------------------------------------
(* getEngine, which holds s.mu                                             *)

Idle == [pc |-> "idle", op |-> None, eng |-> None, ver |-> 0, todo |-> <<>>]

InUse ==
    {req[r].eng : r \in Request} \cup {cache.eng : x \in {cache} \ {None}}
        \cup {writer[r].eng : r \in {q \in Request : writer[q] # None}}

(* Another getEngine holds s.mu.                                           *)
ServerLocked == \E r \in Request : req[r].pc \in {"loading", "built"}

(* No handler and no goroutine is running, and the clock has gone on since *)
(* the snapshot was taken.                                                 *)
Quiet ==
    /\ \A r \in Request : req[r] = Idle /\ writer[r] = None
    /\ snap # None => clock > snap.ts

Reflects(content, op) ==
    CASE op.kind = "assert"     -> op.fact \in content.facts
      [] op.kind = "invalidate" -> op.fact \in content.invalid
      [] op.kind = "retract"    -> op.fact \in content.retracted
      [] op.kind = "verify"     -> op.fact \in content.verified

(* No entry of an acknowledged operation has been purged.                  *)
JournalComplete == \A op \in acked : Reflects(Replay(Empty, journal), op)

(* The facts an operation refers to, and the assertions acknowledged.      *)
Refers(op) == CASE op.kind = "revalidate" -> {}
                [] op.kind = "assert"     -> Parents[op.fact]
                [] OTHER                  -> {op.fact}

Asserted == {op \in acked : op.kind = "assert"}

(* The version is read, and the cached engine is used if it has it.        *)
GetEngine(r, op) ==
    /\ req[r] = Idle
    /\ Overlap \/ Quiet
    /\ Patient => Refers(op) \subseteq {done.fact : done \in Asserted}
    /\ Complete /\ op.kind = "revalidate" => JournalComplete
    /\ ~ ServerLocked
    /\ req' = [req EXCEPT ![r] =
         IF cache # None /\ cache.version = version
         THEN [Idle EXCEPT !.pc = "loaded", !.op = op, !.eng = cache.eng]
         ELSE [Idle EXCEPT !.pc = "loading", !.op = op, !.ver = version]]
    /\ UNCHANGED <<storeVars, clock, cache, heap, writer, acked>>

(* A new engine is built.  Engines nothing refers to any more are garbage. *)
LoadEngine(r) ==
    /\ req[r].pc = "loading"
    /\ LET new == CHOOSE e \in EngineId : e \notin InUse
       IN  /\ heap' = [e \in EngineId |-> IF e = new THEN Rebuilt
                                         ELSE IF e \in InUse THEN heap[e]
                                         ELSE Empty]
           /\ req' = [req EXCEPT ![r].pc = "built", ![r].eng = new]
    /\ UNCHANGED <<storeVars, clock, cache, writer, acked>>

(* Mutant: the version is read once the engine is built.                   *)
CacheEngineAtCurrentVersion(r) ==
    /\ req[r].pc = "built"
    /\ cache' = [eng |-> req[r].eng, version |-> version]
    /\ req' = [req EXCEPT ![r].pc = "loaded"]
    /\ UNCHANGED <<storeVars, clock, heap, writer, acked>>

(* It goes into the cache under the version read before it was built.      *)
CacheEngine(r) ==
    /\ req[r].pc = "built"
    /\ cache' = [eng |-> req[r].eng, version |-> req[r].ver]
    /\ req' = [req EXCEPT ![r].pc = "loaded", ![r].ver = 0]
    /\ UNCHANGED <<storeVars, clock, heap, writer, acked>>

-----------------------------------------------------------------------------
(* Handlers                                                                *)

(* Mutant: the history lists the latest entry first.                       *)
JournaledLatestFirst(op) ==
    /\ Len(journal) < MaxJournal
    /\ journal' = <<[op |-> op, ts |-> clock]>> \o journal
    /\ version' = version + 1
    /\ snap' = snap

Journaled(op) ==
    /\ Len(journal) < MaxJournal
    /\ journal' = Append(journal, [op |-> op, ts |-> clock])
    /\ version' = version + 1
    /\ snap' = snap

AppendFails == Failures /\ UNCHANGED storeVars

Finish(r) == req' = [req EXCEPT ![r] = Idle]

(* handleAssertFact and handleVerifyFact change the engine first.          *)
ChangeEngineFirst(r) ==
    LET op == req[r].op  e == req[r].eng
    IN  /\ req[r].pc = "loaded"
        /\ op.kind \in {"assert", "verify"}
        /\ heap' = [heap EXCEPT ![e] = Apply(@, op)]
        /\ IF Accepts(heap[e], op) THEN req' = [req EXCEPT ![r].pc = "applied"]
                                   ELSE Finish(r)
        /\ UNCHANGED <<storeVars, clock, cache, writer, acked>>

JournalAfterwards(r) ==
    LET op == req[r].op
    IN  /\ req[r].pc = "applied"
        /\ \/ /\ Journaled(op)
              /\ acked' = acked \cup {op}
              /\ req' = [req EXCEPT ![r].pc = "acked"]
           \/ /\ AppendFails     \* handleVerifyFact does not look at the error
              /\ IF op.kind = "verify"
                 THEN acked' = acked \cup {op} /\ req' = [req EXCEPT ![r].pc = "acked"]
                 ELSE acked' = acked /\ Finish(r)
        /\ UNCHANGED <<clock, cache, heap, writer>>

(* handleInvalidateRoot and handleRetractFact write the journal first.     *)
JournalFirst(r) ==
    LET op == req[r].op
    IN  /\ req[r].pc = "loaded"
        /\ op.kind \in {"invalidate", "retract"}
        /\ IF op.kind = "retract" /\ op.fact \notin heap[req[r].eng].facts
           THEN UNCHANGED storeVars /\ Finish(r)
           ELSE \/ Journaled(op) /\ req' = [req EXCEPT ![r].pc = "journaled"]
                \/ AppendFails /\ Finish(r)
        /\ UNCHANGED <<clock, cache, heap, writer, acked>>

ChangeEngineAfterwards(r) ==
    LET op == req[r].op  e == req[r].eng
    IN  /\ req[r].pc = "journaled"
        /\ heap' = [heap EXCEPT ![e] = Apply(@, op)]
        /\ IF Accepts(heap[e], op)
           THEN acked' = acked \cup {op} /\ req' = [req EXCEPT ![r].pc = "acked"]
           ELSE acked' = acked /\ Finish(r)
        /\ UNCHANGED <<storeVars, clock, cache, writer>>

(* handleRevalidate empties the engine under its lock, RetractedFacts and  *)
(* nothing else excepted, and replays the journal entry by entry.          *)
RevalidateClear(r) ==
    /\ req[r].pc = "loaded" /\ req[r].op.kind = "revalidate"
    /\ heap' = [heap EXCEPT ![req[r].eng] =
                  [Empty EXCEPT !.retracted = heap[req[r].eng].retracted]]
    /\ req' = [req EXCEPT ![r].pc = "cleared"]
    /\ UNCHANGED <<storeVars, clock, cache, writer, acked>>

(* Mutant: the replay into the emptied engine starts after the snapshot.   *)
RevalidateReadAfterSnapshot(r) ==
    /\ req[r].pc = "cleared"
    /\ req' = [req EXCEPT ![r].pc = "replaying",
                          ![r].todo = IF snap = None THEN journal
                                      ELSE HistoryAfter(snap.ts)]
    /\ UNCHANGED <<storeVars, clock, cache, heap, writer, acked>>

RevalidateRead(r) ==
    /\ req[r].pc = "cleared"
    /\ req' = [req EXCEPT ![r].pc = "replaying", ![r].todo = journal]
    /\ UNCHANGED <<storeVars, clock, cache, heap, writer, acked>>

RevalidateReplay(r) ==
    /\ req[r].pc = "replaying"
    /\ IF req[r].todo = <<>> THEN heap' = heap /\ Finish(r)
       ELSE /\ heap' = [heap EXCEPT ![req[r].eng] =
                          Apply(@, Head(req[r].todo).op)]
            /\ req' = [req EXCEPT ![r].todo = Tail(@)]
    /\ UNCHANGED <<storeVars, clock, cache, writer, acked>>

-----------------------------------------------------------------------------
(* Snapshots, the journal's purge, time and crashes                        *)

(* checkSnapshotTrigger: a rebuilt engine has a LastSnapshotTime of zero,  *)
(* so its first mutation fires; later ones do after 50 mutations or five   *)
(* minutes.  Whether it fires is left open.                                *)
CheckSnapshotTrigger(r) ==
    /\ req[r].pc = "acked"
    /\ \/ /\ Snapshots /\ writer[r] = None
          /\ writer' = [writer EXCEPT ![r] = [eng |-> req[r].eng, image |-> None]]
       \/ writer' = writer
    /\ Finish(r)
    /\ UNCHANGED <<storeVars, clock, cache, heap, acked>>

(* ToSnapshot under the engine's read lock.                                *)
ToSnapshot(r) ==
    /\ writer[r] # None /\ writer[r].image = None
    /\ writer' = [writer EXCEPT ![r].image =
                    [ts |-> clock, content |-> heap[writer[r].eng]]]
    /\ UNCHANGED <<storeVars, clock, cache, heap, req, acked>>

SaveSnapshot(r) ==
    /\ writer[r] # None /\ writer[r].image # None
    /\ snap' = writer[r].image
    /\ version' = version + 1
    /\ journal' = journal
    /\ writer' = [writer EXCEPT ![r] = None]
    /\ UNCHANGED <<clock, cache, heap, req, acked>>

(* handlePurgeJournal.                                                     *)
PurgeJournalBeforeSnapshot ==
    /\ Purging /\ snap # None
    /\ Overlap \/ Quiet
    /\ journal' = EntriesFrom(journal, snap.ts)
    /\ UNCHANGED <<snap, version, clock, cache, heap, req, writer, acked>>

Tick ==
    /\ clock < MaxTime
    /\ clock' = clock + 1
    /\ UNCHANGED <<storeVars, cache, heap, req, writer, acked>>

(* PerformEvictionSweep.                                                   *)
Evict ==
    /\ cache # None /\ ~ ServerLocked
    /\ cache' = None
    /\ UNCHANGED <<storeVars, clock, heap, req, writer, acked>>

(* The process dies and is started again on the same store.                *)
Crash ==
    /\ cache' = None
    /\ heap' = [e \in EngineId |-> Empty]
    /\ req' = [r \in Request |-> Idle]
    /\ writer' = [r \in Request |-> None]
    /\ UNCHANGED <<storeVars, clock, acked>>

-----------------------------------------------------------------------------

Init ==
    /\ journal = <<>> /\ snap = None /\ version = 0
    /\ clock = 1
    /\ cache = None
    /\ heap = [e \in EngineId |-> Empty]
    /\ req = [r \in Request |-> Idle]
    /\ writer = [r \in Request |-> None]
    /\ acked = {}

Next ==
    \/ \E r \in Request :
          \/ \E op \in Op : GetEngine(r, op)
          \/ LoadEngine(r) \/ CacheEngine(r)
          \/ ChangeEngineFirst(r) \/ JournalAfterwards(r)
          \/ JournalFirst(r) \/ ChangeEngineAfterwards(r)
          \/ RevalidateClear(r) \/ RevalidateRead(r) \/ RevalidateReplay(r)
          \/ CheckSnapshotTrigger(r)
          \/ ToSnapshot(r) \/ SaveSnapshot(r)
    \/ PurgeJournalBeforeSnapshot
    \/ Tick
    \/ Evict
    \/ Crash

Spec == Init /\ [][Next]_vars

-----------------------------------------------------------------------------
(* Properties                                                              *)

Entry == [op : Mutation, ts : Nat]
Image == [ts : Nat, content : Content]
Handler == [pc : {"idle", "loading", "built", "loaded", "applied", "journaled", "acked",
                  "cleared", "replaying"},
            op : Op \cup {None}, eng : EngineId \cup {None}, ver : Nat, todo : Seq(Entry)]

TypeOK ==
    /\ journal \in Seq(Entry)
    /\ snap \in Image \cup {None}
    /\ version \in Nat /\ clock \in Nat
    /\ cache \in [eng : EngineId, version : Nat] \cup {None}
    /\ heap \in [EngineId -> Content]
    /\ req \in [Request -> Handler]
    /\ writer \in [Request -> [eng : EngineId, image : Image \cup {None}] \cup {None}]
    /\ acked \subseteq Mutation

(* What a client was told has succeeded survives a crash or an eviction at *)
(* any point: it is in the engine rebuilt from the snapshot and the        *)
(* journal.                                                                *)
Durable == \A op \in acked : Reflects(Rebuilt, op)

(* The journal replays: the engine accepts every entry in the order of the *)
(* history.  replayEntry (src/store/journal.go) fails at one it rejects.   *)
JournalReplays ==
    \A i \in 1..Len(journal) :
        Accepts(Replay(Empty, SubSeq(journal, 1, i - 1)), journal[i].op)

(* Read-your-writes: when nothing is in flight, the engine the next        *)
(* request is given, cached or rebuilt, reflects what was acknowledged.    *)
ReadYourWrites ==
    Quiet =>
        \A op \in acked :
            Reflects(IF cache # None /\ cache.version = version
                     THEN heap[cache.eng] ELSE Rebuilt, op)

(* An engine cached under the current version is the one the store would   *)
(* give, unless a handler has changed it and not written the journal yet.  *)
CacheCurrent ==
    ( /\ cache # None /\ cache.version = version
      /\ \A r \in Request :
            req[r].eng = cache.eng => req[r].pc \in {"loaded", "acked"} )
    => heap[cache.eng] = Rebuilt

=============================================================================
