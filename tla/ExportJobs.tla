----------------------------- MODULE ExportJobs -----------------------------
(***************************************************************************)
(* Exports of a session's journal: export jobs, worked on by a goroutine   *)
(* that outlives the request, and the export a request waits for.  Both    *)
(* read the history, the usage and the chain head one after the other      *)
(* while the journal grows, and go on without what they cannot read.  The  *)
(* goroutine ignores failed writes and dies with the server; nothing       *)
(* resumes it.                                                             *)
(***************************************************************************)
EXTENDS Platform, FiniteSets

CONSTANTS
    Export,     \* exports: jobs and direct ones
    MaxJournal  \* the journal grows to this length

ASSUME MaxJournalAssumption == MaxJournal \in Nat

VARIABLES
    journal,    \* the length of the session's journal
    jobs,       \* jobs[x]: the record of an export job and its data
    worker,     \* worker[x]: the goroutine, or the request, that exports
    shown,      \* shown[x]: the status in the answer to the creation
    faults      \* exports that a crash or a failed write has hit

exportVars == <<journal, jobs, worker, shown, faults>>

NoData == [rows |-> MaxJournal + 1, head |-> 0]
NoHead == MaxJournal + 1
Data == [rows : 0 .. MaxJournal, head : 0 .. NoHead]
NoJob == [status |-> "none", data |-> NoData]
Idle == [step |-> "idle", rows |-> 0, head |-> 0]

ExportJobsInit ==
    /\ journal = 0
    /\ jobs = [x \in Export |-> NoJob]
    /\ worker = [x \in Export |-> Idle]
    /\ shown = [x \in Export |-> "none"]
    /\ faults = {}

Step(x, from, to) ==
    /\ part = "exports" /\ worker[x].step = from
    /\ worker' = [worker EXCEPT ![x].step = to]
    /\ UNCHANGED platformVars

-----------------------------------------------------------------------------
(* The store.  A write changes the record and the data together.           *)

SaveExportJob(x, status) == jobs' = [jobs EXCEPT ![x].status = status]

(* Mutant: the record without its data.                                    *)
SaveStatusOnly(x, status, data) == jobs' = [jobs EXCEPT ![x].status = status]

(* Mutant: the data without the record.                                    *)
SaveDataOnly(x, status, data) == jobs' = [jobs EXCEPT ![x].data = data]

(* On Postgres a parameter of the statement is not used and has no type:   *)
(* every call fails.                                                       *)
SaveExportJobResult(x, status, data) ==
    /\ backend = "badger"
    /\ jobs' = [jobs EXCEPT ![x] = [status |-> status, data |-> data]]

(* A write whose error nobody looks at.                                    *)
Ignored(x, write) ==
    \/ write /\ UNCHANGED faults
    \/ UNCHANGED jobs /\ faults' = faults \cup {x}

-----------------------------------------------------------------------------
AppendEntry ==
    /\ part = "exports" /\ journal < MaxJournal
    /\ journal' = journal + 1
    /\ UNCHANGED <<platformVars, jobs, worker, shown, faults>>

(* The record is saved before the goroutine starts; if that fails, there   *)
(* is no job.                                                              *)
HandleCreateExportJob(x) ==
    /\ jobs[x].status = "none"
    /\ Step(x, "idle", "queued")
    /\ SaveExportJob(x, "queued")
    /\ UNCHANGED <<journal, shown, faults>>

(* The answer shows the job object, which the goroutine may already have   *)
(* changed.                                                                *)
AnswerCreate(x) ==
    /\ part = "exports" /\ jobs[x].status # "none" /\ shown[x] = "none"
    /\ shown' = [shown EXCEPT ![x] = IF worker[x].step = "queued" THEN "queued" ELSE "running"]
    /\ UNCHANGED <<platformVars, journal, jobs, worker, faults>>

RunJob(x) ==
    /\ Step(x, "queued", "history")
    /\ Ignored(x, SaveExportJob(x, "running"))
    /\ UNCHANGED <<journal, shown>>

(* A request that waits for its export starts with the same reads.         *)
HandleExport(x) ==
    /\ jobs[x].status = "none"
    /\ Step(x, "idle", "history")
    /\ UNCHANGED <<journal, jobs, shown, faults>>

(* What cannot be read is empty: no rows, no head.                         *)
ReadHistory(x) ==
    /\ part = "exports" /\ worker[x].step = "history"
    /\ \E rows \in {journal, 0} : worker' = [worker EXCEPT ![x].step = "head", ![x].rows = rows]
    /\ UNCHANGED <<platformVars, journal, jobs, shown, faults>>

ReadChainHead(x) ==
    /\ part = "exports" /\ worker[x].step = "head"
    /\ \E head \in {journal, NoHead} :
         worker' = [worker EXCEPT ![x].step = "build", ![x].head = head]
    /\ UNCHANGED <<platformVars, journal, jobs, shown, faults>>

(* Rows and hash from the history, the head beside them.                   *)
BuildSessionExport(w) == [rows |-> w.rows, head |-> w.head]

FinishJob(x) ==
    /\ jobs[x].status # "none"
    /\ Step(x, "build", "ended")
    /\ \/ Ignored(x, SaveExportJobResult(x, "done", BuildSessionExport(worker[x])))
       \/ Ignored(x, SaveExportJobResult(x, "error", NoData))
    /\ UNCHANGED <<journal, shown>>

(* A direct export is written to the client, who keeps it.                 *)
Deliver(x) ==
    /\ jobs[x].status = "none"
    /\ Step(x, "build", "delivered")
    /\ UNCHANGED <<journal, jobs, shown, faults>>

(* The server stops: every goroutine and request is gone.                  *)
Crash ==
    LET busy == {x \in Export : worker[x].step \in {"queued", "history", "head", "build"}}
    IN  /\ part = "exports" /\ busy # {}
        /\ worker' = [x \in Export |-> IF x \in busy THEN [Idle EXCEPT !.step = "ended"]
                                       ELSE worker[x]]
        /\ faults' = faults \cup busy
        /\ UNCHANGED <<platformVars, journal, jobs, shown>>

WorkerStep(x) == RunJob(x) \/ ReadHistory(x) \/ ReadChainHead(x) \/ FinishJob(x) \/ Deliver(x)

ExportJobsNext ==
    \/ AppendEntry
    \/ \E x \in Export :
          \/ HandleCreateExportJob(x)
          \/ AnswerCreate(x)
          \/ HandleExport(x)
          \/ RunJob(x)
          \/ ReadHistory(x)
          \/ ReadChainHead(x)
          \/ FinishJob(x)
          \/ Deliver(x)
    \/ Crash

ExportJobsSpec ==
    PlatformInit /\ ExportJobsInit
        /\ [][ExportJobsNext \/ (Tick /\ UNCHANGED exportVars)]_<<platformVars, exportVars>>

(* The Go scheduler runs every goroutine.                                  *)
ExportJobsFairness == \A x \in Export : WF_<<platformVars, exportVars>>(WorkerStep(x))

-----------------------------------------------------------------------------
(* The data of an export that a client can get at.                         *)
Delivered ==
    {jobs[x].data : x \in {y \in Export : jobs[y].status = "done"}}
        \cup {BuildSessionExport(worker[x]) :
                x \in {y \in Export : worker[y].step = "delivered"}}

(* A chain head printed in an export is that of a journal which contains   *)
(* every row of the export: the rows are read first, so an entry appended  *)
(* in between is covered by the head and not the other way round.          *)
HeadCoversRows ==
    \A d \in Delivered : d.head # NoHead => d.rows <= d.head /\ d.head <= journal

(* The records of the jobs go through the states a client may rely on, and *)
(* the data is there exactly when the record says so, whatever fails or    *)
(* crashes in between.                                                     *)
Lifecycle == INSTANCE JobLifecycle WITH
    Job <- Export, Result <- Data, NoResult <- NoData,
    status <- [x \in Export |-> jobs[x].status],
    result <- [x \in Export |-> jobs[x].data]
JobsImplemented == Lifecycle!Spec

(* A job that no crash and no failed write has hit ends.                   *)
JobsEnd ==
    \A x \in Export :
        jobs[x].status = "queued" ~> jobs[x].status \in {"done", "error"} \/ x \in faults
=============================================================================
