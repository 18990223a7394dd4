---------------------------- MODULE JobLifecycle ----------------------------
(***************************************************************************)
(* What a client of the export jobs may rely on: a job is queued, may run, *)
(* and ends at most once, with its result in place from that moment on or  *)
(* with an error.  A job that has ended never changes again.               *)
(***************************************************************************)
CONSTANTS Job, Result, NoResult

VARIABLES
    status,  \* status[j]: what the job's record says
    result   \* result[j]: what a download of the job returns

vars == <<status, result>>

Init == /\ status = [j \in Job |-> "none"]
        /\ result = [j \in Job |-> NoResult]

Submit(j) == /\ status[j] = "none"
             /\ status' = [status EXCEPT ![j] = "queued"]
             /\ UNCHANGED result

Start(j) == /\ status[j] = "queued"
            /\ status' = [status EXCEPT ![j] = "running"]
            /\ UNCHANGED result

Finish(j, r) == /\ status[j] \in {"queued", "running"}
                /\ status' = [status EXCEPT ![j] = "done"]
                /\ result' = [result EXCEPT ![j] = r]

Fail(j) == /\ status[j] \in {"queued", "running"}
           /\ status' = [status EXCEPT ![j] = "error"]
           /\ UNCHANGED result

Next == \E j \in Job : \/ Submit(j) \/ Start(j) \/ Fail(j)
                       \/ \E r \in Result : Finish(j, r)

Spec == Init /\ [][Next]_vars
=============================================================================
