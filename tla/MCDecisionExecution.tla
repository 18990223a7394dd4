----------------------- MODULE MCDecisionExecution -----------------------
(* Instances of DecisionExecution for TLC.                                 *)
EXTENDS DecisionExecution, TLC

CONSTANTS f1, f2, r1, r2

(* Neither facts nor requests are told apart.                              *)
Twins == Permutations({f1, f2}) \cup Permutations({r1, r2})

=============================================================================
