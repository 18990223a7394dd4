--------------------------- MODULE MCSessionStore ---------------------------
(* Instances of SessionStore for TLC.                                      *)
EXTENDS SessionStore, TLC

CONSTANTS r1, r2, a, b

(* b rests on a.                                                         *)
ChainParents == [f \in FactId |-> IF f = b THEN {a} ELSE {}]

EveryKind == {"assert", "invalidate", "retract", "revalidate"}
Mutations == {"assert", "retract", "verify"}
AssertRevalidate == {"assert", "revalidate"}

Twins == Permutations(Request)

=============================================================================
