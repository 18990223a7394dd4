--------------------------- MODULE MCGlobalTruth ---------------------------
(* Instances of GlobalTruth for TLC.                                       *)
EXTENDS GlobalTruth, TLC

CONSTANTS a, b, c, l, s1, s2

(* c joins a and b, and the local fact rests on c.                         *)
JoinedParents == [g \in GlobalId |-> IF g = c THEN {a, b} ELSE {}]
NeedsJoined == [x \in LocalId |-> {c}]

(* Neither the sessions nor the two roots are told apart.                  *)
Twins == Permutations({a, b}) \cup Permutations(Session)

=============================================================================
