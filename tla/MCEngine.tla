------------------------------ MODULE MCEngine ------------------------------
(* Instances of Engine for TLC.                                            *)
EXTENDS Engine

CONSTANTS a, b, c, d

Pos(f) == [id |-> f, neg |-> FALSE]
Neg(f) == [id |-> f, neg |-> TRUE]

Plain(f) ==
    [id |-> f, isRoot |-> FALSE, manual |-> 0, sets |-> {},
     hypothetical |-> FALSE, source |-> "tool", allowedSources |-> {},
     needsVerified |-> FALSE, limitsAge |-> FALSE,
     verified |-> FALSE, expires |-> FALSE]

Root(f, confidence) == [Plain(f) EXCEPT !.isRoot = TRUE, !.manual = confidence]
Derived(f, sets) == [Plain(f) EXCEPT !.sets = sets]

(* Confidence in tenths: 6 is exactly on the threshold, 5 is below it on   *)
(* both sides of a negation.                                               *)
TenthsOfConfidence == {0, 4, 5, 6, 10}

(* Alternatives, conjunction and negation over two roots, one of which is  *)
(* hypothetical or not, verified or not, the other of which expires; a     *)
(* child that may rest on verified or on recent facts from a tool only, a  *)
(* child in each scope, and one that rests on itself.                      *)
GraphFacts ==
    {[Root(a, 10) EXCEPT !.hypothetical = TRUE],
     [Root(a, 10) EXCEPT !.source = "user", !.verified = TRUE],
     [Root(b, 6) EXCEPT !.expires = TRUE],
     [Derived(c, {{Pos(a)}, {Pos(b)}}) EXCEPT !.needsVerified = TRUE],
     [Derived(c, {{Pos(a), Neg(b)}}) EXCEPT !.allowedSources = {"tool"},
                                            !.limitsAge = TRUE],
     [Derived(d, {{Pos(c), Pos(a)}, {Neg(b)}}) EXCEPT !.hypothetical = TRUE],
     Derived(d, {{Neg(c), Pos(b)}}),
     Derived(d, {{Neg(d)}})}

=============================================================================
