--------------------------- MODULE MCEngineQueries ---------------------------
(* Instances of EngineQueries for TLC.                                     *)
EXTENDS EngineQueries

CONSTANTS a, b, c, d

Pos(f) == [id |-> f, neg |-> FALSE]
Neg(f) == [id |-> f, neg |-> TRUE]

Plain(f) ==
    [id |-> f, isRoot |-> FALSE, manual |-> 0, sets |-> {},
     hypothetical |-> FALSE, source |-> "tool", allowedSources |-> {},
     needsVerified |-> FALSE, limitsAge |-> FALSE,
     verified |-> FALSE, expires |-> FALSE]

Root(f, confidence) == [Plain(f) EXCEPT !.isRoot = TRUE, !.manual = confidence]
Derived(f, sets) == [Plain(f) EXCEPT !.sets = sets]

Extremes == {0, 10}

(* Two roots, a conjunction, alternatives, and a chain below them; one     *)
(* root may expire.                                                        *)
MonotoneFacts ==
    {[Root(a, 10) EXCEPT !.expires = TRUE], Root(b, 0),
     Derived(c, {{Pos(a)}}),
     Derived(c, {{Pos(a), Pos(b)}}),
     Derived(d, {{Pos(c)}}),
     Derived(d, {{Pos(c), Pos(a)}, {Pos(b)}})}

(* The same with a negation in place of the second root, and a fact that   *)
(* rests on itself.                                                        *)
QueryFacts == MonotoneFacts \cup {Derived(b, {{Neg(a)}}), Derived(d, {{Neg(d)}})}

(* Two alternatives, one of which rests on two roots.                      *)
AlternativeFacts ==
    {Root(a, 10), Root(b, 10), Root(c, 10),
     Derived(d, {{Pos(a)}, {Pos(b), Pos(c)}})}

=============================================================================
