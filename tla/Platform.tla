------------------------------ MODULE Platform ------------------------------
(***************************************************************************)
(* What the parts of the control plane share: the store behind the API and *)
(* the clock.  The parts keep disjoint state, so a behaviour in which two  *)
(* of them take turns is, for each, a behaviour of its own with idle steps *)
(* in between: a run looks at one part at a time, chosen at the start.     *)
(***************************************************************************)
EXTENDS Naturals

CONSTANTS
    Parts,      \* the parts a run looks at
    MaxTime,    \* the clock stops here
    MaxFaults   \* store calls that fail, where their number matters

ASSUME MaxTimeAssumption == MaxTime \in Nat \ {0}
ASSUME MaxFaultsAssumption == MaxFaults \in Nat

VARIABLES
    part,       \* the part this behaviour is about
    backend,    \* "badger" or "postgres"
    clock

platformVars == <<part, backend, clock>>

PlatformInit ==
    /\ part \in Parts
    /\ backend \in {"badger", "postgres"}
    /\ clock = 1

Time == 1 .. MaxTime

(* How many there are altogether of what s counts instant by instant.      *)
Total(s) ==
    LET upTo[t \in 0 .. MaxTime] == IF t = 0 THEN 0 ELSE upTo[t - 1] + s[t]
    IN  upTo[MaxTime]

Tick == /\ clock < MaxTime
        /\ clock' = clock + 1
        /\ UNCHANGED <<part, backend>>
=============================================================================
