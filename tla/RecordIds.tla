----------------------------- MODULE RecordIds -----------------------------
(***************************************************************************)
(* The ids of records, sources and findings (model/ids.py): uuid7 is one   *)
(* generator per process, two numbers behind a lock.  The wall clock it    *)
(* reads may stand still or step back.  The random field is small here, so *)
(* that it overflows; the timestamp's 48 bits are not.                     *)
(***************************************************************************)
EXTENDS Integers

CONSTANTS
    RandA, RandB   \* how many values rand_a and rand_b take: 2^12 and 2^62

ASSUME RandAssumption == RandA \in Nat \ {0} /\ RandB \in Nat \ {0}

Rand == 0..(RandA * RandB - 1)

Generator == [ms : Nat \cup {-1}, rand : Rand]

NewGenerator == [ms |-> -1, rand |-> 0]

VERSION == 7

VARIANT == 2

\* The id as a number: ms, version, rand_a, variant and rand_b, in this order.
compose(g) ==
    (((g.ms * 16 + VERSION) * RandA + (g.rand \div RandB)) * 4 + VARIANT) * RandB
        + (g.rand % RandB)

Fresh(ms) == [ms : {ms}, rand : Rand]

\* Mutant: a clock that stepped back is believed.
uuid7_backwards(g, clock) ==
    IF clock # g.ms THEN Fresh(clock)
    ELSE IF g.rand + 1 \in Rand THEN {[g EXCEPT !.rand = @ + 1]}
    ELSE Fresh(g.ms + 1)

\* Mutant: the random field is bumped past its width.
uuid7_overflows(g, clock) ==
    IF clock > g.ms THEN Fresh(clock) ELSE {[g EXCEPT !.rand = @ + 1]}

\* The states the generator can be in after one id.
uuid7(g, clock) ==
    IF clock > g.ms THEN Fresh(clock)
    ELSE IF g.rand + 1 \in Rand THEN {[g EXCEPT !.rand = @ + 1]}
    ELSE Fresh(g.ms + 1)
=============================================================================
