------------------------------ MODULE PointerPair -----------------------------
(***************************************************************************)
(* What the pair of pointers `current` and `previous` of an installation   *)
(* promises: both change in one step, to a new current version and the one *)
(* it replaces, or not at all.  A change that is not settled yet may be    *)
(* undone by a loss of power, which then finds a pair that was in force.   *)
(***************************************************************************)
CONSTANTS Version, None

VARIABLES
    pair,    \* <<current, previous>>
    kept     \* the pairs that a loss of power may come back to

Init ==
    /\ pair = <<None, None>>
    /\ kept = {pair}

Switch(v) ==
    /\ v # pair[1]
    /\ pair' = <<v, pair[1]>>
    /\ kept' = kept \cup {pair'}

Settle ==
    /\ kept' = {pair}
    /\ UNCHANGED pair

Lose ==
    /\ pair' \in kept
    /\ kept' = {pair'}

Next == (\E v \in Version : Switch(v)) \/ Settle \/ Lose

Spec == Init /\ [][Next]_<<pair, kept>>
=============================================================================
