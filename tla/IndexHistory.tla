----------------------------- MODULE IndexHistory -----------------------------
(***************************************************************************)
(* What the operational database promises, transaction by transaction: the *)
(* committed states follow each other in whole steps, each made from the   *)
(* one before it, and notes never change without a new revision.  A loss   *)
(* of power takes the last ones that are not settled.                      *)
(***************************************************************************)
EXTENDS Naturals, Sequences

CONSTANTS Text, Statements

VARIABLES
    history,   \* the committed states of the database
    settled    \* the ones up to this one are there for good

latest == history[Len(history)]

Init == Len(history) = 1 /\ settled = 1

Add(state) ==
    /\ history' = Append(history, state)
    /\ UNCHANGED settled

(* The whole schema appears, once.                                         *)
Migrate ==
    /\ latest.version = 0
    /\ Add([latest EXCEPT !.version = 1, !.tables = Statements])

(* An index takes the place of the latest one.                             *)
Replace(text) ==
    /\ latest.version = 1
    /\ Add([latest EXCEPT !.notes = text, !.revision = @ + 1])

(* A reconciliation that finds every row as it was.                        *)
Confirm ==
    /\ latest.version = 1
    /\ latest.revision > 0
    /\ Add(latest)

Settle ==
    /\ settled' = Len(history)
    /\ UNCHANGED history

Lose ==
    /\ \E n \in settled..(Len(history) - 1) : history' = SubSeq(history, 1, n)
    /\ UNCHANGED settled

Next == Migrate \/ (\E text \in Text : Replace(text)) \/ Confirm \/ Settle \/ Lose

Spec == Init /\ [][Next]_<<history, settled>>
=============================================================================
