----------------------------- MODULE SerialCalls ------------------------------
(***************************************************************************)
(* What the bridge's connection promises the tool calls of the MCP host:   *)
(* they are served one at a time in the order in which they came; a call   *)
(* that is answered gets its own answer; a call that is given up takes the *)
(* connection with it, and nothing is sent on it any more.                 *)
(***************************************************************************)
EXTENDS Sequences

CONSTANT Call

VARIABLES
    stage,    \* stage[k]: "new", "waiting", "out" or "returned"
    line,     \* the calls that wait, the next one first
    result,   \* result[k]: what call k has returned
    usable    \* the connection has not been given up

vars == <<stage, line, result, usable>>

Init ==
    /\ stage = [k \in Call |-> "new"]
    /\ line = <<>>
    /\ result = [k \in Call |-> "none"]
    /\ usable = TRUE

Return(k, r) ==
    /\ stage' = [stage EXCEPT ![k] = "returned"]
    /\ result' = [result EXCEPT ![k] = r]

Reject(k) ==
    /\ stage[k] = "new"
    /\ Return(k, "invalid params")
    /\ UNCHANGED <<line, usable>>

Join(k) ==
    /\ stage[k] = "new"
    /\ stage' = [stage EXCEPT ![k] = "waiting"]
    /\ line' = Append(line, k)
    /\ UNCHANGED <<result, usable>>

(* The first of the line has its turn when no call is out.                 *)
Turn ==
    /\ \A k \in Call : stage[k] # "out"
    /\ line # <<>>
    /\ line' = Tail(line)

Send ==
    /\ Turn
    /\ usable
    /\ stage' = [stage EXCEPT ![Head(line)] = "out"]
    /\ UNCHANGED <<result, usable>>

SendFails ==
    /\ Turn
    /\ usable
    /\ Return(Head(line), "frame")
    /\ usable' = FALSE

(* No request could be made of the call; the connection stays.             *)
SendNothing ==
    /\ Turn
    /\ usable
    /\ Return(Head(line), "not made")
    /\ UNCHANGED usable

TurnAway ==
    /\ Turn
    /\ ~usable
    /\ Return(Head(line), "connection closed")
    /\ UNCHANGED usable

Answer(k) ==
    /\ stage[k] = "out"
    /\ usable
    /\ \E r \in {"success", "failure"} : Return(k, r)
    /\ UNCHANGED <<line, usable>>

GiveUp(k) ==
    /\ stage[k] = "out"
    /\ \E r \in {"timeout", "frame"} : Return(k, r)
    /\ usable' = FALSE
    /\ UNCHANGED line

Next ==
    \/ \E k \in Call : Reject(k) \/ Join(k) \/ Answer(k) \/ GiveUp(k)
    \/ Send
    \/ SendFails
    \/ SendNothing
    \/ TurnAway

Spec == Init /\ [][Next]_vars
=============================================================================
