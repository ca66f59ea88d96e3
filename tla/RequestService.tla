---------------------------- MODULE RequestService ----------------------------
(***************************************************************************)
(* What one connection of the daemon promises its client about every       *)
(* request, in one step where the code takes several: requests are read in *)
(* order; each is answered at most once; a cancellation silences a pending *)
(* request in one step, before it is answered itself; an orderly end       *)
(* silences every one that is pending.                                     *)
(***************************************************************************)
EXTENDS Integers, FiniteSets

CONSTANTS
    Request,       \* the requests, numbers in the order of the stream
    MaxInflight    \* how many may be pending

VARIABLES
    life,      \* life[r]: what has become of request r
    serving    \* the connection still takes requests

Init ==
    /\ life = [r \in Request |-> "unread"]
    /\ serving = TRUE

Pending == {r \in Request : life[r] = "pending"}

(* r is the next request of the stream.                                    *)
Turn(r) ==
    /\ serving
    /\ life[r] = "unread"
    /\ \A s \in Request : s < r => life[s] \notin {"unread", "cancelling"}

Accept(r) ==
    /\ Turn(r)
    /\ Cardinality(Pending) < MaxInflight
    /\ life' = [life EXCEPT ![r] = "pending"]
    /\ UNCHANGED serving

(* r is answered, or its answer cannot be written, which ends the          *)
(* connection.                                                             *)
Reply(r) ==
    \E how \in {"answered", "dropped"} :
        /\ life' = [life EXCEPT ![r] = how]
        /\ serving' = (how = "answered")

Refuse(r) == Turn(r) /\ Reply(r)

(* r is a cancellation.  It silences at most one request, in one step, and *)
(* is answered after that.                                                 *)
Cancel(r, S) ==
    /\ Turn(r)
    /\ S \subseteq Pending
    /\ life' = [s \in Request |-> IF s = r THEN "cancelling"
                                  ELSE IF s \in S THEN "dropped" ELSE life[s]]
    /\ UNCHANGED serving

Confirm(r) == life[r] = "cancelling" /\ Reply(r)

(* The end of the stream, or a request after the session has expired.      *)
Silenced(s) == IF s \in Pending THEN "dropped" ELSE life[s]

End ==
    /\ serving
    /\ serving' = FALSE
    /\ life' = [s \in Request |-> Silenced(s)]

Expire(r) ==
    /\ Turn(r)
    /\ serving' = FALSE
    /\ life' = [s \in Request |-> IF s = r THEN "answered" ELSE Silenced(s)]

(* A stream that breaks: what is pending is still answered.                *)
Break ==
    /\ serving
    /\ serving' = FALSE
    /\ UNCHANGED life

(* From here on the answer of r is out of reach of a cancellation.         *)
Decide(r) ==
    /\ life[r] = "pending"
    /\ life' = [life EXCEPT ![r] = "answering"]
    /\ UNCHANGED serving

Answer(r) ==
    /\ life[r] = "answering"
    /\ \E how \in {"answered", "dropped"} : life' = [life EXCEPT ![r] = how]
    /\ UNCHANGED serving

Next ==
    \/ \E r \in Request : Accept(r) \/ Refuse(r) \/ Expire(r) \/ Decide(r) \/ Answer(r)
    \/ \E r \in Request : Cancel(r, {}) \/ (\E s \in Request : Cancel(r, {s})) \/ Confirm(r)
    \/ End
    \/ Break

Spec == Init /\ [][Next]_<<life, serving>>
=============================================================================
