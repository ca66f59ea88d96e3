---------------------------- MODULE IpcConnection -----------------------------
(***************************************************************************)
(* One authenticated connection of the daemon: the loop that reads the     *)
(* requests of the client, the task it spawns for each, and the map of     *)
(* in-flight requests through which a later request can cancel an earlier  *)
(* one.  Requests are numbered in the order in which the loop reads them;  *)
(* the id is whatever the client wrote into the request.                   *)
(***************************************************************************)
EXTENDS Integers, FiniteSets

CONSTANTS
    Id,             \* request ids
    MaxInflight,    \* MAX_INFLIGHT_REQUESTS
    MaxRequests,    \* bound on the requests the client sends
    ReuseIds        \* whether the client may send an id a second time

ASSUME IpcAssumption ==
    /\ MaxInflight \in Nat \ {0}
    /\ MaxRequests \in Nat
    /\ ReuseIds \in BOOLEAN

Request == 1..MaxRequests
NoRequest == 0

VARIABLES
    loop,        \* "read", "signal" (inside cancel_request), "reply" (after it), or
                 \* why the loop ended
    sent,        \* how many requests the loop has read
    id,          \* id[r]: the id of request r
    task,        \* task[r]: where the task of request r stands
    cancelled,   \* cancelled[r]: whether the token of r is cancelled
    answers,     \* answers[r]: how many responses to r were written
    inflight,    \* inflight[i]: the request under id i in the map
    cancelling,  \* the request whose token cancel_request took from the map
    expired,     \* the session's expiry time has passed
    peerGone     \* the client has closed its end

vars == <<loop, sent, id, task, cancelled, answers, inflight, cancelling, expired, peerGone>>

Init ==
    /\ loop = "read"
    /\ sent = 0
    /\ id \in [Request -> Id]
    /\ task = [r \in Request |-> "none"]
    /\ cancelled = [r \in Request |-> FALSE]
    /\ answers = [r \in Request |-> 0]
    /\ inflight = [i \in Id |-> NoRequest]
    /\ cancelling = NoRequest
    /\ expired = FALSE
    /\ peerGone = FALSE

InMap == {i \in Id : inflight[i] # NoRequest}

(* The loop reads request r, which is the next one; it may still be in the *)
(* socket's buffer when the client has gone.                               *)
Reads(r) ==
    /\ loop = "read"
    /\ r = sent + 1
    /\ sent' = r
    /\ ReuseIds \/ \A s \in 1..sent : id[s] # id[r]

(* write_response from the loop.  An error leaves the loop at once, so     *)
(* nothing that follows the write happens.                                 *)
LoopWrites(r, next) ==
    \/ /\ answers' = [answers EXCEPT ![r] = @ + 1]
       /\ loop' = next
    \/ /\ peerGone
       /\ loop' = "error"
       /\ UNCHANGED answers

-----------------------------------------------------------------------------
(* handle_connection *)

(* Mutant of AcceptCall: the limit is off by one.                          *)
AcceptOneTooMany(r) ==
    /\ Reads(r)
    /\ ~expired
    /\ inflight[id[r]] = NoRequest
    /\ Cardinality(InMap) <= MaxInflight
    /\ inflight' = [inflight EXCEPT ![id[r]] = r]
    /\ task' = [task EXCEPT ![r] = "running"]
    /\ UNCHANGED <<loop, id, cancelled, answers, cancelling, expired, peerGone>>

(* A call that is not a cancellation and whose envelope is valid is put    *)
(* into the map and given a task.                                          *)
AcceptCall(r) ==
    /\ Reads(r)
    /\ ~expired
    /\ inflight[id[r]] = NoRequest
    /\ Cardinality(InMap) < MaxInflight
    /\ inflight' = [inflight EXCEPT ![id[r]] = r]
    /\ task' = [task EXCEPT ![r] = "running"]
    /\ UNCHANGED <<loop, id, cancelled, answers, cancelling, expired, peerGone>>

(* It is refused when its id is in the map or the map is full; a call with *)
(* an invalid envelope is refused in any case.                             *)
RefuseCall(r, valid) ==
    /\ Reads(r)
    /\ ~expired
    /\ valid => inflight[id[r]] # NoRequest \/ Cardinality(InMap) >= MaxInflight
    /\ LoopWrites(r, "read")
    /\ UNCHANGED <<id, task, cancelled, inflight, cancelling, expired, peerGone>>

(* Mutant of CancelTakes: a missing token is taken for one.                *)
CancelTakesNothing(r, target) ==
    /\ Reads(r)
    /\ ~expired
    /\ cancelling' = inflight[target]
    /\ inflight' = [inflight EXCEPT ![target] = NoRequest]
    /\ loop' = "signal"
    /\ UNCHANGED <<id, task, cancelled, answers, expired, peerGone>>

(* cancel_request takes the token out of the map ...                       *)
CancelTakes(r, target) ==
    /\ Reads(r)
    /\ ~expired
    /\ inflight[target] # NoRequest
    /\ cancelling' = inflight[target]
    /\ inflight' = [inflight EXCEPT ![target] = NoRequest]
    /\ loop' = "signal"
    /\ UNCHANGED <<id, task, cancelled, answers, expired, peerGone>>

(* Mutants of CancelSignals: the token is dropped without being signalled; *)
(* the request that was cancelled is given an answer of its own.           *)
CancelDropsToken ==
    /\ loop = "signal"
    /\ cancelling' = NoRequest
    /\ loop' = "reply"
    /\ UNCHANGED <<sent, id, task, cancelled, answers, inflight, expired, peerGone>>

CancelAnswersTarget ==
    /\ loop = "signal"
    /\ cancelled' = [cancelled EXCEPT ![cancelling] = TRUE]
    /\ cancelling' = NoRequest
    /\ answers' = [answers EXCEPT ![cancelling] = @ + 1]
    /\ loop' = "reply"
    /\ UNCHANGED <<sent, id, task, inflight, expired, peerGone>>

(* ... and signals it after the lock is released.                          *)
CancelSignals ==
    /\ loop = "signal"
    /\ cancelled' = [cancelled EXCEPT ![cancelling] = TRUE]
    /\ cancelling' = NoRequest
    /\ loop' = "reply"
    /\ UNCHANGED <<sent, id, task, answers, inflight, expired, peerGone>>

(* The loop then writes the answer, cancelled: true, for which it waits    *)
(* while the tasks go on.                                                  *)
CancelReplies ==
    /\ loop = "reply"
    /\ LoopWrites(sent, "read")
    /\ UNCHANGED <<sent, id, task, cancelled, inflight, cancelling, expired, peerGone>>

(* A cancellation of an id that is not in the map is answered with         *)
(* cancelled: false.                                                       *)
CancelMisses(r, target) ==
    /\ Reads(r)
    /\ ~expired
    /\ inflight[target] = NoRequest
    /\ LoopWrites(r, "read")
    /\ UNCHANGED <<id, task, cancelled, inflight, cancelling, expired, peerGone>>

(* cancel_all: every token in the map is cancelled and the map emptied.    *)
CancelAll ==
    /\ cancelled' = [r \in Request |-> cancelled[r] \/ \E i \in Id : inflight[i] = r]
    /\ inflight' = [i \in Id |-> NoRequest]

(* The session has expired: the request is refused and, once the refusal   *)
(* is written, every other one is cancelled and the loop ends.             *)
ReadExpired(r) ==
    /\ Reads(r)
    /\ expired
    /\ LoopWrites(r, "expired")
    /\ IF loop' = "expired" THEN CancelAll ELSE UNCHANGED <<cancelled, inflight>>
    /\ UNCHANGED <<id, task, cancelling, expired, peerGone>>

(* Mutant of ReadEof: cancel_all is not called.                            *)
ReadEofOnly ==
    /\ loop = "read"
    /\ peerGone
    /\ loop' = "eof"
    /\ UNCHANGED <<sent, id, task, cancelled, answers, inflight, cancelling, expired, peerGone>>

ReadEof ==
    /\ loop = "read"
    /\ peerGone
    /\ CancelAll
    /\ loop' = "eof"
    /\ UNCHANGED <<sent, id, task, answers, cancelling, expired, peerGone>>

(* Any other error of read_json, a frame that is too long or not a         *)
(* request, leaves the loop and cancels nothing.                           *)
ReadGarbage ==
    /\ loop = "read"
    /\ loop' = "error"
    /\ UNCHANGED <<sent, id, task, cancelled, answers, inflight, cancelling, expired, peerGone>>

-----------------------------------------------------------------------------
(* The spawned task *)

(* Mutants of TaskChecks: the answer is also dropped after the expiry      *)
(* time; the token is not looked at.                                       *)
TaskChecksExpiry(r) ==
    /\ task[r] = "running"
    /\ task' = [task EXCEPT ![r] = IF cancelled[r] \/ expired THEN "leaving" ELSE "answering"]
    /\ UNCHANGED <<loop, sent, id, cancelled, answers, inflight, cancelling, expired, peerGone>>

TaskChecksNothing(r) ==
    /\ task[r] = "running"
    /\ task' = [task EXCEPT ![r] = "answering"]
    /\ UNCHANGED <<loop, sent, id, cancelled, answers, inflight, cancelling, expired, peerGone>>

(* dispatch has run; the token decides whether its answer is written.      *)
TaskChecks(r) ==
    /\ task[r] = "running"
    /\ task' = [task EXCEPT ![r] = IF cancelled[r] THEN "leaving" ELSE "answering"]
    /\ UNCHANGED <<loop, sent, id, cancelled, answers, inflight, cancelling, expired, peerGone>>

(* The write waits for the writer and for the client to read; one that     *)
(* fails because the client has gone is only logged.                       *)
TaskWrites(r) ==
    /\ task[r] = "answering"
    /\ task' = [task EXCEPT ![r] = "leaving"]
    /\ \/ answers' = [answers EXCEPT ![r] = @ + 1]
       \/ peerGone /\ UNCHANGED answers
    /\ UNCHANGED <<loop, sent, id, cancelled, inflight, cancelling, expired, peerGone>>

(* A response that does not fit a frame is refused by write_frame: that is *)
(* logged, and the client, which is still there, hears nothing.            *)
TaskDrops(r) ==
    /\ task[r] = "answering"
    /\ task' = [task EXCEPT ![r] = "dropped"]
    /\ UNCHANGED <<loop, sent, id, cancelled, answers, inflight, cancelling, expired, peerGone>>

(* The task removes whatever is in the map under its id.                   *)
TaskLeaves(r) ==
    /\ task[r] \in {"leaving", "dropped"}
    /\ task' = [task EXCEPT ![r] = "done"]
    /\ inflight' = [inflight EXCEPT ![id[r]] = NoRequest]
    /\ UNCHANGED <<loop, sent, id, cancelled, answers, cancelling, expired, peerGone>>

-----------------------------------------------------------------------------
(* The client and the clock *)

PeerCloses ==
    /\ ~peerGone
    /\ peerGone' = TRUE
    /\ UNCHANGED <<loop, sent, id, task, cancelled, answers, inflight, cancelling, expired>>

SessionExpires ==
    /\ ~expired
    /\ expired' = TRUE
    /\ UNCHANGED <<loop, sent, id, task, cancelled, answers, inflight, cancelling, peerGone>>

LoopStep ==
    \/ \E r \in Request : AcceptCall(r)
    \/ \E r \in Request, valid \in BOOLEAN : RefuseCall(r, valid)
    \/ \E r \in Request, target \in Id : CancelTakes(r, target)
    \/ \E r \in Request, target \in Id : CancelMisses(r, target)
    \/ CancelSignals
    \/ CancelReplies
    \/ \E r \in Request : ReadExpired(r)
    \/ ReadEof
    \/ ReadGarbage

TaskStep(r) == TaskChecks(r) \/ TaskWrites(r) \/ TaskDrops(r) \/ TaskLeaves(r)

Next ==
    \/ LoopStep
    \/ \E r \in Request : TaskStep(r)
    \/ PeerCloses
    \/ SessionExpires

Spec == Init /\ [][Next]_vars

(* The runtime polls what it has spawned, and dispatch returns.  Nothing   *)
(* is promised about a write, which waits until the client reads, nor of   *)
(* the client, which need not send anything.                               *)
FairSpec ==
    /\ Spec
    /\ WF_vars(CancelSignals)
    /\ WF_vars(ReadEof)
    /\ \A r \in Request : WF_vars(TaskChecks(r)) /\ WF_vars(TaskLeaves(r))

(* The client reads what it is sent, so that every write comes to an end.  *)
ClientReads ==
    /\ WF_vars(CancelReplies)
    /\ \A r \in Request : WF_vars(TaskWrites(r) \/ TaskDrops(r))

-----------------------------------------------------------------------------
(* Properties *)

TypeOK ==
    /\ loop \in {"read", "signal", "reply", "eof", "expired", "error"}
    /\ sent \in 0..MaxRequests
    /\ id \in [Request -> Id]
    /\ task \in [Request -> {"none", "running", "answering", "leaving", "dropped", "done"}]
    /\ cancelled \in [Request -> BOOLEAN]
    /\ answers \in [Request -> Nat]
    /\ inflight \in [Id -> Request \cup {NoRequest}]
    /\ cancelling \in IF loop = "signal" THEN Request ELSE {NoRequest}
    /\ expired \in BOOLEAN
    /\ peerGone \in BOOLEAN

(* A request is never answered twice, by its task and by the loop or by a  *)
(* task that lost its place in the map.                                    *)
AnsweredOnce == \A r \in Request : answers[r] <= 1

(* The request was accepted, its response is not written or dropped yet,   *)
(* and nobody has cancelled it.  A task whose token is cancelled after it  *)
(* has looked at it is not open any more and still writes its response.    *)
Open(r) == task[r] \in {"running", "answering"} /\ ~cancelled[r]

(* An open request is in the map under its id, unless its cancellation is  *)
(* under way, so that cancel_request and cancel_all reach it and a second  *)
(* request with its id is refused.                                         *)
OpenRequestsInMap ==
    \A r \in Request : Open(r) => inflight[id[r]] = r \/ cancelling = r

(* MAX_INFLIGHT_REQUESTS limits the open requests, and nothing else takes  *)
(* a place: every entry of the map is that of a task which has not ended.  *)
(* Cancelled requests come on top of the limit, as dispatch runs on and    *)
(* a task past its check still writes.                                     *)
LimitCountsOpenRequests ==
    /\ Cardinality({r \in Request : Open(r)}) <= MaxInflight
    /\ \A i \in InMap : /\ id[inflight[i]] = i
                        /\ task[inflight[i]] \notin {"none", "done"}

(* When the loop has ended because the client closed the connection or the *)
(* session expired, every task that has not looked at its token yet finds  *)
(* it cancelled and writes nothing.  The others have their response ready  *)
(* and still write it.                                                     *)
OrderlyEndCancels ==
    loop \in {"eof", "expired"} => \A r \in Request : task[r] = "running" => cancelled[r]

(* What has become of request r, as the client may think of it.            *)
Life(r) ==
    CASE answers[r] > 0 -> "answered"
      [] answers[r] = 0 /\ (r > sent \/ (loop = "signal" /\ r = sent)) -> "unread"
      [] answers[r] = 0 /\ loop = "reply" /\ r = sent -> "cancelling"
      [] task[r] = "answering" -> "answering"
      [] task[r] = "running" /\ ~cancelled[r] -> "pending"
      [] OTHER -> "dropped"

Service == INSTANCE RequestService
               WITH life <- [r \in Request |-> Life(r)],
                    serving <- loop \in {"read", "signal", "reply"}

(* The loop, the tasks and cancel_request, which takes a token out of the  *)
(* map, lets go of the lock and only then signals it, look like a service  *)
(* that cancels in one step and answers a request at most once: whatever   *)
(* is cancelled before its task has looked at the token stays unanswered.  *)
ServesRequests == Service!Spec

(* If the client reads, every accepted request is answered, unless it is   *)
(* cancelled, its response does not fit a frame or the client goes away;   *)
(* neither an error that ends the loop nor the expiry of the session       *)
(* silences it without a cancellation.                                     *)
AcceptedIsAnswered ==
    ClientReads =>
        \A r \in Request :
            task[r] = "running"
                ~> (answers[r] = 1 \/ cancelled[r] \/ task[r] = "dropped" \/ peerGone)
=============================================================================
