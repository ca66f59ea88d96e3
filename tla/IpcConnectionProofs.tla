-------------------------- MODULE IpcConnectionProofs -------------------------
(***************************************************************************)
(* Proofs about IpcConnection for any set of ids, any limit of the map and *)
(* any number of requests.                                                 *)
(***************************************************************************)
EXTENDS IpcConnection, FiniteSetTheorems, TLAPS

(* Requests the loop has not read have neither a task nor an answer.       *)
Unread == \A r \in Request : r > sent => task[r] = "none" /\ answers[r] = 0

(* A task that has not written yet is the only one that will answer.       *)
Unanswered == \A r \in Request : task[r] \in {"running", "answering"} => answers[r] = 0

(* The loop owes one answer to a cancellation that it is carrying out.     *)
OwesCancellation ==
    loop \in {"signal", "reply"} => sent \in Request /\ task[sent] = "none" /\ answers[sent] = 0

AnswerInv == TypeOK /\ Unread /\ Unanswered /\ OwesCancellation /\ AnsweredOnce

(* Without reuse no two requests that were read share an id.               *)
DistinctIds == \A r, s \in 1..sent : id[r] = id[s] => r = s

MapInv == AnswerInv /\ DistinctIds /\ OpenRequestsInMap /\ OrderlyEndCancels

USE IpcAssumption DEF Request, NoRequest

(* cancel_all leaves a map of the same type.                               *)
LEMMA CancelAllType ==
    ASSUME TypeOK, CancelAll
    PROVE  /\ cancelled' \in [Request -> BOOLEAN]
           /\ inflight' \in [Id -> Request \cup {NoRequest}]
<1>1. ASSUME NEW r \in Request
      PROVE  (cancelled[r] \/ \E i \in Id : inflight[i] = r) \in BOOLEAN
  BY Zenon
<1>2. cancelled' \in [Request -> BOOLEAN]
  BY <1>1, Zenon DEF CancelAll
<1>3. inflight' \in [Id -> Request \cup {NoRequest}]
  BY DEF CancelAll
<1>4. QED
  BY <1>2, <1>3

(* write_response from the loop answers the request that it is given and   *)
(* no other.                                                               *)
LEMMA LoopWritesOne ==
    ASSUME answers \in [Request -> Nat], AnsweredOnce, NEW r \in Request, answers[r] = 0,
           NEW next, LoopWrites(r, next)
    PROVE  /\ answers' \in [Request -> Nat] /\ AnsweredOnce' /\ loop' \in {next, "error"}
           /\ \A s \in Request : s # r => answers'[s] = answers[s]
<1>1. CASE answers' = [answers EXCEPT ![r] = @ + 1] /\ loop' = next
  <2>1. \A s \in Request : answers'[s] = IF s = r THEN 1 ELSE answers[s]
    BY <1>1
  <2> QED
    BY <1>1, <2>1 DEF AnsweredOnce
<1>2. CASE loop' = "error" /\ UNCHANGED answers
  BY <1>2 DEF AnsweredOnce
<1> QED
  BY <1>1, <1>2 DEF LoopWrites

(* A loop that answers request r, which it has just read or was about to   *)
(* confirm, keeps the books.                                               *)
LEMMA LoopAnswerStep ==
    ASSUME AnswerInv, NEW r \in Request, LoopWrites(r, "read"), sent' = r, r >= sent,
           answers[r] = 0, task[r] = "none", UNCHANGED <<id, task, cancelled, inflight>>,
           UNCHANGED <<cancelling, expired, peerGone>>, cancelling = NoRequest
    PROVE  AnswerInv'
<1>1. /\ answers' \in [Request -> Nat] /\ AnsweredOnce' /\ loop' \in {"read", "error"}
      /\ \A s \in Request : s # r => answers'[s] = answers[s]
  BY LoopWritesOne DEF AnswerInv, TypeOK
<1>2. TypeOK'
  BY <1>1 DEF AnswerInv, TypeOK
<1>3. Unread' /\ Unanswered' /\ OwesCancellation'
  BY <1>1 DEF AnswerInv, TypeOK, Unread, Unanswered, OwesCancellation
<1> QED
  BY <1>1, <1>2, <1>3 DEF AnswerInv

(* The bookkeeping of answers is inductive whatever the client does.       *)
LEMMA AnswerStep == AnswerInv /\ [Next]_vars => AnswerInv'
<1> SUFFICES ASSUME AnswerInv, [Next]_vars
             PROVE  AnswerInv'
  OBVIOUS
<1> USE DEF AnswerInv, TypeOK, Unread, Unanswered, OwesCancellation, AnsweredOnce
<1>1. ASSUME NEW r \in Request, AcceptCall(r)
      PROVE  AnswerInv'
  BY <1>1 DEF AcceptCall, Reads
<1>2. ASSUME NEW r \in Request, NEW valid \in BOOLEAN, RefuseCall(r, valid)
      PROVE  AnswerInv'
  <2>1. /\ loop = "read" /\ r = sent + 1 /\ sent' = r /\ LoopWrites(r, "read")
        /\ UNCHANGED <<id, task, cancelled, inflight, cancelling, expired, peerGone>>
    BY <1>2 DEF RefuseCall, Reads
  <2>2. answers[r] = 0 /\ task[r] = "none" /\ cancelling = NoRequest /\ r >= sent
    BY <2>1
  <2> QED
    BY <2>1, <2>2, LoopAnswerStep
<1>3. ASSUME NEW r \in Request, NEW target \in Id, CancelTakes(r, target)
      PROVE  AnswerInv'
  BY <1>3 DEF CancelTakes, Reads
<1>4. ASSUME NEW r \in Request, NEW target \in Id, CancelMisses(r, target)
      PROVE  AnswerInv'
  <2>1. /\ loop = "read" /\ r = sent + 1 /\ sent' = r /\ LoopWrites(r, "read")
        /\ UNCHANGED <<id, task, cancelled, inflight, cancelling, expired, peerGone>>
    BY <1>4 DEF CancelMisses, Reads
  <2>2. answers[r] = 0 /\ task[r] = "none" /\ cancelling = NoRequest /\ r >= sent
    BY <2>1
  <2> QED
    BY <2>1, <2>2, LoopAnswerStep
<1>5. CASE CancelSignals
  BY <1>5 DEF CancelSignals
<1>5a. CASE CancelReplies
  BY <1>5a, LoopAnswerStep DEF CancelReplies
<1>6. ASSUME NEW r \in Request, ReadExpired(r)
      PROVE  AnswerInv'
  <2>1. /\ loop = "read" /\ r = sent + 1 /\ sent' = r /\ LoopWrites(r, "expired")
        /\ UNCHANGED <<id, task, cancelling, expired, peerGone>>
    BY <1>6 DEF ReadExpired, Reads
  <2>2. answers[r] = 0 /\ cancelling = NoRequest
    BY <2>1
  <2>3. /\ answers' \in [Request -> Nat] /\ AnsweredOnce' /\ loop' \in {"expired", "error"}
        /\ \A s \in Request : s # r => answers'[s] = answers[s]
    BY <2>1, <2>2, LoopWritesOne
  <2>4. cancelled' \in [Request -> BOOLEAN] /\ inflight' \in [Id -> Request \cup {NoRequest}]
    <3>1. CASE loop' = "expired"
      BY <1>6, <3>1, CancelAllType DEF ReadExpired
    <3>2. CASE loop' # "expired"
      BY <1>6, <3>2 DEF ReadExpired
    <3> QED
      BY <3>1, <3>2
  <2>5. TypeOK'
    BY <2>1, <2>2, <2>3, <2>4
  <2>6. Unread' /\ Unanswered' /\ OwesCancellation'
    BY <2>1, <2>3
  <2> QED
    BY <2>3, <2>5, <2>6
<1>7. CASE ReadEof
  BY <1>7 DEF ReadEof, CancelAll
<1>8. CASE ReadGarbage
  BY <1>8 DEF ReadGarbage
<1>9. ASSUME NEW r \in Request, TaskChecks(r)
      PROVE  AnswerInv'
  BY <1>9 DEF TaskChecks
<1>10. ASSUME NEW r \in Request, TaskWrites(r)
       PROVE  AnswerInv'
  <2> USE <1>10 DEF TaskWrites
  <2>1. TypeOK'
    OBVIOUS
  <2>2. Unread' /\ Unanswered'
    OBVIOUS
  <2>3. OwesCancellation'
    OBVIOUS
  <2>4. AnsweredOnce'
    OBVIOUS
  <2>5. QED
    BY <2>1, <2>2, <2>3, <2>4
<1>10a. ASSUME NEW r \in Request, TaskDrops(r)
        PROVE  AnswerInv'
  BY <1>10a DEF TaskDrops
<1>11. ASSUME NEW r \in Request, TaskLeaves(r)
       PROVE  AnswerInv'
  BY <1>11 DEF TaskLeaves
<1>12. CASE PeerCloses
  BY <1>12 DEF PeerCloses
<1>13. CASE SessionExpires
  BY <1>13 DEF SessionExpires
<1>14. CASE UNCHANGED vars
  BY <1>14 DEF vars
<1>15. QED
  BY <1>1, <1>2, <1>3, <1>4, <1>5, <1>5a, <1>6, <1>7, <1>8, <1>9, <1>10, <1>10a, <1>11,
     <1>12, <1>13, <1>14
     DEF Next, LoopStep, TaskStep

(* The bookkeeping holds before the first request.                         *)
LEMMA AnswerInit == Init => AnswerInv
<1> SUFFICES ASSUME Init PROVE AnswerInv
  OBVIOUS
<1> USE DEF Init
<1>1. TypeOK
  <2>1. cancelled \in [Request -> BOOLEAN] /\ expired \in BOOLEAN /\ peerGone \in BOOLEAN
    BY Zenon
  <2>2. sent \in 0..MaxRequests /\ loop = "read" /\ cancelling = NoRequest
    OBVIOUS
  <2>3. /\ task \in [Request -> {"none", "running", "answering", "leaving", "dropped", "done"}]
        /\ answers \in [Request -> Nat]
        /\ inflight \in [Id -> Request \cup {NoRequest}]
        /\ id \in [Request -> Id]
    OBVIOUS
  <2>4. QED
    BY <2>1, <2>2, <2>3 DEF TypeOK
<1>2. Unread /\ Unanswered
  BY DEF Unread, Unanswered
<1>3. OwesCancellation /\ AnsweredOnce
  BY DEF OwesCancellation, AnsweredOnce
<1>4. QED
  BY <1>1, <1>2, <1>3 DEF AnswerInv

(* No request is ever answered twice, whatever ids the client chooses and  *)
(* whichever of the loop and the tasks are cancelled, expired or cut off.  *)
THEOREM NoSecondAnswer == Spec => []AnsweredOnce
<1>1. Init => AnswerInv
  BY AnswerInit
<1>2. AnswerInv => AnsweredOnce
  BY DEF AnswerInv
<1>3. QED
  BY <1>1, <1>2, AnswerStep, PTL DEF Spec

(* The reader loop, the request tasks, the counts of their responses and   *)
(* the map of requests in flight keep their types, ids reused or not.      *)
THEOREM RequestTypes == Spec => []TypeOK
<1>1. AnswerInv => TypeOK
  BY DEF AnswerInv
<1>2. QED
  BY <1>1, AnswerInit, AnswerStep, PTL DEF Spec

(* No open request is left by cancel_all when the map was complete.        *)
LEMMA CancelAllSilences ==
    ASSUME TypeOK, OpenRequestsInMap, loop = "read", CancelAll, UNCHANGED task
    PROVE  \A r \in Request : ~Open(r)'
<1> SUFFICES ASSUME NEW r \in Request, Open(r)'
             PROVE  FALSE
  OBVIOUS
<1>1. cancelled'[r] = (cancelled[r] \/ \E i \in Id : inflight[i] = r)
  BY DEF CancelAll
<1>2. Open(r) /\ ~\E i \in Id : inflight[i] = r
  BY <1>1 DEF Open
<1>3. id[r] \in Id /\ cancelling = NoRequest
  BY DEF TypeOK
<1>4. QED
  BY <1>2, <1>3 DEF OpenRequestsInMap

(* Without reuse, reading a request keeps the ids distinct.                *)
LEMMA DistinctStep ==
    ASSUME TypeOK, DistinctIds, ~ReuseIds, UNCHANGED id,
           UNCHANGED sent \/ \E r \in Request : Reads(r)
    PROVE  DistinctIds'
<1>1. CASE UNCHANGED sent
  BY <1>1 DEF DistinctIds
<1>2. ASSUME NEW r \in Request, Reads(r)
      PROVE  DistinctIds'
  <2>1. sent \in Nat /\ 1..sent' = 1..sent \cup {r} /\ \A s \in 1..sent : id[s] # id[r]
    BY <1>2 DEF Reads, TypeOK
  <2>2. QED
    BY <2>1 DEF DistinctIds
<1>3. QED
  BY <1>1, <1>2

(* Steps that touch neither tasks nor map leave both properties alone.     *)
LEMMA QuietStep ==
    ASSUME OpenRequestsInMap, OrderlyEndCancels,
           UNCHANGED <<id, task, cancelled, inflight, cancelling>>,
           loop' \in {loop, "read", "error"}
    PROVE  OpenRequestsInMap' /\ OrderlyEndCancels'
<1>1. \A r \in Request : Open(r)' <=> Open(r)
  BY DEF Open
<1>2. QED
  BY <1>1 DEF OpenRequestsInMap, OrderlyEndCancels

(* With fresh ids the map is complete and an orderly end silences it.      *)
LEMMA MapStep == ~ReuseIds /\ MapInv /\ [Next]_vars => MapInv'
<1> SUFFICES ASSUME ~ReuseIds, MapInv, [Next]_vars
             PROVE  MapInv'
  OBVIOUS
<1> DEFINE Goal == OpenRequestsInMap' /\ OrderlyEndCancels'
<1>0. AnswerInv' /\ TypeOK' /\ TypeOK /\ OpenRequestsInMap /\ OrderlyEndCancels
  BY AnswerStep DEF MapInv, AnswerInv
<1>1. ASSUME NEW r \in Request, AcceptCall(r)
      PROVE  Goal /\ Reads(r) /\ UNCHANGED id
  <2>1. loop = "read" /\ cancelling = NoRequest /\ loop' = loop
    BY <1>0, <1>1 DEF AcceptCall, Reads, TypeOK
  <2>2. ASSUME NEW s \in Request, Open(s)'
        PROVE  inflight'[id'[s]] = s
    <3>1. CASE s = r
      BY <1>0, <1>1, <3>1 DEF AcceptCall, TypeOK
    <3>2. CASE s # r
      <4>1. Open(s)
        BY <1>0, <1>1, <2>2, <3>2 DEF AcceptCall, Open, TypeOK
      <4>2. inflight[id[s]] = s
        BY <1>0, <2>1, <4>1 DEF OpenRequestsInMap
      <4>3. QED
        BY <1>0, <1>1, <4>2 DEF AcceptCall, TypeOK
    <3>3. QED
      BY <3>1, <3>2
  <2>3. QED
    BY <1>1, <2>1, <2>2 DEF AcceptCall, OpenRequestsInMap, OrderlyEndCancels
<1>2. ASSUME NEW r \in Request, NEW valid \in BOOLEAN, RefuseCall(r, valid)
      PROVE  Goal /\ Reads(r) /\ UNCHANGED id
  BY <1>0, <1>2, QuietStep DEF RefuseCall, LoopWrites
<1>3. ASSUME NEW r \in Request, NEW target \in Id, CancelTakes(r, target)
      PROVE  Goal /\ Reads(r) /\ UNCHANGED id
  <2>1. ASSUME NEW s \in Request, Open(s)'
        PROVE  inflight'[id'[s]] = s \/ cancelling' = s
    <3>1. Open(s) /\ cancelling = NoRequest
      BY <1>0, <1>3, <2>1 DEF CancelTakes, Reads, Open, TypeOK
    <3>2. inflight[id[s]] = s
      BY <1>0, <3>1 DEF OpenRequestsInMap
    <3>3. QED
      BY <1>0, <1>3, <3>2 DEF CancelTakes, TypeOK
  <2>2. QED
    BY <1>3, <2>1 DEF CancelTakes, OpenRequestsInMap, OrderlyEndCancels
<1>4. ASSUME NEW r \in Request, NEW target \in Id, CancelMisses(r, target)
      PROVE  Goal /\ Reads(r) /\ UNCHANGED id
  BY <1>0, <1>4, QuietStep DEF CancelMisses, LoopWrites
<1>5. ASSUME CancelSignals
      PROVE  Goal /\ UNCHANGED <<sent, id>>
  BY <1>0, <1>5 DEF CancelSignals, OpenRequestsInMap, OrderlyEndCancels, Open, TypeOK
<1>5a. ASSUME CancelReplies
       PROVE  Goal /\ UNCHANGED <<sent, id>>
  BY <1>0, <1>5a, QuietStep DEF CancelReplies, LoopWrites
<1>6. ASSUME NEW r \in Request, ReadExpired(r)
      PROVE  Goal /\ Reads(r) /\ UNCHANGED id
  <2>1. CASE loop' = "expired"
    BY <1>0, <1>6, <2>1, CancelAllSilences
       DEF ReadExpired, Reads, OpenRequestsInMap, OrderlyEndCancels, Open
  <2>2. CASE loop' # "expired"
    BY <1>0, <1>6, <2>2, QuietStep DEF ReadExpired, LoopWrites
  <2>3. QED
    BY <2>1, <2>2
<1>7. ASSUME ReadEof
      PROVE  Goal /\ UNCHANGED <<sent, id>>
  BY <1>0, <1>7, CancelAllSilences DEF ReadEof, OpenRequestsInMap, OrderlyEndCancels, Open
<1>8. ASSUME ReadGarbage
      PROVE  Goal /\ UNCHANGED <<sent, id>>
  BY <1>0, <1>8, QuietStep DEF ReadGarbage
<1>9. ASSUME NEW r \in Request, TaskChecks(r) \/ TaskWrites(r) \/ TaskDrops(r)
      PROVE  Goal /\ UNCHANGED <<sent, id>>
  <2>1. \A s \in Request : /\ Open(s)' => Open(s)
                           /\ task'[s] = "running" => task[s] = "running"
    BY <1>0, <1>9 DEF TaskChecks, TaskWrites, TaskDrops, Open, TypeOK
  <2>2. QED
    BY <1>9, <1>0, <2>1
       DEF TaskChecks, TaskWrites, TaskDrops, OpenRequestsInMap, OrderlyEndCancels
<1>10. ASSUME NEW r \in Request, TaskLeaves(r)
       PROVE  Goal /\ UNCHANGED <<sent, id>>
  <2>1. \A s \in Request : Open(s)' => Open(s) /\ s # r
    BY <1>0, <1>10 DEF TaskLeaves, Open, TypeOK
  <2>2. \A s \in Request : Open(s)' => id[s] # id[r]
    BY <1>0, <1>10, <2>1 DEF MapInv, AnswerInv, DistinctIds, Unread, TaskLeaves, Open, TypeOK
  <2>3. QED
    BY <1>0, <1>10, <2>1, <2>2 DEF TaskLeaves, OpenRequestsInMap, OrderlyEndCancels, TypeOK
<1>11. ASSUME PeerCloses \/ SessionExpires
       PROVE  Goal /\ UNCHANGED <<sent, id>>
  BY <1>0, <1>11, QuietStep DEF PeerCloses, SessionExpires
<1>12. ASSUME UNCHANGED vars
       PROVE  Goal /\ UNCHANGED <<sent, id>>
  BY <1>0, <1>12, QuietStep DEF vars
<1> HIDE DEF Goal
<1>13. /\ Goal
       /\ UNCHANGED id
       /\ UNCHANGED sent \/ \E r \in Request : Reads(r)
  BY <1>1, <1>2, <1>3, <1>4, <1>5, <1>5a, <1>6, <1>7, <1>8, <1>9, <1>10, <1>11, <1>12
     DEF Next, LoopStep, TaskStep
<1>14. DistinctIds'
  BY <1>13, DistinctStep DEF MapInv, AnswerInv
<1>15. QED
  BY <1>0, <1>13, <1>14 DEF MapInv, Goal

(* The invariant of a client that uses every id once.                      *)
LEMMA MapInvariant == ~ReuseIds => (Spec => []MapInv)
<1> SUFFICES ASSUME ~ReuseIds
             PROVE  Spec => []MapInv
  OBVIOUS
<1>1. Init => MapInv
  <2>1. Init => AnswerInv
    BY AnswerInit
  <2>2. Init => DistinctIds /\ OpenRequestsInMap /\ OrderlyEndCancels
    BY DEF Init, DistinctIds, OpenRequestsInMap, OrderlyEndCancels, Open
  <2>3. QED
    BY <2>1, <2>2 DEF MapInv
<1>2. MapInv /\ [Next]_vars => MapInv'
  BY MapStep
<1>3. QED
  BY <1>1, <1>2, PTL DEF Spec

(* If the client uses every id once, the map holds every open request:     *)
(* cancel_request and cancel_all reach them all.                           *)
THEOREM FreshIdsKeepMap == ~ReuseIds => (Spec => []OpenRequestsInMap)
<1>1. MapInv => OpenRequestsInMap
  BY DEF MapInv
<1>2. QED
  BY <1>1, MapInvariant, PTL

(* If the client uses every id once, the cancel_all at an end of file or   *)
(* at an expired session reaches every task that has not looked at its     *)
(* token: none of them writes.  What is past the look is written.          *)
THEOREM FreshIdsEndOrderly == ~ReuseIds => (Spec => []OrderlyEndCancels)
<1>1. MapInv => OrderlyEndCancels
  BY DEF MapInv
<1>2. QED
  BY <1>1, MapInvariant, PTL

-----------------------------------------------------------------------------
(* A token that cancel_request has taken out of the map and not signalled  *)
(* yet still counts against the limit: the loop reads nothing meanwhile.   *)
MapBound ==
    /\ IsFiniteSet(InMap)
    /\ Cardinality(InMap) + (IF loop = "signal" THEN 1 ELSE 0) <= MaxInflight

(* One element more makes a finite set larger by at most one.              *)
LEMMA OneMore ==
    ASSUME NEW S, NEW x, IsFiniteSet(S)
    PROVE  /\ IsFiniteSet(S \cup {x})
           /\ Cardinality(S) \in Nat /\ Cardinality(S \cup {x}) \in Nat
           /\ Cardinality(S \cup {x}) <= Cardinality(S) + 1
<1>1. Cardinality(S) \in Nat
  BY FS_CardinalityType
<1>2. /\ IsFiniteSet(S \cup {x})
      /\ Cardinality(S \cup {x}) = IF x \in S THEN Cardinality(S) ELSE Cardinality(S) + 1
  BY FS_AddElement
<1>3. QED
  BY <1>1, <1>2

(* One element less makes it smaller by one if it was there.               *)
LEMMA OneLess ==
    ASSUME NEW S, NEW x, IsFiniteSet(S)
    PROVE  /\ IsFiniteSet(S \ {x})
           /\ Cardinality(S) \in Nat /\ Cardinality(S \ {x}) \in Nat
           /\ Cardinality(S) = Cardinality(S \ {x}) + (IF x \in S THEN 1 ELSE 0)
<1>1. Cardinality(S) \in Nat
  BY FS_CardinalityType
<1>2. /\ IsFiniteSet(S \ {x})
      /\ Cardinality(S \ {x}) = IF x \in S THEN Cardinality(S) - 1 ELSE Cardinality(S)
  BY FS_RemoveElement
<1>3. Cardinality(S \ {x}) \in Nat
  BY <1>2, FS_CardinalityType
<1>4. QED
  BY <1>1, <1>2, <1>3

(* Entries that are removed from the map leave a finite map that is no     *)
(* larger.                                                                 *)
LEMMA SmallerMap ==
    ASSUME MapBound, InMap' \subseteq InMap
    PROVE  /\ IsFiniteSet(InMap')
           /\ Cardinality(InMap') \in Nat /\ Cardinality(InMap) \in Nat
           /\ Cardinality(InMap') <= Cardinality(InMap)
<1>1. IsFiniteSet(InMap) /\ InMap' \in SUBSET InMap
  BY DEF MapBound
<1>2. IsFiniteSet(InMap') /\ Cardinality(InMap') <= Cardinality(InMap)
  BY <1>1, FS_Subset
<1>3. QED
  BY <1>1, <1>2, FS_CardinalityType

(* The map stays within MAX_INFLIGHT_REQUESTS, ids reused or not.          *)
LEMMA BoundStep == TypeOK /\ MapBound /\ [Next]_vars => MapBound'
<1> SUFFICES ASSUME TypeOK, MapBound, [Next]_vars PROVE MapBound'
  OBVIOUS
<1>1. ASSUME NEW r \in Request, AcceptCall(r) PROVE MapBound'
  <2>1. InMap' = InMap \cup {id[r]}
    BY <1>1 DEF AcceptCall, InMap, TypeOK
  <2>2. /\ IsFiniteSet(InMap')
        /\ Cardinality(InMap') <= Cardinality(InMap) + 1
        /\ Cardinality(InMap) \in Nat /\ Cardinality(InMap') \in Nat
    BY <2>1, OneMore DEF MapBound
  <2>3. loop' = "read" /\ Cardinality(InMap) < MaxInflight
    BY <1>1 DEF AcceptCall, Reads
  <2>4. QED
    BY <2>2, <2>3 DEF MapBound
<1>2. ASSUME NEW r \in Request, NEW target \in Id, CancelTakes(r, target) PROVE MapBound'
  <2>1. InMap' = InMap \ {target} /\ target \in InMap
    BY <1>2 DEF CancelTakes, InMap, TypeOK
  <2>2. /\ IsFiniteSet(InMap')
        /\ Cardinality(InMap) = Cardinality(InMap') + 1
        /\ Cardinality(InMap) \in Nat /\ Cardinality(InMap') \in Nat
    BY <2>1, OneLess DEF MapBound
  <2>3. loop = "read" /\ loop' = "signal"
    BY <1>2 DEF CancelTakes, Reads
  <2>4. QED
    BY <2>2, <2>3 DEF MapBound
<1>3. CASE InMap' \subseteq InMap /\ (loop' = "signal" => loop = "signal")
  BY <1>3, SmallerMap DEF MapBound
<1>4. CASE UNCHANGED <<inflight, loop>>
  BY <1>3, <1>4 DEF InMap
<1>5. ASSUME NEW r \in Request, NEW valid \in BOOLEAN, RefuseCall(r, valid) PROVE MapBound'
  BY <1>3, <1>5 DEF RefuseCall, LoopWrites, InMap
<1>6. ASSUME NEW r \in Request, NEW target \in Id, CancelMisses(r, target) PROVE MapBound'
  BY <1>3, <1>6 DEF CancelMisses, LoopWrites, InMap
<1>7. CASE CancelSignals \/ CancelReplies
  BY <1>3, <1>7 DEF CancelSignals, CancelReplies, LoopWrites, InMap
<1>8. ASSUME NEW r \in Request, ReadExpired(r) PROVE MapBound'
  BY <1>3, <1>8 DEF ReadExpired, LoopWrites, CancelAll, InMap
<1>9. CASE ReadEof
  BY <1>3, <1>9 DEF ReadEof, CancelAll, InMap
<1>10. CASE ReadGarbage
  BY <1>3, <1>10 DEF ReadGarbage, InMap
<1>11. ASSUME NEW r \in Request, TaskLeaves(r) PROVE MapBound'
  BY <1>3, <1>11 DEF TaskLeaves, InMap, TypeOK
<1>12. ASSUME NEW r \in Request, TaskChecks(r) \/ TaskWrites(r) \/ TaskDrops(r)
       PROVE  MapBound'
  BY <1>4, <1>12 DEF TaskChecks, TaskWrites, TaskDrops
<1>13. CASE PeerCloses \/ SessionExpires \/ UNCHANGED vars
  BY <1>4, <1>13 DEF PeerCloses, SessionExpires, vars
<1>14. QED
  BY <1>1, <1>2, <1>5, <1>6, <1>7, <1>8, <1>9, <1>10, <1>11, <1>12, <1>13
     DEF Next, LoopStep, TaskStep

(* Open requests are named by their entries, one by one,  *)
(* but for the one that is being cancelled.                                *)
LEMMA NamedInMap ==
    ASSUME TypeOK, MapBound, OpenRequestsInMap, NEW Named \in SUBSET Request,
           \A r \in Named : Open(r) /\ r # cancelling
    PROVE  /\ IsFiniteSet(Named) /\ Cardinality(Named) \in Nat
           /\ Cardinality(InMap) \in Nat /\ Cardinality(Named) <= Cardinality(InMap)
<1> DEFINE entry == [r \in Named |-> id[r]]
<1>1. IsFiniteSet(Named)
  <2>1. IsFiniteSet(1..MaxRequests)
    BY FS_Interval
  <2> QED
    BY <2>1, FS_Subset
<1>2. \A r \in Named : r \in Request /\ inflight[id[r]] = r /\ id[r] \in Id
  BY DEF OpenRequestsInMap, TypeOK
<1>3. entry \in Injection(Named, InMap)
  <2>1. entry \in [Named -> InMap]
    BY <1>2 DEF InMap
  <2>2. \A r, s \in Named : entry[r] = entry[s] => r = s
    BY <1>2
  <2> QED
    BY <2>1, <2>2 DEF Injection, IsInjective
<1> HIDE DEF entry
<1> QED
  BY <1>1, <1>3, FS_Injection, FS_CardinalityType DEF MapBound

(* Tokens are those of requests that were given a task; an entry of the    *)
(* map belongs to a request with its id whose task has not ended.          *)
Tokens ==
    /\ \A i \in Id : inflight[i] # NoRequest =>
          id[inflight[i]] = i /\ task[inflight[i]] \notin {"none", "done"}
    /\ cancelling # NoRequest => task[cancelling] # "none"
    /\ \A r \in Request : cancelled[r] => task[r] # "none"

(* Every step keeps them, ids reused or not.                               *)
LEMMA TokensStep == TypeOK /\ Tokens /\ [Next]_vars => Tokens'
<1> SUFFICES ASSUME TypeOK, Tokens, [Next]_vars PROVE Tokens'
  OBVIOUS
<1>0. /\ \A i \in Id : inflight[i] \in Request \cup {NoRequest}
      /\ cancelling \in Request \cup {NoRequest}
  BY DEF TypeOK
<1>1. ASSUME NEW r \in Request, AcceptCall(r) PROVE Tokens'
  <2>1. /\ task' = [task EXCEPT ![r] = "running"]
        /\ inflight' = [inflight EXCEPT ![id[r]] = r]
        /\ UNCHANGED <<id, cancelled, cancelling>>
    BY <1>1 DEF AcceptCall
  <2>2. \A s \in Request : task'[s] \in {task[s], "running"} /\ task'[r] = "running"
    BY <2>1 DEF TypeOK
  <2>3. \A i \in Id : inflight'[i] = inflight[i] \/ (i = id[r] /\ inflight'[i] = r)
    BY <2>1 DEF TypeOK
  <2> QED
    BY <1>0, <2>1, <2>2, <2>3 DEF Tokens
<1>2. ASSUME \A r \in Request : \/ task'[r] = task[r]
                                \/ task[r] # "none" /\ task'[r] \notin {"none", "done"},
             \A i \in Id : inflight'[i] \in {inflight[i], NoRequest},
             cancelling' \in {cancelling, NoRequest}, UNCHANGED <<id, cancelled>>
      PROVE  Tokens'
  BY <1>0, <1>2 DEF Tokens
<1>3. ASSUME NEW r \in Request, NEW valid \in BOOLEAN, RefuseCall(r, valid) PROVE Tokens'
  BY <1>2, <1>3 DEF RefuseCall
<1>4. ASSUME NEW r \in Request, NEW target \in Id, CancelTakes(r, target) PROVE Tokens'
  BY <1>4 DEF CancelTakes, TypeOK, Tokens
<1>5. ASSUME NEW r \in Request, NEW target \in Id, CancelMisses(r, target) PROVE Tokens'
  BY <1>2, <1>5 DEF CancelMisses
<1>6. CASE CancelSignals
  BY <1>6 DEF CancelSignals, TypeOK, Tokens
<1>6a. CASE CancelReplies
  BY <1>2, <1>6a DEF CancelReplies
<1>7. CASE CancelAll /\ UNCHANGED <<task, cancelling>>
  <2>1. \A r \in Request : cancelled'[r] => cancelled[r] \/ \E i \in Id : inflight[i] = r
    BY <1>7, Zenon DEF CancelAll
  <2>2. \A r \in Request : cancelled'[r] => task[r] # "none"
    BY <2>1 DEF Tokens
  <2>3. \A i \in Id : inflight'[i] = NoRequest
    BY <1>7 DEF CancelAll
  <2> QED
    BY <1>7, <2>2, <2>3 DEF Tokens
<1>8. ASSUME NEW r \in Request, ReadExpired(r) PROVE Tokens'
  BY <1>2, <1>7, <1>8 DEF ReadExpired
<1>9. CASE ReadEof
  BY <1>7, <1>9 DEF ReadEof
<1>10. CASE ReadGarbage
  BY <1>2, <1>10 DEF ReadGarbage
<1>11. ASSUME NEW r \in Request, TaskChecks(r) \/ TaskWrites(r) \/ TaskDrops(r) PROVE Tokens'
  <2>1. /\ UNCHANGED <<id, inflight, cancelling, cancelled>> /\ task[r] # "none"
        /\ \E label \in {"leaving", "answering", "dropped"} : task' = [task EXCEPT ![r] = label]
    BY <1>11 DEF TaskChecks, TaskWrites, TaskDrops
  <2>2. \A s \in Request : \/ task'[s] = task[s]
                           \/ task[s] # "none" /\ task'[s] \notin {"none", "done"}
    BY <2>1 DEF TypeOK
  <2> QED
    BY <1>2, <2>1, <2>2
<1>12. ASSUME NEW r \in Request, TaskLeaves(r) PROVE Tokens'
  <2>1. /\ UNCHANGED <<id, cancelling, cancelled>> /\ task' = [task EXCEPT ![r] = "done"]
        /\ inflight' = [inflight EXCEPT ![id[r]] = NoRequest]
    BY <1>12 DEF TaskLeaves
  <2>2. \A s \in Request : task'[s] = IF s = r THEN "done" ELSE task[s]
    BY <2>1 DEF TypeOK
  <2>3. \A i \in Id : inflight'[i] = IF i = id[r] THEN NoRequest ELSE inflight[i]
    BY <2>1 DEF TypeOK
  <2> QED
    BY <1>0, <2>1, <2>2, <2>3 DEF Tokens
<1>13. CASE PeerCloses \/ SessionExpires \/ UNCHANGED vars
  BY <1>2, <1>13 DEF PeerCloses, SessionExpires, vars
<1> QED
  BY <1>1, <1>3, <1>4, <1>5, <1>6, <1>6a, <1>8, <1>9, <1>10, <1>11, <1>12, <1>13
     DEF Next, LoopStep, TaskStep

(* So they are no more than the limit, with the one that is being          *)
(* cancelled.                                                              *)
LEMMA OpenWithinMap ==
    ASSUME TypeOK, MapBound, OpenRequestsInMap, Tokens
    PROVE  LimitCountsOpenRequests
<1> DEFINE L == {r \in Request : Open(r)}
<1>1. IsFiniteSet(L)
  <2>1. IsFiniteSet(1..MaxRequests)
    BY FS_Interval
  <2> QED
    BY <2>1, FS_Subset
<1>2. /\ Cardinality(InMap) \in Nat
      /\ Cardinality(L \ {cancelling}) <= Cardinality(InMap)
  BY NamedInMap
<1>3. cancelling \in L => loop = "signal"
  BY DEF TypeOK
<1> HIDE DEF L
<1>4. /\ Cardinality(L) \in Nat /\ Cardinality(L \ {cancelling}) \in Nat
      /\ Cardinality(L)
           = Cardinality(L \ {cancelling}) + (IF cancelling \in L THEN 1 ELSE 0)
  BY <1>1, OneLess
<1>5. Cardinality(L) <= MaxInflight
  BY <1>2, <1>3, <1>4 DEF MapBound
<1> QED
  BY <1>5 DEF LimitCountsOpenRequests, L, Tokens, InMap

(* The map, its bound and its tokens together.                             *)
LEMMA BoundInvariant == ~ReuseIds => (Spec => [](MapInv /\ MapBound /\ Tokens))
<1>1. Init => MapBound
  <2>1. Init => InMap = {} /\ loop = "read"
    BY DEF Init, InMap
  <2> QED
    BY <2>1, FS_EmptySet DEF MapBound
<1>2. Init => Tokens
  BY DEF Init, Tokens
<1>3. MapInv => TypeOK
  BY DEF MapInv, AnswerInv
<1> QED
  BY <1>1, <1>2, <1>3, BoundStep, TokensStep, MapInvariant, PTL DEF Spec

(* If the client uses every id once, never more than MAX_INFLIGHT_REQUESTS *)
(* requests are open, also while one of them is out of the map and not     *)
(* cancelled yet, and every place in the map is held by a request whose    *)
(* task has not ended.  Cancelled requests that still run or write come on *)
(* top.                                                                    *)
THEOREM FreshIdsWithinLimit == ~ReuseIds => (Spec => []LimitCountsOpenRequests)
<1>1. MapInv /\ MapBound /\ Tokens => LimitCountsOpenRequests
  BY OpenWithinMap DEF MapInv, AnswerInv
<1> QED
  BY <1>1, BoundInvariant, PTL

-----------------------------------------------------------------------------
(* The service *)

(* What the life of a request says of its task and its answers.            *)
Lives ==
    \A r \in Request :
        /\ Life(r) \in {"unread", "cancelling", "pending", "answering", "answered", "dropped"}
        /\ Life(r) = "answered" <=> answers[r] > 0
        /\ Life(r) = "unread" <=> answers[r] = 0 /\ (r > sent \/ (loop = "signal" /\ r = sent))
        /\ Life(r) = "cancelling" <=> loop = "reply" /\ r = sent
        /\ Life(r) = "answering" <=> task[r] = "answering"
        /\ Life(r) = "pending" <=> task[r] = "running" /\ ~cancelled[r]

(* It says so in every state of the connection.                            *)
LEMMA LifeLives == AnswerInv => Lives
<1> SUFFICES ASSUME AnswerInv, NEW r \in Request
             PROVE  /\ Life(r) \in {"unread", "cancelling", "pending", "answering",
                                     "answered", "dropped"}
                    /\ Life(r) = "answered" <=> answers[r] > 0
                    /\ Life(r) = "unread" <=>
                         answers[r] = 0 /\ (r > sent \/ (loop = "signal" /\ r = sent))
                    /\ Life(r) = "cancelling" <=> loop = "reply" /\ r = sent
                    /\ Life(r) = "answering" <=> task[r] = "answering"
                    /\ Life(r) = "pending" <=> task[r] = "running" /\ ~cancelled[r]
  BY DEF Lives
<1>1. /\ answers[r] \in Nat /\ sent \in Nat
      /\ r > sent \/ (loop \in {"signal", "reply"} /\ r = sent) =>
           task[r] = "none" /\ answers[r] = 0
      /\ task[r] \in {"running", "answering"} => answers[r] = 0
  BY DEF AnswerInv, TypeOK, Unread, Unanswered, OwesCancellation
<1> QED
  BY <1>1 DEF Life

(* After a step as well.                                                   *)
LEMMA LifeLivesNext == AnswerInv' => Lives'
BY LifeLives, PTL

(* A request whose task, token, answers and place in the stream stay the   *)
(* same lives on.                                                          *)
LEMMA SameLife ==
    ASSUME NEW s \in Request, answers'[s] = answers[s], task'[s] = task[s],
           cancelled'[s] = cancelled[s],
           (s > sent' \/ (loop' = "signal" /\ s = sent'))
              <=> (s > sent \/ (loop = "signal" /\ s = sent)),
           (loop' = "reply" /\ s = sent') <=> (loop = "reply" /\ s = sent)
    PROVE  Life(s)' = Life(s)
BY DEF Life

(* The request that the loop has in its hands is the next one.             *)
LEMMA LoopsTurn ==
    ASSUME AnswerInv, NEW r \in Request,
           (loop = "read" /\ r = sent + 1) \/ (loop = "signal" /\ r = sent)
    PROVE  Service!Turn(r)
<1>1. Lives /\ sent \in Nat
  BY LifeLives DEF AnswerInv, TypeOK
<1>2. answers[r] = 0
  BY <1>1 DEF AnswerInv, Unread, OwesCancellation
<1>3. /\ Life(r) = "unread"
      /\ \A s \in Request : s < r => Life(s) \notin {"unread", "cancelling"}
  BY <1>1, <1>2 DEF Lives
<1> QED
  BY <1>3 DEF Service!Turn

serviceVars == <<[r \in Request |-> Life(r)], loop \in {"read", "signal", "reply"}>>

(* Nothing has happened when every request lives on.                       *)
LEMMA LivesOn ==
    ASSUME \A s \in Request : Life(s)' = Life(s), loop' \in {"read", "signal", "reply"},
           loop \in {"read", "signal", "reply"}
    PROVE  UNCHANGED serviceVars
<1>1. [s \in Request |-> Life(s)]' = [s \in Request |-> Life(s)]
  OBVIOUS
<1> QED
  BY <1>1 DEF serviceVars

(* Nor when the loop has ended and does not go on.                         *)
LEMMA LivesOnAfter ==
    ASSUME \A s \in Request : Life(s)' = Life(s), UNCHANGED loop
    PROVE  UNCHANGED serviceVars
<1>1. [s \in Request |-> Life(s)]' = [s \in Request |-> Life(s)]
  OBVIOUS
<1> QED
  BY <1>1 DEF serviceVars

(* An answer of the loop.                                                  *)
LEMMA LoopReplies ==
    ASSUME NEW r \in Request,
           \A s \in Request : s # r => Life(s)' = Life(s),
           \/ Life(r)' = "answered" /\ loop' \in {"read", "signal", "reply"}
           \/ Life(r)' = "dropped" /\ loop' \notin {"read", "signal", "reply"}
    PROVE  Service!Reply(r)
<1> DEFINE how == Life(r)'
<1>1. /\ how \in {"answered", "dropped"}
      /\ (loop' \in {"read", "signal", "reply"}) = (how = "answered")
  OBVIOUS
<1>2. [s \in Request |-> Life(s)]' = [[s \in Request |-> Life(s)] EXCEPT ![r] = how]
  OBVIOUS
<1> HIDE DEF how
<1> QED
  BY <1>1, <1>2 DEF Service!Reply

(* The end of what write_response in the loop does to request r.           *)
LEMMA LoopWritesLife ==
    ASSUME AnswerInv, AnswerInv', NEW r \in Request, LoopWrites(r, "read"), sent' = r,
           task[r] = "none", UNCHANGED task, answers[r] = 0
    PROVE  /\ \/ Life(r)' = "answered" /\ loop' = "read"
              \/ Life(r)' = "dropped" /\ loop' = "error"
           /\ \A s \in Request : s # r => answers'[s] = answers[s]
<1>1. Lives' /\ answers \in [Request -> Nat] /\ r \in Nat
  BY LifeLivesNext DEF AnswerInv, TypeOK
<1>2. CASE answers' = [answers EXCEPT ![r] = @ + 1] /\ loop' = "read"
  <2>1. answers'[r] > 0 /\ \A s \in Request : s # r => answers'[s] = answers[s]
    BY <1>1, <1>2
  <2> QED
    BY <1>1, <1>2, <2>1 DEF Lives
<1>3. CASE loop' = "error" /\ UNCHANGED answers
  <2>1. answers'[r] = 0 /\ task'[r] = "none" /\ ~(r > sent')
    BY <1>1, <1>3
  <2>2. Life(r)' = "dropped"
    BY <1>1, <1>3, <2>1 DEF Lives
  <2> QED
    BY <1>3, <2>2
<1> QED
  BY <1>2, <1>3 DEF LoopWrites

(* A request that is refused, or a cancellation that finds nothing.        *)
LEMMA RefusalServes ==
    ASSUME AnswerInv, AnswerInv', NEW r \in Request, Reads(r), LoopWrites(r, "read"),
           UNCHANGED <<task, cancelled>>
    PROVE  Service!Refuse(r)
<1>1. sent \in Nat /\ loop = "read" /\ r = sent + 1 /\ sent' = r
  BY DEF Reads, AnswerInv, TypeOK
<1>2. task[r] = "none" /\ answers[r] = 0
  BY <1>1 DEF AnswerInv, Unread
<1>3. /\ \/ Life(r)' = "answered" /\ loop' = "read"
         \/ Life(r)' = "dropped" /\ loop' = "error"
      /\ \A s \in Request : s # r => answers'[s] = answers[s]
  BY <1>1, <1>2, LoopWritesLife
<1>4. \A s \in Request : s # r => Life(s)' = Life(s)
  BY <1>1, <1>3, SameLife
<1>5. Service!Turn(r)
  BY <1>1, LoopsTurn
<1> QED
  BY <1>3, <1>4, <1>5, LoopReplies DEF Service!Refuse

(* The service counts as the connection does.                              *)
LEMMA SameCount == \A S : Service!Cardinality(S) = Cardinality(S)
BY Zenon DEF Service!Cardinality, Cardinality

(* A request that is accepted finds room.                                  *)
LEMMA AcceptanceServes ==
    ASSUME MapInv, MapBound, Tokens, AnswerInv', NEW r \in Request, AcceptCall(r)
    PROVE  Service!Accept(r)
<1>0. AnswerInv /\ TypeOK /\ OpenRequestsInMap /\ Lives /\ Lives'
  BY LifeLives, LifeLivesNext DEF MapInv, AnswerInv
<1>1. /\ sent \in Nat /\ loop = "read" /\ loop' = "read" /\ r = sent + 1 /\ sent' = r
      /\ cancelling = 0 /\ UNCHANGED <<answers, cancelled>>
      /\ task' = [task EXCEPT ![r] = "running"] /\ DOMAIN task = Request
      /\ Cardinality(InMap) < MaxInflight
  BY <1>0 DEF AcceptCall, Reads, TypeOK
<1>2. /\ Service!Pending \in SUBSET Request
      /\ \A s \in Service!Pending : Open(s) /\ s # cancelling
  BY <1>0, <1>1 DEF Service!Pending, Lives, Open
<1>3. Cardinality(Service!Pending) < MaxInflight
  BY <1>0, <1>1, <1>2, NamedInMap
<1>4. Service!Turn(r)
  BY <1>0, <1>1, LoopsTurn
<1>5. ~cancelled[r]
  BY <1>0, <1>1 DEF Tokens, AnswerInv, Unread
<1>6. Life(r)' = "pending"
  BY <1>0, <1>1, <1>5 DEF Lives
<1>7. \A s \in Request : s # r => Life(s)' = Life(s)
  BY <1>1, SameLife
<1>8. [s \in Request |-> Life(s)]'
        = [[s \in Request |-> Life(s)] EXCEPT ![r] = "pending"]
  BY <1>6, <1>7
<1>9. (loop \in {"read", "signal", "reply"})' = (loop \in {"read", "signal", "reply"})
  BY <1>1
<1> QED
  BY <1>3, <1>4, <1>8, <1>9, SameCount DEF Service!Accept

(* The cancellation silences the request whose token was taken, if its     *)
(* task has not looked at it yet.                                          *)
LEMMA CancellationServes ==
    ASSUME AnswerInv, AnswerInv', CancelSignals
    PROVE  Service!Cancel(sent, {}) \/ \E s \in Request : Service!Cancel(sent, {s})
<1>0. AnswerInv /\ TypeOK /\ Lives /\ Lives'
  BY LifeLives, LifeLivesNext DEF AnswerInv
<1> PICK k \in Request : k = cancelling
  BY DEF AnswerInv, TypeOK, CancelSignals
<1>1. /\ loop = "signal" /\ loop' = "reply" /\ UNCHANGED <<sent, task, answers>>
      /\ sent \in Request /\ sent \in Nat
      /\ cancelled' = [cancelled EXCEPT ![k] = TRUE]
      /\ cancelled \in [Request -> BOOLEAN]
      /\ task[sent] = "none" /\ answers[sent] = 0
  BY <1>0 DEF CancelSignals, TypeOK, AnswerInv, OwesCancellation
<1>2. Life(sent)' = "cancelling"
  BY <1>0, <1>1 DEF Lives
<1>3. Service!Turn(sent)
  BY <1>1, LoopsTurn
<1>4. \A s \in Request : s # sent /\ s # k => Life(s)' = Life(s)
  BY <1>1, SameLife
<1>5. cancelled'[k]
  BY <1>1, Zenon
<1>6. CASE Life(k) = "pending"
  <2>1. k # sent /\ task'[k] = "running" /\ answers'[k] = 0 /\ ~(k > sent')
    BY <1>0, <1>1, <1>6 DEF Lives, AnswerInv, Unanswered, Unread
  <2>2. Life(k)' = "dropped"
    BY <1>0, <1>1, <1>5, <2>1 DEF Lives
  <2>3. [s \in Request |-> Life(s)]'
          = [s \in Request |-> IF s = sent THEN "cancelling"
                               ELSE IF s \in {k} THEN "dropped"
                               ELSE [q \in Request |-> Life(q)][s]]
    BY <1>1, <1>2, <1>4, <2>1, <2>2
  <2>4. {k} \subseteq Service!Pending
    BY <1>6 DEF Service!Pending
  <2>5. Service!Cancel(sent, {k})
    BY <1>1, <1>3, <2>3, <2>4 DEF Service!Cancel
  <2> QED
    BY <2>5
<1>7. CASE Life(k) # "pending"
  <2>1. ASSUME k # sent PROVE Life(k)' = Life(k)
    <3>1. /\ task'[k] = task[k] /\ answers'[k] = answers[k]
          /\ task[k] # "running" \/ cancelled[k]
      BY <1>0, <1>1, <1>7 DEF Lives
    <3>2. k > sent' <=> k > sent
      BY <1>1
    <3> QED
      BY <1>0, <1>1, <1>5, <2>1, <3>1, <3>2 DEF Lives
  <2>2. [s \in Request |-> Life(s)]'
          = [s \in Request |-> IF s = sent THEN "cancelling"
                               ELSE IF s \in {} THEN "dropped"
                               ELSE [q \in Request |-> Life(q)][s]]
    BY <1>1, <1>2, <1>4, <2>1
  <2>3. Service!Cancel(sent, {})
    BY <1>1, <1>3, <2>2 DEF Service!Cancel
  <2> QED
    BY <2>3
<1> QED
  BY <1>6, <1>7

(* Then it is answered itself.                                             *)
LEMMA ConfirmationServes ==
    ASSUME AnswerInv, AnswerInv', CancelReplies
    PROVE  Service!Confirm(sent)
<1>0. TypeOK /\ Lives
  BY LifeLives DEF AnswerInv
<1>1. /\ loop = "reply" /\ UNCHANGED <<sent, task, cancelled>> /\ sent \in Request
      /\ LoopWrites(sent, "read") /\ task[sent] = "none" /\ answers[sent] = 0
  BY DEF CancelReplies, AnswerInv, OwesCancellation
<1>2. Life(sent) = "cancelling"
  BY <1>0, <1>1 DEF Lives
<1>3. /\ \/ Life(sent)' = "answered" /\ loop' = "read"
         \/ Life(sent)' = "dropped" /\ loop' = "error"
      /\ \A s \in Request : s # sent => answers'[s] = answers[s]
  BY <1>1, LoopWritesLife
<1>4. \A s \in Request : s # sent => Life(s)' = Life(s)
  BY <1>1, <1>3, SameLife
<1>5. Service!Reply(sent)
  BY <1>1, <1>3, <1>4, LoopReplies
<1> QED
  BY <1>1, <1>2, <1>5 DEF Service!Confirm

(* cancel_all silences every pending request and no other.                 *)
LEMMA AllSilenced ==
    ASSUME AnswerInv, AnswerInv', OpenRequestsInMap, loop = "read", CancelAll, UNCHANGED task,
           NEW s \in Request, answers'[s] = answers[s], loop' \notin {"read", "signal", "reply"},
           s > sent' <=> s > sent
    PROVE  Life(s)' = IF Life(s) = "pending" THEN "dropped" ELSE Life(s)
<1>0. TypeOK /\ Lives /\ Lives'
  BY LifeLives, LifeLivesNext DEF AnswerInv
<1>1. ~Open(s)'
  BY <1>0, CancelAllSilences
<1>2. cancelled[s] => cancelled'[s]
  BY DEF CancelAll
<1>3. CASE Life(s) = "pending"
  <2>1. task'[s] = "running" /\ answers'[s] = 0 /\ ~(s > sent')
    BY <1>0, <1>3 DEF Lives, AnswerInv, Unread, Unanswered
  <2>2. cancelled'[s]
    BY <1>1, <2>1 DEF Open
  <2> QED
    BY <1>0, <1>3, <2>1, <2>2 DEF Lives
<1>4. CASE Life(s) # "pending"
  <2>1. task[s] # "running" \/ (cancelled[s] /\ cancelled'[s])
    BY <1>0, <1>2, <1>4 DEF Lives
  <2> QED
    BY <1>0, <1>4, <2>1 DEF Lives
<1> QED
  BY <1>3, <1>4

(* The two orderly ends.                                                   *)
LEMMA EndServes ==
    ASSUME MapInv, AnswerInv', ReadEof
    PROVE  Service!End
<1>1. /\ AnswerInv /\ OpenRequestsInMap /\ loop = "read" /\ loop' = "eof" /\ CancelAll
      /\ UNCHANGED <<task, answers, sent>>
  BY DEF MapInv, ReadEof
<1>2. \A s \in Request : Life(s)' = IF Life(s) = "pending" THEN "dropped" ELSE Life(s)
  BY <1>1, AllSilenced
<1>3. [s \in Request |-> Life(s)]' = [s \in Request |-> Service!Silenced(s)]
  BY <1>2 DEF Service!Silenced, Service!Pending
<1> QED
  BY <1>1, <1>3 DEF Service!End

(* A request after the expiry of the session.                              *)
LEMMA ExpiryServes ==
    ASSUME MapInv, AnswerInv', NEW r \in Request, ReadExpired(r)
    PROVE  Service!Expire(r) \/ Service!Refuse(r)
<1>0. AnswerInv /\ OpenRequestsInMap /\ TypeOK /\ Lives'
  BY LifeLivesNext DEF MapInv, AnswerInv
<1>1. /\ sent \in Nat /\ loop = "read" /\ r = sent + 1 /\ sent' = r /\ UNCHANGED task
      /\ answers \in [Request -> Nat] /\ answers[r] = 0 /\ task[r] = "none"
  BY <1>0 DEF ReadExpired, Reads, TypeOK, AnswerInv, Unread
<1>2. Service!Turn(r)
  BY <1>0, <1>1, LoopsTurn
<1>3. CASE answers' = [answers EXCEPT ![r] = @ + 1] /\ loop' = "expired"
  <2>1. CancelAll /\ answers'[r] > 0 /\ \A s \in Request : s # r => answers'[s] = answers[s]
    BY <1>1, <1>3 DEF ReadExpired
  <2>2. Life(r)' = "answered"
    BY <1>0, <2>1 DEF Lives
  <2>3. \A s \in Request :
           s # r => Life(s)' = IF Life(s) = "pending" THEN "dropped" ELSE Life(s)
    BY <1>0, <1>1, <1>3, <2>1, AllSilenced
  <2>4. [s \in Request |-> Life(s)]'
          = [s \in Request |-> IF s = r THEN "answered" ELSE Service!Silenced(s)]
    BY <2>2, <2>3 DEF Service!Silenced, Service!Pending
  <2> QED
    BY <1>2, <1>3, <2>4 DEF Service!Expire
<1>4. CASE loop' = "error" /\ UNCHANGED answers
  <2>1. UNCHANGED cancelled
    BY <1>4 DEF ReadExpired
  <2>2. Life(r)' = "dropped"
    BY <1>0, <1>1, <1>4 DEF Lives
  <2>3. \A s \in Request : s # r => Life(s)' = Life(s)
    BY <1>1, <1>4, <2>1, SameLife
  <2> QED
    BY <1>2, <1>4, <2>2, <2>3, LoopReplies DEF Service!Refuse
<1> QED
  BY <1>3, <1>4 DEF ReadExpired, LoopWrites

(* The steps of a task: it decides, answers, or does nothing visible.      *)
LEMMA TaskServes ==
    ASSUME AnswerInv, AnswerInv', NEW r \in Request, TaskStep(r)
    PROVE  Service!Decide(r) \/ Service!Answer(r) \/ UNCHANGED serviceVars
<1>0. TypeOK /\ Lives /\ Lives'
  BY LifeLives, LifeLivesNext DEF AnswerInv
<1>1. /\ UNCHANGED <<loop, sent, cancelled>> /\ DOMAIN task = Request
      /\ answers \in [Request -> Nat]
      /\ \E label \in {"answering", "leaving", "dropped", "done"} :
            task' = [task EXCEPT ![r] = label]
      /\ \A s \in Request : s # r => answers'[s] = answers[s]
  BY <1>0 DEF TaskStep, TaskChecks, TaskWrites, TaskDrops, TaskLeaves, TypeOK
<1>2. \A s \in Request : s # r => task'[s] = task[s] /\ Life(s)' = Life(s)
  BY <1>1, SameLife
<1>3. \A how : Life(r)' = how =>
         [s \in Request |-> Life(s)]' = [[s \in Request |-> Life(s)] EXCEPT ![r] = how]
  BY <1>2
<1>4. ~(r > sent) /\ ~(loop \in {"signal", "reply"} /\ r = sent)
  BY DEF AnswerInv, Unread, OwesCancellation, TaskStep, TaskChecks, TaskWrites, TaskDrops,
         TaskLeaves
<1>5. CASE TaskChecks(r)
  <2>1. task[r] = "running" /\ UNCHANGED answers /\ answers[r] = 0
    BY <1>5 DEF TaskChecks, AnswerInv, Unanswered
  <2>2. CASE cancelled[r]
    <3>1. task'[r] = "leaving"
      BY <1>0, <1>5, <2>2 DEF TaskChecks, TypeOK
    <3>2. Life(r)' = "dropped" /\ Life(r) = "dropped"
      BY <1>0, <1>1, <1>4, <2>1, <2>2, <3>1 DEF Lives
    <3> QED
      BY <1>1, <1>2, <3>2, LivesOnAfter
  <2>3. CASE ~cancelled[r]
    <3>1. task'[r] = "answering"
      BY <1>0, <1>5, <2>3 DEF TaskChecks, TypeOK
    <3>2. Life(r)' = "answering" /\ Life(r) = "pending"
      BY <1>0, <2>1, <2>3, <3>1 DEF Lives
    <3> QED
      BY <1>1, <1>3, <3>2 DEF Service!Decide
  <2> QED
    BY <2>2, <2>3
<1>6. CASE TaskWrites(r)
  <2>1. /\ task[r] = "answering" /\ task'[r] = "leaving" /\ answers[r] = 0
        /\ answers'[r] \in Nat
    BY <1>0, <1>1, <1>6 DEF TaskWrites, AnswerInv, Unanswered, TypeOK
  <2>2. Life(r) = "answering" /\ Life(r)' \in {"answered", "dropped"}
    BY <1>0, <1>1, <1>4, <2>1 DEF Lives
  <2> QED
    BY <1>1, <1>3, <2>2 DEF Service!Answer
<1>6a. CASE TaskDrops(r)
  <2>1. /\ task[r] = "answering" /\ task'[r] = "dropped" /\ answers[r] = 0
        /\ UNCHANGED answers
    BY <1>0, <1>6a DEF TaskDrops, AnswerInv, Unanswered, TypeOK
  <2>2. Life(r) = "answering" /\ Life(r)' = "dropped"
    BY <1>0, <1>1, <1>4, <2>1 DEF Lives
  <2> QED
    BY <1>1, <1>3, <2>2 DEF Service!Answer
<1>7. CASE TaskLeaves(r)
  <2>1. /\ task[r] \in {"leaving", "dropped"} /\ task'[r] = "done" /\ UNCHANGED answers
        /\ answers[r] \in Nat
    BY <1>0, <1>1, <1>7 DEF TaskLeaves
  <2>2. Life(r)' = Life(r)
    BY <1>0, <1>1, <1>4, <2>1 DEF Lives
  <2> QED
    BY <1>1, <1>2, <2>2, LivesOnAfter
<1> QED
  BY <1>5, <1>6, <1>6a, <1>7 DEF TaskStep

(* The connection implements the service: with fresh ids the two halves of *)
(* cancel_request act as one step, the map is the set of pending requests  *)
(* as far as the limit and the ends of the loop need it, and no task       *)
(* answers once its request has been cancelled in time.                    *)
THEOREM ConnectionServes == ~ReuseIds => (Spec => ServesRequests)
<1> SUFFICES ASSUME ~ReuseIds PROVE Spec => ServesRequests
  OBVIOUS
<1>2. Init => Service!Init
  <2> SUFFICES ASSUME Init PROVE Service!Init
    OBVIOUS
  <2>1. Lives /\ loop = "read"
    BY AnswerInit, LifeLives DEF Init
  <2>2. \A r \in Request : Life(r) = "unread"
    BY <2>1 DEF Init, Lives
  <2>3. [r \in Request |-> Life(r)] = [r \in Request |-> "unread"]
    BY <2>2
  <2> QED
    BY <2>1, <2>3 DEF Service!Init
<1>3. MapInv /\ MapBound /\ Tokens /\ [Next]_vars => [Service!Next]_serviceVars
  <2> SUFFICES ASSUME MapInv, MapBound, Tokens, [Next]_vars PROVE [Service!Next]_serviceVars
    OBVIOUS
  <2>0. AnswerInv /\ AnswerInv' /\ TypeOK
    BY AnswerStep DEF MapInv, AnswerInv
  <2>1. ASSUME NEW r \in Request, AcceptCall(r) PROVE Service!Next
    BY <2>0, <2>1, AcceptanceServes DEF Service!Next
  <2>2. ASSUME NEW r \in Request,
               \/ \E valid \in BOOLEAN : RefuseCall(r, valid)
               \/ \E target \in Id : CancelMisses(r, target)
        PROVE  Service!Next
    <3>1. Service!Refuse(r)
      BY <2>0, <2>2, RefusalServes DEF RefuseCall, CancelMisses
    <3> QED
      BY <3>1 DEF Service!Next
  <2>3. ASSUME NEW r \in Request, NEW target \in Id, CancelTakes(r, target)
        PROVE  UNCHANGED serviceVars
    <3>1. /\ sent \in Nat /\ loop = "read" /\ loop' = "signal" /\ r = sent + 1 /\ sent' = r
          /\ UNCHANGED <<answers, task, cancelled>>
      BY <2>0, <2>3 DEF CancelTakes, Reads, TypeOK
    <3>2. \A s \in Request : Life(s)' = Life(s)
      BY <3>1, SameLife
    <3> QED
      BY <3>1, <3>2, LivesOn
  <2>4. ASSUME CancelSignals PROVE Service!Next
    <3>1. sent \in Request
      BY <2>0, <2>4 DEF AnswerInv, OwesCancellation, CancelSignals
    <3> QED
      BY <2>0, <2>4, <3>1, CancellationServes DEF Service!Next
  <2>4a. ASSUME CancelReplies PROVE Service!Next
    <3>1. sent \in Request
      BY <2>0, <2>4a DEF AnswerInv, OwesCancellation, CancelReplies
    <3> QED
      BY <2>0, <2>4a, <3>1, ConfirmationServes DEF Service!Next
  <2>5. ASSUME NEW r \in Request, ReadExpired(r) PROVE Service!Next
    BY <2>0, <2>5, ExpiryServes DEF Service!Next
  <2>6. ASSUME ReadEof PROVE Service!Next
    BY <2>0, <2>6, EndServes DEF Service!Next
  <2>7. ASSUME ReadGarbage PROVE Service!Next
    <3>1. /\ loop = "read" /\ loop' = "error" /\ UNCHANGED <<sent, answers, task, cancelled>>
      BY <2>7 DEF ReadGarbage
    <3>2. \A s \in Request : Life(s)' = Life(s)
      BY <3>1, SameLife
    <3>3. [s \in Request |-> Life(s)]' = [s \in Request |-> Life(s)]
      BY <3>2
    <3> QED
      BY <3>1, <3>3 DEF Service!Next, Service!Break
  <2>8. ASSUME NEW r \in Request, TaskStep(r) PROVE [Service!Next]_serviceVars
    BY <2>0, <2>8, TaskServes DEF Service!Next
  <2>9. CASE PeerCloses \/ SessionExpires \/ UNCHANGED vars
    <3>1. UNCHANGED <<loop, sent, answers, task, cancelled>>
      BY <2>9 DEF PeerCloses, SessionExpires, vars
    <3>2. \A s \in Request : Life(s)' = Life(s)
      BY <3>1, SameLife
    <3> QED
      BY <3>1, <3>2, LivesOnAfter
  <2> QED
    BY <2>1, <2>2, <2>3, <2>4, <2>4a, <2>5, <2>6, <2>7, <2>8, <2>9
       DEF Next, LoopStep
<1> QED
  BY <1>2, <1>3, BoundInvariant, PTL
     DEF Spec, ServesRequests, Service!Spec, serviceVars
=============================================================================
