--------------------------- MODULE PatchReviewProofs --------------------------
(***************************************************************************)
(* What holds of the plugin's reviews for any number of reviews, paths,    *)
(* texts, attempts, edits and changes of settings.                         *)
(***************************************************************************)
EXTENDS PatchReview, TLAPS

(* A review that may still be answered "stale index" has an attempt left.  *)
AttemptsLeft ==
    \A r \in Review :
        pc[r] \in {"idle", "reading", "input", "proposing", "delay"}
            => attempt[r] < MaxAttempts

TypeInv == TypeOK /\ AttemptsLeft

(* Every step keeps the types of the state and counts attempts in bounds.  *)
LEMMA TypeStep == TypeInv /\ [Next]_vars => TypeInv'
<1> SUFFICES ASSUME TypeInv, [Next]_vars PROVE TypeInv'
  OBVIOUS
<1> USE ReviewAssumption DEF TypeInv, TypeOK, AttemptsLeft, Diff, Client, Goto,
        noteVars, localVars, pluginVars
<1>1. CASE UNCHANGED vars
  BY <1>1 DEF vars
<1>2. ASSUME NEW r \in Review, ReviewStep(r) PROVE TypeInv'
  <2>1. CASE Begin(r)
    BY <2>1 DEF Begin
  <2>2. CASE ReadReturns(r)
    BY <2>2 DEF ReadReturns
  <2>3. ASSUME NEW t \in Text, Submit(r, t) PROVE TypeInv'
    BY <2>3 DEF Submit
  <2>4. CASE Dismiss(r)
    BY <2>4 DEF Dismiss
  <2>5. CASE ProposalArrives(r)
    <3>1. CASE ~unloaded /\ Reviewable(r)
      <4>1. [path |-> path, before |-> currentContent[r], after |-> replacement[r]] \in Diff
        OBVIOUS
      <4>2. diff' \in [Review -> Diff]
        BY <2>5, <3>1, <4>1 DEF ProposalArrives
      <4>3. pc' = [pc EXCEPT ![r] = "approval"]
        BY <2>5, <3>1 DEF ProposalArrives
      <4>4. UNCHANGED <<text, path, indexed, currentContent, replacement, requestPath, attempt,
                        client, settings, sessions, unloaded, written, edits>>
        BY <2>5 DEF ProposalArrives
      <4> QED
        BY <4>2, <4>3, <4>4
    <3>2. CASE ~(~unloaded /\ Reviewable(r))
      BY <2>5, <3>2 DEF ProposalArrives
    <3> QED
      BY <3>1, <3>2
  <2>6. CASE StaleIndex(r)
    BY <2>6 DEF StaleIndex
  <2>7. CASE RequestRefused(r)
    BY <2>7 DEF RequestRefused
  <2>8. CASE DelayEnds(r)
    <3>1. CASE unloaded
      BY <2>8, <3>1 DEF DelayEnds
    <3>2. CASE ~unloaded
      <4>1. pc' = [pc EXCEPT ![r] = "proposing"] /\ pc[r] = "delay"
        BY <2>8, <3>2 DEF DelayEnds
      <4>2. sessions' \in SUBSET Client
        <5>1. sessions' = sessions \cup {client[r]}
          BY <2>8, <3>2 DEF DelayEnds
        <5>2. client[r] \in Client /\ sessions \in SUBSET Client
          OBVIOUS
        <5> HIDE DEF TypeInv, TypeOK, AttemptsLeft, Diff, Client, Goto
        <5> QED
          BY <5>1, <5>2
      <4>3. UNCHANGED <<text, path, indexed, localVars, settings, unloaded, written, edits>>
        BY <2>8 DEF DelayEnds
      <4> QED
        BY <4>1, <4>2, <4>3
    <3> QED
      BY <3>1, <3>2
  <2>9. CASE Approve(r)
    BY <2>9 DEF Approve
  <2>10. CASE Process(r)
    BY <2>10 DEF Process
  <2> QED
    BY <1>2, <2>1, <2>2, <2>3, <2>4, <2>5, <2>6, <2>7, <2>8, <2>9, <2>10
    DEF ReviewStep, Answered
<1>3. CASE Environment
  <2>1. ASSUME NEW c \in Client, SessionFails(c) PROVE TypeInv'
    BY <2>1 DEF SessionFails, Rejected
  <2>2. CASE CheckHealth
    BY <2>2 DEF CheckHealth
  <2>3. CASE UpdateSettings
    BY <2>3 DEF UpdateSettings, Rejected
  <2>4. CASE Unload
    BY <2>4 DEF Unload
  <2>5. ASSUME NEW t \in Text, Edit(t) PROVE TypeInv'
    BY <2>5 DEF Edit, CountEdit
  <2>6. ASSUME NEW p \in Path, Rename(p) PROVE TypeInv'
    BY <2>6 DEF Rename, CountEdit
  <2>7. CASE Delete
    BY <2>7 DEF Delete, CountEdit
  <2>8. ASSUME NEW p \in Path, Reconcile(p) PROVE TypeInv'
    BY <2>8 DEF Reconcile
  <2> QED
    BY <1>3, <2>1, <2>2, <2>3, <2>4, <2>5, <2>6, <2>7, <2>8 DEF Environment
<1> QED
  BY <1>1, <1>2, <1>3 DEF Next

(* The initial states have the types and every attempt left.               *)
LEMMA TypeInit == Init => TypeInv
<1> SUFFICES ASSUME Init PROVE TypeInv
  OBVIOUS
<1> USE ReviewAssumption DEF Init
<1>1. NoDiff \in Diff
  BY DEF NoDiff, Diff
<1>2. diff \in [Review -> Diff] /\ written \in [Review -> Diff]
  BY <1>1
<1>3. settings \in Client /\ client \in [Review -> Client] /\ sessions \in SUBSET Client
  BY DEF Client
<1>4. attempt \in [Review -> 0..MaxAttempts] /\ edits \in 0..MaxEdits /\ AttemptsLeft
  BY DEF AttemptsLeft
<1> QED
  BY <1>2, <1>3, <1>4 DEF TypeInv, TypeOK

(* The state of the plugin and of its reviews always has its type; in      *)
(* particular the retries of withIndexReconciliationRetry stay in bounds.  *)
THEOREM ReviewTypes == Spec => []TypeOK
<1>1. TypeInv => TypeOK
  BY DEF TypeInv
<1> QED
  BY <1>1, TypeInit, TypeStep, PTL DEF Spec

-----------------------------------------------------------------------------
(* The diff on display is made of what the review read and was given, for  *)
(* as long as it can be approved or is being applied; only a review that   *)
(* has ended has written.                                                  *)
DiffIsReviewed(r) ==
    /\ pc[r] \in {"approval", "applying"} => /\ diff[r].before = currentContent[r]
                                             /\ diff[r].after = replacement[r]
    /\ written[r] # NoDiff => /\ pc[r] = "done"
                              /\ written[r].before = diff[r].before
                              /\ written[r].after = diff[r].after
                              /\ diff[r].before = currentContent[r]
                              /\ diff[r].after = replacement[r]

ReviewInv == \A r \in Review : DiffIsReviewed(r)

(* A step that leaves the locals and the writes of a review alone, and     *)
(* takes it to no new dialog or write, keeps its part of the invariant.    *)
LEMMA OthersKeep ==
    ASSUME NEW s \in Review, DiffIsReviewed(s),
           UNCHANGED <<currentContent[s], replacement[s], diff[s], written[s]>>,
           pc'[s] \in {pc[s], "done"}
    PROVE  DiffIsReviewed(s)'
BY DEF DiffIsReviewed

(* Every step of a review keeps the invariant of all reviews.              *)
LEMMA ReviewStepKeeps ==
    ASSUME TypeInv, ReviewInv, NEW r \in Review, ReviewStep(r)
    PROVE  ReviewInv'
<1> USE DEF TypeInv, TypeOK, Goto, noteVars, localVars, pluginVars
<1> SUFFICES ASSUME NEW s \in Review PROVE DiffIsReviewed(s)'
  BY DEF ReviewInv
<1>0. DiffIsReviewed(s)
  BY DEF ReviewInv
<1>1. CASE Begin(r)
  BY <1>0, <1>1 DEF Begin, DiffIsReviewed
<1>2. CASE ReadReturns(r)
  BY <1>0, <1>2 DEF ReadReturns, DiffIsReviewed
<1>3. ASSUME NEW t \in Text, Submit(r, t) PROVE DiffIsReviewed(s)'
  BY <1>0, <1>3 DEF Submit, DiffIsReviewed
<1>4. CASE Dismiss(r)
  BY <1>0, <1>4, OthersKeep DEF Dismiss
<1>5. CASE ProposalArrives(r)
  BY <1>0, <1>5 DEF ProposalArrives, DiffIsReviewed
<1>6. CASE StaleIndex(r)
  BY <1>0, <1>6 DEF StaleIndex, DiffIsReviewed
<1>7. CASE RequestRefused(r)
  BY <1>0, <1>7, OthersKeep DEF RequestRefused
<1>8. CASE DelayEnds(r)
  BY <1>0, <1>8 DEF DelayEnds, DiffIsReviewed
<1>9. CASE Approve(r)
  BY <1>0, <1>9 DEF Approve, DiffIsReviewed
<1>10. CASE Process(r)
  BY <1>0, <1>10 DEF Process, DiffIsReviewed
<1> QED
  BY <1>1, <1>2, <1>3, <1>4, <1>5, <1>6, <1>7, <1>8, <1>9, <1>10 DEF ReviewStep, Answered

(* Nothing the user, the companion or the plugin does outside a review     *)
(* touches what it is about to write.                                      *)
LEMMA EnvironmentKeeps ==
    ASSUME TypeInv, ReviewInv, Environment
    PROVE  ReviewInv'
<1>1. UNCHANGED <<currentContent, replacement, diff, written>>
  BY DEF Environment, SessionFails, CheckHealth, UpdateSettings, Unload, Edit, Rename,
         Delete, CountEdit, Reconcile, localVars
<1>2. ASSUME NEW s \in Review PROVE pc'[s] \in {pc[s], "done"}
  BY DEF Environment, SessionFails, Rejected, CheckHealth, UpdateSettings, Unload, Edit,
         Rename, Delete, CountEdit, Reconcile, TypeInv, TypeOK
<1> QED
  BY <1>1, <1>2, OthersKeep DEF ReviewInv

(* Whatever a review writes through Vault.process is the replacement the   *)
(* user typed, over the text the review read, as the approved diff showed  *)
(* them, for any number of concurrent reviews and edits.                   *)
THEOREM WritesAreReviewed == Spec => []OnlyReviewedWrites
<1>1. Init => ReviewInv
  BY DEF Init, ReviewInv, DiffIsReviewed
<1>2. TypeInv /\ ReviewInv /\ [Next]_vars => ReviewInv'
  <2> SUFFICES ASSUME TypeInv, ReviewInv, [Next]_vars PROVE ReviewInv'
    OBVIOUS
  <2>1. CASE UNCHANGED vars
    BY <2>1 DEF vars, localVars, ReviewInv, DiffIsReviewed
  <2> QED
    BY <2>1, ReviewStepKeeps, EnvironmentKeeps DEF Next
<1>3. ReviewInv => OnlyReviewedWrites
  BY DEF ReviewInv, DiffIsReviewed, OnlyReviewedWrites
<1> QED
  BY <1>1, <1>2, <1>3, TypeInit, TypeStep, PTL DEF Spec

-----------------------------------------------------------------------------
(* No step opens a dialog or attaches the plugin's session after unloading.*)
LEMMA QuietStep == TypeInv /\ QuietAfterUnload /\ [Next]_vars => QuietAfterUnload'
<1> SUFFICES ASSUME TypeInv, QuietAfterUnload, [Next]_vars PROVE QuietAfterUnload'
  OBVIOUS
<1> USE DEF TypeInv, TypeOK, QuietAfterUnload, Goto, noteVars, localVars, pluginVars
<1>1. CASE UNCHANGED vars
  BY <1>1 DEF vars
<1>2. ASSUME NEW r \in Review, ReviewStep(r) PROVE QuietAfterUnload'
  <2>1. CASE Begin(r)
    BY <2>1 DEF Begin
  <2>2. CASE ReadReturns(r)
    BY <2>2 DEF ReadReturns
  <2>3. ASSUME NEW t \in Text, Submit(r, t) PROVE QuietAfterUnload'
    BY <2>3 DEF Submit
  <2>4. CASE Dismiss(r)
    BY <2>4 DEF Dismiss
  <2>5. CASE Answered(r)
    <3>1. UNCHANGED <<settings, sessions, unloaded>>
      BY <2>5 DEF Answered, ProposalArrives, StaleIndex, RequestRefused
    <3>2. \E l \in {"approval", "delay", "done"} :
             pc' = [pc EXCEPT ![r] = l] /\ (l = "approval" => ~unloaded)
      BY <2>5 DEF Answered, ProposalArrives, StaleIndex, RequestRefused
    <3> QED
      BY <3>1, <3>2
  <2>6. CASE DelayEnds(r)
    BY <2>6 DEF DelayEnds
  <2>7. CASE Approve(r) \/ Process(r)
    <3>1. UNCHANGED <<settings, sessions, unloaded>>
      BY <2>7 DEF Approve, Process
    <3>2. \E l \in {"applying", "done"} : pc' = [pc EXCEPT ![r] = l]
      BY <2>7 DEF Approve, Process
    <3> QED
      BY <3>1, <3>2
  <2> QED
    BY <1>2, <2>1, <2>2, <2>3, <2>4, <2>5, <2>6, <2>7 DEF ReviewStep
<1>3. CASE Environment
  <2>1. ASSUME NEW c \in Client, SessionFails(c) PROVE QuietAfterUnload'
    BY <2>1 DEF SessionFails, Rejected
  <2>2. CASE CheckHealth \/ UpdateSettings
    BY <2>2 DEF CheckHealth, UpdateSettings
  <2>3. CASE Unload
    BY <2>3 DEF Unload
  <2>4. CASE (\E t \in Text : Edit(t)) \/ (\E p \in Path : Rename(p)) \/ Delete
    <3>1. UNCHANGED <<pc, settings, sessions, unloaded>>
      BY <2>4 DEF Edit, Rename, Delete, CountEdit
    <3> QED
      BY <3>1
  <2>5. CASE \E p \in Path : Reconcile(p)
    BY <2>5 DEF Reconcile
  <2> QED
    BY <1>3, <2>1, <2>2, <2>3, <2>4, <2>5 DEF Environment
<1> QED
  BY <1>1, <1>2, <1>3 DEF Next

(* Once onunload has aborted the lifecycle signal, no dialog is open and   *)
(* the plugin's current session is closed, for ever.                       *)
THEOREM UnloadIsFinal == Spec => []QuietAfterUnload
<1>1. Init => QuietAfterUnload
  BY DEF Init, QuietAfterUnload
<1> QED
  BY <1>1, TypeInit, TypeStep, QuietStep, PTL DEF Spec
=============================================================================
