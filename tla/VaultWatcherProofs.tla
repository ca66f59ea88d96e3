-------------------------- MODULE VaultWatcherProofs --------------------------
(***************************************************************************)
(* Theorems about VaultWatcher, for every set of notes and texts and every *)
(* queue capacity.                                                         *)
(***************************************************************************)
EXTENDS VaultWatcher, TLAPS

(* Every action keeps the state well typed.                                *)
LEMMA TypeStep == TypeOK /\ [Next]_vars => TypeOK'
<1> SUFFICES ASSUME TypeOK, [Next]_vars PROVE TypeOK'
  OBVIOUS
<1> USE ContentAssumption, ReachableAssumption
    DEF TypeOK, IndexTypeOK, QueueTypeOK, ProcessTypeOK, Actor, Initial, Watcher, Cli, tableVars, bounds, batch
<1>a. Nothing \in [Note -> IndexValue]
  BY DEF Nothing, IndexValue
<1>b. \A f : Indexed(f) \in IndexValue
  BY DEF Indexed, IndexValue
<1>c. Note \subseteq PathHint /\ PathHint \subseteq Hint /\ FullHint \in Hint
  BY DEF Hint, PathHint
<1>d. \A h \in Hint : SeenHint(h) \in Hint
  BY <1>c DEF SeenHint, PathHint
<1>1. CASE UserStep
  <2>1. ASSUME NEW p \in Note, NEW f \in Reachable, Edit(p, f) PROVE TypeOK'
    <3>1. IndexTypeOK'
      BY <2>1 DEF Edit, OnlyDiskAndKernel, scanVars
    <3>2. kernel' \in Seq(Hint)
      BY <2>1, <1>c, <1>d DEF Edit, Notify
    <3>3. QueueTypeOK'
      BY <2>1, <3>2 DEF Edit, OnlyDiskAndKernel
    <3>4. ProcessTypeOK'
      BY <2>1 DEF Edit, CountEdit, OnlyDiskAndKernel, scanVars
    <3> QED BY <3>1, <3>3, <3>4 DEF TypeOK
  <2>2. ASSUME NEW p \in Note, NEW q \in Note, Rename(p, q) PROVE TypeOK'
    <3>1. IndexTypeOK'
      BY <2>2 DEF Rename, OnlyDiskAndKernel, scanVars, FileState
    <3>2. kernel' \in Seq(Hint)
      BY <2>2, <1>c, <1>d DEF Rename, Notify
    <3>3. QueueTypeOK'
      BY <2>2, <3>2 DEF Rename, OnlyDiskAndKernel
    <3>4. ProcessTypeOK'
      BY <2>2 DEF Rename, CountEdit, OnlyDiskAndKernel, scanVars
    <3> QED BY <3>1, <3>3, <3>4 DEF TypeOK
  <2>3. ASSUME NEW h \in Hint \ Note, Spurious(h) PROVE TypeOK'
    <3>1. IndexTypeOK'
      BY <2>3 DEF Spurious, OnlyDiskAndKernel, scanVars
    <3>2. kernel' \in Seq(Hint)
      BY <2>3, <1>d DEF Spurious, Notify
    <3>3. QueueTypeOK'
      BY <2>3, <3>2 DEF Spurious, OnlyDiskAndKernel
    <3>4. ProcessTypeOK'
      BY <2>3 DEF Spurious, CountEdit, OnlyDiskAndKernel, scanVars
    <3> QED BY <3>1, <3>3, <3>4 DEF TypeOK
  <2>4. ASSUME NEW root \in {Home, Foreign}, StartCli(root) PROVE TypeOK'
    BY <2>4 DEF StartCli, Goto, indexVars, scanVars, watchVars
  <2> QED BY <1>1, <2>1, <2>2, <2>3, <2>4 DEF UserStep
<1>2. CASE CallbackSends
  <2>1. IndexTypeOK'
    BY <1>2 DEF CallbackSends, indexVars, scanVars
  <2>2. QueueTypeOK'
    <3>1. kernel' \in Seq(Hint)
      BY <1>2 DEF CallbackSends
    <3>2. queue' \in Seq(Hint)
      <4>1. Head(kernel) \in Hint
        BY <1>2 DEF CallbackSends
      <4>2. queue' = Append(queue, Head(kernel)) \/ queue' = queue
        BY <1>2 DEF CallbackSends
      <4> QED BY <4>1, <4>2
    <3> QED BY <1>2, <3>1, <3>2 DEF CallbackSends
  <2>3. ProcessTypeOK'
    BY <1>2 DEF CallbackSends, indexVars, scanVars
  <2> QED BY <2>1, <2>2, <2>3 DEF TypeOK
<1>3. CASE CallbackSetsFlag
  BY <1>3 DEF CallbackSetsFlag, indexVars, scanVars
<1>4. CASE TaskStep
  <2>1. CASE ReceiveHint
    BY <2>1 DEF ReceiveHint, Absorb, Goto, indexVars, scanVars, Hint
  <2>2. CASE CloseBatch
    <3>1. IndexTypeOK'
      BY <2>2 DEF CloseBatch, Goto
    <3>2. QueueTypeOK'
      BY <2>2 DEF CloseBatch, Goto
    <3>3. ProcessTypeOK'
      BY <2>2 DEF CloseBatch, Goto
    <3> QED BY <3>1, <3>2, <3>3 DEF TypeOK
  <2>3. ASSUME NEW p \in Note, ScanNote(p) PROVE TypeOK'
    BY <2>3, <1>b DEF ScanNote, ScanChangedPath, OnlyIndexAndTask
  <2>4. CASE ScanIrrelevant
    BY <2>4 DEF ScanIrrelevant, OnlyIndexAndTask
  <2>5. ASSUME NEW h \in PathHint, ScanRefused(h) PROVE TypeOK'
    BY <2>5, <1>a DEF ScanRefused, ForgetScan, Goto, OnlyIndexAndTask
  <2>6. CASE ReconcilePaths
    <3>1. IndexTypeOK'
      BY <2>6, <1>a DEF ReconcilePaths, CommitPaths, ReconciledIndex, ForgetScan, Goto, SettleDropped, ForgetBatch, OnlyIndexAndTask
    <3>2. QueueTypeOK'
      BY <2>6, <1>a DEF ReconcilePaths, CommitPaths, ReconciledIndex, ForgetScan, Goto, SettleDropped, ForgetBatch, OnlyIndexAndTask
    <3>3. ProcessTypeOK'
      BY <2>6, <1>a DEF ReconcilePaths, CommitPaths, ReconciledIndex, ForgetScan, Goto, SettleDropped, ForgetBatch, OnlyIndexAndTask
    <3> QED BY <3>1, <3>2, <3>3 DEF TypeOK
  <2>7. CASE ReconcileRefused
    BY <2>7, <1>a DEF ReconcileRefused, RootRefused, ForgetScan, Goto, OnlyIndexAndTask
  <2>8. CASE ReconcileTimesOut
    BY <2>8, <1>a DEF ReconcileTimesOut, ForgetScan, Goto, OnlyIndexAndTask
  <2> QED BY <1>4, <2>1, <2>2, <2>3, <2>4, <2>5, <2>6, <2>7, <2>8 DEF TaskStep
<1>5. ASSUME NEW a \in Actor, IndexVaultStep(a) PROVE TypeOK'
  <2>1. CASE Lock(a)
    <3>1. IndexTypeOK'
      BY <2>1 DEF Lock, BeginWalk, IndexValue
    <3>2. QueueTypeOK'
      BY <2>1 DEF Lock, OnlyIndexAndTask
    <3>3. todo' \in [Actor -> SUBSET PathHint]
      BY <2>1, <1>c DEF Lock, BeginWalk
    <3>4. ProcessTypeOK'
      BY <2>1, <3>3 DEF Lock, Goto, OnlyIndexAndTask
    <3> QED BY <3>1, <3>2, <3>4 DEF TypeOK
  <2>2. CASE LockTimesOut(a)
    <3>1. IndexTypeOK'
      BY <2>2 DEF LockTimesOut, IndexVaultFailed, Goto, Claimed, ForgetBatch, OnlyIndexAndTask, indexVars, scanVars
    <3>2. QueueTypeOK'
      BY <2>2 DEF LockTimesOut, IndexVaultFailed, Goto, Claimed, ForgetBatch, OnlyIndexAndTask, indexVars, scanVars
    <3>3. ProcessTypeOK'
      BY <2>2 DEF LockTimesOut, IndexVaultFailed, Goto, Claimed, ForgetBatch, OnlyIndexAndTask, indexVars, scanVars
    <3> QED BY <3>1, <3>2, <3>3 DEF TypeOK
  <2>3. ASSUME NEW p \in Note, Walk(a, p) PROVE TypeOK'
    <3>1. IndexTypeOK'
      <4>1. CASE WalkEntry(a, p)
        BY <4>1 DEF WalkEntry
      <4>2. CASE ReadEntry(a, p)
        BY <4>2, <1>b DEF ReadEntry
      <4> QED BY <2>3, <4>1, <4>2 DEF Walk
    <3>2. QueueTypeOK'
      BY <2>3 DEF Walk, OnlyIndexAndTask
    <3>3. todo' \in [Actor -> SUBSET PathHint]
      BY <2>3 DEF Walk, WalkEntry, ReadEntry
    <3>4. ProcessTypeOK'
      BY <2>3, <3>3 DEF Walk, OnlyIndexAndTask
    <3> QED BY <3>1, <3>2, <3>4 DEF TypeOK
  <2>4. ASSUME NEW p \in Note, WalkFails(a, p) PROVE TypeOK'
    <3>1. IndexTypeOK'
      BY <2>4, <1>a DEF WalkFails, ReadFails, ForgetScan, IndexVaultFailed, Goto, Claimed, ForgetBatch, OnlyIndexAndTask
    <3>2. QueueTypeOK'
      BY <2>4, <1>a DEF WalkFails, ReadFails, ForgetScan, IndexVaultFailed, Goto, Claimed, ForgetBatch, OnlyIndexAndTask
    <3>3. ProcessTypeOK'
      BY <2>4, <1>a DEF WalkFails, ReadFails, ForgetScan, IndexVaultFailed, Goto, Claimed, ForgetBatch, OnlyIndexAndTask
    <3> QED BY <3>1, <3>2, <3>3 DEF TypeOK
  <2>5. CASE Commit(a)
    <3>1. IndexTypeOK'
      BY <2>5, <1>a DEF Commit, CommitWalk, RootOf, ForgetScan, Goto, SettleDropped, ForgetBatch, OnlyIndexAndTask
    <3>2. QueueTypeOK'
      BY <2>5, <1>a DEF Commit, CommitWalk, RootOf, ForgetScan, Goto, SettleDropped, ForgetBatch, OnlyIndexAndTask
    <3>3. ProcessTypeOK'
      BY <2>5, <1>a DEF Commit, CommitWalk, RootOf, ForgetScan, Goto, SettleDropped, ForgetBatch, OnlyIndexAndTask
    <3> QED BY <3>1, <3>2, <3>3 DEF TypeOK
  <2> QED BY <1>5, <2>1, <2>2, <2>3, <2>4, <2>5 DEF IndexVaultStep
<1>6. CASE ProcessStep
  <2>1. CASE StartWatcher
    BY <2>1 DEF StartWatcher, indexVars, scanVars
  <2>2. CASE StartInitialIndex
    BY <2>2 DEF StartInitialIndex, Goto, indexVars, scanVars
  <2>3. CASE Exit
    <3>1. IndexTypeOK'
      BY <2>3, <1>a DEF Exit, ProcessGone, ForgetBatch
    <3>2. QueueTypeOK'
      <4>1. kernel' \in Seq(Hint) /\ queue' \in Seq(Hint)
        BY <2>3 DEF Exit, ProcessGone
      <4> QED BY <2>3, <4>1 DEF Exit, ProcessGone, ForgetBatch
    <3>3. ProcessTypeOK'
      BY <2>3, <1>a DEF Exit, ProcessGone, ForgetBatch
    <3> QED BY <3>1, <3>2, <3>3 DEF TypeOK
  <2>4. CASE Crash
    <3>1. IndexTypeOK'
      BY <2>4, <1>a DEF Crash, ProcessGone, ForgetBatch
    <3>2. QueueTypeOK'
      <4>1. kernel' \in Seq(Hint) /\ queue' \in Seq(Hint)
        BY <2>4 DEF Crash, ProcessGone
      <4> QED BY <2>4, <4>1 DEF Crash, ProcessGone, ForgetBatch
    <3>3. ProcessTypeOK'
      BY <2>4, <1>a DEF Crash, ProcessGone, ForgetBatch
    <3> QED BY <3>1, <3>2, <3>3 DEF TypeOK
  <2> QED BY <1>6, <2>1, <2>2, <2>3, <2>4 DEF ProcessStep
<1>7. CASE UNCHANGED vars
  BY <1>7 DEF vars, indexVars, scanVars, watchVars
<1> QED BY <1>1, <1>2, <1>3, <1>4, <1>5, <1>6, <1>7 DEF Next

(* The initial state is well typed.                                        *)
LEMMA TypeCorrectInit == Init => TypeOK
<1> SUFFICES ASSUME Init PROVE TypeOK
  OBVIOUS
<1> USE DEF Init, IndexInit, Actor, Initial, Watcher, Cli
<1>1. IndexTypeOK
  BY ReachableAssumption DEF IndexTypeOK, Nothing, IndexValue
<1>2. QueueTypeOK
  <2>1. kernel \in Seq(Hint) /\ queue \in Seq(Hint)
    OBVIOUS
  <2> QED BY <2>1 DEF QueueTypeOK
<1>3. ProcessTypeOK
  BY DEF ProcessTypeOK
<1> QED BY <1>1, <1>2, <1>3 DEF TypeOK

(* The daemon's state is well typed in every behaviour.                    *)
THEOREM TypeCorrect == Spec => []TypeOK
BY TypeCorrectInit, TypeStep, PTL DEF Spec
-----------------------------------------------------------------------------
(* The inductive invariant *)

(* Where each thread can be, and who holds the write lock.                 *)
Places ==
    /\ pc[Watcher] \in {"recv", "batch", "scan", "lock", "walk"}
    /\ pc[Initial] \in {"off", "lock", "walk", "done", "failed"}
    /\ pc[Cli] \in {"off", "lock", "walk"}
    /\ daemon # "serving" => pc[Initial] = "off"
    /\ \A a \in Actor : pc[a] = "walk" <=> writer = a

(* A daemon that is down has no hints, and an idle task has an empty batch.*)
Batches ==
    /\ daemon = "down" => pc[Watcher] = "recv" /\ kernel = <<>> /\ queue = <<>>
    /\ pc[Watcher] = "recv" => ~batchFull /\ batchPaths = {}
    /\ pc[Watcher] = "scan" =>
          /\ ~batchFull
          /\ DirHint \in batchPaths => DirHint \in todo[Watcher]

(* A walk of another root has found that root's texts and nothing else; no *)
(* other scan has.                                                         *)
WalksForeign(a) == pc[a] = "walk" /\ RootOf(a) = Foreign
ScansKeepToRoot ==
    \A a \in Actor, p \in Note :
        IF WalksForeign(a)
          THEN found[a][p] = ForeignText /\ p \notin todo[a] \cup listed[a]
          ELSE found[a][p] # ForeignText

(* Only a walk lists entries, and one that it has not met yet has not been *)
(* found.                                                                  *)
UnmetNotFound ==
    /\ \A a \in Actor : pc[a] # "walk" => listed[a] = {}
    /\ \A a \in Actor, p \in Note :
          pc[a] = "walk" /\ RootOf(a) = Home /\ p \in todo[a] =>
              found[a][p] = Absent /\ p \notin listed[a]

(* Actor a has looked at p in its current scan, and what it saw is out of  *)
(* date.                                                                   *)
Outdated(a, p) == p \notin todo[a] \cup listed[a] /\ ~Fresh(a, p)

(* Whatever changed after a scan looked at it is pending elsewhere: for    *)
(* the task the hint is still on its way; for the others the task may have *)
(* taken it, or failed with it.                                            *)
OutdatedReadsPending ==
    \A p \in Note :
        /\ pc[Watcher] = "walk" /\ Outdated(Watcher, p) => Hinted(p)
        /\ pc[Watcher] = "scan" /\ p \in batchPaths /\ Outdated(Watcher, p) => Hinted(p)
        /\ pc[Initial] = "walk" /\ Outdated(Initial, p) =>
              p \in dropped \/ Hinted(p) \/ TaskCovers(p)
        /\ pc[Cli] = "walk" /\ cliRoot = Home /\ Outdated(Cli, p) =>
              p \in dropped \/ Pending(p)

IInv ==
    /\ TypeOK
    /\ Places
    /\ Batches
    /\ RootsNotMixed
    /\ ScansKeepToRoot
    /\ UnmetNotFound
    /\ OutdatedReadsPending
    /\ NoSilentStaleness

(* Where the threads are, and what that says about batches, is preserved.  *)
LEMMA PlacesStep ==
    TypeOK /\ Places /\ Batches /\ [Next]_vars => Places' /\ Batches'
<1> SUFFICES ASSUME TypeOK, Places, Batches, [Next]_vars PROVE Places' /\ Batches'
  OBVIOUS
<1> USE DEF TypeOK, IndexTypeOK, ProcessTypeOK, Places, Batches, Actor, Initial, Watcher, Cli, NoOne,
        tableVars, bounds, batch
<1>1. CASE UserStep
  <2>1. ASSUME NEW p \in Note, NEW f \in Reachable, Edit(p, f) PROVE (Places' /\ Batches')
    BY <2>1 DEF Edit, Notify, OnlyDiskAndKernel, scanVars, CountEdit
  <2>2. ASSUME NEW p \in Note, NEW q \in Note, Rename(p, q) PROVE (Places' /\ Batches')
    BY <2>2 DEF Rename, Notify, OnlyDiskAndKernel, scanVars
  <2>3. ASSUME NEW h \in Hint \ Note, Spurious(h) PROVE (Places' /\ Batches')
    BY <2>3 DEF Spurious, Notify, OnlyDiskAndKernel, scanVars
  <2>4. ASSUME NEW root \in {Home, Foreign}, StartCli(root) PROVE (Places' /\ Batches')
    BY <2>4 DEF StartCli, Goto, indexVars, scanVars, watchVars
  <2> QED BY <1>1, <2>1, <2>2, <2>3, <2>4 DEF UserStep
<1>2. CASE CallbackSends
  BY <1>2 DEF CallbackSends, indexVars, scanVars
<1>3. CASE CallbackSetsFlag
  BY <1>3 DEF CallbackSetsFlag, indexVars, scanVars
<1>4. CASE TaskStep
  <2>1. CASE ReceiveHint
    BY <2>1 DEF ReceiveHint, Absorb, Goto, indexVars, scanVars
  <2>2. CASE CloseBatch
    BY <2>2 DEF CloseBatch, Goto
  <2>3. ASSUME NEW p \in Note, ScanNote(p) PROVE (Places' /\ Batches')
    BY <2>3, NoteAssumption DEF ScanNote, ScanChangedPath, OnlyIndexAndTask, DirHint
  <2>4. CASE ScanIrrelevant
    BY <2>4 DEF ScanIrrelevant, OnlyIndexAndTask, DirHint, OtherHint
  <2>5. ASSUME NEW h \in PathHint, ScanRefused(h) PROVE (Places' /\ Batches')
    BY <2>5 DEF ScanRefused, ForgetScan, Goto, OnlyIndexAndTask
  <2>6. CASE ReconcilePaths
    BY <2>6 DEF ReconcilePaths, CommitPaths, ReconciledIndex, ForgetScan, Goto,
       SettleDropped, ForgetBatch, OnlyIndexAndTask
  <2>7. CASE ReconcileRefused
    BY <2>7 DEF ReconcileRefused, RootRefused, ForgetScan, Goto, OnlyIndexAndTask
  <2>8. CASE ReconcileTimesOut
    BY <2>8 DEF ReconcileTimesOut, ForgetScan, Goto, OnlyIndexAndTask
  <2> QED BY <1>4, <2>1, <2>2, <2>3, <2>4, <2>5, <2>6, <2>7, <2>8 DEF TaskStep
<1>5. ASSUME NEW a \in Actor, IndexVaultStep(a) PROVE (Places' /\ Batches')
  <2>1. CASE Lock(a)
    BY <2>1 DEF Lock, BeginWalk, Goto, OnlyIndexAndTask
  <2>2. CASE LockTimesOut(a)
    <3>1. CASE a = Watcher
      BY <2>2, <3>1 DEF LockTimesOut, IndexVaultFailed, Goto, ForgetBatch, OnlyIndexAndTask,
         indexVars, scanVars
    <3>2. CASE a = Initial
      <4>1. UNCHANGED <<batchFull, batchPaths, daemon, kernel, queue, writer, todo>>
        BY <2>2, <3>2 DEF LockTimesOut, IndexVaultFailed, Goto, OnlyIndexAndTask, indexVars, scanVars
      <4>2. pc' = [pc EXCEPT ![a] = "failed"] /\ pc[a] = "lock"
        BY <2>2, <3>2 DEF LockTimesOut, IndexVaultFailed, Goto
      <4> QED BY <3>2, <4>1, <4>2
    <3>3. CASE a = Cli
      <4>1. UNCHANGED <<batchFull, batchPaths, daemon, kernel, queue, writer, todo>>
        BY <2>2, <3>3 DEF LockTimesOut, IndexVaultFailed, Goto, OnlyIndexAndTask, indexVars, scanVars
      <4>2. pc' = [pc EXCEPT ![a] = "off"] /\ pc[a] = "lock"
        BY <2>2, <3>3 DEF LockTimesOut, IndexVaultFailed, Goto
      <4> QED BY <3>3, <4>1, <4>2
    <3> QED BY <3>1, <3>2, <3>3
  <2>3. ASSUME NEW p \in Note, Walk(a, p) PROVE (Places' /\ Batches')
    <3>1. UNCHANGED <<pc, daemon, writer, kernel, queue, batchFull, batchPaths>> /\ pc[a] = "walk"
      BY <2>3 DEF Walk, WalkEntry, ReadEntry, OnlyIndexAndTask
    <3>2. a # Watcher => todo'[Watcher] = todo[Watcher]
      BY <2>3 DEF Walk, WalkEntry, ReadEntry
    <3> QED BY <3>1, <3>2
  <2>4. ASSUME NEW p \in Note, WalkFails(a, p) PROVE (Places' /\ Batches')
    <3>1. CASE a = Watcher
      BY <2>4, <3>1 DEF WalkFails, ReadFails, ForgetScan, IndexVaultFailed, Goto, ForgetBatch,
         OnlyIndexAndTask
    <3>2. CASE a = Initial
      <4>1. UNCHANGED <<batchFull, batchPaths, daemon, kernel, queue>>
        BY <2>4, <3>2 DEF WalkFails, IndexVaultFailed, OnlyIndexAndTask
      <4>2. /\ pc' = [pc EXCEPT ![a] = "failed"] /\ pc[a] = "walk"
            /\ writer' = NoOne /\ todo'[Watcher] = todo[Watcher]
        BY <2>4, <3>2 DEF WalkFails, ReadFails, ForgetScan, IndexVaultFailed, Goto
      <4> QED BY <3>2, <4>1, <4>2
    <3>3. CASE a = Cli
      <4>1. UNCHANGED <<batchFull, batchPaths, daemon, kernel, queue>>
        BY <2>4, <3>3 DEF WalkFails, IndexVaultFailed, OnlyIndexAndTask
      <4>2. /\ pc' = [pc EXCEPT ![a] = "off"] /\ pc[a] = "walk"
            /\ writer' = NoOne /\ todo'[Watcher] = todo[Watcher]
        BY <2>4, <3>3 DEF WalkFails, ReadFails, ForgetScan, IndexVaultFailed, Goto
      <4> QED BY <3>3, <4>1, <4>2
    <3> QED BY <3>1, <3>2, <3>3
  <2>5. CASE Commit(a)
    <3>1. CASE a = Watcher
      BY <2>5, <3>1 DEF Commit, CommitWalk, ForgetScan, Goto, ForgetBatch, OnlyIndexAndTask
    <3>2. CASE a = Initial
      <4>1. UNCHANGED <<batchFull, batchPaths, daemon, kernel, queue>>
        BY <2>5, <3>2 DEF Commit, OnlyIndexAndTask
      <4>2. /\ pc' = [pc EXCEPT ![a] = "done"] /\ pc[a] = "walk"
            /\ writer' = NoOne /\ todo'[Watcher] = todo[Watcher]
        BY <2>5, <3>2 DEF Commit, CommitWalk, ForgetScan, Goto
      <4> QED BY <3>2, <4>1, <4>2
    <3>3. CASE a = Cli
      <4>1. UNCHANGED <<batchFull, batchPaths, daemon, kernel, queue>>
        BY <2>5, <3>3 DEF Commit, OnlyIndexAndTask
      <4>2. /\ pc' = [pc EXCEPT ![a] = "off"] /\ pc[a] = "walk"
            /\ writer' = NoOne /\ todo'[Watcher] = todo[Watcher]
        BY <2>5, <3>3 DEF Commit, CommitWalk, ForgetScan, Goto
      <4> QED BY <3>3, <4>1, <4>2
    <3> QED BY <3>1, <3>2, <3>3
  <2> QED BY <1>5, <2>1, <2>2, <2>3, <2>4, <2>5 DEF IndexVaultStep
<1>6. CASE ProcessStep
  <2>1. CASE StartWatcher
    BY <2>1 DEF StartWatcher, indexVars, scanVars
  <2>2. CASE StartInitialIndex
    BY <2>2 DEF StartInitialIndex, Goto, indexVars, scanVars
  <2>3. CASE Exit
    BY <2>3 DEF Exit, ProcessGone, ForgetBatch
  <2>4. CASE Crash
    BY <2>4 DEF Crash, ProcessGone, ForgetBatch
  <2> QED BY <1>6, <2>1, <2>2, <2>3, <2>4 DEF ProcessStep
<1>7. CASE UNCHANGED vars
  BY <1>7 DEF vars, indexVars, scanVars, watchVars
<1> QED BY <1>1, <1>2, <1>3, <1>4, <1>5, <1>6, <1>7 DEF Next

(* The scans of the other actors are as they were.                         *)
OthersUnchanged(a) ==
    \A b \in Actor \ {a} : /\ pc'[b] = pc[b]
                           /\ todo'[b] = todo[b]
                           /\ listed'[b] = listed[b]
                           /\ found'[b] = found[b]

(* When one actor moves, only its own scan has to be looked at.            *)
LEMMA RootsFrame ==
    ASSUME NEW a \in Actor, ScansKeepToRoot, OthersUnchanged(a), UNCHANGED cliRoot,
           \A p \in Note :
               IF WalksForeign(a)'
                 THEN found'[a][p] = ForeignText /\ p \notin todo'[a] \cup listed'[a]
                 ELSE found'[a][p] # ForeignText
    PROVE  ScansKeepToRoot'
<1>1. ASSUME NEW b \in Actor \ {a} PROVE WalksForeign(b)' <=> WalksForeign(b)
  BY DEF WalksForeign, RootOf, OthersUnchanged
<1>2. ASSUME NEW b \in Actor, NEW p \in Note
      PROVE  IF WalksForeign(b)'
               THEN found'[b][p] = ForeignText /\ p \notin todo'[b] \cup listed'[b]
               ELSE found'[b][p] # ForeignText
  <2>1. CASE b = a
    BY <2>1
  <2>2. CASE b # a
    BY <2>2, <1>1 DEF ScansKeepToRoot, OthersUnchanged
  <2> QED BY <2>1, <2>2
<1> QED BY <1>2 DEF ScansKeepToRoot

(* A step that leaves the other scans alone keeps what a walk has not met  *)
(* out of what it found, if it does so for its own.                        *)
LEMMA UnmetFrame ==
    ASSUME NEW a \in Actor, UnmetNotFound, OthersUnchanged(a), UNCHANGED cliRoot,
           pc'[a] # "walk" => listed'[a] = {},
           \A p \in Note : pc'[a] = "walk" /\ RootOf(a) = Home /\ p \in todo'[a] =>
                               found'[a][p] = Absent /\ p \notin listed'[a]
    PROVE  UnmetNotFound'
<1>1. \A b \in Actor : RootOf(b)' = RootOf(b)
  BY DEF RootOf
<1>2. ASSUME NEW b \in Actor PROVE pc'[b] # "walk" => listed'[b] = {}
  BY DEF UnmetNotFound, OthersUnchanged
<1>3. ASSUME NEW b \in Actor, NEW p \in Note
      PROVE  pc'[b] = "walk" /\ RootOf(b) = Home /\ p \in todo'[b] =>
                 found'[b][p] = Absent /\ p \notin listed'[b]
  BY DEF UnmetNotFound, OthersUnchanged
<1> QED BY <1>1, <1>2, <1>3 DEF UnmetNotFound

(* Scans and rows keep to one root.                                        *)
LEMMA RootsStep ==
    /\ TypeOK /\ Places /\ RootsNotMixed /\ ScansKeepToRoot
    /\ [Next]_vars
    => RootsNotMixed' /\ ScansKeepToRoot'
<1> SUFFICES ASSUME TypeOK, Places, RootsNotMixed, ScansKeepToRoot, [Next]_vars
             PROVE  RootsNotMixed' /\ ScansKeepToRoot'
  OBVIOUS
<1> USE DEF TypeOK, IndexTypeOK, ProcessTypeOK, Places, RootsNotMixed, ScansKeepToRoot,
        WalksForeign, RootOf, Actor, Initial, Watcher, Cli, NoOne, Home, Foreign, NoRoot,
        tableVars, bounds, batch
<1>a. \A p \in Note : Nothing[p] # ForeignText
  BY DEF Nothing, Absent, ForeignText
<1>b. \A f : Indexed(f) # ForeignText
  BY ContentAssumption DEF Indexed, Absent, ForeignText
<1>1. CASE UserStep
  <2>1. ASSUME NEW p \in Note, NEW f \in Reachable, Edit(p, f) PROVE (RootsNotMixed' /\ ScansKeepToRoot')
    BY <2>1, <1>a, <1>b DEF Edit, Notify, OnlyDiskAndKernel, scanVars
  <2>2. ASSUME NEW p \in Note, NEW q \in Note, Rename(p, q) PROVE (RootsNotMixed' /\ ScansKeepToRoot')
    BY <2>2, <1>a, <1>b DEF Rename, Notify, OnlyDiskAndKernel, scanVars
  <2>3. ASSUME NEW h \in Hint \ Note, Spurious(h) PROVE (RootsNotMixed' /\ ScansKeepToRoot')
    BY <2>3, <1>a, <1>b DEF Spurious, Notify, OnlyDiskAndKernel, scanVars
  <2>4. ASSUME NEW root \in {Home, Foreign}, StartCli(root) PROVE (RootsNotMixed' /\ ScansKeepToRoot')
    BY <2>4, <1>a, <1>b DEF StartCli, Goto, indexVars, scanVars, watchVars
  <2> QED BY <1>1, <2>1, <2>2, <2>3, <2>4 DEF UserStep
<1>2. CASE CallbackSends
  BY <1>2, <1>a, <1>b DEF CallbackSends, indexVars, scanVars
<1>3. CASE CallbackSetsFlag
  BY <1>3, <1>a, <1>b DEF CallbackSetsFlag, indexVars, scanVars
<1>4. CASE TaskStep
  <2>1. CASE ReceiveHint
    BY <2>1, <1>a, <1>b DEF ReceiveHint, Absorb, Goto, indexVars, scanVars
  <2>2. CASE CloseBatch
    <3>1. UNCHANGED <<index, indexedRoot, found, listed, cliRoot>>
      BY <2>2 DEF CloseBatch
    <3>2. pc[Watcher] # "walk" /\ pc'[Watcher] # "walk"
      BY <2>2 DEF CloseBatch, Goto
    <3>3. \A b \in Actor : b # Watcher => pc'[b] = pc[b] /\ todo'[b] = todo[b]
      BY <2>2 DEF CloseBatch, Goto
    <3>4. \A b \in Actor : WalksForeign(b)' <=> WalksForeign(b)
      BY <3>1, <3>2, <3>3
    <3>5. RootsNotMixed'
      BY <3>1
    <3>6. ScansKeepToRoot'
      BY <3>1, <3>2, <3>3, <3>4
    <3> QED BY <3>5, <3>6
  <2>3. ASSUME NEW p \in Note, ScanNote(p) PROVE (RootsNotMixed' /\ ScansKeepToRoot')
    BY <2>3, <1>a, <1>b DEF ScanNote, ScanChangedPath, OnlyIndexAndTask
  <2>4. CASE ScanIrrelevant
    BY <2>4, <1>a, <1>b DEF ScanIrrelevant, OnlyIndexAndTask
  <2>5. ASSUME NEW h \in PathHint, ScanRefused(h) PROVE (RootsNotMixed' /\ ScansKeepToRoot')
    BY <2>5, <1>a, <1>b DEF ScanRefused, ForgetScan, Goto, OnlyIndexAndTask
  <2>6. CASE ReconcilePaths
    BY <2>6, <1>a, <1>b DEF ReconcilePaths, CommitPaths, ReconciledIndex, ForgetScan, Goto,
       SettleDropped, ForgetBatch, OnlyIndexAndTask
  <2>7. CASE ReconcileRefused
    BY <2>7, <1>a, <1>b DEF ReconcileRefused, RootRefused, ForgetScan, Goto,
       OnlyIndexAndTask
  <2>8. CASE ReconcileTimesOut
    BY <2>8, <1>a, <1>b DEF ReconcileTimesOut, ForgetScan, Goto, OnlyIndexAndTask
  <2> QED BY <1>4, <2>1, <2>2, <2>3, <2>4, <2>5, <2>6, <2>7, <2>8 DEF TaskStep
<1>5. ASSUME NEW a \in Actor, IndexVaultStep(a) PROVE (RootsNotMixed' /\ ScansKeepToRoot')
  <2>1. CASE Lock(a)
    <3>1. /\ pc' = [pc EXCEPT ![a] = "walk"]
          /\ UNCHANGED <<index, indexedRoot, cliRoot>>
      BY <2>1 DEF Lock, BeginWalk, Goto, OnlyIndexAndTask
    <3>2. OthersUnchanged(a)
      BY <2>1 DEF Lock, BeginWalk, Goto, OthersUnchanged
    <3>3. RootOf(a) = Home => \A p \in Note : found'[a][p] # ForeignText
      BY <2>1 DEF Lock, BeginWalk, Absent, ForeignText
    <3>4. RootOf(a) # Home =>
             \A p \in Note : found'[a][p] = ForeignText /\ p \notin todo'[a] \cup listed'[a]
      BY <2>1 DEF Lock, BeginWalk
    <3>5. RootsNotMixed'
      BY <3>1
    <3>6. WalksForeign(a)' <=> RootOf(a) # Home
      BY <3>1
    <3>7. ScansKeepToRoot'
      <4> HIDE DEF WalksForeign, RootOf, ScansKeepToRoot, Actor
      <4> QED BY <3>1, <3>2, <3>3, <3>4, <3>6, RootsFrame
    <3> QED BY <3>5, <3>7
  <2>2. CASE LockTimesOut(a)
    <3>1. UNCHANGED <<index, indexedRoot, found, listed, todo, cliRoot>>
      BY <2>2 DEF LockTimesOut, OnlyIndexAndTask, indexVars, scanVars
    <3>2. pc[a] # "walk" /\ pc'[a] # "walk"
      BY <2>2 DEF LockTimesOut, IndexVaultFailed, Goto
    <3>3. \A b \in Actor : b # a => pc'[b] = pc[b]
      BY <2>2 DEF LockTimesOut, IndexVaultFailed, Goto
    <3>4. \A b \in Actor : WalksForeign(b)' <=> WalksForeign(b)
      BY <3>1, <3>2, <3>3
    <3> QED BY <3>1, <3>4
  <2>3. ASSUME NEW p \in Note, Walk(a, p) PROVE (RootsNotMixed' /\ ScansKeepToRoot')
    <3>1. CASE WalkEntry(a, p)
      BY <2>3, <3>1 DEF Walk, WalkEntry, OnlyIndexAndTask
    <3>2. CASE ReadEntry(a, p)
      <4>1. ~WalksForeign(a)
        BY <2>3, <3>2 DEF Walk, ReadEntry
      <4>2. found' = [found EXCEPT ![a][p] = Indexed(disk[p])] /\ UNCHANGED <<pc, cliRoot, todo>>
        BY <2>3, <3>2 DEF Walk, ReadEntry, OnlyIndexAndTask
      <4>3. \A b \in Actor : WalksForeign(b)' <=> WalksForeign(b)
        BY <4>2
      <4>r. RootsNotMixed'
        BY <2>3, <3>2 DEF Walk, ReadEntry
      <4>4. SUFFICES ASSUME NEW b \in Actor, NEW q \in Note
                     PROVE  IF WalksForeign(b)
                              THEN found'[b][q] = ForeignText /\ q \notin (todo[b] \cup listed[b])'
                              ELSE found'[b][q] # ForeignText
        <5> HIDE DEF WalksForeign
        <5> QED BY <4>r, <4>3
      <4>5. CASE b = a
        BY <4>1, <4>2, <4>5, <1>b
      <4>6. CASE b # a
        <5>1. found'[b] = found[b] /\ todo'[b] = todo[b] /\ listed'[b] = listed[b]
          BY <3>2, <4>2, <4>6 DEF ReadEntry
        <5> QED BY <5>1
      <4> QED BY <4>5, <4>6
    <3> QED BY <2>3, <3>1, <3>2 DEF Walk
  <2>4. ASSUME NEW p \in Note, WalkFails(a, p) PROVE (RootsNotMixed' /\ ScansKeepToRoot')
    <3>1. UNCHANGED <<index, indexedRoot, cliRoot>>
      BY <2>4 DEF WalkFails, ReadFails, OnlyIndexAndTask
    <3>2. pc'[a] # "walk" /\ found'[a] = Nothing
      BY <2>4 DEF WalkFails, ReadFails, ForgetScan, IndexVaultFailed, Goto
    <3>3. OthersUnchanged(a)
      BY <2>4 DEF WalkFails, ReadFails, ForgetScan, IndexVaultFailed, Goto, OthersUnchanged
    <3>4. RootsNotMixed'
      BY <3>1
    <3>5. ~WalksForeign(a)' /\ \A q \in Note : found'[a][q] # ForeignText
      BY <3>2, <1>a
    <3>6. ScansKeepToRoot'
      <4> HIDE DEF WalksForeign, ScansKeepToRoot, Actor
      <4> QED BY <3>1, <3>3, <3>5, RootsFrame
    <3> QED BY <3>4, <3>6
  <2>5. CASE Commit(a)
    <3>1. /\ pc[a] = "walk"
          /\ index' = found[a] /\ indexedRoot' = RootOf(a)
          /\ UNCHANGED cliRoot
      BY <2>5 DEF Commit, CommitWalk, OnlyIndexAndTask
    <3>2. pc'[a] # "walk" /\ found'[a] = Nothing
      BY <2>5 DEF Commit, CommitWalk, ForgetScan, Goto
    <3>3. OthersUnchanged(a)
      BY <2>5 DEF Commit, CommitWalk, ForgetScan, Goto, OthersUnchanged
    <3>4. RootsNotMixed'
      BY <3>1
    <3>5. ~WalksForeign(a)' /\ \A p \in Note : found'[a][p] # ForeignText
      BY <3>2, <1>a
    <3>6. ScansKeepToRoot'
      <4> HIDE DEF WalksForeign, ScansKeepToRoot, Actor
      <4> QED BY <3>1, <3>3, <3>5, RootsFrame
    <3> QED BY <3>4, <3>6
  <2> QED BY <1>5, <2>1, <2>2, <2>3, <2>4, <2>5 DEF IndexVaultStep
<1>6. CASE ProcessStep
  <2>1. CASE StartWatcher
    BY <2>1, <1>a, <1>b DEF StartWatcher, indexVars, scanVars
  <2>2. CASE StartInitialIndex
    BY <2>2, <1>a, <1>b DEF StartInitialIndex, Goto, indexVars, scanVars
  <2>3. CASE Exit
    BY <2>3, <1>a, <1>b DEF Exit, ProcessGone, ForgetBatch
  <2>4. CASE Crash
    BY <2>4, <1>a, <1>b DEF Crash, ProcessGone, ForgetBatch
  <2> QED BY <1>6, <2>1, <2>2, <2>3, <2>4 DEF ProcessStep
<1>7. CASE UNCHANGED vars
  BY <1>7, <1>a, <1>b DEF vars, indexVars, scanVars, watchVars
<1> QED BY <1>1, <1>2, <1>3, <1>4, <1>5, <1>6, <1>7 DEF Next

(* What a walk has not met it has not found.                               *)
LEMMA UnmetStep ==
    TypeOK /\ Places /\ UnmetNotFound /\ [Next]_vars => UnmetNotFound'
<1> SUFFICES ASSUME TypeOK, Places, UnmetNotFound, [Next]_vars PROVE UnmetNotFound'
  OBVIOUS
<1> USE DEF TypeOK, IndexTypeOK, ProcessTypeOK, Places, UnmetNotFound, RootOf, Actor, Initial,
        Watcher, Cli, NoOne, Home, Foreign, tableVars, bounds, batch
<1>1. CASE UserStep
  <2>1. ASSUME NEW p \in Note, NEW f \in Reachable, Edit(p, f) PROVE UnmetNotFound'
    BY <2>1 DEF Edit, Notify, OnlyDiskAndKernel, scanVars
  <2>2. ASSUME NEW p \in Note, NEW q \in Note, Rename(p, q) PROVE UnmetNotFound'
    BY <2>2 DEF Rename, Notify, OnlyDiskAndKernel, scanVars
  <2>3. ASSUME NEW h \in Hint \ Note, Spurious(h) PROVE UnmetNotFound'
    BY <2>3 DEF Spurious, Notify, OnlyDiskAndKernel, scanVars
  <2>4. ASSUME NEW root \in {Home, Foreign}, StartCli(root) PROVE UnmetNotFound'
    BY <2>4 DEF StartCli, Goto, indexVars, scanVars, watchVars
  <2> QED BY <1>1, <2>1, <2>2, <2>3, <2>4 DEF UserStep
<1>2. CASE CallbackSends
  BY <1>2 DEF CallbackSends, indexVars, scanVars
<1>3. CASE CallbackSetsFlag
  BY <1>3 DEF CallbackSetsFlag, indexVars, scanVars
<1>4. CASE TaskStep
  <2>1. CASE ReceiveHint
    BY <2>1 DEF ReceiveHint, Absorb, Goto, indexVars, scanVars
  <2>2. CASE CloseBatch
    <3>1. UNCHANGED <<found, listed, cliRoot>>
      BY <2>2 DEF CloseBatch
    <3>2. pc[Watcher] # "walk" /\ pc'[Watcher] # "walk"
      BY <2>2 DEF CloseBatch, Goto
    <3>3. \A b \in Actor : b # Watcher => pc'[b] = pc[b] /\ todo'[b] = todo[b]
      BY <2>2 DEF CloseBatch, Goto
    <3> QED BY <3>1, <3>2, <3>3
  <2>3. ASSUME NEW p \in Note, ScanNote(p) PROVE UnmetNotFound'
    BY <2>3 DEF ScanNote, ScanChangedPath, OnlyIndexAndTask
  <2>4. CASE ScanIrrelevant
    BY <2>4 DEF ScanIrrelevant, OnlyIndexAndTask
  <2>5. ASSUME NEW h \in PathHint, ScanRefused(h) PROVE UnmetNotFound'
    BY <2>5 DEF ScanRefused, ForgetScan, Goto, OnlyIndexAndTask
  <2>6. CASE ReconcilePaths
    BY <2>6 DEF ReconcilePaths, CommitPaths, ReconciledIndex, ForgetScan, Goto,
       SettleDropped, ForgetBatch, OnlyIndexAndTask
  <2>7. CASE ReconcileRefused
    BY <2>7 DEF ReconcileRefused, RootRefused, ForgetScan, Goto, OnlyIndexAndTask
  <2>8. CASE ReconcileTimesOut
    BY <2>8 DEF ReconcileTimesOut, ForgetScan, Goto, OnlyIndexAndTask
  <2> QED BY <1>4, <2>1, <2>2, <2>3, <2>4, <2>5, <2>6, <2>7, <2>8 DEF TaskStep
<1>5. ASSUME NEW a \in Actor, IndexVaultStep(a) PROVE UnmetNotFound'
  <2>1. CASE Lock(a)
    <3>1. pc' = [pc EXCEPT ![a] = "walk"] /\ UNCHANGED cliRoot
      BY <2>1 DEF Lock, Goto, OnlyIndexAndTask
    <3>2. OthersUnchanged(a)
      BY <2>1 DEF Lock, BeginWalk, Goto, OthersUnchanged
    <3>3. listed'[a] = {} /\ (RootOf(a) = Home => \A p \in Note : found'[a][p] = Absent)
      BY <2>1 DEF Lock, BeginWalk
    <3> HIDE DEF UnmetNotFound, RootOf, Actor
    <3> QED BY <3>1, <3>2, <3>3, UnmetFrame
  <2>2. CASE LockTimesOut(a)
    <3>1. UNCHANGED <<found, listed, todo, cliRoot>>
      BY <2>2 DEF LockTimesOut, OnlyIndexAndTask, indexVars, scanVars
    <3>2. pc[a] # "walk" /\ pc'[a] # "walk"
      BY <2>2 DEF LockTimesOut, IndexVaultFailed, Goto
    <3>3. \A b \in Actor : b # a => pc'[b] = pc[b]
      BY <2>2 DEF LockTimesOut, IndexVaultFailed, Goto
    <3> QED BY <3>1, <3>2, <3>3
  <2>3. ASSUME NEW p \in Note, Walk(a, p) PROVE UnmetNotFound'
    <3>1. CASE WalkEntry(a, p)
      <4>1. UNCHANGED <<pc, cliRoot, found>> /\ pc[a] = "walk"
        BY <2>3, <3>1 DEF Walk, WalkEntry, OnlyIndexAndTask
      <4>2. OthersUnchanged(a)
        BY <3>1, <4>1 DEF WalkEntry, OthersUnchanged
      <4>3. todo'[a] = todo[a] \ {p} /\ listed'[a] \subseteq listed[a] \cup {p}
        BY <3>1 DEF WalkEntry
      <4>4. \A q \in Note : RootOf(a) = Home /\ q \in todo'[a] =>
                               found'[a][q] = Absent /\ q \notin listed'[a]
        BY <4>1, <4>3
      <4> HIDE DEF UnmetNotFound, RootOf, Actor
      <4> QED BY <4>1, <4>2, <4>4, UnmetFrame
    <3>2. CASE ReadEntry(a, p)
      <4>1. UNCHANGED <<pc, cliRoot, todo>> /\ pc[a] = "walk" /\ p \in listed[a]
        BY <2>3, <3>2 DEF Walk, ReadEntry, OnlyIndexAndTask
      <4>2. OthersUnchanged(a)
        BY <3>2, <4>1 DEF ReadEntry, OthersUnchanged
      <4>3. /\ listed'[a] = listed[a] \ {p}
            /\ \A q \in Note \ {p} : found'[a][q] = found[a][q]
        BY <3>2 DEF ReadEntry
      <4>4. \A q \in Note : RootOf(a) = Home /\ q \in todo'[a] =>
                               found'[a][q] = Absent /\ q \notin listed'[a]
        BY <4>1, <4>3
      <4> HIDE DEF UnmetNotFound, RootOf, Actor
      <4> QED BY <4>1, <4>2, <4>4, UnmetFrame
    <3> QED BY <2>3, <3>1, <3>2 DEF Walk
  <2>4. ASSUME NEW p \in Note, WalkFails(a, p) PROVE UnmetNotFound'
    <3>1. pc'[a] # "walk" /\ listed'[a] = {} /\ UNCHANGED cliRoot
      BY <2>4 DEF WalkFails, ReadFails, ForgetScan, IndexVaultFailed, Goto, OnlyIndexAndTask
    <3>2. OthersUnchanged(a)
      BY <2>4 DEF WalkFails, ReadFails, ForgetScan, IndexVaultFailed, Goto, OthersUnchanged
    <3> HIDE DEF UnmetNotFound, RootOf, Actor
    <3> QED BY <3>1, <3>2, UnmetFrame
  <2>5. CASE Commit(a)
    <3>1. pc'[a] # "walk" /\ listed'[a] = {} /\ UNCHANGED cliRoot
      BY <2>5 DEF Commit, CommitWalk, ForgetScan, Goto, OnlyIndexAndTask
    <3>2. OthersUnchanged(a)
      BY <2>5 DEF Commit, CommitWalk, ForgetScan, Goto, OthersUnchanged
    <3> HIDE DEF UnmetNotFound, RootOf, Actor
    <3> QED BY <3>1, <3>2, UnmetFrame
  <2> QED BY <1>5, <2>1, <2>2, <2>3, <2>4, <2>5 DEF IndexVaultStep
<1>6. CASE ProcessStep
  <2>1. CASE StartWatcher
    BY <2>1 DEF StartWatcher, indexVars, scanVars
  <2>2. CASE StartInitialIndex
    BY <2>2 DEF StartInitialIndex, Goto, indexVars, scanVars
  <2>3. CASE Exit
    BY <2>3 DEF Exit, ProcessGone, ForgetBatch
  <2>4. CASE Crash
    BY <2>4 DEF Crash, ProcessGone, ForgetBatch
  <2> QED BY <1>6, <2>1, <2>2, <2>3, <2>4 DEF ProcessStep
<1>7. CASE UNCHANGED vars
  BY <1>7 DEF vars, indexVars, scanVars, watchVars
<1> QED BY <1>1, <1>2, <1>3, <1>4, <1>5, <1>6, <1>7 DEF Next

(* How the hints of a queue change at its two ends.                        *)
LEMMA CarriesAppend ==
    ASSUME NEW s \in Seq(Hint), NEW h \in Hint, NEW p
    PROVE  Carries(Append(s, h), p) <=> Carries(s, p) \/ h \in {p, FullHint, DirHint}
<1>1. Len(Append(s, h)) = Len(s) + 1 /\ Append(s, h)[Len(s) + 1] = h
  OBVIOUS
<1>2. \A i \in 1..Len(s) : Append(s, h)[i] = s[i]
  OBVIOUS
<1>3. Len(s) \in Nat
  OBVIOUS
<1> QED BY <1>1, <1>2, <1>3 DEF Carries

(* Taking the first hint off a queue loses only what that hint covers.     *)
LEMMA CarriesTail ==
    ASSUME NEW s \in Seq(Hint), s # <<>>, NEW p
    PROVE  /\ Head(s) \in Hint
           /\ Carries(s, p) => Head(s) \in {p, FullHint, DirHint} \/ Carries(Tail(s), p)
<1>1. Len(Tail(s)) = Len(s) - 1 /\ Head(s) = s[1] /\ Len(s) \in Nat \ {0}
  OBVIOUS
<1>2. \A i \in 1..(Len(s) - 1) : Tail(s)[i] = s[i + 1]
  OBVIOUS
<1>3. ASSUME NEW i \in 1..Len(s), i # 1 PROVE i - 1 \in 1..(Len(s) - 1) /\ Tail(s)[i - 1] = s[i]
  BY <1>1, <1>2, <1>3
<1>4. Head(s) \in Hint
  BY <1>1
<1>5. ASSUME Carries(s, p) PROVE Head(s) \in {p, FullHint, DirHint} \/ Carries(Tail(s), p)
  <2>1. PICK i \in 1..Len(s) : s[i] \in {p, FullHint, DirHint}
    BY <1>5 DEF Carries
  <2>2. CASE i = 1
    BY <1>1, <2>1, <2>2
  <2>3. CASE i # 1
    BY <1>1, <1>3, <2>1, <2>3 DEF Carries
  <2> QED BY <2>2, <2>3
<1> QED BY <1>4, <1>5

(* The clauses of OutdatedReadsPending and NoSilentStaleness for one note. *)
TaskPending(q) ==
    /\ Outdated(Watcher, q)
    /\ pc[Watcher] = "walk" \/ (pc[Watcher] = "scan" /\ q \in batchPaths)
    => Hinted(q)
InitialPending(q) ==
    pc[Initial] = "walk" /\ Outdated(Initial, q) => q \in dropped \/ Hinted(q) \/ TaskCovers(q)
CliPending(q) ==
    pc[Cli] = "walk" /\ cliRoot = Home /\ Outdated(Cli, q) => q \in dropped \/ Pending(q)
StalePending(q) ==
    Stale(q) => q \in dropped \/ indexedRoot = Foreign \/ Pending(q)
PendingAt(q) == TaskPending(q) /\ InitialPending(q) /\ CliPending(q) /\ StalePending(q)

(* Nothing that is out of date is forgotten by any step, provided that the *)
(* hints name the notes as scan_changed_path knows them.                   *)
LEMMA PendingStep ==
    ~RootAliased /\ IInv /\ [Next]_vars => OutdatedReadsPending' /\ NoSilentStaleness'
<1> SUFFICES ASSUME ~RootAliased, IInv, [Next]_vars, NEW n \in Note
             PROVE  PendingAt(n)'
  BY DEF OutdatedReadsPending, NoSilentStaleness, PendingAt, TaskPending, InitialPending,
         CliPending, StalePending
<1>n. PendingAt(n)
  BY DEF IInv, OutdatedReadsPending, NoSilentStaleness, PendingAt, TaskPending, InitialPending,
         CliPending, StalePending
<1>s. \A h : SeenHint(h) = h
  BY DEF SeenHint
<1> USE DEF IInv, TypeOK, IndexTypeOK, ProcessTypeOK, Places, Batches, PendingAt, TaskPending,
        InitialPending, CliPending, StalePending, Outdated, Fresh, Stale, Hinted, TaskCovers,
        InitialCovers, Pending, Claimed, Actor, Initial, Watcher, Cli, NoOne, tableVars, bounds,
        batch
<1>1. CASE UserStep
  <2>1. ASSUME NEW p \in Note, NEW f \in Reachable, Edit(p, f) PROVE PendingAt(n)'
    <3>1. Carries(kernel, n) => Carries(kernel', n)
      BY <2>1, <1>s, CarriesAppend DEF Edit, Notify, QueueTypeOK, Hint, PathHint
    <3>2. n = p => Carries(kernel', n) \/ daemon = "down"
      BY <2>1, <1>s, CarriesAppend DEF Edit, Notify, QueueTypeOK, Hint, PathHint
    <3>3. n # p => disk'[n] = disk[n]
      BY <2>1 DEF Edit
    <3>4. UNCHANGED <<index, indexedRoot, found, todo, listed, pc, batchFull, batchPaths, queue,
                      overflowing, overflowed, daemon, dropped, cliRoot, writer>>
      BY <2>1 DEF Edit, OnlyDiskAndKernel, scanVars
    <3>5. Hinted(n) => Hinted(n)'
      BY <3>1, <3>4
    <3>6. CASE n # p
      <4>1. /\ TaskCovers(n)' <=> TaskCovers(n)
            /\ InitialCovers(n)' <=> InitialCovers(n)
        BY <3>3, <3>4, <3>6
      <4>2. /\ Stale(n)' <=> Stale(n)
            /\ \A a \in Actor : Outdated(a, n)' <=> Outdated(a, n)
        BY <3>3, <3>4, <3>6
      <4> HIDE DEF Hinted, TaskCovers, InitialCovers, Stale, Outdated
      <4> QED BY <3>4, <3>5, <4>1, <4>2, <1>n
    <3>7. CASE n = p /\ daemon = "down"
      <4>1. pc'[Watcher] = "recv" /\ pc'[Initial] = "off" /\ daemon' = "down"
        BY <3>4, <3>7
      <4>2. InitialCovers(n)'
        BY <4>1
      <4> HIDE DEF Hinted, TaskCovers, InitialCovers, Stale, Outdated
      <4> QED BY <4>1, <4>2
    <3>8. CASE n = p /\ daemon # "down"
      <4>1. Hinted(n)'
        BY <3>2, <3>8
      <4> HIDE DEF Hinted, TaskCovers, InitialCovers, Stale, Outdated
      <4> QED BY <4>1
    <3> QED BY <3>6, <3>7, <3>8
  <2>2. ASSUME NEW p \in Note, NEW q \in Note, Rename(p, q) PROVE PendingAt(n)'
    <3>1. Carries(kernel', n) \/ daemon = "down"
      BY <2>2, <1>s, CarriesAppend DEF Rename, Notify, QueueTypeOK, Hint
    <3>2. UNCHANGED <<index, indexedRoot, found, todo, listed, pc, batchFull, batchPaths, queue,
                      overflowing, overflowed, daemon, dropped, cliRoot, writer>>
      BY <2>2 DEF Rename, OnlyDiskAndKernel, scanVars
    <3> QED BY <3>1, <3>2, <1>n
  <2>3. ASSUME NEW h \in Hint \ Note, Spurious(h) PROVE PendingAt(n)'
    <3>1. Carries(kernel, n) => Carries(kernel', n)
      BY <2>3, <1>s, CarriesAppend DEF Spurious, Notify, QueueTypeOK
    <3> QED BY <2>3, <3>1, <1>n DEF Spurious, OnlyDiskAndKernel, scanVars
  <2>4. ASSUME NEW root \in {Home, Foreign}, StartCli(root) PROVE PendingAt(n)'
    BY <2>4, <1>n DEF StartCli, Goto, indexVars, scanVars, watchVars
  <2> QED BY <1>1, <2>1, <2>2, <2>3, <2>4 DEF UserStep
<1>2. CASE CallbackSends
  <2>1. Hinted(n) => Hinted(n)'
    <3>1. /\ Head(kernel) \in Hint
          /\ Carries(kernel, n) => Head(kernel) \in {n, FullHint, DirHint} \/ Carries(kernel', n)
      BY <1>2, CarriesTail DEF CallbackSends, QueueTypeOK
    <3>2. CASE Len(queue) < QueueCapacity
      <4>1. queue' = Append(queue, Head(kernel)) /\ UNCHANGED <<overflowing, overflowed>>
        BY <1>2, <3>2 DEF CallbackSends
      <4>2. Carries(queue', n) <=> Carries(queue, n) \/ Head(kernel) \in {n, FullHint, DirHint}
        BY <3>1, <4>1, CarriesAppend DEF QueueTypeOK
      <4> QED BY <3>1, <4>1, <4>2
    <3>3. CASE ~(Len(queue) < QueueCapacity)
      BY <1>2, <3>3 DEF CallbackSends
    <3> QED BY <3>2, <3>3
  <2>2. UNCHANGED <<index, indexedRoot, disk, found, todo, listed, pc, batchFull, batchPaths,
                    daemon, dropped, cliRoot, writer>>
    BY <1>2 DEF CallbackSends, indexVars, scanVars
  <2> HIDE DEF Hinted
  <2> QED BY <2>1, <2>2, <1>n
<1>3. CASE CallbackSetsFlag
  BY <1>3, <1>n DEF CallbackSetsFlag, indexVars, scanVars
<1>4. CASE TaskStep
  <2>1. CASE ReceiveHint
    <3>1. Head(queue) \in Hint /\ (Carries(queue, n) =>
             Head(queue) \in {n, FullHint, DirHint} \/ Carries(queue', n))
      BY <2>1, CarriesTail DEF ReceiveHint, QueueTypeOK
    <3>2. /\ batchFull => batchFull'
          /\ Head(queue) = FullHint => batchFull'
          /\ batchPaths \subseteq batchPaths'
          /\ Head(queue) \in {n, DirHint} => Head(queue) \in batchPaths'
      BY <2>1, NoteAssumption DEF ReceiveHint, Absorb, PathHint
    <3>3. /\ pc' = [pc EXCEPT ![Watcher] = "batch"]
          /\ pc[Watcher] \in {"recv", "batch"}
          /\ UNCHANGED <<index, indexedRoot, disk, found, todo, listed, kernel, overflowing,
                         overflowed, daemon, dropped, cliRoot, writer>>
      BY <2>1 DEF ReceiveHint, Goto, indexVars, scanVars
    <3>4. Hinted(n) => Hinted(n)' \/ TaskCovers(n)'
      BY <3>1, <3>2, <3>3
    <3>5. TaskCovers(n) => TaskCovers(n)'
      BY <3>2, <3>3
    <3>6. InitialCovers(n) => InitialCovers(n)'
      BY <3>3
    <3> HIDE DEF Hinted, TaskCovers, InitialCovers
    <3> QED BY <3>3, <3>4, <3>5, <3>6, <1>n
  <2>2. CASE CloseBatch
    BY <2>2, <1>n DEF CloseBatch, Goto
  <2>3. ASSUME NEW p \in Note, ScanNote(p) PROVE PendingAt(n)'
    BY <2>3, <1>n DEF ScanNote, ScanChangedPath, OnlyIndexAndTask
  <2>4. CASE ScanIrrelevant
    <3>1. n # OtherHint /\ DirHint # OtherHint
      BY NoteAssumption DEF DirHint, OtherHint
    <3> QED BY <2>4, <3>1, <1>n DEF ScanIrrelevant, OnlyIndexAndTask
  <2>5. ASSUME NEW h \in PathHint, ScanRefused(h) PROVE PendingAt(n)'
    BY <2>5, <1>n DEF ScanRefused, ForgetScan, Goto, OnlyIndexAndTask
  <2>6. CASE ReconcilePaths
    <3>1. /\ pc' = [pc EXCEPT ![Watcher] = "recv"]
          /\ pc[Watcher] = "scan" /\ writer = NoOne /\ todo[Watcher] = {}
          /\ UNCHANGED <<disk, indexedRoot, writer, daemon, kernel, overflowing, queue,
                         overflowed, cliRoot>>
      BY <2>6 DEF ReconcilePaths, CommitPaths, Goto, OnlyIndexAndTask
    <3>2. /\ n \in batchPaths => index'[n] = found[Watcher][n]
          /\ n \notin batchPaths => index'[n] = index[n]
          /\ Stale(n)' /\ n \in dropped => n \in dropped'
      BY <2>6 DEF ReconcilePaths, CommitPaths, ReconciledIndex, SettleDropped
    <3>3. Hinted(n)' <=> Hinted(n)
      BY <3>1
    <3>4. \A a \in Actor : pc[a] # "walk"
      BY <3>1
    <3>5. InitialCovers(n) => InitialCovers(n)'
      BY <3>1, <3>4
    <3>6. TaskCovers(n) => n \in batchPaths /\ Fresh(Watcher, n)
      BY <3>1
    <3>7. n \in batchPaths /\ ~Fresh(Watcher, n) => Hinted(n)
      BY <3>1, <1>n DEF UnmetNotFound
    <3> HIDE DEF Hinted, TaskCovers, InitialCovers
    <3>8. StalePending(n)'
      BY <3>1, <3>2, <3>3, <3>5, <3>6, <3>7, <1>n
    <3> QED BY <3>1, <3>4, <3>8
  <2>7. CASE ReconcileRefused
    BY <2>7, <1>n DEF ReconcileRefused, RootRefused, ForgetScan, Goto, OnlyIndexAndTask
  <2>8. CASE ReconcileTimesOut
    BY <2>8, <1>n DEF ReconcileTimesOut, ForgetScan, Goto, OnlyIndexAndTask
  <2> QED BY <1>4, <2>1, <2>2, <2>3, <2>4, <2>5, <2>6, <2>7, <2>8 DEF TaskStep
<1>5. ASSUME NEW a \in Actor, IndexVaultStep(a) PROVE PendingAt(n)'
  <2>1. CASE Lock(a)
    <3>1. CASE a = Initial
      BY <2>1, <3>1, <1>n DEF Lock, BeginWalk, Goto, OnlyIndexAndTask, RootOf, Home, Foreign
    <3>2. CASE a = Watcher
      BY <2>1, <3>2, <1>n DEF Lock, BeginWalk, Goto, OnlyIndexAndTask, RootOf, Home, Foreign
    <3>3. CASE a = Cli
      BY <2>1, <3>3, <1>n DEF Lock, BeginWalk, Goto, OnlyIndexAndTask, RootOf, Home, Foreign
    <3> QED BY <3>1, <3>2, <3>3
  <2>2. CASE LockTimesOut(a)
    <3>1. CASE a = Initial
      BY <2>2, <3>1, <1>n DEF LockTimesOut, IndexVaultFailed, Goto, ForgetBatch, OnlyIndexAndTask,
         indexVars, scanVars
    <3>2. CASE a = Watcher
      BY <2>2, <3>2, <1>n DEF LockTimesOut, IndexVaultFailed, Goto, ForgetBatch, OnlyIndexAndTask,
         indexVars, scanVars
    <3>3. CASE a = Cli
      <4>1. /\ pc' = [pc EXCEPT ![Cli] = "off"]
            /\ UNCHANGED <<disk, indexedRoot, index, daemon, kernel, overflowing, queue,
                           overflowed, batchFull, batchPaths, dropped, todo, listed, found>>
        BY <2>2, <3>3 DEF LockTimesOut, IndexVaultFailed, Goto, OnlyIndexAndTask, indexVars, scanVars
      <4> QED BY <4>1, <1>n
    <3> QED BY <3>1, <3>2, <3>3
  <2>3. ASSUME NEW p \in Note, Walk(a, p) PROVE PendingAt(n)'
    <3>1. n = p => n \in todo'[a] \cup listed'[a] \/ found'[a][n] = Indexed(disk[n])
      <4>1. CASE WalkEntry(a, p)
        <5>1. p \in todo[a] => RootOf(a) = Home /\ found[a][p] = Absent
          BY <2>3 DEF Walk, RootOf, ScansKeepToRoot, WalksForeign, UnmetNotFound, Home, Foreign
        <5>2. disk[p] \in {Absent, Symlink} => Indexed(disk[p]) = Absent
          BY ContentAssumption DEF Indexed
        <5> QED BY <4>1, <5>1, <5>2 DEF WalkEntry
      <4>2. CASE ReadEntry(a, p)
        BY <4>2 DEF ReadEntry
      <4> QED BY <2>3, <4>1, <4>2 DEF Walk
    <3>2. n # p => /\ n \in todo'[a] <=> n \in todo[a]
                   /\ n \in listed'[a] <=> n \in listed[a]
                   /\ found'[a][n] = found[a][n]
      <4>1. CASE WalkEntry(a, p)
        BY <4>1 DEF WalkEntry
      <4>2. CASE ReadEntry(a, p)
        BY <4>2 DEF ReadEntry
      <4> QED BY <2>3, <4>1, <4>2 DEF Walk
    <3>3. \A b \in Actor : b # a =>
             todo'[b] = todo[b] /\ listed'[b] = listed[b] /\ found'[b] = found[b]
      BY <2>3 DEF Walk, WalkEntry, ReadEntry
    <3>4. /\ pc[a] = "walk"
          /\ UNCHANGED <<disk, indexedRoot, index, daemon, kernel, overflowing, queue, overflowed,
                         batchFull, batchPaths, dropped, cliRoot, pc>>
      BY <2>3 DEF Walk, WalkEntry, ReadEntry, OnlyIndexAndTask
    <3>5. CASE a = Initial
      BY <3>1, <3>2, <3>3, <3>4, <3>5, <1>n
    <3>6. CASE a = Watcher
      BY <3>1, <3>2, <3>3, <3>4, <3>6, <1>n
    <3>7. CASE a = Cli
      BY <3>1, <3>2, <3>3, <3>4, <3>7, <1>n
    <3> QED BY <3>5, <3>6, <3>7
  <2>4. ASSUME NEW p \in Note, WalkFails(a, p) PROVE PendingAt(n)'
    <3>1. CASE a = Initial
      BY <2>4, <3>1, <1>n DEF WalkFails, ReadFails, ForgetScan, IndexVaultFailed, Goto,
         ForgetBatch, OnlyIndexAndTask
    <3>2. CASE a = Watcher
      BY <2>4, <3>2, <1>n DEF WalkFails, ReadFails, ForgetScan, IndexVaultFailed, Goto,
         ForgetBatch, OnlyIndexAndTask
    <3>3. CASE a = Cli
      <4>1. /\ pc' = [pc EXCEPT ![Cli] = "off"]
            /\ UNCHANGED <<disk, indexedRoot, index, daemon, kernel, overflowing, queue,
                           overflowed, batchFull, batchPaths, dropped>>
        BY <2>4, <3>3 DEF WalkFails, ReadFails, IndexVaultFailed, Goto, OnlyIndexAndTask
      <4>2. \A b \in {Initial, Watcher} :
               todo'[b] = todo[b] /\ listed'[b] = listed[b] /\ found'[b] = found[b]
        BY <2>4, <3>3 DEF WalkFails, ReadFails, ForgetScan
      <4> QED BY <4>1, <4>2, <1>n
    <3> QED BY <3>1, <3>2, <3>3
  <2>5. CASE Commit(a)
    <3>1. /\ writer = a /\ pc[a] = "walk"
          /\ todo[a] = {} /\ listed[a] = {}
          /\ UNCHANGED <<disk, daemon, kernel, overflowing, queue, overflowed, cliRoot>>
      BY <2>5 DEF Commit, CommitWalk, OnlyIndexAndTask
    <3>2. /\ index'[n] = found[a][n]
          /\ indexedRoot' = RootOf(a)
          /\ Stale(n)' /\ n \in dropped => n \in dropped'
      BY <2>5 DEF Commit, CommitWalk, SettleDropped
    <3>3. \A b \in Actor : b # a =>
             /\ pc[b] # "walk" /\ pc'[b] = pc[b]
             /\ todo'[b] = todo[b] /\ listed'[b] = listed[b] /\ found'[b] = found[b]
      BY <2>5, <3>1 DEF Commit, CommitWalk, ForgetScan, Goto
    <3>4. CASE a = Initial
      <4>1. pc'[Initial] = "done" /\ UNCHANGED <<batchFull, batchPaths>>
        BY <2>5, <3>4 DEF Commit, Goto
      <4>2. (Hinted(n)' <=> Hinted(n)) /\ (TaskCovers(n)' <=> TaskCovers(n))
        BY <3>1, <3>3, <3>4, <4>1
      <4>3. TaskPending(n)' /\ InitialPending(n)' /\ CliPending(n)'
        BY <3>1, <3>3, <3>4, <4>1, <1>n
      <4>4. StalePending(n)'
        <5> HIDE DEF Hinted, TaskCovers, InitialCovers
        <5> QED BY <3>1, <3>2, <3>4, <4>2, <1>n
      <4> QED BY <4>3, <4>4
    <3>5. CASE a = Watcher
      BY <2>5, <3>5, <1>n DEF Commit, CommitWalk, ForgetScan, Goto, SettleDropped, ForgetBatch,
         OnlyIndexAndTask, RootOf, Home, Foreign
    <3>6. CASE a = Cli
      <4>1. pc'[Cli] = "off" /\ UNCHANGED <<batchFull, batchPaths>>
        BY <2>5, <3>6 DEF Commit, Goto
      <4>2. /\ Hinted(n)' <=> Hinted(n)
            /\ TaskCovers(n)' <=> TaskCovers(n)
            /\ InitialCovers(n)' <=> InitialCovers(n)
        BY <3>1, <3>3, <3>6, <4>1
      <4>3. TaskPending(n)' /\ InitialPending(n)' /\ CliPending(n)'
        BY <3>1, <3>3, <3>6, <4>1, <1>n
      <4>4. StalePending(n)'
        <5> HIDE DEF Hinted, TaskCovers, InitialCovers
        <5> QED BY <3>1, <3>2, <3>6, <4>2, <1>n DEF RootOf
      <4> QED BY <4>3, <4>4
    <3> QED BY <3>4, <3>5, <3>6
  <2> QED BY <1>5, <2>1, <2>2, <2>3, <2>4, <2>5 DEF IndexVaultStep
<1>6. CASE ProcessStep
  <2>1. CASE StartWatcher
    BY <2>1, <1>n DEF StartWatcher, indexVars, scanVars
  <2>2. CASE StartInitialIndex
    BY <2>2, <1>n DEF StartInitialIndex, Goto, indexVars, scanVars
  <2>3. CASE Exit
    BY <2>3, <1>n DEF Exit, ProcessGone, ForgetBatch
  <2>4. CASE Crash
    BY <2>4, <1>n DEF Crash, ProcessGone, ForgetBatch
  <2> QED BY <1>6, <2>1, <2>2, <2>3, <2>4 DEF ProcessStep
<1>7. CASE UNCHANGED vars
  BY <1>7, <1>n DEF vars, indexVars, scanVars, watchVars
<1> QED BY <1>1, <1>2, <1>3, <1>4, <1>5, <1>6, <1>7 DEF Next

(* Where threads are, and which roots scans and rows belong to.            *)
Layout == TypeOK /\ Places /\ Batches /\ RootsNotMixed /\ ScansKeepToRoot /\ UnmetNotFound

(* The layout holds in every behaviour, however the vault was named.       *)
LEMMA LayoutHolds == Spec => []Layout
<1>1. Init => Layout
  <2> SUFFICES ASSUME Init PROVE Layout
    OBVIOUS
  <2>1. TypeOK
    BY TypeCorrectInit
  <2>2. Places /\ Batches
    BY DEF Init, IndexInit, Places, Batches, Actor, Initial, Watcher, Cli, NoOne
  <2>3. RootsNotMixed /\ ScansKeepToRoot /\ UnmetNotFound
    BY DEF Init, IndexInit, RootsNotMixed, ScansKeepToRoot, UnmetNotFound, WalksForeign, Nothing,
           Actor, Initial, Watcher, Cli, Absent, ForeignText, NoRoot, Foreign
  <2> QED BY <2>1, <2>2, <2>3 DEF Layout
<1>2. Layout /\ [Next]_vars => Layout'
  BY TypeStep, PlacesStep, RootsStep, UnmetStep DEF Layout
<1>3. QED BY <1>1, <1>2, PTL DEF Spec

(* The inductive invariant holds in every behaviour of a daemon that was   *)
(* given the canonical path of its vault.                                  *)
THEOREM Inductive == ASSUME ~RootAliased PROVE Spec => []IInv
<1>1. Init => OutdatedReadsPending /\ NoSilentStaleness
  BY DEF Init, OutdatedReadsPending, NoSilentStaleness, Pending, InitialCovers, Actor, Initial,
         Watcher, Cli
<1>2. Layout /\ OutdatedReadsPending /\ NoSilentStaleness <=> IInv
  BY DEF Layout, IInv
<1>3. IInv /\ [Next]_vars => OutdatedReadsPending' /\ NoSilentStaleness'
  BY PendingStep
<1>4. QED BY <1>1, <1>2, <1>3, LayoutHolds, PTL DEF Spec

(* Whatever the interleaving of edits, notifications, scans, commits,      *)
(* crashes and other processes, a row that does not match the disk is      *)
(* still going to be looked at, or the reconciliation that should have     *)
(* done so failed, or the vault id belongs to another root.  The daemon    *)
(* must have been given the canonical path of the vault.                   *)
THEOREM NothingForgotten == ASSUME ~RootAliased PROVE Spec => []NoSilentStaleness
<1>1. IInv => NoSilentStaleness
  BY DEF IInv
<1>2. QED BY <1>1, Inductive, PTL

(* The index never holds rows of two roots.                                *)
THEOREM OneRoot == Spec => []RootsNotMixed
<1>1. Layout => RootsNotMixed
  BY DEF Layout
<1>2. QED BY <1>1, LayoutHolds, PTL

(* A step leaves the tables alone, or is one of the two commits.           *)
LEMMA TablesStep ==
    ASSUME TypeOK, [Next]_vars
    PROVE  \/ UNCHANGED <<index, indexedRoot, indexRevision>>
           \/ indexRevision' = indexRevision + 1
<1> DEFINE G == \/ UNCHANGED <<index, indexedRoot, indexRevision>>
                \/ indexRevision' = indexRevision + 1
<1> SUFFICES G
  OBVIOUS
<1> USE DEF tableVars
<1>1. CASE UserStep
  <2>1. ASSUME NEW p \in Note, NEW f \in Reachable, Edit(p, f) PROVE G
    BY <2>1 DEF Edit, Notify, OnlyDiskAndKernel, scanVars
  <2>2. ASSUME NEW p \in Note, NEW q \in Note, Rename(p, q) PROVE G
    BY <2>2 DEF Rename, Notify, OnlyDiskAndKernel, scanVars
  <2>3. ASSUME NEW h \in Hint \ Note, Spurious(h) PROVE G
    BY <2>3 DEF Spurious, Notify, OnlyDiskAndKernel, scanVars
  <2>4. ASSUME NEW root \in {Home, Foreign}, StartCli(root) PROVE G
    BY <2>4 DEF StartCli, Goto, indexVars, scanVars, watchVars
  <2> QED BY <1>1, <2>1, <2>2, <2>3, <2>4 DEF UserStep
<1>2. CASE CallbackSends
  BY <1>2 DEF CallbackSends, indexVars, scanVars
<1>3. CASE CallbackSetsFlag
  BY <1>3 DEF CallbackSetsFlag, indexVars, scanVars
<1>4. CASE TaskStep
  <2>1. CASE ReceiveHint
    BY <2>1 DEF ReceiveHint, Absorb, Goto, indexVars, scanVars
  <2>2. CASE CloseBatch
    BY <2>2 DEF CloseBatch, Goto
  <2>3. ASSUME NEW p \in Note, ScanNote(p) PROVE G
    BY <2>3 DEF ScanNote, ScanChangedPath, OnlyIndexAndTask
  <2>4. CASE ScanIrrelevant
    BY <2>4 DEF ScanIrrelevant, OnlyIndexAndTask
  <2>5. ASSUME NEW h \in PathHint, ScanRefused(h) PROVE G
    BY <2>5 DEF ScanRefused, ForgetScan, Goto, OnlyIndexAndTask
  <2>6. CASE ReconcilePaths
    BY <2>6 DEF ReconcilePaths, CommitPaths, ReconciledIndex, ForgetScan, Goto,
       SettleDropped, ForgetBatch, OnlyIndexAndTask
  <2>7. CASE ReconcileRefused
    BY <2>7 DEF ReconcileRefused, RootRefused, ForgetScan, Goto, OnlyIndexAndTask
  <2>8. CASE ReconcileTimesOut
    BY <2>8 DEF ReconcileTimesOut, ForgetScan, Goto, OnlyIndexAndTask
  <2> QED BY <1>4, <2>1, <2>2, <2>3, <2>4, <2>5, <2>6, <2>7, <2>8 DEF TaskStep
<1>5. ASSUME NEW a \in Actor, IndexVaultStep(a) PROVE G
  <2>1. CASE Lock(a)
    BY <2>1 DEF Lock, BeginWalk, Goto, OnlyIndexAndTask
  <2>2. CASE LockTimesOut(a)
    BY <2>2 DEF LockTimesOut, IndexVaultFailed, Goto, ForgetBatch, OnlyIndexAndTask,
       indexVars, scanVars
  <2>3. ASSUME NEW p \in Note, Walk(a, p) PROVE G
    BY <2>3 DEF Walk, WalkEntry, ReadEntry, OnlyIndexAndTask
  <2>4. ASSUME NEW p \in Note, WalkFails(a, p) PROVE G
    BY <2>4 DEF WalkFails, ReadFails, ForgetScan, IndexVaultFailed, Goto, ForgetBatch,
       OnlyIndexAndTask
  <2>5. CASE Commit(a)
    BY <2>5 DEF Commit, CommitWalk, ForgetScan, Goto, SettleDropped, ForgetBatch,
       OnlyIndexAndTask
  <2> QED BY <1>5, <2>1, <2>2, <2>3, <2>4, <2>5 DEF IndexVaultStep
<1>6. CASE ProcessStep
  <2>1. CASE StartWatcher
    BY <2>1 DEF StartWatcher, indexVars, scanVars
  <2>2. CASE StartInitialIndex
    BY <2>2 DEF StartInitialIndex, Goto, indexVars, scanVars
  <2>3. CASE Exit
    BY <2>3 DEF Exit, ProcessGone, ForgetBatch
  <2>4. CASE Crash
    BY <2>4 DEF Crash, ProcessGone, ForgetBatch
  <2> QED BY <1>6, <2>1, <2>2, <2>3, <2>4 DEF ProcessStep
<1>7. CASE UNCHANGED vars
  BY <1>7 DEF vars, indexVars, scanVars, watchVars
<1> QED BY <1>1, <1>2, <1>3, <1>4, <1>5, <1>6, <1>7 DEF Next

(* An index revision names one state of the rows and of the root.          *)
THEOREM RevisionsName == Spec => RevisionNamesIndex
<1>1. TypeOK /\ [Next]_vars =>
        [IF <<index, indexedRoot>>' = <<index, indexedRoot>>
           THEN indexRevision' \in {indexRevision, indexRevision + 1}
           ELSE indexRevision' = indexRevision + 1]_vars
  BY TablesStep
<1>2. QED BY <1>1, TypeCorrect, PTL DEF Spec, RevisionNamesIndex
=============================================================================
