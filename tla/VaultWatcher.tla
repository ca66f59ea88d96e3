----------------------------- MODULE VaultWatcher -----------------------------
(***************************************************************************)
(* `grimmored serve` as far as the index is concerned: the filesystem      *)
(* watcher's callback, its bounded queue and overflow flag, the task that  *)
(* batches hints and reconciles them, the initial index thread, crashes    *)
(* and restarts, and a separate `grimmored index` process on the same      *)
(* database.  The user edits the vault throughout.                         *)
(***************************************************************************)
EXTENDS VaultIndex, Sequences

CONSTANTS
    QueueCapacity,   \* EVENT_QUEUE_CAPACITY
    RootAliased,     \* the path given for the vault is not its canonical path
    MaxEdits,        \* bound on the user's edits and spurious notifications
    MaxCrashes,      \* bound on crashes of the daemon
    MaxCliRuns       \* bound on runs of `grimmored index`

ASSUME QueueAssumption == QueueCapacity \in Nat \ {0}
ASSUME RootAssumption == RootAliased \in BOOLEAN
ASSUME BoundsAssumption ==
    /\ MaxEdits \in Nat
    /\ MaxCrashes \in Nat
    /\ MaxCliRuns \in Nat

(* What absorb and scan_changed_path can tell apart in a notification: a   *)
(* note's own path, or one of these.                                       *)
FullHint == "full"     \* rename, folder, rescan flag, watcher error, no paths
DirHint == "dir"       \* the path of a directory, or of the root
OtherHint == "other"   \* a path that is not markdown, or in an ignored folder
NoiseHint == "noise"   \* access and other kinds that absorb drops
PathHint == Note \cup {DirHint, OtherHint}
Hint == PathHint \cup {FullHint, NoiseHint}

ASSUME NoteAssumption == Note \cap {DirHint, OtherHint, FullHint, NoiseHint} = {}

VARIABLES
    daemon,        \* "down", "watching" (no index thread yet) or "serving"
    kernel,        \* notifications the callback has not been given
    overflowing,   \* the callback failed to send and has not set the flag
    queue,         \* the channel between the callback and the task
    overflowed,    \* the overflow flag
    batchFull,     \* the WatchBatch of the task: full_rescan
    batchPaths,    \* and paths
    pc,            \* pc[a]: where thread or process a stands
    cliRoot,       \* the root `grimmored index` was given
    dropped,       \* history: notes whose hint a failed job consumed
    edits, crashes, cliRuns     \* counters behind the bounds

batch == <<batchFull, batchPaths>>
watchVars == <<daemon, kernel, overflowing, queue, overflowed, batch>>
bounds == <<edits, crashes, cliRuns>>
vars == <<indexVars, watchVars, pc, cliRoot, dropped, bounds>>


Init ==
    /\ IndexInit
    /\ daemon = "down"
    /\ kernel = <<>>
    /\ overflowing = FALSE
    /\ queue = <<>>
    /\ overflowed = FALSE
    /\ batchFull = FALSE
    /\ batchPaths = {}
    /\ pc = [a \in Actor |-> IF a = Watcher THEN "recv" ELSE "off"]
    /\ cliRoot = Home
    /\ dropped = {}
    /\ edits = 0
    /\ crashes = 0
    /\ cliRuns = 0

ForgetBatch ==
    /\ batchFull' = FALSE
    /\ batchPaths' = {}

Goto(a, label) == pc' = [pc EXCEPT ![a] = label]

(* After a commit a note is no longer counted as dropped if its row is     *)
(* right again.                                                            *)
SettleDropped == dropped' = {p \in dropped : index'[p] # Indexed(disk[p])}

-----------------------------------------------------------------------------
(* The user and the operating system *)

(* The watch is registered on the path that was given and reports paths    *)
(* below it; scan_changed_path strips the canonical root and answers None  *)
(* for a path that is not below that.                                      *)
SeenHint(h) == IF RootAliased /\ h \in PathHint THEN OtherHint ELSE h

Notify(h) ==
    kernel' = IF daemon = "down" THEN kernel ELSE Append(kernel, SeenHint(h))

CountEdit ==
    /\ edits < MaxEdits
    /\ edits' = edits + 1

OnlyDiskAndKernel ==
    UNCHANGED <<tableVars, writer, scanVars, daemon, overflowing, queue, overflowed,
                batch, pc, cliRoot, dropped, crashes, cliRuns>>

(* A note is created, rewritten, replaced or removed.                      *)
Edit(p, f) ==
    /\ CountEdit
    /\ f # disk[p]
    /\ disk' = [disk EXCEPT ![p] = f]
    /\ Notify(p)
    /\ OnlyDiskAndKernel

(* A rename is one step on disk and is reported as a change of name.       *)
Rename(p, q) ==
    /\ CountEdit
    /\ p # q
    /\ disk[p] # Absent
    /\ disk' = [disk EXCEPT ![p] = Absent, ![q] = disk[p]]
    /\ Notify(FullHint)
    /\ OnlyDiskAndKernel

(* A notification with no change to a note behind it.                      *)
Spurious(h) ==
    /\ CountEdit
    /\ daemon # "down"
    /\ h \in Hint \ Note
    /\ Notify(h)
    /\ UNCHANGED disk
    /\ OnlyDiskAndKernel

-----------------------------------------------------------------------------
(* The notification callback *)

CallbackSends ==
    /\ ~overflowing
    /\ kernel # <<>>
    /\ kernel' = Tail(kernel)
    /\ IF Len(queue) < QueueCapacity
         THEN /\ queue' = Append(queue, Head(kernel))
              /\ UNCHANGED overflowing
         ELSE /\ overflowing' = TRUE
              /\ UNCHANGED queue
    /\ UNCHANGED <<indexVars, daemon, overflowed, batch, pc, cliRoot, dropped, bounds>>

(* Mutant of CallbackSetsFlag: the failure of try_send is ignored.         *)
CallbackForgetsFlag ==
    /\ overflowing
    /\ overflowing' = FALSE
    /\ UNCHANGED <<indexVars, daemon, kernel, queue, overflowed, batch, pc, cliRoot, dropped,
                   bounds>>

(* try_send has failed; the flag is stored by a later instruction.         *)
CallbackSetsFlag ==
    /\ overflowing
    /\ overflowing' = FALSE
    /\ overflowed' = TRUE
    /\ UNCHANGED <<indexVars, daemon, kernel, queue, batch, pc, cliRoot, dropped, bounds>>

-----------------------------------------------------------------------------
(* The reconciliation task *)

(* Mutants of Absorb: a rename does not ask for a full rescan; a path      *)
(* replaces the ones before it.                                            *)
AbsorbWithoutFull(h) ==
    /\ UNCHANGED batchFull
    /\ batchPaths' = IF h \in PathHint THEN batchPaths \cup {h} ELSE batchPaths

AbsorbLastOnly(h) ==
    /\ batchFull' = (batchFull \/ h = FullHint)
    /\ batchPaths' = IF h \in PathHint THEN {h} ELSE batchPaths

(* WatchBatch::absorb.                                                     *)
Absorb(h) ==
    /\ batchFull' = (batchFull \/ h = FullHint)
    /\ batchPaths' = IF h \in PathHint THEN batchPaths \cup {h} ELSE batchPaths

(* recv of the first hint opens a batch, recv inside the window extends it.*)
ReceiveHint ==
    /\ pc[Watcher] \in {"recv", "batch"}
    /\ queue # <<>>
    /\ Absorb(Head(queue))
    /\ queue' = Tail(queue)
    /\ Goto(Watcher, "batch")
    /\ UNCHANGED <<indexVars, daemon, kernel, overflowing, overflowed, cliRoot, dropped, bounds>>

(* The batch window ends and the overflow flag is swapped.  An empty batch *)
(* is forgotten, a full one goes to index_vault, and the paths of any      *)
(* other to reconcile_vault_paths.                                         *)
CloseBatch ==
    /\ pc[Watcher] = "batch"
    /\ overflowed' = FALSE
    /\ batchFull' = (batchFull \/ overflowed)
    /\ \/ /\ batchFull'
          /\ Goto(Watcher, "lock")
          /\ UNCHANGED todo
       \/ /\ ~batchFull'
          /\ batchPaths = {}
          /\ Goto(Watcher, "recv")
          /\ UNCHANGED todo
       \/ /\ ~batchFull'
          /\ batchPaths # {}
          /\ Goto(Watcher, "scan")
          /\ todo' = [todo EXCEPT ![Watcher] = batchPaths]
    /\ UNCHANGED <<disk, tableVars, writer, listed, found, daemon, kernel, overflowing,
                   queue, batchPaths, cliRoot, dropped, bounds>>

OnlyIndexAndTask ==
    UNCHANGED <<daemon, kernel, overflowing, queue, overflowed, cliRoot, bounds>>

ScanNote(p) ==
    /\ pc[Watcher] = "scan"
    /\ ScanChangedPath(Watcher, p)
    /\ UNCHANGED <<batch, pc, dropped>>
    /\ OnlyIndexAndTask

(* scan_changed_path answers None.                                         *)
ScanIrrelevant ==
    /\ pc[Watcher] = "scan"
    /\ OtherHint \in todo[Watcher]
    /\ todo' = [todo EXCEPT ![Watcher] = @ \ {OtherHint}]
    /\ UNCHANGED <<disk, tableVars, writer, listed, found, batch, pc, dropped>>
    /\ OnlyIndexAndTask

(* FullRescanRequired, or a note that cannot be read: reconcile_batch turns*)
(* to index_vault.                                                         *)
ScanRefused(h) ==
    /\ pc[Watcher] = "scan"
    /\ h \in todo[Watcher]
    /\ h = DirHint \/ (h \in Note /\ disk[h] = Unreadable)
    /\ ForgetScan(Watcher)
    /\ Goto(Watcher, "lock")
    /\ UNCHANGED <<disk, tableVars, writer, batch, dropped>>
    /\ OnlyIndexAndTask

ReconcilePaths ==
    /\ pc[Watcher] = "scan"
    /\ CommitPaths(Watcher, batchPaths)
    /\ SettleDropped
    /\ ForgetBatch
    /\ Goto(Watcher, "recv")
    /\ OnlyIndexAndTask

ReconcileRefused ==
    /\ pc[Watcher] = "scan"
    /\ RootRefused(Watcher)
    /\ Goto(Watcher, "lock")
    /\ UNCHANGED <<batch, dropped>>
    /\ OnlyIndexAndTask

(* The notes whose reconciliation the current batch stands for.            *)
Claimed == IF batchFull \/ DirHint \in batchPaths THEN Note
                                                    ELSE batchPaths \cap Note

-----------------------------------------------------------------------------
(* index_vault, run by the initial thread, by the task or by the CLI *)

RootOf(a) == IF a = Cli THEN cliRoot ELSE Home

(* What the caller of index_vault makes of an error: the task warns and    *)
(* goes on without the batch, the initial thread ends the daemon, the CLI  *)
(* exits.  All notes of the batch count as dropped, also those whose row   *)
(* is right at this moment: a walk that read such a note before its last   *)
(* edit may still commit, and the hint that would make up for it is gone.  *)
IndexVaultFailed(a) ==
    \/ /\ a = Watcher
       /\ Goto(a, "recv")
       /\ ForgetBatch
       /\ dropped' = dropped \cup Claimed
    \/ /\ a # Watcher
       /\ Goto(a, IF a = Initial THEN "failed" ELSE "off")
       /\ UNCHANGED <<batch, dropped>>

Lock(a) ==
    /\ pc[a] = "lock"
    /\ BeginWalk(a, RootOf(a))
    /\ Goto(a, "walk")
    /\ UNCHANGED <<batch, dropped>>
    /\ OnlyIndexAndTask

(* SQLITE_BUSY: the other process keeps the write lock beyond busy_timeout.*)
OtherProcessWrites(a) == writer # NoOne /\ (a = Cli) # (writer = Cli)

LockTimesOut(a) ==
    /\ pc[a] = "lock"
    /\ OtherProcessWrites(a)
    /\ IndexVaultFailed(a)
    /\ UNCHANGED indexVars
    /\ OnlyIndexAndTask

(* The same error inside reconcile_vault_paths is answered by index_vault. *)
ReconcileTimesOut ==
    /\ pc[Watcher] = "scan"
    /\ todo[Watcher] = {}
    /\ OtherProcessWrites(Watcher)
    /\ ForgetScan(Watcher)
    /\ Goto(Watcher, "lock")
    /\ UNCHANGED <<disk, tableVars, writer, batch, dropped>>
    /\ OnlyIndexAndTask

Walk(a, p) ==
    /\ pc[a] = "walk"
    /\ WalkEntry(a, p) \/ ReadEntry(a, p)
    /\ UNCHANGED <<batch, pc, dropped>>
    /\ OnlyIndexAndTask

WalkFails(a, p) ==
    /\ pc[a] = "walk"
    /\ ReadFails(a, p)
    /\ IndexVaultFailed(a)
    /\ OnlyIndexAndTask

Commit(a) ==
    /\ pc[a] = "walk"
    /\ CommitWalk(a, RootOf(a))
    /\ \/ /\ a = Watcher
          /\ Goto(a, "recv")
          /\ ForgetBatch
       \/ /\ a # Watcher
          /\ Goto(a, IF a = Initial THEN "done" ELSE "off")
          /\ UNCHANGED batch
    /\ SettleDropped
    /\ OnlyIndexAndTask

-----------------------------------------------------------------------------
(* Processes *)

(* Serve: the watch is registered first ...                                *)
StartWatcher ==
    /\ daemon = "down"
    /\ daemon' = "watching"
    /\ UNCHANGED <<indexVars, kernel, overflowing, queue, overflowed, batch, pc, cliRoot,
                   dropped, bounds>>

(* ... and the initial index thread is spawned after it.                   *)
StartInitialIndex ==
    /\ daemon = "watching"
    /\ daemon' = "serving"
    /\ Goto(Initial, "lock")
    /\ UNCHANGED <<indexVars, kernel, overflowing, queue, overflowed, batch, cliRoot,
                   dropped, bounds>>

(* The process is gone: its transaction is rolled back, its queues vanish  *)
(* and the kernel forgets the watch.                                       *)
ProcessGone ==
    /\ daemon' = "down"
    /\ kernel' = <<>>
    /\ overflowing' = FALSE
    /\ queue' = <<>>
    /\ overflowed' = FALSE
    /\ ForgetBatch
    /\ pc' = [pc EXCEPT ![Initial] = "off", ![Watcher] = "recv"]
    /\ writer' = IF writer = Cli THEN Cli ELSE NoOne
    /\ todo' = [todo EXCEPT ![Initial] = {}, ![Watcher] = {}]
    /\ listed' = [listed EXCEPT ![Initial] = {}, ![Watcher] = {}]
    /\ found' = [found EXCEPT ![Initial] = Nothing, ![Watcher] = Nothing]
    /\ dropped' = {}
    /\ UNCHANGED <<disk, tableVars, cliRoot, edits, cliRuns>>

(* main returns the error of the initial index.                            *)
Exit ==
    /\ pc[Initial] = "failed"
    /\ ProcessGone
    /\ UNCHANGED crashes

Crash ==
    /\ daemon # "down"
    /\ crashes < MaxCrashes
    /\ crashes' = crashes + 1
    /\ ProcessGone

StartCli(root) ==
    /\ pc[Cli] = "off"
    /\ cliRuns < MaxCliRuns
    /\ cliRuns' = cliRuns + 1
    /\ cliRoot' = root
    /\ Goto(Cli, "lock")
    /\ UNCHANGED <<indexVars, watchVars, dropped, edits, crashes>>

-----------------------------------------------------------------------------
TaskStep ==
    \/ ReceiveHint
    \/ CloseBatch
    \/ \E p \in Note : ScanNote(p)
    \/ ScanIrrelevant
    \/ \E h \in PathHint : ScanRefused(h)
    \/ ReconcilePaths
    \/ ReconcileRefused
    \/ ReconcileTimesOut

IndexVaultStep(a) ==
    \/ Lock(a)
    \/ LockTimesOut(a)
    \/ \E p \in Note : Walk(a, p)
    \/ \E p \in Note : WalkFails(a, p)
    \/ Commit(a)

UserStep ==
    \/ \E p \in Note, f \in Reachable : Edit(p, f)
    \/ \E p, q \in Note : Rename(p, q)
    \/ \E h \in Hint \ Note : Spurious(h)
    \/ \E root \in {Home, Foreign} : StartCli(root)

ProcessStep ==
    \/ StartWatcher
    \/ StartInitialIndex
    \/ Exit
    \/ Crash

Next ==
    \/ UserStep
    \/ CallbackSends
    \/ CallbackSetsFlag
    \/ TaskStep
    \/ \E a \in Actor : IndexVaultStep(a)
    \/ ProcessStep

Spec == Init /\ [][Next]_vars

(* Threads that can run do run, the batch window ends, and a failed daemon *)
(* exits.  Nothing makes the user edit, start the daemon or run the CLI.   *)
Fairness ==
    /\ WF_vars(CallbackSends)
    /\ WF_vars(CallbackSetsFlag)
    /\ WF_vars(ReceiveHint)
    /\ WF_vars(CloseBatch)
    /\ WF_vars(TaskStep)
    /\ \A a \in Actor : WF_vars(IndexVaultStep(a))
    /\ WF_vars(StartInitialIndex)
    /\ WF_vars(Exit)

FairSpec == Spec /\ Fairness
-----------------------------------------------------------------------------
(* Properties *)

QueueTypeOK ==
    /\ kernel \in Seq(Hint)
    /\ overflowing \in BOOLEAN
    /\ queue \in Seq(Hint)
    /\ overflowed \in BOOLEAN
    /\ batchFull \in BOOLEAN
    /\ batchPaths \in SUBSET PathHint

ProcessTypeOK ==
    /\ todo \in [Actor -> SUBSET PathHint]
    /\ daemon \in {"down", "watching", "serving"}
    /\ pc \in [Actor -> {"off", "recv", "batch", "scan", "lock", "walk", "done", "failed"}]
    /\ cliRoot \in {Home, Foreign}
    /\ dropped \in SUBSET Note
    /\ edits \in Nat /\ crashes \in Nat /\ cliRuns \in Nat

TypeOK == IndexTypeOK /\ QueueTypeOK /\ ProcessTypeOK

Stale(p) == index[p] # Indexed(disk[p])
Fresh(a, p) == found[a][p] = Indexed(disk[p])

(* A hint about p, or one that makes the task look at every note, is on    *)
(* its way to the task.                                                    *)
Carries(hints, p) == \E i \in 1..Len(hints) : hints[i] \in {p, FullHint, DirHint}
Hinted(p) == Carries(kernel, p) \/ Carries(queue, p) \/ overflowing \/ overflowed

(* The task has taken such a hint and its job, if it succeeds, will leave  *)
(* the row of p right.                                                     *)
TaskCovers(p) ==
    /\ p \in Claimed
    /\ \/ pc[Watcher] \in {"batch", "lock"}
       \/ /\ pc[Watcher] = "scan"
          /\ DirHint \in batchPaths \/ p \in todo[Watcher] \/ Fresh(Watcher, p)
       \/ /\ pc[Watcher] = "walk"
          /\ p \in todo[Watcher] \cup listed[Watcher] \/ Fresh(Watcher, p)

(* The initial index of this daemon, or of its next start, will do so.     *)
InitialCovers(p) ==
    \/ daemon # "serving"
    \/ pc[Initial] \in {"lock", "failed"}
    \/ /\ pc[Initial] = "walk"
       /\ p \in todo[Initial] \cup listed[Initial] \/ Fresh(Initial, p)

Pending(p) == Hinted(p) \/ TaskCovers(p) \/ InitialCovers(p)

(* A row that does not match the disk is never simply forgotten: a hint    *)
(* for it is in the kernel, the channel, the flag or the batch, or a scan  *)
(* that will still read it is under way, unless a reconciliation that had  *)
(* taken its hint failed or another root took over the vault id.  This is  *)
(* what makes watching before the initial index, scanning before locking   *)
(* and walking inside the transaction safe in any interleaving.            *)
NoSilentStaleness ==
    \A p \in Note :
        Stale(p) => p \in dropped \/ indexedRoot = Foreign \/ Pending(p)

(* Rows of two roots never live in the index together, although the root   *)
(* column is rewritten by index_vault and only checked by                  *)
(* reconcile_vault_paths, which scanned its paths before the check.        *)
RootsNotMixed ==
    \A p \in Note : IF indexedRoot = Foreign THEN index[p] = ForeignText
                                             ELSE index[p] # ForeignText

(* Two different indexes never carry the same revision: every step that    *)
(* changes a row or the root also advances index_revision, by one, which   *)
(* is what indexed_revision in a search answer is for.                     *)
RevisionNamesIndex ==
    [][IF <<index, indexedRoot>>' = <<index, indexedRoot>>
         THEN indexRevision' \in {indexRevision, indexRevision + 1}
         ELSE indexRevision' = indexRevision + 1]_vars

InSync == indexedRoot = Home /\ \A p \in Note : ~Stale(p)

(* In a daemon that stays up the index catches up with the vault for good, *)
(* unless a reconciliation failed, the overflow flag was left behind, or   *)
(* another root took over.                                                 *)
CatchesUpOrSaysWhy ==
    <>[](daemon = "serving") =>
        <>[](InSync \/ dropped # {} \/ overflowed \/ indexedRoot = Foreign)

(* What the watcher test asserts of creates, modifications, renames and    *)
(* deletions ("watcher did not reconcile in time"): the index follows the  *)
(* vault without exceptions.                                               *)
WatcherReconciles == <>[](daemon = "serving") => <>[]InSync
=============================================================================
