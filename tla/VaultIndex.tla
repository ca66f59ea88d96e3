------------------------------ MODULE VaultIndex ------------------------------
(***************************************************************************)
(* The note index of the daemon: the notes on disk, the SQLite tables that *)
(* mirror them, and the two writers of those tables.  index_vault walks    *)
(* the vault inside one write transaction and replaces the whole index;    *)
(* reconcile_vault_paths reads a set of paths first and then applies them  *)
(* in a short transaction.                                                 *)
(*                                                                         *)
(* The module owns the state of the disk, the tables and the scans and     *)
(* defines the steps of the two writers.  VaultWatcher composes them into  *)
(* the daemon's threads.                                                   *)
(***************************************************************************)
EXTENDS Integers, FiniteSets

CONSTANTS
    Note,          \* markdown paths of the vault, relative to its root
    Content,       \* texts a note may hold; a revision is the SHA-256 of one
    Reachable      \* the states in which a path may be left by the user

(* What a path can be on disk besides a regular note with a text.          *)
Absent == "absent"            \* no directory entry
Unreadable == "unreadable"    \* too large, not UTF-8, or permission denied
Symlink == "symlink"          \* present, but not a regular file

(* The text indexed for a note of another root that was registered under   *)
(* the same vault id.                                                      *)
ForeignText == "foreign text"

FileState == Content \cup {Absent, Unreadable, Symlink}
IndexValue == Content \cup {Absent, ForeignText}

ASSUME ContentAssumption ==
    Content \cap {Absent, Unreadable, Symlink, ForeignText} = {}
ASSUME ReachableAssumption == Reachable \subseteq FileState

(* The threads and processes that write the tables.                        *)
Initial == "initial"     \* the daemon's initial index thread
Watcher == "watcher"     \* the daemon's reconciliation task
Cli == "cli"             \* a separate `grimmored index` process
Actor == {Initial, Watcher, Cli}
NoOne == "no one"

(* Values of the root column; Home is the directory the daemon serves.     *)
NoRoot == "no root"
Home == "home"
Foreign == "foreign"

VARIABLES
    disk,           \* disk[p]: what the user has left at path p
    index,          \* index[p]: text of the row for p in notes, Absent if none
    indexedRoot,    \* vaults.root, NoRoot before the first commit
    indexRevision,  \* vaults.index_revision
    writer,         \* holder of SQLite's write lock
    todo,           \* todo[a]: paths that a's scan has not looked at
    listed,         \* listed[a]: paths a's walk has listed but not read
    found           \* found[a]: what a's scan has read

tableVars == <<index, indexedRoot, indexRevision>>
scanVars == <<todo, listed, found>>
indexVars == <<disk, tableVars, writer, scanVars>>

Nothing == [p \in Note |-> Absent]

(* Mutant of Indexed: what is not a regular note is indexed as well.       *)
IndexedWhateverItIs(f) == f

(* What scan_regular_note makes of a path that is there to be read.        *)
Indexed(f) == IF f \in Content THEN f ELSE Absent

IndexInit ==
    /\ disk \in [Note -> Reachable]
    /\ index = Nothing
    /\ indexedRoot = NoRoot
    /\ indexRevision = 0
    /\ writer = NoOne
    /\ todo = [a \in Actor |-> {}]
    /\ listed = [a \in Actor |-> {}]
    /\ found = [a \in Actor |-> Nothing]

ForgetScan(a) ==
    /\ todo' = [todo EXCEPT ![a] = {}]
    /\ listed' = [listed EXCEPT ![a] = {}]
    /\ found' = [found EXCEPT ![a] = Nothing]

-----------------------------------------------------------------------------
(* index_vault *)

(* BEGIN IMMEDIATE of index_vault: the write lock is taken before the walk *)
(* starts and is held until the commit.  A foreign root has its own notes. *)
BeginWalk(a, root) ==
    /\ writer = NoOne
    /\ writer' = a
    /\ todo' = [todo EXCEPT ![a] = IF root = Home THEN Note ELSE {}]
    /\ listed' = [listed EXCEPT ![a] = {}]
    /\ found' = [found EXCEPT ![a] =
                    [p \in Note |-> IF root = Home THEN Absent ELSE ForeignText]]
    /\ UNCHANGED <<disk, tableVars>>

(* The walk meets the directory entry of p, or passes where it would be.   *)
(* Only regular files are kept.                                            *)
WalkEntry(a, p) ==
    /\ p \in todo[a]
    /\ todo' = [todo EXCEPT ![a] = @ \ {p}]
    /\ listed' = IF disk[p] \in {Absent, Symlink}
                   THEN listed
                   ELSE [listed EXCEPT ![a] = @ \cup {p}]
    /\ UNCHANGED <<disk, tableVars, writer, found>>

(* The listed entry is read; it may have become a symbolic link since.     *)
ReadEntry(a, p) ==
    /\ p \in listed[a]
    /\ disk[p] \notin {Absent, Unreadable}
    /\ listed' = [listed EXCEPT ![a] = @ \ {p}]
    /\ found' = [found EXCEPT ![a][p] = Indexed(disk[p])]
    /\ UNCHANGED <<disk, tableVars, writer, todo>>

(* The listed entry is gone or cannot be read: `?` leaves index_vault and  *)
(* the transaction is rolled back.  An error of the walk itself, or of     *)
(* canonicalizing the root, ends the same way.                             *)
ReadFails(a, p) ==
    /\ p \in listed[a]
    /\ disk[p] \in {Absent, Unreadable}
    /\ writer' = NoOne
    /\ ForgetScan(a)
    /\ UNCHANGED <<disk, tableVars>>

(* The rows of notes that the walk did not meet are deleted, the revision  *)
(* is always advanced, and the transaction commits.                        *)
CommitWalk(a, root) ==
    /\ writer = a
    /\ todo[a] = {}
    /\ listed[a] = {}
    /\ index' = found[a]
    /\ indexedRoot' = root
    /\ indexRevision' = indexRevision + 1
    /\ writer' = NoOne
    /\ ForgetScan(a)
    /\ UNCHANGED disk

-----------------------------------------------------------------------------
(* reconcile_vault_paths *)

(* scan_changed_path on a note: the lock is not held.  Whatever is not a   *)
(* readable regular file counts as deleted, except when reading it fails.  *)
ScanChangedPath(a, p) ==
    /\ p \in todo[a] \cap Note
    /\ disk[p] # Unreadable
    /\ todo' = [todo EXCEPT ![a] = @ \ {p}]
    /\ found' = [found EXCEPT ![a][p] = Indexed(disk[p])]
    /\ UNCHANGED <<disk, tableVars, writer, listed>>

ReconciledIndex(a, paths) ==
    [p \in Note |-> IF p \in paths THEN found[a][p] ELSE index[p]]

(* Mutants of CommitPaths: the root is not checked; the revision stays.    *)
CommitPathsOfAnyRoot(a, paths) ==
    /\ writer = NoOne
    /\ todo[a] = {}
    /\ indexedRoot # NoRoot
    /\ index' = ReconciledIndex(a, paths)
    /\ indexRevision' = IF index' = index THEN indexRevision
                                          ELSE indexRevision + 1
    /\ ForgetScan(a)
    /\ UNCHANGED <<disk, indexedRoot, writer>>

CommitPathsUnnumbered(a, paths) ==
    /\ writer = NoOne
    /\ todo[a] = {}
    /\ indexedRoot = Home
    /\ index' = ReconciledIndex(a, paths)
    /\ ForgetScan(a)
    /\ UNCHANGED <<disk, indexedRoot, indexRevision, writer>>

(* The transaction of reconcile_vault_paths: the scanned paths replace     *)
(* their rows, and the revision advances only when a row has changed.      *)
CommitPaths(a, paths) ==
    /\ writer = NoOne
    /\ todo[a] = {}
    /\ indexedRoot = Home
    /\ index' = ReconciledIndex(a, paths)
    /\ indexRevision' = IF index' = index THEN indexRevision
                                          ELSE indexRevision + 1
    /\ ForgetScan(a)
    /\ UNCHANGED <<disk, indexedRoot, writer>>

(* VaultNotIndexed and VaultRootMismatch.                                  *)
RootRefused(a) ==
    /\ writer = NoOne
    /\ todo[a] = {}
    /\ indexedRoot # Home
    /\ ForgetScan(a)
    /\ UNCHANGED <<disk, tableVars, writer>>

-----------------------------------------------------------------------------
IndexTypeOK ==
    /\ disk \in [Note -> FileState]
    /\ index \in [Note -> IndexValue]
    /\ indexedRoot \in {NoRoot, Home, Foreign}
    /\ indexRevision \in Nat
    /\ writer \in Actor \cup {NoOne}
    /\ listed \in [Actor -> SUBSET Note]
    /\ found \in [Actor -> [Note -> IndexValue]]
=============================================================================
