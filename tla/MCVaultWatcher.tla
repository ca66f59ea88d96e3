---------------------------- MODULE MCVaultWatcher ----------------------------
(* Instances of VaultWatcher for TLC. *)
EXTENDS VaultWatcher, TLC

CONSTANTS n1, n2, c1, c2

Texts == {c1, c2}
TextsAndAbsent == Texts \cup {Absent}
OneTextOrAbsent == {c1, Absent}
EveryFileState == {c1, Absent, Unreadable, Symlink}

NoteSymmetry == Permutations({n1, n2})
=============================================================================
