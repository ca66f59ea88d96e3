----------------------------- MODULE MacInstaller -----------------------------
(***************************************************************************)
(* install.sh and rollback.sh on macOS, as far as they change what is      *)
(* installed: the version directories, the links `current` and `previous`, *)
(* the links under bin, and the journal that makes the switch of the two   *)
(* pointers recoverable.  A script may stop after any command, because a   *)
(* check fails, a synchronisation fails or it is killed, and the power may *)
(* fail at any time.                                                       *)
(*                                                                         *)
(* A directory change is seen by every process at once, and is permanent   *)
(* after the next barrier on its directory.  The changes of the root, of   *)
(* versions/ and of bin/ become permanent independently: a loss of power   *)
(* keeps those of the root up to some point, and any of the others.        *)
(***************************************************************************)
EXTENDS Integers, Sequences, FiniteSets

CONSTANTS
    Version,       \* signed releases
    Script,        \* processes that run install.sh or rollback.sh
    MaxStops,      \* bound on scripts that fail or are killed
    MaxLosses      \* bound on losses of power

None == "none"
Rollback == "rollback"
Bin == "bin"
Command == {"grimmored", "grimmore-launcher"}

ASSUME InstallerAssumption ==
    /\ {None, Rollback, Bin} \cap Version = {}
    /\ None \notin Script
    /\ MaxStops \in Nat
    /\ MaxLosses \in Nat

NoSwitch == [from |-> None, to |-> None]

VARIABLES
    images,      \* the root at its last barrier and after each change since
    versions,    \* the complete versions in versions/ ...
    versionsKept,       \* ... and those of them that are permanent
    bin,         \* the links in bin/ ...
    binKept,     \* ... and those of them that are permanent
    lock,        \* the script that holds .install.lock
    pc,          \* pc[s]: the next command of script s
    job,         \* job[s]: the version s installs, or Rollback
    switch,      \* switch[s]: the from and to of the switch s is about
    recovering,  \* recovering[s]: the switch was found in the journal
    cutOff,      \* history: versions, or Bin, left without their barrier by a stop
    stops, losses       \* counters behind the bounds

locals == <<job, switch, recovering>>
tree == <<versions, versionsKept, bin, binKept, cutOff>>
vars == <<images, tree, lock, pc, locals, stops, losses>>

fs == images[Len(images)]

Init ==
    /\ images = << [current |-> None, previous |-> None, journal |-> NoSwitch] >>
    /\ versions = {} /\ versionsKept = {}
    /\ bin = {} /\ binKept = {}
    /\ cutOff = {}
    /\ lock = None
    /\ pc = [s \in Script |-> "off"]
    /\ job = [s \in Script |-> Rollback]
    /\ switch = [s \in Script |-> NoSwitch]
    /\ recovering = [s \in Script |-> FALSE]
    /\ stops = 0
    /\ losses = 0

Goto(s, label) == pc' = [pc EXCEPT ![s] = label]

(* One change of the root.                                                 *)
Write(image) == images' = Append(images, image)

(* The script ends and its descriptor, and with it the lock, is closed.    *)
Leave(s) ==
    /\ Goto(s, "off")
    /\ lock' = None

-----------------------------------------------------------------------------
(* grimmore_enter_install_lock and grimmore_recover_pointer_switch *)

(* The lock is tried once; a script that does not get it changes nothing.  *)
Enter(s, j) ==
    /\ pc[s] = "off"
    /\ lock = None
    /\ lock' = s
    /\ job' = [job EXCEPT ![s] = j]
    /\ switch' = [switch EXCEPT ![s] = NoSwitch]
    /\ recovering' = [recovering EXCEPT ![s] = FALSE]
    /\ Goto(s, "recover")
    /\ UNCHANGED <<images, tree, stops, losses>>

(* What a journal must say to be recovered.                                *)
Recoverable(image) ==
    /\ {image.journal.from, image.journal.to} \subseteq versions
    /\ image.journal.from # image.journal.to
    /\ image.current \in {image.journal.from, image.journal.to}

(* Mutant of Recover: a journal that is found is removed.                  *)
RecoverDiscards(s) ==
    /\ pc[s] = "recover"
    /\ IF fs.journal = NoSwitch THEN UNCHANGED images
                                ELSE Write([fs EXCEPT !.journal = NoSwitch])
    /\ Goto(s, "release")
    /\ UNCHANGED <<tree, lock, locals, stops, losses>>

Recover(s) ==
    /\ pc[s] = "recover"
    /\ \/ /\ fs.journal = NoSwitch
          /\ Goto(s, "release")
          /\ UNCHANGED <<switch, recovering>>
       \/ /\ fs.journal # NoSwitch
          /\ Recoverable(fs)
          /\ switch' = [switch EXCEPT ![s] = fs.journal]
          /\ recovering' = [recovering EXCEPT ![s] = TRUE]
          /\ Goto(s, "previous")
    /\ UNCHANGED <<images, tree, lock, job, stops, losses>>

-----------------------------------------------------------------------------
(* The release and the stable paths *)

(* Mutant of Publish: versions/ is not synchronised after the rename.      *)
PublishUnsynced(s) ==
    /\ pc[s] = "release"
    /\ job[s] # Rollback
    /\ versions' = versions \cup {job[s]}
    /\ Goto(s, "stable")
    /\ UNCHANGED <<images, versionsKept, bin, binKept, cutOff, lock, locals, stops, losses>>

(* The release is verified and its directory, complete and synchronised,   *)
(* is renamed into versions/, unless it is there already.                  *)
Publish(s) ==
    /\ pc[s] = "release"
    /\ job[s] # Rollback
    /\ versions' = versions \cup {job[s]}
    /\ Goto(s, IF job[s] \in versions THEN "stable" ELSE "publish sync")
    /\ UNCHANGED <<images, versionsKept, bin, binKept, cutOff, lock, locals, stops, losses>>

CanRollBack(image) ==
    /\ {image.current, image.previous} \subseteq versions
    /\ image.current # image.previous

(* rollback.sh reads both pointers and validates what they name.           *)
ReadPointers(s) ==
    /\ pc[s] = "release"
    /\ job[s] = Rollback
    /\ CanRollBack(fs)
    /\ Goto(s, "stable")
    /\ UNCHANGED <<images, tree, lock, locals, stops, losses>>

(* grimmore_ensure_stable_paths makes the links that are missing, one by   *)
(* one, with a barrier only if it made any.                                *)
EnsureStablePaths(s) ==
    /\ pc[s] = "stable"
    /\ \/ bin = Command /\ Goto(s, "target") /\ UNCHANGED bin
       \/ \E c \in Command \ bin :
             /\ c = "grimmored" \/ "grimmored" \in bin
             /\ bin' = bin \cup {c}
             /\ Goto(s, IF bin' = Command THEN "stable sync" ELSE "stable")
    /\ UNCHANGED <<images, versions, versionsKept, binKept, cutOff, lock, locals, stops, losses>>

(* The version the script makes current.                                   *)
Target(s) == IF job[s] = Rollback THEN fs.previous ELSE job[s]

PointersMakeSense(image) ==
    image.current \in versions \/ (image.current = None /\ image.previous = None)

(* A first installation has no pointers, a repeated one is done.           *)
ChooseSwitch(s) ==
    /\ pc[s] = "target"
    /\ \/ /\ fs.current = None /\ fs.previous = None
          /\ Goto(s, "first")
          /\ UNCHANGED <<lock, switch>>
       \/ /\ fs.current \in versions
          /\ Target(s) = fs.current
          /\ Leave(s)
          /\ UNCHANGED switch
       \/ /\ fs.current \in versions
          /\ fs.current # Target(s)
          /\ switch' = [switch EXCEPT ![s] = [from |-> fs.current, to |-> Target(s)]]
          /\ Goto(s, "journal")
          /\ UNCHANGED lock
    /\ UNCHANGED <<images, tree, job, recovering, stops, losses>>

SetFirst(s) ==
    /\ pc[s] = "first"
    /\ Write([fs EXCEPT !.current = job[s]])
    /\ Goto(s, "first sync")
    /\ UNCHANGED <<tree, lock, locals, stops, losses>>

-----------------------------------------------------------------------------
(* grimmore_switch_pointer_pair *)

CanSwitch(image, w) ==
    /\ image.current = w.from
    /\ {w.from, w.to} \subseteq versions
    /\ w.from # w.to
    /\ image.journal = NoSwitch

(* Mutant of WriteJournal: the version to come back to is taken from the   *)
(* previous pointer.                                                       *)
WriteJournalOfPrevious(s) ==
    /\ pc[s] = "journal"
    /\ fs.journal = NoSwitch
    /\ Write([fs EXCEPT !.journal = [from |-> fs.previous, to |-> switch[s].to]])
    /\ Goto(s, "journal sync")
    /\ UNCHANGED <<tree, lock, locals, stops, losses>>

(* The journal is complete and synchronised before it is renamed.          *)
WriteJournal(s) ==
    /\ pc[s] = "journal"
    /\ CanSwitch(fs, switch[s])
    /\ Write([fs EXCEPT !.journal = switch[s]])
    /\ Goto(s, "journal sync")
    /\ UNCHANGED <<tree, lock, locals, stops, losses>>

SetPrevious(s) ==
    /\ pc[s] = "previous"
    /\ Write([fs EXCEPT !.previous = switch[s].from])
    /\ Goto(s, "previous sync")
    /\ UNCHANGED <<tree, lock, locals, stops, losses>>

SetCurrent(s) ==
    /\ pc[s] = "current"
    /\ Write([fs EXCEPT !.current = switch[s].to])
    /\ Goto(s, "current sync")
    /\ UNCHANGED <<tree, lock, locals, stops, losses>>

RemoveJournal(s) ==
    /\ pc[s] = "remove"
    /\ Write([fs EXCEPT !.journal = NoSwitch])
    /\ Goto(s, "remove sync")
    /\ UNCHANGED <<tree, lock, locals, stops, losses>>

-----------------------------------------------------------------------------
(* grimmore_sync_directory_with_full_barrier, and what follows it *)

(* The barrier on versions/ after a publication.                           *)
SyncVersions(s) ==
    /\ pc[s] = "publish sync"
    /\ versionsKept' = versions
    /\ cutOff' = cutOff \ versions
    /\ Goto(s, "stable")
    /\ UNCHANGED <<images, versions, bin, binKept, lock, locals, stops, losses>>

SyncBin(s) ==
    /\ pc[s] = "stable sync"
    /\ binKept' = bin
    /\ cutOff' = cutOff \ {Bin}
    /\ Goto(s, "target")
    /\ UNCHANGED <<images, versions, versionsKept, bin, lock, locals, stops, losses>>

RootSync == {"journal sync", "previous sync", "current sync"}

AfterSync(label) ==
    CASE label = "journal sync" -> "previous"
      [] label = "previous sync" -> "current"
      [] label = "current sync" -> "remove"

Sync(s) ==
    /\ pc[s] \in RootSync
    /\ images' = <<fs>>
    /\ Goto(s, AfterSync(pc[s]))
    /\ UNCHANGED <<tree, lock, locals, stops, losses>>

(* The barrier after the removal of the journal ends the recovery, or the  *)
(* script; the one after the first pointer ends the script.                *)
LastSync(s) ==
    /\ pc[s] \in {"remove sync", "first sync"}
    /\ images' = <<fs>>
    /\ IF recovering[s]
         THEN Goto(s, "release") /\ UNCHANGED lock
         ELSE Leave(s)
    /\ recovering' = [recovering EXCEPT ![s] = FALSE]
    /\ UNCHANGED <<tree, job, switch, stops, losses>>

-----------------------------------------------------------------------------
(* Ends before the end *)

(* The state of the installation does not allow the next command.          *)
Refuses(s) ==
    CASE pc[s] = "recover" -> fs.journal # NoSwitch /\ ~Recoverable(fs)
      [] pc[s] = "release" -> job[s] = Rollback /\ ~CanRollBack(fs)
      [] pc[s] = "target" -> ~PointersMakeSense(fs)
      [] pc[s] = "journal" -> ~CanSwitch(fs, switch[s])
      [] OTHER -> FALSE

Die(s) ==
    /\ Refuses(s)
    /\ Leave(s)
    /\ UNCHANGED <<images, tree, locals, stops, losses>>

(* Mutant of Stop: the lock outlives the script.                           *)
StopKeepsLock(s) ==
    /\ pc[s] # "off"
    /\ stops < MaxStops
    /\ stops' = stops + 1
    /\ Goto(s, "off")
    /\ UNCHANGED <<images, tree, lock, locals, losses>>

(* What script s has changed in versions/ or bin/ before a barrier that    *)
(* no later script will make up for: it finds the change and is content.   *)
Unsynced(s) ==
    CASE pc[s] = "publish sync" -> {job[s]}
      [] pc[s] = "stable sync" -> {Bin}
      [] OTHER -> {}

(* A check or a barrier fails, or the script is killed.                    *)
Stop(s) ==
    /\ pc[s] # "off"
    /\ stops < MaxStops
    /\ stops' = stops + 1
    /\ cutOff' = cutOff \cup Unsynced(s)
    /\ Leave(s)
    /\ UNCHANGED <<images, versions, versionsKept, bin, binKept, locals, losses>>

(* What a directory may be after a loss of power.                          *)
Survivors(seen, permanent) == {S \in SUBSET seen : permanent \subseteq S}

LosePower ==
    /\ losses < MaxLosses
    /\ losses' = losses + 1
    /\ \E i \in 1..Len(images) : images' = <<images[i]>>
    /\ versions' \in Survivors(versions, versionsKept) /\ versionsKept' = versions'
    /\ bin' \in Survivors(bin, binKept) /\ binKept' = bin'
    /\ lock' = None
    /\ pc' = [s \in Script |-> "off"]
    /\ UNCHANGED <<cutOff, locals, stops>>

ScriptStep(s) ==
    \/ \E j \in Version \cup {Rollback} : Enter(s, j)
    \/ Recover(s)
    \/ Publish(s)
    \/ ReadPointers(s)
    \/ EnsureStablePaths(s)
    \/ ChooseSwitch(s)
    \/ SetFirst(s)
    \/ WriteJournal(s)
    \/ SetPrevious(s)
    \/ SetCurrent(s)
    \/ RemoveJournal(s)
    \/ SyncVersions(s)
    \/ SyncBin(s)
    \/ Sync(s)
    \/ LastSync(s)
    \/ Die(s)
    \/ Stop(s)

Next == LosePower \/ \E s \in Script : ScriptStep(s)

Spec == Init /\ [][Next]_vars
-----------------------------------------------------------------------------
(* Properties *)

Switches == [from : Version \cup {None}, to : Version \cup {None}]

Image ==
    [current : Version \cup {None}, previous : Version \cup {None}, journal : Switches]

TypeOK ==
    /\ images \in Seq(Image) /\ images # <<>>
    /\ versionsKept \subseteq versions /\ versions \subseteq Version
    /\ binKept \subseteq bin /\ bin \subseteq Command
    /\ cutOff \subseteq Version \cup {Bin}
    /\ lock \in Script \cup {None}
    /\ pc \in [Script -> RootSync \cup {"off", "recover", "release", "publish sync", "stable",
                 "stable sync", "target", "first", "first sync", "journal", "previous",
                 "current", "remove", "remove sync"}]
    /\ \A s \in Script : pc[s] # "off" <=> lock = s
    /\ job \in [Script -> Version \cup {Rollback}]
    /\ switch \in [Script -> Switches]
    /\ recovering \in [Script -> BOOLEAN]
    /\ stops \in 0..MaxStops
    /\ losses \in 0..MaxLosses

(* What a loss of power cannot take, or only because a stop came between   *)
(* its change and the barrier.                                             *)
Lasting == versionsKept \cup cutOff
Linked == binKept = Command \/ Bin \in cutOff

(* Whatever a loss of power would leave now, its pointers name complete    *)
(* versions, and a pointer is only there together with the links of bin/   *)
(* that lead to it.  The three directories lose their changes separately,  *)
(* so this is what the barriers are for.  The exception is a version, or   *)
(* are links, whose barrier was left out by a script that was stopped: no  *)
(* later script makes up for it.                                           *)
PointersReady ==
    \A i \in 1..Len(images) :
        /\ {images[i].current, images[i].previous} \subseteq Lasting \cup {None}
        /\ images[i].current # None => Linked

(* A journal that is found, after any number of interrupted switches and   *)
(* interrupted recoveries, can be recovered: no script is ever turned away *)
(* by "current pointer conflicts with the interrupted switch journal", nor *)
(* for want of a version it names, with the same exception.                *)
RecoveryPossible ==
    \A i \in 1..Len(images) : images[i].journal # NoSwitch =>
        LET from == images[i].journal.from
            to == images[i].journal.to
        IN  /\ from # to
            /\ images[i].current \in {from, to}
            /\ {from, to} \subseteq Lasting

(* What the pointers are worth: the switch in the journal is as good as    *)
(* done.                                                                   *)
Effective(image) ==
    IF image.journal = NoSwitch THEN <<image.current, image.previous>>
                                ELSE <<image.journal.to, image.journal.from>>

Pair == INSTANCE PointerPair
            WITH pair <- Effective(fs),
                 kept <- {Effective(images[i]) : i \in 1..Len(images)}

(* The two pointers change together or not at all, although they are two   *)
(* links that are replaced one after the other, scripts stop and power     *)
(* fails in between, and the recovery may be interrupted itself.           *)
SwitchIsAtomic == Pair!Spec
=============================================================================
