--------------------------- MODULE MacInstallerProofs -------------------------
(***************************************************************************)
(* The macOS pointer switch implements the atomic change of PointerPair,   *)
(* for any number of versions, scripts, stops and losses of power.         *)
(***************************************************************************)
EXTENDS MacInstaller, TLAPS

(* What every image that a loss of power may leave is like, when last is   *)
(* what remains of versions/ and linked says that bin/ remains.            *)
Sound(image, last, linked) ==
    /\ {image.current, image.previous} \subseteq last \cup {None}
    /\ image.current # None => linked
    /\ image.journal # NoSwitch =>
          /\ {image.journal.from, image.journal.to} \subseteq last
          /\ image.journal.from # image.journal.to
          /\ image.current \in {image.journal.from, image.journal.to}

(* What a script knows of the installation at each of its commands, given  *)
(* that it holds the lock.                                                 *)
Knows(l, image, j, w, have, linked) ==
    /\ l \in {"release", "publish sync", "stable", "stable sync", "target", "first",
              "first sync", "remove sync"}
          => image.journal = NoSwitch
    /\ l \in {"publish sync", "stable", "stable sync", "target", "first"}
          => IF j = Rollback THEN image.current \in have ELSE j \in have
    /\ l = "publish sync" => j # Rollback
    /\ l \in {"target", "first"} => linked
    /\ l = "first" => image.current = None /\ image.previous = None
    /\ l \in {"journal sync", "previous", "previous sync", "current", "current sync", "remove"}
          => image.journal = w /\ w # NoSwitch
    /\ l \in {"previous sync", "current", "current sync", "remove"}
          => image.previous = w.from
    /\ l \in {"current sync", "remove"} => image.current = w.to

(* A change of versions/ or bin/ is permanent, cut off by a stop, or of    *)
(* the script that is about to synchronise it.                             *)
Synced ==
    /\ (\A s \in Script : pc[s] # "publish sync") => versions \subseteq Lasting
    /\ \A s \in Script : pc[s] = "publish sync" => versions \subseteq Lasting \cup {job[s]}
    /\ (\A s \in Script : pc[s] # "stable sync") => (bin = Command => Linked)
    /\ \A s \in Script : pc[s] = "stable sync" => bin = Command

IInv ==
    /\ TypeOK
    /\ \A i \in 1..Len(images) : Sound(images[i], Lasting, Linked)
    /\ \A s \in Script : Knows(pc[s], fs, job[s], switch[s], versions, Linked)
    /\ Synced

Label == RootSync \cup {"off", "recover", "release", "publish sync", "stable",
                        "stable sync", "target", "first", "first sync", "journal", "previous",
                        "current", "remove", "remove sync"}

LocalTypes ==
    /\ job \in [Script -> Version \cup {Rollback}]
    /\ switch \in [Script -> Switches]
    /\ recovering \in [Script -> BOOLEAN]
    /\ stops \in 0..MaxStops
    /\ losses \in 0..MaxLosses

TreeTypes ==
    /\ versionsKept \subseteq versions /\ versions \subseteq Version
    /\ binKept \subseteq bin /\ bin \subseteq Command
    /\ cutOff \subseteq Version \cup {Bin}

-----------------------------------------------------------------------------
(* What one change of a directory does to the images.                      *)
LEMMA WriteImages ==
    ASSUME images \in Seq(Image), images # <<>>, NEW x \in Image, Write(x)
    PROVE  /\ images' \in Seq(Image) /\ images' # <<>>
           /\ Len(images') = Len(images) + 1
           /\ fs' = x
           /\ \A i \in 1..Len(images) : images'[i] = images[i]
           /\ images'[Len(images')] = x
BY DEF Write, fs

(* What a barrier and a loss of power leave of the images.                 *)
LEMMA OneImage ==
    ASSUME images \in Seq(Image), images # <<>>, NEW k \in 1..Len(images),
           images' = <<images[k]>>
    PROVE  /\ images' \in Seq(Image) /\ images' # <<>>
           /\ Len(images') = 1
           /\ images'[1] = images[k]
           /\ fs' = images[k]
BY DEF fs

(* The visible installation is the last of the images.                     *)
LEMMA LastImage ==
    ASSUME images \in Seq(Image), images # <<>>
    PROVE  Len(images) \in 1..Len(images) /\ fs = images[Len(images)] /\ fs \in Image
BY DEF fs

(* A step of the script that holds the lock keeps the invariant if what it *)
(* leaves is sound and known to it at its next command; all other scripts  *)
(* are off.                                                                *)
LEMMA HolderStep ==
    ASSUME IInv, NEW s \in Script, pc[s] # "off",
           images' \in Seq(Image), images' # <<>>,
           \A i \in 1..Len(images') : Sound(images'[i], Lasting', Linked'),
           NEW l \in Label, Goto(s, l),
           Knows(l, fs', job'[s], switch'[s], versions', Linked'),
           versions' \subseteq Lasting' \/ (l = "publish sync"
                                          /\ versions' \subseteq Lasting' \cup {job'[s]}),
           bin' = Command => Linked' \/ l = "stable sync",
           l = "stable sync" => bin' = Command,
           lock' = IF l = "off" THEN None ELSE lock,
           LocalTypes', TreeTypes'
    PROVE  IInv'
<1>1. lock = s /\ s # None /\ lock' \in Script \cup {None}
  BY InstallerAssumption DEF IInv, TypeOK
<1>2. pc' = [pc EXCEPT ![s] = l] /\ pc \in [Script -> Label]
  BY DEF Goto, IInv, TypeOK, Label
<1>3. /\ pc'[s] = l
      /\ \A t \in Script \ {s} : pc'[t] = "off"
  BY <1>1, <1>2 DEF IInv, TypeOK
<1>4. \A t \in Script : pc'[t] # "off" <=> lock' = t
  BY <1>1, <1>2, <1>3, InstallerAssumption
<1>5. TypeOK'
  BY <1>1, <1>2, <1>4 DEF TypeOK, LocalTypes, TreeTypes, Label
<1>6. \A t \in Script : Knows(pc'[t], fs', job'[t], switch'[t], versions', Linked')
  BY <1>2, <1>3 DEF Knows
<1>7. Synced'
  BY <1>3 DEF Synced
<1> QED
  BY <1>5, <1>6, <1>7 DEF IInv

(* The same for a step that leaves versions/ and bin/ alone.               *)
LEMMA RootStep ==
    ASSUME IInv, NEW s \in Script, pc[s] \notin {"off", "publish sync", "stable sync"},
           images' \in Seq(Image), images' # <<>>,
           \A i \in 1..Len(images') : Sound(images'[i], Lasting, Linked),
           NEW l \in Label, l # "stable sync", Goto(s, l),
           Knows(l, fs', job'[s], switch'[s], versions, Linked),
           lock' = IF l = "off" THEN None ELSE lock,
           LocalTypes', UNCHANGED tree
    PROVE  IInv'
<1>1. /\ versions' = versions /\ bin' = bin /\ Lasting' = Lasting /\ Linked' = Linked
      /\ TreeTypes'
  BY DEF tree, Lasting, Linked, TreeTypes, IInv, TypeOK
<1>2. \A t \in Script : pc[t] \notin {"publish sync", "stable sync"}
  BY DEF IInv, TypeOK
<1>3. versions \subseteq Lasting /\ (bin = Command => Linked)
  BY <1>2 DEF IInv, Synced
<1>4. /\ \A i \in 1..Len(images') : Sound(images'[i], Lasting', Linked')
      /\ Knows(l, fs', job'[s], switch'[s], versions', Linked')
  BY <1>1
<1> QED
  BY <1>1, <1>3, <1>4, HolderStep

(* Every image after a change is sound if the new one is.                  *)
LEMMA WriteSound ==
    ASSUME IInv, NEW x \in Image, Sound(x, Lasting, Linked), Write(x)
    PROVE  /\ images' \in Seq(Image) /\ images' # <<>> /\ fs' = x
           /\ \A i \in 1..Len(images') : Sound(images'[i], Lasting, Linked)
<1>1. /\ images \in Seq(Image) /\ images # <<>>
      /\ \A i \in 1..Len(images) : Sound(images[i], Lasting, Linked)
  BY DEF IInv, TypeOK
<1>2. /\ images' \in Seq(Image) /\ images' # <<>> /\ fs' = x
      /\ Len(images') = Len(images) + 1
      /\ \A i \in 1..Len(images) : images'[i] = images[i]
      /\ images'[Len(images')] = x
  BY <1>1, WriteImages
<1>3. ASSUME NEW i \in 1..Len(images') PROVE Sound(images'[i], Lasting, Linked)
  <2>1. CASE i \in 1..Len(images)
    BY <1>1, <1>2, <2>1
  <2>2. CASE i = Len(images')
    BY <1>2, <2>2
  <2> QED
    BY <1>1, <1>2, <2>1, <2>2
<1> QED
  BY <1>2, <1>3

(* A barrier keeps the visible root and makes it the only image.           *)
LEMMA SyncSound ==
    ASSUME IInv, images' = <<fs>>
    PROVE  /\ images' \in Seq(Image) /\ images' # <<>> /\ fs' = fs
           /\ \A i \in 1..Len(images') : Sound(images'[i], Lasting, Linked)
<1>1. /\ images \in Seq(Image) /\ images # <<>>
      /\ \A i \in 1..Len(images) : Sound(images[i], Lasting, Linked)
  BY DEF IInv, TypeOK
<1>2. Len(images) \in 1..Len(images) /\ fs = images[Len(images)]
  BY <1>1, LastImage
<1>3. /\ images' \in Seq(Image) /\ images' # <<>> /\ Len(images') = 1
      /\ images'[1] = fs /\ fs' = fs
  BY <1>1, <1>2, OneImage
<1> QED
  BY <1>1, <1>2, <1>3

-----------------------------------------------------------------------------
(* Every command of a script that runs keeps the invariant.                *)
LEMMA ScriptKeeps ==
    ASSUME IInv, NEW s \in Script, pc[s] # "off", ScriptStep(s)
    PROVE  IInv'
<1>1. /\ images \in Seq(Image) /\ images # <<>> /\ fs \in Image
      /\ Sound(fs, Lasting, Linked)
      /\ Knows(pc[s], fs, job[s], switch[s], versions, Linked)
      /\ LocalTypes /\ TreeTypes
      /\ \A i \in 1..Len(images) : Sound(images[i], Lasting, Linked)
      /\ job[s] \in Version \cup {Rollback} /\ switch[s] \in Switches
      /\ None \notin Version /\ Rollback \notin Version /\ versions \subseteq Version
  BY LastImage, InstallerAssumption DEF IInv, TypeOK, LocalTypes, TreeTypes
<1>2. ASSUME UNCHANGED images
      PROVE  /\ images' \in Seq(Image) /\ images' # <<>> /\ fs' = fs
             /\ \A i \in 1..Len(images') : Sound(images'[i], Lasting, Linked)
  BY <1>1, <1>2 DEF fs
<1>a. /\ pc[s] # "publish sync" => versions \subseteq Lasting
      /\ pc[s] = "publish sync" => versions \subseteq Lasting \cup {job[s]}
      /\ pc[s] # "stable sync" => (bin = Command => Linked)
  BY DEF IInv, TypeOK, Synced
<1>b. /\ pc[s] = "publish sync" => job[s] # Rollback
      /\ pc[s] = "stable sync" => bin = Command
  BY <1>1 DEF Knows, IInv, Synced
<1>c. None \notin Lasting
  BY <1>1, InstallerAssumption DEF Lasting, TreeTypes, None, Bin
<1>d. ASSUME \/ Recover(s) \/ ReadPointers(s) \/ EnsureStablePaths(s) \/ ChooseSwitch(s)
             \/ SetFirst(s) \/ WriteJournal(s) \/ SetPrevious(s) \/ SetCurrent(s)
             \/ RemoveJournal(s) \/ Sync(s) \/ LastSync(s) \/ Die(s)
      PROVE  pc[s] \notin {"off", "publish sync", "stable sync"}
  BY <1>d
  DEF Recover, ReadPointers, EnsureStablePaths, ChooseSwitch, SetFirst, WriteJournal, SetPrevious,
      SetCurrent, RemoveJournal, Sync, RootSync, LastSync, Die, Refuses
<1>3. CASE Recover(s)
  <2>1. CASE fs.journal = NoSwitch
    <3>1. Goto(s, "release") /\ UNCHANGED <<images, tree, lock, locals, stops, losses>>
      BY <1>3, <2>1 DEF Recover, locals
    <3>2. Knows("release", fs, job[s], switch[s], versions, Linked)
      BY <2>1 DEF Knows
    <3> QED
      BY <1>3, <1>d, <3>1, <3>2, <1>1, <1>2, RootStep DEF Label, LocalTypes, locals
  <2>2. CASE fs.journal # NoSwitch
    <3>1. /\ Goto(s, "previous") /\ UNCHANGED <<images, tree, lock, job, stops, losses>>
          /\ switch' = [switch EXCEPT ![s] = fs.journal]
          /\ recovering' = [recovering EXCEPT ![s] = TRUE]
      BY <1>3, <2>2 DEF Recover
    <3>2. switch'[s] = fs.journal /\ LocalTypes'
      BY <1>1, <3>1 DEF LocalTypes, Image
    <3>3. Knows("previous", fs, job[s], switch'[s], versions, Linked)
      BY <2>2, <3>2 DEF Knows
    <3> QED
      BY <1>3, <1>d, <3>1, <3>2, <3>3, <1>1, <1>2, RootStep DEF Label
  <2> QED
    BY <2>1, <2>2
<1>4. CASE Publish(s)
  <2> DEFINE l == IF job[s] \in versions THEN "stable" ELSE "publish sync"
  <2>1. /\ UNCHANGED <<images, versionsKept, bin, binKept, cutOff, lock, locals, stops, losses>>
        /\ versions' = versions \cup {job[s]} /\ Goto(s, l)
        /\ pc[s] = "release" /\ job[s] # Rollback
    BY <1>4 DEF Publish
  <2>2. Lasting' = Lasting /\ Linked' = Linked /\ LocalTypes' /\ TreeTypes'
    BY <1>1, <2>1 DEF Lasting, Linked, LocalTypes, TreeTypes, locals
  <2>3. Knows(l, fs, job[s], switch[s], versions', Linked)
    BY <1>1, <2>1 DEF Knows
  <2>4. versions' \subseteq Lasting \/ (l = "publish sync" /\ versions' \subseteq Lasting \cup {job[s]})
    BY <1>a, <2>1
  <2>5. l \in Label /\ l \notin {"off", "stable sync"}
    BY DEF Label
  <2> HIDE DEF l
  <2> QED
    BY <1>1, <1>2, <1>a, <2>1, <2>2, <2>3, <2>4, <2>5, HolderStep DEF locals
<1>5. CASE ReadPointers(s)
  <2>1. Goto(s, "stable") /\ UNCHANGED <<images, tree, lock, locals, stops, losses>>
    BY <1>5 DEF ReadPointers
  <2>2. Knows("stable", fs, job[s], switch[s], versions, Linked)
    BY <1>5, <1>1 DEF Knows, ReadPointers, CanRollBack
  <2>3. pc[s] = "release"
    BY <1>5 DEF ReadPointers
  <2> QED
    BY <1>5, <1>d, <2>1, <2>2, <2>3, <1>1, <1>2, RootStep DEF Label, LocalTypes, locals
<1>6. CASE EnsureStablePaths(s)
  <2>0. pc[s] = "stable"
    BY <1>6 DEF EnsureStablePaths
  <2>1. CASE bin = Command
    <3>1. Goto(s, "target") /\ UNCHANGED <<images, tree, lock, locals, stops, losses>>
      BY <1>6, <2>1 DEF EnsureStablePaths, tree
    <3>2. Knows("target", fs, job[s], switch[s], versions, Linked)
      BY <1>1, <1>a, <2>0, <2>1 DEF Knows
    <3> QED
      BY <1>6, <1>d, <3>1, <3>2, <2>0, <1>1, <1>2, RootStep DEF Label, LocalTypes, locals
  <2>2. CASE bin # Command
    <3> DEFINE l == IF bin' = Command THEN "stable sync" ELSE "stable"
    <3>1. PICK c \in Command \ bin : bin' = bin \cup {c} /\ Goto(s, l)
      BY <1>6, <2>2 DEF EnsureStablePaths
    <3>2. UNCHANGED <<images, versions, versionsKept, binKept, cutOff, lock, locals, stops, losses>>
      BY <1>6 DEF EnsureStablePaths
    <3>3. Lasting' = Lasting /\ Linked' = Linked /\ LocalTypes' /\ TreeTypes'
      BY <1>1, <3>1, <3>2 DEF Lasting, Linked, LocalTypes, TreeTypes, locals
    <3>4. Knows(l, fs, job[s], switch[s], versions, Linked)
      BY <1>1, <2>0 DEF Knows
    <3>5. l \in Label \ {"off"} /\ (l = "stable sync" <=> bin' = Command) /\ l # "publish sync"
      BY DEF Label
    <3> HIDE DEF l
    <3> QED
      BY <1>1, <1>2, <1>a, <2>0, <3>1, <3>2, <3>3, <3>4, <3>5, HolderStep DEF locals
  <2> QED
    BY <2>1, <2>2
<1>7. CASE ChooseSwitch(s)
  <2>1. CASE /\ fs.current = None /\ fs.previous = None
             /\ Goto(s, "first") /\ UNCHANGED <<lock, switch>>
    <3>1. Knows("first", fs, job[s], switch[s], versions, Linked)
      BY <1>7, <1>1, <2>1 DEF ChooseSwitch, Knows, Image
    <3>2. UNCHANGED <<images, tree, lock, locals, stops, losses>>
      BY <1>7, <2>1 DEF ChooseSwitch, locals
    <3> QED
      BY <1>7, <1>d, <2>1, <3>1, <3>2, <1>1, <1>2, RootStep DEF Label, LocalTypes, locals
  <2>2. CASE Leave(s) /\ UNCHANGED switch
    <3>1. UNCHANGED <<images, tree, locals, stops, losses>>
      BY <1>7, <2>2 DEF ChooseSwitch, locals
    <3>2. Knows("off", fs, job[s], switch[s], versions, Linked)
      BY DEF Knows
    <3> QED
      BY <1>7, <1>d, <2>2, <3>1, <3>2, <1>1, <1>2, RootStep DEF Leave, Label, LocalTypes, locals
  <2>3. CASE /\ switch' = [switch EXCEPT ![s] = [from |-> fs.current, to |-> Target(s)]]
             /\ Goto(s, "journal") /\ UNCHANGED lock
    <3>1. UNCHANGED <<images, tree, job, recovering, stops, losses>>
      BY <1>7 DEF ChooseSwitch
    <3>2. Target(s) \in Version \cup {None} /\ fs.current \in Version \cup {None}
      BY <1>1 DEF Target, Image
    <3>3. LocalTypes'
      BY <1>1, <2>3, <3>1, <3>2 DEF LocalTypes, Switches
    <3>4. Knows("journal", fs, job[s], switch'[s], versions, Linked)
      BY DEF Knows
    <3> QED
      BY <1>7, <1>d, <2>3, <3>1, <3>3, <3>4, <1>1, <1>2, RootStep DEF Label
  <2> QED
    BY <1>7, <2>1, <2>2, <2>3 DEF ChooseSwitch
<1>8. CASE SetFirst(s)
  <2> DEFINE x == [fs EXCEPT !.current = job[s]]
  <2>1. x \in Image /\ Sound(x, Lasting, Linked) /\ Write(x)
    BY <1>8, <1>1, <1>a, <1>c DEF SetFirst, Image, Sound, Knows, NoSwitch, Switches
  <2>2. Knows("first sync", x, job[s], switch[s], versions, Linked)
    BY <1>8, <1>1 DEF SetFirst, Knows, Image
  <2>3. Goto(s, "first sync") /\ UNCHANGED <<tree, lock, locals, stops, losses>>
    BY <1>8 DEF SetFirst
  <2> HIDE DEF x
  <2> QED
    BY <1>8, <1>d, <2>1, <2>2, <2>3, <1>1, WriteSound, RootStep DEF Label, LocalTypes, locals
<1>9. CASE WriteJournal(s)
  <2> DEFINE x == [fs EXCEPT !.journal = switch[s]]
  <2>1. x \in Image /\ Sound(x, Lasting, Linked) /\ Write(x)
    BY <1>9, <1>1, <1>a, <1>c DEF WriteJournal, Image, Sound, Knows, NoSwitch, Switches, CanSwitch
  <2>2. Knows("journal sync", x, job[s], switch[s], versions, Linked)
    <3>1. switch[s].from \in Version
      BY <1>9, <1>1 DEF WriteJournal, CanSwitch, Image
    <3>2. switch[s] # NoSwitch
      BY <3>1, <1>1 DEF NoSwitch
    <3>3. x.journal = switch[s]
      BY <1>1 DEF Image
    <3> HIDE DEF x
    <3> QED
      BY <3>2, <3>3 DEF Knows
  <2>3. Goto(s, "journal sync") /\ UNCHANGED <<tree, lock, locals, stops, losses>>
    BY <1>9 DEF WriteJournal
  <2> HIDE DEF x
  <2> QED
    BY <1>9, <1>d, <2>1, <2>2, <2>3, <1>1, WriteSound, RootStep
    DEF Label, RootSync, LocalTypes, locals
<1>10. CASE SetPrevious(s)
  <2> DEFINE x == [fs EXCEPT !.previous = switch[s].from]
  <2>1. x \in Image /\ Sound(x, Lasting, Linked) /\ Write(x)
    BY <1>10, <1>1, <1>a, <1>c DEF SetPrevious, Image, Sound, Knows, NoSwitch, Switches
  <2>2. Knows("previous sync", x, job[s], switch[s], versions, Linked)
    BY <1>10, <1>1 DEF SetPrevious, Knows, Image
  <2>3. Goto(s, "previous sync") /\ UNCHANGED <<tree, lock, locals, stops, losses>>
    BY <1>10 DEF SetPrevious
  <2> HIDE DEF x
  <2> QED
    BY <1>10, <1>d, <2>1, <2>2, <2>3, <1>1, WriteSound, RootStep
    DEF Label, RootSync, LocalTypes, locals
<1>11. CASE SetCurrent(s)
  <2> DEFINE x == [fs EXCEPT !.current = switch[s].to]
  <2>1. x \in Image /\ Sound(x, Lasting, Linked) /\ Write(x)
    <3>1. /\ Write(x) /\ fs.journal = switch[s] /\ fs.journal # NoSwitch
      BY <1>11, <1>1 DEF SetCurrent, Knows
    <3>2. /\ x \in Image /\ x.current = switch[s].to /\ x.previous = fs.previous
          /\ x.journal = fs.journal
      BY <1>1 DEF Image, Switches
    <3>3. switch[s].to \in Lasting /\ fs.current # None
      BY <1>1, <1>c, <3>1 DEF Sound
    <3> HIDE DEF x
    <3> QED
      BY <1>1, <3>1, <3>2, <3>3 DEF Sound
  <2>2. Knows("current sync", x, job[s], switch[s], versions, Linked)
    BY <1>11, <1>1 DEF SetCurrent, Knows, Image
  <2>3. Goto(s, "current sync") /\ UNCHANGED <<tree, lock, locals, stops, losses>>
    BY <1>11 DEF SetCurrent
  <2> HIDE DEF x
  <2> QED
    BY <1>11, <1>d, <2>1, <2>2, <2>3, <1>1, WriteSound, RootStep
    DEF Label, RootSync, LocalTypes, locals
<1>12. CASE RemoveJournal(s)
  <2> DEFINE x == [fs EXCEPT !.journal = NoSwitch]
  <2>1. x \in Image /\ Sound(x, Lasting, Linked) /\ Write(x)
    BY <1>12, <1>1, <1>a, <1>c DEF RemoveJournal, Image, Sound, Knows, NoSwitch, Switches
  <2>2. Knows("remove sync", x, job[s], switch[s], versions, Linked)
    BY <1>12, <1>1 DEF RemoveJournal, Knows, Image
  <2>3. Goto(s, "remove sync") /\ UNCHANGED <<tree, lock, locals, stops, losses>>
    BY <1>12 DEF RemoveJournal
  <2> HIDE DEF x
  <2> QED
    BY <1>12, <1>d, <2>1, <2>2, <2>3, <1>1, WriteSound, RootStep DEF Label, LocalTypes, locals
<1>13. CASE Sync(s)
  <2> DEFINE l == AfterSync(pc[s])
  <2>1. /\ images' = <<fs>> /\ Goto(s, l) /\ UNCHANGED <<tree, lock, locals, stops, losses>>
        /\ pc[s] \in RootSync
    BY <1>13 DEF Sync
  <2>2. l \in Label \ {"off", "stable sync"} /\ Knows(l, fs, job[s], switch[s], versions, Linked)
    BY <2>1, <1>1 DEF RootSync, AfterSync, Knows, Label
  <2> HIDE DEF l
  <2> QED
    BY <1>13, <1>d, <2>1, <2>2, <1>1, SyncSound, RootStep DEF LocalTypes, locals, RootSync
<1>14. CASE LastSync(s)
  <2>1. /\ images' = <<fs>> /\ UNCHANGED <<tree, job, switch, stops, losses>>
        /\ recovering' = [recovering EXCEPT ![s] = FALSE]
        /\ pc[s] \in {"remove sync", "first sync"}
    BY <1>14 DEF LastSync
  <2>2. LocalTypes'
    BY <1>1, <2>1 DEF LocalTypes
  <2>3. CASE Goto(s, "release") /\ UNCHANGED lock
    <3>1. Knows("release", fs, job[s], switch[s], versions, Linked)
      BY <2>1, <1>1 DEF Knows
    <3> QED
      BY <1>14, <1>d, <2>1, <2>2, <2>3, <3>1, <1>1, SyncSound, RootStep DEF Label
  <2>4. CASE Leave(s)
    <3>1. Knows("off", fs, job[s], switch[s], versions, Linked)
      BY DEF Knows
    <3> QED
      BY <1>14, <1>d, <2>1, <2>2, <2>4, <3>1, <1>1, SyncSound, RootStep DEF Leave, Label
  <2> QED
    BY <1>14, <2>3, <2>4 DEF LastSync
<1>15. CASE Die(s)
  <2>1. Leave(s) /\ UNCHANGED <<images, tree, locals>> /\ LocalTypes'
    BY <1>15, <1>1 DEF Die, LocalTypes, locals
  <2>2. Knows("off", fs, job[s], switch[s], versions, Linked)
    BY DEF Knows
  <2>3. pc[s] \notin {"off", "publish sync", "stable sync"}
    BY <1>15 DEF Die, Refuses
  <2> QED
    BY <1>15, <1>d, <2>1, <2>2, <2>3, <1>1, <1>2, RootStep DEF Leave, Label, locals
<1>16. CASE Stop(s)
  <2>1. /\ Leave(s) /\ cutOff' = cutOff \cup Unsynced(s)
        /\ UNCHANGED <<images, versions, versionsKept, bin, binKept, locals>> /\ LocalTypes'
    BY <1>16, <1>1, InstallerAssumption DEF Stop, LocalTypes, locals
  <2>2. /\ Unsynced(s) \subseteq Version \cup {Bin}
        /\ pc[s] = "publish sync" => job[s] \in Unsynced(s)
        /\ pc[s] = "stable sync" => Bin \in Unsynced(s)
    <3>1. pc[s] = "publish sync" => job[s] \in Version
      BY <1>16, <1>1, <1>b
    <3> QED
      BY <3>1 DEF Unsynced
  <2>3. Lasting' = Lasting \cup Unsynced(s) /\ Lasting \subseteq Lasting' /\ TreeTypes'
    BY <2>1, <2>2, <1>1 DEF Lasting, TreeTypes
  <2>4. (Linked => Linked') /\ (pc[s] = "stable sync" => Linked')
    BY <2>1, <2>2 DEF Linked
  <2>5. versions' \subseteq Lasting' /\ (bin' = Command => Linked')
    BY <1>a, <2>1, <2>2, <2>3, <2>4
  <2>6. \A i \in 1..Len(images') : Sound(images'[i], Lasting', Linked')
    <3> SUFFICES ASSUME NEW i \in 1..Len(images) PROVE Sound(images[i], Lasting', Linked')
      BY <2>1
    <3>1. Sound(images[i], Lasting, Linked)
      BY <1>1
    <3> QED
      BY <2>3, <2>4, <3>1 DEF Sound
  <2>7. Knows("off", fs', job'[s], switch'[s], versions', Linked')
    BY DEF Knows
  <2> QED
    BY <1>1, <1>2, <2>1, <2>3, <2>5, <2>6, <2>7, HolderStep DEF Leave, Label
<1>17. CASE SyncVersions(s)
  <2>1. /\ Goto(s, "stable") /\ versionsKept' = versions /\ cutOff' = cutOff \ versions
        /\ UNCHANGED <<images, versions, bin, binKept, lock, locals, stops, losses>>
        /\ pc[s] = "publish sync"
    BY <1>17 DEF SyncVersions
  <2>2. Lasting \subseteq Lasting' /\ versions' \subseteq Lasting' /\ TreeTypes' /\ LocalTypes'
    BY <2>1, <1>1 DEF Lasting, TreeTypes, LocalTypes, locals
  <2>3. Linked' = Linked
    BY <2>1, <1>1, InstallerAssumption DEF Linked, TreeTypes
  <2>4. \A i \in 1..Len(images') : Sound(images'[i], Lasting', Linked')
    <3> SUFFICES ASSUME NEW i \in 1..Len(images) PROVE Sound(images[i], Lasting', Linked')
      BY <2>1
    <3>1. Sound(images[i], Lasting, Linked)
      BY <1>1
    <3> QED
      BY <2>2, <2>3, <3>1 DEF Sound
  <2>5. Knows("stable", fs, job[s], switch[s], versions, Linked)
    BY <1>1, <2>1 DEF Knows
  <2> QED
    BY <1>1, <1>2, <1>a, <2>1, <2>2, <2>3, <2>4, <2>5, HolderStep DEF Label, locals
<1>18. CASE SyncBin(s)
  <2>1. /\ Goto(s, "target") /\ binKept' = bin /\ cutOff' = cutOff \ {Bin}
        /\ UNCHANGED <<images, versions, versionsKept, bin, lock, locals, stops, losses>>
        /\ pc[s] = "stable sync"
    BY <1>18 DEF SyncBin
  <2>2. TreeTypes' /\ LocalTypes' /\ bin = Command
    BY <2>1, <1>1, <1>b DEF TreeTypes, LocalTypes, locals
  <2>3. Linked'
    BY <2>1, <2>2 DEF Linked
  <2>4. /\ \A v \in Version : v \in Lasting => v \in Lasting'
        /\ versions' \subseteq Lasting'
    BY <1>1, <1>a, <2>1, InstallerAssumption DEF Lasting, TreeTypes
  <2>5. \A i \in 1..Len(images') : Sound(images'[i], Lasting', Linked')
    <3> SUFFICES ASSUME NEW i \in 1..Len(images) PROVE Sound(images[i], Lasting', Linked')
      BY <2>1
    <3>1. images[i] \in Image /\ Sound(images[i], Lasting, Linked)
      BY <1>1
    <3>2. /\ {images[i].current, images[i].previous} \subseteq Version \cup {None}
          /\ images[i].journal # NoSwitch =>
                {images[i].journal.from, images[i].journal.to} \subseteq Version
      BY <1>1, <3>1, <1>c DEF Image, Switches, Sound
    <3> QED
      BY <2>3, <2>4, <3>1, <3>2, <1>c DEF Sound
  <2>6. Knows("target", fs, job[s], switch[s], versions, Linked')
    BY <1>1, <2>1, <2>3 DEF Knows
  <2> QED
    BY <1>1, <1>2, <2>1, <2>2, <2>3, <2>4, <2>5, <2>6, HolderStep DEF Label, locals
<1> QED
  BY <1>3, <1>4, <1>5, <1>6, <1>7, <1>8, <1>9, <1>10, <1>11, <1>12, <1>13, <1>14, <1>15,
     <1>16, <1>17, <1>18
  DEF ScriptStep, Enter

(* A start of a script and a loss of power keep the invariant.             *)
LEMMA OthersKeep ==
    ASSUME IInv, LosePower \/ \E s \in Script, j \in Version \cup {Rollback} : Enter(s, j)
    PROVE  IInv'
<1>1. /\ images \in Seq(Image) /\ images # <<>>
      /\ \A i \in 1..Len(images) : Sound(images[i], Lasting, Linked)
      /\ LocalTypes /\ TreeTypes
  BY DEF IInv, TypeOK, LocalTypes, TreeTypes
<1>2. CASE LosePower
  <2>1. PICK i \in 1..Len(images) : images' = <<images[i]>>
    BY <1>2 DEF LosePower
  <2>2. /\ versions' \subseteq versions /\ versionsKept \subseteq versions'
        /\ bin' \subseteq bin /\ binKept \subseteq bin'
        /\ versionsKept' = versions' /\ binKept' = bin' /\ UNCHANGED cutOff
    BY <1>2 DEF LosePower, Survivors
  <2>3. /\ Lasting \subseteq Lasting' /\ versions' \subseteq Lasting'
        /\ TreeTypes'
    BY <1>1, <2>2 DEF Lasting, TreeTypes
  <2>4. (Linked => Linked') /\ (bin' = Command => Linked')
    BY <1>1, <2>2 DEF Linked, TreeTypes
  <2>5. /\ images' \in Seq(Image) /\ images' # <<>>
        /\ \A k \in 1..Len(images') : images'[k] = images[i]
    BY <1>1, <2>1, OneImage
  <2>6. \A k \in 1..Len(images') : Sound(images'[k], Lasting', Linked')
    <3>1. Sound(images[i], Lasting, Linked)
      BY <1>1
    <3>2. Sound(images[i], Lasting', Linked')
      BY <2>3, <2>4, <3>1 DEF Sound
    <3> QED
      BY <2>5, <3>2
  <2>7. LocalTypes' /\ lock' = None /\ pc' = [s \in Script |-> "off"]
    BY <1>1, <1>2, InstallerAssumption DEF LosePower, LocalTypes, locals
  <2>8. TypeOK'
    BY <2>3, <2>5, <2>7, InstallerAssumption DEF TypeOK, LocalTypes, TreeTypes
  <2>9. \A s \in Script : Knows(pc'[s], fs', job'[s], switch'[s], versions', Linked')
    BY <2>7 DEF Knows
  <2>10. Synced'
    BY <2>3, <2>4, <2>7 DEF Synced
  <2> QED
    BY <2>6, <2>8, <2>9, <2>10 DEF IInv
<1>3. ASSUME NEW s \in Script, NEW j \in Version \cup {Rollback}, Enter(s, j) PROVE IInv'
  <2>1. /\ lock = None /\ lock' = s /\ pc' = [pc EXCEPT ![s] = "recover"]
        /\ UNCHANGED <<images, tree>>
    BY <1>3 DEF Enter, Goto
  <2>2. LocalTypes'
    BY <1>1, <1>3 DEF Enter, LocalTypes, Switches, NoSwitch
  <2>3. pc \in [Script -> {"off"}]
    <3>1. \A t \in Script : pc[t] # "off" => lock = t
      BY DEF IInv, TypeOK
    <3>2. DOMAIN pc = Script /\ pc = [t \in Script |-> pc[t]]
      BY DEF IInv, TypeOK
    <3> QED
      BY <2>1, <3>1, <3>2, InstallerAssumption
  <2>4. TreeTypes' /\ Lasting' = Lasting /\ Linked' = Linked /\ versions' = versions /\ bin' = bin
    BY <1>1, <2>1 DEF TreeTypes, tree, Lasting, Linked
  <2>5. TypeOK'
    BY <1>1, <2>1, <2>2, <2>3, <2>4, InstallerAssumption DEF TypeOK, LocalTypes, TreeTypes
  <2>6. \A t \in Script : Knows(pc'[t], fs', job'[t], switch'[t], versions', Linked')
    BY <2>1, <2>3 DEF Knows
  <2>7. Synced'
    <3>1. versions \subseteq Lasting /\ (bin = Command => Linked)
      BY <2>3 DEF IInv, Synced
    <3>2. \A t \in Script : pc'[t] \notin {"publish sync", "stable sync"}
      BY <2>1, <2>3
    <3> QED
      BY <2>4, <3>1, <3>2 DEF Synced
  <2>8. \A i \in 1..Len(images') : Sound(images'[i], Lasting', Linked')
    BY <1>1, <2>1, <2>4
  <2> QED
    BY <2>5, <2>6, <2>7, <2>8 DEF IInv
<1> QED
  BY <1>2, <1>3

(* The invariant holds of an empty installation.                           *)
LEMMA InvInit == Init => IInv
<1> SUFFICES ASSUME Init PROVE IInv
  OBVIOUS
<1> USE InstallerAssumption DEF Init
<1> DEFINE empty == [current |-> None, previous |-> None, journal |-> NoSwitch]
<1>1. empty \in Image /\ Sound(empty, Lasting, Linked) /\ empty.journal = NoSwitch
  BY DEF Image, Switches, NoSwitch, Sound
<1>2. images = <<empty>>
  OBVIOUS
<1> HIDE DEF empty
<1>a. images \in Seq(Image) /\ Len(images) = 1 /\ images[1] = empty
  BY <1>1, <1>2
<1>3. /\ images \in Seq(Image) /\ images # <<>>
      /\ \A i \in 1..Len(images) : Sound(images[i], Lasting, Linked)
  BY <1>1, <1>2, <1>a
<1>4. LocalTypes /\ TreeTypes
  BY DEF LocalTypes, TreeTypes, Switches, NoSwitch
<1>5. TypeOK
  BY <1>3, <1>4 DEF TypeOK, LocalTypes, TreeTypes
<1>6. \A s \in Script : Knows(pc[s], fs, job[s], switch[s], versions, Linked)
  BY DEF Knows
<1>7. Synced
  BY DEF Synced, Command
<1> QED
  BY <1>3, <1>5, <1>6, <1>7 DEF IInv

(* Every step keeps the invariant.                                         *)
LEMMA InvStep == IInv /\ [Next]_vars => IInv'
<1> SUFFICES ASSUME IInv, [Next]_vars PROVE IInv'
  OBVIOUS
<1>1. CASE UNCHANGED vars
  BY <1>1 DEF vars, locals, tree, IInv, TypeOK, fs, Synced, Lasting, Linked
<1>2. CASE LosePower
  BY <1>2, OthersKeep
<1>3. ASSUME NEW s \in Script, ScriptStep(s) PROVE IInv'
  <2>1. CASE pc[s] # "off"
    BY <1>3, <2>1, ScriptKeeps
  <2>2. CASE pc[s] = "off"
    <3>1. \E j \in Version \cup {Rollback} : Enter(s, j)
      BY <1>3, <2>2
      DEF ScriptStep, Recover, Publish, ReadPointers, EnsureStablePaths, ChooseSwitch,
          SetFirst, WriteJournal, SetPrevious, SetCurrent, RemoveJournal, SyncVersions,
          SyncBin, Sync, RootSync, LastSync, Die, Refuses, Stop
    <3> QED
      BY <3>1, OthersKeep
  <2> QED
    BY <2>1, <2>2
<1> QED
  BY <1>1, <1>2, <1>3 DEF Next

(* The invariant holds in every reachable state.                           *)
THEOREM InstallerInvariant == Spec => []IInv
BY InvInit, InvStep, PTL DEF Spec

(* The file system, its images on disk and the scripts' variables keep     *)
(* their types through install, update, rollback, recovery and power loss. *)
THEOREM InstallerTypes == Spec => []TypeOK
<1>1. IInv => TypeOK
  BY DEF IInv
<1> QED
  BY <1>1, InstallerInvariant, PTL

(* After any interruption of a script, of its recovery or of the power the *)
(* journal that grimmore_recover_pointer_switch finds does not conflict    *)
(* with the current pointer and names permanent versions, but for those    *)
(* whose barrier in install.sh was cut off by a stop.                      *)
THEOREM AlwaysRecoverable == Spec => []RecoveryPossible
<1>1. IInv => RecoveryPossible
  BY DEF IInv, Sound, RecoveryPossible
<1> QED
  BY <1>1, InstallerInvariant, PTL

(* Although versions/, bin/ and the root become permanent independently,   *)
(* no loss of power leaves current or previous without the version it      *)
(* names or without the links to it, unless a script was stopped between   *)
(* the change of that directory and its barrier.                           *)
THEOREM PointersLeadSomewhere == Spec => []PointersReady
<1>1. IInv => PointersReady
  BY DEF IInv, Sound, PointersReady
<1> QED
  BY <1>1, InstallerInvariant, PTL

-----------------------------------------------------------------------------
Kept == {Effective(images[i]) : i \in 1..Len(images)}
pairVars == <<Effective(fs), Kept>>

(* A change adds its pair to the ones a loss of power may come back to.    *)
LEMMA WriteKept ==
    ASSUME IInv, NEW x \in Image, Write(x)
    PROVE  fs' = x /\ Kept' = Kept \cup {Effective(x)} /\ Effective(fs) \in Kept
<1>1. images \in Seq(Image) /\ images # <<>>
  BY DEF IInv, TypeOK
<1>2. /\ images' \in Seq(Image) /\ fs' = x /\ Len(images') = Len(images) + 1
      /\ \A i \in 1..Len(images) : images'[i] = images[i]
      /\ images'[Len(images')] = x
  BY <1>1, WriteImages
<1>3. Len(images) \in 1..Len(images) /\ fs = images[Len(images)] /\ Len(images) \in Nat
  BY <1>1, LastImage
<1>4. 1..Len(images') = 1..Len(images) \cup {Len(images')}
  BY <1>2, <1>3
<1>5. Kept' = {Effective(images'[i]) : i \in 1..Len(images')}
  BY DEF Kept, Effective
<1>6. Kept' = Kept \cup {Effective(x)}
  BY <1>2, <1>4, <1>5 DEF Kept
<1> QED
  BY <1>2, <1>3, <1>6 DEF Kept

(* A change that leaves the effective pair alone is a stuttering step.     *)
LEMMA WriteStutters ==
    ASSUME IInv, NEW x \in Image, Write(x), Effective(x) = Effective(fs)
    PROVE  UNCHANGED pairVars
<1>1. fs' = x /\ Kept' = Kept \cup {Effective(x)} /\ Effective(fs) \in Kept
  BY WriteKept
<1>2. Effective(fs)' = Effective(x)
  BY <1>1 DEF Effective
<1> QED
  BY <1>1, <1>2 DEF pairVars

(* A change that makes v current and the current version the previous one  *)
(* is a switch of the pair.                                                *)
LEMMA WriteSwitches ==
    ASSUME IInv, NEW x \in Image, Write(x), NEW v \in Version,
           Effective(x) = <<v, Effective(fs)[1]>>, v # Effective(fs)[1]
    PROVE  Pair!Switch(v)
<1>1. fs' = x /\ Kept' = Kept \cup {Effective(x)}
  BY WriteKept
<1>2. Effective(fs)' = Effective(x)
  BY <1>1 DEF Effective
<1> QED
  BY <1>1, <1>2 DEF Pair!Switch, Kept

(* A barrier settles the pair, and a loss of power picks one that is kept. *)
LEMMA OneImageSettles ==
    ASSUME IInv, NEW k \in 1..Len(images), images' = <<images[k]>>
    PROVE  Pair!Lose
<1>1. images' \in Seq(Image) /\ Len(images') = 1 /\ images'[1] = images[k] /\ fs' = images[k]
  BY OneImage DEF IInv, TypeOK
<1>2. Effective(fs)' = Effective(images[k])
  BY <1>1 DEF Effective
<1>3. Kept' = {Effective(images'[i]) : i \in 1..Len(images')}
  BY DEF Kept, Effective
<1>4. Kept' = {Effective(images[k])}
  BY <1>1, <1>3
<1>5. Effective(images[k]) \in Kept
  BY DEF Kept
<1> QED
  BY <1>2, <1>4, <1>5 DEF Pair!Lose, Kept

(* Every command of a script is a step of the pair or leaves it alone.     *)
LEMMA ScriptRefines ==
    ASSUME IInv, NEW s \in Script, ScriptStep(s)
    PROVE  [Pair!Next]_pairVars
<1>1. /\ images \in Seq(Image) /\ images # <<>> /\ fs \in Image
      /\ Knows(pc[s], fs, job[s], switch[s], versions, Linked)
      /\ switch[s] \in Switches
      /\ job[s] \in Version \cup {Rollback}
      /\ Len(images) \in 1..Len(images) /\ fs = images[Len(images)]
      /\ None \notin Version /\ Rollback \notin Version /\ versions \subseteq Version
  BY LastImage, InstallerAssumption DEF IInv, TypeOK
<1>2. CASE UNCHANGED images
  BY <1>2 DEF pairVars, Kept, fs, Effective
<1>3. CASE images' = <<fs>>
  BY <1>1, <1>3, OneImageSettles DEF Pair!Next
<1>4. CASE SetFirst(s)
  <2> DEFINE x == [fs EXCEPT !.current = job[s]]
  <2>1. fs.journal = NoSwitch /\ fs.current = None /\ fs.previous = None /\ job[s] \in Version
    BY <1>1, <1>4 DEF SetFirst, Knows, Image
  <2>2. x \in Image /\ Effective(x) = <<job[s], Effective(fs)[1]>> /\ Effective(fs)[1] = None
    BY <1>1, <2>1 DEF Image, Effective
  <2>3. Write(x)
    BY <1>4 DEF SetFirst
  <2> HIDE DEF x
  <2> QED
    BY <1>1, <2>1, <2>2, <2>3, WriteSwitches DEF Pair!Next
<1>5. CASE WriteJournal(s)
  <2> DEFINE x == [fs EXCEPT !.journal = switch[s]]
  <2>1. /\ Write(x) /\ fs.journal = NoSwitch /\ fs.current = switch[s].from
        /\ switch[s].to \in Version /\ switch[s].from \in Version
        /\ switch[s].from # switch[s].to
    BY <1>1, <1>5 DEF WriteJournal, CanSwitch, Image
  <2>2. switch[s] # NoSwitch
    BY <1>1, <2>1 DEF NoSwitch
  <2>3. x \in Image /\ x.journal = switch[s]
    BY <1>1 DEF Image
  <2>4. Effective(x) = <<switch[s].to, switch[s].from>> /\ Effective(fs)[1] = switch[s].from
    BY <2>1, <2>2, <2>3 DEF Effective
  <2> HIDE DEF x
  <2> QED
    BY <2>1, <2>3, <2>4, WriteSwitches DEF Pair!Next
<1>6. CASE SetPrevious(s)
  <2> DEFINE x == [fs EXCEPT !.previous = switch[s].from]
  <2>1. Write(x) /\ fs.journal # NoSwitch
    BY <1>1, <1>6 DEF SetPrevious, Knows
  <2>2. x \in Image /\ x.journal = fs.journal
    BY <1>1 DEF Image, Switches
  <2>3. Effective(x) = Effective(fs)
    BY <2>1, <2>2 DEF Effective
  <2> HIDE DEF x
  <2> QED
    BY <2>1, <2>2, <2>3, WriteStutters
<1>7. CASE SetCurrent(s)
  <2> DEFINE x == [fs EXCEPT !.current = switch[s].to]
  <2>1. Write(x) /\ fs.journal # NoSwitch
    BY <1>1, <1>7 DEF SetCurrent, Knows
  <2>2. x \in Image /\ x.journal = fs.journal
    BY <1>1 DEF Image, Switches
  <2>3. Effective(x) = Effective(fs)
    BY <2>1, <2>2 DEF Effective
  <2> HIDE DEF x
  <2> QED
    BY <2>1, <2>2, <2>3, WriteStutters
<1>8. CASE RemoveJournal(s)
  <2> DEFINE x == [fs EXCEPT !.journal = NoSwitch]
  <2>1. /\ Write(x) /\ fs.journal # NoSwitch
        /\ fs.current = fs.journal.to /\ fs.previous = fs.journal.from
    BY <1>1, <1>8 DEF RemoveJournal, Knows
  <2>2. /\ x \in Image /\ x.journal = NoSwitch
        /\ x.current = fs.current /\ x.previous = fs.previous
    BY <1>1 DEF Image, Switches, NoSwitch
  <2>3. Effective(x) = Effective(fs)
    BY <2>1, <2>2 DEF Effective
  <2> HIDE DEF x
  <2> QED
    BY <2>1, <2>2, <2>3, WriteStutters
<1> QED
  BY <1>2, <1>3, <1>4, <1>5, <1>6, <1>7, <1>8
  DEF ScriptStep, Enter, Recover, Publish, ReadPointers, EnsureStablePaths, ChooseSwitch,
      SyncVersions, SyncBin, Sync, LastSync, Die, Stop

(* The installers' switch of the two links implements the atomic switch of *)
(* the pair: no stop of a script and no loss of power, at any command, can *)
(* leave current and previous of different switches.                       *)
THEOREM SwitchImplementsPair == Spec => SwitchIsAtomic
<1>1. Init => Pair!Init
  <2> SUFFICES ASSUME Init PROVE Pair!Init
    OBVIOUS
  <2>1. Len(images) = 1 /\ fs = images[1] /\ Effective(images[1]) = <<None, None>>
    BY DEF Init, fs, Effective
  <2> QED
    BY <2>1 DEF Pair!Init
<1>2. IInv /\ [Next]_vars => [Pair!Next]_pairVars
  <2> SUFFICES ASSUME IInv, [Next]_vars PROVE [Pair!Next]_pairVars
    OBVIOUS
  <2>1. CASE UNCHANGED vars
    BY <2>1 DEF vars, pairVars, Kept, fs, Effective
  <2>2. CASE LosePower
    BY <2>2, OneImageSettles DEF LosePower, Pair!Next
  <2>3. ASSUME NEW s \in Script, ScriptStep(s) PROVE [Pair!Next]_pairVars
    BY <2>3, ScriptRefines
  <2> QED
    BY <2>1, <2>2, <2>3 DEF Next
<1> QED
  BY <1>1, <1>2, InstallerInvariant, PTL DEF Spec, SwitchIsAtomic, Pair!Spec, pairVars, Kept
=============================================================================
