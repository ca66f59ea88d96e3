----------------------------- MODULE UnixEndpoint -----------------------------
(***************************************************************************)
(* The socket file through which a daemon is reached on Unix: how a daemon *)
(* that starts deals with the file an earlier one left, how it binds its   *)
(* own, and how it removes it at the end.  Every system call on the path   *)
(* is a step of its own, for the daemons share nothing but the file.       *)
(***************************************************************************)
EXTENDS Integers, FiniteSets

CONSTANTS
    Daemon,      \* processes that serve the endpoint
    MaxStarts,   \* bound on starts, over all daemons
    MaxCrashes,  \* bound on kills
    MayBeBusy    \* whether a live daemon may fail to take a connection in time

ASSUME EndpointAssumption ==
    /\ MaxStarts \in Nat
    /\ MaxCrashes \in Nat
    /\ MayBeBusy \in BOOLEAN

(* A socket is numbered by the start that bound it, and so is its inode.   *)
Socket == 1..MaxStarts
NoSocket == 0

VARIABLES
    file,        \* the socket whose file is at the endpoint
    private,     \* sockets whose file has mode 0600
    listening,   \* sockets some process listens on
    pc,          \* pc[d]: where daemon d stands
    own,         \* own[d]: the socket d would bind or has bound
    guard,       \* guard[d]: the inode in d's SocketGuard
    settled,     \* history: settled[d]: sockets in service when d was started
    starts, crashes     \* counters behind the bounds

vars == <<file, private, listening, pc, own, guard, settled, starts, crashes>>

Init ==
    /\ file = NoSocket
    /\ private = {}
    /\ listening = {}
    /\ pc = [d \in Daemon |-> "off"]
    /\ own = [d \in Daemon |-> NoSocket]
    /\ guard = [d \in Daemon |-> NoSocket]
    /\ settled = [d \in Daemon |-> {}]
    /\ starts = 0
    /\ crashes = 0

Goto(d, label) == pc' = [pc EXCEPT ![d] = label]

(* The daemon ends with an error; its listener, if it has one, is closed.  *)
Fails(d) ==
    /\ Goto(d, "off")
    /\ listening' = listening \ {own[d]}

Start(d) ==
    /\ pc[d] = "off"
    /\ starts < MaxStarts
    /\ starts' = starts + 1
    /\ own' = [own EXCEPT ![d] = starts']
    /\ guard' = [guard EXCEPT ![d] = NoSocket]
    /\ settled' = [settled EXCEPT ![d] = {own[e] : e \in {f \in Daemon : pc[f] = "serving"}}]
    /\ Goto(d, "inspect")
    /\ UNCHANGED <<file, private, listening, crashes>>

-----------------------------------------------------------------------------
(* remove_stale_socket *)

Inspect(d) ==
    /\ pc[d] = "inspect"
    /\ \/ file = NoSocket /\ Goto(d, "bind") /\ UNCHANGED listening
       \/ file # NoSocket /\ file \notin private /\ Fails(d)
       \/ file \in private /\ Goto(d, "connect") /\ UNCHANGED listening
    /\ UNCHANGED <<file, private, own, guard, settled, starts, crashes>>

(* Mutant of Connect: a file that is there is taken to be stale.           *)
ConnectNever(d) ==
    /\ pc[d] = "connect"
    /\ Goto(d, "remove")
    /\ UNCHANGED <<file, private, listening, own, guard, settled, starts, crashes>>

(* AlreadyRunning when the connection is taken; whatever else happens, the *)
(* file is taken to be stale.                                              *)
Connect(d) ==
    /\ pc[d] = "connect"
    /\ \/ file \in listening /\ Fails(d)
       \/ (file \notin listening \/ MayBeBusy) /\ Goto(d, "remove") /\ UNCHANGED listening
    /\ UNCHANGED <<file, private, own, guard, settled, starts, crashes>>

RemoveStale(d) ==
    /\ pc[d] = "remove"
    /\ \/ file = NoSocket /\ Fails(d)
       \/ file # NoSocket /\ Goto(d, "bind") /\ UNCHANGED listening
    /\ file' = NoSocket
    /\ UNCHANGED <<private, own, guard, settled, starts, crashes>>

-----------------------------------------------------------------------------
(* bind_private_listener *)

(* UnixListener::bind is bind, which makes the file with a mode that       *)
(* depends on the umask, ...                                               *)
Bind(d) ==
    /\ pc[d] = "bind"
    /\ \/ /\ file = NoSocket
          /\ file' = own[d]
          /\ private' \in {private, private \cup {own[d]}}
          /\ Goto(d, "listen")
          /\ UNCHANGED listening
       \/ file # NoSocket /\ Fails(d) /\ UNCHANGED <<file, private>>
    /\ UNCHANGED <<own, guard, settled, starts, crashes>>

(* ... and listen, before which a connection is refused.                   *)
Listen(d) ==
    /\ pc[d] = "listen"
    /\ listening' = listening \cup {own[d]}
    /\ Goto(d, "chmod")
    /\ UNCHANGED <<file, private, own, guard, settled, starts, crashes>>

(* Mutant of Chmod: the mode is left as bind made it.                      *)
ChmodForgets(d) ==
    /\ pc[d] = "chmod"
    /\ \/ file # NoSocket /\ Goto(d, "stat") /\ UNCHANGED listening
       \/ file = NoSocket /\ Fails(d)
    /\ UNCHANGED <<file, private, own, guard, settled, starts, crashes>>

Chmod(d) ==
    /\ pc[d] = "chmod"
    /\ \/ file # NoSocket /\ private' = private \cup {file} /\ Goto(d, "stat")
          /\ UNCHANGED listening
       \/ file = NoSocket /\ Fails(d) /\ UNCHANGED private
    /\ UNCHANGED <<file, own, guard, settled, starts, crashes>>

(* Mutant of Stat: the guard is left with an identity that matches none.   *)
StatForgets(d) ==
    /\ pc[d] = "stat"
    /\ Goto(d, "serving")
    /\ UNCHANGED <<file, private, listening, own, guard, settled, starts, crashes>>

(* The guard takes the identity of whatever file is at the endpoint now.   *)
Stat(d) ==
    /\ pc[d] = "stat"
    /\ \/ file \in private /\ guard' = [guard EXCEPT ![d] = file] /\ Goto(d, "serving")
          /\ UNCHANGED listening
       \/ file \notin private /\ Fails(d) /\ UNCHANGED guard
    /\ UNCHANGED <<file, private, own, settled, starts, crashes>>

-----------------------------------------------------------------------------
(* SocketGuard::drop, which runs before the listener is dropped *)

Shutdown(d) ==
    /\ pc[d] = "serving"
    /\ Goto(d, IF file = guard[d] THEN "unlink" ELSE "close")
    /\ UNCHANGED <<file, private, listening, own, guard, settled, starts, crashes>>

Unlink(d) ==
    /\ pc[d] = "unlink"
    /\ file' = NoSocket
    /\ Goto(d, "close")
    /\ UNCHANGED <<private, listening, own, guard, settled, starts, crashes>>

Close(d) ==
    /\ pc[d] = "close"
    /\ Fails(d)
    /\ UNCHANGED <<file, private, own, guard, settled, starts, crashes>>

Crash(d) ==
    /\ pc[d] # "off"
    /\ crashes < MaxCrashes
    /\ crashes' = crashes + 1
    /\ Fails(d)
    /\ UNCHANGED <<file, private, own, guard, settled, starts>>

DaemonStep(d) ==
    \/ Inspect(d)
    \/ Connect(d)
    \/ RemoveStale(d)
    \/ Bind(d)
    \/ Listen(d)
    \/ Chmod(d)
    \/ Stat(d)
    \/ Unlink(d)
    \/ Close(d)

Next == \E d \in Daemon : Start(d) \/ DaemonStep(d) \/ Shutdown(d) \/ Crash(d)

Spec == Init /\ [][Next]_vars

(* A daemon that runs goes on; nobody has to start, stop or kill one.      *)
FairSpec == Spec /\ \A d \in Daemon : WF_vars(DaemonStep(d))

-----------------------------------------------------------------------------
(* Properties *)

TypeOK ==
    /\ file \in Socket \cup {NoSocket}
    /\ private \in SUBSET Socket
    /\ listening \in SUBSET Socket
    /\ pc \in [Daemon -> {"off", "inspect", "connect", "remove", "bind", "listen",
                          "chmod", "stat", "serving", "unlink", "close"}]
    /\ own \in [Daemon -> Socket \cup {NoSocket}]
    /\ guard \in [Daemon -> Socket \cup {NoSocket}]
    /\ \A d \in Daemon : pc[d] \in {"serving", "unlink"} => guard[d] \in Socket
    /\ settled \in [Daemon -> SUBSET Socket]
    /\ starts \in 0..MaxStarts
    /\ crashes \in 0..MaxCrashes

(* A daemon that ended in order has left no file of its own behind,        *)
(* although others may have replaced the file or taken its place.          *)
CleanShutdown == \A d \in Daemon : pc[d] = "close" => file # own[d]

(* What the IPC test asserts after a shutdown: "server removed only its    *)
(* owned socket".                                                          *)
RemovesOnlyOwnedSocket ==
    \A d \in Daemon : pc[d] = "unlink" => file \in {own[d], NoSocket}

(* A daemon that was already serving when another one was started is never *)
(* taken for a stale one by it, however the starts, ends and deaths of     *)
(* others fall in between.                                                 *)
SettledServerIsSafe ==
    \A d, e \in Daemon :
        pc[e] = "remove" /\ pc[d] = "serving" /\ own[d] \in settled[e] => file # own[d]

(* Another daemon's file that d does not get past.                         *)
Blocked(d) == file \notin private \cup {NoSocket, own[d]}

(* Left alone, a daemon that starts ends up serving, whatever the daemons  *)
(* before it left behind, unless another kill or another daemon interferes *)
(* or the file it finds has the mode that bind gave it, left by a daemon   *)
(* that was killed before it could restrict it.  Its own file, which has   *)
(* that mode for a moment too, is no excuse.                               *)
StartsOrSaysWhy ==
    \A d \in Daemon, c \in 0..MaxCrashes :
        pc[d] = "inspect" /\ crashes = c
            ~> \/ pc[d] = "serving" \/ crashes > c \/ Blocked(d)
               \/ \E e \in Daemon \ {d} : pc[e] # "off"
=============================================================================
