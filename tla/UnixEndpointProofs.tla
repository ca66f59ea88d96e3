--------------------------- MODULE UnixEndpointProofs -------------------------
(***************************************************************************)
(* What holds of the endpoint for any number of daemons, starts and kills. *)
(***************************************************************************)
EXTENDS UnixEndpoint, TLAPS

(* A socket belongs to one start, and is numbered by it.                   *)
Numbered ==
    /\ file <= starts
    /\ \A d \in Daemon : own[d] <= starts /\ (pc[d] # "off" => own[d] # NoSocket)
    /\ \A d, e \in Daemon : own[d] = own[e] /\ own[d] # NoSocket => d = e
    /\ \A d \in Daemon : \A s \in settled[d] : s <= starts

(* A daemon listens from listen to its end, and what was in service when   *)
(* some daemon started is not the socket of one that is still starting.    *)
Probing ==
    /\ \A d \in Daemon : pc[d] \in {"chmod", "stat", "serving"} => own[d] \in listening
    /\ \A d, e \in Daemon :
          pc[d] \in {"inspect", "connect", "remove", "bind", "listen", "chmod", "stat"}
              => own[d] \notin settled[e]

(* Once another file has taken the place of a daemon's own, it never comes *)
(* back; so a guard that does not name the daemon's own file belongs to a  *)
(* daemon whose file is gone.                                              *)
Guarded ==
    \A d \in Daemon :
        /\ pc[d] \in {"inspect", "connect", "remove", "bind"} => file # own[d]
        /\ pc[d] \in {"serving", "unlink"} => guard[d] = own[d] \/ file # own[d]

EndpointInv == TypeOK /\ Numbered /\ Probing /\ Guarded /\ CleanShutdown

(* Every step of a daemon keeps the invariant.                             *)
LEMMA EndpointStep == EndpointInv /\ [Next]_vars => EndpointInv'
<1> SUFFICES ASSUME EndpointInv, [Next]_vars PROVE EndpointInv'
  OBVIOUS
<1> USE EndpointAssumption
    DEF EndpointInv, TypeOK, Numbered, Probing, Guarded, CleanShutdown, Socket, NoSocket,
        Goto, Fails
<1>1. CASE UNCHANGED vars
  BY <1>1 DEF vars
<1>2. ASSUME NEW d \in Daemon, Start(d) PROVE EndpointInv'
  <2>1. TypeOK'
    BY <1>2 DEF Start
  <2>2. Numbered'
    BY <1>2 DEF Start
  <2>3. Probing'
    BY <1>2 DEF Start
  <2>4. Guarded'
    BY <1>2 DEF Start
  <2>5. CleanShutdown'
    BY <1>2 DEF Start
  <2> QED
    BY <2>1, <2>2, <2>3, <2>4, <2>5
<1>3. ASSUME NEW d \in Daemon, DaemonStep(d) PROVE EndpointInv'
  <2>1. CASE Inspect(d)
    <3>1. TypeOK'
      BY <2>1 DEF Inspect
    <3>2. Numbered'
      BY <2>1 DEF Inspect
    <3>3. Probing'
      BY <2>1 DEF Inspect
    <3>4. Guarded'
      BY <2>1 DEF Inspect
    <3>5. CleanShutdown'
      BY <2>1 DEF Inspect
    <3> QED
      BY <3>1, <3>2, <3>3, <3>4, <3>5
  <2>2. CASE Connect(d)
    <3>1. TypeOK'
      BY <2>2 DEF Connect
    <3>2. Numbered'
      BY <2>2 DEF Connect
    <3>3. Probing'
      BY <2>2 DEF Connect
    <3>4. Guarded'
      BY <2>2 DEF Connect
    <3>5. CleanShutdown'
      BY <2>2 DEF Connect
    <3> QED
      BY <3>1, <3>2, <3>3, <3>4, <3>5
  <2>3. CASE RemoveStale(d)
    <3>1. TypeOK'
      BY <2>3 DEF RemoveStale
    <3>2. Numbered'
      BY <2>3 DEF RemoveStale
    <3>3. Probing'
      BY <2>3 DEF RemoveStale
    <3>4. Guarded'
      BY <2>3 DEF RemoveStale
    <3>5. CleanShutdown'
      BY <2>3 DEF RemoveStale
    <3> QED
      BY <3>1, <3>2, <3>3, <3>4, <3>5
  <2>4. CASE Bind(d)
    <3>1. TypeOK'
      <4>1. own[d] \in Socket
        BY <2>4 DEF Bind
      <4> HIDE DEF EndpointInv, Numbered, Probing, Guarded, CleanShutdown, Socket
      <4>2. CASE file = NoSocket
        BY <2>4, <4>1, <4>2 DEF Bind, EndpointInv
      <4>3. CASE file # NoSocket
        BY <2>4, <4>3 DEF Bind, EndpointInv
      <4> QED
        BY <4>2, <4>3
    <3>2. Numbered'
      BY <2>4 DEF Bind
    <3>3. Probing'
      BY <2>4 DEF Bind
    <3>4. Guarded'
      BY <2>4 DEF Bind
    <3>5. CleanShutdown'
      BY <2>4 DEF Bind
    <3> QED
      BY <3>1, <3>2, <3>3, <3>4, <3>5
  <2>4a. CASE Listen(d)
    <3>1. own[d] \in Socket
      BY <2>4a DEF Listen
    <3>2. TypeOK'
      BY <2>4a, <3>1 DEF Listen
    <3>3. Numbered' /\ Probing'
      BY <2>4a DEF Listen
    <3>4. Guarded' /\ CleanShutdown'
      BY <2>4a DEF Listen
    <3> QED
      BY <3>2, <3>3, <3>4
  <2>5. CASE Chmod(d)
    <3>1. TypeOK'
      BY <2>5 DEF Chmod
    <3>2. Numbered'
      BY <2>5 DEF Chmod
    <3>3. Probing'
      BY <2>5 DEF Chmod
    <3>4. Guarded'
      BY <2>5 DEF Chmod
    <3>5. CleanShutdown'
      BY <2>5 DEF Chmod
    <3> QED
      BY <3>1, <3>2, <3>3, <3>4, <3>5
  <2>6. CASE Stat(d)
    <3>1. TypeOK'
      <4>1. CASE file \in private
        <5>1. /\ guard' = [guard EXCEPT ![d] = file]
              /\ pc' = [pc EXCEPT ![d] = "serving"]
              /\ UNCHANGED <<file, private, listening, own, settled, starts, crashes>>
          BY <2>6, <4>1 DEF Stat
        <5>2. guard'[d] \in Socket /\ guard' \in [Daemon -> Socket \cup {NoSocket}]
          BY <4>1, <5>1
        <5>3. \A e \in Daemon : pc'[e] \in {"serving", "unlink"} => guard'[e] \in Socket
          BY <5>1, <5>2
        <5> QED
          BY <5>1, <5>2, <5>3
      <4>2. CASE file \notin private
        BY <2>6, <4>2 DEF Stat
      <4> QED
        BY <4>1, <4>2
    <3>2. Numbered'
      <4>1. UNCHANGED <<file, own, settled, starts>>
        BY <2>6 DEF Stat
      <4>2. pc[d] # "off" /\ \A e \in Daemon : e # d => pc'[e] = pc[e]
        BY <2>6 DEF Stat
      <4> QED
        BY <4>1, <4>2
    <3>3. Probing'
      BY <2>6 DEF Stat
    <3>4. Guarded'
      BY <2>6 DEF Stat
    <3>5. CleanShutdown'
      BY <2>6 DEF Stat
    <3> QED
      BY <3>1, <3>2, <3>3, <3>4, <3>5
  <2>7. CASE Unlink(d)
    BY <2>7 DEF Unlink
  <2>8. CASE Close(d)
    BY <2>8 DEF Close
  <2> QED
    BY <1>3, <2>1, <2>2, <2>3, <2>4, <2>4a, <2>5, <2>6, <2>7, <2>8 DEF DaemonStep
<1>4. ASSUME NEW d \in Daemon, Shutdown(d) PROVE EndpointInv'
  BY <1>4 DEF Shutdown
<1>5. ASSUME NEW d \in Daemon, Crash(d) PROVE EndpointInv'
  <2>1. TypeOK'
    <3>1. crashes' \in 0..MaxCrashes /\ listening' \in SUBSET Socket
      <4>1. crashes < MaxCrashes /\ crashes' = crashes + 1
        BY <1>5 DEF Crash
      <4>2. listening' = listening \ {own[d]}
        BY <1>5 DEF Crash
      <4>3. crashes \in 0..MaxCrashes /\ listening \in SUBSET Socket
        OBVIOUS
      <4> HIDE DEF EndpointInv, TypeOK, Numbered, Probing, Guarded, CleanShutdown, Socket
      <4>4. crashes' \in 0..MaxCrashes
        BY <4>1, <4>3
      <4> QED
        BY <4>2, <4>3, <4>4
    <3>2. pc' = [pc EXCEPT ![d] = "off"]
      BY <1>5 DEF Crash
    <3>3. UNCHANGED <<file, private, own, guard, settled, starts>>
      BY <1>5 DEF Crash
    <3> QED
      BY <3>1, <3>2, <3>3
  <2>2. Numbered'
    BY <1>5 DEF Crash
  <2>3. Probing'
    BY <1>5 DEF Crash
  <2>4. Guarded'
    BY <1>5 DEF Crash
  <2>5. CleanShutdown'
    BY <1>5 DEF Crash
  <2> QED
    BY <2>1, <2>2, <2>3, <2>4, <2>5
<1> QED
  BY <1>1, <1>2, <1>3, <1>4, <1>5 DEF Next

(* A first start finds nothing at the endpoint.                            *)
LEMMA EndpointInit == Init => EndpointInv
BY EndpointAssumption
DEF Init, EndpointInv, TypeOK, Numbered, Probing, Guarded, CleanShutdown, Socket, NoSocket

(* The daemons, the sockets they made and the endpoint's file keep their   *)
(* types through every start, bind, chmod and shutdown of the endpoint.    *)
THEOREM EndpointTypes == Spec => []TypeOK
<1>1. EndpointInv => TypeOK
  BY DEF EndpointInv
<1> QED
  BY <1>1, EndpointInit, EndpointStep, PTL DEF Spec

(* SocketGuard::drop always gets rid of the daemon's own file, also when   *)
(* other daemons replaced it or the guard was given another one's inode.   *)
THEOREM ShutdownIsClean == Spec => []CleanShutdown
<1>1. EndpointInv => CleanShutdown
  BY DEF EndpointInv
<1> QED
  BY <1>1, EndpointInit, EndpointStep, PTL DEF Spec

-----------------------------------------------------------------------------
(* A step does not make a probing daemon's file that of a settled one.     *)
LEMMA SafeStep ==
    ~MayBeBusy /\ EndpointInv /\ SettledServerIsSafe /\ [Next]_vars => SettledServerIsSafe'
<1> SUFFICES ASSUME ~MayBeBusy, EndpointInv, SettledServerIsSafe, [Next]_vars,
                    NEW d \in Daemon, NEW e \in Daemon,
                    pc'[e] = "remove", pc'[d] = "serving", own'[d] \in settled'[e]
             PROVE  file' # own'[d]
  BY DEF SettledServerIsSafe
<1> USE EndpointAssumption
    DEF EndpointInv, TypeOK, Numbered, Probing, Socket, NoSocket, Goto, Fails,
        SettledServerIsSafe
<1>1. CASE UNCHANGED vars
  BY <1>1 DEF vars
<1>2. ASSUME NEW f \in Daemon, Start(f) PROVE file' # own'[d]
  BY <1>2 DEF Start
<1>3. ASSUME NEW f \in Daemon, DaemonStep(f) PROVE file' # own'[d]
  <2>1. CASE Inspect(f)
    BY <2>1 DEF Inspect
  <2>2. CASE Connect(f)
    BY <2>2 DEF Connect
  <2>3. CASE RemoveStale(f)
    BY <2>3 DEF RemoveStale
  <2>4. CASE Bind(f)
    BY <2>4 DEF Bind
  <2>4a. CASE Listen(f)
    BY <2>4a DEF Listen
  <2>5. CASE Chmod(f)
    BY <2>5 DEF Chmod
  <2>6. CASE Stat(f)
    BY <2>6 DEF Stat
  <2>7. CASE Unlink(f)
    BY <2>7 DEF Unlink
  <2>8. CASE Close(f)
    BY <2>8 DEF Close
  <2> QED
    BY <1>3, <2>1, <2>2, <2>3, <2>4, <2>4a, <2>5, <2>6, <2>7, <2>8 DEF DaemonStep
<1>4. ASSUME NEW f \in Daemon, Shutdown(f) PROVE file' # own'[d]
  BY <1>4 DEF Shutdown
<1>5. ASSUME NEW f \in Daemon, Crash(f) PROVE file' # own'[d]
  BY <1>5 DEF Crash
<1> QED
  BY <1>1, <1>2, <1>3, <1>4, <1>5 DEF Next

(* remove_stale_socket never takes the socket of a daemon that was already *)
(* serving when the other started, provided that a live daemon accepts the *)
(* probe's connection in time.                                             *)
THEOREM ServingIsKept == ~MayBeBusy => (Spec => []SettledServerIsSafe)
<1> SUFFICES ASSUME ~MayBeBusy PROVE Spec => []SettledServerIsSafe
  OBVIOUS
<1>1. Init => SettledServerIsSafe
  BY DEF Init, SettledServerIsSafe
<1>2. EndpointInv /\ SettledServerIsSafe /\ [Next]_vars => SettledServerIsSafe'
  BY SafeStep
<1> QED
  BY <1>1, <1>2, EndpointInit, EndpointStep, PTL DEF Spec
=============================================================================
