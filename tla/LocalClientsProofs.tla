-------------------------- MODULE LocalClientsProofs --------------------------
(***************************************************************************)
(* What holds of the local sessions and their clients for any set of calls *)
(* and protocols and any number of starts, ids and requests.               *)
(***************************************************************************)
EXTENDS LocalClients, SequenceTheorems, TLAPS

(* Until two processes have been creating at the same time, one that is    *)
(* about to set a secret is alone and finds the store empty; so every      *)
(* secret that was ever handed out is the stored one.                      *)
Created ==
    /\ \A p \in Process : pc[p] = "set" => p \in Creator
    /\ ~overlapped =>
          /\ \A p \in Process : pc[p] = "set" => entry = NoEntry
          /\ \A p, q \in Process : pc[p] = "set" /\ pc[q] = "set" => p = q
          /\ \A p \in Process : secret[p] # NoSecret =>
                Decodes(entry) /\ secret[p] = entry.secret

(* A connection that is open has a daemon behind it.                       *)
Served ==
    \A c \in Client : srv[c] \notin {"none", "closed"} => pc[Daemon] \in {"chmod", "serving"}

(* Where both sides of a handshake stand and what is on the way.           *)
Agreed(c) == Transcript(Hello(c), <<"session", c>>, <<"server nonce", c>>)
Trusts(c) == secret[c] = secret[Daemon] /\ protocol[c] = PROTOCOL_VERSION

Unconnected(c) == srv[c] = "none" /\ up[c] = <<>> /\ down[c] = <<>> /\ tasks[c] = {}
Challenged(c) ==
    /\ sending[c] /\ tasks[c] = {}
    /\ \/ srv[c] = "hello" /\ up[c] = <<HelloFrame(c)>> /\ down[c] = <<>>
       \/ /\ srv[c] = "authenticate" /\ up[c] = <<>> /\ offered[c] = Agreed(c)
          /\ down[c] = <<Challenge(c, Agreed(c))>> /\ protocol[c] = PROTOCOL_VERSION
       \/ srv[c] = "closed"
Proven(c) ==
    /\ sending[c] /\ tasks[c] = {}
    /\ offered[c] = Agreed(c) /\ accepted[c] = Agreed(c)
    /\ \/ /\ srv[c] = "authenticate" /\ Trusts(c)
          /\ up[c] = <<Authenticate(c, Agreed(c))>> /\ down[c] = <<>>
       \/ /\ srv[c] = "serving" /\ Trusts(c)
          /\ up[c] = <<>> /\ down[c] = <<Ready(Agreed(c))>>
       \/ srv[c] = "closed" /\ down[c] = <<>>
       \/ srv[c] = "closed" /\ down[c] = <<Ready(Agreed(c))>> /\ up[c] = <<>>
Admitted(c) ==
    /\ accepted[c] = offered[c]
    /\ srv[c] = "closed" \/ (srv[c] \in {"serving", "ending"} /\ Trusts(c))

Phase(c) ==
    /\ pc[c] \in {"new", "get", "set", "inspect", "connect"} => Unconnected(c)
    /\ pc[c] = "challenge" => Challenged(c)
    /\ pc[c] = "ready" => Proven(c)
    /\ pc[c] = "live" => Admitted(c)

(* The calls that wait for the mutex are different ones, and only a call   *)
(* that has returned has an outcome.                                       *)
Queued ==
    /\ \A i \in 1..Len(waiting) : call[waiting[i]] = "waiting"
    /\ \A i, j \in 1..Len(waiting) : waiting[i] = waiting[j] => i = j
    /\ \A k \in Call : outcome[k] # "none" => call[k] = "returned"
    /\ pc[Bridge] \notin {"live", "off"} => usable /\ \A k \in Call : call[k] = "new"

(* At most one call has the connection, and at most one frame of it is on  *)
(* the way: its request, its task, its response, or nothing if that was    *)
(* lost.                                                                   *)
Out(k) == call[k] \in {"writing", "sent"}
Quiet == up[Bridge] = <<>> /\ down[Bridge] = <<>> /\ tasks[Bridge] = {}
Underway(k) ==
    \/ Quiet
    \/ up[Bridge] = <<Request(requestId)>> /\ down[Bridge] = <<>> /\ tasks[Bridge] = {}
    \/ /\ call[k] = "sent" /\ up[Bridge] = <<>>
       /\ \/ down[Bridge] = <<>> /\ tasks[Bridge] = {requestId}
          \/ \E response \in Dispatch(requestId) :
                down[Bridge] = <<response>> /\ tasks[Bridge] = {}
InStep ==
    /\ \A k, l \in Call : Out(k) /\ Out(l) => k = l
    /\ pc[Bridge] = "live" => \A k \in Call : Out(k) => usable /\ Underway(k)

-----------------------------------------------------------------------------
(* Types *)

(* A pipe with one frame.                                                  *)
LEMMA OneFrame ==
    ASSUME NEW x
    PROVE  /\ <<x>> # <<>> /\ Head(<<x>>) = x /\ Tail(<<x>>) = <<>>
           /\ Append(<<>>, x) = <<x>>
OBVIOUS

(* What a process loads or generates is a secret.                          *)
LEMMA CredentialStep ==
    ASSUME TypeOK, Created, NEW p \in Process, LoadSecret(p)
    PROVE  CredentialTypeOK'
<1> USE DEF TypeOK, SessionTypeOK, CredentialTypeOK
<1>1. CASE GetSecret(p, AfterSecret(p))
  <2>1. overlapped' \in BOOLEAN
    BY <1>1, Zenon DEF GetSecret
  <2>2. Decodes(entry) => entry.secret \in Secret
    BY DEF Decodes, NoEntry, Malformed, RawValue, Secret
  <2>3. secret' \in [Process -> Secret \cup {NoSecret}]
    BY <1>1, <2>2 DEF GetSecret
  <2> QED
    BY <1>1, <2>1, <2>3 DEF GetSecret
<1>2. CASE SetSecret(p, AfterSecret(p))
  <2>1. Generated(p) \in Secret
    BY <1>2, SessionAssumption DEF SetSecret, Created, Generated, Secret
  <2>2. entry' \in [form : {"prefixed"}, secret : Secret]
    BY <1>2, <2>1 DEF SetSecret, StoreValue
  <2>3. secret' \in [Process -> Secret \cup {NoSecret}]
    BY <1>2, <2>1 DEF SetSecret
  <2> QED
    BY <1>2, <2>2, <2>3 DEF SetSecret
<1>3. CASE StoreFails(p)
  BY <1>3 DEF StoreFails, credentialVars
<1> QED
  BY <1>1, <1>2, <1>3 DEF LoadSecret

(* Every step keeps the types.                                             *)
LEMMA TypeStep == TypeOK /\ Created /\ [Next]_vars => TypeOK'
<1> SUFFICES ASSUME TypeOK, Created, [Next]_vars PROVE TypeOK'
  OBVIOUS
<1> USE SessionAssumption, ClientsAssumption
    DEF TypeOK, SessionTypeOK, connectionVars, bridgeVars, launcherVars, Goto, SetSrv
<1>1. ASSUME NEW p \in Process, LoadSecret(p) PROVE TypeOK'
  <2>1. CredentialTypeOK'
    BY <1>1, CredentialStep
  <2>2. starts' = starts /\ \E label \in {"off", "set", "bind", "inspect"} :
                               pc' = [pc EXCEPT ![p] = label]
    BY <1>1 DEF LoadSecret, GetSecret, SetSecret, StoreFails, AfterSecret
  <2> QED
    BY <1>1, <2>1, <2>2 DEF LoadSecret
<1>2. ASSUME NEW p \in Process, NEW label \in {"off", "get", "chmod", "serving", "connect",
                                               "challenge", "ready", "live"},
             pc' = [pc EXCEPT ![p] = label] \/ pc' = pc,
             UNCHANGED <<credentialVars, protocol, bridgeVars, launcherVars, expired>>,
             starts' \in 0..MaxDaemonStarts,
             socketFile' \in {"none", "open", "private"},
             srv' \in [Client -> {"none", "hello", "authenticate", "serving", "ending",
                                  "closed"}],
             sending' \in [Client -> BOOLEAN]
      PROVE  TypeOK'
  BY <1>2 DEF credentialVars, CredentialTypeOK
<1>3. ASSUME NEW c \in Client, SetUp(c) PROVE TypeOK'
  <2>1. /\ UNCHANGED <<starts, credentialVars, protocol, socketFile, bridgeVars, launcherVars,
                       expired>>
        /\ \E label \in {"off", "connect", "challenge", "ready", "live"} :
              pc' = [pc EXCEPT ![c] = label]
    BY <1>3 DEF SetUp, Inspect, Connect, ReadChallenge, ReadReady, HandshakeFails, Leave
  <2>2. /\ srv' = srv \/ srv' = [srv EXCEPT ![c] = "hello"]
        /\ \E b \in BOOLEAN : sending' = sending \/ sending' = [sending EXCEPT ![c] = b]
    BY <1>3 DEF SetUp, Inspect, Connect, ReadChallenge, ReadReady, HandshakeFails, Leave
  <2>3. sending' \in [Client -> BOOLEAN]
    BY <2>2, Zenon
  <2>4. c \in Process
    BY DEF Process
  <2>5. srv' \in [Client -> {"none", "hello", "authenticate", "serving", "ending", "closed"}]
    BY <2>2
  <2>6. PICK label \in {"off", "connect", "challenge", "ready", "live"} :
           pc' = [pc EXCEPT ![c] = label]
    BY <2>1
  <2> HIDE DEF TypeOK
  <2>7. starts' \in 0..MaxDaemonStarts /\ socketFile' \in {"none", "open", "private"}
    BY <2>1 DEF TypeOK
  <2> QED
    BY <1>2, <2>1, <2>3, <2>4, <2>5, <2>6, <2>7
<1>4. ASSUME NEW c \in Client, Admit(c) PROVE TypeOK'
  <2>1. /\ UNCHANGED <<pc, starts, credentialVars, protocol, socketFile, sending, bridgeVars,
                       launcherVars, expired>>
        /\ \E label \in {"authenticate", "serving", "closed"} : srv' = [srv EXCEPT ![c] = label]
    BY <1>4 DEF Admit, ReadHello, ReadAuthenticate, ServerHandshakeFails, Reply
  <2>2. Daemon \in Process
    BY DEF Process
  <2> QED
    BY <1>2, <2>1, <2>2
<1>5. CASE Start
  <2> USE DEF Process
  <2>1. ASSUME NEW c \in Client, StartClient(c), UNCHANGED <<bridgeVars, launcherVars, expired>>
        PROVE  TypeOK'
    <3>1. c \in Process /\ pc' = [pc EXCEPT ![c] = "get"]
      BY <2>1 DEF StartClient
    <3>2. UNCHANGED <<starts, credentialVars, protocol, socketFile, srv, sending>>
      BY <2>1 DEF StartClient
    <3> QED
      BY <1>2, <2>1, <3>1, <3>2
  <2>2. CASE StartDaemon
    <3>1. Daemon \in Process /\ pc' = [pc EXCEPT ![Daemon] = "get"]
      BY <2>2 DEF StartDaemon
    <3>2. UNCHANGED <<credentialVars, protocol, socketFile, srv, sending, bridgeVars, launcherVars,
                      expired>>
      BY <1>5, <2>2 DEF Start, StartDaemon
    <3>3. starts' \in 0..MaxDaemonStarts
      BY <2>2 DEF StartDaemon
    <3> QED
      BY <1>2, <3>1, <3>2, <3>3
  <2>3. CASE Bind
    BY <1>2, <1>5, <2>3 DEF Start, Bind
  <2>4. CASE Chmod
    BY <1>2, <1>5, <2>4 DEF Start, Chmod
  <2> QED
    BY <1>5, <2>1, <2>2, <2>3, <2>4 DEF Start
<1>6. CASE StopDaemon
  <2>1. CredentialTypeOK'
    BY <1>6 DEF StopDaemon, DaemonGone, CredentialTypeOK
  <2> QED
    BY <1>6, <2>1 DEF StopDaemon, DaemonGone
<1>7. ASSUME NEW c \in Client, Expire(c) PROVE TypeOK'
  <2>1. expired' \in [Client -> BOOLEAN]
    BY <1>7, Zenon DEF Expire
  <2> QED
    BY <1>7, <2>1 DEF Expire, sessionVars, credentialVars, CredentialTypeOK
<1>8. ASSUME NEW c \in Client, SessionStep(c) PROVE TypeOK'
  <2>1. /\ OnlyConnection /\ expired' = expired
        /\ srv' = srv \/ \E label \in {"serving", "ending", "closed"} :
                            srv' = [srv EXCEPT ![c] = label]
    BY <1>8 DEF SessionStep, ReadRequest, EndTask, EndConnection, Reply
  <2>2. \/ call' = call
        \/ call' = [k \in Call |-> IF call[k] = "writing" THEN "sent" ELSE call[k]]
    BY <1>8 DEF SessionStep, ReadRequest, EndTask, EndConnection, Written
  <2> QED
    BY <2>1, <2>2 DEF OnlyConnection, credentialVars, CredentialTypeOK
<1>9. ASSUME UNCHANGED <<starts, credentialVars, protocol, socketFile, srv, launcherVars, expired,
                         pc, sending>>,
             input' \in [Call -> Input],
             \E k \in Call, label \in {"waiting", "writing", "sent", "returned"} :
                 call' = [call EXCEPT ![k] = label],
             waiting' \in Seq(Call), usable' \in BOOLEAN,
             nextId' \in 1..MaxId, requestId' \in 0..MaxId
      PROVE  TypeOK'
  BY <1>9 DEF credentialVars, CredentialTypeOK
<1>10. ASSUME NEW k \in Call, NEW what \in Input, Submit(k, what) PROVE TypeOK'
  <2>1. input' \in [Call -> Input]
    BY <1>10 DEF Submit
  <2>2. waiting' = waiting \/ waiting' = Append(waiting, k)
    BY <1>10, Zenon DEF Submit
  <2>3. waiting' \in Seq(Call)
    <3> HIDE DEF TypeOK
    <3>1. waiting \in Seq(Call)
      BY DEF TypeOK
    <3>2. Append(waiting, k) \in Seq(Call)
      BY <3>1, AppendProperties
    <3> QED
      BY <2>2, <3>1, <3>2
  <2>4. \E label \in {"waiting", "returned"} : call' = [call EXCEPT ![k] = label]
    BY <1>10 DEF Submit, Returns
  <2> QED
    BY <1>9, <1>10, <2>1, <2>3, <2>4 DEF Submit, OnlyBridge
<1>11. CASE BeginCall
  <2>1. Head(waiting) \in Call /\ waiting' \in Seq(Call)
    BY <1>11, HeadTailProperties DEF BeginCall
  <2>2. \E label \in {"writing", "sent", "returned"} : call' = [call EXCEPT ![Head(waiting)] = label]
    BY <1>11 DEF BeginCall, Returns
  <2>3. nextId' \in 1..MaxId /\ requestId' \in 0..MaxId
    <3>1. IdAfter(nextId) \in 1..MaxId /\ nextId \in 0..MaxId
      BY DEF IdAfter
    <3>2. \/ nextId' = nextId /\ requestId' = requestId
          \/ nextId' = IdAfter(nextId) /\ requestId' \in {requestId, nextId}
      BY <1>11, Zenon DEF BeginCall
    <3> QED
      BY <3>1, <3>2
  <2>4. usable' \in BOOLEAN
    BY <1>11, Zenon DEF BeginCall
  <2> QED
    <3>1. /\ UNCHANGED <<starts, credentialVars, protocol, socketFile, srv, launcherVars, expired,
                          pc, sending>>
          /\ input' = input
      BY <1>11 DEF BeginCall, OnlyBridge
    <3>2. \E k \in Call, label \in {"waiting", "writing", "sent", "returned"} :
              call' = [call EXCEPT ![k] = label]
      BY <2>1, <2>2
    <3> QED
      BY <1>9, <2>1, <2>3, <2>4, <3>1, <3>2
<1>12. ASSUME NEW k \in Call, ReadResponse(k) \/ StreamEnds(k) \/ ResponseTimeout(k)
       PROVE  TypeOK'
  <2>1. usable' \in BOOLEAN
    BY <1>12, Zenon DEF ReadResponse, StreamEnds, ResponseTimeout
  <2> QED
    BY <1>9, <1>12, <2>1 DEF ReadResponse, StreamEnds, ResponseTimeout, Returns, OnlyBridge
<1>13. CASE StopBridge
  <2>1. sending' \in [Client -> BOOLEAN]
    BY <1>13, Zenon DEF StopBridge, Leave
  <2> QED
    BY <1>2, <1>13, <2>1 DEF StopBridge, Leave, OnlyBridge, Process, Client
<1>14. CASE LauncherStep \/ RelayUp \/ CloseInput
  <2>1. /\ OnlyLauncher
        /\ pc' = pc \/ pc' = [pc EXCEPT ![Launcher] = "off"]
        /\ sending' = sending \/ sending' = [sending EXCEPT ![Launcher] = FALSE]
        /\ stdin' \in {"open", "closed"} /\ relayed' \in 0..MaxPluginRequests
    BY <1>14 DEF LauncherStep, RelayUp, RelayDown, CloseInput, ExitLauncher, Leave
  <2>2. sending' \in [Client -> BOOLEAN]
    BY <2>1, Zenon
  <2> QED
    BY <2>1, <2>2 DEF OnlyLauncher, credentialVars, CredentialTypeOK
<1>15. CASE UNCHANGED vars
  BY <1>15 DEF vars, sessionVars, credentialVars, CredentialTypeOK
<1> HIDE DEF TypeOK
<1> QED
  BY <1>1, <1>3, <1>4, <1>5, <1>6, <1>7, <1>8, <1>10, <1>11, <1>12, <1>13, <1>14, <1>15
     DEF Next, BridgeStep, HostStep

(* The steps of the clients and of their connections load no secret.       *)
LEMMA CredentialsKept ==
    ASSUME NEW c \in Client,
           \/ SetUp(c) \/ Admit(c) \/ SessionStep(c) \/ Expire(c)
           \/ Start \/ BridgeStep \/ LauncherStep \/ HostStep,
           TypeOK
    PROVE  /\ UNCHANGED credentialVars
           /\ \/ pc' = pc
              \/ \E p \in Process :
                    \E label \in {"off", "get", "chmod", "serving", "connect", "challenge", "ready",
                                 "live"} : pc' = [pc EXCEPT ![p] = label]
<1> USE DEF Goto
<1>1. CASE SetUp(c)
  BY <1>1 DEF SetUp, Inspect, Connect, ReadChallenge, ReadReady, HandshakeFails, Leave, Process
<1>2. CASE Admit(c)
  BY <1>2 DEF Admit, ReadHello, ReadAuthenticate, ServerHandshakeFails
<1>3. CASE SessionStep(c)
  BY <1>3 DEF SessionStep, ReadRequest, EndTask, EndConnection, OnlyConnection
<1>4. CASE Expire(c)
  BY <1>4 DEF Expire, sessionVars
<1>5. CASE Start
  BY <1>5 DEF Start, StartClient, StartDaemon, Bind, Chmod, Process
<1>6. CASE BridgeStep
  BY <1>6 DEF BridgeStep, BeginCall, ReadResponse, StreamEnds, ResponseTimeout, OnlyBridge
<1>7. CASE LauncherStep
  BY <1>7 DEF LauncherStep, RelayDown, ExitLauncher, Leave, OnlyLauncher, Process, Client
<1>8. CASE HostStep
  BY <1>8 DEF HostStep, Submit, StopBridge, RelayUp, CloseInput, Leave, OnlyBridge, OnlyLauncher,
              Process, Client
<1> QED
  BY <1>1, <1>2, <1>3, <1>4, <1>5, <1>6, <1>7, <1>8

(* Every step keeps what is known of the secrets.                          *)
LEMMA CreatedStep == TypeOK /\ Created /\ [Next]_vars => Created'
<1> SUFFICES ASSUME TypeOK, Created, [Next]_vars PROVE Created'
  OBVIOUS
<1>1. /\ pc \in [Process -> {"new", "off", "get", "set", "bind", "chmod", "serving", "inspect",
                            "connect", "challenge", "ready", "live"}]
      /\ secret \in [Process -> Secret \cup {NoSecret}]
      /\ overlapped \in BOOLEAN
  BY DEF TypeOK, SessionTypeOK, CredentialTypeOK
<1>2. ASSUME UNCHANGED credentialVars, \A p \in Process : pc'[p] = "set" => pc[p] = "set"
      PROVE  Created'
  BY <1>2 DEF Created, credentialVars, Decodes
<1>3. ASSUME NEW c \in Client,
             \/ SetUp(c) \/ Admit(c) \/ SessionStep(c) \/ Expire(c)
             \/ Start \/ BridgeStep \/ LauncherStep \/ HostStep
      PROVE  Created'
  <2>1. /\ UNCHANGED credentialVars
        /\ \/ pc' = pc
           \/ \E p \in Process :
                 \E label \in {"off", "get", "chmod", "serving", "connect", "challenge", "ready",
                              "live"} : pc' = [pc EXCEPT ![p] = label]
    BY <1>3, CredentialsKept, Zenon
  <2> QED
    BY <1>1, <1>2, <2>1
<1>4. ASSUME NEW p \in Process, LoadSecret(p) PROVE Created'
  <2> DEFINE next == AfterSecret(p)
  <2>1. next # "set"
    BY DEF AfterSecret
  <2>2. ASSUME pc[p] = "get", Decodes(entry), secret' = [secret EXCEPT ![p] = entry.secret],
               Goto(p, next), UNCHANGED <<entry, overlapped>>
        PROVE  Created'
    BY <1>1, <2>1, <2>2 DEF Created, Goto, Decodes
  <2>3. ASSUME pc[p] = "get", entry = NoEntry, p \in Creator, Goto(p, "set"),
               overlapped' = (overlapped \/ \E q \in Process \ {p} : pc[q] = "set"),
               UNCHANGED <<entry, secret>>
        PROVE  Created'
    BY <1>1, <2>3 DEF Created, Goto, Decodes, NoEntry
  <2>4. ASSUME Goto(p, "off"), UNCHANGED <<entry, secret, overlapped>> PROVE Created'
    BY <1>1, <1>2, <2>4 DEF Goto, credentialVars
  <2>5. ASSUME SetSecret(p, next) PROVE Created'
    <3>1. Decodes(entry') /\ entry'.secret = Generated(p)
      BY <2>5 DEF SetSecret, StoreValue, Decodes
    <3>2. \A q \in Process : pc'[q] = "set" => q # p /\ pc[q] = "set"
      BY <1>1, <2>1, <2>5 DEF SetSecret, Goto
    <3>3. ~overlapped => \A q \in Process : q # p => secret[q] = NoSecret
      BY <2>5 DEF SetSecret, Created, Decodes, NoEntry
    <3>4. ~overlapped => \A q \in Process : secret'[q] # NoSecret => secret'[q] = Generated(p)
      BY <1>1, <2>5, <3>3 DEF SetSecret
    <3>5. ~overlapped => \A q \in Process : pc'[q] # "set"
      BY <2>5, <3>2 DEF SetSecret, Created
    <3> QED
      BY <2>5, <3>1, <3>2, <3>4, <3>5 DEF SetSecret, Created
  <2> QED
    BY <1>4, <2>2, <2>3, <2>4, <2>5 DEF LoadSecret, GetSecret, StoreFails, credentialVars
<1>5. CASE StopDaemon
  BY <1>1, <1>5 DEF StopDaemon, DaemonGone, Created, Goto, Decodes
<1>6. CASE UNCHANGED vars
  BY <1>2, <1>6 DEF vars, sessionVars
<1>7. Bridge \in Client
  BY DEF Client
<1> QED
  BY <1>3, <1>4, <1>5, <1>6, <1>7 DEF Next

(* At the start the types hold and nobody has a secret.                    *)
LEMMA InitialTypes == Init => TypeOK /\ Created
<1> SUFFICES ASSUME Init PROVE TypeOK /\ Created
  OBVIOUS
<1>1. CredentialTypeOK
  BY DEF Init, SessionInit, CredentialInit, CredentialTypeOK
<1>2. Created
  BY DEF Init, SessionInit, CredentialInit, Created, Process
<1>3. TypeOK
  BY <1>1, SessionAssumption, ClientsAssumption DEF Init, SessionInit, TypeOK, SessionTypeOK, Input
<1> QED
  BY <1>2, <1>3

(* Spec keeps the types of LocalClients, so no request carries the id 0 or *)
(* one beyond the field, also after the counter of IpcQueryClient wrapped. *)
THEOREM ClientTypes == Spec => []TypeOK
BY InitialTypes, TypeStep, CreatedStep, PTL DEF Spec

(* load_or_create gives all processes one secret unless two of them found  *)
(* the store empty at the same time.                                       *)
THEOREM SecretsAreShared == Spec => []SecretIsShared
<1>1. Created => SecretIsShared
  BY DEF Created, SecretIsShared
<1> QED
  BY <1>1, InitialTypes, TypeStep, CreatedStep, PTL DEF Spec

-----------------------------------------------------------------------------
(* Sessions *)

(* The variables that TypeOK does not type are functions of the clients    *)
(* and of the calls.                                                       *)
Shaped ==
    /\ DOMAIN up = Client /\ DOMAIN down = Client /\ DOMAIN tasks = Client
    /\ DOMAIN offered = Client /\ DOMAIN accepted = Client
    /\ DOMAIN outcome = Call

(* Every step keeps them so.                                               *)
LEMMA ShapedStep == Shaped /\ [Next]_vars => Shaped'
<1> SUFFICES ASSUME Shaped, [Next]_vars PROVE Shaped'
  OBVIOUS
<1> USE DEF Shaped, connectionVars, bridgeVars, launcherVars, Send, Received
<1>1. ASSUME NEW p \in Process, LoadSecret(p) PROVE Shaped'
  BY <1>1 DEF LoadSecret
<1>2. ASSUME NEW c \in Client, SetUp(c) PROVE Shaped'
  BY <1>2 DEF SetUp, Inspect, Connect, ReadChallenge, ReadReady, HandshakeFails
<1>3. ASSUME NEW c \in Client, Admit(c) PROVE Shaped'
  BY <1>3 DEF Admit, ReadHello, ReadAuthenticate, ServerHandshakeFails, Reply
<1>4. ASSUME NEW c \in Client, SessionStep(c) PROVE Shaped'
  BY <1>4 DEF SessionStep, ReadRequest, EndTask, EndConnection, OnlyConnection, Reply
<1>5. ASSUME NEW c \in Client, Expire(c) PROVE Shaped'
  BY <1>5 DEF Expire, sessionVars
<1>6. CASE Start
  BY <1>6 DEF Start, StartClient, StartDaemon, Bind, Chmod
<1>7. CASE StopDaemon
  BY <1>7 DEF StopDaemon, DaemonGone
<1>8. CASE BridgeStep
  BY <1>8 DEF BridgeStep, BeginCall, ReadResponse, StreamEnds, ResponseTimeout, Returns, OnlyBridge
<1>9. CASE LauncherStep
  BY <1>9 DEF LauncherStep, RelayDown, ExitLauncher, OnlyLauncher
<1>10. CASE HostStep
  BY <1>10 DEF HostStep, Submit, StopBridge, RelayUp, CloseInput, Returns, OnlyBridge, OnlyLauncher
<1>11. CASE UNCHANGED vars
  BY <1>11 DEF vars, sessionVars
<1> HIDE DEF Shaped
<1> QED
  BY <1>1, <1>2, <1>3, <1>4, <1>5, <1>6, <1>7, <1>8, <1>9, <1>10, <1>11 DEF Next

(* Every step keeps a daemon behind each open connection.                  *)
LEMMA ServedStep == TypeOK /\ Served /\ [Next]_vars => Served'
<1> SUFFICES ASSUME TypeOK, Served, [Next]_vars PROVE Served'
  OBVIOUS
<1>1. /\ pc \in [Process -> {"new", "off", "get", "set", "bind", "chmod", "serving", "inspect",
                            "connect", "challenge", "ready", "live"}]
      /\ srv \in [Client -> {"none", "hello", "authenticate", "serving", "ending", "closed"}]
  BY DEF TypeOK, SessionTypeOK
<1> USE <1>1 DEF Served, connectionVars, Goto, SetSrv
<1>2. ASSUME NEW p \in Process, LoadSecret(p) PROVE Served'
  <2>1. /\ pc[p] \in {"get", "set"} /\ srv' = srv
        /\ pc' = [pc EXCEPT ![p] = pc'[p]]
    BY <1>2 DEF LoadSecret, GetSecret, SetSecret, StoreFails
  <2> QED
    BY <2>1 DEF Process
<1>3. Daemon \in Process /\ Bridge \in Process /\ Launcher \in Process
      /\ Bridge \in Client /\ Launcher \in Client
      /\ \A c \in Client : c \in Process /\ c # Daemon
  BY DEF Process, Client, Daemon, Bridge, Launcher
<1> USE <1>3
<1>4. ASSUME NEW c \in Client, SetUp(c) PROVE Served'
  BY <1>4 DEF SetUp, Inspect, Connect, ReadChallenge, ReadReady, HandshakeFails, Leave, Listening
<1>5. ASSUME NEW c \in Client, Admit(c) PROVE Served'
  BY <1>5 DEF Admit, ReadHello, ReadAuthenticate, ServerHandshakeFails, Reply
<1>6. ASSUME NEW c \in Client, SessionStep(c) PROVE Served'
  BY <1>6 DEF SessionStep, ReadRequest, EndTask, EndConnection, OnlyConnection, Reply
<1>7. ASSUME NEW c \in Client, Expire(c) PROVE Served'
  BY <1>7 DEF Expire, sessionVars
<1>8. CASE Start
  BY <1>8 DEF Start, StartClient, StartDaemon, Bind, Chmod
<1>9. CASE StopDaemon
  BY <1>9 DEF StopDaemon, DaemonGone
<1>10. CASE BridgeStep
  BY <1>10 DEF BridgeStep, BeginCall, ReadResponse, StreamEnds, ResponseTimeout, OnlyBridge
<1>11. CASE LauncherStep
  BY <1>11 DEF LauncherStep, RelayDown, ExitLauncher, Leave, OnlyLauncher
<1>12. CASE HostStep
  BY <1>12 DEF HostStep, Submit, StopBridge, RelayUp, CloseInput, Leave, OnlyBridge, OnlyLauncher
<1>13. CASE UNCHANGED vars
  BY <1>13 DEF vars, sessionVars
<1> HIDE DEF Served
<1> QED
  BY <1>2, <1>4, <1>5, <1>6, <1>7, <1>8, <1>9, <1>10, <1>11, <1>12, <1>13 DEF Next

(* A step that leaves a client and its connection alone, where the secret  *)
(* of the daemon only matters to a connection that it still has.           *)
Untouched(c) ==
    /\ pc'[c] = pc[c] /\ secret'[c] = secret[c] /\ protocol'[c] = protocol[c]
    /\ srv'[c] = srv[c] /\ up'[c] = up[c] /\ down'[c] = down[c] /\ sending'[c] = sending[c]
    /\ offered'[c] = offered[c] /\ accepted'[c] = accepted[c] /\ tasks'[c] = tasks[c]
    /\ secret'[Daemon] = secret[Daemon] \/ srv[c] \in {"none", "closed"}

(* Such a step keeps the client and the daemon in phase.                   *)
LEMMA UntouchedPhase ==
    ASSUME NEW c \in Client, Phase(c), Untouched(c)
    PROVE  Phase(c)'
<1> USE DEF Untouched
<1>1. Agreed(c)' = Agreed(c) /\ HelloFrame(c)' = HelloFrame(c)
  BY DEF Agreed, Transcript, HelloFrame, Hello
<1>2. Unconnected(c) => Unconnected(c)'
  BY DEF Unconnected
<1>3. srv[c] \notin {"none", "closed"} =>
        /\ Challenge(c, Agreed(c))' = Challenge(c, Agreed(c))
        /\ Authenticate(c, Agreed(c))' = Authenticate(c, Agreed(c))
        /\ Trusts(c) => Trusts(c)'
  BY <1>1 DEF Challenge, Authenticate, Proof, Trusts
<1>4. Ready(Agreed(c))' = Ready(Agreed(c))
  BY <1>1 DEF Ready
<1> HIDE DEF Agreed, HelloFrame, Challenge, Authenticate, Trusts, Ready
<1>5. Challenged(c) => Challenged(c)'
  BY <1>1, <1>3 DEF Challenged
<1>6. Proven(c) => Proven(c)'
  BY <1>1, <1>3, <1>4 DEF Proven
<1>7. Admitted(c) => Admitted(c)'
  BY <1>3 DEF Admitted
<1> QED
  BY <1>2, <1>5, <1>6, <1>7 DEF Phase

(* The client's own steps up to its session.                               *)
LEMMA SetUpPhase ==
    ASSUME TypeOK, Shaped, NEW c \in Client, Phase(c), SetUp(c)
    PROVE  Phase(c)'
<1>1. /\ c \in Process /\ c # Daemon
      /\ pc \in [Process -> {"new", "off", "get", "set", "bind", "chmod", "serving", "inspect",
                            "connect", "challenge", "ready", "live"}]
      /\ srv \in [Client -> {"none", "hello", "authenticate", "serving", "ending", "closed"}]
      /\ sending \in [Client -> BOOLEAN]
  BY DEF TypeOK, SessionTypeOK, Process, Client, Daemon, Bridge, Launcher
<1>2. /\ c \in DOMAIN up /\ c \in DOMAIN down /\ c \in DOMAIN tasks
      /\ c \in DOMAIN offered /\ c \in DOMAIN accepted
  BY DEF Shaped
<1>3. UNCHANGED <<secret, protocol, tasks>>
  BY DEF SetUp, Inspect, Connect, ReadChallenge, ReadReady, HandshakeFails, credentialVars
<1>4. Agreed(c)' = Agreed(c) /\ HelloFrame(c)' = HelloFrame(c)
  BY <1>3 DEF Agreed, Transcript, HelloFrame, Hello
<1>5. ASSUME pc'[c] = "off" PROVE Phase(c)'
  BY <1>5 DEF Phase
<1>6. CASE Inspect(c)
  <2>1. /\ pc[c] = "inspect" /\ pc'[c] \in {"connect", "off"}
        /\ UNCHANGED <<srv, up, down>>
    BY <1>1, <1>6 DEF Inspect, Goto, connectionVars
  <2>2. Unconnected(c)'
    BY <1>3, <2>1 DEF Phase, Unconnected
  <2> QED
    BY <2>1, <2>2 DEF Phase
<1>7. CASE Connect(c)
  <2>1. pc[c] = "connect" /\ Unconnected(c)
    BY <1>7 DEF Connect, Phase
  <2>2. CASE Listening
    <3>1. /\ pc'[c] = "challenge" /\ srv'[c] = "hello" /\ sending'[c] = TRUE
          /\ up'[c] = Append(up[c], HelloFrame(c)) /\ down'[c] = down[c]
      BY <1>1, <1>2, <1>7, <2>2 DEF Connect, Goto, SetSrv, Send
    <3>2. up'[c] = <<HelloFrame(c)>>
      BY <2>1, <3>1, OneFrame DEF Unconnected
    <3>3. Challenged(c)'
      BY <1>3, <1>4, <2>1, <3>1, <3>2 DEF Challenged, Unconnected
    <3> QED
      BY <3>1, <3>3 DEF Phase
  <2>3. CASE ~Listening
    BY <1>1, <1>5, <1>7, <2>3 DEF Connect, Goto
  <2> QED
    BY <2>2, <2>3
<1>8. CASE ReadChallenge(c)
  <2> DEFINE frame == Head(down[c])
             transcript == Transcript(Hello(c), frame.session, frame.nonce)
             good == /\ frame.type = "challenge"
                     /\ frame.protocol = protocol[c]
                     /\ frame.proof = Proof(secret[c], "server", transcript)
                     /\ srv[c] # "closed"
  <2>1. pc[c] = "challenge" /\ Challenged(c) /\ down[c] # <<>>
    BY <1>8 DEF ReadChallenge, Phase
  <2>2. ASSUME good PROVE Phase(c)'
    <3>1. /\ srv[c] = "authenticate" /\ up[c] = <<>> /\ offered[c] = Agreed(c)
          /\ down[c] = <<Challenge(c, Agreed(c))>> /\ protocol[c] = PROTOCOL_VERSION
          /\ sending[c] /\ tasks[c] = {}
      BY <2>1, <2>2 DEF Challenged
    <3>2. frame = Challenge(c, Agreed(c)) /\ Tail(down[c]) = <<>>
      BY <3>1, OneFrame
    <3>3. transcript = Agreed(c)
      <4>1. Agreed(c).session = <<"session", c>> /\ Agreed(c).nonce = <<"server nonce", c>>
        BY DEF Agreed, Transcript
      <4>2. frame.session = Agreed(c).session /\ frame.nonce = Agreed(c).nonce
        BY <3>2 DEF Challenge
      <4> HIDE DEF frame
      <4> QED
        BY <4>1, <4>2 DEF Agreed
    <3>4. secret[c] = secret[Daemon]
      BY <2>2, <3>2, <3>3 DEF Challenge, Proof
    <3>5. /\ accepted'[c] = transcript /\ up'[c] = Append(up[c], Authenticate(c, transcript))
          /\ pc'[c] = "ready" /\ sending'[c] = sending[c] /\ down'[c] = Tail(down[c])
          /\ srv'[c] = srv[c] /\ offered'[c] = offered[c]
      BY <1>1, <1>2, <1>8, <2>2 DEF ReadChallenge, Goto, Send, Received, Leave
    <3>6. up'[c] = <<Authenticate(c, Agreed(c))>>
      BY <3>1, <3>3, <3>5, OneFrame
    <3>7. Authenticate(c, Agreed(c))' = Authenticate(c, Agreed(c)) /\ Trusts(c)'
      BY <1>3, <1>4, <3>1, <3>4 DEF Authenticate, Trusts
    <3> HIDE DEF frame, transcript, good
    <3>8. Proven(c)'
      BY <1>3, <1>4, <3>1, <3>2, <3>3, <3>5, <3>6, <3>7 DEF Proven
    <3> QED
      BY <3>5, <3>8 DEF Phase
  <2>3. ASSUME ~good PROVE Phase(c)'
    BY <1>1, <1>5, <1>8, <2>3 DEF ReadChallenge, Goto, Leave
  <2> QED
    BY <2>2, <2>3
<1>9. CASE ReadReady(c)
  <2>1. pc[c] = "ready" /\ Proven(c) /\ down[c] # <<>>
    BY <1>9 DEF ReadReady, Phase
  <2>2. pc'[c] \in {"live", "off"} /\ UNCHANGED <<srv, offered, accepted>>
    BY <1>1, <1>9 DEF ReadReady, Goto, Leave
  <2>3. Admitted(c)'
    BY <1>3, <2>1, <2>2 DEF Proven, Admitted, Trusts
  <2> QED
    BY <2>2, <2>3 DEF Phase
<1>10. CASE HandshakeFails(c)
  BY <1>1, <1>5, <1>10 DEF HandshakeFails, Leave, Goto
<1> QED
  BY <1>6, <1>7, <1>8, <1>9, <1>10 DEF SetUp

(* The daemon's steps in the handshake.                                    *)
LEMMA AdmitPhase ==
    ASSUME TypeOK, Shaped, NEW c \in Client, Phase(c), Admit(c)
    PROVE  Phase(c)'
<1>1. srv \in [Client -> {"none", "hello", "authenticate", "serving", "ending", "closed"}]
  BY DEF TypeOK, SessionTypeOK
<1>2. c \in DOMAIN up /\ c \in DOMAIN down /\ c \in DOMAIN offered
  BY DEF Shaped
<1>3. UNCHANGED <<pc, secret, protocol, tasks, sending, accepted>>
  BY DEF Admit, ReadHello, ReadAuthenticate, ServerHandshakeFails, credentialVars
<1>4. Agreed(c)' = Agreed(c) /\ HelloFrame(c)' = HelloFrame(c)
  BY <1>3 DEF Agreed, Transcript, HelloFrame, Hello
<1>5. srv[c] \in {"hello", "authenticate"}
  BY DEF Admit, ReadHello, ReadAuthenticate, ServerHandshakeFails
<1>6. pc[c] \notin {"new", "get", "set", "inspect", "connect", "live"}
  BY <1>5 DEF Phase, Unconnected, Admitted
<1>7. ASSUME pc[c] = "challenge" => Challenged(c)', pc[c] = "ready" => Proven(c)'
      PROVE  Phase(c)'
  BY <1>3, <1>6, <1>7 DEF Phase
<1>8. CASE ReadHello(c)
  <2>1. srv[c] = "hello"
    BY <1>8 DEF ReadHello
  <2>2. pc[c] # "ready"
    BY <2>1 DEF Phase, Proven
  <2>3. ASSUME pc[c] = "challenge" PROVE Challenged(c)'
    <3>1. up[c] = <<HelloFrame(c)>> /\ down[c] = <<>> /\ sending[c] /\ tasks[c] = {}
      BY <2>1, <2>3 DEF Phase, Challenged
    <3>2. Present(c)
      BY <2>3 DEF Present
    <3>3. Head(up[c]) = HelloFrame(c) /\ Tail(up[c]) = <<>>
      BY <3>1, OneFrame
    <3>4. Head(up[c]).hello = Hello(c)
      BY <3>3 DEF HelloFrame
    <3>5. Hello(c).protocol = protocol[c]
      BY DEF Hello
    <3>6. up'[c] = <<>>
      BY <1>2, <1>8, <3>3 DEF ReadHello, Received
    <3>7. CASE protocol[c] = PROTOCOL_VERSION
      <4>1. offered' = [offered EXCEPT ![c] = Agreed(c)] /\ Reply(c, Challenge(c, Agreed(c)), "authenticate")
        BY <1>8, <3>4, <3>5, <3>7 DEF ReadHello, Agreed
      <4>2. offered'[c] = Agreed(c) /\ srv'[c] = "authenticate"
        BY <1>1, <1>2, <3>2, <4>1 DEF Reply, SetSrv
      <4>3. down'[c] = Append(<<>>, Challenge(c, Agreed(c)))
        BY <1>2, <3>1, <3>2, <4>1 DEF Reply, Send
      <4>4. down'[c] = <<Challenge(c, Agreed(c))>>
        BY <4>3, OneFrame
      <4>5. Challenge(c, Agreed(c))' = Challenge(c, Agreed(c))
        BY <1>3, <1>4 DEF Challenge, Proof
      <4> QED
        BY <1>3, <1>4, <3>1, <3>6, <3>7, <4>2, <4>4, <4>5 DEF Challenged
    <3>8. CASE protocol[c] # PROTOCOL_VERSION
      <4>1. srv'[c] = "closed"
        BY <1>1, <1>8, <3>4, <3>5, <3>8 DEF ReadHello, Reply, SetSrv
      <4> QED
        BY <1>3, <3>1, <4>1 DEF Challenged
    <3> QED
      BY <3>7, <3>8
  <2> QED
    BY <1>7, <2>2, <2>3
<1>9. CASE ReadAuthenticate(c)
  <2>1. srv[c] = "authenticate" /\ up[c] # <<>>
    BY <1>9 DEF ReadAuthenticate
  <2>2. pc[c] # "challenge"
    BY <2>1 DEF Phase, Challenged
  <2>3. ASSUME pc[c] = "ready" PROVE Proven(c)'
    <3>1. /\ up[c] = <<Authenticate(c, Agreed(c))>> /\ down[c] = <<>> /\ Trusts(c)
          /\ offered[c] = Agreed(c) /\ accepted[c] = Agreed(c) /\ sending[c] /\ tasks[c] = {}
      BY <2>1, <2>3 DEF Phase, Proven
    <3>2. Head(up[c]) = Authenticate(c, Agreed(c)) /\ Tail(up[c]) = <<>>
      BY <3>1, OneFrame
    <3>3. /\ Head(up[c]).session = offered[c].session
          /\ Head(up[c]).proof = Proof(secret[Daemon], "client", offered[c])
      BY <3>1, <3>2 DEF Authenticate, Trusts
    <3>4. Reply(c, Ready(Agreed(c)), "serving") /\ up'[c] = <<>> /\ offered' = offered
      BY <1>2, <1>9, <3>1, <3>2, <3>3 DEF ReadAuthenticate, Received
    <3>5. Present(c)
      BY <2>3 DEF Present
    <3>6. srv'[c] = "serving" /\ down'[c] = Append(<<>>, Ready(Agreed(c)))
      BY <1>1, <1>2, <3>1, <3>4, <3>5 DEF Reply, SetSrv, Send
    <3>7. down'[c] = <<Ready(Agreed(c))>>
      BY <3>6, OneFrame
    <3>8. Trusts(c)' /\ Ready(Agreed(c))' = Ready(Agreed(c))
      BY <1>3, <1>4, <3>1 DEF Trusts, Ready
    <3> QED
      BY <1>3, <1>4, <3>1, <3>4, <3>6, <3>7, <3>8 DEF Proven
  <2> QED
    BY <1>7, <2>2, <2>3
<1>10. CASE ServerHandshakeFails(c)
  <2>1. srv'[c] = "closed" /\ UNCHANGED <<up, down, offered>>
    BY <1>1, <1>10 DEF ServerHandshakeFails, SetSrv
  <2>2. pc[c] = "challenge" => Challenged(c)'
    BY <1>3, <2>1 DEF Phase, Challenged
  <2>3. pc[c] = "ready" => Proven(c)'
    BY <1>3, <1>4, <1>5, <2>1 DEF Phase, Proven
  <2> QED
    BY <1>7, <2>2, <2>3
<1> QED
  BY <1>8, <1>9, <1>10 DEF Admit

(* The daemon's steps in a session that it has admitted.                   *)
LEMMA SessionPhase ==
    ASSUME TypeOK, Shaped, NEW c \in Client, Phase(c), SessionStep(c)
    PROVE  Phase(c)'
<1>1. srv \in [Client -> {"none", "hello", "authenticate", "serving", "ending", "closed"}]
  BY DEF TypeOK, SessionTypeOK
<1>2. UNCHANGED <<pc, secret, protocol, sending, offered, accepted>>
  BY DEF SessionStep, ReadRequest, EndTask, EndConnection, OnlyConnection, credentialVars
<1>3. \/ tasks[c] # {}
      \/ srv[c] = "serving" /\ (up[c] # <<>> \/ ~sending[c])
      \/ srv[c] = "ending"
  BY DEF SessionStep, ReadRequest, EndTask, EndConnection
<1>4. pc[c] \notin {"new", "get", "set", "inspect", "connect", "challenge", "ready"}
  BY <1>3 DEF Phase, Unconnected, Challenged, Proven
<1>5. \/ srv'[c] = srv[c]
      \/ srv[c] \in {"serving", "ending"} /\ srv'[c] \in {"serving", "ending", "closed"}
  BY <1>1 DEF SessionStep, ReadRequest, EndTask, EndConnection, Reply, SetSrv
<1>6. Admitted(c) => Admitted(c)'
  BY <1>2, <1>5 DEF Admitted, Trusts
<1> QED
  BY <1>2, <1>4, <1>6 DEF Phase

(* Every step of any process keeps the two sides of a session in phase.    *)
LEMMA PhaseStep ==
    ASSUME TypeOK, Shaped, Served, NEW c \in Client, Phase(c), [Next]_vars
    PROVE  Phase(c)'
<1>1. /\ pc \in [Process -> {"new", "off", "get", "set", "bind", "chmod", "serving", "inspect",
                            "connect", "challenge", "ready", "live"}]
      /\ srv \in [Client -> {"none", "hello", "authenticate", "serving", "ending", "closed"}]
      /\ sending \in [Client -> BOOLEAN]
      /\ secret \in [Process -> Secret \cup {NoSecret}]
  BY DEF TypeOK, SessionTypeOK, CredentialTypeOK
<1>2. /\ DOMAIN up = Client /\ DOMAIN down = Client /\ DOMAIN tasks = Client
      /\ DOMAIN offered = Client /\ DOMAIN accepted = Client
  BY DEF Shaped
<1>3. /\ Daemon \in Process /\ Bridge \in Process /\ Launcher \in Process
      /\ Bridge \in Client /\ Launcher \in Client /\ Bridge # Launcher
      /\ \A d \in Client : d \in Process /\ d # Daemon
  BY DEF Process, Client, Daemon, Bridge, Launcher
<1>4. ASSUME Unconnected(c), Unconnected(c)', pc'[c] \notin {"challenge", "ready", "live"}
      PROVE  Phase(c)'
  BY <1>4 DEF Phase
<1>5. ASSUME pc[c] = "live", pc'[c] \in {"live", "off"},
             UNCHANGED <<secret, protocol, srv, offered, accepted>>
      PROVE  Phase(c)'
  BY <1>5 DEF Phase, Admitted, Trusts
<1>6. ASSUME NEW p \in Process, LoadSecret(p) PROVE Phase(c)'
  <2>1. /\ pc[p] \in {"get", "set"} /\ pc'[p] \in {"off", "set", "bind", "inspect"}
        /\ pc' = [pc EXCEPT ![p] = pc'[p]]
        /\ secret' = secret \/ secret' = [secret EXCEPT ![p] = secret'[p]]
    BY <1>1, <1>6 DEF LoadSecret, GetSecret, SetSecret, StoreFails, AfterSecret, Goto, credentialVars
  <2>2. UNCHANGED <<protocol, srv, up, down, sending, offered, accepted, tasks>>
    BY <1>6 DEF LoadSecret, connectionVars
  <2>3. CASE p = c
    <3>1. Unconnected(c) /\ Unconnected(c)'
      BY <2>1, <2>2, <2>3 DEF Phase, Unconnected
    <3> QED
      BY <1>4, <2>1, <2>3, <3>1
  <2>4. CASE p # c
    <3>1. secret'[Daemon] = secret[Daemon] \/ srv[c] \in {"none", "closed"}
      BY <1>1, <1>3, <2>1 DEF Served
    <3>2. Untouched(c)
      BY <1>1, <1>3, <2>1, <2>2, <2>4, <3>1 DEF Untouched
    <3> QED
      BY <3>2, UntouchedPhase
  <2> QED
    BY <2>3, <2>4
<1>7. ASSUME NEW d \in Client, SetUp(d) PROVE Phase(c)'
  <2>1. ASSUME d # c PROVE Untouched(c)
    BY <1>1, <1>2, <1>3, <1>7, <2>1
       DEF Untouched, SetUp, Inspect, Connect, ReadChallenge, ReadReady, HandshakeFails, Leave, Goto,
           SetSrv, Send, Received, credentialVars, connectionVars
  <2> QED
    BY <1>7, <2>1, SetUpPhase, UntouchedPhase
<1>8. ASSUME NEW d \in Client, Admit(d) PROVE Phase(c)'
  <2>1. ASSUME d # c PROVE Untouched(c)
    BY <1>1, <1>2, <1>8, <2>1
       DEF Untouched, Admit, ReadHello, ReadAuthenticate, ServerHandshakeFails, Reply, SetSrv, Send,
           Received, credentialVars
  <2> QED
    BY <1>8, <2>1, AdmitPhase, UntouchedPhase
<1>9. ASSUME NEW d \in Client, SessionStep(d) PROVE Phase(c)'
  <2>1. ASSUME d # c PROVE Untouched(c)
    BY <1>1, <1>2, <1>9, <2>1
       DEF Untouched, SessionStep, ReadRequest, EndTask, EndConnection, OnlyConnection, Reply, SetSrv,
           Send, Received, credentialVars
  <2> QED
    BY <1>9, <2>1, SessionPhase, UntouchedPhase
<1>10. ASSUME NEW d \in Client, Expire(d) PROVE Phase(c)'
  <2>1. Untouched(c)
    BY <1>10 DEF Expire, Untouched, sessionVars, credentialVars, connectionVars
  <2> QED
    BY <2>1, UntouchedPhase
<1>11. CASE Start
  <2>1. UNCHANGED <<secret, protocol, srv, up, down, sending, offered, accepted, tasks>>
    BY <1>11 DEF Start, StartClient, StartDaemon, Bind, Chmod, credentialVars, connectionVars
  <2>2. pc'[c] = pc[c] \/ (pc[c] = "new" /\ pc'[c] = "get")
    BY <1>1, <1>3, <1>11 DEF Start, StartClient, StartDaemon, Bind, Chmod, Goto
  <2>3. CASE pc'[c] = pc[c]
    BY <2>1, <2>3, UntouchedPhase DEF Untouched
  <2>4. CASE pc[c] = "new" /\ pc'[c] = "get"
    BY <1>4, <2>1, <2>4 DEF Phase, Unconnected
  <2> QED
    BY <2>2, <2>3, <2>4
<1>12. CASE StopDaemon
  <2>1. /\ pc'[c] = pc[c] /\ secret'[c] = secret[c] /\ protocol' = protocol
        /\ srv'[c] = (IF srv[c] = "none" THEN "none" ELSE "closed")
        /\ up'[c] = <<>> /\ tasks'[c] = {} /\ UNCHANGED <<down, sending, offered, accepted>>
    BY <1>1, <1>3, <1>12 DEF StopDaemon, DaemonGone, Goto
  <2>2. Agreed(c)' = Agreed(c)
    BY <2>1 DEF Agreed, Transcript, Hello
  <2>3. Unconnected(c) => Unconnected(c)'
    BY <2>1 DEF Unconnected
  <2>4. Challenged(c) => Challenged(c)'
    BY <2>1 DEF Challenged
  <2>5. Proven(c) => Proven(c)'
    <3>1. Ready(Agreed(c))' = Ready(Agreed(c))
      BY <2>2 DEF Ready
    <3> QED
      BY <2>1, <2>2, <3>1 DEF Proven
  <2>6. Admitted(c) => Admitted(c)'
    BY <2>1 DEF Admitted
  <2> QED
    BY <2>1, <2>3, <2>4, <2>5, <2>6 DEF Phase
<1>13. ASSUME BridgeStep \/ (\E k \in Call, what \in Input : Submit(k, what)) \/ StopBridge
       PROVE  Phase(c)'
  <2>1. /\ pc[Bridge] = "live" /\ pc'[Bridge] \in {"live", "off"} /\ pc'[Launcher] = pc[Launcher]
        /\ UNCHANGED <<secret, protocol, srv, offered, accepted, tasks>>
        /\ up'[Launcher] = up[Launcher] /\ down'[Launcher] = down[Launcher]
        /\ sending'[Launcher] = sending[Launcher]
    BY <1>1, <1>2, <1>3, <1>13
       DEF BridgeStep, BeginCall, ReadResponse, StreamEnds, ResponseTimeout, Submit, StopBridge, Leave,
           Goto, Send, Received, OnlyBridge, credentialVars
  <2>2. ASSUME c = Launcher PROVE Untouched(c)
    BY <2>1, <2>2 DEF Untouched
  <2> QED
    BY <1>5, <2>1, <2>2, UntouchedPhase DEF Client
<1>14. ASSUME LauncherStep \/ RelayUp \/ CloseInput PROVE Phase(c)'
  <2>1. /\ pc[Launcher] = "live" /\ pc'[Launcher] \in {"live", "off"} /\ pc'[Bridge] = pc[Bridge]
        /\ UNCHANGED <<secret, protocol, srv, offered, accepted, tasks>>
        /\ up'[Bridge] = up[Bridge] /\ down'[Bridge] = down[Bridge]
        /\ sending'[Bridge] = sending[Bridge]
    BY <1>1, <1>2, <1>3, <1>14
       DEF LauncherStep, RelayDown, ExitLauncher, RelayUp, CloseInput, Leave, Goto, Send, Received,
           OnlyLauncher, credentialVars
  <2>2. ASSUME c = Bridge PROVE Untouched(c)
    BY <2>1, <2>2 DEF Untouched
  <2> QED
    BY <1>5, <2>1, <2>2, UntouchedPhase DEF Client
<1>15. CASE UNCHANGED vars
  BY <1>15, UntouchedPhase DEF Untouched, vars, sessionVars, credentialVars, connectionVars
<1> QED
  BY <1>6, <1>7, <1>8, <1>9, <1>10, <1>11, <1>12, <1>13, <1>14, <1>15 DEF Next, HostStep

(* What holds of the sessions in every state.                              *)
SessionInv ==
    /\ TypeOK /\ Created /\ Shaped /\ Served
    /\ \A c \in Client : Phase(c)

(* It holds at the start, and every step keeps it.                         *)
LEMMA SessionInvariant == Spec => []SessionInv
<1>1. Init => SessionInv
  <2> SUFFICES ASSUME Init PROVE SessionInv
    OBVIOUS
  <2>1. Shaped /\ Served
    BY DEF Init, SessionInit, Shaped, Served
  <2>2. \A c \in Client : Phase(c)
    BY DEF Init, SessionInit, Phase, Unconnected, Process, Client, Daemon, Bridge, Launcher
  <2> QED
    BY <2>1, <2>2, InitialTypes DEF SessionInv
<1>2. SessionInv /\ [Next]_vars => SessionInv'
  BY TypeStep, CreatedStep, ShapedStep, ServedStep, PhaseStep DEF SessionInv
<1> QED
  BY <1>1, <1>2, PTL DEF Spec

(* authenticate_client and authenticate_server only come to a session with *)
(* a peer of the same secret and protocol that means the same session.     *)
THEOREM HandshakesAgree == Spec => []SessionsAgree
<1>1. SessionInv => SessionsAgree
  <2> SUFFICES ASSUME SessionInv, NEW c \in Client
               PROVE  /\ pc[c] \in {"ready", "live"} =>
                            /\ accepted[c] = offered[c]
                            /\ srv[c] # "closed" =>
                                  secret[c] = secret[Daemon] /\ protocol[c] = PROTOCOL_VERSION
                      /\ pc[c] = "live" => srv[c] \in {"serving", "ending", "closed"}
                      /\ pc[c] = "ready" /\ down[c] # <<>> => Head(down[c]) = Ready(accepted[c])
    BY DEF SessionsAgree
  <2>1. (pc[c] = "ready" => Proven(c)) /\ (pc[c] = "live" => Admitted(c))
    BY DEF SessionInv, Phase
  <2>2. Proven(c) => accepted[c] = offered[c] /\ (srv[c] # "closed" => Trusts(c))
    BY DEF Proven
  <2>3. Admitted(c) => /\ accepted[c] = offered[c] /\ (srv[c] # "closed" => Trusts(c))
                       /\ srv[c] \in {"serving", "ending", "closed"}
    BY DEF Admitted
  <2>4. Proven(c) /\ down[c] # <<>> => Head(down[c]) = Ready(accepted[c])
    BY OneFrame DEF Proven
  <2> QED
    BY <2>1, <2>2, <2>3, <2>4 DEF Trusts
<1> QED
  BY <1>1, SessionInvariant, PTL

-----------------------------------------------------------------------------
(* The bridge *)

(* Steps that are not the bridge's own calls: where it stands afterwards,  *)
(* and that its connection is left alone while it is live.                 *)
Aside ==
    /\ UNCHANGED bridgeVars
    /\ pc[Bridge] \in {"live", "off"} => pc'[Bridge] \in {"live", "off"}
    /\ pc'[Bridge] = "live" =>
          /\ pc[Bridge] = "live"
          /\ up'[Bridge] = up[Bridge] /\ down'[Bridge] = down[Bridge]
          /\ tasks'[Bridge] = tasks[Bridge]

(* These are all steps but those of its calls and of its admission, since  *)
(* a bridge that is live has left the handshake behind.                    *)
LEMMA AsideSteps ==
    ASSUME SessionInv, NEW c \in Client,
           \/ \E p \in Process : LoadSecret(p)
           \/ SetUp(c) /\ (c = Bridge => ~ReadReady(c))
           \/ Admit(c)
           \/ SessionStep(c) /\ c # Bridge
           \/ EndConnection(c) \/ Expire(c)
           \/ Start \/ LauncherStep \/ StopBridge \/ RelayUp \/ CloseInput
           \/ UNCHANGED vars
    PROVE  Aside
<1>1. /\ pc \in [Process -> {"new", "off", "get", "set", "bind", "chmod", "serving", "inspect",
                            "connect", "challenge", "ready", "live"}]
      /\ DOMAIN up = Client /\ DOMAIN down = Client /\ DOMAIN tasks = Client
  BY DEF SessionInv, TypeOK, Shaped
<1>2. /\ Daemon \in Process /\ Bridge \in Process /\ Launcher \in Process
      /\ Bridge \in Client /\ Launcher \in Client /\ Bridge # Launcher
      /\ \A d \in Client : d \in Process /\ d # Daemon
  BY DEF Process, Client, Daemon, Bridge, Launcher
<1> USE <1>1, <1>2 DEF Aside, Goto, connectionVars, Send, Received
<1>3. ASSUME NEW p \in Process, LoadSecret(p) PROVE Aside
  <2>1. /\ UNCHANGED <<bridgeVars, up, down, tasks>> /\ pc[p] \in {"get", "set"}
        /\ pc'[p] \in {"off", "set", "bind", "inspect"} /\ pc' = [pc EXCEPT ![p] = pc'[p]]
    BY <1>3 DEF LoadSecret, GetSecret, SetSecret, StoreFails, AfterSecret
  <2> QED
    BY <2>1
<1>4. ASSUME SetUp(c), c = Bridge => ~ReadReady(c) PROVE Aside
  <2>1. /\ UNCHANGED <<bridgeVars, tasks>>
        /\ pc[c] \in {"inspect", "connect", "challenge", "ready"}
        /\ pc'[c] # "live" \/ ReadReady(c)
        /\ pc' = [pc EXCEPT ![c] = pc'[c]]
    BY <1>4 DEF SetUp, Inspect, Connect, ReadChallenge, ReadReady, HandshakeFails, Leave
  <2>2. c # Bridge => up'[Bridge] = up[Bridge] /\ down'[Bridge] = down[Bridge]
    BY <1>4 DEF SetUp, Inspect, Connect, ReadChallenge, ReadReady, HandshakeFails
  <2> QED
    BY <1>4, <2>1, <2>2
<1>5. ASSUME Admit(c) PROVE Aside
  <2>1. UNCHANGED <<bridgeVars, tasks, pc>> /\ srv[c] \in {"hello", "authenticate"}
    BY <1>5 DEF Admit, ReadHello, ReadAuthenticate, ServerHandshakeFails
  <2>2. c = Bridge => pc[Bridge] # "live"
    BY <2>1 DEF SessionInv, Phase, Admitted
  <2>3. c # Bridge => up'[Bridge] = up[Bridge] /\ down'[Bridge] = down[Bridge]
    BY <1>5 DEF Admit, ReadHello, ReadAuthenticate, ServerHandshakeFails, Reply
  <2> QED
    BY <2>1, <2>2, <2>3
<1>6. ASSUME SessionStep(c), c # Bridge PROVE Aside
  BY <1>6 DEF SessionStep, ReadRequest, EndTask, EndConnection, OnlyConnection, Reply, bridgeVars
<1>7. ASSUME EndConnection(c) PROVE Aside
  BY <1>7 DEF EndConnection, OnlyConnection, bridgeVars
<1>8. ASSUME Expire(c) PROVE Aside
  BY <1>8 DEF Expire, sessionVars
<1>9. CASE Start
  BY <1>9 DEF Start, StartClient, StartDaemon, Bind, Chmod
<1>10. CASE LauncherStep
  BY <1>10 DEF LauncherStep, RelayDown, ExitLauncher, Leave, OnlyLauncher
<1>11. CASE StopBridge
  BY <1>11 DEF StopBridge, Leave
<1>12. CASE RelayUp \/ CloseInput
  BY <1>12 DEF RelayUp, CloseInput, Leave, OnlyLauncher
<1>13. CASE UNCHANGED vars
  BY <1>13 DEF vars, sessionVars
<1> HIDE DEF Aside
<1> QED
  BY <1>3, <1>4, <1>5, <1>6, <1>7, <1>8, <1>9, <1>10, <1>11, <1>12, <1>13

(* Every other step is one of these.                                       *)
LEMMA BridgeCases ==
    ASSUME SessionInv, [Next]_vars
    PROVE  \/ Aside
           \/ ReadReady(Bridge) /\ UNCHANGED <<bridgeVars, tasks>>
           \/ ReadRequest(Bridge)
           \/ \E id \in tasks[Bridge] : EndTask(Bridge, id)
           \/ StopDaemon
           \/ BridgeStep
           \/ \E k \in Call, what \in Input : Submit(k, what)
<1>1. Bridge \in Client
  BY DEF Client
<1>2. ASSUME NEW c \in Client, SetUp(c)
      PROVE  Aside \/ (ReadReady(Bridge) /\ UNCHANGED <<bridgeVars, tasks>>)
  BY <1>2, AsideSteps DEF SetUp
<1>3. ASSUME NEW c \in Client, SessionStep(c)
      PROVE  \/ Aside \/ ReadRequest(Bridge)
             \/ \E id \in tasks[Bridge] : EndTask(Bridge, id)
  BY <1>3, AsideSteps DEF SessionStep
<1> QED
  BY <1>1, <1>2, <1>3, AsideSteps DEF Next, HostStep

(* What the queue and the outcomes need is kept by every step.             *)
LEMMA QueuedStep == SessionInv /\ Queued /\ [Next]_vars => Queued'
<1> SUFFICES ASSUME SessionInv, Queued, [Next]_vars PROVE Queued'
  OBVIOUS
<1>1. /\ call \in [Call -> {"new", "waiting", "writing", "sent", "returned"}]
      /\ waiting \in Seq(Call) /\ DOMAIN outcome = Call
      /\ pc \in [Process -> {"new", "off", "get", "set", "bind", "chmod", "serving", "inspect",
                            "connect", "challenge", "ready", "live"}]
  BY DEF SessionInv, TypeOK, Shaped
<1>2. Bridge \in Process /\ Bridge # Daemon
  BY DEF Process, Client, Daemon, Bridge
<1>3. ASSUME Aside PROVE Queued'
  BY <1>3 DEF Aside, Queued, bridgeVars
<1>4. ASSUME ReadReady(Bridge), UNCHANGED bridgeVars PROVE Queued'
  <2>1. pc'[Bridge] \in {"live", "off"}
    BY <1>1, <1>2, <1>4 DEF ReadReady, Goto, Leave
  <2> QED
    BY <1>4, <2>1 DEF Queued, bridgeVars
<1>5. ASSUME ReadRequest(Bridge) PROVE Queued'
  <2>1. /\ call' = [k \in Call |-> IF call[k] = "writing" THEN "sent" ELSE call[k]]
        /\ UNCHANGED <<pc, waiting, outcome, usable>>
    BY <1>5 DEF ReadRequest, Written, OnlyConnection
  <2>2. \A i \in 1..Len(waiting) : waiting[i] \in Call
    BY <1>1
  <2>3. \A i \in 1..Len(waiting) : call'[waiting[i]] = "waiting"
    BY <2>1, <2>2 DEF Queued
  <2>4. \A l \in Call : /\ outcome[l] # "none" => call'[l] = "returned"
                        /\ call[l] = "new" => call'[l] = "new"
    BY <2>1 DEF Queued
  <2> QED
    BY <2>1, <2>3, <2>4 DEF Queued
<1>6. ASSUME NEW id \in tasks[Bridge], EndTask(Bridge, id) PROVE Queued'
  BY <1>6 DEF EndTask, OnlyConnection, Queued
<1>7. ASSUME StopDaemon PROVE Queued'
  <2>1. UNCHANGED bridgeVars /\ pc'[Bridge] = pc[Bridge]
    BY <1>1, <1>2, <1>7 DEF StopDaemon, DaemonGone, Goto
  <2> QED
    BY <2>1 DEF Queued, bridgeVars
<1>8. ASSUME NEW k \in Call, NEW what \in Input, Submit(k, what) PROVE Queued'
  <2>1. pc[Bridge] = "live" /\ pc' = pc /\ call[k] = "new"
    BY <1>8 DEF Submit
  <2>2. \A i \in 1..Len(waiting) : waiting[i] \in Call /\ waiting[i] # k
    BY <1>1, <2>1 DEF Queued
  <2>3. CASE what = Invalid
    <3>1. Returns(k, "invalid params") /\ waiting' = waiting
      BY <1>8, <2>3 DEF Submit
    <3>2. /\ \A l \in Call : l # k => call'[l] = call[l] /\ outcome'[l] = outcome[l]
          /\ call'[k] = "returned"
      BY <1>1, <3>1 DEF Returns
    <3>3. \A i \in 1..Len(waiting') : call'[waiting'[i]] = "waiting"
      BY <2>2, <3>1, <3>2 DEF Queued
    <3>4. \A i, j \in 1..Len(waiting') : waiting'[i] = waiting'[j] => i = j
      BY <3>1 DEF Queued
    <3>5. \A l \in Call : outcome'[l] # "none" => call'[l] = "returned"
      BY <3>2 DEF Queued
    <3> QED
      BY <2>1, <3>3, <3>4, <3>5 DEF Queued
  <2>4. CASE what # Invalid
    <3>1. /\ call' = [call EXCEPT ![k] = "waiting"] /\ waiting' = Append(waiting, k)
          /\ outcome' = outcome
      BY <1>8, <2>4 DEF Submit
    <3>2. /\ Len(waiting') = Len(waiting) + 1 /\ Len(waiting) \in Nat
          /\ \A i \in 1..Len(waiting) : waiting'[i] = waiting[i]
          /\ waiting'[Len(waiting) + 1] = k
      BY <1>1, <3>1, AppendProperties, LenProperties
    <3>3. \A i \in 1..Len(waiting') : i \in 1..Len(waiting) \/ i = Len(waiting) + 1
      BY <3>2
    <3>4. \A i \in 1..Len(waiting') : call'[waiting'[i]] = "waiting"
      BY <1>1, <2>2, <3>1, <3>2, <3>3 DEF Queued
    <3>5. \A i, j \in 1..Len(waiting') : waiting'[i] = waiting'[j] => i = j
      BY <2>2, <3>2, <3>3 DEF Queued
    <3>6. \A l \in Call : outcome'[l] # "none" => call'[l] = "returned"
      BY <1>1, <2>1, <3>1 DEF Queued
    <3> QED
      BY <2>1, <3>4, <3>5, <3>6 DEF Queued
  <2> QED
    BY <2>3, <2>4
<1>9. ASSUME BeginCall PROVE Queued'
  <2> DEFINE k == Head(waiting)
  <2>1. pc[Bridge] = "live" /\ pc' = pc /\ waiting # <<>> /\ waiting' = Tail(waiting)
    BY <1>9 DEF BeginCall
  <2>2. /\ k = waiting[1] /\ k \in Call /\ Len(waiting) \in Nat /\ Len(waiting) # 0
        /\ Len(waiting') = Len(waiting) - 1
        /\ \A i \in 1..Len(waiting') : waiting'[i] = waiting[i + 1]
    BY <1>1, <2>1, HeadTailProperties, LenProperties, EmptySeq
  <2>3. \A i \in 1..Len(waiting') : i + 1 \in 1..Len(waiting) /\ i + 1 # 1
    BY <2>2
  <2>4. \A i \in 1..Len(waiting') : waiting'[i] \in Call /\ waiting'[i] # k
    BY <1>1, <2>2, <2>3 DEF Queued
  <2>5. call[k] = "waiting" /\ outcome[k] = "none"
    BY <2>2 DEF Queued
  <2>6. \/ \E result : Returns(k, result)
        \/ /\ outcome' = outcome
           /\ \E label \in {"writing", "sent"} : call' = [call EXCEPT ![k] = label]
    BY <1>9 DEF BeginCall
  <2>7. \A l \in Call : l # k => call'[l] = call[l] /\ outcome'[l] = outcome[l]
    BY <1>1, <2>6 DEF Returns
  <2>8. outcome'[k] # "none" => call'[k] = "returned"
    BY <1>1, <2>2, <2>5, <2>6 DEF Returns
  <2>9. \A i \in 1..Len(waiting') : call'[waiting'[i]] = "waiting"
    BY <2>2, <2>3, <2>4, <2>7 DEF Queued
  <2>10. \A i, j \in 1..Len(waiting') : waiting'[i] = waiting'[j] => i = j
    BY <2>2, <2>3 DEF Queued
  <2> HIDE DEF k
  <2> QED
    BY <2>1, <2>7, <2>8, <2>9, <2>10 DEF Queued
<1>10. ASSUME NEW k \in Call, ReadResponse(k) \/ StreamEnds(k) \/ ResponseTimeout(k) PROVE Queued'
  <2>1. /\ pc[Bridge] = "live" /\ pc' = pc /\ waiting' = waiting
        /\ call[k] \in {"writing", "sent"} /\ call' = [call EXCEPT ![k] = "returned"]
        /\ \E result : outcome' = [outcome EXCEPT ![k] = result]
    BY <1>10 DEF ReadResponse, StreamEnds, ResponseTimeout, Returns
  <2>2. /\ \A l \in Call : l # k => call'[l] = call[l] /\ outcome'[l] = outcome[l]
        /\ call'[k] = "returned"
    BY <1>1, <2>1
  <2>3. \A i \in 1..Len(waiting) : waiting[i] \in Call /\ waiting[i] # k
    BY <1>1, <2>1 DEF Queued
  <2>4. \A i \in 1..Len(waiting') : call'[waiting'[i]] = "waiting"
    BY <2>1, <2>2, <2>3 DEF Queued
  <2>5. \A i, j \in 1..Len(waiting') : waiting'[i] = waiting'[j] => i = j
    BY <2>1 DEF Queued
  <2>6. \A l \in Call : outcome'[l] # "none" => call'[l] = "returned"
    BY <2>2 DEF Queued
  <2> QED
    BY <2>1, <2>4, <2>5, <2>6 DEF Queued
<1> QED
  BY <1>3, <1>4, <1>5, <1>6, <1>7, <1>8, <1>9, <1>10, BridgeCases DEF BridgeStep

(* The traffic of the bridge: what its calls and its connection agree on.  *)
BridgeInv == Queued /\ InStep /\ BridgeInStep /\ RefusalsAreHarmless

(* Nobody is out when the bridge is idle, and the other way round.         *)
LEMMA IdleOut == Idle <=> \A k \in Call : ~Out(k)
BY DEF Idle, Out

(* The steps of the daemon on the bridge's connection.                     *)
LEMMA DaemonInStep ==
    ASSUME SessionInv, BridgeInv,
           \/ ReadRequest(Bridge)
           \/ \E id \in tasks[Bridge] : EndTask(Bridge, id)
           \/ StopDaemon
    PROVE  InStep' /\ BridgeInStep' /\ RefusalsAreHarmless'
<1>1. /\ call \in [Call -> {"new", "waiting", "writing", "sent", "returned"}]
      /\ pc \in [Process -> {"new", "off", "get", "set", "bind", "chmod", "serving", "inspect",
                            "connect", "challenge", "ready", "live"}]
      /\ Bridge \in DOMAIN up /\ Bridge \in DOMAIN down /\ Bridge \in DOMAIN tasks
      /\ Bridge \in Process /\ Bridge \in Client /\ Bridge # Daemon
  BY DEF SessionInv, TypeOK, Shaped, Process, Client, Daemon, Bridge
<1>2. UNCHANGED <<outcome, usable, requestId>> /\ pc'[Bridge] = pc[Bridge]
  BY <1>1 DEF ReadRequest, EndTask, StopDaemon, DaemonGone, OnlyConnection, bridgeVars, Goto
<1>3. \/ call' = call
      \/ call' = [k \in Call |-> IF call[k] = "writing" THEN "sent" ELSE call[k]]
  BY DEF ReadRequest, Written, EndTask, StopDaemon, bridgeVars
<1>4. \A k \in Call : (Out(k)' <=> Out(k)) /\ (call[k] = "sent" => call'[k] = "sent")
  BY <1>1, <1>3 DEF Out
<1>5. RefusalsAreHarmless'
  BY <1>2 DEF BridgeInv, RefusalsAreHarmless
<1>6. \A k, l \in Call : Out(k)' /\ Out(l)' => k = l
  BY <1>4 DEF BridgeInv, InStep
<1>7. \A k \in Call : outcome'[k] # "mismatch"
  BY <1>2 DEF BridgeInv, BridgeInStep
<1>8. Idle' <=> Idle
  BY <1>1, <1>3 DEF Idle
<1>9. ASSUME pc[Bridge] = "live", usable, Quiet PROVE Quiet'
  <2>1. CASE ReadRequest(Bridge)
    BY <1>9, <2>1 DEF ReadRequest, Quiet
  <2>2. CASE \E id \in tasks[Bridge] : EndTask(Bridge, id)
    BY <1>9, <2>2 DEF Quiet
  <2>3. CASE StopDaemon
    BY <1>1, <1>9, <2>3 DEF StopDaemon, DaemonGone, Quiet
  <2> QED
    BY <2>1, <2>2, <2>3
<1>10. ASSUME pc[Bridge] = "live", NEW k \in Call, Out(k), ~Quiet PROVE Underway(k)'
  <2>1. Underway(k) /\ usable
    BY <1>10 DEF BridgeInv, InStep
  <2>2. CASE ReadRequest(Bridge)
    <3>1. up[Bridge] # <<>>
      BY <2>2 DEF ReadRequest
    <3>2. up[Bridge] = <<Request(requestId)>> /\ down[Bridge] = <<>> /\ tasks[Bridge] = {}
      BY <1>10, <2>1, <3>1 DEF Underway
    <3>3. Head(up[Bridge]) = Request(requestId) /\ Tail(up[Bridge]) = <<>>
      BY <3>2, OneFrame
    <3>4. Head(up[Bridge]).id = requestId
      BY <3>3 DEF Request
    <3>5. up'[Bridge] = <<>> /\ call'[k] = "sent"
      BY <1>1, <1>10, <2>2, <3>3 DEF ReadRequest, Received, Written, Out
    <3>6. Present(Bridge)
      BY <1>10 DEF Present
    <3>7. CASE /\ Reply(Bridge, Failure(requestId), IF expired[Bridge] THEN "ending" ELSE "serving")
               /\ tasks' = tasks
      <4>1. down'[Bridge] = Append(<<>>, Failure(requestId))
        BY <1>1, <3>2, <3>6, <3>7 DEF Reply, Send
      <4>2. down'[Bridge] = <<Failure(requestId)>>
        BY <4>1, OneFrame
      <4>3. Failure(requestId) \in Dispatch(requestId)'
        BY <1>2 DEF Dispatch, Failure
      <4> QED
        BY <3>2, <3>5, <3>7, <4>2, <4>3 DEF Underway
    <3>8. CASE tasks' = [tasks EXCEPT ![Bridge] = @ \cup {requestId}] /\ down' = down
      <4>1. tasks'[Bridge] = {requestId'} /\ down'[Bridge] = <<>>
        BY <1>1, <1>2, <3>2, <3>8
      <4> QED
        BY <3>5, <4>1 DEF Underway
    <3> QED
      BY <2>2, <3>4, <3>7, <3>8 DEF ReadRequest
  <2>3. ASSUME NEW id \in tasks[Bridge], EndTask(Bridge, id) PROVE Underway(k)'
    <3>1. /\ call[k] = "sent" /\ up[Bridge] = <<>> /\ down[Bridge] = <<>>
          /\ tasks[Bridge] = {requestId}
      BY <1>10, <2>1, <2>3 DEF Underway
    <3>2. tasks'[Bridge] = {} /\ up' = up /\ call'[k] = "sent" /\ id = requestId
      BY <1>1, <1>4, <2>3, <3>1 DEF EndTask
    <3>3. CASE down' = down
      BY <3>1, <3>2, <3>3 DEF Underway, Quiet
    <3>4. ASSUME NEW response \in Dispatch(id), down' = Send(down, Bridge, response)
          PROVE  Underway(k)'
      <4>1. down'[Bridge] = Append(<<>>, response)
        BY <1>1, <3>1, <3>4 DEF Send
      <4>2. down'[Bridge] = <<response>>
        BY <4>1, OneFrame
      <4>3. response \in Dispatch(requestId)'
        BY <1>2, <3>2, <3>4 DEF Dispatch, Success, Failure
      <4> QED
        BY <3>1, <3>2, <4>2, <4>3 DEF Underway
    <3> QED
      BY <2>3, <3>3, <3>4 DEF EndTask
  <2>4. CASE StopDaemon
    <3>1. /\ up'[Bridge] = <<>> /\ tasks'[Bridge] = {} /\ down' = down /\ call' = call
      BY <1>1, <2>4 DEF StopDaemon, DaemonGone, bridgeVars
    <3>2. CASE down[Bridge] = <<>>
      BY <3>1, <3>2 DEF Underway, Quiet
    <3>3. CASE down[Bridge] # <<>>
      <4>1. PICK response \in Dispatch(requestId) : down[Bridge] = <<response>>
        BY <1>10, <2>1, <3>3 DEF Underway
      <4>2. call[k] = "sent"
        BY <1>10, <2>1, <3>3 DEF Underway
      <4>3. response \in Dispatch(requestId)'
        BY <1>2 DEF Dispatch, Success, Failure
      <4> QED
        BY <3>1, <4>1, <4>2, <4>3 DEF Underway
    <3> QED
      BY <3>2, <3>3
  <2> QED
    BY <2>2, <2>3, <2>4
<1>11. ASSUME pc[Bridge] = "live", NEW k \in Call, Out(k) PROVE usable' /\ Underway(k)'
  <2>1. usable
    BY <1>11 DEF BridgeInv, InStep
  <2>2. Quiet' => Underway(k)'
    BY DEF Underway
  <2> QED
    BY <1>2, <1>9, <1>10, <1>11, <2>1, <2>2
<1>12. InStep'
  BY <1>2, <1>4, <1>6, <1>11 DEF InStep
<1>13. BridgeInStep'
  <2>1. pc[Bridge] = "live" /\ usable /\ Idle => Quiet
    BY DEF BridgeInv, BridgeInStep, Quiet
  <2>2. pc'[Bridge] = "live" /\ usable' /\ Idle' => Quiet'
    BY <1>2, <1>8, <1>9, <2>1
  <2> QED
    BY <1>7, <2>2 DEF BridgeInStep, Quiet
<1> QED
  BY <1>5, <1>12, <1>13

(* The end of a call that was out: nobody is out any more, and a result is *)
(* never lost again.                                                       *)
LEMMA CallEnds ==
    ASSUME BridgeInv, NEW k \in Call, Out(k), NEW result, Returns(k, result), DOMAIN outcome = Call,
           call \in [Call -> {"new", "waiting", "writing", "sent", "returned"}]
    PROVE  /\ Idle' /\ InStep' /\ outcome'[k] = result
           /\ \A l \in Call : outcome'[l] \in {outcome[l], result}
<1>1. \A l \in Call : ~Out(l)'
  BY DEF BridgeInv, InStep, Returns, Out
<1>2. Idle'
  BY <1>1 DEF Idle, Out
<1>3. InStep'
  BY <1>1 DEF InStep
<1>4. outcome'[k] = result /\ \A l \in Call : outcome'[l] \in {outcome[l], result}
  BY DEF Returns
<1> QED
  BY <1>2, <1>3, <1>4

(* The steps of the bridge.                                                *)
LEMMA CallsInStep ==
    ASSUME SessionInv, BridgeInv,
           BridgeStep \/ \E k \in Call, what \in Input : Submit(k, what)
    PROVE  InStep' /\ BridgeInStep' /\ RefusalsAreHarmless'
<1>1. /\ call \in [Call -> {"new", "waiting", "writing", "sent", "returned"}]
      /\ waiting \in Seq(Call) /\ DOMAIN outcome = Call
      /\ Bridge \in DOMAIN up /\ Bridge \in DOMAIN down
  BY DEF SessionInv, TypeOK, Shaped, Client
<1>2. pc[Bridge] = "live" /\ pc' = pc /\ tasks' = tasks
  BY DEF BridgeStep, BeginCall, ReadResponse, StreamEnds, ResponseTimeout, Submit, OnlyBridge
<1>3. usable /\ Idle => Quiet
  BY <1>2 DEF BridgeInv, BridgeInStep, Quiet
<1>4. ASSUME \A k \in Call : outcome'[k] # "mismatch", usable' /\ Idle' => Quiet'
      PROVE  BridgeInStep'
  BY <1>4 DEF BridgeInStep, Quiet
<1>5. ASSUME NEW k \in Call, NEW what \in Input, Submit(k, what)
      PROVE  InStep' /\ BridgeInStep' /\ RefusalsAreHarmless'
  <2>1. call[k] = "new" /\ UNCHANGED <<up, down, usable, requestId>>
    BY <1>5 DEF Submit
  <2>2. \E label \in {"waiting", "returned"} : call' = [call EXCEPT ![k] = label]
    BY <1>5 DEF Submit, Returns
  <2>3. outcome' = outcome \/ outcome' = [outcome EXCEPT ![k] = "invalid params"]
    BY <1>5 DEF Submit, Returns
  <2>4. \A l \in Call : (Out(l)' <=> Out(l)) /\ (Out(l) => call'[l] = call[l])
    BY <1>1, <2>1, <2>2 DEF Out
  <2>5. outcome[k] = "none"
    BY <2>1 DEF BridgeInv, Queued
  <2>6. RefusalsAreHarmless'
    BY <1>1, <2>1, <2>3, <2>5 DEF BridgeInv, RefusalsAreHarmless
  <2>7. \A l \in Call : outcome'[l] # "mismatch"
    BY <1>1, <2>3 DEF BridgeInv, BridgeInStep
  <2>8. Idle' <=> Idle
    BY <2>4 DEF Idle, Out
  <2>9. Quiet' <=> Quiet
    BY <1>2, <2>1 DEF Quiet
  <2>10. ASSUME NEW l \in Call, Out(l) PROVE usable' /\ Underway(l)'
    <3>1. usable /\ Underway(l)
      BY <1>2, <2>10 DEF BridgeInv, InStep
    <3>2. call'[l] = call[l] /\ Dispatch(requestId)' = Dispatch(requestId)
          /\ Request(requestId)' = Request(requestId)
      BY <2>1, <2>4, <2>10 DEF Dispatch, Success, Failure, Request
    <3> QED
      BY <1>2, <2>1, <2>9, <3>1, <3>2 DEF Underway
  <2>11. InStep'
    BY <2>4, <2>10 DEF BridgeInv, InStep
  <2> QED
    BY <1>3, <1>4, <2>1, <2>6, <2>7, <2>8, <2>9, <2>11
<1>6. ASSUME BeginCall PROVE InStep' /\ BridgeInStep' /\ RefusalsAreHarmless'
  <2>1. Idle /\ waiting # <<>> /\ down' = down
    BY <1>6 DEF BeginCall
  <2>2. PICK k \in Call : k = Head(waiting) /\ k = waiting[1] /\ 1 \in 1..Len(waiting)
    BY <1>1, <2>1, HeadTailProperties, EmptySeq
  <2>3. call[k] = "waiting" /\ outcome[k] = "none"
    BY <2>2 DEF BridgeInv, Queued
  <2>4. \A l \in Call : ~Out(l)
    BY <2>1, IdleOut
  <2>5. \/ ~usable /\ Returns(k, "connection closed") /\ usable' = usable
        \/ usable /\ Returns(k, "frame") /\ usable' = FALSE
        \/ usable /\ Returns(k, "not made") /\ usable' = usable /\ up' = up
        \/ /\ usable /\ usable' = usable /\ requestId' = nextId /\ outcome' = outcome
           /\ up' = Send(up, Bridge, Request(nextId))
           /\ \E label \in {"writing", "sent"} : call' = [call EXCEPT ![k] = label]
    BY <1>6, <2>2 DEF BeginCall
  <2>6. ASSUME NEW result \in {"connection closed", "frame"}, Returns(k, result), usable' = FALSE,
               result = "frame" \/ ~usable
        PROVE  InStep' /\ BridgeInStep' /\ RefusalsAreHarmless'
    <3>1. \A l \in Call : ~Out(l)'
      BY <1>1, <2>2, <2>4, <2>6 DEF Returns, Out
    <3>2. InStep'
      BY <3>1 DEF InStep
    <3>3. outcome'[k] = result /\ \A l \in Call : l # k => outcome'[l] = outcome[l]
      BY <1>1, <2>2, <2>6 DEF Returns
    <3>4. \A l \in Call : outcome'[l] # "mismatch"
      BY <2>6, <3>3 DEF BridgeInv, BridgeInStep
    <3>5. RefusalsAreHarmless'
      BY <2>2, <2>3, <2>6, <3>3 DEF BridgeInv, RefusalsAreHarmless
    <3> QED
      BY <1>4, <2>6, <3>2, <3>4, <3>5
  <2>6a. ASSUME usable, Returns(k, "not made"), usable' = usable, up' = up
         PROVE  InStep' /\ BridgeInStep' /\ RefusalsAreHarmless'
    <3>1. \A l \in Call : ~Out(l)'
      BY <1>1, <2>2, <2>4, <2>6a DEF Returns, Out
    <3>2. Quiet'
      BY <1>2, <1>3, <2>1, <2>6a DEF Quiet
    <3>3. \A l \in Call : outcome'[l] # "mismatch"
      BY <1>1, <2>2, <2>6a DEF Returns, BridgeInv, BridgeInStep
    <3> QED
      BY <1>4, <2>6a, <3>1, <3>2, <3>3 DEF InStep, RefusalsAreHarmless
  <2>7. ASSUME usable, usable' = usable, requestId' = nextId, outcome' = outcome,
               up' = Send(up, Bridge, Request(nextId)),
               NEW label \in {"writing", "sent"}, call' = [call EXCEPT ![k] = label]
        PROVE  InStep' /\ BridgeInStep' /\ RefusalsAreHarmless'
    <3>1. Quiet
      BY <1>3, <2>1, <2>7
    <3>2. up'[Bridge] = Append(<<>>, Request(nextId))
      BY <1>1, <2>7, <3>1 DEF Quiet, Send
    <3>3. up'[Bridge] = <<Request(requestId)'>>
      BY <2>7, <3>2, OneFrame DEF Request
    <3>4. Underway(k)'
      BY <1>2, <2>1, <3>1, <3>3 DEF Underway, Quiet
    <3>5. \A l \in Call : Out(l)' <=> l = k
      BY <1>1, <2>2, <2>4, <2>7 DEF Out
    <3>6. InStep'
      BY <2>7, <3>4, <3>5 DEF InStep
    <3>7. ~Idle'
      BY <2>2, <3>5 DEF Idle, Out
    <3>8. \A l \in Call : outcome'[l] # "mismatch"
      BY <2>7 DEF BridgeInv, BridgeInStep
    <3>9. RefusalsAreHarmless'
      BY <2>7 DEF RefusalsAreHarmless
    <3> QED
      BY <1>4, <3>6, <3>7, <3>8, <3>9
  <2>8. usable \in BOOLEAN
    BY DEF SessionInv, TypeOK
  <2> QED
    BY <2>5, <2>6, <2>6a, <2>7, <2>8
<1>7. ASSUME NEW k \in Call, ReadResponse(k) PROVE InStep' /\ BridgeInStep' /\ RefusalsAreHarmless'
  <2> DEFINE response == Head(down[Bridge])
  <2>1. /\ Out(k) /\ down[Bridge] # <<>> /\ down' = Received(down, Bridge) /\ up' = up
        /\ Returns(k, IF response.id = requestId THEN response.type ELSE "mismatch")
        /\ usable' = (response.id = requestId)
    BY <1>7 DEF ReadResponse, Out
  <2>2. usable /\ Underway(k)
    BY <1>2, <2>1 DEF BridgeInv, InStep
  <2>3. PICK r \in Dispatch(requestId) :
           down[Bridge] = <<r>> /\ tasks[Bridge] = {} /\ up[Bridge] = <<>>
    BY <2>1, <2>2 DEF Underway, Quiet
  <2>4. r.id = requestId /\ r.type \in {"success", "failure"}
    BY DEF Dispatch, Success, Failure
  <2>5. response = r /\ Tail(down[Bridge]) = <<>>
    BY <2>3, OneFrame
  <2> HIDE DEF response
  <2>6. Returns(k, r.type) /\ usable' = TRUE
    BY <2>1, <2>4, <2>5
  <2>7. down'[Bridge] = <<>>
    BY <1>1, <2>1, <2>5 DEF Received
  <2>8. Quiet'
    BY <1>2, <2>1, <2>3, <2>7 DEF Quiet
  <2>9. InStep' /\ \A l \in Call : outcome'[l] \in {outcome[l], r.type}
    BY <1>1, <2>1, <2>6, CallEnds
  <2>10. \A l \in Call : outcome'[l] # "mismatch"
    BY <2>4, <2>9 DEF BridgeInv, BridgeInStep
  <2>11. RefusalsAreHarmless'
    BY <2>6 DEF RefusalsAreHarmless
  <2> QED
    BY <1>4, <2>8, <2>9, <2>10, <2>11
<1>8. ASSUME NEW k \in Call, StreamEnds(k) \/ ResponseTimeout(k)
      PROVE  InStep' /\ BridgeInStep' /\ RefusalsAreHarmless'
  <2>1. Out(k) /\ usable' = FALSE
    BY <1>8 DEF StreamEnds, ResponseTimeout, Out
  <2>2. PICK result \in {"frame", "timeout"} : Returns(k, result)
    BY <1>8 DEF StreamEnds, ResponseTimeout
  <2>3. InStep' /\ outcome'[k] = result /\ \A l \in Call : outcome'[l] \in {outcome[l], result}
    BY <1>1, <2>1, <2>2, CallEnds
  <2>4. \A l \in Call : outcome'[l] # "mismatch"
    BY <2>3 DEF BridgeInv, BridgeInStep
  <2>5. RefusalsAreHarmless'
    BY <2>3 DEF RefusalsAreHarmless
  <2> QED
    BY <1>4, <2>1, <2>3, <2>4, <2>5
<1> QED
  BY <1>5, <1>6, <1>7, <1>8 DEF BridgeStep

(* The steps aside, and the one that makes the bridge live: no call is out *)
(* yet, and the handshake has left nothing on the way.                     *)
LEMMA OthersInStep ==
    ASSUME SessionInv, BridgeInv,
           Aside \/ (ReadReady(Bridge) /\ UNCHANGED <<bridgeVars, tasks>>)
    PROVE  InStep' /\ BridgeInStep' /\ RefusalsAreHarmless'
<1>1. UNCHANGED <<call, outcome, usable, requestId>>
  BY DEF Aside, bridgeVars
<1>2. RefusalsAreHarmless'
  BY <1>1 DEF BridgeInv, RefusalsAreHarmless
<1>3. /\ \A k, l \in Call : Out(k)' /\ Out(l)' => k = l
      /\ \A k \in Call : outcome'[k] # "mismatch"
      /\ (Idle' <=> Idle)
  BY <1>1 DEF BridgeInv, InStep, BridgeInStep, Out, Idle
<1>4. ASSUME pc'[Bridge] # "live" PROVE InStep' /\ BridgeInStep'
  BY <1>3, <1>4 DEF InStep, BridgeInStep
<1>5. ASSUME pc'[Bridge] = "live", Aside PROVE InStep' /\ BridgeInStep'
  <2>1. /\ pc[Bridge] = "live" /\ up'[Bridge] = up[Bridge] /\ down'[Bridge] = down[Bridge]
        /\ tasks'[Bridge] = tasks[Bridge]
    BY <1>5 DEF Aside
  <2>2. Quiet' <=> Quiet
    BY <2>1 DEF Quiet
  <2>3. ASSUME NEW k \in Call, Out(k)' PROVE usable' /\ Underway(k)'
    <3>1. usable /\ Underway(k)
      BY <1>1, <2>1, <2>3 DEF BridgeInv, InStep, Out
    <3>2. Dispatch(requestId)' = Dispatch(requestId) /\ Request(requestId)' = Request(requestId)
      BY <1>1 DEF Dispatch, Success, Failure, Request
    <3> QED
      BY <1>1, <2>1, <2>2, <3>1, <3>2 DEF Underway
  <2>4. InStep'
    BY <1>3, <2>3 DEF InStep
  <2>5. pc[Bridge] = "live" /\ usable /\ Idle => Quiet
    BY DEF BridgeInv, BridgeInStep, Quiet
  <2>6. BridgeInStep'
    BY <1>1, <1>3, <2>1, <2>2, <2>5 DEF BridgeInStep, Quiet
  <2> QED
    BY <2>4, <2>6
<1>6. ASSUME ReadReady(Bridge), UNCHANGED tasks PROVE InStep' /\ BridgeInStep'
  <2>1. pc[Bridge] = "ready" /\ down[Bridge] # <<>> /\ up' = up /\ down' = Received(down, Bridge)
    BY <1>6 DEF ReadReady
  <2>2. Proven(Bridge) /\ Bridge \in DOMAIN down
    BY <2>1 DEF SessionInv, Phase, Shaped, Client
  <2>3. /\ down[Bridge] = <<Ready(Agreed(Bridge))>> /\ up[Bridge] = <<>> /\ tasks[Bridge] = {}
    BY <2>1, <2>2 DEF Proven
  <2>4. Tail(down[Bridge]) = <<>>
    BY <2>3, OneFrame
  <2>5. Quiet'
    BY <1>6, <2>1, <2>2, <2>3, <2>4 DEF Quiet, Received
  <2>6. \A k \in Call : call[k] = "new"
    BY <2>1 DEF BridgeInv, Queued
  <2>7. \A k \in Call : ~Out(k)'
    BY <1>1, <2>6 DEF Out
  <2> QED
    BY <1>3, <2>5, <2>7 DEF InStep, BridgeInStep, Quiet
<1> QED
  BY <1>2, <1>4, <1>5, <1>6

(* What holds of the bridge in every state.                                *)
LEMMA BridgeInvariant == Spec => []BridgeInv
<1>1. Init => BridgeInv
  <2> SUFFICES ASSUME Init PROVE BridgeInv
    OBVIOUS
  <2>1. waiting = <<>> /\ Len(waiting) = 0 /\ usable
    BY EmptySeq DEF Init
  <2>2. \A k \in Call : call[k] = "new" /\ outcome[k] = "none"
    BY DEF Init
  <2>3. pc[Bridge] = "new"
    BY DEF Init, SessionInit, Process, Client, Daemon, Bridge
  <2>4. \A i \in 1..Len(waiting) : FALSE
    BY <2>1
  <2> QED
    BY <2>1, <2>2, <2>3, <2>4 DEF BridgeInv, Queued, InStep, Out, BridgeInStep, RefusalsAreHarmless
<1>2. SessionInv /\ BridgeInv /\ [Next]_vars => BridgeInv'
  <2> SUFFICES ASSUME SessionInv, BridgeInv, [Next]_vars PROVE BridgeInv'
    OBVIOUS
  <2>1. Queued'
    BY QueuedStep DEF BridgeInv
  <2>2. InStep' /\ BridgeInStep' /\ RefusalsAreHarmless'
    BY BridgeCases, OthersInStep, DaemonInStep, CallsInStep
  <2> QED
    BY <2>1, <2>2 DEF BridgeInv
<1> QED
  BY <1>1, <1>2, SessionInvariant, PTL DEF Spec

(* IpcQueryClient never takes the answer to an earlier call for its own:   *)
(* while it calls the connection usable and no call is out, nothing is on  *)
(* the way, also when ids repeat, and no response has the id of another    *)
(* call.                                                                   *)
THEOREM BridgeStaysInStep == Spec => []BridgeInStep
<1>1. BridgeInv => BridgeInStep
  BY DEF BridgeInv
<1> QED
  BY <1>1, BridgeInvariant, PTL

(* The bridge gives its connection up only for a call that timed out or    *)
(* met a broken stream or an oversized frame, never for a failure that the *)
(* daemon answered with.                                                   *)
THEOREM RefusalsCostNothing == Spec => []RefusalsAreHarmless
<1>1. BridgeInv => RefusalsAreHarmless
  BY DEF BridgeInv
<1> QED
  BY <1>1, BridgeInvariant, PTL

-----------------------------------------------------------------------------
(* One call at a time *)

(* What the host sees of the calls.                                        *)
Stage(k) == IF Out(k) THEN "out" ELSE call[k]
callVars == <<[k \in Call |-> Stage(k)], waiting, outcome, usable>>

(* The stages are those of the refinement.                                 *)
LEMMA SameStages ==
    [k \in Call |-> Stage(k)]
      = [k \in Call |-> IF call[k] \in {"writing", "sent"} THEN "out" ELSE call[k]]
BY DEF Stage, Out

(* After a step as well.                                                   *)
LEMMA SameStagesNext ==
    [k \in Call |-> Stage(k)]'
      = [k \in Call |-> IF call[k] \in {"writing", "sent"} THEN "out" ELSE call[k]]'
BY DEF Stage, Out

(* A call that returns leaves the other calls where they are.              *)
LEMMA StageReturns ==
    ASSUME DOMAIN call = Call, NEW k \in Call, NEW r, Returns(k, r)
    PROVE  Calls!Return(k, r)
<1>1. \A l \in Call : Stage(l)' = IF l = k THEN "returned" ELSE Stage(l)
  BY DEF Returns, Stage, Out
<1>2. [l \in Call |-> Stage(l)]' = [[l \in Call |-> Stage(l)] EXCEPT ![k] = "returned"]
  BY <1>1
<1>3. outcome' = [outcome EXCEPT ![k] = r]
  BY DEF Returns
<1> QED
  BY <1>2, <1>3, SameStages, SameStagesNext DEF Calls!Return

(* The host sees a call where it stands.                                   *)
LEMMA StageOf ==
    ASSUME NEW k \in Call
    PROVE  /\ [l \in Call |-> IF call[l] \in {"writing", "sent"} THEN "out" ELSE call[l]][k]
                = Stage(k)
           /\ Stage(k) = "out" <=> Out(k) \/ call[k] = "out"
           /\ ~Out(k) => Stage(k) = call[k]
BY DEF Stage, Out

(* The answer that a call reads is its own.                                *)
LEMMA AnswerIsOwn ==
    ASSUME BridgeInv, NEW k \in Call, ReadResponse(k)
    PROVE  usable /\ usable' = TRUE /\ \E r \in {"success", "failure"} : Returns(k, r)
<1> DEFINE response == Head(down[Bridge])
<1>1. /\ Out(k) /\ pc[Bridge] = "live" /\ down[Bridge] # <<>>
      /\ Returns(k, IF response.id = requestId THEN response.type ELSE "mismatch")
      /\ usable' = (response.id = requestId)
  BY DEF ReadResponse, Out
<1>2. usable /\ Underway(k)
  BY <1>1 DEF BridgeInv, InStep
<1>3. PICK r \in Dispatch(requestId) : down[Bridge] = <<r>>
  BY <1>1, <1>2 DEF Underway, Quiet
<1>4. r.id = requestId /\ r.type \in {"success", "failure"}
  BY DEF Dispatch, Success, Failure
<1>5. response = r
  BY <1>3, OneFrame
<1> HIDE DEF response
<1> QED
  BY <1>1, <1>2, <1>4, <1>5

(* A call that the host hands in.                                          *)
LEMMA SubmitServes ==
    ASSUME DOMAIN call = Call, NEW k \in Call, NEW what \in Input, Submit(k, what)
    PROVE  Calls!Reject(k) \/ Calls!Join(k)
<1>1. call[k] = "new" /\ ~Out(k) /\ usable' = usable
  BY DEF Submit, Out
<1>2. [l \in Call |-> IF call[l] \in {"writing", "sent"} THEN "out" ELSE call[l]][k] = "new"
  BY <1>1, StageOf
<1>3. CASE Returns(k, "invalid params") /\ UNCHANGED waiting
  BY <1>1, <1>2, <1>3, StageReturns DEF Calls!Reject
<1>4. CASE /\ call' = [call EXCEPT ![k] = "waiting"] /\ waiting' = Append(waiting, k)
           /\ outcome' = outcome
  <2>1. \A l \in Call : Stage(l)' = IF l = k THEN "waiting" ELSE Stage(l)
    BY <1>4 DEF Stage, Out
  <2>2. [l \in Call |-> Stage(l)]' = [[l \in Call |-> Stage(l)] EXCEPT ![k] = "waiting"]
    BY <2>1
  <2> QED
    BY <1>1, <1>2, <1>4, <2>2, SameStages, SameStagesNext DEF Calls!Join
<1> QED
  BY <1>3, <1>4 DEF Submit

(* The first call of the line takes its turn.                              *)
LEMMA TurnServes ==
    ASSUME SessionInv, BeginCall
    PROVE  Calls!Send \/ Calls!SendFails \/ Calls!SendNothing \/ Calls!TurnAway
<1>0. /\ DOMAIN call = Call /\ waiting \in Seq(Call)
      /\ call \in [Call -> {"new", "waiting", "writing", "sent", "returned"}]
  BY DEF SessionInv, TypeOK
<1>1. /\ waiting # <<>> /\ waiting' = Tail(waiting) /\ \A l \in Call : ~Out(l)
  BY IdleOut DEF BeginCall
<1>2. PICK k \in Call : k = Head(waiting)
  BY <1>0, <1>1, HeadTailProperties
<1>3. Calls!Turn
  <2>1. \A l \in Call :
           [m \in Call |-> IF call[m] \in {"writing", "sent"} THEN "out" ELSE call[m]][l] # "out"
    BY <1>0, <1>1 DEF Out
  <2> QED
    BY <1>1, <2>1 DEF Calls!Turn
<1>4. CASE ~usable /\ Returns(k, "connection closed") /\ usable' = usable
  BY <1>0, <1>2, <1>3, <1>4, StageReturns DEF Calls!TurnAway
<1>5. CASE usable /\ Returns(k, "frame") /\ usable' = FALSE
  BY <1>0, <1>2, <1>3, <1>5, StageReturns DEF Calls!SendFails
<1>5a. CASE usable /\ Returns(k, "not made") /\ usable' = usable
  BY <1>0, <1>2, <1>3, <1>5a, StageReturns DEF Calls!SendNothing
<1>6. ASSUME usable, UNCHANGED <<usable, outcome>>, NEW label \in {"writing", "sent"},
             call' = [call EXCEPT ![k] = label]
      PROVE  Calls!Send
  <2>1. \A l \in Call : Stage(l)' = IF l = k THEN "out" ELSE Stage(l)
    BY <1>0, <1>6 DEF Stage, Out
  <2>2. [l \in Call |-> Stage(l)]' = [[l \in Call |-> Stage(l)] EXCEPT ![k] = "out"]
    BY <2>1
  <2> QED
    BY <1>2, <1>3, <1>6, <2>2, SameStages, SameStagesNext DEF Calls!Send
<1> QED
  BY <1>2, <1>4, <1>5, <1>5a, <1>6 DEF BeginCall

(* The bridge implements the line of calls: one connection that it shares  *)
(* between them under a lock, with an answer found by its id, serves them  *)
(* one at a time and in order, answers each with its own answer, and sends *)
(* nothing after a call it had to give up.                                 *)
THEOREM BridgeIsSerial == Spec => CallsAreSerial
<1>1. Init => Calls!Init
  <2> SUFFICES ASSUME Init PROVE Calls!Init
    OBVIOUS
  <2>1. [k \in Call |-> IF call[k] \in {"writing", "sent"} THEN "out" ELSE call[k]]
          = [k \in Call |-> "new"]
    BY DEF Init
  <2> QED
    BY <2>1 DEF Init, Calls!Init
<1>2. SessionInv /\ BridgeInv /\ [Next]_vars => [Calls!Next]_callVars
  <2> SUFFICES ASSUME SessionInv, BridgeInv, [Next]_vars PROVE [Calls!Next]_callVars
    OBVIOUS
  <2>0. DOMAIN call = Call
    BY DEF SessionInv, TypeOK
  <2>1. CASE UNCHANGED bridgeVars
    <3>1. \A k \in Call : Stage(k)' = Stage(k)
      BY <2>1 DEF Stage, Out, bridgeVars
    <3>2. [k \in Call |-> Stage(k)]' = [k \in Call |-> Stage(k)]
      BY <3>1
    <3> QED
      BY <2>1, <3>2 DEF callVars, bridgeVars
  <2>2. CASE ReadRequest(Bridge)
    <3>1. /\ call' = [k \in Call |-> IF call[k] = "writing" THEN "sent" ELSE call[k]]
          /\ UNCHANGED <<waiting, outcome, usable>>
      BY <2>2 DEF ReadRequest, Written, OnlyConnection
    <3>2. \A k \in Call : Stage(k)' = Stage(k)
      BY <3>1 DEF Stage, Out
    <3>3. [k \in Call |-> Stage(k)]' = [k \in Call |-> Stage(k)]
      BY <3>2
    <3> QED
      BY <3>1, <3>3 DEF callVars
  <2>3. ASSUME NEW k \in Call, ReadResponse(k) PROVE Calls!Next
    <3>1. /\ Out(k) /\ waiting' = waiting /\ usable /\ usable' = TRUE
          /\ \E r \in {"success", "failure"} : Returns(k, r)
      BY <2>3, AnswerIsOwn DEF ReadResponse, Out
    <3>2. usable' = usable
      BY <3>1 DEF SessionInv, TypeOK
    <3> QED
      BY <2>0, <3>1, <3>2, StageOf, StageReturns DEF Calls!Next, Calls!Answer
  <2>4. ASSUME NEW k \in Call, StreamEnds(k) \/ ResponseTimeout(k) PROVE Calls!Next
    <3>1. /\ Out(k) /\ waiting' = waiting /\ usable' = FALSE
          /\ \E r \in {"timeout", "frame"} : Returns(k, r)
      BY <2>4 DEF StreamEnds, ResponseTimeout, Out
    <3> QED
      BY <2>0, <3>1, StageOf, StageReturns DEF Calls!Next, Calls!GiveUp
  <2>5. ASSUME BeginCall PROVE Calls!Next
    BY <2>5, TurnServes DEF Calls!Next
  <2>6. ASSUME NEW k \in Call, NEW what \in Input, Submit(k, what) PROVE Calls!Next
    BY <2>0, <2>6, SubmitServes DEF Calls!Next
  <2>7. (\E id \in tasks[Bridge] : EndTask(Bridge, id)) \/ StopDaemon \/ Aside
          => UNCHANGED bridgeVars
    BY DEF EndTask, OnlyConnection, StopDaemon, DaemonGone, Aside, bridgeVars
  <2> QED
    BY <2>1, <2>2, <2>3, <2>4, <2>5, <2>6, <2>7, BridgeCases DEF BridgeStep
<1>3. SessionInv /\ BridgeInv /\ [Next]_vars => [Calls!Next]_(Calls!vars)
  BY <1>2, SameStages, SameStagesNext DEF callVars, Calls!vars
<1> QED
  BY <1>1, <1>3, SessionInvariant, BridgeInvariant, PTL DEF Spec, CallsAreSerial, Calls!Spec
=============================================================================
