---------------------------- MODULE LocalClients -----------------------------
(***************************************************************************)
(* The daemon's local clients at work: the MCP bridge, whose tool calls    *)
(* share one connection behind a mutex and one `usable` flag, and the      *)
(* launcher, which relays the plugin's frames.  Both come to their session *)
(* through LocalSession; the daemon answers each request from a task.      *)
(***************************************************************************)
EXTENDS LocalSession

CONSTANTS
    Call,              \* the tool calls of the MCP host
    MaxId,             \* the largest request id, u64::MAX in the code
    MaxPluginRequests  \* bound on the requests of the plugin

ASSUME ClientsAssumption == MaxId \in Nat \ {0} /\ MaxPluginRequests \in Nat

(* What a tool call asks for, as far as the bridge's code tells the inputs *)
(* apart.  A plain request fits the buffer of the socket, a large one only *)
(* a frame.                                                                *)
Plain == "plain"
Large == "large"
TooLarge == "too large"
Invalid == "invalid"      \* a blank query, no result or more than 100
Input == {Plain, Large, TooLarge, Invalid}

VARIABLES
    input,      \* input[k]: what call k asks for
    call,       \* call[k]: where the tool call k stands
    outcome,    \* outcome[k]: what it returned
    waiting,    \* the queue of the mutex around the IpcQueryClient
    usable,     \* IpcQueryClient::usable
    nextId,     \* IpcQueryClient::next_id
    requestId,  \* the id of the last request that was sent
    expired,    \* expired[c]: the session of c is older than SESSION_TTL
    tasks,      \* tasks[c]: ids that tasks of the daemon work on
    stdin,      \* the launcher's standard input
    relayed     \* how many requests the plugin has sent

bridgeVars == <<input, call, outcome, waiting, usable, nextId, requestId>>
launcherVars == <<stdin, relayed>>
vars == <<sessionVars, bridgeVars, launcherVars, expired, tasks>>

Init ==
    /\ SessionInit
    /\ input = [k \in Call |-> Plain]
    /\ call = [k \in Call |-> "new"]
    /\ outcome = [k \in Call |-> "none"]
    /\ waiting = <<>>
    /\ usable = TRUE
    /\ nextId = 1
    /\ requestId = 0
    /\ expired = [c \in Client |-> FALSE]
    /\ tasks = [c \in Client |-> {}]
    /\ stdin = "open"
    /\ relayed = 0

-----------------------------------------------------------------------------
(* Setting up, see LocalSession *)

AfterSecret(p) == IF p = Daemon THEN "bind" ELSE "inspect"

LoadSecret(p) ==
    /\ GetSecret(p, AfterSecret(p)) \/ SetSecret(p, AfterSecret(p)) \/ StoreFails(p)
    /\ UNCHANGED <<protocol, socketFile, connectionVars, bridgeVars, launcherVars, expired, tasks>>

SetUp(c) ==
    /\ Inspect(c) \/ Connect(c) \/ ReadChallenge(c) \/ ReadReady(c) \/ HandshakeFails(c)
    /\ UNCHANGED <<bridgeVars, launcherVars, expired, tasks>>

Admit(c) ==
    /\ ReadHello(c) \/ ReadAuthenticate(c) \/ ServerHandshakeFails(c)
    /\ UNCHANGED <<bridgeVars, launcherVars, expired, tasks>>

Start ==
    /\ (\E c \in Client : StartClient(c)) \/ StartDaemon \/ Bind \/ Chmod
    /\ UNCHANGED <<bridgeVars, launcherVars, expired, tasks>>

StopDaemon ==
    /\ DaemonGone
    /\ tasks' = [c \in Client |-> {}]
    /\ UNCHANGED <<bridgeVars, launcherVars, expired>>

-----------------------------------------------------------------------------
(* The daemon's side of a session: handle_connection *)

Request(id) == [type |-> "request", id |-> id]
Failure(id) == [type |-> "failure", id |-> id]
Success(id) == [type |-> "success", id |-> id]

(* A large request has been written when the daemon has read it.           *)
Written(c) == c = Bridge =>
    call' = [k \in Call |-> IF call[k] = "writing" THEN "sent" ELSE call[k]]

OnlyConnection ==
    UNCHANGED <<pc, starts, credentialVars, protocol, socketFile, sending, offered, accepted,
                input, outcome, waiting, usable, nextId, requestId, launcherVars>>

(* An hour passes.                                                         *)
Expire(c) ==
    /\ srv[c] = "serving"
    /\ ~expired[c]
    /\ expired' = [expired EXCEPT ![c] = TRUE]
    /\ UNCHANGED <<sessionVars, bridgeVars, launcherVars, tasks>>

(* The next request is refused, for its scope or for a deadline that has   *)
(* passed while it waited, or given to a task.  An expired session answers *)
(* one more request and ends.                                              *)
ReadRequest(c) ==
    /\ srv[c] = "serving"
    /\ up[c] # <<>>
    /\ LET id == Head(up[c]).id
       IN  \/ /\ Reply(c, Failure(id), IF expired[c] THEN "ending" ELSE "serving")
              /\ UNCHANGED tasks
           \/ /\ ~expired[c]
              /\ tasks' = [tasks EXCEPT ![c] = @ \cup {id}]
              /\ UNCHANGED <<srv, down>>
    /\ up' = Received(up, c)
    /\ Written(c)
    /\ c # Bridge => UNCHANGED call
    /\ UNCHANGED expired
    /\ OnlyConnection

(* dispatch ends with a result, or with the failure it makes of an expired *)
(* deadline, a role, a database error or parameters that search_notes or   *)
(* propose_note_replacement refuse.                                        *)
Dispatch(id) == {Success(id), Failure(id)}

(* A task ends and its response is written.  Nothing is sent when the end  *)
(* of the connection has cancelled the task, when the client has gone, and *)
(* when the result does not fit a frame, which titles of any length make   *)
(* possible.                                                               *)
EndTask(c, id) ==
    /\ id \in tasks[c]
    /\ tasks' = [tasks EXCEPT ![c] = @ \ {id}]
    /\ \/ /\ Present(c)
          /\ \E response \in Dispatch(id) : down' = Send(down, c, response)
       \/ UNCHANGED down
    /\ UNCHANGED <<srv, up, call, expired>>
    /\ OnlyConnection

(* The loop ends at the end of the client's frames; the stream is closed   *)
(* when the last task has dropped its writer.                              *)
EndConnection(c) ==
    /\ \/ /\ srv[c] = "serving"
          /\ up[c] = <<>>
          /\ ~sending[c]
          /\ SetSrv(c, "ending")
       \/ /\ srv[c] = "ending"
          /\ tasks[c] = {}
          /\ SetSrv(c, "closed")
    /\ UNCHANGED <<up, down, call, tasks, expired>>
    /\ OnlyConnection

-----------------------------------------------------------------------------
(* The MCP bridge *)

OnlyBridge ==
    UNCHANGED <<starts, credentialVars, protocol, socketFile, srv, offered, accepted,
                launcherVars, expired, tasks>>

Returns(k, result) ==
    /\ call' = [call EXCEPT ![k] = "returned"]
    /\ outcome' = [outcome EXCEPT ![k] = result]

(* search_knowledge and health up to the lock.                             *)
Submit(k, what) ==
    /\ pc[Bridge] = "live"
    /\ call[k] = "new"
    /\ input' = [input EXCEPT ![k] = what]
    /\ \/ /\ what = Invalid
          /\ Returns(k, "invalid params")
          /\ UNCHANGED waiting
       \/ /\ what # Invalid
          /\ call' = [call EXCEPT ![k] = "waiting"]
          /\ waiting' = Append(waiting, k)
          /\ UNCHANGED outcome
    /\ UNCHANGED <<pc, up, down, sending, usable, nextId, requestId>>
    /\ OnlyBridge

Idle == \A k \in Call : call[k] \notin {"writing", "sent"}

(* Mutant of IdAfter: the id wraps to zero.                                *)
IdAfterWrapping(id) == (id + 1) % (MaxId + 1)

(* checked_add(1).unwrap_or(1)                                             *)
IdAfter(id) == IF id = MaxId THEN 1 ELSE id + 1

(* Mutant of BeginCall: `usable` is not looked at.                         *)
BeginCallRegardless ==
    /\ pc[Bridge] = "live"
    /\ Idle
    /\ waiting # <<>>
    /\ waiting' = Tail(waiting)
    /\ nextId' = IdAfter(nextId)
    /\ requestId' = nextId
    /\ LET k == Head(waiting)
       IN  IF input[k] = TooLarge \/ srv[Bridge] = "closed"
             THEN Returns(k, "frame") /\ usable' = FALSE /\ UNCHANGED up
             ELSE /\ up' = Send(up, Bridge, Request(nextId))
                  /\ call' = [call EXCEPT ![k] = "sent"]
                  /\ UNCHANGED <<usable, outcome>>
    /\ UNCHANGED <<pc, down, sending, input>>
    /\ OnlyBridge

(* IpcQueryClient::call, from the lock to the write.  When the clock or    *)
(* the parameters stop it from making a request, only an id is used up.    *)
BeginCall ==
    /\ pc[Bridge] = "live"
    /\ Idle
    /\ waiting # <<>>
    /\ waiting' = Tail(waiting)
    /\ LET k == Head(waiting)
       IN  \/ /\ ~usable
              /\ Returns(k, "connection closed")
              /\ UNCHANGED <<usable, nextId, requestId, up>>
           \/ /\ usable
              /\ nextId' = IdAfter(nextId)
              /\ Returns(k, "not made")
              /\ UNCHANGED <<usable, requestId, up>>
           \/ /\ usable
              /\ nextId' = IdAfter(nextId)
              /\ requestId' = nextId
              /\ IF input[k] = TooLarge \/ srv[Bridge] = "closed"
                   THEN Returns(k, "frame") /\ usable' = FALSE /\ UNCHANGED up
                   ELSE /\ up' = Send(up, Bridge, Request(nextId))
                        /\ call' = [call EXCEPT ![k] = IF input[k] = Large
                                                         THEN "writing" ELSE "sent"]
                        /\ UNCHANGED <<usable, outcome>>
    /\ UNCHANGED <<pc, down, sending, input>>
    /\ OnlyBridge

(* Mutant of ReadResponse: a failure of the daemon ends the connection.    *)
ReadResponseStrictly(k) ==
    /\ pc[Bridge] = "live"
    /\ call[k] = "sent"
    /\ down[Bridge] # <<>>
    /\ down' = Received(down, Bridge)
    /\ LET response == Head(down[Bridge])
       IN  /\ Returns(k, IF response.id = requestId THEN response.type ELSE "mismatch")
           /\ usable' = (response.type = "success")
    /\ UNCHANGED <<pc, up, sending, input, waiting, nextId, requestId>>
    /\ OnlyBridge

(* A response with the id of the call is its result, a failure included;   *)
(* any other ends the use of the connection.                               *)
ReadResponse(k) ==
    /\ pc[Bridge] = "live"
    /\ call[k] = "sent"
    /\ down[Bridge] # <<>>
    /\ down' = Received(down, Bridge)
    /\ LET response == Head(down[Bridge])
       IN  /\ Returns(k, IF response.id = requestId THEN response.type ELSE "mismatch")
           /\ usable' = (response.id = requestId)
    /\ UNCHANGED <<pc, up, sending, input, waiting, nextId, requestId>>
    /\ OnlyBridge

(* The write or the read meets the end of the stream.                      *)
StreamEnds(k) ==
    /\ pc[Bridge] = "live"
    /\ srv[Bridge] = "closed"
    /\ call[k] = "writing" \/ (call[k] = "sent" /\ down[Bridge] = <<>>)
    /\ usable' = FALSE
    /\ Returns(k, "frame")
    /\ UNCHANGED <<pc, up, down, sending, input, waiting, nextId, requestId>>
    /\ OnlyBridge

(* Mutants of ResponseTimeout: the connection stays usable; it never comes.*)
ResponseTimeoutKeepsUsable(k) ==
    /\ pc[Bridge] = "live"
    /\ call[k] = "sent"
    /\ Returns(k, "timeout")
    /\ UNCHANGED <<pc, up, down, sending, input, waiting, usable, nextId, requestId>>
    /\ OnlyBridge

NoResponseTimeout(k) == FALSE /\ UNCHANGED vars

(* RESPONSE_TIMEOUT, which covers the read and not the write.              *)
ResponseTimeout(k) ==
    /\ pc[Bridge] = "live"
    /\ call[k] = "sent"
    /\ usable' = FALSE
    /\ Returns(k, "timeout")
    /\ UNCHANGED <<pc, up, down, sending, input, waiting, nextId, requestId>>
    /\ OnlyBridge

(* The MCP host closes the bridge's standard input, or the bridge dies.    *)
StopBridge ==
    /\ pc[Bridge] = "live"
    /\ Leave(Bridge)
    /\ UNCHANGED <<up, down, bridgeVars>>
    /\ OnlyBridge

-----------------------------------------------------------------------------
(* The launcher: plugin_session *)

OnlyLauncher ==
    UNCHANGED <<starts, credentialVars, protocol, socketFile, srv, offered, accepted, bridgeVars,
                expired, tasks>>

(* A request of the plugin is copied to the socket; a closed socket ends   *)
(* both copies.                                                            *)
RelayUp ==
    /\ pc[Launcher] = "live"
    /\ stdin = "open"
    /\ relayed < MaxPluginRequests
    /\ relayed' = relayed + 1
    /\ \/ /\ srv[Launcher] # "closed"
          /\ up' = Send(up, Launcher, Request(relayed'))
          /\ UNCHANGED <<pc, sending>>
       \/ /\ srv[Launcher] = "closed"
          /\ Leave(Launcher)
          /\ UNCHANGED up
    /\ UNCHANGED <<down, stdin>>
    /\ OnlyLauncher

RelayDown ==
    /\ pc[Launcher] = "live"
    /\ down[Launcher] # <<>>
    /\ down' = Received(down, Launcher)
    /\ UNCHANGED <<pc, up, sending, launcherVars>>
    /\ OnlyLauncher

(* Mutant of CloseInput: the end of the input is not passed on.            *)
CloseInputOnly ==
    /\ pc[Launcher] = "live"
    /\ stdin = "open"
    /\ stdin' = "closed"
    /\ UNCHANGED <<pc, up, down, sending, relayed>>
    /\ OnlyLauncher

(* The plugin closes its end: the copy ends and the socket's writing half  *)
(* is shut down.                                                           *)
CloseInput ==
    /\ pc[Launcher] = "live"
    /\ stdin = "open"
    /\ stdin' = "closed"
    /\ sending' = [sending EXCEPT ![Launcher] = FALSE]
    /\ UNCHANGED <<pc, up, down, relayed>>
    /\ OnlyLauncher

(* Both copies are at their end.                                           *)
ExitLauncher ==
    /\ pc[Launcher] = "live"
    /\ stdin = "closed"
    /\ down[Launcher] = <<>>
    /\ srv[Launcher] = "closed"
    /\ Leave(Launcher)
    /\ UNCHANGED <<up, down, launcherVars>>
    /\ OnlyLauncher

-----------------------------------------------------------------------------
SessionStep(c) ==
    \/ ReadRequest(c)
    \/ \E id \in tasks[c] : EndTask(c, id)
    \/ EndConnection(c)

BridgeStep ==
    \/ BeginCall
    \/ \E k \in Call : ReadResponse(k) \/ StreamEnds(k) \/ ResponseTimeout(k)

LauncherStep == RelayDown \/ ExitLauncher

HostStep ==
    \/ \E k \in Call, what \in Input : Submit(k, what)
    \/ StopBridge
    \/ RelayUp
    \/ CloseInput

Next ==
    \/ \E p \in Process : LoadSecret(p)
    \/ \E c \in Client : SetUp(c) \/ Admit(c) \/ SessionStep(c) \/ Expire(c)
    \/ Start
    \/ StopDaemon
    \/ BridgeStep
    \/ LauncherStep
    \/ HostStep

Spec == Init /\ [][Next]_vars

(* The runtimes of the clients run and their timers go off; so do the      *)
(* connections a daemon has admitted, for as long as it lives.  Nothing is *)
(* assumed of its start, of its handshake or of the hosts.                 *)
Fairness ==
    /\ \A c \in Client :
          WF_vars(SetUp(c)) /\ WF_vars(LoadSecret(c)) /\ WF_vars(SessionStep(c))
    /\ WF_vars(BridgeStep)
    /\ WF_vars(LauncherStep)

FairSpec == Spec /\ Fairness
-----------------------------------------------------------------------------
(* Properties *)

(* Every variable has its type; no request is sent with the id 0 and no id *)
(* leaves the range of the field, also after the counter has wrapped.      *)
TypeOK ==
    /\ SessionTypeOK
    /\ pc \in [Process -> {"new", "off", "get", "set", "bind", "chmod", "serving", "inspect",
                           "connect", "challenge", "ready", "live"}]
    /\ input \in [Call -> Input]
    /\ call \in [Call -> {"new", "waiting", "writing", "sent", "returned"}]
    /\ waiting \in Seq(Call)
    /\ usable \in BOOLEAN
    /\ nextId \in 1..MaxId /\ requestId \in 0..MaxId
    /\ expired \in [Client -> BOOLEAN]
    /\ stdin \in {"open", "closed"}
    /\ relayed \in 0..MaxPluginRequests

(* Processes that hold a secret hold the stored one, unless two of them    *)
(* found the store empty at the same time: get and set are separate, and   *)
(* the daemon and the bridge may both create.                              *)
SecretIsShared ==
    ~overlapped => \A p \in Process :
        Present(p) /\ secret[p] # NoSecret => Decodes(entry) /\ secret[p] = entry.secret

(* A client that is in a session, or waits for its admission, deals with a *)
(* daemon that has its secret and its protocol and means the same session  *)
(* in the same role; one that has verified the challenge is not rejected.  *)
SessionsAgree ==
    \A c \in Client :
        /\ pc[c] \in {"ready", "live"} =>
              /\ accepted[c] = offered[c]
              /\ srv[c] # "closed" =>
                    secret[c] = secret[Daemon] /\ protocol[c] = PROTOCOL_VERSION
        /\ pc[c] = "live" => srv[c] \in {"serving", "ending", "closed"}
        /\ pc[c] = "ready" /\ down[c] # <<>> => Head(down[c]) = Ready(accepted[c])

(* While the bridge calls its connection usable and no call is out, no     *)
(* frame of an earlier call is under way in either direction: the next     *)
(* frame it reads is the answer to its next call, whatever ids repeat.     *)
BridgeInStep ==
    /\ pc[Bridge] = "live" /\ usable /\ Idle =>
          up[Bridge] = <<>> /\ down[Bridge] = <<>> /\ tasks[Bridge] = {}
    /\ \A k \in Call : outcome[k] # "mismatch"

(* Refusals do not cost the bridge its connection: it is lost only by a    *)
(* call that timed out or met a broken stream or an oversized frame.       *)
RefusalsAreHarmless ==
    ~usable => \E k \in Call : outcome[k] \in {"timeout", "frame"}

Calls == INSTANCE SerialCalls
             WITH stage <- [k \in Call |-> IF call[k] \in {"writing", "sent"} THEN "out"
                                                                       ELSE call[k]],
                  line <- waiting,
                  result <- outcome

(* With two pipes, the tasks of the daemon, ids that repeat and a daemon   *)
(* that restarts below it, the bridge is to its calls a line with one      *)
(* counter: first come first served, every answer to the call that asked,  *)
(* and nothing sent after a call that was given up.                        *)
CallsAreSerial == Calls!Spec

(* Every tool call returns, also when its response is lost, behind a call  *)
(* that times out, and on a connection that has died.                      *)
EveryCallReturns ==
    \A k \in Call : call[k] = "waiting" ~> call[k] = "returned" \/ pc[Bridge] = "off"

(* A client that starts comes to a session or ends, whatever the daemon    *)
(* does or leaves undone.                                                  *)
ClientsSettle ==
    \A c \in Client : pc[c] = "get" ~> pc[c] \in {"live", "off"}

(* The launcher ends after the plugin has closed its input: the end of the *)
(* input is passed on, the daemon closes its side, and the relay stops.    *)
LauncherEnds == stdin = "closed" ~> pc[Launcher] = "off"
=============================================================================
