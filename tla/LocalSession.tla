---------------------------- MODULE LocalSession -----------------------------
(***************************************************************************)
(* How a client and the daemon reach an authenticated session: the client  *)
(* inspects the endpoint, connects, and both sides run the handshake, each *)
(* under its own timeout.  Every client process makes one connection.      *)
(*                                                                         *)
(* A message authentication code is the tuple of its key and of what it    *)
(* covers, a random token is a value that nothing else has.                *)
(***************************************************************************)
EXTENDS CredentialStore

CONSTANTS
    Protocol,         \* the protocol versions of the clients' builds
    MaxDaemonStarts,  \* bound on starts of the daemon
    MaxClients        \* bound on the clients that are started

ASSUME SessionAssumption ==
    /\ Protocol \subseteq Nat
    /\ MaxDaemonStarts \in Nat
    /\ MaxClients \in Nat

PROTOCOL_VERSION == 1   \* of the daemon's build

VARIABLES
    protocol,     \* protocol[c]: PROTOCOL_VERSION of the build that c runs
    socketFile,   \* "none", "open" (not yet private) or "private"
    srv,          \* srv[c]: the daemon's side of the connection of c
    up, down,     \* up[c], down[c]: frames to the daemon and to the client
    sending,      \* sending[c]: the client has not closed its writing half
    offered,      \* offered[c]: the transcript of the daemon's challenge
    accepted      \* accepted[c]: the transcript the client has verified

connectionVars == <<srv, up, down, sending, offered, accepted>>
sessionVars == <<pc, starts, credentialVars, protocol, socketFile, connectionVars>>

RoleOf(c) == IF c = Bridge THEN "mcp-readonly" ELSE "plugin"

SessionInit ==
    /\ CredentialInit
    /\ pc = [p \in Process |-> IF p = Daemon THEN "off" ELSE "new"]
    /\ starts = 0
    /\ protocol \in [Client -> Protocol]
    /\ socketFile = "none"
    /\ srv = [c \in Client |-> "none"]
    /\ up = [c \in Client |-> <<>>]
    /\ down = [c \in Client |-> <<>>]
    /\ sending = [c \in Client |-> FALSE]
    /\ offered = [c \in Client |-> <<>>]
    /\ accepted = [c \in Client |-> <<>>]

-----------------------------------------------------------------------------
(* The frames of the handshake *)

Hello(c) == [protocol |-> protocol[c], role |-> RoleOf(c), nonce |-> <<"nonce", c>>]
HelloFrame(c) == [type |-> "hello", hello |-> Hello(c)]
Transcript(hello, session, nonce) ==
    [hello |-> hello, session |-> session, nonce |-> nonce]

(* Mutant of Proof: the key does not take part.                            *)
ProofWithoutKey(key, actor, transcript) == <<actor, transcript>>

(* create_proof; verify_proof compares.                                    *)
Proof(key, actor, transcript) == <<key, actor, transcript>>

Challenge(c, transcript) ==
    [type |-> "challenge", protocol |-> PROTOCOL_VERSION, session |-> transcript.session,
     nonce |-> transcript.nonce, proof |-> Proof(secret[Daemon], "server", transcript)]
Authenticate(c, transcript) ==
    [type |-> "authenticate", session |-> transcript.session,
     proof |-> Proof(secret[c], "client", transcript)]
Ready(transcript) ==
    [type |-> "ready", session |-> transcript.session, role |-> transcript.hello.role]
Rejected == [type |-> "rejected"]

Send(pipe, c, frame) == [pipe EXCEPT ![c] = Append(@, frame)]
Received(pipe, c) == [pipe EXCEPT ![c] = Tail(@)]

(* The client's process ends, or drops its stream.                         *)
Leave(c) ==
    /\ Goto(c, "off")
    /\ sending' = [sending EXCEPT ![c] = FALSE]

Present(c) == pc[c] \notin {"new", "off"}
SetSrv(c, label) == srv' = [srv EXCEPT ![c] = label]

-----------------------------------------------------------------------------
(* The client: connect_authenticated and authenticate_client *)

StartClient(c) ==
    /\ pc[c] = "new"
    /\ Cardinality({d \in Client : pc[d] # "new"}) < MaxClients
    /\ Goto(c, "get")
    /\ UNCHANGED <<starts, credentialVars, protocol, socketFile, connectionVars>>

(* The endpoint must be a private socket of the current user.              *)
Inspect(c) ==
    /\ pc[c] = "inspect"
    /\ Goto(c, IF socketFile = "private" THEN "connect" ELSE "off")
    /\ UNCHANGED <<starts, credentialVars, protocol, socketFile, connectionVars>>

(* bind listens; connections that come before accept wait in the backlog.  *)
Listening == pc[Daemon] \in {"chmod", "serving"}

(* A connection that is taken carries the hello at once; a socket that     *)
(* nobody listens on refuses, as does one that is not there any more.      *)
Connect(c) ==
    /\ pc[c] = "connect"
    /\ \/ /\ Listening
          /\ Goto(c, "challenge")
          /\ SetSrv(c, "hello")
          /\ up' = Send(up, c, HelloFrame(c))
          /\ sending' = [sending EXCEPT ![c] = TRUE]
       \/ /\ ~Listening
          /\ Goto(c, "off")
          /\ UNCHANGED <<srv, up, sending>>
    /\ UNCHANGED <<starts, credentialVars, protocol, socketFile, down, offered, accepted>>

(* The challenge is verified with the client's own secret before the       *)
(* client proves anything itself.                                          *)
ReadChallenge(c) ==
    /\ pc[c] = "challenge"
    /\ down[c] # <<>>
    /\ LET frame == Head(down[c])
           transcript == Transcript(Hello(c), frame.session, frame.nonce)
           good == /\ frame.type = "challenge"
                   /\ frame.protocol = protocol[c]
                   /\ frame.proof = Proof(secret[c], "server", transcript)
                   /\ srv[c] # "closed"
       IN  \/ /\ good
              /\ accepted' = [accepted EXCEPT ![c] = transcript]
              /\ up' = Send(up, c, Authenticate(c, transcript))
              /\ Goto(c, "ready")
              /\ UNCHANGED sending
           \/ /\ ~good
              /\ Leave(c)
              /\ UNCHANGED <<up, accepted>>
    /\ down' = Received(down, c)
    /\ UNCHANGED <<starts, credentialVars, protocol, socketFile, srv, offered>>

ReadReady(c) ==
    /\ pc[c] = "ready"
    /\ down[c] # <<>>
    /\ IF Head(down[c]) = Ready(accepted[c])
         THEN Goto(c, "live") /\ UNCHANGED sending
         ELSE Leave(c)
    /\ down' = Received(down, c)
    /\ UNCHANGED <<starts, credentialVars, protocol, socketFile, srv, up, offered, accepted>>

(* Mutant of HandshakeFails: only the end of the stream ends it.           *)
HandshakeFailsAtEof(c) ==
    /\ pc[c] \in {"challenge", "ready"}
    /\ down[c] = <<>> /\ srv[c] = "closed"
    /\ Leave(c)
    /\ UNCHANGED <<starts, credentialVars, protocol, socketFile, srv, up, down, offered, accepted>>

(* HANDSHAKE_TIMEOUT; reading the end of the stream ends it no later.      *)
HandshakeFails(c) ==
    /\ pc[c] \in {"challenge", "ready"}
    /\ Leave(c)
    /\ UNCHANGED <<starts, credentialVars, protocol, socketFile, srv, up, down, offered, accepted>>

-----------------------------------------------------------------------------
(* The daemon's side: authenticate_server *)

(* An answer to a client that has gone is an error, and the connection is  *)
(* dropped.                                                                *)
Reply(c, frame, next) ==
    \/ /\ Present(c)
       /\ down' = Send(down, c, frame)
       /\ SetSrv(c, next)
    \/ /\ ~Present(c)
       /\ SetSrv(c, "closed")
       /\ UNCHANGED down

ReadHello(c) ==
    /\ pc[Daemon] = "serving"
    /\ srv[c] = "hello"
    /\ up[c] # <<>>
    /\ LET hello == Head(up[c]).hello
           transcript == Transcript(hello, <<"session", c>>, <<"server nonce", c>>)
       IN  \/ /\ hello.protocol = PROTOCOL_VERSION
              /\ offered' = [offered EXCEPT ![c] = transcript]
              /\ Reply(c, Challenge(c, transcript), "authenticate")
           \/ /\ hello.protocol # PROTOCOL_VERSION
              /\ Reply(c, Rejected, "closed")
              /\ UNCHANGED offered
    /\ up' = Received(up, c)
    /\ UNCHANGED <<pc, starts, credentialVars, protocol, socketFile, sending, accepted>>

ReadAuthenticate(c) ==
    /\ srv[c] = "authenticate"
    /\ up[c] # <<>>
    /\ LET frame == Head(up[c])
           good == /\ frame.session = offered[c].session
                   /\ frame.proof = Proof(secret[Daemon], "client", offered[c])
       IN  IF good THEN Reply(c, Ready(offered[c]), "serving") ELSE Reply(c, Rejected, "closed")
    /\ up' = Received(up, c)
    /\ UNCHANGED <<pc, starts, credentialVars, protocol, socketFile, sending, offered, accepted>>

(* The handshake's timeout, or the end of the client's stream.             *)
ServerHandshakeFails(c) ==
    /\ pc[Daemon] = "serving"
    /\ srv[c] \in {"hello", "authenticate"}
    /\ SetSrv(c, "closed")
    /\ UNCHANGED <<pc, starts, credentialVars, protocol, socketFile, up, down, sending, offered, accepted>>

-----------------------------------------------------------------------------
(* The daemon's process *)

StartDaemon ==
    /\ pc[Daemon] = "off"
    /\ starts < MaxDaemonStarts
    /\ starts' = starts + 1
    /\ Goto(Daemon, "get")
    /\ UNCHANGED <<credentialVars, protocol, socketFile, connectionVars>>

(* bind_private_listener; a file that a dead daemon never made private is  *)
(* refused.                                                                *)
Bind ==
    /\ pc[Daemon] = "bind"
    /\ \/ socketFile # "open" /\ socketFile' = "open" /\ Goto(Daemon, "chmod")
       \/ socketFile = "open" /\ UNCHANGED socketFile /\ Goto(Daemon, "off")
    /\ UNCHANGED <<starts, credentialVars, protocol, connectionVars>>

Chmod ==
    /\ pc[Daemon] = "chmod"
    /\ socketFile' = "private"
    /\ Goto(Daemon, "serving")
    /\ UNCHANGED <<starts, credentialVars, protocol, connectionVars>>

(* The process is gone, and its ends of all connections with it.  Only an  *)
(* orderly end of a serving daemon removes the socket.                     *)
DaemonGone ==
    /\ pc[Daemon] # "off"
    /\ Goto(Daemon, "off")
    /\ secret' = [secret EXCEPT ![Daemon] = NoSecret]
    /\ srv' = [c \in Client |-> IF srv[c] = "none" THEN "none" ELSE "closed"]
    /\ up' = [c \in Client |-> <<>>]
    /\ \/ UNCHANGED socketFile
       \/ pc[Daemon] = "serving" /\ socketFile' = "none"
    /\ UNCHANGED <<starts, entry, overlapped, protocol, down, sending, offered, accepted>>

-----------------------------------------------------------------------------
SessionTypeOK ==
    /\ CredentialTypeOK
    /\ starts \in 0..MaxDaemonStarts
    /\ protocol \in [Client -> Protocol]
    /\ socketFile \in {"none", "open", "private"}
    /\ srv \in [Client -> {"none", "hello", "authenticate", "serving", "ending", "closed"}]
    /\ sending \in [Client -> BOOLEAN]
=============================================================================
