--------------------------- MODULE CredentialStore ---------------------------
(***************************************************************************)
(* The root secret of the local sessions: one entry of the operating       *)
(* system's credential store, which the daemon and the MCP bridge load or  *)
(* create when they start and which the launcher only loads.  The store    *)
(* offers get and set and nothing that joins them.                         *)
(*                                                                         *)
(* The module owns the entry, the secret each process holds in memory and  *)
(* the position of each process.  LocalSession goes on from there.         *)
(***************************************************************************)
EXTENDS Integers, Sequences, FiniteSets

Daemon == "daemon"        \* grimmored serve
Bridge == "bridge"        \* grimmored mcp-stdio
Launcher == "launcher"    \* grimmore-launcher plugin-session
Client == {Bridge, Launcher}
Process == Client \cup {Daemon}

(* Who calls load_or_create; the launcher calls load.                      *)
Creator == {Daemon, Bridge}

VARIABLES
    pc,           \* pc[p]: where process p stands
    starts,       \* how often the daemon has been started
    entry,        \* the value stored under ipc-root-v1
    secret,       \* secret[p]: the RootSecret that p holds
    overlapped    \* history: two processes were creating at the same time

credentialVars == <<entry, secret, overlapped>>

NoSecret == <<"none", 0>>
LegacySecret == <<"legacy", 0>>
Generated(p) == <<p, starts>>
Secret == {LegacySecret} \cup (Creator \X Nat)

(* What can be in the store: nothing, the bytes an earlier release wrote,  *)
(* a prefixed encoding, or something that is neither.                      *)
NoEntry == [form |-> "none", secret |-> NoSecret]
RawValue(s) == [form |-> "raw", secret |-> s]
StoreValue(s) == [form |-> "prefixed", secret |-> s]
Malformed == [form |-> "malformed", secret |-> NoSecret]
Decodes(value) == value.form \in {"raw", "prefixed"}

CredentialInit ==
    /\ entry \in {NoEntry, RawValue(LegacySecret), Malformed}
    /\ secret = [p \in Process |-> NoSecret]
    /\ overlapped = FALSE

Goto(p, label) == pc' = [pc EXCEPT ![p] = label]

(* Mutant of GetSecret: an entry that is there is not used.                *)
GetSecretAnew(p, next) ==
    /\ pc[p] = "get"
    /\ Goto(p, IF p \in Creator THEN "set" ELSE "off")
    /\ overlapped' = (overlapped \/ \E q \in Process \ {p} : pc[q] = "set")
    /\ UNCHANGED <<starts, entry, secret>>

(* get_secret and what load and load_or_create make of the answer.         *)
GetSecret(p, next) ==
    /\ pc[p] = "get"
    /\ \/ /\ Decodes(entry)
          /\ secret' = [secret EXCEPT ![p] = entry.secret]
          /\ Goto(p, next)
          /\ UNCHANGED overlapped
       \/ /\ entry = NoEntry
          /\ p \in Creator
          /\ Goto(p, "set")
          /\ overlapped' = (overlapped \/ \E q \in Process \ {p} : pc[q] = "set")
          /\ UNCHANGED secret
       \/ /\ ~Decodes(entry)
          /\ entry = NoEntry => p \notin Creator
          /\ Goto(p, "off")
          /\ UNCHANGED <<secret, overlapped>>
    /\ UNCHANGED <<starts, entry>>

(* A new secret is generated and stored, over whatever is there by now.    *)
SetSecret(p, next) ==
    /\ pc[p] = "set"
    /\ entry' = StoreValue(Generated(p))
    /\ secret' = [secret EXCEPT ![p] = Generated(p)]
    /\ Goto(p, next)
    /\ UNCHANGED <<starts, overlapped>>

(* The store answers get_secret or set_secret with an error.               *)
StoreFails(p) ==
    /\ pc[p] \in {"get", "set"}
    /\ Goto(p, "off")
    /\ UNCHANGED <<starts, credentialVars>>
-----------------------------------------------------------------------------
CredentialTypeOK ==
    /\ entry \in {NoEntry, Malformed, RawValue(LegacySecret)}
                 \cup [form : {"prefixed"}, secret : Secret]
    /\ secret \in [Process -> Secret \cup {NoSecret}]
    /\ overlapped \in BOOLEAN
=============================================================================
