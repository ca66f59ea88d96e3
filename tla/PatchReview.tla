----------------------------- MODULE PatchReview ------------------------------
(***************************************************************************)
(* The Obsidian plugin's reviewed replacement of a note.  A review reads   *)
(* the note, asks the user for a replacement, has the companion compare    *)
(* the revision with its index (with retries while the index lags), shows  *)
(* the diff, and writes through Vault.process once the user has approved.  *)
(* Every await is a point where the user, another review, the companion or *)
(* the plugin's own end can get in between.                                *)
(*                                                                         *)
(* The reviews are of one note: one TFile object, which keeps its identity *)
(* while its text and its path change.                                     *)
(***************************************************************************)
EXTENDS Integers, FiniteSets

CONSTANTS
    Review,        \* runs of the command
    Path,          \* paths the note may be given
    SafePath,      \* the ones isSafeMarkdownPath accepts
    Text,          \* texts of the note; a revision is the SHA-256 of one
    Oversized,     \* texts beyond the limits of a review
    MaxAttempts,   \* INDEX_RECONCILIATION_RETRY_ATTEMPTS
    MaxEdits,      \* bound on edits, renames and deletions by the user
    MaxSettings    \* bound on changes of the settings

NoText == "no text"    \* the note is deleted, or has no row in the index
NoDiff == [path |-> NoText, before |-> NoText, after |-> NoText]

ASSUME ReviewAssumption ==
    /\ SafePath \subseteq Path
    /\ Oversized \subseteq Text
    /\ NoText \notin Text
    /\ MaxAttempts \in Nat \ {0}
    /\ MaxEdits \in Nat
    /\ MaxSettings \in Nat

(* A settings change closes the session client; the next command makes a   *)
(* new one, so clients are numbered by the changes before them.            *)
Client == 0..MaxSettings

VARIABLES
    text, path,      \* the note in Obsidian
    indexed,         \* indexed[p]: the text the companion's index has for p
    pc,              \* pc[r]: the await at which review r stands
    currentContent,  \* currentContent[r]: what vault.read returned
    replacement,     \* replacement[r]: what the user typed
    requestPath,     \* requestPath[r]: the path in the request
    attempt,         \* attempt[r]: requests answered "stale index" so far
    client,          \* client[r]: the client the review's requests go through
    diff,            \* diff[r]: what is on display for approval
    settings,        \* the plugin's current client
    sessions,        \* clients with a launcher process attached
    unloaded,        \* the lifecycle signal is aborted
    written,         \* history: what each review wrote over what
    edits            \* counter behind MaxEdits

noteVars == <<text, path, indexed>>
localVars == <<currentContent, replacement, requestPath, attempt, client, diff>>
pluginVars == <<settings, sessions, unloaded>>
vars == <<noteVars, pc, localVars, pluginVars, written, edits>>

Init ==
    /\ text \in Text
    /\ path \in Path
    /\ indexed \in [Path -> Text \cup {NoText}]
    /\ pc = [r \in Review |-> "idle"]
    /\ currentContent = [r \in Review |-> NoText]
    /\ replacement = [r \in Review |-> NoText]
    /\ requestPath = [r \in Review |-> path]
    /\ attempt = [r \in Review |-> 0]
    /\ client = [r \in Review |-> 0]
    /\ diff = [r \in Review |-> NoDiff]
    /\ settings = 0
    /\ sessions = {}
    /\ unloaded = FALSE
    /\ written = [r \in Review |-> NoDiff]
    /\ edits = 0

Goto(r, label) == pc' = [pc EXCEPT ![r] = label]

-----------------------------------------------------------------------------
(* #reviewReplacement *)

(* The command is available while the plugin is loaded and the note is     *)
(* open; it calls vault.read.                                              *)
Begin(r) ==
    /\ pc[r] = "idle"
    /\ ~unloaded
    /\ text # NoText
    /\ Goto(r, "reading")
    /\ UNCHANGED <<noteVars, localVars, pluginVars, written, edits>>

ReadReturns(r) ==
    /\ pc[r] = "reading"
    /\ currentContent' = [currentContent EXCEPT ![r] = text]
    /\ Goto(r, IF unloaded \/ text = NoText THEN "done" ELSE "input")
    /\ UNCHANGED <<noteVars, replacement, requestPath, attempt, client, diff, pluginVars,
                   written, edits>>

(* The user submits a replacement, and the request leaves through the      *)
(* plugin's client, which attaches a launcher process if it has none.      *)
Submit(r, t) ==
    /\ pc[r] = "input"
    /\ replacement' = [replacement EXCEPT ![r] = t]
    /\ requestPath' = [requestPath EXCEPT ![r] = path]
    /\ client' = [client EXCEPT ![r] = settings]
    /\ sessions' = sessions \cup {settings}
    /\ Goto(r, "proposing")
    /\ UNCHANGED <<noteVars, currentContent, attempt, diff, settings, unloaded, written, edits>>

(* The user closes either dialog.                                          *)
Dismiss(r) ==
    /\ pc[r] \in {"input", "approval"}
    /\ Goto(r, "done")
    /\ UNCHANGED <<noteVars, localVars, pluginVars, written, edits>>

(* preparePatchReview accepts the proposal, which the companion made from  *)
(* the request: the note still has its path, the path is portable, the     *)
(* text changes and is small enough to be shown whole.                     *)
Reviewable(r) ==
    /\ path = requestPath[r]
    /\ path \in SafePath
    /\ replacement[r] # currentContent[r]
    /\ {replacement[r], currentContent[r]} \cap Oversized = {}

(* propose_note_replacement finds the expected revision in the index.  The *)
(* approval dialog does not open once the lifecycle signal is aborted.     *)
ProposalArrives(r) ==
    /\ pc[r] = "proposing"
    /\ requestPath[r] \in SafePath
    /\ indexed[requestPath[r]] = currentContent[r]
    /\ IF ~unloaded /\ Reviewable(r)
         THEN /\ Goto(r, "approval")
              /\ diff' = [diff EXCEPT ![r] = [path |-> path,
                                              before |-> currentContent[r],
                                              after |-> replacement[r]]]
         ELSE /\ Goto(r, "done")
              /\ UNCHANGED diff
    /\ UNCHANGED <<noteVars, currentContent, replacement, requestPath, attempt, client,
                   pluginVars, written, edits>>

(* Mutants of StaleIndex: the attempts are not counted; one too many.      *)
StaleIndexForever(r) ==
    /\ pc[r] = "proposing"
    /\ requestPath[r] \in SafePath
    /\ indexed[requestPath[r]] \notin {currentContent[r], NoText}
    /\ Goto(r, IF unloaded THEN "done" ELSE "delay")
    /\ UNCHANGED <<noteVars, localVars, pluginVars, written, edits>>

StaleIndexOnceMore(r) ==
    /\ pc[r] = "proposing"
    /\ requestPath[r] \in SafePath
    /\ indexed[requestPath[r]] \notin {currentContent[r], NoText}
    /\ attempt' = [attempt EXCEPT ![r] = @ + 1]
    /\ Goto(r, IF unloaded \/ attempt[r] + 1 > MaxAttempts THEN "done" ELSE "delay")
    /\ UNCHANGED <<noteVars, currentContent, replacement, requestPath, client, diff,
                   pluginVars, written, edits>>

(* Code -32007: the index has another revision.  The request is tried      *)
(* again after a delay, MaxAttempts times in all.                          *)
StaleIndex(r) ==
    /\ pc[r] = "proposing"
    /\ requestPath[r] \in SafePath
    /\ indexed[requestPath[r]] \notin {currentContent[r], NoText}
    /\ attempt' = [attempt EXCEPT ![r] = @ + 1]
    /\ Goto(r, IF unloaded \/ attempt[r] + 1 >= MaxAttempts THEN "done" ELSE "delay")
    /\ UNCHANGED <<noteVars, currentContent, replacement, requestPath, client, diff,
                   pluginVars, written, edits>>

(* Code -32602: no row for the path, or a path or text the companion       *)
(* refuses.  This is not tried again, like the refusal of an envelope.     *)
RequestRefused(r) ==
    /\ pc[r] = "proposing"
    /\ \/ requestPath[r] \notin SafePath
       \/ indexed[requestPath[r]] = NoText
       \/ replacement[r] \in Oversized
    /\ Goto(r, "done")
    /\ UNCHANGED <<noteVars, localVars, pluginVars, written, edits>>

(* Mutant of DelayEnds: the end of the plugin is not noticed.              *)
DelayEndsBlindly(r) ==
    /\ pc[r] = "delay"
    /\ Goto(r, "proposing")
    /\ sessions' = sessions \cup {client[r]}
    /\ UNCHANGED <<noteVars, localVars, settings, unloaded, written, edits>>

(* The delay is over.  The same client object is used again, also when a   *)
(* change of settings has closed it since: it then attaches a new process. *)
DelayEnds(r) ==
    /\ pc[r] = "delay"
    /\ IF unloaded
         THEN Goto(r, "done") /\ UNCHANGED sessions
         ELSE Goto(r, "proposing") /\ sessions' = sessions \cup {client[r]}
    /\ UNCHANGED <<noteVars, localVars, settings, unloaded, written, edits>>

(* The user approves; the proposal is validated against the note's path    *)
(* once more and vault.process is called.                                  *)
Approve(r) ==
    /\ pc[r] = "approval"
    /\ Goto(r, IF path = diff[r].path /\ path \in SafePath THEN "applying" ELSE "done")
    /\ UNCHANGED <<noteVars, localVars, pluginVars, written, edits>>

(* Mutant of Process: the revision is not compared again.                  *)
ProcessUnchecked(r) ==
    /\ pc[r] = "applying"
    /\ text' = diff[r].after
    /\ written' = [written EXCEPT ![r] = [path |-> path, before |-> text, after |-> text']]
    /\ Goto(r, "done")
    /\ UNCHANGED <<path, indexed, localVars, pluginVars, edits>>

(* Vault.process reads the note, runs the callback and writes its result   *)
(* as one step.  A stale or missing note ends the review with an error.    *)
Process(r) ==
    /\ pc[r] = "applying"
    /\ IF text = diff[r].before
         THEN /\ text' = diff[r].after
              /\ written' = [written EXCEPT ![r] = [path |-> path,
                                                    before |-> text,
                                                    after |-> text']]
         ELSE UNCHANGED <<text, written>>
    /\ Goto(r, "done")
    /\ UNCHANGED <<path, indexed, localVars, pluginVars, edits>>

-----------------------------------------------------------------------------
(* The session client and the plugin's life *)

(* #failConnection: every pending request of the client is rejected, and   *)
(* its review ends, for an unavailable companion is not tried again.       *)
Rejected(c) ==
    pc' = [r \in Review |-> IF pc[r] = "proposing" /\ client[r] = c THEN "done" ELSE pc[r]]

(* A response timeout, a write error, a bad frame or the end of the        *)
(* launcher process.                                                       *)
SessionFails(c) ==
    /\ c \in sessions
    /\ sessions' = sessions \ {c}
    /\ Rejected(c)
    /\ UNCHANGED <<noteVars, localVars, settings, unloaded, written, edits>>

(* #checkHealth attaches the client's session as well.                     *)
CheckHealth ==
    /\ ~unloaded
    /\ sessions' = sessions \cup {settings}
    /\ UNCHANGED <<noteVars, pc, localVars, settings, unloaded, written, edits>>

UpdateSettings ==
    /\ ~unloaded
    /\ settings < MaxSettings
    /\ settings' = settings + 1
    /\ sessions' = sessions \ {settings}
    /\ Rejected(settings)
    /\ UNCHANGED <<noteVars, localVars, unloaded, written, edits>>

(* The abort signal settles the open dialogs with their cancelled value.   *)
Unload ==
    /\ ~unloaded
    /\ unloaded' = TRUE
    /\ sessions' = sessions \ {settings}
    /\ pc' = [r \in Review |->
                 IF \/ pc[r] \in {"input", "approval"}
                    \/ pc[r] = "proposing" /\ client[r] = settings
                   THEN "done" ELSE pc[r]]
    /\ UNCHANGED <<noteVars, localVars, settings, written, edits>>

-----------------------------------------------------------------------------
(* The user's own changes of the note, and the companion's index *)

CountEdit ==
    /\ edits < MaxEdits
    /\ edits' = edits + 1
    /\ UNCHANGED <<indexed, pc, localVars, pluginVars, written>>

Edit(t) ==
    /\ CountEdit
    /\ text \notin {NoText, t}
    /\ text' = t
    /\ UNCHANGED path

Rename(p) ==
    /\ CountEdit
    /\ path # p
    /\ path' = p
    /\ UNCHANGED text

Delete ==
    /\ CountEdit
    /\ text # NoText
    /\ text' = NoText
    /\ UNCHANGED path

(* The watcher's reconciliation of one path (module VaultWatcher).         *)
Reconcile(p) ==
    /\ indexed' = [indexed EXCEPT ![p] = IF p = path THEN text ELSE NoText]
    /\ indexed' # indexed
    /\ UNCHANGED <<text, path, pc, localVars, pluginVars, written, edits>>

-----------------------------------------------------------------------------
Answered(r) == ProposalArrives(r) \/ StaleIndex(r) \/ RequestRefused(r)

ReviewStep(r) ==
    \/ Begin(r)
    \/ ReadReturns(r)
    \/ \E t \in Text : Submit(r, t)
    \/ Dismiss(r)
    \/ Answered(r)
    \/ DelayEnds(r)
    \/ Approve(r)
    \/ Process(r)

Environment ==
    \/ \E c \in Client : SessionFails(c)
    \/ CheckHealth
    \/ UpdateSettings
    \/ Unload
    \/ \E t \in Text : Edit(t)
    \/ \E p \in Path : Rename(p)
    \/ Delete
    \/ \E p \in Path : Reconcile(p)

Next == Environment \/ \E r \in Review : ReviewStep(r)

Spec == Init /\ [][Next]_vars

(* Obsidian completes its reads and writes, timers fire, and a request is  *)
(* answered or its timeout fails the session.  The user owes nothing, and  *)
(* the index need not catch up.                                            *)
FairSpec ==
    /\ Spec
    /\ \A r \in Review :
          /\ WF_vars(ReadReturns(r))
          /\ WF_vars(Answered(r))
          /\ WF_vars(DelayEnds(r))
          /\ WF_vars(Process(r))

-----------------------------------------------------------------------------
(* Properties *)

Diff == [path : Path \cup {NoText}, before : Text \cup {NoText}, after : Text \cup {NoText}]

TypeOK ==
    /\ text \in Text \cup {NoText}
    /\ path \in Path
    /\ indexed \in [Path -> Text \cup {NoText}]
    /\ pc \in [Review -> {"idle", "reading", "input", "proposing", "delay", "approval",
                          "applying", "done"}]
    /\ currentContent \in [Review -> Text \cup {NoText}]
    /\ replacement \in [Review -> Text \cup {NoText}]
    /\ requestPath \in [Review -> Path]
    /\ attempt \in [Review -> 0..MaxAttempts]
    /\ client \in [Review -> Client]
    /\ diff \in [Review -> Diff]
    /\ settings \in Client
    /\ sessions \in SUBSET Client
    /\ unloaded \in BOOLEAN
    /\ written \in [Review -> Diff]
    /\ edits \in 0..MaxEdits

(* What a review writes, and what it writes it over, are the two sides of  *)
(* the diff that was on display when the user approved: no edit, no other  *)
(* review and no answer for another text can slip in between, and a change *)
(* of the note made since the diff was shown is never overwritten.         *)
OnlyReviewedWrites ==
    \A r \in Review :
        written[r] # NoDiff =>
            /\ <<written[r].before, written[r].after>> = <<diff[r].before, diff[r].after>>
            /\ diff[r].before = currentContent[r]
            /\ diff[r].after = replacement[r]

(* Once the plugin is unloaded it shows no dialog, although a review may   *)
(* still be waiting for Obsidian, for the companion or for a delay, and    *)
(* its own session stays closed, although a retry may be due.              *)
QuietAfterUnload ==
    unloaded => /\ \A r \in Review : pc[r] \notin {"input", "approval"}
                /\ settings \notin sessions

(* A review never waits for anything but the user: it reaches a dialog or  *)
(* its end whatever the index, the companion and other reviews do.         *)
NeverStuck ==
    \A r \in Review :
        pc[r] \in {"reading", "proposing", "delay", "applying"}
            ~> pc[r] \in {"input", "approval", "done"}
=============================================================================
