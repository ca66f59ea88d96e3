------------------------------- MODULE Database -------------------------------
(***************************************************************************)
(* The operational database as several processes use it: Storage::open     *)
(* with its migration, the mutex that each process keeps around its one    *)
(* connection, the two writers of the index and search_notes, which reads  *)
(* the revision and the hits in two statements.                            *)
(*                                                                         *)
(* SQLite is external: one write transaction at a time, a commit is atomic *)
(* and visible to the next statement, a process that dies takes its open   *)
(* transaction with it.  With synchronous = NORMAL a loss of power also    *)
(* takes commits that no checkpoint has synced, the last ones first.       *)
(***************************************************************************)
EXTENDS Naturals, Sequences, FiniteSets

CONSTANTS
    Process,       \* processes of grimmored with this database
    Thread,        \* their threads: requests, the watcher's task, the CLI
    ProcessOf,     \* ProcessOf[t]: the process of thread t
    Text,          \* what the rows of notes can hold, taken together
    Statements,    \* the number of statements of SCHEMA
    MaxStarts,     \* bound on starts of a process
    MaxJobs        \* bound on the jobs of the threads

SCHEMA_VERSION == 1
NewerVersion == 2
NoOne == "no one"

ASSUME ThreadAssumption ==
    ProcessOf \in [Thread -> Process] /\ NoOne \notin Process \cup Thread
ASSUME TextAssumption == Text # {}
ASSUME BoundsAssumption ==
    Statements \in Nat \ {0} /\ MaxStarts \in Nat /\ MaxJobs \in Nat

VARIABLES
    log,         \* the committed states of the database, the last one is current
    synced,      \* the commits up to this one survive a loss of power
    writer,      \* the process with an open write transaction
    draft,       \* the database as that transaction has left it
    open,        \* open[p]: where p stands in Storage::open
    contested,   \* history: another process was opening while p was
    mutex,       \* mutex[p]: the thread that holds the connection of p
    pc,          \* pc[t]: where thread t stands
    revision,    \* revision[t]: index_revision as search_notes has read it
    answer,      \* answer[t]: the last SearchNotesResult of t
    interfered,  \* history: another process committed inside the search of t
    starts, jobs \* counters behind the bounds

storageVars == <<log, synced, writer, draft>>
openVars == <<open, contested, starts>>
jobVars == <<mutex, pc, revision, answer, interfered, jobs>>
vars == <<storageVars, openVars, jobVars>>

db == log[Len(log)]
State == [version : 0..NewerVersion, tables : 0..Statements, revision : Nat, notes : Text]
NoText == CHOOSE x \in Text : TRUE
Empty == [version |-> 0, tables |-> 0, revision |-> 0, notes |-> NoText]
Newer == [Empty EXCEPT !.version = NewerVersion, !.tables = Statements]
NoAnswer == [revision |-> 0, hits |-> NoText]
ThreadsOf(p) == {t \in Thread : ProcessOf[t] = p}

Init ==
    /\ log \in {<<Empty>>, <<Newer>>}
    /\ synced = 1
    /\ writer = NoOne
    /\ draft = Empty
    /\ open = [p \in Process |-> "off"]
    /\ contested = [p \in Process |-> FALSE]
    /\ mutex = [p \in Process |-> NoOne]
    /\ pc = [t \in Thread |-> "idle"]
    /\ revision = [t \in Thread |-> 0]
    /\ answer = [t \in Thread |-> NoAnswer]
    /\ interfered = [t \in Thread |-> FALSE]
    /\ starts = [p \in Process |-> 0]
    /\ jobs = 0

SetOpen(p, label) == open' = [open EXCEPT ![p] = label]
Opening(p) == open[p] \in {"version", "begin", "migrate", "commit"}

(* A transaction ends, with its work or without it.                        *)
Commit ==
    /\ log' = Append(log, draft)
    /\ writer' = NoOne
    /\ UNCHANGED <<synced, draft>>

Rollback ==
    /\ writer' = NoOne
    /\ UNCHANGED <<log, synced, draft>>

Begin(p) ==
    /\ writer = NoOne
    /\ writer' = p
    /\ draft' = db
    /\ UNCHANGED <<log, synced>>

-----------------------------------------------------------------------------
(* Storage::open *)

OpenFile(p) ==
    /\ open[p] = "off"
    /\ starts[p] < MaxStarts
    /\ starts' = [starts EXCEPT ![p] = @ + 1]
    /\ SetOpen(p, "version")
    /\ contested' = [q \in Process |->
                        IF q = p THEN \E r \in Process \ {p} : Opening(r)
                                 ELSE contested[q] \/ Opening(q)]
    /\ UNCHANGED <<storageVars, jobVars>>

(* Turning a new file to WAL takes an exclusive lock, for which another    *)
(* process that opens it can be in the way.                                *)
PragmaBusy(p) ==
    /\ open[p] = "version"
    /\ contested[p]
    /\ db.version = 0
    /\ SetOpen(p, "failed")
    /\ UNCHANGED <<storageVars, contested, starts, jobVars>>

(* Mutant of ReadVersion: the current version is refused as well.          *)
ReadVersionStrictly(p) ==
    /\ open[p] = "version"
    /\ SetOpen(p, IF db.version >= SCHEMA_VERSION THEN "failed" ELSE "begin")
    /\ UNCHANGED <<storageVars, contested, starts, jobVars>>

(* user_version is read outside any transaction.                           *)
ReadVersion(p) ==
    /\ open[p] = "version"
    /\ SetOpen(p, CASE db.version > SCHEMA_VERSION -> "failed"
                    [] db.version = 0 -> "begin"
                    [] OTHER -> "ready")
    /\ UNCHANGED <<storageVars, contested, starts, jobVars>>

(* BEGIN IMMEDIATE waits for busy_timeout and then gives up.               *)
BeginMigration(p) ==
    /\ open[p] = "begin"
    /\ \/ Begin(p) /\ SetOpen(p, "migrate")
       \/ writer # NoOne /\ SetOpen(p, "failed") /\ UNCHANGED storageVars
    /\ UNCHANGED <<contested, starts, jobVars>>

(* Mutants of RunSchema: errors of statements are ignored; each statement  *)
(* is a transaction of its own; the tables that are there are dropped      *)
(* first.                                                                  *)
RunSchemaRegardless(p) ==
    /\ open[p] = "migrate"
    /\ draft' = [draft EXCEPT !.tables = @ + Statements, !.version = SCHEMA_VERSION]
    /\ SetOpen(p, "commit")
    /\ UNCHANGED <<log, synced, writer, contested, starts, jobVars>>

RunSchemaInAutocommit(p) ==
    /\ open[p] = "migrate"
    /\ draft.tables < Statements
    /\ draft' = [draft EXCEPT !.tables = @ + 1,
                              !.version = IF draft.tables + 1 = Statements THEN 1 ELSE @]
    /\ log' = Append(log, draft')
    /\ SetOpen(p, IF draft'.tables = Statements THEN "commit" ELSE "migrate")
    /\ UNCHANGED <<synced, writer, contested, starts, jobVars>>

RunSchemaAnew(p) ==
    /\ open[p] = "migrate"
    /\ draft' = [Empty EXCEPT !.version = SCHEMA_VERSION, !.tables = Statements]
    /\ SetOpen(p, "commit")
    /\ UNCHANGED <<log, synced, writer, contested, starts, jobVars>>

(* The next statement of SCHEMA creates its table, index or trigger, after *)
(* the last one user_version is set.  A table that exists is an error, and *)
(* the transaction is rolled back.                                         *)
RunSchema(p) ==
    /\ open[p] = "migrate"
    /\ \/ /\ db.tables = 0
          /\ draft.tables < Statements
          /\ draft' = [draft EXCEPT !.tables = @ + 1]
          /\ UNCHANGED <<log, synced, writer, open>>
       \/ /\ draft.tables = Statements
          /\ db.tables = 0
          /\ draft' = [draft EXCEPT !.version = SCHEMA_VERSION]
          /\ SetOpen(p, "commit")
          /\ UNCHANGED <<log, synced, writer>>
       \/ db.tables # 0 /\ Rollback /\ SetOpen(p, "failed")
    /\ UNCHANGED <<contested, starts, jobVars>>

CommitMigration(p) ==
    /\ open[p] = "commit"
    /\ Commit
    /\ SetOpen(p, "ready")
    /\ UNCHANGED <<contested, starts, jobVars>>

-----------------------------------------------------------------------------
(* The connection *)

SetPc(t, label) == pc' = [pc EXCEPT ![t] = label]

(* Storage::connection: the guard lives until the job ends.                *)
LockConnection(t, label) ==
    /\ open[ProcessOf[t]] = "ready"
    /\ pc[t] = "idle"
    /\ jobs < MaxJobs
    /\ jobs' = jobs + 1
    /\ mutex[ProcessOf[t]] = NoOne
    /\ mutex' = [mutex EXCEPT ![ProcessOf[t]] = t]
    /\ SetPc(t, label)
    /\ UNCHANGED <<storageVars, openVars, revision, answer, interfered>>

(* The job ends and drops the guard.                                       *)
EndJob(t) ==
    /\ SetPc(t, "idle")
    /\ mutex' = [mutex EXCEPT ![ProcessOf[t]] = NoOne]
    /\ UNCHANGED <<openVars, jobs>>

(* Mutant of ReadRevision: the guard is dropped between the statements.    *)
ReadRevisionAndUnlock(t) ==
    /\ pc[t] = "search"
    /\ db.revision > 0
    /\ revision' = [revision EXCEPT ![t] = db.revision]
    /\ interfered' = [interfered EXCEPT ![t] = FALSE]
    /\ SetPc(t, "hits")
    /\ mutex' = [mutex EXCEPT ![ProcessOf[t]] = NoOne]
    /\ UNCHANGED <<storageVars, openVars, answer, jobs>>

(* The first statement of search_notes; a vault that has no row yet is an  *)
(* error.                                                                  *)
ReadRevision(t) ==
    /\ pc[t] = "search"
    /\ \/ /\ db.revision > 0
          /\ revision' = [revision EXCEPT ![t] = db.revision]
          /\ interfered' = [interfered EXCEPT ![t] = FALSE]
          /\ SetPc(t, "hits")
          /\ UNCHANGED <<openVars, mutex, jobs>>
       \/ /\ db.revision = 0
          /\ EndJob(t)
          /\ UNCHANGED <<revision, interfered>>
    /\ UNCHANGED <<storageVars, answer>>

(* Mutant of ReadHits: the revision is read after the hits.                *)
ReadHitsFirst(t) ==
    /\ pc[t] = "hits"
    /\ \E i \in 1..Len(log) :
          /\ log[i].revision = revision[t]
          /\ answer' = [answer EXCEPT ![t] = [revision |-> db.revision, hits |-> log[i].notes]]
    /\ EndJob(t)
    /\ UNCHANGED <<storageVars, revision, interfered>>

(* The second statement.                                                   *)
ReadHits(t) ==
    /\ pc[t] = "hits"
    /\ answer' = [answer EXCEPT ![t] = [revision |-> revision[t], hits |-> db.notes]]
    /\ EndJob(t)
    /\ UNCHANGED <<storageVars, revision, interfered>>

-----------------------------------------------------------------------------
(* The writers: index_vault and reconcile_vault_paths *)

(* The immediate transaction, or SQLITE_BUSY after busy_timeout.           *)
BeginIndex(t) ==
    /\ pc[t] \in {"index", "reconcile"}
    /\ \/ /\ Begin(ProcessOf[t])
          /\ SetPc(t, IF pc[t] = "index" THEN "walk" ELSE "apply")
          /\ UNCHANGED <<openVars, mutex, jobs>>
       \/ /\ writer # NoOne
          /\ EndJob(t)
          /\ UNCHANGED storageVars
    /\ UNCHANGED <<revision, answer, interfered>>

(* Mutant of WriteRows: a reconciliation never counts its changes.         *)
WriteRowsUncounted(t, text) ==
    /\ \/ pc[t] = "walk"
       \/ pc[t] = "apply" /\ db.revision > 0
    /\ draft' = [draft EXCEPT !.notes = text, !.revision = IF pc[t] = "walk" THEN @ + 1 ELSE @]
    /\ SetPc(t, "written")
    /\ UNCHANGED <<log, synced, writer, openVars, mutex, revision, answer, interfered, jobs>>

(* The rows are written inside the transaction.  index_vault always        *)
(* advances the revision, reconcile_vault_paths when a row has changed; it *)
(* is refused as long as the vault has no row.                             *)
WriteRows(t, text) ==
    /\ \/ pc[t] = "walk"
       \/ pc[t] = "apply" /\ db.revision > 0
    /\ draft' = [draft EXCEPT !.notes = text,
                     !.revision = IF pc[t] = "walk" \/ text # draft.notes THEN @ + 1 ELSE @]
    /\ SetPc(t, "written")
    /\ UNCHANGED <<log, synced, writer, openVars, mutex, revision, answer, interfered, jobs>>

CommitIndex(t) ==
    /\ pc[t] = "written"
    /\ Commit
    /\ EndJob(t)
    /\ interfered' = [s \in Thread |->
                         interfered[s] \/ (pc[s] = "hits" /\ ProcessOf[s] # ProcessOf[t])]
    /\ UNCHANGED <<revision, answer>>

(* A walk, a root or a row is refused: `?` drops the transaction.          *)
IndexFails(t) ==
    /\ pc[t] \in {"walk", "apply", "written"}
    /\ Rollback
    /\ EndJob(t)
    /\ UNCHANGED <<revision, answer, interfered>>

-----------------------------------------------------------------------------
(* Processes and power *)

Dead(P) ==
    /\ open' = [p \in Process |-> IF p \in P THEN "off" ELSE open[p]]
    /\ mutex' = [p \in Process |-> IF p \in P THEN NoOne ELSE mutex[p]]
    /\ pc' = [t \in Thread |-> IF ProcessOf[t] \in P THEN "idle" ELSE pc[t]]
    /\ answer' = [t \in Thread |-> IF ProcessOf[t] \in P THEN NoAnswer ELSE answer[t]]
    /\ writer' = IF writer \in P THEN NoOne ELSE writer
    /\ UNCHANGED <<draft, contested, starts, revision, interfered, jobs>>

(* A process ends or is killed, wherever it stands.                        *)
Exit(p) ==
    /\ open[p] # "off"
    /\ Dead({p})
    /\ UNCHANGED <<log, synced>>

Checkpoint ==
    /\ synced < Len(log)
    /\ synced' = Len(log)
    /\ UNCHANGED <<log, writer, draft, openVars, jobVars>>

PowerLoss ==
    /\ Dead(Process)
    /\ \E n \in synced..(Len(log) - 1) : log' = SubSeq(log, 1, n)
    /\ UNCHANGED synced

-----------------------------------------------------------------------------
Next ==
    \/ \E p \in Process :
          \/ OpenFile(p) \/ PragmaBusy(p) \/ ReadVersion(p) \/ BeginMigration(p)
          \/ RunSchema(p) \/ CommitMigration(p) \/ Exit(p)
    \/ \E t \in Thread :
          \/ \E label \in {"search", "index", "reconcile"} : LockConnection(t, label)
          \/ ReadRevision(t) \/ ReadHits(t)
          \/ BeginIndex(t) \/ CommitIndex(t) \/ IndexFails(t)
          \/ \E text \in Text : WriteRows(t, text)
    \/ Checkpoint
    \/ PowerLoss

Spec == Init /\ [][Next]_vars
-----------------------------------------------------------------------------
(* Properties *)

(* Every variable has its type.                                            *)
TypeOK ==
    /\ log \in Seq(State) /\ synced \in 1..Len(log)
    /\ writer \in Process \cup {NoOne} /\ draft \in State
    /\ open \in [Process -> {"off", "version", "begin", "migrate", "commit", "ready", "failed"}]
    /\ contested \in [Process -> BOOLEAN]
    /\ mutex \in [Process -> Thread \cup {NoOne}]
    /\ pc \in [Thread -> {"idle", "search", "hits", "index", "reconcile", "walk", "apply",
                          "written"}]
    /\ revision \in [Thread -> Nat]
    /\ answer \in [Thread -> [revision : Nat, hits : Text]]
    /\ interfered \in [Thread -> BOOLEAN]
    /\ starts \in [Process -> 0..MaxStarts] /\ jobs \in 0..MaxJobs

(* Whoever dies and when, the committed schema is absent or whole, and     *)
(* user_version says which; a process that is ready finds the tables.      *)
SchemaWhole ==
    /\ \A i \in 1..Len(log) :
          log[i].tables = IF log[i].version = 0 THEN 0 ELSE Statements
    /\ \A p \in Process : open[p] = "ready" => db.version = SCHEMA_VERSION

(* Opening fails only on the database of a newer release, or for a process *)
(* that opens while another one does: the version is read before the lock  *)
(* is taken, so the loser of the race meets the lock or the tables.        *)
LoneOpenSucceeds ==
    \A p \in Process : open[p] = "failed" => contested[p] \/ db.version = NewerVersion

(* While the power stays on no process takes the index back: the revision  *)
(* never decreases, a second migration included.                           *)
IndexSurvives == [][Len(log') >= Len(log) => db'.revision >= db.revision]_vars

(* The hits of a search come from one committed index, which is that of    *)
(* the reported revision or a later one, never an earlier one.             *)
HitsNotOlder ==
    \A t \in Thread : answer[t].revision > 0 =>
        \E i \in 1..Len(log) :
            log[i].revision >= answer[t].revision /\ log[i].notes = answer[t].hits

(* The two statements of a search see the same index unless another        *)
(* process commits between them: the writers of its own process wait for   *)
(* the connection.                                                         *)
OwnWritesDoNotSplitSearch ==
    \A t \in Thread : answer[t].revision > 0 /\ ~interfered[t] /\ pc[t] # "hits" =>
        \E i \in 1..Len(log) :
            log[i].revision = answer[t].revision /\ log[i].notes = answer[t].hits

History == INSTANCE IndexHistory WITH history <- log, settled <- synced

(* However the transactions of several processes interleave, fail or die   *)
(* half way, what is committed is a sequence of whole transactions, each   *)
(* made from the state that was current when it was committed: no writer   *)
(* takes back what another one wrote, and no reader can find other notes   *)
(* under a revision it has seen while the power stays on.                  *)
TransactionsAreWhole == History!Spec
=============================================================================
