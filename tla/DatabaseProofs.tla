---------------------------- MODULE DatabaseProofs ----------------------------
(***************************************************************************)
(* What holds of the database for any number of processes, threads, texts  *)
(* and statements, whoever dies and whenever the power is lost.            *)
(***************************************************************************)
EXTENDS Database, SequenceTheorems, TLAPS

(* A transaction belongs to a migration or to the thread that has the      *)
(* connection of a process that is ready.                                  *)
Writing(t) == pc[t] \in {"walk", "apply", "written"}

Owned ==
    /\ \A t \in Thread : pc[t] # "idle" =>
          open[ProcessOf[t]] = "ready" /\ mutex[ProcessOf[t]] = t
    /\ \A p \in Process : open[p] \in {"migrate", "commit"} => writer = p
    /\ \A t \in Thread : Writing(t) => writer = ProcessOf[t]
    /\ writer # NoOne => open[writer] \in {"migrate", "commit", "ready"}

(* What a transaction has made of the database it began with, which stays  *)
(* the current one as long as the transaction is open.                     *)
Drafted ==
    /\ writer # NoOne => draft.revision >= db.revision
    /\ \A p \in Process : open[p] = "migrate" =>
          draft.version = db.version /\ draft.revision = db.revision
    /\ \A p \in Process : open[p] = "commit" =>
          /\ db.tables = 0 /\ draft.revision = db.revision
          /\ draft.version = SCHEMA_VERSION /\ draft.tables = Statements
    /\ \A t \in Thread : Writing(t) =>
          draft.version = db.version /\ draft.tables = db.tables

(* Two processes that are opening at the same time both know, and without  *)
(* a second one the version stays what the first one has read.             *)
Contested ==
    /\ \A p, q \in Process : p # q /\ Opening(p) /\ Opening(q) => contested[p]
    /\ \A p \in Process :
          open[p] \in {"begin", "migrate", "commit"} /\ ~contested[p] => db.version = 0

(* Between the two statements of a search the index only moves forward,    *)
(* and only for another process.                                           *)
Searching ==
    \A t \in Thread : pc[t] = "hits" =>
        revision[t] <= db.revision /\ (interfered[t] \/ revision[t] = db.revision)

SchemaInv == TypeOK /\ Owned /\ Drafted /\ SchemaWhole

-----------------------------------------------------------------------------
(* The log *)

(* The current state is one of the committed ones.                         *)
LEMMA Current ==
    ASSUME TypeOK
    PROVE  /\ Len(log) \in Nat /\ Len(log) >= 1 /\ db = log[Len(log)]
           /\ db \in State
           /\ \A i \in 1..Len(log) : log[i] \in State
<1>1. Len(log) \in Nat /\ Len(log) >= 1
  BY DEF TypeOK
<1>2. \A i \in 1..Len(log) : log[i] \in State
  BY ElementOfSeq DEF TypeOK
<1> QED
  BY <1>1, <1>2 DEF db

(* A commit adds the draft to the log and makes it current.                *)
LEMMA CommitAdds ==
    ASSUME TypeOK, Commit
    PROVE  /\ log' \in Seq(State) /\ synced' \in 1..Len(log')
           /\ Len(log') = Len(log) + 1 /\ db' = draft
           /\ \A i \in 1..Len(log) : log'[i] = log[i]
           /\ log'[Len(log) + 1] = draft
<1>1. /\ log' \in Seq(State) /\ Len(log') = Len(log) + 1
      /\ \A i \in 1..Len(log) : log'[i] = log[i]
      /\ log'[Len(log) + 1] = draft
  BY AppendProperties DEF Commit, TypeOK
<1>2. synced' \in 1..Len(log')
  BY <1>1, Current DEF Commit, TypeOK
<1> QED
  BY <1>1, <1>2 DEF db

(* A loss of power leaves a beginning of the log, and no process.          *)
LEMMA LossCuts ==
    ASSUME TypeOK, PowerLoss
    PROVE  /\ log' \in Seq(State) /\ synced' \in 1..Len(log')
           /\ Len(log') \in Nat /\ Len(log') < Len(log)
           /\ \A i \in 1..Len(log') : i \in 1..Len(log) /\ log'[i] = log[i]
<1>1. PICK n \in synced..(Len(log) - 1) : log' = SubSeq(log, 1, n)
  BY DEF PowerLoss
<1>2. n \in Nat /\ n >= 1 /\ n < Len(log) /\ synced <= n /\ synced' = synced /\ synced \in Nat
  BY <1>1, Current DEF TypeOK, PowerLoss
<1>3. \A i \in 1..n : i \in 1..Len(log) /\ log[i] \in State
  BY <1>2, Current
<1>4. /\ log' \in Seq(State) /\ Len(log') = n
      /\ \A i \in 1..n : log'[i] = log[i]
  BY <1>1, <1>2, <1>3, SubSeqProperties
<1> QED
  BY <1>2, <1>3, <1>4, Current DEF TypeOK

-----------------------------------------------------------------------------
(* Types *)

(* A database with one field changed is one, and has the other fields.     *)
LEMMA TablesChange ==
    ASSUME NEW d \in State, NEW n \in 0..Statements, NEW e, e = [d EXCEPT !.tables = n]
    PROVE  /\ e \in State /\ e.tables = n
           /\ e.version = d.version /\ e.revision = d.revision /\ e.notes = d.notes
BY DEF State

(* So has one with another version.                                        *)
LEMMA VersionChange ==
    ASSUME NEW d \in State, NEW v \in 0..NewerVersion, NEW e, e = [d EXCEPT !.version = v]
    PROVE  /\ e \in State /\ e.version = v
           /\ e.tables = d.tables /\ e.revision = d.revision /\ e.notes = d.notes
BY DEF State

(* What WriteRows makes of the draft of an index.                          *)
LEMMA RowsDraft ==
    ASSUME TypeOK, NEW t \in Thread, NEW text \in Text, WriteRows(t, text)
    PROVE  /\ draft' \in State
           /\ draft'.version = draft.version /\ draft'.tables = draft.tables
           /\ draft'.revision >= draft.revision
<1> DEFINE r == IF pc[t] = "walk" \/ text # draft.notes THEN draft.revision + 1
                                                        ELSE draft.revision
<1>1. draft \in State /\ draft.revision \in Nat
  BY DEF TypeOK, State
<1>2. r \in Nat /\ r >= draft.revision
  BY <1>1
<1>3. draft' = [draft EXCEPT !.notes = text, !.revision = r]
  BY DEF WriteRows
<1> HIDE DEF r
<1>4. /\ draft' \in State /\ draft'.notes = text /\ draft'.revision = r
      /\ draft'.version = draft.version /\ draft'.tables = draft.tables
  BY <1>1, <1>2, <1>3 DEF State
<1> QED
  BY <1>2, <1>4

(* What RunSchema makes of the draft of a migration: the statement fails   *)
(* on tables that are there, so only an empty database comes to a commit.  *)
LEMMA SchemaDraft ==
    ASSUME TypeOK, NEW p \in Process, RunSchema(p)
    PROVE  /\ draft' \in State /\ draft'.revision = draft.revision
           /\ open'[p] = "migrate" => draft'.version = draft.version
           /\ open'[p] = "commit" =>
                db.tables = 0 /\ draft'.version = SCHEMA_VERSION /\ draft'.tables = Statements
<1> USE DEF TypeOK, SetOpen, SCHEMA_VERSION, NewerVersion
<1>1. draft.tables \in 0..Statements
  BY DEF State
<1>2. CASE open' = open /\ draft.tables < Statements
           /\ draft' = [draft EXCEPT !.tables = draft.tables + 1]
  <2>1. draft.tables + 1 \in 0..Statements
    BY <1>1, <1>2, BoundsAssumption
  <2> QED
    BY <1>2, <2>1, TablesChange DEF RunSchema
<1>3. CASE open'[p] = "commit" /\ draft.tables = Statements /\ db.tables = 0
           /\ draft' = [draft EXCEPT !.version = SCHEMA_VERSION]
  BY <1>3, VersionChange
<1>4. CASE open'[p] = "failed" /\ draft' = draft
  BY <1>4
<1> QED
  BY <1>2, <1>3, <1>4 DEF RunSchema, Rollback

(* Every step keeps the types.                                             *)
LEMMA TypeStep == TypeOK /\ [Next]_vars => TypeOK'
<1> SUFFICES ASSUME TypeOK, [Next]_vars PROVE TypeOK'
  OBVIOUS
<1> USE ThreadAssumption, BoundsAssumption
    DEF TypeOK, storageVars, openVars, jobVars, SetOpen, SetPc, SCHEMA_VERSION, NewerVersion
<1>0. db \in State
  BY Current
<1>1. ASSUME NEW p \in Process, OpenFile(p) PROVE TypeOK'
  <2>1. contested' \in [Process -> BOOLEAN]
    BY <1>1, Zenon DEF OpenFile
  <2>2. starts' \in [Process -> 0..MaxStarts]
    BY <1>1 DEF OpenFile
  <2> QED
    BY <1>1, <2>1, <2>2 DEF OpenFile
<1>2. ASSUME NEW p \in Process, PragmaBusy(p) \/ ReadVersion(p) PROVE TypeOK'
  BY <1>2 DEF PragmaBusy, ReadVersion
<1>3. ASSUME NEW p \in Process, BeginMigration(p) PROVE TypeOK'
  BY <1>0, <1>3 DEF BeginMigration, Begin
<1>4. ASSUME NEW p \in Process, RunSchema(p) PROVE TypeOK'
  <2>1. draft' \in State
    BY <1>4, SchemaDraft
  <2> QED
    BY <1>4, <2>1 DEF RunSchema, Rollback
<1>5. ASSUME NEW p \in Process, CommitMigration(p) PROVE TypeOK'
  <2>1. log' \in Seq(State) /\ synced' \in 1..Len(log')
    BY <1>5, CommitAdds DEF CommitMigration
  <2> QED
    BY <1>5, <2>1 DEF CommitMigration, Commit
<1>6. ASSUME NEW p \in Process, Exit(p) PROVE TypeOK'
  BY <1>6, TextAssumption DEF Exit, Dead, NoAnswer, NoText
<1>7. ASSUME NEW t \in Thread, NEW label \in {"search", "index", "reconcile"},
             LockConnection(t, label) PROVE TypeOK'
  BY <1>7 DEF LockConnection
<1>8. ASSUME NEW t \in Thread, ReadRevision(t) PROVE TypeOK'
  <2>1. revision' \in [Thread -> Nat]
    BY <1>0, <1>8 DEF ReadRevision, State
  <2> QED
    BY <1>8, <2>1 DEF ReadRevision, EndJob
<1>9. ASSUME NEW t \in Thread, ReadHits(t) PROVE TypeOK'
  BY <1>0, <1>9 DEF ReadHits, EndJob, State
<1>10. ASSUME NEW t \in Thread, BeginIndex(t) PROVE TypeOK'
  <2>1. pc' \in [Thread -> {"idle", "search", "hits", "index", "reconcile", "walk", "apply",
                            "written"}]
    <3>1. \E label \in {"walk", "apply", "idle"} : pc' = [pc EXCEPT ![t] = label]
      BY <1>10 DEF BeginIndex, EndJob
    <3> QED
      BY <3>1
  <2> QED
    <3>1. CASE Begin(ProcessOf[t]) /\ UNCHANGED <<openVars, mutex, jobs>>
      BY <1>0, <1>10, <2>1, <3>1 DEF BeginIndex, Begin
    <3>2. CASE EndJob(t) /\ UNCHANGED storageVars
      BY <1>10, <2>1, <3>2 DEF BeginIndex, EndJob
    <3> QED
      BY <1>10, <3>1, <3>2 DEF BeginIndex
<1>11. ASSUME NEW t \in Thread, CommitIndex(t) PROVE TypeOK'
  <2>1. log' \in Seq(State) /\ synced' \in 1..Len(log')
    BY <1>11, CommitAdds DEF CommitIndex
  <2>2. interfered' \in [Thread -> BOOLEAN]
    BY <1>11, Zenon DEF CommitIndex
  <2> QED
    BY <1>11, <2>1, <2>2 DEF CommitIndex, Commit, EndJob
<1>12. ASSUME NEW t \in Thread, IndexFails(t) PROVE TypeOK'
  BY <1>12 DEF IndexFails, Rollback, EndJob
<1>13. ASSUME NEW t \in Thread, NEW text \in Text, WriteRows(t, text) PROVE TypeOK'
  <2>1. draft' \in State
    BY <1>13, RowsDraft
  <2> QED
    BY <1>13, <2>1 DEF WriteRows
<1>14. CASE Checkpoint
  BY <1>14, Current DEF Checkpoint
<1>15. CASE PowerLoss
  <2>1. log' \in Seq(State) /\ synced' \in 1..Len(log')
    BY <1>15, LossCuts
  <2> QED
    BY <1>15, <2>1, TextAssumption DEF PowerLoss, Dead, NoAnswer, NoText
<1>16. CASE UNCHANGED vars
  BY <1>16 DEF vars
<1> HIDE DEF TypeOK
<1> QED
  BY <1>1, <1>2, <1>3, <1>4, <1>5, <1>6, <1>7, <1>8, <1>9, <1>10, <1>11, <1>12, <1>13,
     <1>14, <1>15, <1>16 DEF Next

-----------------------------------------------------------------------------
(* Transactions *)

(* Every step keeps the connection and the transaction with their owners.  *)
LEMMA OwnedStep == TypeOK /\ Owned /\ [Next]_vars => Owned'
<1> SUFFICES ASSUME TypeOK, Owned, [Next]_vars PROVE Owned'
  OBVIOUS
<1> USE ThreadAssumption
    DEF TypeOK, Owned, Writing, storageVars, openVars, jobVars, SetOpen, SetPc
<1>1. ASSUME NEW p \in Process, OpenFile(p) PROVE Owned'
  BY <1>1 DEF OpenFile
<1>2. ASSUME NEW p \in Process, PragmaBusy(p) \/ ReadVersion(p) PROVE Owned'
  BY <1>2 DEF PragmaBusy, ReadVersion
<1>3. ASSUME NEW p \in Process, BeginMigration(p) PROVE Owned'
  BY <1>3 DEF BeginMigration, Begin
<1>4. ASSUME NEW p \in Process, RunSchema(p) PROVE Owned'
  <2>1. open[p] = "migrate" /\ UNCHANGED <<pc, mutex>>
    BY <1>4 DEF RunSchema
  <2>2. \/ writer' = writer /\ open' = open
        \/ writer' = writer /\ open' = [open EXCEPT ![p] = "commit"]
        \/ writer' = NoOne /\ open' = [open EXCEPT ![p] = "failed"]
    BY <1>4 DEF RunSchema, Rollback
  <2>3. writer = p /\ \A t \in Thread : ~Writing(t) /\ (pc[t] # "idle" => ProcessOf[t] # p)
    BY <2>1
  <2>4. CASE writer' = writer /\ open' = open
    BY <2>1, <2>4
  <2>5. CASE writer' = writer /\ open' = [open EXCEPT ![p] = "commit"]
    BY <2>1, <2>3, <2>5
  <2>6. CASE writer' = NoOne /\ open' = [open EXCEPT ![p] = "failed"]
    BY <2>1, <2>3, <2>6
  <2> QED
    BY <2>2, <2>4, <2>5, <2>6
<1>5. ASSUME NEW p \in Process, CommitMigration(p) PROVE Owned'
  <2>1. /\ open[p] = "commit" /\ open' = [open EXCEPT ![p] = "ready"]
        /\ writer' = NoOne /\ UNCHANGED <<pc, mutex>>
    BY <1>5 DEF CommitMigration, Commit
  <2>2. writer = p /\ \A t \in Thread : ~Writing(t)
    BY <2>1
  <2> QED
    BY <2>1, <2>2
<1>6. ASSUME NEW p \in Process, Exit(p) PROVE Owned'
  BY <1>6 DEF Exit, Dead
<1>7. ASSUME NEW t \in Thread, NEW label \in {"search", "index", "reconcile"},
             LockConnection(t, label) PROVE Owned'
  BY <1>7 DEF LockConnection
<1>8. ASSUME NEW t \in Thread, ReadRevision(t) PROVE Owned'
  <2>1. CASE SetPc(t, "hits") /\ UNCHANGED <<openVars, mutex>>
    BY <1>8, <2>1 DEF ReadRevision
  <2>2. CASE EndJob(t)
    BY <1>8, <2>2 DEF ReadRevision, EndJob
  <2> QED
    BY <1>8, <2>1, <2>2 DEF ReadRevision
<1>9. ASSUME NEW t \in Thread, ReadHits(t) PROVE Owned'
  BY <1>9 DEF ReadHits, EndJob
<1>10. ASSUME NEW t \in Thread, BeginIndex(t) PROVE Owned'
  <2>1. CASE Begin(ProcessOf[t]) /\ UNCHANGED <<openVars, mutex, jobs>>
    <3>1. /\ pc[t] # "idle" /\ writer = NoOne /\ writer' = ProcessOf[t]
          /\ \E label \in {"walk", "apply"} : pc' = [pc EXCEPT ![t] = label]
      BY <1>10, <2>1 DEF BeginIndex, Begin, EndJob
    <3> QED
      BY <2>1, <3>1
  <2>2. CASE EndJob(t) /\ UNCHANGED storageVars
    BY <1>10, <2>2 DEF BeginIndex, EndJob
  <2> QED
    BY <1>10, <2>1, <2>2 DEF BeginIndex
<1>11. ASSUME NEW t \in Thread, CommitIndex(t) PROVE Owned'
  <2>1. pc[t] = "written" /\ writer' = NoOne /\ EndJob(t)
    BY <1>11 DEF CommitIndex, Commit
  <2> QED
    BY <2>1 DEF EndJob
<1>12. ASSUME NEW t \in Thread, IndexFails(t) PROVE Owned'
  BY <1>12 DEF IndexFails, Rollback, EndJob
<1>13. ASSUME NEW t \in Thread, NEW text \in Text, WriteRows(t, text) PROVE Owned'
  BY <1>13 DEF WriteRows
<1>14. CASE Checkpoint
  BY <1>14 DEF Checkpoint
<1>15. CASE PowerLoss
  BY <1>15 DEF PowerLoss, Dead
<1>16. CASE UNCHANGED vars
  BY <1>16 DEF vars
<1> HIDE DEF Owned
<1> QED
  BY <1>1, <1>2, <1>3, <1>4, <1>5, <1>6, <1>7, <1>8, <1>9, <1>10, <1>11, <1>12, <1>13,
     <1>14, <1>15, <1>16 DEF Next

(* Nothing is said of the draft when no transaction is open.               *)
LEMMA NothingDrafted ==
    ASSUME TypeOK, Owned, writer = NoOne
    PROVE  /\ \A p \in Process : open[p] \notin {"migrate", "commit"}
           /\ \A t \in Thread : ~Writing(t)
           /\ Drafted
BY ThreadAssumption DEF TypeOK, Owned, Drafted

(* What the draft is stays true while nobody writes, begins or commits.    *)
LEMMA DraftKept ==
    ASSUME Drafted, UNCHANGED <<log, draft>>, writer' \in {writer, NoOne},
           \A p \in Process : open'[p] \in {"migrate", "commit"} => open'[p] = open[p],
           \A t \in Thread : Writing(t)' => Writing(t)
    PROVE  Drafted'
<1>1. db' = db
  BY DEF db
<1> QED
  BY <1>1 DEF Drafted

(* Every step of an open transaction relates its draft to the database.    *)
LEMMA DraftStep == SchemaInv /\ [Next]_vars => Drafted'
<1> SUFFICES ASSUME SchemaInv, [Next]_vars PROVE Drafted'
  OBVIOUS
<1>0. TypeOK /\ Owned /\ Drafted /\ TypeOK' /\ Owned'
  BY TypeStep, OwnedStep DEF SchemaInv
<1> USE DEF storageVars, openVars, jobVars, SetOpen, SetPc
<1>1. ASSUME NEW p \in Process, OpenFile(p) \/ PragmaBusy(p) \/ ReadVersion(p)
      PROVE  Drafted'
  <2>1. /\ UNCHANGED <<log, draft, writer, pc>>
        /\ \E label \in {"version", "begin", "ready", "failed"} : open' = [open EXCEPT ![p] = label]
    BY <1>1 DEF OpenFile, PragmaBusy, ReadVersion
  <2> QED
    BY <1>0, <2>1, DraftKept DEF TypeOK, Writing
<1>2. ASSUME NEW p \in Process, BeginMigration(p) PROVE Drafted'
  <2>1. CASE Begin(p) /\ open' = [open EXCEPT ![p] = "migrate"]
    <3>1. writer = NoOne /\ writer' = p /\ draft' = db /\ db' = db /\ pc' = pc
      BY <1>2, <2>1 DEF BeginMigration, Begin, db
    <3>2. /\ \A q \in Process : open'[q] # "commit"
          /\ \A t \in Thread : ~Writing(t)'
      BY <1>0, <2>1, <3>1, NothingDrafted DEF TypeOK, Writing
    <3>3. db.revision \in Nat
      BY <1>0, Current DEF State
    <3> QED
      BY <3>1, <3>2, <3>3 DEF Drafted
  <2>2. CASE open' = [open EXCEPT ![p] = "failed"] /\ UNCHANGED storageVars
    BY <1>0, <1>2, <2>2, DraftKept DEF TypeOK, Writing, BeginMigration
  <2> QED
    BY <1>2, <2>1, <2>2 DEF BeginMigration
<1>3. ASSUME NEW p \in Process, RunSchema(p) PROVE Drafted'
  <2>1. CASE Rollback
    BY <1>0, <2>1, ThreadAssumption DEF Rollback, Drafted, Owned, TypeOK
  <2>2. CASE ~Rollback
    <3>1. /\ open[p] = "migrate" /\ UNCHANGED <<log, writer, pc>>
          /\ open' = open \/ open' = [open EXCEPT ![p] = "commit"]
      BY <1>3, <2>2 DEF RunSchema
    <3>2. writer = p /\ \A t \in Thread : Writing(t) => ProcessOf[t] = p
      BY <1>0, <3>1 DEF Owned
    <3>3. \A t \in Thread : ~Writing(t)
      BY <1>0, <3>1, <3>2 DEF Owned, Writing
    <3>4. /\ \A q \in Process : open'[q] \in {"migrate", "commit"} => q = p
          /\ \A t \in Thread : ~Writing(t)'
      BY <1>0, <3>1, <3>2, <3>3 DEF Owned, Writing, TypeOK
    <3>5. /\ draft'.revision = draft.revision
          /\ open'[p] = "migrate" => draft'.version = draft.version
          /\ open'[p] = "commit" =>
                db.tables = 0 /\ draft'.version = SCHEMA_VERSION /\ draft'.tables = Statements
      BY <1>0, <1>3, SchemaDraft
    <3>6. draft.revision = db.revision /\ draft.version = db.version /\ db' = db
          /\ db.revision \in Nat
      BY <1>0, <3>1, Current DEF Drafted, State, db
    <3> QED
      BY <3>4, <3>5, <3>6 DEF Drafted
  <2> QED
    BY <2>1, <2>2
<1>4. CASE writer' = NoOne
  <2>1. /\ \A p \in Process : open'[p] \notin {"migrate", "commit"}
        /\ \A t \in Thread : ~Writing(t)'
    BY <1>0, <1>4, ThreadAssumption DEF Owned, TypeOK
  <2> QED
    BY <1>4, <2>1 DEF Drafted
<1>5. ASSUME NEW p \in Process, CommitMigration(p) PROVE Drafted'
  BY <1>4, <1>5 DEF CommitMigration, Commit
<1>6. ASSUME NEW p \in Process, Exit(p) PROVE Drafted'
  <2>1. /\ UNCHANGED <<log, draft>> /\ writer' \in {writer, NoOne}
        /\ \A q \in Process : open'[q] \in {open[q], "off"}
        /\ \A t \in Thread : pc'[t] \in {pc[t], "idle"}
    BY <1>0, <1>6 DEF Exit, Dead, TypeOK
  <2> QED
    BY <1>0, <2>1, DraftKept DEF Writing
<1>7. ASSUME NEW t \in Thread, NEW label \in {"search", "index", "reconcile"},
             LockConnection(t, label) PROVE Drafted'
  BY <1>0, <1>7, DraftKept DEF LockConnection, TypeOK, Writing
<1>8. ASSUME NEW t \in Thread, ReadRevision(t) PROVE Drafted'
  <2>1. /\ UNCHANGED <<storageVars, open>>
        /\ \E label \in {"hits", "idle"} : pc' = [pc EXCEPT ![t] = label]
    BY <1>8 DEF ReadRevision, EndJob
  <2> QED
    BY <1>0, <2>1, DraftKept DEF TypeOK, Writing
<1>9. ASSUME NEW t \in Thread, ReadHits(t) PROVE Drafted'
  BY <1>0, <1>9, DraftKept DEF ReadHits, EndJob, TypeOK, Writing
<1>10. ASSUME NEW t \in Thread, BeginIndex(t) PROVE Drafted'
  <2>1. CASE Begin(ProcessOf[t]) /\ UNCHANGED openVars
    <3>1. /\ \A p \in Process : open'[p] \notin {"migrate", "commit"}
          /\ draft' = db /\ db' = db
      BY <1>0, <2>1, NothingDrafted DEF Begin, db
    <3>2. db.revision \in Nat
      BY <1>0, Current DEF State
    <3> QED
      BY <3>1, <3>2 DEF Drafted
  <2>2. CASE EndJob(t) /\ UNCHANGED storageVars
    BY <1>0, <1>10, <2>2, DraftKept DEF BeginIndex, EndJob, TypeOK, Writing
  <2> QED
    BY <1>10, <2>1, <2>2 DEF BeginIndex
<1>11. ASSUME NEW t \in Thread, CommitIndex(t) \/ IndexFails(t) PROVE Drafted'
  BY <1>4, <1>11 DEF CommitIndex, Commit, IndexFails, Rollback
<1>12. ASSUME NEW t \in Thread, NEW text \in Text, WriteRows(t, text) PROVE Drafted'
  <2>1. /\ Writing(t) /\ UNCHANGED <<log, writer, open>> /\ db' = db
        /\ \A s \in Thread : Writing(s)' => Writing(s)
    BY <1>0, <1>12 DEF WriteRows, Writing, TypeOK, db
  <2>2. \A p \in Process : open[p] \notin {"migrate", "commit"}
    <3>1. open[ProcessOf[t]] = "ready" /\ writer = ProcessOf[t]
      BY <1>0, <2>1 DEF Owned, Writing
    <3> QED
      BY <1>0, <3>1 DEF Owned
  <2>3. /\ draft'.version = draft.version /\ draft'.tables = draft.tables
        /\ draft'.revision >= draft.revision
    BY <1>0, <1>12, RowsDraft
  <2>4. /\ draft.revision \in Nat /\ draft'.revision \in Nat /\ db.revision \in Nat
    BY <1>0, Current DEF TypeOK, State
  <2> QED
    BY <1>0, <2>1, <2>2, <2>3, <2>4 DEF Drafted
<1>13. CASE Checkpoint \/ UNCHANGED vars
  BY <1>0, <1>13, DraftKept DEF Checkpoint, vars, Writing
<1>14. CASE PowerLoss
  <2>1. writer' = NoOne
    BY <1>0, <1>14 DEF PowerLoss, Dead, TypeOK
  <2> QED
    BY <1>4, <2>1
<1> QED
  BY <1>1, <1>2, <1>3, <1>5, <1>6, <1>7, <1>8, <1>9, <1>10, <1>11, <1>12, <1>13, <1>14
     DEF Next

-----------------------------------------------------------------------------
(* The schema *)

(* Only the two commits and a loss of power change the log.                *)
LEMMA LogChanges ==
    ASSUME [Next]_vars
    PROVE  \/ UNCHANGED log
           \/ \E p \in Process : CommitMigration(p)
           \/ \E t \in Thread : CommitIndex(t)
           \/ PowerLoss
BY DEF Next, vars, storageVars, OpenFile, PragmaBusy, ReadVersion, BeginMigration, Begin,
       RunSchema, Rollback, Exit, LockConnection, ReadRevision, ReadHits, BeginIndex,
       IndexFails, WriteRows, Checkpoint

(* Only Storage::open and the end of a process change where it stands.     *)
LEMMA OpenChanges ==
    ASSUME TypeOK, [Next]_vars
    PROVE  \/ UNCHANGED open
           \/ \E p \in Process :
                 \/ OpenFile(p) \/ PragmaBusy(p) \/ ReadVersion(p) \/ BeginMigration(p)
                 \/ RunSchema(p) \/ CommitMigration(p) \/ Exit(p)
           \/ PowerLoss
BY DEF Next, vars, openVars, LockConnection, ReadRevision, ReadHits, BeginIndex, EndJob,
       CommitIndex, IndexFails, WriteRows, Checkpoint

(* A process becomes ready when it finds the version or commits it.        *)
LEMMA BecomesReady ==
    ASSUME TypeOK, [Next]_vars, NEW q \in Process, open'[q] = "ready"
    PROVE  \/ open[q] = "ready"
           \/ UNCHANGED log /\ db.version = SCHEMA_VERSION
           \/ CommitMigration(q)
<1>1. db.version \in 0..NewerVersion
  BY Current DEF State
<1> USE DEF TypeOK, SetOpen
<1>2. ASSUME NEW p \in Process, OpenFile(p) \/ PragmaBusy(p) PROVE open[q] = "ready"
  BY <1>2 DEF OpenFile, PragmaBusy
<1>3. ASSUME NEW p \in Process, ReadVersion(p)
      PROVE  open[q] = "ready" \/ (UNCHANGED log /\ db.version = SCHEMA_VERSION)
  BY <1>1, <1>3 DEF ReadVersion, storageVars, SCHEMA_VERSION, NewerVersion
<1>4. ASSUME NEW p \in Process, BeginMigration(p) \/ RunSchema(p) PROVE open[q] = "ready"
  BY <1>4 DEF BeginMigration, RunSchema
<1>5. ASSUME NEW p \in Process, CommitMigration(p)
      PROVE  open[q] = "ready" \/ CommitMigration(q)
  BY <1>5 DEF CommitMigration
<1>6. ASSUME NEW p \in Process, Exit(p) PROVE open[q] = "ready"
  BY <1>6 DEF Exit, Dead
<1>7. ~PowerLoss
  BY DEF PowerLoss, Dead
<1> HIDE DEF TypeOK
<1> QED
  BY <1>2, <1>3, <1>4, <1>5, <1>6, <1>7, OpenChanges

(* A commit of a whole schema.                                             *)
LEMMA CommitWhole ==
    ASSUME TypeOK, SchemaWhole, Commit,
           draft.version = SCHEMA_VERSION, draft.tables = Statements
    PROVE  SchemaWhole'
<1>1. /\ Len(log) \in Nat /\ Len(log') = Len(log) + 1 /\ db' = draft
      /\ \A i \in 1..Len(log) : log'[i] = log[i]
      /\ log'[Len(log) + 1] = draft
  BY Current, CommitAdds
<1>2. ASSUME NEW i \in 1..Len(log')
      PROVE  log'[i].tables = IF log'[i].version = 0 THEN 0 ELSE Statements
  <2>1. CASE i \in 1..Len(log)
    BY <1>1, <2>1 DEF SchemaWhole
  <2>2. CASE i = Len(log) + 1
    BY <1>1, <2>2 DEF SCHEMA_VERSION
  <2> QED
    BY <1>1, <2>1, <2>2
<1> QED
  BY <1>1, <1>2 DEF SchemaWhole

(* No step leaves a part of a schema, or tables that a ready process does  *)
(* not find.                                                               *)
LEMMA WholeStep == SchemaInv /\ [Next]_vars => SchemaWhole'
<1> SUFFICES ASSUME SchemaInv, [Next]_vars PROVE SchemaWhole'
  OBVIOUS
<1>0. TypeOK /\ Owned /\ Drafted /\ SchemaWhole
  BY DEF SchemaInv
<1>1. CASE UNCHANGED log
  <2>1. db' = db
    BY <1>1 DEF db
  <2>2. ASSUME NEW q \in Process, open'[q] = "ready" PROVE db.version = SCHEMA_VERSION
    <3>1. CASE CommitMigration(q)
      <4>1. log' = Append(log, draft) /\ Len(log') = Len(log)
        BY <1>1, <3>1 DEF CommitMigration, Commit
      <4> QED
        BY <1>0, <3>1, <4>1, CommitAdds, Current DEF CommitMigration
    <3> QED
      BY <1>0, <2>2, <3>1, BecomesReady DEF SchemaWhole
  <2> QED
    BY <1>0, <1>1, <2>1, <2>2 DEF SchemaWhole
<1>2. ASSUME NEW p \in Process, CommitMigration(p) PROVE SchemaWhole'
  BY <1>0, <1>2, CommitWhole DEF CommitMigration, Drafted
<1>3. ASSUME NEW t \in Thread, CommitIndex(t) PROVE SchemaWhole'
  <2>1. Writing(t) /\ open[ProcessOf[t]] = "ready" /\ ProcessOf[t] \in Process
    BY <1>0, <1>3, ThreadAssumption DEF CommitIndex, Writing, Owned
  <2>2. db.version = SCHEMA_VERSION /\ db.tables = Statements
    BY <1>0, <2>1, Current DEF SchemaWhole, SCHEMA_VERSION
  <2> QED
    BY <1>0, <1>3, <2>1, <2>2, CommitWhole DEF CommitIndex, Drafted
<1>4. CASE PowerLoss
  <2>1. \A q \in Process : open'[q] = "off"
    BY <1>4 DEF PowerLoss, Dead
  <2> QED
    BY <1>0, <1>4, <2>1, LossCuts DEF SchemaWhole
<1> QED
  BY <1>1, <1>2, <1>3, <1>4, LogChanges

(* The first state.                                                        *)
LEMMA SchemaInit == Init => SchemaInv
<1> SUFFICES ASSUME Init PROVE SchemaInv
  OBVIOUS
<1>1. NoText \in Text
  BY TextAssumption DEF NoText
<1>2. Empty \in State /\ Newer \in State
  <2>1. Empty \in State
    BY <1>1, BoundsAssumption DEF Empty, State, NewerVersion
  <2> DEFINE e == [Empty EXCEPT !.version = NewerVersion]
  <2>2. e \in State
    BY <2>1, VersionChange DEF NewerVersion
  <2>3. Newer = [e EXCEPT !.tables = Statements]
    BY DEF Newer
  <2> HIDE DEF e
  <2> QED
    BY <2>1, <2>2, <2>3, TablesChange, BoundsAssumption
<1>3. PICK d \in {Empty, Newer} : log = <<d>>
  BY DEF Init
<1>4. /\ log \in Seq(State) /\ Len(log) = 1 /\ log[1] = d /\ db = d
  BY <1>2, <1>3 DEF db
<1>5. d.tables = IF d.version = 0 THEN 0 ELSE Statements
  <2>1. Empty.tables = 0 /\ Empty.version = 0
    BY DEF Empty
  <2>2. Newer.tables = Statements /\ Newer.version = NewerVersion
    BY DEF Newer, Empty
  <2> QED
    BY <1>3, <2>1, <2>2 DEF NewerVersion
<1>6. TypeOK
  <2>1. contested \in [Process -> BOOLEAN] /\ interfered \in [Thread -> BOOLEAN]
    BY Zenon DEF Init
  <2>2. /\ synced \in 1..Len(log) /\ jobs \in 0..MaxJobs /\ starts \in [Process -> 0..MaxStarts]
        /\ draft \in State /\ writer \in Process \cup {NoOne}
    BY <1>2, <1>4, BoundsAssumption DEF Init
  <2>3. /\ mutex \in [Process -> Thread \cup {NoOne}]
        /\ revision \in [Thread -> Nat]
        /\ answer \in [Thread -> [revision : Nat, hits : Text]]
    BY <1>1 DEF Init, NoAnswer
  <2> QED
    BY <1>4, <2>1, <2>2, <2>3 DEF Init, TypeOK
<1>7. Owned /\ Drafted
  BY DEF Init, Owned, Drafted, Writing
<1>8. SchemaWhole
  BY <1>4, <1>5 DEF Init, SchemaWhole
<1> QED
  BY <1>6, <1>7, <1>8 DEF SchemaInv

(* The invariant of the transactions.                                      *)
LEMMA SchemaInvariant == Spec => []SchemaInv
<1>1. SchemaInv /\ [Next]_vars => SchemaInv'
  BY TypeStep, OwnedStep, DraftStep, WholeStep DEF SchemaInv
<1> QED
  BY <1>1, SchemaInit, PTL DEF Spec

(* The database, the connections and the jobs keep their types.            *)
THEOREM DatabaseTypes == Spec => []TypeOK
<1>1. SchemaInv => TypeOK
  BY DEF SchemaInv
<1> QED
  BY <1>1, SchemaInvariant, PTL

(* However many processes migrate, die or lose their power at any point,   *)
(* the committed schema is absent or whole, and a process whose            *)
(* Storage::open has succeeded finds it.                                   *)
THEOREM SchemaNeverHalf == Spec => []SchemaWhole
<1>1. SchemaInv => SchemaWhole
  BY DEF SchemaInv
<1> QED
  BY <1>1, SchemaInvariant, PTL

-----------------------------------------------------------------------------
(* Opening *)

(* The commit of an index keeps the version.                               *)
LEMMA IndexKeepsVersion ==
    ASSUME SchemaInv, NEW t \in Thread, CommitIndex(t)
    PROVE  db'.version = db.version
BY CommitAdds DEF SchemaInv, CommitIndex, Drafted, Writing

(* The commit of a migration only replaces version 0.                      *)
LEMMA MigrationReplacesNothing ==
    ASSUME SchemaInv, NEW p \in Process, CommitMigration(p)
    PROVE  db.version = 0
<1>1. TypeOK /\ SchemaWhole /\ db.tables = 0
  BY DEF SchemaInv, CommitMigration, Drafted
<1>2. db.tables = IF db.version = 0 THEN 0 ELSE Statements
  BY <1>1, Current DEF SchemaWhole
<1> QED
  BY <1>1, <1>2, BoundsAssumption

(* Every step keeps what two opening processes know of each other.         *)
LEMMA ContestStep == SchemaInv /\ Contested /\ [Next]_vars => Contested'
<1> SUFFICES ASSUME SchemaInv, Contested, [Next]_vars PROVE Contested'
  OBVIOUS
<1>0. TypeOK /\ open \in [Process -> {"off", "version", "begin", "migrate", "commit", "ready",
                                      "failed"}]
  BY DEF SchemaInv, TypeOK
<1>1. ASSUME NEW p \in Process, OpenFile(p) PROVE Contested'
  <2>1. /\ db' = db /\ open' = [open EXCEPT ![p] = "version"] /\ open[p] = "off"
        /\ contested' = [q \in Process |->
                            IF q = p THEN \E r \in Process \ {p} : Opening(r)
                                     ELSE contested[q] \/ Opening(q)]
    BY <1>1 DEF OpenFile, SetOpen, storageVars, db
  <2>2. \A q \in Process : q # p => (Opening(q)' <=> Opening(q)) /\ open'[q] = open[q]
    BY <1>0, <2>1 DEF Opening
  <2>3. \A q, r \in Process : q # r /\ Opening(q)' /\ Opening(r)' => contested'[q]
    BY <2>1, <2>2, Zenon DEF Contested
  <2>4. \A q \in Process : q # p /\ ~contested'[q] => ~contested[q]
    BY <2>1, Zenon
  <2> QED
    BY <1>0, <2>1, <2>2, <2>3, <2>4 DEF Contested
<1>2. ASSUME UNCHANGED contested, db'.version = db.version,
             \A q \in Process : Opening(q)' => Opening(q),
             \A q \in Process : open'[q] \in {"begin", "migrate", "commit"} =>
                 open[q] \in {"begin", "migrate", "commit"} \/ db.version = 0
      PROVE  Contested'
  BY <1>2 DEF Contested
<1>3. CASE UNCHANGED <<log, open, contested>>
  <2>1. db' = db /\ \A q \in Process : Opening(q)' <=> Opening(q)
    BY <1>3 DEF db, Opening
  <2> QED
    BY <1>2, <1>3, <2>1
<1>4. ASSUME NEW p \in Process, PragmaBusy(p) \/ ReadVersion(p) \/ BeginMigration(p)
                                \/ RunSchema(p) \/ Exit(p)
      PROVE  Contested'
  <2>1. UNCHANGED <<log, contested>> /\ db' = db
    BY <1>4 DEF PragmaBusy, ReadVersion, BeginMigration, Begin, RunSchema, Rollback, Exit, Dead,
                storageVars, db
  <2>2. \A q \in Process :
           \/ open'[q] = open[q]
           \/ open'[q] \in {"off", "ready", "failed"}
           \/ open[q] = "version" /\ open'[q] = "begin" /\ db.version = 0
           \/ open[q] \in {"begin", "migrate"} /\ open'[q] \in {"migrate", "commit"}
    BY <1>0, <1>4 DEF PragmaBusy, ReadVersion, BeginMigration, RunSchema, Exit, Dead, SetOpen
  <2> QED
    BY <1>2, <2>1, <2>2 DEF Opening
<1>5. ASSUME NEW p \in Process, CommitMigration(p) PROVE Contested'
  <2>1. open[p] = "commit" /\ open' = [open EXCEPT ![p] = "ready"] /\ UNCHANGED contested
    BY <1>5 DEF CommitMigration, SetOpen
  <2>2. \A q \in Process : q # p /\ Opening(q) => contested[q]
    BY <2>1 DEF Contested, Opening
  <2>3. \A q \in Process : Opening(q)' => q # p /\ Opening(q)
    BY <1>0, <2>1 DEF Opening
  <2> QED
    BY <2>1, <2>2, <2>3 DEF Contested, Opening
<1>6. ASSUME NEW t \in Thread, CommitIndex(t) PROVE Contested'
  <2>1. UNCHANGED <<open, contested>>
    BY <1>6 DEF CommitIndex, EndJob, openVars
  <2> QED
    BY <1>2, <1>6, <2>1, IndexKeepsVersion DEF Opening
<1>7. CASE PowerLoss
  <2>1. \A q \in Process : open'[q] = "off"
    BY <1>7 DEF PowerLoss, Dead
  <2> QED
    BY <2>1 DEF Contested, Opening
<1>8. ASSUME NEW t \in Thread
      PROVE  (\E label \in {"search", "index", "reconcile"} : LockConnection(t, label))
             \/ ReadRevision(t) \/ ReadHits(t) \/ BeginIndex(t) \/ IndexFails(t)
             \/ (\E text \in Text : WriteRows(t, text))
             => UNCHANGED <<log, open, contested>>
  BY DEF LockConnection, ReadRevision, ReadHits, BeginIndex, Begin, IndexFails, Rollback,
         WriteRows, EndJob, openVars, storageVars
<1>9. Checkpoint \/ UNCHANGED vars => UNCHANGED <<log, open, contested>>
  BY DEF Checkpoint, vars, openVars, storageVars
<1> QED
  BY <1>1, <1>3, <1>4, <1>5, <1>6, <1>7, <1>8, <1>9 DEF Next

(* A migration that fails has met another process or a newer release.      *)
LEMMA FailureExplained ==
    ASSUME SchemaInv, Contested, NEW p \in Process,
           BeginMigration(p) \/ RunSchema(p), open'[p] = "failed"
    PROVE  contested[p]
<1> SUFFICES ASSUME ~contested[p] PROVE FALSE
  OBVIOUS
<1>0. TypeOK /\ Owned /\ SchemaWhole /\ open[p] \in {"begin", "migrate"}
  BY DEF SchemaInv, BeginMigration, RunSchema
<1>1. db.version = 0 /\ db.tables = 0
  BY <1>0, Current DEF Contested, SchemaWhole
<1>2. CASE BeginMigration(p)
  <2>1. open[p] = "begin" /\ writer # NoOne
    BY <1>0, <1>2 DEF BeginMigration, SetOpen, TypeOK
  <2>2. writer \in Process /\ open[writer] \in {"migrate", "commit", "ready"} /\ writer # p
    BY <1>0, <2>1 DEF TypeOK, Owned
  <2>3. open[writer] # "ready"
    BY <1>0, <1>1, <2>2 DEF SchemaWhole, SCHEMA_VERSION
  <2> QED
    BY <2>1, <2>2, <2>3 DEF Contested, Opening
<1>3. CASE RunSchema(p)
  BY <1>0, <1>1, <1>3 DEF RunSchema, SetOpen, TypeOK
<1> QED
  BY <1>2, <1>3

(* Every step that fails is explained, and stays explained.                *)
LEMMA LoneStep ==
    SchemaInv /\ Contested /\ LoneOpenSucceeds /\ [Next]_vars => LoneOpenSucceeds'
<1> SUFFICES ASSUME SchemaInv, Contested, LoneOpenSucceeds, [Next]_vars,
                    NEW q \in Process, open'[q] = "failed"
             PROVE  contested'[q] \/ db'.version = NewerVersion
  BY DEF LoneOpenSucceeds
<1>0. TypeOK /\ open \in [Process -> {"off", "version", "begin", "migrate", "commit", "ready",
                                      "failed"}]
             /\ contested \in [Process -> BOOLEAN]
  BY DEF SchemaInv, TypeOK
<1>1. db.version \in 0..NewerVersion
  BY <1>0, Current DEF State
<1>2. ASSUME NEW p \in Process, OpenFile(p) PROVE contested'[q] \/ db'.version = NewerVersion
  <2>1. db' = db /\ open' = [open EXCEPT ![p] = "version"]
    BY <1>2 DEF OpenFile, SetOpen, storageVars, db
  <2>2. q # p /\ open[q] = "failed"
    BY <1>0, <2>1
  <2>3. contested'[q] = (contested[q] \/ Opening(q))
    BY <1>2, <2>2, Zenon DEF OpenFile
  <2> QED
    BY <2>1, <2>2, <2>3 DEF LoneOpenSucceeds
<1>3. CASE ~\E p \in Process : OpenFile(p)
  <2>1. UNCHANGED contested
    BY <1>3 DEF Next, vars, openVars, PragmaBusy, ReadVersion, BeginMigration, RunSchema,
                CommitMigration, Exit, Dead, LockConnection, ReadRevision, ReadHits, BeginIndex,
                CommitIndex, IndexFails, WriteRows, EndJob, Checkpoint, PowerLoss
  <2>2. open[q] = "failed" \/ contested[q] \/ (UNCHANGED log /\ db.version = NewerVersion)
    <3>1. ASSUME NEW p \in Process, PragmaBusy(p) PROVE open[q] = "failed" \/ contested[q]
      BY <1>0, <3>1 DEF PragmaBusy, SetOpen
    <3>2. ASSUME NEW p \in Process, ReadVersion(p)
          PROVE  open[q] = "failed" \/ (UNCHANGED log /\ db.version = NewerVersion)
      BY <1>0, <1>1, <3>2 DEF ReadVersion, SetOpen, storageVars, SCHEMA_VERSION, NewerVersion
    <3>3. ASSUME NEW p \in Process, BeginMigration(p) \/ RunSchema(p)
          PROVE  open[q] = "failed" \/ contested[q]
      <4>1. CASE q = p
        BY <3>3, <4>1, FailureExplained
      <4>2. CASE q # p
        BY <1>0, <3>3, <4>2 DEF BeginMigration, RunSchema, SetOpen
      <4> QED
        BY <4>1, <4>2
    <3>4. ASSUME NEW p \in Process, CommitMigration(p) \/ Exit(p) PROVE open[q] = "failed"
      BY <1>0, <3>4 DEF CommitMigration, Exit, Dead, SetOpen
    <3>5. ~PowerLoss
      BY DEF PowerLoss, Dead
    <3> QED
      BY <1>0, <1>3, <3>1, <3>2, <3>3, <3>4, <3>5, OpenChanges
  <2>3. CASE UNCHANGED log
    <3>1. db' = db
      BY <2>3 DEF db
    <3> QED
      BY <2>1, <2>2, <3>1 DEF LoneOpenSucceeds
  <2>4. ASSUME NEW p \in Process, CommitMigration(p)
        PROVE  contested'[q] \/ db'.version = NewerVersion
    <3>1. open[q] = "failed" \/ contested[q]
      BY <1>0, <2>4 DEF CommitMigration, SetOpen
    <3> QED
      BY <2>1, <2>4, <3>1, MigrationReplacesNothing DEF LoneOpenSucceeds, NewerVersion
  <2>5. ASSUME NEW t \in Thread, CommitIndex(t)
        PROVE  contested'[q] \/ db'.version = NewerVersion
    <3>1. open' = open
      BY <2>5 DEF CommitIndex, EndJob, openVars
    <3> QED
      BY <2>1, <2>5, <3>1, IndexKeepsVersion DEF LoneOpenSucceeds
  <2>6. ~PowerLoss
    BY DEF PowerLoss, Dead
  <2> QED
    BY <2>3, <2>4, <2>5, <2>6, LogChanges
<1> QED
  BY <1>2, <1>3

(* Storage::open fails for a reason: a newer schema, or another process    *)
(* that was opening the same database, for any number of processes.        *)
THEOREM LoneOpeningSucceeds == Spec => []LoneOpenSucceeds
<1>1. Init => Contested /\ LoneOpenSucceeds
  BY DEF Init, Contested, Opening, LoneOpenSucceeds
<1> QED
  BY <1>1, SchemaInvariant, ContestStep, LoneStep, PTL DEF Spec

-----------------------------------------------------------------------------
(* The index *)

(* A commit never takes the revision back.                                 *)
LEMMA RevisionAdvances ==
    ASSUME SchemaInv, [Next]_vars, ~PowerLoss
    PROVE  db'.revision >= db.revision
<1>0. TypeOK /\ Owned /\ Drafted
  BY DEF SchemaInv
<1>1. db.revision \in Nat
  BY <1>0, Current DEF State
<1>2. CASE UNCHANGED log
  BY <1>1, <1>2 DEF db
<1>3. ASSUME NEW p \in Process, CommitMigration(p) PROVE db'.revision >= db.revision
  BY <1>0, <1>1, <1>3, CommitAdds DEF CommitMigration, Drafted
<1>4. ASSUME NEW t \in Thread, CommitIndex(t) PROVE db'.revision >= db.revision
  <2>1. writer # NoOne
    BY <1>0, <1>4, ThreadAssumption DEF CommitIndex, Owned, Writing
  <2> QED
    BY <1>0, <1>4, <2>1, CommitAdds DEF CommitIndex, Drafted
<1> QED
  BY <1>2, <1>3, <1>4, LogChanges

(* While the power stays on, no commit, of an index or of a second         *)
(* migration, takes the revision back.                                     *)
THEOREM IndexIsNeverTakenBack == Spec => IndexSurvives
<1>1. SchemaInv /\ [Next]_vars
        => [Len(log') >= Len(log) => db'.revision >= db.revision]_vars
  <2> SUFFICES ASSUME SchemaInv, [Next]_vars, Len(log') >= Len(log)
               PROVE  db'.revision >= db.revision
    OBVIOUS
  <2>1. ~PowerLoss
    BY LossCuts, Current DEF SchemaInv
  <2> QED
    BY <2>1, RevisionAdvances
<1> QED
  BY <1>1, SchemaInvariant, PTL DEF Spec, IndexSurvives

(* Only a search reads a revision, and only its second statement answers.  *)
LEMMA SearchChanges ==
    ASSUME TypeOK, [Next]_vars, NEW t \in Thread, pc'[t] = "hits"
    PROVE  \/ ReadRevision(t) /\ db.revision > 0
           \/ /\ pc[t] = "hits" /\ revision'[t] = revision[t]
              /\ interfered'[t] = interfered[t] \/ \E s \in Thread : CommitIndex(s)
<1> USE DEF TypeOK, SetPc, jobVars, EndJob
<1>1. ASSUME NEW p \in Process, OpenFile(p) \/ PragmaBusy(p) \/ ReadVersion(p)
                 \/ BeginMigration(p) \/ RunSchema(p) \/ CommitMigration(p)
      PROVE  UNCHANGED <<pc, revision, interfered>>
  BY <1>1 DEF OpenFile, PragmaBusy, ReadVersion, BeginMigration, RunSchema, CommitMigration
<1>2. ASSUME NEW p \in Process, Exit(p)
      PROVE  pc[t] = "hits" /\ UNCHANGED <<revision, interfered>>
  BY <1>2 DEF Exit, Dead
<1>3. ASSUME NEW s \in Thread, NEW label \in {"search", "index", "reconcile"},
             LockConnection(s, label)
      PROVE  pc[t] = "hits" /\ UNCHANGED <<revision, interfered>>
  BY <1>3 DEF LockConnection
<1>4. ASSUME NEW s \in Thread, ReadRevision(s)
      PROVE  \/ ReadRevision(t) /\ db.revision > 0
             \/ pc[t] = "hits" /\ revision'[t] = revision[t] /\ interfered'[t] = interfered[t]
  <2>1. CASE s = t
    BY <1>4, <2>1 DEF ReadRevision
  <2>2. CASE s # t
    BY <1>4, <2>2 DEF ReadRevision
  <2> QED
    BY <2>1, <2>2
<1>5. ASSUME NEW s \in Thread, ReadHits(s) \/ BeginIndex(s) \/ IndexFails(s)
      PROVE  pc[t] = "hits" /\ UNCHANGED <<revision, interfered>>
  BY <1>5 DEF ReadHits, BeginIndex, IndexFails
<1>6. ASSUME NEW s \in Thread, NEW text \in Text, WriteRows(s, text)
      PROVE  pc[t] = "hits" /\ UNCHANGED <<revision, interfered>>
  BY <1>6 DEF WriteRows
<1>7. ASSUME NEW s \in Thread, CommitIndex(s)
      PROVE  pc[t] = "hits" /\ UNCHANGED revision
  BY <1>7 DEF CommitIndex
<1>8. ~PowerLoss
  BY ThreadAssumption DEF PowerLoss, Dead
<1>9. Checkpoint \/ UNCHANGED vars => UNCHANGED <<pc, revision, interfered>>
  BY DEF Checkpoint, vars
<1> HIDE DEF TypeOK
<1> QED
  BY <1>1, <1>2, <1>3, <1>4, <1>5, <1>6, <1>7, <1>8, <1>9 DEF Next

(* Every step keeps what a search knows between its two statements: the    *)
(* mutex keeps the writers of its own process out.                         *)
LEMMA SearchStep == SchemaInv /\ Searching /\ [Next]_vars => Searching'
<1> SUFFICES ASSUME SchemaInv, Searching, [Next]_vars, NEW t \in Thread, pc'[t] = "hits"
             PROVE  /\ revision'[t] <= db'.revision
                    /\ interfered'[t] \/ revision'[t] = db'.revision
  BY DEF Searching
<1>0. TypeOK /\ TypeOK' /\ Owned /\ Drafted
  BY TypeStep DEF SchemaInv
<1>1. db.revision \in Nat /\ db'.revision \in Nat /\ revision[t] \in Nat
  <2>1. db.revision \in Nat
    BY <1>0, Current DEF State
  <2>2. db'.revision \in Nat
    <3>1. Len(log') \in Nat /\ Len(log') >= 1 /\ log' \in Seq(State)
      BY <1>0 DEF TypeOK
    <3>2. log'[Len(log')] \in State
      BY <3>1, ElementOfSeq
    <3> QED
      BY <3>2 DEF db, State
  <2> QED
    BY <1>0, <2>1, <2>2 DEF TypeOK
<1>2. CASE ReadRevision(t) /\ db.revision > 0
  <2>1. revision'[t] = db.revision /\ db' = db
    BY <1>0, <1>1, <1>2 DEF ReadRevision, TypeOK, storageVars, db
  <2> QED
    BY <1>1, <2>1
<1>3. CASE pc[t] = "hits" /\ revision'[t] = revision[t]
  <2>1. revision[t] <= db.revision /\ (interfered[t] \/ revision[t] = db.revision)
    BY <1>3 DEF Searching
  <2>2. ASSUME NEW s \in Thread, CommitIndex(s)
        PROVE  interfered'[t] /\ db'.revision >= db.revision
    <3>1. pc[s] = "written" /\ interfered'[t] = (interfered[t] \/ (pc[t] = "hits"
                                                     /\ ProcessOf[t] # ProcessOf[s]))
      BY <2>2, Zenon DEF CommitIndex
    <3>2. ProcessOf[t] # ProcessOf[s]
      BY <1>0, <1>3, <3>1 DEF Owned
    <3>3. ~PowerLoss
      BY <1>0, <1>3, ThreadAssumption DEF PowerLoss, Dead, TypeOK
    <3> QED
      BY <1>3, <3>1, <3>2, <3>3, RevisionAdvances
  <2>3. CASE ~\E s \in Thread : CommitIndex(s)
    <3>1. interfered'[t] = interfered[t]
      BY <1>0, <2>3, <1>2, <1>3, SearchChanges DEF ReadRevision
    <3>2. ~PowerLoss
      BY <1>0, <1>3, ThreadAssumption DEF PowerLoss, Dead, TypeOK
    <3>3. CASE UNCHANGED log
      BY <1>3, <2>1, <3>1, <3>3 DEF db
    <3>4. ASSUME NEW p \in Process, CommitMigration(p) PROVE db'.revision = db.revision
      BY <1>0, <3>4, CommitAdds DEF CommitMigration, Drafted
    <3> QED
      BY <1>3, <2>1, <2>3, <3>1, <3>2, <3>3, <3>4, LogChanges
  <2> QED
    BY <1>1, <1>3, <2>1, <2>2, <2>3
<1> QED
  BY <1>0, <1>2, <1>3, SearchChanges

(* The answer of thread t comes from a committed index that is no older    *)
(* than the revision it reports, and from just that one when no other      *)
(* process has interfered.                                                 *)
Answered(t) ==
    /\ answer[t].revision > 0 =>
          \E i \in 1..Len(log) :
              log[i].revision >= answer[t].revision /\ log[i].notes = answer[t].hits
    /\ answer[t].revision > 0 /\ ~interfered[t] /\ pc[t] # "hits" =>
          \E i \in 1..Len(log) :
              log[i].revision = answer[t].revision /\ log[i].notes = answer[t].hits

(* What can become of an answer: a search replaces it, its process dies,   *)
(* or it stays, and is not excused less than before.                       *)
LEMMA AnswerChanges ==
    ASSUME TypeOK, [Next]_vars, NEW t \in Thread
    PROVE  \/ answer'[t] = NoAnswer
           \/ ReadHits(t)
           \/ /\ answer'[t] = answer[t]
              /\ ~interfered'[t] /\ pc'[t] # "hits" => ~interfered[t] /\ pc[t] # "hits"
<1> DEFINE Stays == /\ answer'[t] = answer[t]
                    /\ ~interfered'[t] /\ pc'[t] # "hits" => ~interfered[t] /\ pc[t] # "hits"
<1> USE DEF TypeOK, SetPc, jobVars, EndJob
<1>1. ASSUME NEW p \in Process, OpenFile(p) \/ PragmaBusy(p) \/ ReadVersion(p)
                 \/ BeginMigration(p) \/ RunSchema(p) \/ CommitMigration(p)
      PROVE  Stays
  BY <1>1 DEF OpenFile, PragmaBusy, ReadVersion, BeginMigration, RunSchema, CommitMigration
<1>2. ASSUME NEW p \in Process, Exit(p) PROVE answer'[t] = NoAnswer \/ Stays
  BY <1>2 DEF Exit, Dead
<1>3. ASSUME NEW s \in Thread, NEW label \in {"search", "index", "reconcile"},
             LockConnection(s, label)
      PROVE  Stays
  BY <1>3 DEF LockConnection
<1>4. ASSUME NEW s \in Thread, ReadRevision(s) PROVE Stays
  BY <1>4 DEF ReadRevision
<1>5. ASSUME NEW s \in Thread, ReadHits(s) PROVE ReadHits(t) \/ Stays
  <2>1. CASE s = t
    BY <1>5, <2>1
  <2>2. CASE s # t
    BY <1>5, <2>2 DEF ReadHits
  <2> QED
    BY <2>1, <2>2
<1>6. ASSUME NEW s \in Thread, BeginIndex(s) \/ IndexFails(s) PROVE Stays
  BY <1>6 DEF BeginIndex, IndexFails
<1>7. ASSUME NEW s \in Thread, NEW text \in Text, WriteRows(s, text) PROVE Stays
  BY <1>7 DEF WriteRows
<1>8. ASSUME NEW s \in Thread, CommitIndex(s) PROVE Stays
  <2>1. answer' = answer /\ pc[s] = "written" /\ pc' = [pc EXCEPT ![s] = "idle"]
    BY <1>8 DEF CommitIndex
  <2>2. ~interfered'[t] => ~interfered[t]
    BY <1>8, Zenon DEF CommitIndex
  <2> QED
    BY <2>1, <2>2
<1>9. PowerLoss => answer'[t] = NoAnswer
  BY ThreadAssumption DEF PowerLoss, Dead
<1>10. Checkpoint \/ UNCHANGED vars => Stays
  BY DEF Checkpoint, vars
<1> HIDE DEF TypeOK, Stays
<1>11. answer'[t] = NoAnswer \/ ReadHits(t) \/ Stays
  BY <1>1, <1>2, <1>3, <1>4, <1>5, <1>6, <1>7, <1>8, <1>9, <1>10 DEF Next
<1> QED
  BY <1>11 DEF Stays

(* As long as the power stays on, what is in the log stays there.          *)
LEMMA LogGrows ==
    ASSUME TypeOK, [Next]_vars, ~PowerLoss
    PROVE  \A i \in 1..Len(log) : i \in 1..Len(log') /\ log'[i] = log[i]
<1>1. ASSUME Commit PROVE \A i \in 1..Len(log) : i \in 1..Len(log') /\ log'[i] = log[i]
  BY <1>1, CommitAdds, Current
<1> QED
  BY <1>1, LogChanges DEF CommitMigration, CommitIndex

(* Every step keeps the answers that have been given.                      *)
LEMMA AnswerStep ==
    ASSUME SchemaInv, Searching, [Next]_vars, NEW t \in Thread, Answered(t)
    PROVE  Answered(t)'
<1>0. TypeOK
  BY DEF SchemaInv
<1>1. CASE answer'[t] = NoAnswer
  BY <1>1 DEF Answered, NoAnswer
<1>2. CASE ReadHits(t)
  <2>1. /\ log' = log /\ Len(log) \in 1..Len(log)
        /\ answer'[t].revision = revision[t] /\ answer'[t].hits = db.notes
        /\ pc[t] = "hits" /\ interfered' = interfered
    BY <1>0, <1>2, Current DEF ReadHits, TypeOK, storageVars
  <2>2. revision[t] <= db.revision /\ (interfered[t] \/ revision[t] = db.revision)
    BY <2>1 DEF Searching
  <2>3. db.revision >= revision[t]
    BY <1>0, <2>2, Current DEF TypeOK, State
  <2> QED
    BY <1>0, <2>1, <2>2, <2>3, Current DEF Answered
<1>3. CASE /\ ~PowerLoss /\ answer'[t] = answer[t]
           /\ ~interfered'[t] /\ pc'[t] # "hits" => ~interfered[t] /\ pc[t] # "hits"
  <2>1. \A i \in 1..Len(log) : i \in 1..Len(log') /\ log'[i] = log[i]
    BY <1>0, <1>3, LogGrows
  <2> QED
    BY <1>3, <2>1 DEF Answered
<1>4. CASE PowerLoss
  <2>1. answer'[t] = NoAnswer
    BY <1>4, ThreadAssumption DEF PowerLoss, Dead
  <2> QED
    BY <1>1, <2>1
<1> QED
  BY <1>0, <1>1, <1>2, <1>3, <1>4, AnswerChanges

(* Everything a search relies on, and every answer.                        *)
LEMMA AnswerInvariant == Spec => [](Searching /\ \A t \in Thread : Answered(t))
<1> DEFINE Answers == \A t \in Thread : Answered(t)
<1>1. Init => Searching /\ Answers
  BY DEF Init, Searching, Answered, NoAnswer
<1>2. SchemaInv /\ Searching /\ Answers /\ [Next]_vars => Answers'
  BY AnswerStep
<1> HIDE DEF Answers
<1>3. Spec => [](Searching /\ Answers)
  BY <1>1, <1>2, SchemaInvariant, SearchStep, PTL DEF Spec
<1> QED
  BY <1>3 DEF Answers

(* The hits of search_notes never come from an index older than the        *)
(* revision it reports, whoever commits between its two statements.        *)
THEOREM SearchesAreNotOlder == Spec => []HitsNotOlder
<1>1. (\A t \in Thread : Answered(t)) => HitsNotOlder
  BY DEF Answered, HitsNotOlder
<1> QED
  BY <1>1, AnswerInvariant, PTL

(* The hits come from the very index that is reported, unless another      *)
(* process committed: the connection's mutex keeps the own writers out.    *)
THEOREM SearchesAreNotSplit == Spec => []OwnWritesDoNotSplitSearch
<1>1. (\A t \in Thread : Answered(t)) => OwnWritesDoNotSplitSearch
  BY DEF Answered, OwnWritesDoNotSplitSearch
<1> QED
  BY <1>1, AnswerInvariant, PTL

-----------------------------------------------------------------------------
(* Whole transactions *)

(* What the open transaction would add to the history now: a migration has *)
(* left the notes alone, a writer starts from the current state and is one *)
(* revision away from it once its rows are written, or nowhere.            *)
Based ==
    /\ \A p \in Process : open[p] \in {"migrate", "commit"} => draft.notes = db.notes
    /\ \A t \in Thread : pc[t] \in {"walk", "apply"} => draft = db
    /\ \A t \in Thread : pc[t] = "written" =>
          \/ draft = db /\ db.revision > 0
          \/ \E text \in Text : draft = [db EXCEPT !.notes = text, !.revision = @ + 1]

(* A database is given by its four fields.                                 *)
LEMMA SameFields ==
    ASSUME NEW d \in State, NEW e \in State, d.version = e.version, d.tables = e.tables,
           d.revision = e.revision, d.notes = e.notes
    PROVE  d = e
BY DEF State

(* The base stays while nobody writes, begins or commits.                  *)
LEMMA BaseKept ==
    ASSUME Based, UNCHANGED <<log, draft>>,
           \A p \in Process : open'[p] \in {"migrate", "commit"} => open[p] = open'[p],
           \A t \in Thread : pc'[t] \in {"walk", "apply", "written"} => pc[t] = pc'[t]
    PROVE  Based'
<1>1. db' = db
  BY DEF db
<1> QED
  BY <1>1 DEF Based

(* The statements of SCHEMA do not touch the notes.                        *)
LEMMA SchemaKeepsNotes ==
    ASSUME TypeOK, NEW p \in Process, RunSchema(p)
    PROVE  draft'.notes = draft.notes
<1>1. \/ draft' = [draft EXCEPT !.tables = @ + 1]
      \/ draft' = [draft EXCEPT !.version = SCHEMA_VERSION]
      \/ draft' = draft
  BY DEF RunSchema, Rollback
<1> QED
  BY <1>1 DEF TypeOK, State

(* While one thread writes nobody else does.                               *)
LEMMA LoneWriter ==
    ASSUME TypeOK, Owned, NEW t \in Thread, Writing(t)
    PROVE  /\ writer = ProcessOf[t] /\ open[ProcessOf[t]] = "ready"
           /\ \A p \in Process : open[p] \notin {"migrate", "commit"}
           /\ \A s \in Thread : Writing(s) => s = t
<1>1. /\ writer = ProcessOf[t] /\ open[ProcessOf[t]] = "ready" /\ mutex[ProcessOf[t]] = t
      /\ writer # NoOne
  BY ThreadAssumption DEF Owned, Writing, TypeOK
<1>2. \A p \in Process : open[p] \notin {"migrate", "commit"}
  BY <1>1 DEF Owned
<1>3. ASSUME NEW s \in Thread, Writing(s) PROVE s = t
  BY <1>1, <1>3 DEF Owned, Writing
<1> QED
  BY <1>1, <1>2, <1>3

(* Every step keeps the draft one transaction away from the current state. *)
LEMMA BasedStep == SchemaInv /\ Based /\ [Next]_vars => Based'
<1> SUFFICES ASSUME SchemaInv, Based, [Next]_vars PROVE Based'
  OBVIOUS
<1>0. TypeOK /\ Owned /\ TypeOK' /\ Owned'
  BY TypeStep, OwnedStep DEF SchemaInv
<1> USE DEF storageVars, openVars, jobVars, SetOpen, SetPc
<1>1. CASE writer' = NoOne
  <2>1. /\ \A p \in Process : open'[p] \notin {"migrate", "commit"}
        /\ \A t \in Thread : pc'[t] \notin {"walk", "apply", "written"}
    BY <1>0, <1>1, ThreadAssumption DEF Owned, TypeOK, Writing
  <2> QED
    BY <2>1 DEF Based
<1>2. ASSUME NEW p \in Process, OpenFile(p) \/ PragmaBusy(p) \/ ReadVersion(p) PROVE Based'
  <2>1. /\ UNCHANGED <<log, draft, pc>>
        /\ \E label \in {"version", "begin", "ready", "failed"} : open' = [open EXCEPT ![p] = label]
    BY <1>2 DEF OpenFile, PragmaBusy, ReadVersion
  <2>2. \A q \in Process : open'[q] \in {"migrate", "commit"} => open[q] = open'[q]
    BY <1>0, <2>1 DEF TypeOK
  <2> QED
    BY <2>1, <2>2, BaseKept
<1>3. ASSUME NEW p \in Process, BeginMigration(p) PROVE Based'
  <2>1. CASE Begin(p)
    <3>1. /\ writer = NoOne /\ draft' = db /\ db' = db /\ pc' = pc
      BY <1>3, <2>1 DEF BeginMigration, Begin, db
    <3>2. \A t \in Thread : pc[t] \notin {"walk", "apply", "written"}
      BY <1>0, <3>1, NothingDrafted DEF Writing
    <3> QED
      BY <3>1, <3>2 DEF Based
  <2>2. CASE open' = [open EXCEPT ![p] = "failed"] /\ UNCHANGED storageVars
    <3>1. \A q \in Process : open'[q] \in {"migrate", "commit"} => open[q] = open'[q]
      BY <1>0, <2>2 DEF TypeOK
    <3>2. UNCHANGED <<log, draft, pc>>
      BY <1>3, <2>2 DEF BeginMigration
    <3> QED
      BY <3>1, <3>2, BaseKept
  <2> QED
    BY <1>3, <2>1, <2>2 DEF BeginMigration
<1>4. ASSUME NEW p \in Process, RunSchema(p) PROVE Based'
  <2>1. /\ open[p] = "migrate" /\ log' = log /\ db' = db /\ pc' = pc
    BY <1>4 DEF RunSchema, Rollback, db
  <2>2. draft'.notes = db.notes
    BY <1>0, <1>4, <2>1, SchemaKeepsNotes DEF Based
  <2>3. \A t \in Thread : pc[t] \notin {"walk", "apply", "written"}
    BY <1>0, <2>1, LoneWriter DEF Writing
  <2> QED
    BY <2>1, <2>2, <2>3 DEF Based
<1>5. ASSUME NEW p \in Process, CommitMigration(p) PROVE Based'
  BY <1>1, <1>5 DEF CommitMigration, Commit
<1>6. ASSUME NEW p \in Process, Exit(p) PROVE Based'
  <2>1. /\ UNCHANGED <<log, draft>>
        /\ \A q \in Process : open'[q] \in {open[q], "off"}
        /\ \A t \in Thread : pc'[t] \in {pc[t], "idle"}
    BY <1>0, <1>6 DEF Exit, Dead, TypeOK
  <2> QED
    BY <2>1, BaseKept
<1>7. ASSUME NEW t \in Thread, UNCHANGED <<log, draft, open>>,
             \E label \in {"search", "index", "reconcile", "hits", "idle"} :
                pc' = [pc EXCEPT ![t] = label]
      PROVE  Based'
  <2>1. \A s \in Thread : pc'[s] \in {"walk", "apply", "written"} => pc[s] = pc'[s]
    BY <1>0, <1>7 DEF TypeOK
  <2> QED
    BY <1>7, <2>1, BaseKept
<1>8. ASSUME NEW t \in Thread,
             \/ \E label \in {"search", "index", "reconcile"} : LockConnection(t, label)
             \/ ReadRevision(t) \/ ReadHits(t)
      PROVE  Based'
  BY <1>7, <1>8 DEF LockConnection, ReadRevision, ReadHits, EndJob
<1>9. ASSUME NEW t \in Thread, BeginIndex(t) PROVE Based'
  <2>1. CASE Begin(ProcessOf[t]) /\ UNCHANGED open
    <3>1. /\ writer = NoOne /\ draft' = db /\ db' = db
          /\ \E label \in {"walk", "apply"} : pc' = [pc EXCEPT ![t] = label]
      BY <1>9, <2>1, ThreadAssumption DEF BeginIndex, Begin, db
    <3>2. /\ \A p \in Process : open[p] \notin {"migrate", "commit"}
          /\ \A s \in Thread : pc[s] # "written"
      BY <1>0, <3>1, NothingDrafted DEF Writing
    <3>3. \A s \in Thread : pc'[s] # "written"
      BY <1>0, <3>1, <3>2 DEF TypeOK
    <3> QED
      BY <2>1, <3>1, <3>2, <3>3 DEF Based
  <2>2. CASE EndJob(t) /\ UNCHANGED storageVars
    BY <1>7, <2>2 DEF EndJob
  <2> QED
    BY <1>9, <2>1, <2>2 DEF BeginIndex
<1>10. ASSUME NEW t \in Thread, NEW text \in Text, WriteRows(t, text) PROVE Based'
  <2>1. /\ pc[t] \in {"walk", "apply"} /\ pc' = [pc EXCEPT ![t] = "written"]
        /\ db' = db /\ open' = open
        /\ pc[t] # "walk" => db.revision > 0
    BY <1>10 DEF WriteRows, db
  <2>2. /\ \A p \in Process : open[p] \notin {"migrate", "commit"}
        /\ \A s \in Thread : pc[s] \in {"walk", "apply", "written"} => s = t
    BY <1>0, <2>1, LoneWriter DEF Writing
  <2>3. draft = db
    BY <2>1 DEF Based
  <2>4. \/ draft' = [db EXCEPT !.notes = text, !.revision = @ + 1]
        \/ pc[t] # "walk" /\ text = db.notes /\ draft' = [db EXCEPT !.notes = text]
    <3>1. CASE pc[t] = "walk" \/ text # draft.notes
      BY <1>10, <2>3, <3>1 DEF WriteRows
    <3>2. CASE pc[t] # "walk" /\ text = draft.notes
      <4>1. draft' = [db EXCEPT !.notes = text, !.revision = db.revision]
        BY <1>10, <2>3, <3>2 DEF WriteRows
      <4> QED
        BY <1>0, <2>3, <3>2, <4>1, Current DEF State
    <3> QED
      BY <3>1, <3>2
  <2>5. \/ draft' = db /\ db.revision > 0
        \/ draft' = [db EXCEPT !.notes = text, !.revision = @ + 1]
    BY <1>0, <2>1, <2>4, Current DEF State
  <2>6. \A s \in Thread : /\ pc'[s] \notin {"walk", "apply"}
                          /\ pc'[s] = "written" => s = t
    BY <1>0, <2>1, <2>2 DEF TypeOK
  <2> QED
    BY <2>1, <2>2, <2>5, <2>6 DEF Based
<1>11. ASSUME NEW t \in Thread, CommitIndex(t) \/ IndexFails(t) PROVE Based'
  BY <1>1, <1>11 DEF CommitIndex, Commit, IndexFails, Rollback
<1>12. CASE Checkpoint \/ UNCHANGED vars
  BY <1>12, BaseKept DEF Checkpoint, vars
<1>13. CASE PowerLoss
  <2>1. writer' = NoOne
    BY <1>0, <1>13 DEF PowerLoss, Dead, TypeOK
  <2> QED
    BY <1>1, <2>1
<1> QED
  BY <1>2, <1>3, <1>4, <1>5, <1>6, <1>8, <1>9, <1>10, <1>11, <1>12, <1>13 DEF Next

(* The commit of a migration is the step that makes the schema appear.     *)
LEMMA MigrationIsWhole ==
    ASSUME SchemaInv, Based, NEW p \in Process, CommitMigration(p)
    PROVE  History!Migrate
<1> DEFINE whole == [db EXCEPT !.version = 1, !.tables = Statements]
<1>1. TypeOK /\ db \in State /\ draft \in State /\ db.version = 0
  BY Current, MigrationReplacesNothing DEF SchemaInv, TypeOK
<1>2. /\ draft.version = 1 /\ draft.tables = Statements
      /\ draft.revision = db.revision /\ draft.notes = db.notes
  BY DEF SchemaInv, Drafted, Based, CommitMigration, SCHEMA_VERSION
<1>3. /\ whole \in State /\ whole.version = 1 /\ whole.tables = Statements
      /\ whole.revision = db.revision /\ whole.notes = db.notes
  <2> DEFINE e == [db EXCEPT !.version = 1]
  <2>1. /\ e \in State /\ e.version = 1 /\ e.revision = db.revision /\ e.notes = db.notes
    BY <1>1, VersionChange DEF NewerVersion
  <2>2. whole = [e EXCEPT !.tables = Statements] /\ Statements \in 0..Statements
    BY BoundsAssumption
  <2> HIDE DEF e
  <2> QED
    BY <2>1, <2>2, TablesChange
<1> HIDE DEF whole
<1>4. draft = whole
  BY <1>1, <1>2, <1>3, SameFields
<1>5. log' = Append(log, whole) /\ synced' = synced
  BY <1>4 DEF CommitMigration, Commit
<1> QED
  BY <1>1, <1>5 DEF History!Migrate, History!Add, History!latest, db, whole

(* The commit of a writer replaces the latest index, or confirms it.       *)
LEMMA IndexIsWhole ==
    ASSUME SchemaInv, Based, NEW t \in Thread, CommitIndex(t)
    PROVE  (\E text \in Text : History!Replace(text)) \/ History!Confirm
<1>1. pc[t] = "written" /\ log' = Append(log, draft) /\ synced' = synced
  BY DEF CommitIndex, Commit
<1>2. db.version = 1
  BY <1>1, ThreadAssumption DEF SchemaInv, Owned, SchemaWhole, SCHEMA_VERSION
<1>3. CASE draft = db /\ db.revision > 0
  BY <1>1, <1>2, <1>3 DEF History!Confirm, History!Add, History!latest, db
<1>4. ASSUME NEW text \in Text, draft = [db EXCEPT !.notes = text, !.revision = @ + 1]
      PROVE  History!Replace(text)
  BY <1>1, <1>2, <1>4 DEF History!Replace, History!Add, History!latest, db
<1> QED
  BY <1>1, <1>3, <1>4 DEF Based

(* The transactions of several processes, each of several statements that  *)
(* may fail or die with their process, implement a history of whole ones:  *)
(* BEGIN IMMEDIATE makes every writer start from the current state, and    *)
(* whoever changes a row commits the next revision with it.                *)
THEOREM WholeTransactions == Spec => TransactionsAreWhole
<1>1. Init => History!Init /\ Based
  <2>1. Init => Len(log) = 1 /\ synced = 1
    BY DEF Init
  <2>2. Init => Based
    BY DEF Init, Based
  <2> QED
    BY <2>1, <2>2 DEF History!Init
<1>2. SchemaInv /\ Based /\ [Next]_vars => [History!Next]_<<log, synced>>
  <2> SUFFICES ASSUME SchemaInv, Based, [Next]_vars PROVE [History!Next]_<<log, synced>>
    OBVIOUS
  <2>1. CASE UNCHANGED log
    <3>1. synced' = synced \/ synced' = Len(log)
      BY DEF Next, vars, storageVars, OpenFile, PragmaBusy, ReadVersion, BeginMigration, Begin,
             RunSchema, Rollback, Exit, LockConnection, ReadRevision, ReadHits, BeginIndex,
             CommitIndex, CommitMigration, Commit, IndexFails, WriteRows, Checkpoint, PowerLoss
    <3> QED
      BY <2>1, <3>1 DEF History!Next, History!Settle
  <2>2. ASSUME NEW p \in Process, CommitMigration(p) PROVE History!Next
    BY <2>2, MigrationIsWhole DEF History!Next
  <2>3. ASSUME NEW t \in Thread, CommitIndex(t) PROVE History!Next
    BY <2>3, IndexIsWhole DEF History!Next
  <2>4. CASE PowerLoss
    BY <2>4 DEF PowerLoss, History!Next, History!Lose
  <2> QED
    BY <2>1, <2>2, <2>3, <2>4, LogChanges
<1> QED
  BY <1>1, <1>2, SchemaInvariant, BasedStep, PTL DEF Spec, TransactionsAreWhole, History!Spec
=============================================================================
