# A TLA+ verification of Grimmore

Grimmore is a local companion for an Obsidian vault. A daemon, `grimmored`, keeps
a SQLite index of the vault's notes and follows the file system; an Obsidian
plugin and an MCP bridge talk to it over a private local socket; the plugin turns
a proposed replacement of a note into a diff that the user reviews and that
Obsidian then writes. Installers for three systems switch versions under a stable
launcher.

This directory models the parts of that system whose correctness depends on the
order in which things happen. TLC checks the models on small instances, and TLAPS
proves the central facts for every value of the constants. `PROJECT.json` lists
components, runs, theorems, hazards and findings, and maps every definition to
the source lines it stands for.

## 1. Inventory

| Part | Source | State it keeps | Operations |
|---|---|---|---|
| Vault index | `crates/grimmored/src/vault_index` | tables `vaults`, `notes`, FTS rows, `index_revision` | `index_vault`, `reconcile_vault_paths`, `search_notes`, `propose_note_replacement` |
| Vault watcher | `vault_watcher.rs` | bounded event channel, overflow flag, `WatchBatch` | callback, `absorb`, `reconcile_events`, `reconcile_batch` |
| Daemon process | `main.rs` | its threads | `serve`, `index`, `search`, `doctor`, `mcp-stdio` |
| Storage | `storage/mod.rs` | the database, one connection behind a mutex | `open` and migration, `connection` |
| IPC connection | `ipc/connection.rs` | in-flight map, cancellation tokens, session expiry | request loop, `cancel_request`, `cancel_all`, spawned tasks |
| Unix endpoint | `ipc/unix.rs` | the socket file, the `SocketGuard` | `remove_stale_socket`, `bind_private_listener`, `SocketGuard::drop` |
| Windows endpoint | `ipc/windows.rs`, `grimmore-windows-native` | the named pipe | create, accept, check the peer |
| Session handshake | `grimmore-core/src/session.rs`, `auth.rs`, `endpoint.rs` | nonces, proofs, expiry | inspection of the endpoint, client and server handshake |
| Framing and protocol | `grimmore-core/src/framing.rs`, `protocol.rs` | none | encode, decode, schema |
| Credential store | `grimmore-core/src/credentials.rs` | a secret in the OS keyring | `load`, `load_or_create`, `verify_store` |
| MCP bridge | `mcp/` | one connection behind a mutex, `next_id`, `usable` | the tools search and health |
| Launcher | `grimmore-launcher` | none | session for the plugin and relay of its frames; on Windows, start of the current version |
| Plugin review | `apps/obsidian-plugin/src/main.ts`, `vault/`, `index-reconciliation.ts` | locals of the review across its awaits | review, retry, approve, `Vault.process` |
| Plugin session client | `plugin-session-client.ts` | pending map, child process, timers | `request`, `#failConnection`, `close` |
| Plugin settings, metrics | `settings.ts`, `startup-metrics.ts` | settings | load, save |
| Installers | `installers/linux`, `macos`, `windows` | version directories, current and previous pointers, journal, lock | install, rollback, uninstall |
| Release packaging | `release/`, `.github` | none | one-shot builds |

How they interact. The kernel calls the watcher's callback, which feeds the
channel of the reconciliation task; the task, the initial index thread and any
`grimmored index` process write the same database. Connections of the endpoint run
requests against the index concurrently with all of them. The plugin's review
reads the note through Obsidian, asks the daemon (through a launcher process and a
session) whether the index agrees with what it read, retries while the index
lags, and leaves the write to `Vault.process`. Daemons share nothing with one
another but the socket file and the database.

What is hard, and what has to hold:

* *Index and watcher.* Notes change between being listed, read and committed; the
  channel overflows; a rescan fails; the daemon dies. A stale row must never be
  forgotten, rows of two roots must not mix, and a revision must name one index.
* *Connection.* A cancellation races its task, the limit races completion, expiry
  and disconnection find requests running. One answer at most, an answer at least
  unless cancelled, every token cancelled at an orderly end, a limit that counts right.
* *Endpoint.* System calls of several daemons interleave on one path, and a
  daemon may die between any two. A serving daemon must not be displaced, a
  shutdown must clean up its own file and only that, and leftovers must not lock
  later daemons out.
* *Review.* Every await lets the user, another review, a settings change or the
  plugin's end in. Only what was reviewed may be written, over what it was
  reviewed against; nothing may come back to life after unloading; nothing may
  wait forever.
* *Sessions, MCP bridge, launcher.* The daemon dies or is replaced between any two
  messages, each side has its own timeout, two processes may create the secret, an
  answer comes late or never. Both ends must mean the same session, an old answer
  must not be taken for a new one, and every call, start and relay must end.
* *Database.* Several processes open, migrate, write and read one file, and any of
  them may be killed. The schema must be whole, the index must not be taken back, and
  a search must say which index its hits are from.
* *Session client.* Late answers, timeouts and the exit of a child process meet new
  requests.
* *Installers.* Two pointers are switched by separate system calls and the
  installer may die in between. Pointers, versions and stable links are in three directories,
  whose changes become permanent separately.

The hazards, each at its line, are in `PROJECT.json`.

## 2. Modules and how they correspond to the code

### VaultIndex and VaultWatcher

`VaultIndex` has the disk, the tables and the scans. `disk[p]` is what the user
left at a path: a text, nothing, a file that cannot be read, or a symbolic link.
`index`, `indexedRoot` and `indexRevision` are the tables; `writer` holds SQLite's
write lock. `index_vault` is `BeginWalk` (`BEGIN IMMEDIATE` precedes the walk), one
`WalkEntry` per path while directories are listed, one `ReadEntry` or `ReadFails`
per listed file, and `CommitWalk`. `reconcile_vault_paths` is the reverse: one
`ScanChangedPath` per path without the lock, then `CommitPaths` or `RootRefused`.
A text stands for its own SHA-256 revision, title and FTS row, since all of them
are written from the same text in the same transaction. The notes of a foreign
root (a `grimmored index` with the same vault id and another directory) are one
constant value.

`VaultWatcher` composes these steps into threads: the initial index, the task and
the CLI are the three actors of `pc`. Notifications travel `kernel` → `queue` →
`batchFull`/`batchPaths`. A notification is reduced to what `absorb` and
`scan_changed_path` distinguish: a note's path, a directory, an irrelevant path,
one that demands a full rescan, and noise. `CallbackSends` and `CallbackSetsFlag`
are two steps because `try_send` and the store of the flag are two instructions.
`CloseBatch` is the end of the window with the swap of the flag. `LockTimesOut` and
`ReconcileTimesOut` are `SQLITE_BUSY`, possible only against the other process,
since the daemon's own threads share a mutex. `Exit` is the daemon ending after a
failed initial index, `Crash` a kill at any point. The variable `dropped` is history: the
notes whose hint was consumed by a reconciliation that failed.

`RootAliased` says that the vault was given by a path with a symbolic link in it. The
watch then reports paths below that path, and `SeenHint` is what `scan_changed_path` makes
of them against the canonical root.

### IpcConnection

One connection after the handshake. Requests are numbered as they are read and
carry ids chosen by the client (`id`, arbitrary in `Init`). The loop's branches are
`AcceptCall`, `RefuseCall`, `CancelTakes`, `CancelSignals` and `CancelReplies` (the token
is taken under the lock, signalled after it, and then the loop waits for its write),
`CancelMisses`, `ReadExpired`, `ReadEof` and `ReadGarbage`; a task goes through `TaskChecks`,
then `TaskWrites` or `TaskDrops`, then `TaskLeaves`. A write of the loop fails only once the peer
is gone, for its answers are small; a task's response may also be too large for a
frame (`TaskDrops`), which is logged and the client hears nothing. What a method computes is
`TaskChecks`' business of having run; its answer is a count in `answers`.

A request is `Open` while its response is neither written nor dropped and nobody has cancelled it.
A task that is cancelled after it has looked at its token is not open any more and still
writes. Such tasks come on top of the limit and outlive an orderly end; the properties
claim no more than that.

`ReuseIds` lets the client send an id again. The run and all theorems but the first two are for
clients that do not, as the plugin's and the bridge's counters never do; with reuse, a
cancelled task removes the map entry of the later request with its id (`OpenRequestsInMap`
fails after three requests), see the hazard at `connection.rs:114`.

`RequestService` is the promise of a connection: requests are read in order, each is answered at
most once, and a cancellation silences a pending request in one step (`Cancel`), before it is
answered itself (`Confirm`). `Life` is the mapping: a request is pending while its task runs and
its token is not signalled, and a cancellation counts as read when it signals, until when
its request looks unread. From `TaskChecks` on an answer is out of reach of a cancellation; that
is `Decide`.

### CredentialStore, LocalSession and LocalClients

`CredentialStore` has the keyring entry and the secret each process holds. `GetSecret` and
`SetSecret` are two steps, since the keyring has nothing that joins them; `overlapped` is
history. An entry is absent, the raw bytes of an earlier release, the prefixed
encoding, or neither.

`LocalSession` goes from there to an authenticated session. `Inspect` and `Connect` are the two
halves of `connect_authenticated` on Unix, between which the daemon may be replaced;
`ReadChallenge` and `ReadReady` are the client's reads, `ReadHello` and `ReadAuthenticate` the
daemon's, each with the write that follows it; `HandshakeFails` and
`ServerHandshakeFails` are the two timeouts. A proof is the tuple of its key, its actor and its
transcript; a nonce or session id is one that nothing else has. `up` and `down` are the two
directions of a stream; what was sent before a close can still be read. The endpoint is reduced
to one daemon at a time, whose starts `UnixEndpoint` has in full.

`LocalClients` adds what the two clients do with their session. A tool call goes from `Submit`
through the queue of the mutex to `BeginCall` and ends in `ReadResponse`, `StreamEnds` or
`ResponseTimeout`, unless `BeginCall` finds that it cannot be made: the connection is given up, the
write fails, or the clock or the parameters yield no request, which uses up an id and leaves the
connection usable. A request that does not fit the buffer of the socket is `writing` until the
daemon has read it, for the timeout covers the read only. The daemon's side is that of
`IpcConnection` without cancellation, which neither client uses: `ReadRequest`, `EndTask`,
`EndConnection`. `RelayUp`, `RelayDown`, `CloseInput` and `ExitLauncher` are the two copies of the
launcher. `MaxId` stands for `u64::MAX`.

`SerialCalls` is what the MCP host may rely on: a line with one counter, at which a call that is
given up closes the counter for good. It has neither ids nor frames nor a daemon; a call is out from
the write of its request to its result.

### Database

`log` is the sequence of committed states, of which the last is current; `draft` is the open write
transaction. `Storage::open` is `OpenFile`, `PragmaBusy` or `ReadVersion`, `BeginMigration`, one
`RunSchema` per statement, `CommitMigration`. `LockConnection` takes the mutex of the process's one
connection; a search is `ReadRevision` and `ReadHits`, a writer `BeginIndex`, `WriteRows`,
`CommitIndex`. The contents of the tables are one value. What SQLite does is external: one
writer, atomic commits, rollback of whoever dies. As the database runs with `synchronous = NORMAL`,
`PowerLoss` takes back commits after the last checkpoint. `contested` and `interfered` are
history.

`IndexHistory` is the promise: a sequence of whole migrations, index updates and confirmations, each
made from the state before it, where notes do not change without a new revision. There are no
processes, drafts or locks in it; `log` and `synced` are its two variables.

### UnixEndpoint

Each system call on the endpoint's path is an action: `Inspect` (lstat with the
type, owner and mode checks), `Connect`, `RemoveStale`, `Bind`, `Listen` (two system calls of
`UnixListener::bind`, between which a probe is refused), `Chmod`, `Stat`, and at
the end `Shutdown` (the guard's comparison), `Unlink`, `Close`. Sockets, and their
inodes, are numbered by the start that made them. `Bind` leaves the mode to the
umask, so it may or may not be private already. `settled` is history. `Blocked(d)` is the one
reason a daemon that is left alone may have not to serve: a file at the path that is not private
and not its own, which a daemon that died before `Chmod` has left.
With `MayBeBusy` a live daemon may also miss the 250 ms of the probe.

### PatchReview

Each `pc[r]` value is an await of the review: `reading`, `input`, `proposing`, `delay`,
`approval`, `applying`. `ProposalArrives`, `StaleIndex` and `RequestRefused` are the
three answers of `propose_note_replacement`, computed from the index at that
moment. `Process` is one step because Obsidian runs the callback of
`Vault.process` atomically with the write. A session client is numbered by the
settings changes before it; a review holds the client it started with, also after
the plugin has replaced it. `Reconcile` is the effect of a reconciliation of
`VaultWatcher` on one path; it may be arbitrarily late. Its vault is one note with one
`TFile`, whose path and text change.

### PointerPair and MacInstaller

`PointerPair` is the promise: the pair of `current` and `previous` changes in one step, to a
new version and the one it replaces; a loss of power may undo what is not settled, but
only back to a pair that was in force.

`MacInstaller` has the two scripts command by command: `Enter` (the lock, tried once),
`Recover`, `Publish` (verification, staging and the rename into `versions/`) or `ReadPointers`
(rollback), `EnsureStablePaths`, `ChooseSwitch`, then `SetFirst` for a first installation or
`WriteJournal`, `SetPrevious`, `SetCurrent`, `RemoveJournal`, each followed by the barrier on its
directory (`SyncVersions`, `SyncBin`, and for the root `Sync` and `LastSync`). `Die` is a check on the installation itself that fails; `Stop` is anything
else that ends a script early: a signature, archive or doctor check, a failed barrier, a
kill.

A change is seen by all processes at once and is permanent after the next barrier on its
directory, as `grimmore_sync_directory_with_full_barrier` syncs one directory only. `images` is the
root at its last barrier and after every change since; `versions` and `versionsKept`, `bin`
and `binKept` are what is seen of the other two directories and what is permanent. A loss of power
comes back to any of the images and, independently, to any set between what is permanent and
what is seen (`Survivors`). So a barrier that is left out shows: without the one on `versions/` a
pointer may survive its version. The only order that is assumed is that of the changes of
one directory, the root, among themselves.

One case the scripts do not cover, and `cutOff` records it: a script that is stopped between a
rename into `versions/`, or the last link in `bin/`, and its barrier. The next script finds the
change and makes no barrier for it.

The refinement reads the journal: `Effective` is the pair in the journal if there is one and
the two links otherwise.

The modules whose names begin with `MC` declare the model values. Definitions whose comment starts with "Mutant of" are broken variants of
the definition that follows; they are used by no specification and serve to show
that each property notices the bug they stand for.

## 3. Runs

| Run | Checks | Shows |
|---|---|---|
| `watcher_safety` | `TypeOK`, `NoSilentStaleness`, `RootsNotMixed`, `RevisionNamesIndex` | no interleaving of edits, overflow, crash, restart and a second writer loses track of a stale row, mixes roots, or gives two indexes one revision |
| `watcher_liveness` | `CatchesUpOrSaysWhy` | a daemon that stays up catches up for good, or one of three named exceptions holds |
| `watcher_vanishing_note` | `WatcherReconciles`, violated | a note deleted while a rescan lists it fails the rescan, and the batch is not retried |
| `watcher_late_overflow` | `WatcherReconciles`, violated | the overflow flag can be set after the task looked, with nothing left to wake it |
| `watcher_aliased_root` | `WatcherReconciles`, violated | hints of a vault that was given by a path with a symbolic link are all taken to be irrelevant |
| `ipc_requests` | `TypeOK`, `AnsweredOnce`, `OpenRequestsInMap`, `LimitCountsOpenRequests`, `OrderlyEndCancels`, `AcceptedIsAnswered`, `ServesRequests` | with fresh ids, the map holds every open request, its limit counts them and nothing else, and an orderly end cancels every task that has not looked at its token; every request is answered once or excused; the connection implements `RequestService` |
| `local_clients` | `TypeOK`, `SecretIsShared`, `SessionsAgree`, `BridgeInStep`, `RefusalsAreHarmless`, `EveryCallReturns`, `ClientsSettle`, `LauncherEnds`, `CallsAreSerial` | both ends of a session agree on secret, protocol, role and transcript; the bridge's connection is in step whenever it is usable, and only a timeout or a broken stream costs it; calls return, clients settle, the launcher ends; the bridge implements `SerialCalls` |
| `database` | `TypeOK`, `SchemaWhole`, `LoneOpenSucceeds`, `HitsNotOlder`, `OwnWritesDoNotSplitSearch`, `IndexSurvives`, `TransactionsAreWhole` | kills and losses of power leave the schema whole, opening fails only in a race or for a newer schema, hits are never older than the reported revision and newer only after a commit of another process; what is committed implements `IndexHistory` |
| `review_races` | `TypeOK`, `OnlyReviewedWrites`, `QuietAfterUnload`, `NeverStuck` | two reviews of one note under every interference write only what was reviewed, stay quiet after unloading, and end |
| `endpoint_starts` | `TypeOK`, `SettledServerIsSafe`, `CleanShutdown`, `StartsOrSaysWhy` | a serving daemon is not displaced by a later start, an orderly end leaves nothing, leftovers are overcome except an unrestricted one |
| `endpoint_two_servers` | `RemovesOnlyOwnedSocket`, violated | a start that falls between another daemon's bind and listen takes its file for stale; while the other is on its way out it replaces the file, and the other, which has compared inodes already, removes the new one |
| `mac_switch` | `TypeOK`, `PointersReady`, `RecoveryPossible`, `SwitchIsAtomic` | whatever is interrupted and whichever directory loses its changes, pointers name complete versions that the stable links lead to and a journal can be recovered, except for what a stop cut off from its barrier; the two links change as one pair |

The violated properties state what a comment, message or test of the repository
says; `findings` quotes it. Deadlock checking is off where users, clients and operators
may stop acting or a bound is used up; `mac_switch` has it on: a script never hangs, and another
can always be started.

### Bounds

* *Watcher.* Two notes (one to be right while the other is wrong, and to rename
  onto), one or two texts, two or three edits. Capacity 1 makes every second
  notification overflow. One crash and one CLI run put
  either at every point of everything else. `watcher_safety` adds unreadable files
  and symbolic links and uses the symmetry of the notes (it has no liveness
  property). The theorems remove these bounds.
* *Connection.* Three requests with a limit of two: the limit is hit while a
  cancellation is in progress.
* *Review.* Two reviews are enough for one to write between any two awaits of the
  other; two attempts make one retry; one edit, one settings change. Path `p2` is
  not portable. Oversized texts are empty here: they only add refusals.
* *Endpoint.* Three daemons and three starts: one leaves a stale file, two overlap.
  One crash at any point.
* *Clients.* Two calls, so that one waits for the mutex while the other times out and
  uses the connection after it; `MaxId` 2, so that the counter wraps; two daemon starts,
  so that a stale socket and a restart in mid-session happen; protocols 1 and 2. One
  client at a time: connections share nothing but the secret. With both clients
  (`MaxClients = 2`, about ten million states) the invariants hold as well.
* *Database.* The daemon with two threads, one to search while the other writes, and one
  command line process; two starts each, so that an opening meets what an earlier one
  left; two statements, so that there is a point between them; four jobs.
* *Installer.* Three versions, so that `previous` is replaced by a switch; two scripts for the
  lock; two stops, so that a recovery is interrupted too, and one loss of power. The
  number of runs is not bounded.

### Fairness

Assumed are weak fairness of what the runtime or the operating system schedules by
itself: spawned tasks and threads, the end of a batch window and of a delay, the
callback once a notification is in the kernel, Obsidian's own reads and writes,
and that a pending request is answered or ended by the session
client's timer. The task's `ReceiveHint` and `CloseBatch` have fairness of
their own: `recv` and the window's deadline are both polled, so neither starves.
The clients' runtimes and timers run, and so
do the connections that a daemon has admitted while it lives; the daemon's handshake and start
are not assumed to make progress, which is what the clients' timeouts are for. A write on a
connection is not assumed to end, for it waits until the client reads: that the client does is an
antecedent of `AcceptedIsAnswered` (`ClientReads`). Nothing is
assumed of users, clients, edits, starts, crashes, or of the index
catching up during a review.

## 4. Proofs

`VaultWatcherProofs` shows, for any set of notes and texts, any queue capacity and
any number of edits, crashes and CLI runs:

* `TypeCorrect`: `Spec => []TypeOK`;
* `NothingForgotten`: `Spec => []NoSilentStaleness`, if the vault was given by its canonical
  path;
* `OneRoot`: `Spec => []RootsNotMixed`;
* `RevisionsName`: `Spec => RevisionNamesIndex`.

`NoSilentStaleness` is not inductive: a commit may write what a scan read long ago.
The inductive invariant `IInv` adds where each actor may stand and who holds the
lock (`Places`), what the task's scan covers (`Batches`), that what a walk of a root
found belongs to that root (`ScansKeepToRoot`), that a walk has found nothing at a
path it has not met (`UnmetNotFound`), and, decisive, that a text a scan
has read and that the disk no longer has is itself covered by a hint or a later
reader (`OutdatedReadsPending`): so a commit of an old text makes a row stale only
while a hint that will repair it is under way. `CarriesAppend` and `CarriesTail` say what the two ends of
a queue do to the hints in it.

`IpcConnectionProofs` shows for any number of ids and requests and any limit:

* `RequestTypes`: `Spec => []TypeOK`, and `NoSecondAnswer`: `Spec => []AnsweredOnce`, ids
  reused or not;
* `FreshIdsKeepMap`, `FreshIdsEndOrderly` and `FreshIdsWithinLimit`: if ids are not reused,
  `[]OpenRequestsInMap`, `[]OrderlyEndCancels` and `[]LimitCountsOpenRequests`.

* `ConnectionServes`: if ids are not reused, `Spec => ServesRequests`, the refinement of
  `RequestService`.

`NoSecondAnswer` rests on counting: a request that is unread or whose task has not written
yet has no answer. `FreshIdsKeepMap` adds that accepted requests have different ids, so that a
task that leaves removes no entry but its own, and that `CancelAll` reaches every task that has
not looked at its token. The limit needs `MapBound`: the map alone is within it, but a request whose
token the loop has taken out and not signalled yet is open without an entry. It counts against
the limit until it is signalled, and the loop, which is the one that would signal it, accepts
nothing in between. That no entry outlives its task is part of `Tokens`, which also says
that every token in the loop's hands or signalled is that of a request that was accepted, so that
none that comes later starts out cancelled.

For the refinement `Lives` reads `Life` case by case, without the `CASE`. `CancelTakes` and all
bookkeeping map to stutters, `CancelSignals` to one `Cancel`, `CancelReplies` to `Confirm`. Fresh ids are needed
twice: a pending request that had lost its entry would not count against the limit of
`Accept`, and would outlive `End`.

`LocalClientsProofs` shows, for any set of calls and protocols and any number of daemon starts, ids and
requests:

* `ClientTypes`: `Spec => []TypeOK`, with the ids after a wrap in range;
* `SecretsAreShared`: `Spec => []SecretIsShared`. `Created` adds that, as long as no two
  processes were creating at once, the one that is about to set is alone and finds the store
  empty: so nobody holds a secret that the new one replaces;
* `HandshakesAgree`: `Spec => []SessionsAgree`. `Phase` pairs each place of a client with the places
  its daemon may have and with the very frames between them (`Challenged`, `Proven`,
  `Admitted`). `Served` says that an open connection has a daemon that is listening; so a
  daemon that loads another secret has no connection left that was agreed under the old one;
* `BridgeStaysInStep` and `RefusalsCostNothing`: `[]BridgeInStep` and `[]RefusalsAreHarmless`. `Queued`
  has the calls behind the mutex: different ones, without an outcome, and none before the
  bridge is live. `InStep` says that at most one call is out, and that on a usable
  connection at most one frame or task of it exists, with its id (`Underway`). So a response that
  comes is the call's own whatever ids have been used before, and a timeout, after which a frame
  may be left, is also the end of `usable`. The handshake's `Phase` is needed for the first call: it
  leaves nothing on the way. `Aside` takes all other steps together;
* `BridgeIsSerial`: `Spec => CallsAreSerial`, the refinement of `SerialCalls`. It rests on the
  invariant above: `Queued` makes the head of the mutex's queue the head of the line, and
  `Underway` is why what `ReadResponse` reads is a result of the call that is out (`AnswerIsOwn`), which
  the abstract counter cannot tell from anything else. Whatever the daemon, the launcher or the
  handshake does leaves the stages alone (`SameStages`).

`DatabaseProofs` shows, for any number of processes, threads, texts and schema statements:

* `DatabaseTypes`: `Spec => []TypeOK`;
* `SchemaNeverHalf`: `Spec => []SchemaWhole`. `SchemaInv` adds who owns a transaction (`Owned`: a
  migration or the thread that has the connection) and what it has made of the database it began
  with (`Drafted`): a migration that reaches its commit began on an empty schema and
  has run every statement, an index changes neither version nor tables;
* `LoneOpeningSucceeds`: `Spec => []LoneOpenSucceeds`. By `Contested`, two processes that open at the
  same time both know; without the second one the version is still the one that was read;
* `IndexIsNeverTakenBack`: `Spec => IndexSurvives`, from `Drafted`: no draft has a smaller revision
  than the current state, which stays the one the draft began with;
* `SearchesAreNotOlder` and `SearchesAreNotSplit`: `[]HitsNotOlder` and
  `[]OwnWritesDoNotSplitSearch`. `Searching` relates the revision that a search has read to the
  current one between its two statements; the mutex keeps the own threads from
  committing there;
* `WholeTransactions`: `Spec => TransactionsAreWhole`, the refinement of `IndexHistory`. `Based` says of
  every open transaction what it is relative to the current state: a migration has changed
  nothing but the version and the tables, an index either nothing or notes and
  revision together. That the state it was made from is still current at the commit is
  the write lock (`LoneWriter`): nobody else appends, and a loss of power ends every draft.

`PatchReviewProofs` shows, for any number of reviews, texts, paths, attempts, edits and
settings changes:

* `ReviewTypes`: `Spec => []TypeOK`; a review that can still be told "stale index" has an
  attempt left, which is what keeps `attempt` in bounds;
* `WritesAreReviewed`: `Spec => []OnlyReviewedWrites`. `DiffIsReviewed` adds that a diff
  on display or being applied consists of what the review read and was given, and that
  only a review that has ended has written, so that later steps change neither side;
* `UnloadIsFinal`: `Spec => []QuietAfterUnload`, inductive with the types.

`UnixEndpointProofs` shows, for any number of daemons, starts and kills:

* `EndpointTypes`: `Spec => []TypeOK`;
* `ShutdownIsClean`: `Spec => []CleanShutdown`, busy or not. A guard may hold another
  daemon's inode, but only if the daemon's own file is gone by then, and a file that is
  gone does not come back (`Guarded`);
* `ServingIsKept`: `~MayBeBusy => (Spec => []SettledServerIsSafe)`. Sockets belong to one
  start (`Numbered`), a daemon listens as long as it serves and is in nobody's
  `settled` while it starts (`Probing`); so a probe of its file succeeds, and its file cannot
  appear between the probe and the removal.

`MacInstallerProofs` shows, for any number of versions, scripts, stops and losses of power:

* `SwitchImplementsPair`: `Spec => SwitchIsAtomic`, the refinement;
* `InstallerTypes`: `Spec => []TypeOK`;
* `AlwaysRecoverable`: `Spec => []RecoveryPossible`;
* `PointersLeadSomewhere`: `Spec => []PointersReady`.

The invariant `IInv` says what holds of every image (`Sound`) and what a script knows of the
visible one at each command (`Knows`): for example that its switch is in the journal while
it replaces the pointers, and that both are replaced when it removes the journal. `Sound` speaks of what
lasts, `Knows` of what is seen; `Synced` is the bridge between them and the reason for the barriers: a
change of `versions/` or `bin/` is permanent, cut off by a stop, or that of the script whose
next command is its barrier. So whatever a pointer is about to name lasts.
`HolderStep` reduces every command to these two facts, since all scripts but the holder of
the lock are off. In the refinement a change of a directory either leaves the effective pair
alone (`WriteStutters`), or is the switch (`WriteSwitches`: the rename of the journal, or the
first pointer); barriers and losses keep one of the pairs (`OneImageSettles`).

The assumptions are the named `ASSUME`s of the modules: bounds are naturals, special
values are not notes or texts, the queue holds at least one event, there is at least one text
for the tables, and nobody who can hold a lock is the value for "no one".

Every invariant and every other safety property of a passing run, the four refinements included,
is stated by a theorem. Only model-checked are the liveness properties, for which the prover has no
rule. `FreshIds...` and `ConnectionServes` assume that ids are not reused, as the two clients'
counters do not; `NothingForgotten` is about a vault given by its canonical path. What the theorems about `UnixEndpoint` do not cover is a
live daemon that misses the probe's deadline: then a serving daemon can be displaced.

## 5. Not modelled, and the plan

Left out for good: settings form and metrics, release packaging, generated types,
serialisation, the doctor with `verify_store` (an entry and a file of its own that nothing else
sees). They have no state that evolves. Ranking, query compilation and titles are data no
property is about.

Not modelled: the Windows pipe endpoint (exclusiveness is one flag of one call; the rest is
handle and SID plumbing), the delegation of the stable launcher on Windows (checks of files
before one process is started), and the Windows installer.

Planned, in this order:

1. `SessionClient`: the plugin's client with its pending map, timers and child
   processes; then `PatchReview` over it instead of over the abstract session.
2. The Linux installer (links without a journal, a lock that waits) against the same
   `PointerPair`.
