# A verification development for Omakade

Omakade is a desktop and couch library for games: it scans the installed
launchers and emulators, starts and stops games, records play sessions, keeps
copies of emulator saves, turns the desktop into a console ("Game Mode"), offers
an in-game guide and records highlights. Most of its C++ is scanners, view
models and web clients. This development is about the rest: the parts that keep
state on disk across crashes, that work beside other processes, and whose
mistakes cost the player saves, play history or a usable desktop.

Paths below are relative to the repository; `saves/SaveSetStore.cpp` stands for
`src/src/saves/SaveSetStore.cpp`.

## 1. Inventory

| Component | State it keeps | Operations | Interacts with | What is hard |
| --- | --- | --- | --- | --- |
| Save-set store (`saves/SaveSetStore`, `saves/SaveBackups`) | versions (directories with a manifest), the restore journal `.restore`, the lock `.lock`, the saves of the emulators | snapshot, restore, remove, recover, protectLaunch | launch path, running emulators, other Omakade processes | crash between two files of a restore, writers beside it, storage failures, retention |
| Save layouts and management | none of its own | resolve paths from emulator configuration | save-set store | parsing |
| Session journal (`tracking/SessionJournal`) | an append-only file, the set of pending keys | open, append, pending, compact | recorder | torn appends, caps, failed rewrites, power loss |
| Session recorder and database (`tracking/SessionRecorder`, `SessionDatabase`, `sessiond`) | active sessions, retry queue, SQLite rows, tombstones, clear epochs, the database's incarnation | sync (poll), recover, endAll; delete and clear from the interface | journal, process list, interface process | storage refusing writes, crash and replay, deletion racing a retry |
| Process and window observation | caches | match processes to games | recorder | process identities are reused |
| Stopping a game (`tracking/GameStopper`, `GameStop`, `library/GameStopService`, `GameStopPanel.qml`, `SessionStopper`) | the list of running games, scans, the worker of a stop with its targets and witnesses, the panel that waits | scan, stop, ask, force, cancel, leave afterwards | /proc, wineserver, flatpak, Game Mode | a pid that is reused between a check and a signal, replacements, lists that are old |
| Game Mode session (`gamemode/GameModeController`, `GameModeSession`) | a durable record of desktop changes, worker threads, flags for what was asked meanwhile | enter, exit, park, resume, recover, refresh | compositor, sound, notifications, launch hold | crash in the middle of a change, failure of an undoing, requests during a change |
| Launch hold (`gamemode/LaunchHold`) | held windows, generation, timers, two workers | begin, scan, present, return, cancel, abandon | compositor, Steam, the controller's worker | results of an earlier hold, timers under a shown window, leaving Game Mode |
| Launch watch (`gamemode/LaunchWatch`) | the launch watched | watch, poll | process list | late processes |
| Guide button (`guidebutton/GuidePress`, `GuideListener`) | press state per node, mirror windows, hold timers | event, hold, capture, open, close, drop | several input nodes of one controller | the same press seen on two nodes, lost and late events, hold against press |
| In-game guide (`guide/GuidePause`, `guard.cpp`, `InGameGuide`) | set of stopped processes, guard process | pause, resume | the game's process tree | the tree grows while it is stopped, owner or guard dies |
| Highlights (`highlights/ReplayBuffer`, `HighlightService`) | recorder process, queue of saves, retry timers | start, stop, save | gpu-screen-recorder | late and lost replies, re-entrant callbacks |
| Backup and recovery (`backup/BackupRecovery`, `BackupStartup`, `BackupDatabase`) | `active.json`: phase of a restore | stage, apply, retry, undo | database, settings, journal ownership | crash between phases, replay of a phase, the recorder beside it |
| Launching (`launch/*`) | pending play requests | build and run commands | save-set store, Game Mode | mostly data |
| Library models, sources, achievements, metadata, artwork, shell, input, streaming | in-memory lists, caches | scan, filter, fetch | interface | mostly data and I/O |

What makes each of the first ones correct:

- *Save-set store.* A restore is all or nothing across crashes and retries; the
  store only overwrites what it holds a copy of; the replaced saves are kept as a
  version; what it reports is true; no emulator starts over a half-restored set;
  a pending restore is resolved in the end.
- *Session journal and recorder.* What the journal accepted is read back after a
  crash; a session has one row and one follower; recorded time never exceeds what
  was observed; an operation is written or known stale before it is dropped.
- *Game Mode.* Every desktop change that was made is on record and undone, whatever
  crash; a parked session is not heard and its games are not on a display that is
  off; a session can always be ended; the controller has one user at a time.
- *Launch hold.* It ends for its own game only, leaves nothing hidden when it is
  given up, and does not wait for nothing.
- *Stopping a game.* Only what was planned for is signalled; a stop reported as done
  has ended it all; Game Mode is left over no game that still runs.
- *Guide button.* A press counts once, and only one that was short and alone.
- *Pause and guard.* What was stopped is resumed, and only that; paused is frozen.
- *Replay buffer.* Every request to save is answered, with its own game's footage.
- *Backup recovery.* The library opens only on data of one piece.

How they interact here: `SaveSetStore` models the store with the launch path over
it; `SessionRecorder` composes recorder, database, journal and the interface's
deletions, and takes the journal as a map, whose file is `SessionJournal`;
`BackupRecovery` runs beside the recorder and decides which of its journaled
operations still count; `GameModeSession` drives `GameModeOperations`, which
`GameModeController` implements; `LaunchHold` runs beside the controller's worker;
`GameStopper` composes the panel, the service and its workers over the processes;
`GuideListener` drives `GuidePress`.

## 2. Plan

| Step | Modules | State |
| --- | --- | --- |
| 1 | `AtomicSaves`, `SaveSetStore`, proofs and refinement | done (section 3) |
| 2 | `SessionRecorder`, over database and journal, proofs | done (section 4); next: what holds once identifiers are used again, and the epochs behind `ReplayedBeforeDropped` where games are cleared |
| 3 | `SessionJournal`, the file, proofs | done (section 5); next: that it implements the map the recorder takes it for |
| 4 | `Highlights`, proofs | done (section 6); next: the moments of achievements |
| 5 | `BackupRecovery`, proofs | done (section 5); next: a refinement to a restore that is one step |
| 6 | `GameModeOperations`, `GameModeController`, `GameModeSession` | done, proofs of all safety properties (section 7) |
| 7 | `GuidePress`, `GuideListener`, `GuidePause`, proofs | done (section 8) |
| 8 | `LaunchHold`, proofs | done (section 9); next: Steam's own hold |
| 9 | `GameStopper`, proofs | done (section 10); next: that a stop ends, and the list a stop shows |
| 10 | `LaunchWatch`, achievement clients, Steam's own hold | open |

## 3. The save-set store

### Modules

| Module | Content |
| --- | --- |
| `AtomicSaves` | what the store promises: the saves are one value, replaced in one step by a set the store holds |
| `SaveSetStore` | `SaveSetStore.cpp` and the operations of `SaveBackups.cpp` that call it |
| `MCSaveSetStore` | instances for TLC |
| `SaveSetStoreProofs` | the inductive invariant, the safety theorems, and the proof that `SaveSetStore` implements `AtomicSaves` |

### State and actions

`live` is the emulator's save files, `versions` the listed version directories,
`journal` the directory `.restore` (both save sets, the commit mark, and whether
all its members are there), `lock` the QLockFile, `running` the answer of
`m_running()`. Each process has a label `pc`, the operation `op` it runs, and the
local variables of the C++ functions: `before` and `after` of `restore`, the
collected `data` of `snapshot`, the files still to visit (`todo`, `cur`).

An operation asked for by the player (`Restore`, `Remove`, `Snapshot`, `Launch`,
`RetryRecovery`) starts at the label `recover`, as every operation of SaveBackups
calls `recover()` first. The labels `recover`, `roll`, `rollApply`, `clearing`
are `recover()`; `snapshot`, `publish`, `trim`, `drop`, `dropping` are
`snapshot()` and `remove()`; `read`, `prepare`, `stage`, `swap`, `swapApply` are
`restore()`. Where the code fails the action is named `...Fails` (an error of the
storage, paid for with `MaxFaults`) or `...Refused` (a condition the code
checks). After a swap, completed or given up, `restore()` releases its lock and
calls `recover()`, which another process may do first; so does the model.

Abstractions:

- Reading a whole save set (`collect`) is one step; the check of a file
  (`sameFile`) and its replacement (`apply`) are two, so a write from outside can
  fall between them. Files are visited in any order.
- Deleting a directory is two steps: a process killed in between, or an error,
  leaves a part. Of a version, the manifest may go first (it is no longer listed)
  or a member (it is listed and damaged). Of the journal, either makes `recover()`
  reject it.
- Staging directories are not represented; a rename publishes them.
- One save layout and one storage key. Scope checks, manifest validation and the
  storage limit appear as failing steps. The launch of a layout with
  `allowEmptySnapshot` is not modelled, nor the older single-file backups, nor
  `stageGameCopy`, nor the relocation of the store.
- The clock is read when a version is published. Identifiers come from the finite
  set `Ids`; a snapshot that finds none left does not take place.
- The lock file of a dead process is free (QLockFile checks the process).

### Runs

| Run | Bounds | Question |
| --- | --- | --- |
| `SaveSetStore` | 1 process, 2 files, 2 contents, retention 2, 3 operations, 2 outside writes, 1 emulator started outside, 1 fault, 1 kill, 1 clock value | all safety properties; does the store implement `AtomicSaves`? |
| `Live` (with sections 6, 7 and 9) | 1 process, 2 operations, 1 of each disturbance, fairness | a pending restore is resolved in the end, for all files alike |
| `VPendingIsRecoverable` | 1 process, up to 4 operations, 3 outside writes, 2 clock values | a statement of `docs/SAVE-SETS.md` that the code does not keep (section 12) |

Three operations are enough to fill a history of two versions, snapshot on top
of it and trim; two files are what makes "all or nothing" mean something; one
kill and one fault reach each label, and two operations after a kill reach a
recovery that is itself disturbed. With one clock value all versions are of one instant,
and their stamps, each one above that of the newest (`Later`), list them in the order they
were made; what a clock that moves does to that order is left to the proof of `UndoIsKept`
(for any clock that is not set back). Two processes are not a run of their own: that the store implements
`AtomicSaves` with any number of them is proved.

`CHECK_DEADLOCK FALSE` where it stands: the player may ask for nothing more.

Properties: `AllOrNothing` (when the journal goes, every file nothing else wrote
is on its side), `StoreWritesJournaled` (the store only overwrites what a complete
journal holds), `UndoKept` (the replaced saves are in a complete version; with a
clock that is not set back), `HonestReport`, `LaunchPaused`,
`ImplementsAtomicSaves`, `RecoveryEnds`.

Fairness: weak for the steps of an operation once begun (straight code on the
application's thread), strong for the player's retry while a journal is pending
(the interface offers it, and each launch and backup retries too), weak for the
player quitting the emulator. Nothing is assumed of crashes, faults or writers.

### Proofs

`SaveSetStoreProofs` proves `Spec => []IInv` for every set of processes, files
and contents and all bounds. The properties are not inductive by themselves:
`IInv` adds who holds the lock at which label (so at most one process is inside
the store), that the sets in the memory of a process in `restore` are those of the
journal it published, and the progress of the two loops: every file no longer in
`todo`, and not written from outside, already has the content of the side the
loop works for. From it: `TypeCorrect` (`TypeOK`), `RestoreIsAtomic`
(`AllOrNothing`) and `OverwrittenIsJournaled` (`StoreWritesJournaled`).

Its last part proves `Refinement`: `Spec => ImplementsAtomicSaves`. While a
journal is pending the abstract saves are the side it will be resolved to, so
publishing a journal changes nothing, the commit mark is the restore, and each
file of the swap is a stutter, or an overwrite of a file written from outside.

The other three hold of one process, which is what Omakade is
(`SingleInstance::claimOrNotify`; it runs without its server only when it cannot
have one), and are proved for any `Procs = {P}`. `SoleAt` adds to `IInv` that outside
`recover()` and the swap no journal is pending (`ClearAt`), and what the two sets in
the memory of a restore are: the first is what the files held, but for writes from
outside (`FoundAt`), or both are those of the journal that will be resolved
(`DividedAt`). It gives `LaunchIsPaused` and `ReportIsHonest`. For `UndoIsKept` the
clock is not set back; `UndoAt` adds that the version a restore has published is newer
than every other, so that trimming, which leaves at least two, takes another one.

Only model-checked: `RecoveryEnds` (liveness).

## 4. The session recorder

### State and actions

`SessionRecorder` models the daemon that records play: `tracking/SessionRecorder`,
the functions of `SessionDatabase` it calls, `SessionJournal` as it uses it, and
the two deletions of `PlaySessionStore`, which the interface runs on the same
database from another process. `MCSessionRecorder` holds the instances.

| Variable | In the code |
| --- | --- |
| `rows` | `play_sessions` with `session_intervals`, by session key |
| `tombs`, `epoch` | `session_tombstones`, `session_game_clears` |
| `journal`, `jok` | the pending operation of each key; `m_journal` is there and available |
| `active` | `m_active`, filed under process and start time (`keyFor`) |
| `queue`, `tried` | `m_pendingCloses`, `m_lastCloseAttemptMs` |
| `pc`, `off`, `seen`, `work`, `at`, `drop` | where the poll is, and its local variables: whether tracking is off, its matches, what its loop has left, the keys to compact |
| `now`, `game` | polls that have passed; what each process runs |
| `left`, `ran`, `lived` | the budget of disturbances; how long processes ran |

A poll (`sync()`, or `endAll()` with tracking off) goes through the labels
`retry` (`retryClosed`), `drain` (`drainJournal`), `match` and `sweep` (the two
loops of `sync`), one step for each queue entry, journal record, match or session.
The start goes through `replay` (`replayJournal`) and `recover`. Between two steps
the daemon may be killed, the game may exit, and the interface may delete a
finished session or clear a game. Each write may be refused and each read may
fail, at the cost of `left.refused`: the operators `Begin`, `Progress`, `End`,
`Move`, `Intervals`, `ReplayClosed`, `ReplayOpen`, `Finalize`, `Journaled` and
`Compacted` return the set of what can come of the call, and the handlers are
composed of them in the order of the code.

Evidence for a process is chosen at each poll: proven (`procStart > 0`), by window
title only, or none. `HandsOver` are the processes whose match may take over the
session of one that is gone.

Abstractions:

- Both clocks count polls: elapsed time is not rounded to seconds, and neither
  clock steps. The intervals of a session are the seconds they bill, which is what
  `replaceSessionIntervals()` compares; their boundaries and kinds are left out.
- One step handles one session: a deletion falls between two sessions, not within
  the handling of one. A transaction of a replay is refused as a whole.
- The operations of the journal are drained in any order; the byte caps, the torn
  tail and interior damage are the business of the journal's own module (section 5).
  A failed append or rewrite may have reached the disk or not.
- The binding of the journal to an incarnation of the database, and the Replace
  restore that changes it, are in `BackupRecovery`; left out are the watermarks of imported
  playtime, rescans, and the presence shown to others.
- The emulator of a match follows its game. Process identities (pid and start
  time) are not used twice. A key is free again when nothing names it.
- A read of stored intervals does not fail; a failed read of the open rows finds
  none, as in the code.

### Runs

| Run | Bounds (2 keys, grace of 1 poll) | Question |
| --- | --- | --- |
| `Recorder` | one of three conditions, below; queue of 1 | is play invented, billed twice or dropped unwritten, and does a session have one follower and its own row? |
| `VIdsNameOwnRow` | 1 process, 1 game, queue of 2, 2 refusals, 1 deletion, 6 polls | what a comment says and the code does not keep (section 12) |

`Conditions` is a set of records, of which the first state picks one: the budget
of disturbances, the processes and games there are, what evidence a poll may
find, and whether the focus is followed. `Recorder` takes three:

- `OneOfEach`: one process that switches between two games, with a refusal, a
  deletion, a kill, a poll with tracking off, in 5 polls;
- `Titled`: one process whose evidence is a proof, a title or none, with focus
  pauses, a refusal and a kill, in 6 polls;
- `HandOver`: two processes of one game that hand their session over, with two
  refusals and a kill, in 5 polls.

Two keys let an operation of one session meet another's; two refusals are what it
takes to have a write fail and its retry fail too; a flush interval of two polls
makes some polls flush and some not, and in five polls a session is opened,
flushed, refused, closed and retried, in six also recovered after a kill.
The caps are so small that the queue is trimmed and the journal is full.
`CHECK_DEADLOCK FALSE`: the model stops when its polls are used up.

Properties: `NoPlayInvented` (all sessions together claim no more play than
processes ran for, and a row's total fits between its boundaries),
`OneSessionPerKey` (with evidence by proof only; by title it fails, section 12; and,
as its proof shows, while identifiers name their own rows: three processes of one game
with a deletion, more than this run has, can meet the other case),
`ReplayedBeforeDropped` (what leaves the journal has a row, was deleted or
cleared). `IdsNameOwnRow` (an active session never updates another's row) is
violated where rows are deleted.

### Proofs

`SessionRecorderProofs`, for any processes, games, keys and conditions, any caps and
intervals. Each operator and then each action is shown to stay within `Acts`: a step
writes rows and operations of a few keys `K` at one slot `sl`, moves besides only rows
whose identifier an active session of `K` holds, queues and files in memory only
sessions of `K` at `sl`, and compacts only keys marked for it; and every key of `K` has a
reason to be at `sl` (`Source`): it is named there already, or a match brought a fresh
session, or one taken over from a process that was not matched. `NextActs` says that
every step is one, or a deletion. From it:

- `RecorderTypeOK` (`Spec => []TypeOK`). `TypeOK` is more than types: a journaled
  operation is filed under its own key, row identifiers are unique, an active session is
  filed under the slot it carries, and what a loop has read and not yet handled is still
  there, although the interface deletes meanwhile.
- `IdsNameOwnRowUntilDeletion`: `IdsNameOwnRow` holds until a deletion. `Rooted` is what
  is invariant then: the row an active session's identifier names is there and its own.
  Run `VIdsNameOwnRow` shows that the hypothesis is needed.
- `OneSessionWhileIdsOwn`: `OneSessionPerKey` holds while identifiers name their own
  rows, whatever is refused, killed, replayed, recovered, handed over or deleted. With
  evidence by proof a key may be named at several slots (by its row, an operation, a
  queue entry, a session in memory), but at only one whose process may still run
  (`OnePresent`), and it is followed at no other (`FollowedThere`). A takeover keeps
  this because a process that is not matched is gone: while a poll runs, the matches
  stand for every process that runs (`AllSeen`). `OneSessionUntilDeletion` combines the
  two. The hypothesis is about identifiers that come back: a session that holds
  another's moves that one's row to its own slot, which is then a second place for it.
- `ReplayedUntilCleared`: `ReplayedBeforeDropped` holds while no game was cleared;
  `DroppedForCause` says of each key marked for compaction that it has a row or a
  tombstone. With clears the property also compares epochs of operations that were
  queued, journaled and refreshed at different times: that part is only model-checked.

The second half of `SessionRecorderProofs` proves `NoPlayInvented` under the
hypothesis of `OneSessionWhileIdsOwn`: `NoPlayInventedWhileIdsOwn` while every identifier an active session holds is
its own row's, and so `NoPlayInventedUntilDeletion` in every behaviour without a deletion,
for any finite sets of processes and keys (`FiniteAssumption`: the play that is claimed is
counted). Its inductive invariant, `Honest`, is an account of play:

- `Books(c)`, for some account `c` that is no part of the model: the start of each
  session, the seconds of it that anything may claim, and the time up to which storage
  knows of play. A total in a row, an operation, a queue entry or memory is `Credited`
  when its seconds are in the account and there are no more of them than between the
  session's start and the time the total is written for. The account and the sessions not
  yet billed for the last poll (`Unbilled`) together count `lived` seconds at most
  (`Balanced`).
- `Placed` says where a poll is with billing: at each label which sessions have been
  billed, and that those still to be billed belong to processes that ran, one session to
  each. So a poll, which adds one to `lived` for every process that runs, adds no more
  sessions to bill than that.
- `NamesRan`: a process that anything names has run a game, and if it is still alive it
  ran at the last poll.

The lemmas show first that each operator (`Begin`, `Progress`, `End`, `Move`, `Flush`,
`RetryInsert`, the replays) is fair to such an account, whatever it is refused, then that
each action keeps the books. Billing a session adds one second to the account and takes
the session from those unbilled; a takeover or an upgrade bills it under its new name
with the total it had. With an identifier that was used again after a deletion a session
can write its total into another's row; what holds then is only model-checked.

## 5. What must survive: the journal's file and the restore of a backup

`MCMachine` puts `SessionJournal`, `BackupRecovery`, `LaunchHold` (section 9) and
`GameStopper` (section 10) into one run; a variable `subject`, chosen at the start,
says which of them moves, so they are checked one at a time.

### SessionJournal

The file behind the map that `SessionRecorder` takes the journal for.

| Variable | In the code |
| --- | --- |
| `file` | what the path holds: frames and perhaps a partial one, nothing, or damage |
| `fresh`, `old` | what a power loss may leave instead: the file before its sync, or one that was replaced while the directory was not synced |
| `journal` | the `SessionJournal` object: available, full, the keys it believes pending |
| `want` | history: per key, what the journal may hold |

`OpenLog` and `OpenDamaged` are `open()`, `AppendOp` is `append()` with its caps,
its rewrite of a key that is pending and its frame for a new one, `Compact` is
`compact()`. `Exchange` is `writeBytesDurable()`: it may fail before its rename or
after it. `Kill`, `PowerLoss` and `Damage` come at any point. `FsyncCommitsRename`
says whether the sync of a file also settles an earlier rename of it; it does on
the file systems journals are kept on, and without it `AcceptedSurvives` fails.

`AcceptedSurvives`: whatever happens, what is or may come to be at the path gives
for each key an operation that the caller may expect. Frames only come behind others,
so a file is a set of frames whose numbers give their order.

### BackupRecovery

The phases of a restore: staged by the library (`Stage`), applied at the next start
(`Begin`, `Capture`, `Prepare`, `RestoreDatabase`, `EmptyJournal`, `BindJournal`,
`RestoreSettings`, `Finish`), undone or retried by the player, with a crash or a
failed step anywhere. Beside it the recorder runs, writes sessions or journals them
(`Record`), replays (`Replay`) and binds its journal (`Resolve`).

| Variable | In the code |
| --- | --- |
| `active` | `restore-recovery/active.json` (phase, mode) and the recovery copy |
| `db`, `settings` | play history and choices, the incarnation, the owner of the journal; the preferences file |
| `pending` | the recorder's journal: operations with the incarnation they were accepted for |
| `app`, `recorder` | where Omakade is and which way it runs; what the recorder knows |

Choices and preferences are values ("mine", "archive", "merged"); the play history
is a set of sessions.

Properties: `OpensWhole` (the library opens on both parts restored or both as
before), `CopyIsOfBefore`, `MergeKeepsPlay`, `ReplacedStaysOut`.

| Run | Bounds | Question |
| --- | --- | --- |
| `Machine` | journal: 3 keys, 2 live records, sizes 1 and 3 around caps of 2, 4 operations, 2 kills or power losses; restore: 2 games, 2 restores, 1 recorded session, 2 crashes or failures; hold: 2 windows, 2 launches, 1 event; stop: section 10 | is what was accepted kept, and does the library open on data of one piece? |

Two live records among three keys meet the cap, a record of size 3 the cap on one
record, two of size 1 the cap on the file; two faults make a recovery that is itself
cut short. Two restores let an undo be followed by another restore; two breaks let
the retry of a step be broken too. Deadlock is not checked: the subjects end.

### Proofs

`MachineProofs`, of a restore, for any set of games and any number of restores, recorded
sessions, crashes and failures. `PhaseInv` says what the phase on disk means:
`PhaseOfPlace` (where the start is, given the phase), `NothingApplied` (before the
recovery copy is on record nothing has changed), `CopyIsOfBefore`, and `AppliedSoFar`
(which parts are restored, or undone, at which place). It gives
`CopyIsOfBeforeHolds` and `OpensWholeHolds`.

`BindingInv`, inductive together with `PhaseInv`, says how journal and database stand:
`Identities` (incarnations only grow, and the recorder knows the current one or none),
`LockedOut` (the exchange has the journal's lock), `Trusted` (outside an exchange
every operation counts), `StaleIsDropped` (one for a replaced history does not) and
`Recorded` (a session is in one place). It is needed because neither the journal nor
the database says by itself whether an operation still counts. It gives
`ReplacedStaysOutHolds` and `MergeKeepsPlayHolds`.

Of the journal it proves `AcceptedSurvivesHolds` for any keys, caps, sizes and
faults, and whatever is appended, under the one assumption that `FsyncCommitsRename`.
Its invariant adds to `AcceptedSurvives` that no frame, of the file or of what a power
loss may leave, has a number that is still to come (`NoneAhead`, so that a new
operation is the latest), and that only a log has frames (`FilesOK`). `Sound` says
this of a set of files before it is on the disk; an exchange is sound when the file it
writes is (`ExchangeSound`), and each operation has a lemma.

## 6. Highlights

`Highlights` models `highlights/ReplayBuffer` and `highlights/HighlightService`,
which share one thread of `sessiond`; `MCHighlights` holds the instances.

| Variable | In the code |
| --- | --- |
| `buf` | `ReplayBuffer`: process, state, output, start poll, queue of saves, the connection of the current save, and `late`, a connection given up but not deleted yet |
| `svc` | `HighlightService`: settings read, followed game and output, game of the buffer, failures, retry timer, saves shown; `healthy`: the recorder has run for `kHealthyRunMs` |
| `procs` | each recorder process: whether it runs, was told to end, has its socket, and what it records |
| `clips` | each request: asked, being filed, saved or failed; what it was asked of and what it shows |
| `alive`, `config`, `changes` | game processes, the settings file and how often it changed |
| `spawned` | history only: recorders started in a row for one game and output |

A handler (snapshot, tick, retry, poll, reply, time-out, exit of the recorder,
filing) is one step, with everything it calls: the functions of the two classes are
operators from a state record to one, or to the set of those that can result, and
the signal `stateChanged` and the callbacks of saves are calls within them, where
the code makes them. Between two steps a game or a recorder may end, the socket may
appear and the settings may change, so a poll or a reply may find any of it.

Abstractions: trimming, measuring and storing a clip is one step with two outcomes;
the clip length is fixed; achievement moments, leftovers of an earlier run, titles,
notifications and the daemon's own exit (which ends its recorder) are left out. A recorder that was told to end does not create its
socket any more. A start waits when all `Recorders` are still ending.

| Run | Bounds | Question |
| --- | --- | --- |
| `Highlights` | 2 games, 2 outputs, 2 clips, 2 recorders (all symmetric), 2 failures, 1 change of settings | is there one recorder, of the right game, and is each clip answered once, with its own footage? |
| `Live` | 1 game, 1 output, 2 clips, 2 recorders, 1 change of settings, starts that may fail at once, fairness | does each clip end, is a failing recorder given up, does none outlive its reason? |

Two games and outputs are what footage can be mixed up between; two clips are one
under way and one waiting; two recorders let the next start while the last one is
ending. `kMaxFailures` is 3 in the code: 2 leaves a failure that is retried and one
that gives up. `CHECK_DEADLOCK FALSE`: with no game left and all clips answered
nothing need happen.

Properties: `OneRecorder` (all recorders but the buffer's were told to end),
`FootageOfItsGame`, `QueueServed` (the connection is that of the
first save, and a running buffer never has a save waiting for nothing),
`RecorderGivenUp` (no more than `kMaxFailures` recorders are started in a row for one
game and output), and as liveness `EveryClipEnds`, `RecordersEnd`.

Fairness: weak for the poll and the time limit of a start and of a save (Qt timers
of the thread), for the tick once a recorder has lost its reason to run (it comes
every few seconds), for the helpers of a clip, and for a recorder that was told to
end (it is killed after three seconds). Nothing is assumed of games, settings,
recorders or the retry timer.

### Proofs

`HighlightsProofs`, for any number of games, outputs, clips and recorder processes.
Handlers are compositions of a few operators on states, so the invariant is a predicate
on a state and each operator has a lemma. `Base` (the fields, one recorder, what clips
show) holds of every state on the way, `Sound` adds that the recorder of a starting or
running buffer films what the buffer says (`Filming`), that every waiting save was
asked of that (`AskedOfIt`), and that the connection is the first save's
(`Connected`, `Served`); between two handlers the buffer is also the followed game's
(`Follows`, which is what a new clip relies on). They give `OneRecorderHolds`,
`FootageHolds` and `QueueServedHolds`. `GivenUpHolds` proves `RecorderGivenUp`, for any
`MaxFailures`, from the account `Counted`: of the recorders started since the count
began all have failed and were counted, but the running one (`Within`, and `AllFailed`
once the buffer has failed or is gone), and a buffer that is not stopped is that of the
followed game (`OfGame`), so that no count is kept for another. What `reconcile()` may
find when a game was just followed or forgotten is weaker (`Startable`) and has its own
lemmas. The two liveness properties are model-checked only.

## 7. Game Mode

| Module | Content |
| --- | --- |
| `GameModeOperations` | what the controller promises its caller: one operation at a time, with these outcomes |
| `GameModeController` | `gamemode/GameModeController.cpp`: each operation as a sequence of steps of one worker |
| `GameModeSession` | `gamemode/GameModeSession.cpp`: requests on the GUI thread, workers, queued events |
| `GuideAndGameModeProofs` | the invariant and the theorems about `GameModeSession` (and about `GuidePause` and `GuideListener`, section 8) |
| `GameModeControllerSteps` | the controller: its types and calls, what each step changes, that it implements `GameModeOperations`, and that every effect is on record |
| `GameModeControllerProofs` | the controller: its ends are clean, its mutes are on record, and a parked session is silent |

### The controller

A step is at most one write of the record or one change of the desktop, and
Omakade may be killed between any two.

| Variable | In the code |
| --- | --- |
| `desk` | the desktop: displays, default sink, notifications, Omakade's window, the session's workspace, game windows and streams |
| `was` | history: what the desktop would be without the session |
| `disk`, `st` | the record on disk, `m_state` |
| `session` | `m_active`, `m_parked` |
| `ctl` | where the operation is, its callers, its local variables |
| `left` | budget; history: whether this operation met no failure (`clean`), and whether a kill lost the record of a mute (`lost`) |

`Enter...`, `Park...`, `Resume...`, `Refresh...`, `Exit...` are the public
operations; `Restore...` is `restore()`, `Mute...`/`Unmute...` are `muteGames()` and
`unmuteGames()`, `Settle`, `Expose`, `FinishRetention` are the end of a retention,
`Recover...` is `recover()`. Any write or call may fail, at the cost of `left.faults`.

Simplifications: the permanent window only (no layout placeholder, no temporary
window); failures to silence or to reach the sound server have no effect; the player
changes his sound output only between operations, and never to the session's own nor
to one on record; sound outputs go at any step, never come back, and one stays;
`forget()` always works; no second Omakade; settings are fixed for a session; the
launch hold is in section 9.

| Run | Bounds | Question |
| --- | --- | --- |
| `GameMode` | a display of the session's own, 3 sound outputs, 2 games; 2 failures and 1 kill, or 1 failure, 1 kill and 1 act of the player or of the devices (another output chosen, a sound output gone, a display unplugged), or 1 failure and 2 games, or 2 acts | is every change on record and undone, and does each operation keep `GameModeOperations`? |
| `VMutesOnRecord` | 2 failures, 1 kill, 1 game | what a comment says and the code does not keep (section 12) |

Two failures are a step and a step of its undoing, and with a kill after them the
one case in which a mute is lost (section 12) is reached, so that `EffectsOnRecord`,
which excepts it, is checked beside it. Deadlock is checked. Properties:

- `EffectsOnRecord`: a desktop that is not as it was has a record that names each
  effect left (a sound output that is gone is not owed: `restore()` then keeps the
  current one and clears its record, and `was.sink` follows, or is `NoSink` where what
  would be the default without a session is unknown); with neither session nor record nothing is left, and no game muted,
  unless a kill came between a mute and the write of its record (`left.lost`);
- `ParkedIsQuiet`: at rest no living game of a parked session is heard;
- `NotStranded`: a display with a game on it is turned off only after a failure;
- `CleanEndEnds`: an end without failure leaves neither session nor record;
- `ImplementsOperations`: each operation ends as `GameModeOperations` says.

### The session

`gui` are the members of `GameModeSession`, `change`, `refresh` and `focus` its
workers, each with a state "ended" between the end of the worker and the event that
tells of it; `session` is the controller's own state, which changes as
`GameModeOperations` allows; `asked` remembers requests for liveness. `Live` checks
`OneUser` (the controller, which has no lock, has one user at a time, and what the
GUI thread shows when it is idle is the truth) and `RequestsServed` (an end or a
resume asked for meanwhile is taken up).

Fairness: workers end and their events are delivered (weak); the event of a reading
may be dropped when another reading starts first, so its fairness is strong.

### Proofs

All properties of the controller that the run checks are theorems, for any displays,
sinks, games and kinds of session, and any number of failures, kills, acts of the
player and games. An operation is a stack of calls over some sixty labels, so the
proof is in layers, each of which uses those before it and no action's body but
through one lemma:

| Layer | Says | Needed because |
| --- | --- | --- |
| `Typed` (`TypeCorrect`) | types, and `Control`: which label may wait for which, in which operation | a return goes where the stack says; without `Control` a restore could answer to the caller of a muting |
| `...Does` | what each action changes, by its cases | no later proof unfolds an action or the stack |
| `Expected` (`OperationsKept`) | the operation began with a session it takes, and the session now is one of its outcomes | an outcome is promised at the begin and kept many steps later |
| `OnDisk` (`OnDiskAlways`) | `Desktop`, `Memory` and `Kept`: the record on disk, `m_state` and the copy for an undoing each cover what the desktop owes and nothing that was there before; `Recorded`: what is about to be changed is on disk already; `Restoring`, `Returned`: what a restore, or an answer, says was put back was | `EffectsOnRecord` says nothing between two changes, where `m_state` and the disk differ |
| `Orderly`, `Moved` | in an exit or recovery without failure nothing was missed; the games' windows are moved before their display goes off | gives `CleanEnds` and `NoneStranded` |
| `Audible` (`AudibleAlways`) | each mute of Omakade's is noted, on disk without a session and in memory with one; what is gone through (`Turns`) is of the record | gives `EffectsRecorded` with `OnDisk` |
| `Hushed` | while games are muted those that had their turn are silent (`Silencing`), what was muted stays so until the desktop is back (`Silenced`), a session that is being ended is not parked for good (`Ended`) | gives `ParkedQuiet`; silence is established by a muting that returned long before the park ends |

`GuideAndGameModeProofs`, of the session: `SerialInv` adds to `OneUser` that a change
and a reading do not overlap, that a change waits only while none runs, and that the
session is busy while one does. It is inductive (`StepSerial`, one step per action),
and gives `OneUserAlways` (`SessionSpec => []OneUser`) and `OneAtATime`
(`SessionSpec => Controller!Spec`: what the session does to the controller is
`GameModeOperations`). The controller implements the same operations
(`OperationsKept`), so the two halves meet at `GameModeOperations`, by proof on both
sides. `RequestsServed` is liveness and model-checked only.

## 8. The guide

`MCGuide` checks the guide button and the pause, one at a time (`subject`).

### GuidePress and GuideListener

`GuidePress` is the policy, a value: each operator is a function of the class, from
the policy and an event to the next policy and its answer. `GuideListener` is one
controller seen as several event nodes and the listener that reads them: `Input`,
`Repeat`, `Unplug`, `Plug` are the controller, the virtual pad and the kernel, whose
queues overflow into `SYN_DROPPED`; `Read`, `ReadGone`, `Rescan` and `Due` (a timer)
are the listener, up to `Late` ticks late; `Tick` is time.

Properties, each over all orders of reading and timers: `PressesAreShortAndAlone`,
`ToldOnce` (as one thing, by one report), `ShortPressCounts`.

What `ShortPressCounts` asks for is kept in a history, `pad.good`: the presses of Guide
alone, short by more than `Lag`, of a button all of whose nodes are open, armed and know
their keys. It leaves out what the code cannot tell apart. A press stops being asked for
when a queue overflows or a node goes before it was told (`Doubtful`), and when Guide is
released once more before every node has told of it (`Unread`): with three presses the
controller's report of the second may be a mirror of the first, told by the virtual pad,
and the virtual pad's of the second a mirror of the third, told by the controller. (Two
presses in a row are all the run has; three were found with a larger bound, and the
property holds with three.) What it asks for is a signal: `read()` reads all that one
node has queued and emits `pressed` once if any of it counted (`GuideListener.cpp:334`,
346), so presses read together share a signal (`out.signals`; `out.presses` are those the
policy counted). That is why a press that was followed by another, released before all
nodes told of it, is not asked for, and `EachPressSignals`, which asks for it, fails
(section 12). A clip is emitted once per `read()` as well.

`GuideListener` composes `GuidePress` with its world.

### GuidePause

A game that forks, exits and is stopped by its player; guards
(`guide/guard.cpp` with `GuidePause::stop`), which freeze the tree in rounds and
resume it when their input ends; and the part of `InGameGuide` that starts and hears
them. Omakade or a guard, also a guard that Omakade has let go of, may be killed at any
point, one of them once (`crashes`). The player may stop any process that runs, at any
moment; `user` keeps apart what was stopped before a guard looked at it and what was
stopped after (`LookedAt`: a guard has seen it run and has not let go of it, or Omakade
was or will be told so).

Properties: `PausedIsFrozen` (while the card says paused, nothing pinned runs and no
child of it; with one guard in all, see section 12), `PlayersStopStays` (what the player
had stopped before the look stays stopped), `ResumedAtLast` (liveness: once the guide does
not pause, everything runs again). Two things are excepted from the last: what the player
stopped, and what a killed guard had stopped after Omakade let go of it (`user.left`): an
answer to a pin may still be in the pipe when `stopGuard()` resumes what is pinned, the
guard then stops the process, and if it is killed before it reads the end of its input
nobody resumes that. `docs/GAME-GUIDE.md:48` promises a resume on Resume, normal exit and
the backend's death, not on the guard's. `StoppedIsNotOurs`, which asks of
every stop by the player what `PlayersStopStays` asks of the early ones, fails
(section 12).

| Run | Bounds | Question |
| --- | --- | --- |
| `Guide` | 2 nodes whose queues take 4 and 2 events, a button and a trigger, 4 ticks, 2 presses, events 1 tick late; 3 processes, 1 guard in all (a guard that ended is not used again), 4 rounds, 1 stop by the player, 1 kill | does a press count once and rightly, is a paused tree frozen, and is what was stopped resumed, but nothing the player had stopped? |

The pad's queue takes two presses; the virtual pad's takes one, so that a second
overflows it. Two nodes are what a press can be told by twice; with hold, limit and window at 1, 2
and 3 ticks, a press may be short, held, too long, or repeated inside and outside the
window. Three processes let a child fork while its parent is being stopped. The code's
constants are 500, 1000 and 1000 ms; `ToldOnce` needs a mirrored release to be no later
than `SameReleaseMs`, which is what the bounds on `Lag` and `Late` see to (`Punctual`, below).

Fairness: guards and Omakade's handlers run when they can (processes and an event
loop), the three-second limit passes; nothing is assumed of the game, the player or
deaths.

`GuideAndGameModeProofs` proves `PressesAreShortAndAloneHolds`
(`ListenerSpec => []PressesAreShortAndAlone`), for any number of nodes, inputs, presses
and events queued. What `GuidePress` knows of a node is behind the node by what its queue
holds, so the property says nothing of the next press. `InStep` of `ListenInv` follows the
policy's view of a node (armed, held since, chord, keys) through the queue, one view per
event: each release finds in the view before it the press the kernel stamped it with
(`Ends`), and the last view is in step with the node (`Sync`). `ReportDoes` shows that an
event, also one that a full queue loses with all the others, keeps this; `DrainedDoes`
that `read()`, a fold over the queue, arrives at the last view and reports only such
presses. The fold is unfolded event by event without the induction theorems, by the
least index that would break the claim (`LeastNatural`, `DrainedUnfold`). With it go
`Tabled` (what is in the table is what the policy has open) and `Silent` (a node nobody
has open queues nothing). Assumed of the constants, beside the times: the inputs are
finitely many, a button is not an axis, and the kernel's mark of a loss is no input.

It proves `ToldOnceHolds` too (`Punctual` implies `ListenerSpec => []ToldOnce`), for any
number of nodes, inputs, presses, events queued and ticks. `Punctual`
is what the window must allow for: a repetition is late by less than it
(`Lag < SameReleaseMs`), and so is a hold that a late timer reports of a repeated press
(`HoldTimerMs - HoldMs + Lag + 2 * Late < SameReleaseMs`). With the code's 500, 510 and
1000 ms, and a virtual pad and a listener within 300 ms, that is 10 + 300 + 600 < 1000;
the run's constants satisfy it (`Lag` 0, `Late` 1, window 3). How late they are is no
property of the code, which cannot see it: beyond the window a second node's report
is another press, as `GuidePress.h:14-17` says.

The property is far from inductive: it compares reports, and what decides is what is
still on its way. The invariant (`OnceInv`) says that there are dates `m` of the presses,
when each began and ended, of which all that follows can be said (`OnceFor`); the dates
are a history of the player's, added to by `Input` and by `Unplug` (which releases), and
they are quantified and not a variable, so the model is as it was.
- What a node has queued or a virtual pad has to repeat is stamped within `Lag` of its
  date and comes in the order of the presses (`Streams`), after those the listener read
  or told of: no node tells twice.
- What was told is dated no later than the latest report of its kind; that report is of
  no other node that has still to tell of what was told (`Once`, in `ReportsFair`). This is
  the heart: a node that tells of a press another has told finds a report of another
  node within the window and is a mirror. Were the latest report its own, made since, it
  would have been made past the window after the date, and so by an event behind the one
  that tells: the queues are in order.
- For holds, what is still to be told is also what a timer may say of a press that is
  followed (`Waiting`); a timer is due within the delay of the press it may report
  (`Timely`, `Follows`).
- A node that follows a press has not told of it, but as a hold (`Untolds`), and then
  its release tells nothing (`Apart`).

`read()` is a fold over the queue: `ReadFair` says the invariant of a node the first `i`
events of which were read, `ReadStepFair` takes it over one event, `ReadEnds` to the end.

`ShortPressProofs` extends that module and proves `ShortPressCountsHolds`
(`ListenerSpec => []ShortPressCounts`), for any number of nodes, inputs, presses, events
queued and ticks, and without `Punctual`: a report that is late enough to be no mirror
counts once more, but counts. Where the other two say that nothing wrong is told, this
one says that something is, and what is still to be told must be followed from the
player to the policy. Its invariant, `CountInv`, adds to `ListenInv`:

- `Sound`: a key the policy will hold for down once a queue is read is down for the
  node (`Known`), and one the node will have down once its events are repeated is down
  for the player (`Tracking`). Nothing the player let go of makes a chord of a press.
- `Numbering` and `ReleasedBy`: a press that is on has not ended anywhere; the latest
  report has a node.
- `Stakes`, of two kinds of press, or of none once a timer took for held what was let go
  of but unread (`out.early`, which the property excludes as well):
  - the press that is on and may still count (`OnStake`): for every node its beginning is
    the last event to repeat, with no key down before it, or the last that is queued, or
    the policy has it for a candidate (`OpenOwed`, `OpenQueued`, `Counting`);
  - the press that ended last, should count and was not told (`AtStake`): what every
    node tells next of it is its end, it is short by the node's clock, and no other press
    ends behind it (`EndsOn`). And it will count (`WillCount`): every node has still to
    tell of it; or the node of the latest report has, of which it is no mirror. The first
    to tell of it may be a mirror of the latest report, and leaves it to that one's node.

The step of `read()` goes event by event through the fold (`CountReads`, `ReadOn`,
`ReadDone`); a timer that is due is due of no press that is at stake, unless the release
is queued and unread, and then it is `out.early` (`CountDue`).

`GuideAndGameModeProofs` proves `PlayersStopStaysHolds` (`PauseSpec => []PlayersStopStays`)
for any number of processes and guards. The property is not inductive: `PlayersInv`
adds that a process the player stopped before a look is none that a guard owns, is about
to pin or stop, or has reported and Omakade has not yet heard of, nor one Omakade has
pinned (`LeftAlone`; that a guard is about to look at it does no harm: it looks), and
that what a guard aims at is a process (`Aimed`).

And it proves `PausedIsFrozenHolds` (`PauseSpec /\ []OneGuardAtWork =>
[]PausedIsFrozen`), and without the hypothesis when there is one guard
(`PausedIsFrozenAlone`). The hypothesis, that no two guards are at work at once, is what
the code does not ensure: section 12 says what happens without it. The invariant
`FrozenInv` follows the guard Omakade relies on through its stages (`Asked`, `Freezing`,
`GivenUp`, `Frozen`): in its rounds it owns what Omakade has pinned, up to the process
between the two pipes; in a round that added nothing (`Listed`) what it owns stands
still and every child that moves is still to be visited; and "ok" is said, and heard,
only of a tree that stands still and can therefore neither fork nor be joined. A guard
that gave up never says "ok". `ResumedAtLast` is liveness and model-checked only.

## 9. Launch hold

`LaunchHold` models `gamemode/LaunchHold.cpp` between the player, the compositor,
Steam and `GameModeController::endLaunchHold()`.

| Variable | In the code |
| --- | --- |
| `hold` | the members of `LaunchHold`; `owed`, `again`: the main thread waits within `release()` or `begin()`; `ending`, `launch` and `refused` (a call of this cancelled hold's end failed) are history |
| `scan` | `m_scanWatcher`: the listing under way, or ended and not yet read; `current` stands for the generation |
| `calls` | what `m_actionWatcher`'s worker has still to do |
| `window`, `rule` | the compositor: windows, and the rule that hides new ones |
| `steam`, `mode` | Steam's launch process; in Game Mode, leaving it (the controller's worker), or out |

`Release` is `release()` up to its wait, `ReleaseGoesOn` the rest; `BeginHold` is
`begin()`. Which window is the game's (`isGameWindow`) is a property of the window.
A window's address is used once. Any call may fail: a listing of the hold finds
nothing; a call of `release()`, `present()`, `returnToLibrary()` or `endLaunchHold()`
leaves the rule or the window as it was, and of a list of held windows that fails, or
windows that are not released, some or all stay (`CallFails`, `EndRule`, `PutBack`).
Titles, focus and modes of windows and Steam's own hold are left out.

Properties: `ForItsGame`, `LetsGo` (run `Machine`), `HoldEnds` (run `Live`: 2 windows,
1 launch); `ShowsEverything` and `PutBackAtLast` (run `VPutBackAtLast`) fail (section 12). `LetsGo` is `ShowsEverything` but for holds of whose
own end a call failed, which nobody tries again: a failure before that, of an earlier
hold or of a shown window, excuses nothing. Two windows
are a launcher's and the game's; two launches are what a listing can outlive.

Fairness: the workers run, the main thread goes on when they are done, timers that
stay armed fire; the event of a listing may be overtaken by the next tick of the
poll, so its fairness is strong.

### Proofs

`MachineProofs`, for any number of windows, launches and events. `HoldInv` has four
parts beside the types: `ListingIsOfThisHold` (a listing that will be read is for the
hold that is on), `OnOrOver` (a hold that is on has no ending yet), `IgnoredIsOld`
(what a hold leaves hidden opened during an earlier launch) and `LettingGo` (after a
cancel, which of the calls are still owed, under way or made; `LetsGo` alone says
nothing until the last of them). It gives `LetsGoHolds`
(`HoldSpec => []LetsGo`, with any of the calls failing) and `ForItsGameHolds`. `HoldEnds` is liveness and
model-checked only.

## 10. Stopping games

`GameStopper` models the way from the list of running games to Game Mode left over
none: `GameStopPanel.qml`, `library/GameStopService.cpp`, the plan of
`tracking/GameStop.cpp` and the `Stopper` of `tracking/GameStopper.cpp`, over processes
that start and end at any time and whose pids are used again.

| Variable | In the code |
| --- | --- |
| `table` | the processes: pid, start time, the game they are attributed to, the Wine prefix or sandbox they are in, whether the guards name them |
| `service` | `m_busy`, `m_scanning`, `m_refreshAgain` |
| `scanner` | the scan on its worker: begun, or with the list it found |
| `worker` | the stop on its worker: its games, `handledTargets`, the plan, `m_pending`, `signalledAnything`, `failed`, the cancellation, the outcome |
| `panel` | the list shown, `pending`, `waitingForExitScan`; in the session, or left by the panel |
| `ledger` | history of the stop: what was planned, asked, forced and signalled, and what each run of a tool may have closed |
| `may` | bound: what may start |

`Plan` is `GameStop::plan()`: a whole prefix or sandbox takes the place of its
processes, with the ones that run as witnesses, unless one of them is guarded.
`NextGame` plans for a game of the stop from a new reading of /proc;
`AskProcesses`, `AskTool`, `AlreadyGone` are `begin()`, one step for a target, and
`Escalate`, `ForceProcesses` are `escalate()`; `Checked` is the look at what is left, `Report`
and `Publish` the end. `Open` stands for every panel that asks for a scan, `StopOne`
for a stop from a game's page, `SessionEnds` for the session ended otherwise.

Simplifications: the check that a process is alive and its signal are one step, as a
pid does not come round between two calls; a reading of /proc, a run of wineserver and
one of flatpak are one step each; a stop from a game's page plans for what runs as it
is asked for; the processes Omakade started itself are not a rung of their own
(`identityFor()` never fills them in); nothing is followed once Game Mode was left.

Properties (run `Machine`): `OnlyThePlanned` (a signal goes to a process the worker had
planned for, which is anew once the stop is confirmed, never to one the guards named
then, one that has its pid or one that came in its place; a forced close only to what
was asked before; a tool is run only while a process planned for is in its scope),
`DoneIsGone` (what is reported as done has ended), `LeavesNoneBehind` (of what ran when
a stop was over nothing runs when Game Mode is left, whichever scan that is heard of
from). What a tool closes is not only what was planned for: `wineserver -k` and
`flatpak kill` close what is in the scope by then, replacements and processes the
guards name with it, and `GuardedAreSpared` is violated (run `VGuardedAreSpared`,
section 12).

Bounds: two games in a Wine prefix with a guarded process that may be there too, 2
processes and 2 stops; or a game with and one without a sandbox, 2 processes and 1
stop. Two processes with two pids in turn are a process and what takes its pid or its
place in a prefix; a second stop is what ends between another's scan.

Proved in `MachineProofs`, for any games, processes, scopes and bounds:
`OnlyThePlannedHolds` and `DoneIsGoneHolds`. `StopInv` adds that a pid names one process
at a time and a start time is never used again (`NamedOnce`), that what the worker
is at was planned and the witnesses of a scope are in it (`PlannedFor`) and what it will force was asked before (`AskedFor`),
and that what it has been through is gone or the stop has failed (`GoneOrFailed`).

`LeavesNoneBehindHolds` needs what a scan says, and that is a fold over the rows of the
library. `LiveGamesUnfold` gives the fold as a function from one row to the next
(`LiveFoldExists` shows that there is one), and facts about all rows are proved by
induction in the form "there is no first row for which it fails" (`LeastNatural`, from
the well-foundedness of `<` on the natural numbers; the library's own induction
theorems take an operator, which the provers cannot instantiate). `EmptyScan` is then:
a scan that lists nothing has seen no process of a game that it may signal. `WaitInv`
relates the scan to the panel: what still ran when the stop was over is older than
whatever starts (`RanBefore`), and a scan that may answer the waiting panel has read
`/proc` after that, so that an empty list means that none of those is left (`Awaited`).
It is checked by TLC too. The assumption on `Rows` is that they are a sequence.

## 11. Not modelled

- The components of the table that are mostly data or I/O: library models, sources,
  achievements, metadata, artwork, shell, input, streaming, notifications, with the
  reasons in `PROJECT.json`. They are most of the code: `app/main.cpp` alone is 9 500
  lines of wiring, and the scanners, view models and web clients are most of the rest.
  What the modules cover is therefore a small share of the lines, those where state
  outlives a step.
  The map covers some 5 500 of 76 600 lines; to cover a large share of them would mean
  to model lists and parsers, of which there is nothing to say but what they parse.
- `LaunchWatch`, `SessionStopper`, Steam's own hold and the moments of achievements are
  left for later; nothing in the other modules depends on them.
- Within the modelled components, what the notes in `PROJECT.json` and the
  "Abstractions" above name.
- Liveness under fairness is out of the prover's reach and checked by TLC only, as are
  all properties not named under Proofs.

## 12. Where code and documentation differ

Shown by the runs that end in a violation:

1. `VPendingIsRecoverable`: the deletion of the journal (`SaveSetStore.cpp:691`) is
   not atomic; cut short, it leaves a journal that every later `recover()` rejects
   as damaged, and launches stay paused. `docs/SAVE-SETS.md:60` says a committed
   journal only needs cleanup.
2. `VIdsNameOwnRow`: a drained checkpoint closes the row of a session that goes on
   (`SessionRecorder.cpp:422`); once deleted, its row identifier is given away and
   two sessions write to one row. `SessionDatabase.cpp:569` relies on a closed row
   not being tracked. With three processes of one game a session can then be followed
   under two of them (`OneSessionPerKey`).
3. `VMutesOnRecord`: a resume that fails, and whose record cannot be written back
   either (`GameModeController.cpp:890`), leaves games muted that the record does not
   name; killed then, nothing unmutes them. `GameModeController.h:23` says every
   change is on disk first.
4. `VPutBackAtLast`: `abandon()` (`LaunchHold.cpp:326`) does not wait for the worker
   that shows and hides windows, which may hide one after Game Mode has put them all
   back. `LaunchHold.h:79-80` says it stops at once.
5. `VGuardedAreSpared`: `wineserver -k` and `flatpak kill` (`GameStopper.cpp:304`, 367)
   also close a process the guards name that came into the prefix or sandbox after the
   plan, which looks for such a process (`GameStop.cpp:412`) only once.
   `GameStop.h:72` says they must never be signalled.

Properties the modules state that fail (TLC finds each violated when it takes the place
of the properties of the run named); no run is kept for them:

- `ShowsEverything` (windows and launch as in `Live`): the worker of `release()` looks at
  the result of none of its calls but that of the list, and when the list fails it
  releases nothing (`LaunchHold.cpp:446`); no one tries again, and what was held stays
  out of sight. `docs/GAME-MODE.md:48` says Show All Windows shows everything.
- `EachPressSignals` (`Guide`): a reading of a node emits `pressed` once for all the
  presses it drained (`GuideListener.cpp:334`, 346), so a second press is lost when the
  listener was late. `GuidePress.h:10` says a press counts when it was short and alone.
- `StoppedIsNotOurs` (`Guide`): what the player stops between the guard's look
  (`GuidePause.cpp:39`) and its STOP (42), up to 1.5 s later, is resumed when the guide
  closes. `GuidePause.cpp:40` says what was stopped already is not ours to resume.
- `ChosenSinkKept` (`GameMode`): when the
  session's sound output is gone, a restore sets the former one, also over one the player
  chose meanwhile (`GameModeController.cpp:1346`). `docs/GAME-MODE.md:227` says that
  choice is kept.

Met while modelling. They are behaviours of the modules unless marked (*), which are
read from the code only; no run is kept for them.

Saves:

- The snapshot taken by a restore trims the oldest version (`SaveSetStore.cpp:592`),
  possibly the one to restore, before the recovery copies are written (735-741).
  `docs/SAVE-SETS.md:75` says storage failure preserves versions.
- Between the check of a file (`SaveSetStore.cpp:760`) and its replacement (761), or
  685-686 in `recover()`, an emulator's write is overwritten; `docs/SAVE-SETS.md:68`
  says it is preserved.
- Versions are ordered by wall clock: with `ClockStepsBack` `UndoKept` fails, as the
  version that protects the current saves is the first to be trimmed.
  `docs/SAVE-SETS.md:10` says restoring first protects the current save set.
- Where `SingleInstance` could not have its server, a second Omakade may publish a
  journal between the recovery and the spawn of a launch (`SaveBackups.cpp:812`):
  `LaunchPaused` fails with two processes.

Sessions:

- `retryInsert()` inserts a deleted session again (`SessionDatabase.cpp:245`);
  `SessionRecorder.h:159` says it is dropped.
- A queued close of a row that the start-up ended at its heartbeat is an error at
  every retry (`SessionDatabase.cpp:340`); line 334 says a replay must not retry
  forever.
- A session followed from an old checkpoint writes the old total over the newer one
  of its row (`SessionRecorder.cpp:445`); `CHANGELOG.md:304` says a replayed
  checkpoint never lowers recorded progress.
- A drained checkpoint replaces the intervals of a session that goes on
  (`SessionRecorder.cpp:474`) but not its total, and the row's intervals are refused
  from then on; `SessionJournal.h:47` says stale intervals cannot be added to newer
  progress.
- A checkpoint whose replay is refused once at the start is dropped as written after
  its row was ended at an older heartbeat (`SessionDatabase.cpp:1092`);
  `docs/RECORDING-COVERAGE.md:34` says the session is delayed, not lost.
- A clear epoch that cannot be read is taken for 0 (`SessionDatabase.cpp:940`) and
  its operation is dropped as cleared; `CHANGELOG.md:307` says a read failure
  retries instead of discarding.
- A checkpoint made under a title starts a second session of its key after the
  upgrade to a proof (`SessionRecorder.cpp:466`), so `OneSessionPerKey` fails when
  evidence is by title; `SessionJournal.h:26` says replays never create a second one.

Journal file:

- `compact()` returns before it replaces its pending keys when the rewrite fails after
  its rename (`SessionJournal.cpp:637`; `SessionJournal.h:69`).
- (*) A damaged file that cannot be set aside leaves `open()` available over it; a
  file removed meanwhile is written again without its header; a second damage removes
  the copy of the first; `status()` does not show a refused replacement as "full".

Backup:

- An undo replaces the whole history with the copy of the first attempt
  (`BackupRecovery.cpp:263`), and so drops what was played since a merge;
  `docs/GUIDE.md:263`.
- (*) An undo where there was no database file keeps the imported history; the model
  takes a database to exist.
- (*) A Replace that fails after its commit and is retried deletes what the recorder
  wrote in between; in the model a replay is one step.

Highlights:

- A start that fails before it has a process, with the buffer failed already, emits
  no signal (`ReplayBuffer.cpp:282`): it is not counted, is repeated at every tick and
  never reported. `docs/HIGHLIGHTS.md:56` says Omakade tries twice more and then says
  why.

Game Mode:

- A `refresh()` asked for while a parked session is re-read only sets a flag that
  `finishChange()` does not look at (`GameModeSession.cpp:612`), so the reading is
  lost; one that starts between the end of another and its event drops that event.
- (*) `screenRemoved()` is ignored while a change runs and not looked at again
  (`GameModeSession.cpp:615`); `docs/GAME-MODE.md:237`.
- An exit that fails to return the window still turns the display off
  (`GameModeController.cpp:1391`); `GameModePorts.h:97`.

Launch hold:

- "Show All Windows" leaves windows hidden that were kept from earlier launches
  (`docs/GAME-MODE.md:48`); `ShowsEverything` is about those of this one. A launcher's window that opens between the listing and the
  end of the rule is held but not remembered, and the next launch lists it.
- (*) If the compositor gives a new window the address of an ignored one, it stays
  hidden after a cancel; the model uses an address once.

Guide:

- With two guards at work `PausedIsFrozen` fails: the guard of an opening that was
  closed resumes, when it finally reads the end of its input, what the guard of the
  next opening has stopped; `docs/GAME-GUIDE.md:49`. The run has one guard.
- The timer of a hold may run before a queued release is read
  (`GuideListener.cpp:229`), so a hold is reported of a button that is up
  (`GuidePress.h:19`). `ShortPressCounts` excludes it.
- Of three presses within the mirror window of each other the middle one may be lost, when
  its two reports are read on either side of the third's (section 8).
- One physical press that two nodes report can be a hold by one and a press by the
  other. A direction of the d-pad held since before Guide is not a chord
  (`GuidePress.h:12`).
- A guard killed at its three-second limit (`InGameGuide.cpp:419`), or by anyone, after
  Omakade has let go of it leaves stopped what it stopped since (`GuardDies`, section 8);
  `ResumedAtLast` excepts it. `End` is the limit reached in `hyprctl`, where nothing is
  stopped yet.

Stopping games:

- The worker of a stop plans from a new reading of /proc (`GameStopService.cpp:315`), so
  what started after the list was shown is signalled too: `GameStopPanel.qml:6-7` says
  the list on screen is the list that will be signalled, `GameStop.h:94` that the members
  of a scope were observed before confirmation.
