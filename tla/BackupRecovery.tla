--------------------------- MODULE BackupRecovery ---------------------------
(***************************************************************************)
(* Restoring a backup of the library (backup/BackupRecovery, BackupStartup *)
(* and BackupDatabase).  A restore is staged while the library is open and *)
(* applied by the next start, before the library opens: a recovery copy,   *)
(* the database, the recorder's pending, the preferences, each recorded in *)
(* a phase on disk, so that a start after a crash goes on or goes back.    *)
(* The session recorder (omakade-sessiond) is a process of its own, which  *)
(* may run and write play history meanwhile; the restore only shuts it out *)
(* while it writes the database.                                           *)
(***************************************************************************)
EXTENDS Integers, FiniteSets

CONSTANTS Games,        \* games with play history
          PlayedGame,   \* the game with local history at first
          MaxPlays,     \* bound: sessions the recorder records
          MaxRestores,  \* bound: restores staged
          MaxBreaks     \* bound: crashes and failed steps

ASSUME RecoveryAssumption ==
  /\ PlayedGame \in Games
  /\ {MaxPlays, MaxRestores, MaxBreaks} \subseteq Nat

Modes == {"merge", "replace"}
Unknown == 0   \* the incarnation of an operation accepted while the database could not be read

(* Sessions: one of before, one per game in the archive, the recorder's.   *)
Session(game, n) == [game |-> game, from |-> "recorder", n |-> n]
Local == [game |-> PlayedGame, from |-> "local", n |-> 0]
Archive == {[game |-> g, from |-> "archive", n |-> 0] : g \in Games}

NoCopy == [history |-> {}, choices |-> {}, settings |-> "absent"]
NoRestore == [phase |-> "none", mode |-> "merge", before |-> NoCopy]

VARIABLES
  active,    \* restore-recovery/active.json and the job's folder
  db,        \* the library database
  settings,  \* the preferences file
  pending,   \* the recorder's journal: operations and owner
  recorder,  \* whether it runs, and the incarnation it knows
  app,       \* Omakade: where it is, and the direction of the run
  seen,      \* history: data when the restore was applied first, journaled work replaced
  count      \* bounds

recoveryVars == <<active, db, settings, pending, recorder, app, seen, count>>

RecoveryInit ==
  /\ active = NoRestore
  /\ db = [history |-> {Local}, choices |-> {"mine"}, incarnation |-> 1, owner |-> 1]
  /\ settings \in {"mine", "absent"}
  /\ pending = [ops |-> {}, owner |-> 1]
  /\ recorder = [on |-> FALSE, incarnation |-> Unknown]
  /\ app = [at |-> "library", undo |-> FALSE, copy |-> NoCopy]
  /\ seen = [choices |-> {}, settings |-> "absent", replaced |-> {}]
  /\ count = [plays |-> 0, restores |-> 0, faults |-> 0]

EndsPrepared(phase) == phase \notin {"queued", "undoing"}  \* mutant
Ends(phase) == phase \in {"none", "complete", "reverted"}
At(where) == app' = [app EXCEPT !.at = where]
Undoing == app.undo \/ active.phase = "undoing"

-----------------------------------------------------------------------------
(* The library is open.                                                    *)

(* BackupManager::confirmRestore, BackupRecovery::stage.                   *)
Stage(mode) ==
  /\ app.at = "library" /\ Ends(active.phase) /\ count.restores < MaxRestores
  /\ active' = [phase |-> "queued", mode |-> mode, before |-> NoCopy]
  /\ count' = [count EXCEPT !.restores = @ + 1]
  /\ UNCHANGED <<db, settings, pending, recorder, app, seen>>

Quit ==
  /\ app.at \in {"library", "gate"}
  /\ app' = [at |-> "off", undo |-> FALSE, copy |-> NoCopy]
  /\ UNCHANGED <<active, db, settings, pending, recorder, seen, count>>

(* runRestoreStartup(): the library, or the gate, which tries at once.     *)
Start ==
  /\ app.at = "off"
  /\ app' = [at |-> IF Ends(active.phase) THEN "library" ELSE "begin", undo |-> FALSE, copy |-> NoCopy]
  /\ seen' = IF active.phase /= "queued" THEN seen
             ELSE [seen EXCEPT !.choices = db.choices, !.settings = settings, !.replaced = {}]
  /\ UNCHANGED <<active, db, settings, pending, recorder, count>>

-----------------------------------------------------------------------------
(* The gate: BackupStartup::retry and undo, BackupRecovery::restore.       *)

Retry ==
  /\ app.at = "gate"
  /\ app' = [app EXCEPT !.at = "begin", !.undo = FALSE]
  /\ UNCHANGED <<active, db, settings, pending, recorder, seen, count>>

Undo ==
  /\ app.at = "gate" /\ active.phase \in {"queued", "prepared", "undoing"}
  /\ app' = [app EXCEPT !.at = "begin", !.undo = TRUE]
  /\ UNCHANGED <<active, db, settings, pending, recorder, seen, count>>

(* A step fails: the phase stays and the gate stays closed.                *)
Fail ==
  /\ app.at \notin {"library", "off", "gate"} /\ count.faults < MaxBreaks
  /\ app' = [at |-> "gate", undo |-> FALSE, copy |-> NoCopy]
  /\ count' = [count EXCEPT !.faults = @ + 1]
  /\ UNCHANGED <<active, db, settings, pending, recorder, seen>>

Crash ==
  /\ app.at \notin {"library", "off", "gate"} /\ count.faults < MaxBreaks
  /\ app' = [at |-> "off", undo |-> FALSE, copy |-> NoCopy]
  /\ count' = [count EXCEPT !.faults = @ + 1]
  /\ UNCHANGED <<active, db, settings, pending, recorder, seen>>

(* The phase decides where the run begins.  (Mutant: every run captures.)  *)
BeginCaptures ==
  /\ app.at = "begin"
  /\ IF active.phase = "queued" /\ app.undo
     THEN active' = [active EXCEPT !.phase = "reverted"] /\ At("library")
     ELSE active' = active /\ At(IF Undoing THEN "undoing" ELSE "capture")
  /\ UNCHANGED <<db, settings, pending, recorder, seen, count>>

Begin ==
  /\ app.at = "begin"
  /\ IF active.phase = "queued" /\ app.undo
     THEN active' = [active EXCEPT !.phase = "reverted"] /\ At("library")
     ELSE /\ active' = active
          /\ At(IF active.phase = "queued" THEN "capture" ELSE IF Undoing THEN "undoing" ELSE "database")
  /\ UNCHANGED <<db, settings, pending, recorder, seen, count>>

(* The recovery copy: a snapshot of the library, and the settings file.    *)
Capture ==
  /\ app.at = "capture"
  /\ app' = [app EXCEPT !.at = "prepare",
                        !.copy = [history |-> db.history, choices |-> db.choices, settings |-> settings]]
  /\ UNCHANGED <<active, db, settings, pending, recorder, seen, count>>

Prepare ==
  /\ app.at = "prepare"
  /\ active' = [active EXCEPT !.phase = "prepared", !.before = app.copy]
  /\ app' = [app EXCEPT !.at = "database", !.copy = NoCopy]
  /\ UNCHANGED <<db, settings, pending, recorder, seen, count>>

WriteUndoing ==
  /\ app.at = "undoing"
  /\ active' = [active EXCEPT !.phase = "undoing"]
  /\ At("database")
  /\ UNCHANGED <<db, settings, pending, recorder, seen, count>>

(* BackupDatabase::restore takes the recorder's lock, or fails.  Merge     *)
(* imports the history of games that have none; replacing exchanges it and *)
(* the identity that journaled operations are checked against.             *)
MergedOver(history) == Archive \cup {r \in history : \A s \in Archive : r.game /= s.game}  \* mutant
Merged(history) == history \cup {s \in Archive : \A r \in history : r.game /= s.game}

Exchanged(data) ==
  [history |-> data.history, choices |-> data.choices, incarnation |-> db.incarnation + 1, owner |-> db.incarnation + 1]

RestoreDatabase ==
  /\ app.at = "database" /\ ~recorder.on
  /\ IF ~Undoing /\ active.mode = "merge"
     THEN /\ db' = [db EXCEPT !.history = Merged(@), !.choices = @ \cup {"archive"}]
          /\ At("settings")
          /\ seen' = seen
     ELSE /\ db' = Exchanged(IF Undoing THEN active.before ELSE [history |-> Archive, choices |-> {"archive"}])
          /\ At("empty journal")
          /\ seen' = [seen EXCEPT !.replaced = @ \cup {o.session : o \in pending.ops}]
  /\ UNCHANGED <<active, settings, pending, recorder, count>>

(* Still under the lock: the journal is emptied, then bound to the new     *)
(* database.                                                               *)
EmptyJournal ==
  /\ app.at = "empty journal"
  /\ pending' = [pending EXCEPT !.ops = {}]
  /\ At("bind journal")
  /\ UNCHANGED <<active, db, settings, recorder, seen, count>>

BindJournal ==
  /\ app.at = "bind journal"
  /\ pending' = [pending EXCEPT !.owner = db.owner]
  /\ At("settings")
  /\ UNCHANGED <<active, db, settings, recorder, seen, count>>

(* AppSettings::applyBackupSettings, or the saved file.                    *)
Applied(mode) == IF mode = "replace" \/ settings \in {"absent", "archive"} THEN "archive" ELSE "merged"

RestoreSettings ==
  /\ app.at = "settings"
  /\ settings' = IF Undoing THEN active.before.settings ELSE Applied(active.mode)
  /\ At("finish")
  /\ UNCHANGED <<active, db, pending, recorder, seen, count>>

Finish ==
  /\ app.at = "finish"
  /\ active' = [active EXCEPT !.phase = IF Undoing THEN "reverted" ELSE "complete"]
  /\ At("library")
  /\ UNCHANGED <<db, settings, pending, recorder, seen, count>>

-----------------------------------------------------------------------------
(* The recorder.                                                           *)
Locked == app.at \in {"empty journal", "bind journal"}

(* It reads the database's identity, unless the database cannot be read,   *)
(* and binds an empty journal to it.                                       *)
Bound(known) ==
  IF known /\ pending.ops = {} THEN [pending EXCEPT !.owner = db.owner] ELSE pending

StartRecorder ==
  /\ ~recorder.on /\ ~Locked
  /\ \E known \in BOOLEAN :
       /\ recorder' = [on |-> TRUE, incarnation |-> IF known THEN db.incarnation ELSE Unknown]
       /\ pending' = Bound(known)
  /\ UNCHANGED <<active, db, settings, app, seen, count>>

StopRecorder ==
  /\ recorder.on
  /\ recorder' = [on |-> FALSE, incarnation |-> Unknown]
  /\ UNCHANGED <<active, db, settings, pending, app, seen, count>>

(* A session is written, or the journal takes it because the database      *)
(* refuses it, perhaps also to be read.                                    *)
Record(game) ==
  /\ recorder.on /\ count.plays < MaxPlays
  /\ LET s == Session(game, count.plays + 1)
     IN  /\ \/ /\ db' = [db EXCEPT !.history = @ \cup {s}]
               /\ UNCHANGED <<pending, recorder>>
            \/ \E i \in {db.incarnation, recorder.incarnation} :
                 /\ pending' = [pending EXCEPT !.ops = @ \cup {[session |-> s, incarnation |-> i]}]
                 /\ recorder' = [recorder EXCEPT !.incarnation = i]
                 /\ db' = db
  /\ count' = [count EXCEPT !.plays = @ + 1]
  /\ UNCHANGED <<active, settings, app, seen>>

(* A journaled operation is replayed: written, or dropped when it was      *)
(* accepted for another database (guardReplay).                            *)
TrustsAnonymous(o) == o.incarnation \in {Unknown, db.incarnation}  \* mutant
Current(o) == IF o.incarnation = Unknown THEN db.owner = pending.owner ELSE o.incarnation = db.incarnation

Replay ==
  /\ recorder.on
  /\ \E o \in pending.ops :
       /\ db' = IF Current(o) THEN [db EXCEPT !.history = @ \cup {o.session}] ELSE db
       /\ pending' = [pending EXCEPT !.ops = @ \ {o}]
  /\ UNCHANGED <<active, settings, recorder, app, seen, count>>

(* resolveOwnership() of a later poll.                                     *)
Resolve ==
  /\ recorder.on /\ pending.ops = {} /\ pending.owner /= db.owner
  /\ pending' = [pending EXCEPT !.owner = db.owner]
  /\ recorder' = [recorder EXCEPT !.incarnation = db.incarnation]
  /\ UNCHANGED <<active, db, settings, app, seen, count>>

RecoveryNext ==
  \/ \E mode \in Modes : Stage(mode)
  \/ Quit \/ Start \/ Retry \/ Undo \/ Fail \/ Crash
  \/ Begin \/ Capture \/ Prepare \/ WriteUndoing \/ RestoreDatabase \/ EmptyJournal \/ BindJournal
  \/ RestoreSettings \/ Finish
  \/ StartRecorder \/ StopRecorder \/ (\E g \in Games : Record(g)) \/ Replay \/ Resolve

RecoverySpec == RecoveryInit /\ [][RecoveryNext]_recoveryVars

-----------------------------------------------------------------------------
(* The library opens only on data of one piece: as before the restore, or  *)
(* with the database and the preferences both restored, whatever failed or *)
(* crashed between (BackupRecovery.h:6-8).                                 *)
OpensWhole ==
  [][app.at /= "library" /\ app'.at = "library" /\ active'.phase /= "none" =>
       IF active'.phase = "complete"
       THEN "archive" \in db'.choices /\ settings' \in {"archive", "merged"}
            /\ (active'.mode = "replace" => "mine" \notin db'.choices /\ settings' = "archive")
       ELSE db'.choices = seen.choices /\ settings' = seen.settings]_recoveryVars

(* The recovery copy is of the library as it was before anything was       *)
(* applied, however often the restore is tried (docs/GUIDE.md:263).        *)
CopyIsOfBefore ==
  active.phase \in {"prepared", "undoing"} =>
     active.before.choices = seen.choices /\ active.before.settings = seen.settings

(* A merge, and whatever is tried to finish it, loses no session that is   *)
(* in the history, and none that the recorder's journal has accepted, to   *)
(* however many runs (docs/BACKUP-FORMAT.md: Merge leaves existing history *)
(* untouched).                                                             *)
Held == db.history \cup {o.session : o \in pending.ops}
MergeKeepsPlay ==
  [][active.mode = "merge" /\ active.phase \in {"queued", "prepared"} /\ seen.replaced = {}
     => Held \subseteq (db.history \cup {o.session : o \in pending.ops})']_recoveryVars

(* Work the recorder had journaled for the history that a restore replaced *)
(* does not enter the restored history (BackupDatabase.cpp:165-167), with  *)
(* or without a crash before the journal is emptied.                       *)
ReplacedStaysOut ==
  seen.replaced \cap db.history \subseteq active.before.history
=============================================================================
