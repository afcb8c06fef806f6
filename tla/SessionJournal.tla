--------------------------- MODULE SessionJournal ---------------------------
(***************************************************************************)
(* The recorder's journal file (tracking/SessionJournal): the operations   *)
(* the sessions database refused, appended one by one or rewritten as a    *)
(* whole, and what is left of them when a write fails, the recorder is     *)
(* killed or the machine loses power.  SessionRecorder takes the journal   *)
(* as a map from keys to operations; this module is the file behind it.    *)
(***************************************************************************)
EXTENDS Integers, FiniteSets, FiniteSetsExt

CONSTANTS Keys,       \* session keys
          MaxLive,    \* kMaxLiveRecords
          MaxRecord,  \* kMaxRecordBytes, in units of size
          MaxFile,    \* kMaxFileBytes
          Sizes,      \* sizes of an encoded operation
          MaxOps,     \* bound: operations handed to the journal
          MaxFaults,  \* bound: kills, power losses and damage
          FsyncCommitsRename  \* whether an fsync of a file also settles the renames before it

ASSUME JournalAssumption ==
  /\ {MaxLive, MaxRecord, MaxFile} \cup Sizes \subseteq Nat \ {0}
  /\ {MaxOps, MaxFaults} \subseteq Nat
  /\ FsyncCommitsRename \in BOOLEAN

Absent == 0

VARIABLES
  file,    \* what the path holds now
  fresh,   \* what a power loss may leave of that file
  old,     \* what it may find at the path instead: files replaced, with the directory not synced
  journal, \* the SessionJournal object
  want,    \* history: per key, the operations the journal may hold
  ops,     \* operations so far; its number identifies an operation
  faults   \* kills, power losses and damage so far

journalVars == <<file, fresh, old, journal, want, ops, faults>>

(* A file: its complete frames, and whether a partial one follows.  Frames *)
(* are only added behind the others, so that their order in the file is    *)
(* the order of their numbers, and a set says as much as a sequence.       *)
Log(frames) == [kind |-> "log", frames |-> frames, torn |-> FALSE]
NoFile == [kind |-> "none", frames |-> {}, torn |-> FALSE]
Damaged == [kind |-> "damaged", frames |-> {}, torn |-> FALSE]
Torn(f) == [f EXCEPT !.torn = TRUE]

Unopened == [available |-> FALSE, full |-> FALSE, pending |-> {}]

FramesSize(frames) == MapThenSumSet(LAMBDA f : f.size, frames)
KeysOf(frames) == {f.key : f \in frames}

(* pending(): the latest operation of a key.                               *)
Latest(f, k) == Max({Absent} \cup {g.op : g \in {h \in f.frames : h.key = k}})

JournalInit ==
  /\ file = NoFile /\ fresh = {NoFile} /\ old = {}
  /\ journal = Unopened
  /\ want = [k \in Keys |-> {Absent}]
  /\ ops = 0 /\ faults = 0

-----------------------------------------------------------------------------
(* writeBytesDurable(): a failure before the rename leaves the old file, a *)
(* failure after it has exchanged the file all the same.                   *)
Exchange(f) ==
  { [file |-> f, fresh |-> {f}, old |-> {}, ok |-> TRUE],
    [file |-> file, fresh |-> fresh, old |-> old, ok |-> FALSE],
    [file |-> f, fresh |-> {f}, old |-> old \cup fresh, ok |-> FALSE] }

Disk(d) == file' = d.file /\ fresh' = d.fresh /\ old' = d.old

OpenedOn(f) == [available |-> TRUE, full |-> FALSE, pending |-> KeysOf(f.frames)]

(* open() of no file, or of a sound one; what a torn append left is        *)
(* rewritten without it.                                                   *)
OpenLog ==
  /\ ~journal.available /\ file.kind /= "damaged"
  /\ \E d \in IF file.kind = "none" THEN Exchange(Log({}))
              ELSE IF file.torn THEN Exchange(Log(file.frames))
              ELSE {[file |-> file, fresh |-> fresh, old |-> old, ok |-> TRUE]} :
       /\ Disk(d)
       /\ journal' = IF d.ok THEN OpenedOn(file) ELSE Unopened
  /\ UNCHANGED <<want, ops, faults>>

(* open() of a damaged file: set aside, and an empty one in its place.     *)
OpenDamaged ==
  /\ ~journal.available /\ file.kind = "damaged"
  /\ \E d \in {[file |-> Log({}), fresh |-> {Log({})}, old |-> {}, ok |-> TRUE],
               [file |-> Log({}), fresh |-> {Log({})}, old |-> old \cup fresh \cup {NoFile}, ok |-> FALSE],
               [file |-> NoFile, fresh |-> {NoFile}, old |-> old \cup fresh, ok |-> FALSE]} :
       /\ Disk(d)
       /\ journal' = IF d.ok THEN OpenedOn(Log({})) ELSE Unopened
  /\ UNCHANGED <<want, ops, faults>>

(* What append() refuses without touching the disk; the journal is full    *)
(* then.                                                                   *)
Replaced(o) == {f \in file.frames : f.key /= o.key} \cup {o}

NoSlot(o) ==
  o.key \notin journal.pending /\ (Cardinality(journal.pending) >= MaxLive \/ FramesSize(file.frames) >= MaxFile)
AtCap(o) ==
  \/ NoSlot(o)
  \/ o.size > MaxRecord
  \/ o.key \in journal.pending /\ file.kind = "log" /\ FramesSize(Replaced(o)) >= MaxFile

(* append() of a new key: the frame is written, in part or whole, and      *)
(* synced.                                                                 *)
SyncedFile(f) == [file |-> f, fresh |-> {f}, old |-> IF FsyncCommitsRename THEN {} ELSE old, ok |-> TRUE]
AppendUnsynced(o) ==
  LET with == [file EXCEPT !.frames = @ \cup {o}]
  IN  {[file |-> with, fresh |-> fresh \cup {Torn(file), with}, old |-> old, ok |-> TRUE]}  \* mutant

AppendFrame(o) ==
  LET with == [file EXCEPT !.frames = @ \cup {o}]
  IN  { SyncedFile(with),
        [file |-> with, fresh |-> fresh \cup {Torn(file), with}, old |-> old, ok |-> FALSE],
        [file |-> Torn(file), fresh |-> fresh \cup {Torn(file)}, old |-> old, ok |-> FALSE],
        [file |-> file, fresh |-> fresh, old |-> old, ok |-> FALSE] }

(* append(): refused at the cap, else a new frame or the replacement of    *)
(* the key's.  A failure gives the journal up.                             *)
Appends(o) ==
  IF o.key \notin journal.pending THEN AppendFrame(o)
  ELSE Exchange(Log(Replaced(o)))

AppendOp(o) ==
  /\ journal.available /\ ops < MaxOps /\ file.kind = "log"
  /\ ops' = o.op
  /\ IF AtCap(o)
     THEN journal' = [journal EXCEPT !.full = TRUE] /\ UNCHANGED <<file, fresh, old, want>>
     ELSE \E d \in Appends(o) :
            /\ Disk(d)
            /\ journal' = IF d.ok THEN [journal EXCEPT !.pending = @ \cup {o.key}]
                          ELSE [journal EXCEPT !.available = FALSE]
            /\ want' = [want EXCEPT ![o.key] = IF d.ok THEN {o.op}
                                               ELSE IF Latest(d.file, o.key) = o.op THEN @ \cup {o.op} ELSE @]
  /\ UNCHANGED faults

(* compact(): the caller is done with some of the keys it was given.  A    *)
(* failure leaves the object as it was, whatever is on the disk.           *)
Compacted(f, gone) == {g \in f.frames : g.key \notin gone}

Compact(gone) ==
  /\ journal.available /\ file.kind = "log"
  /\ gone /= {} /\ gone \subseteq KeysOf(file.frames)
  /\ \E d \in Exchange(Log(Compacted(file, gone))) :
       /\ Disk(d)
       /\ journal' = IF ~d.ok THEN journal
                     ELSE [journal EXCEPT !.pending = KeysOf(d.file.frames),
                                          !.full = @ /\ ~(Cardinality(KeysOf(d.file.frames)) < MaxLive
                                                          /\ FramesSize(d.file.frames) < MaxFile)]
       /\ want' = [k \in Keys |-> IF k \notin gone THEN want[k]
                                  ELSE IF d.ok THEN {Absent}
                                  ELSE IF Latest(d.file, k) = Absent THEN want[k] \cup {Absent} ELSE want[k]]
  /\ UNCHANGED <<ops, faults>>

-----------------------------------------------------------------------------
(* The recorder ends or is killed; the file stays as it was written.       *)
Kill ==
  /\ journal.available /\ faults < MaxFaults
  /\ journal' = Unopened /\ faults' = faults + 1
  /\ UNCHANGED <<file, fresh, old, want, ops>>

(* The machine loses power.                                                *)
PowerLoss ==
  /\ faults < MaxFaults /\ faults' = faults + 1
  /\ journal' = Unopened
  /\ \E f \in old \cup fresh : file' = f /\ fresh' = {f}
  /\ old' = {}
  /\ UNCHANGED <<want, ops>>

(* The file is damaged from outside: what it held need not be kept.        *)
Damage ==
  /\ ~journal.available /\ file.kind = "log" /\ faults < MaxFaults /\ faults' = faults + 1
  /\ file' = Damaged /\ fresh' = {Damaged} /\ old' = {}
  /\ want' = [k \in Keys |-> {Absent}]
  /\ UNCHANGED <<journal, ops>>

JournalNext ==
  \/ OpenLog \/ OpenDamaged
  \/ \E k \in Keys, n \in Sizes : AppendOp([key |-> k, op |-> ops + 1, size |-> n])
  \/ \E gone \in SUBSET Keys : Compact(gone)
  \/ Kill \/ PowerLoss \/ Damage

JournalSpec == JournalInit /\ [][JournalNext]_journalVars

-----------------------------------------------------------------------------
(* An accepted operation is read back after a kill or a power loss at any  *)
(* point, until a later one replaces it or the caller is done with it; one *)
(* that was refused may be read back only when its write was in doubt      *)
(* (SessionJournal.h:17-19, 45).                                           *)
AcceptedSurvives ==
  \A f \in {file} \cup old \cup fresh : \A k \in Keys : Latest(f, k) \in want[k]
=============================================================================
