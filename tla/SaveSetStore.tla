---------------------------- MODULE SaveSetStore ----------------------------
(***************************************************************************)
(* The save-set store of src/src/saves/SaveSetStore.cpp: complete copies   *)
(* of an emulator's save files ("versions"), and a multi-file restore that *)
(* is made atomic by a journal on disk (the directory ".restore").         *)
(*                                                                         *)
(* One save layout is modelled: its files are Paths, the content of a file *)
(* is a member of Contents or Absent, and a save set is a function from    *)
(* Paths.  Every process of Procs runs the operations SaveBackups offers   *)
(* one after the other; an emulator, and anything else that writes saves,  *)
(* runs beside them.  A process may be killed between any two steps.       *)
(*                                                                         *)
(* Reading a whole save set (collect) is one step.  Replacing one file     *)
(* (apply) and checking that file beforehand (sameFile) are two steps, as  *)
(* they are in the code; deleting a directory is two steps, since a        *)
(* process killed in the middle leaves a part of it behind.  Staging       *)
(* directories are not represented: they are published by a rename, and    *)
(* one left behind by a crash is never read, only swept.                   *)
(***************************************************************************)
EXTENDS Integers, FiniteSets

CONSTANTS
  Procs,           \* Omakade processes that share the store
  Paths,           \* the files the save layout names
  Contents,        \* what a file can hold
  Absent,          \* the content of a file that does not exist
  Nobody,          \* the lock file is free
  NoJournal,       \* there is no ".restore" directory
  Nothing,         \* an unused local variable
  Ids,             \* version identifiers (UUIDs: never exhausted in the code)
  Retention,       \* m_retention, at least 2 (setPolicy)
  ClockStepsBack,  \* whether the wall clock may be set back
  MaxClock,        \* bound on the wall clock
  MaxOps,          \* bound on operations asked for by the player
  MaxWrites,       \* bound on writes to the saves from outside the store
  MaxStarts,       \* bound on emulators started outside Omakade
  MaxFaults,       \* bound on failed file operations
  MaxCrashes       \* bound on killed processes

ASSUME NobodyAssumption == Nobody \notin Procs
ASSUME AbsentAssumption == Absent \notin Contents
ASSUME IdsAssumption == Nothing \notin Ids
ASSUME BoundsAssumption ==
  /\ Retention \in Nat /\ Retention >= 2
  /\ ClockStepsBack \in BOOLEAN
  /\ {MaxClock, MaxOps, MaxWrites, MaxStarts, MaxFaults, MaxCrashes} \subseteq Nat

SaveSets == [Paths -> Contents \cup {Absent}]
EmptySet == [q \in Paths |-> Absent]
Times    == 0 .. MaxClock

Journals ==
  [before : SaveSets, after : SaveSets, committed : BOOLEAN, intact : BOOLEAN]

ASSUME JournalAssumption == NoJournal \notin Journals

Versions ==
  [id : Ids, created : Nat, stamp : Nat, data : SaveSets, whole : BOOLEAN]

Kinds == {"restore", "snapshot", "remove", "launch", "recover"}

(* recover() runs under these labels ...                                   *)
RecoverLabels == {"recover", "roll", "rollApply", "clearing"}
(* ... snapshot() and remove() under these, and restore() under the rest.  *)
SnapshotLabels == {"snapshot", "publish", "trim", "drop", "dropping"}
RestoreLabels  == {"read", "prepare", "stage", "swap", "swapApply"}
Labels == {"idle", "remove", "launch", "spawn"}
          \cup RecoverLabels \cup SnapshotLabels \cup RestoreLabels

VARIABLES
  live,      \* the save files themselves
  versions,  \* the listed versions; ~whole: some member has been deleted
  journal,   \* ".restore": both save sets and the commit mark
  lock,      \* the process that holds ".lock"
  running,   \* m_running(): a supported emulator is running
  clock,     \* the wall clock when it was last read
  touched,   \* history: files written from outside since the last restore
             \* was begun, or since its journal was published
  budget,    \* what is left of the bounds
  pc, op,    \* per process: its label, and the operation it runs
  before, after, data,  \* per process: the save sets it holds in memory
  todo, cur, \* per process: the loop over the files, and the file it is at
  result     \* per process: restore()'s okay, then what it reports

disk  == <<live, versions, journal>>
world == <<running, clock, budget>>
copies == <<before, after, data>>
locals == <<copies, todo, cur>>
vars  == <<disk, lock, world, touched, pc, op, locals, result>>

-----------------------------------------------------------------------------
(* Definitions about versions and journals.                                *)

Pending == journal # NoJournal

(* versions() lists by createdAt, newest first, and by identifier among    *)
(* versions of the same instant.                                           *)
Newer(v, w) == \/ v.created > w.created
               \/ v.created = w.created /\ v.stamp > w.stamp
Newest == {v \in versions : \A w \in versions : ~Newer(w, v)}

Oldest == {v \in versions : \A w \in versions : ~Newer(v, w)}

Later(m, n) == IF m > n THEN m ELSE n

FreshIds == Ids \ ({v.id : v \in versions} \cup {op[r].id : r \in Procs})

(* Mutant: the loops visit the files of the old set only.                  *)
FilesOfBefore(j) == {q \in Paths : j.before[q] # Absent}

(* The files a journal names, the side recovery makes live, and whether a  *)
(* live file is one of the two the journal knows (sameFile on both sides). *)
Files(j) == {q \in Paths : j.before[q] # Absent \/ j.after[q] # Absent}
Target(j) == IF j.committed THEN j.after ELSE j.before
Settled(q) == live[q] \in {journal.before[q], journal.after[q]}

EmptyAllowed(p) == op[p].kind = "restore"

-----------------------------------------------------------------------------
TypeOK ==
  /\ live \in SaveSets
  /\ versions \subseteq Versions
  /\ journal \in Journals \cup {NoJournal}
  /\ lock \in Procs \cup {Nobody}
  /\ running \in BOOLEAN
  /\ clock \in Nat
  /\ touched \subseteq Paths
  /\ budget \in [{"ops", "writes", "starts", "faults", "crashes"} -> Nat]
  /\ pc \in [Procs -> Labels]
  /\ op \in [Procs -> [kind : Kinds, id : Ids \cup {Nothing}]]
  /\ before \in [Procs -> SaveSets]
  /\ after \in [Procs -> SaveSets]
  /\ data \in [Procs -> SaveSets]
  /\ todo \in [Procs -> SUBSET Paths]
  /\ cur \in [Procs -> Paths \cup Ids \cup {Nothing}]
  /\ result \in [Procs -> {"none", "swapped", "unswapped", "success", "failure"}]

Init ==
  /\ live \in SaveSets
  /\ versions = {}
  /\ journal = NoJournal
  /\ lock = Nobody
  /\ running = FALSE
  /\ clock = 0
  /\ touched = {}
  /\ budget = [ops |-> MaxOps, writes |-> MaxWrites, starts |-> MaxStarts,
               faults |-> MaxFaults, crashes |-> MaxCrashes]
  /\ pc = [p \in Procs |-> "idle"]
  /\ op = [p \in Procs |-> [kind |-> "recover", id |-> Nothing]]
  /\ before = [p \in Procs |-> EmptySet]
  /\ after = [p \in Procs |-> EmptySet]
  /\ data = [p \in Procs |-> EmptySet]
  /\ todo = [p \in Procs |-> {}]
  /\ cur = [p \in Procs |-> Nothing]
  /\ result = [p \in Procs |-> "none"]

-----------------------------------------------------------------------------
(* Control.                                                                *)

At(p, label) == pc[p] = label
Goto(p, label) == pc' = [pc EXCEPT ![p] = label]

Spend(what) == /\ budget[what] > 0
               /\ budget' = [budget EXCEPT ![what] = @ - 1]

(* The operation ends: what it held in memory is gone.                     *)
Forget(p) ==
  /\ op' = [op EXCEPT ![p] = [kind |-> "recover", id |-> Nothing]]
  /\ before' = [before EXCEPT ![p] = EmptySet]
  /\ after' = [after EXCEPT ![p] = EmptySet]
  /\ data' = [data EXCEPT ![p] = EmptySet]
  /\ todo' = [todo EXCEPT ![p] = {}]
  /\ cur' = [cur EXCEPT ![p] = Nothing]

Return(p, r) ==
  /\ Goto(p, "idle")
  /\ result' = [result EXCEPT ![p] = r]
  /\ Forget(p)

Continue(p, label) ==
  /\ Goto(p, label)
  /\ UNCHANGED <<op, locals, result>>

(* What follows a recover() that returned true: the operation it opened,   *)
(* or the end of the restore() it closed.                                  *)
AfterRecover(p) ==
  \/ /\ result[p] = "none" /\ op[p].kind = "recover"
     /\ Return(p, "success")
  \/ /\ result[p] = "none" /\ op[p].kind = "restore"
     /\ Continue(p, "read")
  \/ /\ result[p] = "none" /\ op[p].kind \in {"snapshot", "remove", "launch"}
     /\ Continue(p, op[p].kind)
  \/ /\ result[p] = "swapped"
     /\ Return(p, "success")
  \/ /\ result[p] = "unswapped"
     /\ Return(p, "failure")

(* Mutant: restore() goes on after a snapshot that failed.                 *)
AfterAnySnapshot(p, okay) ==
  \/ /\ op[p].kind = "launch"
     /\ Continue(p, "spawn")
  \/ /\ op[p].kind = "snapshot"
     /\ Return(p, IF okay THEN "success" ELSE "failure")
  \/ /\ op[p].kind = "restore"
     /\ Continue(p, "prepare")

(* What follows a snapshot(): a launch goes on whatever it returned.       *)
AfterSnapshot(p, okay) ==
  \/ /\ op[p].kind = "launch"
     /\ Continue(p, "spawn")
  \/ /\ op[p].kind = "snapshot"
     /\ Return(p, IF okay THEN "success" ELSE "failure")
  \/ /\ op[p].kind = "restore" /\ okay
     /\ Continue(p, "prepare")
  \/ /\ op[p].kind = "restore" /\ ~okay
     /\ Return(p, "failure")

Take(p) == lock = Nobody /\ lock' = p
Unlock == lock' = Nobody

(* tryLock(0) || pending() || m_running(), the refusal of every operation  *)
(* but recover().                                                          *)
Refused == lock # Nobody \/ Pending \/ running

-----------------------------------------------------------------------------
(* The player asks for an operation; SaveBackups runs recover() first.     *)

Begin(p, kind, id) ==
  /\ At(p, "idle")
  /\ Goto(p, "recover")
  /\ op' = [op EXCEPT ![p] = [kind |-> kind, id |-> id]]
  /\ result' = [result EXCEPT ![p] = "none"]
  /\ UNCHANGED <<disk, lock, running, clock, touched, locals>>

Restore(p) == \E v \in versions : Begin(p, "restore", v.id) /\ Spend("ops")
Remove(p) == \E v \in versions : Begin(p, "remove", v.id) /\ Spend("ops")
Snapshot(p) == Begin(p, "snapshot", Nothing) /\ Spend("ops")
Launch(p) == Begin(p, "launch", Nothing) /\ Spend("ops")

(* "Retry Save Recovery", offered while a journal is there.                *)
RetryRecovery(p) ==
  /\ Pending
  /\ Begin(p, "recover", Nothing)
  /\ UNCHANGED budget

-----------------------------------------------------------------------------
(* recover().                                                              *)

RecoverNothing(p) ==
  /\ At(p, "recover") /\ ~Pending
  /\ AfterRecover(p)
  /\ UNCHANGED <<disk, lock, world, touched>>

(* Mutant: a journal with a missing member is followed all the same.       *)
RecoverDamaged(p) ==
  /\ At(p, "recover") /\ Pending
  /\ Take(p) /\ ~running
  /\ \A q \in Paths : Settled(q)
  /\ todo' = [todo EXCEPT ![p] = Files(journal)]
  /\ Goto(p, "roll")
  /\ UNCHANGED <<disk, world, touched, op, copies, cur, result>>

(* The manifest, both sets of copies and every live file are checked; the  *)
(* loop then visits every file the journal names.                          *)
RecoverBegin(p) ==
  /\ At(p, "recover") /\ Pending
  /\ Take(p) /\ ~running
  /\ journal.intact /\ \A q \in Paths : Settled(q)
  /\ todo' = [todo EXCEPT ![p] = Files(journal)]
  /\ Goto(p, "roll")
  /\ UNCHANGED <<disk, world, touched, op, copies, cur, result>>

(* Mutant: the operation goes on although the recovery was refused.        *)
RecoverIgnored(p) ==
  /\ At(p, "recover") /\ Pending
  /\ \/ lock # Nobody \/ running \/ ~journal.intact
     \/ \E q \in Paths : ~Settled(q)
  /\ AfterRecover(p)
  /\ UNCHANGED <<disk, lock, world, touched>>

RecoverRefused(p) ==
  /\ At(p, "recover") /\ Pending
  /\ \/ lock # Nobody \/ running \/ ~journal.intact
     \/ \E q \in Paths : ~Settled(q)
  /\ Return(p, "failure")
  /\ UNCHANGED <<disk, lock, world, touched>>

(* The emulator's configuration no longer resolves to the same layout, or  *)
(* a save folder cannot be read.                                           *)
RecoverFails(p) ==
  /\ At(p, "recover") /\ Pending
  /\ Spend("faults")
  /\ Return(p, "failure")
  /\ UNCHANGED <<disk, lock, running, clock, touched>>

RollCheck(p) ==
  /\ At(p, "roll")
  /\ \E q \in todo[p] : ~running /\ Settled(q) /\ cur' = [cur EXCEPT ![p] = q]
  /\ Goto(p, "rollApply")
  /\ UNCHANGED <<disk, lock, world, touched, op, copies, todo, result>>

RollRefused(p) ==
  /\ At(p, "roll")
  /\ \E q \in todo[p] : running \/ ~Settled(q)
  /\ Unlock
  /\ Return(p, "failure")
  /\ UNCHANGED <<disk, world, touched>>

RollApply(p) ==
  /\ At(p, "rollApply")
  /\ live' = [live EXCEPT ![cur[p]] = Target(journal)[cur[p]]]
  /\ todo' = [todo EXCEPT ![p] = @ \ {cur[p]}]
  /\ Goto(p, "roll")
  /\ UNCHANGED <<versions, journal, lock, world, touched, op, copies, cur, result>>

RollApplyFails(p) ==
  /\ At(p, "rollApply")
  /\ Spend("faults") /\ Unlock
  /\ Return(p, "failure")
  /\ UNCHANGED <<disk, running, clock, touched>>

(* Mutant: the journal is cleared after the first file.                    *)
ClearEarly(p) ==
  /\ At(p, "roll")
  /\ journal' = [journal EXCEPT !.intact = FALSE]
  /\ Goto(p, "clearing")
  /\ UNCHANGED <<live, versions, lock, world, touched, op, locals, result>>

(* removeRecursively() of the journal: its members go one by one.          *)
ClearBegin(p) ==
  /\ At(p, "roll") /\ todo[p] = {}
  /\ journal' = [journal EXCEPT !.intact = FALSE]
  /\ Goto(p, "clearing")
  /\ UNCHANGED <<live, versions, lock, world, touched, op, locals, result>>

ClearEnd(p) ==
  /\ At(p, "clearing")
  /\ journal' = NoJournal /\ touched' = {}
  /\ Unlock
  /\ AfterRecover(p)
  /\ UNCHANGED <<live, versions, world>>

ClearFails(p) ==
  /\ At(p, "clearing")
  /\ Spend("faults") /\ Unlock
  /\ Return(p, "failure")
  /\ UNCHANGED <<disk, running, clock, touched>>

RecoverStep(p) ==
  \/ RecoverNothing(p) \/ RecoverBegin(p) \/ RecoverRefused(p) \/ RecoverFails(p)
  \/ RollCheck(p) \/ RollRefused(p) \/ RollApply(p) \/ RollApplyFails(p)
  \/ ClearBegin(p) \/ ClearEnd(p) \/ ClearFails(p)

-----------------------------------------------------------------------------
(* snapshot().                                                             *)

(* Nothing to copy, or the newest listed version already holds these saves.*)
SnapshotUnneeded(p) ==
  /\ At(p, "snapshot") /\ ~Refused
  /\ \/ live = EmptySet /\ ~EmptyAllowed(p)
     \/ \E v \in Newest : v.whole /\ v.data = live
  /\ AfterSnapshot(p, TRUE)
  /\ UNCHANGED <<disk, lock, world, touched>>

SnapshotBegin(p) ==
  /\ At(p, "snapshot") /\ ~Refused
  /\ live # EmptySet \/ EmptyAllowed(p)
  /\ versions = {} \/ \E v \in Newest : ~(v.whole /\ v.data = live)
  /\ Take(p)
  /\ data' = [data EXCEPT ![p] = live]
  /\ Goto(p, "publish")
  /\ UNCHANGED <<disk, world, touched, op, before, after, todo, cur, result>>

SnapshotRefused(p) ==
  /\ At(p, "snapshot") /\ Refused
  /\ AfterSnapshot(p, FALSE)
  /\ UNCHANGED <<disk, lock, world, touched>>

(* An unreadable folder, or the storage limit.                             *)
SnapshotFails(p) ==
  /\ At(p, "snapshot")
  /\ Spend("faults")
  /\ AfterSnapshot(p, FALSE)
  /\ UNCHANGED <<disk, lock, running, clock, touched>>

(* The staged copy was read back; the live files must still be the same.   *)
(* The identifier is kept above that of the newest listed version.         *)
Publish(p) ==
  /\ At(p, "publish") /\ live = data[p] /\ ~running
  /\ FreshIds # {}
  /\ \E now \in Times :
       /\ ClockStepsBack \/ now >= clock
       /\ clock' = now
       /\ \E stamp \in IF versions = {} THEN {now}
                       ELSE {Later(now, v.stamp + 1) : v \in Newest} :
            versions' = versions \cup
              {[id |-> CHOOSE i \in FreshIds : TRUE, created |-> now, stamp |-> stamp,
                data |-> data[p], whole |-> TRUE]}
  /\ Goto(p, "trim")
  /\ UNCHANGED <<live, journal, lock, running, budget, touched, op, locals, result>>

PublishRefused(p) ==
  /\ At(p, "publish")
  /\ live # data[p] \/ running
  /\ Unlock
  /\ AfterSnapshot(p, FALSE)
  /\ UNCHANGED <<disk, world, touched>>

PublishFails(p) ==
  /\ At(p, "publish")
  /\ Spend("faults") /\ Unlock
  /\ AfterSnapshot(p, FALSE)
  /\ UNCHANGED <<disk, running, clock, touched>>

(* Versions past the retention go, last in the list first; never more than *)
(* one, since those that were there before the snapshot count as allowed.  *)
Trim(p) ==
  /\ At(p, "trim") /\ Cardinality(versions) > Retention
  /\ \E v \in Oldest : cur' = [cur EXCEPT ![p] = v.id]
  /\ Goto(p, "drop")
  /\ UNCHANGED <<disk, lock, world, touched, op, copies, todo, result>>

TrimNothing(p) ==
  /\ At(p, "trim") /\ Cardinality(versions) <= Retention
  /\ Unlock
  /\ AfterSnapshot(p, TRUE)
  /\ UNCHANGED <<disk, world, touched>>

AfterDrop(p, okay) ==
  \/ /\ op[p].kind = "remove"
     /\ Return(p, IF okay THEN "success" ELSE "failure")
  \/ /\ op[p].kind # "remove"
     /\ AfterSnapshot(p, TRUE)

(* removeRecursively() of a version: if its manifest goes first, it is no  *)
(* longer listed; if a member does, it is listed and damaged.              *)
DropBegin(p) ==
  /\ At(p, "drop")
  /\ \E left \in SUBSET {v \in versions : v.id = cur[p]} :
       versions' = {v \in versions : v.id # cur[p]}
                     \cup {[v EXCEPT !.whole = FALSE] : v \in left}
  /\ Goto(p, "dropping")
  /\ UNCHANGED <<live, journal, lock, world, touched, op, locals, result>>

DropEnd(p) ==
  /\ At(p, "dropping")
  /\ versions' = {v \in versions : v.id # cur[p]}
  /\ Unlock
  /\ AfterDrop(p, TRUE)
  /\ UNCHANGED <<live, journal, world, touched>>

DropFails(p) ==
  /\ At(p, "dropping")
  /\ Spend("faults") /\ Unlock
  /\ AfterDrop(p, FALSE)
  /\ UNCHANGED <<disk, running, clock, touched>>

SnapshotStep(p) ==
  \/ SnapshotUnneeded(p) \/ SnapshotBegin(p) \/ SnapshotRefused(p) \/ SnapshotFails(p)
  \/ Publish(p) \/ PublishRefused(p) \/ PublishFails(p)
  \/ Trim(p) \/ TrimNothing(p) \/ DropBegin(p) \/ DropEnd(p) \/ DropFails(p)

-----------------------------------------------------------------------------
(* remove() and the launch of an emulator (SaveBackups::protectLaunch).    *)

RemoveBegin(p) ==
  /\ At(p, "remove") /\ ~Refused
  /\ \E v \in versions : v.id = op[p].id
  /\ Take(p)
  /\ cur' = [cur EXCEPT ![p] = op[p].id]
  /\ Goto(p, "drop")
  /\ UNCHANGED <<disk, world, touched, op, copies, todo, result>>

RemoveRefused(p) ==
  /\ At(p, "remove")
  /\ Refused \/ \A v \in versions : v.id # op[p].id
  /\ Return(p, "failure")
  /\ UNCHANGED <<disk, lock, world, touched>>

ProtectLaunch(p) ==
  /\ At(p, "launch") /\ ~running
  /\ Continue(p, "snapshot")
  /\ UNCHANGED <<disk, lock, world, touched>>

(* Protection is off, the layout is unknown, or an emulator is running.    *)
SkipProtection(p) ==
  /\ At(p, "launch")
  /\ Continue(p, "spawn")
  /\ UNCHANGED <<disk, lock, world, touched>>

Spawn(p) ==
  /\ At(p, "spawn")
  /\ running' = TRUE
  /\ Return(p, "success")
  /\ UNCHANGED <<disk, lock, clock, budget, touched>>

OtherStep(p) ==
  \/ RemoveBegin(p) \/ RemoveRefused(p)
  \/ ProtectLaunch(p) \/ SkipProtection(p) \/ Spawn(p)

-----------------------------------------------------------------------------
(* restore().                                                              *)

(* The version is found and unpacked, and the live files are collected.    *)
RestoreRead(p) ==
  /\ At(p, "read")
  /\ \E v \in versions :
       /\ v.id = op[p].id /\ v.whole
       /\ after' = [after EXCEPT ![p] = v.data]
  /\ before' = [before EXCEPT ![p] = live]
  /\ touched' = IF Pending THEN touched ELSE {}
  /\ Goto(p, "snapshot")
  /\ UNCHANGED <<disk, lock, world, op, data, todo, cur, result>>

RestoreReadFails(p) ==
  /\ At(p, "read")
  /\ \/ UNCHANGED budget /\ ~\E v \in versions : v.id = op[p].id /\ v.whole
     \/ Spend("faults")
  /\ Return(p, "failure")
  /\ UNCHANGED <<disk, lock, running, clock, touched>>

Prepare(p) ==
  /\ At(p, "prepare") /\ ~Refused
  /\ live = before[p]
  /\ Take(p)
  /\ Goto(p, "stage")
  /\ UNCHANGED <<disk, world, touched, op, locals, result>>

PrepareRefused(p) ==
  /\ At(p, "prepare")
  /\ Refused \/ live # before[p]
  /\ Return(p, "failure")
  /\ UNCHANGED <<disk, lock, world, touched>>

(* The staged journal was read back; a rename publishes it.                *)
Journalize(p) ==
  /\ At(p, "stage") /\ live = before[p] /\ ~running
  /\ journal' = [before |-> before[p], after |-> after[p],
                 committed |-> FALSE, intact |-> TRUE]
  /\ touched' = {}
  /\ todo' = [todo EXCEPT ![p] = Files(journal')]
  /\ Goto(p, "swap")
  /\ UNCHANGED <<live, versions, lock, world, op, copies, cur, result>>

JournalizeRefused(p) ==
  /\ At(p, "stage")
  /\ live # before[p] \/ running
  /\ Unlock
  /\ Return(p, "failure")
  /\ UNCHANGED <<disk, world, touched>>

(* The recovery copies do not fit, or do not read back.                    *)
JournalizeFails(p) ==
  /\ At(p, "stage")
  /\ Spend("faults") /\ Unlock
  /\ Return(p, "failure")
  /\ UNCHANGED <<disk, running, clock, touched>>

SwapCheck(p) ==
  /\ At(p, "swap")
  /\ \E q \in todo[p] :
       ~running /\ live[q] = before[p][q] /\ cur' = [cur EXCEPT ![p] = q]
  /\ Goto(p, "swapApply")
  /\ UNCHANGED <<disk, lock, world, touched, op, copies, todo, result>>

(* Mutant: the lock is still held when recover() is called.                *)
EndSwapLocked(p, r) ==
  /\ UNCHANGED lock
  /\ result' = [result EXCEPT ![p] = r]
  /\ Goto(p, "recover")

(* The swap is given up or completed: the lock is released and recover()   *)
(* follows, to roll back or to clear the journal.                          *)
EndSwap(p, r) ==
  /\ Unlock
  /\ result' = [result EXCEPT ![p] = r]
  /\ Goto(p, "recover")

SwapRefused(p) ==
  /\ At(p, "swap")
  /\ \E q \in todo[p] : running \/ live[q] # before[p][q]
  /\ EndSwap(p, "unswapped")
  /\ UNCHANGED <<disk, world, touched, op, locals>>

SwapApply(p) ==
  /\ At(p, "swapApply")
  /\ live' = [live EXCEPT ![cur[p]] = after[p][cur[p]]]
  /\ todo' = [todo EXCEPT ![p] = @ \ {cur[p]}]
  /\ Goto(p, "swap")
  /\ UNCHANGED <<versions, journal, lock, world, touched, op, copies, cur, result>>

SwapApplyFails(p) ==
  /\ At(p, "swapApply")
  /\ Spend("faults")
  /\ EndSwap(p, "unswapped")
  /\ UNCHANGED <<disk, running, clock, touched, op, locals>>

Commit(p) ==
  /\ At(p, "swap") /\ todo[p] = {}
  /\ journal' = [journal EXCEPT !.committed = TRUE]
  /\ EndSwap(p, "swapped")
  /\ UNCHANGED <<live, versions, world, touched, op, locals>>

(* Mutant: the write of the commit mark is not checked.                    *)
CommitUnchecked(p) ==
  /\ At(p, "swap") /\ todo[p] = {}
  /\ Spend("faults")
  /\ EndSwap(p, "swapped")
  /\ UNCHANGED <<disk, running, clock, touched, op, locals>>

CommitFails(p) ==
  /\ At(p, "swap") /\ todo[p] = {}
  /\ Spend("faults")
  /\ EndSwap(p, "unswapped")
  /\ UNCHANGED <<disk, running, clock, touched, op, locals>>

RestoreStep(p) ==
  \/ RestoreRead(p) \/ RestoreReadFails(p)
  \/ Prepare(p) \/ PrepareRefused(p)
  \/ Journalize(p) \/ JournalizeRefused(p) \/ JournalizeFails(p)
  \/ SwapCheck(p) \/ SwapRefused(p) \/ SwapApply(p) \/ SwapApplyFails(p)
  \/ Commit(p) \/ CommitFails(p)

-----------------------------------------------------------------------------
(* The world around the store.                                             *)

(* A process is killed; the lock file of a dead process is taken over.     *)
Crash(p) ==
  /\ ~At(p, "idle")
  /\ Spend("crashes")
  /\ lock' = IF lock = p THEN Nobody ELSE lock
  /\ Return(p, "none")
  /\ UNCHANGED <<disk, running, clock, touched>>

EmulatorStarts ==
  /\ ~running /\ Spend("starts")
  /\ running' = TRUE
  /\ UNCHANGED <<disk, lock, clock, touched, pc, op, locals, result>>

EmulatorQuits ==
  /\ running
  /\ running' = FALSE
  /\ UNCHANGED <<disk, lock, clock, budget, touched, pc, op, locals, result>>

Watched == Pending \/ \E p \in Procs : op[p].kind = "restore"

(* An emulator, a synchronisation tool or the player writes a save file.   *)
OutsideWrite(q, c) ==
  /\ live[q] # c
  /\ Spend("writes")
  /\ live' = [live EXCEPT ![q] = c]
  /\ touched' = IF Watched THEN touched \cup {q} ELSE touched
  /\ UNCHANGED <<versions, journal, lock, running, clock, pc, op, locals, result>>

Outside == \E q \in Paths, c \in Contents \cup {Absent} : OutsideWrite(q, c)

Ask(p) == Restore(p) \/ Remove(p) \/ Snapshot(p) \/ Launch(p) \/ RetryRecovery(p)
Step(p) == RecoverStep(p) \/ SnapshotStep(p) \/ OtherStep(p) \/ RestoreStep(p)

Next ==
  \/ \E p \in Procs : Ask(p) \/ Step(p) \/ Crash(p)
  \/ EmulatorStarts \/ EmulatorQuits \/ Outside

Spec == Init /\ [][Next]_vars

(* Fairness: an operation that was begun runs on (it is straight code on   *)
(* the application's main thread), the player closes the emulator at some  *)
(* time, and asks again for a recovery as long as it is pending.           *)
Fairness ==
  /\ \A p \in Procs : WF_vars(Step(p)) /\ SF_vars(RetryRecovery(p))
  /\ WF_vars(EmulatorQuits)

FairSpec == Spec /\ Fairness

-----------------------------------------------------------------------------
(* Properties.                                                             *)

(* A restore is all or nothing: when the journal goes away, every file     *)
(* that nothing else wrote meanwhile is on the same side, the new set if   *)
(* the journal was committed and the old one if not, whatever crashes,     *)
(* failures and retries lie between (SaveSetStore::recover).               *)
AllOrNothing ==
  [][Pending /\ journal' = NoJournal =>
       \A q \in Paths \ touched : live'[q] = Target(journal)[q]]_vars

(* The store never changes a save file but under a complete journal that   *)
(* holds the content it replaces, unless that file was written from        *)
(* outside while the restore was under way (SaveSetStore::restore).        *)
StoreWritesJournaled ==
  [][\A q \in Paths : live'[q] # live[q] /\ ~Outside =>
       Pending /\ journal.intact /\ (Settled(q) \/ q \in touched)]_vars

(* The undo copy: when a restore publishes its journal, a complete version *)
(* holds the saves it is about to replace, provided nothing else wrote     *)
(* them since the restore began ("Restoring first protects the current     *)
(* save set", docs/SAVE-SETS.md).                                          *)
UndoKept ==
  [][\A p \in Procs : Journalize(p) /\ touched = {} =>
       \E v \in versions : v.whole /\ v.data = before[p]]_vars

(* What restore() reports is what happened: after a success every file     *)
(* nobody else wrote holds the requested set; after a failure it holds     *)
(* what it held before, or a journal is still pending.                     *)
HonestReport ==
  [][\A p \in Procs :
       op[p].kind = "restore" /\ pc'[p] = "idle" /\ before[p] # after[p] =>
         /\ result'[p] = "success" =>
              \A q \in Paths \ touched : live'[q] = after[p][q]
         /\ result'[p] = "failure" /\ journal' = NoJournal =>
              \A q \in Paths \ touched : live'[q] = before[p][q]]_vars

(* Omakade launches no emulator while a journal is pending (protectLaunch).*)
LaunchPaused == [][\A p \in Procs : Spawn(p) => ~Pending]_vars

(* A complete journal over files nothing else wrote is resolved in the     *)
(* end, or is caught by a failure in the middle of its own deletion.       *)
RecoveryEnds ==
  (Pending /\ journal.intact /\ touched = {})
    ~> (~Pending \/ ~journal.intact \/ touched # {})

-----------------------------------------------------------------------------
(* The refinement of AtomicSaves.  While a journal is pending, the saves   *)
(* are the side it will be resolved to, whatever the files hold, but for   *)
(* those written from outside.                                             *)
View ==
  IF Pending
  THEN [q \in Paths |-> IF q \in touched THEN live[q] ELSE Target(journal)[q]]
  ELSE live

(* The copies a step may still make live: the versions, the two sides of   *)
(* the journal, and what the operations under way have in memory.          *)
HasBefore(p) == pc[p] \in {"stage", "swap", "swapApply"}
HasAfter(p) == /\ pc[p] \notin RecoverLabels \cup {"idle", "read"}
               /\ pc[p] \in RestoreLabels \/ op[p].kind = "restore"
HasData(p) == At(p, "publish")
Held ==
  {v.data : v \in versions}
  \cup (IF Pending THEN {journal.before, journal.after} ELSE {})
  \cup {before[p] : p \in {r \in Procs : HasBefore(r)}}
  \cup {after[p] : p \in {r \in Procs : HasAfter(r)}}
  \cup {data[p] : p \in {r \in Procs : HasData(r)}}

Abstract == INSTANCE AtomicSaves WITH saves <- View, held <- Held, dirty <- touched

(* Every behaviour of the store is one of AtomicSaves.                     *)
ImplementsAtomicSaves == Abstract!Spec

-----------------------------------------------------------------------------
(* What the documentation says and the code does not keep.                 *)

(* docs/SAVE-SETS.md: "Interrupted restores roll back on recovery; a       *)
(* committed journal only needs completion/cleanup".  So a journal no      *)
(* running process is deleting can be read by recover().                   *)
PendingIsRecoverable ==
  Pending /\ ~journal.intact => \E p \in Procs : At(p, "clearing")

=============================================================================
