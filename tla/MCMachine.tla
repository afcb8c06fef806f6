----------------------------- MODULE MCMachine -----------------------------
(* What the application does to the machine under it: the journal's file,   *)
(* the restore of a backup over the journal's operations, the windows a     *)
(* launch holds, and the processes of the games it stops.  They share no    *)
(* state, for BackupRecovery takes the journal as a set of operations: one  *)
(* run checks them, one at a time.                                          *)
EXTENDS SessionJournal, BackupRecovery, LaunchHold, MCStopper

VARIABLE subject
machineVars == <<journalVars, recoveryVars, holdVars, stopperVars, subject>>

MachineInit ==
  /\ JournalInit /\ RecoveryInit /\ HoldInit /\ StopperInit
  /\ subject \in {"journal", "recovery", "hold", "stop"}
  /\ subject # "recovery" => settings = "mine"
  /\ subject # "stop" => may.stops = 1

MachineNext ==
  \/ subject = "journal" /\ JournalNext /\ UNCHANGED <<recoveryVars, holdVars, stopperVars, subject>>
  \/ subject = "recovery" /\ RecoveryNext /\ UNCHANGED <<journalVars, holdVars, stopperVars, subject>>
  \/ subject = "hold" /\ HoldNext /\ UNCHANGED <<journalVars, recoveryVars, stopperVars, subject>>
  \/ subject = "stop" /\ StopperNext /\ UNCHANGED <<journalVars, recoveryVars, holdVars, subject>>

MachineSpec == MachineInit /\ [][MachineNext]_machineVars
=============================================================================
