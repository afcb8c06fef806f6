----------------------------- MODULE GuidePause -----------------------------
(***************************************************************************)
(* The pause of a game while the in-game guide is open.  Omakade           *)
(* (InGameGuide) starts a guard, a process of its own (guide/guard.cpp),   *)
(* which stops the game's processes with GuidePause::stop and resumes them *)
(* when its input ends, be it because the guide closed or because Omakade  *)
(* was killed.  Each process is first reported to Omakade, which pins it   *)
(* and answers; when the guard dies, Omakade resumes what it has pinned.   *)
(***************************************************************************)
EXTENDS Integers, Sequences, FiniteSets

CONSTANTS LastProc,  \* bound: processes the game may fork
          Guards,    \* guard processes, one for each time the guide pauses
          Rounds,    \* rounds of stop() before it gives up (32)
          MaxStops,  \* bound: processes the player stops
          NoGuard

ASSUME ConstantsAssumption ==
  /\ LastProc \in Nat /\ NoGuard \notin Guards
  /\ Rounds \in Nat \ {0} /\ MaxStops \in Nat

(* Process numbers in the order of the forks; the game's own is the first, *)
(* and orphans belong to init.                                             *)
Procs == 0 .. LastProc
Root == 0
Init1 == -1
NoProc == -1

VARIABLES
  proc,    \* per process: state (as in /proc, "stopping" before a STOP takes effect) and parent
  user,    \* history: processes the player stopped, before or after Omakade or a guard
           \* looked at them, and those that a killed guard left stopped
  guard,   \* per guard: program counter, GuidePause, its input and output pipes
  owner,   \* InGameGuide
  crashes  \* bound: Omakade or a guard killed

pauseVars == <<proc, user, guard, owner, crashes>>

Exists(p) == proc[p].state \notin {"none", "gone"}
Alive(p) == proc[p].state \in {"run", "stopping", "stopped"}
ReliedOn(g) == owner.alive /\ owner.guard = g
Runs(g) == guard[g].pc \notin {"off", "ended"}

IdleGuard == [pc |-> "off", owned |-> {}, round |-> 0, todo |-> {}, target |-> NoProc,
              added |-> FALSE, in |-> <<>>, eof |-> FALSE, out |-> <<>>]

PauseInit ==
  /\ proc = [p \in Procs |-> [state |-> IF p = Root THEN "run" ELSE "none", parent |-> Init1]]
  /\ user = [before |-> {}, after |-> {}, left |-> {}]
  /\ guard = [g \in Guards |-> IdleGuard]
  /\ owner = [alive |-> TRUE, open |-> FALSE, wants |-> TRUE, guard |-> NoGuard, paused |-> FALSE, tree |-> {}]
  /\ crashes = 0

(* SIGCONT and SIGSTOP through a pidfd.                                    *)
Continued(S) ==
  [p \in Procs |-> IF p \in S /\ proc[p].state \in {"stopping", "stopped"}
                   THEN [proc[p] EXCEPT !.state = "run"] ELSE proc[p]]

-----------------------------------------------------------------------------
(* The game, and the player at a terminal.                                 *)

Fork(p) ==
  /\ proc[p].state \in {"run", "stopping"}
  /\ \E q \in Procs : /\ \A r \in Procs : proc[r].state = "none" <=> r >= q
                     /\ proc' = [proc EXCEPT ![q] = [state |-> "run", parent |-> p]]
  /\ UNCHANGED <<user, guard, owner, crashes>>

StopTakes(p) ==
  /\ proc[p].state = "stopping"
  /\ proc' = [proc EXCEPT ![p].state = "stopped"]
  /\ UNCHANGED <<user, guard, owner, crashes>>

(* A process ends; it stays a zombie while a parent has to collect it, and *)
(* its children go to init.                                                *)
Exit(p) ==
  /\ Alive(p)
  /\ proc' = [q \in Procs |->
       IF q = p THEN [proc[p] EXCEPT !.state = IF proc[p].parent = Init1 THEN "gone" ELSE "zombie"]
       ELSE IF proc[q].parent = p
       THEN [state |-> IF proc[q].state = "zombie" THEN "gone" ELSE proc[q].state, parent |-> Init1]
       ELSE proc[q]]
  /\ UNCHANGED <<user, guard, owner, crashes>>

Collect(p) ==
  /\ proc[p].state = "zombie" /\ proc[proc[p].parent].state \in {"run", "stopping"}
  /\ proc' = [proc EXCEPT ![p].state = "gone"]
  /\ UNCHANGED <<user, guard, owner, crashes>>

(* A guard has seen p run, or Omakade was told so: between the look and    *)
(* the STOP lies the answer to the pin, and after it, until both have let  *)
(* go of p, a STOP by the player's hand cannot be told from the guard's.   *)
LookedAt(p) ==
  \/ p \in owner.tree
  \/ \E g \in Guards :
       \/ p \in guard[g].owned
       \/ p = guard[g].target /\ guard[g].pc \in {"pin", "stop"}
       \/ \E i \in DOMAIN guard[g].out : guard[g].out[i] = [kind |-> "pin", proc |-> p]

(* The player stops a process, at any moment.                              *)
PlayerStops(p) ==
  /\ proc[p].state = "run" /\ Cardinality(user.before \cup user.after) < MaxStops
  /\ proc' = [proc EXCEPT ![p].state = "stopped"]
  /\ user' = IF LookedAt(p) THEN [user EXCEPT !.after = @ \cup {p}] ELSE [user EXCEPT !.before = @ \cup {p}]
  /\ UNCHANGED <<guard, owner, crashes>>

-----------------------------------------------------------------------------
(* The guard.                                                              *)

Say(g, ok) == Append(guard[g].out, [kind |-> IF ok THEN "ok" ELSE "failed"])

(* stop() gives up, and main() answers.                                    *)
Fails(g) ==
  /\ proc' = Continued(guard[g].owned)
  /\ guard' = [guard EXCEPT ![g] = [IdleGuard EXCEPT !.pc = "idle", !.in = guard[g].in, !.eof = guard[g].eof,
                                                     !.out = Say(g, FALSE)]]

(* A request: a pause, or an answer to a pin that came too late.           *)
Request(g) ==
  /\ guard[g].pc = "idle" /\ guard[g].in /= <<>>
  /\ IF Head(guard[g].in) = "pause"
     THEN /\ proc' = Continued(guard[g].owned)
          /\ guard' = [guard EXCEPT ![g].in = Tail(@), ![g].owned = {}, ![g].pc = "anr"]
     ELSE /\ proc' = proc
          /\ guard' = [guard EXCEPT ![g].in = Tail(@), ![g].out = Say(g, FALSE)]
  /\ UNCHANGED <<user, owner, crashes>>

(* Hyprland's dialog is suppressed, or not; then stop() begins.            *)
Begin(g) ==
  /\ guard[g].pc = "anr"
  /\ \/ Fails(g)
     \/ /\ Alive(Root)
        /\ guard' = [guard EXCEPT ![g].pc = "add", ![g].target = Root, ![g].round = 0]
        /\ proc' = proc
  /\ UNCHANGED <<user, owner, crashes>>

(* add(): not a process that is stopped already or ended; the others are   *)
(* reported before they are stopped.                                       *)
AddableStopped(p) == proc[p].state \in {"run", "stopping", "stopped"}  \* mutant
Addable(p) == proc[p].state \in {"run", "stopping"}

Add(g) ==
  LET p == guard[g].target
  IN  /\ guard[g].pc = "add"
      /\ IF Addable(p)
         THEN /\ guard' = [guard EXCEPT ![g].pc = "pin", ![g].out = Append(@, [kind |-> "pin", proc |-> p])]
              /\ proc' = proc
         ELSE Fails(g)
      /\ UNCHANGED <<user, owner, crashes>>

(* The answer, the end of the input, or no answer within the time.         *)
Pinned(g) ==
  /\ guard[g].pc = "pin"
  /\ IF guard[g].in /= <<>>
     THEN /\ guard' = [guard EXCEPT ![g].in = Tail(@), ![g].pc = "stop"]
          /\ proc' = proc
     ELSE Fails(g)
  /\ UNCHANGED <<user, owner, crashes>>

Stop(g) ==
  LET p == guard[g].target
  IN  /\ guard[g].pc = "stop"
      /\ IF Exists(p)
         THEN /\ proc' = [proc EXCEPT ![p].state = IF @ = "run" THEN "stopping" ELSE @]
              /\ guard' = [guard EXCEPT ![g].owned = @ \cup {p},
                                        ![g].target = NoProc, ![g].added = TRUE,
                                        ![g].pc = IF p = Root THEN "settle" ELSE "visit"]
         ELSE Fails(g)
      /\ UNCHANGED <<user, owner, crashes>>

NotWaitedFor(g) == TRUE  \* mutant
SeenStopped(g) == \A p \in guard[g].owned : proc[p].state \in {"stopped", "gone"}

(* The next round, after a pause or with new processes; or no round left.  *)
NextRound(g) ==
  IF guard[g].round + 1 = Rounds THEN Fails(g)
  ELSE guard' = [guard EXCEPT ![g].round = @ + 1, ![g].pc = "settle"] /\ proc' = proc

(* Once everything stopped so far is seen stopped, /proc is listed.        *)
Settle(g) ==
  /\ guard[g].pc = "settle"
  /\ IF SeenStopped(g)
     THEN /\ guard' = [guard EXCEPT ![g].pc = "visit", ![g].added = FALSE,
                                    ![g].todo = {p \in Procs : Exists(p)} \ guard[g].owned]
          /\ proc' = proc
     ELSE NextRound(g)
  /\ UNCHANGED <<user, owner, crashes>>

(* The listed processes in any order: children of owned ones are added.    *)
Visit(g) ==
  /\ guard[g].pc = "visit"
  /\ \E p \in guard[g].todo :
       guard' = [guard EXCEPT ![g].todo = @ \ {p},
                              ![g].target = IF Exists(p) /\ proc[p].parent \in guard[g].owned THEN p ELSE @,
                              ![g].pc = IF Exists(p) /\ proc[p].parent \in guard[g].owned THEN "add" ELSE @]
  /\ UNCHANGED <<proc, user, owner, crashes>>

Visited(g) ==
  /\ guard[g].pc = "visit" /\ guard[g].todo = {}
  /\ IF guard[g].added THEN NextRound(g)
     ELSE guard' = [guard EXCEPT ![g].pc = "idle", ![g].out = Say(g, TRUE)] /\ proc' = proc
  /\ UNCHANGED <<user, owner, crashes>>

(* The end of the input, also when Omakade was killed.                     *)
EofJustEnds(g) ==  \* mutant
  /\ guard[g].pc = "idle" /\ guard[g].in = <<>> /\ guard[g].eof
  /\ guard' = [guard EXCEPT ![g].owned = {}, ![g].pc = "release"]
  /\ UNCHANGED <<proc, user, owner, crashes>>

Eof(g) ==
  /\ guard[g].pc = "idle" /\ guard[g].in = <<>> /\ guard[g].eof
  /\ proc' = Continued(guard[g].owned)
  /\ guard' = [guard EXCEPT ![g].owned = {}, ![g].pc = "release"]
  /\ UNCHANGED <<user, owner, crashes>>

(* The guard ends by itself, or Omakade kills one that hangs in hyprctl,   *)
(* the only place where it waits for longer than a moment once its input   *)
(* has ended.                                                              *)
End(g) ==
  /\ guard[g].pc = "release" \/ (guard[g].pc = "anr" /\ guard[g].eof)
  /\ guard' = [guard EXCEPT ![g] = [IdleGuard EXCEPT !.pc = "ended", !.out = guard[g].out]]
  /\ UNCHANGED <<proc, user, owner, crashes>>

(* A guard is killed.  Of one that Omakade has let go of nobody resumes    *)
(* what it stopped since (on an answer to a pin that was still in the pipe *)
(* when stopGuard() resumed what was pinned).                              *)
GuardDies(g) ==
  /\ Runs(g) /\ crashes = 0
  /\ guard' = [guard EXCEPT ![g] = [IdleGuard EXCEPT !.pc = "ended", !.out = guard[g].out]]
  /\ user' = [user EXCEPT !.left = {p \in guard[g].owned : ~ReliedOn(g) /\ proc[p].state \in {"stopping", "stopped"}}]
  /\ crashes' = 1
  /\ UNCHANGED <<proc, owner>>

-----------------------------------------------------------------------------
(* Omakade.                                                                *)

(* stopGuard(): resume what is pinned, and end the guard's input.          *)
StopGuard(next) ==
  /\ proc' = Continued(owner.tree)
  /\ owner' = [next EXCEPT !.guard = NoGuard, !.paused = FALSE, !.tree = {}]
  /\ guard' = [g \in Guards |-> IF g = owner.guard THEN [guard[g] EXCEPT !.eof = TRUE] ELSE guard[g]]

Failed == StopGuard([owner EXCEPT !.wants = FALSE])

(* toggle(): the guide opens, and pauses the game if it is to.             *)
Open ==
  /\ owner.alive /\ ~owner.open
  /\ IF ~owner.wants \/ owner.guard /= NoGuard
     THEN owner' = [owner EXCEPT !.open = TRUE] /\ guard' = guard
     ELSE IF ~Alive(Root)
     THEN owner' = [owner EXCEPT !.open = TRUE, !.wants = FALSE] /\ guard' = guard
     ELSE \E g \in Guards :
            /\ guard[g].pc = "off"
            /\ owner' = [owner EXCEPT !.open = TRUE, !.guard = g]
            /\ guard' = [guard EXCEPT ![g].pc = "starting"]
  /\ UNCHANGED <<proc, user, crashes>>

(* The guard has started: it is asked to pause, or its input is ended.  Or *)
(* it cannot be started.                                                   *)
Started(g) ==
  /\ guard[g].pc = "starting"
  /\ \/ guard' = [guard EXCEPT ![g].pc = "idle", ![g].in = IF ReliedOn(g) THEN <<"pause">> ELSE <<>>,
                               ![g].eof = ~ReliedOn(g)]
     \/ guard' = [guard EXCEPT ![g].pc = "ended"]
  /\ UNCHANGED <<proc, user, owner, crashes>>

(* A line of the guard's output; an earlier guard's is ignored.            *)
Hear(g) ==
  /\ owner.alive /\ guard[g].out /= <<>>
  /\ LET said == Head(guard[g].out)
         rest == [guard EXCEPT ![g].out = Tail(@)]
         pins == IF said.kind = "pin" THEN owner.tree \cup {said.proc} ELSE {}
     IN  \/ /\ ~ReliedOn(g)
            /\ guard' = rest
            /\ UNCHANGED <<proc, owner>>
         \/ /\ ReliedOn(g) /\ said.kind = "pin" /\ \A p \in pins : Alive(p)
            /\ owner' = [owner EXCEPT !.tree = pins]
            /\ guard' = [rest EXCEPT ![g].in = IF Runs(g) THEN Append(@, "pin-ok") ELSE @]
            /\ proc' = proc
         \/ /\ ReliedOn(g) /\ said.kind = "ok"
            /\ owner' = [owner EXCEPT !.paused = TRUE]
            /\ guard' = rest
            /\ proc' = proc
         \/ /\ ReliedOn(g) /\ (said.kind = "failed" \/ \E p \in pins : ~Alive(p))
            /\ proc' = Continued(owner.tree)
            /\ owner' = [owner EXCEPT !.wants = FALSE, !.guard = NoGuard, !.paused = FALSE, !.tree = {}]
            /\ guard' = [rest EXCEPT ![g].eof = TRUE]
  /\ UNCHANGED <<user, crashes>>

(* The guard has ended though nobody told it to; a guide that was paused   *)
(* closes with it.                                                         *)
Finished(g) ==
  /\ ReliedOn(g) /\ guard[g].pc = "ended" /\ guard[g].out = <<>>
  /\ StopGuard([owner EXCEPT !.wants = FALSE, !.open = @ /\ ~owner.paused])
  /\ UNCHANGED <<user, crashes>>

(* The pause takes longer than 2.5 s.                                      *)
TooLong ==
  /\ owner.alive /\ owner.guard /= NoGuard /\ ~owner.paused
  /\ Failed
  /\ UNCHANGED <<user, crashes>>

(* close(), and poll() finding that the game has ended.                    *)
Close ==
  /\ owner.alive /\ owner.open
  /\ StopGuard([owner EXCEPT !.open = FALSE])
  /\ UNCHANGED <<user, crashes>>

GameEnded ==
  /\ owner.alive /\ owner.open /\ owner.wants /\ ~Alive(Root)
  /\ Failed
  /\ UNCHANGED <<user, crashes>>

(* Omakade is killed: every pipe it held ends.                             *)
OwnerDies ==
  /\ owner.alive /\ crashes = 0
  /\ owner' = [alive |-> FALSE, open |-> FALSE, wants |-> FALSE, guard |-> NoGuard, paused |-> FALSE, tree |-> {}]
  /\ guard' = [g \in Guards |-> [guard[g] EXCEPT !.eof = TRUE, !.out = <<>>]]
  /\ crashes' = 1
  /\ UNCHANGED <<proc, user>>

Game ==
  \/ \E p \in Procs : Fork(p) \/ StopTakes(p) \/ Exit(p) \/ Collect(p) \/ PlayerStops(p)

Works(g) ==
  \/ Request(g) \/ Begin(g) \/ Add(g) \/ Pinned(g) \/ Stop(g) \/ Settle(g)
  \/ Visit(g) \/ Visited(g) \/ Eof(g) \/ End(g) \/ Started(g)

PauseNext ==
  \/ Game
  \/ \E g \in Guards : Works(g) \/ GuardDies(g) \/ Hear(g) \/ Finished(g)
  \/ Open \/ TooLong \/ Close \/ GameEnded \/ OwnerDies

(* Guards and Omakade's handlers run when they can; a guide need not be    *)
(* opened or closed, and nothing has to fork, end or die.                  *)
PauseFairness ==
  /\ \A g \in Guards : WF_pauseVars(Works(g)) /\ WF_pauseVars(Hear(g)) /\ WF_pauseVars(Finished(g))
  /\ WF_pauseVars(TooLong)

PauseSpec == PauseInit /\ [][PauseNext]_pauseVars /\ PauseFairness

-----------------------------------------------------------------------------
(* While the card says paused, nothing Omakade has pinned runs, and no     *)
(* child of it does, forked at whatever moment (GuidePause.cpp:52-72).     *)
PausedIsFrozen ==
  owner.paused => \A p \in Procs : p \in owner.tree \/ proc[p].parent \in owner.tree
                                  => proc[p].state \notin {"run", "stopping"}

(* A process the player had stopped before a guard looked at it is never   *)
(* resumed (GuidePause.cpp:40).                                            *)
PlayersStopStays == \A p \in user.before : proc[p].state \notin {"run", "stopping"}

(* Nor is one the player stops later: false, when it is between the look   *)
(* at GuidePause.cpp:39-41 and the STOP at 42, or before both processes    *)
(* have resumed what they had stopped.                                     *)
StoppedIsNotOurs == \A p \in user.before \cup user.after : proc[p].state \notin {"run", "stopping"}

(* When the guide does not pause the game (any more), for whatever reason, *)
(* everything it stopped runs again, also if Omakade or a guard is killed, *)
(* whenever that is: but for what a guard that Omakade had let go of had   *)
(* stopped when it was killed.                                             *)
Unpaused == owner.guard = NoGuard
RunsAgain ==
  \A p \in Procs \ (user.before \cup user.after \cup user.left) : proc[p].state \notin {"stopping", "stopped"}
ResumedAtLast == Unpaused ~> (RunsAgain \/ ~Unpaused)
=============================================================================
