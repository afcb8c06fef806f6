------------------------------- MODULE MCLive -------------------------------
(* What the player waits for: the recovery of his saves, his requests to   *)
(* the Game Mode session, the screen of a game that starts, and his clips. *)
(* They share no state, so one run checks them, one at a time.             *)
EXTENDS MCSaveSetStore, GameModeSession, LaunchHold, MCHighlights

VARIABLE subject
liveVars == <<vars, sessionVars, holdVars, highlightsVars, subject>>

LiveInit ==
  /\ Init /\ SessionInit /\ HoldInit /\ HighlightsInit
  /\ subject \in {"saves", "session", "hold", "highlights"}
  /\ subject # "saves" => live = EmptySet

LiveNext ==
  \/ subject = "saves" /\ Next /\ UNCHANGED <<sessionVars, holdVars, highlightsVars, subject>>
  \/ subject = "session" /\ SessionNext /\ UNCHANGED <<vars, holdVars, highlightsVars, subject>>
  \/ subject = "hold" /\ HoldNext /\ UNCHANGED <<vars, sessionVars, highlightsVars, subject>>
  \/ subject = "highlights" /\ HighlightsNext /\ UNCHANGED <<vars, sessionVars, holdVars, subject>>

LiveSpec ==
  /\ LiveInit /\ [][LiveNext]_liveVars
  /\ Fairness /\ SessionFairness /\ HoldFairness /\ HighlightsFairness
=============================================================================
