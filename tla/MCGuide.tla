------------------------------ MODULE MCGuide ------------------------------
(* The guide button's service and the pause of a game share no state: they *)
(* are two processes that meet only in what the player does.  One run      *)
(* checks both, one at a time.                                             *)
EXTENDS GuideListener, GuidePause

(* A queue that takes two presses, and one that a press can overflow.      *)
Queues == [d \in Devices |-> IF d = Pad THEN 4 ELSE 2]

VARIABLE subject
guideVars == <<listenerVars, pauseVars, subject>>

GuideInit == ListenerInit /\ PauseInit /\ subject \in {"button", "pause"}

GuideNext ==
  \/ subject = "button" /\ ListenerNext /\ UNCHANGED <<pauseVars, subject>>
  \/ subject = "pause" /\ PauseNext /\ UNCHANGED <<listenerVars, subject>>

GuideSpec == GuideInit /\ [][GuideNext]_guideVars /\ PauseFairness
=============================================================================
