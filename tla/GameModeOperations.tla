------------------------- MODULE GameModeOperations -------------------------
(* What GameModeController promises to GameModeSession, its only caller:   *)
(* one operation at a time takes the session from one state to another,    *)
(* and may fail, but never leaves it in a state its caller does not expect *)
(* of that operation (gamemode/GameModeController.h, Result, active(),     *)
(* parked()).                                                              *)
VARIABLES
  session,  \* "none", "active" or "parked"
  doing     \* the operation under way, or "none"

Operations == {"Enter", "Park", "Resume", "RefreshParked", "Exit", "Recover"}

(* A session that can neither be kept nor undone stays as it is; a parked  *)
(* one whose games cannot be kept quiet ends.                              *)
Outcomes(op, from) ==
  CASE op = "Enter" /\ from = "none" -> {"none", "active"}
    [] op = "Park" /\ from = "active" -> {"active", "parked", "none"}
    [] op = "Resume" /\ from = "parked" -> {"active", "parked", "none"}
    [] op = "RefreshParked" /\ from = "parked" -> {"parked", "none"}
    [] op = "Exit" -> {from, "none"}
    [] OTHER -> {from}

Init == session = "none" /\ doing = "none"

Begins(op) == doing = "none" /\ doing' = op /\ UNCHANGED session
Ends ==
  /\ doing # "none" /\ doing' = "none"
  /\ session' \in Outcomes(doing, session)
Killed == doing' = "none" /\ session' = "none"

Next == (\E op \in Operations : Begins(op)) \/ Ends \/ Killed
Spec == Init /\ [][Next]_<<session, doing>>
=============================================================================
