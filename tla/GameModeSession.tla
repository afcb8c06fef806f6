--------------------------- MODULE GameModeSession ---------------------------
(* The Game Mode session on the GUI thread: requests of the player become   *)
(* one operation of the controller at a time, on a worker, and what is      *)
(* asked meanwhile is remembered or dropped (gamemode/GameModeSession.cpp). *)
(* A worker that ended is told of by a queued event, so the GUI thread may  *)
(* take other requests in between.                                          *)
EXTENDS FiniteSets

VARIABLES
  gui,      \* the members of GameModeSession
  change,   \* m_changeWatcher's worker
  refresh,  \* m_refreshWatcher's worker, and whether it runs recover()
  focus,    \* m_focusFuture: a worker that asks the controller for a game
  session,  \* the controller's own session
  asked     \* history: requests that nothing has been done about yet

sessionVars == <<gui, change, refresh, focus, session, asked>>

(* The controller, which runs the change under way.                         *)
Controller == INSTANCE GameModeOperations WITH
                doing <- IF change = "runs" THEN gui.change ELSE "none"

SessionInit ==
  /\ gui = [active |-> FALSE, parked |-> FALSE, busy |-> FALSE, change |-> "Enter",
            changePending |-> FALSE, refreshPending |-> FALSE, resumeAfter |-> FALSE,
            exitAfter |-> FALSE, checked |-> FALSE, down |-> FALSE]
  /\ change = "none" /\ refresh = [at |-> "none", recover |-> FALSE] /\ focus = FALSE
  /\ session = "none" /\ asked = {}

HasSession(g) == g.active \/ g.parked
ChangeRuns == change \in {"waits", "runs"}
RefreshRuns == refresh.at = "runs"

---------------------------------------------------------------------------
StartChangeAtOnce(g) ==  \* mutant: without waiting for the reading under way
  /\ gui' = [g EXCEPT !.changePending = FALSE]
  /\ change' = "waits"
(* startChange(): after the reading of the devices, which may be recovering.*)
StartChange(g) ==
  /\ gui' = [g EXCEPT !.changePending = RefreshRuns]
  /\ change' = IF RefreshRuns THEN change ELSE "waits"
(* refresh()                                                                *)
StartRefresh(g) ==
  IF RefreshRuns \/ ChangeRuns
  THEN gui' = [g EXCEPT !.refreshPending = TRUE] /\ UNCHANGED refresh
  ELSE /\ gui' = [g EXCEPT !.refreshPending = FALSE, !.checked = TRUE]
       /\ refresh' = [at |-> "runs", recover |-> ~g.checked]

(* A request while the session is busy, and one that is taken up.           *)
Busy(g, requests) ==
  gui' = g /\ asked' = asked \cup requests /\ UNCHANGED <<change, refresh, focus, session>>
Takes(op, served) ==
  /\ StartChange([gui EXCEPT !.busy = TRUE, !.change = op])
  /\ asked' = asked \ served
  /\ UNCHANGED <<refresh, focus, session>>

Start ==  \* enter(), and toggle() of a session that is not active
  /\ ~gui.down
  /\ \/ /\ gui.busy /\ gui.change = "RefreshParked"
        /\ Busy([gui EXCEPT !.resumeAfter = TRUE], {"resume"})
     \/ /\ ~gui.busy /\ ~gui.active
        /\ Takes(IF gui.parked THEN "Resume" ELSE "Enter", {"resume"})
EndAfterStart ==  \* mutant: remembered for a start that is under way only
  /\ ~gui.down
  /\ \/ /\ gui.busy /\ gui.change # "Exit"
        /\ Busy([gui EXCEPT !.exitAfter = @ \/ gui.change = "Enter"], {"exit"})
     \/ ~gui.busy /\ HasSession(gui) /\ Takes("Exit", {"exit", "resume"})
EndSession ==  \* exit()
  /\ ~gui.down
  /\ \/ /\ gui.busy /\ gui.change # "Exit"
        /\ Busy([gui EXCEPT !.exitAfter = TRUE], {"exit"})
     \/ ~gui.busy /\ HasSession(gui) /\ Takes("Exit", {"exit", "resume"})
Park == ~gui.down /\ ~gui.busy /\ gui.active /\ Takes("Park", {})
ParkTimer == ~gui.down /\ ~gui.busy /\ gui.parked /\ Takes("RefreshParked", {})
Refresh ==
  /\ ~gui.down /\ StartRefresh(gui)
  /\ UNCHANGED <<change, focus, session, asked>>
FocusGame ==
  /\ ~gui.down /\ ~gui.busy /\ gui.active /\ ~focus /\ focus' = TRUE
  /\ UNCHANGED <<gui, change, refresh, session, asked>>

---------------------------------------------------------------------------
(* The workers.  A change first waits for the focus asked for before it.    *)
ChangeBegins ==
  /\ change = "waits" /\ ~focus /\ change' = "runs"
  /\ UNCHANGED <<gui, refresh, focus, session, asked>>
ChangeEnds ==
  /\ change = "runs" /\ change' = "ended"
  /\ session' \in Controller!Outcomes(gui.change, session)
  /\ UNCHANGED <<gui, refresh, focus, asked>>
RefreshEnds ==
  /\ RefreshRuns /\ refresh' = [refresh EXCEPT !.at = "ended"]
  /\ UNCHANGED <<gui, change, focus, session, asked>>
FocusEnds == focus /\ focus' = FALSE /\ UNCHANGED <<gui, change, refresh, session, asked>>

(* finishRefresh()                                                          *)
FinishRefresh ==
  /\ refresh.at = "ended" /\ ~gui.down
  /\ IF gui.changePending
     THEN /\ gui' = [gui EXCEPT !.changePending = FALSE] /\ change' = "waits"
          /\ refresh' = [refresh EXCEPT !.at = "none"]
     ELSE /\ UNCHANGED change
          /\ IF ~gui.refreshPending THEN UNCHANGED gui /\ refresh' = [refresh EXCEPT !.at = "none"]
             ELSE IF ChangeRuns
             THEN UNCHANGED gui /\ refresh' = [refresh EXCEPT !.at = "none"]
             ELSE StartRefresh(gui)
  /\ UNCHANGED <<focus, session, asked>>

(* finishChange(): an end asked for meanwhile first, else a resume that was *)
(* asked for during a scan, else the devices again.                         *)
Told == [gui EXCEPT !.active = session = "active", !.parked = session = "parked",
                    !.busy = FALSE, !.resumeAfter = FALSE, !.exitAfter = FALSE]
Again(op) ==
  /\ gui' = [Told EXCEPT !.busy = TRUE, !.change = op, !.changePending = RefreshRuns]
  /\ change' = IF RefreshRuns THEN "none" ELSE "waits"
  /\ UNCHANGED refresh
AtRest ==
  /\ change' = "none"
  /\ asked' = IF HasSession(Told) THEN asked ELSE {}
  /\ IF gui.change = "RefreshParked" THEN gui' = Told /\ UNCHANGED refresh
     ELSE IF RefreshRuns THEN gui' = [Told EXCEPT !.refreshPending = TRUE] /\ UNCHANGED refresh
     ELSE /\ gui' = [Told EXCEPT !.refreshPending = FALSE, !.checked = TRUE]
          /\ refresh' = [at |-> "runs", recover |-> ~gui.checked]
FinishChange ==
  /\ change = "ended" /\ ~gui.down
  /\ IF gui.exitAfter /\ HasSession(Told) THEN Again("Exit") /\ asked' = {}
     ELSE IF gui.resumeAfter /\ Told.parked THEN Again("Resume") /\ asked' = asked \ {"resume"}
     ELSE AtRest
  /\ UNCHANGED <<focus, session>>

(* shutdown(): when every worker is done, what the controller still has is  *)
(* ended on a worker, whatever the GUI thread had been told of it.          *)
Shutdown ==
  /\ ~gui.down
  /\ gui' = [gui EXCEPT !.down = TRUE, !.busy = TRUE] /\ asked' = {}
  /\ UNCHANGED <<change, refresh, focus, session>>
Leave ==
  /\ gui.down /\ gui.busy /\ ~ChangeRuns /\ ~RefreshRuns /\ ~focus
  /\ session' \in Controller!Outcomes("Exit", session)
  /\ gui' = [gui EXCEPT !.active = FALSE, !.parked = FALSE, !.busy = FALSE]
  /\ UNCHANGED <<change, refresh, focus, asked>>

SessionNext ==
  \/ Start \/ EndSession \/ Park \/ ParkTimer \/ Refresh \/ FocusGame \/ Shutdown \/ Leave
  \/ ChangeBegins \/ ChangeEnds \/ RefreshEnds \/ FocusEnds \/ FinishRefresh \/ FinishChange

SessionSpec == SessionInit /\ [][SessionNext]_sessionVars

(* Every call of the controller is bounded (gamemode/GameModeController.h:  *)
(* "synchronous and bounded"), and Qt delivers the event that it ended.  A  *)
(* reading of the devices that starts before that event is delivered drops  *)
(* it; what asks for one, a settings page or a panel that opens, does not   *)
(* do so in every such gap for ever.                                        *)
SessionFairness ==
  /\ WF_sessionVars(ChangeBegins) /\ WF_sessionVars(ChangeEnds) /\ WF_sessionVars(RefreshEnds)
  /\ WF_sessionVars(FocusEnds) /\ SF_sessionVars(FinishRefresh) /\ WF_sessionVars(FinishChange)

---------------------------------------------------------------------------
(* The controller has no lock of its own: a change runs neither beside the  *)
(* recovery at the start nor beside the focusing of a game, and what the    *)
(* GUI thread shows is the controller's own state when it is idle.          *)
OneUser ==
  /\ ~(change = "runs" /\ (focus \/ (RefreshRuns /\ refresh.recover)))
  /\ ~gui.busy /\ ~gui.down => gui.active = (session = "active") /\ gui.parked = (session = "parked")

(* An end asked for while another change is under way, and a resume asked   *)
(* for during a scan, are taken up as soon as it is over.                   *)
RequestsServed == \A r \in {"exit", "resume"} : r \in asked ~> r \notin asked
=============================================================================
