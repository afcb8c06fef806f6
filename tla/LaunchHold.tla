----------------------------- MODULE LaunchHold -----------------------------
(***************************************************************************)
(* The hold of a launcher's windows while a game starts in Game Mode       *)
(* (src/src/gamemode/LaunchHold.cpp), between the player, the compositor   *)
(* and the controller that puts windows back when Game Mode is left        *)
(* (GameModeController::endLaunchHold).                                    *)
(*                                                                         *)
(* The hold lives on the main thread.  It has two workers: one lists the   *)
(* held windows ("scan"), one makes calls to the compositor ("calls").     *)
(* Their results, the timers and the player come in any order.  The        *)
(* controller has a worker of its own ("mode", "leaving").                 *)
(***************************************************************************)
EXTENDS Integers, Sequences, FiniteSets

CONSTANTS
  Windows,      \* window addresses; one is not given out twice
  NoWindow,
  MaxLaunches,  \* bound on launches
  MaxEvents     \* bound on the runs of the launch process Steam starts, the
                \* calls that fail in the compositor and the leaves of Game Mode

ASSUME WindowAssumption == NoWindow \notin Windows
ASSUME HoldBoundsAssumption == MaxLaunches \in Nat \ {0} /\ MaxEvents \in Nat

VARIABLES
  hold,     \* the members of LaunchHold
  scan,     \* m_scanWatcher: the listing under way or not yet read
  calls,    \* m_actionWatcher: the calls its worker has still to make
  window,   \* each window: whether it is open, whose it is, where it is
  rule,     \* the compositor's rule that holds new windows
  steam,    \* the process of the current launch runs under Steam
  mode,     \* "in" Game Mode, "leaving" it, or "out"
  eventsLeft \* how many such events there may still be

holdVars == <<hold, scan, calls, window, rule, steam, mode, eventsLeft>>

-----------------------------------------------------------------------------
Event == eventsLeft > 0 /\ eventsLeft' = eventsLeft - 1

OpenNow == {w \in Windows : window[w].is = "open"}
HeldNow == {w \in OpenNow : window[w].held}

(* The main thread waits for both workers (waitForFinished).               *)
WorkersIdle == scan.at # "running" /\ calls = <<>>

(* The main thread is free: it waits within neither release() nor begin(). *)
MainFree == hold.owed = <<>> /\ ~hold.again

Inactive(h) ==
  [h EXCEPT !.active = FALSE, !.windows = {}, !.presented = NoWindow,
            !.timeout = FALSE, !.grace = FALSE]

(* Calls of the worker: the rule goes off, a window is held or shown, what *)
(* is held is released except for what earlier launches left.              *)
Unrule == [call |-> "unrule", arg |-> {}]
Hide(w) == [call |-> "hide", arg |-> {w}]
Show(w) == [call |-> "show", arg |-> {w}]
ShowAllBut(ws) == [call |-> "showAllBut", arg |-> ws]
HideIfAny(w) == IF w = NoWindow THEN <<>> ELSE <<Hide(w)>>

(* release(): the hold is over.  The main thread then waits for the workers *)
(* and starts one on what is left to do ("owed").  Of a hold that found its *)
(* game, or lost it, the windows stay hidden until Game Mode ends.          *)
PresentedOver(h, game, ending) ==
  IF ending = "GameShown" /\ h.presented # game THEN h.presented ELSE NoWindow

Kept(h, game, ending) ==
  IF ending = "Cancelled" THEN h.kept
  ELSE h.kept \cup ((h.windows \cup {PresentedOver(h, game, ending)}) \ {game, NoWindow})

Ended(h, game, ending) == [Inactive(h) EXCEPT !.kept = Kept(h, game, ending), !.ending = ending]

(* Mutant: the calls of a cancelled hold go by the windows it has listed.  *)
CallsByTheList(h, game, ending) ==
  IF ending = "Cancelled" THEN <<Unrule, ShowAllBut(Windows \ h.windows)>> ELSE <<Unrule, Show(game)>>

CallsAtEnd(h, game, ending) ==
  CASE ending = "Cancelled" -> <<Unrule, ShowAllBut(h.ignored)>>
    [] ending = "GameClosed" -> <<Unrule>>
    [] ending = "GameShown" -> <<Unrule>> \o HideIfAny(PresentedOver(h, game, ending)) \o <<Show(game)>>

(* A listing that was started for this hold is not for the next one        *)
(* (m_generation).                                                         *)
Outdated == [scan EXCEPT !.current = FALSE]

Release(h, game, ending) ==
  /\ hold' = [Ended(h, game, ending) EXCEPT !.owed = CallsAtEnd(h, game, ending)]
  /\ scan' = Outdated
  /\ UNCHANGED calls

-----------------------------------------------------------------------------
NotYet == [is |-> "new", launch |-> 0, since |-> 0, game |-> FALSE, held |-> FALSE]
NoScan == [at |-> "none", current |-> FALSE, ran |-> FALSE, ok |-> FALSE,
           windows |-> {}, game |-> NoWindow, owner |-> 0]

HoldInit ==
  /\ hold = [active |-> FALSE, launch |-> 0, windows |-> {}, kept |-> {}, ignored |-> {},
             presented |-> NoWindow, seen |-> FALSE, timeout |-> FALSE, grace |-> FALSE,
             owed |-> <<>>, again |-> FALSE, ending |-> "none", refused |-> FALSE]
  /\ scan = NoScan
  /\ calls = <<>>
  /\ window = [w \in Windows |-> NotYet]
  /\ rule = FALSE /\ steam = FALSE /\ mode = "in"
  /\ eventsLeft = MaxEvents

(* begin(): the rule goes on; the windows that earlier launches left, and  *)
(* that are still held, are not part of this one.  The compositor may      *)
(* refuse the rule, and then the game starts without a hold, or the list,  *)
(* and then all that is held is taken for this launch's.                   *)
Begun(h, ignored) ==
  [h EXCEPT !.active = TRUE, !.launch = @ + 1, !.windows = {}, !.presented = NoWindow,
            !.kept = ignored, !.ignored = ignored, !.seen = FALSE, !.timeout = TRUE,
            !.again = FALSE, !.ending = "none", !.refused = FALSE]

BeginHold(h) ==
  /\ WorkersIdle
  /\ steam' = FALSE
  /\ \/ /\ hold' = Begun(h, HeldNow \cap h.kept)
        /\ rule' = TRUE /\ scan' = Outdated
        /\ UNCHANGED eventsLeft
     \/ /\ h.kept # {} /\ Event
        /\ hold' = Begun(h, {})
        /\ rule' = TRUE /\ scan' = Outdated
     \/ /\ Event
        /\ hold' = [h EXCEPT !.again = FALSE, !.launch = @ + 1]
        /\ UNCHANGED <<rule, scan>>
  /\ UNCHANGED <<calls, window, mode>>

(* The player starts a game.  A hold that is on is cancelled first, and    *)
(* the main thread waits for what that takes.                              *)
Play ==
  /\ MainFree /\ mode = "in" /\ hold.launch < MaxLaunches
  /\ \/ ~hold.active /\ BeginHold(hold)
     \/ /\ hold.active
        /\ Release([hold EXCEPT !.again = TRUE], NoWindow, "Cancelled")
        /\ UNCHANGED <<window, rule, steam, mode, eventsLeft>>

PlayGoesOn == hold.again /\ hold.owed = <<>> /\ BeginHold(hold)

ReleaseGoesOn ==
  /\ hold.owed # <<>> /\ WorkersIdle
  /\ calls' = hold.owed
  /\ hold' = [hold EXCEPT !.owed = <<>>]
  /\ UNCHANGED <<scan, window, rule, steam, mode, eventsLeft>>

(* B, Show All Windows, or a game that could not be started.               *)
Cancel ==
  /\ MainFree /\ hold.active
  /\ Release(hold, NoWindow, "Cancelled")
  /\ UNCHANGED <<window, rule, steam, mode, eventsLeft>>

(* present(): one window at a time is shown over the library.              *)
Present(w) ==
  /\ MainFree /\ hold.active /\ calls = <<>> /\ w \in hold.windows
  /\ hold' = [hold EXCEPT !.presented = w]
  /\ calls' = (IF hold.presented = w THEN <<>> ELSE HideIfAny(hold.presented)) \o <<Show(w)>>
  /\ UNCHANGED <<scan, window, rule, steam, mode, eventsLeft>>

(* returnToLibrary(): Omakade has the focus again.  Its own time starts    *)
(* again from here.                                                        *)
ReturnToLibrary ==
  /\ MainFree /\ hold.presented # NoWindow /\ calls = <<>>
  /\ hold' = [hold EXCEPT !.presented = NoWindow, !.grace = FALSE,
                          !.timeout = hold.active \/ @]
  /\ calls' = <<Hide(hold.presented)>>
  /\ UNCHANGED <<scan, window, rule, steam, mode, eventsLeft>>

(* The time of a hold that lists and shows nothing runs out.               *)
TimesOut ==
  /\ MainFree /\ hold.timeout
  /\ IF hold.windows = {} /\ hold.presented = NoWindow
     THEN Release(hold, NoWindow, "Cancelled")
     ELSE hold' = [hold EXCEPT !.timeout = FALSE] /\ UNCHANGED <<scan, calls>>
  /\ UNCHANGED <<window, rule, steam, mode, eventsLeft>>

(* Steam's launch has ended for long enough; not under a shown window.     *)
GraceEnds ==
  /\ MainFree /\ hold.grace
  /\ IF hold.active /\ hold.presented = NoWindow
     THEN Release(hold, NoWindow, "GameClosed")
     ELSE hold' = [hold EXCEPT !.grace = FALSE] /\ UNCHANGED <<scan, calls>>
  /\ UNCHANGED <<window, rule, steam, mode, eventsLeft>>

-----------------------------------------------------------------------------
(* scan(), at every tick of m_poll: the worker asks for Steam's launch     *)
(* first and lists the windows then.  A listing that was not read yet is   *)
(* replaced.                                                               *)
ScanStart ==
  /\ MainFree /\ hold.active /\ WorkersIdle
  /\ scan' = [NoScan EXCEPT !.at = "running", !.current = TRUE, !.ran = steam]
  /\ UNCHANGED <<hold, calls, window, rule, steam, mode, eventsLeft>>

ItsGame(w) == window[w].game /\ window[w].launch = hold.launch

Listed(windows, game) ==
  scan' = [scan EXCEPT !.at = "done", !.ok = TRUE, !.windows = windows, !.game = game,
                       !.owner = IF game = NoWindow THEN 0 ELSE window[game].launch]

ScanRuns ==
  /\ scan.at = "running"
  /\ \/ /\ LET listed == HeldNow \ hold.ignored IN
             \/ \E w \in listed : ItsGame(w) /\ Listed(listed, w)
             \/ (\A w \in listed : ~ItsGame(w)) /\ Listed(listed, NoWindow)
        /\ UNCHANGED eventsLeft
     \/ /\ Event
        /\ scan' = [scan EXCEPT !.at = "done", !.ok = FALSE]
  /\ UNCHANGED <<hold, calls, window, rule, steam, mode>>

(* Mutant: only a new window restarts the time.                            *)
WithNewWindows(h, ws) == [h EXCEPT !.windows = ws, !.timeout = @ \/ ws \ h.windows # {}]

(* setWindows(): a window that is new, or the last one closing, gives the  *)
(* launcher the full time again.                                           *)
WithWindows(h, ws) ==
  [h EXCEPT !.windows = ws,
            !.timeout = @ \/ (ws # h.windows /\ (ws = {} \/ ws \ h.windows # {}))]

WithSteam(h) ==
  IF scan.ran THEN [h EXCEPT !.seen = TRUE, !.grace = FALSE]
  ELSE [h EXCEPT !.grace = @ \/ h.seen]

(* Mutant: a listing of an earlier hold is taken for one of this.          *)
UsableAlways == hold.active /\ scan.ok

Usable == hold.active /\ scan.ok /\ scan.current

(* finishScan()                                                            *)
ScanFinishes ==
  /\ MainFree /\ scan.at = "done"
  /\ \/ /\ ~Usable
        /\ scan' = NoScan
        /\ UNCHANGED <<hold, calls>>
     \/ /\ Usable /\ scan.game # NoWindow
        /\ Release(WithWindows(hold, scan.windows), scan.game, "GameShown")
     \/ /\ Usable /\ scan.game = NoWindow
        /\ hold' = WithSteam(WithWindows(hold, scan.windows))
        /\ scan' = NoScan
        /\ UNCHANGED calls
  /\ UNCHANGED <<window, rule, steam, mode, eventsLeft>>

-----------------------------------------------------------------------------
(* A call of the worker reaches the compositor.                            *)
Move(ws, held) ==
  [w \in Windows |-> IF w \in ws \cap OpenNow THEN [window[w] EXCEPT !.held = held] ELSE window[w]]

Call ==
  /\ calls # <<>>
  /\ LET c == Head(calls) IN
       /\ rule' = (rule /\ c.call # "unrule")
       /\ window' = CASE c.call = "hide" -> Move(c.arg, TRUE)
                      [] c.call = "show" -> Move(c.arg, FALSE)
                      [] c.call = "showAllBut" -> Move(HeldNow \ c.arg, FALSE)
                      [] OTHER -> window
  /\ calls' = Tail(calls)
  /\ UNCHANGED <<hold, scan, steam, mode, eventsLeft>>

(* A call fails, which no worker looks at or tries again: the rule stays,  *)
(* the window stays where it is, or what is held is not listed, and then   *)
(* nothing is released, or only some of it is.  History: whether this was  *)
(* a call of a cancelled hold's end.                                       *)
CallFails ==
  /\ calls # <<>> /\ Event
  /\ LET c == Head(calls) IN
       \E shown \in SUBSET (HeldNow \ c.arg) :
         /\ c.call # "showAllBut" => shown = {}
         /\ window' = Move(shown, FALSE)
  /\ calls' = Tail(calls)
  /\ hold' = [hold EXCEPT !.refused = @ \/ (hold.ending = "Cancelled" /\ hold.owed = <<>>)]
  /\ UNCHANGED <<scan, rule, steam, mode>>

(* Game Mode is left or parked.  The interface abandons the hold, and the  *)
(* controller's worker then turns the rule off and shows what is held; it  *)
(* stops at a call that fails.                                             *)
Abandoned == [Inactive(hold) EXCEPT !.kept = {}]

LeaveGameMode ==
  /\ MainFree /\ mode = "in" /\ Event
  /\ mode' = "unrule"
  /\ hold' = IF hold.active THEN Abandoned ELSE [hold EXCEPT !.kept = {}]
  /\ scan' = IF hold.active THEN Outdated ELSE scan
  /\ UNCHANGED <<calls, window, rule, steam>>

EndRule ==
  /\ mode = "unrule"
  /\ \/ mode' = "show" /\ rule' = FALSE /\ UNCHANGED eventsLeft
     \/ mode' = "out" /\ Event /\ UNCHANGED rule
  /\ UNCHANGED <<hold, scan, calls, window, steam>>

PutBack ==
  /\ mode = "show" /\ mode' = "out"
  /\ \/ window' = Move(HeldNow, FALSE) /\ UNCHANGED eventsLeft
     \/ Event /\ \E shown \in SUBSET HeldNow : window' = Move(shown, FALSE)
  /\ UNCHANGED <<hold, scan, calls, rule, steam>>

ComeBack ==
  /\ MainFree /\ mode = "out" /\ mode' = "in"
  /\ UNCHANGED <<hold, scan, calls, window, rule, steam, eventsLeft>>

-----------------------------------------------------------------------------
(* The launcher and the game open and close windows, for the launch that   *)
(* was asked for last or an earlier one.                                   *)
Opens(w, n, game) ==
  /\ window[w].is = "new" /\ n \in 1 .. hold.launch
  /\ window' = [window EXCEPT ![w] = [is |-> "open", launch |-> n, since |-> hold.launch,
                                      game |-> game, held |-> rule /\ mode # "out"]]
  /\ UNCHANGED <<hold, scan, calls, rule, steam, mode, eventsLeft>>

Closes(w) ==
  /\ w \in OpenNow
  /\ window' = [window EXCEPT ![w] = [NotYet EXCEPT !.is = "closed"]]
  /\ UNCHANGED <<hold, scan, calls, rule, steam, mode, eventsLeft>>

SteamStarts ==
  /\ ~steam /\ hold.launch > 0 /\ Event /\ steam' = TRUE
  /\ UNCHANGED <<hold, scan, calls, window, rule, mode>>

SteamEnds ==
  /\ steam /\ steam' = FALSE
  /\ UNCHANGED <<hold, scan, calls, window, rule, mode, eventsLeft>>

HoldNext ==
  \/ Play \/ PlayGoesOn \/ ReleaseGoesOn \/ Cancel \/ ReturnToLibrary
  \/ \E w \in Windows : Present(w) \/ Closes(w)
  \/ TimesOut \/ GraceEnds
  \/ ScanStart \/ ScanRuns \/ ScanFinishes \/ Call \/ CallFails
  \/ LeaveGameMode \/ EndRule \/ PutBack \/ ComeBack
  \/ \E w \in Windows, n \in 1 .. MaxLaunches, g \in BOOLEAN : Opens(w, n, g)
  \/ SteamStarts \/ SteamEnds

(* Fairness: both workers run to their end and the main thread goes on     *)
(* then, timers that stay armed fire.  The event of a finished listing is  *)
(* delivered, though a tick of m_poll may come before it and replace the   *)
(* listing, again and again: its fairness is strong.  Nothing is assumed   *)
(* of the player, the game or its launcher.                                *)
HoldFairness ==
  /\ WF_holdVars(Call) /\ WF_holdVars(ScanRuns) /\ WF_holdVars(ScanStart)
  /\ WF_holdVars(ReleaseGoesOn) /\ WF_holdVars(PlayGoesOn)
  /\ WF_holdVars(TimesOut) /\ WF_holdVars(GraceEnds)
  /\ SF_holdVars(ScanFinishes)

HoldSpec == HoldInit /\ [][HoldNext]_holdVars /\ HoldFairness

-----------------------------------------------------------------------------
(* The Starting screen is not left waiting with nothing listed, nor with   *)
(* the windows of a Steam game that has closed, while no window is shown   *)
(* to be answered: the timers that a shown window stops are started again. *)
WaitsForNothing ==
  /\ hold.active /\ hold.presented = NoWindow
  /\ hold.windows = {} \/ (hold.seen /\ ~steam)
HoldEnds == WaitsForNothing ~> ~WaitsForNothing

(* B, "Show All Windows" or the time running out "stops holding and shows  *)
(* everything" (docs/GAME-MODE.md:48): no window stays hidden that opened  *)
(* since the hold began.  False when a call at its end fails (LetsGo), as  *)
(* nobody tries again (LaunchHold.cpp:446).                                *)
ShowsEverything ==
  hold.ending = "Cancelled" /\ MainFree /\ calls = <<>> =>
    \A w \in HeldNow : window[w].since < hold.launch

(* It does when the compositor does what it is asked to at this end: a     *)
(* hold that is cancelled, times out or is replaced by the next launch     *)
(* leaves no window of its own hidden, whatever it had listed and whatever *)
(* had failed before (LaunchHold.cpp:433-449).                             *)
LetsGo == hold.refused \/ ShowsEverything

(* A hold ends with a game shown only for a window of the game it was      *)
(* begun for, whenever the listing that found it was started.              *)
ForItsGame ==
  [][hold.active /\ ~hold'.active /\ hold'.ending = "GameShown" =>
       scan.owner = hold.launch]_holdVars

(* "Leaving or parking Game Mode puts held windows back itself; the hold   *)
(* just stops" (qml/Main.qml:4133): then nothing is hidden on the desktop. *)
PutBackAtLast == mode = "out" /\ calls = <<>> => HeldNow = {}
=============================================================================
