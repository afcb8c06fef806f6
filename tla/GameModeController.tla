------------------------ MODULE GameModeController ------------------------
(* Game Mode: a session turns on a display, moves Omakade there, changes   *)
(* the sound output and silences notifications, and puts all of it back;   *)
(* parked, it leaves its games running, muted, while the desktop is back.  *)
(* Each change is written to a record on disk first, so that a later start *)
(* can undo what a killed Omakade left (gamemode/GameModeController.cpp).  *)
(*                                                                         *)
(* An operation is a sequence of steps of one worker; a step is at most    *)
(* one write of the record or one change of the desktop, and Omakade may   *)
(* be killed between any two.  The window is the permanent one; its layout *)
(* placeholder, its fullscreen mode and what had the focus are left out,   *)
(* but for the steps that may fail on them.                                *)
EXTENDS Naturals, Sequences, FiniteSets

CONSTANTS Outputs, Home,      \* displays, and the one that is always on
          Sinks, NoSink,      \* sound outputs
          Games,              \* games, each with one window and one stream
          Kinds,              \* the settings a session may be started with
          NoRecord,
          Budgets             \* bounds: how many writes and changes fail, how
                              \* often Omakade is killed, how many changes the
                              \* player makes himself and games he starts

(* What a record holds: the session's phase, whether it is being ended,    *)
(* what it changed, and the games and streams it knows.                    *)
Streams == [game : Games, muted : BOOLEAN]
Records ==
  [phase : {"active", "retained"}, ending : BOOLEAN, output : Outputs, lit : BOOLEAN,
   pending : BOOLEAN, placed : BOOLEAN, prev : Sinks \cup {NoSink}, sink : Sinks \cup {NoSink},
   quiet : BOOLEAN, games : SUBSET Games, streams : SUBSET Streams]

ASSUME GameModeAssumption ==
  /\ Home \in Outputs /\ NoSink \notin Sinks /\ NoRecord \notin Records
  /\ Kinds # {} /\ Kinds \subseteq [output : Outputs, sink : Sinks \cup {NoSink}, quiet : BOOLEAN]
  /\ Budgets \subseteq [faults : Nat, kills : Nat, player : Nat, games : Nat]

VARIABLES
  desk,     \* displays connected and on, sinks there are and the default one,
            \* whether notifications are silenced, where Omakade's window and
            \* the session's workspace are, the games whose windows are on it,
            \* games running, ended, muted
  was,      \* history: the desktop without the session; its default sink, or
            \* NoSink when that is gone or a restore took another for it
  disk,     \* the record, or NoRecord
  st,       \* m_state
  session,  \* m_active, m_parked, or neither
  ctl,      \* where the operation is, and its local variables
  left      \* budget; history: whether this operation met no failure and no
            \* change, and whether a kill lost the record of a muted game

gameModeVars == <<desk, was, disk, st, session, ctl, left>>

Blank ==
  [phase |-> "active", ending |-> FALSE, output |-> Home, lit |-> FALSE, pending |-> FALSE,
   placed |-> FALSE, prev |-> NoSink, sink |-> NoSink, quiet |-> FALSE, games |-> {}, streams |-> {}]

Resting ==
  [at |-> "idle", stack |-> <<>>, next |-> "idle", ok |-> TRUE, complete |-> TRUE,
   gone |-> FALSE, retained |-> FALSE, put |-> FALSE, kept |-> Blank,
   want |-> CHOOSE k \in Kinds : TRUE, todo |-> {}, one |-> {}, audio |-> TRUE,
   desktop |-> TRUE, op |-> "none", from |-> "none"]

GameModeInit ==
  /\ \E on \in {{Home}, Outputs}, quiet \in BOOLEAN, sink \in Sinks :
       /\ desk = [plugged |-> Outputs, on |-> on, sinks |-> Sinks, sink |-> sink, quiet |-> quiet, win |-> "home",
                  at |-> Home, inside |-> {}, games |-> {}, over |-> {}, muted |-> {}]
       /\ was = [on |-> on, sink |-> sink, quiet |-> quiet, muted |-> {}]
  /\ disk = NoRecord /\ st = Blank /\ session = "none"
  /\ ctl = Resting
  /\ \E b \in Budgets :
       left = [faults |-> b.faults, kills |-> b.kills, player |-> b.player, games |-> b.games,
               clean |-> TRUE, lost |-> FALSE]

---------------------------------------------------------------------------
At(l) == ctl.at = l
To(l) == ctl' = [ctl EXCEPT !.at = l]
Call(l, back) == ctl' = [ctl EXCEPT !.at = l, !.stack = <<back>> \o @]
Return(ok) ==
  ctl' = IF Head(ctl.stack) = "idle"
         THEN [Resting EXCEPT !.want = ctl.want, !.op = ctl.op]
         ELSE [ctl EXCEPT !.at = Head(ctl.stack), !.stack = Tail(@), !.ok = ok]
CallRestore(retained, gone, back) ==
  ctl' = [ctl EXCEPT !.at = "quiet", !.stack = <<back>> \o @, !.complete = TRUE,
                     !.retained = retained, !.gone = gone]

Works == UNCHANGED left
Fails == left.faults > 0 /\ left' = [left EXCEPT !.faults = @ - 1, !.clean = FALSE]

(* save(): all of the record, or none of it.  What follows depends on it.  *)
Saves(s) == Works /\ disk' = s
SaveFails == Fails /\ UNCHANGED disk
SavesOrNot(s) == Saves(s) \/ SaveFails
SaveThen(s, good, otherwise, bad) ==
  \/ Saves(s) /\ st' = s /\ To(good)
  \/ SaveFails /\ st' = otherwise /\ To(bad)

(* A call that changes the desktop to d: done, or refused.                 *)
Changes(d, good, bad) ==
  \/ Works /\ desk' = d /\ To(good)
  \/ Fails /\ UNCHANGED desk /\ To(bad)
(* One whose effect is awaited: refused, it may be done later all the same.*)
ChangesLate(d, good, bad) ==
  \/ Changes(d, good, bad)
  \/ Fails /\ desk' = d /\ To(bad)

Alive(games) == games \cap desk.games

Answer ==
  /\ \/ At("yes") /\ Return(TRUE)
     \/ At("no") /\ Return(FALSE)
  /\ UNCHANGED <<desk, was, disk, st, session, left>>

(* forget(), and a controller with no session.                             *)
Over(ok) == disk' = NoRecord /\ st' = Blank /\ session' = "none" /\ Return(ok)

---------------------------------------------------------------------------
(* restore(): one effect after the other, each recorded as put back.       *)
Record(next) == /\ ctl' = [ctl EXCEPT !.at = "record", !.next = next]
RecordUndone ==
  /\ At("record")
  /\ \/ Saves(st) /\ To(ctl.next)
     \/ SaveFails /\ ctl' = [ctl EXCEPT !.at = ctl.next, !.complete = FALSE]
  /\ UNCHANGED <<desk, was, st, session>>
Incomplete(next) == ctl' = [ctl EXCEPT !.at = next, !.complete = FALSE]

RestoreQuiet ==
  /\ At("quiet")
  /\ \/ ~st.quiet /\ To("window") /\ UNCHANGED <<desk, st, left>>
     \/ /\ st.quiet /\ Works
        /\ desk' = [desk EXCEPT !.quiet = FALSE]
        /\ st' = [st EXCEPT !.quiet = FALSE]
        /\ Record("window")
     \/ st.quiet /\ Fails /\ Incomplete("window") /\ UNCHANGED <<desk, st>>
  /\ UNCHANGED <<was, disk, session>>

(* The focus will have to be put back, for as long as that is not recorded *)
(* as done; a window that stays on the session's workspace ends it here.   *)
RestoreWindow ==
  LET put == st.pending \/ st.placed
      pending == st.pending \/ (put /\ ~ctl.gone)
      home == [desk EXCEPT !.win = IF ctl.gone THEN @ ELSE "home"]
  IN /\ At("window")
     /\ \/ /\ ~st.placed /\ Works
           /\ st' = [st EXCEPT !.pending = pending]
           /\ ctl' = [ctl EXCEPT !.put = put, !.at = "leftover"]
           /\ UNCHANGED desk
        \/ /\ st.placed /\ Works
           /\ desk' = home
           /\ st' = [st EXCEPT !.pending = pending, !.placed = FALSE]
           /\ ctl' = [ctl EXCEPT !.put = put, !.at = "record", !.next = "leftover"]
        \/ /\ st.placed /\ ~ctl.gone /\ Fails
           /\ desk' \in {desk, home}
           /\ st' = [st EXCEPT !.pending = pending]
           /\ To("no")
     /\ UNCHANGED <<was, disk, session>>

(* Unless the games are retained, their windows are brought home.          *)
RestoreLeftover ==
  /\ At("leftover")
  /\ \/ ctl.retained /\ To("focus") /\ UNCHANGED <<desk, left>>
     \/ ~ctl.retained /\ Works /\ To("focus") /\ desk' = [desk EXCEPT !.inside = {}]
     \/ /\ ~ctl.retained /\ Fails /\ Incomplete("focus")
        /\ \E stay \in SUBSET desk.inside \ {{}} : desk' = [desk EXCEPT !.inside = stay]
  /\ UNCHANGED <<was, disk, st, session>>

RestoreFocus ==
  /\ At("focus")
  /\ \/ /\ ctl.put /\ ~ctl.gone /\ Fails
        /\ Incomplete("sink") /\ UNCHANGED st
     \/ /\ Works
        /\ IF ctl.put /\ ctl.complete
           THEN st' = [st EXCEPT !.pending = FALSE] /\ Record("sink")
           ELSE UNCHANGED st /\ To("sink")
  /\ UNCHANGED <<desk, was, disk, session>>

(* A sound output the player chose meanwhile is kept, unless the session's *)
(* own is gone; the current one is when the one before is gone.            *)
RestoreSink ==
  LET cleared == [st EXCEPT !.sink = NoSink, !.prev = NoSink]
      ours == desk.sink = st.sink \/ st.sink \notin desk.sinks
      back == IF ours /\ st.prev \in desk.sinks THEN st.prev ELSE desk.sink
  IN /\ At("sink")
     /\ \/ st.sink = NoSink /\ To("output") /\ UNCHANGED <<desk, was, st, left>>
        \/ /\ st.sink # NoSink /\ Works
           /\ desk' = [desk EXCEPT !.sink = back]
           /\ was' = [was EXCEPT !.sink = IF @ = desk.sink /\ @ # back THEN NoSink ELSE @]
           /\ st' = cleared
           /\ Record("output")
        \/ st.sink # NoSink /\ Fails /\ Incomplete("output") /\ UNCHANGED <<desk, was, st>>
     /\ UNCHANGED <<disk, session>>

MustMoveWhileOn == st.phase = "active" /\ st.games # {}  \* mutant
UnpluggedUnseen == FALSE  \* mutant
(* The display is turned off again, once the retained games are elsewhere. *)
MustMove == ctl.retained /\ st.games # {}
Unplugged == st.output \notin desk.plugged
RestoreOutput ==
  LET elsewhere == desk.on \ {st.output}
  IN /\ At("output")
     /\ \/ ~st.lit /\ To("restored") /\ UNCHANGED <<desk, st, left>>
        \/ /\ st.lit /\ Unplugged /\ Works
           /\ st' = [st EXCEPT !.lit = FALSE]
           /\ Record("restored") /\ UNCHANGED desk
        \/ /\ st.lit /\ ~Unplugged /\ Works
           /\ IF ~MustMove THEN desk' = desk /\ To("disable")
              ELSE IF elsewhere = {} THEN desk' = desk /\ Incomplete("restored")
              ELSE \E o \in elsewhere : desk' = [desk EXCEPT !.at = o] /\ To("disable")
           /\ UNCHANGED st
        \/ /\ st.lit /\ ~Unplugged /\ MustMove /\ Fails
           /\ Incomplete("restored") /\ UNCHANGED <<desk, st>>
     /\ UNCHANGED <<was, disk, session>>
RestoreDisable ==
  /\ At("disable")
  /\ \/ /\ st.output \in desk.plugged /\ Works
        /\ desk' = [desk EXCEPT !.on = @ \ {st.output}]
        /\ st' = [st EXCEPT !.lit = FALSE]
        /\ Record("restored")
     \/ /\ IF st.output \in desk.plugged THEN Fails ELSE Works
        /\ Incomplete("restored") /\ UNCHANGED <<desk, st>>
  /\ UNCHANGED <<was, disk, session>>

RestoreDone ==
  /\ At("restored")
  /\ \/ ctl.complete /\ disk # NoRecord /\ Saves(st) /\ Return(TRUE)
     \/ ctl.complete /\ disk # NoRecord /\ SaveFails /\ Return(FALSE)
     \/ UNCHANGED <<disk, left>> /\ (ctl.complete => disk = NoRecord) /\ Return(ctl.complete)
  /\ UNCHANGED <<desk, was, st, session>>

---------------------------------------------------------------------------
(* muteGames(): each stream of a retained game is recorded, with whether   *)
(* it was muted before, and muted.                                         *)
MuteGames ==
  /\ At("mute")
  /\ \/ Works /\ ctl' = [ctl EXCEPT !.at = "muteNext", !.todo = Alive(st.games)]
     \/ Fails /\ To("no")
  /\ UNCHANGED <<desk, was, disk, st, session>>
MuteRecorded(g) == \E r \in st.streams : r.game = g
MuteRecord ==
  /\ At("muteNext")
  /\ IF ctl.todo = {} THEN To("yes") /\ UNCHANGED <<disk, st, left>>
     ELSE \E g \in ctl.todo :
            IF MuteRecorded(g)
            THEN /\ ctl' = [ctl EXCEPT !.at = "muteOne", !.one = {g}]
                 /\ UNCHANGED <<disk, st, left>>
            ELSE \E r \in {[st EXCEPT !.streams = @ \cup {[game |-> g, muted |-> g \in desk.muted]}]} :
                   \/ /\ Saves(r) /\ st' = r
                      /\ ctl' = [ctl EXCEPT !.at = "muteOne", !.one = {g}]
                   \/ SaveFails /\ st' = st /\ To("no")
  /\ UNCHANGED <<desk, was, session>>
MuteOne ==
  /\ At("muteOne")
  /\ \/ /\ Works
        /\ desk' = [desk EXCEPT !.muted = @ \cup Alive(ctl.one)]
        /\ ctl' = [ctl EXCEPT !.at = "muteNext", !.todo = @ \ ctl.one, !.one = {}]
     \/ ~(ctl.one \subseteq desk.muted) /\ Fails /\ To("no") /\ UNCHANGED desk
  /\ UNCHANGED <<was, disk, st, session>>

(* unmuteGames(): each recorded stream is unmuted unless it was muted      *)
(* before, and its record dropped.                                         *)
UnmuteGames ==
  /\ At("unmute")
  /\ \/ st.streams = {} /\ Works /\ To("yes")
     \/ /\ st.streams # {} /\ Works
        /\ ctl' = [ctl EXCEPT !.at = "unmuteNext", !.todo = st.streams, !.audio = TRUE]
     \/ st.streams # {} /\ Fails /\ To("no")
  /\ UNCHANGED <<desk, was, disk, st, session>>
UnmuteOne ==
  /\ At("unmuteNext")
  /\ IF ctl.todo = {}
     THEN To(IF ctl.audio THEN "yes" ELSE "no") /\ UNCHANGED <<desk, left>>
     ELSE \E r \in ctl.todo :
            \/ /\ Works
               /\ desk' = [desk EXCEPT !.muted = IF r.muted THEN @ ELSE @ \ {r.game}]
               /\ ctl' = [ctl EXCEPT !.at = "unmuted", !.todo = @ \ {r}, !.one = {r}]
            \/ /\ ~r.muted /\ r.game \in desk.muted /\ Fails
               /\ ctl' = [ctl EXCEPT !.todo = @ \ {r}, !.audio = FALSE]
               /\ UNCHANGED desk
  /\ UNCHANGED <<was, disk, st, session>>
UnmuteRecord ==
  /\ At("unmuted")
  /\ \E r \in {[st EXCEPT !.streams = @ \ ctl.one]} :
       \/ /\ Saves(r) /\ st' = r
          /\ ctl' = [ctl EXCEPT !.at = "unmuteNext", !.one = {}]
       \/ /\ SaveFails /\ UNCHANGED st
          /\ ctl' = [ctl EXCEPT !.at = "unmuteNext", !.one = {}, !.audio = FALSE]
  /\ UNCHANGED <<desk, was, session>>

---------------------------------------------------------------------------
(* The end of a retained or an interrupted session, after its restore():   *)
(* its games are shown on a display that is on, then heard again, and the  *)
(* record goes only when all of it was done.                               *)
Settle ==
  /\ At("settle")
  /\ IF ctl.retained /\ st.games # {}
     THEN /\ st' = [st EXCEPT !.games = Alive(@)]
          /\ ctl' = [ctl EXCEPT !.at = "expose", !.desktop = ctl.ok]
     ELSE /\ UNCHANGED st
          /\ ctl' = [ctl EXCEPT !.at = "unmute", !.desktop = ctl.ok, !.stack = <<"settled">> \o @]
  /\ UNCHANGED <<desk, was, disk, session, left>>
(* exposeGames(): moving the workspace, and focusing it, may each fail.    *)
Expose ==
  /\ At("expose")
  /\ \/ /\ Works /\ Call("unmute", "settled")
        /\ \E o \in desk.on : desk' = IF st.games = {} THEN desk ELSE [desk EXCEPT !.at = o]
     \/ /\ st.games # {} /\ Fails /\ To("unsettled")
        /\ \E o \in desk.on \cup {desk.at} : desk' = [desk EXCEPT !.at = o]
  /\ UNCHANGED <<was, disk, st, session>>
Settled ==
  /\ At("settled")
  /\ IF ctl.ok /\ ctl.desktop
     THEN Over(TRUE) /\ UNCHANGED <<desk, was, left>>
     ELSE To("unsettled") /\ UNCHANGED <<desk, was, disk, st, session, left>>
Unsettled ==
  /\ At("unsettled")
  /\ SavesOrNot(st) /\ Return(FALSE)
  /\ UNCHANGED <<desk, was, st, session>>

(* finishRetention()                                                       *)
FinishRetention ==
  /\ At("finish")
  /\ \E e \in {[st EXCEPT !.ending = TRUE]} :
       \/ /\ Saves(e) /\ st' = [e EXCEPT !.games = Alive(@)]
          /\ CallRestore(TRUE, FALSE, "settle")
       \/ SaveFails /\ st' = e /\ To("no")
  /\ UNCHANGED <<desk, was, session>>

---------------------------------------------------------------------------
(* recover(): what an Omakade that is no more left changed.                *)
Recover ==
  /\ At("recover")
  /\ IF disk = NoRecord THEN Return(TRUE) /\ UNCHANGED st
     ELSE st' = disk /\ CallRestore(disk.phase = "retained", TRUE, "settle")
  /\ UNCHANGED <<desk, was, disk, session, left>>

Begin(l, back, op) ==
  /\ At("idle") /\ left' = [left EXCEPT !.clean = TRUE]
  /\ ctl' = [ctl EXCEPT !.at = l, !.stack = back, !.op = op, !.from = session]
  /\ UNCHANGED <<desk, was, disk, st, session>>

RecoverAtStart == session = "none" /\ disk # NoRecord /\ Begin("recover", <<"idle">>, "Recover")

(* enter(): first recover(), then each effect after its record.            *)
Enter(k) ==
  /\ session = "none" /\ At("idle")
  /\ ctl' = [ctl EXCEPT !.at = "recover", !.stack = <<"entered", "idle">>, !.want = k, !.op = "Enter", !.from = session]
  /\ left' = [left EXCEPT !.clean = TRUE]
  /\ UNCHANGED <<desk, was, disk, st, session>>
Entered ==
  /\ At("entered")
  /\ IF ~ctl.ok \/ ctl.want.output \notin desk.plugged
     THEN Return(FALSE) /\ UNCHANGED <<disk, st>>
     ELSE disk' = NoRecord /\ st' = [Blank EXCEPT !.output = ctl.want.output] /\ To("enterOutput")
  /\ UNCHANGED <<desk, was, session, left>>
EnterOutputUnrecorded ==  \* mutant: the record is written with the next one
  /\ At("enterOutput")
  /\ IF st.output \in desk.on THEN To("enterSink") /\ UNCHANGED <<st, left>>
     ELSE st' = [st EXCEPT !.lit = TRUE] /\ To("enterLight") /\ Works
  /\ UNCHANGED <<desk, was, disk, session>>
EnterOutput ==
  /\ At("enterOutput")
  /\ IF st.output \in desk.on THEN To("enterSink") /\ UNCHANGED <<disk, st, left>>
     ELSE SaveThen([st EXCEPT !.lit = TRUE], "enterLight", Blank, "no")
  /\ UNCHANGED <<desk, was, session>>
(* What is done to the session's display fails if it is no longer there.   *)
ChangesIf(there, d, good, bad) ==
  IF there THEN ChangesLate(d, good, bad) ELSE Works /\ UNCHANGED desk /\ To(bad)
LightOutput(good, bad) ==
  ChangesIf(st.output \in desk.plugged, [desk EXCEPT !.on = @ \cup {st.output}], good, bad)
EnterLight ==
  /\ At("enterLight") /\ LightOutput("enterSink", "enterFail")
  /\ UNCHANGED <<was, disk, st, session>>
Sunk == [st EXCEPT !.prev = desk.sink, !.sink = ctl.want.sink]
SinkThere == ctl.want.sink \in desk.sinks
SinkAsWanted == ctl.want.sink \in {NoSink, desk.sink}
EnterSink ==
  /\ At("enterSink")
  /\ \/ SinkAsWanted /\ To("enterWindow") /\ UNCHANGED <<disk, st, left>>
     \/ ~SinkAsWanted /\ ~SinkThere /\ To("enterFail") /\ UNCHANGED <<disk, st, left>>
     \/ ~SinkAsWanted /\ SinkThere /\ SaveThen(Sunk, "enterSetSink", st, "enterFail")
  /\ UNCHANGED <<desk, was, session>>
SetSink(good, bad) ==
  IF st.sink \in desk.sinks THEN Changes([desk EXCEPT !.sink = st.sink], good, bad)
  ELSE Works /\ UNCHANGED desk /\ To(bad)
EnterSetSink ==
  /\ At("enterSetSink") /\ SetSink("enterWindow", "enterFail")
  /\ UNCHANGED <<was, disk, st, session>>
Placed == [st EXCEPT !.placed = TRUE, !.pending = TRUE]
EnterWindow ==
  /\ At("enterWindow") /\ SaveThen(Placed, "enterPlace", Placed, "enterFail")
  /\ UNCHANGED <<desk, was, session>>
EnterPlace ==
  /\ At("enterPlace")
  /\ ChangesIf(st.output \in desk.on, [desk EXCEPT !.win = "session", !.at = st.output],
               "enterQuiet", "enterFail")
  /\ UNCHANGED <<was, disk, st, session>>
Quieted == [st EXCEPT !.quiet = TRUE]
EnterQuiet ==
  /\ At("enterQuiet")
  /\ IF ~ctl.want.quiet \/ desk.quiet THEN To("enterLast") /\ UNCHANGED <<disk, st, left>>
     ELSE SaveThen(Quieted, "enterSilence", st, "enterLast")
  /\ UNCHANGED <<desk, was, session>>
EnterSilence ==
  /\ At("enterSilence") /\ Changes([desk EXCEPT !.quiet = TRUE], "enterLast", "enterLoud")
  /\ UNCHANGED <<was, disk, st, session>>
EnterLoud ==
  /\ At("enterLoud") /\ st' = [st EXCEPT !.quiet = FALSE] /\ SavesOrNot(st') /\ To("enterLast")
  /\ UNCHANGED <<desk, was, session>>
EnterLast ==
  /\ At("enterLast")
  /\ \/ Saves(st) /\ session' = "active" /\ Return(TRUE)
     \/ SaveFails /\ To("enterFail") /\ UNCHANGED session
  /\ UNCHANGED <<desk, was, st>>
EnterFail ==
  /\ At("enterFail") /\ CallRestore(FALSE, FALSE, "enterFailed")
  /\ UNCHANGED <<desk, was, disk, st, session, left>>
EnterFailed ==
  /\ At("enterFailed")
  /\ \/ ctl.ok /\ Over(FALSE) /\ UNCHANGED left
     \/ ~ctl.ok /\ session' = "active" /\ SavesOrNot(st) /\ UNCHANGED st /\ Return(FALSE)
  /\ UNCHANGED <<desk, was>>

---------------------------------------------------------------------------
(* park(): the games are muted before the desktop is back, or the session  *)
(* stays as it was.                                                        *)
Park == session = "active" /\ Begin("park", <<"idle">>, "Park")
ParkDiscover ==
  /\ At("park")
  /\ \/ Fails /\ To("no") /\ UNCHANGED <<disk, st>>  \* the discovery, or the write
     \/ \E r \in {[st EXCEPT !.games = desk.inside, !.phase = "retained"]} :
          /\ Saves(r) /\ st' = r
          /\ ctl' = IF r.games = {}
                    THEN [ctl EXCEPT !.at = "parkRestore", !.kept = st]
                    ELSE [ctl EXCEPT !.at = "mute", !.kept = st, !.stack = <<"parkMuted">> \o @]
  /\ UNCHANGED <<desk, was, session>>
ParkMuted ==
  /\ At("parkMuted")
  /\ IF ctl.ok THEN To("parkRestore") ELSE Call("unmute", "parkUnmuted")
  /\ UNCHANGED <<desk, was, disk, st, session, left>>
ParkUnmuted ==
  /\ At("parkUnmuted")
  /\ IF ctl.ok THEN st' = ctl.kept /\ SavesOrNot(ctl.kept) ELSE UNCHANGED <<st, disk, left>>
  /\ Return(FALSE)
  /\ UNCHANGED <<desk, was, session>>
ParkRestore ==
  /\ At("parkRestore") /\ CallRestore(TRUE, FALSE, "parkRestored")
  /\ UNCHANGED <<desk, was, disk, st, session, left>>
ParkRestored ==
  /\ At("parkRestored")
  /\ session' = "parked"
  /\ IF ctl.ok THEN Return(TRUE)
     ELSE ctl' = [ctl EXCEPT !.at = "refresh", !.stack = <<"resume", "parkRolledBack">> \o @]
  /\ UNCHANGED <<desk, was, disk, st, left>>
ParkRolledBack ==
  /\ At("parkRolledBack")
  /\ IF session = "none" THEN UNCHANGED <<disk, left>> ELSE SavesOrNot(st)
  /\ Return(FALSE)
  /\ UNCHANGED <<desk, was, st, session>>

---------------------------------------------------------------------------
(* refreshParked(): games that ended go, those that arrived are muted too; *)
(* retained games that cannot be kept quiet are given back.                *)
RefreshParked == session = "parked" /\ Begin("refresh", <<"idle">>, "RefreshParked")
RefreshDiscover ==
  /\ At("refresh")
  /\ IF st.ending THEN To("finish") /\ UNCHANGED <<st, left>>
     ELSE \/ /\ Fails /\ UNCHANGED st
             /\ IF Alive(st.games) = {} THEN To("no") ELSE Call("finish", "no")
          \/ /\ Works
             /\ \E games \in {Alive(st.games) \cup desk.inside} :
                  IF games = {}
                  THEN /\ st' = [st EXCEPT !.games = {}, !.streams = {r \in @ : r.game \in desk.games}]
                       /\ Call("unmute", "refreshHeard")
                  ELSE st' = [st EXCEPT !.games = games] /\ To("refreshStreams")
  /\ UNCHANGED <<desk, was, disk, session>>
RefreshHeard ==
  /\ At("refreshHeard")
  /\ ctl' = [ctl EXCEPT !.desktop = ctl.ok, !.at = "quiet", !.stack = <<"refreshRestored">> \o @,
                        !.complete = TRUE, !.retained = TRUE, !.gone = FALSE]
  /\ UNCHANGED <<desk, was, disk, st, session, left>>
RefreshRestored ==
  /\ At("refreshRestored")
  /\ IF ctl.ok /\ ctl.desktop
     THEN (Saves(st) /\ Return(TRUE)) \/ (SaveFails /\ Return(FALSE))
     ELSE UNCHANGED <<disk, left>> /\ Return(FALSE)
  /\ UNCHANGED <<desk, was, st, session>>
RefreshStreams ==
  /\ At("refreshStreams")
  /\ \/ Fails /\ Call("finish", "no") /\ UNCHANGED <<disk, st>>
     \/ \E r \in {[st EXCEPT !.streams = {q \in @ : q.game \in desk.games}]} :
          \/ Saves(r) /\ st' = r /\ Call("mute", "refreshMuted")
          \/ SaveFails /\ st' = r /\ Call("finish", "no")
  /\ UNCHANGED <<desk, was, session>>
RefreshMuted ==
  /\ At("refreshMuted")
  /\ IF ctl.ok THEN Return(TRUE) ELSE Call("finish", "no")
  /\ UNCHANGED <<desk, was, disk, st, session, left>>

---------------------------------------------------------------------------
(* resume(): enter() while parked, on the settings the session began with. *)
Resume ==
  /\ session = "parked" /\ At("idle") /\ left' = [left EXCEPT !.clean = TRUE]
  /\ ctl' = [ctl EXCEPT !.at = "refresh", !.stack = <<"resume", "idle">>, !.op = "Resume", !.from = session]
  /\ UNCHANGED <<desk, was, disk, st, session>>
ResumeCapture ==
  LET o == ctl.want.output
  IN /\ At("resume")
     /\ \/ (~ctl.ok \/ session # "parked") /\ Return(ctl.ok) /\ UNCHANGED <<st, left>>
        \/ /\ ctl.ok /\ session = "parked"
           /\ \/ Fails \/ (o \notin desk.plugged /\ Works)
           /\ Return(FALSE) /\ UNCHANGED st
        \/ /\ ctl.ok /\ session = "parked" /\ o \in desk.plugged /\ Works
           /\ st' = [st EXCEPT !.output = o, !.lit = @ \/ o \notin desk.on, !.phase = "retained"]
           /\ ctl' = [ctl EXCEPT !.kept = st, !.at = "resumeRecord"]
     /\ UNCHANGED <<desk, was, disk, session>>
ResumeRecord ==
  /\ At("resumeRecord")
  /\ SaveThen(st, IF st.lit THEN "resumeLight" ELSE "resumeSink", ctl.kept, "no")
  /\ UNCHANGED <<desk, was, session>>
ResumeLight ==
  /\ At("resumeLight") /\ LightOutput("resumeSink", "resumeFail")
  /\ UNCHANGED <<was, disk, st, session>>
ResumeSink ==
  /\ At("resumeSink")
  /\ \/ SinkAsWanted /\ To("resumeWindow") /\ UNCHANGED <<disk, st, left>>
     \/ ~SinkAsWanted /\ ~SinkThere /\ To("resumeFail") /\ UNCHANGED <<disk, st, left>>
     \/ ~SinkAsWanted /\ SinkThere /\ SaveThen(Sunk, "resumeSetSink", Sunk, "resumeFail")
  /\ UNCHANGED <<desk, was, session>>
ResumeSetSink ==
  /\ At("resumeSetSink") /\ SetSink("resumeWindow", "resumeFail")
  /\ UNCHANGED <<was, disk, st, session>>
ResumeWindow ==
  /\ At("resumeWindow") /\ SaveThen(Placed, "resumePlace", Placed, "resumeFail")
  /\ UNCHANGED <<desk, was, session>>
ResumePlace ==
  /\ At("resumePlace")
  /\ ChangesIf(st.output \in desk.on, [desk EXCEPT !.win = "session"], "resumeMove", "resumeFail")
  /\ UNCHANGED <<was, disk, st, session>>
ResumeMove ==
  /\ At("resumeMove")
  /\ ChangesIf(st.output \in desk.on, [desk EXCEPT !.at = st.output], "resumeQuiet", "resumeFail")
  /\ UNCHANGED <<was, disk, st, session>>
ResumeQuiet ==
  /\ At("resumeQuiet")
  /\ IF ~ctl.want.quiet \/ desk.quiet
     THEN Call("unmute", "resumeHeard") /\ UNCHANGED <<disk, st, left>>
     ELSE SaveThen(Quieted, "resumeSilence", Quieted, "resumeFail")
  /\ UNCHANGED <<desk, was, session>>
ResumeSilence ==
  /\ At("resumeSilence")
  /\ \/ Works /\ desk' = [desk EXCEPT !.quiet = TRUE] /\ Call("unmute", "resumeHeard")
     \/ Fails /\ UNCHANGED desk /\ To("resumeFail")
  /\ UNCHANGED <<was, disk, st, session>>
ResumeHeard ==
  /\ At("resumeHeard")
  /\ IF ~ctl.ok THEN To("resumeFail") /\ UNCHANGED <<disk, st, session, left>>
     ELSE \E r \in {[st EXCEPT !.phase = "active"]} :
            \/ Saves(r) /\ st' = r /\ session' = "active" /\ Return(TRUE)
            \/ SaveFails /\ st' = r /\ To("resumeFail") /\ UNCHANGED session
  /\ UNCHANGED <<desk, was>>

(* What this resume changed is undone; the games stay, and are muted again.*)
ResumeFail ==
  /\ At("resumeFail") /\ CallRestore(TRUE, FALSE, "resumeUndone")
  /\ UNCHANGED <<desk, was, disk, st, session, left>>
ResumeUndoneLoud ==  \* mutant: the games stay as the failed resume left them
  /\ At("resumeUndone") /\ To("no")
  /\ IF ctl.ok THEN st' = ctl.kept /\ SavesOrNot(ctl.kept) ELSE UNCHANGED <<disk, st, left>>
  /\ UNCHANGED <<desk, was, session>>
ResumeUndone ==
  /\ At("resumeUndone")
  /\ IF ctl.ok THEN st' = ctl.kept /\ SavesOrNot(ctl.kept) ELSE UNCHANGED <<disk, st, left>>
  /\ IF st'.games = {} THEN To("no") ELSE Call("mute", "resumeMuted")
  /\ UNCHANGED <<desk, was, session>>
ResumeMuted ==
  /\ At("resumeMuted")
  /\ IF ctl.ok THEN To("no") ELSE Call("finish", "no")
  /\ UNCHANGED <<desk, was, disk, st, session, left>>

---------------------------------------------------------------------------
(* exit(), of a parked session as of one that is on.                       *)
Exit ==
  \/ session = "parked" /\ Begin("finish", <<"exited", "idle">>, "Exit")
  \/ session = "active" /\ Begin("unmute", <<"exitHeard", "idle">>, "Exit")
ExitHeard ==
  /\ At("exitHeard")
  /\ ctl' = [ctl EXCEPT !.desktop = ctl.ok, !.at = "quiet", !.stack = <<"exitRestored">> \o @,
                        !.complete = TRUE, !.retained = FALSE, !.gone = FALSE]
  /\ UNCHANGED <<desk, was, disk, st, session, left>>
ExitEndsOn(ok) ==  \* mutant: a session that could not be ended is taken to be on
  /\ IF ok THEN Over(TRUE) /\ UNCHANGED left
     ELSE SavesOrNot(st) /\ UNCHANGED st /\ session' = "active" /\ Return(FALSE)
  /\ UNCHANGED <<desk, was>>
ExitEnds(ok) ==
  /\ IF ok THEN Over(TRUE) /\ UNCHANGED left
     ELSE SavesOrNot(st) /\ UNCHANGED <<st, session>> /\ Return(FALSE)
  /\ UNCHANGED <<desk, was>>
ExitRestored == At("exitRestored") /\ ExitEnds(ctl.ok /\ ctl.desktop)
Exited == At("exited") /\ ExitEnds(ctl.ok)

---------------------------------------------------------------------------
(* Each game that Omakade muted and that was heard before is on record, so *)
(* that it is unmuted after a kill.                                        *)
MutesOnRecord ==
  \A g \in desk.muted \ was.muted : disk # NoRecord /\ [game |-> g, muted |-> FALSE] \in disk.streams

(* Omakade is killed: its window goes, and nothing else.                   *)
Kill ==
  /\ left.kills > 0
  /\ left' = [left EXCEPT !.kills = @ - 1, !.lost = @ \/ ~MutesOnRecord]
  /\ desk' = [desk EXCEPT !.win = "home"]
  /\ st' = Blank /\ session' = "none" /\ ctl' = Resting
  /\ UNCHANGED <<was, disk>>

(* Games are started from Omakade and end by themselves.  One may map its  *)
(* window after the session was parked (an empty workspace is not kept, so *)
(* it is anew where the focus is), and the player may have muted it before.*)
GameStarts(g) ==
  /\ At("idle") /\ session # "none" /\ g \notin desk.games \cup desk.over /\ left.games > 0
  /\ \E quiet \in {{}, {g}} :
       /\ desk' = [desk EXCEPT !.games = @ \cup {g}, !.inside = @ \cup {g}, !.muted = @ \cup quiet,
                               !.at = IF desk.inside = {} /\ desk.win = "home" THEN Home ELSE @]
       /\ was' = [was EXCEPT !.muted = @ \cup quiet]
       /\ left' = [left EXCEPT !.games = @ - 1, !.player = @ - Cardinality(quiet)]
  /\ left'.player >= 0
  /\ UNCHANGED <<disk, st, session, ctl>>
GameEnds(g) ==
  /\ g \in desk.games
  /\ desk' = [desk EXCEPT !.games = @ \ {g}, !.inside = @ \ {g}, !.muted = @ \ {g}, !.over = @ \cup {g}]
  /\ was' = [was EXCEPT !.muted = @ \ {g}]
  /\ UNCHANGED <<disk, st, session, ctl, left>>

(* The player chooses a sound output that is not the session's.            *)
PlayerPicksSink(s) ==
  /\ At("idle") /\ left.player > 0
  /\ s \in desk.sinks \ {desk.sink, st.sink} /\ (disk # NoRecord => s # disk.sink)
  /\ desk' = [desk EXCEPT !.sink = s] /\ was' = [was EXCEPT !.sink = s]
  /\ left' = [left EXCEPT !.player = @ - 1]
  /\ UNCHANGED <<disk, st, session, ctl>>
(* A sound output goes; another is the default if it was that one.  What   *)
(* would be the default without a session is not known while one has its   *)
(* own on record.                                                          *)
SinkGoes(s) ==
  /\ left.player > 0 /\ s \in desk.sinks /\ desk.sinks # {s}
  /\ \E d \in IF s = desk.sink THEN desk.sinks \ {s} ELSE {desk.sink} :
       /\ desk' = [desk EXCEPT !.sinks = @ \ {s}, !.sink = d]
       /\ was' = [was EXCEPT !.sink = IF @ # s THEN @
                                      ELSE IF disk = NoRecord \/ disk.sink = NoSink THEN d ELSE NoSink]
  /\ left' = [left EXCEPT !.player = @ - 1]
  /\ UNCHANGED <<disk, st, session, ctl>>
(* A display is unplugged; the compositor moves what was on it.            *)
Unplug(o) ==
  /\ left.player > 0 /\ o \in desk.plugged \ {Home}
  /\ desk' = [desk EXCEPT !.plugged = @ \ {o}, !.on = @ \ {o}, !.at = IF @ = o THEN Home ELSE @]
  /\ was' = [was EXCEPT !.on = @ \ {o}]
  /\ left' = [left EXCEPT !.player = @ - 1, !.clean = FALSE]
  /\ UNCHANGED <<disk, st, session, ctl>>

Restores ==
  RecordUndone \/ RestoreQuiet \/ RestoreWindow \/ RestoreLeftover \/ RestoreFocus \/ RestoreSink
  \/ RestoreOutput \/ RestoreDisable \/ RestoreDone
Mutes == MuteGames \/ MuteRecord \/ MuteOne \/ UnmuteGames \/ UnmuteOne \/ UnmuteRecord
Settles == Settle \/ Expose \/ Settled \/ Unsettled \/ FinishRetention \/ Recover \/ RecoverAtStart
Enters ==
  (\E k \in Kinds : Enter(k)) \/ Entered \/ EnterOutput \/ EnterLight \/ EnterSink \/ EnterSetSink
  \/ EnterWindow \/ EnterPlace \/ EnterQuiet \/ EnterSilence \/ EnterLoud \/ EnterLast
  \/ EnterFail \/ EnterFailed
Parks ==
  Park \/ ParkDiscover \/ ParkMuted \/ ParkUnmuted \/ ParkRestore \/ ParkRestored \/ ParkRolledBack
Refreshes ==
  RefreshParked \/ RefreshDiscover \/ RefreshHeard \/ RefreshRestored \/ RefreshStreams
  \/ RefreshMuted
Resumes ==
  Resume \/ ResumeCapture \/ ResumeRecord \/ ResumeLight \/ ResumeSink \/ ResumeSetSink
  \/ ResumeWindow \/ ResumePlace \/ ResumeMove \/ ResumeQuiet \/ ResumeSilence \/ ResumeHeard
  \/ ResumeFail \/ ResumeUndone \/ ResumeMuted
Exits == Exit \/ ExitHeard \/ ExitRestored \/ Exited
World ==
  Kill \/ (\E g \in Games : GameStarts(g) \/ GameEnds(g))
  \/ (\E s \in Sinks : PlayerPicksSink(s) \/ SinkGoes(s)) \/ (\E o \in Outputs : Unplug(o))

GameModeNext ==
  Answer \/ Restores \/ Mutes \/ Settles \/ Enters \/ Parks \/ Refreshes \/ Resumes \/ Exits \/ World
GameModeSpec == GameModeInit /\ [][GameModeNext]_gameModeVars

---------------------------------------------------------------------------
OnRecord ==
  /\ \A o \in desk.on \ was.on : disk.lit /\ disk.output = o
  /\ was.sink \notin {NoSink, desk.sink} =>
       /\ disk.prev = was.sink
       /\ disk.sink # NoSink /\ (disk.sink = desk.sink \/ disk.sink \notin desk.sinks)
  /\ desk.quiet # was.quiet => disk.quiet
  /\ desk.win = "session" => disk.placed
Untouched ==
  desk.on = was.on /\ was.sink \in {NoSink, desk.sink} /\ desk.quiet = was.quiet /\ desk.win = "home"

(* Whatever the desktop owes to the session is on the record at the time,  *)
(* so that a kill at any point loses nothing: the display that was turned  *)
(* on, the sound output and the one before it, the silenced notifications, *)
(* and where the window is.  A sound output that is gone is not owed, nor  *)
(* one the player chose once the session's own was gone (ChosenSinkKept).  *)
(* When nothing is on record and no session is left, no game stays muted   *)
(* either, unless a kill lost the record of it.                            *)
EffectsOnRecord ==
  /\ Untouched \/ (disk # NoRecord /\ OnRecord)
  /\ session = "none" /\ disk = NoRecord /\ At("idle") /\ ~left.lost => desk.muted = was.muted

(* A restore does not replace a sound output the player chose: false, when *)
(* the session's own is gone (GameModeController.cpp:1346).                *)
ChosenSinkKept == [][ RestoreSink /\ desk'.sink # desk.sink => desk.sink # was.sink ]_gameModeVars

(* No display is turned off with a known game's window on it, not by a     *)
(* park nor by its undoing or its end, unless a leaving that is not to     *)
(* retain it failed to bring it home.                                      *)
NotStranded ==
  [][ desk.at \in desk.on /\ desk'.at \notin desk'.on /\ st.games \cap desk.inside # {}
      => ~ctl.retained /\ ~left.clean ]_gameModeVars

(* While the session is parked and is not being ended, none of the games   *)
(* it retains is heard, whatever failed on the way there.                  *)
ParkedIsQuiet ==
  At("idle") /\ session = "parked" /\ ~st.ending => Alive(st.games) \subseteq desk.muted

(* An exit, or a recovery at the start, in which nothing fails leaves no   *)
(* session and no record, whatever failed before it and whatever has been  *)
(* unplugged since: no session is there that cannot be ended.              *)
CleanEndEnds ==
  [][ ctl'.at = "idle" /\ ctl.at # "idle" /\ ctl.op \in {"Exit", "Recover"} /\ left'.clean
      /\ left'.kills = left.kills
      => session' = "none" /\ disk' = NoRecord ]_gameModeVars

(* An operation leaves the session as its caller may expect of it, on all  *)
(* paths: seen from outside, the controller implements GameModeOperations. *)
Promise == INSTANCE GameModeOperations WITH
             session <- IF At("idle") THEN session ELSE ctl.from,
             doing <- IF At("idle") THEN "none" ELSE ctl.op
ImplementsOperations == Promise!Spec
===========================================================================
