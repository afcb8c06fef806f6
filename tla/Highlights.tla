----------------------------- MODULE Highlights -----------------------------
(* The highlights of omakade-sessiond: HighlightService follows the game   *)
(* of the guide's snapshots and keeps a ReplayBuffer, one recorder process *)
(* with a socket, running on its display; clips are saved through it.      *)
(* Both live on one thread: every handler is one step, with the callbacks  *)
(* and signals it calls.                                                   *)
EXTENDS Integers, Sequences, FiniteSets, Functions

CONSTANTS
  Games,        \* game processes, by pid and start time
  Monitors,     \* outputs
  Clips,        \* requests for a clip
  Recorders,    \* recorder processes that may exist at a time
  MaxFailures,  \* kMaxFailures
  MayNotStart,  \* whether start() may fail before it has a process
  MaxChanges,   \* bound: changes of the settings file
  NoGame, NoMonitor, NoRecorder, NoSocket

ASSUME ConstantsOK ==
  /\ NoGame \notin Games /\ NoMonitor \notin Monitors
  /\ NoRecorder \notin Recorders /\ NoSocket \notin [save : Clips, proc : Recorders]
  /\ MaxFailures \in Nat \ {0} /\ MayNotStart \in BOOLEAN /\ MaxChanges \in Nat

VARIABLES
  alive,    \* the game processes that run
  config,   \* the settings file: whether highlights are on
  changes,  \* how often the file was changed
  procs,    \* per recorder process: whether it runs, was told to end, has its socket
  buf,      \* ReplayBuffer
  svc,      \* HighlightService
  clips,    \* per request: how far it is, and the game and output it is of
  spawned   \* history: recorders started in a row for one game and output

outside == <<alive, config, changes>>
highlightsVars == <<alive, config, changes, procs, buf, svc, clips, spawned>>

(* The state a handler starts from.                                        *)
St == [procs |-> procs, buf |-> buf, svc |-> svc, clips |-> clips, spawned |-> spawned]

Becomes(st) ==
  /\ procs' = st.procs /\ buf' = st.buf /\ svc' = st.svc
  /\ clips' = st.clips /\ spawned' = st.spawned

Nowhere == [game |-> NoGame, monitor |-> NoMonitor]
NoProcess == [runs |-> FALSE, told |-> FALSE, ready |-> FALSE, game |-> NoGame, monitor |-> NoMonitor]
Upto(n, max) == IF n > max THEN max ELSE n

-----------------------------------------------------------------------------
(* ReplayBuffer.                                                           *)

ChangedUncounted(st, state) ==
  [st EXCEPT !.svc.healthy = FALSE,
             !.svc.retry = @ \/ (state = "failed" /\ st.svc.enabled /\ st.svc.game # NoGame)]

(* bufferStateChanged(): a failure counts, a recorder that ran for a       *)
(* minute first starts the count again; the last one is reported.          *)
Changed(st, state) ==
  LET healthy == st.svc.healthy
      failures == Upto((IF healthy THEN 0 ELSE st.svc.failures) + 1, MaxFailures)
      reported == ~healthy /\ st.svc.reported
  IN IF state = "failed" /\ st.svc.enabled /\ st.svc.game # NoGame
     THEN [st EXCEPT !.svc.healthy = FALSE, !.svc.failures = failures,
                     !.svc.retry = @ \/ failures < MaxFailures,
                     !.svc.reported = reported \/ failures >= MaxFailures,
                     !.spawned = IF healthy THEN 0 ELSE @]
     ELSE [st EXCEPT !.svc.healthy = FALSE]

(* setState(): the signal is for a change only.                            *)
SetState(st, state) ==
  IF st.buf.state = state THEN st ELSE Changed([st EXCEPT !.buf.state = state], state)

(* The callbacks of saves that failed.                                     *)
Fail(st, failed) ==
  [st EXCEPT !.clips = [c \in Clips |-> IF c \in failed THEN [@[c] EXCEPT !.phase = "failed"] ELSE @[c]],
             !.svc.saving = @ - Cardinality(failed)]

(* The callback of a save, which is the clip's: with a file the clip goes  *)
(* on to be filed, without one it has failed.                              *)
Answer(st, clip, sock, saved) ==
  IF saved
  THEN [st EXCEPT !.clips[clip] =
          [@ EXCEPT !.phase = "filing",
                    !.shows = [game |-> st.procs[sock.proc].game,
                               monitor |-> st.procs[sock.proc].monitor]]]
  ELSE Fail(st, {clip})

FinishSavesSilently(st) ==
  [st EXCEPT !.buf.saves = <<>>, !.buf.sock = NoSocket, !.buf.late = st.buf.sock]

(* Every save of the queue is answered with an error.                      *)
FinishSaves(st) ==
  Fail([st EXCEPT !.buf.saves = <<>>, !.buf.sock = NoSocket, !.buf.late = st.buf.sock],
       Range(st.buf.saves))

StopKeepingSaves(st) ==
  LET idle == [st EXCEPT !.buf.polling = FALSE, !.buf.sock = NoSocket, !.buf.late = st.buf.sock]
      p == st.buf.proc
  IN SetState(IF p = NoRecorder THEN idle
              ELSE [idle EXCEPT !.buf.proc = NoRecorder,
                                !.procs[p] = IF @.runs THEN [@ EXCEPT !.told = TRUE] ELSE NoProcess],
              "stopped")

(* stop(): the recorder is left to end, with three seconds to do so.       *)
StopRecorder(st) ==
  LET idle == FinishSaves([st EXCEPT !.buf.polling = FALSE])
      p == st.buf.proc
  IN SetState(IF p = NoRecorder THEN idle
              ELSE [idle EXCEPT !.buf.proc = NoRecorder,
                                !.procs[p] = IF @.runs THEN [@ EXCEPT !.told = TRUE] ELSE NoProcess],
              "stopped")

(* runNextSave(): the first saves of the queue may fail to connect, one    *)
(* after the other; then one is asked for, or none is left.                *)
RunNextSave(st) ==
  IF st.buf.sock # NoSocket \/ st.buf.saves = <<>> \/ st.buf.state # "running" THEN {st}
  ELSE LET q == st.buf.saves
           Skipping(n) ==
             Fail([st EXCEPT !.buf.saves = SubSeq(q, n + 1, Len(q)),
                             !.buf.sock = IF n = Len(q) THEN NoSocket
                                          ELSE [save |-> q[n + 1], proc |-> st.buf.proc]],
                  Range(SubSeq(q, 1, n)))
       IN {Skipping(n) : n \in 0 .. Len(q)}

(* complete(): only the connection of the current save is listened to.     *)
Complete(st, sock, saved) ==
  IF sock # st.buf.sock THEN {[st EXCEPT !.buf.late = NoSocket]}
  ELSE LET free == [st EXCEPT !.buf.sock = NoSocket, !.buf.late = sock, !.buf.saves = Tail(@)]
       IN RunNextSave(Answer(free, Head(st.buf.saves), sock, saved))

StartBeside(st, monitor) ==
  {SetState([st EXCEPT !.buf.monitor = monitor, !.buf.proc = p, !.buf.polling = TRUE,
                       !.procs[p] = [NoProcess EXCEPT !.runs = TRUE, !.game = st.svc.bufGame,
                                                    !.monitor = monitor]], "starting") :
     p \in {r \in Recorders : st.procs[r] = NoProcess}}

(* start(): over a running recorder, for which it stops; it fails at once  *)
(* without a program or a folder.                                          *)
StartRecorder(st, monitor) ==
  LET over == [(IF st.buf.proc # NoRecorder THEN StopRecorder(st) ELSE st) EXCEPT !.buf.monitor = monitor]
      Spawned(p) ==
        SetState([over EXCEPT !.buf.proc = p, !.buf.polling = TRUE,
                              !.procs[p] = [NoProcess EXCEPT !.runs = TRUE, !.game = st.svc.bufGame,
                                                           !.monitor = monitor],
                              !.spawned = Upto(@ + 1, MaxFailures + 1)], "starting")
  IN {Spawned(p) : p \in {r \in Recorders : over.procs[r] = NoProcess}}
     \cup (IF MayNotStart THEN {SetState(over, "failed")} ELSE {})

-----------------------------------------------------------------------------
(* HighlightService.                                                       *)

StopBuffer(st) ==
  LET calm == [st EXCEPT !.svc.retry = FALSE, !.spawned = 0]
  IN IF calm.buf.state = "stopped" THEN calm ELSE StopRecorder(calm)

(* Whether the buffer is the followed game's, on its output.               *)
Current(st) == st.svc.bufGame = st.svc.game /\ st.buf.monitor = st.svc.monitor

StartBuffer(st) ==
  LET next == [st EXCEPT !.svc.bufGame = st.svc.game,
                         !.spawned = IF Current(st) THEN @ ELSE 0]
  IN StartRecorder(next, st.svc.monitor)

Forgotten(st) ==
  [st EXCEPT !.svc.failures = 0, !.svc.reported = FALSE, !.svc.retry = FALSE]

RefreshedGame(st) ==
  IF st.svc.game \in Games \ alive
  THEN [Forgotten(st) EXCEPT !.svc.game = NoGame, !.svc.monitor = NoMonitor] ELSE st

(* reconcile(): reads the settings and drops a game that ended; then it    *)
(* stops, keeps or starts the buffer.                                      *)
Refreshed(st) ==
  LET read == [st EXCEPT !.svc.enabled = config]
  IN IF st.svc.game \in Games \ alive
     THEN [Forgotten(read) EXCEPT !.svc.game = NoGame, !.svc.monitor = NoMonitor] ELSE read

Reconcile(before) ==
  LET st == Refreshed(before)
  IN IF ~st.svc.enabled \/ st.svc.game = NoGame \/ st.svc.monitor = NoMonitor THEN {StopBuffer(st)}
     ELSE IF /\ Current(st)
             /\ \/ st.buf.state \in {"running", "starting"}
                \/ st.buf.state = "failed" /\ (st.svc.retry \/ st.svc.failures >= MaxFailures)
     THEN {st}
     ELSE StartBuffer(st)

(* follow(): a snapshot that names a game, or none.                        *)
Followed(st, game, monitor) ==
  IF game = NoGame THEN st
  ELSE IF game # st.svc.game
  THEN [Forgotten(st) EXCEPT !.svc.game = game, !.svc.monitor = monitor]
  ELSE [st EXCEPT !.svc.monitor = IF monitor = NoMonitor THEN @ ELSE monitor]

-----------------------------------------------------------------------------
HighlightsInit ==
  /\ alive = Games /\ config = TRUE /\ changes = 0
  /\ procs = [r \in Recorders |-> NoProcess]
  /\ buf = [proc |-> NoRecorder, state |-> "stopped", monitor |-> NoMonitor, polling |-> FALSE,
            saves |-> <<>>, sock |-> NoSocket, late |-> NoSocket]
  /\ svc = [enabled |-> TRUE, game |-> NoGame, monitor |-> NoMonitor, bufGame |-> NoGame,
            failures |-> 0, reported |-> FALSE, retry |-> FALSE, healthy |-> FALSE, saving |-> 0]
  /\ clips = [c \in Clips |-> [phase |-> "none", of |-> Nowhere, shows |-> Nowhere]]
  /\ spawned = 0

StartSeenIdle ==
  /\ buf.polling /\ buf.state = "starting" /\ procs[buf.proc].ready
  /\ Becomes(SetState([St EXCEPT !.buf.polling = FALSE], "running"))
  /\ UNCHANGED outside

(* The poll of a starting recorder finds its socket.                       *)
StartSeen ==
  /\ buf.polling /\ buf.state = "starting" /\ procs[buf.proc].ready
  /\ \E st \in RunNextSave(SetState([St EXCEPT !.buf.polling = FALSE], "running")) : Becomes(st)
  /\ UNCHANGED outside

(* The poll finds none until the deadline.                                 *)
StartTimesOut ==
  /\ buf.polling /\ buf.state = "starting" /\ ~procs[buf.proc].ready
  /\ \E st \in {StopRecorder([St EXCEPT !.buf.polling = FALSE])} : Becomes(SetState(st, "failed"))
  /\ UNCHANGED outside

(* The recorder exited, crashed or could not be executed.                  *)
RecorderExits ==
  /\ buf.proc # NoRecorder /\ ~procs[buf.proc].runs
  /\ Becomes(SetState(FinishSaves([St EXCEPT !.buf.polling = FALSE, !.buf.proc = NoRecorder,
                                           !.procs[buf.proc] = NoProcess]), "failed"))
  /\ UNCHANGED outside

SaveDone ==
  /\ buf.sock # NoSocket /\ procs[buf.sock.proc].ready
  /\ \E st \in Complete(St, buf.sock, TRUE) : Becomes(st)
  /\ UNCHANGED outside

(* The recorder refuses, the connection breaks, or the time is over.       *)
SaveFails ==
  /\ buf.sock # NoSocket
  /\ \E st \in Complete(St, buf.sock, FALSE) : Becomes(st)
  /\ UNCHANGED outside

(* The time of a connection that was given up a moment ago is over: it is  *)
(* deleted when the event loop comes to that.                              *)
LateTimer ==
  /\ buf.late # NoSocket
  /\ \E st \in Complete(St, buf.late, FALSE) : Becomes(st)
  /\ UNCHANGED outside

(* The recorder has run for a minute.                                      *)
RanLong ==
  /\ buf.state = "running" /\ ~svc.healthy
  /\ svc' = [svc EXCEPT !.healthy = TRUE]
  /\ UNCHANGED <<outside, procs, buf, clips, spawned>>

FollowSnapshot(game, monitor) ==
  /\ \E st \in Reconcile(Followed(St, game, monitor)) : Becomes(st)
  /\ UNCHANGED outside

Tick ==
  /\ \E st \in Reconcile(St) : Becomes(st)
  /\ UNCHANGED outside

RetryDue ==
  /\ svc.retry
  /\ \E st \in Reconcile([St EXCEPT !.svc.retry = FALSE]) : Becomes(st)
  /\ UNCHANGED outside

(* clip(): refused with a reason, or asked of the buffer.                  *)
AskForClip(clip) ==
  /\ clips[clip].phase = "none"
  /\ config /\ svc.game # NoGame /\ buf.state \in {"running", "starting"}
  /\ \E st \in RunNextSave([St EXCEPT
                !.clips[clip] = [@ EXCEPT !.phase = "asked",
                                          !.of = [game |-> svc.game, monitor |-> svc.monitor]],
                !.svc.saving = @ + 1, !.buf.saves = Append(@, clip)]) : Becomes(st)
  /\ UNCHANGED outside

(* The file of a clip was trimmed, measured and moved, or could not be.    *)
Filed(clip) ==
  /\ clips[clip].phase = "filing"
  /\ \E phase \in {"saved", "failed"} :
       Becomes([St EXCEPT !.clips[clip].phase = phase, !.svc.saving = @ - 1])
  /\ UNCHANGED outside

-----------------------------------------------------------------------------
(* Games, settings and recorders, which act on their own.                  *)
GameEnds(game) ==
  /\ game \in alive /\ alive' = alive \ {game}
  /\ UNCHANGED <<config, changes, procs, buf, svc, clips, spawned>>

SettingsChange ==
  /\ changes < MaxChanges
  /\ config' = ~config /\ changes' = changes + 1
  /\ UNCHANGED <<alive, procs, buf, svc, clips, spawned>>

SocketAppears(p) ==
  /\ procs[p].runs /\ ~procs[p].told /\ ~procs[p].ready
  /\ procs' = [procs EXCEPT ![p].ready = TRUE]
  /\ UNCHANGED <<outside, buf, svc, clips, spawned>>

RecorderEnds(p) ==
  /\ procs[p].runs
  /\ procs' = [procs EXCEPT ![p] = IF @.told THEN NoProcess ELSE [@ EXCEPT !.runs = FALSE]]
  /\ UNCHANGED <<outside, buf, svc, clips, spawned>>

HighlightsNext ==
  \/ StartSeen \/ StartTimesOut \/ RecorderExits \/ SaveDone \/ SaveFails \/ LateTimer
  \/ RanLong \/ Tick \/ RetryDue \/ SettingsChange
  \/ \E g \in Games, m \in Monitors \cup {NoMonitor} : FollowSnapshot(g, m)
  \/ FollowSnapshot(NoGame, NoMonitor)
  \/ \E c \in Clips : AskForClip(c) \/ Filed(c)
  \/ \E g \in Games : GameEnds(g)
  \/ \E p \in Recorders : SocketAppears(p) \/ RecorderEnds(p)

HighlightsSpec == HighlightsInit /\ [][HighlightsNext]_highlightsVars

(* The timer ticks while a recorder has no reason left to run, the start   *)
(* and each save have their time limit, helpers end, and a recorder that   *)
(* was told to end does, or is killed.                                     *)
Unwanted == buf.proc # NoRecorder /\ (~config \/ svc.game \notin alive)

HighlightsFairness ==
  /\ WF_highlightsVars(StartSeen \/ StartTimesOut) /\ WF_highlightsVars(SaveDone \/ SaveFails)
  /\ WF_highlightsVars(Unwanted /\ Tick)
  /\ \A c \in Clips : WF_highlightsVars(Filed(c))
  /\ \A p \in Recorders : WF_highlightsVars(procs[p].told /\ RecorderEnds(p))

-----------------------------------------------------------------------------
Places == [game : Games \cup {NoGame}, monitor : Monitors \cup {NoMonitor}]
Sockets == [save : Clips, proc : Recorders] \cup {NoSocket}

(* The variables hold values of their kinds.                               *)
HighlightsTypeOK ==
  /\ alive \subseteq Games /\ config \in BOOLEAN /\ changes \in 0 .. MaxChanges
  /\ procs \in [Recorders -> [runs : BOOLEAN, told : BOOLEAN, ready : BOOLEAN,
                              game : Games \cup {NoGame}, monitor : Monitors \cup {NoMonitor}]]
  /\ buf \in [proc : Recorders \cup {NoRecorder}, polling : BOOLEAN, saves : Seq(Clips),
              state : {"stopped", "starting", "running", "failed"},
              monitor : Monitors \cup {NoMonitor}, sock : Sockets, late : Sockets]
  /\ svc \in [enabled : BOOLEAN, game : Games \cup {NoGame}, monitor : Monitors \cup {NoMonitor},
              bufGame : Games \cup {NoGame}, failures : 0 .. MaxFailures, reported : BOOLEAN,
              retry : BOOLEAN, healthy : BOOLEAN, saving : Nat]
  /\ clips \in [Clips -> [phase : {"none", "asked", "filing", "saved", "failed"},
                         of : Places, shows : Places]]
  /\ spawned \in Nat

(* At most one recorder has not been told to end, and it is the buffer's:  *)
(* whatever was started over, timed out or stopped is on its way out.      *)
OneRecorder ==
  \A p \in Recorders : procs[p].runs /\ ~procs[p].told => p = buf.proc

(* The footage of a clip is of the game and the output it was asked for.   *)
FootageOfItsGame ==
  \A c \in Clips : clips[c].phase \in {"filing", "saved"} => clips[c].shows = clips[c].of

(* One save at a time: the queue of a running buffer never waits for       *)
(* nothing, and the connection is that of its first save.                  *)
QueueServed ==
  /\ buf.sock # NoSocket => buf.saves # <<>> /\ buf.sock = [save |-> Head(buf.saves), proc |-> buf.proc]
  /\ buf.state = "running" /\ buf.saves # <<>> => buf.sock # NoSocket
  /\ buf.state \in {"stopped", "failed"} => buf.saves = <<>>

(* A recorder that keeps failing over one game and output is started       *)
(* kMaxFailures times and no more.                                         *)
RecorderGivenUp == spawned <= MaxFailures

(* Every clip that was asked for is saved or failed in the end.            *)
EveryClipEnds ==
  \A c \in Clips : clips[c].phase = "asked" ~> clips[c].phase \in {"saved", "failed"}

(* With highlights off or no game left, no recorder is left running.       *)
RecordersEnd ==
  <>[](~config \/ alive = {}) => <>[](\A p \in Recorders : ~procs[p].runs)
=============================================================================
