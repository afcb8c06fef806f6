--------------------------- MODULE SessionRecorder ---------------------------
(***************************************************************************)
(* The recorder of play sessions (src/src/tracking/SessionRecorder.cpp)    *)
(* over the sessions database (SessionDatabase.cpp) and the durable        *)
(* journal of refused writes (SessionJournal.cpp), beside the interface    *)
(* that deletes history (PlaySessionStore.cpp).                            *)
(*                                                                         *)
(* Time passes in polls of the recorder, and both its clocks are "now".    *)
(* A poll runs through the labels of "pc", one step for each operation or  *)
(* session it handles, so that the recorder can be killed and history      *)
(* deleted in between.  Every write the database or the journal refuses,   *)
(* and every read that fails, is paid for from a budget.                   *)
(*                                                                         *)
(* The intervals of a session are represented by the seconds they bill:    *)
(* it is what replaceSessionIntervals() compares with the row.             *)
(***************************************************************************)
EXTENDS Integers, Sequences, FiniteSets, FiniteSetsExt, SequencesExt

CONSTANTS
  Procs,         \* game processes; an identity is never used again
  Games,         \* game paths
  Keys,          \* session keys (UUIDs, never exhausted in the code)
  HandsOver,     \* processes whose match takes over a session of their game
  FlushEvery,    \* m_flushIntervalMs, in polls
  TitleGrace,    \* kTitleGracePolls
  MaxQueue,      \* kMaxPendingCloses
  MaxRecords,    \* kMaxLiveRecords
  NoRow, NoOp, NoSession, NoGame, NoIntervals, Gone,
  Conditions     \* what a behaviour may meet: how many refused operations,
                 \* deletions, kills and polls with tracking switched off, how
                 \* many polls, which processes and games, what evidence a poll
                 \* may have of a process, and whether an unfocused game pauses

ASSUME RecorderBoundsAssumption ==
  /\ {FlushEvery, MaxQueue} \subseteq Nat \ {0}
  /\ {TitleGrace, MaxRecords} \subseteq Nat
ASSUME ConditionsAssumption ==
  Conditions \subseteq
    [refused : Nat, deletes : Nat, kills : Nat, offs : Nat, polls : Nat,
     procs : SUBSET Procs, games : SUBSET Games,
     evidence : SUBSET {"verified", "titled", "none"}, pauses : BOOLEAN]
ASSUME FiniteAssumption == IsFiniteSet(Procs) /\ IsFiniteSet(Keys)
ASSUME GamesAssumption == NoGame \notin Games /\ Gone \notin Games /\ NoGame # Gone

(* An active session is filed under its process and start time (keyFor); a *)
(* match by window title has no start time: its slot is <<p, FALSE>>.      *)
Slots == Procs \X BOOLEAN

(* The rows of the database, the operations of the journal, and sessions.  *)
Rows ==
  [id : Nat \ {0}, game : Games, start : Int, end : Int, secs : Int, beat : Int, slot : Slots,
   ivs : Int \cup {NoIntervals}]
Operations ==
  [key : Keys, game : Games, start : Int, end : Int, secs : Int, slot : Slots, obs : Int,
   open : BOOLEAN, ivs : Int \cup {NoIntervals}, epoch : Nat]
Sessions ==
  [key : Keys, slot : Slots, game : Games, id : Nat, start : Int, secs : Int, mark : Int,
   flushed : Int, ivs : Int \cup {NoIntervals}, paused : BOOLEAN, titled : BOOLEAN,
   missed : Int, moving : BOOLEAN]

ASSUME NothingAssumption ==
  NoRow \notin Rows /\ NoOp \notin Operations /\ NoSession \notin Sessions /\ NoIntervals \notin Int

VARIABLES
  now,      \* the polls that have passed
  game,     \* what each process runs: a game, NoGame before it starts, Gone
  rows,     \* play_sessions and session_intervals, by session key
  tombs,    \* session_tombstones
  epoch,    \* session_game_clears
  journal,  \* the pending operation of each key
  jok,      \* m_journal is there and available
  active,   \* m_active
  queue,    \* m_pendingCloses
  tried,    \* m_lastCloseAttemptMs
  pc,       \* label of the poll or of the start-up
  off,      \* this poll found tracking switched off (endAll)
  seen,     \* the matches of this poll
  work,     \* what the loop of this label has yet to handle
  at,       \* where the loop over the queue is
  drop,     \* the keys to compact out of the journal
  left,     \* what remains of the conditions
  ran, lived  \* history: the processes that ran at the last poll, and the
              \* polls that processes ran for

database == <<rows, tombs, epoch>>
disk     == <<journal, jok>>
memory   == <<active, queue, tried>>
poll     == <<pc, off, seen, work, at, drop>>
world    == <<now, game, ran, lived>>
vars     == <<database, disk, memory, poll, world, left>>

-----------------------------------------------------------------------------
Later(m, n) == IF m > n THEN m ELSE n

Alive(p) == game[p] \in Games

(* The keys something still names: a fresh key is none of them.            *)
Minted ==
  {k \in Keys : \/ rows[k] # NoRow \/ k \in tombs \/ journal[k] # NoOp
                \/ \E i \in DOMAIN queue : queue[i].op.key = k
                \/ \E s \in Slots : active[s] # NoSession /\ active[s].key = k}

(* What storage holds, and how many operations it refused so far in this   *)
(* step.  A write answers yes or no and leaves such a state.               *)
Stored == [rows |-> rows, journal |-> journal, jok |-> jok, cost |-> 0]
Refused(st) == [st EXCEPT !.cost = @ + 1]
Yes(st) == [ok |-> TRUE, st |-> st]
No(st) == [ok |-> FALSE, st |-> st]

Open(st, k) == st.rows[k] # NoRow /\ st.rows[k].end = 0
Closed(st, k) == st.rows[k] # NoRow /\ st.rows[k].end > 0
IdIn(st) == {st.rows[k].id : k \in {l \in Keys : st.rows[l] # NoRow}}

(* Row identifiers: SQLite gives a new row one more than the largest.      *)
NextId(st) == Max({0} \cup IdIn(st)) + 1
KeyOf(st, i) == CHOOSE k \in Keys : st.rows[k] # NoRow /\ st.rows[k].id = i
RowOf(st, i) == st.rows[KeyOf(st, i)]

(* UPDATE play_sessions ... WHERE id = i                                   *)
Update(st, i, row) ==
  IF i \notin IdIn(st) THEN {No(st)}
  ELSE {No(Refused(st)), Yes([st EXCEPT !.rows[KeyOf(st, i)] = row])}

Progress(st, i, secs) == Update(st, i, [RowOf(st, i) EXCEPT !.secs = secs, !.beat = now])
End(st, i, end, secs) == Update(st, i, [RowOf(st, i) EXCEPT !.end = end, !.secs = secs])
Move(st, i, slot) ==
  IF i \in IdIn(st) /\ RowOf(st, i).end > 0 THEN {No(st)}
  ELSE Update(st, i, [RowOf(st, i) EXCEPT !.slot = slot])

(* beginSession(): the identifier of the row, 0 when it was refused.       *)
NewRow(st, o) ==
  [id |-> NextId(st), game |-> o.game, start |-> o.start, end |-> 0, secs |-> 0,
   beat |-> o.start, slot |-> o.slot, ivs |-> NoIntervals]

Begin(st, o) ==
  {[id |-> 0, st |-> Refused(st)]} \cup
  IF st.rows[o.key] # NoRow THEN {[id |-> st.rows[o.key].id, st |-> st]}
  ELSE {[id |-> NextId(st), st |-> [st EXCEPT !.rows[o.key] = NewRow(st, o)]]}

(* replaceSessionIntervals(), when there are any.                          *)
Intervals(st, k, ivs) ==
  IF ivs = NoIntervals THEN {Yes(st)}
  ELSE IF st.rows[k] = NoRow \/ st.rows[k].secs # ivs THEN {No(st)}
  ELSE {No(Refused(st)), Yes([st EXCEPT !.rows[k].ivs = ivs])}

-----------------------------------------------------------------------------
(* Replays of an operation, guarded in their transaction.  The intervals   *)
(* are written after it: they can fail when the rest is committed.         *)
Result(r, st) == [result |-> r, st |-> st]

WithIntervals(st, k, ivs) ==
  {Result(IF i.ok THEN "written" ELSE "error", i.st) : i \in Intervals(st, k, ivs)}

Failed(st) == {Result("error", Refused(st))}

(* Mutant: operations of the current epoch are stale too.                  *)
StaleAtEpoch(o) == o.key \in tombs \/ epoch[o.game] >= o.epoch

Stale(o) == o.key \in tombs \/ epoch[o.game] > o.epoch

PutRow(st, k, row) == [st EXCEPT !.rows[k] = row]

ReplayClosed(st, o) ==
  LET k == o.key
      end == Later(o.end, o.start)
      ended == [NewRow(st, o) EXCEPT !.end = end, !.beat = end, !.secs = o.secs]
  IN Failed(st) \cup
     IF Stale(o) THEN {Result("stale", st)}
     ELSE IF st.rows[k] = NoRow THEN WithIntervals(PutRow(st, k, ended), k, o.ivs)
     ELSE IF Open(st, k) THEN
       WithIntervals(PutRow(st, k, [st.rows[k] EXCEPT !.end = end, !.secs = o.secs]), k, o.ivs)
     ELSE IF st.rows[k].end = end /\ st.rows[k].secs = o.secs THEN WithIntervals(st, k, o.ivs)
     ELSE {Result("error", st)}

(* The row takes the checkpoint's progress, and is closed there when its   *)
(* process no longer plays the game.                                       *)
ReplayOpen(st, o, close) ==
  LET k == o.key
      merged == IF st.rows[k] = NoRow
                THEN [NewRow(st, o) EXCEPT !.secs = o.secs, !.beat = Later(o.start, o.obs)]
                ELSE [st.rows[k] EXCEPT !.secs = Later(@, o.secs), !.beat = Later(@, o.obs)]
      final == IF close THEN [merged EXCEPT !.end = merged.beat] ELSE merged
  IN Failed(st) \cup
     IF Stale(o) THEN {Result("stale", st)}
     ELSE IF Closed(st, k) THEN {Result("written", st)}
     ELSE WithIntervals(PutRow(st, k, final), k, o.ivs)

(* finalizeSession(), then the intervals of the retried close.             *)
Finalize(st, e) ==
  LET k == e.op.key IN
  Failed(st) \cup
  IF st.rows[k] = NoRow THEN {Result("error", st)}
  ELSE IF st.rows[k].id # e.id THEN {Result("stale", st)}
  ELSE IF Closed(st, k) THEN WithIntervals(st, k, e.op.ivs)
  ELSE WithIntervals(PutRow(st, k, [st.rows[k] EXCEPT !.end = Later(st.rows[k].start, e.op.end),
                                                      !.secs = Later(@, e.op.secs)]), k, e.op.ivs)

-----------------------------------------------------------------------------
(* SessionJournal: append() replaces the operation of a key, refuses a new *)
(* key at the cap, and gives the journal up when a write fails; the write  *)
(* may have reached the disk all the same.                                 *)
Journaled(st, o) ==
  IF ~st.jok \/ (st.journal[o.key] = NoOp
                 /\ Cardinality({k \in Keys : st.journal[k] # NoOp}) >= MaxRecords)
  THEN {st}
  ELSE LET with == [st EXCEPT !.journal[o.key] = o]
       IN {with, [Refused(st) EXCEPT !.jok = FALSE], [Refused(with) EXCEPT !.jok = FALSE]}

(* compact() of the dropped keys.  When it fails the file may be the old   *)
(* or the new one, and nothing more happens.                               *)
Compacted(st) ==
  IF drop = {} \/ ~st.jok THEN {st}
  ELSE LET kept == [st EXCEPT !.journal = [k \in Keys |-> IF k \in drop THEN NoOp ELSE @[k]]]
       IN {kept, Refused(st), Refused(kept)}

(* An operation carries the game's clear epoch.  gameClearEpoch() answers  *)
(* 0 when it cannot be read.                                               *)
Operation(s, end, obs, open, e) ==
  [key |-> s.key, game |-> s.game, start |-> s.start, end |-> end, secs |-> s.secs,
   slot |-> s.slot, obs |-> obs, open |-> open, ivs |-> s.ivs, epoch |-> e]

Epochs(st, g) ==
  {[epoch |-> epoch[g], st |-> st]} \cup
  IF epoch[g] = 0 THEN {} ELSE {[epoch |-> 0, st |-> Refused(st)]}

(* queuePending(): queued, journaled, and the queue trimmed to its cap.    *)
Trimmed(q) == IF Len(q) > MaxQueue THEN SubSeq(q, Len(q) - MaxQueue + 1, Len(q)) ELSE q

QueuePending(st, id, s, end) ==
  UNION {LET o == Operation(s, end, 0, FALSE, e.epoch)
         IN {[st |-> t, queue |-> Trimmed(Append(queue, [id |-> id, op |-> o])), tried |-> now] :
               t \in Journaled(e.st, o)} : e \in Epochs(st, s.game)}

(* checkpointActive()                                                      *)
Checkpoint(st, s) ==
  UNION {Journaled(e.st, Operation(s, 0, now, TRUE, e.epoch)) : e \in Epochs(st, s.game)}

-----------------------------------------------------------------------------
(* Active sessions.                                                        *)
(* Mutant: an adopted session is billed from its start.                    *)
SessionSinceStart(k, slot, g, id, start, secs, ivs) ==
  [key |-> k, slot |-> slot, game |-> g, id |-> id, start |-> start, secs |-> secs,
   mark |-> start, flushed |-> now, ivs |-> IF ivs = NoIntervals /\ secs > 0 THEN secs ELSE ivs,
   paused |-> FALSE, titled |-> FALSE, missed |-> 0, moving |-> FALSE]

Session(k, slot, g, id, start, secs, ivs) ==
  [key |-> k, slot |-> slot, game |-> g, id |-> id, start |-> start, secs |-> secs,
   mark |-> now, flushed |-> now, ivs |-> IF ivs = NoIntervals /\ secs > 0 THEN secs ELSE ivs,
   paused |-> FALSE, titled |-> FALSE, missed |-> 0, moving |-> FALSE]

(* recordObservedSpan()                                                    *)
Observed(s) ==
  LET billed == IF s.paused THEN 0 ELSE now - s.mark
  IN IF now = s.mark THEN s
     ELSE [s EXCEPT !.secs = @ + billed, !.mark = now,
                    !.ivs = IF @ = NoIntervals THEN billed ELSE @ + billed]

Tracked(s, st) == [s |-> s, st |-> st]

Flush(st, s) ==
  LET moves == IF s.id > 0 /\ s.moving THEN Move(st, s.id, s.slot) ELSE {Yes(st)}
      After(m) ==
        LET writes == IF s.id > 0 THEN Progress(m.st, s.id, s.secs) ELSE {No(m.st)}
        IN UNION {IF w.ok THEN {i.st : i \in Intervals(w.st, s.key, s.ivs)}
                  ELSE Checkpoint(w.st, s) : w \in writes}
  IN UNION {{Tracked([s EXCEPT !.moving = ~m.ok, !.flushed = now], t) : t \in After(m)} :
              m \in moves}

RetryInsert(st, s) ==
  IF s.id > 0 THEN {Tracked(s, st)}
  ELSE UNION {IF b.id = 0 THEN {Tracked(s, b.st)} ELSE Flush(b.st, [s EXCEPT !.id = b.id]) :
                b \in Begin(st, s)}

(* The session goes on: its row is retried, the span since the last poll   *)
(* recorded, and its progress flushed when that is due.                    *)
Continue(st, s, paused) ==
  UNION {LET o == Observed([r.s EXCEPT !.paused = paused])
         IN IF now - o.flushed >= FlushEvery THEN Flush(r.st, o) ELSE {Tracked(o, r.st)} :
           r \in RetryInsert(st, s)}

(* closeSession(): what storage and the queue are then.                    *)
Close(st, s) ==
  LET o == Observed(s)
      Ended(e) == IF e.ok THEN Intervals(e.st, o.key, o.ivs) ELSE {No(e.st)}
      ends == IF s.id > 0 THEN UNION {Ended(e) : e \in End(st, s.id, now, o.secs)}
              ELSE {No(st)}
  IN UNION {IF e.ok THEN {[st |-> e.st, queue |-> queue, tried |-> tried]}
            ELSE QueuePending(e.st, s.id, o, now) : e \in ends}

-----------------------------------------------------------------------------
Store(st) ==
  /\ rows' = st.rows /\ journal' = st.journal /\ jok' = st.jok
  /\ st.cost <= left.refused
  /\ left' = [left EXCEPT !.refused = @ - st.cost]
  /\ UNCHANGED <<tombs, epoch>>

Matched(slot, g) == \E m \in seen : m.slot = slot /\ m.game = g

(* reconcileRecoveredOpen(): the checkpoint is replayed, and the process   *)
(* that still plays the game is followed under the key it was given.       *)
Reconcile(o) ==
  LET follows == Alive(o.slot[1]) /\ Matched(o.slot, o.game)
      here == active[o.slot]
      Leave(r) == [r |-> r, active |-> active]
      Follow(r, s) == [r |-> r, active |-> [active EXCEPT ![o.slot] = s]]
      Reserved == [Session(o.key, o.slot, o.game, 0, o.start, o.secs, o.ivs)
                   EXCEPT !.titled = ~o.slot[2]]
      Adopt(r, row) ==
        IF here = NoSession
        THEN Follow(r, Session(o.key, o.slot, o.game, row.id, row.start, row.secs, o.ivs))
        ELSE IF here.key # o.key THEN Leave(Result("error", r.st))
        ELSE Follow(r, [here EXCEPT !.id = row.id, !.secs = Later(@, row.secs),
                                    !.ivs = IF o.ivs = NoIntervals /\ row.secs > 0
                                            THEN row.secs ELSE o.ivs])
      Outcomes(r) ==
        IF ~follows \/ r.result = "stale" THEN {Leave(r)}
        ELSE IF r.result = "error"
        THEN {IF here = NoSession THEN Follow(r, Reserved) ELSE Leave(r)}
        ELSE IF here # NoSession /\ here.game # o.game THEN {Leave(r)}
        ELSE {Adopt(r, r.st.rows[o.key]), Leave(Result("error", Refused(r.st)))}
  IN UNION {Outcomes(r) : r \in ReplayOpen(Stored, o, ~follows)}

(* applyJournalOperation()                                                 *)
Apply(o) ==
  IF o.open THEN Reconcile(o)
  ELSE {[r |-> r, active |-> active] : r \in ReplayClosed(Stored, o)}

-----------------------------------------------------------------------------
Init ==
  /\ now = 1 /\ game = [p \in Procs |-> NoGame] /\ ran = {} /\ lived = 0
  /\ rows = [k \in Keys |-> NoRow] /\ tombs = {} /\ epoch = [g \in Games |-> 0]
  /\ journal = [k \in Keys |-> NoOp] /\ jok = FALSE
  /\ active = [s \in Slots |-> NoSession] /\ queue = <<>> /\ tried = 0
  /\ pc = "down" /\ off = FALSE /\ seen = {} /\ work = {} /\ at = 1 /\ drop = {}
  /\ left \in Conditions

(* The world: games start, change and exit.                                *)
StartGame(p, g) ==
  /\ p \in left.procs /\ g \in left.games
  /\ pc \in {"idle", "down"} /\ game[p] = NoGame /\ now < left.polls
  /\ game' = [game EXCEPT ![p] = g]
  /\ UNCHANGED <<database, disk, memory, poll, left, now, ran, lived>>

SwitchGame(p, g) ==
  /\ g \in left.games
  /\ pc \in {"idle", "down"} /\ Alive(p) /\ game[p] # g /\ now < left.polls
  /\ game' = [game EXCEPT ![p] = g]
  /\ UNCHANGED <<database, disk, memory, poll, left, now, ran, lived>>

ExitGame(p) ==
  /\ Alive(p)
  /\ game' = [game EXCEPT ![p] = Gone]
  /\ UNCHANGED <<database, disk, memory, poll, left, now, ran, lived>>

Passes ==
  /\ now < left.polls
  /\ now' = now + 1
  /\ lived' = lived + Cardinality(ran)
  /\ ran' = {p \in Procs : Alive(p)}

(* A poll while the recorder is not running.                               *)
Pass ==
  /\ pc = "down" /\ Passes
  /\ UNCHANGED <<game, database, disk, memory, poll, left>>

(* PlaySessionStore: one finished session is deleted, or every finished    *)
(* session of a game; an open row is left alone.                           *)
DeleteSession(k) ==
  /\ left.deletes > 0 /\ Closed(Stored, k)
  /\ rows' = [rows EXCEPT ![k] = NoRow]
  /\ tombs' = tombs \cup {k}
  /\ left' = [left EXCEPT !.deletes = @ - 1]
  /\ UNCHANGED <<epoch, disk, memory, poll, world>>

ClearGame(g) ==
  /\ left.deletes > 0
  /\ rows' = [k \in Keys |-> IF Closed(Stored, k) /\ rows[k].game = g THEN NoRow ELSE rows[k]]
  /\ epoch' = [epoch EXCEPT ![g] = @ + 1]
  /\ left' = [left EXCEPT !.deletes = @ - 1]
  /\ UNCHANGED <<tombs, disk, memory, poll, world>>

-----------------------------------------------------------------------------
(* One poll of the recorder: SessionRecorder::sync(), or endAll() when     *)
(* tracking is off.                                                        *)
Sightings ==
  {{[slot |-> <<p, how[p] = "verified">>, game |-> game[p]] :
      p \in {q \in Procs : Alive(q) /\ how[q] # "none"}} :
     how \in [Procs -> left.evidence]}

Fresh == CHOOSE k \in Keys : k \notin Minted

(* A match of an active session needs no fresh key.                        *)
Follows(m) == active[m.slot] # NoSession /\ active[m.slot].game = m.game

(* The retries are due once a flush interval, while there is something to  *)
(* retry or a journal to drain.                                            *)
Poll ==
  /\ pc = "idle" /\ Passes
  /\ \E o \in BOOLEAN :
       /\ o => left.offs > 0
       /\ off' = o
       /\ left' = IF o THEN [left EXCEPT !.offs = @ - 1] ELSE left
       /\ seen' \in IF o THEN {{}} ELSE Sightings
  /\ Cardinality(Keys \ Minted) >= Cardinality({m \in seen' : ~Follows(m)})
  /\ IF now' - tried >= FlushEvery /\ (queue # <<>> \/ jok)
     THEN pc' = "retry" /\ work' = {} /\ tried' = now'
     ELSE pc' = "match" /\ work' = seen' /\ tried' = tried
  /\ UNCHANGED <<database, disk, active, queue, at, drop, game>>

(* An open entry takes what a newer checkpoint of its session says.        *)
Refreshed(o) ==
  IF o.open /\ jok /\ journal[o.key] # NoOp
  THEN [journal[o.key] EXCEPT !.slot = o.slot] ELSE o

Attempt(e) ==
  LET o == Refreshed(e.op) IN
  IF e.id > 0 THEN {[r |-> r, active |-> active] : r \in Finalize(Stored, [e EXCEPT !.op = o])}
  ELSE Apply(o)

(* retryClosed(): an entry stays queued until it is written or stale.      *)
Retry ==
  /\ pc = "retry" /\ at <= Len(queue)
  /\ \E c \in Attempt(queue[at]) :
       /\ Store(c.r.st)
       /\ active' = c.active
       /\ IF c.r.result = "error" THEN at' = at + 1 /\ UNCHANGED <<queue, drop>>
          ELSE /\ queue' = RemoveAt(queue, at)
               /\ drop' = drop \cup {queue[at].op.key}
               /\ at' = at
  /\ UNCHANGED <<tried, pc, off, seen, work, world>>

Pending(st) == IF st.jok THEN {k \in Keys : st.journal[k] # NoOp} ELSE {}

RetryDone ==
  /\ pc = "retry" /\ at > Len(queue)
  /\ \E st \in Compacted(Stored) :
       /\ Store(st)
       /\ IF Pending(st) = {} THEN pc' = "match" /\ work' = seen
          ELSE pc' = "drain" /\ work' = Pending(st)
  /\ at' = 1 /\ drop' = {}
  /\ UNCHANGED <<memory, off, seen, world>>

(* drainJournal()                                                          *)
Drain(k) ==
  /\ pc = "drain" /\ k \in work
  /\ \E c \in Apply(journal[k]) :
       /\ Store(c.r.st)
       /\ active' = c.active
       /\ drop' = IF c.r.result = "error" THEN drop ELSE drop \cup {k}
  /\ work' = work \ {k}
  /\ UNCHANGED <<queue, tried, pc, off, seen, at, world>>

DrainDone ==
  /\ pc = "drain" /\ work = {}
  /\ \E st \in Compacted(Stored) : Store(st)
  /\ pc' = "match" /\ work' = seen /\ drop' = {}
  /\ UNCHANGED <<memory, off, seen, at, world>>

(* A match whose process played another game closes that session first.    *)
Before(m) ==
  LET here == active[m.slot] IN
  IF here # NoSession /\ here.game # m.game
  THEN {[st |-> c.st, queue |-> c.queue, tried |-> c.tried,
         active |-> [active EXCEPT ![m.slot] = NoSession]] : c \in Close(Stored, here)}
  ELSE {[st |-> Stored, queue |-> queue, tried |-> tried, active |-> active]}

(* The session a match continues: its own, the one attributed to the same  *)
(* process by its title, or one it takes over from a process that is gone. *)
Continued(b, m) ==
  LET titled == <<m.slot[1], FALSE>>
      byTitle == b.active[titled]
      leavers == {s \in Slots : /\ b.active[s] # NoSession /\ ~b.active[s].titled
                                /\ b.active[s].game = m.game
                                /\ \A n \in seen : n.slot # s}
      Taken(s) == [b.active[s] EXCEPT !.slot = m.slot]
      moves(s) == IF b.active[s].id > 0 THEN Move(b.st, b.active[s].id, m.slot) ELSE {Yes(b.st)}
  IN IF b.active[m.slot] # NoSession
     THEN {[s |-> b.active[m.slot], from |-> m.slot, st |-> b.st]}
     ELSE IF ~m.slot[2] THEN {}
     ELSE IF byTitle # NoSession /\ byTitle.titled /\ byTitle.game = m.game
     THEN {[s |-> [byTitle EXCEPT !.slot = m.slot, !.titled = FALSE, !.missed = 0],
            from |-> titled, st |-> b.st]}
     ELSE IF m.slot[1] \in HandsOver
     THEN UNION {{[s |-> [Taken(s) EXCEPT !.moving = ~v.ok], from |-> s, st |-> v.st] :
                    v \in moves(s)} : s \in leavers}
     ELSE {}

Begun(m) ==
  [Session(Fresh, m.slot, m.game, 0, now, 0, NoIntervals) EXCEPT !.titled = ~m.slot[2]]

(* m_active with the session filed under its new process.                  *)
(* Mutant: it also stays where it was.                                     *)
FiledTwice(sessions, from, s) == [sessions EXCEPT ![s.slot] = s]

Filed(sessions, from, s) == [sessions EXCEPT ![from] = NoSession, ![s.slot] = s]

Match(m) ==
  /\ pc = "match" /\ m \in work
  /\ \E b \in Before(m) :
       /\ IF Continued(b, m) # {}
          THEN \E t \in Continued(b, m), paused \in {FALSE, left.pauses} :
               \E c \in Continue(t.st, t.s, paused) :
                 /\ Store(c.st)
                 /\ active' = Filed(b.active, t.from, c.s)
          ELSE /\ Minted # Keys
               /\ \E n \in Begin(b.st, Begun(m)) :
                 /\ Store(n.st)
                 /\ active' = [b.active EXCEPT ![m.slot] = [Begun(m) EXCEPT !.id = n.id]]
       /\ queue' = b.queue /\ tried' = b.tried
  /\ work' = work \ {m}
  /\ UNCHANGED <<pc, off, seen, at, drop, world>>

(* Then every active session no match stands for is looked at.             *)
MatchDone ==
  LET matched == {m.slot : m \in seen} IN
  /\ pc = "match" /\ work = {}
  /\ active' = [s \in Slots |-> IF s \in matched THEN [active[s] EXCEPT !.missed = 0]
                                ELSE active[s]]
  /\ pc' = "sweep" /\ work' = {s \in Slots \ matched : active[s] # NoSession}
  /\ UNCHANGED <<database, disk, queue, tried, off, seen, at, drop, world, left>>

InGrace(s) ==
  /\ ~off /\ active[s].titled /\ Alive(s[1])
  /\ \A m \in seen : m.slot # <<s[1], TRUE>>
  /\ active[s].missed < TitleGrace

SweepGrace(s) ==
  /\ pc = "sweep" /\ s \in work /\ InGrace(s)
  /\ \E c \in Continue(Stored, [active[s] EXCEPT !.missed = @ + 1], active[s].paused) :
       Store(c.st) /\ active' = [active EXCEPT ![s] = c.s]
  /\ work' = work \ {s}
  /\ UNCHANGED <<queue, tried, pc, off, seen, at, drop, world>>

SweepClose(s) ==
  /\ pc = "sweep" /\ s \in work /\ ~InGrace(s)
  /\ \E c \in Close(Stored, active[s]) :
       Store(c.st) /\ queue' = c.queue /\ tried' = c.tried
  /\ active' = [active EXCEPT ![s] = NoSession]
  /\ work' = work \ {s}
  /\ UNCHANGED <<pc, off, seen, at, drop, world>>

(* endAllSessions(), while nothing is queued.                              *)
AllEnded(st) ==
  [st EXCEPT !.rows = [k \in Keys |->
     IF Open(st, k)
     THEN [st.rows[k] EXCEPT !.end = now,
                             !.secs = IF st.rows[k].beat > st.rows[k].start THEN @ ELSE 0]
     ELSE st.rows[k]]]

SweepDone ==
  /\ pc = "sweep" /\ work = {}
  /\ \E st \in IF off /\ queue = <<>> THEN {AllEnded(Stored), Refused(Stored)}
               ELSE {Stored} : Store(st)
  /\ pc' = "idle" /\ off' = FALSE /\ seen' = {}
  /\ UNCHANGED <<memory, work, at, drop, world>>

-----------------------------------------------------------------------------
(* The start of the recorder: recover(), or endAll() when tracking is off. *)
(* Only matches that prove a process are looked for here.                  *)
Start ==
  /\ pc = "down" /\ now < left.polls
  /\ \E fails \in BOOLEAN, o \in BOOLEAN :
       /\ fails => left.refused > 0
       /\ o => left.offs > 0
       /\ jok' = ~fails /\ off' = o
       /\ left' = [left EXCEPT !.refused = IF fails THEN @ - 1 ELSE @,
                               !.offs = IF o THEN @ - 1 ELSE @]
       /\ IF o THEN pc' = "sweep" /\ work' = {} /\ seen' = {}
          ELSE /\ pc' = "replay"
               /\ work' = Pending([jok |-> ~fails, journal |-> journal])
               /\ \E s \in Sightings : seen' = {m \in s : m.slot[2]}
  /\ tried' = now
  /\ UNCHANGED <<database, journal, active, queue, at, drop, world>>

(* replayJournal(): what cannot be replayed is queued, once.               *)
Replay(k) ==
  /\ pc = "replay" /\ k \in work
  /\ \E c \in Apply(journal[k]) :
       /\ Store(c.r.st)
       /\ active' = c.active
       /\ IF c.r.result = "error"
          THEN /\ queue' = IF \E i \in DOMAIN queue : queue[i].op.key = k THEN queue
                           ELSE Append(queue, [id |-> 0, op |-> journal[k]])
               /\ drop' = drop
          ELSE queue' = queue /\ drop' = drop \cup {k}
  /\ work' = work \ {k}
  /\ UNCHANGED <<tried, pc, off, seen, at, world>>

(* The open rows are read once; a read that fails finds none.              *)
ReplayDone ==
  /\ pc = "replay" /\ work = {}
  /\ \E st \in Compacted(Stored) :
       \/ Store(st) /\ work' = {k \in Keys : Open(st, k)}
       \/ Store(Refused(st)) /\ work' = {}
  /\ queue' = Trimmed(queue)
  /\ pc' = "recover" /\ drop' = {}
  /\ UNCHANGED <<active, tried, off, seen, at, world>>

(* reconcileOpenSessions(): the row of a process that is gone ends at its  *)
(* last heartbeat.  A row that goes on is adopted when its process still   *)
(* plays the game, and ended there too when it does not.                   *)
Ends(st, k) == End(st, rows[k].id, Later(rows[k].start, rows[k].beat), rows[k].secs)

Survives(st, k) ==
  LET r == rows[k]
      s == [key |-> k, game |-> r.game, slot |-> r.slot, start |-> r.start, secs |-> r.secs,
            ivs |-> r.ivs]
      same(t) == [st |-> t, active |-> active, queue |-> queue, tried |-> tried]
  IN IF active[r.slot] # NoSession THEN {same(st)}
     ELSE IF r.slot[2] /\ Matched(r.slot, r.game)
     THEN {[same(st) EXCEPT !.active[r.slot] =
              Session(k, r.slot, r.game, r.id, r.start, r.secs, r.ivs)]}
     ELSE UNION {IF e.ok THEN {same(e.st)}
                 ELSE {[same(c.st) EXCEPT !.queue = c.queue, !.tried = c.tried] :
                         c \in QueuePending(e.st, r.id, s, Later(r.start, r.beat))} :
                   e \in Ends(st, k)}

Recover(k) ==
  LET alive == rows[k].slot[2] /\ Alive(rows[k].slot[1])
      attempts == IF alive THEN {No(Stored)} ELSE Ends(Stored, k)
  IN
  /\ pc = "recover" /\ k \in work
  /\ \E e \in attempts :
       \/ e.ok /\ Store(e.st) /\ UNCHANGED memory
       \/ /\ ~e.ok
          /\ \E c \in Survives(e.st, k) :
               Store(c.st) /\ active' = c.active /\ queue' = c.queue /\ tried' = c.tried
  /\ work' = work \ {k}
  /\ UNCHANGED <<pc, off, seen, at, drop, world>>

RecoverDone ==
  /\ pc = "recover" /\ work = {}
  /\ pc' = "idle" /\ seen' = {}
  /\ UNCHANGED <<database, disk, memory, off, work, at, drop, world, left>>

(* The recorder is killed, or its machine stops.                           *)
Kill ==
  /\ pc # "down" /\ left.kills > 0
  /\ left' = [left EXCEPT !.kills = @ - 1]
  /\ pc' = "down" /\ off' = FALSE /\ seen' = {} /\ work' = {} /\ at' = 1 /\ drop' = {}
  /\ active' = [s \in Slots |-> NoSession] /\ queue' = <<>> /\ tried' = 0
  /\ jok' = FALSE
  /\ UNCHANGED <<database, journal, world>>

Step ==
  \/ Poll \/ Retry \/ RetryDone \/ DrainDone \/ MatchDone \/ SweepDone
  \/ Start \/ ReplayDone \/ RecoverDone
  \/ \E k \in Keys : Drain(k) \/ Replay(k) \/ Recover(k)
  \/ \E m \in seen : Match(m)
  \/ \E s \in Slots : SweepGrace(s) \/ SweepClose(s)

World ==
  \/ Pass
  \/ \E p \in Procs, g \in Games : StartGame(p, g) \/ SwitchGame(p, g)
  \/ \E p \in Procs : ExitGame(p)
  \/ \E k \in Keys : DeleteSession(k)
  \/ \E g \in Games : ClearGame(g)

Next == Step \/ Kill \/ World

Spec == Init /\ [][Next]_vars

-----------------------------------------------------------------------------
(* The play that rows, pending operations and active sessions claim for    *)
(* one session, each its total; and the seconds of it, each counted once   *)
(* however many of them claim it.                                          *)
Totals(k) ==
  {rows[l].secs : l \in {l \in {k} : rows[l] # NoRow}}
  \cup {journal[l].secs : l \in {l \in {k} : journal[l] # NoOp}}
  \cup {queue[i].op.secs : i \in {j \in DOMAIN queue : queue[j].op.key = k}}
  \cup {active[s].secs : s \in {t \in Slots : active[t] # NoSession /\ active[t].key = k}}
ClaimedPlay == UNION {{k} \X UNION {1 .. n : n \in Totals(k)} : k \in Keys}

(* Over all sessions no more play is claimed than processes ran for: not   *)
(* when a session is handed over or upgraded from a title to a proof, when *)
(* a killed recorder adopts what it left, or when a write is replayed.  A  *)
(* row never holds more play than there is between its boundaries: every   *)
(* path that ends a row at an earlier time (a heartbeat, a checkpoint, the *)
(* original close) leaves no later total in it.                            *)
NoPlayInvented ==
  /\ Cardinality(ClaimedPlay) <= lived
  /\ \A k \in Keys : rows[k] # NoRow =>
       rows[k].secs <= Later(rows[k].end, rows[k].beat) - rows[k].start

(* Two active sessions are never one session: a key is followed under a    *)
(* single process at a time, when every process is matched by proof and as *)
(* long as no active session holds another's row identifier, which takes a *)
(* deletion and more processes of one game than the runs' instances have.  *)
OneSessionPerKey ==
  left.evidence = {"verified"} => \A s, t \in Slots :
    (active[s] # NoSession /\ active[t] # NoSession /\ active[s].key = active[t].key) => s = t

(* The row identifier an active session updates is that of its own row, or *)
(* of none: row identifiers are handed out again after a deletion.         *)
IdsNameOwnRow ==
  \A s \in Slots : active[s] # NoSession =>
    \A k \in Keys : (rows[k] # NoRow /\ rows[k].id = active[s].id) => k = active[s].key

(* An operation leaves the journal only once its session has a row, or the *)
(* session was deleted or its game cleared after the epoch it carries.     *)
ReplayedBeforeDropped ==
  [][\A k \in Keys : (journal[k] # NoOp /\ journal'[k] = NoOp) =>
       rows[k] # NoRow \/ k \in tombs \/ epoch[journal[k].game] > journal[k].epoch]_vars
=============================================================================
