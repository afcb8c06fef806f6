-------------------------- MODULE HighlightsProofs --------------------------
\* The safety of the highlights, for every number of games, outputs, clips
\* and recorder processes: one recorder, clips of the game they were asked
\* of, and a queue that is served.  The handlers are compositions of a few
\* operators on states; each has a lemma that says what it does to a state
\* that is sound, or sound but for what it is about to repair.  A second
\* invariant, on the count of failures, shows that a recorder that keeps
\* failing is given up.
EXTENDS Highlights, SequenceTheorems, TLAPS

\* The fields of a state, and the kinds of those that the proof reads.
Shape(st) ==
  /\ DOMAIN st = {"procs", "buf", "svc", "clips", "spawned"}
  /\ DOMAIN st.buf = {"proc", "state", "monitor", "polling", "saves", "sock", "late"}
  /\ DOMAIN st.svc = {"enabled", "game", "monitor", "bufGame", "failures", "reported", "retry",
                      "healthy", "saving"}
  /\ DOMAIN st.procs = Recorders
  /\ \A p \in Recorders : DOMAIN st.procs[p] = {"runs", "told", "ready", "game", "monitor"}
  /\ DOMAIN st.clips = Clips
  /\ \A c \in Clips : DOMAIN st.clips[c] = {"phase", "of", "shows"}
  /\ st.buf.saves \in Seq(Clips)
  /\ st.buf.proc \in Recorders \cup {NoRecorder}

OneOnly(st) ==
  \A p \in Recorders : st.procs[p].runs /\ ~st.procs[p].told => p = st.buf.proc

Shown(st) ==
  \A c \in Clips : st.clips[c].phase \in {"filing", "saved"} => st.clips[c].shows = st.clips[c].of

\* Whatever else is going on.
Base(st) == Shape(st) /\ OneOnly(st) /\ Shown(st)

\* The buffer has a recorder while it is starting or running, one that was
\* not told to end and that films the buffer's game and output.
Filming(st) ==
  /\ st.buf.state \in {"stopped", "starting", "running", "failed"}
  /\ st.buf.proc = NoRecorder <=> st.buf.state \in {"stopped", "failed"}
  /\ st.buf.proc # NoRecorder =>
       /\ ~st.procs[st.buf.proc].told
       /\ st.procs[st.buf.proc].game = st.svc.bufGame
       /\ st.procs[st.buf.proc].monitor = st.buf.monitor

\* The saves of the queue were asked of what the buffer films.
AskedOfIt(st) ==
  \A i \in 1 .. Len(st.buf.saves) :
    st.clips[st.buf.saves[i]].of = [game |-> st.svc.bufGame, monitor |-> st.buf.monitor]

\* The connection is that of the first save; no save without a recorder.
Connected(st) ==
  /\ st.buf.sock # NoSocket =>
       st.buf.saves # <<>> /\ st.buf.sock = [save |-> Head(st.buf.saves), proc |-> st.buf.proc]
  /\ st.buf.state \in {"stopped", "failed"} => st.buf.saves = <<>>

Served(st) == st.buf.state = "running" /\ st.buf.saves # <<>> => st.buf.sock # NoSocket

\* The buffer is sound in itself; between two saves it need not be served.
Open(st) == Base(st) /\ Filming(st) /\ AskedOfIt(st) /\ Connected(st)
Sound(st) == Open(st) /\ Served(st)

\* Between two handlers it is also the one of the game that is followed.
Follows(st) == st.buf.state \in {"starting", "running"} => Current(st)
Good(st) == Sound(st) /\ Follows(st)

Inv == Good(St)

-----------------------------------------------------------------------------
\* What an operator leaves alone: the game that is followed and the
\* buffer's, what clips are of and show; a clip may fail.
Keeps(st, new) ==
  /\ Shape(new)
  /\ new.svc.game = st.svc.game /\ new.svc.monitor = st.svc.monitor
  /\ new.svc.bufGame = st.svc.bufGame
  /\ \A c \in Clips : /\ new.clips[c].of = st.clips[c].of /\ new.clips[c].shows = st.clips[c].shows
                      /\ new.clips[c].phase \in {st.clips[c].phase, "failed"}

\* setState() and the service's handler of its signal touch only the
\* buffer's state and the service's counters.
LEMMA SetStateDoes ==
  ASSUME NEW st, Shape(st), NEW state
  PROVE  /\ Keeps(st, SetState(st, state))
         /\ SetState(st, state).procs = st.procs
         /\ SetState(st, state).buf.state = state
         /\ SetState(st, state).clips = st.clips
         /\ SetState(st, state).buf.proc = st.buf.proc /\ SetState(st, state).buf.saves = st.buf.saves
         /\ SetState(st, state).buf.sock = st.buf.sock /\ SetState(st, state).buf.monitor = st.buf.monitor
<1>1. CASE st.buf.state = state
  BY <1>1 DEF SetState, Keeps
<1>2. CASE st.buf.state # state
  <2> DEFINE set == [st EXCEPT !.buf.state = state]
  <2>1. /\ Shape(set) /\ set.procs = st.procs /\ set.clips = st.clips /\ set.svc = st.svc
        /\ set.buf.state = state /\ set.buf.proc = st.buf.proc /\ set.buf.saves = st.buf.saves
        /\ set.buf.sock = st.buf.sock /\ set.buf.monitor = st.buf.monitor
    BY DEF Shape
  <2> HIDE DEF set
  <2>2. /\ Shape(Changed(set, state)) /\ Changed(set, state).procs = set.procs
        /\ Changed(set, state).clips = set.clips /\ Changed(set, state).buf = set.buf
        /\ Changed(set, state).svc.game = set.svc.game
        /\ Changed(set, state).svc.monitor = set.svc.monitor
        /\ Changed(set, state).svc.bufGame = set.svc.bufGame
    BY <2>1 DEF Changed, Shape
  <2>3. SetState(st, state) = Changed(set, state)
    BY <1>2 DEF SetState, set
  <2> QED BY <2>1, <2>2, <2>3 DEF Keeps
<1> QED BY <1>1, <1>2

\* Saves that fail are answered, and nothing else happens to them.
LEMMA FailDoes ==
  ASSUME NEW st, Shape(st), NEW failed
  PROVE  Keeps(st, Fail(st, failed)) /\ Fail(st, failed).procs = st.procs /\ Fail(st, failed).buf = st.buf
<1> DEFINE clipsNext == [c \in Clips |-> IF c \in failed THEN [st.clips[c] EXCEPT !.phase = "failed"] ELSE st.clips[c]]
           saving == st.svc.saving - Cardinality(failed)
<1>1. Fail(st, failed) = [st EXCEPT !.clips = clipsNext, !.svc.saving = saving]
  BY DEF Fail
<1>2. /\ DOMAIN clipsNext = Clips
      /\ \A c \in Clips : /\ DOMAIN clipsNext[c] = {"phase", "of", "shows"}
                          /\ clipsNext[c].of = st.clips[c].of /\ clipsNext[c].shows = st.clips[c].shows
                          /\ clipsNext[c].phase \in {st.clips[c].phase, "failed"}
  BY DEF Shape
<1> HIDE DEF clipsNext, saving
<1> QED BY <1>1, <1>2 DEF Keeps, Shape

\* What is kept of clips is enough for what they show.
LEMMA KeepsShown == ASSUME NEW st, NEW new, Shown(st), Keeps(st, new) PROVE Shown(new)
BY DEF Shown, Keeps

\* finishSaves(): the queue is answered with errors and empty.
LEMMA FinishSavesDoes ==
  ASSUME NEW st, Shape(st)
  PROVE  LET idle == FinishSaves(st)
         IN  /\ Keeps(st, idle) /\ idle.procs = st.procs
             /\ idle.buf.saves = <<>> /\ idle.buf.sock = NoSocket /\ idle.buf.proc = st.buf.proc
             /\ idle.buf.state = st.buf.state /\ idle.buf.monitor = st.buf.monitor
<1> DEFINE emptied == [st EXCEPT !.buf.saves = <<>>, !.buf.sock = NoSocket, !.buf.late = st.buf.sock]
<1>1. /\ Shape(emptied) /\ emptied.procs = st.procs /\ emptied.clips = st.clips /\ emptied.svc = st.svc
      /\ emptied.buf.saves = <<>> /\ emptied.buf.sock = NoSocket /\ emptied.buf.proc = st.buf.proc
      /\ emptied.buf.monitor = st.buf.monitor /\ emptied.buf.state = st.buf.state
  <2>1. <<>> \in Seq(Clips)
    OBVIOUS
  <2> QED BY <2>1 DEF Shape
<1>2. FinishSaves(st) = Fail(emptied, Range(st.buf.saves))
  BY DEF FinishSaves
<1> HIDE DEF emptied
<1>3. /\ Keeps(emptied, FinishSaves(st)) /\ FinishSaves(st).procs = emptied.procs
      /\ FinishSaves(st).buf = emptied.buf
  BY <1>1, <1>2, FailDoes
<1> QED BY <1>1, <1>3 DEF Keeps

\* stop(): the buffer is without recorder and saves, whatever it was.
LEMMA StopDoes ==
  ASSUME NEW st, Base(st)
  PROVE  /\ Keeps(st, StopRecorder(st)) /\ Base(StopRecorder(st))
         /\ StopRecorder(st).buf.state = "stopped" /\ StopRecorder(st).buf.proc = NoRecorder
         /\ StopRecorder(st).buf.saves = <<>> /\ StopRecorder(st).buf.sock = NoSocket
         /\ StopRecorder(st).buf.monitor = st.buf.monitor
<1> DEFINE quiet == [st EXCEPT !.buf.polling = FALSE]
           idle == FinishSaves(quiet)
           p == st.buf.proc
           told == [idle EXCEPT !.buf.proc = NoRecorder,
                                !.procs[p] = IF @.runs THEN [@ EXCEPT !.told = TRUE] ELSE NoProcess]
           ended == IF p = NoRecorder THEN idle ELSE told
<1>1. StopRecorder(st) = SetState(ended, "stopped")
  BY DEF StopRecorder
<1>2. /\ Shape(quiet) /\ quiet.procs = st.procs /\ quiet.clips = st.clips /\ quiet.svc = st.svc
      /\ quiet.buf.proc = p /\ quiet.buf.monitor = st.buf.monitor
  BY DEF Base, Shape
<1> HIDE DEF quiet
<1>4. /\ Keeps(quiet, idle) /\ idle.procs = st.procs /\ idle.buf.saves = <<>>
      /\ idle.buf.sock = NoSocket /\ idle.buf.proc = p /\ idle.buf.monitor = st.buf.monitor
  BY <1>2, FinishSavesDoes
<1>5. Keeps(st, idle)
  BY <1>2, <1>4 DEF Keeps
<1> HIDE DEF idle
<1>6. /\ Keeps(st, ended) /\ ended.buf.proc = NoRecorder /\ ended.buf.saves = <<>>
      /\ ended.buf.sock = NoSocket /\ ended.buf.monitor = st.buf.monitor
      /\ \A r \in Recorders : ~(ended.procs[r].runs /\ ~ended.procs[r].told)
  <2>1. CASE p = NoRecorder
    BY <1>2, <1>4, <1>5, <2>1, ConstantsOK DEF Base, OneOnly
  <2>2. CASE p # NoRecorder
    <3> DEFINE new == IF idle.procs[p].runs THEN [idle.procs[p] EXCEPT !.told = TRUE] ELSE NoProcess
    <3>1. p \in Recorders /\ Shape(idle)
      BY <1>5, <2>2 DEF Base, Shape, Keeps
    <3>2. DOMAIN new = {"runs", "told", "ready", "game", "monitor"} /\ ~(new.runs /\ ~new.told)
      BY <3>1 DEF Shape, NoProcess
    <3> HIDE DEF new
    <3>3. told = [idle EXCEPT !.buf.proc = NoRecorder, !.procs[p] = new]
      BY DEF new
    <3> HIDE DEF told
    <3>4. /\ Shape(told) /\ told.svc = idle.svc /\ told.clips = idle.clips
          /\ told.buf.proc = NoRecorder /\ told.buf.saves = idle.buf.saves
          /\ told.buf.sock = idle.buf.sock /\ told.buf.monitor = idle.buf.monitor
          /\ told.procs[p] = new /\ \A r \in Recorders \ {p} : told.procs[r] = idle.procs[r]
      BY <3>1, <3>2, <3>3 DEF Shape
    <3>5. \A r \in Recorders : ~(told.procs[r].runs /\ ~told.procs[r].told)
      BY <1>2, <1>4, <3>2, <3>4 DEF Base, OneOnly
    <3> QED BY <1>2, <1>4, <1>5, <2>2, <3>4, <3>5 DEF Keeps
  <2> QED BY <2>1, <2>2
<1> HIDE DEF ended, told
<1>7. Shape(ended)
  BY <1>6 DEF Keeps
<1>8. /\ Keeps(ended, StopRecorder(st)) /\ StopRecorder(st).procs = ended.procs /\ StopRecorder(st).buf.state = "stopped"
      /\ StopRecorder(st).buf.proc = NoRecorder /\ StopRecorder(st).buf.saves = <<>>
      /\ StopRecorder(st).buf.sock = NoSocket /\ StopRecorder(st).buf.monitor = st.buf.monitor
  BY <1>1, <1>6, <1>7, SetStateDoes
<1>9. Keeps(st, StopRecorder(st))
  BY <1>6, <1>8 DEF Keeps
<1> QED BY <1>6, <1>8, <1>9, KeepsShown DEF Base, OneOnly, Keeps

\* A buffer with neither recorder nor saves is sound and follows.
LEMMA IdleIsGood ==
  ASSUME NEW st, Base(st), st.buf.proc = NoRecorder, st.buf.saves = <<>>, st.buf.sock = NoSocket,
         st.buf.state \in {"stopped", "failed"}
  PROVE  Good(st)
BY DEF Good, Sound, Open, Filming, AskedOfIt, Connected, Served, Follows

\* runNextSave(): a sound buffer is served again.
LEMMA RunNextSaveDoes ==
  ASSUME NEW st, Open(st), NEW next \in RunNextSave(st)
  PROVE  Sound(next) /\ Keeps(st, next) /\ next.buf.state = st.buf.state /\ next.buf.monitor = st.buf.monitor
<1>1. CASE st.buf.sock # NoSocket \/ st.buf.saves = <<>> \/ st.buf.state # "running"
  <2>1. next = st
    BY <1>1 DEF RunNextSave
  <2> QED BY <1>1, <2>1 DEF Sound, Served, Keeps, Open, Base
<1>2. CASE ~(st.buf.sock # NoSocket \/ st.buf.saves = <<>> \/ st.buf.state # "running")
  <2> DEFINE q == st.buf.saves
  <2>1. PICK n \in 0 .. Len(q) :
          next = Fail([st EXCEPT !.buf.saves = SubSeq(q, n + 1, Len(q)),
                                 !.buf.sock = IF n = Len(q) THEN NoSocket
                                              ELSE [save |-> q[n + 1], proc |-> st.buf.proc]],
                      Range(SubSeq(q, 1, n)))
    BY <1>2 DEF RunNextSave
  <2> DEFINE rest == SubSeq(q, n + 1, Len(q))
             sock == IF n = Len(q) THEN NoSocket ELSE [save |-> q[n + 1], proc |-> st.buf.proc]
             skipped == [st EXCEPT !.buf.saves = rest, !.buf.sock = sock]
  <2>2. q \in Seq(Clips) /\ Len(q) \in Nat
    BY DEF Open, Base, Shape
  <2>3. /\ rest \in Seq(Clips) /\ Len(rest) = Len(q) - n
        /\ \A i \in 1 .. Len(rest) : rest[i] = q[n + i]
    BY <2>2, SubSeqProperties
  <2>4. /\ rest # <<>> => n # Len(q)
        /\ n # Len(q) => rest # <<>> /\ Head(rest) = q[n + 1]
    <3>1. n \in Nat /\ n <= Len(q)
      BY <2>2
    <3>2. CASE n = Len(q)
      <4>1. Len(rest) = 0
        BY <2>2, <2>3, <3>2
      <4> HIDE DEF rest
      <4> QED BY <2>3, <3>2, <4>1, EmptySeq
    <3>3. CASE n # Len(q)
      <4>1. Len(rest) >= 1 /\ Len(rest) # 0
        BY <2>2, <2>3, <3>1, <3>3
      <4> HIDE DEF rest
      <4>2. rest # <<>> /\ Head(rest) = rest[1]
        BY <2>3, <4>1, EmptySeq
      <4> QED BY <2>3, <3>3, <4>1, <4>2
    <3> QED BY <3>2, <3>3
  <2>5. st.buf.proc # NoRecorder /\ st.buf.proc \in Recorders
    BY <1>2 DEF Open, Filming, Base, Shape
  <2>6. n # Len(q) => sock # NoSocket /\ sock = [save |-> Head(rest), proc |-> st.buf.proc]
    <3>1. n # Len(q) => q[n + 1] \in Clips
      BY <2>2
    <3> QED BY <2>4, <2>5, <3>1, ConstantsOK
  <2>a. n = Len(q) => sock = NoSocket
    OBVIOUS
  <2> HIDE DEF rest, sock
  <2>7. /\ Shape(skipped) /\ skipped.procs = st.procs /\ skipped.clips = st.clips /\ skipped.svc = st.svc
        /\ skipped.buf.saves = rest /\ skipped.buf.sock = sock /\ skipped.buf.proc = st.buf.proc
        /\ skipped.buf.monitor = st.buf.monitor /\ skipped.buf.state = st.buf.state
    BY <2>3 DEF Open, Base, Shape
  <2>8. next = Fail(skipped, Range(SubSeq(q, 1, n)))
    BY <2>1 DEF rest, sock
  <2> HIDE DEF skipped
  <2>9. Keeps(skipped, next) /\ next.procs = skipped.procs /\ next.buf = skipped.buf
    BY <2>7, <2>8, FailDoes
  <2>10. Keeps(st, next)
    BY <2>7, <2>9 DEF Keeps
  <2>11. Base(next)
    BY <2>7, <2>9, <2>10, KeepsShown DEF Open, Base, OneOnly, Keeps
  <2>12. Filming(next) /\ Served(next) /\ Connected(next)
    BY <1>2, <2>4, <2>6, <2>7, <2>9, <2>10, <2>a DEF Open, Filming, Keeps, Served, Connected
  <2>13. AskedOfIt(next)
    <3>1. next.buf.saves = rest /\ next.buf.monitor = st.buf.monitor /\ next.svc.bufGame = st.svc.bufGame
      BY <2>7, <2>9, <2>10 DEF Keeps
    <3>2. ASSUME NEW i \in 1 .. Len(rest)
          PROVE  next.clips[rest[i]].of = [game |-> st.svc.bufGame, monitor |-> st.buf.monitor]
      <4>1. rest[i] = q[n + i] /\ n + i \in 1 .. Len(q) /\ q[n + i] \in Clips
        BY <2>2, <2>3
      <4>2. st.clips[q[n + i]].of = [game |-> st.svc.bufGame, monitor |-> st.buf.monitor]
        BY <4>1 DEF Open, AskedOfIt
      <4> QED BY <2>10, <4>1, <4>2 DEF Keeps
    <3> QED BY <3>1, <3>2 DEF AskedOfIt
  <2> QED BY <2>7, <2>9, <2>10, <2>11, <2>12, <2>13 DEF Sound, Open
<1> QED BY <1>1, <1>2

\* complete(): a save that is done shows what the buffer films, which is
\* what it was asked of.
LEMMA CompleteDoes ==
  ASSUME NEW st, Good(st), NEW sock, sock # NoSocket, NEW saved \in BOOLEAN,
         NEW next \in Complete(st, sock, saved)
  PROVE  Good(next)
<1>1. CASE sock # st.buf.sock
  <2>1. next = [st EXCEPT !.buf.late = NoSocket]
    BY <1>1 DEF Complete
  <2>2. /\ Shape(next) /\ next.procs = st.procs /\ next.clips = st.clips /\ next.svc = st.svc
        /\ next.buf.saves = st.buf.saves /\ next.buf.sock = st.buf.sock /\ next.buf.proc = st.buf.proc
        /\ next.buf.monitor = st.buf.monitor /\ next.buf.state = st.buf.state
    BY <2>1 DEF Good, Sound, Open, Base, Shape
  <2> QED BY <2>2 DEF Good, Sound, Open, Base, OneOnly, Shown, Filming, AskedOfIt, Connected, Served,
                      Follows, Current
<1>2. CASE sock = st.buf.sock
  <2> DEFINE clip == Head(st.buf.saves)
             free == [st EXCEPT !.buf.sock = NoSocket, !.buf.late = sock, !.buf.saves = Tail(@)]
             answered == Answer(free, clip, sock, saved)
  <2>1. /\ st.buf.saves # <<>> /\ sock = [save |-> clip, proc |-> st.buf.proc]
        /\ st.buf.saves \in Seq(Clips)
    BY <1>2 DEF Good, Sound, Open, Connected, Base, Shape
  <2>2. sock.proc = st.buf.proc
    BY <2>1
  <2>3. st.buf.proc \in Recorders /\ st.buf.proc # NoRecorder
    BY <2>1 DEF Good, Sound, Open, Filming, Connected, Base, Shape
  <2>4. /\ Tail(st.buf.saves) \in Seq(Clips) /\ Len(Tail(st.buf.saves)) = Len(st.buf.saves) - 1
        /\ \A i \in 1 .. Len(Tail(st.buf.saves)) : Tail(st.buf.saves)[i] = st.buf.saves[i + 1]
        /\ clip \in Clips /\ clip = st.buf.saves[1] /\ Len(st.buf.saves) \in Nat /\ Len(st.buf.saves) >= 1
    BY <2>1, HeadTailProperties, EmptySeq
  <2>5. /\ st.clips[clip].of = [game |-> st.svc.bufGame, monitor |-> st.buf.monitor]
        /\ \A i \in 1 .. Len(Tail(st.buf.saves)) :
             st.clips[Tail(st.buf.saves)[i]].of = [game |-> st.svc.bufGame, monitor |-> st.buf.monitor]
    BY <2>4 DEF Good, Sound, Open, AskedOfIt
  <2> HIDE DEF clip
  <2>6. /\ Shape(free) /\ free.procs = st.procs /\ free.clips = st.clips /\ free.svc = st.svc
        /\ free.buf.saves = Tail(st.buf.saves) /\ free.buf.sock = NoSocket /\ free.buf.proc = st.buf.proc
        /\ free.buf.monitor = st.buf.monitor /\ free.buf.state = st.buf.state
    BY <2>4 DEF Good, Sound, Open, Base, Shape
  <2> HIDE DEF free
  <2>7. /\ Shape(answered) /\ answered.procs = st.procs /\ answered.buf = free.buf
        /\ answered.svc.game = st.svc.game /\ answered.svc.monitor = st.svc.monitor
        /\ answered.svc.bufGame = st.svc.bufGame
        /\ \A c \in Clips : answered.clips[c].of = st.clips[c].of
        /\ Shown(answered)
    <3>1. CASE saved
      <4> DEFINE shows == [game |-> free.procs[sock.proc].game, monitor |-> free.procs[sock.proc].monitor]
      <4>1. shows = st.clips[clip].of
        BY <2>2, <2>3, <2>5, <2>6 DEF Good, Sound, Open, Filming
      <4> DEFINE new == [free.clips[clip] EXCEPT !.phase = "filing", !.shows = shows]
      <4>a. DOMAIN new = {"phase", "of", "shows"} /\ new.of = free.clips[clip].of /\ new.shows = shows
        BY <2>4, <2>6 DEF Shape
      <4>2. answered = [free EXCEPT !.clips[clip] = new]
        BY <3>1 DEF Answer
      <4> HIDE DEF shows, answered, new
      <4>3. /\ Shape(answered) /\ answered.procs = free.procs /\ answered.buf = free.buf /\ answered.svc = free.svc
            /\ answered.clips[clip].of = free.clips[clip].of /\ answered.clips[clip].shows = shows
            /\ \A c \in Clips \ {clip} : answered.clips[c] = free.clips[c]
        BY <2>4, <2>6, <4>a, <4>2 DEF Shape
      <4>4. Shown(answered)
        BY <2>6, <4>1, <4>3 DEF Shown, Good, Sound, Open, Base
      <4> QED BY <2>6, <4>3, <4>4
    <3>2. CASE ~saved
      <4>1. answered = Fail(free, {clip})
        BY <3>2 DEF Answer
      <4> HIDE DEF answered
      <4>2. Keeps(free, answered) /\ answered.procs = free.procs /\ answered.buf = free.buf
        BY <2>6, <4>1, FailDoes
      <4>3. Shown(free)
        BY <2>6 DEF Shown, Good, Sound, Open, Base
      <4> QED BY <2>6, <4>2, <4>3, KeepsShown DEF Keeps
    <3> QED BY <3>1, <3>2
  <2> HIDE DEF answered
  <2>8. Open(answered)
    <3>1. OneOnly(answered) /\ Filming(answered)
      BY <2>6, <2>7 DEF Good, Sound, Open, Base, OneOnly, Filming
    <3>2. Connected(answered)
      BY <2>1, <2>6, <2>7 DEF Good, Sound, Open, Connected
    <3>3. AskedOfIt(answered)
      <4> DEFINE rest == Tail(st.buf.saves)
      <4>1. \A i \in 1 .. Len(rest) : rest[i] \in Clips
        BY <2>4
      <4>2. \A i \in 1 .. Len(rest) :
              st.clips[rest[i]].of = [game |-> st.svc.bufGame, monitor |-> st.buf.monitor]
        BY <2>5
      <4>3. /\ answered.buf.saves = rest /\ answered.buf.monitor = st.buf.monitor
            /\ answered.svc.bufGame = st.svc.bufGame
        BY <2>6, <2>7
      <4> HIDE DEF rest
      <4>4. \A i \in 1 .. Len(rest) : answered.clips[rest[i]].of = st.clips[rest[i]].of
        BY <2>7, <4>1
      <4> QED BY <4>2, <4>3, <4>4 DEF AskedOfIt
    <3> QED BY <2>7, <3>1, <3>2, <3>3 DEF Open, Base
  <2>9. next \in RunNextSave(answered)
    BY <1>2 DEF Complete, answered, free, clip
  <2>10. Sound(next) /\ Keeps(answered, next) /\ next.buf.state = answered.buf.state
         /\ next.buf.monitor = answered.buf.monitor
    BY <2>8, <2>9, RunNextSaveDoes
  <2> QED BY <2>6, <2>7, <2>10 DEF Good, Follows, Current, Keeps
<1> QED BY <1>1, <1>2

\* start(): the recorder that ran is told to end before the next one runs.
LEMMA StartDoes ==
  ASSUME NEW st, Base(st), st.svc.bufGame = st.svc.game,
         st.buf.proc = NoRecorder => /\ st.buf.state \in {"stopped", "failed"}
                                     /\ st.buf.saves = <<>> /\ st.buf.sock = NoSocket,
         NEW monitor, monitor = st.svc.monitor, NEW next \in StartRecorder(st, monitor)
  PROVE  Good(next)
<1> DEFINE idle == IF st.buf.proc # NoRecorder THEN StopRecorder(st) ELSE st
           over == [idle EXCEPT !.buf.monitor = monitor]
<1>1. /\ Base(idle) /\ Keeps(st, idle) /\ idle.buf.proc = NoRecorder /\ idle.buf.saves = <<>>
      /\ idle.buf.sock = NoSocket /\ idle.buf.state \in {"stopped", "failed"}
  <2>1. CASE st.buf.proc # NoRecorder
    BY <2>1, StopDoes
  <2>2. CASE st.buf.proc = NoRecorder
    BY <2>2 DEF Keeps, Base
  <2> QED BY <2>1, <2>2
<1> HIDE DEF idle
<1>2. /\ Shape(over) /\ over.procs = idle.procs /\ over.clips = idle.clips /\ over.svc = idle.svc
      /\ over.buf.proc = NoRecorder /\ over.buf.saves = <<>> /\ over.buf.sock = NoSocket
      /\ over.buf.state = idle.buf.state /\ over.buf.monitor = monitor
  BY <1>1 DEF Base, Shape
<1>3. Base(over)
  BY <1>1, <1>2 DEF Base, OneOnly, Shown
<1> HIDE DEF over
<1>4. CASE next = SetState(over, "failed")
  <2>1. /\ Keeps(over, next) /\ next.procs = over.procs /\ next.buf.state = "failed" /\ next.clips = over.clips
        /\ next.buf.proc = NoRecorder /\ next.buf.saves = <<>> /\ next.buf.sock = NoSocket
    BY <1>2, <1>4, SetStateDoes
  <2>2. Base(next)
    BY <1>2, <1>3, <2>1 DEF Base, Keeps, OneOnly, Shown
  <2> QED BY <2>1, <2>2, IdleIsGood
<1>5. ASSUME NEW p \in Recorders,
             next = SetState([over EXCEPT !.buf.proc = p, !.buf.polling = TRUE,
                              !.procs[p] = [NoProcess EXCEPT !.runs = TRUE, !.game = st.svc.bufGame,
                                                           !.monitor = monitor],
                              !.spawned = Upto(@ + 1, MaxFailures + 1)], "starting")
      PROVE  Good(next)
  <2> DEFINE new == [NoProcess EXCEPT !.runs = TRUE, !.game = st.svc.bufGame, !.monitor = monitor]
             count == Upto(over.spawned + 1, MaxFailures + 1)
             with == [over EXCEPT !.buf.proc = p, !.buf.polling = TRUE, !.procs[p] = new,
                                  !.spawned = count]
  <2>1. /\ DOMAIN new = {"runs", "told", "ready", "game", "monitor"} /\ ~new.told
        /\ new.game = st.svc.bufGame /\ new.monitor = monitor
    BY DEF NoProcess
  <2>2. next = SetState(with, "starting")
    BY <1>5
  <2> HIDE DEF new, count
  <2>3. /\ Shape(with) /\ with.clips = over.clips /\ with.svc = over.svc
        /\ with.procs[p] = new /\ \A r \in Recorders \ {p} : with.procs[r] = over.procs[r]
        /\ with.buf.proc = p /\ with.buf.saves = <<>> /\ with.buf.sock = NoSocket
        /\ with.buf.monitor = monitor
    BY <1>2, <2>1 DEF Shape
  <2> HIDE DEF with
  <2>4. /\ Keeps(with, next) /\ next.procs = with.procs /\ next.clips = with.clips
        /\ next.buf.state = "starting" /\ next.buf.proc = p /\ next.buf.saves = <<>>
        /\ next.buf.sock = NoSocket /\ next.buf.monitor = monitor
    BY <2>2, <2>3, SetStateDoes
  <2>5. OneOnly(next)
    BY <1>2, <1>3, <2>3, <2>4, ConstantsOK DEF Base, OneOnly
  <2>6. Shown(next)
    BY <1>3, <2>3, <2>4 DEF Base, Shown
  <2>7. /\ next.svc.game = st.svc.game /\ next.svc.monitor = st.svc.monitor
        /\ next.svc.bufGame = st.svc.bufGame
    BY <1>1, <1>2, <2>3, <2>4 DEF Keeps
  <2>8. Filming(next) /\ Follows(next)
    BY <2>1, <2>3, <2>4, <2>7, ConstantsOK DEF Filming, Follows, Current
  <2>9. AskedOfIt(next) /\ Connected(next) /\ Served(next)
    BY <2>4 DEF AskedOfIt, Connected, Served
  <2> QED BY <2>4, <2>5, <2>6, <2>8, <2>9 DEF Good, Sound, Open, Base, Keeps
<1>6. \/ next = SetState(over, "failed")
      \/ \E p \in Recorders :
           next = SetState([over EXCEPT !.buf.proc = p, !.buf.polling = TRUE,
                              !.procs[p] = [NoProcess EXCEPT !.runs = TRUE, !.game = st.svc.bufGame,
                                                           !.monitor = monitor],
                              !.spawned = Upto(@ + 1, MaxFailures + 1)], "starting")
  BY DEF StartRecorder, over, idle
<1> QED BY <1>4, <1>5, <1>6

-----------------------------------------------------------------------------
\* What a sound buffer is does not depend on the service's other members.
LEMMA SoundByParts ==
  ASSUME NEW a, NEW b, Sound(a), Shape(b), b.procs = a.procs, b.clips = a.clips,
         b.svc.bufGame = a.svc.bufGame,
         b.buf.proc = a.buf.proc, b.buf.state = a.buf.state, b.buf.monitor = a.buf.monitor,
         b.buf.saves = a.buf.saves, b.buf.sock = a.buf.sock
  PROVE  Sound(b)
BY DEF Sound, Open, Base, OneOnly, Shown, Filming, AskedOfIt, Connected, Served

\* reconcile(): whatever game is followed now, the buffer is its own.
LEMMA ReconcileDoes ==
  ASSUME NEW before, Sound(before), NEW next \in Reconcile(before)
  PROVE  Good(next)
<1> DEFINE st == Refreshed(before)
<1>1. /\ Shape(st) /\ st.procs = before.procs /\ st.clips = before.clips /\ st.buf = before.buf
      /\ st.svc.bufGame = before.svc.bufGame
  BY DEF Sound, Open, Base, Shape, Refreshed, Forgotten
<1>2. Sound(st)
  BY <1>1, SoundByParts
<1>3. /\ st.buf.proc = NoRecorder <=> st.buf.state \in {"stopped", "failed"}
      /\ st.buf.proc = NoRecorder => st.buf.saves = <<>> /\ st.buf.sock = NoSocket
  BY <1>2 DEF Sound, Open, Filming, Connected
<1>4. CASE next = StopBuffer(st)
  <2> DEFINE calm == [st EXCEPT !.svc.retry = FALSE, !.spawned = 0]
  <2> HIDE DEF st
  <2>1. /\ Shape(calm) /\ calm.procs = st.procs /\ calm.clips = st.clips /\ calm.buf = st.buf
        /\ calm.svc.bufGame = st.svc.bufGame
    BY <1>1 DEF Shape
  <2>2. Sound(calm)
    BY <1>2, <2>1, SoundByParts
  <2>3. next = IF calm.buf.state = "stopped" THEN calm ELSE StopRecorder(calm)
    BY <1>4 DEF StopBuffer
  <2> HIDE DEF calm
  <2>4. CASE calm.buf.state = "stopped"
    BY <2>2, <2>3, <2>4 DEF Good, Follows
  <2>5. CASE calm.buf.state # "stopped"
    BY <2>2, <2>3, <2>5, StopDoes, IdleIsGood DEF Sound, Open
  <2> QED BY <2>4, <2>5
<1>5. CASE next = st /\ Current(st)
  BY <1>2, <1>5 DEF Good, Follows
<1>6. CASE next \in StartBuffer(st)
  <2> DEFINE asked == [st EXCEPT !.svc.bufGame = st.svc.game,
                                 !.spawned = IF Current(st) THEN @ ELSE 0]
  <2> HIDE DEF st
  <2>1. next \in StartRecorder(asked, st.svc.monitor)
    BY <1>6 DEF StartBuffer
  <2>2. /\ Shape(asked) /\ asked.procs = st.procs /\ asked.clips = st.clips /\ asked.buf = st.buf
        /\ asked.svc.bufGame = st.svc.game /\ asked.svc.game = st.svc.game
        /\ asked.svc.monitor = st.svc.monitor
    BY <1>1 DEF Shape
  <2> HIDE DEF asked
  <2>3. Base(asked)
    BY <1>2, <2>2 DEF Sound, Open, Base, OneOnly, Shown
  <2> QED BY <1>3, <2>1, <2>2, <2>3, StartDoes
<1> HIDE DEF st
<1> QED BY <1>4, <1>5, <1>6 DEF Reconcile, st

-----------------------------------------------------------------------------
\* A handler leaves what its operators return.
LEMMA BecomesGood == ASSUME NEW st, Good(st), Becomes(st) PROVE Inv'
<1>1. procs' = st.procs /\ buf' = st.buf /\ svc' = st.svc /\ clips' = st.clips /\ spawned' = st.spawned
  BY DEF Becomes
<1> QED BY <1>1 DEF Inv, Good, Sound, Open, Base, Shape, OneOnly, Shown, Filming, AskedOfIt, Connected,
                    Served, Follows, Current, St

LEMMA InitInv == HighlightsInit => Inv
<1> SUFFICES ASSUME HighlightsInit PROVE Inv
  OBVIOUS
<1>0. St.procs = procs /\ St.buf = buf /\ St.svc = svc /\ St.clips = clips
  BY DEF St
<1>1. buf.proc = NoRecorder /\ buf.state = "stopped" /\ buf.saves = <<>> /\ buf.sock = NoSocket
  BY DEF HighlightsInit
<1>2. /\ \A p \in Recorders : procs[p] = NoProcess
      /\ \A c \in Clips : clips[c].phase = "none"
  BY DEF HighlightsInit
<1>3. Shape(St)
  <2>1. buf.saves \in Seq(Clips)
    BY <1>1
  <2>2. /\ DOMAIN St = {"procs", "buf", "svc", "clips", "spawned"}
        /\ DOMAIN buf = {"proc", "state", "monitor", "polling", "saves", "sock", "late"}
        /\ DOMAIN svc = {"enabled", "game", "monitor", "bufGame", "failures", "reported", "retry",
                         "healthy", "saving"}
    BY DEF HighlightsInit, St
  <2>3. /\ DOMAIN procs = Recorders /\ DOMAIN clips = Clips
        /\ \A c \in Clips : DOMAIN clips[c] = {"phase", "of", "shows"}
    BY DEF HighlightsInit
  <2>4. \A p \in Recorders : DOMAIN procs[p] = {"runs", "told", "ready", "game", "monitor"}
    BY <1>2 DEF NoProcess
  <2> QED BY <1>0, <1>1, <2>1, <2>2, <2>3, <2>4 DEF Shape
<1>4. Base(St)
  <2>1. ~NoProcess.runs
    BY DEF NoProcess
  <2> QED BY <1>0, <1>2, <1>3, <2>1 DEF Base, OneOnly, Shown
<1> QED BY <1>0, <1>1, <1>4, IdleIsGood DEF Inv

\* One step per action, from the lemmas on what its handler calls.
LEMMA NextInv == Inv /\ [HighlightsNext]_highlightsVars => Inv'
<1> SUFFICES ASSUME Inv, [HighlightsNext]_highlightsVars PROVE Inv'
  OBVIOUS
<1>0. /\ Good(St) /\ Sound(St) /\ Open(St) /\ Base(St) /\ Shape(St)
      /\ St.procs = procs /\ St.buf = buf /\ St.svc = svc /\ St.clips = clips /\ St.spawned = spawned
  BY DEF Inv, Good, Sound, Open, Base, St
<1>1. CASE StartSeen
  <2> DEFINE polled == [St EXCEPT !.buf.polling = FALSE]
             running == SetState(polled, "running")
  <2>1. /\ Shape(polled) /\ polled.procs = procs /\ polled.clips = clips /\ polled.svc = svc
        /\ polled.buf.proc = buf.proc /\ polled.buf.saves = buf.saves /\ polled.buf.sock = buf.sock
        /\ polled.buf.monitor = buf.monitor /\ polled.buf.state = buf.state
    BY <1>0 DEF Shape
  <2> HIDE DEF polled
  <2>2. /\ Keeps(polled, running) /\ running.procs = procs /\ running.clips = clips
        /\ running.buf.state = "running" /\ running.buf.proc = buf.proc
        /\ running.buf.saves = buf.saves /\ running.buf.sock = buf.sock
        /\ running.buf.monitor = buf.monitor
    BY <2>1, SetStateDoes
  <2>3. buf.state = "starting"
    BY <1>1 DEF StartSeen
  <2> HIDE DEF running
  <2>4. /\ Shape(running) /\ running.svc.bufGame = svc.bufGame
        /\ running.svc.game = svc.game /\ running.svc.monitor = svc.monitor
    BY <2>1, <2>2 DEF Keeps
  <2>5. Open(running) /\ Current(running)
    BY <1>0, <2>2, <2>3, <2>4
    DEF Open, Base, OneOnly, Shown, Filming, AskedOfIt, Connected, Good, Follows, Current
  <2>6. PICK st \in RunNextSave(running) : Becomes(st)
    BY <1>1 DEF StartSeen, running, polled
  <2>7. Good(st)
    BY <2>5, <2>6, RunNextSaveDoes DEF Good, Follows, Current, Keeps
  <2> QED BY <2>6, <2>7, BecomesGood
<1>2. CASE StartTimesOut
  <2> DEFINE polled == [St EXCEPT !.buf.polling = FALSE]
             stopped == StopRecorder(polled)
             failed == SetState(stopped, "failed")
  <2>1. Shape(polled) /\ polled.procs = procs /\ polled.clips = clips /\ polled.buf.proc = buf.proc
    BY <1>0 DEF Shape
  <2> HIDE DEF polled
  <2>2. Base(polled)
    BY <1>0, <2>1 DEF Base, OneOnly, Shown
  <2>3. /\ Base(stopped) /\ stopped.buf.proc = NoRecorder /\ stopped.buf.saves = <<>>
        /\ stopped.buf.sock = NoSocket
    BY <2>2, StopDoes
  <2> HIDE DEF stopped
  <2>4. Good(failed)
    <3>1. /\ Keeps(stopped, failed) /\ failed.procs = stopped.procs /\ failed.clips = stopped.clips
          /\ failed.buf.state = "failed" /\ failed.buf.proc = NoRecorder
          /\ failed.buf.saves = <<>> /\ failed.buf.sock = NoSocket
      BY <2>3, SetStateDoes DEF Base
    <3>2. Base(failed)
      BY <2>3, <3>1 DEF Base, OneOnly, Shown, Keeps
    <3> HIDE DEF failed
    <3> QED BY <3>1, <3>2, IdleIsGood
  <2>5. Becomes(failed)
    BY <1>2 DEF StartTimesOut, stopped, polled
  <2> QED BY <2>4, <2>5, BecomesGood
<1>3. CASE RecorderExits
  <2> DEFINE gone == [St EXCEPT !.buf.polling = FALSE, !.buf.proc = NoRecorder, !.procs[buf.proc] = NoProcess]
             idle == FinishSaves(gone)
             failed == SetState(idle, "failed")
  <2>1. buf.proc \in Recorders
    BY <1>0, <1>3 DEF RecorderExits, Shape
  <2>2. DOMAIN NoProcess = {"runs", "told", "ready", "game", "monitor"} /\ ~NoProcess.runs
    BY DEF NoProcess
  <2>3. /\ Shape(gone) /\ gone.clips = clips /\ gone.svc = svc /\ gone.buf.proc = NoRecorder
        /\ gone.procs[buf.proc] = NoProcess
        /\ \A r \in Recorders \ {buf.proc} : gone.procs[r] = procs[r]
    BY <1>0, <2>1, <2>2 DEF Shape
  <2> HIDE DEF gone
  <2>4. Base(gone) /\ \A r \in Recorders : ~(gone.procs[r].runs /\ ~gone.procs[r].told)
    BY <1>0, <2>2, <2>3 DEF Base, OneOnly, Shown
  <2>5. /\ Keeps(gone, idle) /\ idle.procs = gone.procs /\ idle.buf.saves = <<>>
        /\ idle.buf.sock = NoSocket /\ idle.buf.proc = NoRecorder
    BY <2>3, FinishSavesDoes
  <2>6. Base(idle)
    BY <2>4, <2>5, KeepsShown DEF Base, OneOnly, Keeps
  <2> HIDE DEF idle
  <2>7. Good(failed)
    <3>1. /\ Keeps(idle, failed) /\ failed.procs = idle.procs /\ failed.clips = idle.clips
          /\ failed.buf.state = "failed" /\ failed.buf.proc = NoRecorder
          /\ failed.buf.saves = <<>> /\ failed.buf.sock = NoSocket
      BY <2>5, <2>6, SetStateDoes DEF Base
    <3>2. Base(failed)
      BY <2>5, <2>6, <3>1 DEF Base, OneOnly, Shown, Keeps
    <3> HIDE DEF failed
    <3> QED BY <3>1, <3>2, IdleIsGood
  <2>8. Becomes(failed)
    BY <1>3 DEF RecorderExits, idle, gone
  <2> QED BY <2>7, <2>8, BecomesGood
<1>4. CASE SaveDone \/ SaveFails \/ LateTimer
  <2>1. PICK sock \in {buf.sock, buf.late}, saved \in BOOLEAN :
          sock # NoSocket /\ \E st \in Complete(St, sock, saved) : Becomes(st)
    BY <1>4 DEF SaveDone, SaveFails, LateTimer
  <2>2. PICK st \in Complete(St, sock, saved) : Becomes(st)
    BY <2>1
  <2> QED BY <1>0, <2>1, <2>2, CompleteDoes, BecomesGood
<1>5. CASE RanLong
  <2> DEFINE st == [St EXCEPT !.svc.healthy = TRUE]
  <2>1. /\ Shape(st) /\ st.procs = procs /\ st.clips = clips /\ st.buf = buf /\ st.spawned = spawned
        /\ st.svc.game = svc.game /\ st.svc.monitor = svc.monitor /\ st.svc.bufGame = svc.bufGame
        /\ st.svc = [svc EXCEPT !.healthy = TRUE]
    BY <1>0 DEF Shape
  <2> HIDE DEF st
  <2>2. Good(st)
    BY <1>0, <2>1, SoundByParts DEF Good, Follows, Current
  <2>3. Becomes(st)
    BY <1>5, <2>1 DEF RanLong, Becomes
  <2> QED BY <2>2, <2>3, BecomesGood
<1>6. ASSUME NEW game, NEW monitor, FollowSnapshot(game, monitor) PROVE Inv'
  <2> DEFINE followed == Followed(St, game, monitor)
  <2>1. /\ Shape(followed) /\ followed.procs = procs /\ followed.clips = clips /\ followed.buf = buf
        /\ followed.svc.bufGame = svc.bufGame
    BY <1>0 DEF Shape, Followed, Forgotten
  <2>2. PICK st \in Reconcile(followed) : Becomes(st)
    BY <1>6 DEF FollowSnapshot
  <2> HIDE DEF followed
  <2>3. Sound(followed)
    BY <1>0, <2>1, SoundByParts
  <2> QED BY <2>2, <2>3, ReconcileDoes, BecomesGood
<1>7. CASE Tick
  <2>1. PICK st \in Reconcile(St) : Becomes(st)
    BY <1>7 DEF Tick
  <2> QED BY <1>0, <2>1, ReconcileDoes, BecomesGood
<1>8. CASE RetryDue
  <2> DEFINE due == [St EXCEPT !.svc.retry = FALSE]
  <2>1. /\ Shape(due) /\ due.procs = procs /\ due.clips = clips /\ due.buf = buf
        /\ due.svc.bufGame = svc.bufGame
    BY <1>0 DEF Shape
  <2>2. PICK st \in Reconcile(due) : Becomes(st)
    BY <1>8 DEF RetryDue
  <2> HIDE DEF due
  <2>3. Sound(due)
    BY <1>0, <2>1, SoundByParts
  <2> QED BY <2>2, <2>3, ReconcileDoes, BecomesGood
<1>9. ASSUME NEW c \in Clips, AskForClip(c) PROVE Inv'
  <2> DEFINE of == [game |-> svc.game, monitor |-> svc.monitor]
             request == [clips[c] EXCEPT !.phase = "asked", !.of = of]
             asked == [St EXCEPT !.clips[c] = request, !.svc.saving = @ + 1, !.buf.saves = Append(@, c)]
             saves == Append(buf.saves, c)
  <2>1. buf.state \in {"running", "starting"} /\ Current(St) /\ of = [game |-> svc.bufGame, monitor |-> buf.monitor]
    BY <1>0, <1>9 DEF AskForClip, Good, Follows, Current
  <2>2. DOMAIN request = {"phase", "of", "shows"} /\ request.phase = "asked" /\ request.of = of
    BY <1>0 DEF Shape
  <2>3. PICK st \in RunNextSave(asked) : Becomes(st)
    BY <1>9, <1>0 DEF AskForClip
  <2> HIDE DEF request, of
  <2>4. /\ buf.saves \in Seq(Clips) /\ saves \in Seq(Clips) /\ Len(saves) = Len(buf.saves) + 1
        /\ Len(buf.saves) \in Nat
        /\ saves[Len(buf.saves) + 1] = c /\ \A i \in 1 .. Len(buf.saves) : saves[i] = buf.saves[i]
        /\ saves # <<>> /\ (buf.saves # <<>> => Head(saves) = Head(buf.saves))
    BY <1>0, AppendProperties DEF Shape
  <2>5. /\ Shape(asked) /\ asked.procs = procs /\ asked.clips[c] = request
        /\ \A d \in Clips \ {c} : asked.clips[d] = clips[d]
        /\ asked.buf.saves = saves /\ asked.buf.sock = buf.sock /\ asked.buf.proc = buf.proc
        /\ asked.buf.monitor = buf.monitor /\ asked.buf.state = buf.state
        /\ asked.svc.game = svc.game /\ asked.svc.monitor = svc.monitor
        /\ asked.svc.bufGame = svc.bufGame
    BY <1>0, <2>2, <2>4 DEF Shape
  <2> HIDE DEF asked, saves
  <2>6. Base(asked) /\ Filming(asked)
    BY <1>0, <2>2, <2>5 DEF Open, Base, OneOnly, Shown, Filming
  <2>7. Connected(asked)
    BY <1>0, <2>1, <2>4, <2>5 DEF Open, Connected
  <2>8. AskedOfIt(asked)
    <3>1. ASSUME NEW i \in 1 .. Len(saves)
          PROVE  asked.clips[saves[i]].of = [game |-> svc.bufGame, monitor |-> buf.monitor]
      <4>1. CASE saves[i] = c
        BY <2>1, <2>2, <2>5, <4>1
      <4>2. CASE saves[i] # c
        <5>1. i \in 1 .. Len(buf.saves) /\ saves[i] = buf.saves[i] /\ buf.saves[i] \in Clips
          BY <2>4, <4>2
        <5> QED BY <1>0, <2>5, <4>2, <5>1 DEF Open, AskedOfIt
      <4> QED BY <4>1, <4>2
    <3> QED BY <2>5, <3>1 DEF AskedOfIt
  <2>9. Good(st)
    <3>1. Sound(st) /\ Keeps(asked, st) /\ st.buf.monitor = asked.buf.monitor
      BY <2>3, <2>6, <2>7, <2>8, RunNextSaveDoes DEF Open
    <3> QED BY <1>0, <2>1, <2>5, <3>1 DEF Good, Follows, Current, Keeps
  <2> QED BY <2>3, <2>9, BecomesGood
<1>10. ASSUME NEW c \in Clips, Filed(c) PROVE Inv'
  <2>1. PICK phase \in {"saved", "failed"} :
          Becomes([St EXCEPT !.clips[c].phase = phase, !.svc.saving = @ - 1])
    BY <1>10 DEF Filed
  <2>2. clips[c].phase = "filing"
    BY <1>10 DEF Filed
  <2> DEFINE st == [St EXCEPT !.clips[c].phase = phase, !.svc.saving = @ - 1]
  <2>3. /\ Shape(st) /\ st.procs = procs /\ st.buf = buf
        /\ st.svc.game = svc.game /\ st.svc.monitor = svc.monitor /\ st.svc.bufGame = svc.bufGame
        /\ \A d \in Clips : st.clips[d].of = clips[d].of /\ st.clips[d].shows = clips[d].shows
        /\ \A d \in Clips : st.clips[d].phase = IF d = c THEN phase ELSE clips[d].phase
    BY <1>0 DEF Shape
  <2> HIDE DEF st
  <2>4. Base(st) /\ Filming(st) /\ Connected(st) /\ Served(st) /\ Follows(st)
    BY <1>0, <2>2, <2>3
    DEF Good, Sound, Open, Base, OneOnly, Shown, Filming, Connected, Served, Follows, Current
  <2>5. AskedOfIt(st)
    <3>1. \A i \in 1 .. Len(buf.saves) : buf.saves[i] \in Clips
      BY <1>0 DEF Shape
    <3> QED BY <1>0, <2>3, <3>1 DEF Open, AskedOfIt
  <2> QED BY <2>1, <2>4, <2>5, BecomesGood DEF Good, Sound, Open, st
<1>11. ASSUME NEW game, GameEnds(game) PROVE Inv'
  <2>1. St' = St
    BY <1>11 DEF GameEnds, St
  <2> QED BY <2>1 DEF Inv
<1>12. CASE SettingsChange
  <2>1. St' = St
    BY <1>12 DEF SettingsChange, St
  <2> QED BY <2>1 DEF Inv
<1>13. ASSUME NEW p \in Recorders, SocketAppears(p) \/ RecorderEnds(p) PROVE Inv'
  <2>1. /\ DOMAIN procs' = Recorders /\ UNCHANGED <<buf, svc, clips, spawned>>
        /\ \A r \in Recorders : DOMAIN procs'[r] = {"runs", "told", "ready", "game", "monitor"}
        /\ \A r \in Recorders \ {p} : procs'[r] = procs[r]
        /\ procs'[p].runs /\ ~procs'[p].told => procs[p].runs /\ ~procs[p].told
        /\ ~procs[p].told => /\ ~procs'[p].told /\ procs'[p].game = procs[p].game
                             /\ procs'[p].monitor = procs[p].monitor
    BY <1>0, <1>13 DEF SocketAppears, RecorderEnds, Shape, NoProcess
  <2> DEFINE st == [St EXCEPT !.procs = procs']
  <2>2. /\ Shape(st) /\ st.procs = procs' /\ st.buf = buf /\ st.svc = svc /\ st.clips = clips /\ st.spawned = spawned
    BY <1>0, <2>1 DEF Shape
  <2> HIDE DEF st
  <2>3. Good(st)
    BY <1>0, <2>1, <2>2 DEF Good, Sound, Open, Base, OneOnly, Shown, Filming, AskedOfIt, Connected, Served,
                            Follows, Current, Shape
  <2>4. Becomes(st)
    BY <2>1, <2>2 DEF Becomes
  <2> QED BY <2>3, <2>4, BecomesGood
<1>14. CASE UNCHANGED highlightsVars
  <2>1. St' = St
    BY <1>14 DEF highlightsVars, outside, St
  <2> QED BY <2>1 DEF Inv
<1> QED BY <1>1, <1>2, <1>3, <1>4, <1>5, <1>6, <1>7, <1>8, <1>9, <1>10, <1>11, <1>12, <1>13, <1>14 DEF HighlightsNext

LEMMA InvAlways == HighlightsSpec => []Inv
BY InitInv, NextInv, PTL DEF HighlightsSpec

\* All recorders but the buffer's were told to end, whatever was started
\* over, timed out or stopped (ReplayBuffer::start, stop).
THEOREM OneRecorderHolds == HighlightsSpec => []OneRecorder
<1>1. Inv => OneRecorder
  BY DEF Inv, Good, Sound, Open, Base, OneOnly, St, OneRecorder
<1> QED BY <1>1, InvAlways, PTL

\* A clip is of the game and the output it was asked of, however late the
\* recorder answers and whatever was followed meanwhile.
THEOREM FootageHolds == HighlightsSpec => []FootageOfItsGame
<1>1. Inv => FootageOfItsGame
  BY DEF Inv, Good, Sound, Open, Base, Shown, St, FootageOfItsGame
<1> QED BY <1>1, InvAlways, PTL

\* No save of a running buffer waits for nothing.
THEOREM QueueServedHolds == HighlightsSpec => []QueueServed
<1>1. Inv => QueueServed
  BY DEF Inv, Good, Sound, Open, Connected, Served, St, QueueServed
<1> QED BY <1>1, InvAlways, PTL

-----------------------------------------------------------------------------
\* The count behind giving up.  Every recorder that was spawned since the
\* count began has failed and was counted, but for the one that runs.
Within(st) ==
  /\ st.svc.failures \in 0 .. MaxFailures
  /\ st.spawned \in Nat
  /\ st.spawned <= MaxFailures /\ st.spawned <= st.svc.failures + 1

AllFailed(st) == st.buf.state = "failed" => st.spawned <= st.svc.failures

\* A buffer that is not stopped is the followed game's, with highlights on
\* when reconcile() last read the settings: its failures are counted.
OfGame(st) ==
  st.buf.state # "stopped" =>
    st.svc.enabled /\ st.svc.game # NoGame /\ st.svc.bufGame = st.svc.game

Counted(st) ==
  /\ Within(st) /\ AllFailed(st) /\ OfGame(st)
  /\ st.buf.state = "stopped" => st.spawned = 0

\* What reconcile() may find: a game that was followed or forgotten since
\* takes the failures with it, and then the buffer is not the game's.
Startable(st) ==
  /\ st.svc.failures \in 0 .. MaxFailures
  /\ st.spawned \in Nat
  /\ st.spawned <= MaxFailures
  /\ st.buf.state = "stopped" => st.spawned = 0
  /\ st.buf.state # "stopped" => st.svc.bufGame # NoGame
  /\ st.buf.state # "stopped" /\ st.svc.bufGame = st.svc.game => Within(st) /\ AllFailed(st)

\* What an operator leaves alone of all this.
SameCount(st, new) ==
  /\ new.spawned = st.spawned /\ new.svc.failures = st.svc.failures
  /\ new.svc.enabled = st.svc.enabled /\ new.svc.game = st.svc.game
  /\ new.svc.bufGame = st.svc.bufGame

LEMMA SameCountTwice ==
  ASSUME NEW a, NEW b, NEW c, SameCount(a, b), SameCount(b, c) PROVE SameCount(a, c)
BY DEF SameCount

LEMMA SameCountWithin ==
  ASSUME NEW st, NEW new, SameCount(st, new), Within(st) PROVE Within(new)
BY DEF SameCount, Within

LEMMA SameCountCounted ==
  ASSUME NEW st, NEW new, SameCount(st, new), Counted(st), new.buf.state = st.buf.state
  PROVE  Counted(new)
BY DEF SameCount, Counted, Within, AllFailed, OfGame

\* Only a failure is counted.
LEMMA SetStateCount ==
  ASSUME NEW st, Shape(st), NEW state, state # "failed"
  PROVE  SameCount(st, SetState(st, state))
<1> DEFINE set == [st EXCEPT !.buf.state = state]
<1>1. Shape(set) /\ SameCount(st, set)
  BY DEF Shape, SameCount
<1> HIDE DEF set
<1>2. Changed(set, state) = [set EXCEPT !.svc.healthy = FALSE]
  BY DEF Changed
<1>3. SameCount(set, Changed(set, state))
  BY <1>1, <1>2 DEF Shape, SameCount
<1>4. SetState(st, state) = IF st.buf.state = state THEN st ELSE Changed(set, state)
  BY DEF SetState, set
<1>5. SameCount(st, st)
  BY DEF SameCount
<1> QED BY <1>1, <1>3, <1>4, <1>5, SameCountTwice

\* A failure is counted for the recorder that failed, or for a start that
\* came to none; after a minute of running the count begins again.
LEMMA FailureCount ==
  ASSUME NEW st, Shape(st), Within(st), AllFailed(st),
         st.svc.enabled, st.svc.game # NoGame, st.svc.bufGame = st.svc.game
  PROVE  Counted(SetState(st, "failed"))
<1> DEFINE next == SetState(st, "failed")
           set == [st EXCEPT !.buf.state = "failed"]
<1>1. CASE st.buf.state = "failed"
  BY <1>1 DEF SetState, Counted, OfGame
<1>2. CASE st.buf.state # "failed"
  <2> DEFINE healthy == set.svc.healthy
             failures == Upto((IF healthy THEN 0 ELSE set.svc.failures) + 1, MaxFailures)
             retry == set.svc.retry \/ failures < MaxFailures
             reported == (~healthy /\ set.svc.reported) \/ failures >= MaxFailures
             tally == IF healthy THEN 0 ELSE set.spawned
  <2>1. /\ Shape(set) /\ set.spawned = st.spawned /\ set.svc = st.svc /\ set.buf.state = "failed"
    BY DEF Shape
  <2> HIDE DEF set
  <2>2. next = Changed(set, "failed")
    BY <1>2 DEF SetState, set
  <2>3. set.svc.enabled /\ set.svc.game # NoGame
    BY <2>1
  <2>4. Changed(set, "failed") =
          [set EXCEPT !.svc.healthy = FALSE, !.svc.failures = failures, !.svc.retry = retry,
                      !.svc.reported = reported, !.spawned = tally]
    BY <2>3 DEF Changed
  <2>5. failures \in 0 .. MaxFailures /\ tally \in Nat
        /\ tally <= failures /\ tally <= MaxFailures
    <3>1. CASE healthy
      BY <3>1, ConstantsOK DEF Upto
    <3>2. CASE ~healthy
      BY <2>1, <3>2, ConstantsOK DEF Upto, Within
    <3> QED BY <3>1, <3>2
  <2> HIDE DEF healthy, failures, retry, reported, tally, next
  <2>6. next = [set EXCEPT !.svc.healthy = FALSE, !.svc.failures = failures, !.svc.retry = retry,
                           !.svc.reported = reported, !.spawned = tally]
    BY <2>2, <2>4
  <2>10. next.spawned = tally /\ next.svc.failures = failures /\ next.buf.state = "failed"
    BY <2>1, <2>6 DEF Shape
  <2>11. /\ next.svc.enabled = set.svc.enabled /\ next.svc.game = set.svc.game
         /\ next.svc.bufGame = set.svc.bufGame
    BY <2>1, <2>6 DEF Shape
  <2>7. Within(next) /\ AllFailed(next)
    BY <2>5, <2>10 DEF Within, AllFailed
  <2>8. next.svc.enabled
    BY <2>3, <2>11
  <2>9. next.svc.game # NoGame /\ next.svc.bufGame = next.svc.game
    BY <2>1, <2>3, <2>11
  <2> QED BY <2>7, <2>8, <2>9, <2>10 DEF Counted, OfGame, next
<1> QED BY <1>1, <1>2

LEMMA FailCount ==
  ASSUME NEW st, Shape(st), NEW failed PROVE SameCount(st, Fail(st, failed))
<1> DEFINE clipsNext == [c \in Clips |-> IF c \in failed THEN [st.clips[c] EXCEPT !.phase = "failed"] ELSE st.clips[c]]
           saving == st.svc.saving - Cardinality(failed)
<1>1. Fail(st, failed) = [st EXCEPT !.clips = clipsNext, !.svc.saving = saving]
  BY DEF Fail
<1> HIDE DEF clipsNext, saving
<1> QED BY <1>1 DEF Shape, SameCount

LEMMA StopCount ==
  ASSUME NEW st, Base(st) PROVE SameCount(st, StopRecorder(st))
<1> DEFINE quiet == [st EXCEPT !.buf.polling = FALSE]
           emptied == [quiet EXCEPT !.buf.saves = <<>>, !.buf.sock = NoSocket, !.buf.late = quiet.buf.sock]
           idle == Fail(emptied, Range(quiet.buf.saves))
           p == st.buf.proc
           told == [idle EXCEPT !.buf.proc = NoRecorder,
                                !.procs[p] = IF @.runs THEN [@ EXCEPT !.told = TRUE] ELSE NoProcess]
           ended == IF p = NoRecorder THEN idle ELSE told
<1>1. StopRecorder(st) = SetState(ended, "stopped")
  BY DEF StopRecorder, FinishSaves
<1>2. Shape(quiet) /\ SameCount(st, quiet) /\ quiet.buf.proc = p
  BY DEF Base, Shape, SameCount
<1> HIDE DEF quiet
<1>3. Shape(emptied) /\ SameCount(quiet, emptied) /\ emptied.buf.proc = p
  <2>1. <<>> \in Seq(Clips)
    OBVIOUS
  <2> QED BY <1>2, <2>1 DEF Shape, SameCount
<1> HIDE DEF emptied
<1>4. Shape(idle) /\ SameCount(emptied, idle) /\ idle.buf.proc = p
  BY <1>3, FailDoes, FailCount DEF Keeps
<1> HIDE DEF idle
<1>5. Shape(ended) /\ SameCount(idle, ended)
  <2>1. CASE p = NoRecorder
    BY <1>4, <2>1 DEF SameCount
  <2>2. CASE p # NoRecorder
    <3> DEFINE new == IF idle.procs[p].runs THEN [idle.procs[p] EXCEPT !.told = TRUE] ELSE NoProcess
    <3>1. p \in Recorders
      BY <1>4, <2>2 DEF Shape
    <3>2. DOMAIN new = {"runs", "told", "ready", "game", "monitor"}
      BY <1>4, <3>1 DEF Shape, NoProcess
    <3> HIDE DEF new
    <3>3. told = [idle EXCEPT !.buf.proc = NoRecorder, !.procs[p] = new]
      BY DEF new
    <3> HIDE DEF told
    <3>4. Shape(told) /\ SameCount(idle, told)
      BY <1>4, <3>1, <3>2, <3>3 DEF Shape, SameCount
    <3> QED BY <2>2, <3>4
  <2> QED BY <2>1, <2>2
<1> HIDE DEF ended, told
<1>6. SameCount(ended, StopRecorder(st))
  BY <1>1, <1>5, SetStateCount
<1>7. SameCount(st, emptied)
  BY <1>2, <1>3, SameCountTwice
<1>8. SameCount(st, idle)
  BY <1>4, <1>7, SameCountTwice
<1>9. SameCount(st, ended)
  BY <1>5, <1>8, SameCountTwice
<1> QED BY <1>6, <1>9, SameCountTwice

LEMMA RunNextSaveCount ==
  ASSUME NEW st, Shape(st), NEW next \in RunNextSave(st)
  PROVE  SameCount(st, next) /\ next.buf.state = st.buf.state
<1>1. CASE next = st
  BY <1>1 DEF SameCount
<1>2. CASE next # st
  <2> DEFINE q == st.buf.saves
  <2>1. PICK n \in 0 .. Len(q) :
          next = Fail([st EXCEPT !.buf.saves = SubSeq(q, n + 1, Len(q)),
                                 !.buf.sock = IF n = Len(q) THEN NoSocket
                                              ELSE [save |-> q[n + 1], proc |-> st.buf.proc]],
                      Range(SubSeq(q, 1, n)))
    BY <1>2 DEF RunNextSave
  <2> DEFINE rest == SubSeq(q, n + 1, Len(q))
             sock == IF n = Len(q) THEN NoSocket ELSE [save |-> q[n + 1], proc |-> st.buf.proc]
             skipped == [st EXCEPT !.buf.saves = rest, !.buf.sock = sock]
             failed == Range(SubSeq(q, 1, n))
  <2>2. q \in Seq(Clips) /\ Len(q) \in Nat
    BY DEF Shape
  <2>3. rest \in Seq(Clips)
    BY <2>1, <2>2, SubSeqProperties
  <2>4. next = Fail(skipped, failed)
    BY <2>1
  <2> HIDE DEF rest, sock, failed
  <2>5. Shape(skipped) /\ SameCount(st, skipped) /\ skipped.buf.state = st.buf.state
    BY <2>3 DEF Shape, SameCount
  <2> HIDE DEF skipped
  <2> QED BY <2>4, <2>5, FailDoes, FailCount, SameCountTwice
<1> QED BY <1>1, <1>2

\* A save that is answered, or not, starts no recorder and ends none.
LEMMA CompleteCount ==
  ASSUME NEW st, Open(st), NEW sock, sock # NoSocket, NEW saved \in BOOLEAN,
         NEW next \in Complete(st, sock, saved)
  PROVE  SameCount(st, next) /\ next.buf.state = st.buf.state
<1>1. CASE sock # st.buf.sock
  <2>1. next = [st EXCEPT !.buf.late = NoSocket]
    BY <1>1 DEF Complete
  <2> QED BY <2>1 DEF Open, Base, Shape, SameCount
<1>2. CASE sock = st.buf.sock
  <2> DEFINE rest == Tail(st.buf.saves)
             clip == Head(st.buf.saves)
             free == [st EXCEPT !.buf.sock = NoSocket, !.buf.late = sock, !.buf.saves = rest]
             answered == Answer(free, clip, sock, saved)
  <2>1. st.buf.saves # <<>> /\ st.buf.saves \in Seq(Clips)
    BY <1>2 DEF Open, Connected, Base, Shape
  <2>2. rest \in Seq(Clips) /\ clip \in Clips
    BY <2>1, HeadTailProperties
  <2>3. next \in RunNextSave(answered)
    BY <1>2 DEF Complete
  <2> HIDE DEF rest, clip
  <2>4. Shape(free) /\ SameCount(st, free) /\ free.buf.state = st.buf.state
    BY <2>2 DEF Open, Base, Shape, SameCount
  <2> HIDE DEF free
  <2>5. Shape(answered) /\ SameCount(free, answered) /\ answered.buf.state = free.buf.state
    <3>1. CASE saved
      <4> DEFINE shown == [game |-> free.procs[sock.proc].game, monitor |-> free.procs[sock.proc].monitor]
                 filed == [free.clips[clip] EXCEPT !.phase = "filing", !.shows = shown]
      <4>1. answered = [free EXCEPT !.clips[clip] = filed]
        BY <3>1 DEF Answer
      <4>2. DOMAIN filed = {"phase", "of", "shows"}
        BY <2>2, <2>4 DEF Shape
      <4> HIDE DEF shown, filed
      <4> QED BY <2>2, <2>4, <4>1, <4>2 DEF Shape, SameCount
    <3>2. CASE ~saved
      <4>1. answered = Fail(free, {clip})
        BY <3>2 DEF Answer
      <4> QED BY <2>4, <4>1, FailDoes, FailCount DEF Keeps
    <3> QED BY <3>1, <3>2
  <2> HIDE DEF answered
  <2>6. SameCount(answered, next) /\ next.buf.state = answered.buf.state
    BY <2>3, <2>5, RunNextSaveCount
  <2>7. SameCount(st, answered)
    BY <2>4, <2>5, SameCountTwice
  <2> QED BY <2>4, <2>5, <2>6, <2>7, SameCountTwice
<1> QED BY <1>1, <1>2

\* start(): a recorder more, where every one before it was counted.
LEMMA StartCount ==
  ASSUME NEW st, Base(st), st.svc.enabled, st.svc.game # NoGame, st.svc.bufGame = st.svc.game,
         Within(st), st.spawned <= st.svc.failures, st.spawned < MaxFailures,
         NEW monitor, NEW next \in StartRecorder(st, monitor)
  PROVE  Counted(next)
<1> DEFINE idle == IF st.buf.proc # NoRecorder THEN StopRecorder(st) ELSE st
           over == [idle EXCEPT !.buf.monitor = monitor]
<1>1. Shape(idle) /\ SameCount(st, idle)
  <2>1. CASE st.buf.proc # NoRecorder
    BY <2>1, StopDoes, StopCount DEF Base
  <2>2. CASE st.buf.proc = NoRecorder
    BY <2>2 DEF SameCount, Base
  <2> QED BY <2>1, <2>2
<1> HIDE DEF idle
<1>2. Shape(over) /\ SameCount(idle, over)
  BY <1>1 DEF Shape, SameCount
<1> HIDE DEF over
<1>3. SameCount(st, over)
  BY <1>1, <1>2, SameCountTwice
<1>4. /\ Within(over) /\ over.spawned <= over.svc.failures /\ over.spawned < MaxFailures
      /\ over.svc.enabled /\ over.svc.game # NoGame /\ over.svc.bufGame = over.svc.game
  <2>1. Within(over)
    BY <1>3, SameCountWithin
  <2> QED BY <1>3, <2>1 DEF SameCount
<1>5. CASE next = SetState(over, "failed")
  BY <1>2, <1>4, <1>5, FailureCount DEF AllFailed
<1>6. ASSUME NEW p \in Recorders,
             next = SetState([over EXCEPT !.buf.proc = p, !.buf.polling = TRUE,
                              !.procs[p] = [NoProcess EXCEPT !.runs = TRUE, !.game = st.svc.bufGame,
                                                           !.monitor = monitor],
                              !.spawned = Upto(@ + 1, MaxFailures + 1)], "starting")
      PROVE  Counted(next)
  <2> DEFINE new == [NoProcess EXCEPT !.runs = TRUE, !.game = st.svc.bufGame, !.monitor = monitor]
             count == Upto(over.spawned + 1, MaxFailures + 1)
             with == [over EXCEPT !.buf.proc = p, !.buf.polling = TRUE, !.procs[p] = new,
                                  !.spawned = count]
  <2>1. DOMAIN new = {"runs", "told", "ready", "game", "monitor"}
    BY DEF NoProcess
  <2>2. next = SetState(with, "starting")
    BY <1>6
  <2>3. over.spawned \in Nat /\ over.svc.failures \in 0 .. MaxFailures
    BY <1>4 DEF Within
  <2>4. /\ count = over.spawned + 1 /\ count \in Nat
        /\ count <= MaxFailures /\ count <= over.svc.failures + 1
    BY <1>4, <2>3, ConstantsOK DEF Upto
  <2> HIDE DEF new, count
  <2>5. /\ Shape(with) /\ with.svc = over.svc
        /\ with.spawned = count
    BY <1>2, <2>1, <2>3 DEF Shape
  <2> HIDE DEF with
  <2>6. Within(with)
    BY <2>3, <2>4, <2>5 DEF Within
  <2>7. SameCount(with, next) /\ next.buf.state = "starting"
    BY <2>2, <2>5, SetStateCount, SetStateDoes
  <2>8. Within(next)
    BY <2>6, <2>7, SameCountWithin
  <2>9. next.svc.enabled /\ next.svc.game # NoGame /\ next.svc.bufGame = next.svc.game
    BY <1>4, <2>5, <2>7 DEF SameCount
  <2> QED BY <2>7, <2>8, <2>9 DEF Counted, AllFailed, OfGame
<1>7. \/ next = SetState(over, "failed")
      \/ \E p \in Recorders :
           next = SetState([over EXCEPT !.buf.proc = p, !.buf.polling = TRUE,
                              !.procs[p] = [NoProcess EXCEPT !.runs = TRUE, !.game = st.svc.bufGame,
                                                           !.monitor = monitor],
                              !.spawned = Upto(@ + 1, MaxFailures + 1)], "starting")
  BY DEF StartRecorder, over, idle
<1> QED BY <1>5, <1>6, <1>7

\* reconcile() reads the settings and may drop the game; what it finds
\* then can be started from.
LEMMA RefreshedCount ==
  ASSUME NEW before, Shape(before), Startable(before)
  PROVE  Startable(Refreshed(before)) /\ Shape(Refreshed(before)) /\ Refreshed(before).buf = before.buf
<1> DEFINE read == [before EXCEPT !.svc.enabled = config]
           calm == Forgotten(read)
           dropped == [calm EXCEPT !.svc.game = NoGame, !.svc.monitor = NoMonitor]
<1>1. /\ Shape(read) /\ read.buf = before.buf /\ read.spawned = before.spawned
      /\ read.svc.failures = before.svc.failures /\ read.svc.game = before.svc.game
      /\ read.svc.bufGame = before.svc.bufGame
  BY DEF Shape
<1>2. Startable(read)
  BY <1>1 DEF Startable, Within, AllFailed
<1>3. Refreshed(before) = IF before.svc.game \in Games \ alive THEN dropped ELSE read
  BY DEF Refreshed
<1> HIDE DEF read
<1>4. /\ Shape(calm) /\ calm.buf = read.buf /\ calm.spawned = read.spawned /\ calm.svc.failures = 0
      /\ calm.svc.bufGame = read.svc.bufGame
  BY <1>1 DEF Forgotten, Shape
<1> HIDE DEF calm
<1>5. /\ Shape(dropped) /\ dropped.buf = read.buf /\ dropped.spawned = read.spawned
      /\ dropped.svc.failures = 0 /\ dropped.svc.bufGame = read.svc.bufGame
      /\ dropped.svc.game = NoGame
  BY <1>4 DEF Shape
<1> HIDE DEF dropped
<1>6. Startable(dropped)
  BY <1>2, <1>5, ConstantsOK DEF Startable
<1> QED BY <1>1, <1>2, <1>3, <1>5, <1>6

\* follow(): another game starts without failures.
LEMMA FollowedCount ==
  ASSUME NEW st, Shape(st), Counted(st), NEW game, NEW monitor
  PROVE  Startable(Followed(st, game, monitor))
<1>1. Startable(st)
  BY DEF Counted, OfGame, Startable, Within
<1>2. CASE game = NoGame
  BY <1>1, <1>2 DEF Followed
<1>3. CASE game # NoGame /\ game # st.svc.game
  <2> DEFINE calm == Forgotten(st)
             next == [calm EXCEPT !.svc.game = game, !.svc.monitor = monitor]
  <2>1. Followed(st, game, monitor) = next
    BY <1>3 DEF Followed
  <2>2. /\ Shape(calm) /\ calm.buf = st.buf /\ calm.spawned = st.spawned /\ calm.svc.failures = 0
        /\ calm.svc.bufGame = st.svc.bufGame
    BY DEF Forgotten, Shape
  <2> HIDE DEF calm
  <2>3. /\ next.buf = st.buf /\ next.spawned = st.spawned /\ next.svc.failures = 0
        /\ next.svc.bufGame = st.svc.bufGame /\ next.svc.game = game
    BY <2>2 DEF Shape
  <2> HIDE DEF next
  <2>4. next.buf.state # "stopped" => next.svc.bufGame # next.svc.game
    BY <1>3, <2>3 DEF Counted, OfGame
  <2> QED BY <1>1, <2>1, <2>3, <2>4, ConstantsOK DEF Startable
<1>4. CASE game # NoGame /\ game = st.svc.game
  <2> DEFINE next == [st EXCEPT !.svc.monitor = IF monitor = NoMonitor THEN @ ELSE monitor]
  <2>1. Followed(st, game, monitor) = next
    BY <1>4 DEF Followed
  <2>2. /\ next.buf = st.buf /\ next.spawned = st.spawned /\ next.svc.failures = st.svc.failures
        /\ next.svc.bufGame = st.svc.bufGame /\ next.svc.game = st.svc.game
    BY DEF Shape
  <2> HIDE DEF next
  <2> QED BY <1>1, <2>1, <2>2 DEF Startable, Within, AllFailed
<1> QED BY <1>2, <1>3, <1>4

\* A buffer is started again only where it failed and was counted, or with
\* the count begun anew.
LEMMA ReconcileCount ==
  ASSUME NEW before, Sound(before), Startable(before), NEW next \in Reconcile(before)
  PROVE  Counted(next)
<1> DEFINE st == Refreshed(before)
           wanted == st.svc.enabled /\ st.svc.game # NoGame /\ st.svc.monitor # NoMonitor
           kept == /\ Current(st)
                   /\ \/ st.buf.state \in {"running", "starting"}
                      \/ st.buf.state = "failed" /\ (st.svc.retry \/ st.svc.failures >= MaxFailures)
<1>1. Startable(st) /\ Shape(st) /\ st.buf = before.buf
  BY RefreshedCount DEF Sound, Open, Base
<1>2. /\ st.procs = before.procs /\ st.clips = before.clips /\ st.svc.bufGame = before.svc.bufGame
  BY DEF Sound, Open, Base, Shape, Refreshed, Forgotten
<1>3. Sound(st) /\ Base(st)
  BY <1>1, <1>2, SoundByParts DEF Sound, Open
<1>4. \/ next = StopBuffer(st)
      \/ wanted /\ kept /\ next = st
      \/ wanted /\ ~kept /\ next \in StartBuffer(st)
  <2>1. next \in IF ~st.svc.enabled \/ st.svc.game = NoGame \/ st.svc.monitor = NoMonitor THEN {StopBuffer(st)}
                 ELSE IF kept THEN {st} ELSE StartBuffer(st)
    BY DEF Reconcile
  <2> HIDE DEF st, kept
  <2> QED BY <2>1
<1> HIDE DEF st
<1>5. CASE next = StopBuffer(st)
  <2> DEFINE calm == [st EXCEPT !.svc.retry = FALSE, !.spawned = 0]
  <2>1. /\ Shape(calm) /\ calm.procs = st.procs /\ calm.clips = st.clips /\ calm.buf = st.buf
        /\ calm.svc.bufGame = st.svc.bufGame /\ calm.spawned = 0
        /\ calm.svc.failures = st.svc.failures
    BY <1>1 DEF Shape
  <2>2. next = IF calm.buf.state = "stopped" THEN calm ELSE StopRecorder(calm)
    BY <1>5 DEF StopBuffer
  <2> HIDE DEF calm
  <2>3. Base(calm)
    BY <1>3, <2>1, SoundByParts DEF Sound, Open
  <2>4. Within(calm) /\ calm.spawned = 0
    BY <1>1, <2>1, ConstantsOK DEF Startable, Within
  <2>5. next.buf.state = "stopped" /\ SameCount(calm, next)
    BY <2>2, <2>3, StopDoes, StopCount DEF SameCount
  <2>6. Within(next) /\ next.spawned = 0
    BY <2>4, <2>5, SameCountWithin DEF SameCount
  <2> QED BY <2>5, <2>6 DEF Counted, AllFailed, OfGame
<1>6. CASE wanted /\ kept /\ next = st
  <2>1. st.buf.state # "stopped" /\ st.svc.bufGame = st.svc.game
    BY <1>6 DEF Current
  <2>2. Within(st) /\ AllFailed(st)
    BY <1>1, <2>1 DEF Startable
  <2> QED BY <1>6, <2>1, <2>2 DEF Counted, OfGame
<1>7. CASE wanted /\ ~kept /\ next \in StartBuffer(st)
  <2> DEFINE tally == IF Current(st) THEN st.spawned ELSE 0
             asked == [st EXCEPT !.svc.bufGame = st.svc.game,
                                 !.spawned = tally]
  <2>1. /\ st.svc.failures \in 0 .. MaxFailures
        /\ st.spawned \in Nat
    BY <1>1 DEF Startable
  <2>2. Current(st) => st.spawned <= st.svc.failures /\ st.spawned < MaxFailures
    <3> SUFFICES ASSUME Current(st)
                 PROVE  st.spawned <= st.svc.failures /\ st.spawned < MaxFailures
      OBVIOUS
    <3>1. CASE st.buf.state = "stopped"
      BY <1>1, <2>1, <3>1, ConstantsOK DEF Startable
    <3>2. CASE st.buf.state # "stopped"
      <4>1. st.buf.state = "failed" /\ ~(st.svc.failures >= MaxFailures)
        BY <1>3, <1>7, <3>2 DEF Sound, Open, Filming
      <4>2. AllFailed(st)
        BY <1>1, <3>2 DEF Startable, Current
      <4> QED BY <2>1, <4>1, <4>2, ConstantsOK DEF AllFailed
    <3> QED BY <3>1, <3>2
  <2>3. /\ tally \in Nat
        /\ tally <= st.svc.failures /\ tally < MaxFailures
    <3>1. CASE Current(st)
      BY <2>1, <2>2, <3>1
    <3>2. CASE ~Current(st)
      BY <2>1, <3>2, ConstantsOK
    <3> QED BY <3>1, <3>2
  <2>4. next \in StartRecorder(asked, st.svc.monitor)
    <3>1. next \in StartBuffer(st)
      BY <1>7
    <3> QED BY <3>1 DEF StartBuffer
  <2>9. asked.spawned = tally
    BY <1>1 DEF Shape
  <2> HIDE DEF tally
  <2>5. /\ Shape(asked) /\ asked.procs = st.procs /\ asked.clips = st.clips /\ asked.buf = st.buf
        /\ asked.svc.bufGame = st.svc.game /\ asked.svc.game = st.svc.game
        /\ asked.svc.enabled = st.svc.enabled /\ asked.svc.failures = st.svc.failures
        /\ asked.spawned = tally
    BY <1>1, <2>9 DEF Shape
  <2> HIDE DEF asked
  <2>6. Base(asked)
    BY <1>3, <2>5 DEF Base, OneOnly, Shown
  <2>7. Within(asked) /\ asked.spawned <= asked.svc.failures /\ asked.spawned < MaxFailures
    BY <2>1, <2>3, <2>5, ConstantsOK DEF Within
  <2>8. asked.svc.enabled /\ asked.svc.game # NoGame
    BY <1>7, <2>5
  <2> QED BY <2>4, <2>5, <2>6, <2>7, <2>8, StartCount
<1> QED BY <1>4, <1>5, <1>6, <1>7

LEMMA BecomesCounted == ASSUME NEW st, Counted(st), Becomes(st) PROVE Counted(St)'
<1>1. buf' = st.buf /\ svc' = st.svc /\ spawned' = st.spawned
  BY DEF Becomes
<1> QED BY <1>1 DEF Counted, Within, AllFailed, OfGame, St

\* One step per action: those that may fail or start a recorder, then
\* those that leave the count alone.
LEMMA NextCounted == Inv /\ Counted(St) /\ [HighlightsNext]_highlightsVars => Counted(St)'
<1> SUFFICES ASSUME Inv, Counted(St), [HighlightsNext]_highlightsVars PROVE Counted(St)'
  OBVIOUS
<1>0. /\ Sound(St) /\ Open(St) /\ Base(St) /\ Shape(St)
      /\ St.procs = procs /\ St.buf = buf /\ St.svc = svc /\ St.clips = clips /\ St.spawned = spawned
  BY DEF Inv, Good, Sound, Open, Base, St
<1>1. CASE StartSeen
  <2> DEFINE polled == [St EXCEPT !.buf.polling = FALSE]
             running == SetState(polled, "running")
  <2>1. Shape(polled) /\ SameCount(St, polled)
    BY <1>0 DEF Shape, SameCount
  <2>2. PICK st \in RunNextSave(running) : Becomes(st)
    BY <1>1 DEF StartSeen
  <2>3. buf.state = "starting"
    BY <1>1 DEF StartSeen
  <2> HIDE DEF polled
  <2>4. Shape(running) /\ SameCount(polled, running) /\ running.buf.state = "running"
    BY <2>1, SetStateDoes, SetStateCount DEF Keeps
  <2> HIDE DEF running
  <2>5. SameCount(running, st) /\ st.buf.state = "running"
    BY <2>2, <2>4, RunNextSaveCount
  <2>6. SameCount(St, running)
    BY <2>1, <2>4, SameCountTwice
  <2>7. SameCount(St, st)
    BY <2>5, <2>6, SameCountTwice
  <2>8. Counted(st)
    BY <1>0, <2>3, <2>5, <2>7 DEF Counted, Within, AllFailed, OfGame, SameCount
  <2> QED BY <2>2, <2>8, BecomesCounted
<1>2. CASE StartTimesOut
  <2> DEFINE polled == [St EXCEPT !.buf.polling = FALSE]
             stopped == StopRecorder(polled)
             failed == SetState(stopped, "failed")
  <2>1. /\ Shape(polled) /\ polled.procs = procs /\ polled.clips = clips /\ polled.buf.proc = buf.proc
        /\ SameCount(St, polled)
    BY <1>0 DEF Shape, SameCount
  <2> HIDE DEF polled
  <2>2. Base(polled)
    BY <1>0, <2>1 DEF Base, OneOnly, Shown
  <2>3. Shape(stopped) /\ SameCount(polled, stopped) /\ stopped.buf.state = "stopped"
    BY <2>2, StopDoes, StopCount DEF Base
  <2>4. Becomes(failed)
    BY <1>2 DEF StartTimesOut, polled
  <2> HIDE DEF stopped
  <2>5. SameCount(St, stopped)
    BY <2>1, <2>3, SameCountTwice
  <2>6. buf.state = "starting"
    BY <1>2 DEF StartTimesOut
  <2>7. Within(stopped)
    BY <2>5, SameCountWithin DEF Counted
  <2>8. stopped.svc.enabled /\ stopped.svc.game # NoGame /\ stopped.svc.bufGame = stopped.svc.game
    BY <1>0, <2>5, <2>6 DEF Counted, OfGame, SameCount
  <2>9. Counted(failed)
    BY <2>3, <2>7, <2>8, FailureCount DEF AllFailed
  <2> QED BY <2>4, <2>9, BecomesCounted
<1>3. CASE RecorderExits
  <2> DEFINE gone == [St EXCEPT !.buf.polling = FALSE, !.buf.proc = NoRecorder, !.procs[buf.proc] = NoProcess]
             emptied == [gone EXCEPT !.buf.saves = <<>>, !.buf.sock = NoSocket, !.buf.late = gone.buf.sock]
             idle == Fail(emptied, Range(gone.buf.saves))
             failed == SetState(idle, "failed")
  <2>1. buf.proc \in Recorders /\ buf.state \notin {"stopped", "failed"}
    BY <1>0, <1>3 DEF RecorderExits, Shape, Sound, Open, Filming
  <2>2. DOMAIN NoProcess = {"runs", "told", "ready", "game", "monitor"}
    BY DEF NoProcess
  <2>3. Shape(gone) /\ SameCount(St, gone) /\ gone.buf.state = buf.state
    BY <1>0, <2>1, <2>2 DEF Shape, SameCount
  <2>4. Becomes(failed)
    BY <1>0, <1>3 DEF RecorderExits, FinishSaves
  <2> HIDE DEF gone
  <2>5. Shape(emptied) /\ SameCount(gone, emptied) /\ emptied.buf.state = gone.buf.state
    <3>1. <<>> \in Seq(Clips)
      OBVIOUS
    <3> QED BY <2>3, <3>1 DEF Shape, SameCount
  <2> HIDE DEF emptied
  <2>6. Shape(idle) /\ SameCount(emptied, idle) /\ idle.buf.state = emptied.buf.state
    BY <2>5, FailDoes, FailCount DEF Keeps
  <2> HIDE DEF idle
  <2>7. SameCount(St, emptied)
    BY <2>3, <2>5, SameCountTwice
  <2>8. SameCount(St, idle)
    BY <2>6, <2>7, SameCountTwice
  <2>9. Within(idle)
    BY <2>8, SameCountWithin DEF Counted
  <2>10. idle.svc.enabled /\ idle.svc.game # NoGame /\ idle.svc.bufGame = idle.svc.game
    BY <1>0, <2>1, <2>8 DEF Counted, OfGame, SameCount
  <2>11. Counted(failed)
    BY <2>1, <2>3, <2>5, <2>6, <2>9, <2>10, FailureCount DEF AllFailed
  <2> QED BY <2>4, <2>11, BecomesCounted
<1>4. ASSUME NEW game, NEW monitor, FollowSnapshot(game, monitor) PROVE Counted(St)'
  <2> DEFINE followed == Followed(St, game, monitor)
  <2>1. /\ Shape(followed) /\ followed.procs = procs /\ followed.clips = clips /\ followed.buf = buf
        /\ followed.svc.bufGame = svc.bufGame
    BY <1>0 DEF Shape, Followed, Forgotten
  <2>2. Startable(followed)
    BY <1>0, FollowedCount
  <2>3. PICK st \in Reconcile(followed) : Becomes(st)
    BY <1>4 DEF FollowSnapshot
  <2> HIDE DEF followed
  <2>4. Sound(followed)
    BY <1>0, <2>1, SoundByParts
  <2> QED BY <2>2, <2>3, <2>4, ReconcileCount, BecomesCounted
<1>5. CASE Tick
  <2>1. Startable(St)
    BY DEF Counted, OfGame, Startable, Within
  <2>2. PICK st \in Reconcile(St) : Becomes(st)
    BY <1>5 DEF Tick
  <2> QED BY <1>0, <2>1, <2>2, ReconcileCount, BecomesCounted
<1>6. CASE RetryDue
  <2> DEFINE due == [St EXCEPT !.svc.retry = FALSE]
  <2>1. /\ Shape(due) /\ due.procs = procs /\ due.clips = clips /\ due.buf = buf
        /\ due.svc.bufGame = svc.bufGame /\ SameCount(St, due)
    BY <1>0 DEF Shape, SameCount
  <2>2. PICK st \in Reconcile(due) : Becomes(st)
    BY <1>6 DEF RetryDue
  <2> HIDE DEF due
  <2>3. Sound(due)
    BY <1>0, <2>1, SoundByParts
  <2>4. Counted(due)
    BY <1>0, <2>1, SameCountCounted
  <2>5. Startable(due)
    BY <2>4 DEF Counted, OfGame, Startable, Within
  <2> QED BY <2>2, <2>3, <2>5, ReconcileCount, BecomesCounted
<1>7. CASE SaveDone \/ SaveFails \/ LateTimer
  <2>1. PICK sock \in {buf.sock, buf.late}, saved \in BOOLEAN :
          sock # NoSocket /\ \E st \in Complete(St, sock, saved) : Becomes(st)
    BY <1>7 DEF SaveDone, SaveFails, LateTimer
  <2>2. PICK st \in Complete(St, sock, saved) : Becomes(st)
    BY <2>1
  <2>3. SameCount(St, st) /\ st.buf.state = St.buf.state
    BY <1>0, <2>1, <2>2, CompleteCount
  <2> QED BY <2>2, <2>3, SameCountCounted, BecomesCounted
<1>8. CASE RanLong
  <2>1. svc' = [svc EXCEPT !.healthy = TRUE] /\ buf' = buf /\ spawned' = spawned
    BY <1>8 DEF RanLong
  <2>2. /\ svc'.failures = svc.failures /\ svc'.enabled = svc.enabled /\ svc'.game = svc.game
        /\ svc'.bufGame = svc.bufGame
    BY <1>0, <2>1 DEF Shape
  <2>3. SameCount(St, St') /\ St'.buf.state = St.buf.state
    BY <2>1, <2>2 DEF SameCount, St
  <2>4. Counted(St')
    BY <2>3, SameCountCounted
  <2> QED BY <2>4
<1>9. ASSUME NEW c \in Clips, AskForClip(c) PROVE Counted(St)'
  <2> DEFINE of == [game |-> svc.game, monitor |-> svc.monitor]
             request == [clips[c] EXCEPT !.phase = "asked", !.of = of]
             saves == Append(buf.saves, c)
             saving == svc.saving + 1
             asked == [St EXCEPT !.clips[c] = request, !.svc.saving = saving, !.buf.saves = saves]
  <2>1. PICK st \in RunNextSave(asked) : Becomes(st)
    BY <1>0, <1>9 DEF AskForClip
  <2>2. DOMAIN request = {"phase", "of", "shows"} /\ saves \in Seq(Clips)
    BY <1>0, AppendProperties DEF Shape
  <2> HIDE DEF request, of, saves, saving
  <2>3. Shape(asked) /\ SameCount(St, asked) /\ asked.buf.state = buf.state
    BY <1>0, <2>2 DEF Shape, SameCount
  <2> HIDE DEF asked
  <2>4. SameCount(asked, st) /\ st.buf.state = asked.buf.state
    BY <2>1, <2>3, RunNextSaveCount
  <2>5. SameCount(St, st)
    BY <2>3, <2>4, SameCountTwice
  <2> QED BY <1>0, <2>1, <2>3, <2>4, <2>5, SameCountCounted, BecomesCounted
<1>10. ASSUME NEW c \in Clips, Filed(c) PROVE Counted(St)'
  <2>1. PICK phase \in {"saved", "failed"} :
          Becomes([St EXCEPT !.clips[c].phase = phase, !.svc.saving = @ - 1])
    BY <1>10 DEF Filed
  <2> DEFINE st == [St EXCEPT !.clips[c].phase = phase, !.svc.saving = @ - 1]
  <2>2. SameCount(St, st) /\ st.buf.state = St.buf.state
    BY <1>0 DEF Shape, SameCount
  <2>3. Becomes(st)
    BY <2>1
  <2> HIDE DEF st
  <2> QED BY <2>2, <2>3, SameCountCounted, BecomesCounted
<1>11. ASSUME UNCHANGED <<buf, svc, spawned>> PROVE Counted(St)'
  <2>1. SameCount(St, St') /\ St'.buf.state = St.buf.state
    BY <1>11 DEF SameCount, St
  <2>2. Counted(St')
    BY <2>1, SameCountCounted
  <2> QED BY <2>2
<1>12. ASSUME \/ SettingsChange \/ UNCHANGED highlightsVars \/ \E g \in Games : GameEnds(g)
              \/ \E p \in Recorders : SocketAppears(p) \/ RecorderEnds(p)
       PROVE  UNCHANGED <<buf, svc, spawned>>
  BY <1>12 DEF SettingsChange, GameEnds, SocketAppears, RecorderEnds, highlightsVars, outside
<1> QED BY <1>1, <1>2, <1>3, <1>4, <1>5, <1>6, <1>7, <1>8, <1>9, <1>10, <1>11, <1>12 DEF HighlightsNext

LEMMA InitCounted == HighlightsInit => Counted(St)
<1> SUFFICES ASSUME HighlightsInit PROVE Counted(St)
  OBVIOUS
<1>1. buf.state = "stopped" /\ svc.failures = 0 /\ spawned = 0
  BY DEF HighlightsInit
<1>2. St.buf = buf /\ St.svc = svc /\ St.spawned = spawned
  BY DEF St
<1> QED BY <1>1, <1>2, ConstantsOK DEF Counted, Within, AllFailed, OfGame

\* However it fails, whatever is followed, changed or ended meanwhile, no
\* more than kMaxFailures recorders are started in a row for one game and
\* output (HighlightService::bufferStateChanged, reconcile).
THEOREM GivenUpHolds == HighlightsSpec => []RecorderGivenUp
<1>1. Counted(St) => RecorderGivenUp
  BY DEF Counted, Within, St, RecorderGivenUp
<1>2. HighlightsSpec => []Counted(St)
  BY InvAlways, InitCounted, NextCounted, PTL DEF HighlightsSpec
<1> QED BY <1>1, <1>2, PTL
=============================================================================
