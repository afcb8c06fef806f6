--------------------- MODULE GameModeControllerSteps ----------------------
\* What each step of Game Mode's controller does, and that the controller
\* keeps the promise of its operations. The steps of the controller's
\* methods call each other and wait for answers; the invariant Typed says
\* which calls may be in progress at which step, and what the variables
\* hold. From it a lemma for each action says what the action changes, and
\* the other proofs rest on these lemmas alone. The invariant OnDisk, at
\* the end, says what the record on disk, the controller's own record and
\* the copy that resume keeps say of the desktop at each step.
EXTENDS GameModeController, SequenceTheorems, FiniteSetTheorems, Integers, TLAPS

\* The labels of the actions, by the method of the controller they are
\* steps of: restore.
RestoreLabels ==
  {"quiet", "window", "leftover", "focus", "sink", "output", "disable", "restored", "record"}
\* muteGames; and unmuteGames.
MuteLabels == {"mute", "muteNext", "muteOne"}
UnmuteLabels == {"unmute", "unmuteNext", "unmuted"}
\* finishRetention, with exposeGames, and the end of recover, which is the
\* same.
SettleLabels == {"settle", "expose", "settled", "unsettled"}
\* enter; park; refreshParked; resume; exit.
EnterLabels ==
  {"enterOutput", "enterLight", "enterSink", "enterSetSink", "enterWindow", "enterPlace",
   "enterQuiet", "enterSilence", "enterLoud", "enterLast", "enterFail", "enterFailed"}
ParkLabels == {"park", "parkMuted", "parkUnmuted", "parkRestore", "parkRestored", "parkRolledBack"}
RefreshLabels ==
  {"refresh", "refreshHeard", "refreshRestored", "refreshStreams", "refreshMuted"}
ResumeLabels ==
  {"resume", "resumeRecord", "resumeLight", "resumeSink", "resumeSetSink", "resumeWindow",
   "resumePlace", "resumeMove", "resumeQuiet", "resumeSilence", "resumeHeard", "resumeFail",
   "resumeUndone", "resumeMuted"}
ExitLabels == {"exited", "exitHeard", "exitRestored"}
\* Every label of a step.
Labels ==
  RestoreLabels \cup MuteLabels \cup UnmuteLabels \cup SettleLabels \cup EnterLabels \cup ParkLabels
  \cup RefreshLabels \cup ResumeLabels \cup ExitLabels
  \cup {"idle", "recover", "entered", "finish", "yes", "no"}

\* The labels at which a caller takes the answer of a restore, of a
\* muting, of an unmuting, and of the end of a session.
RestoreTops ==
  {"settle", "enterFailed", "parkRestored", "refreshRestored", "resumeUndone", "exitRestored"}
MuteTops == {"parkMuted", "refreshMuted", "resumeMuted"}
UnmuteTops == {"settled", "parkUnmuted", "refreshHeard", "resumeHeard", "exitHeard"}
FinishTops == {"exited", "no", "idle", "resume"}
AllTops ==
  RestoreTops \cup MuteTops \cup UnmuteTops \cup FinishTops \cup {"parkRolledBack", "entered"}
\* Those that something else may wait upon.
LowTops == FinishTops \cup {"parkRolledBack", "entered"}

\* The operations that the controller is called for.
Ops == {"Enter", "Park", "Resume", "RefreshParked", "Exit", "Recover"}

\* What may wait for what is at label l.
Awaits(l, b) ==
  /\ l \in RestoreLabels => b \in RestoreTops
  /\ l \in MuteLabels => b \in MuteTops
  /\ l \in UnmuteLabels => b \in UnmuteTops
  /\ l = "yes" => b \in MuteTops \cup UnmuteTops
  /\ l = "no" => b \in RestoreTops \cup MuteTops \cup UnmuteTops \cup FinishTops \cup {"parkRolledBack"}
  /\ l = "finish" => b \in FinishTops
  /\ l \in SettleLabels => b \in FinishTops \cup {"entered"}
  /\ l = "recover" => b \in {"idle", "entered"}
  /\ l \in RefreshLabels => b \in {"idle", "resume"}
  /\ l \in ResumeLabels => b \in {"idle", "parkRolledBack"}
  /\ l \in EnterLabels \cup ParkLabels \cup ExitLabels \cup {"entered"} => b = "idle"

\* The operations that come to label l.
Serves(l, op) ==
  /\ l \in EnterLabels \cup {"entered"} => op = "Enter"
  /\ l = "recover" => op \in {"Enter", "Recover"}
  /\ l \in ParkLabels => op = "Park"
  /\ l \in ResumeLabels => op \in {"Resume", "Park"}
  /\ l \in RefreshLabels \cup MuteLabels => op \in {"RefreshParked", "Resume", "Park"}
  /\ l \in ExitLabels => op = "Exit"
  /\ l = "finish" => op \in {"Exit", "RefreshParked", "Resume", "Park"}

\* Those in which something waits for a return to label b.
Waits(b, op) == Serves(b, op) /\ (b = "no" => op \in {"RefreshParked", "Resume", "Park"})

\* What may lie under label b: a return to "no" is left only for a call
\* whose outcome is settled already.
Below(b, c) == Awaits(b, c) /\ (b = "no" => c \in {"idle", "resume", "parkRolledBack"})

\* The calls in progress at label l of operation op, with s the labels to
\* which they return: the last of them, and no other, is that of the event
\* loop.
Frames(l, s, op) ==
  /\ s \in Seq(Labels)
  /\ (l = "idle") = (s = <<>>)
  /\ l # "idle" => Awaits(l, s[1]) /\ Serves(l, op) /\ op \in Ops
  /\ \A i \in 1 .. Len(s) : (s[i] = "idle") = (i = Len(s))
  /\ \A i \in 1 .. Len(s) - 1 : Below(s[i], s[i + 1]) /\ Waits(s[i], op)
\* The steps of a restore that follow a record.
Stages == {"window", "leftover", "sink", "output", "restored"}
\* Labels with local variables of their own.
Special == {"idle", "record", "muteNext", "muteOne", "unmuteNext", "unmuted"}
\* The local variables of a step are of what it goes through.
Held ==
  /\ ctl.at = "record" => ctl.next \in Stages
  /\ ctl.at \in {"muteNext", "muteOne"} => ctl.todo \subseteq Games
  /\ ctl.at = "muteOne" => ctl.one \subseteq Games
  /\ ctl.at \in {"unmuteNext", "unmuted"} => ctl.todo \subseteq Streams
  /\ ctl.at = "unmuted" => ctl.one \subseteq Streams
\* The step that runs is one of the operation's, called by what waits for
\* it.
Control == Frames(ctl.at, ctl.stack, ctl.op) /\ Held

\* A sequence with one element more in front, and one without its first.
LEMMA Pushed ==
  ASSUME NEW S, NEW s \in Seq(S), NEW b \in S
  PROVE  /\ <<b>> \o s \in Seq(S) /\ Len(<<b>> \o s) = Len(s) + 1 /\ (<<b>> \o s)[1] = b
         /\ \A i \in 1 .. Len(s) : (<<b>> \o s)[i + 1] = s[i]
         /\ <<b>> \o s # <<>>
OBVIOUS

LEMMA Popped ==
  ASSUME NEW S, NEW s \in Seq(S), s # <<>>
  PROVE  /\ Head(s) = s[1] /\ s[1] \in S /\ Tail(s) \in Seq(S) /\ Len(Tail(s)) = Len(s) - 1
         /\ Len(s) >= 1
         /\ \A i \in 1 .. Len(s) - 1 : Tail(s)[i] = s[i + 1]
OBVIOUS

\* Only the empty sequence has no elements.
LEMMA EmptyStack ==
  ASSUME NEW S, NEW s \in Seq(S)
  PROVE  Len(s) = 0 <=> s = <<>>
OBVIOUS

\* A call from a step that is there to make it keeps the calls in order.
LEMMA PushFrames ==
  ASSUME NEW l \in Labels \ {"idle"}, NEW b \in Labels \ {"idle"}, NEW op \in Ops,
         NEW s \in Seq(Labels), s # <<>>, Below(b, s[1]), Waits(b, op),
         \A i \in 1 .. Len(s) : (s[i] = "idle") = (i = Len(s)),
         \A i \in 1 .. Len(s) - 1 : Below(s[i], s[i + 1]) /\ Waits(s[i], op),
         Awaits(l, b), Serves(l, op)
  PROVE  Frames(l, <<b>> \o s, op)
<1> DEFINE t == <<b>> \o s
<1>1. /\ t \in Seq(Labels) /\ Len(t) = Len(s) + 1 /\ t[1] = b /\ t # <<>>
      /\ \A i \in 1 .. Len(s) : t[i + 1] = s[i]
  BY Pushed
<1>2. Len(s) \in Nat /\ Len(s) >= 1
  BY EmptyStack
<1> HIDE DEF t
<1>3. \A i \in 1 .. Len(t) : (t[i] = "idle") = (i = Len(t))
  <2> TAKE i \in 1 .. Len(t)
  <2>1. CASE i = 1
    BY <2>1, <1>1, <1>2
  <2>2. CASE i # 1
    <3>1. PICK j \in 1 .. Len(s) : i = j + 1
      <4>1. i - 1 \in 1 .. Len(s) /\ i = (i - 1) + 1
        BY <2>2, <1>1, <1>2
      <4> QED BY <4>1
    <3>2. t[i] = s[j]
      BY <3>1, <1>1
    <3> QED BY <3>1, <3>2, <1>1, <1>2
  <2> QED BY <2>1, <2>2
<1>4. \A i \in 1 .. Len(t) - 1 : Below(t[i], t[i + 1]) /\ Waits(t[i], op)
  <2> TAKE i \in 1 .. Len(t) - 1
  <2>0. i \in 1 .. Len(s) /\ t[i + 1] = s[i]
    BY <1>1, <1>2
  <2>1. CASE i = 1
    BY <2>0, <2>1, <1>1
  <2>2. CASE i # 1
    <3>1. PICK j \in 1 .. Len(s) - 1 : i = j + 1
      <4>1. i - 1 \in 1 .. Len(s) - 1 /\ i = (i - 1) + 1
        BY <2>2, <2>0, <1>2
      <4> QED BY <4>1
    <3>2. t[i] = s[j] /\ t[i + 1] = s[j + 1]
      BY <3>1, <2>0, <1>1, <1>2
    <3> QED BY <3>1, <3>2
  <2> QED BY <2>1, <2>2
<1> QED BY <1>1, <1>3, <1>4 DEF Frames, t

\* So does the next step of the same method.
LEMMA GoFrames ==
  ASSUME NEW l, l # "idle", NEW m, NEW op, NEW s,
         Frames(m, s, op), m # "idle", Awaits(l, s[1]), Serves(l, op)
  PROVE  Frames(l, s, op)
BY DEF Frames

\* And so does a return, to whatever waits for it.
LEMMA PopFrames ==
  ASSUME NEW l, NEW op, NEW s, Frames(l, s, op), l # "idle", Head(s) # "idle"
  PROVE  Frames(Head(s), Tail(s), op)
<1> DEFINE t == Tail(s)
<1>1. /\ s \in Seq(Labels) /\ s # <<>> /\ op \in Ops
      /\ \A i \in 1 .. Len(s) : (s[i] = "idle") = (i = Len(s))
      /\ \A i \in 1 .. Len(s) - 1 : Below(s[i], s[i + 1]) /\ Waits(s[i], op)
  BY DEF Frames
<1>2. /\ Head(s) = s[1] /\ t \in Seq(Labels) /\ Len(t) = Len(s) - 1 /\ Len(s) >= 1 /\ Len(s) \in Nat
      /\ \A i \in 1 .. Len(s) - 1 : t[i] = s[i + 1]
  BY <1>1, Popped
<1> HIDE DEF t
<1>3. Len(s) > 1
  BY <1>1, <1>2
<1>4. t # <<>> /\ t[1] = s[2] /\ Below(s[1], s[2]) /\ Waits(s[1], op)
  BY <1>1, <1>2, <1>3, EmptyStack
<1>5. \A i \in 1 .. Len(t) : (t[i] = "idle") = (i = Len(t))
  BY <1>1, <1>2, <1>3
<1>6. \A i \in 1 .. Len(t) - 1 : Below(t[i], t[i + 1]) /\ Waits(t[i], op)
  BY <1>1, <1>2, <1>3
<1> QED BY <1>1, <1>2, <1>4, <1>5, <1>6 DEF Frames, Waits, Below, t

\* Each label is one of them.
LEMMA LabelNames ==
  /\ "disable" \in Labels
  /\ "enterFail" \in Labels
  /\ "enterFailed" \in Labels
  /\ "enterLast" \in Labels
  /\ "enterLight" \in Labels
  /\ "enterLoud" \in Labels
  /\ "enterOutput" \in Labels
  /\ "enterPlace" \in Labels
  /\ "enterQuiet" \in Labels
  /\ "enterSetSink" \in Labels
  /\ "enterSilence" \in Labels
  /\ "enterSink" \in Labels
  /\ "enterWindow" \in Labels
  /\ "entered" \in Labels
  /\ "exitHeard" \in Labels
  /\ "exitRestored" \in Labels
  /\ "exited" \in Labels
  /\ "expose" \in Labels
  /\ "finish" \in Labels
  /\ "focus" \in Labels
  /\ "idle" \in Labels
  /\ "leftover" \in Labels
  /\ "mute" \in Labels
  /\ "muteNext" \in Labels
  /\ "muteOne" \in Labels
  /\ "no" \in Labels
  /\ "output" \in Labels
  /\ "park" \in Labels
  /\ "parkMuted" \in Labels
  /\ "parkRestore" \in Labels
  /\ "parkRestored" \in Labels
  /\ "parkRolledBack" \in Labels
  /\ "parkUnmuted" \in Labels
  /\ "quiet" \in Labels
  /\ "record" \in Labels
  /\ "recover" \in Labels
  /\ "refresh" \in Labels
  /\ "refreshHeard" \in Labels
  /\ "refreshMuted" \in Labels
  /\ "refreshRestored" \in Labels
  /\ "refreshStreams" \in Labels
  /\ "restored" \in Labels
  /\ "resume" \in Labels
  /\ "resumeFail" \in Labels
  /\ "resumeHeard" \in Labels
  /\ "resumeLight" \in Labels
  /\ "resumeMove" \in Labels
  /\ "resumeMuted" \in Labels
  /\ "resumePlace" \in Labels
  /\ "resumeQuiet" \in Labels
  /\ "resumeRecord" \in Labels
  /\ "resumeSetSink" \in Labels
  /\ "resumeSilence" \in Labels
  /\ "resumeSink" \in Labels
  /\ "resumeUndone" \in Labels
  /\ "resumeWindow" \in Labels
  /\ "settle" \in Labels
  /\ "settled" \in Labels
  /\ "sink" \in Labels
  /\ "unmute" \in Labels
  /\ "unmuteNext" \in Labels
  /\ "unmuted" \in Labels
  /\ "unsettled" \in Labels
  /\ "window" \in Labels
  /\ "yes" \in Labels
BY DEF Labels, RestoreLabels, MuteLabels, UnmuteLabels, SettleLabels, EnterLabels, ParkLabels, RefreshLabels, ResumeLabels, ExitLabels

\* The values of the variables.
Sets == SUBSET (Games \cup Streams)
Ctls ==
  [at : Labels, stack : Seq(Labels), next : Labels, ok : BOOLEAN, complete : BOOLEAN,
   gone : BOOLEAN, retained : BOOLEAN, put : BOOLEAN, kept : Records, want : Kinds,
   todo : Sets, one : Sets, audio : BOOLEAN, desktop : BOOLEAN, op : Ops \cup {"none"},
   from : {"none", "active", "parked"}]
Desks ==
  [plugged : SUBSET Outputs, on : SUBSET Outputs, sinks : SUBSET Sinks, sink : Sinks \cup {NoSink},
   quiet : BOOLEAN, win : {"home", "session"}, at : Outputs, inside : SUBSET Games,
   games : SUBSET Games, over : SUBSET Games, muted : SUBSET Games]
Wases == [on : SUBSET Outputs, sink : Sinks \cup {NoSink}, quiet : BOOLEAN, muted : SUBSET Games]
Lefts == [faults : Int, kills : Int, player : Int, games : Int, clean : BOOLEAN, lost : BOOLEAN]
TypeOK ==
  /\ desk \in Desks /\ was \in Wases /\ left \in Lefts
  /\ disk \in Records \cup {NoRecord} /\ st \in Records
  /\ session \in {"none", "active", "parked"}
  /\ ctl \in Ctls
Typed == TypeOK /\ Control

\* The label that waits for a return from the method that runs.
Top == IF ctl.stack = <<>> THEN "idle" ELSE ctl.stack[1]

\* What a step leaves alone: all fields but those of F.
CtlBut(F) ==
  /\ "next" \in F \/ ctl'.next = ctl.next
  /\ "ok" \in F \/ ctl'.ok = ctl.ok
  /\ "complete" \in F \/ ctl'.complete = ctl.complete
  /\ "gone" \in F \/ ctl'.gone = ctl.gone
  /\ "retained" \in F \/ ctl'.retained = ctl.retained
  /\ "put" \in F \/ ctl'.put = ctl.put
  /\ "kept" \in F \/ ctl'.kept = ctl.kept
  /\ "want" \in F \/ ctl'.want = ctl.want
  /\ "todo" \in F \/ ctl'.todo = ctl.todo
  /\ "one" \in F \/ ctl'.one = ctl.one
  /\ "audio" \in F \/ ctl'.audio = ctl.audio
  /\ "desktop" \in F \/ ctl'.desktop = ctl.desktop
  /\ "op" \in F \/ ctl'.op = ctl.op
  /\ "from" \in F \/ ctl'.from = ctl.from
StBut(F) ==
  /\ "ending" \in F \/ st'.ending = st.ending
  /\ "output" \in F \/ st'.output = st.output
  /\ "lit" \in F \/ st'.lit = st.lit
  /\ "placed" \in F \/ st'.placed = st.placed
  /\ "prev" \in F \/ st'.prev = st.prev
  /\ "sink" \in F \/ st'.sink = st.sink
  /\ "quiet" \in F \/ st'.quiet = st.quiet
  /\ "games" \in F \/ st'.games = st.games
  /\ "streams" \in F \/ st'.streams = st.streams
DeskBut(F) ==
  /\ "plugged" \in F \/ desk'.plugged = desk.plugged
  /\ "on" \in F \/ desk'.on = desk.on
  /\ "sinks" \in F \/ desk'.sinks = desk.sinks
  /\ "sink" \in F \/ desk'.sink = desk.sink
  /\ "quiet" \in F \/ desk'.quiet = desk.quiet
  /\ "win" \in F \/ desk'.win = desk.win
  /\ "at" \in F \/ desk'.at = desk.at
  /\ "inside" \in F \/ desk'.inside = desk.inside
  /\ "games" \in F \/ desk'.games = desk.games
  /\ "over" \in F \/ desk'.over = desk.over
  /\ "muted" \in F \/ desk'.muted = desk.muted
WasBut(F) ==
  /\ "on" \in F \/ was'.on = was.on
  /\ "sink" \in F \/ was'.sink = was.sink
  /\ "quiet" \in F \/ was'.quiet = was.quiet
  /\ "muted" \in F \/ was'.muted = was.muted
\* A step that failed, whose operation is not clean any more.
Failed == left' \in Lefts /\ ~left'.clean /\ left'.lost = left.lost /\ left'.kills = left.kills

\* What ctl becomes by a step, by a call, by a return, by a write of the
\* record before the next step, and by a step of a restore that lacks
\* something.
Goes(l) == ctl'.at = l /\ Top' = Top /\ CtlBut({})
Calls(l, b) == ctl'.at = l /\ Top' = b /\ CtlBut({})
CallsRestore(r, g, b) ==
  /\ ctl'.at = "quiet" /\ Top' = b /\ ctl'.complete /\ ctl'.gone = g /\ ctl'.retained = r
  /\ CtlBut({"complete", "gone", "retained"})
Returns(ok) ==
  /\ ctl'.at = Top /\ ctl'.want = ctl.want /\ ctl'.op = ctl.op
  /\ Top # "idle" => ctl'.ok = ok /\ CtlBut({"ok"}) /\ Below(Top, Top') /\ Waits(Top, ctl.op)
                     /\ Top' \in LowTops
                     /\ (Top' # "idle" => Waits(Top', ctl.op))
  /\ Top = "idle" => Top' = "idle" /\ ctl'.kept = Blank /\ ctl'.from = "none"
Registers(n) == ctl'.at = "record" /\ ctl'.next = n /\ Top' = Top /\ CtlBut({"next"})
Lacks(n) == ctl'.at = n /\ ~ctl'.complete /\ Top' = Top /\ CtlBut({"complete"})

\* The types of the fields, as later lemmas need them.
LEMMA Types ==
  ASSUME Typed
  PROVE  /\ ctl \in Ctls /\ st \in Records /\ desk \in Desks /\ was \in Wases /\ left \in Lefts
         /\ disk \in Records \cup {NoRecord} /\ session \in {"none", "active", "parked"}
         /\ ctl.ok \in BOOLEAN /\ ctl.desktop \in BOOLEAN /\ ctl.complete \in BOOLEAN
         /\ ctl.retained \in BOOLEAN /\ ctl.gone \in BOOLEAN /\ ctl.put \in BOOLEAN /\ ctl.audio \in BOOLEAN
         /\ ctl.kept \in Records /\ ctl.want \in Kinds /\ ctl.next \in Labels /\ ctl.at \in Labels
         /\ ctl.stack \in Seq(Labels) /\ ctl.todo \in Sets /\ ctl.one \in Sets
         /\ ctl.op \in Ops \cup {"none"} /\ ctl.from \in {"none", "active", "parked"}
BY DEF Typed, TypeOK, Ctls

\* What waits for a return is itself waited for, by an operation it
\* serves.
LEMMA Deeper ==
  ASSUME NEW l, NEW op, NEW s, Frames(l, s, op), s # <<>>, s[1] # "idle"
  PROVE  Waits(s[1], op) /\ Below(s[1], Tail(s)[1])
<1>1. s \in Seq(Labels) /\ \A i \in 1 .. Len(s) : (s[i] = "idle") = (i = Len(s))
  BY DEF Frames
<1>2. Len(s) \in Nat /\ Len(s) >= 1
  BY <1>1, EmptyStack
<1>3. Len(s) > 1
  BY <1>1, <1>2
<1>4. 1 \in 1 .. Len(s) - 1 /\ Tail(s)[1] = s[2]
  BY <1>1, <1>2, <1>3, Popped
<1> QED BY <1>4 DEF Frames

\* While an operation runs, something waits for the step that runs.
LEMMA Running ==
  ASSUME Typed, ~At("idle")
  PROVE  /\ ctl.stack # <<>> /\ ctl.stack \in Seq(Labels) /\ Top = ctl.stack[1] /\ Top = Head(ctl.stack)
         /\ Top \in Labels /\ Awaits(ctl.at, Top) /\ Serves(ctl.at, ctl.op) /\ ctl.op \in Ops
         /\ Top # "idle" => Waits(Top, ctl.op)
<1>1. ctl.stack # <<>> /\ ctl.stack \in Seq(Labels) /\ Awaits(ctl.at, ctl.stack[1]) /\ Serves(ctl.at, ctl.op) /\ ctl.op \in Ops
  BY DEF Typed, Control, Frames, Held, Special, At
<1>2. Top = ctl.stack[1] /\ Top = Head(ctl.stack) /\ Top \in Labels
  BY <1>1, Popped DEF Top
<1>3. ASSUME Top # "idle" PROVE Waits(Top, ctl.op)
  BY <1>1, <1>2, <1>3, Deeper DEF Typed, Control
<1> QED BY <1>1, <1>2, <1>3

\* To(l), the next step of a method, keeps the control in order.
LEMMA ToMoves ==
  ASSUME Typed, ~At("idle"), NEW l \in Labels \ Special, To(l)
  PROVE  /\ ctl' \in Ctls /\ Goes(l)
         /\ Awaits(l, Top) /\ Serves(l, ctl.op) => Control'
<1>1. ctl \in Ctls
  BY DEF Typed, TypeOK
<1>2. /\ ctl' \in Ctls /\ ctl'.at = l /\ ctl'.stack = ctl.stack /\ CtlBut({})
  BY <1>1 DEF To, Ctls, CtlBut
<1>3. Top' = Top
  BY <1>2 DEF Top
<1>4. ctl'.op = ctl.op
  BY <1>2 DEF CtlBut
<1>5. ASSUME Awaits(l, Top), Serves(l, ctl.op) PROVE Control'
  <2>1. Frames(l, ctl.stack, ctl.op)
    BY <1>5, Running, GoFrames DEF Typed, Control, At, Special, Held
  <2> QED BY <2>1, <1>2, <1>4 DEF Control, Held, Special
<1> QED BY <1>2, <1>3, <1>5 DEF Goes

\* So does Call(l, b), by which the step at b calls the method that starts
\* at l.
LEMMA CallMoves ==
  ASSUME Typed, ~At("idle"), NEW l \in Labels \ Special, NEW b \in Labels \ {"idle"}, Call(l, b)
  PROVE  /\ ctl' \in Ctls /\ Calls(l, b)
         /\ Below(b, Top) /\ Waits(b, ctl.op) /\ Awaits(l, b) /\ Serves(l, ctl.op) => Control'
<1>1. ctl \in Ctls
  BY DEF Typed, TypeOK
<1>2. <<b>> \o ctl.stack \in Seq(Labels) /\ (<<b>> \o ctl.stack)[1] = b /\ <<b>> \o ctl.stack # <<>>
  BY <1>1, Pushed DEF Ctls
<1>3. /\ ctl' \in Ctls /\ ctl'.at = l /\ ctl'.stack = <<b>> \o ctl.stack /\ CtlBut({})
  BY <1>1, <1>2 DEF Call, Ctls, CtlBut
<1>4. Top' = b
  BY <1>2, <1>3 DEF Top
<1>5. ctl'.op = ctl.op
  BY <1>3 DEF CtlBut
<1>6. ASSUME Below(b, Top), Waits(b, ctl.op), Awaits(l, b), Serves(l, ctl.op) PROVE Control'
  <2>1. Frames(l, <<b>> \o ctl.stack, ctl.op)
    BY <1>6, Running, PushFrames DEF Typed, Control, Frames, Held, Special
  <2> QED BY <2>1, <1>3, <1>5 DEF Control, Held, Special
<1> QED BY <1>3, <1>4, <1>6 DEF Calls

\* So does the call of restore.
LEMMA CallRestoreMoves ==
  ASSUME Typed, ~At("idle"), NEW r \in BOOLEAN, NEW g \in BOOLEAN, NEW b \in Labels \ {"idle"}, CallRestore(r, g, b)
  PROVE  /\ ctl' \in Ctls /\ CallsRestore(r, g, b)
         /\ Below(b, Top) /\ Waits(b, ctl.op) /\ b \in RestoreTops => Control'
<1>1. ctl \in Ctls
  BY DEF Typed, TypeOK
<1>2. <<b>> \o ctl.stack \in Seq(Labels) /\ (<<b>> \o ctl.stack)[1] = b /\ <<b>> \o ctl.stack # <<>>
  BY <1>1, Pushed DEF Ctls
<1>3. /\ ctl' \in Ctls /\ ctl'.at = "quiet" /\ ctl'.stack = <<b>> \o ctl.stack
      /\ ctl'.complete /\ ctl'.gone = g /\ ctl'.retained = r
      /\ CtlBut({"complete", "gone", "retained"})
  BY <1>1, <1>2, LabelNames DEF CallRestore, Ctls, CtlBut
<1>4. Top' = b
  BY <1>2, <1>3 DEF Top
<1>6. ASSUME Below(b, Top), Waits(b, ctl.op), b \in RestoreTops PROVE Control'
  <2>1. Awaits("quiet", b) /\ Serves("quiet", ctl.op)
    BY <1>6 DEF Awaits, Serves, RestoreLabels, MuteLabels, UnmuteLabels, SettleLabels, EnterLabels, ParkLabels, RefreshLabels, ResumeLabels, ExitLabels
  <2>2. Frames("quiet", <<b>> \o ctl.stack, ctl.op)
    BY <1>6, <2>1, Running, PushFrames, LabelNames DEF Typed, Control, Frames, Held, Special
  <2> QED BY <2>2, <1>3 DEF Control, Held, CtlBut
<1> QED BY <1>3, <1>4, <1>6 DEF CallsRestore

\* A controller that nothing was asked of.
LEMMA RestType == Resting \in Ctls /\ Blank \in Records
<1>1. Blank \in Records
  BY GameModeAssumption DEF Blank, Records
<1>2. (CHOOSE k \in Kinds : TRUE) \in Kinds
  BY GameModeAssumption
<1>3. {} \in Sets /\ <<>> \in Seq(Labels)
  BY DEF Sets
<1> QED BY <1>1, <1>2, <1>3, LabelNames DEF Resting, Ctls

\* No call is in progress outside of an operation.
LEMMA EmptyFrames ==
  ASSUME NEW op PROVE Frames("idle", <<>>, op)
<1> DEFINE s == <<>>
<1>1. s \in Seq(Labels) /\ Len(s) = 0
  OBVIOUS
<1> HIDE DEF s
<1>2. (1 .. Len(s)) = {} /\ (1 .. Len(s) - 1) = {}
  BY <1>1
<1>3. Frames("idle", s, op) <=> /\ s \in Seq(Labels) /\ s = <<>>
  BY <1>2 DEF Frames
<1> QED BY <1>1, <1>3 DEF s

\* Nothing waits at a write of the record; and what may lie under a label
\* may be there after a return.
LEMMA NoRecordTop ==
  ASSUME NEW l \in Labels \ {"idle"}, NEW b, Awaits(l, b)
  PROVE  b = "idle" \/ b \notin Special
BY DEF Special, Awaits, Labels, RestoreLabels, MuteLabels, UnmuteLabels, SettleLabels, EnterLabels, ParkLabels,
       RefreshLabels, ResumeLabels, ExitLabels, RestoreTops, MuteTops, UnmuteTops, FinishTops

\* What waits for a step that waits itself is one of a few.
LEMMA LowerTops ==
  ASSUME NEW l \in Labels \ {"idle"}, NEW b \in Labels \ {"idle"}, NEW c, Awaits(l, b), Below(b, c)
  PROVE  b \in AllTops /\ c \in LowTops
<1>1. b \in AllTops
  BY DEF Awaits, AllTops, Labels, RestoreTops, MuteTops, UnmuteTops, FinishTops, RestoreLabels, MuteLabels,
        UnmuteLabels, SettleLabels, EnterLabels, ParkLabels, RefreshLabels, ResumeLabels, ExitLabels
<1> QED BY <1>1 DEF Below, Awaits, AllTops, LowTops, RestoreTops, MuteTops, UnmuteTops, FinishTops, RestoreLabels,
        MuteLabels, UnmuteLabels, SettleLabels, EnterLabels, ParkLabels, RefreshLabels, ResumeLabels, ExitLabels

\* Return(ok), by which a method answers, keeps the control in order.
LEMMA ReturnMoves ==
  ASSUME Typed, ~At("idle"), NEW ok \in BOOLEAN, Return(ok)
  PROVE  ctl' \in Ctls /\ Control' /\ Returns(ok)
<1>1. ctl \in Ctls
  BY DEF Typed, TypeOK
<1>2. /\ ctl.stack # <<>> /\ Head(ctl.stack) = Top /\ Top \in Labels /\ Tail(ctl.stack) \in Seq(Labels)
  BY Running, Popped
<1>3. CASE Top = "idle"
  <2>1. ctl' = [Resting EXCEPT !.want = ctl.want, !.op = ctl.op]
    BY <1>2, <1>3 DEF Return
  <2>2. Resting \in Ctls /\ Resting.at = "idle" /\ Resting.stack = <<>> /\ Resting.kept = Blank /\ Resting.from = "none"
    BY RestType DEF Resting
  <2>3. /\ ctl' \in Ctls /\ ctl'.at = "idle" /\ ctl'.stack = <<>> /\ ctl'.kept = Blank /\ ctl'.want = ctl.want
        /\ ctl'.op = ctl.op /\ ctl'.from = "none"
    BY <1>1, <2>1, <2>2 DEF Ctls
  <2>4. Frames("idle", <<>>, ctl.op)
    BY EmptyFrames
  <2>5. Control' /\ Top' = "idle"
    BY <2>3, <2>4 DEF Control, Held, Top
  <2> QED BY <2>3, <2>5, <1>3 DEF Returns
<1>4. CASE Top # "idle"
  <2>1. ctl' = [ctl EXCEPT !.at = Top, !.stack = Tail(ctl.stack), !.ok = ok]
    BY <1>1, <1>2, <1>4 DEF Return, Ctls
  <2>2. /\ ctl' \in Ctls /\ ctl'.at = Top /\ ctl'.stack = Tail(ctl.stack) /\ ctl'.ok = ok
        /\ CtlBut({"ok"})
    BY <1>1, <1>2, <2>1 DEF Ctls, CtlBut
  <2>3. ctl'.want = ctl.want /\ ctl'.op = ctl.op
    BY <2>2 DEF CtlBut
  <2>4. Frames(Top, Tail(ctl.stack), ctl.op)
    BY <1>2, <1>4, PopFrames DEF Typed, Control, At
  <2>5. Control'
    BY <2>2, <2>3, <2>4, <1>2, Running, NoRecordTop, Types DEF Control, At, Held, Special
  <2>6. Tail(ctl.stack) # <<>> /\ Awaits(Top, Tail(ctl.stack)[1])
    BY <2>4, <1>4 DEF Frames
  <2>7. Below(Top, Top')
    <3>1. Below(Top, Tail(ctl.stack)[1])
      BY <1>2, <1>4, Running, Deeper DEF Typed, Control
    <3> QED BY <2>6, <2>2, <3>1 DEF Top
  <2>8. Top' # "idle" => Waits(Top', ctl.op)
    <3>1. Tail(ctl.stack) # <<>> /\ Top' = Tail(ctl.stack)[1]
      BY <2>6, <2>2 DEF Top
    <3> QED BY <3>1, <2>4, Deeper
  <2>9. Top' \in LowTops
    BY <2>7, <1>2, <1>4, Running, LowerTops, Types DEF At
  <2> QED BY <2>2, <2>3, <2>5, <2>7, <2>8, <2>9, <1>2, <1>4, Running DEF Returns
<1> QED BY <1>3, <1>4

\* A failure takes from the budget and makes the operation unclean.
LEMMA FailsLeft ==
  ASSUME Typed, Fails
  PROVE  Failed
<1>1. left \in Lefts
  BY DEF Typed, TypeOK
<1>2. left.faults - 1 \in Int
  BY <1>1 DEF Lefts
<1>3. left' \in Lefts
  BY <1>1, <1>2 DEF Fails, Lefts
<1> QED BY <1>1, <1>3 DEF Fails, Lefts, Failed

\* Record(l), a write of the record, keeps the control in order.
LEMMA RecordMoves ==
  ASSUME Typed, ~At("idle"), NEW n \in Stages, Record(n)
  PROVE  /\ ctl' \in Ctls /\ Registers(n)
         /\ Top \in RestoreTops => Control'
<1>1. ctl \in Ctls
  BY DEF Typed, TypeOK
<1>2. /\ ctl' \in Ctls /\ ctl'.at = "record" /\ ctl'.next = n /\ ctl'.stack = ctl.stack /\ CtlBut({"next"})
  BY <1>1, LabelNames DEF Record, Ctls, CtlBut, Stages
<1>3. Top' = Top
  BY <1>2 DEF Top
<1>4. ASSUME Top \in RestoreTops PROVE Control'
  <2>1. Awaits("record", Top) /\ Serves("record", ctl.op)
    BY <1>4 DEF Awaits, Serves, RestoreLabels, MuteLabels, UnmuteLabels, SettleLabels, EnterLabels, ParkLabels, RefreshLabels, ResumeLabels, ExitLabels
  <2>2. Frames("record", ctl.stack, ctl.op)
    BY <2>1, Running, GoFrames DEF Typed, Control, At, Special, Held
  <2>3. ctl'.op = ctl.op
    BY <1>2 DEF CtlBut
  <2> QED BY <2>2, <2>3, <1>2 DEF Control, Held, Special
<1> QED BY <1>2, <1>3, <1>4 DEF Registers

\* So does Incomplete(l), a step of a restore that lacks something.
LEMMA IncompleteMoves ==
  ASSUME Typed, ~At("idle"), NEW n \in Labels \ Special, Incomplete(n)
  PROVE  /\ ctl' \in Ctls /\ Lacks(n)
         /\ Awaits(n, Top) /\ Serves(n, ctl.op) => Control'
<1>1. ctl \in Ctls
  BY DEF Typed, TypeOK
<1>2. /\ ctl' \in Ctls /\ ctl'.at = n /\ ~ctl'.complete /\ ctl'.stack = ctl.stack /\ CtlBut({"complete"})
  BY <1>1 DEF Incomplete, Ctls, CtlBut
<1>3. Top' = Top
  BY <1>2 DEF Top
<1>4. ASSUME Awaits(n, Top), Serves(n, ctl.op) PROVE Control'
  <2>2. Frames(n, ctl.stack, ctl.op)
    BY <1>4, Running, GoFrames DEF Typed, Control, At, Special, Held
  <2>3. ctl'.op = ctl.op
    BY <1>2 DEF CtlBut
  <2> QED BY <2>2, <2>3, <1>2 DEF Control, Held, Special
<1> QED BY <1>2, <1>3, <1>4 DEF Lacks

\* What waits, by the method that runs.
LEMMA Groups ==
  ASSUME NEW b
  PROVE  /\ \A l \in RestoreLabels : Awaits(l, b) <=> b \in RestoreTops
         /\ \A l \in MuteLabels : Awaits(l, b) <=> b \in MuteTops
         /\ \A l \in UnmuteLabels : Awaits(l, b) <=> b \in UnmuteTops
         /\ \A l \in SettleLabels : Awaits(l, b) <=> b \in FinishTops \cup {"entered"}
         /\ \A l \in RefreshLabels : Awaits(l, b) <=> b \in {"idle", "resume"}
         /\ \A l \in ResumeLabels : Awaits(l, b) <=> b \in {"idle", "parkRolledBack"}
         /\ \A l \in EnterLabels \cup ParkLabels \cup ExitLabels \cup {"entered"} : Awaits(l, b) <=> b = "idle"
         /\ Awaits("yes", b) <=> b \in MuteTops \cup UnmuteTops
         /\ Awaits("no", b) <=> b \in RestoreTops \cup MuteTops \cup UnmuteTops \cup FinishTops \cup {"parkRolledBack"}
         /\ Awaits("finish", b) <=> b \in FinishTops
         /\ Awaits("recover", b) <=> b \in {"idle", "entered"}
BY DEF Awaits, RestoreLabels, MuteLabels, UnmuteLabels, SettleLabels, EnterLabels, ParkLabels, RefreshLabels, ResumeLabels, ExitLabels

\* What the operation is, by the method that runs.
LEMMA Servings ==
  ASSUME NEW op \in Ops
  PROVE  /\ \A l \in RestoreLabels \cup UnmuteLabels \cup SettleLabels \cup {"yes", "no"} : Serves(l, op)
         /\ \A l \in RefreshLabels \cup MuteLabels : Serves(l, op) <=> op \in {"RefreshParked", "Resume", "Park"}
         /\ \A l \in ResumeLabels : Serves(l, op) <=> op \in {"Resume", "Park"}
         /\ \A l \in EnterLabels \cup {"entered"} : Serves(l, op) <=> op = "Enter"
         /\ \A l \in ParkLabels : Serves(l, op) <=> op = "Park"
         /\ \A l \in ExitLabels : Serves(l, op) <=> op = "Exit"
         /\ Serves("finish", op) <=> op \in {"Exit", "RefreshParked", "Resume", "Park"}
         /\ Serves("recover", op) <=> op \in {"Enter", "Recover"}
BY DEF Serves, RestoreLabels, MuteLabels, UnmuteLabels, SettleLabels, EnterLabels, ParkLabels, RefreshLabels, ResumeLabels, ExitLabels

\* A step to another one of the same method.
LEMMA SameMethod ==
  ASSUME Typed, ~At("idle"), NEW l, l \notin Special,
         \/ ctl.at \in EnterLabels /\ l \in EnterLabels
         \/ ctl.at \in ResumeLabels /\ l \in ResumeLabels
         \/ ctl.at \in RestoreLabels /\ l \in RestoreLabels
  PROVE  /\ To(l) => ctl' \in Ctls /\ Control' /\ Goes(l)
         /\ Incomplete(l) => ctl' \in Ctls /\ Control' /\ Lacks(l)
<1>1. l \in Labels \ Special
  BY DEF Labels
<1>2. Awaits(ctl.at, Top) /\ Serves(ctl.at, ctl.op) /\ ctl.op \in Ops
  BY Running
<1>3. Awaits(l, Top) /\ Serves(l, ctl.op)
  BY <1>2, Groups, Servings
<1> QED BY <1>1, <1>3, ToMoves, IncompleteMoves

\* A step that writes its local variables itself.
LEMMA EditMoves ==
  ASSUME Typed, ~At("idle"), NEW l \in Labels \ {"idle"}, ctl'.at = l, ctl'.stack = ctl.stack, ctl'.op = ctl.op
  PROVE  /\ Top' = Top
         /\ Awaits(l, Top) /\ Serves(l, ctl.op) /\ Held' => Control'
<1>1. Top' = Top
  BY DEF Top
<1>2. ASSUME Awaits(l, Top), Serves(l, ctl.op), Held' PROVE Control'
  BY <1>2, Running, GoFrames DEF Typed, Control, At
<1> QED BY <1>1, <1>2

\* A call that also writes local variables.
LEMMA PushMoves ==
  ASSUME Typed, ~At("idle"), NEW l \in Labels \ {"idle"}, NEW b \in Labels \ {"idle"},
         ctl'.at = l, ctl'.stack = <<b>> \o ctl.stack, ctl'.op = ctl.op
  PROVE  /\ Top' = b
         /\ Below(b, Top) /\ Waits(b, ctl.op) /\ Awaits(l, b) /\ Serves(l, ctl.op) /\ Held' => Control'
<1>1. <<b>> \o ctl.stack \in Seq(Labels) /\ (<<b>> \o ctl.stack)[1] = b /\ <<b>> \o ctl.stack # <<>>
  BY Types, Pushed
<1>2. Top' = b
  BY <1>1 DEF Top
<1>3. ASSUME Below(b, Top), Waits(b, ctl.op), Awaits(l, b), Serves(l, ctl.op), Held' PROVE Control'
  <2>0. /\ \A i \in 1 .. Len(ctl.stack) : (ctl.stack[i] = "idle") = (i = Len(ctl.stack))
        /\ \A i \in 1 .. Len(ctl.stack) - 1 : Below(ctl.stack[i], ctl.stack[i + 1]) /\ Waits(ctl.stack[i], ctl.op)
    BY DEF Typed, Control, Frames
  <2>1. Frames(l, <<b>> \o ctl.stack, ctl.op)
    BY <1>3, <2>0, Running, PushFrames
  <2> QED BY <1>3, <2>1 DEF Control
<1> QED BY <1>2, <1>3

\* The calls with which a resumption that failed is undone.
LEMMA RollBackMoves ==
  ASSUME Typed, ~At("idle"), ctl'.at = "refresh", ctl'.stack = <<"resume", "parkRolledBack">> \o ctl.stack,
         ctl'.op = ctl.op
  PROVE  /\ Top' = "resume"
         /\ /\ Below("parkRolledBack", Top) /\ Waits("parkRolledBack", ctl.op) /\ Below("resume", "parkRolledBack") /\ Waits("resume", ctl.op)
            /\ Awaits("refresh", "resume") /\ Serves("refresh", ctl.op) /\ Held'
            => Control'
<1> DEFINE l == "refresh"
           b == "resume"
           c == "parkRolledBack"
           s == ctl.stack
           t == <<c>> \o s
<1>0. l \in Labels \ {"idle"} /\ b \in Labels \ {"idle"} /\ c \in Labels \ {"idle"}
  BY LabelNames
<1>0a. ctl'.stack = <<b, c>> \o ctl.stack /\ ctl'.at = l
  OBVIOUS
<1> HIDE DEF l, b, c
<1>1. s \in Seq(Labels) /\ <<b>> \in Seq(Labels) /\ <<c>> \in Seq(Labels)
  BY <1>0, Types
<1>2. <<b, c>> \o s = <<b>> \o t
  <2> DEFINE u == <<b, c>>
             v == <<b>> \o <<c>>
  <2>1. u \in Seq(Labels) /\ Len(u) = 2 /\ u[1] = b /\ u[2] = c
    BY <1>0
  <2>2. v \in Seq(Labels) /\ Len(v) = 2 /\ v[1] = b /\ v[2] = c
    BY <1>0
  <2> HIDE DEF u, v
  <2>3. \A i \in 1 .. Len(u) : u[i] = v[i]
    BY <2>1, <2>2
  <2>4. u = v
    BY <2>1, <2>2, <2>3, SeqEqual
  <2>5. (<<b>> \o <<c>>) \o s = <<b>> \o t
    BY <1>1, ConcatAssociative
  <2> QED BY <2>4, <2>5 DEF u, v
<1>3. t \in Seq(Labels) /\ t[1] = c /\ t # <<>>
  BY <1>0, <1>1, Pushed
<1>4. <<b>> \o t \in Seq(Labels) /\ (<<b>> \o t)[1] = b /\ <<b>> \o t # <<>>
  BY <1>0, <1>3, Pushed
<1>5. Top' = "resume"
  BY <1>0a, <1>2, <1>4 DEF Top, b
<1>6. ASSUME Below(c, Top), Waits(c, ctl.op), Below(b, c), Waits(b, ctl.op), Awaits(l, b), Serves(l, ctl.op), Held'
      PROVE  Control'
  <2>0. /\ \A i \in 1 .. Len(ctl.stack) : (ctl.stack[i] = "idle") = (i = Len(ctl.stack))
        /\ \A i \in 1 .. Len(ctl.stack) - 1 : Below(ctl.stack[i], ctl.stack[i + 1]) /\ Waits(ctl.stack[i], ctl.op)
    BY DEF Typed, Control, Frames
  <2>1. Frames(b, t, ctl.op)
    BY <1>0, <1>6, <2>0, Running, PushFrames DEF Waits, Below
  <2>2. Frames(l, <<b>> \o t, ctl.op)
    <3>1. /\ \A i \in 1 .. Len(t) : (t[i] = "idle") = (i = Len(t))
          /\ \A i \in 1 .. Len(t) - 1 : Below(t[i], t[i + 1]) /\ Waits(t[i], ctl.op)
      BY <2>1 DEF Frames
    <3> HIDE DEF t
    <3> QED BY <1>0, <1>3, <1>6, <3>1, Running, PushFrames
  <2> QED BY <1>0a, <1>2, <1>6, <2>2 DEF Control
<1> QED BY <1>5, <1>6 DEF l, b, c

\* The calls in progress when an operation begins, and when it begins with
\* a call.
LEMMA BeginFrames ==
  ASSUME NEW l \in Labels \ {"idle"}, NEW op \in Ops, Awaits(l, "idle"), Serves(l, op)
  PROVE  Frames(l, <<"idle">>, op)
<1> DEFINE s == <<"idle">>
<1>1. s \in Seq(Labels) /\ Len(s) = 1 /\ s[1] = "idle" /\ s # <<>>
  BY LabelNames
<1> HIDE DEF s
<1>2. \A i \in 1 .. Len(s) : (s[i] = "idle") = (i = Len(s))
  BY <1>1
<1>3. \A i \in 1 .. Len(s) - 1 : Below(s[i], s[i + 1]) /\ Waits(s[i], op)
  BY <1>1
<1>4. Frames(l, s, op)
  BY <1>1, <1>2, <1>3 DEF Frames
<1> QED BY <1>4 DEF s

LEMMA BeginCallFrames ==
  ASSUME NEW l \in Labels \ {"idle"}, NEW b \in Labels \ {"idle"}, NEW op \in Ops,
         Below(b, "idle"), Waits(b, op), Awaits(l, b), Serves(l, op)
  PROVE  Frames(l, <<b, "idle">>, op)
<1>1. Frames(b, <<"idle">>, op)
  BY BeginFrames DEF Waits, Below
<1>2. <<"idle">> \in Seq(Labels) /\ <<"idle">> # <<>> /\ <<"idle">>[1] = "idle"
  BY LabelNames
<1>3. Frames(l, <<b>> \o <<"idle">>, op)
  BY <1>1, <1>2, PushFrames DEF Frames
<1>4. <<b>> \o <<"idle">> = <<b, "idle">>
  <2> DEFINE t == <<b>> \o <<"idle">>
             u == <<b, "idle">>
  <2>1. t \in Seq(Labels) /\ Len(t) = 2 /\ t[1] = b /\ t[2] = "idle"
    BY LabelNames
  <2>2. u \in Seq(Labels) /\ Len(u) = 2 /\ u[1] = b /\ u[2] = "idle"
    BY LabelNames
  <2> HIDE DEF t, u
  <2>3. \A i \in 1 .. Len(t) : t[i] = u[i]
    BY <2>1, <2>2
  <2>4. t = u
    BY <2>1, <2>2, <2>3, SeqEqual
  <2> QED BY <2>4 DEF t, u
<1> QED BY <1>3, <1>4

\* Begin and BeginCall, with which an operation begins, bring the control
\* in order.
LEMMA BeginMoves ==
  ASSUME NEW l \in Labels \ Special, NEW op \in Ops, Awaits(l, "idle"), Serves(l, op),
         ctl'.at = l, ctl'.stack = <<"idle">>, ctl'.op = op
  PROVE  Control' /\ Top' = "idle"
<1>1. Frames(l, <<"idle">>, op)
  BY BeginFrames DEF Special
<1>2. <<"idle">> # <<>> /\ <<"idle">>[1] = "idle"
  OBVIOUS
<1>3. Top' = "idle"
  BY <1>2 DEF Top
<1> QED BY <1>1, <1>3 DEF Control, Held, Special

LEMMA BeginCallMoves ==
  ASSUME NEW l \in Labels \ Special, NEW b \in Labels \ {"idle"}, NEW op \in Ops,
         Below(b, "idle"), Waits(b, op), Awaits(l, b), Serves(l, op),
         ctl'.at = l, ctl'.stack = <<b, "idle">>, ctl'.op = op
  PROVE  Control' /\ Top' = b
<1>1. Frames(l, <<b, "idle">>, op)
  BY BeginCallFrames DEF Special
<1>2. <<b, "idle">> # <<>> /\ <<b, "idle">>[1] = b
  OBVIOUS
<1>3. Top' = b
  BY <1>2 DEF Top
<1> QED BY <1>1, <1>3 DEF Control, Held, Special

\* What a lemma takes for granted of a record that is written.
LEMMA Fields ==
  ASSUME NEW r \in Records
  PROVE  /\ r.games \in SUBSET Games /\ r.streams \in SUBSET Streams /\ r.output \in Outputs
         /\ r.lit \in BOOLEAN /\ r.placed \in BOOLEAN /\ r.quiet \in BOOLEAN /\ r.ending \in BOOLEAN
         /\ r.pending \in BOOLEAN
         /\ r.sink \in Sinks \cup {NoSink} /\ r.prev \in Sinks \cup {NoSink}
BY DEF Records

\* The values that a desktop's fields may be set to.
LEMMA DeskFields ==
  ASSUME NEW d \in Desks
  PROVE  /\ d.games \in SUBSET Games /\ d.inside \in SUBSET Games /\ d.over \in SUBSET Games
         /\ d.muted \in SUBSET Games /\ d.on \in SUBSET Outputs /\ d.plugged \in SUBSET Outputs
         /\ d.at \in Outputs /\ d.sinks \in SUBSET Sinks /\ d.sink \in Sinks \cup {NoSink}
         /\ d.quiet \in BOOLEAN /\ d.win \in {"home", "session"}
BY DEF Desks

\* The fields of a kind of session.
LEMMA KindFields ==
  ASSUME NEW k \in Kinds
  PROVE  k.output \in Outputs /\ k.sink \in Sinks \cup {NoSink} /\ k.quiet \in BOOLEAN
BY GameModeAssumption

---------------------------------------------------------------------------

\* What an operation begins with: nothing failed in it yet.
Afresh == left' \in Lefts /\ left'.clean /\ left'.lost = left.lost /\ left'.kills = left.kills

\* What each step of the controller changes. There is a lemma for each
\* action, that says what the action makes of the variables by its cases
\* and that it keeps their types and the control in order, so that no
\* later proof unfolds an action.
LEMMA AnswerDoes ==
  ASSUME Typed, Answer
  PROVE  /\ Typed'
         /\ \/ /\ At("yes") /\ Returns(TRUE) /\ UNCHANGED <<desk, was, disk, st, session, left>>
            \/ /\ At("no") /\ Returns(FALSE) /\ UNCHANGED <<desk, was, disk, st, session, left>>
<1>1. \/ /\ At("yes") /\ Return(TRUE) /\ UNCHANGED <<desk, was, disk, st, session, left>>
      \/ /\ At("no") /\ Return(FALSE) /\ UNCHANGED <<desk, was, disk, st, session, left>>
  BY DEF Answer
<1>2. CASE /\ At("yes") /\ Return(TRUE) /\ UNCHANGED <<desk, was, disk, st, session, left>>
  <2>1. ~At("idle") /\ Awaits("yes", Top) /\ ctl.op \in Ops /\ Top \in Labels
    BY <1>2, Running DEF At
  <2>2. /\ ctl' \in Ctls /\ Control' /\ Returns(TRUE)
    BY <1>2, <2>1, Types, ReturnMoves
  <2> QED BY <1>2, <2>1, <2>2, Types DEF Typed, TypeOK
<1>3. CASE /\ At("no") /\ Return(FALSE) /\ UNCHANGED <<desk, was, disk, st, session, left>>
  <2>1. ~At("idle") /\ Awaits("no", Top) /\ ctl.op \in Ops /\ Top \in Labels
    BY <1>3, Running DEF At
  <2>2. /\ ctl' \in Ctls /\ Control' /\ Returns(FALSE)
    BY <1>3, <2>1, Types, ReturnMoves
  <2> QED BY <1>3, <2>1, <2>2, Types DEF Typed, TypeOK
<1> QED BY <1>1, <1>2, <1>3

\* The steps of restore.
LEMMA RecordUndoneDoes ==
  ASSUME Typed, RecordUndone
  PROVE  /\ Typed' /\ At("record")
         /\ \/ /\ Goes(ctl.next) /\ disk' = st /\ UNCHANGED <<desk, was, st, session, left>>
            \/ /\ Lacks(ctl.next) /\ Failed /\ UNCHANGED <<desk, was, disk, st, session>>
<1>0. ~At("idle") /\ At("record") /\ Awaits("record", Top) /\ Serves("record", ctl.op) /\ ctl.op \in Ops /\ Top \in Labels
  BY Running DEF RecordUndone, At
<1>1. \/ /\ To(ctl.next) /\ disk' = st /\ UNCHANGED <<desk, was, st, session, left>>
      \/ /\ Incomplete(ctl.next) /\ Fails /\ UNCHANGED <<desk, was, disk, st, session>>
  BY DEF Incomplete, RecordUndone, Saves, Works, SaveFails
<1>2. CASE /\ To(ctl.next) /\ disk' = st /\ UNCHANGED <<desk, was, st, session, left>>
  <2>1. Awaits(ctl.next, Top) /\ Serves(ctl.next, ctl.op) /\ ctl.next \in Labels \ Special
    BY <1>0, Groups, Servings DEF RestoreLabels, Stages, Typed, Control, Held, At, Special, Labels
  <2>2. /\ ctl' \in Ctls /\ Control' /\ Goes(ctl.next)
    BY <1>2, <1>0, <2>1, ToMoves
  <2> QED BY <1>0, <1>2, <2>1, <2>2, Types DEF Typed, TypeOK
<1>3. CASE /\ Incomplete(ctl.next) /\ Fails /\ UNCHANGED <<desk, was, disk, st, session>>
  <2>1. Failed
    BY <1>3, FailsLeft
  <2>2. Awaits(ctl.next, Top) /\ Serves(ctl.next, ctl.op) /\ ctl.next \in Labels \ Special
    BY <1>0, Groups, Servings DEF RestoreLabels, Stages, Typed, Control, Held, At, Special, Labels
  <2>3. /\ ctl' \in Ctls /\ Control' /\ Lacks(ctl.next)
    BY <1>3, <1>0, <2>2, IncompleteMoves
  <2> QED BY <1>0, <1>3, <2>1, <2>2, <2>3, Types DEF Typed, TypeOK, Failed
<1> QED BY <1>1, <1>2, <1>3

LEMMA RestoreQuietDoes ==
  ASSUME Typed, RestoreQuiet
  PROVE  /\ Typed' /\ At("quiet")
         /\ \/ /\ ~st.quiet /\ Goes("window") /\ UNCHANGED <<desk, was, disk, st, session, left>>
            \/ /\ st.quiet /\ Registers("window") /\ ~st'.quiet /\ StBut({"quiet"}) /\ ~desk'.quiet
               /\ DeskBut({"quiet"}) /\ UNCHANGED <<was, disk, session, left>>
            \/ /\ st.quiet /\ Lacks("window") /\ Failed /\ UNCHANGED <<desk, was, disk, st, session>>
<1>0. ~At("idle") /\ At("quiet") /\ Awaits("quiet", Top) /\ Serves("quiet", ctl.op) /\ ctl.op \in Ops /\ Top \in Labels
  BY Running DEF RestoreQuiet, At
<1>1. \/ /\ ~st.quiet /\ To("window") /\ UNCHANGED <<desk, was, disk, st, session, left>>
      \/ /\ st.quiet /\ Record("window") /\ st' = [st EXCEPT !.quiet = FALSE]
         /\ desk' = [desk EXCEPT !.quiet = FALSE] /\ UNCHANGED <<was, disk, session, left>>
      \/ /\ st.quiet /\ Incomplete("window") /\ Fails /\ UNCHANGED <<desk, was, disk, st, session>>
  BY DEF RestoreQuiet, Works
<1>2. CASE /\ ~st.quiet /\ To("window") /\ UNCHANGED <<desk, was, disk, st, session, left>>
  BY <1>0, <1>2, SameMethod, Types DEF Special, At, RestoreLabels, Typed, TypeOK
<1>3. CASE /\ st.quiet /\ Record("window") /\ st' = [st EXCEPT !.quiet = FALSE]
           /\ desk' = [desk EXCEPT !.quiet = FALSE] /\ UNCHANGED <<was, disk, session, left>>
  <2>1. /\ st' \in Records /\ ~st'.quiet /\ StBut({"quiet"})
    BY <1>3, Types DEF Records, StBut
  <2>2. /\ desk' \in Desks /\ ~desk'.quiet /\ DeskBut({"quiet"})
    BY <1>3, Types, Fields DEF Desks, DeskBut
  <2>3. Top \in RestoreTops /\ "window" \in Stages
    BY <1>0, Groups, Servings DEF RestoreLabels, Stages
  <2>4. /\ ctl' \in Ctls /\ Control' /\ Registers("window")
    BY <1>3, <1>0, <2>3, RecordMoves, LabelNames
  <2> QED BY <1>0, <1>3, <2>1, <2>2, <2>3, <2>4, Types DEF Typed, TypeOK
<1>4. CASE /\ st.quiet /\ Incomplete("window") /\ Fails /\ UNCHANGED <<desk, was, disk, st, session>>
  <2>1. Failed
    BY <1>4, FailsLeft
  <2>2. ctl' \in Ctls /\ Control' /\ Lacks("window")
    BY <1>0, <1>4, SameMethod DEF Special, At, RestoreLabels
  <2> QED BY <1>0, <1>4, <2>1, <2>2, Types DEF Typed, TypeOK, Failed
<1> QED BY <1>1, <1>2, <1>3, <1>4

LEMMA RestoreWindowDoes ==
  ASSUME Typed, RestoreWindow
  PROVE  /\ Typed' /\ At("window")
         /\ \/ /\ ~st.placed /\ ctl'.at = "leftover" /\ Top' = Top
               /\ (ctl'.put = (st.pending \/ st.placed)) /\ CtlBut({"put"}) /\ StBut({})
               /\ UNCHANGED <<desk, was, disk, session, left>>
            \/ /\ st.placed /\ ctl'.at = "record" /\ Top' = Top
               /\ (ctl'.put = (st.pending \/ st.placed)) /\ ctl'.next = "leftover"
               /\ CtlBut({"put", "next"}) /\ ~st'.placed /\ StBut({"placed"})
               /\ (desk'.win = IF ctl.gone THEN desk.win ELSE "home") /\ DeskBut({"win"})
               /\ UNCHANGED <<was, disk, session, left>>
            \/ /\ st.placed /\ ~ctl.gone /\ Goes("no") /\ StBut({}) /\ desk'.win \in {desk.win, "home"}
               /\ DeskBut({"win"}) /\ Failed /\ UNCHANGED <<was, disk, session>>
<1>0. ~At("idle") /\ At("window") /\ Awaits("window", Top) /\ Serves("window", ctl.op) /\ ctl.op \in Ops /\ Top \in Labels
  BY Running DEF RestoreWindow, At
<1>1. \/ /\ ~st.placed /\ (ctl' = [ctl EXCEPT !.at = "leftover", !.put = st.pending \/ st.placed])
         /\ (st' = [st EXCEPT !.pending = st.pending \/ ((st.pending \/ st.placed) /\ ~ctl.gone)])
         /\ UNCHANGED <<desk, was, disk, session, left>>
      \/ /\ st.placed
         /\ (ctl' = [ctl EXCEPT !.at = "record", !.put = st.pending \/ st.placed, !.next = "leftover"])
         /\ (st' = [st EXCEPT !.pending = st.pending \/ ((st.pending \/ st.placed) /\ ~ctl.gone), !.placed = FALSE])
         /\ (desk' = [desk EXCEPT !.win = IF ctl.gone THEN @ ELSE "home"])
         /\ UNCHANGED <<was, disk, session, left>>
      \/ /\ st.placed /\ ~ctl.gone /\ To("no")
         /\ (st' = [st EXCEPT !.pending = st.pending \/ ((st.pending \/ st.placed) /\ ~ctl.gone)])
         /\ desk' \in {desk, [desk EXCEPT !.win = "home"]} /\ Fails /\ UNCHANGED <<was, disk, session>>
  BY DEF RestoreWindow, Works
<1>2. CASE /\ ~st.placed /\ (ctl' = [ctl EXCEPT !.at = "leftover", !.put = st.pending \/ st.placed])
           /\ (st' = [st EXCEPT !.pending = st.pending \/ ((st.pending \/ st.placed) /\ ~ctl.gone)])
           /\ UNCHANGED <<desk, was, disk, session, left>>
  <2>1. /\ st' \in Records /\ StBut({})
    BY <1>2, Types DEF Records, StBut
  <2>2. /\ ctl' \in Ctls /\ ctl'.at = "leftover" /\ ctl'.stack = ctl.stack
          /\ (ctl'.put = (st.pending \/ st.placed)) /\ CtlBut({"put"})
    BY <1>2, Types, Fields, LabelNames DEF Ctls, CtlBut
  <2>3. Held' /\ ctl'.op = ctl.op
    BY <1>2, <2>2, Types DEF Held, CtlBut, Typed, Control, At
  <2>4. Awaits("leftover", Top) /\ Serves("leftover", ctl.op)
    BY <1>0, Groups, Servings DEF RestoreLabels
  <2>5. Top' = Top /\ Control'
    BY <2>2, <2>3, <2>4, <1>0, EditMoves, LabelNames
  <2> QED BY <1>0, <1>2, <2>1, <2>2, <2>3, <2>4, <2>5, Types DEF Typed, TypeOK
<1>3. CASE /\ st.placed
           /\ (ctl' = [ctl EXCEPT !.at = "record", !.put = st.pending \/ st.placed, !.next = "leftover"])
           /\ (st' = [st EXCEPT !.pending = st.pending \/ ((st.pending \/ st.placed) /\ ~ctl.gone), !.placed = FALSE])
           /\ (desk' = [desk EXCEPT !.win = IF ctl.gone THEN @ ELSE "home"])
           /\ UNCHANGED <<was, disk, session, left>>
  <2>1. /\ st' \in Records /\ ~st'.placed /\ StBut({"placed"})
    BY <1>3, Types DEF Records, StBut
  <2>2. /\ desk' \in Desks /\ (desk'.win = IF ctl.gone THEN desk.win ELSE "home") /\ DeskBut({"win"})
    BY <1>3, Types, Fields DEF Desks, DeskBut
  <2>3. /\ ctl' \in Ctls /\ ctl'.at = "record" /\ ctl'.stack = ctl.stack
          /\ (ctl'.put = (st.pending \/ st.placed)) /\ ctl'.next = "leftover"
          /\ CtlBut({"put", "next"})
    BY <1>3, Types, Fields, LabelNames DEF Ctls, CtlBut
  <2>4. Held' /\ ctl'.op = ctl.op
    BY <1>3, <2>3, Types DEF Held, CtlBut, Typed, Control, At, Stages
  <2>5. Awaits("record", Top) /\ Serves("record", ctl.op)
    BY <1>0, Groups, Servings DEF RestoreLabels
  <2>6. Top' = Top /\ Control'
    BY <2>3, <2>4, <2>5, <1>0, EditMoves, LabelNames
  <2> QED BY <1>0, <1>3, <2>1, <2>2, <2>3, <2>4, <2>5, <2>6, Types DEF Typed, TypeOK
<1>4. CASE /\ st.placed /\ ~ctl.gone /\ To("no")
           /\ (st' = [st EXCEPT !.pending = st.pending \/ ((st.pending \/ st.placed) /\ ~ctl.gone)])
           /\ desk' \in {desk, [desk EXCEPT !.win = "home"]} /\ Fails
           /\ UNCHANGED <<was, disk, session>>
  <2>1. /\ st' \in Records /\ StBut({})
    BY <1>4, Types DEF Records, StBut
  <2>2. /\ desk' \in Desks /\ desk'.win \in {desk.win, "home"} /\ DeskBut({"win"})
    BY <1>4, Types, Fields DEF Desks, DeskBut
  <2>3. Failed
    BY <1>4, FailsLeft
  <2>4. Awaits("no", Top) /\ Serves("no", ctl.op)
    BY <1>0, Groups, Servings DEF RestoreLabels, Below, Waits, RestoreTops, MuteTops, UnmuteTops, FinishTops
  <2>5. /\ ctl' \in Ctls /\ Control' /\ Goes("no")
    BY <1>4, <1>0, <2>4, ToMoves, LabelNames DEF Special
  <2> QED BY <1>0, <1>4, <2>1, <2>2, <2>3, <2>4, <2>5, Types DEF Typed, TypeOK, Failed
<1> QED BY <1>1, <1>2, <1>3, <1>4

LEMMA RestoreLeftoverDoes ==
  ASSUME Typed, RestoreLeftover
  PROVE  /\ Typed' /\ At("leftover")
         /\ \/ /\ ctl.retained /\ Goes("focus") /\ UNCHANGED <<desk, was, disk, st, session, left>>
            \/ /\ ~ctl.retained /\ Goes("focus") /\ desk'.inside = {} /\ DeskBut({"inside"})
               /\ UNCHANGED <<was, disk, st, session, left>>
            \/ \E stay \in SUBSET desk.inside \ {{}} :
                 /\ ~ctl.retained /\ Lacks("focus") /\ desk'.inside = stay /\ DeskBut({"inside"})
                 /\ Failed /\ UNCHANGED <<was, disk, st, session>>
<1>0. ~At("idle") /\ At("leftover")
  BY DEF RestoreLeftover, At
<1>1. \/ /\ ctl.retained /\ To("focus") /\ UNCHANGED <<desk, was, disk, st, session, left>>
      \/ /\ ~ctl.retained /\ To("focus") /\ desk' = [desk EXCEPT !.inside = {}]
         /\ UNCHANGED <<was, disk, st, session, left>>
      \/ \E stay \in SUBSET desk.inside \ {{}} :
           /\ ~ctl.retained /\ Incomplete("focus") /\ desk' = [desk EXCEPT !.inside = stay] /\ Fails
           /\ UNCHANGED <<was, disk, st, session>>
  BY DEF RestoreLeftover, Works
<1>2. CASE /\ ctl.retained /\ To("focus") /\ UNCHANGED <<desk, was, disk, st, session, left>>
  BY <1>0, <1>2, SameMethod, Types DEF Special, At, RestoreLabels, Typed, TypeOK
<1>3. CASE /\ ~ctl.retained /\ To("focus") /\ desk' = [desk EXCEPT !.inside = {}]
           /\ UNCHANGED <<was, disk, st, session, left>>
  <2>1. /\ desk' \in Desks /\ desk'.inside = {} /\ DeskBut({"inside"})
    BY <1>3, Types, Fields DEF Desks, DeskBut
  <2>2. ctl' \in Ctls /\ Control' /\ Goes("focus")
    BY <1>0, <1>3, SameMethod DEF Special, At, RestoreLabels
  <2> QED BY <1>0, <1>3, <2>1, <2>2, Types DEF Typed, TypeOK
<1>4. CASE \E stay \in SUBSET desk.inside \ {{}} :
           /\ ~ctl.retained /\ Incomplete("focus") /\ desk' = [desk EXCEPT !.inside = stay] /\ Fails
           /\ UNCHANGED <<was, disk, st, session>>
  <2>0. PICK stay \in SUBSET desk.inside \ {{}} :
          /\ ~ctl.retained /\ Incomplete("focus") /\ desk' = [desk EXCEPT !.inside = stay] /\ Fails
          /\ UNCHANGED <<was, disk, st, session>>
    BY <1>4
  <2>1. /\ desk' \in Desks /\ desk'.inside = stay /\ DeskBut({"inside"})
    BY <2>0, Types, Fields DEF Desks, DeskBut
  <2>2. Failed
    BY <2>0, FailsLeft
  <2>3. ctl' \in Ctls /\ Control' /\ Lacks("focus")
    BY <1>0, <2>0, SameMethod DEF Special, At, RestoreLabels
  <2> QED BY <1>0, <2>0, <2>1, <2>2, <2>3, Types DEF Typed, TypeOK, Failed
<1> QED BY <1>1, <1>2, <1>3, <1>4

LEMMA RestoreFocusDoes ==
  ASSUME Typed, RestoreFocus
  PROVE  /\ Typed' /\ At("focus")
         /\ \/ /\ ctl.put /\ ~ctl.gone /\ Lacks("sink") /\ Failed
               /\ UNCHANGED <<desk, was, disk, st, session>>
            \/ /\ ctl.put /\ ctl.complete /\ Registers("sink") /\ StBut({})
               /\ UNCHANGED <<desk, was, disk, session, left>>
            \/ /\ ~(ctl.put /\ ctl.complete) /\ Goes("sink")
               /\ UNCHANGED <<desk, was, disk, st, session, left>>
<1>0. ~At("idle") /\ At("focus") /\ Awaits("focus", Top) /\ Serves("focus", ctl.op) /\ ctl.op \in Ops /\ Top \in Labels
  BY Running DEF RestoreFocus, At
<1>1. \/ /\ ctl.put /\ ~ctl.gone /\ Incomplete("sink") /\ Fails
         /\ UNCHANGED <<desk, was, disk, st, session>>
      \/ /\ ctl.put /\ ctl.complete /\ Record("sink") /\ st' = [st EXCEPT !.pending = FALSE]
         /\ UNCHANGED <<desk, was, disk, session, left>>
      \/ /\ ~(ctl.put /\ ctl.complete) /\ To("sink")
         /\ UNCHANGED <<desk, was, disk, st, session, left>>
  BY DEF RestoreFocus, Works
<1>2. CASE /\ ctl.put /\ ~ctl.gone /\ Incomplete("sink") /\ Fails
           /\ UNCHANGED <<desk, was, disk, st, session>>
  <2>1. Failed
    BY <1>2, FailsLeft
  <2>2. ctl' \in Ctls /\ Control' /\ Lacks("sink")
    BY <1>0, <1>2, SameMethod DEF Special, At, RestoreLabels
  <2> QED BY <1>0, <1>2, <2>1, <2>2, Types DEF Typed, TypeOK, Failed
<1>3. CASE /\ ctl.put /\ ctl.complete /\ Record("sink") /\ st' = [st EXCEPT !.pending = FALSE]
           /\ UNCHANGED <<desk, was, disk, session, left>>
  <2>1. /\ st' \in Records /\ StBut({})
    BY <1>3, Types DEF Records, StBut
  <2>2. Top \in RestoreTops /\ "sink" \in Stages
    BY <1>0, Groups, Servings DEF RestoreLabels, Stages
  <2>3. /\ ctl' \in Ctls /\ Control' /\ Registers("sink")
    BY <1>3, <1>0, <2>2, RecordMoves, LabelNames
  <2> QED BY <1>0, <1>3, <2>1, <2>2, <2>3, Types DEF Typed, TypeOK
<1>4. CASE /\ ~(ctl.put /\ ctl.complete) /\ To("sink")
           /\ UNCHANGED <<desk, was, disk, st, session, left>>
  BY <1>0, <1>4, SameMethod, Types DEF Special, At, RestoreLabels, Typed, TypeOK
<1> QED BY <1>1, <1>2, <1>3, <1>4

\* What the step makes of the default sound output, and of what it would
\* be without the session.
PutBack ==
  IF (desk.sink = st.sink \/ st.sink \notin desk.sinks) /\ st.prev \in desk.sinks THEN st.prev ELSE desk.sink
Without == IF was.sink = desk.sink /\ was.sink # PutBack THEN NoSink ELSE was.sink
LEMMA RestoreSinkDoes ==
  ASSUME Typed, RestoreSink
  PROVE  /\ Typed' /\ At("sink")
         /\ \/ /\ st.sink = NoSink /\ Goes("output")
               /\ UNCHANGED <<desk, was, disk, st, session, left>>
            \/ /\ st.sink # NoSink /\ Registers("output") /\ st'.sink = NoSink /\ st'.prev = NoSink
               /\ StBut({"sink", "prev"})
               /\ desk'.sink = PutBack /\ DeskBut({"sink"})
               /\ was'.sink = Without /\ WasBut({"sink"}) /\ UNCHANGED <<disk, session, left>>
            \/ /\ st.sink # NoSink /\ Lacks("output") /\ Failed
               /\ UNCHANGED <<desk, was, disk, st, session>>
<1>0. ~At("idle") /\ At("sink") /\ Awaits("sink", Top) /\ Serves("sink", ctl.op) /\ ctl.op \in Ops /\ Top \in Labels
  BY Running DEF RestoreSink, At
<1>1. \/ /\ st.sink = NoSink /\ To("output") /\ UNCHANGED <<desk, was, disk, st, session, left>>
      \/ /\ st.sink # NoSink /\ Record("output") /\ st' = [st EXCEPT !.sink = NoSink, !.prev = NoSink]
         /\ desk' = [desk EXCEPT !.sink = PutBack] /\ was' = [was EXCEPT !.sink = Without]
         /\ UNCHANGED <<disk, session, left>>
      \/ /\ st.sink # NoSink /\ Incomplete("output") /\ Fails
         /\ UNCHANGED <<desk, was, disk, st, session>>
  BY DEF RestoreSink, Works, PutBack, Without
<1>2. CASE /\ st.sink = NoSink /\ To("output") /\ UNCHANGED <<desk, was, disk, st, session, left>>
  BY <1>0, <1>2, SameMethod, Types DEF Special, At, RestoreLabels, Typed, TypeOK
<1>3. CASE /\ st.sink # NoSink /\ Record("output")
           /\ st' = [st EXCEPT !.sink = NoSink, !.prev = NoSink]
           /\ desk' = [desk EXCEPT !.sink = PutBack] /\ was' = [was EXCEPT !.sink = Without]
           /\ UNCHANGED <<disk, session, left>>
  <2>1. /\ st' \in Records /\ st'.sink = NoSink /\ st'.prev = NoSink /\ StBut({"sink", "prev"})
    BY <1>3, Types DEF Records, StBut
  <2>2. /\ desk' \in Desks /\ desk'.sink = PutBack /\ DeskBut({"sink"})
    BY <1>3, Types, Fields DEF Desks, DeskBut, PutBack
  <2>5. /\ was' \in Wases /\ was'.sink = Without /\ WasBut({"sink"})
    BY <1>3, Types DEF Wases, WasBut, Without
  <2>3. Top \in RestoreTops /\ "output" \in Stages
    BY <1>0, Groups, Servings DEF RestoreLabels, Stages
  <2>4. /\ ctl' \in Ctls /\ Control' /\ Registers("output")
    BY <1>3, <1>0, <2>3, RecordMoves, LabelNames
  <2> QED BY <1>0, <1>3, <2>1, <2>2, <2>3, <2>4, <2>5, Types DEF Typed, TypeOK
<1>4. CASE /\ st.sink # NoSink /\ Incomplete("output") /\ Fails
           /\ UNCHANGED <<desk, was, disk, st, session>>
  <2>1. Failed
    BY <1>4, FailsLeft
  <2>2. ctl' \in Ctls /\ Control' /\ Lacks("output")
    BY <1>0, <1>4, SameMethod DEF Special, At, RestoreLabels
  <2> QED BY <1>0, <1>4, <2>1, <2>2, Types DEF Typed, TypeOK, Failed
<1> QED BY <1>1, <1>2, <1>3, <1>4

LEMMA RestoreOutputDoes ==
  ASSUME Typed, RestoreOutput
  PROVE  /\ Typed' /\ At("output")
         /\ \/ /\ ~st.lit /\ Goes("restored") /\ UNCHANGED <<desk, was, disk, st, session, left>>
            \/ /\ st.lit /\ Unplugged /\ Registers("restored") /\ ~st'.lit /\ StBut({"lit"})
               /\ UNCHANGED <<desk, was, disk, session, left>>
            \/ /\ st.lit /\ ~Unplugged /\ ~MustMove /\ Goes("disable")
               /\ UNCHANGED <<desk, was, disk, st, session, left>>
            \/ /\ st.lit /\ ~Unplugged /\ MustMove /\ desk.on \ {st.output} = {} /\ Lacks("restored")
               /\ UNCHANGED <<desk, was, disk, st, session, left>>
            \/ \E o \in desk.on \ {st.output} :
                 /\ st.lit /\ ~Unplugged /\ MustMove /\ Goes("disable") /\ desk'.at = o
                 /\ DeskBut({"at"}) /\ UNCHANGED <<was, disk, st, session, left>>
            \/ /\ st.lit /\ ~Unplugged /\ MustMove /\ Lacks("restored") /\ Failed
               /\ UNCHANGED <<desk, was, disk, st, session>>
<1>0. ~At("idle") /\ At("output") /\ Awaits("output", Top) /\ Serves("output", ctl.op) /\ ctl.op \in Ops /\ Top \in Labels
  BY Running DEF RestoreOutput, At
<1>1. \/ /\ ~st.lit /\ To("restored") /\ UNCHANGED <<desk, was, disk, st, session, left>>
      \/ /\ st.lit /\ Unplugged /\ Record("restored") /\ st' = [st EXCEPT !.lit = FALSE]
         /\ UNCHANGED <<desk, was, disk, session, left>>
      \/ /\ st.lit /\ ~Unplugged /\ ~MustMove /\ To("disable")
         /\ UNCHANGED <<desk, was, disk, st, session, left>>
      \/ /\ st.lit /\ ~Unplugged /\ MustMove /\ desk.on \ {st.output} = {} /\ Incomplete("restored")
         /\ UNCHANGED <<desk, was, disk, st, session, left>>
      \/ \E o \in desk.on \ {st.output} :
           /\ st.lit /\ ~Unplugged /\ MustMove /\ To("disable") /\ desk' = [desk EXCEPT !.at = o]
           /\ UNCHANGED <<was, disk, st, session, left>>
      \/ /\ st.lit /\ ~Unplugged /\ MustMove /\ Incomplete("restored") /\ Fails
         /\ UNCHANGED <<desk, was, disk, st, session>>
  BY DEF RestoreOutput, Works
<1>2. CASE /\ ~st.lit /\ To("restored") /\ UNCHANGED <<desk, was, disk, st, session, left>>
  BY <1>0, <1>2, SameMethod, Types DEF Special, At, RestoreLabels, Typed, TypeOK
<1>3. CASE /\ st.lit /\ Unplugged /\ Record("restored") /\ st' = [st EXCEPT !.lit = FALSE]
           /\ UNCHANGED <<desk, was, disk, session, left>>
  <2>1. /\ st' \in Records /\ ~st'.lit /\ StBut({"lit"})
    BY <1>3, Types DEF Records, StBut
  <2>2. Top \in RestoreTops /\ "restored" \in Stages
    BY <1>0, Groups, Servings DEF RestoreLabels, Stages
  <2>3. /\ ctl' \in Ctls /\ Control' /\ Registers("restored")
    BY <1>3, <1>0, <2>2, RecordMoves, LabelNames
  <2> QED BY <1>0, <1>3, <2>1, <2>2, <2>3, Types DEF Typed, TypeOK
<1>4. CASE /\ st.lit /\ ~Unplugged /\ ~MustMove /\ To("disable")
           /\ UNCHANGED <<desk, was, disk, st, session, left>>
  BY <1>0, <1>4, SameMethod, Types DEF Special, At, RestoreLabels, Typed, TypeOK
<1>5. CASE /\ st.lit /\ ~Unplugged /\ MustMove /\ desk.on \ {st.output} = {} /\ Incomplete("restored")
           /\ UNCHANGED <<desk, was, disk, st, session, left>>
  BY <1>0, <1>5, SameMethod, Types DEF Special, At, RestoreLabels, Typed, TypeOK
<1>6. CASE \E o \in desk.on \ {st.output} :
           /\ st.lit /\ ~Unplugged /\ MustMove /\ To("disable") /\ desk' = [desk EXCEPT !.at = o]
           /\ UNCHANGED <<was, disk, st, session, left>>
  <2>0. PICK o \in desk.on \ {st.output} :
          /\ st.lit /\ ~Unplugged /\ MustMove /\ To("disable") /\ desk' = [desk EXCEPT !.at = o]
          /\ UNCHANGED <<was, disk, st, session, left>>
    BY <1>6
  <2>1. /\ desk' \in Desks /\ desk'.at = o /\ DeskBut({"at"})
    BY <2>0, Types, Fields DEF Desks, DeskBut
  <2>2. ctl' \in Ctls /\ Control' /\ Goes("disable")
    BY <1>0, <2>0, SameMethod DEF Special, At, RestoreLabels
  <2> QED BY <1>0, <2>0, <2>1, <2>2, Types DEF Typed, TypeOK
<1>7. CASE /\ st.lit /\ ~Unplugged /\ MustMove /\ Incomplete("restored") /\ Fails
           /\ UNCHANGED <<desk, was, disk, st, session>>
  <2>1. Failed
    BY <1>7, FailsLeft
  <2>2. ctl' \in Ctls /\ Control' /\ Lacks("restored")
    BY <1>0, <1>7, SameMethod DEF Special, At, RestoreLabels
  <2> QED BY <1>0, <1>7, <2>1, <2>2, Types DEF Typed, TypeOK, Failed
<1> QED BY <1>1, <1>2, <1>3, <1>4, <1>5, <1>6, <1>7

LEMMA RestoreDisableDoes ==
  ASSUME Typed, RestoreDisable
  PROVE  /\ Typed' /\ At("disable")
         /\ \/ /\ st.output \in desk.plugged /\ Registers("restored") /\ ~st'.lit /\ StBut({"lit"})
               /\ desk'.on = desk.on \ {st.output} /\ DeskBut({"on"})
               /\ UNCHANGED <<was, disk, session, left>>
            \/ /\ st.output \in desk.plugged /\ Lacks("restored") /\ Failed
               /\ UNCHANGED <<desk, was, disk, st, session>>
            \/ /\ st.output \notin desk.plugged /\ Lacks("restored")
               /\ UNCHANGED <<desk, was, disk, st, session, left>>
<1>0. ~At("idle") /\ At("disable") /\ Awaits("disable", Top) /\ Serves("disable", ctl.op) /\ ctl.op \in Ops /\ Top \in Labels
  BY Running DEF RestoreDisable, At
<1>1. \/ /\ st.output \in desk.plugged /\ Record("restored") /\ st' = [st EXCEPT !.lit = FALSE]
         /\ desk' = [desk EXCEPT !.on = @ \ {st.output}] /\ UNCHANGED <<was, disk, session, left>>
      \/ /\ st.output \in desk.plugged /\ Incomplete("restored") /\ Fails
         /\ UNCHANGED <<desk, was, disk, st, session>>
      \/ /\ st.output \notin desk.plugged /\ Incomplete("restored")
         /\ UNCHANGED <<desk, was, disk, st, session, left>>
  BY DEF RestoreDisable, Works
<1>2. CASE /\ st.output \in desk.plugged /\ Record("restored") /\ st' = [st EXCEPT !.lit = FALSE]
           /\ desk' = [desk EXCEPT !.on = @ \ {st.output}] /\ UNCHANGED <<was, disk, session, left>>
  <2>1. /\ st' \in Records /\ ~st'.lit /\ StBut({"lit"})
    BY <1>2, Types DEF Records, StBut
  <2>2. /\ desk' \in Desks /\ desk'.on = desk.on \ {st.output} /\ DeskBut({"on"})
    BY <1>2, Types, Fields DEF Desks, DeskBut
  <2>3. Top \in RestoreTops /\ "restored" \in Stages
    BY <1>0, Groups, Servings DEF RestoreLabels, Stages
  <2>4. /\ ctl' \in Ctls /\ Control' /\ Registers("restored")
    BY <1>2, <1>0, <2>3, RecordMoves, LabelNames
  <2> QED BY <1>0, <1>2, <2>1, <2>2, <2>3, <2>4, Types DEF Typed, TypeOK
<1>3. CASE /\ st.output \in desk.plugged /\ Incomplete("restored") /\ Fails
           /\ UNCHANGED <<desk, was, disk, st, session>>
  <2>1. Failed
    BY <1>3, FailsLeft
  <2>2. ctl' \in Ctls /\ Control' /\ Lacks("restored")
    BY <1>0, <1>3, SameMethod DEF Special, At, RestoreLabels
  <2> QED BY <1>0, <1>3, <2>1, <2>2, Types DEF Typed, TypeOK, Failed
<1>4. CASE /\ st.output \notin desk.plugged /\ Incomplete("restored")
           /\ UNCHANGED <<desk, was, disk, st, session, left>>
  BY <1>0, <1>4, SameMethod, Types DEF Special, At, RestoreLabels, Typed, TypeOK
<1> QED BY <1>1, <1>2, <1>3, <1>4

LEMMA RestoreDoneDoes ==
  ASSUME Typed, RestoreDone
  PROVE  /\ Typed' /\ At("restored")
         /\ \/ /\ ctl.complete /\ disk # NoRecord /\ Returns(TRUE) /\ disk' = st
               /\ UNCHANGED <<desk, was, st, session, left>>
            \/ /\ ctl.complete /\ disk # NoRecord /\ Returns(FALSE) /\ Failed
               /\ UNCHANGED <<desk, was, disk, st, session>>
            \/ /\ (ctl.complete => disk = NoRecord) /\ Returns(ctl.complete)
               /\ UNCHANGED <<desk, was, disk, st, session, left>>
<1>0. ~At("idle") /\ At("restored")
  BY DEF RestoreDone, At
<1>1. \/ /\ ctl.complete /\ disk # NoRecord /\ Return(TRUE) /\ disk' = st
         /\ UNCHANGED <<desk, was, st, session, left>>
      \/ /\ ctl.complete /\ disk # NoRecord /\ Return(FALSE) /\ Fails
         /\ UNCHANGED <<desk, was, disk, st, session>>
      \/ /\ (ctl.complete => disk = NoRecord) /\ Return(ctl.complete)
         /\ UNCHANGED <<desk, was, disk, st, session, left>>
  BY DEF RestoreDone, Saves, Works, SaveFails
<1>2. CASE /\ ctl.complete /\ disk # NoRecord /\ Return(TRUE) /\ disk' = st
           /\ UNCHANGED <<desk, was, st, session, left>>
  <2>1. /\ ctl' \in Ctls /\ Control' /\ Returns(TRUE)
    BY <1>2, <1>0, Types, ReturnMoves
  <2> QED BY <1>0, <1>2, <2>1, Types DEF Typed, TypeOK
<1>3. CASE /\ ctl.complete /\ disk # NoRecord /\ Return(FALSE) /\ Fails
           /\ UNCHANGED <<desk, was, disk, st, session>>
  <2>1. Failed
    BY <1>3, FailsLeft
  <2>2. /\ ctl' \in Ctls /\ Control' /\ Returns(FALSE)
    BY <1>3, <1>0, Types, ReturnMoves
  <2> QED BY <1>0, <1>3, <2>1, <2>2, Types DEF Typed, TypeOK, Failed
<1>4. CASE /\ (ctl.complete => disk = NoRecord) /\ Return(ctl.complete)
           /\ UNCHANGED <<desk, was, disk, st, session, left>>
  <2>1. /\ ctl' \in Ctls /\ Control' /\ Returns(ctl.complete)
    BY <1>4, <1>0, Types, ReturnMoves
  <2> QED BY <1>0, <1>4, <2>1, Types DEF Typed, TypeOK
<1> QED BY <1>1, <1>2, <1>3, <1>4

\* The steps of muteGames and of unmuteGames.
LEMMA MuteGamesDoes ==
  ASSUME Typed, MuteGames
  PROVE  /\ Typed' /\ At("mute")
         /\ \/ /\ ctl'.at = "muteNext" /\ Top' = Top /\ ctl'.todo = Alive(st.games) /\ CtlBut({"todo"})
               /\ UNCHANGED <<desk, was, disk, st, session, left>>
            \/ /\ Goes("no") /\ Failed /\ UNCHANGED <<desk, was, disk, st, session>>
<1>0. ~At("idle") /\ At("mute") /\ Awaits("mute", Top) /\ Serves("mute", ctl.op) /\ ctl.op \in Ops /\ Top \in Labels
  BY Running DEF MuteGames, At
<1>1. \/ /\ ctl' = [ctl EXCEPT !.at = "muteNext", !.todo = Alive(st.games)]
         /\ UNCHANGED <<desk, was, disk, st, session, left>>
      \/ /\ To("no") /\ Fails /\ UNCHANGED <<desk, was, disk, st, session>>
  BY DEF MuteGames, Works
<1>2. CASE /\ ctl' = [ctl EXCEPT !.at = "muteNext", !.todo = Alive(st.games)]
           /\ UNCHANGED <<desk, was, disk, st, session, left>>
  <2>1. (Alive(st.games)) \in SUBSET Games
    BY <1>2, <1>0, Types, Fields, DeskFields DEF Typed, Control, Held, At, Alive
  <2>2. (Alive(st.games)) \in Sets
    BY <2>1 DEF Sets
  <2>3. /\ ctl' \in Ctls /\ ctl'.at = "muteNext" /\ ctl'.stack = ctl.stack
          /\ ctl'.todo = Alive(st.games) /\ CtlBut({"todo"})
    BY <1>2, Types, Fields, LabelNames, <2>1, <2>2 DEF Ctls, CtlBut
  <2>4. Held' /\ ctl'.op = ctl.op
    BY <1>2, <2>3, <2>1, Types, <1>0 DEF Held, CtlBut, Typed, Control, At
  <2>5. Awaits("muteNext", Top) /\ Serves("muteNext", ctl.op)
    BY <1>0, Groups, Servings DEF MuteLabels
  <2>6. Top' = Top /\ Control'
    BY <2>3, <2>4, <2>5, <1>0, EditMoves, LabelNames
  <2> QED BY <1>0, <1>2, <2>1, <2>2, <2>3, <2>4, <2>5, <2>6, Types DEF Typed, TypeOK
<1>3. CASE /\ To("no") /\ Fails /\ UNCHANGED <<desk, was, disk, st, session>>
  <2>1. Failed
    BY <1>3, FailsLeft
  <2>2. Awaits("no", Top) /\ Serves("no", ctl.op)
    BY <1>0, Groups, Servings DEF MuteLabels, Below, Waits, RestoreTops, MuteTops, UnmuteTops, FinishTops
  <2>3. /\ ctl' \in Ctls /\ Control' /\ Goes("no")
    BY <1>3, <1>0, <2>2, ToMoves, LabelNames DEF Special
  <2> QED BY <1>0, <1>3, <2>1, <2>2, <2>3, Types DEF Typed, TypeOK, Failed
<1> QED BY <1>1, <1>2, <1>3

LEMMA MuteRecordDoes ==
  ASSUME Typed, MuteRecord
  PROVE  /\ Typed' /\ At("muteNext")
         /\ \/ /\ ctl.todo = {} /\ Goes("yes") /\ UNCHANGED <<desk, was, disk, st, session, left>>
            \/ \E g \in ctl.todo :
                 /\ MuteRecorded(g) /\ ctl'.at = "muteOne" /\ Top' = Top /\ ctl'.one = {g}
                 /\ CtlBut({"one"}) /\ UNCHANGED <<desk, was, disk, st, session, left>>
            \/ \E g \in ctl.todo :
                 /\ ~MuteRecorded(g) /\ ctl'.at = "muteOne" /\ Top' = Top /\ ctl'.one = {g}
                 /\ CtlBut({"one"})
                 /\ st'.streams = (st.streams \cup {[game |-> g, muted |-> g \in desk.muted]})
                 /\ StBut({"streams"}) /\ disk' = st' /\ UNCHANGED <<desk, was, session, left>>
            \/ /\ ctl.todo # {} /\ Goes("no") /\ Failed /\ UNCHANGED <<desk, was, disk, st, session>>
<1>0. ~At("idle") /\ At("muteNext") /\ Awaits("muteNext", Top) /\ Serves("muteNext", ctl.op) /\ ctl.op \in Ops /\ Top \in Labels
  BY Running DEF MuteRecord, At
<1>1. \/ /\ ctl.todo = {} /\ To("yes") /\ UNCHANGED <<desk, was, disk, st, session, left>>
      \/ \E g \in ctl.todo :
           /\ MuteRecorded(g) /\ ctl' = [ctl EXCEPT !.at = "muteOne", !.one = {g}]
           /\ UNCHANGED <<desk, was, disk, st, session, left>>
      \/ \E g \in ctl.todo :
           /\ ~MuteRecorded(g) /\ ctl' = [ctl EXCEPT !.at = "muteOne", !.one = {g}]
           /\ st' = [st EXCEPT !.streams = @ \cup {[game |-> g, muted |-> g \in desk.muted]}]
           /\ disk' = st' /\ UNCHANGED <<desk, was, session, left>>
      \/ /\ ctl.todo # {} /\ To("no") /\ Fails /\ UNCHANGED <<desk, was, disk, st, session>>
  BY DEF MuteRecord, Saves, Works, SaveFails
<1>2. CASE /\ ctl.todo = {} /\ To("yes") /\ UNCHANGED <<desk, was, disk, st, session, left>>
  <2>1. Awaits("yes", Top) /\ Serves("yes", ctl.op)
    BY <1>0, Groups, Servings DEF MuteLabels, Below, Waits, RestoreTops, MuteTops, UnmuteTops, FinishTops
  <2>2. /\ ctl' \in Ctls /\ Control' /\ Goes("yes")
    BY <1>2, <1>0, <2>1, ToMoves, LabelNames DEF Special
  <2> QED BY <1>0, <1>2, <2>1, <2>2, Types DEF Typed, TypeOK
<1>3. CASE \E g \in ctl.todo :
           /\ MuteRecorded(g) /\ ctl' = [ctl EXCEPT !.at = "muteOne", !.one = {g}]
           /\ UNCHANGED <<desk, was, disk, st, session, left>>
  <2>0. PICK g \in ctl.todo :
          /\ MuteRecorded(g) /\ ctl' = [ctl EXCEPT !.at = "muteOne", !.one = {g}]
          /\ UNCHANGED <<desk, was, disk, st, session, left>>
    BY <1>3
  <2>1. ({g}) \in SUBSET Games
    BY <2>0, <1>0, Types, Fields, DeskFields DEF Typed, Control, Held, At, Alive
  <2>2. ({g}) \in Sets
    BY <2>1 DEF Sets
  <2>3. /\ ctl' \in Ctls /\ ctl'.at = "muteOne" /\ ctl'.stack = ctl.stack /\ ctl'.one = {g}
          /\ CtlBut({"one"})
    BY <2>0, Types, Fields, LabelNames, <2>1, <2>2 DEF Ctls, CtlBut
  <2>4. Held' /\ ctl'.op = ctl.op
    BY <2>0, <2>3, <2>1, Types, <1>0 DEF Held, CtlBut, Typed, Control, At
  <2>5. Awaits("muteOne", Top) /\ Serves("muteOne", ctl.op)
    BY <1>0, Groups, Servings DEF MuteLabels
  <2>6. Top' = Top /\ Control'
    BY <2>3, <2>4, <2>5, <1>0, EditMoves, LabelNames
  <2> QED BY <1>0, <2>0, <2>1, <2>2, <2>3, <2>4, <2>5, <2>6, Types DEF Typed, TypeOK
<1>4. CASE \E g \in ctl.todo :
           /\ ~MuteRecorded(g) /\ ctl' = [ctl EXCEPT !.at = "muteOne", !.one = {g}]
           /\ st' = [st EXCEPT !.streams = @ \cup {[game |-> g, muted |-> g \in desk.muted]}]
           /\ disk' = st' /\ UNCHANGED <<desk, was, session, left>>
  <2>0. PICK g \in ctl.todo :
          /\ ~MuteRecorded(g) /\ ctl' = [ctl EXCEPT !.at = "muteOne", !.one = {g}]
          /\ st' = [st EXCEPT !.streams = @ \cup {[game |-> g, muted |-> g \in desk.muted]}]
          /\ disk' = st' /\ UNCHANGED <<desk, was, session, left>>
    BY <1>4
  <2>1. g \in Games /\ (g \in desk.muted) \in BOOLEAN
    BY <2>0, <1>0 DEF Typed, Control, Held, At
  <2>2. [game |-> g, muted |-> g \in desk.muted] \in Streams
    BY <2>1 DEF Streams
  <2>3. (st.streams \cup {[game |-> g, muted |-> g \in desk.muted]}) \in SUBSET Streams
    BY <2>2, Types, Fields
  <2>4. /\ st' \in Records
          /\ st'.streams = (st.streams \cup {[game |-> g, muted |-> g \in desk.muted]})
          /\ StBut({"streams"})
    BY <2>0, Types, <2>3 DEF Records, StBut
  <2>5. ({g}) \in SUBSET Games
    BY <2>0, <1>0, Types, Fields, DeskFields DEF Typed, Control, Held, At, Alive
  <2>6. ({g}) \in Sets
    BY <2>5 DEF Sets
  <2>7. /\ ctl' \in Ctls /\ ctl'.at = "muteOne" /\ ctl'.stack = ctl.stack /\ ctl'.one = {g}
          /\ CtlBut({"one"})
    BY <2>0, Types, Fields, LabelNames, <2>5, <2>6 DEF Ctls, CtlBut
  <2>8. Held' /\ ctl'.op = ctl.op
    BY <2>0, <2>7, <2>5, Types, <1>0 DEF Held, CtlBut, Typed, Control, At
  <2>9. Awaits("muteOne", Top) /\ Serves("muteOne", ctl.op)
    BY <1>0, Groups, Servings DEF MuteLabels
  <2>10. Top' = Top /\ Control'
    BY <2>7, <2>8, <2>9, <1>0, EditMoves, LabelNames
  <2> QED BY <1>0, <2>0, <2>1, <2>2, <2>3, <2>4, <2>5, <2>6, <2>7, <2>8, <2>9, <2>10, Types DEF Typed, TypeOK
<1>5. CASE /\ ctl.todo # {} /\ To("no") /\ Fails /\ UNCHANGED <<desk, was, disk, st, session>>
  <2>1. Failed
    BY <1>5, FailsLeft
  <2>2. Awaits("no", Top) /\ Serves("no", ctl.op)
    BY <1>0, Groups, Servings DEF MuteLabels, Below, Waits, RestoreTops, MuteTops, UnmuteTops, FinishTops
  <2>3. /\ ctl' \in Ctls /\ Control' /\ Goes("no")
    BY <1>5, <1>0, <2>2, ToMoves, LabelNames DEF Special
  <2> QED BY <1>0, <1>5, <2>1, <2>2, <2>3, Types DEF Typed, TypeOK, Failed
<1> QED BY <1>1, <1>2, <1>3, <1>4, <1>5

LEMMA MuteOneDoes ==
  ASSUME Typed, MuteOne
  PROVE  /\ Typed' /\ At("muteOne")
         /\ \/ /\ ctl'.at = "muteNext" /\ Top' = Top /\ ctl'.todo = ctl.todo \ ctl.one /\ ctl'.one = {}
               /\ CtlBut({"todo", "one"}) /\ desk'.muted = desk.muted \cup Alive(ctl.one)
               /\ DeskBut({"muted"}) /\ UNCHANGED <<was, disk, st, session, left>>
            \/ /\ ~(ctl.one \subseteq desk.muted) /\ Goes("no") /\ Failed
               /\ UNCHANGED <<desk, was, disk, st, session>>
<1>0. ~At("idle") /\ At("muteOne") /\ Awaits("muteOne", Top) /\ Serves("muteOne", ctl.op) /\ ctl.op \in Ops /\ Top \in Labels
  BY Running DEF MuteOne, At
<1>1. \/ /\ ctl' = [ctl EXCEPT !.at = "muteNext", !.todo = @ \ ctl.one, !.one = {}]
         /\ desk' = [desk EXCEPT !.muted = @ \cup Alive(ctl.one)]
         /\ UNCHANGED <<was, disk, st, session, left>>
      \/ /\ ~(ctl.one \subseteq desk.muted) /\ To("no") /\ Fails
         /\ UNCHANGED <<desk, was, disk, st, session>>
  BY DEF MuteOne, Works
<1>2. CASE /\ ctl' = [ctl EXCEPT !.at = "muteNext", !.todo = @ \ ctl.one, !.one = {}]
           /\ desk' = [desk EXCEPT !.muted = @ \cup Alive(ctl.one)]
           /\ UNCHANGED <<was, disk, st, session, left>>
  <2>1. (desk.muted \cup Alive(ctl.one)) \in SUBSET Games
    BY <1>2, Types, DeskFields DEF Alive
  <2>2. /\ desk' \in Desks /\ desk'.muted = desk.muted \cup Alive(ctl.one) /\ DeskBut({"muted"})
    BY <1>2, Types, Fields, <2>1 DEF Desks, DeskBut
  <2>3. (ctl.todo \ ctl.one) \in SUBSET Games /\ ({}) \in SUBSET Games
    BY <1>2, <1>0, Types, Fields, DeskFields DEF Typed, Control, Held, At, Alive
  <2>4. (ctl.todo \ ctl.one) \in Sets /\ ({}) \in Sets
    BY <2>3 DEF Sets
  <2>5. /\ ctl' \in Ctls /\ ctl'.at = "muteNext" /\ ctl'.stack = ctl.stack
          /\ ctl'.todo = ctl.todo \ ctl.one /\ ctl'.one = {} /\ CtlBut({"todo", "one"})
    BY <1>2, Types, Fields, LabelNames, <2>3, <2>4 DEF Ctls, CtlBut
  <2>6. Held' /\ ctl'.op = ctl.op
    BY <1>2, <2>5, <2>3, Types, <1>0 DEF Held, CtlBut, Typed, Control, At
  <2>7. Awaits("muteNext", Top) /\ Serves("muteNext", ctl.op)
    BY <1>0, Groups, Servings DEF MuteLabels
  <2>8. Top' = Top /\ Control'
    BY <2>5, <2>6, <2>7, <1>0, EditMoves, LabelNames
  <2> QED BY <1>0, <1>2, <2>1, <2>2, <2>3, <2>4, <2>5, <2>6, <2>7, <2>8, Types DEF Typed, TypeOK
<1>3. CASE /\ ~(ctl.one \subseteq desk.muted) /\ To("no") /\ Fails
           /\ UNCHANGED <<desk, was, disk, st, session>>
  <2>1. Failed
    BY <1>3, FailsLeft
  <2>2. Awaits("no", Top) /\ Serves("no", ctl.op)
    BY <1>0, Groups, Servings DEF MuteLabels, Below, Waits, RestoreTops, MuteTops, UnmuteTops, FinishTops
  <2>3. /\ ctl' \in Ctls /\ Control' /\ Goes("no")
    BY <1>3, <1>0, <2>2, ToMoves, LabelNames DEF Special
  <2> QED BY <1>0, <1>3, <2>1, <2>2, <2>3, Types DEF Typed, TypeOK, Failed
<1> QED BY <1>1, <1>2, <1>3

LEMMA UnmuteGamesDoes ==
  ASSUME Typed, UnmuteGames
  PROVE  /\ Typed' /\ At("unmute")
         /\ \/ /\ st.streams = {} /\ Goes("yes") /\ UNCHANGED <<desk, was, disk, st, session, left>>
            \/ /\ st.streams # {} /\ ctl'.at = "unmuteNext" /\ Top' = Top /\ ctl'.todo = st.streams
               /\ ctl'.audio /\ CtlBut({"todo", "audio"})
               /\ UNCHANGED <<desk, was, disk, st, session, left>>
            \/ /\ st.streams # {} /\ Goes("no") /\ Failed /\ UNCHANGED <<desk, was, disk, st, session>>
<1>0. ~At("idle") /\ At("unmute") /\ Awaits("unmute", Top) /\ Serves("unmute", ctl.op) /\ ctl.op \in Ops /\ Top \in Labels
  BY Running DEF UnmuteGames, At
<1>1. \/ /\ st.streams = {} /\ To("yes") /\ UNCHANGED <<desk, was, disk, st, session, left>>
      \/ /\ st.streams # {}
         /\ ctl' = [ctl EXCEPT !.at = "unmuteNext", !.todo = st.streams, !.audio = TRUE]
         /\ UNCHANGED <<desk, was, disk, st, session, left>>
      \/ /\ st.streams # {} /\ To("no") /\ Fails /\ UNCHANGED <<desk, was, disk, st, session>>
  BY DEF UnmuteGames, Works
<1>2. CASE /\ st.streams = {} /\ To("yes") /\ UNCHANGED <<desk, was, disk, st, session, left>>
  <2>1. Awaits("yes", Top) /\ Serves("yes", ctl.op)
    BY <1>0, Groups, Servings DEF UnmuteLabels, Below, Waits, RestoreTops, MuteTops, UnmuteTops, FinishTops
  <2>2. /\ ctl' \in Ctls /\ Control' /\ Goes("yes")
    BY <1>2, <1>0, <2>1, ToMoves, LabelNames DEF Special
  <2> QED BY <1>0, <1>2, <2>1, <2>2, Types DEF Typed, TypeOK
<1>3. CASE /\ st.streams # {}
           /\ ctl' = [ctl EXCEPT !.at = "unmuteNext", !.todo = st.streams, !.audio = TRUE]
           /\ UNCHANGED <<desk, was, disk, st, session, left>>
  <2>1. (st.streams) \in SUBSET Streams
    BY <1>3, <1>0, Types, Fields, DeskFields DEF Typed, Control, Held, At, Alive
  <2>2. (st.streams) \in Sets
    BY <2>1 DEF Sets
  <2>3. /\ ctl' \in Ctls /\ ctl'.at = "unmuteNext" /\ ctl'.stack = ctl.stack
          /\ ctl'.todo = st.streams /\ ctl'.audio /\ CtlBut({"todo", "audio"})
    BY <1>3, Types, Fields, LabelNames, <2>1, <2>2 DEF Ctls, CtlBut
  <2>4. Held' /\ ctl'.op = ctl.op
    BY <1>3, <2>3, <2>1, Types, <1>0 DEF Held, CtlBut, Typed, Control, At
  <2>5. Awaits("unmuteNext", Top) /\ Serves("unmuteNext", ctl.op)
    BY <1>0, Groups, Servings DEF UnmuteLabels
  <2>6. Top' = Top /\ Control'
    BY <2>3, <2>4, <2>5, <1>0, EditMoves, LabelNames
  <2> QED BY <1>0, <1>3, <2>1, <2>2, <2>3, <2>4, <2>5, <2>6, Types DEF Typed, TypeOK
<1>4. CASE /\ st.streams # {} /\ To("no") /\ Fails /\ UNCHANGED <<desk, was, disk, st, session>>
  <2>1. Failed
    BY <1>4, FailsLeft
  <2>2. Awaits("no", Top) /\ Serves("no", ctl.op)
    BY <1>0, Groups, Servings DEF UnmuteLabels, Below, Waits, RestoreTops, MuteTops, UnmuteTops, FinishTops
  <2>3. /\ ctl' \in Ctls /\ Control' /\ Goes("no")
    BY <1>4, <1>0, <2>2, ToMoves, LabelNames DEF Special
  <2> QED BY <1>0, <1>4, <2>1, <2>2, <2>3, Types DEF Typed, TypeOK, Failed
<1> QED BY <1>1, <1>2, <1>3, <1>4

LEMMA UnmuteOneDoes ==
  ASSUME Typed, UnmuteOne
  PROVE  /\ Typed' /\ At("unmuteNext")
         /\ \/ /\ ctl.todo = {} /\ ctl.audio /\ Goes("yes")
               /\ UNCHANGED <<desk, was, disk, st, session, left>>
            \/ /\ ctl.todo = {} /\ ~ctl.audio /\ Goes("no")
               /\ UNCHANGED <<desk, was, disk, st, session, left>>
            \/ \E r \in ctl.todo :
                 /\ ctl'.at = "unmuted" /\ Top' = Top /\ ctl'.todo = ctl.todo \ {r} /\ ctl'.one = {r}
                 /\ CtlBut({"todo", "one"})
                 /\ (desk'.muted = IF r.muted THEN desk.muted ELSE desk.muted \ {r.game})
                 /\ DeskBut({"muted"}) /\ UNCHANGED <<was, disk, st, session, left>>
            \/ \E r \in ctl.todo :
                 /\ ~r.muted /\ r.game \in desk.muted /\ ctl'.at = "unmuteNext" /\ Top' = Top
                 /\ ctl'.todo = ctl.todo \ {r} /\ ~ctl'.audio /\ CtlBut({"todo", "audio"}) /\ Failed
                 /\ UNCHANGED <<desk, was, disk, st, session>>
<1>0. ~At("idle") /\ At("unmuteNext") /\ Awaits("unmuteNext", Top) /\ Serves("unmuteNext", ctl.op) /\ ctl.op \in Ops /\ Top \in Labels
  BY Running DEF UnmuteOne, At
<1>1. \/ /\ ctl.todo = {} /\ ctl.audio /\ To("yes") /\ UNCHANGED <<desk, was, disk, st, session, left>>
      \/ /\ ctl.todo = {} /\ ~ctl.audio /\ To("no") /\ UNCHANGED <<desk, was, disk, st, session, left>>
      \/ \E r \in ctl.todo :
           /\ ctl' = [ctl EXCEPT !.at = "unmuted", !.todo = @ \ {r}, !.one = {r}]
           /\ (desk' = [desk EXCEPT !.muted = IF r.muted THEN @ ELSE @ \ {r.game}])
           /\ UNCHANGED <<was, disk, st, session, left>>
      \/ \E r \in ctl.todo :
           /\ ~r.muted /\ r.game \in desk.muted
           /\ ctl' = [ctl EXCEPT !.todo = @ \ {r}, !.audio = FALSE] /\ Fails
           /\ UNCHANGED <<desk, was, disk, st, session>>
  BY DEF UnmuteOne, Works
<1>2. CASE /\ ctl.todo = {} /\ ctl.audio /\ To("yes")
           /\ UNCHANGED <<desk, was, disk, st, session, left>>
  <2>1. Awaits("yes", Top) /\ Serves("yes", ctl.op)
    BY <1>0, Groups, Servings DEF UnmuteLabels, Below, Waits, RestoreTops, MuteTops, UnmuteTops, FinishTops
  <2>2. /\ ctl' \in Ctls /\ Control' /\ Goes("yes")
    BY <1>2, <1>0, <2>1, ToMoves, LabelNames DEF Special
  <2> QED BY <1>0, <1>2, <2>1, <2>2, Types DEF Typed, TypeOK
<1>3. CASE /\ ctl.todo = {} /\ ~ctl.audio /\ To("no")
           /\ UNCHANGED <<desk, was, disk, st, session, left>>
  <2>1. Awaits("no", Top) /\ Serves("no", ctl.op)
    BY <1>0, Groups, Servings DEF UnmuteLabels, Below, Waits, RestoreTops, MuteTops, UnmuteTops, FinishTops
  <2>2. /\ ctl' \in Ctls /\ Control' /\ Goes("no")
    BY <1>3, <1>0, <2>1, ToMoves, LabelNames DEF Special
  <2> QED BY <1>0, <1>3, <2>1, <2>2, Types DEF Typed, TypeOK
<1>4. CASE \E r \in ctl.todo :
           /\ ctl' = [ctl EXCEPT !.at = "unmuted", !.todo = @ \ {r}, !.one = {r}]
           /\ (desk' = [desk EXCEPT !.muted = IF r.muted THEN @ ELSE @ \ {r.game}])
           /\ UNCHANGED <<was, disk, st, session, left>>
  <2>0. PICK r \in ctl.todo :
          /\ ctl' = [ctl EXCEPT !.at = "unmuted", !.todo = @ \ {r}, !.one = {r}]
          /\ (desk' = [desk EXCEPT !.muted = IF r.muted THEN @ ELSE @ \ {r.game}])
          /\ UNCHANGED <<was, disk, st, session, left>>
    BY <1>4
  <2>1. (IF r.muted THEN desk.muted ELSE desk.muted \ {r.game}) \in SUBSET Games
    BY <2>0, Types, DeskFields
  <2>2. /\ desk' \in Desks /\ (desk'.muted = IF r.muted THEN desk.muted ELSE desk.muted \ {r.game})
          /\ DeskBut({"muted"})
    BY <2>0, Types, Fields, <2>1 DEF Desks, DeskBut
  <2>3. (ctl.todo \ {r}) \in SUBSET Streams /\ ({r}) \in SUBSET Streams
    BY <2>0, <1>0, Types, Fields, DeskFields DEF Typed, Control, Held, At, Alive
  <2>4. (ctl.todo \ {r}) \in Sets /\ ({r}) \in Sets
    BY <2>3 DEF Sets
  <2>5. /\ ctl' \in Ctls /\ ctl'.at = "unmuted" /\ ctl'.stack = ctl.stack
          /\ ctl'.todo = ctl.todo \ {r} /\ ctl'.one = {r} /\ CtlBut({"todo", "one"})
    BY <2>0, Types, Fields, LabelNames, <2>3, <2>4 DEF Ctls, CtlBut
  <2>6. Held' /\ ctl'.op = ctl.op
    BY <2>0, <2>5, <2>3, Types, <1>0 DEF Held, CtlBut, Typed, Control, At
  <2>7. Awaits("unmuted", Top) /\ Serves("unmuted", ctl.op)
    BY <1>0, Groups, Servings DEF UnmuteLabels
  <2>8. Top' = Top /\ Control'
    BY <2>5, <2>6, <2>7, <1>0, EditMoves, LabelNames
  <2> QED BY <1>0, <2>0, <2>1, <2>2, <2>3, <2>4, <2>5, <2>6, <2>7, <2>8, Types DEF Typed, TypeOK
<1>5. CASE \E r \in ctl.todo :
           /\ ~r.muted /\ r.game \in desk.muted
           /\ ctl' = [ctl EXCEPT !.todo = @ \ {r}, !.audio = FALSE] /\ Fails
           /\ UNCHANGED <<desk, was, disk, st, session>>
  <2>0. PICK r \in ctl.todo :
          /\ ~r.muted /\ r.game \in desk.muted /\ ctl' = [ctl EXCEPT !.todo = @ \ {r}, !.audio = FALSE]
          /\ Fails /\ UNCHANGED <<desk, was, disk, st, session>>
    BY <1>5
  <2>1. Failed
    BY <2>0, FailsLeft
  <2>2. (ctl.todo \ {r}) \in SUBSET Streams
    BY <2>0, <1>0, Types, Fields, DeskFields DEF Typed, Control, Held, At, Alive
  <2>3. (ctl.todo \ {r}) \in Sets
    BY <2>2 DEF Sets
  <2>4. /\ ctl' \in Ctls /\ ctl'.at = "unmuteNext" /\ ctl'.stack = ctl.stack
          /\ ctl'.todo = ctl.todo \ {r} /\ ~ctl'.audio /\ CtlBut({"todo", "audio"})
    BY <2>0, Types, Fields, LabelNames, <2>2, <2>3, <1>0 DEF Ctls, CtlBut, At
  <2>5. Held' /\ ctl'.op = ctl.op
    BY <2>0, <2>4, <2>2, Types, <1>0 DEF Held, CtlBut, Typed, Control, At
  <2>6. Awaits("unmuteNext", Top) /\ Serves("unmuteNext", ctl.op)
    BY <1>0, Groups, Servings DEF UnmuteLabels
  <2>7. Top' = Top /\ Control'
    BY <2>4, <2>5, <2>6, <1>0, EditMoves, LabelNames
  <2> QED BY <1>0, <2>0, <2>1, <2>2, <2>3, <2>4, <2>5, <2>6, <2>7, Types DEF Typed, TypeOK, Failed
<1> QED BY <1>1, <1>2, <1>3, <1>4, <1>5

LEMMA UnmuteRecordDoes ==
  ASSUME Typed, UnmuteRecord
  PROVE  /\ Typed' /\ At("unmuted")
         /\ \/ /\ ctl'.at = "unmuteNext" /\ Top' = Top /\ ctl'.one = {} /\ CtlBut({"one"})
               /\ st'.streams = st.streams \ ctl.one /\ StBut({"streams"}) /\ disk' = st'
               /\ UNCHANGED <<desk, was, session, left>>
            \/ /\ ctl'.at = "unmuteNext" /\ Top' = Top /\ ctl'.one = {} /\ ~ctl'.audio
               /\ CtlBut({"one", "audio"}) /\ Failed /\ UNCHANGED <<desk, was, disk, st, session>>
<1>0. ~At("idle") /\ At("unmuted") /\ Awaits("unmuted", Top) /\ Serves("unmuted", ctl.op) /\ ctl.op \in Ops /\ Top \in Labels
  BY Running DEF UnmuteRecord, At
<1>1. \/ /\ ctl' = [ctl EXCEPT !.at = "unmuteNext", !.one = {}]
         /\ st' = [st EXCEPT !.streams = @ \ ctl.one] /\ disk' = st'
         /\ UNCHANGED <<desk, was, session, left>>
      \/ /\ ctl' = [ctl EXCEPT !.at = "unmuteNext", !.one = {}, !.audio = FALSE] /\ Fails
         /\ UNCHANGED <<desk, was, disk, st, session>>
  BY DEF UnmuteRecord, Saves, Works, SaveFails
<1>2. CASE /\ ctl' = [ctl EXCEPT !.at = "unmuteNext", !.one = {}]
           /\ st' = [st EXCEPT !.streams = @ \ ctl.one] /\ disk' = st'
           /\ UNCHANGED <<desk, was, session, left>>
  <2>1. (st.streams \ ctl.one) \in SUBSET Streams
    BY <1>2, Types, Fields, DeskFields
  <2>2. /\ st' \in Records /\ st'.streams = st.streams \ ctl.one /\ StBut({"streams"})
    BY <1>2, Types, <2>1 DEF Records, StBut
  <2>3. ({}) \in SUBSET Streams
    BY <1>2, <1>0, Types, Fields, DeskFields DEF Typed, Control, Held, At, Alive
  <2>4. ({}) \in Sets
    BY <2>3 DEF Sets
  <2>5. /\ ctl' \in Ctls /\ ctl'.at = "unmuteNext" /\ ctl'.stack = ctl.stack /\ ctl'.one = {}
          /\ CtlBut({"one"})
    BY <1>2, Types, Fields, LabelNames, <2>3, <2>4 DEF Ctls, CtlBut
  <2>6. Held' /\ ctl'.op = ctl.op
    BY <1>2, <2>5, <2>3, Types, <1>0 DEF Held, CtlBut, Typed, Control, At
  <2>7. Awaits("unmuteNext", Top) /\ Serves("unmuteNext", ctl.op)
    BY <1>0, Groups, Servings DEF UnmuteLabels
  <2>8. Top' = Top /\ Control'
    BY <2>5, <2>6, <2>7, <1>0, EditMoves, LabelNames
  <2> QED BY <1>0, <1>2, <2>1, <2>2, <2>3, <2>4, <2>5, <2>6, <2>7, <2>8, Types DEF Typed, TypeOK
<1>3. CASE /\ ctl' = [ctl EXCEPT !.at = "unmuteNext", !.one = {}, !.audio = FALSE] /\ Fails
           /\ UNCHANGED <<desk, was, disk, st, session>>
  <2>1. Failed
    BY <1>3, FailsLeft
  <2>2. ({}) \in SUBSET Streams
    BY <1>3, <1>0, Types, Fields, DeskFields DEF Typed, Control, Held, At, Alive
  <2>3. ({}) \in Sets
    BY <2>2 DEF Sets
  <2>4. /\ ctl' \in Ctls /\ ctl'.at = "unmuteNext" /\ ctl'.stack = ctl.stack /\ ctl'.one = {}
          /\ ~ctl'.audio /\ CtlBut({"one", "audio"})
    BY <1>3, Types, Fields, LabelNames, <2>2, <2>3 DEF Ctls, CtlBut
  <2>5. Held' /\ ctl'.op = ctl.op
    BY <1>3, <2>4, <2>2, Types, <1>0 DEF Held, CtlBut, Typed, Control, At
  <2>6. Awaits("unmuteNext", Top) /\ Serves("unmuteNext", ctl.op)
    BY <1>0, Groups, Servings DEF UnmuteLabels
  <2>7. Top' = Top /\ Control'
    BY <2>4, <2>5, <2>6, <1>0, EditMoves, LabelNames
  <2> QED BY <1>0, <1>3, <2>1, <2>2, <2>3, <2>4, <2>5, <2>6, <2>7, Types DEF Typed, TypeOK, Failed
<1> QED BY <1>1, <1>2, <1>3

\* The steps at the end of a session: finishRetention and exposeGames.
LEMMA SettleDoes ==
  ASSUME Typed, Settle
  PROVE  /\ Typed' /\ At("settle")
         /\ \/ /\ ctl.retained /\ st.games # {} /\ ctl'.at = "expose" /\ Top' = Top
               /\ ctl'.desktop = ctl.ok /\ CtlBut({"desktop"}) /\ st'.games = Alive(st.games)
               /\ StBut({"games"}) /\ UNCHANGED <<desk, was, disk, session, left>>
            \/ /\ ~(ctl.retained /\ st.games # {}) /\ ctl'.at = "unmute" /\ Top' = "settled"
               /\ ctl'.desktop = ctl.ok /\ CtlBut({"desktop"})
               /\ UNCHANGED <<desk, was, disk, st, session, left>>
<1>0. ~At("idle") /\ At("settle") /\ Awaits("settle", Top) /\ Serves("settle", ctl.op) /\ ctl.op \in Ops /\ Top \in Labels
  BY Running DEF Settle, At
<1>1. \/ /\ ctl.retained /\ st.games # {} /\ ctl' = [ctl EXCEPT !.at = "expose", !.desktop = ctl.ok]
         /\ st' = [st EXCEPT !.games = Alive(@)] /\ UNCHANGED <<desk, was, disk, session, left>>
      \/ /\ ~(ctl.retained /\ st.games # {})
         /\ ctl' = [ctl EXCEPT !.at = "unmute", !.stack = <<"settled">> \o @, !.desktop = ctl.ok]
         /\ UNCHANGED <<desk, was, disk, st, session, left>>
  BY DEF Settle
<1>2. CASE /\ ctl.retained /\ st.games # {} /\ ctl' = [ctl EXCEPT !.at = "expose", !.desktop = ctl.ok]
           /\ st' = [st EXCEPT !.games = Alive(@)] /\ UNCHANGED <<desk, was, disk, session, left>>
  <2>1. (Alive(st.games)) \in SUBSET Games
    BY <1>2, Types, Fields, DeskFields DEF Alive
  <2>2. /\ st' \in Records /\ st'.games = Alive(st.games) /\ StBut({"games"})
    BY <1>2, Types, <2>1 DEF Records, StBut
  <2>3. /\ ctl' \in Ctls /\ ctl'.at = "expose" /\ ctl'.stack = ctl.stack /\ ctl'.desktop = ctl.ok
          /\ CtlBut({"desktop"})
    BY <1>2, Types, Fields, LabelNames DEF Ctls, CtlBut
  <2>4. Held' /\ ctl'.op = ctl.op
    BY <1>2, <2>3, Types DEF Held, CtlBut, Typed, Control, At
  <2>5. Awaits("expose", Top) /\ Serves("expose", ctl.op)
    BY <1>0, Groups, Servings DEF SettleLabels
  <2>6. Top' = Top /\ Control'
    BY <2>3, <2>4, <2>5, <1>0, EditMoves, LabelNames
  <2> QED BY <1>0, <1>2, <2>1, <2>2, <2>3, <2>4, <2>5, <2>6, Types DEF Typed, TypeOK
<1>3. CASE /\ ~(ctl.retained /\ st.games # {})
           /\ ctl' = [ctl EXCEPT !.at = "unmute", !.stack = <<"settled">> \o @, !.desktop = ctl.ok]
           /\ UNCHANGED <<desk, was, disk, st, session, left>>
  <2>1. <<"settled">> \o ctl.stack \in Seq(Labels)
    BY Types, LabelNames
  <2>2. /\ ctl' \in Ctls /\ ctl'.at = "unmute" /\ ctl'.stack = <<"settled">> \o ctl.stack
          /\ ctl'.desktop = ctl.ok /\ CtlBut({"desktop"})
    BY <1>3, Types, Fields, LabelNames, <2>1 DEF Ctls, CtlBut
  <2>3. Held' /\ ctl'.op = ctl.op
    BY <1>3, <2>2, Types DEF Held, CtlBut, Typed, Control, At
  <2>4. Below("settled", Top) /\ Waits("settled", ctl.op) /\ Awaits("unmute", "settled") /\ Serves("unmute", ctl.op)
    BY <1>0, Groups, Servings DEF SettleLabels, UnmuteLabels, Below, Waits, RestoreTops, MuteTops, UnmuteTops, FinishTops
  <2>5. Top' = "settled" /\ Control'
    BY <2>2, <2>3, <2>4, <1>0, PushMoves, LabelNames
  <2> QED BY <1>0, <1>3, <2>1, <2>2, <2>3, <2>4, <2>5, Types DEF Typed, TypeOK
<1> QED BY <1>1, <1>2, <1>3

LEMMA ExposeDoes ==
  ASSUME Typed, Expose
  PROVE  /\ Typed' /\ At("expose")
         /\ \/ /\ st.games = {} /\ desk.on # {} /\ Calls("unmute", "settled")
               /\ UNCHANGED <<desk, was, disk, st, session, left>>
            \/ \E o \in desk.on :
                 /\ st.games # {} /\ Calls("unmute", "settled") /\ desk'.at = o /\ DeskBut({"at"})
                 /\ UNCHANGED <<was, disk, st, session, left>>
            \/ \E o \in desk.on \cup {desk.at} :
                 /\ st.games # {} /\ Goes("unsettled") /\ desk'.at = o /\ DeskBut({"at"}) /\ Failed
                 /\ UNCHANGED <<was, disk, st, session>>
<1>0. ~At("idle") /\ At("expose") /\ Awaits("expose", Top) /\ Serves("expose", ctl.op) /\ ctl.op \in Ops /\ Top \in Labels
  BY Running DEF Expose, At
<1>1. \/ /\ st.games = {} /\ desk.on # {} /\ Call("unmute", "settled")
         /\ UNCHANGED <<desk, was, disk, st, session, left>>
      \/ \E o \in desk.on :
           /\ st.games # {} /\ Call("unmute", "settled") /\ desk' = [desk EXCEPT !.at = o]
           /\ UNCHANGED <<was, disk, st, session, left>>
      \/ \E o \in desk.on \cup {desk.at} :
           /\ st.games # {} /\ To("unsettled") /\ desk' = [desk EXCEPT !.at = o] /\ Fails
           /\ UNCHANGED <<was, disk, st, session>>
  BY DEF Expose, Works
<1>2. CASE /\ st.games = {} /\ desk.on # {} /\ Call("unmute", "settled")
           /\ UNCHANGED <<desk, was, disk, st, session, left>>
  <2>1. Below("settled", Top) /\ Waits("settled", ctl.op) /\ Awaits("unmute", "settled") /\ Serves("unmute", ctl.op)
    BY <1>0, Groups, Servings DEF SettleLabels, UnmuteLabels, Below, Waits, RestoreTops, MuteTops, UnmuteTops, FinishTops
  <2>2. /\ ctl' \in Ctls /\ Control' /\ Calls("unmute", "settled")
    BY <1>2, <1>0, <2>1, CallMoves, LabelNames DEF Special
  <2> QED BY <1>0, <1>2, <2>1, <2>2, Types DEF Typed, TypeOK
<1>3. CASE \E o \in desk.on :
           /\ st.games # {} /\ Call("unmute", "settled") /\ desk' = [desk EXCEPT !.at = o]
           /\ UNCHANGED <<was, disk, st, session, left>>
  <2>0. PICK o \in desk.on :
          /\ st.games # {} /\ Call("unmute", "settled") /\ desk' = [desk EXCEPT !.at = o]
          /\ UNCHANGED <<was, disk, st, session, left>>
    BY <1>3
  <2>1. /\ desk' \in Desks /\ desk'.at = o /\ DeskBut({"at"})
    BY <2>0, Types, Fields DEF Desks, DeskBut
  <2>2. Below("settled", Top) /\ Waits("settled", ctl.op) /\ Awaits("unmute", "settled") /\ Serves("unmute", ctl.op)
    BY <1>0, Groups, Servings DEF SettleLabels, UnmuteLabels, Below, Waits, RestoreTops, MuteTops, UnmuteTops, FinishTops
  <2>3. /\ ctl' \in Ctls /\ Control' /\ Calls("unmute", "settled")
    BY <2>0, <1>0, <2>2, CallMoves, LabelNames DEF Special
  <2> QED BY <1>0, <2>0, <2>1, <2>2, <2>3, Types DEF Typed, TypeOK
<1>4. CASE \E o \in desk.on \cup {desk.at} :
           /\ st.games # {} /\ To("unsettled") /\ desk' = [desk EXCEPT !.at = o] /\ Fails
           /\ UNCHANGED <<was, disk, st, session>>
  <2>0. PICK o \in desk.on \cup {desk.at} :
          /\ st.games # {} /\ To("unsettled") /\ desk' = [desk EXCEPT !.at = o] /\ Fails
          /\ UNCHANGED <<was, disk, st, session>>
    BY <1>4
  <2>1. /\ desk' \in Desks /\ desk'.at = o /\ DeskBut({"at"})
    BY <2>0, Types, Fields DEF Desks, DeskBut
  <2>2. Failed
    BY <2>0, FailsLeft
  <2>3. Awaits("unsettled", Top) /\ Serves("unsettled", ctl.op)
    BY <1>0, Groups, Servings DEF SettleLabels
  <2>4. /\ ctl' \in Ctls /\ Control' /\ Goes("unsettled")
    BY <2>0, <1>0, <2>3, ToMoves, LabelNames DEF Special
  <2> QED BY <1>0, <2>0, <2>1, <2>2, <2>3, <2>4, Types DEF Typed, TypeOK, Failed
<1> QED BY <1>1, <1>2, <1>3, <1>4

LEMMA SettledDoes ==
  ASSUME Typed, Settled
  PROVE  /\ Typed' /\ At("settled")
         /\ \/ /\ ctl.ok /\ ctl.desktop /\ Returns(TRUE) /\ st' = Blank /\ disk' = NoRecord
               /\ session' = "none" /\ UNCHANGED <<desk, was, left>>
            \/ /\ ~(ctl.ok /\ ctl.desktop) /\ Goes("unsettled")
               /\ UNCHANGED <<desk, was, disk, st, session, left>>
<1>0. ~At("idle") /\ At("settled") /\ Awaits("settled", Top) /\ Serves("settled", ctl.op) /\ ctl.op \in Ops /\ Top \in Labels
  BY Running DEF Settled, At
<1>1. \/ /\ ctl.ok /\ ctl.desktop /\ Return(TRUE) /\ st' = Blank /\ disk' = NoRecord
         /\ session' = "none" /\ UNCHANGED <<desk, was, left>>
      \/ /\ ~(ctl.ok /\ ctl.desktop) /\ To("unsettled")
         /\ UNCHANGED <<desk, was, disk, st, session, left>>
  BY DEF Settled, Over
<1>2. CASE /\ ctl.ok /\ ctl.desktop /\ Return(TRUE) /\ st' = Blank /\ disk' = NoRecord
           /\ session' = "none" /\ UNCHANGED <<desk, was, left>>
  <2>1. st' \in Records
    BY <1>2, RestType
  <2>2. /\ ctl' \in Ctls /\ Control' /\ Returns(TRUE)
    BY <1>2, <1>0, Types, ReturnMoves
  <2> QED BY <1>0, <1>2, <2>1, <2>2, Types DEF Typed, TypeOK
<1>3. CASE /\ ~(ctl.ok /\ ctl.desktop) /\ To("unsettled")
           /\ UNCHANGED <<desk, was, disk, st, session, left>>
  <2>1. Awaits("unsettled", Top) /\ Serves("unsettled", ctl.op)
    BY <1>0, Groups, Servings DEF SettleLabels
  <2>2. /\ ctl' \in Ctls /\ Control' /\ Goes("unsettled")
    BY <1>3, <1>0, <2>1, ToMoves, LabelNames DEF Special
  <2> QED BY <1>0, <1>3, <2>1, <2>2, Types DEF Typed, TypeOK
<1> QED BY <1>1, <1>2, <1>3

LEMMA UnsettledDoes ==
  ASSUME Typed, Unsettled
  PROVE  /\ Typed' /\ At("unsettled")
         /\ \/ /\ Returns(FALSE) /\ disk' = st /\ UNCHANGED <<desk, was, st, session, left>>
            \/ /\ Returns(FALSE) /\ Failed /\ UNCHANGED <<desk, was, disk, st, session>>
<1>0. ~At("idle") /\ At("unsettled")
  BY DEF Unsettled, At
<1>1. \/ /\ Return(FALSE) /\ disk' = st /\ UNCHANGED <<desk, was, st, session, left>>
      \/ /\ Return(FALSE) /\ Fails /\ UNCHANGED <<desk, was, disk, st, session>>
  BY DEF Unsettled, SavesOrNot, Saves, Works, SaveFails
<1>2. CASE /\ Return(FALSE) /\ disk' = st /\ UNCHANGED <<desk, was, st, session, left>>
  <2>1. /\ ctl' \in Ctls /\ Control' /\ Returns(FALSE)
    BY <1>2, <1>0, Types, ReturnMoves
  <2> QED BY <1>0, <1>2, <2>1, Types DEF Typed, TypeOK
<1>3. CASE /\ Return(FALSE) /\ Fails /\ UNCHANGED <<desk, was, disk, st, session>>
  <2>1. Failed
    BY <1>3, FailsLeft
  <2>2. /\ ctl' \in Ctls /\ Control' /\ Returns(FALSE)
    BY <1>3, <1>0, Types, ReturnMoves
  <2> QED BY <1>0, <1>3, <2>1, <2>2, Types DEF Typed, TypeOK, Failed
<1> QED BY <1>1, <1>2, <1>3

LEMMA FinishRetentionDoes ==
  ASSUME Typed, FinishRetention
  PROVE  /\ Typed' /\ At("finish")
         /\ \/ /\ CallsRestore(TRUE, FALSE, "settle") /\ st'.ending /\ st'.games = Alive(st.games)
               /\ StBut({"ending", "games"}) /\ disk' = [st EXCEPT !.ending = TRUE]
               /\ UNCHANGED <<desk, was, session, left>>
            \/ /\ Goes("no") /\ st'.ending /\ StBut({"ending"}) /\ Failed
               /\ UNCHANGED <<desk, was, disk, session>>
<1>0. ~At("idle") /\ At("finish") /\ Awaits("finish", Top) /\ Serves("finish", ctl.op) /\ ctl.op \in Ops /\ Top \in Labels
  BY Running DEF FinishRetention, At
<1>1. \/ /\ CallRestore(TRUE, FALSE, "settle") /\ st' = [st EXCEPT !.ending = TRUE, !.games = Alive(@)]
         /\ disk' = [st EXCEPT !.ending = TRUE] /\ UNCHANGED <<desk, was, session, left>>
      \/ /\ To("no") /\ st' = [st EXCEPT !.ending = TRUE] /\ Fails
         /\ UNCHANGED <<desk, was, disk, session>>
  BY DEF FinishRetention, Saves, Works, SaveFails
<1>2. CASE /\ CallRestore(TRUE, FALSE, "settle")
           /\ st' = [st EXCEPT !.ending = TRUE, !.games = Alive(@)]
           /\ disk' = [st EXCEPT !.ending = TRUE] /\ UNCHANGED <<desk, was, session, left>>
  <2>1. (Alive(st.games)) \in SUBSET Games
    BY <1>2, Types, Fields, DeskFields DEF Alive
  <2>2. /\ st' \in Records /\ st'.ending /\ st'.games = Alive(st.games) /\ StBut({"ending", "games"})
    BY <1>2, Types, <2>1 DEF Records, StBut
  <2>3. disk' \in Records
    BY <1>2, Types DEF Records
  <2>4. Below("settle", Top) /\ Waits("settle", ctl.op) /\ "settle" \in RestoreTops
    BY <1>0, Groups, Servings DEF RestoreLabels, SettleLabels, Below, Waits, RestoreTops, MuteTops, UnmuteTops, FinishTops
  <2>5. /\ ctl' \in Ctls /\ Control' /\ CallsRestore(TRUE, FALSE, "settle")
    BY <1>2, <1>0, <2>4, CallRestoreMoves, LabelNames, Types
  <2> QED BY <1>0, <1>2, <2>1, <2>2, <2>3, <2>4, <2>5, Types DEF Typed, TypeOK
<1>3. CASE /\ To("no") /\ st' = [st EXCEPT !.ending = TRUE] /\ Fails
           /\ UNCHANGED <<desk, was, disk, session>>
  <2>1. /\ st' \in Records /\ st'.ending /\ StBut({"ending"})
    BY <1>3, Types DEF Records, StBut
  <2>2. Failed
    BY <1>3, FailsLeft
  <2>3. Awaits("no", Top) /\ Serves("no", ctl.op)
    BY <1>0, Groups, Servings DEF Below, Waits, RestoreTops, MuteTops, UnmuteTops, FinishTops
  <2>4. /\ ctl' \in Ctls /\ Control' /\ Goes("no")
    BY <1>3, <1>0, <2>3, ToMoves, LabelNames DEF Special
  <2> QED BY <1>0, <1>3, <2>1, <2>2, <2>3, <2>4, Types DEF Typed, TypeOK, Failed
<1> QED BY <1>1, <1>2, <1>3

\* The steps of recover, and of enter.
LEMMA RecoverDoes ==
  ASSUME Typed, Recover
  PROVE  /\ Typed' /\ At("recover")
         /\ \/ /\ disk = NoRecord /\ Returns(TRUE) /\ UNCHANGED <<desk, was, disk, st, session, left>>
            \/ /\ disk # NoRecord /\ CallsRestore((disk.phase = "retained"), TRUE, "settle")
               /\ st' = disk /\ UNCHANGED <<desk, was, disk, session, left>>
<1>0. ~At("idle") /\ At("recover") /\ Awaits("recover", Top) /\ Serves("recover", ctl.op) /\ ctl.op \in Ops /\ Top \in Labels
  BY Running DEF Recover, At
<1>1. \/ /\ disk = NoRecord /\ Return(TRUE) /\ UNCHANGED <<desk, was, disk, st, session, left>>
      \/ /\ disk # NoRecord /\ CallRestore((disk.phase = "retained"), TRUE, "settle") /\ st' = disk
         /\ UNCHANGED <<desk, was, disk, session, left>>
  BY DEF Recover
<1>2. CASE /\ disk = NoRecord /\ Return(TRUE) /\ UNCHANGED <<desk, was, disk, st, session, left>>
  <2>1. /\ ctl' \in Ctls /\ Control' /\ Returns(TRUE)
    BY <1>2, <1>0, Types, ReturnMoves
  <2> QED BY <1>0, <1>2, <2>1, Types DEF Typed, TypeOK
<1>3. CASE /\ disk # NoRecord /\ CallRestore((disk.phase = "retained"), TRUE, "settle") /\ st' = disk
           /\ UNCHANGED <<desk, was, disk, session, left>>
  <2>1. st' \in Records
    BY <1>3, <1>3, Types
  <2>2. Below("settle", Top) /\ Waits("settle", ctl.op) /\ "settle" \in RestoreTops
    BY <1>0, Groups, Servings DEF RestoreLabels, SettleLabels, Below, Waits, RestoreTops, MuteTops, UnmuteTops, FinishTops
  <2>3. /\ ctl' \in Ctls /\ Control' /\ CallsRestore((disk.phase = "retained"), TRUE, "settle")
    BY <1>3, <1>0, <2>2, CallRestoreMoves, LabelNames, Types
  <2> QED BY <1>0, <1>3, <2>1, <2>2, <2>3, Types DEF Typed, TypeOK
<1> QED BY <1>1, <1>2, <1>3

LEMMA RecoverAtStartDoes ==
  ASSUME Typed, RecoverAtStart
  PROVE  /\ Typed' /\ At("idle")
         /\ session = "none" /\ disk # NoRecord /\ ctl'.at = "recover" /\ Top' = "idle"
         /\ ctl'.op = "Recover" /\ ctl'.from = session /\ CtlBut({"op", "from"}) /\ Afresh
         /\ UNCHANGED <<desk, was, disk, st, session>>
<1>0. At("idle")
  BY DEF RecoverAtStart, Begin, Recover, Return, Blank, CallRestore
<1>1. /\ session = "none" /\ disk # NoRecord
      /\ ctl' = [ctl EXCEPT !.at = "recover", !.stack = <<"idle">>, !.op = "Recover", !.from = session]
      /\ left' = [left EXCEPT !.clean = TRUE] /\ UNCHANGED <<desk, was, disk, st, session>>
  BY DEF RecoverAtStart, Begin, Recover
<1>2. left' \in Lefts /\ Afresh
  BY <1>1, Types DEF Lefts, Afresh
<1>3. Awaits("recover", "idle") /\ Serves("recover", "Recover") /\ "Recover" \in Ops
  BY Groups, Servings DEF Below, Waits, RestoreTops, MuteTops, UnmuteTops, FinishTops, Ops
<1>4. <<"idle">> \in Seq(Labels)
  BY LabelNames
<1>5. /\ ctl' \in Ctls /\ ctl'.stack = <<"idle">> /\ ctl'.at = "recover" /\ ctl'.op = "Recover"
        /\ ctl'.from = session /\ CtlBut({"op", "from"})
  BY <1>1, <1>4, <1>3, Types, LabelNames DEF Ctls, CtlBut
<1>6. /\ Control' /\ Top' = "idle"
  BY <1>5, <1>3, LabelNames, BeginMoves DEF Special
<1> QED BY <1>0, <1>1, <1>2, <1>3, <1>4, <1>5, <1>6, Types DEF Typed, TypeOK, Afresh

LEMMA EnterDoes ==
  ASSUME Typed, NEW k \in Kinds, Enter(k)
  PROVE  /\ Typed' /\ At("idle")
         /\ session = "none" /\ ctl'.at = "recover" /\ Top' = "entered" /\ ctl'.op = "Enter"
         /\ ctl'.from = session /\ ctl'.want = k /\ CtlBut({"want", "op", "from"}) /\ Afresh
         /\ UNCHANGED <<desk, was, disk, st, session>>
<1>0. At("idle")
  BY DEF Enter
<1>1. /\ session = "none"
      /\ ctl' = [ctl EXCEPT !.at = "recover", !.stack = <<"entered", "idle">>, !.want = k, !.op = "Enter", !.from = session]
      /\ left' = [left EXCEPT !.clean = TRUE] /\ UNCHANGED <<desk, was, disk, st, session>>
  BY DEF Enter
<1>2. left' \in Lefts /\ Afresh
  BY <1>1, Types DEF Lefts, Afresh
<1>3. Below("entered", "idle") /\ Waits("entered", "Enter") /\ Awaits("recover", "entered") /\ Serves("recover", "Enter") /\ "Enter" \in Ops
  BY Groups, Servings DEF Below, Waits, RestoreTops, MuteTops, UnmuteTops, FinishTops, Ops
<1>4. <<"entered", "idle">> \in Seq(Labels)
  BY LabelNames
<1>5. /\ ctl' \in Ctls /\ ctl'.stack = <<"entered", "idle">> /\ ctl'.at = "recover"
        /\ ctl'.op = "Enter" /\ ctl'.from = session /\ ctl'.want = k /\ CtlBut({"want", "op", "from"})
  BY <1>1, <1>4, <1>3, Types, LabelNames DEF Ctls, CtlBut
<1>6. /\ Control' /\ Top' = "entered"
  BY <1>5, <1>3, LabelNames, BeginCallMoves DEF Special
<1> QED BY <1>0, <1>1, <1>2, <1>3, <1>4, <1>5, <1>6, Types DEF Typed, TypeOK, Afresh

LEMMA EnteredDoes ==
  ASSUME Typed, Entered
  PROVE  /\ Typed' /\ At("entered")
         /\ \/ /\ (~ctl.ok \/ ctl.want.output \notin desk.plugged) /\ Returns(FALSE)
               /\ UNCHANGED <<desk, was, disk, st, session, left>>
            \/ /\ ctl.ok /\ ctl.want.output \in desk.plugged /\ Goes("enterOutput")
               /\ st'.output = ctl.want.output /\ ~st'.lit /\ ~st'.placed /\ ~st'.quiet /\ ~st'.ending /\ st'.sink = NoSink /\ st'.prev = NoSink /\ st'.games = {} /\ st'.streams = {}
               /\ disk' = NoRecord /\ UNCHANGED <<desk, was, session, left>>
<1>0. ~At("idle") /\ At("entered") /\ Awaits("entered", Top) /\ Serves("entered", ctl.op) /\ ctl.op \in Ops /\ Top \in Labels
  BY Running DEF Entered, At
<1>1. \/ /\ (~ctl.ok \/ ctl.want.output \notin desk.plugged) /\ Return(FALSE)
         /\ UNCHANGED <<desk, was, disk, st, session, left>>
      \/ /\ ctl.ok /\ ctl.want.output \in desk.plugged /\ To("enterOutput")
         /\ st' = [Blank EXCEPT !.output = ctl.want.output] /\ disk' = NoRecord
         /\ UNCHANGED <<desk, was, session, left>>
  BY DEF Entered
<1>2. CASE /\ (~ctl.ok \/ ctl.want.output \notin desk.plugged) /\ Return(FALSE)
           /\ UNCHANGED <<desk, was, disk, st, session, left>>
  <2>1. /\ ctl' \in Ctls /\ Control' /\ Returns(FALSE)
    BY <1>2, <1>0, Types, ReturnMoves
  <2> QED BY <1>0, <1>2, <2>1, Types DEF Typed, TypeOK
<1>3. CASE /\ ctl.ok /\ ctl.want.output \in desk.plugged /\ To("enterOutput")
           /\ st' = [Blank EXCEPT !.output = ctl.want.output] /\ disk' = NoRecord
           /\ UNCHANGED <<desk, was, session, left>>
  <2>1. /\ st' \in Records
          /\ st'.output = ctl.want.output /\ ~st'.lit /\ ~st'.placed /\ ~st'.quiet /\ ~st'.ending /\ st'.sink = NoSink /\ st'.prev = NoSink /\ st'.games = {} /\ st'.streams = {}
    BY <1>3, Types, RestType, KindFields, GameModeAssumption DEF Records, Blank
  <2>2. Awaits("enterOutput", Top) /\ Serves("enterOutput", ctl.op)
    BY <1>0, Groups, Servings DEF EnterLabels, Below, Waits, RestoreTops, MuteTops, UnmuteTops, FinishTops
  <2>3. /\ ctl' \in Ctls /\ Control' /\ Goes("enterOutput")
    BY <1>3, <1>0, <2>2, ToMoves, LabelNames DEF Special
  <2> QED BY <1>0, <1>3, <2>1, <2>2, <2>3, Types DEF Typed, TypeOK
<1> QED BY <1>1, <1>2, <1>3

LEMMA EnterOutputDoes ==
  ASSUME Typed, EnterOutput
  PROVE  /\ Typed' /\ At("enterOutput")
         /\ \/ /\ st.output \in desk.on /\ Goes("enterSink")
               /\ UNCHANGED <<desk, was, disk, st, session, left>>
            \/ /\ st.output \notin desk.on /\ Goes("enterLight") /\ st'.lit /\ StBut({"lit"})
               /\ disk' = st' /\ UNCHANGED <<desk, was, session, left>>
            \/ /\ st.output \notin desk.on /\ Goes("no") /\ st' = Blank /\ Failed
               /\ UNCHANGED <<desk, was, disk, session>>
<1>0. ~At("idle") /\ At("enterOutput") /\ Awaits("enterOutput", Top) /\ Serves("enterOutput", ctl.op) /\ ctl.op \in Ops /\ Top \in Labels
  BY Running DEF EnterOutput, At
<1>1. \/ /\ st.output \in desk.on /\ To("enterSink")
         /\ UNCHANGED <<desk, was, disk, st, session, left>>
      \/ /\ st.output \notin desk.on /\ To("enterLight") /\ st' = [st EXCEPT !.lit = TRUE]
         /\ disk' = st' /\ UNCHANGED <<desk, was, session, left>>
      \/ /\ st.output \notin desk.on /\ To("no") /\ st' = Blank /\ Fails
         /\ UNCHANGED <<desk, was, disk, session>>
  BY DEF EnterOutput, SaveThen, Saves, Works, SaveFails
<1>2. CASE /\ st.output \in desk.on /\ To("enterSink")
           /\ UNCHANGED <<desk, was, disk, st, session, left>>
  BY <1>0, <1>2, SameMethod, Types DEF Special, At, EnterLabels, Typed, TypeOK
<1>3. CASE /\ st.output \notin desk.on /\ To("enterLight") /\ st' = [st EXCEPT !.lit = TRUE]
           /\ disk' = st' /\ UNCHANGED <<desk, was, session, left>>
  <2>1. /\ st' \in Records /\ st'.lit /\ StBut({"lit"})
    BY <1>3, Types DEF Records, StBut
  <2>2. ctl' \in Ctls /\ Control' /\ Goes("enterLight")
    BY <1>0, <1>3, SameMethod DEF Special, At, EnterLabels
  <2> QED BY <1>0, <1>3, <2>1, <2>2, Types DEF Typed, TypeOK
<1>4. CASE /\ st.output \notin desk.on /\ To("no") /\ st' = Blank /\ Fails
           /\ UNCHANGED <<desk, was, disk, session>>
  <2>1. st' \in Records
    BY <1>4, RestType
  <2>2. Failed
    BY <1>4, FailsLeft
  <2>3. Awaits("no", Top) /\ Serves("no", ctl.op)
    BY <1>0, Groups, Servings DEF EnterLabels, Below, Waits, RestoreTops, MuteTops, UnmuteTops, FinishTops
  <2>4. /\ ctl' \in Ctls /\ Control' /\ Goes("no")
    BY <1>4, <1>0, <2>3, ToMoves, LabelNames DEF Special
  <2> QED BY <1>0, <1>4, <2>1, <2>2, <2>3, <2>4, Types DEF Typed, TypeOK, Failed
<1> QED BY <1>1, <1>2, <1>3, <1>4

LEMMA EnterLightDoes ==
  ASSUME Typed, EnterLight
  PROVE  /\ Typed' /\ At("enterLight")
         /\ \/ /\ st.output \in desk.plugged /\ Goes("enterSink")
               /\ desk'.on = desk.on \cup {st.output} /\ DeskBut({"on"})
               /\ UNCHANGED <<was, disk, st, session, left>>
            \/ /\ st.output \in desk.plugged /\ Goes("enterFail") /\ Failed
               /\ UNCHANGED <<desk, was, disk, st, session>>
            \/ /\ st.output \in desk.plugged /\ Goes("enterFail")
               /\ desk'.on = desk.on \cup {st.output} /\ DeskBut({"on"}) /\ Failed
               /\ UNCHANGED <<was, disk, st, session>>
            \/ /\ ~(st.output \in desk.plugged) /\ Goes("enterFail")
               /\ UNCHANGED <<desk, was, disk, st, session, left>>
<1>0. ~At("idle") /\ At("enterLight")
  BY DEF EnterLight, At
<1>1. \/ /\ st.output \in desk.plugged /\ To("enterSink")
         /\ desk' = [desk EXCEPT !.on = @ \cup {st.output}]
         /\ UNCHANGED <<was, disk, st, session, left>>
      \/ /\ st.output \in desk.plugged /\ To("enterFail") /\ Fails
         /\ UNCHANGED <<desk, was, disk, st, session>>
      \/ /\ st.output \in desk.plugged /\ To("enterFail")
         /\ desk' = [desk EXCEPT !.on = @ \cup {st.output}] /\ Fails
         /\ UNCHANGED <<was, disk, st, session>>
      \/ /\ ~(st.output \in desk.plugged) /\ To("enterFail")
         /\ UNCHANGED <<desk, was, disk, st, session, left>>
  BY DEF EnterLight, LightOutput, ChangesIf, ChangesLate, Changes, Works
<1>2. CASE /\ st.output \in desk.plugged /\ To("enterSink")
           /\ desk' = [desk EXCEPT !.on = @ \cup {st.output}]
           /\ UNCHANGED <<was, disk, st, session, left>>
  <2>1. /\ desk' \in Desks /\ desk'.on = desk.on \cup {st.output} /\ DeskBut({"on"})
    BY <1>2, Types, Fields DEF Desks, DeskBut
  <2>2. ctl' \in Ctls /\ Control' /\ Goes("enterSink")
    BY <1>0, <1>2, SameMethod DEF Special, At, EnterLabels
  <2> QED BY <1>0, <1>2, <2>1, <2>2, Types DEF Typed, TypeOK
<1>3. CASE /\ st.output \in desk.plugged /\ To("enterFail") /\ Fails
           /\ UNCHANGED <<desk, was, disk, st, session>>
  <2>1. Failed
    BY <1>3, FailsLeft
  <2>2. ctl' \in Ctls /\ Control' /\ Goes("enterFail")
    BY <1>0, <1>3, SameMethod DEF Special, At, EnterLabels
  <2> QED BY <1>0, <1>3, <2>1, <2>2, Types DEF Typed, TypeOK, Failed
<1>4. CASE /\ st.output \in desk.plugged /\ To("enterFail")
           /\ desk' = [desk EXCEPT !.on = @ \cup {st.output}] /\ Fails
           /\ UNCHANGED <<was, disk, st, session>>
  <2>1. /\ desk' \in Desks /\ desk'.on = desk.on \cup {st.output} /\ DeskBut({"on"})
    BY <1>4, Types, Fields DEF Desks, DeskBut
  <2>2. Failed
    BY <1>4, FailsLeft
  <2>3. ctl' \in Ctls /\ Control' /\ Goes("enterFail")
    BY <1>0, <1>4, SameMethod DEF Special, At, EnterLabels
  <2> QED BY <1>0, <1>4, <2>1, <2>2, <2>3, Types DEF Typed, TypeOK, Failed
<1>5. CASE /\ ~(st.output \in desk.plugged) /\ To("enterFail")
           /\ UNCHANGED <<desk, was, disk, st, session, left>>
  BY <1>0, <1>5, SameMethod, Types DEF Special, At, EnterLabels, Typed, TypeOK
<1> QED BY <1>1, <1>2, <1>3, <1>4, <1>5

LEMMA EnterSinkDoes ==
  ASSUME Typed, EnterSink
  PROVE  /\ Typed' /\ At("enterSink")
         /\ \/ /\ SinkAsWanted /\ Goes("enterWindow")
               /\ UNCHANGED <<desk, was, disk, st, session, left>>
            \/ /\ Goes("enterFail") /\ UNCHANGED <<desk, was, disk, st, session, left>>
            \/ /\ ~SinkAsWanted /\ SinkThere /\ Goes("enterSetSink")
               /\ st'.prev = desk.sink /\ st'.sink = ctl.want.sink /\ StBut({"prev", "sink"})
               /\ disk' = st' /\ UNCHANGED <<desk, was, session, left>>
            \/ /\ ~SinkAsWanted /\ Goes("enterFail") /\ Failed
               /\ UNCHANGED <<desk, was, disk, st, session>>
<1>0. ~At("idle") /\ At("enterSink")
  BY DEF EnterSink, At
<1>1. \/ /\ SinkAsWanted /\ To("enterWindow")
         /\ UNCHANGED <<desk, was, disk, st, session, left>>
      \/ To("enterFail") /\ UNCHANGED <<desk, was, disk, st, session, left>>
      \/ /\ ~SinkAsWanted /\ SinkThere /\ To("enterSetSink") /\ st' = Sunk /\ disk' = st'
         /\ UNCHANGED <<desk, was, session, left>>
      \/ /\ ~SinkAsWanted /\ To("enterFail") /\ Fails
         /\ UNCHANGED <<desk, was, disk, st, session>>
  BY DEF EnterSink, SaveThen, Saves, Works, SaveFails
<1>2. CASE /\ SinkAsWanted /\ To("enterWindow")
           /\ UNCHANGED <<desk, was, disk, st, session, left>>
  BY <1>0, <1>2, SameMethod, Types DEF Special, At, EnterLabels, Typed, TypeOK
<1>3. CASE /\ ~SinkAsWanted /\ SinkThere /\ To("enterSetSink") /\ st' = Sunk
           /\ disk' = st' /\ UNCHANGED <<desk, was, session, left>>
  <2>1. /\ st' \in Records
          /\ st'.prev = desk.sink /\ st'.sink = ctl.want.sink /\ StBut({"prev", "sink"})
    BY <1>3, Types, KindFields, DeskFields DEF Records, Sunk, StBut
  <2>2. ctl' \in Ctls /\ Control' /\ Goes("enterSetSink")
    BY <1>0, <1>3, SameMethod DEF Special, At, EnterLabels
  <2> QED BY <1>0, <1>3, <2>1, <2>2, Types DEF Typed, TypeOK
<1>4. CASE /\ ~SinkAsWanted /\ To("enterFail") /\ Fails
           /\ UNCHANGED <<desk, was, disk, st, session>>
  <2>1. Failed
    BY <1>4, FailsLeft
  <2>2. ctl' \in Ctls /\ Control' /\ Goes("enterFail")
    BY <1>0, <1>4, SameMethod DEF Special, At, EnterLabels
  <2> QED BY <1>0, <1>4, <2>1, <2>2, Types DEF Typed, TypeOK, Failed
<1>5. CASE To("enterFail") /\ UNCHANGED <<desk, was, disk, st, session, left>>
  BY <1>0, <1>5, SameMethod, Types DEF Special, At, EnterLabels, Typed, TypeOK
<1> QED BY <1>1, <1>2, <1>3, <1>4, <1>5

LEMMA EnterSetSinkDoes ==
  ASSUME Typed, EnterSetSink
  PROVE  /\ Typed' /\ At("enterSetSink")
         /\ \/ /\ Goes("enterWindow") /\ st.sink \in desk.sinks /\ desk'.sink = st.sink /\ DeskBut({"sink"})
               /\ UNCHANGED <<was, disk, st, session, left>>
            \/ /\ Goes("enterFail") /\ UNCHANGED <<desk, was, disk, st, session, left>>
            \/ /\ Goes("enterFail") /\ Failed /\ UNCHANGED <<desk, was, disk, st, session>>
<1>0. ~At("idle") /\ At("enterSetSink")
  BY DEF EnterSetSink, At
<1>1. \/ To("enterFail") /\ UNCHANGED <<desk, was, disk, st, session, left>>
      \/ /\ To("enterWindow") /\ st.sink \in desk.sinks /\ desk' = [desk EXCEPT !.sink = st.sink]
         /\ UNCHANGED <<was, disk, st, session, left>>
      \/ /\ To("enterFail") /\ Fails /\ UNCHANGED <<desk, was, disk, st, session>>
  BY DEF EnterSetSink, SetSink, Changes, Works
<1>2. CASE /\ To("enterWindow") /\ st.sink \in desk.sinks /\ desk' = [desk EXCEPT !.sink = st.sink]
           /\ UNCHANGED <<was, disk, st, session, left>>
  <2>1. /\ desk' \in Desks /\ desk'.sink = st.sink /\ DeskBut({"sink"})
    BY <1>2, Types, Fields DEF Desks, DeskBut
  <2>2. ctl' \in Ctls /\ Control' /\ Goes("enterWindow")
    BY <1>0, <1>2, SameMethod DEF Special, At, EnterLabels
  <2> QED BY <1>0, <1>2, <2>1, <2>2, Types DEF Typed, TypeOK
<1>3. CASE /\ To("enterFail") /\ Fails /\ UNCHANGED <<desk, was, disk, st, session>>
  <2>1. Failed
    BY <1>3, FailsLeft
  <2>2. ctl' \in Ctls /\ Control' /\ Goes("enterFail")
    BY <1>0, <1>3, SameMethod DEF Special, At, EnterLabels
  <2> QED BY <1>0, <1>3, <2>1, <2>2, Types DEF Typed, TypeOK, Failed
<1>4. CASE To("enterFail") /\ UNCHANGED <<desk, was, disk, st, session, left>>
  BY <1>0, <1>4, SameMethod, Types DEF Special, At, EnterLabels, Typed, TypeOK
<1> QED BY <1>1, <1>2, <1>3, <1>4

LEMMA EnterWindowDoes ==
  ASSUME Typed, EnterWindow
  PROVE  /\ Typed' /\ At("enterWindow")
         /\ \/ /\ Goes("enterPlace") /\ st'.placed /\ StBut({"placed"}) /\ disk' = st'
               /\ UNCHANGED <<desk, was, session, left>>
            \/ /\ Goes("enterFail") /\ st'.placed /\ StBut({"placed"}) /\ Failed
               /\ UNCHANGED <<desk, was, disk, session>>
<1>0. ~At("idle") /\ At("enterWindow")
  BY DEF EnterWindow, At
<1>1. \/ /\ To("enterPlace") /\ st' = Placed /\ disk' = st' /\ UNCHANGED <<desk, was, session, left>>
      \/ /\ To("enterFail") /\ st' = Placed /\ Fails /\ UNCHANGED <<desk, was, disk, session>>
  BY DEF EnterWindow, SaveThen, Saves, Works, SaveFails
<1>2. CASE /\ To("enterPlace") /\ st' = Placed /\ disk' = st' /\ UNCHANGED <<desk, was, session, left>>
  <2>1. /\ st' \in Records /\ st'.placed /\ StBut({"placed"})
    BY <1>2, Types, KindFields, DeskFields DEF Records, Placed, StBut
  <2>2. ctl' \in Ctls /\ Control' /\ Goes("enterPlace")
    BY <1>0, <1>2, SameMethod DEF Special, At, EnterLabels
  <2> QED BY <1>0, <1>2, <2>1, <2>2, Types DEF Typed, TypeOK
<1>3. CASE /\ To("enterFail") /\ st' = Placed /\ Fails /\ UNCHANGED <<desk, was, disk, session>>
  <2>1. /\ st' \in Records /\ st'.placed /\ StBut({"placed"})
    BY <1>3, Types, KindFields, DeskFields DEF Records, Placed, StBut
  <2>2. Failed
    BY <1>3, FailsLeft
  <2>3. ctl' \in Ctls /\ Control' /\ Goes("enterFail")
    BY <1>0, <1>3, SameMethod DEF Special, At, EnterLabels
  <2> QED BY <1>0, <1>3, <2>1, <2>2, <2>3, Types DEF Typed, TypeOK, Failed
<1> QED BY <1>1, <1>2, <1>3

LEMMA EnterPlaceDoes ==
  ASSUME Typed, EnterPlace
  PROVE  /\ Typed' /\ At("enterPlace")
         /\ \/ /\ st.output \in desk.on /\ Goes("enterQuiet") /\ desk'.win = "session"
               /\ desk'.at = st.output /\ DeskBut({"win", "at"})
               /\ UNCHANGED <<was, disk, st, session, left>>
            \/ /\ st.output \in desk.on /\ Goes("enterFail") /\ Failed
               /\ UNCHANGED <<desk, was, disk, st, session>>
            \/ /\ st.output \in desk.on /\ Goes("enterFail") /\ desk'.win = "session"
               /\ desk'.at = st.output /\ DeskBut({"win", "at"}) /\ Failed
               /\ UNCHANGED <<was, disk, st, session>>
            \/ /\ ~(st.output \in desk.on) /\ Goes("enterFail")
               /\ UNCHANGED <<desk, was, disk, st, session, left>>
<1>0. ~At("idle") /\ At("enterPlace")
  BY DEF EnterPlace, At
<1>1. \/ /\ st.output \in desk.on /\ To("enterQuiet")
         /\ desk' = [desk EXCEPT !.win = "session", !.at = st.output]
         /\ UNCHANGED <<was, disk, st, session, left>>
      \/ /\ st.output \in desk.on /\ To("enterFail") /\ Fails
         /\ UNCHANGED <<desk, was, disk, st, session>>
      \/ /\ st.output \in desk.on /\ To("enterFail")
         /\ desk' = [desk EXCEPT !.win = "session", !.at = st.output] /\ Fails
         /\ UNCHANGED <<was, disk, st, session>>
      \/ /\ ~(st.output \in desk.on) /\ To("enterFail")
         /\ UNCHANGED <<desk, was, disk, st, session, left>>
  BY DEF EnterPlace, ChangesIf, ChangesLate, Changes, Works
<1>2. CASE /\ st.output \in desk.on /\ To("enterQuiet")
           /\ desk' = [desk EXCEPT !.win = "session", !.at = st.output]
           /\ UNCHANGED <<was, disk, st, session, left>>
  <2>1. /\ desk' \in Desks /\ desk'.win = "session" /\ desk'.at = st.output /\ DeskBut({"win", "at"})
    BY <1>2, Types, Fields DEF Desks, DeskBut
  <2>2. ctl' \in Ctls /\ Control' /\ Goes("enterQuiet")
    BY <1>0, <1>2, SameMethod DEF Special, At, EnterLabels
  <2> QED BY <1>0, <1>2, <2>1, <2>2, Types DEF Typed, TypeOK
<1>3. CASE /\ st.output \in desk.on /\ To("enterFail") /\ Fails
           /\ UNCHANGED <<desk, was, disk, st, session>>
  <2>1. Failed
    BY <1>3, FailsLeft
  <2>2. ctl' \in Ctls /\ Control' /\ Goes("enterFail")
    BY <1>0, <1>3, SameMethod DEF Special, At, EnterLabels
  <2> QED BY <1>0, <1>3, <2>1, <2>2, Types DEF Typed, TypeOK, Failed
<1>4. CASE /\ st.output \in desk.on /\ To("enterFail")
           /\ desk' = [desk EXCEPT !.win = "session", !.at = st.output] /\ Fails
           /\ UNCHANGED <<was, disk, st, session>>
  <2>1. /\ desk' \in Desks /\ desk'.win = "session" /\ desk'.at = st.output /\ DeskBut({"win", "at"})
    BY <1>4, Types, Fields DEF Desks, DeskBut
  <2>2. Failed
    BY <1>4, FailsLeft
  <2>3. ctl' \in Ctls /\ Control' /\ Goes("enterFail")
    BY <1>0, <1>4, SameMethod DEF Special, At, EnterLabels
  <2> QED BY <1>0, <1>4, <2>1, <2>2, <2>3, Types DEF Typed, TypeOK, Failed
<1>5. CASE /\ ~(st.output \in desk.on) /\ To("enterFail")
           /\ UNCHANGED <<desk, was, disk, st, session, left>>
  BY <1>0, <1>5, SameMethod, Types DEF Special, At, EnterLabels, Typed, TypeOK
<1> QED BY <1>1, <1>2, <1>3, <1>4, <1>5

LEMMA EnterQuietDoes ==
  ASSUME Typed, EnterQuiet
  PROVE  /\ Typed' /\ At("enterQuiet")
         /\ \/ /\ (~ctl.want.quiet \/ desk.quiet) /\ Goes("enterLast")
               /\ UNCHANGED <<desk, was, disk, st, session, left>>
            \/ /\ ctl.want.quiet /\ ~desk.quiet /\ Goes("enterSilence")
               /\ st'.quiet /\ StBut({"quiet"}) /\ disk' = st'
               /\ UNCHANGED <<desk, was, session, left>>
            \/ /\ ctl.want.quiet /\ ~desk.quiet /\ Goes("enterLast") /\ Failed
               /\ UNCHANGED <<desk, was, disk, st, session>>
<1>0. ~At("idle") /\ At("enterQuiet")
  BY DEF EnterQuiet, At
<1>1. \/ /\ (~ctl.want.quiet \/ desk.quiet) /\ To("enterLast")
         /\ UNCHANGED <<desk, was, disk, st, session, left>>
      \/ /\ ctl.want.quiet /\ ~desk.quiet /\ To("enterSilence") /\ st' = Quieted /\ disk' = st'
         /\ UNCHANGED <<desk, was, session, left>>
      \/ /\ ctl.want.quiet /\ ~desk.quiet /\ To("enterLast") /\ Fails
         /\ UNCHANGED <<desk, was, disk, st, session>>
  BY DEF EnterQuiet, SaveThen, Saves, Works, SaveFails
<1>2. CASE /\ (~ctl.want.quiet \/ desk.quiet) /\ To("enterLast")
           /\ UNCHANGED <<desk, was, disk, st, session, left>>
  BY <1>0, <1>2, SameMethod, Types DEF Special, At, EnterLabels, Typed, TypeOK
<1>3. CASE /\ ctl.want.quiet /\ ~desk.quiet /\ To("enterSilence") /\ st' = Quieted /\ disk' = st'
           /\ UNCHANGED <<desk, was, session, left>>
  <2>1. /\ st' \in Records /\ st'.quiet /\ StBut({"quiet"})
    BY <1>3, Types, KindFields, DeskFields DEF Records, Quieted, StBut
  <2>2. ctl' \in Ctls /\ Control' /\ Goes("enterSilence")
    BY <1>0, <1>3, SameMethod DEF Special, At, EnterLabels
  <2> QED BY <1>0, <1>3, <2>1, <2>2, Types DEF Typed, TypeOK
<1>4. CASE /\ ctl.want.quiet /\ ~desk.quiet /\ To("enterLast") /\ Fails
           /\ UNCHANGED <<desk, was, disk, st, session>>
  <2>1. Failed
    BY <1>4, FailsLeft
  <2>2. ctl' \in Ctls /\ Control' /\ Goes("enterLast")
    BY <1>0, <1>4, SameMethod DEF Special, At, EnterLabels
  <2> QED BY <1>0, <1>4, <2>1, <2>2, Types DEF Typed, TypeOK, Failed
<1> QED BY <1>1, <1>2, <1>3, <1>4

LEMMA EnterSilenceDoes ==
  ASSUME Typed, EnterSilence
  PROVE  /\ Typed' /\ At("enterSilence")
         /\ \/ /\ Goes("enterLast") /\ desk'.quiet /\ DeskBut({"quiet"})
               /\ UNCHANGED <<was, disk, st, session, left>>
            \/ /\ Goes("enterLoud") /\ Failed /\ UNCHANGED <<desk, was, disk, st, session>>
<1>0. ~At("idle") /\ At("enterSilence")
  BY DEF EnterSilence, At
<1>1. \/ /\ To("enterLast") /\ desk' = [desk EXCEPT !.quiet = TRUE]
         /\ UNCHANGED <<was, disk, st, session, left>>
      \/ /\ To("enterLoud") /\ Fails /\ UNCHANGED <<desk, was, disk, st, session>>
  BY DEF EnterSilence, Changes, Works
<1>2. CASE /\ To("enterLast") /\ desk' = [desk EXCEPT !.quiet = TRUE]
           /\ UNCHANGED <<was, disk, st, session, left>>
  <2>1. /\ desk' \in Desks /\ desk'.quiet /\ DeskBut({"quiet"})
    BY <1>2, Types, Fields DEF Desks, DeskBut
  <2>2. ctl' \in Ctls /\ Control' /\ Goes("enterLast")
    BY <1>0, <1>2, SameMethod DEF Special, At, EnterLabels
  <2> QED BY <1>0, <1>2, <2>1, <2>2, Types DEF Typed, TypeOK
<1>3. CASE /\ To("enterLoud") /\ Fails /\ UNCHANGED <<desk, was, disk, st, session>>
  <2>1. Failed
    BY <1>3, FailsLeft
  <2>2. ctl' \in Ctls /\ Control' /\ Goes("enterLoud")
    BY <1>0, <1>3, SameMethod DEF Special, At, EnterLabels
  <2> QED BY <1>0, <1>3, <2>1, <2>2, Types DEF Typed, TypeOK, Failed
<1> QED BY <1>1, <1>2, <1>3

LEMMA EnterLoudDoes ==
  ASSUME Typed, EnterLoud
  PROVE  /\ Typed' /\ At("enterLoud")
         /\ \/ /\ Goes("enterLast") /\ ~st'.quiet /\ StBut({"quiet"}) /\ disk' = st'
               /\ UNCHANGED <<desk, was, session, left>>
            \/ /\ Goes("enterLast") /\ ~st'.quiet /\ StBut({"quiet"}) /\ Failed
               /\ UNCHANGED <<desk, was, disk, session>>
<1>0. ~At("idle") /\ At("enterLoud")
  BY DEF EnterLoud, At
<1>1. \/ /\ To("enterLast") /\ st' = [st EXCEPT !.quiet = FALSE] /\ disk' = st'
         /\ UNCHANGED <<desk, was, session, left>>
      \/ /\ To("enterLast") /\ st' = [st EXCEPT !.quiet = FALSE] /\ Fails
         /\ UNCHANGED <<desk, was, disk, session>>
  BY DEF EnterLoud, SavesOrNot, Saves, Works, SaveFails
<1>2. CASE /\ To("enterLast") /\ st' = [st EXCEPT !.quiet = FALSE] /\ disk' = st'
           /\ UNCHANGED <<desk, was, session, left>>
  <2>1. /\ st' \in Records /\ ~st'.quiet /\ StBut({"quiet"})
    BY <1>2, Types DEF Records, StBut
  <2>2. ctl' \in Ctls /\ Control' /\ Goes("enterLast")
    BY <1>0, <1>2, SameMethod DEF Special, At, EnterLabels
  <2> QED BY <1>0, <1>2, <2>1, <2>2, Types DEF Typed, TypeOK
<1>3. CASE /\ To("enterLast") /\ st' = [st EXCEPT !.quiet = FALSE] /\ Fails
           /\ UNCHANGED <<desk, was, disk, session>>
  <2>1. /\ st' \in Records /\ ~st'.quiet /\ StBut({"quiet"})
    BY <1>3, Types DEF Records, StBut
  <2>2. Failed
    BY <1>3, FailsLeft
  <2>3. ctl' \in Ctls /\ Control' /\ Goes("enterLast")
    BY <1>0, <1>3, SameMethod DEF Special, At, EnterLabels
  <2> QED BY <1>0, <1>3, <2>1, <2>2, <2>3, Types DEF Typed, TypeOK, Failed
<1> QED BY <1>1, <1>2, <1>3

LEMMA EnterLastDoes ==
  ASSUME Typed, EnterLast
  PROVE  /\ Typed' /\ At("enterLast")
         /\ \/ /\ Returns(TRUE) /\ disk' = st /\ session' = "active"
               /\ UNCHANGED <<desk, was, st, left>>
            \/ /\ Goes("enterFail") /\ Failed /\ UNCHANGED <<desk, was, disk, st, session>>
<1>0. ~At("idle") /\ At("enterLast")
  BY DEF EnterLast, At
<1>1. \/ /\ Return(TRUE) /\ disk' = st /\ session' = "active" /\ UNCHANGED <<desk, was, st, left>>
      \/ /\ To("enterFail") /\ Fails /\ UNCHANGED <<desk, was, disk, st, session>>
  BY DEF EnterLast, Saves, Works, SaveFails
<1>2. CASE /\ Return(TRUE) /\ disk' = st /\ session' = "active" /\ UNCHANGED <<desk, was, st, left>>
  <2>1. /\ ctl' \in Ctls /\ Control' /\ Returns(TRUE)
    BY <1>2, <1>0, Types, ReturnMoves
  <2> QED BY <1>0, <1>2, <2>1, Types DEF Typed, TypeOK
<1>3. CASE /\ To("enterFail") /\ Fails /\ UNCHANGED <<desk, was, disk, st, session>>
  <2>1. Failed
    BY <1>3, FailsLeft
  <2>2. ctl' \in Ctls /\ Control' /\ Goes("enterFail")
    BY <1>0, <1>3, SameMethod DEF Special, At, EnterLabels
  <2> QED BY <1>0, <1>3, <2>1, <2>2, Types DEF Typed, TypeOK, Failed
<1> QED BY <1>1, <1>2, <1>3

LEMMA EnterFailDoes ==
  ASSUME Typed, EnterFail
  PROVE  /\ Typed' /\ At("enterFail")
         /\ CallsRestore(FALSE, FALSE, "enterFailed")
         /\ UNCHANGED <<desk, was, disk, st, session, left>>
<1>0. ~At("idle") /\ At("enterFail") /\ Awaits("enterFail", Top) /\ Serves("enterFail", ctl.op) /\ ctl.op \in Ops /\ Top \in Labels
  BY Running DEF EnterFail, At
<1>1. /\ CallRestore(FALSE, FALSE, "enterFailed") /\ UNCHANGED <<desk, was, disk, st, session, left>>
  BY DEF EnterFail
<1>2. Below("enterFailed", Top) /\ Waits("enterFailed", ctl.op) /\ "enterFailed" \in RestoreTops
  BY <1>0, Groups, Servings DEF EnterLabels, RestoreLabels, Below, Waits, RestoreTops, MuteTops, UnmuteTops, FinishTops
<1>3. /\ ctl' \in Ctls /\ Control' /\ CallsRestore(FALSE, FALSE, "enterFailed")
  BY <1>1, <1>0, <1>2, CallRestoreMoves, LabelNames, Types
<1> QED BY <1>0, <1>1, <1>2, <1>3, Types DEF Typed, TypeOK

LEMMA EnterFailedDoes ==
  ASSUME Typed, EnterFailed
  PROVE  /\ Typed' /\ At("enterFailed")
         /\ \/ /\ ctl.ok /\ Returns(FALSE) /\ st' = Blank /\ disk' = NoRecord /\ session' = "none"
               /\ UNCHANGED <<desk, was, left>>
            \/ /\ ~ctl.ok /\ Returns(FALSE) /\ disk' = st /\ session' = "active"
               /\ UNCHANGED <<desk, was, st, left>>
            \/ /\ ~ctl.ok /\ Returns(FALSE) /\ session' = "active" /\ Failed
               /\ UNCHANGED <<desk, was, disk, st>>
<1>0. ~At("idle") /\ At("enterFailed")
  BY DEF EnterFailed, At
<1>1. \/ /\ ctl.ok /\ Return(FALSE) /\ st' = Blank /\ disk' = NoRecord /\ session' = "none"
         /\ UNCHANGED <<desk, was, left>>
      \/ /\ ~ctl.ok /\ Return(FALSE) /\ disk' = st /\ session' = "active"
         /\ UNCHANGED <<desk, was, st, left>>
      \/ /\ ~ctl.ok /\ Return(FALSE) /\ session' = "active" /\ Fails
         /\ UNCHANGED <<desk, was, disk, st>>
  BY DEF EnterFailed, Over, SavesOrNot, Saves, Works, SaveFails
<1>2. CASE /\ ctl.ok /\ Return(FALSE) /\ st' = Blank /\ disk' = NoRecord /\ session' = "none"
           /\ UNCHANGED <<desk, was, left>>
  <2>1. st' \in Records
    BY <1>2, RestType
  <2>2. /\ ctl' \in Ctls /\ Control' /\ Returns(FALSE)
    BY <1>2, <1>0, Types, ReturnMoves
  <2> QED BY <1>0, <1>2, <2>1, <2>2, Types DEF Typed, TypeOK
<1>3. CASE /\ ~ctl.ok /\ Return(FALSE) /\ disk' = st /\ session' = "active"
           /\ UNCHANGED <<desk, was, st, left>>
  <2>1. /\ ctl' \in Ctls /\ Control' /\ Returns(FALSE)
    BY <1>3, <1>0, Types, ReturnMoves
  <2> QED BY <1>0, <1>3, <2>1, Types DEF Typed, TypeOK
<1>4. CASE /\ ~ctl.ok /\ Return(FALSE) /\ session' = "active" /\ Fails
           /\ UNCHANGED <<desk, was, disk, st>>
  <2>1. Failed
    BY <1>4, FailsLeft
  <2>2. /\ ctl' \in Ctls /\ Control' /\ Returns(FALSE)
    BY <1>4, <1>0, Types, ReturnMoves
  <2> QED BY <1>0, <1>4, <2>1, <2>2, Types DEF Typed, TypeOK, Failed
<1> QED BY <1>1, <1>2, <1>3, <1>4

\* The steps of park.
LEMMA ParkDoes ==
  ASSUME Typed, Park
  PROVE  /\ Typed' /\ At("idle")
         /\ session = "active" /\ ctl'.at = "park" /\ Top' = "idle" /\ ctl'.op = "Park"
         /\ ctl'.from = session /\ CtlBut({"op", "from"}) /\ Afresh
         /\ UNCHANGED <<desk, was, disk, st, session>>
<1>0. At("idle")
  BY DEF Park, Begin
<1>1. /\ session = "active"
      /\ ctl' = [ctl EXCEPT !.at = "park", !.stack = <<"idle">>, !.op = "Park", !.from = session]
      /\ left' = [left EXCEPT !.clean = TRUE] /\ UNCHANGED <<desk, was, disk, st, session>>
  BY DEF Park, Begin
<1>2. left' \in Lefts /\ Afresh
  BY <1>1, Types DEF Lefts, Afresh
<1>3. Awaits("park", "idle") /\ Serves("park", "Park") /\ "Park" \in Ops
  BY Groups, Servings DEF ParkLabels, Below, Waits, RestoreTops, MuteTops, UnmuteTops, FinishTops, Ops
<1>4. <<"idle">> \in Seq(Labels)
  BY LabelNames
<1>5. /\ ctl' \in Ctls /\ ctl'.stack = <<"idle">> /\ ctl'.at = "park" /\ ctl'.op = "Park"
        /\ ctl'.from = session /\ CtlBut({"op", "from"})
  BY <1>1, <1>4, <1>3, Types, LabelNames DEF Ctls, CtlBut
<1>6. /\ Control' /\ Top' = "idle"
  BY <1>5, <1>3, LabelNames, BeginMoves DEF Special
<1> QED BY <1>0, <1>1, <1>2, <1>3, <1>4, <1>5, <1>6, Types DEF Typed, TypeOK, Afresh

LEMMA ParkDiscoverDoes ==
  ASSUME Typed, ParkDiscover
  PROVE  /\ Typed' /\ At("park")
         /\ \/ /\ Goes("no") /\ Failed /\ UNCHANGED <<desk, was, disk, st, session>>
            \/ /\ desk.inside = {} /\ ctl'.at = "parkRestore" /\ Top' = Top /\ ctl'.kept = st
               /\ CtlBut({"kept"}) /\ st'.games = desk.inside /\ StBut({"games"}) /\ disk' = st'
               /\ UNCHANGED <<desk, was, session, left>>
            \/ /\ desk.inside # {} /\ ctl'.at = "mute" /\ Top' = "parkMuted" /\ ctl'.kept = st
               /\ CtlBut({"kept"}) /\ st'.games = desk.inside /\ StBut({"games"}) /\ disk' = st'
               /\ UNCHANGED <<desk, was, session, left>>
<1>0. ~At("idle") /\ At("park") /\ Awaits("park", Top) /\ Serves("park", ctl.op) /\ ctl.op \in Ops /\ Top \in Labels
  BY Running DEF ParkDiscover, At
<1>1. \/ /\ To("no") /\ Fails /\ UNCHANGED <<desk, was, disk, st, session>>
      \/ /\ desk.inside = {} /\ ctl' = [ctl EXCEPT !.at = "parkRestore", !.kept = st]
         /\ st' = [st EXCEPT !.games = desk.inside, !.phase = "retained"] /\ disk' = st'
         /\ UNCHANGED <<desk, was, session, left>>
      \/ /\ desk.inside # {}
         /\ ctl' = [ctl EXCEPT !.at = "mute", !.stack = <<"parkMuted">> \o @, !.kept = st]
         /\ st' = [st EXCEPT !.games = desk.inside, !.phase = "retained"] /\ disk' = st'
         /\ UNCHANGED <<desk, was, session, left>>
  BY Types DEF Records, ParkDiscover, Saves, Works
<1>2. CASE /\ To("no") /\ Fails /\ UNCHANGED <<desk, was, disk, st, session>>
  <2>1. Failed
    BY <1>2, FailsLeft
  <2>2. Awaits("no", Top) /\ Serves("no", ctl.op)
    BY <1>0, Groups, Servings DEF ParkLabels, Below, Waits, RestoreTops, MuteTops, UnmuteTops, FinishTops
  <2>3. /\ ctl' \in Ctls /\ Control' /\ Goes("no")
    BY <1>2, <1>0, <2>2, ToMoves, LabelNames DEF Special
  <2> QED BY <1>0, <1>2, <2>1, <2>2, <2>3, Types DEF Typed, TypeOK, Failed
<1>3. CASE /\ desk.inside = {} /\ ctl' = [ctl EXCEPT !.at = "parkRestore", !.kept = st]
           /\ st' = [st EXCEPT !.games = desk.inside, !.phase = "retained"] /\ disk' = st'
           /\ UNCHANGED <<desk, was, session, left>>
  <2>1. (desk.inside) \in SUBSET Games
    BY <1>3, Types, Fields, DeskFields
  <2>2. /\ st' \in Records /\ st'.games = desk.inside /\ StBut({"games"})
    BY <1>3, Types, <2>1 DEF Records, StBut
  <2>3. /\ ctl' \in Ctls /\ ctl'.at = "parkRestore" /\ ctl'.stack = ctl.stack /\ ctl'.kept = st
          /\ CtlBut({"kept"})
    BY <1>3, Types, Fields, LabelNames DEF Ctls, CtlBut
  <2>4. Held' /\ ctl'.op = ctl.op
    BY <1>3, <2>3, Types DEF Held, CtlBut, Typed, Control, At
  <2>5. Awaits("parkRestore", Top) /\ Serves("parkRestore", ctl.op)
    BY <1>0, Groups, Servings DEF ParkLabels
  <2>6. Top' = Top /\ Control'
    BY <2>3, <2>4, <2>5, <1>0, EditMoves, LabelNames
  <2> QED BY <1>0, <1>3, <2>1, <2>2, <2>3, <2>4, <2>5, <2>6, Types DEF Typed, TypeOK
<1>4. CASE /\ desk.inside # {}
           /\ ctl' = [ctl EXCEPT !.at = "mute", !.stack = <<"parkMuted">> \o @, !.kept = st]
           /\ st' = [st EXCEPT !.games = desk.inside, !.phase = "retained"] /\ disk' = st'
           /\ UNCHANGED <<desk, was, session, left>>
  <2>1. (desk.inside) \in SUBSET Games
    BY <1>4, Types, Fields, DeskFields
  <2>2. /\ st' \in Records /\ st'.games = desk.inside /\ StBut({"games"})
    BY <1>4, Types, <2>1 DEF Records, StBut
  <2>3. <<"parkMuted">> \o ctl.stack \in Seq(Labels)
    BY Types, LabelNames
  <2>4. /\ ctl' \in Ctls /\ ctl'.at = "mute" /\ ctl'.stack = <<"parkMuted">> \o ctl.stack
          /\ ctl'.kept = st /\ CtlBut({"kept"})
    BY <1>4, Types, Fields, LabelNames, <2>3 DEF Ctls, CtlBut
  <2>5. Held' /\ ctl'.op = ctl.op
    BY <1>4, <2>4, Types DEF Held, CtlBut, Typed, Control, At
  <2>6. Below("parkMuted", Top) /\ Waits("parkMuted", ctl.op) /\ Awaits("mute", "parkMuted") /\ Serves("mute", ctl.op)
    BY <1>0, Groups, Servings DEF MuteLabels, ParkLabels, Below, Waits, RestoreTops, MuteTops, UnmuteTops, FinishTops
  <2>7. Top' = "parkMuted" /\ Control'
    BY <2>4, <2>5, <2>6, <1>0, PushMoves, LabelNames
  <2> QED BY <1>0, <1>4, <2>1, <2>2, <2>3, <2>4, <2>5, <2>6, <2>7, Types DEF Typed, TypeOK
<1> QED BY <1>1, <1>2, <1>3, <1>4

LEMMA ParkMutedDoes ==
  ASSUME Typed, ParkMuted
  PROVE  /\ Typed' /\ At("parkMuted")
         /\ \/ /\ ctl.ok /\ Goes("parkRestore") /\ UNCHANGED <<desk, was, disk, st, session, left>>
            \/ /\ ~ctl.ok /\ Calls("unmute", "parkUnmuted")
               /\ UNCHANGED <<desk, was, disk, st, session, left>>
<1>0. ~At("idle") /\ At("parkMuted") /\ Awaits("parkMuted", Top) /\ Serves("parkMuted", ctl.op) /\ ctl.op \in Ops /\ Top \in Labels
  BY Running DEF ParkMuted, At
<1>1. \/ /\ ctl.ok /\ To("parkRestore") /\ UNCHANGED <<desk, was, disk, st, session, left>>
      \/ /\ ~ctl.ok /\ Call("unmute", "parkUnmuted")
         /\ UNCHANGED <<desk, was, disk, st, session, left>>
  BY DEF ParkMuted
<1>2. CASE /\ ctl.ok /\ To("parkRestore") /\ UNCHANGED <<desk, was, disk, st, session, left>>
  <2>1. Awaits("parkRestore", Top) /\ Serves("parkRestore", ctl.op)
    BY <1>0, Groups, Servings DEF ParkLabels
  <2>2. /\ ctl' \in Ctls /\ Control' /\ Goes("parkRestore")
    BY <1>2, <1>0, <2>1, ToMoves, LabelNames DEF Special
  <2> QED BY <1>0, <1>2, <2>1, <2>2, Types DEF Typed, TypeOK
<1>3. CASE /\ ~ctl.ok /\ Call("unmute", "parkUnmuted")
           /\ UNCHANGED <<desk, was, disk, st, session, left>>
  <2>1. Below("parkUnmuted", Top) /\ Waits("parkUnmuted", ctl.op) /\ Awaits("unmute", "parkUnmuted") /\ Serves("unmute", ctl.op)
    BY <1>0, Groups, Servings DEF ParkLabels, UnmuteLabels, Below, Waits, RestoreTops, MuteTops, UnmuteTops, FinishTops
  <2>2. /\ ctl' \in Ctls /\ Control' /\ Calls("unmute", "parkUnmuted")
    BY <1>3, <1>0, <2>1, CallMoves, LabelNames DEF Special
  <2> QED BY <1>0, <1>3, <2>1, <2>2, Types DEF Typed, TypeOK
<1> QED BY <1>1, <1>2, <1>3

LEMMA ParkUnmutedDoes ==
  ASSUME Typed, ParkUnmuted
  PROVE  /\ Typed' /\ At("parkUnmuted")
         /\ \/ /\ ctl.ok /\ Returns(FALSE) /\ st' = ctl.kept /\ disk' = ctl.kept
               /\ UNCHANGED <<desk, was, session, left>>
            \/ /\ ctl.ok /\ Returns(FALSE) /\ st' = ctl.kept /\ Failed
               /\ UNCHANGED <<desk, was, disk, session>>
            \/ /\ ~ctl.ok /\ Returns(FALSE) /\ UNCHANGED <<desk, was, disk, st, session, left>>
<1>0. ~At("idle") /\ At("parkUnmuted")
  BY DEF ParkUnmuted, At
<1>1. \/ /\ ctl.ok /\ Return(FALSE) /\ st' = ctl.kept /\ disk' = ctl.kept
         /\ UNCHANGED <<desk, was, session, left>>
      \/ /\ ctl.ok /\ Return(FALSE) /\ st' = ctl.kept /\ Fails
         /\ UNCHANGED <<desk, was, disk, session>>
      \/ /\ ~ctl.ok /\ Return(FALSE) /\ UNCHANGED <<desk, was, disk, st, session, left>>
  BY DEF ParkUnmuted, SavesOrNot, Saves, Works, SaveFails
<1>2. CASE /\ ctl.ok /\ Return(FALSE) /\ st' = ctl.kept /\ disk' = ctl.kept
           /\ UNCHANGED <<desk, was, session, left>>
  <2>1. st' \in Records
    BY <1>2, Types
  <2>2. /\ ctl' \in Ctls /\ Control' /\ Returns(FALSE)
    BY <1>2, <1>0, Types, ReturnMoves
  <2> QED BY <1>0, <1>2, <2>1, <2>2, Types DEF Typed, TypeOK
<1>3. CASE /\ ctl.ok /\ Return(FALSE) /\ st' = ctl.kept /\ Fails
           /\ UNCHANGED <<desk, was, disk, session>>
  <2>1. st' \in Records
    BY <1>3, Types
  <2>2. Failed
    BY <1>3, FailsLeft
  <2>3. /\ ctl' \in Ctls /\ Control' /\ Returns(FALSE)
    BY <1>3, <1>0, Types, ReturnMoves
  <2> QED BY <1>0, <1>3, <2>1, <2>2, <2>3, Types DEF Typed, TypeOK, Failed
<1>4. CASE /\ ~ctl.ok /\ Return(FALSE) /\ UNCHANGED <<desk, was, disk, st, session, left>>
  <2>1. /\ ctl' \in Ctls /\ Control' /\ Returns(FALSE)
    BY <1>4, <1>0, Types, ReturnMoves
  <2> QED BY <1>0, <1>4, <2>1, Types DEF Typed, TypeOK
<1> QED BY <1>1, <1>2, <1>3, <1>4

LEMMA ParkRestoreDoes ==
  ASSUME Typed, ParkRestore
  PROVE  /\ Typed' /\ At("parkRestore")
         /\ CallsRestore(TRUE, FALSE, "parkRestored")
         /\ UNCHANGED <<desk, was, disk, st, session, left>>
<1>0. ~At("idle") /\ At("parkRestore") /\ Awaits("parkRestore", Top) /\ Serves("parkRestore", ctl.op) /\ ctl.op \in Ops /\ Top \in Labels
  BY Running DEF ParkRestore, At
<1>1. /\ CallRestore(TRUE, FALSE, "parkRestored") /\ UNCHANGED <<desk, was, disk, st, session, left>>
  BY DEF ParkRestore
<1>2. Below("parkRestored", Top) /\ Waits("parkRestored", ctl.op) /\ "parkRestored" \in RestoreTops
  BY <1>0, Groups, Servings DEF ParkLabels, RestoreLabels, Below, Waits, RestoreTops, MuteTops, UnmuteTops, FinishTops
<1>3. /\ ctl' \in Ctls /\ Control' /\ CallsRestore(TRUE, FALSE, "parkRestored")
  BY <1>1, <1>0, <1>2, CallRestoreMoves, LabelNames, Types
<1> QED BY <1>0, <1>1, <1>2, <1>3, Types DEF Typed, TypeOK

LEMMA ParkRestoredDoes ==
  ASSUME Typed, ParkRestored
  PROVE  /\ Typed' /\ At("parkRestored")
         /\ \/ /\ ctl.ok /\ Returns(TRUE) /\ session' = "parked"
               /\ UNCHANGED <<desk, was, disk, st, left>>
            \/ /\ ~ctl.ok /\ ctl'.at = "refresh" /\ Top' = "resume" /\ CtlBut({})
               /\ session' = "parked" /\ UNCHANGED <<desk, was, disk, st, left>>
<1>0. ~At("idle") /\ At("parkRestored") /\ Awaits("parkRestored", Top) /\ Serves("parkRestored", ctl.op) /\ ctl.op \in Ops /\ Top \in Labels
  BY Running DEF ParkRestored, At
<1>1. \/ /\ ctl.ok /\ Return(TRUE) /\ session' = "parked" /\ UNCHANGED <<desk, was, disk, st, left>>
      \/ /\ ~ctl.ok
         /\ ctl' = [ctl EXCEPT !.at = "refresh", !.stack = <<"resume", "parkRolledBack">> \o @]
         /\ session' = "parked" /\ UNCHANGED <<desk, was, disk, st, left>>
  BY DEF ParkRestored
<1>2. CASE /\ ctl.ok /\ Return(TRUE) /\ session' = "parked" /\ UNCHANGED <<desk, was, disk, st, left>>
  <2>1. /\ ctl' \in Ctls /\ Control' /\ Returns(TRUE)
    BY <1>2, <1>0, Types, ReturnMoves
  <2> QED BY <1>0, <1>2, <2>1, Types DEF Typed, TypeOK
<1>3. CASE /\ ~ctl.ok
           /\ ctl' = [ctl EXCEPT !.at = "refresh", !.stack = <<"resume", "parkRolledBack">> \o @]
           /\ session' = "parked" /\ UNCHANGED <<desk, was, disk, st, left>>
  <2>1. <<"resume", "parkRolledBack">> \o ctl.stack \in Seq(Labels)
    BY Types, LabelNames
  <2>2. /\ ctl' \in Ctls /\ ctl'.at = "refresh"
          /\ ctl'.stack = <<"resume", "parkRolledBack">> \o ctl.stack /\ CtlBut({})
    BY <1>3, Types, Fields, LabelNames, <2>1 DEF Ctls, CtlBut
  <2>3. Held' /\ ctl'.op = ctl.op
    BY <1>3, <2>2, Types DEF Held, CtlBut, Typed, Control, At
  <2>4. /\ Below("parkRolledBack", Top) /\ Waits("parkRolledBack", ctl.op) /\ Below("resume", "parkRolledBack") /\ Waits("resume", ctl.op)
          /\ Awaits("refresh", "resume") /\ Serves("refresh", ctl.op)
    BY <1>0, Groups, Servings DEF ParkLabels, RefreshLabels, ResumeLabels, Below, Waits, RestoreTops, MuteTops, UnmuteTops, FinishTops
  <2>5. Top' = "resume" /\ Control'
    BY <2>2, <2>3, <2>4, <1>0, RollBackMoves, LabelNames
  <2> QED BY <1>0, <1>3, <2>1, <2>2, <2>3, <2>4, <2>5, Types DEF Typed, TypeOK
<1> QED BY <1>1, <1>2, <1>3

LEMMA ParkRolledBackDoes ==
  ASSUME Typed, ParkRolledBack
  PROVE  /\ Typed' /\ At("parkRolledBack")
         /\ \/ /\ session = "none" /\ Returns(FALSE)
               /\ UNCHANGED <<desk, was, disk, st, session, left>>
            \/ /\ session # "none" /\ Returns(FALSE) /\ disk' = st
               /\ UNCHANGED <<desk, was, st, session, left>>
            \/ /\ session # "none" /\ Returns(FALSE) /\ Failed
               /\ UNCHANGED <<desk, was, disk, st, session>>
<1>0. ~At("idle") /\ At("parkRolledBack")
  BY DEF ParkRolledBack, At
<1>1. \/ /\ session = "none" /\ Return(FALSE) /\ UNCHANGED <<desk, was, disk, st, session, left>>
      \/ /\ session # "none" /\ Return(FALSE) /\ disk' = st
         /\ UNCHANGED <<desk, was, st, session, left>>
      \/ /\ session # "none" /\ Return(FALSE) /\ Fails /\ UNCHANGED <<desk, was, disk, st, session>>
  BY DEF ParkRolledBack, SavesOrNot, Saves, Works, SaveFails
<1>2. CASE /\ session = "none" /\ Return(FALSE) /\ UNCHANGED <<desk, was, disk, st, session, left>>
  <2>1. /\ ctl' \in Ctls /\ Control' /\ Returns(FALSE)
    BY <1>2, <1>0, Types, ReturnMoves
  <2> QED BY <1>0, <1>2, <2>1, Types DEF Typed, TypeOK
<1>3. CASE /\ session # "none" /\ Return(FALSE) /\ disk' = st
           /\ UNCHANGED <<desk, was, st, session, left>>
  <2>1. /\ ctl' \in Ctls /\ Control' /\ Returns(FALSE)
    BY <1>3, <1>0, Types, ReturnMoves
  <2> QED BY <1>0, <1>3, <2>1, Types DEF Typed, TypeOK
<1>4. CASE /\ session # "none" /\ Return(FALSE) /\ Fails /\ UNCHANGED <<desk, was, disk, st, session>>
  <2>1. Failed
    BY <1>4, FailsLeft
  <2>2. /\ ctl' \in Ctls /\ Control' /\ Returns(FALSE)
    BY <1>4, <1>0, Types, ReturnMoves
  <2> QED BY <1>0, <1>4, <2>1, <2>2, Types DEF Typed, TypeOK, Failed
<1> QED BY <1>1, <1>2, <1>3, <1>4

\* The steps of refreshParked.
LEMMA RefreshParkedDoes ==
  ASSUME Typed, RefreshParked
  PROVE  /\ Typed' /\ At("idle")
         /\ session = "parked" /\ ctl'.at = "refresh" /\ Top' = "idle" /\ ctl'.op = "RefreshParked"
         /\ ctl'.from = session /\ CtlBut({"op", "from"}) /\ Afresh
         /\ UNCHANGED <<desk, was, disk, st, session>>
<1>0. At("idle")
  BY DEF RefreshParked, Begin
<1>1. /\ session = "parked"
      /\ ctl' = [ctl EXCEPT !.at = "refresh", !.stack = <<"idle">>, !.op = "RefreshParked", !.from = session]
      /\ left' = [left EXCEPT !.clean = TRUE] /\ UNCHANGED <<desk, was, disk, st, session>>
  BY DEF RefreshParked, Begin
<1>2. left' \in Lefts /\ Afresh
  BY <1>1, Types DEF Lefts, Afresh
<1>3. Awaits("refresh", "idle") /\ Serves("refresh", "RefreshParked") /\ "RefreshParked" \in Ops
  BY Groups, Servings DEF RefreshLabels, Below, Waits, RestoreTops, MuteTops, UnmuteTops, FinishTops, Ops
<1>4. <<"idle">> \in Seq(Labels)
  BY LabelNames
<1>5. /\ ctl' \in Ctls /\ ctl'.stack = <<"idle">> /\ ctl'.at = "refresh" /\ ctl'.op = "RefreshParked"
        /\ ctl'.from = session /\ CtlBut({"op", "from"})
  BY <1>1, <1>4, <1>3, Types, LabelNames DEF Ctls, CtlBut
<1>6. /\ Control' /\ Top' = "idle"
  BY <1>5, <1>3, LabelNames, BeginMoves DEF Special
<1> QED BY <1>0, <1>1, <1>2, <1>3, <1>4, <1>5, <1>6, Types DEF Typed, TypeOK, Afresh

LEMMA RefreshDiscoverDoes ==
  ASSUME Typed, RefreshDiscover
  PROVE  /\ Typed' /\ At("refresh")
         /\ \/ /\ st.ending /\ Goes("finish") /\ UNCHANGED <<desk, was, disk, st, session, left>>
            \/ /\ ~st.ending /\ Alive(st.games) = {} /\ Goes("no") /\ Failed
               /\ UNCHANGED <<desk, was, disk, st, session>>
            \/ /\ ~st.ending /\ Alive(st.games) # {} /\ Calls("finish", "no") /\ Failed
               /\ UNCHANGED <<desk, was, disk, st, session>>
            \/ /\ ~st.ending /\ Alive(st.games) \cup desk.inside = {}
               /\ Calls("unmute", "refreshHeard") /\ st'.games = {}
               /\ st'.streams = ({r \in st.streams : r.game \in desk.games})
               /\ StBut({"games", "streams"}) /\ UNCHANGED <<desk, was, disk, session, left>>
            \/ /\ ~st.ending /\ Alive(st.games) \cup desk.inside # {} /\ Goes("refreshStreams")
               /\ st'.games = Alive(st.games) \cup desk.inside /\ StBut({"games"})
               /\ UNCHANGED <<desk, was, disk, session, left>>
<1>0. ~At("idle") /\ At("refresh") /\ Awaits("refresh", Top) /\ Serves("refresh", ctl.op) /\ ctl.op \in Ops /\ Top \in Labels
  BY Running DEF RefreshDiscover, At
<1>1. \/ /\ st.ending /\ To("finish") /\ UNCHANGED <<desk, was, disk, st, session, left>>
      \/ /\ ~st.ending /\ Alive(st.games) = {} /\ To("no") /\ Fails
         /\ UNCHANGED <<desk, was, disk, st, session>>
      \/ /\ ~st.ending /\ Alive(st.games) # {} /\ Call("finish", "no") /\ Fails
         /\ UNCHANGED <<desk, was, disk, st, session>>
      \/ /\ ~st.ending /\ Alive(st.games) \cup desk.inside = {} /\ Call("unmute", "refreshHeard")
         /\ st' = [st EXCEPT !.games = {}, !.streams = {r \in @ : r.game \in desk.games}]
         /\ UNCHANGED <<desk, was, disk, session, left>>
      \/ /\ ~st.ending /\ Alive(st.games) \cup desk.inside # {} /\ To("refreshStreams")
         /\ st' = [st EXCEPT !.games = Alive(st.games) \cup desk.inside]
         /\ UNCHANGED <<desk, was, disk, session, left>>
  BY DEF RefreshDiscover, Works
<1>2. CASE /\ st.ending /\ To("finish") /\ UNCHANGED <<desk, was, disk, st, session, left>>
  <2>1. Awaits("finish", Top) /\ Serves("finish", ctl.op)
    BY <1>0, Groups, Servings DEF RefreshLabels, Below, Waits, RestoreTops, MuteTops, UnmuteTops, FinishTops
  <2>2. /\ ctl' \in Ctls /\ Control' /\ Goes("finish")
    BY <1>2, <1>0, <2>1, ToMoves, LabelNames DEF Special
  <2> QED BY <1>0, <1>2, <2>1, <2>2, Types DEF Typed, TypeOK
<1>3. CASE /\ ~st.ending /\ Alive(st.games) = {} /\ To("no") /\ Fails
           /\ UNCHANGED <<desk, was, disk, st, session>>
  <2>1. Failed
    BY <1>3, FailsLeft
  <2>2. Awaits("no", Top) /\ Serves("no", ctl.op)
    BY <1>0, Groups, Servings DEF RefreshLabels, Below, Waits, RestoreTops, MuteTops, UnmuteTops, FinishTops
  <2>3. /\ ctl' \in Ctls /\ Control' /\ Goes("no")
    BY <1>3, <1>0, <2>2, ToMoves, LabelNames DEF Special
  <2> QED BY <1>0, <1>3, <2>1, <2>2, <2>3, Types DEF Typed, TypeOK, Failed
<1>4. CASE /\ ~st.ending /\ Alive(st.games) # {} /\ Call("finish", "no") /\ Fails
           /\ UNCHANGED <<desk, was, disk, st, session>>
  <2>1. Failed
    BY <1>4, FailsLeft
  <2>2. Below("no", Top) /\ Waits("no", ctl.op) /\ Awaits("finish", "no") /\ Serves("finish", ctl.op)
    BY <1>0, Groups, Servings DEF RefreshLabels, Below, Waits, RestoreTops, MuteTops, UnmuteTops, FinishTops
  <2>3. /\ ctl' \in Ctls /\ Control' /\ Calls("finish", "no")
    BY <1>4, <1>0, <2>2, CallMoves, LabelNames DEF Special
  <2> QED BY <1>0, <1>4, <2>1, <2>2, <2>3, Types DEF Typed, TypeOK, Failed
<1>5. CASE /\ ~st.ending /\ Alive(st.games) \cup desk.inside = {} /\ Call("unmute", "refreshHeard")
           /\ st' = [st EXCEPT !.games = {}, !.streams = {r \in @ : r.game \in desk.games}]
           /\ UNCHANGED <<desk, was, disk, session, left>>
  <2>1. ({}) \in SUBSET Games
    BY <1>5, Types, Fields, DeskFields
  <2>2. ({r \in st.streams : r.game \in desk.games}) \in SUBSET Streams
    BY <1>5, Types, Fields, DeskFields DEF Streams, Typed, Control, Held, At
  <2>3. /\ st' \in Records /\ st'.games = {}
          /\ st'.streams = ({r \in st.streams : r.game \in desk.games}) /\ StBut({"games", "streams"})
    BY <1>5, Types, <2>1, <2>2 DEF Records, StBut
  <2>4. Below("refreshHeard", Top) /\ Waits("refreshHeard", ctl.op) /\ Awaits("unmute", "refreshHeard") /\ Serves("unmute", ctl.op)
    BY <1>0, Groups, Servings DEF RefreshLabels, UnmuteLabels, Below, Waits, RestoreTops, MuteTops, UnmuteTops, FinishTops
  <2>5. /\ ctl' \in Ctls /\ Control' /\ Calls("unmute", "refreshHeard")
    BY <1>5, <1>0, <2>4, CallMoves, LabelNames DEF Special
  <2> QED BY <1>0, <1>5, <2>1, <2>2, <2>3, <2>4, <2>5, Types DEF Typed, TypeOK
<1>6. CASE /\ ~st.ending /\ Alive(st.games) \cup desk.inside # {} /\ To("refreshStreams")
           /\ st' = [st EXCEPT !.games = Alive(st.games) \cup desk.inside]
           /\ UNCHANGED <<desk, was, disk, session, left>>
  <2>1. (Alive(st.games) \cup desk.inside) \in SUBSET Games
    BY <1>6, Types, Fields, DeskFields DEF Alive
  <2>2. /\ st' \in Records /\ st'.games = Alive(st.games) \cup desk.inside /\ StBut({"games"})
    BY <1>6, Types, <2>1 DEF Records, StBut
  <2>3. Awaits("refreshStreams", Top) /\ Serves("refreshStreams", ctl.op)
    BY <1>0, Groups, Servings DEF RefreshLabels
  <2>4. /\ ctl' \in Ctls /\ Control' /\ Goes("refreshStreams")
    BY <1>6, <1>0, <2>3, ToMoves, LabelNames DEF Special
  <2> QED BY <1>0, <1>6, <2>1, <2>2, <2>3, <2>4, Types DEF Typed, TypeOK
<1> QED BY <1>1, <1>2, <1>3, <1>4, <1>5, <1>6

LEMMA RefreshHeardDoes ==
  ASSUME Typed, RefreshHeard
  PROVE  /\ Typed' /\ At("refreshHeard")
         /\ ctl'.at = "quiet" /\ Top' = "refreshRestored" /\ ctl'.desktop = ctl.ok /\ ctl'.complete
         /\ ctl'.retained /\ ~ctl'.gone /\ CtlBut({"desktop", "complete", "retained", "gone"})
         /\ UNCHANGED <<desk, was, disk, st, session, left>>
<1>0. ~At("idle") /\ At("refreshHeard") /\ Awaits("refreshHeard", Top) /\ Serves("refreshHeard", ctl.op) /\ ctl.op \in Ops /\ Top \in Labels
  BY Running DEF RefreshHeard, At
<1>1. /\ ctl' = [ctl EXCEPT !.at = "quiet", !.stack = <<"refreshRestored">> \o @, !.desktop = ctl.ok, !.complete = TRUE, !.retained = TRUE, !.gone = FALSE]
      /\ UNCHANGED <<desk, was, disk, st, session, left>>
  BY DEF RefreshHeard
<1>2. <<"refreshRestored">> \o ctl.stack \in Seq(Labels)
  BY Types, LabelNames
<1>3. /\ ctl' \in Ctls /\ ctl'.at = "quiet" /\ ctl'.stack = <<"refreshRestored">> \o ctl.stack
        /\ ctl'.desktop = ctl.ok /\ ctl'.complete /\ ctl'.retained /\ ~ctl'.gone
        /\ CtlBut({"desktop", "complete", "retained", "gone"})
  BY <1>1, Types, Fields, LabelNames, <1>2 DEF Ctls, CtlBut
<1>4. Held' /\ ctl'.op = ctl.op
  BY <1>1, <1>3, Types DEF Held, CtlBut, Typed, Control, At
<1>5. Below("refreshRestored", Top) /\ Waits("refreshRestored", ctl.op) /\ Awaits("quiet", "refreshRestored") /\ Serves("quiet", ctl.op)
  BY <1>0, Groups, Servings DEF RefreshLabels, RestoreLabels, Below, Waits, RestoreTops, MuteTops, UnmuteTops, FinishTops
<1>6. Top' = "refreshRestored" /\ Control'
  BY <1>3, <1>4, <1>5, <1>0, PushMoves, LabelNames
<1> QED BY <1>0, <1>1, <1>2, <1>3, <1>4, <1>5, <1>6, Types DEF Typed, TypeOK

LEMMA RefreshRestoredDoes ==
  ASSUME Typed, RefreshRestored
  PROVE  /\ Typed' /\ At("refreshRestored")
         /\ \/ /\ ctl.ok /\ ctl.desktop /\ Returns(TRUE) /\ disk' = st
               /\ UNCHANGED <<desk, was, st, session, left>>
            \/ /\ ctl.ok /\ ctl.desktop /\ Returns(FALSE) /\ Failed
               /\ UNCHANGED <<desk, was, disk, st, session>>
            \/ /\ ~(ctl.ok /\ ctl.desktop) /\ Returns(FALSE)
               /\ UNCHANGED <<desk, was, disk, st, session, left>>
<1>0. ~At("idle") /\ At("refreshRestored")
  BY DEF RefreshRestored, At
<1>1. \/ /\ ctl.ok /\ ctl.desktop /\ Return(TRUE) /\ disk' = st
         /\ UNCHANGED <<desk, was, st, session, left>>
      \/ /\ ctl.ok /\ ctl.desktop /\ Return(FALSE) /\ Fails
         /\ UNCHANGED <<desk, was, disk, st, session>>
      \/ /\ ~(ctl.ok /\ ctl.desktop) /\ Return(FALSE)
         /\ UNCHANGED <<desk, was, disk, st, session, left>>
  BY DEF RefreshRestored, Saves, Works, SaveFails
<1>2. CASE /\ ctl.ok /\ ctl.desktop /\ Return(TRUE) /\ disk' = st
           /\ UNCHANGED <<desk, was, st, session, left>>
  <2>1. /\ ctl' \in Ctls /\ Control' /\ Returns(TRUE)
    BY <1>2, <1>0, Types, ReturnMoves
  <2> QED BY <1>0, <1>2, <2>1, Types DEF Typed, TypeOK
<1>3. CASE /\ ctl.ok /\ ctl.desktop /\ Return(FALSE) /\ Fails
           /\ UNCHANGED <<desk, was, disk, st, session>>
  <2>1. Failed
    BY <1>3, FailsLeft
  <2>2. /\ ctl' \in Ctls /\ Control' /\ Returns(FALSE)
    BY <1>3, <1>0, Types, ReturnMoves
  <2> QED BY <1>0, <1>3, <2>1, <2>2, Types DEF Typed, TypeOK, Failed
<1>4. CASE /\ ~(ctl.ok /\ ctl.desktop) /\ Return(FALSE)
           /\ UNCHANGED <<desk, was, disk, st, session, left>>
  <2>1. /\ ctl' \in Ctls /\ Control' /\ Returns(FALSE)
    BY <1>4, <1>0, Types, ReturnMoves
  <2> QED BY <1>0, <1>4, <2>1, Types DEF Typed, TypeOK
<1> QED BY <1>1, <1>2, <1>3, <1>4

LEMMA RefreshStreamsDoes ==
  ASSUME Typed, RefreshStreams
  PROVE  /\ Typed' /\ At("refreshStreams")
         /\ \/ /\ Calls("finish", "no") /\ Failed /\ UNCHANGED <<desk, was, disk, st, session>>
            \/ /\ Calls("mute", "refreshMuted")
               /\ st'.streams = ({q \in st.streams : q.game \in desk.games}) /\ StBut({"streams"})
               /\ disk' = st' /\ UNCHANGED <<desk, was, session, left>>
            \/ /\ Calls("finish", "no") /\ st'.streams = ({q \in st.streams : q.game \in desk.games})
               /\ StBut({"streams"}) /\ Failed /\ UNCHANGED <<desk, was, disk, session>>
<1>0. ~At("idle") /\ At("refreshStreams") /\ Awaits("refreshStreams", Top) /\ Serves("refreshStreams", ctl.op) /\ ctl.op \in Ops /\ Top \in Labels
  BY Running DEF RefreshStreams, At
<1>1. \/ /\ Call("finish", "no") /\ Fails /\ UNCHANGED <<desk, was, disk, st, session>>
      \/ /\ Call("mute", "refreshMuted")
         /\ st' = [st EXCEPT !.streams = {q \in @ : q.game \in desk.games}] /\ disk' = st'
         /\ UNCHANGED <<desk, was, session, left>>
      \/ /\ Call("finish", "no") /\ st' = [st EXCEPT !.streams = {q \in @ : q.game \in desk.games}]
         /\ Fails /\ UNCHANGED <<desk, was, disk, session>>
  BY DEF RefreshStreams, Saves, Works, SaveFails
<1>2. CASE /\ Call("finish", "no") /\ Fails /\ UNCHANGED <<desk, was, disk, st, session>>
  <2>1. Failed
    BY <1>2, FailsLeft
  <2>2. Below("no", Top) /\ Waits("no", ctl.op) /\ Awaits("finish", "no") /\ Serves("finish", ctl.op)
    BY <1>0, Groups, Servings DEF RefreshLabels, Below, Waits, RestoreTops, MuteTops, UnmuteTops, FinishTops
  <2>3. /\ ctl' \in Ctls /\ Control' /\ Calls("finish", "no")
    BY <1>2, <1>0, <2>2, CallMoves, LabelNames DEF Special
  <2> QED BY <1>0, <1>2, <2>1, <2>2, <2>3, Types DEF Typed, TypeOK, Failed
<1>3. CASE /\ Call("mute", "refreshMuted")
           /\ st' = [st EXCEPT !.streams = {q \in @ : q.game \in desk.games}] /\ disk' = st'
           /\ UNCHANGED <<desk, was, session, left>>
  <2>1. ({q \in st.streams : q.game \in desk.games}) \in SUBSET Streams
    BY <1>3, Types, Fields, DeskFields DEF Streams, Typed, Control, Held, At
  <2>2. /\ st' \in Records /\ st'.streams = ({q \in st.streams : q.game \in desk.games})
          /\ StBut({"streams"})
    BY <1>3, Types, <2>1 DEF Records, StBut
  <2>3. Below("refreshMuted", Top) /\ Waits("refreshMuted", ctl.op) /\ Awaits("mute", "refreshMuted") /\ Serves("mute", ctl.op)
    BY <1>0, Groups, Servings DEF MuteLabels, RefreshLabels, Below, Waits, RestoreTops, MuteTops, UnmuteTops, FinishTops
  <2>4. /\ ctl' \in Ctls /\ Control' /\ Calls("mute", "refreshMuted")
    BY <1>3, <1>0, <2>3, CallMoves, LabelNames DEF Special
  <2> QED BY <1>0, <1>3, <2>1, <2>2, <2>3, <2>4, Types DEF Typed, TypeOK
<1>4. CASE /\ Call("finish", "no") /\ st' = [st EXCEPT !.streams = {q \in @ : q.game \in desk.games}]
           /\ Fails /\ UNCHANGED <<desk, was, disk, session>>
  <2>1. ({q \in st.streams : q.game \in desk.games}) \in SUBSET Streams
    BY <1>4, Types, Fields, DeskFields DEF Streams, Typed, Control, Held, At
  <2>2. /\ st' \in Records /\ st'.streams = ({q \in st.streams : q.game \in desk.games})
          /\ StBut({"streams"})
    BY <1>4, Types, <2>1 DEF Records, StBut
  <2>3. Failed
    BY <1>4, FailsLeft
  <2>4. Below("no", Top) /\ Waits("no", ctl.op) /\ Awaits("finish", "no") /\ Serves("finish", ctl.op)
    BY <1>0, Groups, Servings DEF RefreshLabels, Below, Waits, RestoreTops, MuteTops, UnmuteTops, FinishTops
  <2>5. /\ ctl' \in Ctls /\ Control' /\ Calls("finish", "no")
    BY <1>4, <1>0, <2>4, CallMoves, LabelNames DEF Special
  <2> QED BY <1>0, <1>4, <2>1, <2>2, <2>3, <2>4, <2>5, Types DEF Typed, TypeOK, Failed
<1> QED BY <1>1, <1>2, <1>3, <1>4

LEMMA RefreshMutedDoes ==
  ASSUME Typed, RefreshMuted
  PROVE  /\ Typed' /\ At("refreshMuted")
         /\ \/ /\ ctl.ok /\ Returns(TRUE) /\ UNCHANGED <<desk, was, disk, st, session, left>>
            \/ /\ ~ctl.ok /\ Calls("finish", "no") /\ UNCHANGED <<desk, was, disk, st, session, left>>
<1>0. ~At("idle") /\ At("refreshMuted") /\ Awaits("refreshMuted", Top) /\ Serves("refreshMuted", ctl.op) /\ ctl.op \in Ops /\ Top \in Labels
  BY Running DEF RefreshMuted, At
<1>1. \/ /\ ctl.ok /\ Return(TRUE) /\ UNCHANGED <<desk, was, disk, st, session, left>>
      \/ /\ ~ctl.ok /\ Call("finish", "no") /\ UNCHANGED <<desk, was, disk, st, session, left>>
  BY DEF RefreshMuted
<1>2. CASE /\ ctl.ok /\ Return(TRUE) /\ UNCHANGED <<desk, was, disk, st, session, left>>
  <2>1. /\ ctl' \in Ctls /\ Control' /\ Returns(TRUE)
    BY <1>2, <1>0, Types, ReturnMoves
  <2> QED BY <1>0, <1>2, <2>1, Types DEF Typed, TypeOK
<1>3. CASE /\ ~ctl.ok /\ Call("finish", "no") /\ UNCHANGED <<desk, was, disk, st, session, left>>
  <2>1. Below("no", Top) /\ Waits("no", ctl.op) /\ Awaits("finish", "no") /\ Serves("finish", ctl.op)
    BY <1>0, Groups, Servings DEF RefreshLabels, Below, Waits, RestoreTops, MuteTops, UnmuteTops, FinishTops
  <2>2. /\ ctl' \in Ctls /\ Control' /\ Calls("finish", "no")
    BY <1>3, <1>0, <2>1, CallMoves, LabelNames DEF Special
  <2> QED BY <1>0, <1>3, <2>1, <2>2, Types DEF Typed, TypeOK
<1> QED BY <1>1, <1>2, <1>3

\* The steps of resume.
LEMMA ResumeDoes ==
  ASSUME Typed, Resume
  PROVE  /\ Typed' /\ At("idle")
         /\ session = "parked" /\ ctl'.at = "refresh" /\ Top' = "resume" /\ ctl'.op = "Resume"
         /\ ctl'.from = session /\ CtlBut({"op", "from"}) /\ Afresh
         /\ UNCHANGED <<desk, was, disk, st, session>>
<1>0. At("idle")
  BY DEF Resume
<1>1. /\ session = "parked"
      /\ ctl' = [ctl EXCEPT !.at = "refresh", !.stack = <<"resume", "idle">>, !.op = "Resume", !.from = session]
      /\ left' = [left EXCEPT !.clean = TRUE] /\ UNCHANGED <<desk, was, disk, st, session>>
  BY DEF Resume
<1>2. left' \in Lefts /\ Afresh
  BY <1>1, Types DEF Lefts, Afresh
<1>3. Below("resume", "idle") /\ Waits("resume", "Resume") /\ Awaits("refresh", "resume") /\ Serves("refresh", "Resume") /\ "Resume" \in Ops
  BY Groups, Servings DEF RefreshLabels, ResumeLabels, Below, Waits, RestoreTops, MuteTops, UnmuteTops, FinishTops, Ops
<1>4. <<"resume", "idle">> \in Seq(Labels)
  BY LabelNames
<1>5. /\ ctl' \in Ctls /\ ctl'.stack = <<"resume", "idle">> /\ ctl'.at = "refresh"
        /\ ctl'.op = "Resume" /\ ctl'.from = session /\ CtlBut({"op", "from"})
  BY <1>1, <1>4, <1>3, Types, LabelNames DEF Ctls, CtlBut
<1>6. /\ Control' /\ Top' = "resume"
  BY <1>5, <1>3, LabelNames, BeginCallMoves DEF Special
<1> QED BY <1>0, <1>1, <1>2, <1>3, <1>4, <1>5, <1>6, Types DEF Typed, TypeOK, Afresh

LEMMA ResumeCaptureDoes ==
  ASSUME Typed, ResumeCapture
  PROVE  /\ Typed' /\ At("resume")
         /\ \/ /\ (~ctl.ok \/ session # "parked") /\ Returns(ctl.ok)
               /\ UNCHANGED <<desk, was, disk, st, session, left>>
            \/ /\ ctl.ok /\ session = "parked" /\ Returns(FALSE) /\ Failed
               /\ UNCHANGED <<desk, was, disk, st, session>>
            \/ /\ ctl.ok /\ session = "parked" /\ ctl.want.output \notin desk.plugged /\ Returns(FALSE)
               /\ UNCHANGED <<desk, was, disk, st, session, left>>
            \/ /\ ctl.ok /\ session = "parked" /\ ctl.want.output \in desk.plugged
               /\ ctl'.at = "resumeRecord" /\ Top' = Top /\ ctl'.kept = st /\ CtlBut({"kept"})
               /\ st'.output = ctl.want.output
               /\ (st'.lit = (st.lit \/ ctl.want.output \notin desk.on)) /\ StBut({"output", "lit"})
               /\ UNCHANGED <<desk, was, disk, session, left>>
<1>0. ~At("idle") /\ At("resume") /\ Awaits("resume", Top) /\ Serves("resume", ctl.op) /\ ctl.op \in Ops /\ Top \in Labels
  BY Running DEF ResumeCapture, At
<1>1. \/ /\ (~ctl.ok \/ session # "parked") /\ Return(ctl.ok)
         /\ UNCHANGED <<desk, was, disk, st, session, left>>
      \/ /\ ctl.ok /\ session = "parked" /\ Return(FALSE) /\ Fails
         /\ UNCHANGED <<desk, was, disk, st, session>>
      \/ /\ ctl.ok /\ session = "parked" /\ ctl.want.output \notin desk.plugged /\ Return(FALSE)
         /\ UNCHANGED <<desk, was, disk, st, session, left>>
      \/ /\ ctl.ok /\ session = "parked" /\ ctl.want.output \in desk.plugged
         /\ ctl' = [ctl EXCEPT !.at = "resumeRecord", !.kept = st]
         /\ (st' = [st EXCEPT !.output = ctl.want.output, !.lit = @ \/ ctl.want.output \notin desk.on, !.phase = "retained"])
         /\ UNCHANGED <<desk, was, disk, session, left>>
  BY DEF ResumeCapture, Works
<1>2. CASE /\ (~ctl.ok \/ session # "parked") /\ Return(ctl.ok)
           /\ UNCHANGED <<desk, was, disk, st, session, left>>
  <2>1. /\ ctl' \in Ctls /\ Control' /\ Returns(ctl.ok)
    BY <1>2, <1>0, Types, ReturnMoves
  <2> QED BY <1>0, <1>2, <2>1, Types DEF Typed, TypeOK
<1>3. CASE /\ ctl.ok /\ session = "parked" /\ Return(FALSE) /\ Fails
           /\ UNCHANGED <<desk, was, disk, st, session>>
  <2>1. Failed
    BY <1>3, FailsLeft
  <2>2. /\ ctl' \in Ctls /\ Control' /\ Returns(FALSE)
    BY <1>3, <1>0, Types, ReturnMoves
  <2> QED BY <1>0, <1>3, <2>1, <2>2, Types DEF Typed, TypeOK, Failed
<1>4. CASE /\ ctl.ok /\ session = "parked" /\ ctl.want.output \notin desk.plugged /\ Return(FALSE)
           /\ UNCHANGED <<desk, was, disk, st, session, left>>
  <2>1. /\ ctl' \in Ctls /\ Control' /\ Returns(FALSE)
    BY <1>4, <1>0, Types, ReturnMoves
  <2> QED BY <1>0, <1>4, <2>1, Types DEF Typed, TypeOK
<1>5. CASE /\ ctl.ok /\ session = "parked" /\ ctl.want.output \in desk.plugged
           /\ ctl' = [ctl EXCEPT !.at = "resumeRecord", !.kept = st]
           /\ (st' = [st EXCEPT !.output = ctl.want.output, !.lit = @ \/ ctl.want.output \notin desk.on, !.phase = "retained"])
           /\ UNCHANGED <<desk, was, disk, session, left>>
  <2>1. /\ st' \in Records /\ st'.output = ctl.want.output
          /\ (st'.lit = (st.lit \/ ctl.want.output \notin desk.on)) /\ StBut({"output", "lit"})
    BY <1>5, Types, KindFields DEF Records, StBut
  <2>2. /\ ctl' \in Ctls /\ ctl'.at = "resumeRecord" /\ ctl'.stack = ctl.stack /\ ctl'.kept = st
          /\ CtlBut({"kept"})
    BY <1>5, Types, Fields, LabelNames DEF Ctls, CtlBut
  <2>3. Held' /\ ctl'.op = ctl.op
    BY <1>5, <2>2, Types DEF Held, CtlBut, Typed, Control, At
  <2>4. Awaits("resumeRecord", Top) /\ Serves("resumeRecord", ctl.op)
    BY <1>0, Groups, Servings DEF ResumeLabels
  <2>5. Top' = Top /\ Control'
    BY <2>2, <2>3, <2>4, <1>0, EditMoves, LabelNames
  <2> QED BY <1>0, <1>5, <2>1, <2>2, <2>3, <2>4, <2>5, Types DEF Typed, TypeOK
<1> QED BY <1>1, <1>2, <1>3, <1>4, <1>5

LEMMA ResumeRecordDoes ==
  ASSUME Typed, ResumeRecord
  PROVE  /\ Typed' /\ At("resumeRecord")
         /\ \/ /\ st.lit /\ Goes("resumeLight") /\ disk' = st
               /\ UNCHANGED <<desk, was, st, session, left>>
            \/ /\ ~st.lit /\ Goes("resumeSink") /\ disk' = st
               /\ UNCHANGED <<desk, was, st, session, left>>
            \/ /\ Goes("no") /\ st' = ctl.kept /\ Failed /\ UNCHANGED <<desk, was, disk, session>>
<1>0. ~At("idle") /\ At("resumeRecord") /\ Awaits("resumeRecord", Top) /\ Serves("resumeRecord", ctl.op) /\ ctl.op \in Ops /\ Top \in Labels
  BY Running DEF ResumeRecord, At
<1>1. \/ /\ st.lit /\ To("resumeLight") /\ disk' = st /\ UNCHANGED <<desk, was, st, session, left>>
      \/ /\ ~st.lit /\ To("resumeSink") /\ disk' = st /\ UNCHANGED <<desk, was, st, session, left>>
      \/ /\ To("no") /\ st' = ctl.kept /\ Fails /\ UNCHANGED <<desk, was, disk, session>>
  BY DEF ResumeRecord, SaveThen, Saves, Works, SaveFails
<1>2. CASE /\ st.lit /\ To("resumeLight") /\ disk' = st /\ UNCHANGED <<desk, was, st, session, left>>
  BY <1>0, <1>2, SameMethod, Types DEF Special, At, ResumeLabels, Typed, TypeOK
<1>3. CASE /\ ~st.lit /\ To("resumeSink") /\ disk' = st /\ UNCHANGED <<desk, was, st, session, left>>
  BY <1>0, <1>3, SameMethod, Types DEF Special, At, ResumeLabels, Typed, TypeOK
<1>4. CASE /\ To("no") /\ st' = ctl.kept /\ Fails /\ UNCHANGED <<desk, was, disk, session>>
  <2>1. st' \in Records
    BY <1>4, Types
  <2>2. Failed
    BY <1>4, FailsLeft
  <2>3. Awaits("no", Top) /\ Serves("no", ctl.op)
    BY <1>0, Groups, Servings DEF ResumeLabels, Below, Waits, RestoreTops, MuteTops, UnmuteTops, FinishTops
  <2>4. /\ ctl' \in Ctls /\ Control' /\ Goes("no")
    BY <1>4, <1>0, <2>3, ToMoves, LabelNames DEF Special
  <2> QED BY <1>0, <1>4, <2>1, <2>2, <2>3, <2>4, Types DEF Typed, TypeOK, Failed
<1> QED BY <1>1, <1>2, <1>3, <1>4

LEMMA ResumeLightDoes ==
  ASSUME Typed, ResumeLight
  PROVE  /\ Typed' /\ At("resumeLight")
         /\ \/ /\ st.output \in desk.plugged /\ Goes("resumeSink")
               /\ desk'.on = desk.on \cup {st.output} /\ DeskBut({"on"})
               /\ UNCHANGED <<was, disk, st, session, left>>
            \/ /\ st.output \in desk.plugged /\ Goes("resumeFail") /\ Failed
               /\ UNCHANGED <<desk, was, disk, st, session>>
            \/ /\ st.output \in desk.plugged /\ Goes("resumeFail")
               /\ desk'.on = desk.on \cup {st.output} /\ DeskBut({"on"}) /\ Failed
               /\ UNCHANGED <<was, disk, st, session>>
            \/ /\ ~(st.output \in desk.plugged) /\ Goes("resumeFail")
               /\ UNCHANGED <<desk, was, disk, st, session, left>>
<1>0. ~At("idle") /\ At("resumeLight")
  BY DEF ResumeLight, At
<1>1. \/ /\ st.output \in desk.plugged /\ To("resumeSink")
         /\ desk' = [desk EXCEPT !.on = @ \cup {st.output}]
         /\ UNCHANGED <<was, disk, st, session, left>>
      \/ /\ st.output \in desk.plugged /\ To("resumeFail") /\ Fails
         /\ UNCHANGED <<desk, was, disk, st, session>>
      \/ /\ st.output \in desk.plugged /\ To("resumeFail")
         /\ desk' = [desk EXCEPT !.on = @ \cup {st.output}] /\ Fails
         /\ UNCHANGED <<was, disk, st, session>>
      \/ /\ ~(st.output \in desk.plugged) /\ To("resumeFail")
         /\ UNCHANGED <<desk, was, disk, st, session, left>>
  BY DEF ResumeLight, LightOutput, ChangesIf, ChangesLate, Changes, Works
<1>2. CASE /\ st.output \in desk.plugged /\ To("resumeSink")
           /\ desk' = [desk EXCEPT !.on = @ \cup {st.output}]
           /\ UNCHANGED <<was, disk, st, session, left>>
  <2>1. /\ desk' \in Desks /\ desk'.on = desk.on \cup {st.output} /\ DeskBut({"on"})
    BY <1>2, Types, Fields DEF Desks, DeskBut
  <2>2. ctl' \in Ctls /\ Control' /\ Goes("resumeSink")
    BY <1>0, <1>2, SameMethod DEF Special, At, ResumeLabels
  <2> QED BY <1>0, <1>2, <2>1, <2>2, Types DEF Typed, TypeOK
<1>3. CASE /\ st.output \in desk.plugged /\ To("resumeFail") /\ Fails
           /\ UNCHANGED <<desk, was, disk, st, session>>
  <2>1. Failed
    BY <1>3, FailsLeft
  <2>2. ctl' \in Ctls /\ Control' /\ Goes("resumeFail")
    BY <1>0, <1>3, SameMethod DEF Special, At, ResumeLabels
  <2> QED BY <1>0, <1>3, <2>1, <2>2, Types DEF Typed, TypeOK, Failed
<1>4. CASE /\ st.output \in desk.plugged /\ To("resumeFail")
           /\ desk' = [desk EXCEPT !.on = @ \cup {st.output}] /\ Fails
           /\ UNCHANGED <<was, disk, st, session>>
  <2>1. /\ desk' \in Desks /\ desk'.on = desk.on \cup {st.output} /\ DeskBut({"on"})
    BY <1>4, Types, Fields DEF Desks, DeskBut
  <2>2. Failed
    BY <1>4, FailsLeft
  <2>3. ctl' \in Ctls /\ Control' /\ Goes("resumeFail")
    BY <1>0, <1>4, SameMethod DEF Special, At, ResumeLabels
  <2> QED BY <1>0, <1>4, <2>1, <2>2, <2>3, Types DEF Typed, TypeOK, Failed
<1>5. CASE /\ ~(st.output \in desk.plugged) /\ To("resumeFail")
           /\ UNCHANGED <<desk, was, disk, st, session, left>>
  BY <1>0, <1>5, SameMethod, Types DEF Special, At, ResumeLabels, Typed, TypeOK
<1> QED BY <1>1, <1>2, <1>3, <1>4, <1>5

LEMMA ResumeSinkDoes ==
  ASSUME Typed, ResumeSink
  PROVE  /\ Typed' /\ At("resumeSink")
         /\ \/ /\ SinkAsWanted /\ Goes("resumeWindow")
               /\ UNCHANGED <<desk, was, disk, st, session, left>>
            \/ /\ Goes("resumeFail") /\ UNCHANGED <<desk, was, disk, st, session, left>>
            \/ /\ ~SinkAsWanted /\ SinkThere /\ Goes("resumeSetSink")
               /\ st'.prev = desk.sink /\ st'.sink = ctl.want.sink /\ StBut({"prev", "sink"})
               /\ disk' = st' /\ UNCHANGED <<desk, was, session, left>>
            \/ /\ ~SinkAsWanted /\ SinkThere /\ Goes("resumeFail")
               /\ st'.prev = desk.sink /\ st'.sink = ctl.want.sink /\ StBut({"prev", "sink"}) /\ Failed
               /\ UNCHANGED <<desk, was, disk, session>>
<1>0. ~At("idle") /\ At("resumeSink")
  BY DEF ResumeSink, At
<1>1. \/ /\ SinkAsWanted /\ To("resumeWindow")
         /\ UNCHANGED <<desk, was, disk, st, session, left>>
      \/ To("resumeFail") /\ UNCHANGED <<desk, was, disk, st, session, left>>
      \/ /\ ~SinkAsWanted /\ SinkThere /\ To("resumeSetSink") /\ st' = Sunk
         /\ disk' = st' /\ UNCHANGED <<desk, was, session, left>>
      \/ /\ ~SinkAsWanted /\ SinkThere /\ To("resumeFail") /\ st' = Sunk /\ Fails
         /\ UNCHANGED <<desk, was, disk, session>>
  BY DEF ResumeSink, SaveThen, Saves, Works, SaveFails
<1>2. CASE /\ SinkAsWanted /\ To("resumeWindow")
           /\ UNCHANGED <<desk, was, disk, st, session, left>>
  BY <1>0, <1>2, SameMethod, Types DEF Special, At, ResumeLabels, Typed, TypeOK
<1>3. CASE /\ ~SinkAsWanted /\ SinkThere /\ To("resumeSetSink") /\ st' = Sunk
           /\ disk' = st' /\ UNCHANGED <<desk, was, session, left>>
  <2>1. /\ st' \in Records
          /\ st'.prev = desk.sink /\ st'.sink = ctl.want.sink /\ StBut({"prev", "sink"})
    BY <1>3, Types, KindFields, DeskFields DEF Records, Sunk, StBut
  <2>2. ctl' \in Ctls /\ Control' /\ Goes("resumeSetSink")
    BY <1>0, <1>3, SameMethod DEF Special, At, ResumeLabels
  <2> QED BY <1>0, <1>3, <2>1, <2>2, Types DEF Typed, TypeOK
<1>4. CASE /\ ~SinkAsWanted /\ SinkThere /\ To("resumeFail") /\ st' = Sunk /\ Fails
           /\ UNCHANGED <<desk, was, disk, session>>
  <2>1. /\ st' \in Records
          /\ st'.prev = desk.sink /\ st'.sink = ctl.want.sink /\ StBut({"prev", "sink"})
    BY <1>4, Types, KindFields, DeskFields DEF Records, Sunk, StBut
  <2>2. Failed
    BY <1>4, FailsLeft
  <2>3. ctl' \in Ctls /\ Control' /\ Goes("resumeFail")
    BY <1>0, <1>4, SameMethod DEF Special, At, ResumeLabels
  <2> QED BY <1>0, <1>4, <2>1, <2>2, <2>3, Types DEF Typed, TypeOK, Failed
<1>5. CASE To("resumeFail") /\ UNCHANGED <<desk, was, disk, st, session, left>>
  BY <1>0, <1>5, SameMethod, Types DEF Special, At, ResumeLabels, Typed, TypeOK
<1> QED BY <1>1, <1>2, <1>3, <1>4, <1>5

LEMMA ResumeSetSinkDoes ==
  ASSUME Typed, ResumeSetSink
  PROVE  /\ Typed' /\ At("resumeSetSink")
         /\ \/ /\ Goes("resumeWindow") /\ st.sink \in desk.sinks /\ desk'.sink = st.sink /\ DeskBut({"sink"})
               /\ UNCHANGED <<was, disk, st, session, left>>
            \/ /\ Goes("resumeFail") /\ UNCHANGED <<desk, was, disk, st, session, left>>
            \/ /\ Goes("resumeFail") /\ Failed /\ UNCHANGED <<desk, was, disk, st, session>>
<1>0. ~At("idle") /\ At("resumeSetSink")
  BY DEF ResumeSetSink, At
<1>1. \/ To("resumeFail") /\ UNCHANGED <<desk, was, disk, st, session, left>>
      \/ /\ To("resumeWindow") /\ st.sink \in desk.sinks /\ desk' = [desk EXCEPT !.sink = st.sink]
         /\ UNCHANGED <<was, disk, st, session, left>>
      \/ /\ To("resumeFail") /\ Fails /\ UNCHANGED <<desk, was, disk, st, session>>
  BY DEF ResumeSetSink, SetSink, Changes, Works
<1>2. CASE /\ To("resumeWindow") /\ st.sink \in desk.sinks /\ desk' = [desk EXCEPT !.sink = st.sink]
           /\ UNCHANGED <<was, disk, st, session, left>>
  <2>1. /\ desk' \in Desks /\ desk'.sink = st.sink /\ DeskBut({"sink"})
    BY <1>2, Types, Fields DEF Desks, DeskBut
  <2>2. ctl' \in Ctls /\ Control' /\ Goes("resumeWindow")
    BY <1>0, <1>2, SameMethod DEF Special, At, ResumeLabels
  <2> QED BY <1>0, <1>2, <2>1, <2>2, Types DEF Typed, TypeOK
<1>3. CASE /\ To("resumeFail") /\ Fails /\ UNCHANGED <<desk, was, disk, st, session>>
  <2>1. Failed
    BY <1>3, FailsLeft
  <2>2. ctl' \in Ctls /\ Control' /\ Goes("resumeFail")
    BY <1>0, <1>3, SameMethod DEF Special, At, ResumeLabels
  <2> QED BY <1>0, <1>3, <2>1, <2>2, Types DEF Typed, TypeOK, Failed
<1>4. CASE To("resumeFail") /\ UNCHANGED <<desk, was, disk, st, session, left>>
  BY <1>0, <1>4, SameMethod, Types DEF Special, At, ResumeLabels, Typed, TypeOK
<1> QED BY <1>1, <1>2, <1>3, <1>4

LEMMA ResumeWindowDoes ==
  ASSUME Typed, ResumeWindow
  PROVE  /\ Typed' /\ At("resumeWindow")
         /\ \/ /\ Goes("resumePlace") /\ st'.placed /\ StBut({"placed"}) /\ disk' = st'
               /\ UNCHANGED <<desk, was, session, left>>
            \/ /\ Goes("resumeFail") /\ st'.placed /\ StBut({"placed"}) /\ Failed
               /\ UNCHANGED <<desk, was, disk, session>>
<1>0. ~At("idle") /\ At("resumeWindow")
  BY DEF ResumeWindow, At
<1>1. \/ /\ To("resumePlace") /\ st' = Placed /\ disk' = st' /\ UNCHANGED <<desk, was, session, left>>
      \/ /\ To("resumeFail") /\ st' = Placed /\ Fails /\ UNCHANGED <<desk, was, disk, session>>
  BY DEF ResumeWindow, SaveThen, Saves, Works, SaveFails
<1>2. CASE /\ To("resumePlace") /\ st' = Placed /\ disk' = st'
           /\ UNCHANGED <<desk, was, session, left>>
  <2>1. /\ st' \in Records /\ st'.placed /\ StBut({"placed"})
    BY <1>2, Types, KindFields, DeskFields DEF Records, Placed, StBut
  <2>2. ctl' \in Ctls /\ Control' /\ Goes("resumePlace")
    BY <1>0, <1>2, SameMethod DEF Special, At, ResumeLabels
  <2> QED BY <1>0, <1>2, <2>1, <2>2, Types DEF Typed, TypeOK
<1>3. CASE /\ To("resumeFail") /\ st' = Placed /\ Fails /\ UNCHANGED <<desk, was, disk, session>>
  <2>1. /\ st' \in Records /\ st'.placed /\ StBut({"placed"})
    BY <1>3, Types, KindFields, DeskFields DEF Records, Placed, StBut
  <2>2. Failed
    BY <1>3, FailsLeft
  <2>3. ctl' \in Ctls /\ Control' /\ Goes("resumeFail")
    BY <1>0, <1>3, SameMethod DEF Special, At, ResumeLabels
  <2> QED BY <1>0, <1>3, <2>1, <2>2, <2>3, Types DEF Typed, TypeOK, Failed
<1> QED BY <1>1, <1>2, <1>3

LEMMA ResumePlaceDoes ==
  ASSUME Typed, ResumePlace
  PROVE  /\ Typed' /\ At("resumePlace")
         /\ \/ /\ st.output \in desk.on /\ Goes("resumeMove") /\ desk'.win = "session"
               /\ DeskBut({"win"}) /\ UNCHANGED <<was, disk, st, session, left>>
            \/ /\ st.output \in desk.on /\ Goes("resumeFail") /\ Failed
               /\ UNCHANGED <<desk, was, disk, st, session>>
            \/ /\ st.output \in desk.on /\ Goes("resumeFail") /\ desk'.win = "session"
               /\ DeskBut({"win"}) /\ Failed /\ UNCHANGED <<was, disk, st, session>>
            \/ /\ ~(st.output \in desk.on) /\ Goes("resumeFail")
               /\ UNCHANGED <<desk, was, disk, st, session, left>>
<1>0. ~At("idle") /\ At("resumePlace")
  BY DEF ResumePlace, At
<1>1. \/ /\ st.output \in desk.on /\ To("resumeMove") /\ desk' = [desk EXCEPT !.win = "session"]
         /\ UNCHANGED <<was, disk, st, session, left>>
      \/ /\ st.output \in desk.on /\ To("resumeFail") /\ Fails
         /\ UNCHANGED <<desk, was, disk, st, session>>
      \/ /\ st.output \in desk.on /\ To("resumeFail") /\ desk' = [desk EXCEPT !.win = "session"]
         /\ Fails /\ UNCHANGED <<was, disk, st, session>>
      \/ /\ ~(st.output \in desk.on) /\ To("resumeFail")
         /\ UNCHANGED <<desk, was, disk, st, session, left>>
  BY DEF ResumePlace, ChangesIf, ChangesLate, Changes, Works
<1>2. CASE /\ st.output \in desk.on /\ To("resumeMove") /\ desk' = [desk EXCEPT !.win = "session"]
           /\ UNCHANGED <<was, disk, st, session, left>>
  <2>1. /\ desk' \in Desks /\ desk'.win = "session" /\ DeskBut({"win"})
    BY <1>2, Types, Fields DEF Desks, DeskBut
  <2>2. ctl' \in Ctls /\ Control' /\ Goes("resumeMove")
    BY <1>0, <1>2, SameMethod DEF Special, At, ResumeLabels
  <2> QED BY <1>0, <1>2, <2>1, <2>2, Types DEF Typed, TypeOK
<1>3. CASE /\ st.output \in desk.on /\ To("resumeFail") /\ Fails
           /\ UNCHANGED <<desk, was, disk, st, session>>
  <2>1. Failed
    BY <1>3, FailsLeft
  <2>2. ctl' \in Ctls /\ Control' /\ Goes("resumeFail")
    BY <1>0, <1>3, SameMethod DEF Special, At, ResumeLabels
  <2> QED BY <1>0, <1>3, <2>1, <2>2, Types DEF Typed, TypeOK, Failed
<1>4. CASE /\ st.output \in desk.on /\ To("resumeFail") /\ desk' = [desk EXCEPT !.win = "session"]
           /\ Fails /\ UNCHANGED <<was, disk, st, session>>
  <2>1. /\ desk' \in Desks /\ desk'.win = "session" /\ DeskBut({"win"})
    BY <1>4, Types, Fields DEF Desks, DeskBut
  <2>2. Failed
    BY <1>4, FailsLeft
  <2>3. ctl' \in Ctls /\ Control' /\ Goes("resumeFail")
    BY <1>0, <1>4, SameMethod DEF Special, At, ResumeLabels
  <2> QED BY <1>0, <1>4, <2>1, <2>2, <2>3, Types DEF Typed, TypeOK, Failed
<1>5. CASE /\ ~(st.output \in desk.on) /\ To("resumeFail")
           /\ UNCHANGED <<desk, was, disk, st, session, left>>
  BY <1>0, <1>5, SameMethod, Types DEF Special, At, ResumeLabels, Typed, TypeOK
<1> QED BY <1>1, <1>2, <1>3, <1>4, <1>5

LEMMA ResumeMoveDoes ==
  ASSUME Typed, ResumeMove
  PROVE  /\ Typed' /\ At("resumeMove")
         /\ \/ /\ st.output \in desk.on /\ Goes("resumeQuiet") /\ desk'.at = st.output
               /\ DeskBut({"at"}) /\ UNCHANGED <<was, disk, st, session, left>>
            \/ /\ st.output \in desk.on /\ Goes("resumeFail") /\ Failed
               /\ UNCHANGED <<desk, was, disk, st, session>>
            \/ /\ st.output \in desk.on /\ Goes("resumeFail") /\ desk'.at = st.output
               /\ DeskBut({"at"}) /\ Failed /\ UNCHANGED <<was, disk, st, session>>
            \/ /\ ~(st.output \in desk.on) /\ Goes("resumeFail")
               /\ UNCHANGED <<desk, was, disk, st, session, left>>
<1>0. ~At("idle") /\ At("resumeMove")
  BY DEF ResumeMove, At
<1>1. \/ /\ st.output \in desk.on /\ To("resumeQuiet") /\ desk' = [desk EXCEPT !.at = st.output]
         /\ UNCHANGED <<was, disk, st, session, left>>
      \/ /\ st.output \in desk.on /\ To("resumeFail") /\ Fails
         /\ UNCHANGED <<desk, was, disk, st, session>>
      \/ /\ st.output \in desk.on /\ To("resumeFail") /\ desk' = [desk EXCEPT !.at = st.output]
         /\ Fails /\ UNCHANGED <<was, disk, st, session>>
      \/ /\ ~(st.output \in desk.on) /\ To("resumeFail")
         /\ UNCHANGED <<desk, was, disk, st, session, left>>
  BY DEF ResumeMove, ChangesIf, ChangesLate, Changes, Works
<1>2. CASE /\ st.output \in desk.on /\ To("resumeQuiet") /\ desk' = [desk EXCEPT !.at = st.output]
           /\ UNCHANGED <<was, disk, st, session, left>>
  <2>1. /\ desk' \in Desks /\ desk'.at = st.output /\ DeskBut({"at"})
    BY <1>2, Types, Fields DEF Desks, DeskBut
  <2>2. ctl' \in Ctls /\ Control' /\ Goes("resumeQuiet")
    BY <1>0, <1>2, SameMethod DEF Special, At, ResumeLabels
  <2> QED BY <1>0, <1>2, <2>1, <2>2, Types DEF Typed, TypeOK
<1>3. CASE /\ st.output \in desk.on /\ To("resumeFail") /\ Fails
           /\ UNCHANGED <<desk, was, disk, st, session>>
  <2>1. Failed
    BY <1>3, FailsLeft
  <2>2. ctl' \in Ctls /\ Control' /\ Goes("resumeFail")
    BY <1>0, <1>3, SameMethod DEF Special, At, ResumeLabels
  <2> QED BY <1>0, <1>3, <2>1, <2>2, Types DEF Typed, TypeOK, Failed
<1>4. CASE /\ st.output \in desk.on /\ To("resumeFail") /\ desk' = [desk EXCEPT !.at = st.output]
           /\ Fails /\ UNCHANGED <<was, disk, st, session>>
  <2>1. /\ desk' \in Desks /\ desk'.at = st.output /\ DeskBut({"at"})
    BY <1>4, Types, Fields DEF Desks, DeskBut
  <2>2. Failed
    BY <1>4, FailsLeft
  <2>3. ctl' \in Ctls /\ Control' /\ Goes("resumeFail")
    BY <1>0, <1>4, SameMethod DEF Special, At, ResumeLabels
  <2> QED BY <1>0, <1>4, <2>1, <2>2, <2>3, Types DEF Typed, TypeOK, Failed
<1>5. CASE /\ ~(st.output \in desk.on) /\ To("resumeFail")
           /\ UNCHANGED <<desk, was, disk, st, session, left>>
  BY <1>0, <1>5, SameMethod, Types DEF Special, At, ResumeLabels, Typed, TypeOK
<1> QED BY <1>1, <1>2, <1>3, <1>4, <1>5

LEMMA ResumeQuietDoes ==
  ASSUME Typed, ResumeQuiet
  PROVE  /\ Typed' /\ At("resumeQuiet")
         /\ \/ /\ (~ctl.want.quiet \/ desk.quiet) /\ Calls("unmute", "resumeHeard")
               /\ UNCHANGED <<desk, was, disk, st, session, left>>
            \/ /\ ctl.want.quiet /\ ~desk.quiet /\ Goes("resumeSilence")
               /\ st'.quiet /\ StBut({"quiet"}) /\ disk' = st'
               /\ UNCHANGED <<desk, was, session, left>>
            \/ /\ ctl.want.quiet /\ ~desk.quiet /\ Goes("resumeFail") /\ st'.quiet /\ StBut({"quiet"})
               /\ Failed /\ UNCHANGED <<desk, was, disk, session>>
<1>0. ~At("idle") /\ At("resumeQuiet") /\ Awaits("resumeQuiet", Top) /\ Serves("resumeQuiet", ctl.op) /\ ctl.op \in Ops /\ Top \in Labels
  BY Running DEF ResumeQuiet, At
<1>1. \/ /\ (~ctl.want.quiet \/ desk.quiet) /\ Call("unmute", "resumeHeard")
         /\ UNCHANGED <<desk, was, disk, st, session, left>>
      \/ /\ ctl.want.quiet /\ ~desk.quiet /\ To("resumeSilence") /\ st' = Quieted /\ disk' = st'
         /\ UNCHANGED <<desk, was, session, left>>
      \/ /\ ctl.want.quiet /\ ~desk.quiet /\ To("resumeFail") /\ st' = Quieted /\ Fails
         /\ UNCHANGED <<desk, was, disk, session>>
  BY DEF ResumeQuiet, SaveThen, Saves, Works, SaveFails
<1>2. CASE /\ (~ctl.want.quiet \/ desk.quiet) /\ Call("unmute", "resumeHeard")
           /\ UNCHANGED <<desk, was, disk, st, session, left>>
  <2>1. Below("resumeHeard", Top) /\ Waits("resumeHeard", ctl.op) /\ Awaits("unmute", "resumeHeard") /\ Serves("unmute", ctl.op)
    BY <1>0, Groups, Servings DEF ResumeLabels, UnmuteLabels, Below, Waits, RestoreTops, MuteTops, UnmuteTops, FinishTops
  <2>2. /\ ctl' \in Ctls /\ Control' /\ Calls("unmute", "resumeHeard")
    BY <1>2, <1>0, <2>1, CallMoves, LabelNames DEF Special
  <2> QED BY <1>0, <1>2, <2>1, <2>2, Types DEF Typed, TypeOK
<1>3. CASE /\ ctl.want.quiet /\ ~desk.quiet /\ To("resumeSilence") /\ st' = Quieted /\ disk' = st'
           /\ UNCHANGED <<desk, was, session, left>>
  <2>1. /\ st' \in Records /\ st'.quiet /\ StBut({"quiet"})
    BY <1>3, Types, KindFields, DeskFields DEF Records, Quieted, StBut
  <2>2. ctl' \in Ctls /\ Control' /\ Goes("resumeSilence")
    BY <1>0, <1>3, SameMethod DEF Special, At, ResumeLabels
  <2> QED BY <1>0, <1>3, <2>1, <2>2, Types DEF Typed, TypeOK
<1>4. CASE /\ ctl.want.quiet /\ ~desk.quiet /\ To("resumeFail") /\ st' = Quieted /\ Fails
           /\ UNCHANGED <<desk, was, disk, session>>
  <2>1. /\ st' \in Records /\ st'.quiet /\ StBut({"quiet"})
    BY <1>4, Types, KindFields, DeskFields DEF Records, Quieted, StBut
  <2>2. Failed
    BY <1>4, FailsLeft
  <2>3. ctl' \in Ctls /\ Control' /\ Goes("resumeFail")
    BY <1>0, <1>4, SameMethod DEF Special, At, ResumeLabels
  <2> QED BY <1>0, <1>4, <2>1, <2>2, <2>3, Types DEF Typed, TypeOK, Failed
<1> QED BY <1>1, <1>2, <1>3, <1>4

LEMMA ResumeSilenceDoes ==
  ASSUME Typed, ResumeSilence
  PROVE  /\ Typed' /\ At("resumeSilence")
         /\ \/ /\ Calls("unmute", "resumeHeard") /\ desk'.quiet /\ DeskBut({"quiet"})
               /\ UNCHANGED <<was, disk, st, session, left>>
            \/ /\ Goes("resumeFail") /\ Failed /\ UNCHANGED <<desk, was, disk, st, session>>
<1>0. ~At("idle") /\ At("resumeSilence") /\ Awaits("resumeSilence", Top) /\ Serves("resumeSilence", ctl.op) /\ ctl.op \in Ops /\ Top \in Labels
  BY Running DEF ResumeSilence, At
<1>1. \/ /\ Call("unmute", "resumeHeard") /\ desk' = [desk EXCEPT !.quiet = TRUE]
         /\ UNCHANGED <<was, disk, st, session, left>>
      \/ /\ To("resumeFail") /\ Fails /\ UNCHANGED <<desk, was, disk, st, session>>
  BY DEF ResumeSilence, Works
<1>2. CASE /\ Call("unmute", "resumeHeard") /\ desk' = [desk EXCEPT !.quiet = TRUE]
           /\ UNCHANGED <<was, disk, st, session, left>>
  <2>1. /\ desk' \in Desks /\ desk'.quiet /\ DeskBut({"quiet"})
    BY <1>2, Types, Fields DEF Desks, DeskBut
  <2>2. Below("resumeHeard", Top) /\ Waits("resumeHeard", ctl.op) /\ Awaits("unmute", "resumeHeard") /\ Serves("unmute", ctl.op)
    BY <1>0, Groups, Servings DEF ResumeLabels, UnmuteLabels, Below, Waits, RestoreTops, MuteTops, UnmuteTops, FinishTops
  <2>3. /\ ctl' \in Ctls /\ Control' /\ Calls("unmute", "resumeHeard")
    BY <1>2, <1>0, <2>2, CallMoves, LabelNames DEF Special
  <2> QED BY <1>0, <1>2, <2>1, <2>2, <2>3, Types DEF Typed, TypeOK
<1>3. CASE /\ To("resumeFail") /\ Fails /\ UNCHANGED <<desk, was, disk, st, session>>
  <2>1. Failed
    BY <1>3, FailsLeft
  <2>2. ctl' \in Ctls /\ Control' /\ Goes("resumeFail")
    BY <1>0, <1>3, SameMethod DEF Special, At, ResumeLabels
  <2> QED BY <1>0, <1>3, <2>1, <2>2, Types DEF Typed, TypeOK, Failed
<1> QED BY <1>1, <1>2, <1>3

LEMMA ResumeHeardDoes ==
  ASSUME Typed, ResumeHeard
  PROVE  /\ Typed' /\ At("resumeHeard")
         /\ \/ /\ ~ctl.ok /\ Goes("resumeFail") /\ UNCHANGED <<desk, was, disk, st, session, left>>
            \/ /\ ctl.ok /\ Returns(TRUE) /\ StBut({}) /\ disk' = st' /\ session' = "active"
               /\ UNCHANGED <<desk, was, left>>
            \/ /\ ctl.ok /\ Goes("resumeFail") /\ StBut({}) /\ Failed
               /\ UNCHANGED <<desk, was, disk, session>>
<1>0. ~At("idle") /\ At("resumeHeard")
  BY DEF ResumeHeard, At
<1>1. \/ /\ ~ctl.ok /\ To("resumeFail") /\ UNCHANGED <<desk, was, disk, st, session, left>>
      \/ /\ ctl.ok /\ Return(TRUE) /\ st' = [st EXCEPT !.phase = "active"] /\ disk' = st'
         /\ session' = "active" /\ UNCHANGED <<desk, was, left>>
      \/ /\ ctl.ok /\ To("resumeFail") /\ st' = [st EXCEPT !.phase = "active"] /\ Fails
         /\ UNCHANGED <<desk, was, disk, session>>
  BY DEF ResumeHeard, Saves, Works, SaveFails
<1>2. CASE /\ ~ctl.ok /\ To("resumeFail") /\ UNCHANGED <<desk, was, disk, st, session, left>>
  BY <1>0, <1>2, SameMethod, Types DEF Special, At, ResumeLabels, Typed, TypeOK
<1>3. CASE /\ ctl.ok /\ Return(TRUE) /\ st' = [st EXCEPT !.phase = "active"] /\ disk' = st'
           /\ session' = "active" /\ UNCHANGED <<desk, was, left>>
  <2>1. /\ st' \in Records /\ StBut({})
    BY <1>3, Types DEF Records, StBut
  <2>2. /\ ctl' \in Ctls /\ Control' /\ Returns(TRUE)
    BY <1>3, <1>0, Types, ReturnMoves
  <2> QED BY <1>0, <1>3, <2>1, <2>2, Types DEF Typed, TypeOK
<1>4. CASE /\ ctl.ok /\ To("resumeFail") /\ st' = [st EXCEPT !.phase = "active"] /\ Fails
           /\ UNCHANGED <<desk, was, disk, session>>
  <2>1. /\ st' \in Records /\ StBut({})
    BY <1>4, Types DEF Records, StBut
  <2>2. Failed
    BY <1>4, FailsLeft
  <2>3. ctl' \in Ctls /\ Control' /\ Goes("resumeFail")
    BY <1>0, <1>4, SameMethod DEF Special, At, ResumeLabels
  <2> QED BY <1>0, <1>4, <2>1, <2>2, <2>3, Types DEF Typed, TypeOK, Failed
<1> QED BY <1>1, <1>2, <1>3, <1>4

LEMMA ResumeFailDoes ==
  ASSUME Typed, ResumeFail
  PROVE  /\ Typed' /\ At("resumeFail")
         /\ CallsRestore(TRUE, FALSE, "resumeUndone")
         /\ UNCHANGED <<desk, was, disk, st, session, left>>
<1>0. ~At("idle") /\ At("resumeFail") /\ Awaits("resumeFail", Top) /\ Serves("resumeFail", ctl.op) /\ ctl.op \in Ops /\ Top \in Labels
  BY Running DEF ResumeFail, At
<1>1. /\ CallRestore(TRUE, FALSE, "resumeUndone") /\ UNCHANGED <<desk, was, disk, st, session, left>>
  BY DEF ResumeFail
<1>2. Below("resumeUndone", Top) /\ Waits("resumeUndone", ctl.op) /\ "resumeUndone" \in RestoreTops
  BY <1>0, Groups, Servings DEF RestoreLabels, ResumeLabels, Below, Waits, RestoreTops, MuteTops, UnmuteTops, FinishTops
<1>3. /\ ctl' \in Ctls /\ Control' /\ CallsRestore(TRUE, FALSE, "resumeUndone")
  BY <1>1, <1>0, <1>2, CallRestoreMoves, LabelNames, Types
<1> QED BY <1>0, <1>1, <1>2, <1>3, Types DEF Typed, TypeOK

LEMMA ResumeUndoneDoes ==
  ASSUME Typed, ResumeUndone
  PROVE  /\ Typed' /\ At("resumeUndone")
         /\ \/ /\ ctl.ok /\ st'.games = {} /\ Goes("no") /\ st' = ctl.kept /\ disk' = ctl.kept
               /\ UNCHANGED <<desk, was, session, left>>
            \/ /\ ctl.ok /\ st'.games = {} /\ Goes("no") /\ st' = ctl.kept /\ Failed
               /\ UNCHANGED <<desk, was, disk, session>>
            \/ /\ ~ctl.ok /\ st'.games = {} /\ Goes("no")
               /\ UNCHANGED <<desk, was, disk, st, session, left>>
            \/ /\ ctl.ok /\ st'.games # {} /\ Calls("mute", "resumeMuted") /\ st' = ctl.kept
               /\ disk' = ctl.kept /\ UNCHANGED <<desk, was, session, left>>
            \/ /\ ctl.ok /\ st'.games # {} /\ Calls("mute", "resumeMuted") /\ st' = ctl.kept /\ Failed
               /\ UNCHANGED <<desk, was, disk, session>>
            \/ /\ ~ctl.ok /\ st'.games # {} /\ Calls("mute", "resumeMuted")
               /\ UNCHANGED <<desk, was, disk, st, session, left>>
<1>0. ~At("idle") /\ At("resumeUndone") /\ Awaits("resumeUndone", Top) /\ Serves("resumeUndone", ctl.op) /\ ctl.op \in Ops /\ Top \in Labels
  BY Running DEF ResumeUndone, At
<1>1. \/ /\ ctl.ok /\ st'.games = {} /\ To("no") /\ st' = ctl.kept /\ disk' = ctl.kept
         /\ UNCHANGED <<desk, was, session, left>>
      \/ /\ ctl.ok /\ st'.games = {} /\ To("no") /\ st' = ctl.kept /\ Fails
         /\ UNCHANGED <<desk, was, disk, session>>
      \/ /\ ~ctl.ok /\ st'.games = {} /\ To("no") /\ UNCHANGED <<desk, was, disk, st, session, left>>
      \/ /\ ctl.ok /\ st'.games # {} /\ Call("mute", "resumeMuted") /\ st' = ctl.kept
         /\ disk' = ctl.kept /\ UNCHANGED <<desk, was, session, left>>
      \/ /\ ctl.ok /\ st'.games # {} /\ Call("mute", "resumeMuted") /\ st' = ctl.kept /\ Fails
         /\ UNCHANGED <<desk, was, disk, session>>
      \/ /\ ~ctl.ok /\ st'.games # {} /\ Call("mute", "resumeMuted")
         /\ UNCHANGED <<desk, was, disk, st, session, left>>
  BY DEF ResumeUndone, SavesOrNot, Saves, Works, SaveFails
<1>2. CASE /\ ctl.ok /\ st'.games = {} /\ To("no") /\ st' = ctl.kept /\ disk' = ctl.kept
           /\ UNCHANGED <<desk, was, session, left>>
  <2>1. st' \in Records
    BY <1>2, Types
  <2>2. Awaits("no", Top) /\ Serves("no", ctl.op)
    BY <1>0, Groups, Servings DEF ResumeLabels, Below, Waits, RestoreTops, MuteTops, UnmuteTops, FinishTops
  <2>3. /\ ctl' \in Ctls /\ Control' /\ Goes("no")
    BY <1>2, <1>0, <2>2, ToMoves, LabelNames DEF Special
  <2> QED BY <1>0, <1>2, <2>1, <2>2, <2>3, Types DEF Typed, TypeOK
<1>3. CASE /\ ctl.ok /\ st'.games = {} /\ To("no") /\ st' = ctl.kept /\ Fails
           /\ UNCHANGED <<desk, was, disk, session>>
  <2>1. st' \in Records
    BY <1>3, Types
  <2>2. Failed
    BY <1>3, FailsLeft
  <2>3. Awaits("no", Top) /\ Serves("no", ctl.op)
    BY <1>0, Groups, Servings DEF ResumeLabels, Below, Waits, RestoreTops, MuteTops, UnmuteTops, FinishTops
  <2>4. /\ ctl' \in Ctls /\ Control' /\ Goes("no")
    BY <1>3, <1>0, <2>3, ToMoves, LabelNames DEF Special
  <2> QED BY <1>0, <1>3, <2>1, <2>2, <2>3, <2>4, Types DEF Typed, TypeOK, Failed
<1>4. CASE /\ ~ctl.ok /\ st'.games = {} /\ To("no") /\ UNCHANGED <<desk, was, disk, st, session, left>>
  <2>1. Awaits("no", Top) /\ Serves("no", ctl.op)
    BY <1>0, Groups, Servings DEF ResumeLabels, Below, Waits, RestoreTops, MuteTops, UnmuteTops, FinishTops
  <2>2. /\ ctl' \in Ctls /\ Control' /\ Goes("no")
    BY <1>4, <1>0, <2>1, ToMoves, LabelNames DEF Special
  <2> QED BY <1>0, <1>4, <2>1, <2>2, Types DEF Typed, TypeOK
<1>5. CASE /\ ctl.ok /\ st'.games # {} /\ Call("mute", "resumeMuted") /\ st' = ctl.kept
           /\ disk' = ctl.kept /\ UNCHANGED <<desk, was, session, left>>
  <2>1. st' \in Records
    BY <1>5, Types
  <2>2. Below("resumeMuted", Top) /\ Waits("resumeMuted", ctl.op) /\ Awaits("mute", "resumeMuted") /\ Serves("mute", ctl.op)
    BY <1>0, Groups, Servings DEF MuteLabels, ResumeLabels, Below, Waits, RestoreTops, MuteTops, UnmuteTops, FinishTops
  <2>3. /\ ctl' \in Ctls /\ Control' /\ Calls("mute", "resumeMuted")
    BY <1>5, <1>0, <2>2, CallMoves, LabelNames DEF Special
  <2> QED BY <1>0, <1>5, <2>1, <2>2, <2>3, Types DEF Typed, TypeOK
<1>6. CASE /\ ctl.ok /\ st'.games # {} /\ Call("mute", "resumeMuted") /\ st' = ctl.kept /\ Fails
           /\ UNCHANGED <<desk, was, disk, session>>
  <2>1. st' \in Records
    BY <1>6, Types
  <2>2. Failed
    BY <1>6, FailsLeft
  <2>3. Below("resumeMuted", Top) /\ Waits("resumeMuted", ctl.op) /\ Awaits("mute", "resumeMuted") /\ Serves("mute", ctl.op)
    BY <1>0, Groups, Servings DEF MuteLabels, ResumeLabels, Below, Waits, RestoreTops, MuteTops, UnmuteTops, FinishTops
  <2>4. /\ ctl' \in Ctls /\ Control' /\ Calls("mute", "resumeMuted")
    BY <1>6, <1>0, <2>3, CallMoves, LabelNames DEF Special
  <2> QED BY <1>0, <1>6, <2>1, <2>2, <2>3, <2>4, Types DEF Typed, TypeOK, Failed
<1>7. CASE /\ ~ctl.ok /\ st'.games # {} /\ Call("mute", "resumeMuted")
           /\ UNCHANGED <<desk, was, disk, st, session, left>>
  <2>1. Below("resumeMuted", Top) /\ Waits("resumeMuted", ctl.op) /\ Awaits("mute", "resumeMuted") /\ Serves("mute", ctl.op)
    BY <1>0, Groups, Servings DEF MuteLabels, ResumeLabels, Below, Waits, RestoreTops, MuteTops, UnmuteTops, FinishTops
  <2>2. /\ ctl' \in Ctls /\ Control' /\ Calls("mute", "resumeMuted")
    BY <1>7, <1>0, <2>1, CallMoves, LabelNames DEF Special
  <2> QED BY <1>0, <1>7, <2>1, <2>2, Types DEF Typed, TypeOK
<1> QED BY <1>1, <1>2, <1>3, <1>4, <1>5, <1>6, <1>7

LEMMA ResumeMutedDoes ==
  ASSUME Typed, ResumeMuted
  PROVE  /\ Typed' /\ At("resumeMuted")
         /\ \/ /\ ctl.ok /\ Goes("no") /\ UNCHANGED <<desk, was, disk, st, session, left>>
            \/ /\ ~ctl.ok /\ Calls("finish", "no") /\ UNCHANGED <<desk, was, disk, st, session, left>>
<1>0. ~At("idle") /\ At("resumeMuted") /\ Awaits("resumeMuted", Top) /\ Serves("resumeMuted", ctl.op) /\ ctl.op \in Ops /\ Top \in Labels
  BY Running DEF ResumeMuted, At
<1>1. \/ /\ ctl.ok /\ To("no") /\ UNCHANGED <<desk, was, disk, st, session, left>>
      \/ /\ ~ctl.ok /\ Call("finish", "no") /\ UNCHANGED <<desk, was, disk, st, session, left>>
  BY DEF ResumeMuted
<1>2. CASE /\ ctl.ok /\ To("no") /\ UNCHANGED <<desk, was, disk, st, session, left>>
  <2>1. Awaits("no", Top) /\ Serves("no", ctl.op)
    BY <1>0, Groups, Servings DEF ResumeLabels, Below, Waits, RestoreTops, MuteTops, UnmuteTops, FinishTops
  <2>2. /\ ctl' \in Ctls /\ Control' /\ Goes("no")
    BY <1>2, <1>0, <2>1, ToMoves, LabelNames DEF Special
  <2> QED BY <1>0, <1>2, <2>1, <2>2, Types DEF Typed, TypeOK
<1>3. CASE /\ ~ctl.ok /\ Call("finish", "no") /\ UNCHANGED <<desk, was, disk, st, session, left>>
  <2>1. Below("no", Top) /\ Waits("no", ctl.op) /\ Awaits("finish", "no") /\ Serves("finish", ctl.op)
    BY <1>0, Groups, Servings DEF ResumeLabels, Below, Waits, RestoreTops, MuteTops, UnmuteTops, FinishTops
  <2>2. /\ ctl' \in Ctls /\ Control' /\ Calls("finish", "no")
    BY <1>3, <1>0, <2>1, CallMoves, LabelNames DEF Special
  <2> QED BY <1>0, <1>3, <2>1, <2>2, Types DEF Typed, TypeOK
<1> QED BY <1>1, <1>2, <1>3

\* The steps of exit.
LEMMA ExitDoes ==
  ASSUME Typed, Exit
  PROVE  /\ Typed' /\ At("idle")
         /\ \/ /\ session = "parked" /\ ctl'.at = "finish" /\ Top' = "exited" /\ ctl'.op = "Exit"
               /\ ctl'.from = session /\ CtlBut({"op", "from"}) /\ Afresh
               /\ UNCHANGED <<desk, was, disk, st, session>>
            \/ /\ session = "active" /\ ctl'.at = "unmute" /\ Top' = "exitHeard" /\ ctl'.op = "Exit"
               /\ ctl'.from = session /\ CtlBut({"op", "from"}) /\ Afresh
               /\ UNCHANGED <<desk, was, disk, st, session>>
<1>0. At("idle")
  BY DEF Exit, Begin
<1>1. \/ /\ session = "parked"
         /\ ctl' = [ctl EXCEPT !.at = "finish", !.stack = <<"exited", "idle">>, !.op = "Exit", !.from = session]
         /\ left' = [left EXCEPT !.clean = TRUE] /\ UNCHANGED <<desk, was, disk, st, session>>
      \/ /\ session = "active"
         /\ ctl' = [ctl EXCEPT !.at = "unmute", !.stack = <<"exitHeard", "idle">>, !.op = "Exit", !.from = session]
         /\ left' = [left EXCEPT !.clean = TRUE] /\ UNCHANGED <<desk, was, disk, st, session>>
  BY DEF Exit, Begin
<1>2. CASE /\ session = "parked"
           /\ ctl' = [ctl EXCEPT !.at = "finish", !.stack = <<"exited", "idle">>, !.op = "Exit", !.from = session]
           /\ left' = [left EXCEPT !.clean = TRUE] /\ UNCHANGED <<desk, was, disk, st, session>>
  <2>1. left' \in Lefts /\ Afresh
    BY <1>2, Types DEF Lefts, Afresh
  <2>2. Below("exited", "idle") /\ Waits("exited", "Exit") /\ Awaits("finish", "exited") /\ Serves("finish", "Exit") /\ "Exit" \in Ops
    BY Groups, Servings DEF ExitLabels, Below, Waits, RestoreTops, MuteTops, UnmuteTops, FinishTops, Ops
  <2>3. <<"exited", "idle">> \in Seq(Labels)
    BY LabelNames
  <2>4. /\ ctl' \in Ctls /\ ctl'.stack = <<"exited", "idle">> /\ ctl'.at = "finish"
          /\ ctl'.op = "Exit" /\ ctl'.from = session /\ CtlBut({"op", "from"})
    BY <1>2, <2>3, <2>2, Types, LabelNames DEF Ctls, CtlBut
  <2>5. /\ Control' /\ Top' = "exited"
    BY <2>4, <2>2, LabelNames, BeginCallMoves DEF Special
  <2> QED BY <1>0, <1>2, <2>1, <2>2, <2>3, <2>4, <2>5, Types DEF Typed, TypeOK, Afresh
<1>3. CASE /\ session = "active"
           /\ ctl' = [ctl EXCEPT !.at = "unmute", !.stack = <<"exitHeard", "idle">>, !.op = "Exit", !.from = session]
           /\ left' = [left EXCEPT !.clean = TRUE] /\ UNCHANGED <<desk, was, disk, st, session>>
  <2>1. left' \in Lefts /\ Afresh
    BY <1>3, Types DEF Lefts, Afresh
  <2>2. Below("exitHeard", "idle") /\ Waits("exitHeard", "Exit") /\ Awaits("unmute", "exitHeard") /\ Serves("unmute", "Exit") /\ "Exit" \in Ops
    BY Groups, Servings DEF ExitLabels, UnmuteLabels, Below, Waits, RestoreTops, MuteTops, UnmuteTops, FinishTops, Ops
  <2>3. <<"exitHeard", "idle">> \in Seq(Labels)
    BY LabelNames
  <2>4. /\ ctl' \in Ctls /\ ctl'.stack = <<"exitHeard", "idle">> /\ ctl'.at = "unmute"
          /\ ctl'.op = "Exit" /\ ctl'.from = session /\ CtlBut({"op", "from"})
    BY <1>3, <2>3, <2>2, Types, LabelNames DEF Ctls, CtlBut
  <2>5. /\ Control' /\ Top' = "exitHeard"
    BY <2>4, <2>2, LabelNames, BeginCallMoves DEF Special
  <2> QED BY <1>0, <1>3, <2>1, <2>2, <2>3, <2>4, <2>5, Types DEF Typed, TypeOK, Afresh
<1> QED BY <1>1, <1>2, <1>3

LEMMA ExitHeardDoes ==
  ASSUME Typed, ExitHeard
  PROVE  /\ Typed' /\ At("exitHeard")
         /\ ctl'.at = "quiet" /\ Top' = "exitRestored" /\ ctl'.desktop = ctl.ok /\ ctl'.complete
         /\ ~ctl'.retained /\ ~ctl'.gone /\ CtlBut({"desktop", "complete", "retained", "gone"})
         /\ UNCHANGED <<desk, was, disk, st, session, left>>
<1>0. ~At("idle") /\ At("exitHeard") /\ Awaits("exitHeard", Top) /\ Serves("exitHeard", ctl.op) /\ ctl.op \in Ops /\ Top \in Labels
  BY Running DEF ExitHeard, At
<1>1. /\ ctl' = [ctl EXCEPT !.at = "quiet", !.stack = <<"exitRestored">> \o @, !.desktop = ctl.ok, !.complete = TRUE, !.retained = FALSE, !.gone = FALSE]
      /\ UNCHANGED <<desk, was, disk, st, session, left>>
  BY DEF ExitHeard
<1>2. <<"exitRestored">> \o ctl.stack \in Seq(Labels)
  BY Types, LabelNames
<1>3. /\ ctl' \in Ctls /\ ctl'.at = "quiet" /\ ctl'.stack = <<"exitRestored">> \o ctl.stack
        /\ ctl'.desktop = ctl.ok /\ ctl'.complete /\ ~ctl'.retained /\ ~ctl'.gone
        /\ CtlBut({"desktop", "complete", "retained", "gone"})
  BY <1>1, Types, Fields, LabelNames, <1>2 DEF Ctls, CtlBut
<1>4. Held' /\ ctl'.op = ctl.op
  BY <1>1, <1>3, Types DEF Held, CtlBut, Typed, Control, At
<1>5. Below("exitRestored", Top) /\ Waits("exitRestored", ctl.op) /\ Awaits("quiet", "exitRestored") /\ Serves("quiet", ctl.op)
  BY <1>0, Groups, Servings DEF ExitLabels, RestoreLabels, Below, Waits, RestoreTops, MuteTops, UnmuteTops, FinishTops
<1>6. Top' = "exitRestored" /\ Control'
  BY <1>3, <1>4, <1>5, <1>0, PushMoves, LabelNames
<1> QED BY <1>0, <1>1, <1>2, <1>3, <1>4, <1>5, <1>6, Types DEF Typed, TypeOK

LEMMA ExitRestoredDoes ==
  ASSUME Typed, ExitRestored
  PROVE  /\ Typed' /\ At("exitRestored")
         /\ \/ /\ ctl.ok /\ ctl.desktop /\ Returns(TRUE) /\ st' = Blank /\ disk' = NoRecord
               /\ session' = "none" /\ UNCHANGED <<desk, was, left>>
            \/ /\ ~(ctl.ok /\ ctl.desktop) /\ Returns(FALSE) /\ disk' = st
               /\ UNCHANGED <<desk, was, st, session, left>>
            \/ /\ ~(ctl.ok /\ ctl.desktop) /\ Returns(FALSE) /\ Failed
               /\ UNCHANGED <<desk, was, disk, st, session>>
<1>0. ~At("idle") /\ At("exitRestored")
  BY DEF ExitRestored, At
<1>1. \/ /\ ctl.ok /\ ctl.desktop /\ Return(TRUE) /\ st' = Blank /\ disk' = NoRecord
         /\ session' = "none" /\ UNCHANGED <<desk, was, left>>
      \/ /\ ~(ctl.ok /\ ctl.desktop) /\ Return(FALSE) /\ disk' = st
         /\ UNCHANGED <<desk, was, st, session, left>>
      \/ /\ ~(ctl.ok /\ ctl.desktop) /\ Return(FALSE) /\ Fails
         /\ UNCHANGED <<desk, was, disk, st, session>>
  BY DEF ExitRestored, ExitEnds, Over, SavesOrNot, Saves, Works, SaveFails
<1>2. CASE /\ ctl.ok /\ ctl.desktop /\ Return(TRUE) /\ st' = Blank /\ disk' = NoRecord
           /\ session' = "none" /\ UNCHANGED <<desk, was, left>>
  <2>1. st' \in Records
    BY <1>2, RestType
  <2>2. /\ ctl' \in Ctls /\ Control' /\ Returns(TRUE)
    BY <1>2, <1>0, Types, ReturnMoves
  <2> QED BY <1>0, <1>2, <2>1, <2>2, Types DEF Typed, TypeOK
<1>3. CASE /\ ~(ctl.ok /\ ctl.desktop) /\ Return(FALSE) /\ disk' = st
           /\ UNCHANGED <<desk, was, st, session, left>>
  <2>1. /\ ctl' \in Ctls /\ Control' /\ Returns(FALSE)
    BY <1>3, <1>0, Types, ReturnMoves
  <2> QED BY <1>0, <1>3, <2>1, Types DEF Typed, TypeOK
<1>4. CASE /\ ~(ctl.ok /\ ctl.desktop) /\ Return(FALSE) /\ Fails
           /\ UNCHANGED <<desk, was, disk, st, session>>
  <2>1. Failed
    BY <1>4, FailsLeft
  <2>2. /\ ctl' \in Ctls /\ Control' /\ Returns(FALSE)
    BY <1>4, <1>0, Types, ReturnMoves
  <2> QED BY <1>0, <1>4, <2>1, <2>2, Types DEF Typed, TypeOK, Failed
<1> QED BY <1>1, <1>2, <1>3, <1>4

LEMMA ExitedDoes ==
  ASSUME Typed, Exited
  PROVE  /\ Typed' /\ At("exited")
         /\ \/ /\ ctl.ok /\ Returns(TRUE) /\ st' = Blank /\ disk' = NoRecord /\ session' = "none"
               /\ UNCHANGED <<desk, was, left>>
            \/ /\ ~ctl.ok /\ Returns(FALSE) /\ disk' = st /\ UNCHANGED <<desk, was, st, session, left>>
            \/ /\ ~ctl.ok /\ Returns(FALSE) /\ Failed /\ UNCHANGED <<desk, was, disk, st, session>>
<1>0. ~At("idle") /\ At("exited")
  BY DEF Exited, At
<1>1. \/ /\ ctl.ok /\ Return(TRUE) /\ st' = Blank /\ disk' = NoRecord /\ session' = "none"
         /\ UNCHANGED <<desk, was, left>>
      \/ /\ ~ctl.ok /\ Return(FALSE) /\ disk' = st /\ UNCHANGED <<desk, was, st, session, left>>
      \/ /\ ~ctl.ok /\ Return(FALSE) /\ Fails /\ UNCHANGED <<desk, was, disk, st, session>>
  BY DEF Exited, ExitEnds, Over, SavesOrNot, Saves, Works, SaveFails
<1>2. CASE /\ ctl.ok /\ Return(TRUE) /\ st' = Blank /\ disk' = NoRecord /\ session' = "none"
           /\ UNCHANGED <<desk, was, left>>
  <2>1. st' \in Records
    BY <1>2, RestType
  <2>2. /\ ctl' \in Ctls /\ Control' /\ Returns(TRUE)
    BY <1>2, <1>0, Types, ReturnMoves
  <2> QED BY <1>0, <1>2, <2>1, <2>2, Types DEF Typed, TypeOK
<1>3. CASE /\ ~ctl.ok /\ Return(FALSE) /\ disk' = st /\ UNCHANGED <<desk, was, st, session, left>>
  <2>1. /\ ctl' \in Ctls /\ Control' /\ Returns(FALSE)
    BY <1>3, <1>0, Types, ReturnMoves
  <2> QED BY <1>0, <1>3, <2>1, Types DEF Typed, TypeOK
<1>4. CASE /\ ~ctl.ok /\ Return(FALSE) /\ Fails /\ UNCHANGED <<desk, was, disk, st, session>>
  <2>1. Failed
    BY <1>4, FailsLeft
  <2>2. /\ ctl' \in Ctls /\ Control' /\ Returns(FALSE)
    BY <1>4, <1>0, Types, ReturnMoves
  <2> QED BY <1>0, <1>4, <2>1, <2>2, Types DEF Typed, TypeOK, Failed
<1> QED BY <1>1, <1>2, <1>3, <1>4

---------------------------------------------------------------------------

\* A kill leaves the desktop and the record, and starts a controller that
\* knows nothing.
LEMMA KillDoes ==
  ASSUME Typed, Kill
  PROVE  /\ Typed' /\ left.kills > 0 /\ desk'.win = "home" /\ DeskBut({"win"})
         /\ st' = Blank /\ session' = "none" /\ ctl'.at = "idle" /\ Top' = "idle" /\ ctl'.kept = Blank
         /\ left'.kills = left.kills - 1 /\ left'.clean = left.clean
         /\ left'.lost = (left.lost \/ ~MutesOnRecord)
         /\ UNCHANGED <<was, disk>>
<1>1. /\ desk' \in Desks /\ desk'.win = "home" /\ DeskBut({"win"})
  BY Types DEF Kill, Desks, DeskBut
<1>2. /\ left' \in Lefts /\ left.kills > 0 /\ left'.kills = left.kills - 1 /\ left'.clean = left.clean
      /\ left'.lost = (left.lost \/ ~MutesOnRecord)
  <2>1. left.kills - 1 \in Int /\ (left.lost \/ ~MutesOnRecord) \in BOOLEAN
    BY Types DEF Lefts
  <2>2. left' = [left EXCEPT !.kills = left.kills - 1, !.lost = (left.lost \/ ~MutesOnRecord)]
    BY Types DEF Kill, Lefts
  <2> QED BY <2>1, <2>2, Types DEF Kill, Lefts
<1>3. /\ ctl' \in Ctls /\ ctl'.at = "idle" /\ ctl'.stack = <<>> /\ ctl'.kept = Blank
  BY RestType DEF Kill, Resting
<1>4. Frames("idle", <<>>, ctl'.op)
  BY EmptyFrames
<1>5. Control' /\ Top' = "idle"
  BY <1>3, <1>4 DEF Control, Held, Top
<1>6. st' = Blank /\ st' \in Records /\ session' = "none" /\ UNCHANGED <<was, disk>>
  BY RestType DEF Kill
<1> QED BY <1>1, <1>2, <1>3, <1>5, <1>6, Types DEF Typed, TypeOK

\* Outside of an operation the world moves and the control stays.
LEMMA IdleStays ==
  ASSUME Typed, ctl' = ctl
  PROVE  Control' /\ ctl' \in Ctls /\ Top' = Top
BY Types DEF Typed, Control, Held, Top

\* What the steps of the world change.
LEMMA GameStartsDoes ==
  ASSUME Typed, NEW g \in Games, GameStarts(g)
  PROVE  /\ Typed' /\ At("idle") /\ session # "none" /\ g \notin desk.games \cup desk.over
         /\ \E quiet \in {{}, {g}} :
              /\ desk'.games = desk.games \cup {g} /\ desk'.inside = desk.inside \cup {g}
              /\ desk'.muted = desk.muted \cup quiet /\ desk'.at \in {desk.at, Home}
              /\ DeskBut({"games", "inside", "muted", "at"})
              /\ was'.muted = was.muted \cup quiet /\ WasBut({"muted"})
         /\ left'.clean = left.clean /\ left'.lost = left.lost /\ left'.kills = left.kills
         /\ UNCHANGED <<disk, st, session, ctl>>
<1>1. PICK quiet \in {{}, {g}} :
        /\ desk' = [desk EXCEPT !.games = @ \cup {g}, !.inside = @ \cup {g}, !.muted = @ \cup quiet,
                                !.at = IF desk.inside = {} /\ desk.win = "home" THEN Home ELSE @]
        /\ was' = [was EXCEPT !.muted = @ \cup quiet]
        /\ left' = [left EXCEPT !.games = @ - 1, !.player = @ - Cardinality(quiet)]
  BY DEF GameStarts
<1>2. /\ At("idle") /\ session # "none" /\ g \notin desk.games \cup desk.over /\ UNCHANGED <<disk, st, session, ctl>>
  BY DEF GameStarts
<1>3. desk.games \cup {g} \in SUBSET Games /\ desk.inside \cup {g} \in SUBSET Games /\ desk.muted \cup quiet \in SUBSET Games
  BY Types, DeskFields
<1>4. Home \in Outputs
  BY GameModeAssumption
<1>5. /\ desk' \in Desks /\ desk'.games = desk.games \cup {g} /\ desk'.inside = desk.inside \cup {g}
      /\ desk'.muted = desk.muted \cup quiet /\ desk'.at \in {desk.at, Home}
      /\ DeskBut({"games", "inside", "muted", "at"})
  BY <1>1, <1>3, <1>4, Types DEF Desks, DeskBut
<1>6. was' \in Wases /\ was'.muted = was.muted \cup quiet /\ WasBut({"muted"})
  BY <1>1, Types DEF Wases, WasBut
<1>7. Cardinality(quiet) \in Int
  <2>1. IsFiniteSet(quiet)
    <3>1. quiet = {} \/ quiet = {g}
      BY <1>1
    <3>2. IsFiniteSet({g}) /\ IsFiniteSet({})
      BY FS_EmptySet, FS_Singleton
    <3> QED BY <3>1, <3>2
  <2> QED BY <2>1, FS_CardinalityType
<1>8. left.games - 1 \in Int /\ left.player - Cardinality(quiet) \in Int
  BY <1>7, Types DEF Lefts
<1>9. left' \in Lefts /\ left'.clean = left.clean /\ left'.lost = left.lost /\ left'.kills = left.kills
  BY <1>1, <1>8, Types DEF Lefts
<1>10. Typed'
  BY <1>2, <1>5, <1>6, <1>9, Types, IdleStays DEF Typed, TypeOK
<1> QED BY <1>2, <1>5, <1>6, <1>9, <1>10

LEMMA GameEndsDoes ==
  ASSUME Typed, NEW g \in Games, GameEnds(g)
  PROVE  /\ Typed' /\ g \in desk.games
         /\ desk'.games = desk.games \ {g} /\ desk'.inside = desk.inside \ {g}
         /\ desk'.muted = desk.muted \ {g} /\ desk'.over = desk.over \cup {g}
         /\ DeskBut({"games", "inside", "muted", "over"})
         /\ was'.muted = was.muted \ {g} /\ WasBut({"muted"})
         /\ UNCHANGED <<disk, st, session, ctl, left>>
<1>1. /\ g \in desk.games /\ UNCHANGED <<disk, st, session, ctl, left>>
  BY DEF GameEnds
<1>2. desk.games \ {g} \in SUBSET Games /\ desk.inside \ {g} \in SUBSET Games /\ desk.muted \ {g} \in SUBSET Games
      /\ desk.over \cup {g} \in SUBSET Games
  BY Types, DeskFields
<1>3. /\ desk' \in Desks /\ desk'.games = desk.games \ {g} /\ desk'.inside = desk.inside \ {g}
      /\ desk'.muted = desk.muted \ {g} /\ desk'.over = desk.over \cup {g}
      /\ DeskBut({"games", "inside", "muted", "over"})
  BY <1>2, Types DEF GameEnds, Desks, DeskBut
<1>4. was' \in Wases /\ was'.muted = was.muted \ {g} /\ WasBut({"muted"})
  BY Types DEF GameEnds, Wases, WasBut
<1>5. Typed'
  BY <1>1, <1>3, <1>4, Types, IdleStays DEF Typed, TypeOK
<1> QED BY <1>1, <1>3, <1>4, <1>5

LEMMA PlayerPicksSinkDoes ==
  ASSUME Typed, NEW s \in Sinks, PlayerPicksSink(s)
  PROVE  /\ Typed' /\ At("idle") /\ s \in desk.sinks \ {desk.sink, st.sink} /\ (disk # NoRecord => s # disk.sink)
         /\ desk'.sink = s /\ DeskBut({"sink"}) /\ was'.sink = s /\ WasBut({"sink"})
         /\ left'.clean = left.clean /\ left'.lost = left.lost /\ left'.kills = left.kills
         /\ UNCHANGED <<disk, st, session, ctl>>
<1>1. At("idle") /\ s \in desk.sinks \ {desk.sink, st.sink} /\ (disk # NoRecord => s # disk.sink) /\ UNCHANGED <<disk, st, session, ctl>>
  BY DEF PlayerPicksSink
<1>2. desk' \in Desks /\ desk'.sink = s /\ DeskBut({"sink"})
  BY Types DEF PlayerPicksSink, Desks, DeskBut
<1>3. was' \in Wases /\ was'.sink = s /\ WasBut({"sink"})
  BY Types DEF PlayerPicksSink, Wases, WasBut
<1>4. left' \in Lefts /\ left'.clean = left.clean /\ left'.lost = left.lost /\ left'.kills = left.kills
  <2>1. left.player - 1 \in Int
    BY Types DEF Lefts
  <2> QED BY <2>1, Types DEF PlayerPicksSink, Lefts
<1>5. Typed'
  BY <1>1, <1>2, <1>3, <1>4, Types, IdleStays DEF Typed, TypeOK
<1> QED BY <1>1, <1>2, <1>3, <1>4, <1>5

LEMMA SinkGoesDoes ==
  ASSUME Typed, NEW s \in Sinks, SinkGoes(s)
  PROVE  /\ Typed' /\ s \in desk.sinks /\ desk'.sinks = desk.sinks \ {s} /\ DeskBut({"sinks", "sink"})
         /\ desk'.sink \in (IF s = desk.sink THEN desk.sinks \ {s} ELSE {desk.sink}) /\ WasBut({"sink"})
         /\ was'.sink = IF was.sink # s THEN was.sink
                        ELSE IF disk = NoRecord \/ disk.sink = NoSink THEN desk'.sink ELSE NoSink
         /\ left'.clean = left.clean /\ left'.lost = left.lost /\ left'.kills = left.kills
         /\ UNCHANGED <<disk, st, session, ctl>>
<1>1. PICK d \in IF s = desk.sink THEN desk.sinks \ {s} ELSE {desk.sink} :
        /\ desk' = [desk EXCEPT !.sinks = @ \ {s}, !.sink = d]
        /\ was' = [was EXCEPT !.sink = IF @ # s THEN @
                                       ELSE IF disk = NoRecord \/ disk.sink = NoSink THEN d ELSE NoSink]
  BY DEF SinkGoes
<1>2. s \in desk.sinks /\ UNCHANGED <<disk, st, session, ctl>>
  BY DEF SinkGoes
<1>3. d \in Sinks \cup {NoSink} /\ desk.sinks \ {s} \in SUBSET Sinks
  BY <1>1, Types, DeskFields
<1>4. /\ desk' \in Desks /\ desk'.sinks = desk.sinks \ {s} /\ desk'.sink = d /\ DeskBut({"sinks", "sink"})
  BY <1>1, <1>3, Types DEF Desks, DeskBut
<1>5. /\ was' \in Wases /\ WasBut({"sink"})
      /\ was'.sink = IF was.sink # s THEN was.sink
                     ELSE IF disk = NoRecord \/ disk.sink = NoSink THEN d ELSE NoSink
  BY <1>1, <1>3, Types DEF Wases, WasBut
<1>6. left' \in Lefts /\ left'.clean = left.clean /\ left'.lost = left.lost /\ left'.kills = left.kills
  <2>1. left.player - 1 \in Int
    BY Types DEF Lefts
  <2> QED BY <2>1, Types DEF SinkGoes, Lefts
<1>7. Typed'
  BY <1>2, <1>4, <1>5, <1>6, Types, IdleStays DEF Typed, TypeOK
<1> QED BY <1>1, <1>2, <1>4, <1>5, <1>6, <1>7

LEMMA UnplugDoes ==
  ASSUME Typed, NEW o \in Outputs, Unplug(o)
  PROVE  /\ Typed' /\ o \in desk.plugged /\ o # Home
         /\ desk'.plugged = desk.plugged \ {o} /\ desk'.on = desk.on \ {o}
         /\ desk'.at = (IF desk.at = o THEN Home ELSE desk.at)
         /\ DeskBut({"plugged", "on", "at"}) /\ was'.on = was.on \ {o} /\ WasBut({"on"})
         /\ Failed
         /\ UNCHANGED <<disk, st, session, ctl>>
<1>1. o \in desk.plugged /\ o # Home /\ UNCHANGED <<disk, st, session, ctl>>
  BY DEF Unplug
<1>2. Home \in Outputs
  BY GameModeAssumption
<1>3. /\ desk' \in Desks /\ desk'.plugged = desk.plugged \ {o} /\ desk'.on = desk.on \ {o}
      /\ desk'.at = (IF desk.at = o THEN Home ELSE desk.at) /\ DeskBut({"plugged", "on", "at"})
  BY <1>2, Types DEF Unplug, Desks, DeskBut
<1>4. was' \in Wases /\ was'.on = was.on \ {o} /\ WasBut({"on"})
  BY Types DEF Unplug, Wases, WasBut
<1>5. Failed
  <2>1. left.player - 1 \in Int
    BY Types DEF Lefts
  <2> QED BY <2>1, Types DEF Unplug, Lefts, Failed
<1>6. Typed'
  BY <1>1, <1>3, <1>4, <1>5, Types, IdleStays DEF Typed, TypeOK, Failed
<1> QED BY <1>1, <1>3, <1>4, <1>5, <1>6

\* The controller starts with values of the types.
LEMMA InitTyped == GameModeInit => Typed
<1> SUFFICES ASSUME GameModeInit PROVE Typed
  OBVIOUS
<1>1. PICK on \in {{Home}, Outputs}, quiet \in BOOLEAN, sink \in Sinks :
        /\ desk = [plugged |-> Outputs, on |-> on, sinks |-> Sinks, sink |-> sink, quiet |-> quiet, win |-> "home",
                   at |-> Home, inside |-> {}, games |-> {}, over |-> {}, muted |-> {}]
        /\ was = [on |-> on, sink |-> sink, quiet |-> quiet, muted |-> {}]
  BY DEF GameModeInit
<1>2. PICK b \in Budgets :
        left = [faults |-> b.faults, kills |-> b.kills, player |-> b.player, games |-> b.games,
                clean |-> TRUE, lost |-> FALSE]
  BY DEF GameModeInit
<1>3. disk = NoRecord /\ st = Blank /\ session = "none" /\ ctl = Resting
  BY DEF GameModeInit
<1>4. Home \in Outputs /\ b \in [faults : Nat, kills : Nat, player : Nat, games : Nat]
  BY GameModeAssumption
<1>5. desk \in Desks
  BY <1>1, <1>4 DEF Desks
<1>6. was \in Wases
  BY <1>1, <1>4 DEF Wases
<1>7. left \in Lefts
  BY <1>2, <1>4 DEF Lefts
<1>8. ctl \in Ctls /\ ctl.at = "idle" /\ ctl.stack = <<>> /\ st \in Records
  BY <1>3, RestType DEF Resting
<1>9. Control
  BY <1>8, EmptyFrames DEF Control, Held
<1> QED BY <1>3, <1>5, <1>6, <1>7, <1>8, <1>9 DEF Typed, TypeOK

---------------------------------------------------------------------------

\* The sessions that an operation begins with.
Sources(op) ==
  CASE op \in {"Enter", "Recover"} -> {"none"}
    [] op = "Park" -> {"active"}
    [] op \in {"Resume", "RefreshParked"} -> {"parked"}
    [] OTHER -> {"active", "parked"}
\* An operation in progress began with a session that it may begin with,
\* and what the session is now is one of its outcomes.
Expected ==
  ~At("idle") => ctl.from \in Sources(ctl.op) /\ session \in Promise!Outcomes(ctl.op, ctl.from)

\* The outcomes of an operation are sessions, that it began with among
\* them.
LEMMA Spans ==
  ASSUME NEW op \in Ops, NEW w \in Sources(op)
  PROVE  /\ Promise!Outcomes(op, w) \subseteq {"none", "active", "parked"}
         /\ "none" \in Promise!Outcomes(op, w) /\ w \in Promise!Outcomes(op, w)
         /\ op \in {"Enter", "Park", "Resume"} => "active" \in Promise!Outcomes(op, w)
         /\ op \in {"Park", "Resume"} => "parked" \in Promise!Outcomes(op, w)
BY DEF Ops, Sources, Promise!Outcomes

\* A step within an operation.
Within ==
  /\ ~At("idle")
  /\ session' = session \/ session' = "none" \/ (session' = "active" /\ ctl.op \in {"Enter", "Park", "Resume"})
       \/ (session' = "parked" /\ ctl.op = "Park")
  /\ ctl'.op = ctl.op /\ (ctl'.at # "idle" => ctl'.from = ctl.from)
\* One that begins an operation.
Begun ==
  /\ At("idle") /\ session' = session /\ ctl'.at # "idle" /\ ctl'.op \in Ops
  /\ ctl'.from = session /\ session \in Sources(ctl'.op)

\* A step that leaves the session and the operation is within it.
LEMMA Steady ==
  /\ \A l : Goes(l) => ctl'.op = ctl.op /\ ctl'.from = ctl.from
  /\ \A l, b : Calls(l, b) => ctl'.op = ctl.op /\ ctl'.from = ctl.from
  /\ \A r, g, b : CallsRestore(r, g, b) => ctl'.op = ctl.op /\ ctl'.from = ctl.from
  /\ \A n : Registers(n) => ctl'.op = ctl.op /\ ctl'.from = ctl.from
  /\ \A n : Lacks(n) => ctl'.op = ctl.op /\ ctl'.from = ctl.from
  /\ \A ok : Returns(ok) => ctl'.op = ctl.op /\ (ctl'.at # "idle" => ctl'.from = ctl.from)
BY DEF Goes, Calls, CallsRestore, Registers, Lacks, Returns, CtlBut

\* Each step of the controller is within an operation or begins one.
LEMMA RestoresWithin ==
  ASSUME Typed, Restores
  PROVE  Within \/ Begun
<1>1. CASE RecordUndone
  BY <1>1, RecordUndoneDoes, Steady DEF Within, At
<1>2. CASE RestoreQuiet
  BY <1>2, RestoreQuietDoes, Steady DEF Within, At
<1>3. CASE RestoreWindow
  BY <1>3, RestoreWindowDoes, Steady DEF Within, At, CtlBut
<1>4. CASE RestoreLeftover
  BY <1>4, RestoreLeftoverDoes, Steady DEF Within, At
<1>5. CASE RestoreFocus
  BY <1>5, RestoreFocusDoes, Steady DEF Within, At
<1>6. CASE RestoreSink
  BY <1>6, RestoreSinkDoes, Steady DEF Within, At
<1>7. CASE RestoreOutput
  BY <1>7, RestoreOutputDoes, Steady DEF Within, At
<1>8. CASE RestoreDisable
  BY <1>8, RestoreDisableDoes, Steady DEF Within, At
<1>9. CASE RestoreDone
  BY <1>9, RestoreDoneDoes, Steady DEF Within, At
<1> QED BY <1>1, <1>2, <1>3, <1>4, <1>5, <1>6, <1>7, <1>8, <1>9 DEF Restores

LEMMA MutesWithin ==
  ASSUME Typed, Mutes
  PROVE  Within \/ Begun
<1>1. CASE MuteGames
  BY <1>1, MuteGamesDoes, Steady DEF Within, At, CtlBut
<1>2. CASE MuteRecord
  BY <1>2, MuteRecordDoes, Steady DEF Within, At, CtlBut
<1>3. CASE MuteOne
  BY <1>3, MuteOneDoes, Steady DEF Within, At, CtlBut
<1>4. CASE UnmuteGames
  BY <1>4, UnmuteGamesDoes, Steady DEF Within, At, CtlBut
<1>5. CASE UnmuteOne
  BY <1>5, UnmuteOneDoes, Steady DEF Within, At, CtlBut
<1>6. CASE UnmuteRecord
  BY <1>6, UnmuteRecordDoes, Steady DEF Within, At, CtlBut
<1> QED BY <1>1, <1>2, <1>3, <1>4, <1>5, <1>6 DEF Mutes

LEMMA SettlesWithin ==
  ASSUME Typed, Settles
  PROVE  Within \/ Begun
<1>1. CASE Settle
  BY <1>1, SettleDoes, Steady DEF Within, At, CtlBut
<1>2. CASE Expose
  BY <1>2, ExposeDoes, Steady DEF Within, At
<1>3. CASE Settled
  BY <1>3, SettledDoes, Steady DEF Within, At
<1>4. CASE Unsettled
  BY <1>4, UnsettledDoes, Steady DEF Within, At
<1>5. CASE FinishRetention
  BY <1>5, FinishRetentionDoes, Steady DEF Within, At
<1>6. CASE Recover
  BY <1>6, RecoverDoes, Steady DEF Within, At
<1>7. CASE RecoverAtStart
  BY <1>7, RecoverAtStartDoes DEF Begun, At, CtlBut, Ops, Sources
<1> QED BY <1>1, <1>2, <1>3, <1>4, <1>5, <1>6, <1>7 DEF Settles

LEMMA EntersWithin ==
  ASSUME Typed, Enters
  PROVE  Within \/ Begun
<1>1. ASSUME NEW k \in Kinds, Enter(k) PROVE Within \/ Begun
  BY <1>1, EnterDoes DEF Begun, At, CtlBut, Ops, Sources
<1>2. CASE Entered
  BY <1>2, EnteredDoes, Steady DEF Within, At
<1>3. CASE EnterOutput
  BY <1>3, EnterOutputDoes, Steady DEF Within, At
<1>4. CASE EnterLight
  BY <1>4, EnterLightDoes, Steady DEF Within, At
<1>5. CASE EnterSink
  BY <1>5, EnterSinkDoes, Steady DEF Within, At
<1>6. CASE EnterSetSink
  BY <1>6, EnterSetSinkDoes, Steady DEF Within, At
<1>7. CASE EnterWindow
  BY <1>7, EnterWindowDoes, Steady DEF Within, At
<1>8. CASE EnterPlace
  BY <1>8, EnterPlaceDoes, Steady DEF Within, At
<1>9. CASE EnterQuiet
  BY <1>9, EnterQuietDoes, Steady DEF Within, At
<1>10. CASE EnterSilence
  BY <1>10, EnterSilenceDoes, Steady DEF Within, At
<1>11. CASE EnterLoud
  BY <1>11, EnterLoudDoes, Steady DEF Within, At
<1>12. CASE EnterLast
  BY <1>12, EnterLastDoes, Steady, Running DEF Within, At, Serves, EnterLabels
<1>13. CASE EnterFail
  BY <1>13, EnterFailDoes, Steady DEF Within, At
<1>14. CASE EnterFailed
  BY <1>14, EnterFailedDoes, Steady, Running DEF Within, At, Serves, EnterLabels
<1> QED BY <1>1, <1>2, <1>3, <1>4, <1>5, <1>6, <1>7, <1>8, <1>9, <1>10, <1>11, <1>12, <1>13, <1>14 DEF Enters

LEMMA ParksWithin ==
  ASSUME Typed, Parks
  PROVE  Within \/ Begun
<1>1. CASE Park
  BY <1>1, ParkDoes DEF Begun, At, CtlBut, Ops, Sources
<1>2. CASE ParkDiscover
  BY <1>2, ParkDiscoverDoes, Steady DEF Within, At, CtlBut
<1>3. CASE ParkMuted
  BY <1>3, ParkMutedDoes, Steady DEF Within, At
<1>4. CASE ParkUnmuted
  BY <1>4, ParkUnmutedDoes, Steady DEF Within, At
<1>5. CASE ParkRestore
  BY <1>5, ParkRestoreDoes, Steady DEF Within, At
<1>6. CASE ParkRestored
  BY <1>6, ParkRestoredDoes, Steady, Running DEF Within, At, CtlBut, Serves, ParkLabels
<1>7. CASE ParkRolledBack
  BY <1>7, ParkRolledBackDoes, Steady DEF Within, At
<1> QED BY <1>1, <1>2, <1>3, <1>4, <1>5, <1>6, <1>7 DEF Parks

LEMMA RefreshesWithin ==
  ASSUME Typed, Refreshes
  PROVE  Within \/ Begun
<1>1. CASE RefreshParked
  BY <1>1, RefreshParkedDoes DEF Begun, At, CtlBut, Ops, Sources
<1>2. CASE RefreshDiscover
  BY <1>2, RefreshDiscoverDoes, Steady DEF Within, At
<1>3. CASE RefreshHeard
  BY <1>3, RefreshHeardDoes, Steady DEF Within, At, CtlBut
<1>4. CASE RefreshRestored
  BY <1>4, RefreshRestoredDoes, Steady DEF Within, At
<1>5. CASE RefreshStreams
  BY <1>5, RefreshStreamsDoes, Steady DEF Within, At
<1>6. CASE RefreshMuted
  BY <1>6, RefreshMutedDoes, Steady DEF Within, At
<1> QED BY <1>1, <1>2, <1>3, <1>4, <1>5, <1>6 DEF Refreshes

LEMMA ResumesWithin ==
  ASSUME Typed, Resumes
  PROVE  Within \/ Begun
<1>1. CASE Resume
  BY <1>1, ResumeDoes DEF Begun, At, CtlBut, Ops, Sources
<1>2. CASE ResumeCapture
  BY <1>2, ResumeCaptureDoes, Steady DEF Within, At, CtlBut
<1>3. CASE ResumeRecord
  BY <1>3, ResumeRecordDoes, Steady DEF Within, At
<1>4. CASE ResumeLight
  BY <1>4, ResumeLightDoes, Steady DEF Within, At
<1>5. CASE ResumeSink
  BY <1>5, ResumeSinkDoes, Steady DEF Within, At
<1>6. CASE ResumeSetSink
  BY <1>6, ResumeSetSinkDoes, Steady DEF Within, At
<1>7. CASE ResumeWindow
  BY <1>7, ResumeWindowDoes, Steady DEF Within, At
<1>8. CASE ResumePlace
  BY <1>8, ResumePlaceDoes, Steady DEF Within, At
<1>9. CASE ResumeMove
  BY <1>9, ResumeMoveDoes, Steady DEF Within, At
<1>10. CASE ResumeQuiet
  BY <1>10, ResumeQuietDoes, Steady DEF Within, At
<1>11. CASE ResumeSilence
  BY <1>11, ResumeSilenceDoes, Steady DEF Within, At
<1>12. CASE ResumeHeard
  BY <1>12, ResumeHeardDoes, Steady, Running DEF Within, At, Serves, ResumeLabels
<1>13. CASE ResumeFail
  BY <1>13, ResumeFailDoes, Steady DEF Within, At
<1>14. CASE ResumeUndone
  BY <1>14, ResumeUndoneDoes, Steady DEF Within, At
<1>15. CASE ResumeMuted
  BY <1>15, ResumeMutedDoes, Steady DEF Within, At
<1> QED BY <1>1, <1>2, <1>3, <1>4, <1>5, <1>6, <1>7, <1>8, <1>9, <1>10, <1>11, <1>12, <1>13, <1>14, <1>15 DEF Resumes

LEMMA ExitsWithin ==
  ASSUME Typed, Exits
  PROVE  Within \/ Begun
<1>1. CASE Exit
  BY <1>1, ExitDoes DEF Begun, At, CtlBut, Ops, Sources
<1>2. CASE ExitHeard
  BY <1>2, ExitHeardDoes, Steady DEF Within, At, CtlBut
<1>3. CASE ExitRestored
  BY <1>3, ExitRestoredDoes, Steady DEF Within, At
<1>4. CASE Exited
  BY <1>4, ExitedDoes, Steady DEF Within, At
<1> QED BY <1>1, <1>2, <1>3, <1>4 DEF Exits

---------------------------------------------------------------------------

\* So is a return of an answer.
LEMMA AnswerWithin ==
  ASSUME Typed, Answer
  PROVE  Within
BY AnswerDoes, Steady DEF Within, At

\* The steps of the world: a kill, or one outside of any operation.
LEMMA WorldWithin ==
  ASSUME Typed, World
  PROVE  Typed' /\ (Kill \/ UNCHANGED <<session, ctl>>)
<1>1. CASE Kill
  BY <1>1, KillDoes
<1>2. ASSUME NEW g \in Games, GameStarts(g) \/ GameEnds(g) PROVE Typed' /\ UNCHANGED <<session, ctl>>
  BY <1>2, GameStartsDoes, GameEndsDoes
<1>3. ASSUME NEW s \in Sinks, PlayerPicksSink(s) \/ SinkGoes(s) PROVE Typed' /\ UNCHANGED <<session, ctl>>
  BY <1>3, PlayerPicksSinkDoes, SinkGoesDoes
<1>4. ASSUME NEW o \in Outputs, Unplug(o) PROVE Typed' /\ UNCHANGED <<session, ctl>>
  BY <1>4, UnplugDoes
<1> QED BY <1>1, <1>2, <1>3, <1>4 DEF World

\* Every step keeps the types and the control in order.
LEMMA TypedKept ==
  ASSUME Typed, [GameModeNext]_gameModeVars
  PROVE  Typed'
<1>1. CASE Answer
  BY <1>1, AnswerDoes
<1>2. CASE Restores
  BY <1>2, RecordUndoneDoes, RestoreQuietDoes, RestoreWindowDoes, RestoreLeftoverDoes, RestoreFocusDoes,
     RestoreSinkDoes, RestoreOutputDoes, RestoreDisableDoes, RestoreDoneDoes DEF Restores
<1>3. CASE Mutes
  BY <1>3, MuteGamesDoes, MuteRecordDoes, MuteOneDoes, UnmuteGamesDoes, UnmuteOneDoes, UnmuteRecordDoes DEF Mutes
<1>4. CASE Settles
  BY <1>4, SettleDoes, ExposeDoes, SettledDoes, UnsettledDoes, FinishRetentionDoes, RecoverDoes, RecoverAtStartDoes
     DEF Settles
<1>5. CASE Enters
  <2>1. ASSUME NEW k \in Kinds, Enter(k) PROVE Typed'
    BY <2>1, EnterDoes
  <2> QED
    BY <1>5, <2>1, EnteredDoes, EnterOutputDoes, EnterLightDoes, EnterSinkDoes, EnterSetSinkDoes, EnterWindowDoes,
       EnterPlaceDoes, EnterQuietDoes, EnterSilenceDoes, EnterLoudDoes, EnterLastDoes, EnterFailDoes, EnterFailedDoes
       DEF Enters
<1>6. CASE Parks
  BY <1>6, ParkDoes, ParkDiscoverDoes, ParkMutedDoes, ParkUnmutedDoes, ParkRestoreDoes, ParkRestoredDoes,
     ParkRolledBackDoes DEF Parks
<1>7. CASE Refreshes
  BY <1>7, RefreshParkedDoes, RefreshDiscoverDoes, RefreshHeardDoes, RefreshRestoredDoes, RefreshStreamsDoes,
     RefreshMutedDoes DEF Refreshes
<1>8. CASE Resumes
  BY <1>8, ResumeDoes, ResumeCaptureDoes, ResumeRecordDoes, ResumeLightDoes, ResumeSinkDoes, ResumeSetSinkDoes,
     ResumeWindowDoes, ResumePlaceDoes, ResumeMoveDoes, ResumeQuietDoes, ResumeSilenceDoes, ResumeHeardDoes,
     ResumeFailDoes, ResumeUndoneDoes, ResumeMutedDoes DEF Resumes
<1>9. CASE Exits
  BY <1>9, ExitDoes, ExitHeardDoes, ExitRestoredDoes, ExitedDoes DEF Exits
<1>10. CASE World
  BY <1>10, WorldWithin
<1>11. CASE UNCHANGED gameModeVars
  BY <1>11 DEF gameModeVars, Typed, TypeOK, Control, Held
<1> QED BY <1>1, <1>2, <1>3, <1>4, <1>5, <1>6, <1>7, <1>8, <1>9, <1>10, <1>11 DEF GameModeNext

\* The variables always have values of their types, and the calls in
\* progress are in order: the step that runs belongs to the operation that
\* was asked for, and whatever it answers is awaited by a step that takes
\* that answer.
THEOREM TypeCorrect == GameModeSpec => []Typed
<1>1. Typed /\ [GameModeNext]_gameModeVars => Typed'
  BY TypedKept
<1> QED BY InitTyped, <1>1, PTL DEF GameModeSpec

---------------------------------------------------------------------------

\* Every step but those of the world is within an operation or begins one.
LEMMA StepsWithin ==
  ASSUME Typed, [GameModeNext]_gameModeVars
  PROVE  Within \/ Begun \/ Kill \/ UNCHANGED <<session, ctl>>
BY AnswerWithin, RestoresWithin, MutesWithin, SettlesWithin, EntersWithin, ParksWithin, RefreshesWithin,
   ResumesWithin, ExitsWithin, WorldWithin DEF GameModeNext, gameModeVars

\* An operation in progress has an outcome that was expected of it.
LEMMA ExpectedKept ==
  ASSUME Typed, Expected, Within
  PROVE  /\ ctl.op \in Ops /\ session' \in Promise!Outcomes(ctl.op, ctl.from) /\ Expected'
<1>1. ctl.op \in Ops /\ ~At("idle")
  BY Running DEF Within
<1>2. ctl.from \in Sources(ctl.op) /\ session \in Promise!Outcomes(ctl.op, ctl.from)
  BY <1>1 DEF Expected
<1>3. session' \in Promise!Outcomes(ctl.op, ctl.from)
  BY <1>1, <1>2, Spans DEF Within
<1> QED BY <1>1, <1>2, <1>3 DEF Within, Expected, At

\* Every step of the controller is one of the abstract controller's, or
\* leaves what that one sees.
LEMMA OperationStep ==
  ASSUME Typed, Expected, [GameModeNext]_gameModeVars
  PROVE  /\ Expected'
         /\ [Promise!Next]_<<IF At("idle") THEN session ELSE ctl.from, IF At("idle") THEN "none" ELSE ctl.op>>
<1>0. "none" \notin Ops /\ Ops = Promise!Operations
  BY DEF Ops, Promise!Operations
<1>1. CASE Within
  <2>1. ctl.op \in Ops /\ session' \in Promise!Outcomes(ctl.op, ctl.from) /\ Expected'
    BY <1>1, ExpectedKept
  <2>2. CASE ctl'.at = "idle"
    <3>1. ~At("idle") /\ At("idle")'
      BY <1>1, <2>2 DEF Within, At
    <3> QED BY <2>1, <3>1, <1>0 DEF Promise!Next, Promise!Ends
  <2>3. CASE ctl'.at # "idle"
    <3>1. ~At("idle") /\ ~At("idle")' /\ ctl'.op = ctl.op /\ ctl'.from = ctl.from
      BY <1>1, <2>3 DEF Within, At
    <3> QED BY <2>1, <3>1
  <2> QED BY <2>2, <2>3
<1>2. CASE Begun
  <2>1. At("idle") /\ ~At("idle")' /\ session' = session /\ ctl'.op \in Ops /\ ctl'.from = session
        /\ ctl'.from \in Sources(ctl'.op)
    BY <1>2 DEF Begun, At
  <2>2. Expected'
    BY <2>1, Spans DEF Expected
  <2>3. \E op \in Promise!Operations : Promise!Begins(op)
    BY <2>1, <1>0 DEF Promise!Begins
  <2> QED BY <2>2, <2>3 DEF Promise!Next
<1>3. CASE Kill
  <2>1. At("idle")' /\ session' = "none"
    BY <1>3, KillDoes DEF At
  <2> QED BY <2>1 DEF Promise!Next, Promise!Killed, Expected
<1>4. CASE UNCHANGED <<session, ctl>>
  BY <1>4 DEF Expected, At
<1> QED BY StepsWithin, <1>1, <1>2, <1>3, <1>4

\* The controller does to the session what its operations promise,
\* whatever fails in them: the sessions of a run of the controller are
\* those of a run of GameModeOperations, in which an operation takes the
\* session to one of its outcomes in one step.
THEOREM OperationsKept == GameModeSpec => ImplementsOperations
<1>1. GameModeInit => Expected /\ Promise!Init
  BY DEF GameModeInit, Expected, Promise!Init, At, Resting
<1>2. Typed /\ Expected /\ [GameModeNext]_gameModeVars
      => Expected' /\ [Promise!Next]_<<IF At("idle") THEN session ELSE ctl.from, IF At("idle") THEN "none" ELSE ctl.op>>
  BY OperationStep
<1> QED BY TypeCorrect, <1>1, <1>2, PTL DEF GameModeSpec, ImplementsOperations, Promise!Spec

---------------------------------------------------------------------------

\* A step of the methods with labels L runs, or one of them waits.
Under(L) == ctl.at \in L \/ Top \in L

\* Record r covers what the desktop owes to the session, has nothing that
\* was so before it, and is of the session that is wanted.
Covers(r) ==
  /\ \A o \in desk.on \ was.on : r.lit /\ r.output = o
  /\ was.sink \notin {NoSink, desk.sink} =>
       /\ r.prev = was.sink
       /\ r.sink # NoSink /\ (r.sink = desk.sink \/ r.sink \notin desk.sinks)
  /\ desk.quiet # was.quiet => r.quiet
  /\ desk.win = "session" => r.placed
Sound(r) ==
  /\ r.lit => r.output \notin was.on
  /\ r.quiet => ~was.quiet
Mine(r) ==
  /\ r.lit => r.output = ctl.want.output
  /\ r.sink \in {NoSink, ctl.want.sink}
\* While an entry runs; and while the controller's own record is of a
\* session, or of one that is put back.
Entering == Under(EnterLabels)
Live == session # "none" \/ ctl.at \notin {"idle", "recover", "entered"}

\* What the desktop owes to the session is on record whenever it is not as
\* it was; and without a session the window is at home.
Desktop ==
  /\ Home \in was.on /\ was.on \subseteq desk.on /\ desk.on \subseteq desk.plugged
  /\ desk.sink \in desk.sinks /\ was.sink \in desk.sinks \cup {NoSink}
  /\ disk = NoRecord => Untouched
  /\ disk # NoRecord => Covers(disk) /\ Sound(disk)
  /\ session = "none" /\ ~Entering => desk.win = "home"
  /\ At("recover") => session = "none"
\* The controller's own record covers the same, and is of the session that
\* is wanted.
Memory ==
  /\ Live => Covers(st) /\ Sound(st)
  /\ session # "none" \/ Entering => Mine(st)
\* Where a session there was at the start is there still.
Sitting ==
  {"park", "parkMuted", "parkUnmuted", "parkRestore", "parkRestored"} \cup (ResumeLabels \ {"resume"})
\* So does the record that resume and park keep a copy of, to fall back
\* to.
Kept ==
  /\ Sound(ctl.kept) /\ Mine(ctl.kept)
  /\ At("idle") => ctl.kept = Blank
  /\ At("resumeRecord") \/ Under({"parkMuted", "parkUnmuted"}) => Covers(ctl.kept)
  /\ Under(Sitting) => session # "none"
\* Where the desktop is about to be changed, as the record on disk says
\* already.
Changing ==
  {"enterLight", "enterSetSink", "enterPlace", "enterSilence", "resumeLight", "resumeSetSink",
   "resumePlace", "resumeSilence"}
\* Where a record was just written, or is about to be.
Writing == Changing \cup {"enterOutput", "enterLoud"}
\* There the record on disk is the controller's, and has the effect that
\* is about to be made.
Recorded ==
  /\ ctl.at \in Changing => disk = st
  /\ At("enterOutput") => disk = NoRecord /\ st.output = ctl.want.output
  /\ ctl.at \in {"enterLight", "resumeLight"} => st.lit
  /\ ctl.at \in {"enterSetSink", "resumeSetSink"} => st.sink # NoSink /\ was.sink \in {NoSink, st.prev}
  /\ ctl.at \in {"enterPlace", "resumePlace"} => st.placed
  /\ ctl.at \in {"enterSilence", "enterLoud", "resumeSilence"} => st.quiet
  /\ ctl.at \in {"enterSilence", "enterLoud"} => ~desk.quiet
\* Where a restore has come to, a write of the record between two of its
\* steps included.
Stage == IF At("record") THEN ctl.next ELSE ctl.at
\* What a restore that lacks nothing so far has put back.
Restoring ==
  /\ ctl.at \in RestoreLabels /\ ctl.gone => desk.win = "home"
  /\ Stage \in RestoreLabels \ {"quiet"} /\ ctl.complete => desk.quiet = was.quiet
  /\ Stage \in RestoreLabels \ {"quiet", "window"} => desk.win = "home"
  /\ Stage \in {"output", "disable", "restored"} /\ ctl.complete => was.sink \in {NoSink, desk.sink}
  /\ Stage = "restored" /\ ctl.complete => desk.on = was.on
  /\ At("disable") => st.lit
\* An answer that says that all was put back is true, and one of a
\* session's end says that there is none.
Returned ==
  /\ ctl.at \in RestoreTops /\ ctl.ok => Untouched
  /\ (At("expose") \/ Under({"settled"})) /\ ctl.desktop => Untouched
  /\ ctl.at \in {"entered", "exited"} /\ ctl.ok => disk = NoRecord /\ session = "none"
\* The record is always enough to put the desktop back.
OnDisk == Desktop /\ Memory /\ Kept /\ Recorded /\ Restoring /\ Returned

\* What waits for a return is at none of the labels the invariant speaks of
\* as being written, changed or put back.
LEMMA Callers ==
  ASSUME Typed, ~At("idle")
  PROVE  /\ Top \in AllTops
         /\ Top \notin RestoreLabels \cup Writing \cup {"expose", "recover", "park", "resumeRecord"}
<1>1. Awaits(ctl.at, Top) /\ ctl.at \in Labels \ {"idle"}
  BY Running, Types DEF At
<1>2. Top \in AllTops
  BY <1>1 DEF Awaits, AllTops, Labels, RestoreTops, MuteTops, UnmuteTops, FinishTops, RestoreLabels, MuteLabels,
        UnmuteLabels, SettleLabels, EnterLabels, ParkLabels, RefreshLabels, ResumeLabels, ExitLabels
<1> QED BY <1>2 DEF AllTops, RestoreTops, MuteTops, UnmuteTops, FinishTops, RestoreLabels, Writing, Changing

\* Outside of these labels the parts that speak of them hold.
LEMMA Unrecorded ==
  ASSUME ctl'.at \notin Writing
  PROVE  Recorded'
BY DEF Recorded, Writing, Changing, At

LEMMA Unrestoring ==
  ASSUME ctl'.at \notin RestoreLabels
  PROVE  Restoring'
BY DEF Restoring, Stage, RestoreLabels, At

\* What follows a write within a restore.
LEMMA NextStage ==
  ASSUME Typed, At("record")
  PROVE  ctl.next \in Stages
BY DEF Typed, Control, Held, At

\* The values of the fields that the invariant compares.
LEMMA Booleans ==
  ASSUME Typed, Typed'
  PROVE  /\ desk.quiet \in BOOLEAN /\ desk'.quiet \in BOOLEAN /\ was.quiet \in BOOLEAN /\ was'.quiet \in BOOLEAN
         /\ ctl.complete \in BOOLEAN /\ ctl'.complete \in BOOLEAN /\ ctl.ok \in BOOLEAN /\ ctl'.ok \in BOOLEAN
         /\ desk.win \in {"home", "session"} /\ desk'.win \in {"home", "session"}
         /\ st # NoRecord /\ st' # NoRecord /\ ctl.kept # NoRecord
BY GameModeAssumption DEF Typed, TypeOK, Desks, Wases, Ctls

\* What waits for the return of each kind of step.
LEMMA Waiting ==
  ASSUME Typed
  PROVE  /\ At("idle") => Top = "idle"
         /\ ctl.at \in RestoreLabels => Top \in RestoreTops
         /\ ctl.at \in MuteLabels => Top \in MuteTops
         /\ ctl.at \in UnmuteLabels => Top \in UnmuteTops
         /\ At("yes") => Top \in MuteTops \cup UnmuteTops
         /\ ctl.at \in SettleLabels => Top \in FinishTops \cup {"entered"}
         /\ At("finish") => Top \in FinishTops
         /\ At("recover") => Top \in {"idle", "entered"}
         /\ ctl.at \in RefreshLabels => Top \in {"idle", "resume"}
         /\ ctl.at \in ResumeLabels => Top \in {"idle", "parkRolledBack"}
         /\ ctl.at \in EnterLabels \cup ParkLabels \cup ExitLabels \cup {"entered"} => Top = "idle"
<1>1. CASE At("idle")
  BY <1>1 DEF Typed, Control, Frames, Top, At, RestoreLabels, MuteLabels, UnmuteLabels, SettleLabels, EnterLabels, ParkLabels, RefreshLabels,
        ResumeLabels, ExitLabels
<1>2. CASE ~At("idle")
  BY <1>2, Running, Groups DEF At
<1> QED BY <1>1, <1>2

\* A return to what waits within the operation, and one that ends it.
Passes(ok) ==
  /\ Top # "idle" /\ ctl'.at = Top /\ Top' \in LowTops /\ ctl'.ok = ok /\ CtlBut({"ok"})
Rests ==
  /\ Top = "idle" /\ ctl'.at = "idle" /\ Top' = "idle" /\ ctl'.kept = Blank /\ ctl'.want = ctl.want
  /\ ctl'.op = ctl.op

\* A return is one or the other.
LEMMA ReturnCases ==
  ASSUME NEW ok, Returns(ok)
  PROVE  Passes(ok) \/ Rests
BY DEF Returns, Passes, Rests

\* What the steps that return do, where there is an operation below that
\* goes on and where there is none.
LEMMA RestoreDoneCases ==
  ASSUME Typed, RestoreDone
  PROVE  /\ Typed' /\ At("restored")
         /\ \/ /\ ctl.complete /\ disk # NoRecord /\ Passes(TRUE) /\ disk' = st
               /\ UNCHANGED <<desk, was, st, session, left>>
            \/ /\ ctl.complete /\ disk # NoRecord /\ Passes(FALSE) /\ Failed
               /\ UNCHANGED <<desk, was, disk, st, session>>
            \/ /\ (ctl.complete => disk = NoRecord) /\ Passes(ctl.complete)
               /\ UNCHANGED <<desk, was, disk, st, session, left>>
BY RestoreDoneDoes, ReturnCases, Waiting DEF At, RestoreLabels, RestoreTops, Passes, Rests

LEMMA SettledCases ==
  ASSUME Typed, Settled
  PROVE  /\ Typed' /\ At("settled")
         /\ \/ /\ ctl.ok /\ ctl.desktop /\ (Passes(TRUE) \/ Rests) /\ st' = Blank /\ disk' = NoRecord
               /\ session' = "none" /\ UNCHANGED <<desk, was, left>>
            \/ /\ ~(ctl.ok /\ ctl.desktop) /\ Goes("unsettled")
               /\ UNCHANGED <<desk, was, disk, st, session, left>>
BY SettledDoes, ReturnCases DEF At

LEMMA UnsettledCases ==
  ASSUME Typed, Unsettled
  PROVE  /\ Typed' /\ At("unsettled")
         /\ \/ /\ (Passes(FALSE) \/ Rests) /\ disk' = st /\ UNCHANGED <<desk, was, st, session, left>>
            \/ /\ (Passes(FALSE) \/ Rests) /\ Failed /\ UNCHANGED <<desk, was, disk, st, session>>
BY UnsettledDoes, ReturnCases DEF At

LEMMA RecoverCases ==
  ASSUME Typed, Recover
  PROVE  /\ Typed' /\ At("recover")
         /\ \/ /\ disk = NoRecord /\ (Passes(TRUE) \/ Rests)
               /\ UNCHANGED <<desk, was, disk, st, session, left>>
            \/ /\ disk # NoRecord /\ CallsRestore((disk.phase = "retained"), TRUE, "settle")
               /\ st' = disk /\ UNCHANGED <<desk, was, disk, session, left>>
BY RecoverDoes, ReturnCases DEF At

LEMMA EnteredCases ==
  ASSUME Typed, Entered
  PROVE  /\ Typed' /\ At("entered")
         /\ \/ /\ (~ctl.ok \/ ctl.want.output \notin desk.plugged) /\ Rests
               /\ UNCHANGED <<desk, was, disk, st, session, left>>
            \/ /\ ctl.ok /\ ctl.want.output \in desk.plugged /\ Goes("enterOutput")
               /\ st'.output = ctl.want.output /\ ~st'.lit /\ ~st'.placed /\ ~st'.quiet /\ ~st'.ending /\ st'.sink = NoSink /\ st'.prev = NoSink /\ st'.games = {} /\ st'.streams = {}
               /\ disk' = NoRecord /\ UNCHANGED <<desk, was, session, left>>
BY EnteredDoes, ReturnCases, Waiting DEF At, Passes, Rests

LEMMA EnterLastCases ==
  ASSUME Typed, EnterLast
  PROVE  /\ Typed' /\ At("enterLast")
         /\ \/ /\ Rests /\ disk' = st /\ session' = "active" /\ UNCHANGED <<desk, was, st, left>>
            \/ /\ Goes("enterFail") /\ Failed /\ UNCHANGED <<desk, was, disk, st, session>>
BY EnterLastDoes, ReturnCases, Waiting DEF At, EnterLabels, Passes, Rests

LEMMA EnterFailedCases ==
  ASSUME Typed, EnterFailed
  PROVE  /\ Typed' /\ At("enterFailed")
         /\ \/ /\ ctl.ok /\ Rests /\ st' = Blank /\ disk' = NoRecord /\ session' = "none"
               /\ UNCHANGED <<desk, was, left>>
            \/ /\ ~ctl.ok /\ Rests /\ disk' = st /\ session' = "active"
               /\ UNCHANGED <<desk, was, st, left>>
            \/ /\ ~ctl.ok /\ Rests /\ session' = "active" /\ Failed /\ UNCHANGED <<desk, was, disk, st>>
BY EnterFailedDoes, ReturnCases, Waiting DEF At, EnterLabels, Passes, Rests

LEMMA ParkUnmutedCases ==
  ASSUME Typed, ParkUnmuted
  PROVE  /\ Typed' /\ At("parkUnmuted")
         /\ \/ /\ ctl.ok /\ Rests /\ st' = ctl.kept /\ disk' = ctl.kept
               /\ UNCHANGED <<desk, was, session, left>>
            \/ /\ ctl.ok /\ Rests /\ st' = ctl.kept /\ Failed /\ UNCHANGED <<desk, was, disk, session>>
            \/ /\ ~ctl.ok /\ Rests /\ UNCHANGED <<desk, was, disk, st, session, left>>
BY ParkUnmutedDoes, ReturnCases, Waiting DEF At, ParkLabels, Passes, Rests

LEMMA ParkRestoredCases ==
  ASSUME Typed, ParkRestored
  PROVE  /\ Typed' /\ At("parkRestored")
         /\ \/ /\ ctl.ok /\ Rests /\ session' = "parked" /\ UNCHANGED <<desk, was, disk, st, left>>
            \/ /\ ~ctl.ok /\ ctl'.at = "refresh" /\ Top' = "resume" /\ CtlBut({}) /\ session' = "parked"
               /\ UNCHANGED <<desk, was, disk, st, left>>
BY ParkRestoredDoes, ReturnCases, Waiting DEF At, ParkLabels, Passes, Rests

LEMMA ParkRolledBackCases ==
  ASSUME Typed, ParkRolledBack
  PROVE  /\ Typed' /\ At("parkRolledBack")
         /\ \/ /\ session = "none" /\ Rests /\ UNCHANGED <<desk, was, disk, st, session, left>>
            \/ /\ session # "none" /\ Rests /\ disk' = st /\ UNCHANGED <<desk, was, st, session, left>>
            \/ /\ session # "none" /\ Rests /\ Failed /\ UNCHANGED <<desk, was, disk, st, session>>
BY ParkRolledBackDoes, ReturnCases, Waiting DEF At, ParkLabels, Passes, Rests

LEMMA RefreshRestoredCases ==
  ASSUME Typed, RefreshRestored
  PROVE  /\ Typed' /\ At("refreshRestored")
         /\ \/ /\ ctl.ok /\ ctl.desktop /\ (Passes(TRUE) \/ Rests) /\ disk' = st
               /\ UNCHANGED <<desk, was, st, session, left>>
            \/ /\ ctl.ok /\ ctl.desktop /\ (Passes(FALSE) \/ Rests) /\ Failed
               /\ UNCHANGED <<desk, was, disk, st, session>>
            \/ /\ ~(ctl.ok /\ ctl.desktop) /\ (Passes(FALSE) \/ Rests)
               /\ UNCHANGED <<desk, was, disk, st, session, left>>
BY RefreshRestoredDoes, ReturnCases DEF At

LEMMA RefreshMutedCases ==
  ASSUME Typed, RefreshMuted
  PROVE  /\ Typed' /\ At("refreshMuted")
         /\ \/ /\ ctl.ok /\ (Passes(TRUE) \/ Rests) /\ UNCHANGED <<desk, was, disk, st, session, left>>
            \/ /\ ~ctl.ok /\ Calls("finish", "no") /\ UNCHANGED <<desk, was, disk, st, session, left>>
BY RefreshMutedDoes, ReturnCases DEF At

LEMMA ResumeCaptureCases ==
  ASSUME Typed, ResumeCapture
  PROVE  /\ Typed' /\ At("resume")
         /\ \/ /\ (~ctl.ok \/ session # "parked") /\ (Passes(ctl.ok) \/ Rests)
               /\ UNCHANGED <<desk, was, disk, st, session, left>>
            \/ /\ ctl.ok /\ session = "parked" /\ (Passes(FALSE) \/ Rests) /\ Failed
               /\ UNCHANGED <<desk, was, disk, st, session>>
            \/ /\ ctl.ok /\ session = "parked" /\ ctl.want.output \notin desk.plugged
               /\ (Passes(FALSE) \/ Rests) /\ UNCHANGED <<desk, was, disk, st, session, left>>
            \/ /\ ctl.ok /\ session = "parked" /\ ctl.want.output \in desk.plugged
               /\ ctl'.at = "resumeRecord" /\ Top' = Top /\ ctl'.kept = st /\ CtlBut({"kept"})
               /\ st'.output = ctl.want.output /\ (st'.lit = (st.lit \/ ctl.want.output \notin desk.on))
               /\ StBut({"output", "lit"}) /\ UNCHANGED <<desk, was, disk, session, left>>
BY ResumeCaptureDoes, ReturnCases DEF At

LEMMA ResumeHeardCases ==
  ASSUME Typed, ResumeHeard
  PROVE  /\ Typed' /\ At("resumeHeard")
         /\ \/ /\ ~ctl.ok /\ Goes("resumeFail") /\ UNCHANGED <<desk, was, disk, st, session, left>>
            \/ /\ ctl.ok /\ (Passes(TRUE) \/ Rests) /\ StBut({}) /\ disk' = st' /\ session' = "active"
               /\ UNCHANGED <<desk, was, left>>
            \/ /\ ctl.ok /\ Goes("resumeFail") /\ StBut({}) /\ Failed
               /\ UNCHANGED <<desk, was, disk, session>>
BY ResumeHeardDoes, ReturnCases DEF At

LEMMA ExitRestoredCases ==
  ASSUME Typed, ExitRestored
  PROVE  /\ Typed' /\ At("exitRestored")
         /\ \/ /\ ctl.ok /\ ctl.desktop /\ Rests /\ st' = Blank /\ disk' = NoRecord /\ session' = "none"
               /\ UNCHANGED <<desk, was, left>>
            \/ /\ ~(ctl.ok /\ ctl.desktop) /\ Rests /\ disk' = st
               /\ UNCHANGED <<desk, was, st, session, left>>
            \/ /\ ~(ctl.ok /\ ctl.desktop) /\ Rests /\ Failed
               /\ UNCHANGED <<desk, was, disk, st, session>>
BY ExitRestoredDoes, ReturnCases, Waiting DEF At, ExitLabels, Passes, Rests

LEMMA ExitedCases ==
  ASSUME Typed, Exited
  PROVE  /\ Typed' /\ At("exited")
         /\ \/ /\ ctl.ok /\ Rests /\ st' = Blank /\ disk' = NoRecord /\ session' = "none"
               /\ UNCHANGED <<desk, was, left>>
            \/ /\ ~ctl.ok /\ Rests /\ disk' = st /\ UNCHANGED <<desk, was, st, session, left>>
            \/ /\ ~ctl.ok /\ Rests /\ Failed /\ UNCHANGED <<desk, was, disk, st, session>>
BY ExitedDoes, ReturnCases, Waiting DEF At, ExitLabels, Passes, Rests

\* What a record of no session holds.
LEMMA BlankFields ==
  /\ ~Blank.lit /\ ~Blank.placed /\ ~Blank.quiet /\ ~Blank.ending
  /\ Blank.sink = NoSink /\ Blank.prev = NoSink /\ Blank.games = {} /\ Blank.streams = {}
BY DEF Blank

\* The record stays enough by a return of an answer and by a kill.
LEMMA AnswerOnDisk ==
  ASSUME Typed, OnDisk, Answer
  PROVE  OnDisk'
<1>1. \/ /\ Typed' /\ At("yes") /\ Passes(TRUE) /\ UNCHANGED <<desk, was, disk, st, session, left>>
      \/ /\ Typed' /\ At("no") /\ (Passes(FALSE) \/ Rests) /\ UNCHANGED <<desk, was, disk, st, session, left>>
  BY AnswerDoes, ReturnCases, Waiting DEF At, Passes, Rests, MuteTops, UnmuteTops
<1>2. ~At("idle") /\ (At("yes") => Top \notin RestoreTops /\ Top \notin {"entered", "exited"})
  BY <1>1, Waiting DEF At, MuteTops, UnmuteTops, RestoreTops
<1>3. Desktop'
  BY <1>1, <1>2, Callers, Booleans
     DEF At, Passes, Rests, LowTops, FinishTops, OnDisk, Desktop, Entering, Under, Covers, Sound, Untouched,
         EnterLabels, CtlBut
<1>4. Memory'
  BY <1>1, <1>2, Callers, Booleans
     DEF At, Passes, Rests, LowTops, FinishTops, OnDisk, Desktop, Memory, Live, Entering, Under, Covers, Sound, Mine,
         EnterLabels, CtlBut
<1>5. Kept'
  BY <1>1, <1>2, Callers, Booleans, BlankFields
     DEF At, Passes, Rests, LowTops, FinishTops, OnDisk, Kept, Under, Sitting, ResumeLabels, Covers, Sound, Mine, CtlBut
<1>6. Recorded'
  BY <1>1, <1>2, Callers, Unrecorded DEF At, Passes, Rests, Writing, Changing
<1>7. Restoring'
  BY <1>1, <1>2, Callers, Unrestoring DEF At, Passes, Rests, RestoreLabels
<1>8. Returned'
  BY <1>1, <1>2, Callers, Booleans
     DEF At, Passes, Rests, LowTops, FinishTops, RestoreTops, OnDisk, Returned, Under, Untouched, CtlBut
<1> QED BY <1>3, <1>4, <1>5, <1>6, <1>7, <1>8 DEF OnDisk

LEMMA KillOnDisk ==
  ASSUME Typed, OnDisk, Kill
  PROVE  OnDisk'
<1>1. /\ desk'.win = "home" /\ DeskBut({"win"}) /\ was' = was /\ disk' = disk /\ st' = Blank /\ session' = "none"
      /\ ctl'.at = "idle" /\ Top' = "idle" /\ ctl'.kept = Blank
  BY KillDoes
<1>2. Desktop'
  BY <1>1 DEF OnDisk, Desktop, Covers, Sound, Untouched, DeskBut, At
<1>3. Memory'
  BY <1>1 DEF Memory, Live, Entering, Under, EnterLabels
<1>4. Kept'
  BY <1>1, BlankFields DEF Kept, Under, Sitting, ResumeLabels, Sound, Mine, At
<1>5. Recorded' /\ Restoring'
  BY <1>1, Unrecorded, Unrestoring DEF Writing, Changing, RestoreLabels
<1>6. Returned'
  BY <1>1 DEF Returned, RestoreTops, Under, At
<1> QED BY <1>2, <1>3, <1>4, <1>5, <1>6 DEF OnDisk

\* What the games do and what the player mutes touches none of it.
LEMMA ElsewhereOnDisk ==
  ASSUME OnDisk, ctl' = ctl, Top' = Top, disk' = disk, st' = st, session' = session,
         DeskBut({"games", "inside", "muted", "over", "at"}), WasBut({"muted"})
  PROVE  OnDisk'
<1>1. /\ Desktop' /\ Memory'
  BY DEF OnDisk, Desktop, Memory, Live, Entering, Under, Covers, Sound, Mine, Untouched, DeskBut, WasBut, At
<1>2. Kept' /\ Recorded'
  BY DEF OnDisk, Kept, Recorded, Under, Covers, Sound, Mine, DeskBut, WasBut, At
<1>3. Restoring' /\ Returned'
  BY DEF OnDisk, Restoring, Returned, Stage, Under, Untouched, DeskBut, WasBut, At
<1> QED BY <1>1, <1>2, <1>3 DEF OnDisk

\* What the player sets or unplugs is what the desktop was before a
\* session from then on.
LEMMA PlayerPicksSinkOnDisk ==
  ASSUME Typed, OnDisk, NEW s \in Sinks, PlayerPicksSink(s)
  PROVE  OnDisk'
<1>1. /\ At("idle") /\ s \in desk.sinks \ {desk.sink, st.sink} /\ (disk # NoRecord => s # disk.sink)
      /\ desk'.sink = s /\ DeskBut({"sink"}) /\ was'.sink = s /\ WasBut({"sink"})
      /\ UNCHANGED <<disk, st, session, ctl>> /\ Top' = Top
  BY PlayerPicksSinkDoes, IdleStays
<1>2. s # NoSink
  BY GameModeAssumption
<1>3. Desktop'
  BY <1>1, <1>2 DEF OnDisk, Desktop, Entering, Under, Covers, Sound, Untouched, DeskBut, WasBut, At
<1>4. Memory'
  BY <1>1, <1>2 DEF OnDisk, Memory, Live, Entering, Under, Covers, Sound, Mine, DeskBut, WasBut, At
<1>5. Kept'
  BY <1>1, <1>2, BlankFields, Waiting
     DEF OnDisk, Kept, Under, Sitting, ResumeLabels, Covers, Sound, Mine, DeskBut, WasBut, At
<1>6. Recorded' /\ Restoring'
  BY <1>1, Unrecorded, Unrestoring DEF Writing, Changing, RestoreLabels, At
<1>7. Returned'
  BY <1>1, Waiting DEF Returned, RestoreTops, Under, At
<1> QED BY <1>3, <1>4, <1>5, <1>6, <1>7 DEF OnDisk

LEMMA SinkGoesOnDisk ==
  ASSUME Typed, OnDisk, NEW s \in Sinks, SinkGoes(s)
  PROVE  OnDisk'
<1>1. /\ s \in desk.sinks /\ desk'.sinks = desk.sinks \ {s} /\ DeskBut({"sinks", "sink"}) /\ WasBut({"sink"})
      /\ desk'.sink \in (IF s = desk.sink THEN desk.sinks \ {s} ELSE {desk.sink})
      /\ was'.sink = IF was.sink # s THEN was.sink
                     ELSE IF disk = NoRecord \/ disk.sink = NoSink THEN desk'.sink ELSE NoSink
      /\ UNCHANGED <<disk, st, session, ctl>> /\ Top' = Top
  BY SinkGoesDoes, IdleStays
<1>2. s # NoSink /\ desk.sink \in desk.sinks /\ was.sink \in desk.sinks \cup {NoSink}
  BY GameModeAssumption DEF OnDisk, Desktop
<1>3. was.sink \in {NoSink, desk.sink} => was'.sink \in {NoSink, desk'.sink}
  BY <1>1
<1>4. was.sink \notin {NoSink, desk.sink} => disk # NoRecord /\ disk.sink # NoSink
  BY DEF OnDisk, Desktop, Covers, Untouched
<1>5. was'.sink \notin {NoSink, desk'.sink} =>
        /\ was.sink \notin {NoSink, desk.sink} /\ was'.sink = was.sink
        /\ desk'.sink = desk.sink \/ desk.sink \notin desk'.sinks
  BY <1>1, <1>3, <1>4
<1>6. /\ desk'.sink \in desk'.sinks /\ was'.sink \in desk'.sinks \cup {NoSink}
      /\ desk'.sinks \subseteq desk.sinks
  BY <1>1, <1>2
<1>7. Untouched => Untouched'
  BY <1>1, <1>3 DEF Untouched, DeskBut, WasBut
<1>8. /\ Covers(disk) => Covers(disk)'
      /\ Covers(st) => Covers(st)'
      /\ Covers(ctl.kept) => Covers(ctl.kept)'
  BY <1>1, <1>5, <1>6 DEF Covers, DeskBut, WasBut
<1>9. Desktop'
  BY <1>1, <1>6, <1>7, <1>8 DEF OnDisk, Desktop, Entering, Under, Sound, DeskBut, WasBut, At
<1>10. Memory'
  BY <1>1, <1>8 DEF OnDisk, Memory, Live, Entering, Under, Sound, Mine, WasBut
<1>11. Kept'
  BY <1>1, <1>8 DEF OnDisk, Kept, Under, Sound, Mine, WasBut, At
<1>12. Recorded'
  <2>1. was.sink \in {NoSink, st.prev} /\ disk = st /\ st.sink # NoSink => was'.sink \in {NoSink, st.prev}
    BY <1>1, Types, GameModeAssumption
  <2> QED BY <1>1, <2>1 DEF OnDisk, Recorded, Changing, DeskBut, At
<1>13. Restoring'
  BY <1>1, <1>3 DEF OnDisk, Restoring, Stage, DeskBut, WasBut, At
<1>14. Returned'
  BY <1>1, <1>7 DEF OnDisk, Returned, Under, At
<1> QED BY <1>9, <1>10, <1>11, <1>12, <1>13, <1>14 DEF OnDisk

LEMMA UnplugOnDisk ==
  ASSUME Typed, OnDisk, NEW o \in Outputs, Unplug(o)
  PROVE  OnDisk'
<1>1. /\ o # Home /\ desk'.plugged = desk.plugged \ {o} /\ desk'.on = desk.on \ {o}
      /\ DeskBut({"plugged", "on", "at"}) /\ was'.on = was.on \ {o} /\ WasBut({"on"})
      /\ UNCHANGED <<disk, st, session, ctl>> /\ Top' = Top
  BY UnplugDoes, IdleStays
<1>2. Untouched => Untouched'
  BY <1>1 DEF Untouched, DeskBut, WasBut
<1>3. /\ \A r : Covers(r) => desk'.on \ was'.on \subseteq desk.on \ was.on
      /\ desk.on = was.on => desk'.on = was'.on
  BY <1>1
<1>4. \A r : Sound(r) => r.output \notin was'.on \/ ~r.lit
  BY <1>1 DEF Sound
<1>5. Covers(disk) /\ Sound(disk) => Covers(disk)' /\ Sound(disk)'
  BY <1>1, <1>3, <1>4 DEF Covers, Sound, DeskBut, WasBut
<1>6. /\ Covers(st) => Covers(st)'
      /\ Sound(st) => Sound(st)'
  BY <1>1, <1>3, <1>4 DEF Covers, Sound, DeskBut, WasBut
<1>7. /\ Covers(ctl.kept) => Covers(ctl.kept)'
      /\ Sound(ctl.kept) => Sound(ctl.kept)'
  BY <1>1, <1>3, <1>4 DEF Covers, Sound, DeskBut, WasBut
<1>8. Desktop'
  BY <1>1, <1>2, <1>5 DEF OnDisk, Desktop, Entering, Under, DeskBut, WasBut, At
<1>9. Memory'
  BY <1>1, <1>6 DEF OnDisk, Memory, Live, Entering, Under, Mine
<1>10. Kept'
  BY <1>1, <1>7 DEF OnDisk, Kept, Under, Mine, At
<1>11. Recorded'
  BY <1>1 DEF OnDisk, Recorded, DeskBut, WasBut, At
<1>12. Restoring'
  BY <1>1, <1>3 DEF OnDisk, Restoring, Stage, DeskBut, WasBut, At
<1>13. Returned'
  BY <1>1, <1>2 DEF OnDisk, Returned, Under, At
<1> QED BY <1>8, <1>9, <1>10, <1>11, <1>12, <1>13 DEF OnDisk

LEMMA WorldOnDisk ==
  ASSUME Typed, OnDisk, World
  PROVE  OnDisk'
<1>1. CASE Kill
  BY <1>1, KillOnDisk
<1>2. ASSUME NEW g \in Games, GameStarts(g) PROVE OnDisk'
  <2>1. /\ DeskBut({"games", "inside", "muted", "over", "at"}) /\ WasBut({"muted"})
        /\ UNCHANGED <<disk, st, session, ctl>> /\ Top' = Top
    BY <1>2, GameStartsDoes, IdleStays DEF DeskBut
  <2> QED BY <2>1, ElsewhereOnDisk
<1>3. ASSUME NEW g \in Games, GameEnds(g) PROVE OnDisk'
  <2>1. /\ DeskBut({"games", "inside", "muted", "over", "at"}) /\ WasBut({"muted"})
        /\ UNCHANGED <<disk, st, session, ctl>> /\ Top' = Top
    BY <1>3, GameEndsDoes, IdleStays DEF DeskBut
  <2> QED BY <2>1, ElsewhereOnDisk
<1>4. ASSUME NEW s \in Sinks, PlayerPicksSink(s) \/ SinkGoes(s) PROVE OnDisk'
  BY <1>4, PlayerPicksSinkOnDisk, SinkGoesOnDisk
<1>5. ASSUME NEW o \in Outputs, Unplug(o) PROVE OnDisk'
  BY <1>5, UnplugOnDisk
<1> QED BY <1>1, <1>2, <1>3, <1>4, <1>5 DEF World

\* It is enough before anything was done.
LEMMA InitOnDisk == GameModeInit => OnDisk
<1> SUFFICES ASSUME GameModeInit PROVE OnDisk
  OBVIOUS
<1>1. PICK on \in {{Home}, Outputs}, quiet \in BOOLEAN, sink \in Sinks :
        /\ desk = [plugged |-> Outputs, on |-> on, sinks |-> Sinks, sink |-> sink, quiet |-> quiet, win |-> "home",
                   at |-> Home, inside |-> {}, games |-> {}, over |-> {}, muted |-> {}]
        /\ was = [on |-> on, sink |-> sink, quiet |-> quiet, muted |-> {}]
  BY DEF GameModeInit
<1>2. disk = NoRecord /\ st = Blank /\ session = "none" /\ ctl.at = "idle" /\ ctl.stack = <<>> /\ ctl.kept = Blank
  BY DEF GameModeInit, Resting
<1>3. Top = "idle"
  BY <1>2 DEF Top
<1>4. Untouched /\ Home \in was.on /\ desk.on = was.on /\ desk.on \subseteq desk.plugged
      /\ desk.sink \in desk.sinks /\ was.sink \in desk.sinks /\ desk.win = "home"
  BY <1>1, GameModeAssumption DEF Untouched
<1>5. Desktop
  BY <1>2, <1>4 DEF Desktop, At
<1>6. Memory
  BY <1>2, <1>3 DEF Memory, Live, Entering, Under, EnterLabels
<1>7. Kept
  BY <1>2, <1>3, BlankFields DEF Kept, Under, Sitting, ResumeLabels, Sound, Mine, At
<1>8. Recorded /\ Restoring
  BY <1>2 DEF Recorded, Changing, Restoring, Stage, RestoreLabels, At
<1>9. Returned
  BY <1>2, <1>3 DEF Returned, RestoreTops, Under, At
<1> QED BY <1>5, <1>6, <1>7, <1>8, <1>9 DEF OnDisk

\* It stays enough by each step of the controller: an effect is on record
\* before it is made, and is off the record only after it was put back.
LEMMA RestoresOnDisk ==
  ASSUME Typed, OnDisk, Restores
  PROVE  OnDisk'
<1>1. CASE RecordUndone
  <2>1. Desktop' /\ Memory' /\ Kept' /\ Restoring' /\ Returned'
    BY <1>1, RecordUndoneDoes, Booleans, BlankFields, NextStage, Waiting
       DEF At, Goes, Lacks, Stages, RestoreLabels, RestoreTops, OnDisk, Desktop, Memory, Kept,
           Sitting, ResumeLabels, Mine, Recorded, Restoring, Returned, Live, Entering, Under,
           Covers, Sound, Untouched, Changing, Stage, EnterLabels, CtlBut
  <2>2. Recorded'
    BY <1>1, RecordUndoneDoes, Unrecorded, NextStage
       DEF At, Goes, Lacks, Writing, Changing, Stages
  <2> QED BY <2>1, <2>2 DEF OnDisk
<1>2. CASE RestoreQuiet
  <2>1. Desktop' /\ Memory' /\ Kept' /\ Restoring' /\ Returned'
    BY <1>2, RestoreQuietDoes, Booleans, BlankFields, Waiting
       DEF At, Goes, Lacks, Registers, RestoreLabels, RestoreTops, OnDisk, Desktop, Memory, Kept,
           Sitting, ResumeLabels, Mine, Recorded, Restoring, Returned, Live, Entering, Under,
           Covers, Sound, Untouched, Changing, Stage, EnterLabels, CtlBut, DeskBut, StBut, Stages
  <2>2. Recorded'
    BY <1>2, RestoreQuietDoes, Unrecorded
       DEF At, Goes, Lacks, Registers, Writing, Changing
  <2> QED BY <2>1, <2>2 DEF OnDisk
<1>3. CASE RestoreWindow
  <2>1. Desktop' /\ Memory' /\ Kept' /\ Restoring' /\ Returned'
    BY <1>3, RestoreWindowDoes, Booleans, BlankFields, Waiting
       DEF At, Goes, RestoreLabels, RestoreTops, OnDisk, Desktop, Memory, Kept, Sitting,
           ResumeLabels, Mine, Recorded, Restoring, Returned, Live, Entering, Under, Covers, Sound,
           Untouched, Changing, Stage, EnterLabels, CtlBut, DeskBut, StBut, Stages
  <2>2. Recorded'
    BY <1>3, RestoreWindowDoes, Unrecorded
       DEF At, Goes, Writing, Changing
  <2> QED BY <2>1, <2>2 DEF OnDisk
<1>4. CASE RestoreLeftover
  <2>1. Desktop' /\ Memory' /\ Kept' /\ Restoring' /\ Returned'
    BY <1>4, RestoreLeftoverDoes, Booleans, BlankFields, Waiting
       DEF At, Goes, Lacks, RestoreLabels, RestoreTops, OnDisk, Desktop, Memory, Kept, Sitting,
           ResumeLabels, Mine, Recorded, Restoring, Returned, Live, Entering, Under, Covers, Sound,
           Untouched, Changing, Stage, EnterLabels, CtlBut, DeskBut, Stages
  <2>2. Recorded'
    BY <1>4, RestoreLeftoverDoes, Unrecorded
       DEF At, Goes, Lacks, Writing, Changing
  <2> QED BY <2>1, <2>2 DEF OnDisk
<1>5. CASE RestoreFocus
  <2>1. Desktop' /\ Memory' /\ Kept' /\ Restoring' /\ Returned'
    BY <1>5, RestoreFocusDoes, Booleans, BlankFields, Waiting
       DEF At, Goes, Lacks, Registers, RestoreLabels, RestoreTops, OnDisk, Desktop, Memory, Kept,
           Sitting, ResumeLabels, Mine, Recorded, Restoring, Returned, Live, Entering, Under,
           Covers, Sound, Untouched, Changing, Stage, EnterLabels, CtlBut, StBut, Stages
  <2>2. Recorded'
    BY <1>5, RestoreFocusDoes, Unrecorded
       DEF At, Goes, Lacks, Registers, Writing, Changing
  <2> QED BY <2>1, <2>2 DEF OnDisk
<1>6. CASE RestoreSink
  <2>0. /\ At("sink") /\ Covers(st) /\ desk.sink \in desk.sinks /\ was.sink \in desk.sinks \cup {NoSink}
    BY <1>6, RestoreSinkDoes DEF OnDisk, Desktop, Memory, Live, At
  <2>1. /\ \/ Goes("output") /\ UNCHANGED <<desk, was, st>>
           \/ Registers("output") /\ st'.sink = NoSink /\ StBut({"sink", "prev"})
           \/ Lacks("output") /\ UNCHANGED <<desk, was, st>>
        /\ DeskBut({"sink"}) /\ WasBut({"sink"}) /\ disk' = disk /\ session' = session
        /\ desk'.sink \in desk.sinks /\ was'.sink \in desk.sinks \cup {NoSink}
    BY <1>6, <2>0, RestoreSinkDoes DEF DeskBut, WasBut, PutBack, Without
  <2>2. \/ was'.sink \in {NoSink, desk'.sink}
        \/ Lacks("output") /\ UNCHANGED <<desk, was, st>>
    BY <1>6, <2>0, RestoreSinkDoes DEF Covers, PutBack, Without
  <2>3. Desktop'
    BY <2>0, <2>1, <2>2 DEF At, Goes, Lacks, Registers, OnDisk, Desktop, Entering, Under, EnterLabels,
       Covers, Sound, Untouched, DeskBut, WasBut
  <2>4. Memory'
    <3>1. Covers(st)'
      BY <2>0, <2>1, <2>2 DEF Covers, DeskBut, WasBut, StBut
    <3>2. (Entering' => Entering) /\ ctl'.want = ctl.want /\ Live
      BY <2>0, <2>1 DEF At, Goes, Lacks, Registers, Entering, Under, EnterLabels, Live, CtlBut
    <3>3. (Sound(st) => Sound(st)') /\ (Mine(st) => Mine(st)')
      BY <2>1, <3>2 DEF Sound, Mine, WasBut, StBut
    <3> QED BY <2>1, <3>1, <3>2, <3>3 DEF OnDisk, Memory
  <2>5. Kept'
    BY <2>0, <2>1, Waiting DEF At, Goes, Lacks, Registers, RestoreLabels, RestoreTops, OnDisk, Kept, Under,
       Sitting, ResumeLabels, Sound, Mine, CtlBut, WasBut
  <2>6. Restoring'
    BY <2>0, <2>1, <2>2, Booleans DEF At, Goes, Lacks, Registers, RestoreLabels, OnDisk, Restoring, Stage, CtlBut,
       DeskBut, WasBut
  <2>7. Returned'
    BY <2>0, <2>1, Waiting DEF At, Goes, Lacks, Registers, RestoreLabels, RestoreTops, OnDisk, Returned, Under, CtlBut
  <2>8. Recorded'
    BY <2>0, <2>1, Unrecorded DEF At, Goes, Lacks, Registers, Writing, Changing
  <2> QED BY <2>3, <2>4, <2>5, <2>6, <2>7, <2>8 DEF OnDisk
<1>7. CASE RestoreOutput
  <2>1. Desktop' /\ Memory' /\ Kept' /\ Returned'
    BY <1>7, RestoreOutputDoes, Booleans, BlankFields, Waiting
       DEF At, Goes, Lacks, Registers, RestoreLabels, RestoreTops, Unplugged, MustMove, OnDisk,
           Desktop, Memory, Kept, Sitting, ResumeLabels, Mine, Recorded, Restoring, Returned, Live,
           Entering, Under, Covers, Sound, Untouched, Changing, Stage, EnterLabels, CtlBut, DeskBut,
           StBut
  <2>2. Recorded'
    BY <1>7, RestoreOutputDoes, Unrecorded
       DEF At, Goes, Lacks, Registers, Writing, Changing
  <2>3. Restoring'
    <3>1. ~st.lit => desk.on = was.on
      <4>1. Covers(st) /\ was.on \subseteq desk.on
        BY <1>7, RestoreOutputDoes DEF OnDisk, Desktop, Memory, Live, At
      <4> QED BY <4>1 DEF Covers
    <3>2. st.lit /\ Unplugged => desk.on = was.on
      <4>1. Covers(st) /\ was.on \subseteq desk.on /\ desk.on \subseteq desk.plugged
        BY <1>7, RestoreOutputDoes DEF OnDisk, Desktop, Memory, Live, At
      <4> QED BY <4>1 DEF Covers, Unplugged
    <3> QED
      BY <1>7, <3>1, <3>2, RestoreOutputDoes, Booleans
         DEF At, Goes, Lacks, Registers, RestoreLabels, OnDisk, Restoring, Stage, CtlBut, DeskBut, StBut
  <2> QED BY <2>1, <2>2, <2>3 DEF OnDisk
<1>8. CASE RestoreDisable
  <2>0. Covers(st) /\ Sound(st) /\ st.lit /\ Home \in was.on /\ was.on \subseteq desk.on /\ desk.on \subseteq desk.plugged
    BY <1>8, RestoreDisableDoes DEF OnDisk, Desktop, Memory, Restoring, Live, At
  <2>9. desk.on \ {st.output} = was.on
    BY <2>0 DEF Covers, Sound
  <2>1. Desktop'
    <3>1. was.on \subseteq desk'.on /\ desk'.on \subseteq desk'.plugged /\ was' = was /\ disk' = disk /\ session' = session
          /\ desk'.on \subseteq desk.on
      BY <1>8, <2>0, <2>9, RestoreDisableDoes DEF DeskBut
    <3>2. desk.on = was.on => desk'.on = was.on
      BY <2>0, <3>1
    <3>3. /\ desk'.sinks = desk.sinks /\ desk'.sink = desk.sink /\ desk'.quiet = desk.quiet /\ desk'.win = desk.win /\ Top' = Top
          /\ ctl.at = "disable" /\ ctl'.at \in {"record", "restored"}
      BY <1>8, RestoreDisableDoes DEF At, Lacks, Registers, DeskBut
    <3>4. Untouched => Untouched'
      BY <3>1, <3>2, <3>3 DEF Untouched
    <3>5. disk # NoRecord /\ Covers(disk) /\ Sound(disk) => Covers(disk)' /\ Sound(disk)'
      BY <3>1, <3>3 DEF Covers, Sound
    <3>6. Entering => Entering'
      BY <3>3 DEF Entering, Under, EnterLabels
    <3> QED BY <2>0, <3>1, <3>3, <3>4, <3>5, <3>6 DEF OnDisk, Desktop, At
  <2>2. Memory'
    BY <1>8, <2>0, RestoreDisableDoes, Booleans, BlankFields, Waiting
       DEF At, Lacks, Registers, RestoreLabels, RestoreTops, OnDisk, Untouched, Desktop, Memory, Kept, Sitting, ResumeLabels, Recorded, Restoring, Returned, Live, Entering, Under, Covers, Sound, Mine, Changing, Stage, EnterLabels, CtlBut, DeskBut, StBut
  <2>3. Kept'
    BY <1>8, <2>0, RestoreDisableDoes, Booleans, BlankFields, Waiting
       DEF At, Lacks, Registers, RestoreLabels, RestoreTops, OnDisk, Memory, Kept, Sitting, ResumeLabels, Live, Entering, Under, Covers, Sound, Mine, EnterLabels, CtlBut, DeskBut, StBut
  <2>4. Recorded'
    BY <1>8, <2>0, RestoreDisableDoes, Unrecorded
       DEF At, Lacks, Registers, Writing, Changing
  <2>5. Restoring'
    BY <1>8, <2>9, RestoreDisableDoes, Booleans
       DEF At, Lacks, Registers, RestoreLabels, OnDisk, Restoring, Stage, CtlBut, DeskBut
  <2>6. Returned'
    BY <1>8, <2>0, RestoreDisableDoes, Booleans, BlankFields, Waiting
       DEF At, Lacks, Registers, RestoreLabels, RestoreTops, OnDisk, Desktop, Memory, Restoring, Returned, Under, Covers, Sound, Untouched, Stage, CtlBut, DeskBut, StBut
  <2> QED BY <2>1, <2>2, <2>3, <2>4, <2>5, <2>6 DEF OnDisk
<1>9. CASE RestoreDone
  <2>0. /\ Typed' /\ At("restored")
       /\ \/ /\ ctl.complete /\ disk # NoRecord /\ Passes(TRUE) /\ disk' = st
             /\ UNCHANGED <<desk, was, st, session, left>>
          \/ /\ ctl.complete /\ disk # NoRecord /\ Passes(FALSE) /\ Failed
             /\ UNCHANGED <<desk, was, disk, st, session>>
          \/ /\ (ctl.complete => disk = NoRecord) /\ Passes(ctl.complete)
             /\ UNCHANGED <<desk, was, disk, st, session, left>>
    BY <1>9, RestoreDoneCases
  <2>1. Desktop' /\ Memory' /\ Kept' /\ Returned'
    BY <1>9, <2>0, Callers, Booleans, BlankFields, Waiting
       DEF At, Passes, LowTops, FinishTops, RestoreLabels, RestoreTops, OnDisk, Desktop, Memory,
           Kept, Sitting, ResumeLabels, Mine, Recorded, Restoring, Returned, Live, Entering, Under,
           Covers, Sound, Untouched, Changing, Stage, EnterLabels, CtlBut
  <2>2. Recorded' /\ Restoring'
    BY <1>9, <2>0, Callers, Unrecorded, Unrestoring
       DEF At, Passes, Writing, Changing, RestoreLabels
  <2> QED BY <2>1, <2>2 DEF OnDisk
<1> QED BY <1>1, <1>2, <1>3, <1>4, <1>5, <1>6, <1>7, <1>8, <1>9 DEF Restores

LEMMA MutesOnDisk ==
  ASSUME Typed, OnDisk, Mutes
  PROVE  OnDisk'
<1>1. CASE MuteGames
  <2>1. Desktop' /\ Memory' /\ Kept' /\ Returned'
    BY <1>1, MuteGamesDoes, Booleans, BlankFields, Waiting
       DEF At, Goes, MuteLabels, MuteTops, OnDisk, Desktop, Memory, Kept, Sitting, ResumeLabels,
           Mine, RestoreTops, Recorded, Restoring, Returned, Live, Entering, Under, Covers, Sound,
           Untouched, Changing, Stage, EnterLabels, CtlBut, RestoreLabels
  <2>2. Recorded' /\ Restoring'
    BY <1>1, MuteGamesDoes, Unrecorded, Unrestoring
       DEF At, Goes, Writing, Changing, RestoreLabels
  <2> QED BY <2>1, <2>2 DEF OnDisk
<1>2. CASE MuteRecord
  <2>1. Desktop' /\ Memory' /\ Kept' /\ Returned'
    BY <1>2, MuteRecordDoes, Booleans, BlankFields, Waiting
       DEF At, Goes, MuteLabels, MuteTops, OnDisk, Desktop, Memory, Kept, Sitting, ResumeLabels,
           Mine, RestoreTops, Recorded, Restoring, Returned, Live, Entering, Under, Covers, Sound,
           Untouched, Changing, Stage, EnterLabels, CtlBut, StBut, RestoreLabels
  <2>2. Recorded' /\ Restoring'
    BY <1>2, MuteRecordDoes, Unrecorded, Unrestoring
       DEF At, Goes, Writing, Changing, RestoreLabels
  <2> QED BY <2>1, <2>2 DEF OnDisk
<1>3. CASE MuteOne
  <2>1. Desktop' /\ Memory' /\ Kept' /\ Returned'
    BY <1>3, MuteOneDoes, Booleans, BlankFields, Waiting
       DEF At, Goes, MuteLabels, MuteTops, OnDisk, Desktop, Memory, Kept, Sitting, ResumeLabels,
           Mine, RestoreTops, Recorded, Restoring, Returned, Live, Entering, Under, Covers, Sound,
           Untouched, Changing, Stage, EnterLabels, CtlBut, DeskBut, RestoreLabels
  <2>2. Recorded' /\ Restoring'
    BY <1>3, MuteOneDoes, Unrecorded, Unrestoring
       DEF At, Goes, Writing, Changing, RestoreLabels
  <2> QED BY <2>1, <2>2 DEF OnDisk
<1>4. CASE UnmuteGames
  <2>1. Desktop' /\ Memory' /\ Kept' /\ Returned'
    BY <1>4, UnmuteGamesDoes, Booleans, BlankFields, Waiting
       DEF At, Goes, UnmuteLabels, UnmuteTops, OnDisk, Desktop, Memory, Kept, Sitting, ResumeLabels,
           Mine, RestoreTops, Recorded, Restoring, Returned, Live, Entering, Under, Covers, Sound,
           Untouched, Changing, Stage, EnterLabels, CtlBut, RestoreLabels
  <2>2. Recorded' /\ Restoring'
    BY <1>4, UnmuteGamesDoes, Unrecorded, Unrestoring
       DEF At, Goes, Writing, Changing, RestoreLabels
  <2> QED BY <2>1, <2>2 DEF OnDisk
<1>5. CASE UnmuteOne
  <2>0. /\ Typed' /\ At("unmuteNext") /\ UNCHANGED <<was, disk, st, session>> /\ DeskBut({"muted"})
        /\ ctl'.at \in {"yes", "no", "unmuted", "unmuteNext"} /\ Top' = Top /\ CtlBut({"todo", "one", "audio"})
    BY <1>5, UnmuteOneDoes DEF Goes, CtlBut, DeskBut
  <2>1. Desktop' /\ Memory' /\ Kept' /\ Returned'
    BY <1>5, <2>0, Booleans, BlankFields, Waiting
       DEF At, Goes, UnmuteLabels, UnmuteTops, OnDisk, Desktop, Memory, Kept, Sitting, ResumeLabels,
           Mine, RestoreTops, Recorded, Restoring, Returned, Live, Entering, Under, Covers, Sound,
           Untouched, Changing, Stage, EnterLabels, CtlBut, DeskBut, RestoreLabels
  <2>2. Recorded' /\ Restoring'
    BY <1>5, <2>0, Unrecorded, Unrestoring
       DEF At, Goes, Writing, Changing, RestoreLabels
  <2> QED BY <2>1, <2>2 DEF OnDisk
<1>6. CASE UnmuteRecord
  <2>1. Desktop' /\ Memory' /\ Kept' /\ Returned'
    BY <1>6, UnmuteRecordDoes, Booleans, BlankFields, Waiting
       DEF At, UnmuteLabels, UnmuteTops, OnDisk, Desktop, Memory, Kept, Sitting, ResumeLabels, Mine,
           RestoreTops, Recorded, Restoring, Returned, Live, Entering, Under, Covers, Sound,
           Untouched, Changing, Stage, EnterLabels, CtlBut, StBut, RestoreLabels
  <2>2. Recorded' /\ Restoring'
    BY <1>6, UnmuteRecordDoes, Unrecorded, Unrestoring
       DEF At, Writing, Changing, RestoreLabels
  <2> QED BY <2>1, <2>2 DEF OnDisk
<1> QED BY <1>1, <1>2, <1>3, <1>4, <1>5, <1>6 DEF Mutes

LEMMA SettlesOnDisk ==
  ASSUME Typed, OnDisk, Settles
  PROVE  OnDisk'
<1>1. CASE Settle
  <2>1. Desktop' /\ Memory' /\ Kept' /\ Returned'
    BY <1>1, SettleDoes, Booleans, BlankFields, Waiting
       DEF At, SettleLabels, FinishTops, OnDisk, Desktop, Memory, Kept, Sitting, ResumeLabels, Mine,
           RestoreTops, Recorded, Restoring, Returned, Live, Entering, Under, Covers, Sound,
           Untouched, Changing, Stage, EnterLabels, CtlBut, StBut, RestoreLabels
  <2>2. Recorded' /\ Restoring'
    BY <1>1, SettleDoes, Unrecorded, Unrestoring
       DEF At, Writing, Changing, RestoreLabels
  <2> QED BY <2>1, <2>2 DEF OnDisk
<1>2. CASE Expose
  <2>1. Desktop' /\ Memory' /\ Kept' /\ Returned'
    BY <1>2, ExposeDoes, Booleans, BlankFields, Waiting
       DEF At, Calls, Goes, SettleLabels, FinishTops, OnDisk, Desktop, Memory, Kept, Sitting,
           ResumeLabels, Mine, RestoreTops, Recorded, Restoring, Returned, Live, Entering, Under,
           Covers, Sound, Untouched, Changing, Stage, EnterLabels, CtlBut, DeskBut, RestoreLabels
  <2>2. Recorded' /\ Restoring'
    BY <1>2, ExposeDoes, Unrecorded, Unrestoring
       DEF At, Calls, Goes, Writing, Changing, RestoreLabels
  <2> QED BY <2>1, <2>2 DEF OnDisk
<1>3. CASE Settled
  <2>0. /\ Typed' /\ At("settled")
       /\ \/ /\ ctl.ok /\ ctl.desktop /\ (Passes(TRUE) \/ Rests) /\ st' = Blank /\ disk' = NoRecord
             /\ session' = "none" /\ UNCHANGED <<desk, was, left>>
          \/ /\ ~(ctl.ok /\ ctl.desktop) /\ Goes("unsettled")
             /\ UNCHANGED <<desk, was, disk, st, session, left>>
    BY <1>3, SettledCases
  <2>1. Desktop' /\ Memory' /\ Kept' /\ Returned'
    BY <1>3, <2>0, Callers, Booleans, BlankFields, Waiting
       DEF At, Goes, Passes, Rests, LowTops, FinishTops, SettleLabels, OnDisk, Desktop, Memory,
           Kept, Sitting, ResumeLabels, Mine, RestoreTops, Recorded, Restoring, Returned, Live,
           Entering, Under, Covers, Sound, Untouched, Changing, Stage, EnterLabels, CtlBut,
           RestoreLabels
  <2>2. Recorded' /\ Restoring'
    BY <1>3, <2>0, Callers, Unrecorded, Unrestoring
       DEF At, Goes, Passes, Rests, Writing, Changing, RestoreLabels
  <2> QED BY <2>1, <2>2 DEF OnDisk
<1>4. CASE Unsettled
  <2>0. /\ Typed' /\ At("unsettled")
       /\ \/ /\ (Passes(FALSE) \/ Rests) /\ disk' = st /\ UNCHANGED <<desk, was, st, session, left>>
          \/ /\ (Passes(FALSE) \/ Rests) /\ Failed /\ UNCHANGED <<desk, was, disk, st, session>>
    BY <1>4, UnsettledCases
  <2>1. Desktop' /\ Memory' /\ Kept' /\ Returned'
    BY <1>4, <2>0, Callers, Booleans, BlankFields, Waiting
       DEF At, Passes, Rests, LowTops, FinishTops, SettleLabels, OnDisk, Desktop, Memory, Kept,
           Sitting, ResumeLabels, Mine, RestoreTops, Recorded, Restoring, Returned, Live, Entering,
           Under, Covers, Sound, Untouched, Changing, Stage, EnterLabels, CtlBut, RestoreLabels
  <2>2. Recorded' /\ Restoring'
    BY <1>4, <2>0, Callers, Unrecorded, Unrestoring
       DEF At, Passes, Rests, Writing, Changing, RestoreLabels
  <2> QED BY <2>1, <2>2 DEF OnDisk
<1>5. CASE FinishRetention
  <2>0. /\ Typed' /\ At("finish") /\ UNCHANGED <<desk, was, session>>
        /\ StBut({"ending", "games"}) /\ CtlBut({"complete", "gone", "retained"})
        /\ \/ /\ ctl'.at = "quiet" /\ Top' = "settle" /\ ~ctl'.gone
              /\ disk' # NoRecord /\ disk'.output = st.output /\ disk'.lit = st.lit /\ disk'.placed = st.placed
              /\ disk'.prev = st.prev /\ disk'.sink = st.sink /\ disk'.quiet = st.quiet
           \/ ctl'.at = "no" /\ Top' = Top /\ disk' = disk
    <3> DEFINE e == [st EXCEPT !.ending = TRUE]
    <3>1. /\ e \in Records /\ e.output = st.output /\ e.lit = st.lit /\ e.placed = st.placed
          /\ e.prev = st.prev /\ e.sink = st.sink /\ e.quiet = st.quiet
      BY Types DEF Records
    <3>2. e # NoRecord
      BY <3>1, GameModeAssumption
    <3> HIDE DEF e
    <3>3. CASE /\ CallsRestore(TRUE, FALSE, "settle") /\ StBut({"ending", "games"})
               /\ disk' = e /\ UNCHANGED <<desk, was, session>>
      <4>1. /\ ctl'.at = "quiet" /\ Top' = "settle" /\ ~ctl'.gone /\ CtlBut({"complete", "gone", "retained"})
        BY <3>3 DEF CallsRestore
      <4> QED BY <1>5, <3>1, <3>2, <3>3, <4>1, FinishRetentionDoes
    <3>4. CASE Goes("no") /\ StBut({"ending"}) /\ UNCHANGED <<desk, was, disk, session>>
      <4>1. ctl'.at = "no" /\ Top' = Top /\ CtlBut({"complete", "gone", "retained"}) /\ StBut({"ending", "games"})
        BY <3>4 DEF Goes, CtlBut, StBut
      <4> QED BY <1>5, <3>4, <4>1, FinishRetentionDoes
    <3> QED BY <1>5, <3>3, <3>4, FinishRetentionDoes DEF e
  <2>1. Desktop' /\ Memory' /\ Kept' /\ Restoring' /\ Returned'
    BY <1>5, <2>0, Booleans, BlankFields, Waiting
       DEF At, CallsRestore, Goes, FinishTops, OnDisk, Desktop, Memory, Kept, Sitting, ResumeLabels,
           Mine, RestoreTops, Recorded, Restoring, Returned, Live, Entering, Under, Covers, Sound,
           Untouched, Changing, Stage, EnterLabels, CtlBut, StBut, RestoreLabels, Stages
  <2>2. Recorded'
    BY <1>5, <2>0, Unrecorded
       DEF At, CallsRestore, Goes, Writing, Changing
  <2> QED BY <2>1, <2>2 DEF OnDisk
<1>6. CASE Recover
  <2>0. /\ Typed' /\ At("recover")
       /\ \/ /\ disk = NoRecord /\ (Passes(TRUE) \/ Rests)
             /\ UNCHANGED <<desk, was, disk, st, session, left>>
          \/ /\ disk # NoRecord /\ CallsRestore((disk.phase = "retained"), TRUE, "settle")
             /\ st' = disk /\ UNCHANGED <<desk, was, disk, session, left>>
    BY <1>6, RecoverCases
  <2>1. Desktop' /\ Memory' /\ Kept' /\ Restoring' /\ Returned'
    BY <1>6, <2>0, Callers, Booleans, BlankFields, Waiting
       DEF At, CallsRestore, Passes, Rests, Entering, Under, EnterLabels, LowTops, FinishTops,
           OnDisk, Desktop, Memory, Kept, Sitting, ResumeLabels, Mine, RestoreTops, Recorded,
           Restoring, Returned, Live, Covers, Sound, Untouched, Changing, Stage, CtlBut,
           RestoreLabels, Stages
  <2>2. Recorded'
    BY <1>6, <2>0, Callers, Unrecorded
       DEF At, CallsRestore, Passes, Rests, Writing, Changing
  <2> QED BY <2>1, <2>2 DEF OnDisk
<1>7. CASE RecoverAtStart
  <2>1. Desktop' /\ Memory' /\ Kept' /\ Returned'
    BY <1>7, RecoverAtStartDoes, Booleans, BlankFields, Waiting
       DEF At, OnDisk, Desktop, Memory, Kept, Sitting, ResumeLabels, Mine, RestoreTops, Recorded,
           Restoring, Returned, Live, Entering, Under, Covers, Sound, Untouched, Changing, Stage,
           EnterLabels, CtlBut, RestoreLabels
  <2>2. Recorded' /\ Restoring'
    BY <1>7, RecoverAtStartDoes, Unrecorded, Unrestoring
       DEF At, Writing, Changing, RestoreLabels
  <2> QED BY <2>1, <2>2 DEF OnDisk
<1> QED BY <1>1, <1>2, <1>3, <1>4, <1>5, <1>6, <1>7 DEF Settles

LEMMA EntersOnDisk ==
  ASSUME Typed, OnDisk, Enters
  PROVE  OnDisk'
<1>1. ASSUME NEW k \in Kinds, Enter(k) PROVE OnDisk'
  <2>1. Desktop' /\ Memory' /\ Kept' /\ Returned'
    BY <1>1, EnterDoes, Booleans, BlankFields, Waiting
       DEF At, OnDisk, Desktop, Memory, Kept, Sitting, ResumeLabels, Mine, RestoreTops, Recorded,
           Restoring, Returned, Live, Entering, Under, Covers, Sound, Untouched, Changing, Stage,
           EnterLabels, CtlBut, RestoreLabels
  <2>2. Recorded' /\ Restoring'
    BY <1>1, EnterDoes, Unrecorded, Unrestoring
       DEF At, Writing, Changing, RestoreLabels
  <2> QED BY <2>1, <2>2 DEF OnDisk
<1>2. CASE Entered
  <2>1. Desktop' /\ Memory' /\ Kept' /\ Recorded' /\ Returned'
    BY <1>2, EnteredCases, Callers, Booleans, BlankFields
       DEF At, Goes, Rests, LowTops, FinishTops, OnDisk, Desktop, Memory, Kept, Sitting,
           ResumeLabels, Mine, RestoreTops, Recorded, Restoring, Returned, Live, Entering, Under,
           Covers, Sound, Untouched, Changing, Stage, EnterLabels, CtlBut, StBut, Writing,
           RestoreLabels
  <2>2. Restoring'
    BY <1>2, EnteredCases, Callers, Unrestoring
       DEF At, Goes, Rests, RestoreLabels
  <2> QED BY <2>1, <2>2 DEF OnDisk
<1>3. CASE EnterOutput
  <2>1. Desktop' /\ Memory' /\ Kept' /\ Recorded' /\ Returned'
    BY <1>3, EnterOutputDoes, Booleans, BlankFields, Waiting
       DEF At, Goes, EnterLabels, OnDisk, Desktop, Memory, Kept, Sitting, ResumeLabels, Mine,
           RestoreTops, Recorded, Restoring, Returned, Live, Entering, Under, Covers, Sound,
           Untouched, Changing, Stage, CtlBut, StBut, Writing, RestoreLabels
  <2>2. Restoring'
    BY <1>3, EnterOutputDoes, Unrestoring
       DEF At, Goes, RestoreLabels
  <2> QED BY <2>1, <2>2 DEF OnDisk
<1>4. CASE EnterLight
  <2>1. Desktop' /\ Memory' /\ Kept' /\ Returned'
    BY <1>4, EnterLightDoes, Booleans, BlankFields, Waiting
       DEF At, Goes, EnterLabels, OnDisk, Desktop, Memory, Kept, Sitting, ResumeLabels, Mine,
           RestoreTops, Recorded, Restoring, Returned, Live, Entering, Under, Covers, Sound,
           Untouched, Changing, Stage, CtlBut, DeskBut, RestoreLabels
  <2>2. Recorded' /\ Restoring'
    BY <1>4, EnterLightDoes, Unrecorded, Unrestoring
       DEF At, Goes, Writing, Changing, RestoreLabels
  <2> QED BY <2>1, <2>2 DEF OnDisk
<1>5. CASE EnterSink
  <2>0. SinkThere /\ ~SinkAsWanted => was.sink \in {NoSink, desk.sink} /\ ctl.want.sink # NoSink
    <3>1. Covers(st) /\ Mine(st)
      BY <1>5, EnterSinkDoes DEF OnDisk, Memory, Live, Entering, Under, EnterLabels, At
    <3> QED BY <3>1 DEF Covers, Mine, SinkThere, SinkAsWanted
  <2>1. Desktop' /\ Memory' /\ Kept' /\ Recorded' /\ Returned'
    BY <1>5, <2>0, EnterSinkDoes, Booleans, BlankFields, Waiting
       DEF At, Goes, EnterLabels, OnDisk, Desktop, Memory, Kept, Sitting, ResumeLabels, Mine,
           RestoreTops, Recorded, Restoring, Returned, Live, Entering, Under, Covers, Sound,
           Untouched, Changing, Stage, CtlBut, StBut, Writing, RestoreLabels
  <2>2. Restoring'
    BY <1>5, EnterSinkDoes, Unrestoring
       DEF At, Goes, RestoreLabels
  <2> QED BY <2>1, <2>2 DEF OnDisk
<1>6. CASE EnterSetSink
  <2>1. Desktop' /\ Memory' /\ Kept' /\ Returned'
    BY <1>6, EnterSetSinkDoes, Booleans, BlankFields, Waiting
       DEF At, Goes, EnterLabels, OnDisk, Desktop, Memory, Kept, Sitting, ResumeLabels, Mine,
           RestoreTops, Recorded, Restoring, Returned, Live, Entering, Under, Covers, Sound,
           Untouched, Changing, Stage, CtlBut, DeskBut, RestoreLabels
  <2>2. Recorded' /\ Restoring'
    BY <1>6, EnterSetSinkDoes, Unrecorded, Unrestoring
       DEF At, Goes, Writing, Changing, RestoreLabels
  <2> QED BY <2>1, <2>2 DEF OnDisk
<1>7. CASE EnterWindow
  <2>1. Desktop' /\ Memory' /\ Kept' /\ Recorded' /\ Returned'
    BY <1>7, EnterWindowDoes, Booleans, BlankFields, Waiting
       DEF At, Goes, EnterLabels, OnDisk, Desktop, Memory, Kept, Sitting, ResumeLabels, Mine,
           RestoreTops, Recorded, Restoring, Returned, Live, Entering, Under, Covers, Sound,
           Untouched, Changing, Stage, CtlBut, StBut, Writing, RestoreLabels
  <2>2. Restoring'
    BY <1>7, EnterWindowDoes, Unrestoring
       DEF At, Goes, RestoreLabels
  <2> QED BY <2>1, <2>2 DEF OnDisk
<1>8. CASE EnterPlace
  <2>1. Desktop' /\ Memory' /\ Kept' /\ Returned'
    BY <1>8, EnterPlaceDoes, Booleans, BlankFields, Waiting
       DEF At, Goes, EnterLabels, OnDisk, Desktop, Memory, Kept, Sitting, ResumeLabels, Mine,
           RestoreTops, Recorded, Restoring, Returned, Live, Entering, Under, Covers, Sound,
           Untouched, Changing, Stage, CtlBut, DeskBut, RestoreLabels
  <2>2. Recorded' /\ Restoring'
    BY <1>8, EnterPlaceDoes, Unrecorded, Unrestoring
       DEF At, Goes, Writing, Changing, RestoreLabels
  <2> QED BY <2>1, <2>2 DEF OnDisk
<1>9. CASE EnterQuiet
  <2>1. Desktop' /\ Memory' /\ Kept' /\ Recorded' /\ Returned'
    BY <1>9, EnterQuietDoes, Booleans, BlankFields, Waiting
       DEF At, Goes, EnterLabels, OnDisk, Desktop, Memory, Kept, Sitting, ResumeLabels, Mine,
           RestoreTops, Recorded, Restoring, Returned, Live, Entering, Under, Covers, Sound,
           Untouched, Changing, Stage, CtlBut, StBut, Writing, RestoreLabels
  <2>2. Restoring'
    BY <1>9, EnterQuietDoes, Unrestoring
       DEF At, Goes, RestoreLabels
  <2> QED BY <2>1, <2>2 DEF OnDisk
<1>10. CASE EnterSilence
  <2>1. Desktop' /\ Memory' /\ Kept' /\ Recorded' /\ Returned'
    BY <1>10, EnterSilenceDoes, Booleans, BlankFields, Waiting
       DEF At, Goes, EnterLabels, OnDisk, Desktop, Memory, Kept, Sitting, ResumeLabels, Mine,
           RestoreTops, Recorded, Restoring, Returned, Live, Entering, Under, Covers, Sound,
           Untouched, Changing, Stage, CtlBut, DeskBut, Writing, RestoreLabels
  <2>2. Restoring'
    BY <1>10, EnterSilenceDoes, Unrestoring
       DEF At, Goes, RestoreLabels
  <2> QED BY <2>1, <2>2 DEF OnDisk
<1>11. CASE EnterLoud
  <2>1. Desktop' /\ Memory' /\ Kept' /\ Returned'
    BY <1>11, EnterLoudDoes, Booleans, BlankFields, Waiting
       DEF At, Goes, EnterLabels, OnDisk, Desktop, Memory, Kept, Sitting, ResumeLabels, Mine,
           RestoreTops, Recorded, Restoring, Returned, Live, Entering, Under, Covers, Sound,
           Untouched, Changing, Stage, CtlBut, StBut, RestoreLabels
  <2>2. Recorded' /\ Restoring'
    BY <1>11, EnterLoudDoes, Unrecorded, Unrestoring
       DEF At, Goes, Writing, Changing, RestoreLabels
  <2> QED BY <2>1, <2>2 DEF OnDisk
<1>12. CASE EnterLast
  <2>1. Desktop' /\ Memory' /\ Kept' /\ Returned'
    BY <1>12, EnterLastCases, Callers, Booleans, BlankFields, Waiting
       DEF At, Goes, Rests, LowTops, FinishTops, EnterLabels, OnDisk, Desktop, Memory, Kept,
           Sitting, ResumeLabels, Mine, RestoreTops, Recorded, Restoring, Returned, Live, Entering,
           Under, Covers, Sound, Untouched, Changing, Stage, CtlBut, RestoreLabels
  <2>2. Recorded' /\ Restoring'
    BY <1>12, EnterLastCases, Callers, Unrecorded, Unrestoring
       DEF At, Goes, Rests, Writing, Changing, RestoreLabels
  <2> QED BY <2>1, <2>2 DEF OnDisk
<1>13. CASE EnterFail
  <2>1. Desktop'
    BY <1>13, EnterFailDoes, Booleans, BlankFields, Waiting
       DEF At, CallsRestore, EnterLabels, OnDisk, Desktop, Memory, Kept, Sitting, ResumeLabels, Mine, RestoreTops, Recorded, Restoring, Returned, Live, Entering, Under, Covers, Sound, Untouched, Changing, Stage, CtlBut
  <2>2. Memory'
    BY <1>13, EnterFailDoes, Booleans, BlankFields, Waiting
       DEF At, CallsRestore, EnterLabels, OnDisk, Untouched, Desktop, Memory, Kept, Sitting, ResumeLabels, RestoreTops, Recorded, Restoring, Returned, Live, Entering, Under, Covers, Sound, Mine, Changing, Stage, CtlBut
  <2>3. Kept'
    BY <1>13, EnterFailDoes, Booleans, BlankFields, Waiting
       DEF At, CallsRestore, EnterLabels, OnDisk, Memory, Kept, Sitting, ResumeLabels, Live, Entering, Under, Covers, Sound, Mine, CtlBut
  <2>4. Recorded'
    BY <1>13, EnterFailDoes, Unrecorded
       DEF At, CallsRestore, Writing, Changing
  <2>5. Restoring'
    BY <1>13, EnterFailDoes, Booleans, BlankFields, Waiting
       DEF At, CallsRestore, EnterLabels, OnDisk, Desktop, Memory, Restoring, Live, Covers, Sound, Stage, RestoreLabels, Stages, Untouched, CtlBut
  <2>6. Returned'
    BY <1>13, EnterFailDoes, Booleans, BlankFields, Waiting
       DEF At, CallsRestore, EnterLabels, OnDisk, Desktop, Memory, Restoring, Returned, Under, Covers, Sound, Untouched, Stage, RestoreLabels, RestoreTops, CtlBut
  <2> QED BY <2>1, <2>2, <2>3, <2>4, <2>5, <2>6 DEF OnDisk
<1>14. CASE EnterFailed
  <2>1. Desktop' /\ Memory' /\ Kept' /\ Returned'
    BY <1>14, EnterFailedCases, Callers, Booleans, BlankFields, Waiting
       DEF At, Rests, LowTops, FinishTops, EnterLabels, OnDisk, Desktop, Memory, Kept, Sitting,
           ResumeLabels, Mine, RestoreTops, Recorded, Restoring, Returned, Live, Entering, Under,
           Covers, Sound, Untouched, Changing, Stage, CtlBut, RestoreLabels
  <2>2. Recorded' /\ Restoring'
    BY <1>14, EnterFailedCases, Callers, Unrecorded, Unrestoring
       DEF At, Rests, Writing, Changing, RestoreLabels
  <2> QED BY <2>1, <2>2 DEF OnDisk
<1> QED BY <1>1, <1>2, <1>3, <1>4, <1>5, <1>6, <1>7, <1>8, <1>9, <1>10, <1>11, <1>12, <1>13, <1>14 DEF Enters

LEMMA ParksOnDisk ==
  ASSUME Typed, OnDisk, Parks
  PROVE  OnDisk'
<1>1. CASE Park
  <2>1. Desktop' /\ Memory' /\ Kept' /\ Returned'
    BY <1>1, ParkDoes, Booleans, BlankFields, Waiting
       DEF At, OnDisk, Desktop, Memory, Kept, Sitting, ResumeLabels, Mine, RestoreTops, Recorded,
           Restoring, Returned, Live, Entering, Under, Covers, Sound, Untouched, Changing, Stage,
           EnterLabels, CtlBut, RestoreLabels
  <2>2. Recorded' /\ Restoring'
    BY <1>1, ParkDoes, Unrecorded, Unrestoring
       DEF At, Writing, Changing, RestoreLabels
  <2> QED BY <2>1, <2>2 DEF OnDisk
<1>2. CASE ParkDiscover
  <2>1. Desktop' /\ Memory' /\ Kept' /\ Returned'
    BY <1>2, ParkDiscoverDoes, Booleans, BlankFields, Waiting
       DEF At, Goes, ParkLabels, OnDisk, Desktop, Memory, Kept, Sitting, ResumeLabels, Mine,
           RestoreTops, Recorded, Restoring, Returned, Live, Entering, Under, Covers, Sound,
           Untouched, Changing, Stage, EnterLabels, CtlBut, StBut, RestoreLabels
  <2>2. Recorded' /\ Restoring'
    BY <1>2, ParkDiscoverDoes, Unrecorded, Unrestoring
       DEF At, Goes, Writing, Changing, RestoreLabels
  <2> QED BY <2>1, <2>2 DEF OnDisk
<1>3. CASE ParkMuted
  <2>1. Desktop' /\ Memory' /\ Kept' /\ Returned'
    BY <1>3, ParkMutedDoes, Booleans, BlankFields, Waiting
       DEF At, Calls, Goes, ParkLabels, OnDisk, Desktop, Memory, Kept, Sitting, ResumeLabels, Mine,
           RestoreTops, Recorded, Restoring, Returned, Live, Entering, Under, Covers, Sound,
           Untouched, Changing, Stage, EnterLabels, CtlBut, RestoreLabels
  <2>2. Recorded' /\ Restoring'
    BY <1>3, ParkMutedDoes, Unrecorded, Unrestoring
       DEF At, Calls, Goes, Writing, Changing, RestoreLabels
  <2> QED BY <2>1, <2>2 DEF OnDisk
<1>4. CASE ParkUnmuted
  <2>1. Desktop' /\ Memory' /\ Kept' /\ Returned'
    BY <1>4, ParkUnmutedCases, Callers, Booleans, BlankFields, Waiting
       DEF At, Rests, LowTops, FinishTops, ParkLabels, OnDisk, Desktop, Memory, Kept, Sitting,
           ResumeLabels, Mine, RestoreTops, Recorded, Restoring, Returned, Live, Entering, Under,
           Covers, Sound, Untouched, Changing, Stage, EnterLabels, CtlBut, RestoreLabels
  <2>2. Recorded' /\ Restoring'
    BY <1>4, ParkUnmutedCases, Callers, Unrecorded, Unrestoring
       DEF At, Rests, Writing, Changing, RestoreLabels
  <2> QED BY <2>1, <2>2 DEF OnDisk
<1>5. CASE ParkRestore
  <2>1. Desktop'
    BY <1>5, ParkRestoreDoes, Booleans, BlankFields, Waiting
       DEF At, CallsRestore, ParkLabels, OnDisk, Desktop, Memory, Kept, Sitting, ResumeLabels, Mine, RestoreTops, Recorded, Restoring, Returned, Live, Entering, Under, Covers, Sound, Untouched, Changing, Stage, EnterLabels, CtlBut
  <2>2. Memory'
    BY <1>5, ParkRestoreDoes, Booleans, BlankFields, Waiting
       DEF At, CallsRestore, ParkLabels, OnDisk, Untouched, Desktop, Memory, Kept, Sitting, ResumeLabels, RestoreTops, Recorded, Restoring, Returned, Live, Entering, Under, Covers, Sound, Mine, Changing, Stage, EnterLabels, CtlBut
  <2>3. Kept'
    BY <1>5, ParkRestoreDoes, Booleans, BlankFields, Waiting
       DEF At, CallsRestore, ParkLabels, OnDisk, Memory, Kept, Sitting, ResumeLabels, Live, Entering, Under, Covers, Sound, Mine, EnterLabels, CtlBut
  <2>4. Recorded'
    BY <1>5, ParkRestoreDoes, Unrecorded
       DEF At, CallsRestore, Writing, Changing
  <2>5. Restoring'
    BY <1>5, ParkRestoreDoes, Booleans, BlankFields, Waiting
       DEF At, CallsRestore, ParkLabels, OnDisk, Desktop, Memory, Restoring, Live, Covers, Sound, Stage, RestoreLabels, Stages, Untouched, CtlBut
  <2>6. Returned'
    BY <1>5, ParkRestoreDoes, Booleans, BlankFields, Waiting
       DEF At, CallsRestore, ParkLabels, OnDisk, Desktop, Memory, Restoring, Returned, Under, Covers, Sound, Untouched, Stage, RestoreLabels, RestoreTops, CtlBut
  <2> QED BY <2>1, <2>2, <2>3, <2>4, <2>5, <2>6 DEF OnDisk
<1>6. CASE ParkRestored
  <2>1. Desktop' /\ Memory' /\ Kept' /\ Returned'
    BY <1>6, ParkRestoredCases, Callers, Booleans, BlankFields, Waiting
       DEF At, Rests, LowTops, FinishTops, ParkLabels, OnDisk, Desktop, Memory, Kept, Sitting,
           ResumeLabels, Mine, RestoreTops, Recorded, Restoring, Returned, Live, Entering, Under,
           Covers, Sound, Untouched, Changing, Stage, EnterLabels, CtlBut, RestoreLabels
  <2>2. Recorded' /\ Restoring'
    BY <1>6, ParkRestoredCases, Callers, Unrecorded, Unrestoring
       DEF At, Rests, Writing, Changing, RestoreLabels
  <2> QED BY <2>1, <2>2 DEF OnDisk
<1>7. CASE ParkRolledBack
  <2>1. Desktop' /\ Memory' /\ Kept' /\ Returned'
    BY <1>7, ParkRolledBackCases, Callers, Booleans, BlankFields, Waiting
       DEF At, Rests, LowTops, FinishTops, ParkLabels, OnDisk, Desktop, Memory, Kept, Sitting,
           ResumeLabels, Mine, RestoreTops, Recorded, Restoring, Returned, Live, Entering, Under,
           Covers, Sound, Untouched, Changing, Stage, EnterLabels, CtlBut, RestoreLabels
  <2>2. Recorded' /\ Restoring'
    BY <1>7, ParkRolledBackCases, Callers, Unrecorded, Unrestoring
       DEF At, Rests, Writing, Changing, RestoreLabels
  <2> QED BY <2>1, <2>2 DEF OnDisk
<1> QED BY <1>1, <1>2, <1>3, <1>4, <1>5, <1>6, <1>7 DEF Parks

LEMMA RefreshesOnDisk ==
  ASSUME Typed, OnDisk, Refreshes
  PROVE  OnDisk'
<1>1. CASE RefreshParked
  <2>1. Desktop' /\ Memory' /\ Kept' /\ Returned'
    BY <1>1, RefreshParkedDoes, Booleans, BlankFields, Waiting
       DEF At, OnDisk, Desktop, Memory, Kept, Sitting, ResumeLabels, Mine, RestoreTops, Recorded,
           Restoring, Returned, Live, Entering, Under, Covers, Sound, Untouched, Changing, Stage,
           EnterLabels, CtlBut, RestoreLabels
  <2>2. Recorded' /\ Restoring'
    BY <1>1, RefreshParkedDoes, Unrecorded, Unrestoring
       DEF At, Writing, Changing, RestoreLabels
  <2> QED BY <2>1, <2>2 DEF OnDisk
<1>2. CASE RefreshDiscover
  <2>1. Desktop' /\ Memory' /\ Kept' /\ Returned'
    BY <1>2, RefreshDiscoverDoes, Booleans, BlankFields, Waiting
       DEF At, Calls, Goes, RefreshLabels, OnDisk, Desktop, Memory, Kept, Sitting, ResumeLabels,
           Mine, RestoreTops, Recorded, Restoring, Returned, Live, Entering, Under, Covers, Sound,
           Untouched, Changing, Stage, EnterLabels, CtlBut, StBut, RestoreLabels
  <2>2. Recorded' /\ Restoring'
    BY <1>2, RefreshDiscoverDoes, Unrecorded, Unrestoring
       DEF At, Calls, Goes, Writing, Changing, RestoreLabels
  <2> QED BY <2>1, <2>2 DEF OnDisk
<1>3. CASE RefreshHeard
  <2>1. Desktop' /\ Memory' /\ Kept' /\ Restoring' /\ Returned'
    BY <1>3, RefreshHeardDoes, Booleans, BlankFields, Waiting
       DEF At, RefreshLabels, OnDisk, Desktop, Memory, Kept, Sitting, ResumeLabels, Mine,
           RestoreTops, Recorded, Restoring, Returned, Live, Entering, Under, Covers, Sound,
           Untouched, Changing, Stage, EnterLabels, CtlBut, RestoreLabels, Stages
  <2>2. Recorded'
    BY <1>3, RefreshHeardDoes, Unrecorded
       DEF At, Writing, Changing
  <2> QED BY <2>1, <2>2 DEF OnDisk
<1>4. CASE RefreshRestored
  <2>0. /\ Typed' /\ At("refreshRestored")
       /\ \/ /\ ctl.ok /\ ctl.desktop /\ (Passes(TRUE) \/ Rests) /\ disk' = st
             /\ UNCHANGED <<desk, was, st, session, left>>
          \/ /\ ctl.ok /\ ctl.desktop /\ (Passes(FALSE) \/ Rests) /\ Failed
             /\ UNCHANGED <<desk, was, disk, st, session>>
          \/ /\ ~(ctl.ok /\ ctl.desktop) /\ (Passes(FALSE) \/ Rests)
             /\ UNCHANGED <<desk, was, disk, st, session, left>>
    BY <1>4, RefreshRestoredCases
  <2>1. Desktop' /\ Memory' /\ Kept' /\ Returned'
    BY <1>4, <2>0, Callers, Booleans, BlankFields, Waiting
       DEF At, Passes, Rests, LowTops, FinishTops, RefreshLabels, OnDisk, Desktop, Memory, Kept,
           Sitting, ResumeLabels, Mine, RestoreTops, Recorded, Restoring, Returned, Live, Entering,
           Under, Covers, Sound, Untouched, Changing, Stage, EnterLabels, CtlBut, RestoreLabels
  <2>2. Recorded' /\ Restoring'
    BY <1>4, <2>0, Callers, Unrecorded, Unrestoring
       DEF At, Passes, Rests, Writing, Changing, RestoreLabels
  <2> QED BY <2>1, <2>2 DEF OnDisk
<1>5. CASE RefreshStreams
  <2>1. Desktop' /\ Memory' /\ Kept' /\ Returned'
    BY <1>5, RefreshStreamsDoes, Booleans, BlankFields, Waiting
       DEF At, Calls, RefreshLabels, OnDisk, Desktop, Memory, Kept, Sitting, ResumeLabels, Mine,
           RestoreTops, Recorded, Restoring, Returned, Live, Entering, Under, Covers, Sound,
           Untouched, Changing, Stage, EnterLabels, CtlBut, StBut, RestoreLabels
  <2>2. Recorded' /\ Restoring'
    BY <1>5, RefreshStreamsDoes, Unrecorded, Unrestoring
       DEF At, Calls, Writing, Changing, RestoreLabels
  <2> QED BY <2>1, <2>2 DEF OnDisk
<1>6. CASE RefreshMuted
  <2>0. /\ Typed' /\ At("refreshMuted")
       /\ \/ /\ ctl.ok /\ (Passes(TRUE) \/ Rests) /\ UNCHANGED <<desk, was, disk, st, session, left>>
          \/ /\ ~ctl.ok /\ Calls("finish", "no") /\ UNCHANGED <<desk, was, disk, st, session, left>>
    BY <1>6, RefreshMutedCases
  <2>1. Desktop' /\ Memory' /\ Kept' /\ Returned'
    BY <1>6, <2>0, Callers, Booleans, BlankFields, Waiting
       DEF At, Calls, Passes, Rests, LowTops, FinishTops, RefreshLabels, OnDisk, Desktop, Memory,
           Kept, Sitting, ResumeLabels, Mine, RestoreTops, Recorded, Restoring, Returned, Live,
           Entering, Under, Covers, Sound, Untouched, Changing, Stage, EnterLabels, CtlBut,
           RestoreLabels
  <2>2. Recorded' /\ Restoring'
    BY <1>6, <2>0, Callers, Unrecorded, Unrestoring
       DEF At, Calls, Passes, Rests, Writing, Changing, RestoreLabels
  <2> QED BY <2>1, <2>2 DEF OnDisk
<1> QED BY <1>1, <1>2, <1>3, <1>4, <1>5, <1>6 DEF Refreshes

LEMMA ResumesOnDisk ==
  ASSUME Typed, OnDisk, Resumes
  PROVE  OnDisk'
<1>1. CASE Resume
  <2>1. Desktop' /\ Memory' /\ Kept' /\ Returned'
    BY <1>1, ResumeDoes, Booleans, BlankFields, Waiting
       DEF At, OnDisk, Desktop, Memory, Kept, Sitting, ResumeLabels, Mine, RestoreTops, Recorded,
           Restoring, Returned, Live, Entering, Under, Covers, Sound, Untouched, Changing, Stage,
           EnterLabels, CtlBut, RestoreLabels
  <2>2. Recorded' /\ Restoring'
    BY <1>1, ResumeDoes, Unrecorded, Unrestoring
       DEF At, Writing, Changing, RestoreLabels
  <2> QED BY <2>1, <2>2 DEF OnDisk
<1>2. CASE ResumeCapture
  <2>0. /\ Typed' /\ At("resume")
       /\ \/ /\ (~ctl.ok \/ session # "parked") /\ (Passes(ctl.ok) \/ Rests)
             /\ UNCHANGED <<desk, was, disk, st, session, left>>
          \/ /\ ctl.ok /\ session = "parked" /\ (Passes(FALSE) \/ Rests) /\ Failed
             /\ UNCHANGED <<desk, was, disk, st, session>>
          \/ /\ ctl.ok /\ session = "parked" /\ ctl.want.output \notin desk.plugged
             /\ (Passes(FALSE) \/ Rests) /\ UNCHANGED <<desk, was, disk, st, session, left>>
          \/ /\ ctl.ok /\ session = "parked" /\ ctl.want.output \in desk.plugged
             /\ ctl'.at = "resumeRecord" /\ Top' = Top /\ ctl'.kept = st /\ CtlBut({"kept"})
             /\ st'.output = ctl.want.output /\ (st'.lit = (st.lit \/ ctl.want.output \notin desk.on))
             /\ StBut({"output", "lit"}) /\ UNCHANGED <<desk, was, disk, session, left>>
    BY <1>2, ResumeCaptureCases
  <2>1. Desktop' /\ Kept' /\ Returned'
    BY <1>2, <2>0, Callers, Booleans, BlankFields, Waiting
       DEF At, Passes, Rests, LowTops, FinishTops, ResumeLabels, OnDisk, Desktop, Memory, Kept,
           Sitting, Mine, RestoreTops, Recorded, Restoring, Returned, Live, Entering, Under, Covers,
           Sound, Untouched, Changing, Stage, EnterLabels, CtlBut, StBut, RestoreLabels
  <2>2. Memory'
    <3>1. CASE st' = st
      BY <1>2, <2>0, <3>1, BlankFields, Waiting
         DEF At, Passes, Rests, LowTops, FinishTops, ResumeLabels, OnDisk, Desktop, Memory, Kept, Live, Entering, Under,
             Covers, Sound, Mine, EnterLabels, CtlBut
    <3>2. CASE st' # st
      <4>1. /\ session = "parked" /\ session' = session /\ ctl.at = "resume" /\ was' = was /\ desk' = desk
            /\ ctl'.want = ctl.want /\ st'.output = ctl.want.output /\ StBut({"output", "lit"})
            /\ (st'.lit <=> (st.lit \/ ctl.want.output \notin desk.on))
        BY <2>0, <3>2 DEF CtlBut, At
      <4>2. Covers(st) /\ Sound(st) /\ Mine(st) /\ was.on \subseteq desk.on
        BY <4>1 DEF OnDisk, Memory, Live, Desktop
      <4>3. Covers(st)' /\ Sound(st)' /\ Mine(st)'
        BY <4>1, <4>2 DEF Covers, Sound, Mine, StBut
      <4> QED BY <4>3 DEF Memory
    <3> QED BY <3>1, <3>2
  <2>3. Recorded' /\ Restoring'
    BY <1>2, <2>0, Callers, Unrecorded, Unrestoring
       DEF At, Passes, Rests, Writing, Changing, RestoreLabels
  <2> QED BY <2>1, <2>2, <2>3 DEF OnDisk
<1>3. CASE ResumeRecord
  <2>1. Desktop' /\ Memory' /\ Kept' /\ Recorded' /\ Returned'
    BY <1>3, ResumeRecordDoes, Booleans, BlankFields, Waiting
       DEF At, Goes, ResumeLabels, OnDisk, Desktop, Memory, Kept, Sitting, Mine, RestoreTops,
           Recorded, Restoring, Returned, Live, Entering, Under, Covers, Sound, Untouched, Changing,
           Stage, EnterLabels, CtlBut, Writing, RestoreLabels
  <2>2. Restoring'
    BY <1>3, ResumeRecordDoes, Unrestoring
       DEF At, Goes, RestoreLabels
  <2> QED BY <2>1, <2>2 DEF OnDisk
<1>4. CASE ResumeLight
  <2>1. Desktop' /\ Memory' /\ Kept' /\ Returned'
    BY <1>4, ResumeLightDoes, Booleans, BlankFields, Waiting
       DEF At, Goes, ResumeLabels, OnDisk, Desktop, Memory, Kept, Sitting, Mine, RestoreTops,
           Recorded, Restoring, Returned, Live, Entering, Under, Covers, Sound, Untouched, Changing,
           Stage, EnterLabels, CtlBut, DeskBut, RestoreLabels
  <2>2. Recorded' /\ Restoring'
    BY <1>4, ResumeLightDoes, Unrecorded, Unrestoring
       DEF At, Goes, Writing, Changing, RestoreLabels
  <2> QED BY <2>1, <2>2 DEF OnDisk
<1>5. CASE ResumeSink
  <2>0. SinkThere /\ ~SinkAsWanted => was.sink \in {NoSink, desk.sink} /\ ctl.want.sink # NoSink
    <3>1. Covers(st) /\ Mine(st)
      BY <1>5, ResumeSinkDoes DEF OnDisk, Memory, Live, Kept, Under, Sitting, ResumeLabels, At
    <3> QED BY <3>1 DEF Covers, Mine, SinkThere, SinkAsWanted
  <2>1. Desktop' /\ Memory' /\ Kept' /\ Recorded' /\ Returned'
    BY <1>5, <2>0, ResumeSinkDoes, Booleans, BlankFields, Waiting
       DEF At, Goes, ResumeLabels, OnDisk, Desktop, Memory, Kept, Sitting, Mine, RestoreTops,
           Recorded, Restoring, Returned, Live, Entering, Under, Covers, Sound, Untouched, Changing,
           Stage, EnterLabels, CtlBut, StBut, Writing, RestoreLabels
  <2>2. Restoring'
    BY <1>5, ResumeSinkDoes, Unrestoring
       DEF At, Goes, RestoreLabels
  <2> QED BY <2>1, <2>2 DEF OnDisk
<1>6. CASE ResumeSetSink
  <2>1. Desktop' /\ Memory' /\ Kept' /\ Returned'
    BY <1>6, ResumeSetSinkDoes, Booleans, BlankFields, Waiting
       DEF At, Goes, ResumeLabels, OnDisk, Desktop, Memory, Kept, Sitting, Mine, RestoreTops,
           Recorded, Restoring, Returned, Live, Entering, Under, Covers, Sound, Untouched, Changing,
           Stage, EnterLabels, CtlBut, DeskBut, RestoreLabels
  <2>2. Recorded' /\ Restoring'
    BY <1>6, ResumeSetSinkDoes, Unrecorded, Unrestoring
       DEF At, Goes, Writing, Changing, RestoreLabels
  <2> QED BY <2>1, <2>2 DEF OnDisk
<1>7. CASE ResumeWindow
  <2>1. Desktop' /\ Memory' /\ Kept' /\ Recorded' /\ Returned'
    BY <1>7, ResumeWindowDoes, Booleans, BlankFields, Waiting
       DEF At, Goes, ResumeLabels, OnDisk, Desktop, Memory, Kept, Sitting, Mine, RestoreTops,
           Recorded, Restoring, Returned, Live, Entering, Under, Covers, Sound, Untouched, Changing,
           Stage, EnterLabels, CtlBut, StBut, Writing, RestoreLabels
  <2>2. Restoring'
    BY <1>7, ResumeWindowDoes, Unrestoring
       DEF At, Goes, RestoreLabels
  <2> QED BY <2>1, <2>2 DEF OnDisk
<1>8. CASE ResumePlace
  <2>1. Desktop' /\ Memory' /\ Kept' /\ Returned'
    BY <1>8, ResumePlaceDoes, Booleans, BlankFields, Waiting
       DEF At, Goes, ResumeLabels, OnDisk, Desktop, Memory, Kept, Sitting, Mine, RestoreTops,
           Recorded, Restoring, Returned, Live, Entering, Under, Covers, Sound, Untouched, Changing,
           Stage, EnterLabels, CtlBut, DeskBut, RestoreLabels
  <2>2. Recorded' /\ Restoring'
    BY <1>8, ResumePlaceDoes, Unrecorded, Unrestoring
       DEF At, Goes, Writing, Changing, RestoreLabels
  <2> QED BY <2>1, <2>2 DEF OnDisk
<1>9. CASE ResumeMove
  <2>1. Desktop' /\ Memory' /\ Kept' /\ Returned'
    BY <1>9, ResumeMoveDoes, Booleans, BlankFields, Waiting
       DEF At, Goes, ResumeLabels, OnDisk, Desktop, Memory, Kept, Sitting, Mine, RestoreTops,
           Recorded, Restoring, Returned, Live, Entering, Under, Covers, Sound, Untouched, Changing,
           Stage, EnterLabels, CtlBut, DeskBut, RestoreLabels
  <2>2. Recorded' /\ Restoring'
    BY <1>9, ResumeMoveDoes, Unrecorded, Unrestoring
       DEF At, Goes, Writing, Changing, RestoreLabels
  <2> QED BY <2>1, <2>2 DEF OnDisk
<1>10. CASE ResumeQuiet
  <2>1. Desktop' /\ Memory' /\ Kept' /\ Recorded' /\ Returned'
    BY <1>10, ResumeQuietDoes, Booleans, BlankFields, Waiting
       DEF At, Calls, Goes, ResumeLabels, OnDisk, Desktop, Memory, Kept, Sitting, Mine, RestoreTops,
           Recorded, Restoring, Returned, Live, Entering, Under, Covers, Sound, Untouched, Changing,
           Stage, EnterLabels, CtlBut, StBut, Writing, RestoreLabels
  <2>2. Restoring'
    BY <1>10, ResumeQuietDoes, Unrestoring
       DEF At, Calls, Goes, RestoreLabels
  <2> QED BY <2>1, <2>2 DEF OnDisk
<1>11. CASE ResumeSilence
  <2>1. Desktop' /\ Memory' /\ Kept' /\ Returned'
    BY <1>11, ResumeSilenceDoes, Booleans, BlankFields, Waiting
       DEF At, Calls, Goes, ResumeLabels, OnDisk, Desktop, Memory, Kept, Sitting, Mine, RestoreTops,
           Recorded, Restoring, Returned, Live, Entering, Under, Covers, Sound, Untouched, Changing,
           Stage, EnterLabels, CtlBut, DeskBut, RestoreLabels
  <2>2. Recorded' /\ Restoring'
    BY <1>11, ResumeSilenceDoes, Unrecorded, Unrestoring
       DEF At, Calls, Goes, Writing, Changing, RestoreLabels
  <2> QED BY <2>1, <2>2 DEF OnDisk
<1>12. CASE ResumeHeard
  <2>0. /\ Typed' /\ At("resumeHeard")
       /\ \/ /\ ~ctl.ok /\ Goes("resumeFail") /\ UNCHANGED <<desk, was, disk, st, session, left>>
          \/ /\ ctl.ok /\ (Passes(TRUE) \/ Rests) /\ StBut({}) /\ disk' = st' /\ session' = "active"
             /\ UNCHANGED <<desk, was, left>>
          \/ /\ ctl.ok /\ Goes("resumeFail") /\ StBut({}) /\ Failed
             /\ UNCHANGED <<desk, was, disk, session>>
    BY <1>12, ResumeHeardCases
  <2>1. Desktop' /\ Memory' /\ Kept' /\ Returned'
    BY <1>12, <2>0, Callers, Booleans, BlankFields, Waiting
       DEF At, Goes, Passes, Rests, LowTops, FinishTops, ResumeLabels, OnDisk, Desktop, Memory,
           Kept, Sitting, Mine, RestoreTops, Recorded, Restoring, Returned, Live, Entering, Under,
           Covers, Sound, Untouched, Changing, Stage, EnterLabels, CtlBut, StBut, RestoreLabels
  <2>2. Recorded' /\ Restoring'
    BY <1>12, <2>0, Callers, Unrecorded, Unrestoring
       DEF At, Goes, Passes, Rests, Writing, Changing, RestoreLabels
  <2> QED BY <2>1, <2>2 DEF OnDisk
<1>13. CASE ResumeFail
  <2>1. Desktop'
    BY <1>13, ResumeFailDoes, Booleans, BlankFields, Waiting
       DEF At, CallsRestore, ResumeLabels, OnDisk, Desktop, Memory, Kept, Sitting, Mine, RestoreTops, Recorded, Restoring, Returned, Live, Entering, Under, Covers, Sound, Untouched, Changing, Stage, EnterLabels, CtlBut
  <2>2. Memory'
    BY <1>13, ResumeFailDoes, Booleans, BlankFields, Waiting
       DEF At, CallsRestore, ResumeLabels, OnDisk, Untouched, Desktop, Memory, Kept, Sitting, RestoreTops, Recorded, Restoring, Returned, Live, Entering, Under, Covers, Sound, Mine, Changing, Stage, EnterLabels, CtlBut
  <2>3. Kept'
    BY <1>13, ResumeFailDoes, Booleans, BlankFields, Waiting
       DEF At, CallsRestore, ResumeLabels, OnDisk, Memory, Kept, Sitting, Live, Entering, Under, Covers, Sound, Mine, EnterLabels, CtlBut
  <2>4. Recorded'
    BY <1>13, ResumeFailDoes, Unrecorded
       DEF At, CallsRestore, Writing, Changing
  <2>5. Restoring'
    BY <1>13, ResumeFailDoes, Booleans, BlankFields, Waiting
       DEF At, CallsRestore, ResumeLabels, OnDisk, Desktop, Memory, Restoring, Live, Covers, Sound, Stage, RestoreLabels, Stages, Untouched, CtlBut
  <2>6. Returned'
    BY <1>13, ResumeFailDoes, Booleans, BlankFields, Waiting
       DEF At, CallsRestore, ResumeLabels, OnDisk, Desktop, Memory, Restoring, Returned, Under, Covers, Sound, Untouched, Stage, RestoreLabels, RestoreTops, CtlBut
  <2> QED BY <2>1, <2>2, <2>3, <2>4, <2>5, <2>6 DEF OnDisk
<1>14. CASE ResumeUndone
  <2>1. Desktop' /\ Memory' /\ Kept' /\ Returned'
    BY <1>14, ResumeUndoneDoes, Booleans, BlankFields, Waiting
       DEF At, Calls, Goes, ResumeLabels, OnDisk, Desktop, Memory, Kept, Sitting, Mine, RestoreTops,
           Recorded, Restoring, Returned, Live, Entering, Under, Covers, Sound, Untouched, Changing,
           Stage, EnterLabels, CtlBut, RestoreLabels
  <2>2. Recorded' /\ Restoring'
    BY <1>14, ResumeUndoneDoes, Unrecorded, Unrestoring
       DEF At, Calls, Goes, Writing, Changing, RestoreLabels
  <2> QED BY <2>1, <2>2 DEF OnDisk
<1>15. CASE ResumeMuted
  <2>1. Desktop' /\ Memory' /\ Kept' /\ Returned'
    BY <1>15, ResumeMutedDoes, Booleans, BlankFields, Waiting
       DEF At, Calls, Goes, ResumeLabels, OnDisk, Desktop, Memory, Kept, Sitting, Mine, RestoreTops,
           Recorded, Restoring, Returned, Live, Entering, Under, Covers, Sound, Untouched, Changing,
           Stage, EnterLabels, CtlBut, RestoreLabels
  <2>2. Recorded' /\ Restoring'
    BY <1>15, ResumeMutedDoes, Unrecorded, Unrestoring
       DEF At, Calls, Goes, Writing, Changing, RestoreLabels
  <2> QED BY <2>1, <2>2 DEF OnDisk
<1> QED BY <1>1, <1>2, <1>3, <1>4, <1>5, <1>6, <1>7, <1>8, <1>9, <1>10, <1>11, <1>12, <1>13, <1>14, <1>15 DEF Resumes

LEMMA ExitsOnDisk ==
  ASSUME Typed, OnDisk, Exits
  PROVE  OnDisk'
<1>1. CASE Exit
  <2>1. Desktop' /\ Memory' /\ Kept' /\ Returned'
    BY <1>1, ExitDoes, Booleans, BlankFields, Waiting
       DEF At, OnDisk, Desktop, Memory, Kept, Sitting, ResumeLabels, Mine, RestoreTops, Recorded,
           Restoring, Returned, Live, Entering, Under, Covers, Sound, Untouched, Changing, Stage,
           EnterLabels, CtlBut, RestoreLabels
  <2>2. Recorded' /\ Restoring'
    BY <1>1, ExitDoes, Unrecorded, Unrestoring
       DEF At, Writing, Changing, RestoreLabels
  <2> QED BY <2>1, <2>2 DEF OnDisk
<1>2. CASE ExitHeard
  <2>1. Desktop' /\ Memory' /\ Kept' /\ Restoring' /\ Returned'
    BY <1>2, ExitHeardDoes, Booleans, BlankFields, Waiting
       DEF At, ExitLabels, OnDisk, Desktop, Memory, Kept, Sitting, ResumeLabels, Mine, RestoreTops,
           Recorded, Restoring, Returned, Live, Entering, Under, Covers, Sound, Untouched, Changing,
           Stage, EnterLabels, CtlBut, RestoreLabels, Stages
  <2>2. Recorded'
    BY <1>2, ExitHeardDoes, Unrecorded
       DEF At, Writing, Changing
  <2> QED BY <2>1, <2>2 DEF OnDisk
<1>3. CASE ExitRestored
  <2>1. Desktop' /\ Memory' /\ Kept' /\ Returned'
    BY <1>3, ExitRestoredCases, Callers, Booleans, BlankFields, Waiting
       DEF At, Rests, LowTops, FinishTops, ExitLabels, OnDisk, Desktop, Memory, Kept, Sitting,
           ResumeLabels, Mine, RestoreTops, Recorded, Restoring, Returned, Live, Entering, Under,
           Covers, Sound, Untouched, Changing, Stage, EnterLabels, CtlBut, RestoreLabels
  <2>2. Recorded' /\ Restoring'
    BY <1>3, ExitRestoredCases, Callers, Unrecorded, Unrestoring
       DEF At, Rests, Writing, Changing, RestoreLabels
  <2> QED BY <2>1, <2>2 DEF OnDisk
<1>4. CASE Exited
  <2>1. Desktop' /\ Memory' /\ Kept' /\ Returned'
    BY <1>4, ExitedCases, Callers, Booleans, BlankFields, Waiting
       DEF At, Rests, LowTops, FinishTops, ExitLabels, OnDisk, Desktop, Memory, Kept, Sitting,
           ResumeLabels, Mine, RestoreTops, Recorded, Restoring, Returned, Live, Entering, Under,
           Covers, Sound, Untouched, Changing, Stage, EnterLabels, CtlBut, RestoreLabels
  <2>2. Recorded' /\ Restoring'
    BY <1>4, ExitedCases, Callers, Unrecorded, Unrestoring
       DEF At, Rests, Writing, Changing, RestoreLabels
  <2> QED BY <2>1, <2>2 DEF OnDisk
<1> QED BY <1>1, <1>2, <1>3, <1>4 DEF Exits

\* So it is by every step.
LEMMA OnDiskKept ==
  ASSUME Typed, OnDisk, [GameModeNext]_gameModeVars
  PROVE  OnDisk'
<1>1. CASE UNCHANGED gameModeVars
  <2>1. /\ ctl' = ctl /\ disk' = disk /\ st' = st /\ session' = session /\ desk' = desk /\ was' = was /\ Top' = Top
    BY <1>1 DEF gameModeVars, Top
  <2> QED BY <2>1, ElsewhereOnDisk DEF DeskBut, WasBut
<1> QED
  BY <1>1, AnswerOnDisk, RestoresOnDisk, MutesOnDisk, SettlesOnDisk, EntersOnDisk, ParksOnDisk, RefreshesOnDisk,
     ResumesOnDisk, ExitsOnDisk, WorldOnDisk DEF GameModeNext

---------------------------------------------------------------------------

\* Whatever Game Mode changed of the desktop (a display that it turned on,
\* the default sink, do not disturb, the window's place) is on the record
\* on disk before it is changed and until it is put back, and the
\* controller's own record, and the copy that resume and park fall back
\* to, say the same. It is so through every failure, kill, unplugged
\* display, sound output that goes and choice of the player's. No default
\* sink is owed once it is gone, nor once a restore took another for it.
THEOREM OnDiskAlways == GameModeSpec => []OnDisk
<1>1. Typed /\ OnDisk /\ [GameModeNext]_gameModeVars => OnDisk'
  BY OnDiskKept
<1> QED BY TypeCorrect, InitOnDisk, <1>1, PTL DEF GameModeSpec
===========================================================================
