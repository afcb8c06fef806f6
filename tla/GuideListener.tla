---------------------------- MODULE GuideListener ----------------------------
(***************************************************************************)
(* One controller, the event nodes it appears as, and guidebutton's        *)
(* GuideListener reading them.  The first node is the controller's own;    *)
(* the others are virtual pads that repeat its events a moment later, as   *)
(* Steam Input's does.  The kernel stamps and queues events per open node; *)
(* the listener drains a queue at a time, late, and decides holds with a   *)
(* timer.                                                                  *)
(***************************************************************************)
EXTENDS GuidePress, SequencesExt

CONSTANTS Pad,         \* the controller's own node
          HoldTimerMs, \* the single-shot timer of a hold, kHoldMs + 10
          Lag,         \* bound: how late a virtual pad repeats an event
          Late,        \* bound: how late the listener runs
          QueueMax,    \* events the kernel queues for a reader of each node
          MaxTime, MaxDowns \* bounds: clock; presses of any input and unplugged nodes

ASSUME ListenerAssumption ==
  /\ Pad \in Devices
  /\ HoldTimerMs >= HoldMs
  /\ {HoldTimerMs, Lag, Late, MaxTime, MaxDowns} \subseteq Nat /\ QueueMax \in [Devices -> Nat \ {0}]

VARIABLES
  now,     \* CLOCK_MONOTONIC
  pad,     \* the controller: inputs down, the press of each; history: the good presses of Guide
  lagging, \* per virtual pad: events of the controller it has still to repeat
  node,    \* per node: whether it is there, its generation, inputs down and queue
  table,   \* GuideListener: generation open per node, triggers watched
  policy,  \* GuidePress
  timers,  \* hold timers that run, by node and time
  out,     \* history: the presses that counted, those the signals were sent for, holds, captures
  current  \* history: the press whose beginning the listener last read, per node

listenerVars == <<now, pad, lagging, node, table, policy, timers, out, current>>

Inputs == {Guide} \cup Buttons \cup Hats \cup Triggers
Mirrored == Devices \ {Pad}
Lost == "SYN_DROPPED"
ASSUME LostIsNoInput == Lost \notin Inputs
Current(d) == node[d].there /\ table[d].gen = node[d].gen

ListenerInit ==
  /\ now = 0
  /\ pad = [down |-> {}, downs |-> 0, press |-> [i \in Inputs |-> 0], since |-> 0, alone |-> FALSE, good |-> {}]
  /\ lagging = [d \in Mirrored |-> <<>>]
  /\ node = [d \in Devices |-> [there |-> TRUE, gen |-> 1, down |-> {}, unseen |-> {}, since |-> Never,
                                with |-> {}, queue |-> <<>>]]
  /\ table = [d \in Devices |-> [gen |-> 1, triggers |-> FALSE]]
  /\ policy = [NoPolicy EXCEPT !.open = Devices,
                              !.device = [d \in Devices |-> [Unwatched EXCEPT !.armedAt = ArmDelayMs]]]
  /\ timers = {}
  /\ out = [presses |-> {}, signals |-> {}, holds |-> {}, captures |-> {}, early |-> FALSE]
  /\ current = [d \in Devices |-> 0]

-----------------------------------------------------------------------------
(* The kernel.                                                             *)

(* The reader's event mask: triggers only while Guide is held.             *)
Delivered(d, code) == Current(d) /\ (code \notin Triggers \/ table[d].triggers)

(* Whether the reader's queue has no room for a report of this input.      *)
Overflows(d, code) == Delivered(d, code) /\ Len(node[d].queue) = QueueMax[d]

(* What is held with Guide, as the node's own events tell it: keys, except *)
(* those whose press a drop swallowed, and d-pad or trigger reports.       *)
With(n, e, down, unseen) ==
  IF e.code = Guide THEN IF e.value = 1 THEN (down \cap Buttons) \ unseen ELSE n.with
  ELSE n.with \cup (IF e.value = 1 /\ Guide \in down THEN {e.code} ELSE {})

(* A node reports an event.  A full queue is emptied, and the report that  *)
(* did not fit is lost with it.                                            *)
Report(n, d, e) ==
  LET down == IF e.value = 1 THEN n.down \cup {e.code} ELSE n.down \ {e.code}
      unseen == n.unseen \ {e.code}
      with == With(n, e, down, unseen)
      since == IF e.code = Guide /\ e.value = 1 THEN now ELSE n.since
      event == [code |-> e.code, value |-> e.value, press |-> e.press, at |-> now, since |-> since, with |-> with]
      after == [n EXCEPT !.down = down, !.since = IF Guide \in down THEN since ELSE Never,
                         !.with = IF Guide \in down THEN with ELSE {}]
  IN  IF ~Delivered(d, e.code) THEN [n EXCEPT !.down = down]
      ELSE IF Overflows(d, e.code)
      THEN [after EXCEPT !.queue = <<[code |-> Lost, at |-> now]>>, !.unseen = down \cap Buttons]
      ELSE [after EXCEPT !.queue = Append(@, event), !.unseen = unseen]

(* History: presses that nobody has told yet may not be told any more.     *)
ToldPresses == out.signals \cup {r.press : r \in out.holds}
Doubtful(pd) == [pd EXCEPT !.alone = FALSE, !.good = @ \cap ToldPresses]

(* Every node is open and armed and knows which keys are down.             *)
Ready == \A d \in Devices : Current(d) /\ policy.device[d].armedAt <= now /\ node[d].unseen = {}

(* History: some node has still to tell of the end of a press of Guide.    *)
EndsPress(e) == e.code = Guide /\ e.value = 0
Unread ==
  \/ \E d \in Devices : \E i \in DOMAIN node[d].queue : EndsPress(node[d].queue[i])
  \/ \E d \in Mirrored : \E i \in DOMAIN lagging[d] : EndsPress(lagging[d][i])

(* The player presses or releases one input.                               *)
Input(code) ==
  /\ node[Pad].there
  /\ code \in pad.down \/ pad.downs < MaxDowns
  /\ LET value == IF code \in pad.down THEN 0 ELSE 1
         id == IF value = 1 THEN pad.downs + 1 ELSE pad.press[code]
         down == IF value = 1 THEN pad.down \cup {code} ELSE pad.down \ {code}
         e == [code |-> code, value |-> value, press |-> id]
         after == [pad EXCEPT !.down = down, !.downs = IF value = 1 THEN id ELSE @, !.press[code] = IF value = 1 THEN id ELSE 0,
                              !.since = IF code = Guide THEN now * value ELSE @,
                              !.alone = IF code = Guide THEN Ready /\ pad.down = {}
                                        ELSE @ /\ Guide \notin pad.down,
                              !.good = IF code /= Guide \/ value = 1 THEN @
                                       ELSE (IF Unread THEN @ \cap ToldPresses ELSE @)
                                            \cup (IF pad.alone /\ now - pad.since + Lag < HoldMs THEN {id} ELSE {})]
     IN  /\ pad' = IF Overflows(Pad, code) THEN Doubtful(after) ELSE after
         /\ node' = [node EXCEPT ![Pad] = Report(@, Pad, e)]
         /\ lagging' = [d \in Mirrored |-> IF node[d].there THEN Append(lagging[d], [code |-> code, value |-> value, press |-> id, made |-> now])
                                           ELSE lagging[d]]
  /\ UNCHANGED <<now, table, policy, timers, out, current>>

(* A virtual pad repeats the oldest event it has not repeated.             *)
Repeat(d) ==
  /\ lagging[d] /= <<>>
  /\ LET e == Head(lagging[d])
     IN  node' = [node EXCEPT ![d] = Report(@, d, [code |-> e.code, value |-> e.value, press |-> e.press])]
  /\ pad' = IF Overflows(d, Head(lagging[d]).code) THEN Doubtful(pad) ELSE pad
  /\ lagging' = [lagging EXCEPT ![d] = Tail(@)]
  /\ UNCHANGED <<now, table, policy, timers, out, current>>

(* A node disappears, with what it had queued.  The controller itself lets *)
(* go of everything, and so do the virtual pads.                           *)
Release(code) == [code |-> code, value |-> 0, press |-> pad.press[code], made |-> now]

Unplug(d) ==
  /\ node[d].there /\ pad.downs < MaxDowns
  /\ node' = [node EXCEPT ![d] = [node[d] EXCEPT !.there = FALSE, !.down = {}, !.unseen = {}, !.queue = <<>>,
                                                 !.since = Never, !.with = {}]]
  /\ pad' = [Doubtful(pad) EXCEPT !.down = IF d = Pad THEN {} ELSE @, !.downs = @ + 1]
  /\ lagging' = IF d = Pad THEN [v \in Mirrored |-> lagging[v] \o SetToSeq({Release(c) : c \in pad.down})]
                ELSE [lagging EXCEPT ![d] = <<>>]
  /\ UNCHANGED <<now, table, policy, timers, out, current>>

(* A node of that name appears, for another device.                        *)
Plug(d) ==
  /\ ~node[d].there
  /\ node' = [node EXCEPT ![d] = [node[d] EXCEPT !.there = TRUE, !.gen = node[d].gen + 1]]
  /\ UNCHANGED <<now, pad, lagging, table, policy, timers, out, current>>

-----------------------------------------------------------------------------
(* The listener.                                                           *)

Reading == [policy |-> policy, timers |-> timers, pressed |-> {}, signal |-> {}, captured |-> {}, current |-> 0]

(* One event of the queue: capture(), then event(), then the timer of a    *)
(* hold when the press has become a candidate.                             *)
ReadEvent(d, s, e) ==
  IF e.code = Lost THEN [s EXCEPT !.policy = Dropped(@, d)]
  ELSE LET capture == Capture(s.policy, d, e)
           event == Event(capture.policy, d, e)
           begins == ~Holding(capture.policy, d) /\ Holding(event.policy, d)
           told == [by |-> d, press |-> e.press]
       IN  [policy |-> event.policy,
            timers |-> s.timers \cup (IF begins THEN {[of |-> d, due |-> now + HoldTimerMs]} ELSE {}),
            captured |-> s.captured \cup (IF capture.yes THEN {told} ELSE {}),
            pressed |-> s.pressed \cup (IF event.yes
                                       THEN {[by |-> d, press |-> e.press, took |-> e.at - e.since,
                                              with |-> e.with, armed |-> e.since >= s.policy.device[d].armedAt]}
                                       ELSE {}),
            signal |-> IF event.yes THEN {e.press} ELSE s.signal,
            current |-> IF e.code = Guide /\ e.value = 1 THEN e.press ELSE s.current]

(* The triggers are watched while a press is a candidate; one that is      *)
(* already pulled when the mask opens is read directly.                    *)
Watched(p, d) ==
  LET pulled == node[d].down \cap Triggers
  IN  IF Holding(p, d) /\ ~table[d].triggers /\ pulled /= {}
      THEN [p EXCEPT !.device[d] = [p.device[d] EXCEPT !.chord = TRUE]]
      ELSE p

Drained(d, start, queue) == FoldLeft(LAMBDA s, e : ReadEvent(d, s, e), start, queue)

(* read(): the whole queue, then the signals: one for all the presses of   *)
(* the queue that counted, here taken for the last of them; and so for the *)
(* captures, of which each is kept.                                        *)
Read(d) ==
  /\ table[d].gen > 0 /\ Current(d) /\ node[d].queue /= <<>>
  /\ LET s == Drained(d, [Reading EXCEPT !.current = current[d]], node[d].queue)
     IN  /\ policy' = Watched(s.policy, d)
         /\ table' = [table EXCEPT ![d] = [gen |-> table[d].gen, triggers |-> Holding(s.policy, d)]]
         /\ timers' = s.timers
         /\ current' = [current EXCEPT ![d] = s.current]
         /\ out' = [out EXCEPT !.presses = @ \cup s.pressed, !.signals = @ \cup s.signal, !.captures = @ \cup s.captured]
  /\ node' = [node EXCEPT ![d] = [node[d] EXCEPT !.queue = <<>>]]
  /\ UNCHANGED <<now, pad, lagging>>

(* read() of a node that is gone: ENODEV.                                  *)
ReadGone(d) ==
  /\ table[d].gen > 0 /\ ~Current(d)
  /\ table' = [table EXCEPT ![d] = [gen |-> 0, triggers |-> FALSE]]
  /\ policy' = Closed(policy, d)
  /\ UNCHANGED <<now, pad, lagging, node, timers, out, current>>

(* open(): the keys that are down already count towards a chord.           *)
Opens(p, d) == Opened(p, d, now, node[d].down \ (Hats \cup Triggers))

(* rescan(): closes what is gone or has become another device, then opens  *)
(* what is there, with the keys it holds down.  Neither touches the state  *)
(* of another node.                                                        *)
Rescan ==
  LET gone == {d \in Devices : table[d].gen > 0 /\ ~Current(d)}
      new == {d \in Devices : node[d].there /\ ~Current(d)}
  IN  /\ gone \cup new /= {}
      /\ policy' = [policy EXCEPT
                      !.open = (@ \ gone) \cup new,
                      !.device = [d \in Devices |-> IF d \in new THEN Opens(policy, d).device[d]
                                                   ELSE IF d \in gone THEN Closed(policy, d).device[d]
                                                   ELSE policy.device[d]]]
      /\ table' = [d \in Devices |-> IF d \in new THEN [gen |-> node[d].gen, triggers |-> FALSE]
                                     ELSE IF d \in gone THEN [gen |-> 0, triggers |-> FALSE]
                                     ELSE table[d]]
      /\ UNCHANGED <<now, pad, lagging, node, timers, out, current>>

(* The timer of a hold, for whatever the node is by now.                   *)
Due(t) ==
  /\ t.due <= now
  /\ timers' = timers \ {t}
  /\ IF table[t.of].gen = 0 THEN UNCHANGED <<policy, out>>
     ELSE LET hold == Hold(policy, t.of, now)
              lasts == Guide \in node[t.of].down /\ \A i \in DOMAIN node[t.of].queue : node[t.of].queue[i].code /= Guide
              told == [by |-> t.of, press |-> current[t.of]]
          IN  /\ policy' = hold.policy
              /\ out' = [out EXCEPT !.holds = @ \cup (IF hold.yes THEN {told} ELSE {}),
                                    !.early = @ \/ (HoldDue(policy, t.of, now) /\ ~lasts)]
  /\ UNCHANGED <<now, pad, lagging, node, table, current>>

-----------------------------------------------------------------------------
(* Time passes while nothing is overdue: the listener's queues and timers  *)
(* by Late, the repetitions by Lag.                                        *)
Tick ==
  /\ now < MaxTime
  /\ \A d \in Devices : \A i \in DOMAIN node[d].queue :
       now - node[d].queue[i].at < Late
  /\ \A d \in Mirrored : \A i \in DOMAIN lagging[d] : now - lagging[d][i].made < Lag
  /\ \A t \in timers : now - t.due < Late
  /\ now' = now + 1
  /\ UNCHANGED <<pad, lagging, node, table, policy, timers, out, current>>

ListenerNext ==
  \/ \E code \in Inputs : Input(code)
  \/ \E d \in Mirrored : Repeat(d)
  \/ \E d \in Devices : Unplug(d) \/ Plug(d) \/ Read(d) \/ ReadGone(d)
  \/ Rescan
  \/ \E t \in timers : Due(t)
  \/ Tick

ListenerSpec == ListenerInit /\ [][ListenerNext]_listenerVars

-----------------------------------------------------------------------------
(* A press that toggles was short, began after its node was armed, and     *)
(* nothing the node reported went with it, whichever events were dropped,  *)
(* late or left over from before the node was opened (GuidePress.h:10-13). *)
PressesAreShortAndAlone ==
  \A r \in out.presses : r.took \in 0 .. MaxHoldMs /\ r.with = {} /\ r.armed

(* One press of the player's, told by every node it reaches in any order,  *)
(* is one press, one hold or one clip (GuidePress.h:14-17); and what a     *)
(* node reported as a hold it does not report as a press too (19-20).      *)
ToldOnce ==
  /\ \A kind \in {"presses", "holds", "captures"} :
       \A r, s \in out[kind] : r.press = s.press => r.by = s.by
  /\ \A r \in out.presses, h \in out.holds : r.by = h.by => r.press /= h.press

(* Everything the player did has been read.                                *)
Settled ==
  /\ \A d \in Mirrored : lagging[d] = <<>>
  /\ \A d \in Devices : node[d].queue = <<>>
  /\ timers = {}

(* A short press of Guide alone is not lost: some node's report of it      *)
(* counts and a signal is sent for it, however quickly it follows another  *)
(* and whoever reported that; unless a timer took a button for held whose  *)
(* release was not read yet (GuideListener.cpp:229), or Guide was pressed  *)
(* and released again before every node had told of it: a report of that   *)
(* may be the latest, which a slow node's is a mirror of (GuidePress.h:14- *)
(* 17), or share its signal (GuideListener.cpp:334).                       *)
ShortPressCounts ==
  Settled /\ ~out.early => pad.good \subseteq ToldPresses

(* "A press counts when the button is released within kMaxHoldMs"          *)
(* (GuidePress.h:10): each that counts has a signal of its own.  False when *)
(* the listener was late and reads two in one go (GuideListener.cpp:334).  *)
EachPressSignals == \A r \in out.presses : r.press \in out.signals
=============================================================================
