--------------------------- MODULE ShortPressProofs ---------------------------
\* Of GuideListener: a short press of Guide alone counts, whichever of any
\* number of nodes tells of it and however late they are read.
\*
\* The invariant follows such a press through each node, from the player
\* to the policy: its beginning is the last the node has to tell of, with
\* no key down before it, or the policy has it for a candidate; and what
\* comes next is its end, if it has ended. Then it counts where it is read
\* unless it is taken for a mirror; so the node whose report it would
\* mirror has still to tell of it, and that one's own report it is not.
\* The lemmas go from what a node queues, owes and knows, to the steps of
\* the player, the kernel and the listener.
EXTENDS GuideAndGameModeProofs

\* The events that begin and end a press.
IsBegin(e, i) == e.code = Guide /\ e.value = 1 /\ e.press = i
IsEnd(e, i) == EndsPress(e) /\ e.press = i

\* A key that is down after the events n + 1 to k, from those down before.
LetsGo(e, c) == e.code = Lost \/ (e.code = c /\ e.value = 0)
StaysDown(c, down, events, n, k) ==
  \/ c \in down /\ \A j \in (n + 1) .. k : ~LetsGo(events[j], c)
  \/ \E j \in (n + 1) .. k : /\ events[j].code = c /\ events[j].value = 1
                             /\ \A x \in (j + 1) .. k : ~LetsGo(events[x], c)

\* A press that began at b or later and is followed, alone; or its
\* beginning is the last of the first x events, n of which were read, with
\* no key down before; or the last of the first y to be repeated.
Counting(state, b) == state.heldSince >= b /\ ~state.chord /\ ~state.held
OpenQueued(state, q, n, x, i, b) ==
  IF x > n THEN /\ IsBegin(q[x], i) /\ q[x].at >= b
                /\ \A c \in Buttons : ~StaysDown(c, state.keysDown, q, n, x - 1)
  ELSE Counting(state, b)
OpenOwed(state, n, l, y, i, b) ==
  IF y > 0 THEN /\ IsBegin(l[y], i) /\ l[y].made >= b
                /\ \A c \in Inputs : ~StaysDown(c, n.down, l, 0, y - 1)
  ELSE n.down \subseteq {Guide} /\ OpenQueued(state, n.queue, 0, Len(n.queue), i, b)

\* Just before its end, where a node has still to tell of that.
EndQueued(state, q, n, i, b) ==
  \A j \in DOMAIN q : j > n /\ IsEnd(q[j], i) => OpenQueued(state, q, n, j - 1, i, b) /\ q[j].at - b < HoldMs
EndOwed(state, n, l, i, b) ==
  \A j \in DOMAIN l : IsEnd(l[j], i) => OpenOwed(state, n, l, j - 1, i, b) /\ l[j].made - b + Lag < HoldMs
OweEnd(l, i) == \E j \in DOMAIN l : IsEnd(l[j], i)
ToTell(q, n, l, i) == (\E j \in DOMAIN q : j > n /\ IsEnd(q[j], i)) \/ OweEnd(l, i)

\* No other press ends after it.
EndsLast(q, l, i) ==
  /\ \A j \in DOMAIN q : EndsPress(q[j]) => IsEnd(q[j], i) \/ ToTell(q, j, l, i)
  /\ \A j \in DOMAIN l : EndsPress(l[j]) => IsEnd(l[j], i) \/ \E k \in DOMAIN l : k > j /\ IsEnd(l[k], i)
EndsOn(state, n, l, i, b) ==
  EndQueued(state, n.queue, 0, i, b) /\ EndOwed(state, n, l, i, b) /\ EndsLast(n.queue, l, i)

\* Every node is open, and was armed when the press began.
Armed(b) == \A d \in Devices : Current(d) /\ policy.device[d].armedAt <= b

\* The press that is on, and may count.
MayCount == pad.alone /\ Guide \in pad.down /\ now - pad.since + Lag < HoldMs
OnStake(i, b) ==
  Armed(b) /\ \A d \in Devices : OpenOwed(policy.device[d], node[d], Owes(d), Len(Owes(d)), i, b)

\* The press that ended last and was not told: all nodes have still to
\* tell of it, or the one of the latest report has.
WaitsFor(d, i) == ToTell(node[d].queue, 0, Owes(d), i)
WillCount(i) ==
  (\A d \in Devices : WaitsFor(d, i)) \/ (policy.release.by \in Devices /\ WaitsFor(policy.release.by, i))
AtStake(i, b) ==
  /\ b \in Nat /\ Armed(b)
  /\ \A d \in Devices : EndsOn(policy.device[d], node[d], Owes(d), i, b)
  /\ WillCount(i)
Stakes ==
  out.early \/ /\ MayCount => OnStake(pad.press[Guide], pad.since)
               /\ \A i \in pad.good \ ToldPresses : \E b : AtStake(i, b)

\* What the reader knows of keys is true of the node, once its queue is
\* read; and the node's of the player's, once they are repeated.
Known(state, n) ==
  \A c \in Buttons : StaysDown(c, state.keysDown, n.queue, 0, Len(n.queue)) => c \in n.down
Honest(state, n, open) == state.keysDown \subseteq Buttons /\ (open => Known(state, n))
Tracking(n, l, p, t) ==
  /\ \A c \in Inputs : StaysDown(c, n.down, l, 0, Len(l)) => c \in p.down
  /\ \A j \in DOMAIN l : l[j].made <= t /\ t <= l[j].made + Lag
  /\ ~n.there => n.down = {} /\ \A j \in DOMAIN l : l[j].value = 0
Sound(d) == Honest(policy.device[d], node[d], Current(d)) /\ Tracking(node[d], Owes(d), pad, now)

\* Each press has its number; a press that is on has not ended.
Numbered(p, e) == EndsPress(e) => e.press <= p.downs /\ (Guide \in p.down => e.press # p.press[Guide])
Numbering ==
  /\ pad.press[Guide] <= pad.downs /\ pad.since \in Nat
  /\ \A d \in Devices : /\ \A j \in DOMAIN node[d].queue : Numbered(pad, node[d].queue[j])
                        /\ \A j \in DOMAIN Owes(d) : Numbered(pad, Owes(d)[j])
ReleasedBy == policy.release.at >= 0 => policy.release.by \in Devices

\* The invariant: the nodes are followed (ListenInv), what is known of
\* keys is true, presses are numbered, the latest report has a node, and
\* what is at stake will count.
CountInv ==
  /\ ListenInv /\ \A d \in Devices : Sound(d)
  /\ Numbering /\ ReleasedBy /\ Stakes

-----------------------------------------------------------------------------
\* Keys after one more event, and from one event on.
LEMMA StaysAppend ==
  ASSUME NEW S, NEW events \in Seq(S), NEW e, NEW c, NEW down,
         StaysDown(c, down, Append(events, e), 0, Len(events) + 1)
  PROVE  /\ StaysDown(c, down, events, 0, Len(events)) \/ (e.code = c /\ e.value = 1)
         /\ ~LetsGo(e, c) \/ (e.code = c /\ e.value = 1)
<1> DEFINE more == Append(events, e)
           k == Len(events)
<1>1. k \in Nat /\ more[k + 1] = e /\ \A j \in 1 .. k : more[j] = events[j]
  OBVIOUS
<1>2. StaysDown(c, down, more, 0, k + 1)
  OBVIOUS
<1> HIDE DEF more, k
<1>3. CASE c \in down /\ \A j \in (0 + 1) .. (k + 1) : ~LetsGo(more[j], c)
  <2>1. ~LetsGo(e, c)
    BY <1>1, <1>3
  <2>2. \A j \in (0 + 1) .. k : ~LetsGo(events[j], c)
    BY <1>1, <1>3
  <2> QED BY <1>3, <2>1, <2>2 DEF StaysDown, k
<1>4. ASSUME NEW j \in (0 + 1) .. (k + 1), more[j].code = c, more[j].value = 1,
             \A x \in (j + 1) .. (k + 1) : ~LetsGo(more[x], c)
      PROVE  /\ StaysDown(c, down, events, 0, k) \/ (e.code = c /\ e.value = 1)
             /\ ~LetsGo(e, c) \/ (e.code = c /\ e.value = 1)
  <2>1. CASE j = k + 1
    BY <1>1, <1>4, <2>1
  <2>2. CASE j # k + 1
    <3>1. j \in (0 + 1) .. k /\ k + 1 \in (j + 1) .. (k + 1)
      BY <1>1, <2>2
    <3>2. ~LetsGo(e, c)
      BY <1>1, <1>4, <3>1
    <3>3. \A x \in (j + 1) .. k : ~LetsGo(events[x], c)
      BY <1>1, <1>4, <3>1
    <3>4. events[j].code = c /\ events[j].value = 1
      BY <1>1, <1>4, <3>1
    <3> QED BY <3>1, <3>2, <3>3, <3>4 DEF StaysDown
  <2> QED BY <2>1, <2>2
<1> QED BY <1>2, <1>3, <1>4 DEF StaysDown, k

\* It depends on no events but those.
LEMMA StaysPrefix ==
  ASSUME NEW c, NEW down, NEW events, NEW more, NEW n \in Nat, NEW k \in Nat,
         \A j \in (n + 1) .. k : more[j] = events[j],
         StaysDown(c, down, more, n, k)
  PROVE  StaysDown(c, down, events, n, k)
<1>1. CASE c \in down /\ \A j \in (n + 1) .. k : ~LetsGo(more[j], c)
  BY <1>1 DEF StaysDown
<1>2. ASSUME NEW j \in (n + 1) .. k, more[j].code = c, more[j].value = 1,
             \A x \in (j + 1) .. k : ~LetsGo(more[x], c)
      PROVE  StaysDown(c, down, events, n, k)
  <2>1. \A x \in (j + 1) .. k : x \in (n + 1) .. k
    OBVIOUS
  <2>2. \A x \in (j + 1) .. k : ~LetsGo(events[x], c)
    BY <1>2, <2>1
  <2> QED BY <1>2, <2>2 DEF StaysDown
<1> QED BY <1>1, <1>2 DEF StaysDown

\* The keys down after an event.
AfterEvent(down, e) ==
  IF e.code = Lost THEN {} ELSE IF e.value = 1 THEN down \cup {e.code} ELSE down \ {e.code}

\* From one event on.
LEMMA StaysRead ==
  ASSUME NEW c, NEW down, NEW events, NEW n \in Nat, NEW k \in Nat, n >= 1, n <= k, NEW later,
         c \in later => c \in AfterEvent(down, events[n]), events[n].code # Lost => events[n].value \in {0, 1},
         StaysDown(c, later, events, n, k)
  PROVE  StaysDown(c, down, events, n - 1, k)
<1>0. (n - 1) + 1 = n
  OBVIOUS
<1>1. CASE c \in later /\ \A j \in (n + 1) .. k : ~LetsGo(events[j], c)
  <2>1. c \in AfterEvent(down, events[n]) /\ events[n].code # Lost
    BY <1>1 DEF AfterEvent
  <2>2. CASE events[n].code = c /\ events[n].value = 1
    BY <1>0, <1>1, <2>2 DEF StaysDown
  <2>3. CASE ~(events[n].code = c /\ events[n].value = 1)
    <3>1. c \in down /\ ~LetsGo(events[n], c)
      BY <2>1, <2>3 DEF AfterEvent, LetsGo
    <3>2. \A j \in n .. k : ~LetsGo(events[j], c)
      <4>1. ASSUME NEW j \in n .. k PROVE ~LetsGo(events[j], c)
        <5>1. CASE j = n
          BY <3>1, <5>1
        <5>2. CASE j # n
          BY <1>1, <5>2
        <5> QED BY <5>1, <5>2
      <4> QED BY <4>1
    <3> QED BY <1>0, <3>1, <3>2 DEF StaysDown
  <2> QED BY <2>2, <2>3
<1>2. CASE \E j \in (n + 1) .. k : /\ events[j].code = c /\ events[j].value = 1
                                   /\ \A x \in (j + 1) .. k : ~LetsGo(events[x], c)
  <2>1. \A j \in (n + 1) .. k : j \in n .. k
    OBVIOUS
  <2>2. \E j \in n .. k : /\ events[j].code = c /\ events[j].value = 1
                          /\ \A x \in (j + 1) .. k : ~LetsGo(events[x], c)
    BY <1>2, <2>1
  <2> QED BY <1>0, <2>2 DEF StaysDown
<1> QED BY <1>1, <1>2 DEF StaysDown

\* Of events that are shifted by one.
LEMMA StaysTail ==
  ASSUME NEW c, NEW down, NEW events, NEW tail, NEW k \in Nat,
         \A j \in 1 .. k : tail[j] = events[j + 1],
         StaysDown(c, down, tail, 0, k)
  PROVE  StaysDown(c, down, events, 1, k + 1)
<1>1. CASE c \in down /\ \A j \in (0 + 1) .. k : ~LetsGo(tail[j], c)
  <2>1. ASSUME NEW j \in (1 + 1) .. (k + 1) PROVE ~LetsGo(events[j], c)
    <3>1. j - 1 \in (0 + 1) .. k /\ (j - 1) + 1 = j
      OBVIOUS
    <3> QED BY <1>1, <3>1
  <2> QED BY <1>1, <2>1 DEF StaysDown
<1>2. ASSUME NEW j \in (0 + 1) .. k, tail[j].code = c, tail[j].value = 1,
             \A x \in (j + 1) .. k : ~LetsGo(tail[x], c)
      PROVE  StaysDown(c, down, events, 1, k + 1)
  <2>1. j + 1 \in (1 + 1) .. (k + 1) /\ events[j + 1] = tail[j]
    OBVIOUS
  <2>2. ASSUME NEW x \in ((j + 1) + 1) .. (k + 1) PROVE ~LetsGo(events[x], c)
    <3>1. x - 1 \in (j + 1) .. k /\ x - 1 \in 1 .. k /\ (x - 1) + 1 = x
      OBVIOUS
    <3> QED BY <1>2, <3>1
  <2> QED BY <1>2, <2>1, <2>2 DEF StaysDown
<1> QED BY <1>1, <1>2 DEF StaysDown

\* Nothing stays down of nothing that is only released.
LEMMA StaysNone ==
  ASSUME NEW c, NEW events, NEW k \in Nat, \A j \in 1 .. k : events[j].value = 0
  PROVE  ~StaysDown(c, {}, events, 0, k)
BY DEF StaysDown

\* With no event it is what was down.
LEMMA StaysSame ==
  ASSUME NEW c, NEW down, NEW events, NEW n \in Nat
  PROVE  StaysDown(c, down, events, n, n) <=> c \in down
BY DEF StaysDown

\* What a node does with an event of its input: it is queued as it is, but
\* where the reader does not hear of it or its queue overflows.
EventOf(ev, e) == ev.code = e.code /\ ev.value = e.value /\ ev.press = e.press /\ ev.at = now
Adds(d, e, new) ==
  /\ new.there = node[d].there /\ new.gen = node[d].gen /\ new.down = DownAfter(node[d], e)
  /\ ~Delivered(d, e.code) => new.queue = node[d].queue
  /\ Delivered(d, e.code) /\ Overflows(d, e.code) => new.queue = <<[code |-> Lost, at |-> now]>>
  /\ Delivered(d, e.code) /\ ~Overflows(d, e.code) => \E ev : EventOf(ev, e) /\ new.queue = Append(node[d].queue, ev)

\* It is what the model's report does.
LEMMA ReportAdds ==
  ASSUME NEW d \in Devices, NEW e, node[d] \in NodeRecord
  PROVE  Adds(d, e, Report(node[d], d, e))
<1> DEFINE n == node[d]
           down == IF e.value = 1 THEN n.down \cup {e.code} ELSE n.down \ {e.code}
           unseen == n.unseen \ {e.code}
           with == With(n, e, down, unseen)
           since == IF e.code = Guide /\ e.value = 1 THEN now ELSE n.since
           event == [code |-> e.code, value |-> e.value, press |-> e.press, at |-> now, since |-> since, with |-> with]
           heldNow == IF Guide \in down THEN since ELSE Never
           withNow == IF Guide \in down THEN with ELSE {}
           after == [n EXCEPT !.down = down, !.since = heldNow, !.with = withNow]
           lost == [code |-> Lost, at |-> now]
           new == Report(n, d, e)
<1>1. new = IF ~Delivered(d, e.code) THEN [n EXCEPT !.down = down]
            ELSE IF Overflows(d, e.code) THEN [after EXCEPT !.queue = <<lost>>, !.unseen = down \cap Buttons]
            ELSE [after EXCEPT !.queue = Append(after.queue, event), !.unseen = unseen]
  BY Zenon DEF Report
<1>2. EventOf(event, e) /\ lost = [code |-> Lost, at |-> now] /\ down = DownAfter(n, e)
  BY DEF EventOf, DownAfter
<1>3. n = [there |-> n.there, gen |-> n.gen, down |-> n.down, unseen |-> n.unseen, since |-> n.since,
           with |-> n.with, queue |-> n.queue]
  BY DEF NodeRecord
<1> HIDE DEF n, down, unseen, with, since, heldNow, withNow, event, lost
<1>4. DOMAIN n = {"there", "gen", "down", "unseen", "since", "with", "queue"}
  BY <1>3
<1>5. new.there = n.there /\ new.gen = n.gen /\ new.down = down
  BY <1>1, <1>4
<1>6. ~Delivered(d, e.code) => new.queue = n.queue
  BY <1>1, <1>4
<1>7. Delivered(d, e.code) /\ Overflows(d, e.code) => new.queue = <<lost>>
  BY <1>1, <1>4
<1>8. Delivered(d, e.code) /\ ~Overflows(d, e.code) => new.queue = Append(n.queue, event)
  BY <1>1, <1>4
<1> HIDE DEF new, after
<1>9. Adds(d, e, new)
  BY <1>2, <1>5, <1>6, <1>7, <1>8 DEF Adds, n
<1> QED BY <1>9 DEF new, n

\* Of a sequence with one more the others are the same.
LEMMA AppendIs ==
  ASSUME NEW S, NEW q \in Seq(S), NEW ev
  PROVE  /\ Len(q) \in Nat /\ DOMAIN q = 1 .. Len(q)
         /\ Len(Append(q, ev)) = Len(q) + 1 /\ DOMAIN Append(q, ev) = 1 .. (Len(q) + 1)
         /\ Append(q, ev)[Len(q) + 1] = ev
         /\ \A j \in 1 .. Len(q) : Append(q, ev)[j] = q[j]
OBVIOUS

\* What a press is at an event depends on those before it.
LEMMA OpenQueuedSame ==
  ASSUME NEW state, NEW q, NEW more, NEW n \in Nat, NEW x \in Nat, NEW i, NEW b,
         \A j \in 1 .. x : more[j] = q[j],
         OpenQueued(state, q, n, x, i, b)
  PROVE  OpenQueued(state, more, n, x, i, b)
<1>1. CASE x > n
  <2>1. more[x] = q[x] /\ x - 1 \in Nat
    BY <1>1
  <2>2. \A j \in (n + 1) .. (x - 1) : more[j] = q[j]
    OBVIOUS
  <2>3. ASSUME NEW c \in Buttons, StaysDown(c, state.keysDown, more, n, x - 1) PROVE FALSE
    <3>1. StaysDown(c, state.keysDown, q, n, x - 1)
      BY <2>1, <2>2, <2>3, StaysPrefix
    <3> QED BY <1>1, <2>3, <3>1 DEF OpenQueued
  <2> QED BY <1>1, <2>1, <2>3 DEF OpenQueued
<1>2. CASE ~(x > n)
  BY <1>2 DEF OpenQueued
<1> QED BY <1>1, <1>2

\* The same of what is owed.
LEMMA OpenOwedSame ==
  ASSUME NEW state, NEW n, NEW l, NEW more, NEW y \in Nat, NEW i, NEW b,
         \A j \in 1 .. y : more[j] = l[j],
         OpenOwed(state, n, l, y, i, b)
  PROVE  OpenOwed(state, n, more, y, i, b)
<1>1. CASE y > 0
  <2>1. more[y] = l[y] /\ y - 1 \in Nat
    BY <1>1
  <2>2. \A j \in (0 + 1) .. (y - 1) : more[j] = l[j]
    OBVIOUS
  <2>3. ASSUME NEW c \in Inputs, StaysDown(c, n.down, more, 0, y - 1) PROVE FALSE
    <3>1. StaysDown(c, n.down, l, 0, y - 1)
      BY <2>1, <2>2, <2>3, StaysPrefix
    <3> QED BY <1>1, <2>3, <3>1 DEF OpenOwed
  <2> QED BY <1>1, <2>1, <2>3 DEF OpenOwed
<1>2. CASE ~(y > 0)
  BY <1>2 DEF OpenOwed
<1> QED BY <1>1, <1>2

\* One more event is queued, or owed.
LEMMA EndQueuedAppend ==
  ASSUME NEW S, NEW q \in Seq(S), NEW ev, NEW state, NEW i, NEW b,
         EndQueued(state, q, 0, i, b),
         IsEnd(ev, i) => OpenQueued(state, q, 0, Len(q), i, b) /\ ev.at - b < HoldMs
  PROVE  EndQueued(state, Append(q, ev), 0, i, b)
<1> DEFINE more == Append(q, ev)
           k == Len(q)
<1>1. k \in Nat /\ DOMAIN q = 1 .. k /\ DOMAIN more = 1 .. (k + 1) /\ more[k + 1] = ev /\ \A j \in 1 .. k : more[j] = q[j]
  BY AppendIs
<1>k. k = Len(q)
  OBVIOUS
<1> HIDE DEF more, k
<1>2. ASSUME NEW j \in 1 .. (k + 1), IsEnd(more[j], i)
      PROVE  OpenQueued(state, more, 0, j - 1, i, b) /\ more[j].at - b < HoldMs
  <2>1. OpenQueued(state, q, 0, j - 1, i, b) /\ more[j].at - b < HoldMs
    <3>1. CASE j = k + 1
      BY <1>1, <1>2, <1>k, <3>1
    <3>2. CASE j # k + 1
      <4>1. j \in 1 .. k /\ j > 0
        BY <1>1, <3>2
      <4> QED BY <1>1, <1>2, <4>1 DEF EndQueued
    <3> QED BY <3>1, <3>2
  <2>2. j - 1 \in Nat /\ \A x \in 1 .. (j - 1) : more[x] = q[x]
    BY <1>1
  <2> QED BY <2>1, <2>2, OpenQueuedSame
<1>3. EndQueued(state, more, 0, i, b)
  BY <1>1, <1>2 DEF EndQueued
<1> QED BY <1>3 DEF more

\* The same of what is owed.
LEMMA EndOwedAppend ==
  ASSUME NEW S, NEW l \in Seq(S), NEW ev, NEW state, NEW n, NEW i, NEW b,
         EndOwed(state, n, l, i, b),
         IsEnd(ev, i) => OpenOwed(state, n, l, Len(l), i, b) /\ ev.made - b + Lag < HoldMs
  PROVE  EndOwed(state, n, Append(l, ev), i, b)
<1> DEFINE more == Append(l, ev)
           k == Len(l)
<1>1. k \in Nat /\ DOMAIN l = 1 .. k /\ DOMAIN more = 1 .. (k + 1) /\ more[k + 1] = ev /\ \A j \in 1 .. k : more[j] = l[j]
  BY AppendIs
<1>k. k = Len(l)
  OBVIOUS
<1> HIDE DEF more, k
<1>2. ASSUME NEW j \in 1 .. (k + 1), IsEnd(more[j], i)
      PROVE  OpenOwed(state, n, more, j - 1, i, b) /\ more[j].made - b + Lag < HoldMs
  <2>1. OpenOwed(state, n, l, j - 1, i, b) /\ more[j].made - b + Lag < HoldMs
    <3>1. CASE j = k + 1
      BY <1>1, <1>2, <1>k, <3>1
    <3>2. CASE j # k + 1
      <4>1. j \in 1 .. k
        BY <1>1, <3>2
      <4> QED BY <1>1, <1>2, <4>1 DEF EndOwed
    <3> QED BY <3>1, <3>2
  <2>2. j - 1 \in Nat /\ \A x \in 1 .. (j - 1) : more[x] = l[x]
    BY <1>1
  <2> QED BY <2>1, <2>2, OpenOwedSame
<1>3. EndOwed(state, n, more, i, b)
  BY <1>1, <1>2 DEF EndOwed
<1> QED BY <1>3 DEF more

\* Where no press of that number ends there is nothing to say.
LEMMA NothingEnds ==
  ASSUME NEW state, NEW n, NEW q, NEW l, NEW i, NEW b,
         \A j \in DOMAIN q : ~IsEnd(q[j], i), \A j \in DOMAIN l : ~IsEnd(l[j], i)
  PROVE  EndQueued(state, q, 0, i, b) /\ EndOwed(state, n, l, i, b)
BY DEF EndQueued, EndOwed

\* The press begins where the node knows of no key that is down.
LEMMA OpenBegins ==
  ASSUME NEW S, NEW q \in Seq(S), NEW ev, NEW state, NEW i, NEW b,
         IsBegin(ev, i), ev.at >= b,
         \A c \in Buttons : ~StaysDown(c, state.keysDown, q, 0, Len(q))
  PROVE  OpenQueued(state, Append(q, ev), 0, Len(q) + 1, i, b)
<1> DEFINE more == Append(q, ev)
           k == Len(q)
<1>1. k \in Nat /\ more[k + 1] = ev /\ \A j \in 1 .. k : more[j] = q[j]
  BY AppendIs
<1>k. k = Len(q)
  OBVIOUS
<1> HIDE DEF more, k
<1>2. ASSUME NEW c \in Buttons, StaysDown(c, state.keysDown, more, 0, k) PROVE FALSE
  <2>1. \A j \in (0 + 1) .. k : more[j] = q[j]
    BY <1>1
  <2>2. StaysDown(c, state.keysDown, q, 0, k)
    BY <1>1, <1>2, <2>1, StaysPrefix
  <2> QED BY <1>2, <1>k, <2>2
<1>3. (k + 1) - 1 = k /\ k + 1 > 0
  BY <1>1
<1>4. OpenQueued(state, more, 0, k + 1, i, b)
  BY <1>1, <1>2, <1>3 DEF OpenQueued
<1> QED BY <1>4 DEF more, k

\* What is still to be told is so with one event more.
LEMMA EndsLastAppends ==
  ASSUME NEW S, NEW q \in Seq(S), NEW ev, NEW T, NEW l \in Seq(T), NEW i, EndsLast(q, l, i),
         EndsPress(ev) => IsEnd(ev, i) \/ OweEnd(l, i)
  PROVE  EndsLast(Append(q, ev), l, i)
<1> DEFINE more == Append(q, ev)
           k == Len(q)
<1>1. k \in Nat /\ DOMAIN q = 1 .. k /\ DOMAIN more = 1 .. (k + 1) /\ more[k + 1] = ev /\ \A j \in 1 .. k : more[j] = q[j]
  BY AppendIs
<1> HIDE DEF more, k
<1>2. ASSUME NEW j \in 1 .. (k + 1), EndsPress(more[j]) PROVE IsEnd(more[j], i) \/ ToTell(more, j, l, i)
  <2>1. CASE j = k + 1
    BY <1>1, <1>2, <2>1 DEF ToTell
  <2>2. CASE j # k + 1
    <3>1. j \in 1 .. k /\ more[j] = q[j]
      BY <1>1, <2>2
    <3>2. IsEnd(q[j], i) \/ ToTell(q, j, l, i)
      BY <1>1, <1>2, <3>1 DEF EndsLast
    <3>3. (\E x \in 1 .. k : x > j /\ IsEnd(q[x], i)) => \E x \in 1 .. (k + 1) : x > j /\ IsEnd(more[x], i)
      BY <1>1
    <3> QED BY <1>1, <3>1, <3>2, <3>3 DEF ToTell
  <2> QED BY <2>1, <2>2
<1>3. EndsLast(more, l, i)
  BY <1>1, <1>2 DEF EndsLast
<1> QED BY <1>3 DEF more

\* An event that an open node hears of, with room in its queue.
Hears(n, e, new) ==
  /\ new.down = DownAfter(n, e)
  /\ \/ new.queue = n.queue /\ e.code \in Triggers
     \/ \E ev : EventOf(ev, e) /\ new.queue = Append(n.queue, ev)

\* An open node whose queue has room is one.
LEMMA AddsHears ==
  ASSUME NEW d, NEW e, NEW new, Adds(d, e, new), Current(d), ~Overflows(d, e.code)
  PROVE  Hears(node[d], e, new)
BY DEF Adds, Hears, Delivered

\* What the reader will know of keys remains true.
LEMMA KnownHears ==
  ASSUME NEW n \in NodeRecord, NEW e, e.code \in Inputs, e.value \in {0, 1}, NEW new, Hears(n, e, new),
         NEW state, Known(state, n)
  PROVE  Known(state, new)
<1>1. n.queue \in Seq(QueueEvent) /\ Buttons \cap Triggers = {} /\ Lost \notin Inputs /\ Buttons \subseteq Inputs
  BY InputsAssumption, LostIsNoInput DEF NodeRecord, Inputs
<1>2. CASE new.queue = n.queue /\ e.code \in Triggers
  <2>1. \A c \in Buttons : c \in n.down => c \in new.down
    BY <1>1, <1>2 DEF Hears, DownAfter
  <2> QED BY <1>2, <2>1 DEF Known
<1>3. ASSUME NEW ev, EventOf(ev, e), new.queue = Append(n.queue, ev) PROVE Known(state, new)
  <2>1. ASSUME NEW c \in Buttons, StaysDown(c, state.keysDown, new.queue, 0, Len(new.queue)) PROVE c \in new.down
    <3>1. StaysDown(c, state.keysDown, Append(n.queue, ev), 0, Len(n.queue) + 1)
      BY <1>1, <1>3, <2>1, AppendIs
    <3>2. /\ StaysDown(c, state.keysDown, n.queue, 0, Len(n.queue)) \/ (ev.code = c /\ ev.value = 1)
          /\ ~LetsGo(ev, c) \/ (ev.code = c /\ ev.value = 1)
      BY <1>1, <3>1, StaysAppend
    <3>3. CASE ev.code = c /\ ev.value = 1
      BY <1>3, <3>3 DEF EventOf, Hears, DownAfter
    <3>4. CASE ~(ev.code = c /\ ev.value = 1)
      <4>1. c \in n.down /\ ~(e.code = c /\ e.value = 0)
        BY <1>3, <3>2, <3>4 DEF Known, LetsGo, EventOf
      <4> QED BY <4>1 DEF Hears, DownAfter
    <3> QED BY <3>3, <3>4
  <2> QED BY <2>1 DEF Known
<1> QED BY <1>2, <1>3 DEF Hears

\* The oldest event that is owed is told of: what is open is so still.
First(l, e) == /\ l # <<>> /\ l[1].code = e.code /\ l[1].value = e.value /\ l[1].press = e.press
               /\ l[1].made <= now /\ now <= l[1].made + Lag

\* What is left of a sequence without its first.
LEMMA TailIs ==
  ASSUME NEW S, NEW l \in Seq(S), l # <<>>
  PROVE  /\ Len(l) \in Nat /\ Len(l) >= 1 /\ DOMAIN l = 1 .. Len(l)
         /\ Tail(l) \in Seq(S) /\ Len(Tail(l)) = Len(l) - 1 /\ DOMAIN Tail(l) = 1 .. (Len(l) - 1)
         /\ \A j \in 1 .. (Len(l) - 1) : Tail(l)[j] = l[j + 1]
OBVIOUS

\* A press that is open where l is owed is open where its tail is.
LEMMA OpenHears ==
  ASSUME now \in Nat, NEW n \in NodeRecord, NEW l \in Seq(Repetition), NEW e, First(l, e), NEW new, Hears(n, e, new),
         NEW state, Known(state, n), NEW b \in Nat, NEW i, NEW y \in 1 .. Len(l), OpenOwed(state, n, l, y, i, b)
  PROVE  OpenOwed(state, new, Tail(l), y - 1, i, b)
<1> DEFINE t == Tail(l)
           k == Len(l)
<1>1. /\ k \in Nat /\ k >= 1 /\ DOMAIN l = 1 .. k /\ t \in Seq(Repetition) /\ Len(t) = k - 1
      /\ \A j \in 1 .. (k - 1) : t[j] = l[j + 1]
  BY TailIs DEF First
<1>2. /\ y > 0 /\ IsBegin(l[y], i) /\ l[y].made >= b /\ \A c \in Inputs : ~StaysDown(c, n.down, l, 0, y - 1)
      /\ y \in 1 .. k
  BY DEF OpenOwed
<1>3. l[1].code \in Inputs /\ l[1].value \in {0, 1} /\ l[1].made \in Nat
  <2>1. l[1] \in Repetition
    BY <1>1
  <2> QED BY <2>1 DEF Repetition
<1>4. Lost \notin Inputs /\ new.down = DownAfter(n, e) /\ n.queue \in Seq(QueueEvent) /\ n.down \in SUBSET Inputs
  BY LostIsNoInput DEF Hears, NodeRecord
<1> HIDE DEF t, k
<1>5. CASE y = 1
  <2>1. n.down = {}
    <3>1. \A c \in Inputs : c \notin n.down
      BY <1>2, <1>5, StaysSame
    <3> QED BY <1>4, <3>1
  <2>2. IsBegin(e, i) /\ e.code = Guide /\ e.value = 1
    BY <1>2, <1>5 DEF First, IsBegin
  <2>3. new.down = {Guide}
    BY <1>4, <2>1, <2>2 DEF DownAfter
  <2>4. PICK ev : EventOf(ev, e) /\ new.queue = Append(n.queue, ev)
    BY <2>2, InputsAssumption DEF Hears
  <2>5. IsBegin(ev, i) /\ ev.at >= b
    BY <1>2, <1>3, <1>5, <2>2, <2>4 DEF EventOf, IsBegin, First
  <2>6. \A c \in Buttons : ~StaysDown(c, state.keysDown, n.queue, 0, Len(n.queue))
    BY <2>1 DEF Known
  <2>7. OpenQueued(state, Append(n.queue, ev), 0, Len(n.queue) + 1, i, b)
    BY <1>4, <2>5, <2>6, OpenBegins
  <2>8. OpenQueued(state, new.queue, 0, Len(new.queue), i, b)
    BY <1>4, <2>4, <2>7, AppendIs
  <2> QED BY <1>5, <2>3, <2>8 DEF OpenOwed
<1>6. CASE y # 1
  <2>1. y - 1 \in 1 .. (k - 1) /\ y - 1 > 0 /\ t[y - 1] = l[y] /\ (y - 1) - 1 \in Nat /\ (y - 1) - 1 + 1 = y - 1
    BY <1>1, <1>2, <1>6
  <2>2. ASSUME NEW c \in Inputs, StaysDown(c, new.down, t, 0, (y - 1) - 1) PROVE FALSE
    <3>1. \A j \in 1 .. ((y - 1) - 1) : t[j] = l[j + 1]
      BY <1>1, <2>1
    <3>2. StaysDown(c, new.down, l, 1, y - 1)
      BY <2>1, <2>2, <3>1, StaysTail
    <3>3. new.down = AfterEvent(n.down, l[1])
      BY <1>3, <1>4 DEF AfterEvent, DownAfter, First
    <3>4. 1 \in Nat /\ y - 1 \in Nat /\ 1 >= 1 /\ 1 <= y - 1 /\ 1 - 1 = 0
      BY <2>1
    <3>5. StaysDown(c, n.down, l, 1 - 1, y - 1)
      BY <1>3, <3>2, <3>3, <3>4, StaysRead
    <3> QED BY <1>2, <2>2, <3>4, <3>5
  <2>3. IsBegin(t[y - 1], i) /\ t[y - 1].made >= b
    BY <1>2, <2>1
  <2>4. OpenOwed(state, new, t, y - 1, i, b)
    BY <2>1, <2>2, <2>3 DEF OpenOwed
  <2> QED BY <2>4 DEF t
<1> QED BY <1>5, <1>6

\* And so is what will end.
LEMMA EndsHears ==
  ASSUME now \in Nat, NEW n \in NodeRecord, NEW l \in Seq(Repetition), NEW e, First(l, e), NEW new, Hears(n, e, new),
         NEW state, Known(state, n), NEW b \in Nat, NEW i, EndsOn(state, n, l, i, b)
  PROVE  EndsOn(state, new, Tail(l), i, b) /\ (ToTell(n.queue, 0, l, i) => ToTell(new.queue, 0, Tail(l), i))
<1> DEFINE t == Tail(l)
           k == Len(l)
           q == n.queue
<1>1. /\ k \in Nat /\ k >= 1 /\ DOMAIN l = 1 .. k /\ t \in Seq(Repetition) /\ Len(t) = k - 1 /\ DOMAIN t = 1 .. (k - 1)
      /\ \A j \in 1 .. (k - 1) : t[j] = l[j + 1]
  BY TailIs DEF First
<1>2. EndQueued(state, q, 0, i, b) /\ EndOwed(state, n, l, i, b) /\ EndsLast(q, l, i)
  BY DEF EndsOn
<1>3. l[1].made \in Nat /\ q \in Seq(QueueEvent)
  <2>1. l[1] \in Repetition
    BY <1>1
  <2> QED BY <2>1 DEF Repetition, NodeRecord
<1>4. \A ev : EventOf(ev, e) => (EndsPress(ev) <=> EndsPress(l[1])) /\ (IsEnd(ev, i) <=> IsEnd(l[1], i)) /\ ev.at = now
  BY DEF EventOf, EndsPress, IsEnd, First
<1>t. t = Tail(l) /\ k = Len(l) /\ q = n.queue
  OBVIOUS
<1> HIDE DEF t, k, q
<1>5. EndOwed(state, new, t, i, b)
  <2>1. ASSUME NEW j \in 1 .. (k - 1), IsEnd(t[j], i)
        PROVE  OpenOwed(state, new, t, j - 1, i, b) /\ t[j].made - b + Lag < HoldMs
    <3>1. j + 1 \in DOMAIN l /\ t[j] = l[j + 1] /\ (j + 1) - 1 = j /\ j \in 1 .. k
      BY <1>1
    <3>2. OpenOwed(state, n, l, j, i, b) /\ t[j].made - b + Lag < HoldMs
      BY <1>2, <2>1, <3>1 DEF EndOwed
    <3> QED BY <1>t, <3>1, <3>2, OpenHears
  <2> QED BY <1>1, <2>1 DEF EndOwed
<1>6. \A j \in 1 .. k : EndsPress(l[j]) => IsEnd(l[j], i) \/ \E x \in 1 .. k : x > j /\ IsEnd(l[x], i)
  BY <1>1, <1>2 DEF EndsLast
<1>7. \A x \in 1 .. k : x > 1 /\ IsEnd(l[x], i) => OweEnd(t, i)
  <2>1. ASSUME NEW x \in 1 .. k, x > 1, IsEnd(l[x], i) PROVE OweEnd(t, i)
    <3>1. x - 1 \in 1 .. (k - 1) /\ (x - 1) + 1 = x
      BY <1>1, <2>1
    <3>2. IsEnd(t[x - 1], i)
      BY <1>1, <2>1, <3>1
    <3> QED BY <1>1, <3>1, <3>2 DEF OweEnd
  <2> QED BY <2>1
<1>8. \A j \in DOMAIN t : EndsPress(t[j]) => IsEnd(t[j], i) \/ \E x \in DOMAIN t : x > j /\ IsEnd(t[x], i)
  <2>1. ASSUME NEW j \in 1 .. (k - 1), EndsPress(t[j]), ~IsEnd(t[j], i) PROVE \E x \in 1 .. (k - 1) : x > j /\ IsEnd(t[x], i)
    <3>1. j + 1 \in 1 .. k /\ t[j] = l[j + 1]
      BY <1>1
    <3>2. PICK x \in 1 .. k : x > j + 1 /\ IsEnd(l[x], i)
      BY <1>6, <2>1, <3>1
    <3>3. x - 1 \in 1 .. (k - 1) /\ x - 1 > j /\ (x - 1) + 1 = x
      BY <1>1, <3>2
    <3> QED BY <1>1, <3>2, <3>3
  <2> QED BY <1>1, <2>1
<1>9. OweEnd(l, i) => IsEnd(l[1], i) \/ OweEnd(t, i)
  BY <1>1, <1>7 DEF OweEnd
<1>10. CASE new.queue = q /\ e.code \in Triggers
  <2>1. ~EndsPress(l[1]) /\ ~IsEnd(l[1], i)
    BY <1>10, InputsAssumption DEF EndsPress, IsEnd, First
  <2>2. \A j : ToTell(q, j, l, i) => ToTell(q, j, t, i)
    BY <1>9, <2>1 DEF ToTell
  <2>3. EndsLast(q, t, i)
    BY <1>2, <1>8, <2>2 DEF EndsLast
  <2>4. EndsOn(state, new, t, i, b)
    BY <1>2, <1>5, <1>10, <2>3 DEF EndsOn
  <2>5. ToTell(q, 0, l, i) => ToTell(new.queue, 0, t, i)
    BY <1>10, <2>2
  <2> QED BY <1>t, <2>4, <2>5
<1>11. ASSUME NEW ev, EventOf(ev, e), new.queue = Append(q, ev)
       PROVE  EndsOn(state, new, t, i, b) /\ (ToTell(q, 0, l, i) => ToTell(new.queue, 0, t, i))
  <2> DEFINE more == Append(q, ev)
             m == Len(q)
  <2>1. m \in Nat /\ DOMAIN q = 1 .. m /\ DOMAIN more = 1 .. (m + 1) /\ more[m + 1] = ev /\ \A j \in 1 .. m : more[j] = q[j]
    BY <1>3, AppendIs
  <2>2. (EndsPress(ev) <=> EndsPress(l[1])) /\ (IsEnd(ev, i) <=> IsEnd(l[1], i)) /\ ev.at = now
    BY <1>4, <1>11
  <2>3. EndQueued(state, more, 0, i, b)
    <3>1. ASSUME IsEnd(ev, i) PROVE OpenQueued(state, q, 0, Len(q), i, b) /\ ev.at - b < HoldMs
      <4>1. OpenOwed(state, n, l, 0, i, b) /\ l[1].made - b + Lag < HoldMs
        <5>1. 1 \in DOMAIN l /\ 1 - 1 = 0
          BY <1>1
        <5> QED BY <1>2, <2>2, <3>1, <5>1 DEF EndOwed
      <4>2. OpenQueued(state, q, 0, Len(q), i, b)
        BY <1>t, <4>1 DEF OpenOwed
      <4>3. now - b < HoldMs
        <5>1. Lag \in Nat /\ HoldMs \in Nat
          BY ListenerAssumption, TimesAssumption
        <5>2. now <= l[1].made + Lag
          BY DEF First
        <5> DEFINE made == l[1].made
        <5>3. made \in Nat /\ now <= made + Lag /\ made - b + Lag < HoldMs
          BY <1>3, <4>1, <5>2
        <5> HIDE DEF made
        <5> QED BY <5>1, <5>3
      <4> QED BY <2>2, <4>2, <4>3
    <3> QED BY <1>2, <1>3, <3>1, EndQueuedAppend
  <2>q. more = new.queue
    BY <1>11
  <2> HIDE DEF more, m
  <2>4. ASSUME NEW j \in 1 .. (m + 1), EndsPress(more[j]) PROVE IsEnd(more[j], i) \/ ToTell(more, j, t, i)
    <3>1. CASE j = m + 1
      BY <1>1, <1>6, <1>7, <2>1, <2>2, <2>4, <3>1 DEF ToTell
    <3>2. CASE j # m + 1
      <4>1. j \in 1 .. m /\ more[j] = q[j] /\ m + 1 > j
        BY <2>1, <3>2
      <4>2. IsEnd(q[j], i) \/ ToTell(q, j, l, i)
        BY <1>2, <2>1, <2>4, <4>1 DEF EndsLast
      <4>3. CASE OweEnd(l, i)
        BY <1>9, <2>1, <2>2, <4>1, <4>3 DEF ToTell
      <4>4. (\E x \in 1 .. m : x > j /\ IsEnd(q[x], i)) => \E x \in 1 .. (m + 1) : x > j /\ IsEnd(more[x], i)
        BY <2>1
      <4> QED BY <2>1, <4>1, <4>2, <4>3, <4>4 DEF ToTell
    <3> QED BY <3>1, <3>2
  <2>5. EndsLast(more, t, i)
    BY <1>8, <2>1, <2>4 DEF EndsLast
  <2>6. ToTell(q, 0, l, i) => ToTell(more, 0, t, i)
    <3>1. CASE OweEnd(l, i)
      BY <1>9, <2>1, <2>2, <3>1 DEF ToTell
    <3>2. (\E x \in 1 .. m : x > 0 /\ IsEnd(q[x], i)) => \E x \in 1 .. (m + 1) : x > 0 /\ IsEnd(more[x], i)
      BY <2>1
    <3> QED BY <2>1, <3>1, <3>2 DEF ToTell
  <2> QED BY <1>5, <2>3, <2>5, <2>6, <2>q DEF EndsOn
<1>12. EndsOn(state, new, t, i, b) /\ (ToTell(q, 0, l, i) => ToTell(new.queue, 0, t, i))
  <2>1. \/ new.queue = q /\ e.code \in Triggers
        \/ \E ev : EventOf(ev, e) /\ new.queue = Append(q, ev)
    BY <1>t DEF Hears
  <2> QED BY <1>10, <1>11, <1>t, <2>1
<1> QED BY <1>12, <1>t

\* What the player does and is no end changes nothing that will end.
LEMMA EndsQueues ==
  ASSUME NEW n \in NodeRecord, NEW new, NEW e, Hears(n, e, new), ~EndsPress(e), NEW state, NEW i, NEW b,
         EndsOn(state, n, <<>>, i, b)
  PROVE  EndsOn(state, new, <<>>, i, b) /\ (ToTell(n.queue, 0, <<>>, i) => ToTell(new.queue, 0, <<>>, i))
<1> DEFINE q == n.queue
<1>1. q \in Seq(QueueEvent) /\ EndQueued(state, q, 0, i, b) /\ EndsLast(q, <<>>, i) /\ <<>> \in Seq(Repetition)
  BY DEF EndsOn, NodeRecord
<1>2. \A other : EndOwed(state, other, <<>>, i, b)
  BY DEF EndOwed
<1>3. CASE new.queue = q
  BY <1>1, <1>2, <1>3 DEF EndsOn
<1>4. ASSUME NEW ev, EventOf(ev, e), new.queue = Append(q, ev)
      PROVE  EndsOn(state, new, <<>>, i, b) /\ (ToTell(q, 0, <<>>, i) => ToTell(new.queue, 0, <<>>, i))
  <2>1. ~EndsPress(ev) /\ ~IsEnd(ev, i)
    BY <1>4 DEF EventOf, EndsPress, IsEnd
  <2> HIDE DEF q
  <2>2. EndQueued(state, new.queue, 0, i, b)
    BY <1>1, <1>4, <2>1, EndQueuedAppend
  <2>3. EndsLast(new.queue, <<>>, i)
    BY <1>1, <1>4, <2>1, EndsLastAppends
  <2>4. ToTell(q, 0, <<>>, i) => ToTell(new.queue, 0, <<>>, i)
    <3>1. Len(q) \in Nat /\ DOMAIN q = 1 .. Len(q) /\ DOMAIN new.queue = 1 .. (Len(q) + 1) /\
         \A j \in 1 .. Len(q) : new.queue[j] = q[j]
      BY <1>1, <1>4, AppendIs
    <3>2. (\E x \in 1 .. Len(q) : x > 0 /\ IsEnd(q[x], i)) => \E x \in 1 .. (Len(q) + 1) : x > 0 /\ IsEnd(new.queue[x], i)
      BY <3>1
    <3> QED BY <3>1, <3>2 DEF ToTell
  <2> QED BY <1>2, <2>2, <2>3, <2>4 DEF EndsOn
<1> QED BY <1>3, <1>4 DEF Hears

\* And where it is owed.
LEMMA EndsOwes ==
  ASSUME NEW n \in NodeRecord, NEW l \in Seq(Repetition), NEW ev, ~EndsPress(ev), NEW state, NEW i, NEW b,
         EndsOn(state, n, l, i, b)
  PROVE  EndsOn(state, n, Append(l, ev), i, b) /\ (ToTell(n.queue, 0, l, i) => ToTell(n.queue, 0, Append(l, ev), i))
<1> DEFINE more == Append(l, ev)
           k == Len(l)
           q == n.queue
<1>1. k \in Nat /\ DOMAIN l = 1 .. k /\ DOMAIN more = 1 .. (k + 1) /\ more[k + 1] = ev /\ \A j \in 1 .. k : more[j] = l[j]
  BY AppendIs
<1>2. EndQueued(state, q, 0, i, b) /\ EndOwed(state, n, l, i, b) /\ EndsLast(q, l, i)
  BY DEF EndsOn
<1>3. ~IsEnd(ev, i)
  BY DEF IsEnd
<1>4. EndOwed(state, n, more, i, b)
  BY <1>2, <1>3, EndOwedAppend
<1>t. more = Append(l, ev) /\ q = n.queue
  OBVIOUS
<1> HIDE DEF more, k, q
<1>5. OweEnd(l, i) => OweEnd(more, i)
  BY <1>1 DEF OweEnd
<1>6. \A j : ToTell(q, j, l, i) => ToTell(q, j, more, i)
  BY <1>5 DEF ToTell
<1>7. ASSUME NEW j \in 1 .. (k + 1), EndsPress(more[j]), ~IsEnd(more[j], i)
      PROVE \E x \in 1 .. (k + 1) : x > j /\ IsEnd(more[x], i)
  <2>1. j \in 1 .. k
    BY <1>1, <1>7
  <2>2. PICK x \in 1 .. k : x > j /\ IsEnd(l[x], i)
    BY <1>1, <1>2, <1>7, <2>1 DEF EndsLast
  <2> QED BY <1>1, <2>2
<1>8. EndsLast(q, more, i)
  BY <1>1, <1>2, <1>6, <1>7 DEF EndsLast
<1>9. EndsOn(state, n, more, i, b) /\ (ToTell(q, 0, l, i) => ToTell(q, 0, more, i))
  BY <1>2, <1>4, <1>6, <1>8, <1>t DEF EndsOn
<1> QED BY <1>9, <1>t

\* What is queued after a report was queued before, or is what is reported
\* or the mark of a loss.
LEMMA AddsOf ==
  ASSUME NEW d, node[d] \in NodeRecord, NEW e, NEW new, Adds(d, e, new)
  PROVE  \A j \in DOMAIN new.queue :
           \/ \E k \in DOMAIN node[d].queue : new.queue[j] = node[d].queue[k]
           \/ EventOf(new.queue[j], e)
           \/ new.queue[j].code = Lost
<1> DEFINE q == node[d].queue
<1>1. q \in Seq(QueueEvent)
  BY DEF NodeRecord
<1>2. CASE new.queue = q
  BY <1>2
<1>3. CASE new.queue = <<[code |-> Lost, at |-> now]>>
  <2> DEFINE lost == [code |-> Lost, at |-> now]
  <2>1. lost.code = Lost /\ new.queue = <<lost>>
    BY <1>3
  <2> HIDE DEF lost
  <2> QED BY <2>1
<1>4. ASSUME NEW ev, EventOf(ev, e), new.queue = Append(q, ev)
      PROVE  \A j \in DOMAIN new.queue :
               (\E k \in DOMAIN q : new.queue[j] = q[k]) \/ EventOf(new.queue[j], e)
  <2>1. /\ Len(q) \in Nat /\ DOMAIN q = 1 .. Len(q) /\ DOMAIN new.queue = 1 .. (Len(q) + 1)
        /\ new.queue[Len(q) + 1] = ev /\ \A j \in 1 .. Len(q) : new.queue[j] = q[j]
    BY <1>1, <1>4, AppendIs
  <2> HIDE DEF q
  <2>2. \A j \in 1 .. (Len(q) + 1) : j \in 1 .. Len(q) \/ j = Len(q) + 1
    BY <2>1
  <2> QED BY <1>4, <2>1, <2>2
<1> QED BY <1>2, <1>3, <1>4 DEF Adds

\* What the reader will know of keys remains true, whatever is lost.
LEMMA KnownAdds ==
  ASSUME NEW d, node[d] \in NodeRecord, NEW e, e.code \in Inputs, e.value \in {0, 1}, NEW new, Adds(d, e, new), Current(d),
         NEW state, Known(state, node[d])
  PROVE  Known(state, new)
<1>1. CASE ~Overflows(d, e.code)
  BY <1>1, AddsHears, KnownHears
<1>2. CASE Overflows(d, e.code)
  <2> DEFINE lost == [code |-> Lost, at |-> now]
  <2>1. new.queue = <<lost>> /\ lost.code = Lost
    BY <1>2 DEF Adds, Overflows
  <2> HIDE DEF lost
  <2>2. Len(new.queue) = 1 /\ new.queue[1] = lost
    BY <2>1
  <2>3. \A c \in Buttons : c # Lost
    BY LostIsNoInput DEF Inputs
  <2>4. LetsGo(new.queue[1], Lost) /\ \A c : LetsGo(new.queue[1], c)
    BY <2>1, <2>2 DEF LetsGo
  <2>5. ASSUME NEW c \in Buttons, StaysDown(c, state.keysDown, new.queue, 0, 1) PROVE FALSE
    <3>1. CASE \A j \in (0 + 1) .. 1 : ~LetsGo(new.queue[j], c)
      BY <2>4, <3>1
    <3>2. CASE \E j \in (0 + 1) .. 1 : new.queue[j].code = c
      BY <2>1, <2>2, <2>3, <3>2
    <3> QED BY <2>5, <3>1, <3>2 DEF StaysDown
  <2> QED BY <2>2, <2>5 DEF Known
<1> QED BY <1>1, <1>2

\* What the player holds is what a node will have down, when the oldest
\* event is repeated.
LEMMA TrackFirst ==
  ASSUME NEW n \in NodeRecord, NEW l \in Seq(Repetition), NEW e, First(l, e), NEW c,
         StaysDown(c, DownAfter(n, e), Tail(l), 0, Len(Tail(l)))
  PROVE  StaysDown(c, n.down, l, 0, Len(l))
<1> DEFINE t == Tail(l)
           k == Len(l)
<1>1. /\ k \in Nat /\ k >= 1 /\ DOMAIN l = 1 .. k /\ Len(t) = k - 1 /\ \A j \in 1 .. (k - 1) : t[j] = l[j + 1]
  BY TailIs DEF First
<1>2. l[1].code \in Inputs /\ l[1].value \in {0, 1} /\ Lost \notin Inputs
  <2>1. l[1] \in Repetition
    BY <1>1
  <2> QED BY <2>1, LostIsNoInput DEF Repetition
<1>3. StaysDown(c, DownAfter(n, e), t, 0, k - 1)
  BY <1>1
<1> HIDE DEF t, k
<1>4. DownAfter(n, e) = AfterEvent(n.down, l[1])
  BY <1>2 DEF AfterEvent, DownAfter, First
<1>5. StaysDown(c, DownAfter(n, e), l, 1, (k - 1) + 1)
  <2>1. k - 1 \in Nat
    BY <1>1
  <2> QED BY <1>1, <1>3, <2>1, StaysTail
<1>6. 1 \in Nat /\ 1 >= 1 /\ 1 <= k /\ (k - 1) + 1 = k /\ 1 - 1 = 0
  BY <1>1
<1>7. StaysDown(c, n.down, l, 1 - 1, k)
  BY <1>1, <1>2, <1>4, <1>5, <1>6, StaysRead
<1> QED BY <1>6, <1>7 DEF k

\* A press nobody may count on is none at stake.
LEMMA NoStakes ==
  ASSUME pad'.alone = FALSE, pad'.good \subseteq ToldPresses, UNCHANGED out
  PROVE  Stakes'
<1>1. ~MayCount'
  BY DEF MayCount
<1>2. pad'.good \ ToldPresses' = {}
  BY DEF ToldPresses
<1> QED BY <1>1, <1>2 DEF Stakes

\* So after what makes a press doubtful.
LEMMA DoubtfulStakes ==
  ASSUME NEW p, p \in PadRecord(p), pad' = Doubtful(p), UNCHANGED out
  PROVE  Stakes'
<1> DEFINE good == p.good \cap ToldPresses
<1>1. pad' = [p EXCEPT !.alone = FALSE, !.good = good]
  BY DEF Doubtful
<1>2. good \subseteq ToldPresses
  OBVIOUS
<1> HIDE DEF good
<1>3. pad'.alone = FALSE /\ pad'.good = good
  BY <1>1 DEF PadRecord
<1> QED BY <1>2, <1>3, NoStakes

\* What is at stake remains so where each node has still to tell of it.
LEMMA StillAtStake ==
  ASSUME NEW i, NEW b, AtStake(i, b), Armed(b)',
         \A d \in Devices : EndsOn(policy'.device[d], node'[d], Owes(d)', i, b),
         \A d \in Devices : WaitsFor(d, i) => ToTell(node'[d].queue, 0, Owes(d)', i),
         policy'.release.by = policy.release.by
  PROVE  AtStake(i, b)'
<1>1. b \in Nat /\ WillCount(i)
  BY DEF AtStake
<1>2. WillCount(i)'
  BY <1>1 DEF WillCount, WaitsFor
<1>3. \A d \in Devices : EndsOn(policy.device[d], node[d], Owes(d), i, b)'
  OBVIOUS
<1> QED BY <1>1, <1>2, <1>3 DEF AtStake

\* The parts that say nothing of what is at stake, where a node reports
\* the oldest event it owes.
LEMMA NumberedAdds ==
  ASSUME NEW d, node[d] \in NodeRecord, NEW e, NEW new, Adds(d, e, new), NEW p,
         \A j \in DOMAIN node[d].queue : Numbered(p, node[d].queue[j]), Numbered(p, e)
  PROVE  \A j \in DOMAIN new.queue : Numbered(p, new.queue[j])
<1>1. \A ev : EventOf(ev, e) => Numbered(p, ev)
  BY DEF EventOf, Numbered, EndsPress
<1>2. \A ev : ev.code = Lost => Numbered(p, ev)
  BY LostIsNoInput DEF Numbered, EndsPress, Inputs
<1> QED BY <1>1, <1>2, AddsOf

\* What is honest of an open node is so of one that is open no more.
LEMMA HonestWhen ==
  ASSUME NEW state, NEW n, NEW open, NEW still, Honest(state, n, open), still => open
  PROVE  Honest(state, n, still)
BY DEF Honest

\* The two parts of Sound, after a step.
LEMMA SoundAfter ==
  ASSUME NEW d, NEW state, NEW n, NEW l, policy'.device[d] = state, node'[d] = n, Owes(d)' = l,
         Honest(state, n, Current(d)'), Tracking(n, l, pad', now')
  PROVE  Sound(d)'
BY DEF Sound

\* Repeat: what is at stake, or may be, is so when more of it was told.
LEMMA CountRepeat ==
  ASSUME CountInv, NEW d \in Mirrored, Repeat(d)
  PROVE  CountInv'
<1> DEFINE h == Head(lagging[d])
           e == [code |-> h.code, value |-> h.value, press |-> h.press]
           new == Report(node[d], d, e)
           l == Owes(d)
<1>1. /\ node' = [node EXCEPT ![d] = new]
      /\ pad' = (IF Overflows(d, e.code) THEN Doubtful(pad) ELSE pad)
      /\ lagging' = [lagging EXCEPT ![d] = Tail(lagging[d])] /\ lagging[d] # <<>>
      /\ UNCHANGED <<now, table, policy, timers, out, current>>
  BY DEF Repeat
<1>2. /\ ListenInv /\ ListenInv' /\ d \in Devices /\ now \in Nat /\ pad \in PadRecord(pad)
      /\ lagging \in [Mirrored -> Seq(Repetition)] /\ node \in [Devices -> NodeRecord]
  BY ListenRepeat DEF CountInv, ListenInv, ListenTypes, Mirrored
<1>3. l = lagging[d] /\ l \in Seq(Repetition) /\ l # <<>> /\ h = l[1] /\ h \in Repetition
  BY <1>1, <1>2 DEF Owes
<1>4. e.code = l[1].code /\ e.value = l[1].value /\ e.press = l[1].press /\ e.code \in Inputs /\ e.value \in {0, 1}
  BY <1>3 DEF Repetition
<1>5. node[d] \in NodeRecord /\ Adds(d, e, new)
  BY <1>2, ReportAdds
<1> HIDE DEF h, e, new, l
<1>6. node'[d] = new /\ \A x \in Devices \ {d} : node'[x] = node[x]
  BY <1>1, <1>2
<1>7. Owes(d)' = Tail(l) /\ \A x \in Devices \ {d} : Owes(x)' = Owes(x)
  BY <1>1, <1>2, <1>3 DEF Owes
<1>8. \A x \in Devices : Current(x)' <=> Current(x)
  BY <1>1, <1>5, <1>6 DEF Adds, Current
<1>9. First(l, e) /\ 1 \in DOMAIN l
  <2>1. 1 \in DOMAIN l
    BY <1>3
  <2>2. Tracking(node[d], l, pad, now)
    BY <1>2 DEF CountInv, Sound, l
  <2> QED BY <1>3, <1>4, <2>1, <2>2 DEF First, Tracking
<1>10. pad'.down = pad.down /\ pad'.downs = pad.downs /\ pad'.press = pad.press /\ pad'.since = pad.since
  <2>1. Doubtful(pad).since = pad.since
    BY <1>2 DEF Doubtful, PadRecord
  <2> QED BY <1>1, <1>2, <2>1, DoubtfulPad
<1>11. ASSUME NEW x \in Devices PROVE Sound(x)'
  <2>1. Honest(policy.device[x], node[x], Current(x)) /\ Tracking(node[x], Owes(x), pad, now)
    BY DEF CountInv, Sound
  <2>2. CASE x = d
    <3>1. Honest(policy.device[d], new, Current(d))
      BY <1>4, <1>5, <2>1, <2>2, KnownAdds DEF Honest
    <3>2. new.down = DownAfter(node[d], e) /\ new.there = node[d].there
      BY <1>5 DEF Adds
    <3>3. \A c \in Inputs : StaysDown(c, new.down, Tail(l), 0, Len(Tail(l))) => c \in pad.down
      BY <1>3, <1>5, <1>9, <2>1, <2>2, <3>2, TrackFirst DEF Tracking, l
    <3>4. \A j \in DOMAIN Tail(l) : j + 1 \in DOMAIN l /\ Tail(l)[j] = l[j + 1]
      BY <1>3, TailIs
    <3>5. ~new.there => new.down = {}
      BY <1>4, <1>9, <2>1, <2>2, <3>2 DEF Tracking, DownAfter, l
    <3>6. Tracking(new, Tail(l), pad', now)
      BY <1>10, <2>1, <2>2, <3>2, <3>3, <3>4, <3>5 DEF Tracking, l
    <3>7. Honest(policy.device[d], new, Current(d)')
      BY <1>2, <1>8, <3>1, HonestWhen
    <3>8. policy'.device[d] = policy.device[d] /\ now' = now
      BY <1>1
    <3> QED BY <1>6, <1>7, <2>2, <3>6, <3>7, <3>8, SoundAfter
  <2>3. CASE x # d
    <3>1. Tracking(node[x], Owes(x), pad', now)
      BY <1>10, <2>1 DEF Tracking
    <3>2. Honest(policy.device[x], node[x], Current(x)')
      BY <1>8, <2>1, HonestWhen
    <3>3. policy'.device[x] = policy.device[x] /\ now' = now
      BY <1>1
    <3> QED BY <1>6, <1>7, <2>3, <3>1, <3>2, <3>3, SoundAfter
  <2> QED BY <2>2, <2>3
<1>12. Numbering'
  <2>1. /\ pad.press[Guide] <= pad.downs /\ pad.since \in Nat
        /\ \A x \in Devices : /\ \A j \in DOMAIN node[x].queue : Numbered(pad, node[x].queue[j])
                              /\ \A j \in DOMAIN Owes(x) : Numbered(pad, Owes(x)[j])
    BY DEF CountInv, Numbering
  <2>2. \A ev : Numbered(pad', ev) <=> Numbered(pad, ev)
    BY <1>10 DEF Numbered
  <2>3. Numbered(pad, e)
    <3>1. Numbered(pad, l[1])
      BY <1>2, <1>9, <2>1 DEF l
    <3> QED BY <1>4, <3>1 DEF Numbered, EndsPress
  <2>4. \A j \in DOMAIN new.queue : Numbered(pad, new.queue[j])
    BY <1>2, <1>5, <2>1, <2>3, NumberedAdds
  <2>5. \A j \in DOMAIN Tail(l) : Numbered(pad, Tail(l)[j])
    <3>1. \A j \in DOMAIN Tail(l) : j + 1 \in DOMAIN l /\ Tail(l)[j] = l[j + 1]
      BY <1>3, TailIs
    <3> QED BY <1>2, <2>1, <3>1 DEF l
  <2>6. ASSUME NEW x \in Devices
        PROVE  /\ \A j \in DOMAIN node'[x].queue : Numbered(pad', node'[x].queue[j])
               /\ \A j \in DOMAIN Owes(x)' : Numbered(pad', Owes(x)'[j])
    BY <1>6, <1>7, <2>1, <2>2, <2>4, <2>5
  <2> QED BY <1>10, <2>1, <2>6 DEF Numbering
<1>13. ReleasedBy'
  BY <1>1 DEF CountInv, ReleasedBy
<1>14. Stakes'
  <2>1. CASE Overflows(d, e.code)
    BY <1>1, <1>2, <2>1, DoubtfulStakes
  <2>2. CASE ~Overflows(d, e.code)
    <3>1. pad' = pad
      BY <1>1, <2>2
    <3>2. \A b : Armed(b)' <=> Armed(b)
      BY <1>1, <1>8 DEF Armed
    <3>3. Current(d) => Hears(node[d], e, new) /\ Known(policy.device[d], node[d])
      BY <1>2, <1>5, <2>2, AddsHears DEF CountInv, Sound, Honest
    <3>4. ASSUME NEW i, NEW b, AtStake(i, b) PROVE AtStake(i, b)'
      <4>1. b \in Nat /\ Armed(b) /\ Current(d) /\ \A x \in Devices : EndsOn(policy.device[x], node[x], Owes(x), i, b)
        BY <1>2, <3>4 DEF AtStake, Armed
      <4>2. EndsOn(policy.device[d], new, Tail(l), i, b) /\ (ToTell(node[d].queue, 0, l, i) => ToTell(new.queue, 0, Tail(l), i))
        <5>1. EndsOn(policy.device[d], node[d], l, i, b)
          BY <1>2, <4>1 DEF l
        <5> QED BY <1>2, <1>3, <1>5, <1>9, <3>3, <4>1, <5>1, EndsHears
      <4>3. \A x \in Devices : EndsOn(policy'.device[x], node'[x], Owes(x)', i, b)
        BY <1>1, <1>6, <1>7, <4>1, <4>2
      <4>4. \A x \in Devices : WaitsFor(x, i) => ToTell(node'[x].queue, 0, Owes(x)', i)
        BY <1>6, <1>7, <4>2 DEF WaitsFor, l
      <4> QED BY <1>1, <3>2, <3>4, <4>1, <4>3, <4>4, StillAtStake
    <3>5. ASSUME NEW i, NEW b \in Nat, OnStake(i, b)
          PROVE  Armed(b)' /\ \A x \in Devices : OpenOwed(policy'.device[x], node'[x], Owes(x)', Len(Owes(x)'), i, b)
      <4>1. Armed(b) /\ Current(d) /\ \A x \in Devices : OpenOwed(policy.device[x], node[x], Owes(x), Len(Owes(x)), i, b)
        BY <1>2, <3>5 DEF OnStake, Armed
      <4>2. OpenOwed(policy.device[d], new, Tail(l), Len(Tail(l)), i, b)
        <5>1. Len(l) \in 1 .. Len(l) /\ Len(Tail(l)) = Len(l) - 1
          BY <1>3, TailIs
        <5>2. OpenOwed(policy.device[d], node[d], l, Len(l), i, b)
          BY <1>2, <4>1 DEF l
        <5>3. OpenOwed(policy.device[d], new, Tail(l), Len(l) - 1, i, b)
          BY <1>2, <1>3, <1>5, <1>9, <3>3, <4>1, <5>1, <5>2, OpenHears
        <5> QED BY <5>1, <5>3
      <4> QED BY <1>1, <1>6, <1>7, <3>2, <4>1, <4>2
    <3>6. MayCount' <=> MayCount
      BY <1>1, <3>1 DEF MayCount
    <3>7. OnStake(pad.press[Guide], pad.since) => OnStake(pad.press[Guide], pad.since)'
      <4>1. pad.since \in Nat
        BY DEF CountInv, Numbering
      <4> QED BY <3>1, <3>5, <4>1 DEF OnStake
    <3>8. pad'.good \ ToldPresses' = pad.good \ ToldPresses
      BY <1>1, <3>1 DEF ToldPresses
    <3> QED BY <1>1, <3>4, <3>6, <3>7, <3>8 DEF CountInv, Stakes
  <2> QED BY <2>1, <2>2
<1> QED BY <1>2, <1>11, <1>12, <1>13, <1>14 DEF CountInv

\* What ends a press says which.
LEMMA EndsNumber ==
  ASSUME ListenInv
  PROVE  \A x \in Devices : /\ \A j \in DOMAIN node[x].queue : EndsPress(node[x].queue[j]) => node[x].queue[j].press \in Nat
                            /\ \A j \in DOMAIN Owes(x) : EndsPress(Owes(x)[j]) => Owes(x)[j].press \in Nat
<1>1. \A ev \in QueueEvent : EndsPress(ev) => ev.press \in Nat
  BY LostIsNoInput DEF QueueEvent, KeyEvent, LostEvent, EndsPress, Inputs
<1>2. \A ev \in Repetition : ev.press \in Nat
  BY DEF Repetition
<1>3. ASSUME NEW x \in Devices PROVE node[x].queue \in Seq(QueueEvent) /\ Owes(x) \in Seq(Repetition)
  <2>1. node[x].queue \in Seq(QueueEvent) /\ lagging \in [Mirrored -> Seq(Repetition)] /\ <<>> \in Seq(Repetition)
    BY DEF ListenInv, ListenTypes, NodeRecord
  <2> QED BY <2>1 DEF Owes
<1>4. \A S, q : q \in Seq(S) => \A j \in DOMAIN q : q[j] \in S
  OBVIOUS
<1> QED BY <1>1, <1>2, <1>3, <1>4

\* Input: a press that begins may count, where no key is down; one that
\* ends is at stake, and no other is where it was told of by every node.
LEMMA CountInput ==
  ASSUME CountInv, NEW code \in Inputs, Input(code)
  PROVE  CountInv'
<1> DEFINE value == IF code \in pad.down THEN 0 ELSE 1
           id == IF value = 1 THEN pad.downs + 1 ELSE pad.press[code]
           down == IF value = 1 THEN pad.down \cup {code} ELSE pad.down \ {code}
           e == [code |-> code, value |-> value, press |-> id]
           downs == IF value = 1 THEN id ELSE pad.downs
           own == IF value = 1 THEN id ELSE 0
           since == IF code = Guide THEN now * value ELSE pad.since
           alone == IF code = Guide THEN Ready /\ pad.down = {} ELSE pad.alone /\ Guide \notin pad.down
           good == IF code # Guide \/ value = 1 THEN pad.good
                   ELSE (IF Unread THEN pad.good \cap ToldPresses ELSE pad.good)
                        \cup (IF pad.alone /\ now - pad.since + Lag < HoldMs THEN {id} ELSE {})
           after == [pad EXCEPT !.down = down, !.downs = downs, !.press[code] = own, !.since = since,
                                !.alone = alone, !.good = good]
           told == [code |-> code, value |-> value, press |-> id, made |-> now]
           new == Report(node[Pad], Pad, e)
<1>1. /\ pad' = (IF Overflows(Pad, code) THEN Doubtful(after) ELSE after)
      /\ node' = [node EXCEPT ![Pad] = new]
      /\ lagging' = [d \in Mirrored |-> IF node[d].there THEN Append(lagging[d], told) ELSE lagging[d]]
      /\ UNCHANGED <<now, table, policy, timers, out, current>> /\ node[Pad].there
  BY Zenon DEF Input
<1>2. /\ ListenInv /\ ListenInv' /\ Pad \in Devices
      /\ pad \in PadRecord(pad) /\ pad.down \in SUBSET Inputs /\ pad.downs \in Nat /\ pad.press \in [Inputs -> Nat]
      /\ now \in Nat /\ lagging \in [Mirrored -> Seq(Repetition)] /\ node \in [Devices -> NodeRecord] /\ Guide \in Inputs
  BY ListenInput, ListenerAssumption DEF CountInv, ListenInv, ListenTypes, PadRecord, Inputs
<1>3. /\ value \in {0, 1} /\ (value = 0 <=> code \in pad.down) /\ id \in Nat
      /\ id = (IF value = 1 THEN pad.downs + 1 ELSE pad.press[code])
      /\ down = (IF value = 1 THEN pad.down \cup {code} ELSE pad.down \ {code})
      /\ downs = (IF value = 1 THEN id ELSE pad.downs) /\ own = (IF value = 1 THEN id ELSE 0)
      /\ e.code = code /\ e.value = value /\ e.press = id
      /\ told.code = code /\ told.value = value /\ told.press = id /\ told.made = now
  BY <1>2
<1>4. node[Pad] \in NodeRecord /\ Adds(Pad, e, new)
  BY <1>2, ReportAdds
<1> HIDE DEF value, id, down, downs, own, e, told, new
<1>5. /\ after \in PadRecord(after) /\ after.down = down /\ after.downs = downs /\ after.since = since
      /\ after.press[Guide] = (IF code = Guide THEN own ELSE pad.press[Guide])
      /\ after.good = good
  <2> DEFINE press == [pad.press EXCEPT ![code] = own]
  <2> HIDE DEF since, alone, good
  <2>1. press \in [Inputs -> Nat] /\ press[Guide] = (IF code = Guide THEN own ELSE pad.press[Guide])
    BY <1>2, <1>3
  <2>2. after = [pad EXCEPT !.down = down, !.downs = downs, !.press = press, !.since = since,
                            !.alone = alone, !.good = good]
    BY <1>2 DEF PadRecord
  <2>3. down \in SUBSET Inputs /\ downs \in Nat
    BY <1>2, <1>3
  <2> HIDE DEF press, after
  <2> QED BY <1>2, <2>1, <2>2, <2>3 DEF PadRecord
<1>6. after.alone => alone
  <2> DEFINE press == [pad.press EXCEPT ![code] = own]
  <2> HIDE DEF since, alone, good, press
  <2>1. DOMAIN pad = {"down", "downs", "press", "since", "alone", "good"}
    BY <1>2 DEF PadRecord
  <2>2. after.alone = alone
    BY <2>1
  <2> HIDE DEF after
  <2> QED BY <2>2
<1> HIDE DEF after, alone, good
<1>7. /\ pad'.down = down /\ pad'.downs = downs
      /\ pad'.press[Guide] = (IF code = Guide THEN own ELSE pad.press[Guide])
  BY <1>1, <1>5, DoubtfulPad
<1>8. pad'.since = since
  <2>1. Doubtful(after).since = after.since
    BY <1>5 DEF Doubtful, PadRecord
  <2> QED BY <1>1, <1>5, <2>1
<1>9. node'[Pad] = new /\ \A x \in Devices \ {Pad} : node'[x] = node[x]
  BY <1>1, <1>2
<1>10. /\ Owes(Pad)' = <<>> /\ Owes(Pad) = <<>>
       /\ \A x \in Mirrored : /\ Owes(x) = lagging[x] /\ Owes(x) \in Seq(Repetition)
                              /\ node[x].there => Owes(x)' = Append(Owes(x), told)
                              /\ ~node[x].there => Owes(x)' = Owes(x)
  BY <1>1, <1>2 DEF Owes, Mirrored
<1>11. \A x \in Devices : Current(x)' <=> Current(x)
  BY <1>1, <1>4, <1>9 DEF Adds, Current
<1>12. \A x \in Devices : x = Pad \/ x \in Mirrored
  BY DEF Mirrored
<1>13. ASSUME NEW x \in Devices PROVE Sound(x)'
  <2>1. Honest(policy.device[x], node[x], Current(x)) /\ Tracking(node[x], Owes(x), pad, now)
    BY DEF CountInv, Sound
  <2>2. policy'.device[x] = policy.device[x] /\ now' = now
    BY <1>1
  <2>3. CASE x = Pad
    <3>1. Honest(policy.device[Pad], new, Current(Pad))
      BY <1>3, <1>4, <2>1, <2>3, KnownAdds DEF Honest
    <3>2. Honest(policy.device[Pad], new, Current(Pad)')
      BY <1>2, <1>11, <3>1, HonestWhen
    <3>3. new.down = DownAfter(node[Pad], e) /\ new.there
      BY <1>1, <1>4 DEF Adds
    <3>4. node[Pad].down \subseteq pad.down
      <4>1. \A c \in node[Pad].down : c \in Inputs
        BY <1>4 DEF NodeRecord
      <4>2. \A c \in Inputs : StaysDown(c, node[Pad].down, <<>>, 0, 0) => c \in pad.down
        BY <1>10, <2>1, <2>3 DEF Tracking
      <4> QED BY <4>1, <4>2, StaysSame
    <3>5. new.down \subseteq down
      BY <1>3, <3>3, <3>4 DEF DownAfter
    <3>6. \A c \in Inputs : StaysDown(c, new.down, <<>>, 0, Len(<<>>)) => c \in pad'.down
      BY <1>7, <3>5, StaysSame
    <3>7. Tracking(new, <<>>, pad', now)
      BY <3>3, <3>6 DEF Tracking
    <3> QED BY <1>9, <1>10, <2>2, <2>3, <3>2, <3>7, SoundAfter
  <2>4. CASE x \in Mirrored
    <3>1. Honest(policy.device[x], node[x], Current(x)')
      BY <1>11, <2>1, HonestWhen
    <3>2. node'[x] = node[x] /\ Owes(x) \in Seq(Repetition)
      BY <1>9, <1>10, <2>4 DEF Mirrored
    <3>3. CASE node[x].there
      <4> DEFINE more == Append(Owes(x), told)
                 k == Len(Owes(x))
      <4>1. k \in Nat /\ Len(more) = k + 1 /\ DOMAIN more = 1 .. (k + 1) /\ more[k + 1] = told
            /\ DOMAIN Owes(x) = 1 .. k /\ \A j \in 1 .. k : more[j] = Owes(x)[j]
        BY <3>2, AppendIs
      <4>2. ASSUME NEW c \in Inputs, StaysDown(c, node[x].down, more, 0, k + 1) PROVE c \in down
        <5>1. /\ StaysDown(c, node[x].down, Owes(x), 0, k) \/ (told.code = c /\ told.value = 1)
              /\ ~LetsGo(told, c) \/ (told.code = c /\ told.value = 1)
          BY <3>2, <4>2, StaysAppend
        <5> HIDE DEF more, k
        <5>2. StaysDown(c, node[x].down, Owes(x), 0, k) => c \in pad.down
          BY <2>1 DEF Tracking, k
        <5> QED BY <1>3, <5>1, <5>2 DEF LetsGo
      <4> HIDE DEF more, k
      <4>3. \A c \in Inputs : StaysDown(c, node[x].down, more, 0, Len(more)) => c \in pad'.down
        BY <1>7, <4>1, <4>2
      <4>4. \A j \in DOMAIN more : more[j].made <= now /\ now <= more[j].made + Lag
        <5>1. Lag \in Nat
          BY ListenerAssumption
        <5>2. \A j \in 1 .. k : more[j].made <= now /\ now <= more[j].made + Lag
          BY <2>1, <4>1 DEF Tracking
        <5>3. told.made <= now /\ now <= told.made + Lag
          BY <1>2, <1>3, <5>1
        <5>4. \A j \in 1 .. (k + 1) : j \in 1 .. k \/ j = k + 1
          BY <4>1
        <5> QED BY <4>1, <5>2, <5>3, <5>4
      <4>5. Tracking(node[x], more, pad', now)
        BY <3>3, <4>3, <4>4 DEF Tracking
      <4>6. Owes(x)' = more
        BY <1>10, <2>4, <3>3 DEF more
      <4> QED BY <2>2, <3>1, <3>2, <4>5, <4>6, SoundAfter
    <3>4. CASE ~node[x].there
      <4>1. node[x].down = {} /\ \A j \in DOMAIN Owes(x) : Owes(x)[j].value = 0
        BY <2>1, <3>4 DEF Tracking
      <4>2. Len(Owes(x)) \in Nat /\ DOMAIN Owes(x) = 1 .. Len(Owes(x))
        BY <3>2
      <4>3. \A c \in Inputs : ~StaysDown(c, node[x].down, Owes(x), 0, Len(Owes(x)))
        BY <4>1, <4>2, StaysNone
      <4>4. Tracking(node[x], Owes(x), pad', now)
        BY <2>1, <4>3 DEF Tracking
      <4>5. Owes(x)' = Owes(x)
        BY <1>10, <2>4, <3>4
      <4> QED BY <2>2, <3>1, <3>2, <4>4, <4>5, SoundAfter
    <3> QED BY <3>3, <3>4
  <2> QED BY <1>12, <2>3, <2>4
<1>14. /\ pad.press[Guide] <= pad.downs /\ pad.since \in Nat /\ pad.press[Guide] \in Nat
       /\ \A x \in Devices : /\ \A j \in DOMAIN node[x].queue : Numbered(pad, node[x].queue[j])
                             /\ \A j \in DOMAIN Owes(x) : Numbered(pad, Owes(x)[j])
  BY <1>2 DEF CountInv, Numbering
<1>15. \A x \in Devices : /\ \A j \in DOMAIN node[x].queue : EndsPress(node[x].queue[j]) => node[x].queue[j].press \in Nat
                          /\ \A j \in DOMAIN Owes(x) : EndsPress(Owes(x)[j]) => Owes(x)[j].press \in Nat
  BY <1>2, EndsNumber
<1>16. Numbering'
  <2>1. since \in Nat
    BY <1>2, <1>3, <1>14
  <2>2. pad'.press[Guide] <= pad'.downs
    BY <1>2, <1>3, <1>7, <1>14
  <2>3. ASSUME NEW ev, Numbered(pad, ev), EndsPress(ev) => ev.press \in Nat PROVE Numbered(pad', ev)
    <3>1. CASE ~EndsPress(ev)
      BY <3>1 DEF Numbered
    <3>2. CASE EndsPress(ev)
      <4> DEFINE i == ev.press
      <4>1. i \in Nat /\ i <= pad.downs /\ (Guide \in pad.down => i # pad.press[Guide])
        BY <2>3, <3>2 DEF Numbered
      <4> HIDE DEF i
      <4>2. i <= pad'.downs /\ (Guide \in pad'.down => i # pad'.press[Guide])
        BY <1>2, <1>3, <1>7, <4>1
      <4> QED BY <4>2 DEF Numbered, i
    <3> QED BY <3>1, <3>2
  <2>4. Numbered(pad', e) /\ Numbered(pad', told)
    BY <1>2, <1>3, <1>7, <1>14 DEF Numbered, EndsPress
  <2>5. \A x \in Devices : /\ \A j \in DOMAIN node[x].queue : Numbered(pad', node[x].queue[j])
                           /\ \A j \in DOMAIN Owes(x) : Numbered(pad', Owes(x)[j])
    BY <1>14, <1>15, <2>3
  <2>6. \A j \in DOMAIN new.queue : Numbered(pad', new.queue[j])
    BY <1>2, <1>4, <2>4, <2>5, NumberedAdds
  <2>7. ASSUME NEW x \in Mirrored PROVE \A j \in DOMAIN Append(Owes(x), told) : Numbered(pad', Append(Owes(x), told)[j])
    <3>1. x \in Devices /\ Owes(x) \in Seq(Repetition)
      BY <1>10, <2>7 DEF Mirrored
    <3>2. /\ Len(Owes(x)) \in Nat /\ DOMAIN Owes(x) = 1 .. Len(Owes(x)) /\ DOMAIN Append(Owes(x), told) = 1 .. (Len(Owes(x)) + 1)
          /\ Append(Owes(x), told)[Len(Owes(x)) + 1] = told
          /\ \A j \in 1 .. Len(Owes(x)) : Append(Owes(x), told)[j] = Owes(x)[j]
      BY <3>1, AppendIs
    <3>3. \A j \in 1 .. (Len(Owes(x)) + 1) : j \in 1 .. Len(Owes(x)) \/ j = Len(Owes(x)) + 1
      BY <3>2
    <3> QED BY <2>4, <2>5, <3>1, <3>2, <3>3
  <2>8. ASSUME NEW x \in Devices
        PROVE  /\ \A j \in DOMAIN node'[x].queue : Numbered(pad', node'[x].queue[j])
               /\ \A j \in DOMAIN Owes(x)' : Numbered(pad', Owes(x)'[j])
    BY <1>9, <1>10, <1>12, <2>5, <2>6, <2>7
  <2> QED BY <1>8, <2>1, <2>2, <2>8 DEF Numbering
<1>17. ReleasedBy'
  BY <1>1 DEF CountInv, ReleasedBy
<1>18. Stakes'
  <2>1. CASE Overflows(Pad, code)
    BY <1>1, <1>5, <2>1, DoubtfulStakes
  <2>2. CASE ~Overflows(Pad, code)
    <3>1. pad' = after /\ (pad'.alone => alone) /\ pad'.good = good
      BY <1>1, <1>5, <1>6, <2>2
    <3>2. \A b : Armed(b)' <=> Armed(b)
      BY <1>1, <1>11 DEF Armed
    <3>3. ToldPresses' = ToldPresses /\ out' = out
      BY <1>1 DEF ToldPresses
    <3>4. Current(Pad) => Hears(node[Pad], e, new)
      BY <1>2, <1>3, <1>4, <2>2, AddsHears
    <3>5. \A b : Armed(b) => \A x \in Devices : Current(x) /\ node[x].there
      BY DEF Armed, Current
    <3>6. CASE ~EndsPress(e)
      <4>1. ASSUME NEW i, NEW b, AtStake(i, b) PROVE AtStake(i, b)'
        <5>1. Armed(b) /\ \A x \in Devices : EndsOn(policy.device[x], node[x], Owes(x), i, b)
          BY <4>1 DEF AtStake
        <5>2. ~EndsPress(told)
          BY <1>3, <3>6 DEF EndsPress
        <5>3. ASSUME NEW x \in Devices
              PROVE  /\ EndsOn(policy.device[x], node'[x], Owes(x)', i, b)
                     /\ ToTell(node[x].queue, 0, Owes(x), i) => ToTell(node'[x].queue, 0, Owes(x)', i)
          <6>1. EndsOn(policy.device[x], node[x], Owes(x), i, b) /\ Current(x) /\ node[x].there /\ node[x] \in NodeRecord
            BY <1>2, <3>5, <5>1
          <6>2. CASE x = Pad
            <7>1. EndsOn(policy.device[Pad], node[Pad], <<>>, i, b) /\ Hears(node[Pad], e, new)
              BY <1>10, <3>4, <6>1, <6>2
            <7>2. EndsOn(policy.device[Pad], new, <<>>, i, b)
                  /\ (ToTell(node[Pad].queue, 0, <<>>, i) => ToTell(new.queue, 0, <<>>, i))
              BY <1>4, <3>6, <7>1, EndsQueues
            <7> QED BY <1>9, <1>10, <6>2, <7>2
          <6>3. CASE x \in Mirrored
            <7>1. Owes(x) \in Seq(Repetition) /\ Owes(x)' = Append(Owes(x), told) /\ node'[x] = node[x]
              BY <1>9, <1>10, <6>1, <6>3 DEF Mirrored
            <7>2. /\ EndsOn(policy.device[x], node[x], Append(Owes(x), told), i, b)
                  /\ ToTell(node[x].queue, 0, Owes(x), i) => ToTell(node[x].queue, 0, Append(Owes(x), told), i)
              BY <5>2, <6>1, <7>1, EndsOwes
            <7> QED BY <7>1, <7>2
          <6> QED BY <1>12, <6>2, <6>3
        <5>4. \A x \in Devices : EndsOn(policy'.device[x], node'[x], Owes(x)', i, b)
          BY <1>1, <5>3
        <5>5. \A x \in Devices : WaitsFor(x, i) => ToTell(node'[x].queue, 0, Owes(x)', i)
          BY <5>3 DEF WaitsFor
        <5> QED BY <1>1, <3>2, <4>1, <5>1, <5>4, <5>5, StillAtStake
      <4>2. pad'.good = pad.good
        BY <1>3, <3>1, <3>6 DEF good, EndsPress
      <4>3. CASE code # Guide
        <5>1. ~MayCount'
          BY <1>3, <1>7, <3>1, <4>3 DEF MayCount, alone
        <5> QED BY <3>3, <4>1, <4>2, <5>1 DEF CountInv, Stakes
      <4>4. CASE code = Guide
        <5>1. value = 1 /\ IsBegin(e, id) /\ IsBegin(told, id)
          BY <1>3, <3>6, <4>4 DEF EndsPress, IsBegin
        <5>2. pad'.press[Guide] = id /\ pad'.since = now
          BY <1>2, <1>3, <1>7, <1>8, <4>4, <5>1
        <5>i. PICK i : i = id
          OBVIOUS
        <5>t. PICK t : t = now
          OBVIOUS
        <5>3. ASSUME MayCount' PROVE OnStake(i, t)'
          <6>1. Ready /\ pad.down = {}
            BY <3>1, <4>4, <5>3 DEF MayCount, alone
          <6>2. Armed(t)
            BY <5>t, <6>1 DEF Ready, Armed
          <6>3. ASSUME NEW x \in Devices PROVE OpenOwed(policy.device[x], node'[x], Owes(x)', Len(Owes(x)'), i, t)
            <7>1. /\ Current(x) /\ node[x].there /\ node[x] \in NodeRecord /\ Known(policy.device[x], node[x])
                  /\ Tracking(node[x], Owes(x), pad, now)
              BY <1>2, <3>5, <6>2 DEF CountInv, Sound, Honest
            <7>2. CASE x = Pad
              <8>1. node[Pad].down = {}
                <9>1. \A c \in node[Pad].down : c \in Inputs
                  BY <1>4 DEF NodeRecord
                <9>2. \A c \in Inputs : StaysDown(c, node[Pad].down, <<>>, 0, 0) => c \in {}
                  BY <1>10, <6>1, <7>1, <7>2 DEF Tracking
                <9> QED BY <9>1, <9>2, StaysSame
              <8>2. Hears(node[Pad], e, new)
                BY <3>4, <7>1, <7>2
              <8>3. new.down = {Guide}
                BY <1>3, <4>4, <5>1, <8>1, <8>2 DEF Hears, DownAfter
              <8>4. PICK ev : EventOf(ev, e) /\ new.queue = Append(node[Pad].queue, ev)
                BY <1>3, <4>4, <8>2, InputsAssumption DEF Hears
              <8>5. IsBegin(ev, i) /\ ev.at >= t
                BY <1>2, <5>1, <5>i, <5>t, <8>4 DEF EventOf, IsBegin
              <8>6. \A c \in Buttons : ~StaysDown(c, policy.device[Pad].keysDown, node[Pad].queue, 0, Len(node[Pad].queue))
                BY <7>1, <7>2, <8>1 DEF Known
              <8>7. node[Pad].queue \in Seq(QueueEvent)
                BY <1>4 DEF NodeRecord
              <8>a. OpenQueued(policy.device[Pad], new.queue, 0, Len(node[Pad].queue) + 1, i, t)
                BY <8>4, <8>5, <8>6, <8>7, OpenBegins
              <8>b. Len(new.queue) = Len(node[Pad].queue) + 1
                BY <8>4, <8>7, AppendIs
              <8>8. OpenQueued(policy.device[Pad], new.queue, 0, Len(new.queue), i, t)
                BY <8>a, <8>b
              <8>9. OpenOwed(policy.device[Pad], new, <<>>, 0, i, t)
                BY <8>3, <8>8 DEF OpenOwed
              <8> QED BY <1>9, <1>10, <7>2, <8>9
            <7>3. CASE x \in Mirrored
              <8> DEFINE l == Owes(x)
                         more == Append(l, told)
                         k == Len(l)
              <8>1. l \in Seq(Repetition) /\ Owes(x)' = more /\ node'[x] = node[x]
                BY <1>9, <1>10, <7>1, <7>3 DEF Mirrored
              <8>2. k \in Nat /\ Len(more) = k + 1 /\ more[k + 1] = told /\ \A j \in 1 .. k : more[j] = l[j]
                BY <8>1, AppendIs
              <8>3. \A c \in Inputs : ~StaysDown(c, node[x].down, l, 0, k)
                BY <6>1, <7>1 DEF Tracking
              <8> HIDE DEF l, more, k
              <8>4. ASSUME NEW c \in Inputs, StaysDown(c, node[x].down, more, 0, k) PROVE FALSE
                <9>1. \A j \in (0 + 1) .. k : more[j] = l[j]
                  BY <8>2
                <9>2. StaysDown(c, node[x].down, l, 0, k)
                  BY <8>2, <8>4, <9>1, StaysPrefix
                <9> QED BY <8>3, <8>4, <9>2
              <8>5. (k + 1) - 1 = k /\ k + 1 > 0 /\ told.made >= t
                BY <1>2, <1>3, <5>t, <8>2
              <8>6. OpenOwed(policy.device[x], node[x], more, k + 1, i, t)
                BY <5>1, <5>i, <8>2, <8>4, <8>5 DEF OpenOwed
              <8> QED BY <8>1, <8>2, <8>6
            <7> QED BY <1>12, <7>2, <7>3
          <6>4. Armed(t)'
            BY <1>1, <1>11, <6>2 DEF Armed
          <6>5. \A x \in Devices : OpenOwed(policy'.device[x], node'[x], Owes(x)', Len(Owes(x)'), i, t)
            BY <1>1, <6>3
          <6> QED BY <6>4, <6>5 DEF OnStake
        <5>4. MayCount' => OnStake(pad.press[Guide], pad.since)'
          BY <5>2, <5>3, <5>i, <5>t DEF OnStake
        <5> QED BY <3>3, <4>1, <4>2, <5>4 DEF CountInv, Stakes
      <4> QED BY <4>3, <4>4
    <3>7. CASE EndsPress(e)
      <4>0. CASE out.early
        BY <3>3, <4>0 DEF Stakes
      <4>a. CASE ~out.early
        <5>1. code = Guide /\ value = 0 /\ Guide \in pad.down /\ id = pad.press[Guide] /\ IsEnd(told, id)
          BY <1>3, <3>7 DEF EndsPress, IsEnd
        <5>2. ~MayCount'
          BY <1>3, <1>7, <5>1 DEF MayCount
        <5>3. ASSUME NEW i \in pad'.good \ ToldPresses'
              PROVE  i = id /\ pad.alone /\ now - pad.since + Lag < HoldMs
          <6>1. i \in good /\ i \notin ToldPresses
            BY <3>1, <3>3, <5>3
          <6>2. ~(i \in pad.good /\ ~Unread)
            <7>1. ASSUME i \in pad.good PROVE Unread
              <8>1. PICK b : AtStake(i, b)
                BY <4>a, <6>1, <7>1 DEF CountInv, Stakes
              <8>2. PICK x \in Devices : WaitsFor(x, i)
                BY <1>2, <8>1 DEF AtStake, WillCount
              <8>3. CASE \E j \in DOMAIN node[x].queue : EndsPress(node[x].queue[j])
                BY <8>3 DEF Unread
              <8>4. CASE \E j \in DOMAIN Owes(x) : EndsPress(Owes(x)[j])
                <9>1. x \in Mirrored
                  BY <1>10, <1>12, <8>4
                <9>2. \E j \in DOMAIN lagging[x] : EndsPress(lagging[x][j])
                  BY <1>10, <8>4, <9>1
                <9> QED BY <9>1, <9>2 DEF Unread
              <8> QED BY <8>2, <8>3, <8>4 DEF WaitsFor, ToTell, OweEnd, IsEnd
            <7> QED BY <7>1
          <6> QED BY <5>1, <6>1, <6>2 DEF good
        <5>4. ASSUME pad.alone, now - pad.since + Lag < HoldMs PROVE \E i, b : i = id /\ AtStake(i, b)'
          <6>b. PICK b : b = pad.since
            OBVIOUS
          <6>i. PICK i : i = id
            OBVIOUS
          <6>1. MayCount /\ OnStake(i, b) /\ b \in Nat
            BY <1>14, <4>a, <5>1, <5>4, <6>b, <6>i DEF MayCount, CountInv, Stakes
          <6>2. Armed(b) /\ \A x \in Devices : OpenOwed(policy.device[x], node[x], Owes(x), Len(Owes(x)), i, b)
            BY <6>1 DEF OnStake
          <6>3. \A x \in Devices : /\ \A j \in DOMAIN node[x].queue : ~IsEnd(node[x].queue[j], i)
                                   /\ \A j \in DOMAIN Owes(x) : ~IsEnd(Owes(x)[j], i)
            BY <1>14, <5>1, <6>i DEF Numbered, IsEnd
          <6>4. now - b < HoldMs /\ now - b + Lag < HoldMs
            <7>1. Lag \in Nat /\ HoldMs \in Nat
              BY ListenerAssumption, TimesAssumption
            <7> QED BY <1>2, <5>4, <6>1, <6>b, <7>1
          <6>5. ASSUME NEW x \in Devices
                PROVE  /\ EndsOn(policy.device[x], node'[x], Owes(x)', i, b)
                       /\ ToTell(node'[x].queue, 0, Owes(x)', i)
            <7>1. Current(x) /\ node[x].there /\ node[x] \in NodeRecord
              BY <1>2, <3>5, <6>2
            <7>2. OpenOwed(policy.device[x], node[x], Owes(x), Len(Owes(x)), i, b)
              BY <6>2
            <7>3. EndQueued(policy.device[x], node[x].queue, 0, i, b) /\ EndOwed(policy.device[x], node[x], Owes(x), i, b)
              BY <6>3, NothingEnds
            <7>4. CASE x = Pad
              <8> DEFINE q == node[Pad].queue
                         m == Len(q)
              <8>1. Hears(node[Pad], e, new)
                BY <3>4, <7>1, <7>4
              <8>2. PICK ev : EventOf(ev, e) /\ new.queue = Append(q, ev)
                BY <1>3, <5>1, <8>1, InputsAssumption DEF Hears
              <8>3. IsEnd(ev, i) /\ ev.at = now
                BY <1>3, <5>1, <6>i, <8>2 DEF EventOf, IsEnd, EndsPress
              <8>4. q \in Seq(QueueEvent) /\ OpenQueued(policy.device[Pad], q, 0, Len(q), i, b)
                BY <1>4, <1>10, <7>2, <7>4 DEF NodeRecord, OpenOwed
              <8>5. m \in Nat /\ DOMAIN Append(q, ev) = 1 .. (m + 1) /\ Append(q, ev)[m + 1] = ev
                BY <8>4, AppendIs
              <8>q. q = node[Pad].queue
                OBVIOUS
              <8> HIDE DEF q, m
              <8>6. EndQueued(policy.device[Pad], new.queue, 0, i, b)
                BY <6>4, <7>3, <7>4, <8>2, <8>3, <8>4, <8>q, EndQueuedAppend
              <8>7. \A j \in 1 .. (m + 1) : j = m + 1 \/ m + 1 > j
                BY <8>5
              <8>8. EndsLast(new.queue, <<>>, i)
                BY <8>2, <8>3, <8>5, <8>7 DEF EndsLast, ToTell
              <8>9. ToTell(new.queue, 0, <<>>, i)
                <9>1. m + 1 > 0 /\ m + 1 \in 1 .. (m + 1)
                  BY <8>5
                <9> QED BY <8>2, <8>3, <8>5, <9>1 DEF ToTell
              <8>10. EndOwed(policy.device[Pad], new, <<>>, i, b)
                BY DEF EndOwed
              <8>11. EndsOn(policy.device[Pad], new, <<>>, i, b)
                BY <8>6, <8>8, <8>10 DEF EndsOn
              <8> QED BY <1>9, <1>10, <7>4, <8>9, <8>11
            <7>5. CASE x \in Mirrored
              <8> DEFINE l == Owes(x)
                         more == Append(l, told)
                         k == Len(l)
              <8>1. l \in Seq(Repetition) /\ Owes(x)' = more /\ node'[x] = node[x]
                BY <1>9, <1>10, <7>1, <7>5 DEF Mirrored
              <8>2. k \in Nat /\ DOMAIN more = 1 .. (k + 1) /\ more[k + 1] = told
                BY <8>1, AppendIs
              <8>3. EndOwed(policy.device[x], node[x], more, i, b)
                <9>1. told.made - b + Lag < HoldMs
                  BY <1>3, <6>4
                <9> QED BY <7>2, <7>3, <8>1, <9>1, EndOwedAppend
              <8> HIDE DEF l, more, k
              <8>4. OweEnd(more, i)
                <9>1. k + 1 \in 1 .. (k + 1)
                  BY <8>2
                <9> QED BY <5>1, <6>i, <8>2, <9>1 DEF OweEnd
              <8>5. \A j \in 1 .. (k + 1) : j = k + 1 \/ k + 1 > j
                BY <8>2
              <8>6. EndsLast(node[x].queue, more, i)
                <9>1. \A j \in DOMAIN more : EndsPress(more[j]) =>
                         IsEnd(more[j], i) \/ \E y \in DOMAIN more : y > j /\ IsEnd(more[y], i)
                  <10>1. k + 1 \in DOMAIN more
                    BY <8>2
                  <10> QED BY <5>1, <6>i, <8>2, <8>5, <10>1
                <9> QED BY <8>4, <9>1 DEF EndsLast, ToTell
              <8>7. EndsOn(policy.device[x], node[x], more, i, b) /\ ToTell(node[x].queue, 0, more, i)
                BY <7>3, <8>3, <8>4, <8>6 DEF EndsOn, ToTell
              <8> QED BY <8>1, <8>7
            <7> QED BY <1>12, <7>4, <7>5
          <6>6. Armed(b)'
            BY <3>2, <6>2
          <6>7. \A x \in Devices : EndsOn(policy.device[x], node[x], Owes(x), i, b)'
            BY <1>1, <6>5
          <6>8. WillCount(i)'
            BY <6>5 DEF WillCount, WaitsFor
          <6>9. AtStake(i, b)'
            BY <6>1, <6>6, <6>7, <6>8 DEF AtStake
          <6> QED BY <6>9, <6>i
        <5> QED BY <5>2, <5>3, <5>4 DEF Stakes
      <4> QED BY <4>0, <4>a
    <3> QED BY <3>6, <3>7
  <2> QED BY <2>1, <2>2
<1> QED BY <1>2, <1>13, <1>16, <1>17, <1>18 DEF CountInv

\* Every release of a controller that is gone is left to be repeated.
LEMMA AllReleased ==
  ASSUME ListenTypes
  PROVE  \A c \in pad.down : \E j \in DOMAIN SetToSeq({Release(o) : o \in pad.down}) :
           SetToSeq({Release(o) : o \in pad.down})[j] = Release(c)
<1> DEFINE T == {Release(c) : c \in pad.down}
           f == [c \in pad.down |-> Release(c)]
           x == SetToSeq(T)
           n == Cardinality(T)
<1>1. pad.down \in SUBSET Inputs
  BY DEF ListenTypes, PadRecord
<1>2. IsFiniteSet(pad.down)
  <2>1. Inputs = (Buttons \cup Hats \cup Triggers) \cup {Guide}
    BY DEF Inputs
  <2>2. IsFiniteSet(Inputs)
    BY <2>1, FS_AddElement, InputsAssumption
  <2> QED BY <1>1, <2>2, FS_Subset
<1>3. f \in Surjection(pad.down, T)
  BY DEF Surjection
<1>4. IsFiniteSet(T)
  <2> HIDE DEF f, T
  <2> QED BY <1>2, <1>3, FS_Surjection
<1>5. \A c \in pad.down : Release(c) \in T
  OBVIOUS
<1> HIDE DEF T, f
<1>6. n \in Nat /\ ExistsBijection(1 .. n, T)
  BY <1>4, FS_CardinalityType
<1>7. PICK g : g \in Bijection(1 .. n, T)
  BY <1>6 DEF ExistsBijection
<1>8. g \in [1 .. n -> T] /\ IsInjective(g)
  BY <1>7 DEF Bijection, Injection, Surjection, IsInjective
<1>9. x = CHOOSE h \in [1 .. n -> T] : IsInjective(h)
  BY Zenon DEF SetToSeq
<1>10. x \in [1 .. n -> T] /\ IsInjective(x)
  BY <1>8, <1>9, Zenon
<1>11. x \in Injection(1 .. n, T)
  BY <1>10 DEF Injection, IsInjective
<1>12. Cardinality(1 .. n) = n
  <2>1. 1 \in Int /\ n \in Int
    BY <1>6
  <2>2. Cardinality(1 .. n) = IF 1 > n THEN 0 ELSE n - 1 + 1
    BY <2>1, FS_Interval
  <2> HIDE DEF n
  <2> QED BY <1>6, <2>2
<1> HIDE DEF x
<1>13. x \in Surjection(1 .. n, T)
  BY <1>4, <1>11, <1>12, FS_Injection
<1>14. \A y \in T : \E j \in DOMAIN x : x[j] = y
  BY <1>10, <1>13 DEF Surjection
<1>15. \A c \in pad.down : \E j \in DOMAIN x : x[j] = Release(c)
  BY <1>5, <1>14
<1> QED BY <1>15 DEF x, T

\* With a node that is not open nothing is at stake.
LEMMA UnarmedStakes ==
  ASSUME CountInv, NEW d \in Devices, ~Current(d), UNCHANGED <<now, pad, out>>
  PROVE  Stakes'
<1>1. \A i, b : ~OnStake(i, b) /\ ~AtStake(i, b)
  BY DEF OnStake, AtStake, Armed
<1>2. ~MayCount' <=> ~MayCount
  BY DEF MayCount
<1>3. pad'.good \ ToldPresses' = pad.good \ ToldPresses
  BY DEF ToldPresses
<1>4. out.early \/ (~MayCount /\ pad.good \ ToldPresses = {})
  BY <1>1 DEF CountInv, Stakes
<1> QED BY <1>2, <1>3, <1>4 DEF Stakes

\* Unplug: all that was pressed is released, and no press is at stake.
LEMMA CountUnplug ==
  ASSUME CountInv, NEW d \in Devices, Unplug(d)
  PROVE  CountInv'
<1> DEFINE gone == [node[d] EXCEPT !.there = FALSE, !.down = {}, !.unseen = {}, !.queue = <<>>,
                                   !.since = Never, !.with = {}]
           doubtful == Doubtful(pad)
           left == IF d = Pad THEN {} ELSE doubtful.down
           downs == doubtful.downs + 1
           releases == SetToSeq({Release(c) : c \in pad.down})
<1>1. /\ node' = [node EXCEPT ![d] = gone]
      /\ pad' = [doubtful EXCEPT !.down = left, !.downs = downs]
      /\ lagging' = IF d = Pad THEN [v \in Mirrored |-> lagging[v] \o releases]
                    ELSE [lagging EXCEPT ![d] = <<>>]
      /\ UNCHANGED <<now, table, policy, timers, out, current>>
  BY DEF Unplug
<1>2. /\ ListenInv /\ ListenInv' /\ ListenTypes
      /\ pad \in PadRecord(pad) /\ lagging \in [Mirrored -> Seq(Repetition)]
      /\ node \in [Devices -> NodeRecord] /\ node[d] \in NodeRecord /\ now \in Nat /\ Guide \in Inputs
      /\ pad.down \in SUBSET Inputs /\ pad.downs \in Nat /\ pad.press \in [Inputs -> Nat]
  BY ListenUnplug DEF CountInv, ListenInv, ListenTypes, PadRecord, Inputs
<1>3. releases \in Seq(Repetition) /\ \A j \in DOMAIN releases : \E c \in pad.down : releases[j] = Release(c)
  BY <1>2, ReleasesOf
<1>4. \A c \in pad.down : \E j \in DOMAIN releases : releases[j] = Release(c)
  BY <1>2, AllReleased
<1>5. doubtful \in PadRecord(doubtful) /\ doubtful.down = pad.down /\ doubtful.downs = pad.downs /\ doubtful.press = pad.press
  BY <1>2, DoubtfulPad
<1>6. doubtful.alone = FALSE /\ doubtful.good \subseteq ToldPresses /\ doubtful.since = pad.since
  <2> DEFINE good == pad.good \cap ToldPresses
  <2>1. doubtful = [pad EXCEPT !.alone = FALSE, !.good = good] /\ good \subseteq ToldPresses
    BY DEF Doubtful
  <2> HIDE DEF good, doubtful
  <2> QED BY <1>2, <2>1 DEF PadRecord
<1>7. ~gone.there /\ gone.queue = <<>> /\ gone.down = {} /\ gone.gen = node[d].gen
  BY <1>2 DEF NodeRecord
<1>8. \A c : Release(c).code = c /\ Release(c).value = 0 /\ Release(c).press = pad.press[c] /\ Release(c).made = now
  BY DEF Release
<1> HIDE DEF gone, doubtful, releases
<1>9. /\ pad'.alone = FALSE /\ pad'.good \subseteq ToldPresses /\ pad'.since = pad.since /\ pad'.press = pad.press
      /\ pad'.downs = pad.downs + 1 /\ pad'.down = IF d = Pad THEN {} ELSE pad.down
  <2> HIDE DEF left, downs
  <2>0. DOMAIN doubtful = {"down", "downs", "press", "since", "alone", "good"}
    BY <1>5 DEF PadRecord
  <2>1. pad'.good = doubtful.good /\ pad'.since = doubtful.since /\ pad'.press = doubtful.press
        /\ pad'.downs = downs /\ pad'.down = left
    BY <1>1, <2>0
  <2>2. pad'.alone = FALSE
    BY <1>1, <1>6, <2>0
  <2>3. downs = pad.downs + 1 /\ left = IF d = Pad THEN {} ELSE pad.down
    BY <1>5 DEF left, downs
  <2> QED BY <1>5, <1>6, <2>1, <2>2, <2>3
<1>10. node'[d] = gone /\ \A x \in Devices \ {d} : node'[x] = node[x]
  BY <1>1, <1>2
<1>11. ~Current(d)' /\ \A x \in Devices \ {d} : Current(x)' <=> Current(x)
  BY <1>1, <1>7, <1>10 DEF Current
<1>12. \A x \in Devices : Honest(policy.device[x], node[x], Current(x)) /\ Tracking(node[x], Owes(x), pad, now)
  BY DEF CountInv, Sound
<1>13. /\ Owes(Pad) = <<>> /\ Owes(Pad)' = <<>>
       /\ \A x \in Mirrored : Owes(x) = lagging[x] /\ Owes(x) \in Seq(Repetition) /\ Owes(x)' = lagging'[x]
  BY <1>2 DEF Owes, Mirrored
<1>14. \A x \in Devices : x = Pad \/ x \in Mirrored
  BY DEF Mirrored
<1>15. \A x \in Mirrored : Owes(x)' = IF d = Pad THEN Owes(x) \o releases ELSE IF x = d THEN <<>> ELSE Owes(x)
  BY <1>1, <1>2, <1>13
<1>16. ASSUME NEW x \in Mirrored, d = Pad
       PROVE  LET l == Owes(x)
                  more == Owes(x) \o releases
              IN  /\ Len(l) \in Nat /\ Len(more) \in Nat /\ Len(l) <= Len(more) /\ DOMAIN more = 1 .. Len(more)
                  /\ \A j \in 1 .. Len(l) : j \in DOMAIN l /\ more[j] = l[j]
                  /\ \A j \in 1 .. Len(more) : j > Len(l) => \E c \in pad.down : more[j] = Release(c)
                  /\ \A c \in pad.down : \E j \in 1 .. Len(more) : j > Len(l) /\ more[j] = Release(c)
  <2> DEFINE l == Owes(x)
             more == l \o releases
             k == Len(l)
  <2>1. l \in Seq(Repetition) /\ k \in Nat /\ DOMAIN l = 1 .. k
    BY <1>13, <1>16
  <2>2. Len(releases) \in Nat /\ DOMAIN releases = 1 .. Len(releases)
    BY <1>3
  <2> HIDE DEF l
  <2>3. /\ Len(more) = k + Len(releases) /\ DOMAIN more = 1 .. Len(more)
        /\ \A j \in 1 .. k : more[j] = l[j]
        /\ \A j \in 1 .. Len(releases) : more[k + j] = releases[j]
    BY <1>3, <2>1
  <2> HIDE DEF more, k
  <2>4. ASSUME NEW j \in 1 .. Len(more), j > k PROVE \E c \in pad.down : more[j] = Release(c)
    <3>1. j - k \in 1 .. Len(releases) /\ k + (j - k) = j
      BY <2>1, <2>2, <2>3, <2>4
    <3>2. more[j] = releases[j - k]
      BY <2>3, <3>1
    <3> QED BY <1>3, <2>2, <3>1, <3>2
  <2>5. ASSUME NEW c \in pad.down PROVE \E j \in 1 .. Len(more) : j > k /\ more[j] = Release(c)
    <3>1. PICK j \in 1 .. Len(releases) : releases[j] = Release(c)
      BY <1>4, <2>2
    <3>2. k + j \in 1 .. Len(more) /\ k + j > k /\ more[k + j] = Release(c)
      BY <2>1, <2>2, <2>3, <3>1
    <3> QED BY <3>2
  <2>6. Len(more) \in Nat /\ k <= Len(more)
    BY <2>1, <2>2, <2>3
  <2> QED BY <2>1, <2>3, <2>4, <2>5, <2>6 DEF l, more, k
<1>17. ASSUME NEW x \in Devices PROVE Sound(x)'
  <2>1. Honest(policy.device[x], node'[x], Current(x)')
    BY <1>10, <1>11, <1>12, HonestWhen DEF Honest
  <2>2. Tracking(node'[x], Owes(x)', pad', now)
    <3>1. CASE d = Pad /\ x = Pad
      <4>1. \A c \in Inputs : ~StaysDown(c, {}, <<>>, 0, Len(<<>>))
        BY StaysSame
      <4>2. Tracking(gone, <<>>, pad', now)
        BY <1>7, <4>1 DEF Tracking
      <4> QED BY <1>10, <1>13, <3>1, <4>2
    <3>2. CASE d = Pad /\ x \in Mirrored
      <4> DEFINE l == Owes(x)
                 more == Owes(x) \o releases
                 k == Len(l)
                 m == Len(more)
      <4>1. /\ k \in Nat /\ m \in Nat /\ k <= m /\ DOMAIN more = 1 .. m
            /\ \A j \in 1 .. k : j \in DOMAIN l /\ more[j] = l[j]
            /\ \A j \in 1 .. m : j > k => \E c \in pad.down : more[j] = Release(c)
            /\ \A c \in pad.down : \E j \in 1 .. m : j > k /\ more[j] = Release(c)
        BY <1>16, <3>2
      <4>2. Tracking(node[x], l, pad, now)
        BY <1>12
      <4>3. node'[x] = node[x] /\ Owes(x)' = more
        BY <1>10, <1>15, <3>2 DEF Mirrored
      <4>k. k = Len(l) /\ m = Len(more)
        OBVIOUS
      <4> HIDE DEF l, more, k, m
      <4>4. ASSUME NEW c \in Inputs, StaysDown(c, node[x].down, more, 0, m) PROVE FALSE
        <5>1. StaysDown(c, node[x].down, l, 0, k)
          <6>1. CASE c \in node[x].down /\ \A j \in (0 + 1) .. m : ~LetsGo(more[j], c)
            <7>1. \A j \in (0 + 1) .. k : ~LetsGo(l[j], c)
              BY <4>1, <6>1
            <7> QED BY <6>1, <7>1 DEF StaysDown
          <6>2. ASSUME NEW j \in (0 + 1) .. m, more[j].code = c, more[j].value = 1,
                       \A y \in (j + 1) .. m : ~LetsGo(more[y], c)
                PROVE  StaysDown(c, node[x].down, l, 0, k)
            <7>1. j <= k
              <8>1. CASE j > k
                <9>1. more[j].value = 0
                  BY <1>8, <4>1, <8>1
                <9> QED BY <6>2, <9>1
              <8> QED BY <4>1, <8>1
            <7>2. j \in (0 + 1) .. k /\ \A y \in (j + 1) .. k : y \in (j + 1) .. m /\ y \in 1 .. k
              BY <4>1, <7>1
            <7>3. l[j] = more[j] /\ \A y \in (j + 1) .. k : ~LetsGo(l[y], c)
              BY <4>1, <6>2, <7>2
            <7> QED BY <6>2, <7>2, <7>3 DEF StaysDown
          <6> QED BY <4>4, <6>1, <6>2 DEF StaysDown
        <5>2. c \in pad.down
          BY <4>2, <4>k, <5>1 DEF Tracking
        <5>3. PICK j \in 1 .. m : j > k /\ more[j] = Release(c)
          BY <4>1, <5>2
        <5>4. LetsGo(more[j], c)
          BY <1>8, <5>3 DEF LetsGo
        <5>5. CASE \A y \in (0 + 1) .. m : ~LetsGo(more[y], c)
          BY <5>3, <5>4, <5>5
        <5>6. ASSUME NEW y \in (0 + 1) .. m, more[y].value = 1, \A z \in (y + 1) .. m : ~LetsGo(more[z], c) PROVE FALSE
          <6>1. y <= k
            <7>1. CASE y > k
              <8>1. more[y].value = 0
                BY <1>8, <4>1, <7>1
              <8> QED BY <5>6, <8>1
            <7> QED BY <4>1, <7>1
          <6>2. j \in (y + 1) .. m
            BY <4>1, <5>3, <6>1
          <6> QED BY <5>4, <5>6, <6>2
        <5> QED BY <4>4, <5>5, <5>6 DEF StaysDown
      <4>5. \A j \in DOMAIN more : more[j].made <= now /\ now <= more[j].made + Lag
        <5>1. Lag \in Nat
          BY ListenerAssumption
        <5>2. ASSUME NEW j \in 1 .. m, j > k PROVE more[j].made <= now /\ now <= more[j].made + Lag
          <6>1. more[j].made = now
            BY <1>8, <4>1, <5>2
          <6> QED BY <1>2, <5>1, <6>1
        <5>3. ASSUME NEW j \in 1 .. k PROVE more[j].made <= now /\ now <= more[j].made + Lag
          BY <4>1, <4>2, <5>3 DEF Tracking
        <5>4. \A j \in 1 .. m : j > k \/ j \in 1 .. k
          BY <4>1
        <5> QED BY <4>1, <5>2, <5>3, <5>4
      <4>6. ~node[x].there => node[x].down = {} /\ \A j \in DOMAIN more : more[j].value = 0
        <5>1. ASSUME ~node[x].there, NEW j \in 1 .. m PROVE more[j].value = 0
          <6>1. CASE j > k
            BY <1>8, <4>1, <6>1
          <6>2. CASE ~(j > k)
            <7>1. j \in 1 .. k
              BY <4>1, <6>2
            <7> QED BY <4>1, <4>2, <5>1, <7>1 DEF Tracking
          <6> QED BY <6>1, <6>2
        <5>2. ~node[x].there => node[x].down = {}
          BY <4>2 DEF Tracking
        <5> QED BY <4>1, <5>1, <5>2
      <4>7. \A c \in Inputs : ~StaysDown(c, node[x].down, more, 0, Len(more))
        BY <4>4, <4>k
      <4>8. Tracking(node[x], more, pad', now)
        BY <4>5, <4>6, <4>7 DEF Tracking
      <4> QED BY <4>3, <4>8
    <3>3. CASE d # Pad /\ x = d
      <4>1. \A c \in Inputs : ~StaysDown(c, {}, <<>>, 0, Len(<<>>))
        BY StaysSame
      <4>2. Tracking(gone, <<>>, pad', now)
        BY <1>7, <4>1 DEF Tracking
      <4>3. Owes(x)' = <<>>
        BY <1>14, <1>15, <3>3
      <4> QED BY <1>10, <3>3, <4>2, <4>3
    <3>4. CASE d # Pad /\ x # d
      <4>1. Owes(x)' = Owes(x) /\ node'[x] = node[x] /\ pad'.down = pad.down
        BY <1>9, <1>10, <1>13, <1>14, <1>15, <3>4
      <4> QED BY <1>12, <4>1 DEF Tracking
    <3> QED BY <1>14, <3>1, <3>2, <3>3, <3>4
  <2>3. policy'.device[x] = policy.device[x] /\ now' = now
    BY <1>1
  <2> QED BY <2>1, <2>2, <2>3, SoundAfter
<1>18. /\ pad.press[Guide] <= pad.downs /\ pad.since \in Nat /\ pad.press[Guide] \in Nat
       /\ \A x \in Devices : /\ \A j \in DOMAIN node[x].queue : Numbered(pad, node[x].queue[j])
                             /\ \A j \in DOMAIN Owes(x) : Numbered(pad, Owes(x)[j])
  BY <1>2 DEF CountInv, Numbering
<1>19. \A x \in Devices : /\ \A j \in DOMAIN node[x].queue : EndsPress(node[x].queue[j]) => node[x].queue[j].press \in Nat
                          /\ \A j \in DOMAIN Owes(x) : EndsPress(Owes(x)[j]) => Owes(x)[j].press \in Nat
  BY <1>2, EndsNumber
<1>20. Numbering'
  <2>1. ASSUME NEW ev, Numbered(pad, ev), EndsPress(ev) => ev.press \in Nat PROVE Numbered(pad', ev)
    <3> DEFINE i == ev.press
    <3>1. EndsPress(ev) => i \in Nat /\ i <= pad.downs /\ (Guide \in pad.down => i # pad.press[Guide])
      BY <2>1 DEF Numbered
    <3> HIDE DEF i
    <3>2. EndsPress(ev) => i <= pad'.downs /\ (Guide \in pad'.down => i # pad'.press[Guide])
      BY <1>2, <1>9, <3>1
    <3> QED BY <3>2 DEF Numbered, i
  <2>2. \A c \in pad.down : d = Pad => Numbered(pad', Release(c))
    BY <1>2, <1>8, <1>9, <1>18 DEF Numbered, EndsPress
  <2>3. \A x \in Devices : /\ \A j \in DOMAIN node[x].queue : Numbered(pad', node[x].queue[j])
                           /\ \A j \in DOMAIN Owes(x) : Numbered(pad', Owes(x)[j])
    BY <1>18, <1>19, <2>1
  <2>4. ASSUME NEW x \in Devices PROVE \A j \in DOMAIN node'[x].queue : Numbered(pad', node'[x].queue[j])
    BY <1>7, <1>10, <2>3
  <2>5. ASSUME NEW x \in Devices PROVE \A j \in DOMAIN Owes(x)' : Numbered(pad', Owes(x)'[j])
    <3>1. CASE x = Pad
      BY <1>13, <3>1
    <3>2. CASE x \in Mirrored /\ d = Pad
      <4> DEFINE more == Owes(x) \o releases
                 l == Owes(x)
                 k == Len(l)
                 m == Len(more)
      <4>1. /\ k \in Nat /\ m \in Nat /\ DOMAIN more = 1 .. m
            /\ \A j \in 1 .. k : j \in DOMAIN l /\ more[j] = l[j]
            /\ \A j \in 1 .. m : j > k => \E c \in pad.down : more[j] = Release(c)
        BY <1>16, <3>2
      <4>2. Owes(x)' = more /\ \A j \in DOMAIN l : Numbered(pad', l[j])
        BY <1>15, <2>3, <3>2
      <4> HIDE DEF more, l, k, m
      <4>3. ASSUME NEW j \in 1 .. m PROVE Numbered(pad', more[j])
        <5>1. CASE j > k
          BY <2>2, <3>2, <4>1, <5>1
        <5>2. CASE ~(j > k)
          <6>1. j \in 1 .. k
            BY <4>1, <5>2
          <6> QED BY <4>1, <4>2, <6>1
        <5> QED BY <5>1, <5>2
      <4> QED BY <4>1, <4>2, <4>3
    <3>3. CASE x \in Mirrored /\ d # Pad
      BY <1>15, <2>3, <3>3
    <3> QED BY <1>14, <3>1, <3>2, <3>3
  <2>6. pad'.press[Guide] <= pad'.downs /\ pad'.since \in Nat
    BY <1>2, <1>9, <1>18
  <2> QED BY <2>4, <2>5, <2>6 DEF Numbering
<1>21. ReleasedBy'
  BY <1>1 DEF CountInv, ReleasedBy
<1>22. Stakes'
  BY <1>1, <1>9, NoStakes
<1> QED BY <1>2, <1>17, <1>20, <1>21, <1>22 DEF CountInv

\* A policy or a table that another node opens, or leaves.
LEMMA SoundTable ==
  ASSUME CountInv, NEW x \in Devices, UNCHANGED <<now, pad, lagging>>,
         node'[x].down = node[x].down, node'[x].there = node[x].there,
         Honest(policy'.device[x], node'[x], Current(x)')
  PROVE  Sound(x)'
<1>1. Tracking(node[x], Owes(x), pad, now)
  BY DEF CountInv, Sound
<1>2. Owes(x)' = Owes(x)
  BY DEF Owes
<1>3. Tracking(node'[x], Owes(x)', pad', now')
  BY <1>1, <1>2 DEF Tracking
<1> QED BY <1>3, SoundAfter

\* Queues that are emptied or left alone hold no other numbers.
LEMMA NumberingSame ==
  ASSUME CountInv, UNCHANGED <<pad, lagging>>, \A x \in Devices : node'[x].queue = node[x].queue \/ node'[x].queue = <<>>
  PROVE  Numbering'
<1>1. \A x \in Devices : Owes(x)' = Owes(x)
  BY DEF Owes
<1> QED BY <1>1 DEF CountInv, Numbering

\* Plug: the node appears with no key down and nothing to tell.
LEMMA CountPlug ==
  ASSUME CountInv, NEW d \in Devices, Plug(d)
  PROVE  CountInv'
<1> DEFINE new == [node[d] EXCEPT !.there = TRUE, !.gen = node[d].gen + 1]
<1>1. ~node[d].there /\ UNCHANGED <<now, pad, lagging, table, policy, timers, out, current>>
  BY DEF Plug
<1>2. ListenInv /\ ListenInv' /\ node \in [Devices -> NodeRecord] /\ node[d] \in NodeRecord
  BY ListenPlug DEF CountInv, ListenInv, ListenTypes
<1>3. node' = [node EXCEPT ![d] = new]
  BY Zenon DEF Plug
<1>4. new.down = node[d].down /\ new.queue = node[d].queue /\ new.there
  <2> DEFINE gen == node[d].gen + 1
  <2>1. DOMAIN node[d] = {"there", "gen", "down", "unseen", "since", "with", "queue"}
    BY <1>2 DEF NodeRecord
  <2> HIDE DEF gen
  <2> QED BY <2>1
<1> HIDE DEF new
<1>5. node'[d] = new /\ \A x \in Devices \ {d} : node'[x] = node[x]
  BY <1>2, <1>3
<1>6. \A x \in Devices : Honest(policy.device[x], node[x], Current(x)) /\ Tracking(node[x], Owes(x), pad, now)
  BY DEF CountInv, Sound
<1>7. ~Current(d) /\ \A x \in Devices \ {d} : Current(x)' <=> Current(x)
  BY <1>1, <1>5 DEF Current
<1>8. ~Current(d)'
  <2>1. table[d].gen \in Nat /\ node[d].gen \in Nat /\ table[d].gen <= node[d].gen /\ new.gen = node[d].gen + 1
    <3>1. node[d] \in NodeRecord
      BY <1>2
    <3> QED BY <1>2, <3>1 DEF ListenInv, ListenTypes, Tabled, NodeRecord, new
  <2> QED BY <1>1, <1>5, <2>1 DEF Current
<1>9. ASSUME NEW x \in Devices PROVE Sound(x)'
  <2>1. CASE x # d
    <3>1. Honest(policy.device[x], node[x], Current(x)')
      BY <1>6, <1>7, <2>1, HonestWhen
    <3>2. node'[x] = node[x] /\ policy' = policy
      BY <1>1, <1>5, <2>1
    <3> QED BY <1>1, <3>1, <3>2, SoundTable
  <2>2. CASE x = d
    <3>1. Honest(policy.device[d], new, Current(d)')
      BY <1>6, <1>8 DEF Honest
    <3>2. node[d].down = {} /\ \A j \in DOMAIN Owes(d) : Owes(d)[j].value = 0
      BY <1>1, <1>6 DEF Tracking
    <3>3. Tracking(new, Owes(d), pad, now)
      BY <1>4, <1>6 DEF Tracking
    <3>4. Owes(d)' = Owes(d) /\ policy'.device[d] = policy.device[d] /\ pad' = pad /\ now' = now
      BY <1>1 DEF Owes
    <3> QED BY <1>5, <2>2, <3>1, <3>3, <3>4, SoundAfter
  <2> QED BY <2>1, <2>2
<1>10. Numbering' /\ ReleasedBy' /\ Stakes'
  <2>1. \A x \in Devices : node'[x].queue = node[x].queue
    BY <1>4, <1>5
  <2>2. Numbering'
    BY <1>1, <2>1, NumberingSame
  <2>3. ReleasedBy'
    BY <1>1 DEF CountInv, ReleasedBy
  <2>4. Stakes'
    BY <1>1, <1>7, UnarmedStakes
  <2> QED BY <2>2, <2>3, <2>4
<1> QED BY <1>2, <1>9, <1>10 DEF CountInv

\* read() of a node that is gone.
LEMMA CountReadGone ==
  ASSUME CountInv, NEW d \in Devices, ReadGone(d)
  PROVE  CountInv'
<1> DEFINE new == Closed(policy, d)
           row == [gen |-> 0, triggers |-> FALSE]
<1>1. /\ ~Current(d) /\ table' = [table EXCEPT ![d] = row] /\ policy' = new
      /\ UNCHANGED <<now, pad, lagging, node, timers, out, current>>
  BY DEF ReadGone
<1>2. ListenInv /\ ListenInv' /\ policy \in PolicyRecord /\ table \in [Devices -> [gen : Nat, triggers : BOOLEAN]]
  BY ListenReadGone DEF CountInv, ListenInv, ListenTypes
<1>3. new.release = policy.release
  BY <1>2 DEF Closed, PolicyRecord
<1>4. new.device[d] = Unwatched /\ \A x \in Devices \ {d} : new.device[x] = policy.device[x]
  BY <1>2, ClosedDoes
<1> HIDE DEF new, row
<1>5. \A x \in Devices \ {d} : table'[x] = table[x]
  BY <1>1, <1>2
<1>6. table'[d].gen = 0
  BY <1>1, <1>2 DEF row
<1>7. ~Current(d)' /\ \A x \in Devices \ {d} : Current(x)' <=> Current(x)
  BY <1>1, <1>2, <1>5, <1>6 DEF Current, ListenInv, Tabled
<1>8. ASSUME NEW x \in Devices PROVE Sound(x)'
  <2>1. CASE x # d
    <3>1. Honest(policy.device[x], node[x], Current(x))
      BY DEF CountInv, Sound
    <3>2. Honest(policy.device[x], node[x], Current(x)')
      BY <1>7, <2>1, <3>1, HonestWhen
    <3>3. node'[x] = node[x] /\ policy'.device[x] = policy.device[x]
      BY <1>1, <1>4, <2>1
    <3> QED BY <1>1, <3>2, <3>3, SoundTable
  <2>2. CASE x = d
    <3>1. Honest(policy'.device[d], node'[d], Current(d)')
      BY <1>1, <1>4, <1>7 DEF Honest, Unwatched
    <3> QED BY <1>1, <2>2, <3>1, SoundTable
  <2> QED BY <2>1, <2>2
<1>9. Numbering' /\ Stakes'
  BY <1>1, NumberingSame, UnarmedStakes
<1>10. ReleasedBy'
  BY <1>1, <1>3 DEF CountInv, ReleasedBy
<1> QED BY <1>2, <1>8, <1>9, <1>10 DEF CountInv

\* rescan(): a node that is opened knows the keys that are down.
LEMMA CountRescan ==
  ASSUME CountInv, Rescan
  PROVE  CountInv'
<1> DEFINE gone == {d \in Devices : table[d].gen > 0 /\ ~Current(d)}
           new == {d \in Devices : node[d].there /\ ~Current(d)}
           open == (policy.open \ gone) \cup new
           states == [d \in Devices |-> IF d \in new THEN Opens(policy, d).device[d]
                                        ELSE IF d \in gone THEN Closed(policy, d).device[d]
                                        ELSE policy.device[d]]
<1>1. /\ gone \cup new # {}
      /\ policy' = [policy EXCEPT !.open = open, !.device = states]
      /\ UNCHANGED <<now, pad, lagging, node, timers, out, current>>
  BY DEF Rescan
<1>2. \A d \in Devices : table'[d] = IF d \in new THEN [gen |-> node[d].gen, triggers |-> FALSE]
                                      ELSE IF d \in gone THEN [gen |-> 0, triggers |-> FALSE]
                                      ELSE table[d]
  BY DEF Rescan
<1>3. /\ ListenInv /\ ListenInv' /\ policy \in PolicyRecord /\ table \in [Devices -> [gen : Nat, triggers : BOOLEAN]]
      /\ node \in [Devices -> NodeRecord] /\ now \in Nat
  BY ListenRescan DEF CountInv, ListenInv, ListenTypes
<1>4. policy'.release = policy.release /\ \A d \in Devices : policy'.device[d] = states[d]
  <2> HIDE DEF open, states
  <2> QED BY <1>1, <1>3 DEF PolicyRecord
<1>5. PICK d \in Devices : ~Current(d)
  BY <1>1
<1>6. ASSUME NEW x \in Devices PROVE Sound(x)'
  <2>1. CASE x \in new
    <3> DEFINE st == Opens(policy, x).device[x]
    <3>1. node[x] \in NodeRecord /\ ~Current(x)
      BY <1>3, <2>1
    <3>2. policy'.device[x] = st /\ st.keysDown = (node[x].down \ (Hats \cup Triggers)) \ {Guide}
      BY <1>3, <1>4, <2>1, <3>1, OpensDoes DEF View
    <3>3. node[x].queue = <<>>
      BY <1>3, <3>1 DEF ListenInv, Silent
    <3>4. node[x].down \in SUBSET Inputs
      BY <3>1 DEF NodeRecord
    <3> HIDE DEF st
    <3>5. st.keysDown \subseteq Buttons /\ st.keysDown \subseteq node[x].down
      BY <3>2, <3>4 DEF Inputs
    <3>6. Honest(st, node[x], Current(x)')
      <4>1. \A c \in Buttons : StaysDown(c, st.keysDown, <<>>, 0, Len(<<>>)) => c \in node[x].down
        BY <3>5, StaysSame
      <4> QED BY <3>3, <3>5, <4>1 DEF Honest, Known
    <3> QED BY <1>1, <3>2, <3>6, SoundTable
  <2>2. CASE x \notin new /\ x \in gone
    <3>a. states[x] = Closed(policy, x).device[x]
      BY <2>2
    <3>b. table'[x] = [gen |-> 0, triggers |-> FALSE]
      BY <1>2, <2>2
    <3> HIDE DEF states, new, gone
    <3>1. policy'.device[x] = Closed(policy, x).device[x] /\ table'[x].gen = 0
      BY <1>4, <3>a, <3>b
    <3>2. policy'.device[x] = Unwatched
      BY <1>3, <3>1, ClosedDoes
    <3>3. ~Current(x)'
      BY <1>1, <1>3, <3>1 DEF Current, ListenInv, Tabled
    <3>4. Honest(policy'.device[x], node'[x], Current(x)')
      BY <3>2, <3>3 DEF Honest, Unwatched
    <3> QED BY <1>1, <3>4, SoundTable
  <2>3. CASE x \notin new /\ x \notin gone
    <3>1. policy'.device[x] = policy.device[x] /\ table'[x] = table[x] /\ node'[x] = node[x]
      BY <1>1, <1>2, <1>4, <2>3
    <3>2. Current(x)' <=> Current(x)
      BY <3>1 DEF Current
    <3>3. Honest(policy.device[x], node[x], Current(x))
      BY DEF CountInv, Sound
    <3>4. Honest(policy.device[x], node[x], Current(x)')
      BY <3>2, <3>3, HonestWhen
    <3> QED BY <1>1, <3>1, <3>4, SoundTable
  <2> QED BY <2>1, <2>2, <2>3
<1>7. Numbering' /\ Stakes'
  BY <1>1, <1>5, NumberingSame, UnarmedStakes
<1>8. ReleasedBy'
  BY <1>4 DEF CountInv, ReleasedBy
<1> QED BY <1>3, <1>6, <1>7, <1>8 DEF CountInv

\* The clock: what is overdue was told, and a press gets longer.
LEMMA CountTick ==
  ASSUME CountInv, Tick
  PROVE  CountInv'
<1>1. /\ now' = now + 1 /\ now \in Nat
      /\ UNCHANGED <<pad, lagging, node, table, policy, timers, out, current>>
      /\ \A d \in Mirrored : \A i \in DOMAIN lagging[d] : now - lagging[d][i].made < Lag
  BY DEF Tick, CountInv, ListenInv, ListenTypes
<1>2. ListenInv /\ ListenInv' /\ lagging \in [Mirrored -> Seq(Repetition)]
  BY ListenTick DEF CountInv, ListenInv, ListenTypes
<1>3. \A x \in Devices : (Current(x)' <=> Current(x)) /\ Owes(x)' = Owes(x)
  BY <1>1 DEF Current, Owes
<1>4. ASSUME NEW x \in Devices PROVE Sound(x)'
  <2>1. Honest(policy.device[x], node[x], Current(x)) /\ Tracking(node[x], Owes(x), pad, now)
    BY DEF CountInv, Sound
  <2>2. ASSUME NEW j \in DOMAIN Owes(x) PROVE Owes(x)[j].made <= now + 1 /\ now + 1 <= Owes(x)[j].made + Lag
    <3>1. x \in Mirrored /\ Owes(x) = lagging[x]
      BY <2>2 DEF Owes
    <3>2. Owes(x)[j] \in Repetition
      BY <1>2, <2>2, <3>1
    <3>3. Owes(x)[j].made \in Nat /\ Lag \in Nat
      BY <3>2, ListenerAssumption DEF Repetition
    <3>4. now - Owes(x)[j].made < Lag /\ Owes(x)[j].made <= now
      BY <1>1, <2>1, <2>2, <3>1 DEF Tracking
    <3> QED BY <1>1, <3>3, <3>4
  <2>3. Tracking(node[x], Owes(x), pad, now + 1)
    BY <2>1, <2>2 DEF Tracking
  <2>4. Honest(policy.device[x], node[x], Current(x)')
    BY <1>3, <2>1, HonestWhen
  <2>5. policy'.device[x] = policy.device[x] /\ node'[x] = node[x] /\ pad' = pad
    BY <1>1
  <2> QED BY <1>1, <1>3, <2>3, <2>4, <2>5, SoundAfter
<1>5. Numbering' /\ ReleasedBy'
  BY <1>1, NumberingSame DEF CountInv, ReleasedBy
<1>6. Stakes'
  <2>1. \A b : Armed(b)' <=> Armed(b)
    BY <1>1, <1>3 DEF Armed
  <2>2. MayCount' => MayCount
    <3>1. pad.since \in Nat /\ Lag \in Nat /\ HoldMs \in Nat
      BY ListenerAssumption, TimesAssumption DEF CountInv, Numbering
    <3> QED BY <1>1, <3>1 DEF MayCount
  <2>3. OnStake(pad.press[Guide], pad.since) => OnStake(pad.press[Guide], pad.since)'
    BY <1>1, <1>3, <2>1 DEF OnStake
  <2>4. ASSUME NEW i, NEW b, AtStake(i, b) PROVE AtStake(i, b)'
    <3>1. Armed(b)' /\ \A x \in Devices : EndsOn(policy'.device[x], node'[x], Owes(x)', i, b)
      BY <1>1, <1>3, <2>1, <2>4 DEF AtStake
    <3>2. \A x \in Devices : WaitsFor(x, i) => ToTell(node'[x].queue, 0, Owes(x)', i)
      BY <1>1, <1>3 DEF WaitsFor
    <3>3. policy'.release.by = policy.release.by
      BY <1>1
    <3> QED BY <2>4, <3>1, <3>2, <3>3, StillAtStake
  <2>5. ToldPresses' = ToldPresses
    BY <1>1 DEF ToldPresses
  <2> QED BY <1>1, <2>2, <2>3, <2>4, <2>5 DEF CountInv, Stakes
<1> QED BY <1>2, <1>4, <1>5, <1>6 DEF CountInv

\* At first no press is on.
LEMMA CountInit == ListenerInit => CountInv
<1> SUFFICES ASSUME ListenerInit PROVE CountInv
  OBVIOUS
<1>1. ListenInv
  BY ListenInit
<1>2. /\ now = 0 /\ pad.down = {} /\ pad.downs = 0 /\ pad.press[Guide] = 0 /\ pad.since = 0 /\ pad.alone = FALSE /\ pad.good = {}
  BY DEF ListenerInit, Inputs
<1>3. \A d \in Devices : node[d].there /\ node[d].down = {} /\ node[d].queue = <<>> /\ Owes(d) = <<>>
  BY DEF ListenerInit, Owes
<1>4. policy.release = NoReport /\ \A d \in Devices : policy.device[d].keysDown = {}
  <2> DEFINE st == [Unwatched EXCEPT !.armedAt = ArmDelayMs]
             devices == [d \in Devices |-> st]
  <2>1. policy = [NoPolicy EXCEPT !.open = Devices, !.device = devices]
    BY DEF ListenerInit
  <2>2. st.keysDown = {}
    BY DEF Unwatched
  <2> HIDE DEF st
  <2>3. \A d \in Devices : devices[d] = st
    OBVIOUS
  <2> HIDE DEF devices
  <2>4. policy.release = NoReport /\ policy.device = devices
    BY <2>1 DEF NoPolicy
  <2> QED BY <2>2, <2>3, <2>4
<1>5. ASSUME NEW d \in Devices PROVE Sound(d)
  <2>1. \A c : ~StaysDown(c, {}, <<>>, 0, Len(<<>>))
    BY StaysSame
  <2>a. policy.device[d].keysDown = {} /\ node[d].queue = <<>>
    BY <1>3, <1>4
  <2>b. Known(policy.device[d], node[d])
    BY <2>1, <2>a DEF Known
  <2>2. Honest(policy.device[d], node[d], Current(d))
    <3>1. policy.device[d].keysDown \subseteq Buttons
      BY <2>a
    <3> QED BY <2>b, <3>1, Zenon DEF Honest
  <2>3. Tracking(node[d], Owes(d), pad, now)
    <3>1. DOMAIN Owes(d) = {}
      BY <1>3
    <3>2. \A c : ~StaysDown(c, node[d].down, Owes(d), 0, Len(Owes(d)))
      BY <1>3, <2>1
    <3> QED BY <1>3, <3>1, <3>2 DEF Tracking
  <2> QED BY <2>2, <2>3 DEF Sound
<1>6. Numbering
  BY <1>2, <1>3 DEF Numbering
<1>7. ReleasedBy
  BY <1>4 DEF ReleasedBy, NoReport, Never
<1>8. Stakes
  BY <1>2 DEF Stakes, MayCount
<1> QED BY <1>1, <1>5, <1>6, <1>7, <1>8 DEF CountInv

\* A press that is none yet does not become one for being held.
LEMMA OpenHeld ==
  ASSUME NEW state, NEW other, other.keysDown = state.keysDown, NEW b, ~Counting(state, b),
         NEW q, NEW n, NEW x, NEW i, OpenQueued(state, q, n, x, i, b)
  PROVE  OpenQueued(other, q, n, x, i, b)
BY DEF OpenQueued

\* A node whose press is over for the player, or whose policy has it for
\* no candidate of that time, has as much to tell when a hold is marked.
LEMMA OwedHeld ==
  ASSUME NEW state, NEW other, other.keysDown = state.keysDown, NEW b, ~Counting(state, b),
         NEW n, NEW l, NEW y, NEW i, OpenOwed(state, n, l, y, i, b)
  PROVE  OpenOwed(other, n, l, y, i, b)
<1>1. CASE y > 0
  BY <1>1 DEF OpenOwed
<1>2. CASE ~(y > 0)
  <2>1. n.down \subseteq {Guide} /\ OpenQueued(state, n.queue, 0, Len(n.queue), i, b)
    BY <1>2 DEF OpenOwed
  <2>2. OpenQueued(other, n.queue, 0, Len(n.queue), i, b)
    BY <2>1, OpenHeld
  <2> QED BY <1>2, <2>1, <2>2 DEF OpenOwed
<1> QED BY <1>1, <1>2

\* What will end does so of a node on which a hold is marked.
LEMMA EndsHeld ==
  ASSUME NEW state, NEW other, other.keysDown = state.keysDown, NEW n, NEW l \in Seq(Repetition), NEW i, NEW b \in Nat,
         now \in Nat, \A j \in DOMAIN l : now <= l[j].made + Lag,
         \A c \in Nat : now - c < HoldMs => ~Counting(state, c),
         \A j \in DOMAIN n.queue : n.queue[j].code # Guide,
         EndsOn(state, n, l, i, b)
  PROVE  EndsOn(other, n, l, i, b)
<1>1. EndQueued(other, n.queue, 0, i, b)
  BY DEF EndQueued, IsEnd, EndsPress
<1>2. ASSUME NEW j \in DOMAIN l, IsEnd(l[j], i)
      PROVE  OpenOwed(other, n, l, j - 1, i, b) /\ l[j].made - b + Lag < HoldMs
  <2>1. OpenOwed(state, n, l, j - 1, i, b) /\ l[j].made - b + Lag < HoldMs
    BY <1>2 DEF EndsOn, EndOwed
  <2>2. l[j].made \in Nat /\ Lag \in Nat /\ HoldMs \in Nat
    <3>1. l[j] \in Repetition
      OBVIOUS
    <3> QED BY <3>1, ListenerAssumption, TimesAssumption DEF Repetition
  <2>3. now - b < HoldMs
    BY <2>1, <2>2
  <2>4. ~Counting(state, b)
    BY <2>3
  <2> QED BY <2>1, <2>4, OwedHeld
<1>3. EndOwed(other, n, l, i, b)
  BY <1>2 DEF EndOwed
<1> QED BY <1>1, <1>3 DEF EndsOn

\* The timer of a hold: a press that will count is too short for it, unless
\* it takes for held what was let go of already.
LEMMA CountDue ==
  ASSUME CountInv, NEW t \in timers, Due(t)
  PROVE  CountInv'
<1> DEFINE d == t.of
           p == Hold(policy, d, now).policy
           due == HoldDue(policy, d, now)
           lasts == Guide \in node[d].down /\ \A i \in DOMAIN node[d].queue : node[d].queue[i].code # Guide
<1>1. UNCHANGED <<now, pad, lagging, node, table, current>>
  BY DEF Due
<1>2. /\ ListenInv /\ ListenInv' /\ policy \in PolicyRecord /\ now \in Nat /\ d \in Devices
      /\ lagging \in [Mirrored -> Seq(Repetition)]
      /\ out \in [presses : {out.presses}, signals : {out.signals}, holds : {out.holds},
                  captures : {out.captures}, early : {out.early}]
  BY ListenDue DEF CountInv, ListenInv, ListenTypes, Timers
<1>3. \/ policy' = policy /\ out' = out
      \/ /\ policy' = p
         /\ \E more : out' = [out EXCEPT !.holds = out.holds \cup more, !.early = out.early \/ (due /\ ~lasts)]
  BY DEF Due
<1>4. /\ p \in PolicyRecord
      /\ \A x \in Devices : View(p.device[x]) = View(policy.device[x])
  BY <1>2, HoldDoes
<1>5. ~due => p = policy
  BY DEF Hold
<1>6. due => p.release = policy.release /\ \A x \in Devices \ {d} : p.device[x] = policy.device[x]
  <2>1. policy \in PolicyRecord /\ d \in Devices /\ now \in Int
    BY <1>2
  <2> HIDE DEF d
  <2> QED BY <2>1, HoldSets
<1>7. \A x \in Devices : p.device[x].keysDown = policy.device[x].keysDown /\ p.device[x].armedAt = policy.device[x].armedAt
  BY <1>4 DEF View
<1>8. due => policy.device[d].heldSince \in Int /\ now - policy.device[d].heldSince >= HoldMs
  BY <1>2 DEF HoldDue, PolicyRecord, DeviceRecord
<1> HIDE DEF p, due, lasts
<1>9. /\ policy'.release = policy.release
      /\ \A x \in Devices : policy'.device[x].keysDown = policy.device[x].keysDown
                            /\ policy'.device[x].armedAt = policy.device[x].armedAt
      /\ \A x \in Devices \ {d} : policy'.device[x] = policy.device[x]
  BY <1>3, <1>5, <1>6, <1>7
<1>10. /\ out.signals \subseteq out'.signals /\ out.holds \subseteq out'.holds
       /\ out.early => out'.early
       /\ due /\ ~lasts => out'.early \/ policy' = policy
  <2>1. CASE out' = out /\ policy' = policy
    BY <2>1
  <2>2. ASSUME NEW more, NEW early, early <=> out.early \/ (due /\ ~lasts),
               out' = [out EXCEPT !.holds = out.holds \cup more, !.early = early]
        PROVE  /\ out.signals \subseteq out'.signals /\ out.holds \subseteq out'.holds
               /\ out.early => out'.early
               /\ due /\ ~lasts => out'.early \/ policy' = policy
    <3>1. out'.signals = out.signals /\ out'.holds = out.holds \cup more /\ out'.early = early
      BY <1>2, <2>2
    <3> QED BY <2>2, <3>1
  <2> QED BY <1>3, <2>1, <2>2
<1>11. \A x \in Devices : (Current(x)' <=> Current(x)) /\ Owes(x)' = Owes(x)
  BY <1>1 DEF Current, Owes
<1>12. ASSUME NEW x \in Devices PROVE Sound(x)'
  <2>1. Honest(policy.device[x], node[x], Current(x))
    BY DEF CountInv, Sound
  <2>2. Honest(policy'.device[x], node[x], Current(x))
    BY <1>9, <2>1 DEF Honest, Known
  <2>3. Honest(policy'.device[x], node[x], Current(x)')
    BY <1>11, <2>2, HonestWhen
  <2> QED BY <1>1, <2>3, SoundTable
<1>13. Numbering' /\ ReleasedBy'
  <2>1. ReleasedBy'
    BY <1>9 DEF CountInv, ReleasedBy
  <2> QED BY <1>1, <2>1, NumberingSame
<1>14. \A b : Armed(b)' <=> Armed(b)
  BY <1>9, <1>11 DEF Armed
<1>15. Stakes'
  <2>1. CASE out'.early
    BY <2>1 DEF Stakes
  <2>2. CASE ~out'.early
    <3>1. ~out.early /\ (policy' = policy \/ (due /\ lasts))
      BY <1>3, <1>5, <1>10, <2>2
    <3>2. /\ MayCount => OnStake(pad.press[Guide], pad.since)
          /\ \A i \in pad.good \ ToldPresses : \E b : AtStake(i, b)
      BY <3>1 DEF CountInv, Stakes
    <3>3. ToldPresses \subseteq ToldPresses'
      BY <1>10 DEF ToldPresses
    <3>4. due => \A b \in Nat : now - b < HoldMs => ~Counting(policy.device[d], b)
      <4>1. HoldMs \in Nat
        BY TimesAssumption
      <4> QED BY <1>2, <1>8, <4>1 DEF Counting
    <3>5. MayCount' => OnStake(pad.press[Guide], pad.since)'
      <4>1. SUFFICES ASSUME MayCount PROVE OnStake(pad.press[Guide], pad.since)'
        BY <1>1 DEF MayCount
      <4>2. now - pad.since < HoldMs /\ pad.since \in Nat
        <5>1. pad.since \in Nat /\ Lag \in Nat /\ HoldMs \in Nat
          BY ListenerAssumption, TimesAssumption DEF CountInv, Numbering
        <5> QED BY <1>2, <4>1, <5>1 DEF MayCount
      <4>3. ASSUME NEW x \in Devices
            PROVE  OpenOwed(policy'.device[x], node[x], Owes(x), Len(Owes(x)), pad.press[Guide], pad.since)
        <5>1. OpenOwed(policy.device[x], node[x], Owes(x), Len(Owes(x)), pad.press[Guide], pad.since)
          BY <3>2, <4>1 DEF OnStake
        <5>2. CASE policy'.device[x] = policy.device[x]
          BY <5>1, <5>2
        <5>3. CASE x = d /\ due
          <6>1. ~Counting(policy.device[x], pad.since)
            BY <3>4, <4>2, <5>3
          <6> QED BY <1>9, <5>1, <6>1, OwedHeld
        <5> QED BY <1>9, <3>1, <5>2, <5>3
      <4>4. Armed(pad.since)
        BY <3>2, <4>1 DEF OnStake
      <4>5. Armed(pad.since)'
        BY <1>1, <1>14, <4>4 DEF Armed
      <4> QED BY <1>1, <1>11, <4>3, <4>5 DEF OnStake
    <3>6. ASSUME NEW i, NEW b, AtStake(i, b) PROVE AtStake(i, b)'
      <4>1. ASSUME NEW x \in Devices PROVE EndsOn(policy'.device[x], node[x], Owes(x), i, b)
        <5>1. EndsOn(policy.device[x], node[x], Owes(x), i, b) /\ b \in Nat
          BY <3>6 DEF AtStake
        <5>2. CASE policy'.device[x] = policy.device[x]
          BY <5>1, <5>2
        <5>3. CASE x = d /\ due /\ lasts
          <6>1. Owes(x) \in Seq(Repetition)
            BY <1>2 DEF Owes
          <6>2. \A j \in DOMAIN Owes(x) : now <= Owes(x)[j].made + Lag
            BY DEF CountInv, Sound, Tracking
          <6>3. \A c \in Nat : now - c < HoldMs => ~Counting(policy.device[x], c)
            BY <3>4, <5>3
          <6>4. \A j \in DOMAIN node[x].queue : node[x].queue[j].code # Guide
            BY <5>3 DEF lasts
          <6> QED BY <1>2, <1>9, <5>1, <6>1, <6>2, <6>3, <6>4, EndsHeld
        <5> QED BY <1>9, <3>1, <5>2, <5>3
      <4>2. Armed(b)'
        BY <1>14, <3>6 DEF AtStake
      <4>3. \A x \in Devices : EndsOn(policy'.device[x], node'[x], Owes(x)', i, b)
        BY <1>1, <1>11, <4>1
      <4>4. \A x \in Devices : WaitsFor(x, i) => ToTell(node'[x].queue, 0, Owes(x)', i)
        BY <1>1, <1>11 DEF WaitsFor
      <4> QED BY <1>9, <3>6, <4>2, <4>3, <4>4, StillAtStake
    <3> QED BY <1>1, <3>2, <3>3, <3>5, <3>6 DEF Stakes
  <2> QED BY <2>1, <2>2
<1> QED BY <1>2, <1>12, <1>13, <1>15 DEF CountInv

\* One event that is read: the types, what it tells, and what the policy
\* knows of the node after it.
LEMMA ReadKeeps ==
  ASSUME ListenInv, NEW d \in Devices, d \in policy.open, NEW s, ReadTypes(d, s), NEW e \in QueueEvent
  PROVE  LET new == ReadEvent(d, s, e)
             st == s.policy.device[d]
             after == new.policy.device[d]
         IN  /\ ReadTypes(d, new) /\ Tells(d, s, e, new)
             /\ after.armedAt = st.armedAt
             /\ st.keysDown \subseteq Buttons => after.keysDown \subseteq Buttons \cap AfterEvent(st.keysDown, e)
             /\ e.code = Guide /\ e.value = 1 /\ e.at >= st.armedAt => after.heldSince = e.at
             /\ e.code = Guide /\ e.value = 1 /\ st.keysDown = {} => ~after.chord
<1> DEFINE new == ReadEvent(d, s, e)
           st == s.policy.device[d]
           after == new.policy.device[d]
           v == View(st)
<1>1. s \in ReadingRecord(s) /\ d \in s.policy.open /\ now \in Nat
  BY DEF ReadTypes, ListenInv, ListenTypes
<1>2. Tells(d, s, e, new)
  BY <1>1, ReadEventTells
<1>3. new \in ReadingRecord(new) /\ InStepWith(s.policy, new.policy, d, e)
  BY <1>1, ReadEventDoes
<1>4. ReadTypes(d, new)
  BY <1>3 DEF ReadTypes, InStepWith
<1>5. View(after) = Viewed(v, e)
  BY <1>3 DEF InStepWith
<1>6. /\ v.armedAt = st.armedAt /\ v.keys = st.keysDown /\ v.heldSince = st.heldSince
      /\ View(after).armedAt = after.armedAt /\ View(after).keys = after.keysDown
      /\ View(after).heldSince = after.heldSince /\ View(after).chord = after.chord
  BY DEF View
<1>7. e.code \in Inputs \cup {Lost} /\ (e.code # Lost => e.value \in {0, 1}) /\ Guide # Lost /\ Guide \notin Buttons /\
     Lost \notin Buttons
  BY LostIsNoInput, InputsAssumption DEF QueueEvent, KeyEvent, LostEvent, Inputs
<1> HIDE DEF new, st, after, v
<1>8. Viewed(v, e).armedAt = v.armedAt
  BY DEF Viewed
<1>9. Viewed(v, e).keys = IF e.code = Lost THEN {} ELSE KeysAfter(v.keys, e)
  BY <1>7 DEF Viewed, KeysAfter
<1>10. e.code = Guide /\ e.value = 1 /\ e.at >= v.armedAt => Viewed(v, e).heldSince = e.at
  BY <1>7 DEF Viewed
<1>11. e.code = Guide /\ e.value = 1 /\ v.keys = {} => ~Viewed(v, e).chord
  <2> SUFFICES ASSUME e.code = Guide, e.value = 1, v.keys = {} PROVE ~Viewed(v, e).chord
    OBVIOUS
  <2> DEFINE c == v.keys # {}
  <2>1. Viewed(v, e) = [armedAt |-> v.armedAt, heldSince |-> IF e.at >= v.armedAt THEN e.at ELSE Never,
          chord |-> c, keys |-> v.keys]
    BY <1>7 DEF Viewed
  <2>2. ~c
    OBVIOUS
  <2> HIDE DEF c
  <2>3. Viewed(v, e).chord = c
    BY <2>1
  <2> QED BY <2>2, <2>3, Zenon
<1>12. after.keysDown = IF e.code = Lost THEN {} ELSE KeysAfter(st.keysDown, e)
  BY <1>5, <1>6, <1>9
<1>13. st.keysDown \subseteq Buttons => after.keysDown \subseteq Buttons \cap AfterEvent(st.keysDown, e)
  <2>1. CASE e.code = Lost
    BY <1>12, <2>1
  <2>2. CASE e.code # Lost /\ e.value = 1
    BY <1>12, <2>2 DEF KeysAfter, AfterEvent
  <2>3. CASE e.code # Lost /\ e.value = 0
    <3>1. CASE e.code \in Buttons
      BY <1>12, <2>3, <3>1 DEF KeysAfter, AfterEvent
    <3>2. CASE e.code \notin Buttons
      <4>1. after.keysDown = st.keysDown
        BY <1>12, <2>3, <3>2 DEF KeysAfter
      <4> QED BY <2>3, <3>2, <4>1 DEF AfterEvent
    <3> QED BY <3>1, <3>2
  <2> QED BY <1>7, <2>1, <2>2, <2>3
<1>14. after.armedAt = st.armedAt
  BY <1>5, <1>6, <1>8
<1>15. e.code = Guide /\ e.value = 1 /\ e.at >= st.armedAt => after.heldSince = e.at
  BY <1>5, <1>6, <1>10
<1>16. e.code = Guide /\ e.value = 1 /\ st.keysDown = {} => ~after.chord
  BY <1>5, <1>6, <1>11, Zenon
<1> QED BY <1>2, <1>4, <1>13, <1>14, <1>15, <1>16 DEF new, st, after

\* A press that begins is not held yet.
LEMMA ReadBegins ==
  ASSUME NEW d \in Devices, NEW s, s.policy \in PolicyRecord, d \in s.policy.open, NEW e \in KeyEvent,
         e.code = Guide, e.value = 1
  PROVE  ~ReadEvent(d, s, e).policy.device[d].held
<1> DEFINE new == ReadEvent(d, s, e)
           cp == Capture(s.policy, d, e).policy
           np == Event(cp, d, e).policy
           st == cp.device[d]
           since == IF e.at >= st.armedAt THEN e.at ELSE Never
           keyed == st.keysDown # {}
           after == [st EXCEPT !.heldSince = since, !.chord = keyed, !.held = FALSE]
<1>1. e.code # Lost
  BY LostIsNoInput DEF KeyEvent
<1>2. cp \in PolicyRecord /\ cp.open = s.policy.open
  BY CaptureDoes
<1>3. new.policy = np
  BY <1>1 DEF ReadEvent
<1> HIDE DEF new, cp
<1>4. np = GuideDown(cp, d, e.at)
  BY <1>2 DEF Event
<1>5. GuideDown(cp, d, e.at) = [cp EXCEPT !.device[d] = after]
  BY Zenon DEF GuideDown
<1>6. st \in DeviceRecord
  BY <1>2 DEF PolicyRecord
<1> HIDE DEF np, st, since, keyed
<1>7. after.held = FALSE
  BY <1>6 DEF DeviceRecord
<1> HIDE DEF after
<1>8. np.device[d] = after
  BY <1>2, <1>4, <1>5 DEF PolicyRecord
<1> QED BY <1>3, <1>7, <1>8 DEF new

\* A release counts of a press that is followed, alone and not held, is
\* short, and is no mirror.
LEMMA ReadCounts ==
  ASSUME NEW d \in Devices, NEW s, s.policy \in PolicyRecord, d \in s.policy.open, NEW e \in KeyEvent,
         e.code = Guide, e.value = 0, s.policy.device[d].heldSince >= 0,
         ~s.policy.device[d].held, ~s.policy.device[d].chord,
         e.at - s.policy.device[d].heldSince <= MaxHoldMs, ~Mirrors(s.policy.release, d, e.at)
  PROVE  ReadEvent(d, s, e).signal = {e.press}
<1> DEFINE new == ReadEvent(d, s, e)
           capture == Capture(s.policy, d, e)
           cp == capture.policy
           event == Event(cp, d, e)
           begins == ~Holding(cp, d) /\ Holding(event.policy, d)
           told == [by |-> d, press |-> e.press]
           press == [by |-> d, press |-> e.press, took |-> e.at - e.since, with |-> e.with,
                     armed |-> e.since >= s.policy.device[d].armedAt]
           timer == IF begins THEN {[of |-> d, due |-> now + HoldTimerMs]} ELSE {}
           clips == IF capture.yes THEN {told} ELSE {}
           presses == IF event.yes THEN {press} ELSE {}
           sent == IF event.yes THEN {e.press} ELSE s.signal
           last == IF e.code = Guide /\ e.value = 1 THEN e.press ELSE s.current
<1>1. e.code # Lost
  BY LostIsNoInput DEF KeyEvent
<1>2. cp \in PolicyRecord /\ cp.open = s.policy.open /\ cp.device = s.policy.device
  BY CaptureDoes
<1>3. cp.release = s.policy.release
  BY CaptureReports
<1>4. new = [policy |-> event.policy, timers |-> s.timers \cup timer, captured |-> s.captured \cup clips,
             pressed |-> s.pressed \cup presses, signal |-> sent, current |-> last]
  BY <1>1, Zenon DEF ReadEvent
<1>5. ~(cp.device[d].heldSince < 0)
  BY <1>2 DEF PolicyRecord, DeviceRecord
<1> HIDE DEF cp
<1>6. event.yes = Counts(cp, d, e.at)
  <2>1. e.code = Guide /\ e.value # 1 /\ d \in cp.open
    BY <1>2
  <2> QED BY <1>5, <2>1, Zenon DEF Event
<1>7. Counts(cp, d, e.at)
  <2>1. cp.device[d] = s.policy.device[d] /\ cp.release = s.policy.release
    BY <1>2, <1>3
  <2> QED BY <2>1, Zenon DEF Counts
<1>8. sent = {e.press}
  BY <1>6, <1>7, Zenon
<1> HIDE DEF new, event, timer, clips, presses, press, sent, last
<1>9. new.signal = sent
  BY <1>4
<1> QED BY <1>8, <1>9 DEF new

\* The signal is of the last press that counted; its node has the latest
\* report.
LEMMA ReadSignals ==
  ASSUME NEW d \in Devices, NEW s, s.policy \in PolicyRecord, d \in s.policy.open, NEW e \in QueueEvent
  PROVE  LET new == ReadEvent(d, s, e)
         IN  \/ new.signal = s.signal
             \/ EndsPress(e) /\ new.signal = {e.press} /\ new.policy.release.by = d
<1> DEFINE new == ReadEvent(d, s, e)
           capture == Capture(s.policy, d, e)
           cp == capture.policy
           event == Event(cp, d, e)
           begins == ~Holding(cp, d) /\ Holding(event.policy, d)
           told == [by |-> d, press |-> e.press]
           press == [by |-> d, press |-> e.press, took |-> e.at - e.since, with |-> e.with,
                     armed |-> e.since >= s.policy.device[d].armedAt]
           timer == IF begins THEN {[of |-> d, due |-> now + HoldTimerMs]} ELSE {}
           clips == IF capture.yes THEN {told} ELSE {}
           presses == IF event.yes THEN {press} ELSE {}
           sent == IF event.yes THEN {e.press} ELSE s.signal
           last == IF e.code = Guide /\ e.value = 1 THEN e.press ELSE s.current
<1>1. CASE e.code = Lost
  <2>1. new = [s EXCEPT !.policy = Dropped(s.policy, d)]
    BY <1>1, Zenon DEF ReadEvent
  <2> QED BY <2>1
<1>2. CASE e.code # Lost
  <2>1. new = [policy |-> event.policy, timers |-> s.timers \cup timer, captured |-> s.captured \cup clips,
               pressed |-> s.pressed \cup presses, signal |-> sent, current |-> last]
    BY <1>2, Zenon DEF ReadEvent
  <2>2. e \in KeyEvent
    BY <1>2 DEF QueueEvent, LostEvent
  <2>3. cp \in PolicyRecord /\ cp.open = s.policy.open
    BY <2>2, CaptureDoes
  <2> HIDE DEF cp
  <2>4. \/ ~event.yes
        \/ /\ e.code = Guide /\ e.value = 0
           /\ event.policy.release = Reported(cp.release, d, e.at) /\ ~Mirrors(cp.release, d, e.at)
    BY <2>2, <2>3, EventReports
  <2>5. new.signal = sent /\ new.policy = event.policy
    <3> HIDE DEF event, timer, clips, presses, sent, last
    <3> QED BY <2>1
  <2>6. CASE ~event.yes
    BY <2>5, <2>6
  <2>7. CASE /\ event.yes /\ e.code = Guide /\ e.value = 0
             /\ event.policy.release = Reported(cp.release, d, e.at) /\ ~Mirrors(cp.release, d, e.at)
    <3>1. Reported(cp.release, d, e.at).by = d
      BY <2>7 DEF Reported
    <3> QED BY <2>5, <2>7, <3>1 DEF EndsPress
  <2> QED BY <2>4, <2>6, <2>7
<1> QED BY <1>1, <1>2

\* read() one event at a time: what holds of the node the first n events
\* of which were read, s being what the reading has come to. Its keys.
KeysRead(d, n, st) ==
  /\ st.armedAt = policy.device[d].armedAt /\ st.keysDown \subseteq Buttons
  /\ \A c \in Buttons : StaysDown(c, st.keysDown, node[d].queue, n, Len(node[d].queue)) => c \in node[d].down
\* A press that was open is so still.
OpensRead(d, n, st) ==
  \A i : \A b \in Nat :
    policy.device[d].armedAt <= b /\ OpenQueued(policy.device[d], node[d].queue, 0, Len(node[d].queue), i, b)
    => OpenQueued(st, node[d].queue, n, Len(node[d].queue), i, b)
\* A press at stake was told, or waits for all nodes or for the one of the
\* latest report.
WaitsRead(d, n, x, i) == IF x = d THEN ToTell(node[d].queue, n, Owes(d), i) ELSE WaitsFor(x, i)
WillRead(d, n, release, i) ==
  (\A x \in Devices : WaitsRead(d, n, x, i)) \/ (release.by \in Devices /\ WaitsRead(d, n, release.by, i))
ToldIn(s, i) == i \in s.signal
StakesRead(d, n, s) ==
  \A i, b : AtStake(i, b) => /\ EndQueued(s.policy.device[d], node[d].queue, n, i, b)
                             /\ ToldIn(s, i) \/ WillRead(d, n, s.policy.release, i)
\* A report names its node.
Named(release) == release.at >= 0 => release.by \in Devices
\* All of it; and the reading of one event.
CountReads(d, n, s) ==
  /\ ReadTypes(d, s) /\ KeysRead(d, n, s.policy.device[d]) /\ OpensRead(d, n, s.policy.device[d])
  /\ Named(s.policy.release) /\ StakesRead(d, n, s)
IsRead(d, n, s, e, new) ==
  /\ d \in Devices /\ d \in policy.open /\ n \in DOMAIN node[d].queue /\ e = node[d].queue[n]
  /\ new = ReadEvent(d, s, e) /\ CountReads(d, n - 1, s)

\* The event that is read.
LEMMA IsReadFacts ==
  ASSUME ListenInv, NEW d, NEW n, NEW s, NEW e, NEW new, IsRead(d, n, s, e, new)
  PROVE  /\ n \in Nat /\ n >= 1 /\ n <= Len(node[d].queue) /\ Len(node[d].queue) \in Nat
         /\ node[d].queue \in Seq(QueueEvent) /\ DOMAIN node[d].queue = 1 .. Len(node[d].queue)
         /\ e = node[d].queue[n] /\ e \in QueueEvent /\ d \in Devices /\ d \in policy.open
         /\ e.code # Lost => e \in KeyEvent /\ e.value \in {0, 1}
         /\ s.policy \in PolicyRecord /\ s.policy.open = policy.open
<1> DEFINE q == node[d].queue
<1>0. n \in DOMAIN q /\ e = q[n]
  BY DEF IsRead
<1>1. q \in Seq(QueueEvent)
  <2>1. node[d] \in NodeRecord
    BY DEF ListenInv, ListenTypes, IsRead
  <2> QED BY <2>1 DEF NodeRecord
<1> HIDE DEF q
<1>2. n \in Nat /\ n >= 1 /\ n <= Len(q) /\ Len(q) \in Nat /\ e \in QueueEvent /\ DOMAIN q = 1 .. Len(q)
  BY <1>0, <1>1
<1>3. e.code # Lost => e \in KeyEvent /\ e.value \in {0, 1}
  BY <1>2 DEF QueueEvent, KeyEvent, LostEvent
<1>4. s.policy \in PolicyRecord /\ s.policy.open = policy.open
  BY DEF IsRead, CountReads, ReadTypes, ReadingRecord
<1> QED BY <1>0, <1>1, <1>2, <1>3, <1>4 DEF q, IsRead

\* The keys, after one more.
LEMMA KeysReadOn ==
  ASSUME ListenInv, NEW d, NEW n, NEW s, NEW e, NEW new, IsRead(d, n, s, e, new)
  PROVE  KeysRead(d, n, new.policy.device[d])
<1> DEFINE q == node[d].queue
           st == s.policy.device[d]
           after == new.policy.device[d]
           k == Len(q)
<1>1. /\ n \in Nat /\ n >= 1 /\ n <= k /\ k \in Nat /\ e = q[n] /\ e \in QueueEvent /\ d \in Devices /\ d \in policy.open
      /\ e.code # Lost => e.value \in {0, 1}
  BY IsReadFacts
<1>2. ReadTypes(d, s) /\ KeysRead(d, n - 1, st) /\ new = ReadEvent(d, s, e)
  BY DEF IsRead, CountReads
<1>3. after.armedAt = st.armedAt /\
     (st.keysDown \subseteq Buttons => after.keysDown \subseteq Buttons \cap AfterEvent(st.keysDown, e))
  BY <1>1, <1>2, ReadKeeps
<1>4. /\ st.armedAt = policy.device[d].armedAt /\ st.keysDown \subseteq Buttons
      /\ \A c \in Buttons : StaysDown(c, st.keysDown, q, n - 1, k) => c \in node[d].down
  BY <1>2 DEF KeysRead
<1> HIDE DEF q, st, after, k
<1>5. ASSUME NEW c \in Buttons, StaysDown(c, after.keysDown, q, n, k) PROVE c \in node[d].down
  <2>1. c \in after.keysDown => c \in AfterEvent(st.keysDown, q[n])
    BY <1>1, <1>3, <1>4
  <2>2. q[n].code # Lost => q[n].value \in {0, 1}
    BY <1>1
  <2>3. StaysDown(c, st.keysDown, q, n - 1, k)
    BY <1>1, <1>5, <2>1, <2>2, StaysRead
  <2> QED BY <1>4, <2>3
<1> QED BY <1>3, <1>4, <1>5 DEF KeysRead, q, after, k

\* And what is open is so still.
LEMMA OpenReadOn ==
  ASSUME ListenInv, NEW d, NEW n, NEW s, NEW e, NEW new, IsRead(d, n, s, e, new),
         NEW i, NEW b \in Nat, policy.device[d].armedAt <= b,
         NEW x \in Nat, n <= x, OpenQueued(s.policy.device[d], node[d].queue, n - 1, x, i, b)
  PROVE  OpenQueued(new.policy.device[d], node[d].queue, n, x, i, b)
<1> DEFINE q == node[d].queue
           st == s.policy.device[d]
           after == new.policy.device[d]
           k == Len(q)
<1>1. /\ n \in Nat /\ n >= 1 /\ e = q[n] /\ e \in QueueEvent /\ d \in Devices /\ d \in policy.open
      /\ e.code # Lost => e \in KeyEvent /\ e.value \in {0, 1}
      /\ s.policy \in PolicyRecord /\ s.policy.open = policy.open
  BY IsReadFacts
<1>2. ReadTypes(d, s) /\ KeysRead(d, n - 1, st) /\ new = ReadEvent(d, s, e)
  BY DEF IsRead, CountReads
<1>3. /\ st.keysDown \subseteq Buttons => after.keysDown \subseteq Buttons \cap AfterEvent(st.keysDown, e)
      /\ e.code = Guide /\ e.value = 1 /\ e.at >= st.armedAt => after.heldSince = e.at
      /\ e.code = Guide /\ e.value = 1 /\ st.keysDown = {} => ~after.chord
  BY <1>1, <1>2, ReadKeeps
<1>4. st.armedAt = policy.device[d].armedAt /\ st.keysDown \subseteq Buttons
  BY <1>2 DEF KeysRead
<1>5. e.code = Guide /\ e.value = 1 => ~after.held
  <2>1. Guide # Lost
    BY LostIsNoInput DEF Inputs
  <2> QED BY <1>1, <1>2, <2>1, ReadBegins
<1>6. st.armedAt \in Int /\ (e.code # Lost => e.at \in Nat)
  <2>1. st \in DeviceRecord
    BY <1>1 DEF PolicyRecord
  <2> QED BY <1>1, <2>1 DEF DeviceRecord, KeyEvent
<1> HIDE DEF q, st, after, k
<1>7. /\ IsBegin(q[x], i) /\ q[x].at >= b
      /\ \A c \in Buttons : ~StaysDown(c, st.keysDown, q, n - 1, x - 1)
  <2>1. x > n - 1
    BY <1>1
  <2> QED BY <2>1 DEF OpenQueued, q, st
<1>8. CASE x > n
  <2>1. ASSUME NEW c \in Buttons, StaysDown(c, after.keysDown, q, n, x - 1) PROVE FALSE
    <3>1. c \in after.keysDown => c \in AfterEvent(st.keysDown, q[n])
      BY <1>1, <1>3, <1>4
    <3>2. q[n].code # Lost => q[n].value \in {0, 1}
      BY <1>1
    <3>3. x - 1 \in Nat /\ n <= x - 1
      BY <1>1, <1>8
    <3>4. StaysDown(c, st.keysDown, q, n - 1, x - 1)
      BY <1>1, <2>1, <3>1, <3>2, <3>3, StaysRead
    <3> QED BY <1>7, <3>4
  <2> QED BY <1>7, <1>8, <2>1 DEF OpenQueued, q, after
<1>9. CASE ~(x > n)
  <2>1. x = n
    BY <1>1, <1>9
  <2>2. e.code = Guide /\ e.value = 1 /\ e.at >= b
    BY <1>1, <1>7, <2>1 DEF IsBegin
  <2>3. st.keysDown = {}
    <3>1. \A c \in Buttons : ~StaysDown(c, st.keysDown, q, n - 1, n - 1)
      BY <1>7, <2>1
    <3>2. n - 1 \in Nat
      BY <1>1
    <3>3. \A c \in Buttons : c \notin st.keysDown
      BY <3>1, <3>2, StaysSame
    <3> QED BY <1>4, <3>3
  <2>4. e.at >= st.armedAt /\ after.heldSince >= b
    <3>1. e.code # Lost
      BY <2>2, LostIsNoInput DEF Inputs
    <3>2. e.at >= st.armedAt
      BY <1>4, <1>6, <2>2, <3>1
    <3> QED BY <1>3, <2>2, <3>2
  <2>5. Counting(after, b)
    BY <1>3, <1>5, <2>2, <2>3, <2>4 DEF Counting
  <2> QED BY <1>9, <2>5 DEF OpenQueued, after
<1> QED BY <1>8, <1>9

\* A report of a press names its node.
LEMMA NamedOn ==
  ASSUME NEW release, Named(release), NEW d \in Devices, NEW at
  PROVE  Named(Reported(release, d, at))
BY DEF Named, Reported

\* What ends is told, or waits for the node that it was taken to mirror.
LEMMA StakesReadOn ==
  ASSUME CountInv, NEW d, NEW n, NEW s, NEW e, NEW new, IsRead(d, n, s, e, new)
  PROVE  StakesRead(d, n, new)
<1> DEFINE q == node[d].queue
           l == Owes(d)
           st == s.policy.device[d]
           after == new.policy.device[d]
           k == Len(q)
<1>1. /\ n \in Nat /\ n >= 1 /\ n <= k /\ k \in Nat /\ e = q[n] /\ e \in QueueEvent /\ d \in Devices /\ d \in policy.open
      /\ DOMAIN q = 1 .. k /\ q \in Seq(QueueEvent)
      /\ e.code # Lost => e \in KeyEvent /\ e.value \in {0, 1}
      /\ s.policy \in PolicyRecord /\ s.policy.open = policy.open
  BY IsReadFacts DEF CountInv
<1>2. /\ ReadTypes(d, s) /\ new = ReadEvent(d, s, e) /\ Named(s.policy.release) /\ StakesRead(d, n - 1, s)
      /\ KeysRead(d, n - 1, st)
  BY DEF IsRead, CountReads
<1>3. TellsPress(d, s, e, new)
  <2>1. Tells(d, s, e, new)
    BY <1>1, <1>2, ReadKeeps DEF CountInv
  <2> QED BY <2>1 DEF Tells
<1>4. ASSUME NEW i, NEW b, AtStake(i, b)
      PROVE  /\ EndQueued(after, q, n, i, b)
             /\ ToldIn(new, i) \/ WillRead(d, n, new.policy.release, i)
  <2>1. /\ EndQueued(st, q, n - 1, i, b)
        /\ ToldIn(s, i) \/ WillRead(d, n - 1, s.policy.release, i)
    BY <1>2, <1>4 DEF StakesRead
  <2>2. b \in Nat /\ policy.device[d].armedAt <= b /\ EndsLast(q, l, i)
    BY <1>1, <1>4 DEF AtStake, Armed, EndsOn
  <2>3. EndQueued(after, q, n, i, b)
    <3>1. ASSUME NEW j \in DOMAIN q, j > n, IsEnd(q[j], i)
          PROVE  OpenQueued(after, q, n, j - 1, i, b) /\ q[j].at - b < HoldMs
      <4>1. j \in Nat /\ j > n - 1 /\ j - 1 \in Nat /\ n <= j - 1
        BY <1>1, <3>1
      <4>2. OpenQueued(st, q, n - 1, j - 1, i, b) /\ q[j].at - b < HoldMs
        BY <2>1, <3>1, <4>1 DEF EndQueued
      <4>3. OpenQueued(after, q, n, j - 1, i, b)
        BY <2>2, <4>1, <4>2, OpenReadOn DEF CountInv
      <4> QED BY <4>2, <4>3
    <3> QED BY <3>1 DEF EndQueued
  <2>4. \/ new.signal = s.signal
        \/ EndsPress(e) /\ new.signal = {e.press} /\ new.policy.release.by = d
    BY <1>1, <1>2, ReadSignals
  <2>5. new.policy.release \in {s.policy.release, [at |-> e.at, by |-> d]}
    BY <1>3 DEF TellsPress, Reported
  <2>6. CASE ToldIn(s, i)
    <3>1. CASE new.signal = s.signal
      BY <2>3, <2>6, <3>1 DEF ToldIn
    <3>2. CASE EndsPress(e) /\ new.signal = {e.press} /\ new.policy.release.by = d
      <4>1. CASE IsEnd(e, i)
        BY <2>3, <3>2, <4>1 DEF ToldIn, IsEnd
      <4>2. CASE ~IsEnd(e, i)
        <5>1. WaitsRead(d, n, d, i)
          BY <1>1, <2>2, <3>2, <4>2 DEF EndsLast, WaitsRead
        <5> QED BY <1>1, <2>3, <3>2, <5>1 DEF WillRead
      <4> QED BY <4>1, <4>2
    <3> QED BY <2>4, <3>1, <3>2
  <2>7. CASE ~ToldIn(s, i) /\ ~EndsPress(e)
    <3>1. WillRead(d, n - 1, s.policy.release, i)
      BY <2>1, <2>7
    <3>2. new.policy.release = s.policy.release
      BY <1>3, <2>7 DEF TellsPress, EndsPress
    <3>3. ToTell(q, n - 1, l, i) => ToTell(q, n, l, i)
      <4>1. ASSUME NEW j \in DOMAIN q, j > n - 1, IsEnd(q[j], i) PROVE j > n
        <5>1. j # n
          BY <1>1, <2>7, <4>1 DEF IsEnd
        <5> QED BY <1>1, <4>1, <5>1
      <4> QED BY <4>1 DEF ToTell
    <3>4. \A x : WaitsRead(d, n - 1, x, i) => WaitsRead(d, n, x, i)
      BY <3>3 DEF WaitsRead
    <3>5. WillRead(d, n, new.policy.release, i)
      BY <3>1, <3>2, <3>4 DEF WillRead
    <3> QED BY <2>3, <3>5
  <2>8. CASE ~ToldIn(s, i) /\ EndsPress(e) /\ ~IsEnd(e, i)
    <3>1. WillRead(d, n - 1, s.policy.release, i)
      BY <2>1, <2>8
    <3>2. WaitsRead(d, n, d, i)
      <4>1. ToTell(q, n, l, i)
        BY <1>1, <2>2, <2>8 DEF EndsLast
      <4> QED BY <4>1 DEF WaitsRead
    <3>3. \A x : WaitsRead(d, n - 1, x, i) => WaitsRead(d, n, x, i)
      BY <3>2 DEF WaitsRead
    <3>4. WillRead(d, n, new.policy.release, i)
      BY <1>1, <2>5, <3>1, <3>2, <3>3 DEF WillRead
    <3> QED BY <2>3, <3>4
  <2>9. CASE ~ToldIn(s, i) /\ IsEnd(e, i)
    <3>1. WillRead(d, n - 1, s.policy.release, i)
      BY <2>1, <2>9
    <3>2. e.code = Guide /\ e.value = 0 /\ e.press = i /\ e \in KeyEvent
      <4>1. Guide # Lost
        BY LostIsNoInput DEF Inputs
      <4> QED BY <1>1, <2>9, <4>1 DEF IsEnd, EndsPress
    <3>3. Counting(st, b) /\ e.at - b < HoldMs
      <4>1. n > n - 1 /\ n \in DOMAIN q /\ ~(n - 1 > n - 1)
        BY <1>1
      <4>2. OpenQueued(st, q, n - 1, n - 1, i, b) /\ e.at - b < HoldMs
        BY <1>1, <2>1, <2>9, <4>1 DEF EndQueued
      <4> QED BY <4>1, <4>2 DEF OpenQueued
    <3>4. CASE Mirrors(s.policy.release, d, e.at)
      <4>1. s.policy.release.by \in Devices /\ s.policy.release.by # d
        BY <1>2, <3>4 DEF Named, Mirrors
      <4>2. new.policy.release = s.policy.release
        BY <1>3, <3>4 DEF TellsPress, Reported
      <4>3. WaitsRead(d, n - 1, s.policy.release.by, i)
        BY <3>1, <4>1 DEF WillRead
      <4>4. WaitsRead(d, n, s.policy.release.by, i)
        BY <4>1, <4>3 DEF WaitsRead
      <4>5. WillRead(d, n, new.policy.release, i)
        BY <4>1, <4>2, <4>4 DEF WillRead
      <4> QED BY <2>3, <4>5
    <3>5. CASE ~Mirrors(s.policy.release, d, e.at)
      <4>1. st.heldSince >= b /\ ~st.held /\ ~st.chord
        BY <3>3 DEF Counting
      <4>2. st.heldSince \in Int /\ e.at \in Nat
        <5>1. st \in DeviceRecord
          BY <1>1 DEF PolicyRecord
        <5> QED BY <3>2, <5>1 DEF DeviceRecord, KeyEvent
      <4>3. st.heldSince >= 0 /\ e.at - st.heldSince <= MaxHoldMs
        <5>1. HoldMs \in Nat /\ MaxHoldMs \in Nat /\ HoldMs < MaxHoldMs
          BY TimesAssumption
        <5> QED BY <2>2, <3>3, <4>1, <4>2, <5>1
      <4>4. ReadEvent(d, s, e).signal = {e.press}
        BY <1>1, <3>2, <3>5, <4>1, <4>3, ReadCounts
      <4>5. ToldIn(new, i)
        BY <1>2, <3>2, <4>4 DEF ToldIn
      <4> QED BY <2>3, <4>5
    <3> QED BY <3>4, <3>5
  <2> QED BY <2>6, <2>7, <2>8, <2>9 DEF IsEnd
<1> QED BY <1>4 DEF StakesRead

\* All of it, after one more event.
LEMMA ReadOn ==
  ASSUME CountInv, NEW d, NEW n, NEW s, NEW e, NEW new, IsRead(d, n, s, e, new)
  PROVE  CountReads(d, n, new)
<1>0. ListenInv
  BY DEF CountInv
<1>1. /\ n \in Nat /\ n <= Len(node[d].queue) /\ Len(node[d].queue) \in Nat /\ e \in QueueEvent /\ d \in Devices
      /\ d \in policy.open
  BY <1>0, IsReadFacts
<1>2. ReadTypes(d, s) /\ new = ReadEvent(d, s, e) /\ OpensRead(d, n - 1, s.policy.device[d]) /\ Named(s.policy.release)
  BY DEF IsRead, CountReads
<1>3. ReadTypes(d, new) /\ Tells(d, s, e, new)
  BY <1>0, <1>1, <1>2, ReadKeeps
<1>4. OpensRead(d, n, new.policy.device[d])
  <2>1. ASSUME NEW i, NEW b \in Nat, policy.device[d].armedAt <= b,
               OpenQueued(policy.device[d], node[d].queue, 0, Len(node[d].queue), i, b)
        PROVE  OpenQueued(new.policy.device[d], node[d].queue, n, Len(node[d].queue), i, b)
    <3>1. OpenQueued(s.policy.device[d], node[d].queue, n - 1, Len(node[d].queue), i, b)
      BY <1>2, <2>1 DEF OpensRead
    <3> QED BY <1>0, <1>1, <2>1, <3>1, OpenReadOn
  <2> QED BY <2>1 DEF OpensRead
<1>5. Named(new.policy.release)
  <2>1. new.policy.release = s.policy.release \/ new.policy.release = Reported(s.policy.release, d, e.at)
    BY <1>3 DEF Tells, TellsPress
  <2> QED BY <1>1, <1>2, <2>1, NamedOn
<1>6. KeysRead(d, n, new.policy.device[d]) /\ StakesRead(d, n, new)
  BY <1>0, KeysReadOn, StakesReadOn
<1> QED BY <1>3, <1>4, <1>5, <1>6 DEF CountReads

\* Before the first.
LEMMA ReadBegun ==
  ASSUME CountInv, NEW d \in Devices, Current(d), NEW s, ReadTypes(d, s), s.policy = policy
  PROVE  CountReads(d, 0, s)
<1>1. policy.device[d].keysDown \subseteq Buttons /\ Known(policy.device[d], node[d])
  BY DEF CountInv, Sound, Honest
<1>2. KeysRead(d, 0, policy.device[d])
  BY <1>1 DEF KeysRead, Known
<1>3. OpensRead(d, 0, policy.device[d]) /\ Named(policy.release)
  BY DEF OpensRead, Named, CountInv, ReleasedBy
<1>4. ASSUME NEW i, NEW b, AtStake(i, b)
      PROVE  EndQueued(policy.device[d], node[d].queue, 0, i, b) /\ WillRead(d, 0, policy.release, i)
  <2>1. EndQueued(policy.device[d], node[d].queue, 0, i, b) /\ WillCount(i)
    BY <1>4 DEF AtStake, EndsOn
  <2>2. \A x : WaitsFor(x, i) => WaitsRead(d, 0, x, i)
    BY DEF WaitsFor, WaitsRead
  <2> QED BY <2>1, <2>2 DEF WillCount, WillRead
<1>5. StakesRead(d, 0, s)
  BY <1>4 DEF StakesRead
<1> QED BY <1>2, <1>3, <1>5 DEF CountReads

\* After the last.
LEMMA ReadDone ==
  ASSUME CountInv, NEW d \in Devices, d \in policy.open, NEW start, CountReads(d, 0, start)
  PROVE  CountReads(d, Len(node[d].queue), Drained(d, start, node[d].queue))
<1> DEFINE q == node[d].queue
           k == Len(q)
<1>0. q \in Seq(QueueEvent) /\ k \in Nat /\ DOMAIN q = 1 .. k
  <2>1. node[d] \in NodeRecord
    BY DEF CountInv, ListenInv, ListenTypes
  <2>2. q \in Seq(QueueEvent)
    BY <2>1 DEF NodeRecord
  <2> HIDE DEF q
  <2> QED BY <2>2
<1> HIDE DEF q
<1>1. \E f : /\ Drained(d, start, q) = f[Len(q)] /\ f[0] = start
             /\ \A n \in 1 .. Len(q) : f[n] = ReadEvent(d, f[n - 1], q[n])
  <2>1. q \in Seq(QueueEvent)
    BY <1>0
  <2> QED BY <2>1, DrainedUnfold, SMTT(30)
<1>2. PICK f : /\ Drained(d, start, q) = f[k] /\ f[0] = start
               /\ \A n \in 1 .. k : f[n] = ReadEvent(d, f[n - 1], q[n])
  BY <1>1, Zenon
<1> DEFINE ReadUpTo(i) == CountReads(d, i, f[i])
           Bad == {i \in 0 .. k : ~ReadUpTo(i)}
<1> HIDE DEF k
<1>3. ReadUpTo(0)
  BY <1>2
<1>4. ASSUME NEW i \in 1 .. k, ReadUpTo(i - 1) PROVE ReadUpTo(i)
  <2>1. f[i] = ReadEvent(d, f[i - 1], q[i])
    BY <1>2
  <2>2. IsRead(d, i, f[i - 1], q[i], f[i])
    BY <1>0, <1>4, <2>1 DEF IsRead, q
  <2> QED BY <2>2, ReadOn
<1> HIDE DEF ReadUpTo
<1>5. Bad = {}
  <2> SUFFICES ASSUME Bad # {} PROVE FALSE
    OBVIOUS
  <2>1. Bad \in SUBSET Nat
    BY <1>0
  <2> HIDE DEF Bad
  <2>2. PICK n \in Bad : \A o \in Bad : n <= o
    BY <2>1, LeastNatural
  <2>3. n \in 0 .. k /\ ~ReadUpTo(n)
    BY <2>2 DEF Bad
  <2>4. n \in 1 .. k /\ n - 1 \in 0 .. k
    BY <1>0, <1>3, <2>3
  <2>5. n - 1 \notin Bad
    BY <2>1, <2>2, <2>4
  <2>6. ReadUpTo(n - 1)
    BY <2>4, <2>5 DEF Bad
  <2> QED BY <1>4, <2>3, <2>4, <2>6
<1>6. ReadUpTo(k)
  <2>1. k \in 0 .. k
    BY <1>0
  <2> QED BY <1>5, <2>1 DEF Bad
<1> QED BY <1>2, <1>6 DEF ReadUpTo, q, k

\* A trigger that is pulled changes no key, and none is no change.
LEMMA WatchedKeys ==
  ASSUME NEW p \in PolicyRecord, NEW d \in Devices
  PROVE  LET new == Watched(p, d)
         IN  /\ new.device[d].keysDown = p.device[d].keysDown /\ new.device[d].armedAt = p.device[d].armedAt
             /\ node[d].down \subseteq {Guide} => new = p
<1> DEFINE new == Watched(p, d)
           st == p.device[d]
           after == [st EXCEPT !.chord = TRUE]
<1>1. new = p \/ new = [p EXCEPT !.device[d] = after]
  BY Zenon DEF Watched
<1>2. st \in DeviceRecord
  BY DEF PolicyRecord
<1>3. node[d].down \subseteq {Guide} => new = p
  <2>1. node[d].down \subseteq {Guide} => node[d].down \cap Triggers = {}
    BY InputsAssumption
  <2> QED BY <2>1 DEF Watched
<1> HIDE DEF new, st
<1>4. after.keysDown = st.keysDown /\ after.armedAt = st.armedAt
  BY <1>2 DEF DeviceRecord
<1> HIDE DEF after
<1>5. new.device[d].keysDown = p.device[d].keysDown /\ new.device[d].armedAt = p.device[d].armedAt
  <2>1. CASE new = [p EXCEPT !.device[d] = after]
    <3>1. new.device[d] = after
      BY <2>1 DEF PolicyRecord
    <3> QED BY <1>4, <3>1 DEF st
  <2>2. CASE new = p
    BY <2>2
  <2> QED BY <1>1, <2>1, <2>2
<1> QED BY <1>3, <1>5 DEF new

\* What the reading begins with.
LEMMA ReadFirst ==
  ASSUME ListenInv, NEW d \in Devices, NEW s, s = [Reading EXCEPT !.current = current[d]]
  PROVE  ReadTypes(d, s) /\ s.policy = policy
<1>1. /\ s.policy = policy /\ s.timers = timers /\ s.pressed = {} /\ s.captured = {} /\ s.current = current[d]
      /\ s = [policy |-> policy, timers |-> timers, pressed |-> {}, signal |-> {}, captured |-> {}, current |-> current[d]]
  BY DEF Reading
<1>2. policy \in PolicyRecord /\ timers \subseteq Timers
  BY DEF ListenInv, ListenTypes
<1> QED BY <1>1, <1>2 DEF ReadTypes, ReadingRecord

\* read(): a press that is at stake counts, or waits for another node.
LEMMA CountRead ==
  ASSUME CountInv, NEW d \in Devices, Read(d)
  PROVE  CountInv'
<1> DEFINE start == [Reading EXCEPT !.current = current[d]]
           q == node[d].queue
           k == Len(q)
           s == Drained(d, start, q)
           p == s.policy
           new == Watched(p, d)
           watches == Holding(p, d)
           after == [node[d] EXCEPT !.queue = <<>>]
           presses == out.presses \cup s.pressed
           signals == out.signals \cup s.signal
           captures == out.captures \cup s.captured
<1>1. /\ table[d].gen > 0 /\ Current(d)
      /\ policy' = new
      /\ table' = [table EXCEPT ![d] = [gen |-> table[d].gen, triggers |-> watches]]
      /\ out' = [out EXCEPT !.presses = presses, !.signals = signals, !.captures = captures]
      /\ node' = [node EXCEPT ![d] = after]
      /\ UNCHANGED <<now, pad, lagging>>
  BY Zenon DEF Read
<1>2. /\ ListenInv /\ ListenInv' /\ policy \in PolicyRecord /\ node \in [Devices -> NodeRecord]
      /\ table \in [Devices -> [gen : Nat, triggers : BOOLEAN]]
      /\ out \in [presses : {out.presses}, signals : {out.signals}, holds : {out.holds},
                  captures : {out.captures}, early : {out.early}]
      /\ d \in policy.open
  BY <1>1, ListenRead DEF CountInv, ListenInv, ListenTypes, Tabled
<1>3. CountReads(d, k, s)
  <2>1. ReadTypes(d, start) /\ start.policy = policy
    BY <1>2, ReadFirst
  <2> HIDE DEF start
  <2>2. CountReads(d, 0, start)
    BY <1>1, <2>1, ReadBegun
  <2> QED BY <1>2, <2>2, ReadDone
<1>4. q \in Seq(QueueEvent) /\ k \in Nat /\ DOMAIN q = 1 .. k
  <2>1. q \in Seq(QueueEvent)
    BY <1>2 DEF NodeRecord
  <2> HIDE DEF q
  <2> QED BY <2>1
<1>5. after.queue = <<>> /\ after.down = node[d].down /\ after.there = node[d].there /\ after.gen = node[d].gen
  <2>1. node[d] \in NodeRecord
    BY <1>2
  <2> QED BY <2>1 DEF NodeRecord
<1> HIDE DEF start, q, k, s, after, watches
<1>6. p \in PolicyRecord /\ \A x \in Devices \ {d} : p.device[x] = policy.device[x]
  BY <1>3 DEF CountReads, ReadTypes, ReadingRecord
<1>7. /\ KeysRead(d, k, p.device[d]) /\ OpensRead(d, k, p.device[d]) /\ Named(p.release) /\ StakesRead(d, k, s)
  BY <1>3 DEF CountReads
<1> HIDE DEF p
<1>8. /\ new.release = p.release
      /\ \A x \in Devices \ {d} : new.device[x] = p.device[x]
      /\ new.device[d].keysDown = p.device[d].keysDown /\ new.device[d].armedAt = p.device[d].armedAt
      /\ node[d].down \subseteq {Guide} => new = p
  BY <1>6, WatchedReports, WatchedKeys
<1> HIDE DEF new, presses, signals, captures
<1>9. out'.signals = signals /\ out'.holds = out.holds /\ out'.early = out.early
  BY <1>1, <1>2
<1>10. node'[d] = after /\ \A x \in Devices \ {d} : node'[x] = node[x]
  BY <1>1, <1>2
<1>11. \A x \in Devices : table'[x].gen = table[x].gen
  BY <1>1, <1>2
<1>12. \A x \in Devices : (Current(x)' <=> Current(x)) /\ Owes(x)' = Owes(x)
  BY <1>1, <1>5, <1>10, <1>11 DEF Current, Owes
<1>13. /\ policy'.release = p.release /\ policy'.device[d] = new.device[d]
       /\ \A x \in Devices \ {d} : policy'.device[x] = policy.device[x]
  BY <1>1, <1>6, <1>8
<1>14. /\ new.device[d].armedAt = policy.device[d].armedAt /\ new.device[d].keysDown \subseteq Buttons
       /\ \A c \in Buttons : StaysDown(c, new.device[d].keysDown, q, k, k) => c \in node[d].down
  BY <1>7, <1>8 DEF KeysRead, q, k
<1>15. ASSUME NEW x \in Devices PROVE Sound(x)'
  <2>1. CASE x # d
    <3>1. Honest(policy.device[x], node[x], Current(x))
      BY DEF CountInv, Sound
    <3>2. Honest(policy.device[x], node[x], Current(x)')
      BY <1>12, <3>1, HonestWhen
    <3>3. policy'.device[x] = policy.device[x] /\ node'[x] = node[x]
      BY <1>10, <1>13, <2>1
    <3> QED BY <1>1, <3>2, <3>3, SoundTable
  <2>2. CASE x = d
    <3>1. ASSUME NEW c \in Buttons, StaysDown(c, new.device[d].keysDown, <<>>, 0, Len(<<>>)) PROVE c \in after.down
      <4>1. c \in new.device[d].keysDown
        BY <3>1, StaysSame
      <4>2. StaysDown(c, new.device[d].keysDown, q, k, k)
        BY <1>4, <4>1, StaysSame
      <4> QED BY <1>5, <1>14, <4>2
    <3>2. Known(new.device[d], after)
      BY <1>5, <3>1 DEF Known
    <3>3. Honest(new.device[d], after, Current(x)')
      BY <1>14, <3>2 DEF Honest
    <3>4. Honest(policy'.device[x], node'[x], Current(x)') /\ node'[x].down = node[x].down /\ node'[x].there = node[x].there
      BY <1>5, <1>10, <1>13, <2>2, <3>3
    <3> QED BY <1>1, <3>4, SoundTable
  <2> QED BY <2>1, <2>2
<1>16. Numbering' /\ ReleasedBy'
  <2>1. \A x \in Devices : node'[x].queue = node[x].queue \/ node'[x].queue = <<>>
    BY <1>5, <1>10
  <2>2. ReleasedBy'
    BY <1>7, <1>13 DEF Named, ReleasedBy
  <2> QED BY <1>1, <2>1, <2>2, NumberingSame
<1>17. ASSUME NEW b, Armed(b) PROVE Armed(b)'
  BY <1>12, <1>13, <1>14, <1>17 DEF Armed
<1>18. ASSUME NEW l, NEW y, NEW i, NEW b \in Nat, Armed(b), OpenOwed(policy.device[d], node[d], l, y, i, b)
       PROVE  OpenOwed(new.device[d], after, l, y, i, b)
  <2>1. CASE y > 0
    BY <1>5, <1>18, <2>1 DEF OpenOwed
  <2>2. CASE ~(y > 0)
    <3>1. node[d].down \subseteq {Guide} /\ OpenQueued(policy.device[d], q, 0, k, i, b)
      BY <1>18, <2>2 DEF OpenOwed, q, k
    <3>2. policy.device[d].armedAt <= b
      BY <1>18 DEF Armed
    <3>3. OpenQueued(p.device[d], q, k, k, i, b)
      BY <1>7, <3>1, <3>2 DEF OpensRead, q, k
    <3>4. ~(k > k)
      BY <1>4
    <3>5. Counting(new.device[d], b)
      BY <1>8, <3>1, <3>3, <3>4 DEF OpenQueued
    <3>6. Len(after.queue) = 0
      BY <1>5
    <3>7. OpenQueued(new.device[d], after.queue, 0, Len(after.queue), i, b)
      BY <3>5, <3>6 DEF OpenQueued
    <3> QED BY <1>5, <2>2, <3>1, <3>7 DEF OpenOwed
  <2> QED BY <2>1, <2>2
<1>19. MayCount /\ OnStake(pad.press[Guide], pad.since) => OnStake(pad.press[Guide], pad.since)'
  <2>1. SUFFICES ASSUME OnStake(pad.press[Guide], pad.since) PROVE OnStake(pad.press[Guide], pad.since)'
    OBVIOUS
  <2>2. Armed(pad.since) /\ pad.since \in Nat
    BY <2>1 DEF OnStake, CountInv, Numbering
  <2>3. ASSUME NEW x \in Devices
        PROVE  OpenOwed(policy'.device[x], node'[x], Owes(x), Len(Owes(x)), pad.press[Guide], pad.since)
    <3>1. OpenOwed(policy.device[x], node[x], Owes(x), Len(Owes(x)), pad.press[Guide], pad.since)
      BY <2>1 DEF OnStake
    <3>2. CASE x # d
      BY <1>10, <1>13, <3>1, <3>2
    <3>3. CASE x = d
      <4>1. OpenOwed(new.device[d], after, Owes(d), Len(Owes(d)), pad.press[Guide], pad.since)
        BY <1>18, <2>2, <3>1, <3>3
      <4> QED BY <1>10, <1>13, <3>3, <4>1
    <3> QED BY <3>2, <3>3
  <2>4. Armed(pad.since)'
    <3>1. PICK b : b = pad.since
      OBVIOUS
    <3>2. Armed(b)'
      BY <1>17, <2>2, <3>1
    <3> QED BY <1>1, <3>1, <3>2
  <2> QED BY <1>1, <1>12, <2>3, <2>4 DEF OnStake
<1>20. ASSUME NEW i, NEW b, AtStake(i, b), i \notin ToldPresses'
       PROVE  AtStake(i, b)'
  <2>1. b \in Nat /\ Armed(b) /\ \A x \in Devices : EndsOn(policy.device[x], node[x], Owes(x), i, b)
    BY <1>20 DEF AtStake
  <2>2. ~ToldIn(s, i)
    <3>1. s.signal \subseteq out'.signals
      BY <1>9 DEF signals
    <3> QED BY <1>20, <3>1 DEF ToldIn, ToldPresses
  <2>3. WillRead(d, k, p.release, i)
    BY <1>7, <1>20, <2>2 DEF StakesRead, p
  <2>4. ASSUME NEW x \in Devices PROVE EndsOn(policy'.device[x], node'[x], Owes(x), i, b)
    <3>1. CASE x # d
      BY <1>10, <1>13, <2>1, <3>1
    <3>2. CASE x = d
      <4>1. EndQueued(new.device[d], <<>>, 0, i, b)
        BY DEF EndQueued
      <4>2. EndOwed(policy.device[d], node[d], Owes(d), i, b) /\ EndsLast(node[d].queue, Owes(d), i)
        BY <2>1 DEF EndsOn
      <4>3. EndOwed(new.device[d], after, Owes(d), i, b)
        BY <1>18, <2>1, <4>2 DEF EndOwed
      <4>4. EndsLast(<<>>, Owes(d), i)
        BY <4>2 DEF EndsLast
      <4>5. EndsOn(new.device[d], after, Owes(d), i, b)
        BY <1>5, <4>1, <4>3, <4>4 DEF EndsOn
      <4> QED BY <1>10, <1>13, <3>2, <4>5
    <3> QED BY <3>1, <3>2
  <2>5. ASSUME NEW x \in Devices, WaitsRead(d, k, x, i) PROVE ToTell(node'[x].queue, 0, Owes(x)', i)
    <3>1. CASE x # d
      BY <1>10, <1>12, <2>5, <3>1 DEF WaitsRead, WaitsFor
    <3>2. CASE x = d
      <4>1. ToTell(q, k, Owes(d), i)
        BY <2>5, <3>2 DEF WaitsRead, q
      <4>2. OweEnd(Owes(d), i)
        BY <1>4, <4>1 DEF ToTell
      <4> QED BY <1>12, <3>2, <4>2 DEF ToTell
    <3> QED BY <3>1, <3>2
  <2>6. \A x \in Devices : WaitsRead(d, k, x, i) => WaitsFor(x, i)'
    BY <2>5 DEF WaitsFor
  <2>7. WillCount(i)'
    BY <1>13, <2>3, <2>6 DEF WillRead, WillCount
  <2>8. Armed(b)'
    BY <1>17, <2>1
  <2>9. \A x \in Devices : EndsOn(policy'.device[x], node'[x], Owes(x)', i, b)
    BY <1>12, <2>4
  <2> QED BY <2>1, <2>7, <2>8, <2>9 DEF AtStake
<1>21. Stakes'
  <2>1. ToldPresses \subseteq ToldPresses'
    BY <1>9 DEF ToldPresses, signals
  <2>2. MayCount' <=> MayCount
    BY <1>1 DEF MayCount
  <2>3. pad' = pad
    BY <1>1
  <2>4. CASE out.early
    BY <1>9, <2>4 DEF Stakes
  <2>5. CASE ~out.early
    <3>1. /\ MayCount => OnStake(pad.press[Guide], pad.since)
          /\ \A i \in pad.good \ ToldPresses : \E b : AtStake(i, b)
      BY <2>5 DEF CountInv, Stakes
    <3>2. \A i \in pad'.good \ ToldPresses' : \E b : AtStake(i, b)'
      BY <1>20, <2>1, <2>3, <3>1
    <3> QED BY <1>19, <2>2, <2>3, <3>1, <3>2 DEF Stakes
  <2> QED BY <2>4, <2>5
<1> QED BY <1>2, <1>15, <1>16, <1>21 DEF CountInv

\* A step of none of the variables.
LEMMA CountStutters ==
  ASSUME CountInv, UNCHANGED listenerVars
  PROVE  CountInv'
<1>1. UNCHANGED <<now, pad, lagging, node, table, policy, timers, out, current>> /\ ListenInv'
  BY ListenStep DEF CountInv, listenerVars
<1>2. \A x \in Devices : (Current(x)' <=> Current(x)) /\ Owes(x)' = Owes(x)
  BY <1>1 DEF Current, Owes
<1>3. ASSUME NEW x \in Devices PROVE Sound(x)'
  <2>1. Honest(policy.device[x], node[x], Current(x))
    BY DEF CountInv, Sound
  <2>2. Honest(policy.device[x], node[x], Current(x)')
    BY <1>2, <2>1, HonestWhen
  <2> QED BY <1>1, <2>2, SoundTable
<1>4. Numbering' /\ ReleasedBy'
  BY <1>1, NumberingSame DEF CountInv, ReleasedBy
<1>5. \A b : Armed(b)' <=> Armed(b)
  BY <1>1, <1>2 DEF Armed
<1>6. (MayCount' <=> MayCount) /\ ToldPresses' = ToldPresses
  BY <1>1 DEF MayCount, ToldPresses
<1>7. OnStake(pad.press[Guide], pad.since) => OnStake(pad.press[Guide], pad.since)'
  BY <1>1, <1>2, <1>5 DEF OnStake
<1>8. ASSUME NEW i, NEW b, AtStake(i, b) PROVE AtStake(i, b)'
  <2>1. Armed(b)' /\ \A x \in Devices : EndsOn(policy'.device[x], node'[x], Owes(x)', i, b)
    BY <1>1, <1>2, <1>5, <1>8 DEF AtStake
  <2>2. \A x \in Devices : WaitsFor(x, i) => ToTell(node'[x].queue, 0, Owes(x)', i)
    BY <1>1, <1>2 DEF WaitsFor
  <2>3. policy'.release.by = policy.release.by
    BY <1>1
  <2> QED BY <1>8, <2>1, <2>2, <2>3, StillAtStake
<1>9. Stakes'
  BY <1>1, <1>6, <1>7, <1>8 DEF CountInv, Stakes
<1> QED BY <1>1, <1>3, <1>4, <1>9 DEF CountInv

\* Every step of the player, the kernel and the listener.
LEMMA CountStep == CountInv /\ [ListenerNext]_listenerVars => CountInv'
<1> SUFFICES ASSUME CountInv, [ListenerNext]_listenerVars PROVE CountInv'
  OBVIOUS
<1>1. CASE UNCHANGED listenerVars
  BY <1>1, CountStutters
<1>2. CASE \E code \in Inputs : Input(code)
  BY <1>2, CountInput
<1>3. CASE \E d \in Mirrored : Repeat(d)
  BY <1>3, CountRepeat
<1>4. CASE \E d \in Devices : Unplug(d)
  BY <1>4, CountUnplug
<1>5. CASE \E d \in Devices : Plug(d)
  BY <1>5, CountPlug
<1>6. CASE \E d \in Devices : Read(d)
  BY <1>6, CountRead
<1>7. CASE \E d \in Devices : ReadGone(d)
  BY <1>7, CountReadGone
<1>8. CASE Rescan
  BY <1>8, CountRescan
<1>9. CASE \E t \in timers : Due(t)
  BY <1>9, CountDue
<1>10. CASE Tick
  BY <1>10, CountTick
<1> QED BY <1>1, <1>2, <1>3, <1>4, <1>5, <1>6, <1>7, <1>8, <1>9, <1>10 DEF ListenerNext

\* GuideListener loses no short press of Guide alone: when everything is
\* read, some node's report of it has counted and a signal was sent for it,
\* however quickly it followed another press and whichever node reported
\* that (GuidePress.h:14-17); unless Guide was pressed again and released
\* before every node had told of it, and the two may share a signal, or a
\* timer took for held a button whose release was not read yet
\* (GuideListener.cpp:229).
THEOREM ShortPressCountsHolds == ListenerSpec => []ShortPressCounts
<1>1. CountInv => ShortPressCounts
  <2> SUFFICES ASSUME CountInv, Settled, ~out.early, NEW i \in pad.good \ ToldPresses PROVE FALSE
    BY DEF ShortPressCounts
  <2>1. PICK b : AtStake(i, b)
    BY DEF CountInv, Stakes
  <2>2. PICK x \in Devices : WaitsFor(x, i)
    BY <2>1, ListenerAssumption DEF AtStake, WillCount
  <2>3. node[x].queue = <<>> /\ Owes(x) = <<>>
    BY DEF Settled, Owes
  <2> QED BY <2>2, <2>3 DEF WaitsFor, ToTell, OweEnd
<1> QED BY <1>1, CountInit, CountStep, PTL DEF ListenerSpec
===============================================================================
