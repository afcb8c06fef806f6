----------------------------- MODULE GuidePress -----------------------------
(***************************************************************************)
(* When a controller's Guide button counts as a press, as a hold, or as    *)
(* neither: guidebutton/GuidePress.  The policy is a value `p`; every      *)
(* operator here is one of the class's functions, from the policy and an   *)
(* input event to the next policy and what the function reports.           *)
(* Times are in ticks of the kernel's monotonic clock.                     *)
(***************************************************************************)
EXTENDS Integers, FiniteSets

CONSTANTS Devices,        \* the event nodes that may be open
          Guide,          \* kBtnMode
          Buttons,        \* the other keys of a controller
          Hats,           \* d-pad axes
          Triggers,       \* trigger axes, read while Guide is down
          CaptureButtons, \* the buttons that save a clip
          HoldMs, MaxHoldMs, ArmDelayMs, SameReleaseMs

ASSUME TimesAssumption ==
  /\ {HoldMs, MaxHoldMs, ArmDelayMs, SameReleaseMs} \subseteq Nat
  /\ HoldMs < MaxHoldMs
ASSUME InputsAssumption ==
  /\ CaptureButtons \subseteq Buttons
  /\ Guide \notin Buttons \cup Hats \cup Triggers
  /\ Buttons \cap (Hats \cup Triggers) = {}
  /\ IsFiniteSet(Buttons \cup Hats \cup Triggers)

Never == -1
NoDevice == "no device"

(* State of one device, and the mirror windows shared by all of them.      *)
Unwatched == [armedAt |-> Never, heldSince |-> Never, chord |-> FALSE, held |-> FALSE, keysDown |-> {}]
NoReport == [at |-> Never, by |-> NoDevice]
NoPolicy == [device |-> [d \in Devices |-> Unwatched], open |-> {},
             release |-> NoReport, hold |-> NoReport, capture |-> NoReport]

Opened(p, d, now, down) ==
  [p EXCEPT !.open = @ \cup {d},
            !.device[d] = [Unwatched EXCEPT !.armedAt = now + ArmDelayMs, !.keysDown = down \ {Guide}]]

Closed(p, d) == [p EXCEPT !.open = @ \ {d}, !.device[d] = Unwatched]

(* Whatever the device was doing is forgotten; `held` is left alone.       *)
Dropped(p, d) ==
  IF d \notin p.open THEN p
  ELSE [p EXCEPT !.device[d] = [p.device[d] EXCEPT !.heldSince = Never, !.chord = FALSE, !.keysDown = {}]]

(* The same press, told again by another device.                           *)
Mirrors(report, d, now) ==
  /\ report.at >= 0
  /\ d /= report.by
  /\ now - report.at < SameReleaseMs

ReportedAlways(report, d, now) == [at |-> now, by |-> d]  \* mutant
Reported(report, d, now) == IF Mirrors(report, d, now) THEN report ELSE [at |-> now, by |-> d]

Holding(p, d) == d \in p.open /\ p.device[d].heldSince >= 0 /\ ~p.device[d].chord

HoldDue(p, d, now) == Holding(p, d) /\ ~p.device[d].held /\ now - p.device[d].heldSince >= HoldMs

HoldForgets(p, d, now) ==  \* mutant
  [policy |-> [p EXCEPT !.device[d].held = @ \/ HoldDue(p, d, now)],
   yes |-> HoldDue(p, d, now) /\ ~Mirrors(p.hold, d, now)]

(* hold(): the next policy, and whether the hold is reported.              *)
Hold(p, d, now) ==
  IF ~HoldDue(p, d, now) THEN [policy |-> p, yes |-> FALSE]
  ELSE [policy |-> [p EXCEPT !.device[d] = [p.device[d] EXCEPT !.held = TRUE], !.hold = Reported(@, d, now)],
        yes |-> ~Mirrors(p.hold, d, now)]

(* capture(): a capture button going down.                                 *)
CaptureDue(p, d, e) ==
  d \in p.open /\ e.value = 1 /\ e.code \in CaptureButtons /\ e.at >= p.device[d].armedAt

Capture(p, d, e) ==
  IF ~CaptureDue(p, d, e) THEN [policy |-> p, yes |-> FALSE]
  ELSE [policy |-> [p EXCEPT !.capture = Reported(@, d, e.at)], yes |-> ~Mirrors(p.capture, d, e.at)]

(* The Guide button goes down: not counted before the device is armed, and *)
(* the second half of a chord when another key is already down.            *)
GuideDown(p, d, at) ==
  LET state == p.device[d]
  IN  [p EXCEPT !.device[d] = [state EXCEPT !.heldSince = IF at >= state.armedAt THEN at ELSE Never,
                                            !.chord = state.keysDown /= {}, !.held = FALSE]]

CountsLong(p, d, at) ==  \* mutant
  ~p.device[d].held /\ ~p.device[d].chord /\ ~Mirrors(p.release, d, at)

Counts(p, d, at) ==
  LET state == p.device[d]
  IN  /\ at - state.heldSince <= MaxHoldMs
      /\ ~state.held
      /\ ~state.chord
      /\ ~Mirrors(p.release, d, at)

GuideUp(p, d, at) ==
  [p EXCEPT !.device[d] = [p.device[d] EXCEPT !.heldSince = Never, !.chord = FALSE, !.held = FALSE],
            !.release = Reported(@, d, at)]

(* Any other input.  A key that is down is remembered; a d-pad direction   *)
(* or a trigger counts only at the moment it is reported.                  *)
Other(p, d, e) ==
  LET state == p.device[d]
      keys == state.keysDown
  IN  [p EXCEPT !.device[d] = [state EXCEPT !.keysDown = IF e.code \notin Buttons THEN keys
                                                         ELSE IF e.value = 1 THEN keys \cup {e.code}
                                                         ELSE keys \ {e.code},
                                            !.chord = @ \/ (e.value = 1 /\ state.heldSince >= 0)]]

(* event(): the next policy, and whether the event completes a press.      *)
Event(p, d, e) ==
  IF d \notin p.open THEN [policy |-> p, yes |-> FALSE]
  ELSE IF e.code /= Guide THEN [policy |-> Other(p, d, e), yes |-> FALSE]
  ELSE IF e.value = 1 THEN [policy |-> GuideDown(p, d, e.at), yes |-> FALSE]
  ELSE IF p.device[d].heldSince < 0 THEN [policy |-> p, yes |-> FALSE]
  ELSE [policy |-> GuideUp(p, d, e.at), yes |-> Counts(p, d, e.at)]
=============================================================================
