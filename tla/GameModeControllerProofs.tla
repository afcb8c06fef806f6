--------------------- MODULE GameModeControllerProofs ---------------------
\* What follows for the properties of Game Mode's controller. Orderly and
\* Moved say what an end of a session in which nothing failed has done;
\* Audible what the records know of the games and their sounds; Hushed
\* which games are muted at each step.
EXTENDS GameModeControllerSteps

\* The operations that end a session.
Ends == {"Exit", "Recover"}

\* As long as nothing failed in it, an exit or a recovery at the start has
\* put back all that it came to.
Orderly ==
  ctl.op \in Ends /\ left.clean /\ ~At("idle") =>
    /\ ctl.at \in RestoreLabels => ctl.complete
    /\ At("disable") => st.output \in desk.plugged
    /\ ctl.at \in RestoreTops \cup UnmuteTops \cup {"exited"} => ctl.ok
    /\ At("expose") \/ Under({"settled", "exitRestored"}) => ctl.desktop
    /\ ctl.at \in {"unmuteNext", "unmuted"} => ctl.audio
    /\ ctl.at \notin {"no", "unsettled"}
\* Such an operation leaves neither a session nor a record, if nothing
\* failed in it.
EndsClean ==
  ctl'.at = "idle" /\ ctl.at # "idle" /\ ctl.op \in Ends /\ left'.clean /\ left'.kills = left.kills
  => session' = "none" /\ disk' = NoRecord

\* The games' windows before the display is turned off.
Moved ==
  /\ Stage \in {"focus", "sink", "output", "disable"} /\ ~ctl.retained /\ left.clean => desk.inside = {}
  /\ At("disable") /\ ctl.retained /\ st.games # {} => desk.at # st.output
\* A display is turned off with no game's window on it, if nothing failed.
Strandless ==
  desk.at \in desk.on /\ desk'.at \notin desk'.on /\ st.games \cap desk.inside # {}
  => ~ctl.retained /\ ~left.clean

\* What these operations never come to, nor wait for.
LEMMA EndLabels ==
  ASSUME Typed, ~At("idle"), ctl.op \in Ends
  PROVE  /\ ctl.at \notin MuteLabels \cup EnterLabels \cup ParkLabels \cup RefreshLabels \cup ResumeLabels \cup {"entered"}
         /\ Top \notin MuteTops \cup {"no", "resume", "entered", "parkRolledBack"}
<1>1. Serves(ctl.at, ctl.op) /\ (Top # "idle" => Waits(Top, ctl.op))
  BY Running
<1> QED BY <1>1 DEF Serves, Waits, Ends, MuteLabels, EnterLabels, ParkLabels, RefreshLabels, ResumeLabels, MuteTops

\* Of the other operations nothing is said.
LEMMA OtherOrderly ==
  ASSUME ctl'.op = ctl.op, ctl.op \notin Ends
  PROVE  Orderly' /\ EndsClean
BY DEF Orderly, EndsClean

\* Nor of a step that leaves the displays where it does not turn one off.
LEMMA Standing ==
  ASSUME desk'.on = desk.on, desk'.at = desk.at, ctl'.at \notin {"record", "focus", "sink", "output", "disable"}
  PROVE  Moved' /\ Strandless
BY DEF Moved, Strandless, Stage, At

\* Each step of the controller keeps what is said of those that end a
\* session.
LEMMA RestoresEnding ==
  ASSUME Typed, OnDisk, Orderly, Moved, Restores
  PROVE  Orderly' /\ EndsClean /\ Moved' /\ Strandless
<1>1. CASE RecordUndone
  <2>1. Orderly' /\ EndsClean
    BY <1>1, RecordUndoneDoes, NextStage, EndLabels, Waiting, Booleans, Callers
       DEF At, CtlBut, Goes, Lacks, Orderly, EndsClean, Under, RestoreLabels, RestoreTops, UnmuteTops, Failed, Stages
  <2>2. Moved' /\ Strandless
    BY <1>1, RecordUndoneDoes, Booleans, NextStage
       DEF At, CtlBut, Goes, Lacks, Moved, Strandless, Stage, Failed, StBut, Stages
  <2> QED BY <2>1, <2>2
<1>2. CASE RestoreQuiet
  <2>1. Orderly' /\ EndsClean
    BY <1>2, RestoreQuietDoes, EndLabels, Waiting, Booleans, Callers
       DEF At, CtlBut, Goes, Lacks, Registers, Orderly, EndsClean, Under, RestoreLabels, RestoreTops, UnmuteTops, MuteTops, LowTops, FinishTops, Failed
  <2>2. Moved' /\ Strandless
    BY <1>2, RestoreQuietDoes, Booleans
       DEF At, CtlBut, Goes, Lacks, Registers, DeskBut, Moved, Strandless, Stage, Failed, StBut
  <2> QED BY <2>1, <2>2
<1>3. CASE RestoreWindow
  <2>1. Orderly' /\ EndsClean
    BY <1>3, RestoreWindowDoes, EndLabels, Waiting, Booleans, Callers
       DEF At, CtlBut, Goes, Orderly, EndsClean, Under, RestoreLabels, RestoreTops, UnmuteTops, MuteTops, LowTops, FinishTops, Failed
  <2>2. Moved' /\ Strandless
    BY <1>3, RestoreWindowDoes, Booleans
       DEF At, CtlBut, Goes, DeskBut, Moved, Strandless, Stage, Failed, StBut
  <2> QED BY <2>1, <2>2
<1>4. CASE RestoreLeftover
  <2>1. Orderly' /\ EndsClean
    BY <1>4, RestoreLeftoverDoes, EndLabels, Waiting, Booleans, Callers
       DEF At, CtlBut, Goes, Lacks, Orderly, EndsClean, Under, RestoreLabels, RestoreTops, UnmuteTops, MuteTops, LowTops, FinishTops, Failed
  <2>2. Moved' /\ Strandless
    BY <1>4, RestoreLeftoverDoes, Booleans
       DEF At, CtlBut, Goes, Lacks, DeskBut, Moved, Strandless, Stage, Failed, StBut
  <2> QED BY <2>1, <2>2
<1>5. CASE RestoreFocus
  <2>1. Orderly' /\ EndsClean
    BY <1>5, RestoreFocusDoes, EndLabels, Waiting, Booleans, Callers
       DEF At, CtlBut, Goes, Lacks, Registers, Orderly, EndsClean, Under, RestoreLabels, RestoreTops, UnmuteTops, MuteTops, LowTops, FinishTops, Failed
  <2>2. Moved' /\ Strandless
    BY <1>5, RestoreFocusDoes, Booleans
       DEF At, CtlBut, Goes, Lacks, Registers, Moved, Strandless, Stage, Failed, StBut
  <2> QED BY <2>1, <2>2
<1>6. CASE RestoreSink
  <2>1. Orderly' /\ EndsClean
    BY <1>6, RestoreSinkDoes, EndLabels, Waiting, Booleans, Callers
       DEF At, CtlBut, Goes, Lacks, Registers, Orderly, EndsClean, Under, RestoreLabels, RestoreTops, UnmuteTops, MuteTops, LowTops, FinishTops, Failed
  <2>2. Moved' /\ Strandless
    BY <1>6, RestoreSinkDoes, Booleans
       DEF At, CtlBut, Goes, Lacks, Registers, DeskBut, Moved, Strandless, Stage, Failed, StBut
  <2> QED BY <2>1, <2>2
<1>7. CASE RestoreOutput
  <2>1. Orderly' /\ EndsClean
    <3>1. ~(st.lit /\ desk.on \ {st.output} = {})
      <4>1. Home \in desk.on /\ Home \in was.on /\ Sound(st)
        BY <1>7, RestoreOutputDoes DEF OnDisk, Desktop, Memory, Live, At
      <4> QED BY <4>1 DEF Sound
    <3> QED
      BY <1>7, <3>1, RestoreOutputDoes, EndLabels, Waiting, Booleans, Callers
         DEF At, CtlBut, Goes, Lacks, Registers, DeskBut, Orderly, EndsClean, Under, RestoreLabels, RestoreTops, UnmuteTops,
             Failed, Unplugged
  <2>2. Moved' /\ Strandless
    <3>1. CASE desk' = desk
      BY <1>7, <3>1, RestoreOutputDoes, Booleans
         DEF At, CtlBut, Goes, Lacks, Registers, StBut, Moved, Strandless, Stage, Failed, MustMove
    <3>2. CASE desk' # desk
      <4>1. PICK o \in desk.on \ {st.output} :
              /\ desk'.at = o /\ DeskBut({"at"}) /\ Goes("disable") /\ MustMove /\ UNCHANGED <<st, left>>
        BY <1>7, <3>2, RestoreOutputDoes
      <4> QED BY <4>1 DEF DeskBut, Goes, CtlBut, MustMove, Moved, Strandless, Stage, At
    <3> QED BY <3>1, <3>2
  <2> QED BY <2>1, <2>2
<1>8. CASE RestoreDisable
  <2>1. Orderly' /\ EndsClean
    BY <1>8, RestoreDisableDoes, EndLabels, Waiting, Booleans, Callers
       DEF At, CtlBut, Lacks, Registers, Orderly, EndsClean, Under, RestoreLabels, RestoreTops, UnmuteTops, MuteTops, LowTops, FinishTops, Failed
  <2>2. Moved' /\ Strandless
    BY <1>8, RestoreDisableDoes, Booleans
       DEF At, CtlBut, Lacks, Registers, DeskBut, Moved, Strandless, Stage, Failed, StBut
  <2> QED BY <2>1, <2>2
<1>9. CASE RestoreDone
  <2>1. Orderly' /\ EndsClean
    BY <1>9, RestoreDoneCases, EndLabels, Waiting, Booleans, Callers
       DEF At, CtlBut, Passes, Orderly, EndsClean, Under, RestoreLabels, RestoreTops, UnmuteTops, MuteTops, LowTops, FinishTops, Failed
  <2>2. Moved' /\ Strandless
    BY <1>9, RestoreDoneCases, Standing, Callers
       DEF At, CtlBut, Passes, RestoreLabels
  <2> QED BY <2>1, <2>2
<1> QED BY <1>1, <1>2, <1>3, <1>4, <1>5, <1>6, <1>7, <1>8, <1>9 DEF Restores

LEMMA MutesEnding ==
  ASSUME Typed, OnDisk, Orderly, Moved, Mutes
  PROVE  Orderly' /\ EndsClean /\ Moved' /\ Strandless
<1>1. CASE MuteGames
  <2>1. Orderly' /\ EndsClean
    BY <1>1, MuteGamesDoes, EndLabels, OtherOrderly
       DEF At, CtlBut, Goes, MuteLabels
  <2>2. Moved' /\ Strandless
    BY <1>1, MuteGamesDoes, Standing
       DEF At, CtlBut, Goes
  <2> QED BY <2>1, <2>2
<1>2. CASE MuteRecord
  <2>1. Orderly' /\ EndsClean
    BY <1>2, MuteRecordDoes, EndLabels, OtherOrderly
       DEF At, CtlBut, Goes, MuteLabels
  <2>2. Moved' /\ Strandless
    BY <1>2, MuteRecordDoes, Standing
       DEF At, CtlBut, Goes
  <2> QED BY <2>1, <2>2
<1>3. CASE MuteOne
  <2>1. Orderly' /\ EndsClean
    BY <1>3, MuteOneDoes, EndLabels, OtherOrderly
       DEF At, CtlBut, Goes, MuteLabels
  <2>2. Moved' /\ Strandless
    BY <1>3, MuteOneDoes, Standing
       DEF At, CtlBut, Goes, DeskBut
  <2> QED BY <2>1, <2>2
<1>4. CASE UnmuteGames
  <2>1. Orderly' /\ EndsClean
    BY <1>4, UnmuteGamesDoes, EndLabels, Waiting, Booleans, Callers
       DEF At, CtlBut, Goes, Orderly, EndsClean, Under, RestoreLabels, RestoreTops, UnmuteTops, MuteTops, LowTops, FinishTops, Failed, UnmuteLabels
  <2>2. Moved' /\ Strandless
    BY <1>4, UnmuteGamesDoes, Standing
       DEF At, CtlBut, Goes
  <2> QED BY <2>1, <2>2
<1>5. CASE UnmuteOne
  <2>1. Orderly' /\ EndsClean
    BY <1>5, UnmuteOneDoes, EndLabels, Waiting, Booleans, Callers
       DEF At, CtlBut, Goes, Orderly, EndsClean, Under, RestoreLabels, RestoreTops, UnmuteTops, MuteTops, LowTops, FinishTops, Failed, UnmuteLabels
  <2>2. Moved' /\ Strandless
    BY <1>5, UnmuteOneDoes, Standing
       DEF At, CtlBut, Goes, DeskBut
  <2> QED BY <2>1, <2>2
<1>6. CASE UnmuteRecord
  <2>1. Orderly' /\ EndsClean
    BY <1>6, UnmuteRecordDoes, EndLabels, Waiting, Booleans, Callers
       DEF At, CtlBut, Orderly, EndsClean, Under, RestoreLabels, RestoreTops, UnmuteTops, MuteTops, LowTops, FinishTops, Failed, UnmuteLabels
  <2>2. Moved' /\ Strandless
    BY <1>6, UnmuteRecordDoes, Standing
       DEF At, CtlBut
  <2> QED BY <2>1, <2>2
<1> QED BY <1>1, <1>2, <1>3, <1>4, <1>5, <1>6 DEF Mutes

LEMMA SettlesEnding ==
  ASSUME Typed, OnDisk, Orderly, Moved, Settles
  PROVE  Orderly' /\ EndsClean /\ Moved' /\ Strandless
<1>1. CASE Settle
  <2>1. Orderly' /\ EndsClean
    BY <1>1, SettleDoes, EndLabels, Waiting, Booleans, Callers
       DEF At, CtlBut, Orderly, EndsClean, Under, RestoreLabels, RestoreTops, UnmuteTops, MuteTops, LowTops, FinishTops, Failed, SettleLabels
  <2>2. Moved' /\ Strandless
    BY <1>1, SettleDoes, Standing
       DEF At, CtlBut
  <2> QED BY <2>1, <2>2
<1>2. CASE Expose
  <2>1. Orderly' /\ EndsClean
    BY <1>2, ExposeDoes, EndLabels, Waiting, Booleans, Callers
       DEF At, Calls, CtlBut, Goes, Orderly, EndsClean, Under, RestoreLabels, RestoreTops, UnmuteTops, MuteTops, LowTops, FinishTops, Failed, SettleLabels
  <2>2. Moved' /\ Strandless
    BY <1>2, ExposeDoes, Booleans
       DEF At, Calls, CtlBut, Goes, DeskBut, Moved, Strandless, Stage, Failed, StBut
  <2> QED BY <2>1, <2>2
<1>3. CASE Settled
  <2>1. Orderly' /\ EndsClean
    BY <1>3, SettledCases, EndLabels, Waiting, Booleans, Callers
       DEF At, CtlBut, Goes, Passes, Rests, Orderly, EndsClean, Under, RestoreLabels, RestoreTops, UnmuteTops, MuteTops, LowTops, FinishTops, Failed, SettleLabels
  <2>2. Moved' /\ Strandless
    BY <1>3, SettledCases, Standing, Callers
       DEF At, CtlBut, Goes, Passes, Rests, RestoreLabels
  <2> QED BY <2>1, <2>2
<1>4. CASE Unsettled
  <2>1. Orderly' /\ EndsClean
    BY <1>4, UnsettledCases, EndLabels, Waiting, Booleans, Callers
       DEF At, CtlBut, Passes, Rests, Orderly, EndsClean, Under, RestoreLabels, RestoreTops, UnmuteTops, MuteTops, LowTops, FinishTops, Failed, SettleLabels
  <2>2. Moved' /\ Strandless
    BY <1>4, UnsettledCases, Standing, Callers
       DEF At, CtlBut, Passes, Rests, RestoreLabels
  <2> QED BY <2>1, <2>2
<1>5. CASE FinishRetention
  <2>1. Orderly' /\ EndsClean
    BY <1>5, FinishRetentionDoes, EndLabels, Waiting, Booleans, Callers
       DEF At, CallsRestore, CtlBut, Goes, Orderly, EndsClean, Under, RestoreLabels, RestoreTops, UnmuteTops, MuteTops, LowTops, FinishTops, Failed
  <2>2. Moved' /\ Strandless
    BY <1>5, FinishRetentionDoes, Standing
       DEF At, CallsRestore, CtlBut, Goes
  <2> QED BY <2>1, <2>2
<1>6. CASE Recover
  <2>1. Orderly' /\ EndsClean
    <3>1. session = "none"
      BY <1>6, RecoverDoes DEF OnDisk, Desktop, At
    <3> QED
      BY <1>6, RecoverCases, <3>1, RecoverDoes, EndLabels, Waiting, Booleans, Callers
         DEF At, CtlBut, CallsRestore, Passes, Rests, Orderly, EndsClean, Under, RestoreLabels, RestoreTops, UnmuteTops,
             MuteTops, LowTops, FinishTops, Failed
  <2>2. Moved' /\ Strandless
    BY <1>6, RecoverCases, Standing, Callers
       DEF At, CallsRestore, CtlBut, Passes, Rests, RestoreLabels
  <2> QED BY <2>1, <2>2
<1>7. CASE RecoverAtStart
  <2>1. Orderly' /\ EndsClean
    BY <1>7, RecoverAtStartDoes, Running
       DEF At, CtlBut, Orderly, EndsClean, Under, RestoreLabels, RestoreTops, UnmuteTops
  <2>2. Moved' /\ Strandless
    BY <1>7, RecoverAtStartDoes, Standing
       DEF At, CtlBut
  <2> QED BY <2>1, <2>2
<1> QED BY <1>1, <1>2, <1>3, <1>4, <1>5, <1>6, <1>7 DEF Settles

LEMMA EntersEnding ==
  ASSUME Typed, OnDisk, Orderly, Moved, Enters
  PROVE  Orderly' /\ EndsClean /\ Moved' /\ Strandless
<1>1. ASSUME NEW k \in Kinds, Enter(k) PROVE Orderly' /\ EndsClean /\ Moved' /\ Strandless
  <2>1. Orderly' /\ EndsClean
    BY <1>1, EnterDoes
       DEF At, CtlBut, Orderly, EndsClean, Ends
  <2>2. Moved' /\ Strandless
    BY <1>1, EnterDoes, Standing
       DEF At, CtlBut
  <2> QED BY <2>1, <2>2
<1>2. CASE Entered
  <2>1. Orderly' /\ EndsClean
    BY <1>2, EnteredCases, EndLabels, OtherOrderly
       DEF At, CtlBut, Goes, Rests
  <2>2. Moved' /\ Strandless
    BY <1>2, EnteredCases, Standing, Callers
       DEF At, CtlBut, Goes, Rests, RestoreLabels
  <2> QED BY <2>1, <2>2
<1>3. CASE EnterOutput
  <2>1. Orderly' /\ EndsClean
    BY <1>3, EnterOutputDoes, EndLabels, OtherOrderly
       DEF At, CtlBut, Goes, EnterLabels
  <2>2. Moved' /\ Strandless
    BY <1>3, EnterOutputDoes, Standing
       DEF At, CtlBut, Goes
  <2> QED BY <2>1, <2>2
<1>4. CASE EnterLight
  <2>1. Orderly' /\ EndsClean
    BY <1>4, EnterLightDoes, EndLabels, OtherOrderly
       DEF At, CtlBut, Goes, EnterLabels
  <2>2. Moved' /\ Strandless
    BY <1>4, EnterLightDoes, Booleans
       DEF At, CtlBut, Goes, DeskBut, Moved, Strandless, Stage, Failed, StBut
  <2> QED BY <2>1, <2>2
<1>5. CASE EnterSink
  <2>1. Orderly' /\ EndsClean
    BY <1>5, EnterSinkDoes, EndLabels, OtherOrderly
       DEF At, CtlBut, Goes, EnterLabels
  <2>2. Moved' /\ Strandless
    BY <1>5, EnterSinkDoes, Standing
       DEF At, CtlBut, Goes
  <2> QED BY <2>1, <2>2
<1>6. CASE EnterSetSink
  <2>1. Orderly' /\ EndsClean
    BY <1>6, EnterSetSinkDoes, EndLabels, OtherOrderly
       DEF At, CtlBut, Goes, EnterLabels
  <2>2. Moved' /\ Strandless
    BY <1>6, EnterSetSinkDoes, Standing
       DEF At, CtlBut, Goes, DeskBut
  <2> QED BY <2>1, <2>2
<1>7. CASE EnterWindow
  <2>1. Orderly' /\ EndsClean
    BY <1>7, EnterWindowDoes, EndLabels, OtherOrderly
       DEF At, CtlBut, Goes, EnterLabels
  <2>2. Moved' /\ Strandless
    BY <1>7, EnterWindowDoes, Standing
       DEF At, CtlBut, Goes
  <2> QED BY <2>1, <2>2
<1>8. CASE EnterPlace
  <2>1. Orderly' /\ EndsClean
    BY <1>8, EnterPlaceDoes, EndLabels, OtherOrderly
       DEF At, CtlBut, Goes, EnterLabels
  <2>2. Moved' /\ Strandless
    BY <1>8, EnterPlaceDoes, Booleans
       DEF At, CtlBut, Goes, DeskBut, Moved, Strandless, Stage, Failed, StBut
  <2> QED BY <2>1, <2>2
<1>9. CASE EnterQuiet
  <2>1. Orderly' /\ EndsClean
    BY <1>9, EnterQuietDoes, EndLabels, OtherOrderly
       DEF At, CtlBut, Goes, EnterLabels
  <2>2. Moved' /\ Strandless
    BY <1>9, EnterQuietDoes, Standing
       DEF At, CtlBut, Goes
  <2> QED BY <2>1, <2>2
<1>10. CASE EnterSilence
  <2>1. Orderly' /\ EndsClean
    BY <1>10, EnterSilenceDoes, EndLabels, OtherOrderly
       DEF At, CtlBut, Goes, EnterLabels
  <2>2. Moved' /\ Strandless
    BY <1>10, EnterSilenceDoes, Standing
       DEF At, CtlBut, Goes, DeskBut
  <2> QED BY <2>1, <2>2
<1>11. CASE EnterLoud
  <2>1. Orderly' /\ EndsClean
    BY <1>11, EnterLoudDoes, EndLabels, OtherOrderly
       DEF At, CtlBut, Goes, EnterLabels
  <2>2. Moved' /\ Strandless
    BY <1>11, EnterLoudDoes, Standing
       DEF At, CtlBut, Goes
  <2> QED BY <2>1, <2>2
<1>12. CASE EnterLast
  <2>1. Orderly' /\ EndsClean
    BY <1>12, EnterLastCases, EndLabels, OtherOrderly
       DEF At, CtlBut, Goes, Rests, EnterLabels
  <2>2. Moved' /\ Strandless
    BY <1>12, EnterLastCases, Standing, Callers
       DEF At, CtlBut, Goes, Rests, RestoreLabels
  <2> QED BY <2>1, <2>2
<1>13. CASE EnterFail
  <2>1. Orderly' /\ EndsClean
    BY <1>13, EnterFailDoes, EndLabels, OtherOrderly
       DEF At, CallsRestore, CtlBut, EnterLabels
  <2>2. Moved' /\ Strandless
    BY <1>13, EnterFailDoes, Standing
       DEF At, CallsRestore, CtlBut
  <2> QED BY <2>1, <2>2
<1>14. CASE EnterFailed
  <2>1. Orderly' /\ EndsClean
    BY <1>14, EnterFailedCases, EndLabels, OtherOrderly
       DEF At, CtlBut, Rests, EnterLabels
  <2>2. Moved' /\ Strandless
    BY <1>14, EnterFailedCases, Standing, Callers
       DEF At, CtlBut, Rests, RestoreLabels
  <2> QED BY <2>1, <2>2
<1> QED BY <1>1, <1>2, <1>3, <1>4, <1>5, <1>6, <1>7, <1>8, <1>9, <1>10, <1>11, <1>12, <1>13, <1>14 DEF Enters

LEMMA ParksEnding ==
  ASSUME Typed, OnDisk, Orderly, Moved, Parks
  PROVE  Orderly' /\ EndsClean /\ Moved' /\ Strandless
<1>1. CASE Park
  <2>1. Orderly' /\ EndsClean
    BY <1>1, ParkDoes
       DEF At, CtlBut, Orderly, EndsClean, Ends
  <2>2. Moved' /\ Strandless
    BY <1>1, ParkDoes, Standing
       DEF At, CtlBut
  <2> QED BY <2>1, <2>2
<1>2. CASE ParkDiscover
  <2>1. Orderly' /\ EndsClean
    BY <1>2, ParkDiscoverDoes, EndLabels, OtherOrderly
       DEF At, CtlBut, Goes, ParkLabels
  <2>2. Moved' /\ Strandless
    BY <1>2, ParkDiscoverDoes, Standing
       DEF At, CtlBut, Goes
  <2> QED BY <2>1, <2>2
<1>3. CASE ParkMuted
  <2>1. Orderly' /\ EndsClean
    BY <1>3, ParkMutedDoes, EndLabels, OtherOrderly
       DEF At, Calls, CtlBut, Goes, ParkLabels
  <2>2. Moved' /\ Strandless
    BY <1>3, ParkMutedDoes, Standing
       DEF At, Calls, CtlBut, Goes
  <2> QED BY <2>1, <2>2
<1>4. CASE ParkUnmuted
  <2>1. Orderly' /\ EndsClean
    BY <1>4, ParkUnmutedCases, EndLabels, OtherOrderly
       DEF At, CtlBut, Rests, ParkLabels
  <2>2. Moved' /\ Strandless
    BY <1>4, ParkUnmutedCases, Standing, Callers
       DEF At, CtlBut, Rests, RestoreLabels
  <2> QED BY <2>1, <2>2
<1>5. CASE ParkRestore
  <2>1. Orderly' /\ EndsClean
    BY <1>5, ParkRestoreDoes, EndLabels, OtherOrderly
       DEF At, CallsRestore, CtlBut, ParkLabels
  <2>2. Moved' /\ Strandless
    BY <1>5, ParkRestoreDoes, Standing
       DEF At, CallsRestore, CtlBut
  <2> QED BY <2>1, <2>2
<1>6. CASE ParkRestored
  <2>1. Orderly' /\ EndsClean
    BY <1>6, ParkRestoredCases, EndLabels, OtherOrderly
       DEF At, CtlBut, Rests, ParkLabels
  <2>2. Moved' /\ Strandless
    BY <1>6, ParkRestoredCases, Standing, Callers
       DEF At, CtlBut, Rests, RestoreLabels
  <2> QED BY <2>1, <2>2
<1>7. CASE ParkRolledBack
  <2>1. Orderly' /\ EndsClean
    BY <1>7, ParkRolledBackCases, EndLabels, OtherOrderly
       DEF At, CtlBut, Rests, ParkLabels
  <2>2. Moved' /\ Strandless
    BY <1>7, ParkRolledBackCases, Standing, Callers
       DEF At, CtlBut, Rests, RestoreLabels
  <2> QED BY <2>1, <2>2
<1> QED BY <1>1, <1>2, <1>3, <1>4, <1>5, <1>6, <1>7 DEF Parks

LEMMA RefreshesEnding ==
  ASSUME Typed, OnDisk, Orderly, Moved, Refreshes
  PROVE  Orderly' /\ EndsClean /\ Moved' /\ Strandless
<1>1. CASE RefreshParked
  <2>1. Orderly' /\ EndsClean
    BY <1>1, RefreshParkedDoes
       DEF At, CtlBut, Orderly, EndsClean, Ends
  <2>2. Moved' /\ Strandless
    BY <1>1, RefreshParkedDoes, Standing
       DEF At, CtlBut
  <2> QED BY <2>1, <2>2
<1>2. CASE RefreshDiscover
  <2>1. Orderly' /\ EndsClean
    BY <1>2, RefreshDiscoverDoes, EndLabels, OtherOrderly
       DEF At, Calls, CtlBut, Goes, RefreshLabels
  <2>2. Moved' /\ Strandless
    BY <1>2, RefreshDiscoverDoes, Standing
       DEF At, Calls, CtlBut, Goes
  <2> QED BY <2>1, <2>2
<1>3. CASE RefreshHeard
  <2>1. Orderly' /\ EndsClean
    BY <1>3, RefreshHeardDoes, EndLabels, OtherOrderly
       DEF At, CtlBut, RefreshLabels
  <2>2. Moved' /\ Strandless
    BY <1>3, RefreshHeardDoes, Standing
       DEF At, CtlBut
  <2> QED BY <2>1, <2>2
<1>4. CASE RefreshRestored
  <2>1. Orderly' /\ EndsClean
    BY <1>4, RefreshRestoredCases, EndLabels, OtherOrderly
       DEF At, CtlBut, Passes, Rests, RefreshLabels
  <2>2. Moved' /\ Strandless
    BY <1>4, RefreshRestoredCases, Standing, Callers
       DEF At, CtlBut, Passes, Rests, RestoreLabels
  <2> QED BY <2>1, <2>2
<1>5. CASE RefreshStreams
  <2>1. Orderly' /\ EndsClean
    BY <1>5, RefreshStreamsDoes, EndLabels, OtherOrderly
       DEF At, Calls, CtlBut, RefreshLabels
  <2>2. Moved' /\ Strandless
    BY <1>5, RefreshStreamsDoes, Standing
       DEF At, Calls, CtlBut
  <2> QED BY <2>1, <2>2
<1>6. CASE RefreshMuted
  <2>1. Orderly' /\ EndsClean
    BY <1>6, RefreshMutedCases, EndLabels, OtherOrderly
       DEF At, Calls, CtlBut, Passes, Rests, RefreshLabels
  <2>2. Moved' /\ Strandless
    BY <1>6, RefreshMutedCases, Standing, Callers
       DEF At, Calls, CtlBut, Passes, Rests, RestoreLabels
  <2> QED BY <2>1, <2>2
<1> QED BY <1>1, <1>2, <1>3, <1>4, <1>5, <1>6 DEF Refreshes

LEMMA ResumesEnding ==
  ASSUME Typed, OnDisk, Orderly, Moved, Resumes
  PROVE  Orderly' /\ EndsClean /\ Moved' /\ Strandless
<1>1. CASE Resume
  <2>1. Orderly' /\ EndsClean
    BY <1>1, ResumeDoes
       DEF At, CtlBut, Orderly, EndsClean, Ends
  <2>2. Moved' /\ Strandless
    BY <1>1, ResumeDoes, Standing
       DEF At, CtlBut
  <2> QED BY <2>1, <2>2
<1>2. CASE ResumeCapture
  <2>1. Orderly' /\ EndsClean
    BY <1>2, ResumeCaptureCases, EndLabels, OtherOrderly
       DEF At, CtlBut, Passes, Rests, ResumeLabels
  <2>2. Moved' /\ Strandless
    BY <1>2, ResumeCaptureCases, Standing, Callers
       DEF At, CtlBut, Passes, Rests, RestoreLabels
  <2> QED BY <2>1, <2>2
<1>3. CASE ResumeRecord
  <2>1. Orderly' /\ EndsClean
    BY <1>3, ResumeRecordDoes, EndLabels, OtherOrderly
       DEF At, CtlBut, Goes, ResumeLabels
  <2>2. Moved' /\ Strandless
    BY <1>3, ResumeRecordDoes, Standing
       DEF At, CtlBut, Goes
  <2> QED BY <2>1, <2>2
<1>4. CASE ResumeLight
  <2>1. Orderly' /\ EndsClean
    BY <1>4, ResumeLightDoes, EndLabels, OtherOrderly
       DEF At, CtlBut, Goes, ResumeLabels
  <2>2. Moved' /\ Strandless
    BY <1>4, ResumeLightDoes, Booleans
       DEF At, CtlBut, Goes, DeskBut, Moved, Strandless, Stage, Failed, StBut
  <2> QED BY <2>1, <2>2
<1>5. CASE ResumeSink
  <2>1. Orderly' /\ EndsClean
    BY <1>5, ResumeSinkDoes, EndLabels, OtherOrderly
       DEF At, CtlBut, Goes, ResumeLabels
  <2>2. Moved' /\ Strandless
    BY <1>5, ResumeSinkDoes, Standing
       DEF At, CtlBut, Goes
  <2> QED BY <2>1, <2>2
<1>6. CASE ResumeSetSink
  <2>1. Orderly' /\ EndsClean
    BY <1>6, ResumeSetSinkDoes, EndLabels, OtherOrderly
       DEF At, CtlBut, Goes, ResumeLabels
  <2>2. Moved' /\ Strandless
    BY <1>6, ResumeSetSinkDoes, Standing
       DEF At, CtlBut, Goes, DeskBut
  <2> QED BY <2>1, <2>2
<1>7. CASE ResumeWindow
  <2>1. Orderly' /\ EndsClean
    BY <1>7, ResumeWindowDoes, EndLabels, OtherOrderly
       DEF At, CtlBut, Goes, ResumeLabels
  <2>2. Moved' /\ Strandless
    BY <1>7, ResumeWindowDoes, Standing
       DEF At, CtlBut, Goes
  <2> QED BY <2>1, <2>2
<1>8. CASE ResumePlace
  <2>1. Orderly' /\ EndsClean
    BY <1>8, ResumePlaceDoes, EndLabels, OtherOrderly
       DEF At, CtlBut, Goes, ResumeLabels
  <2>2. Moved' /\ Strandless
    BY <1>8, ResumePlaceDoes, Standing
       DEF At, CtlBut, Goes, DeskBut
  <2> QED BY <2>1, <2>2
<1>9. CASE ResumeMove
  <2>1. Orderly' /\ EndsClean
    BY <1>9, ResumeMoveDoes, EndLabels, OtherOrderly
       DEF At, CtlBut, Goes, ResumeLabels
  <2>2. Moved' /\ Strandless
    BY <1>9, ResumeMoveDoes, Booleans
       DEF At, CtlBut, Goes, DeskBut, Moved, Strandless, Stage, Failed, StBut
  <2> QED BY <2>1, <2>2
<1>10. CASE ResumeQuiet
  <2>1. Orderly' /\ EndsClean
    BY <1>10, ResumeQuietDoes, EndLabels, OtherOrderly
       DEF At, Calls, CtlBut, Goes, ResumeLabels
  <2>2. Moved' /\ Strandless
    BY <1>10, ResumeQuietDoes, Standing
       DEF At, Calls, CtlBut, Goes
  <2> QED BY <2>1, <2>2
<1>11. CASE ResumeSilence
  <2>1. Orderly' /\ EndsClean
    BY <1>11, ResumeSilenceDoes, EndLabels, OtherOrderly
       DEF At, Calls, CtlBut, Goes, ResumeLabels
  <2>2. Moved' /\ Strandless
    BY <1>11, ResumeSilenceDoes, Standing
       DEF At, Calls, CtlBut, Goes, DeskBut
  <2> QED BY <2>1, <2>2
<1>12. CASE ResumeHeard
  <2>1. Orderly' /\ EndsClean
    BY <1>12, ResumeHeardCases, EndLabels, OtherOrderly
       DEF At, CtlBut, Goes, Passes, Rests, ResumeLabels
  <2>2. Moved' /\ Strandless
    BY <1>12, ResumeHeardCases, Standing, Callers
       DEF At, CtlBut, Goes, Passes, Rests, RestoreLabels
  <2> QED BY <2>1, <2>2
<1>13. CASE ResumeFail
  <2>1. Orderly' /\ EndsClean
    BY <1>13, ResumeFailDoes, EndLabels, OtherOrderly
       DEF At, CallsRestore, CtlBut, ResumeLabels
  <2>2. Moved' /\ Strandless
    BY <1>13, ResumeFailDoes, Standing
       DEF At, CallsRestore, CtlBut
  <2> QED BY <2>1, <2>2
<1>14. CASE ResumeUndone
  <2>1. Orderly' /\ EndsClean
    BY <1>14, ResumeUndoneDoes, EndLabels, OtherOrderly
       DEF At, Calls, CtlBut, Goes, ResumeLabels
  <2>2. Moved' /\ Strandless
    BY <1>14, ResumeUndoneDoes, Standing
       DEF At, Calls, CtlBut, Goes
  <2> QED BY <2>1, <2>2
<1>15. CASE ResumeMuted
  <2>1. Orderly' /\ EndsClean
    BY <1>15, ResumeMutedDoes, EndLabels, OtherOrderly
       DEF At, Calls, CtlBut, Goes, ResumeLabels
  <2>2. Moved' /\ Strandless
    BY <1>15, ResumeMutedDoes, Standing
       DEF At, Calls, CtlBut, Goes
  <2> QED BY <2>1, <2>2
<1> QED BY <1>1, <1>2, <1>3, <1>4, <1>5, <1>6, <1>7, <1>8, <1>9, <1>10, <1>11, <1>12, <1>13, <1>14, <1>15 DEF Resumes

LEMMA ExitsEnding ==
  ASSUME Typed, OnDisk, Orderly, Moved, Exits
  PROVE  Orderly' /\ EndsClean /\ Moved' /\ Strandless
<1>1. CASE Exit
  <2>1. Orderly' /\ EndsClean
    BY <1>1, ExitDoes, Running
       DEF At, CtlBut, Orderly, EndsClean, Under, RestoreLabels, RestoreTops, UnmuteTops
  <2>2. Moved' /\ Strandless
    BY <1>1, ExitDoes, Standing
       DEF At, CtlBut
  <2> QED BY <2>1, <2>2
<1>2. CASE ExitHeard
  <2>1. Orderly' /\ EndsClean
    BY <1>2, ExitHeardDoes, EndLabels, Waiting, Booleans, Callers
       DEF At, CtlBut, Orderly, EndsClean, Under, RestoreLabels, RestoreTops, UnmuteTops, MuteTops, LowTops, FinishTops, Failed, ExitLabels
  <2>2. Moved' /\ Strandless
    BY <1>2, ExitHeardDoes, Standing
       DEF At, CtlBut
  <2> QED BY <2>1, <2>2
<1>3. CASE ExitRestored
  <2>1. Orderly' /\ EndsClean
    BY <1>3, ExitRestoredCases, EndLabels, Waiting, Booleans, Callers
       DEF At, CtlBut, Rests, Orderly, EndsClean, Under, RestoreLabels, RestoreTops, UnmuteTops, MuteTops, LowTops, FinishTops, Failed, ExitLabels
  <2>2. Moved' /\ Strandless
    BY <1>3, ExitRestoredCases, Standing, Callers
       DEF At, CtlBut, Rests, RestoreLabels
  <2> QED BY <2>1, <2>2
<1>4. CASE Exited
  <2>1. Orderly' /\ EndsClean
    BY <1>4, ExitedCases, EndLabels, Waiting, Booleans, Callers
       DEF At, CtlBut, Rests, Orderly, EndsClean, Under, RestoreLabels, RestoreTops, UnmuteTops, MuteTops, LowTops, FinishTops, Failed, ExitLabels
  <2>2. Moved' /\ Strandless
    BY <1>4, ExitedCases, Standing, Callers
       DEF At, CtlBut, Rests, RestoreLabels
  <2> QED BY <2>1, <2>2
<1> QED BY <1>1, <1>2, <1>3, <1>4 DEF Exits

\* So does a return of an answer, and what the world does.
LEMMA AnswerEnding ==
  ASSUME Typed, OnDisk, Orderly, Moved, Answer
  PROVE  Orderly' /\ EndsClean /\ Moved' /\ Strandless
<1>1. \/ /\ At("yes") /\ Passes(TRUE) /\ UNCHANGED <<desk, was, disk, st, session, left>>
      \/ /\ At("no") /\ (Passes(FALSE) \/ Rests) /\ UNCHANGED <<desk, was, disk, st, session, left>>
  BY AnswerDoes, ReturnCases, Waiting DEF At, Passes, Rests, MuteTops, UnmuteTops
<1>2. Orderly' /\ EndsClean
  BY <1>1, EndLabels, Waiting, Booleans, Callers
     DEF At, Passes, Rests, CtlBut, Orderly, EndsClean, Under, RestoreLabels, RestoreTops, UnmuteTops, MuteTops,
         LowTops, FinishTops
<1>3. Moved' /\ Strandless
  BY <1>1, Standing, Callers, Waiting DEF At, Passes, Rests, RestoreLabels
<1> QED BY <1>2, <1>3

LEMMA WorldEnding ==
  ASSUME Typed, OnDisk, Orderly, Moved, World
  PROVE  Orderly' /\ EndsClean /\ Moved' /\ Strandless
<1>0. Home \in desk.on /\ Home \in was.on /\ desk.on \subseteq desk.plugged
  BY DEF OnDisk, Desktop
<1>1. CASE Kill
  <2>1. /\ ctl'.at = "idle" /\ desk'.on = desk.on /\ desk'.at = desk.at /\ left'.kills # left.kills
    <3>1. left.kills \in Int /\ left'.kills = left.kills - 1
      BY <1>1, KillDoes, Types DEF Lefts
    <3> QED BY <1>1, <3>1, KillDoes DEF DeskBut
  <2> QED BY <2>1, Standing DEF Orderly, EndsClean, At
<1>2. ASSUME NEW g \in Games, GameStarts(g) PROVE Orderly' /\ EndsClean /\ Moved' /\ Strandless
  <2>1. /\ At("idle") /\ ctl' = ctl /\ desk'.on = desk.on /\ desk'.at \in {desk.at, Home}
    BY <1>2, GameStartsDoes DEF DeskBut
  <2> QED BY <2>1, <1>0 DEF Orderly, EndsClean, Moved, Strandless, Stage, At
<1>3. ASSUME NEW g \in Games, GameEnds(g) PROVE Orderly' /\ EndsClean /\ Moved' /\ Strandless
  <2>1. /\ ctl' = ctl /\ st' = st /\ left' = left /\ Top' = Top /\ DeskBut({"games", "inside", "muted", "over"})
        /\ desk'.inside = desk.inside \ {g}
    BY <1>3, GameEndsDoes, IdleStays
  <2> QED BY <2>1 DEF DeskBut, Orderly, EndsClean, Under, Moved, Strandless, Stage, At
<1>4. ASSUME NEW s \in Sinks, PlayerPicksSink(s) PROVE Orderly' /\ EndsClean /\ Moved' /\ Strandless
  <2>1. /\ At("idle") /\ ctl' = ctl /\ DeskBut({"sink"})
    BY <1>4, PlayerPicksSinkDoes
  <2> QED BY <2>1 DEF DeskBut, Orderly, EndsClean, Moved, Strandless, Stage, At
<1>6. ASSUME NEW s \in Sinks, SinkGoes(s) PROVE Orderly' /\ EndsClean /\ Moved' /\ Strandless
  <2>1. /\ UNCHANGED <<disk, st, session, ctl>> /\ Top' = Top /\ DeskBut({"sinks", "sink"})
        /\ left'.clean = left.clean
    BY <1>6, SinkGoesDoes, IdleStays
  <2> QED BY <2>1 DEF DeskBut, Orderly, EndsClean, Under, Moved, Strandless, Stage, At
<1>5. ASSUME NEW o \in Outputs, Unplug(o) PROVE Orderly' /\ EndsClean /\ Moved' /\ Strandless
  <2>1. /\ o # Home /\ desk'.on = desk.on \ {o} /\ desk'.at = (IF desk.at = o THEN Home ELSE desk.at)
        /\ Failed /\ UNCHANGED <<disk, st, session, ctl>>
    BY <1>5, UnplugDoes
  <2>2. At("disable") => st.output # Home
    BY <1>0 DEF OnDisk, Restoring, Memory, Live, Sound, At
  <2> QED BY <2>1, <2>2, <1>0 DEF Failed, Orderly, EndsClean, Moved, Strandless, Stage, At
<1> QED BY <1>1, <1>2, <1>3, <1>4, <1>5, <1>6 DEF World

\* So does every step.
LEMMA EndingKept ==
  ASSUME Typed, OnDisk, Orderly, Moved, [GameModeNext]_gameModeVars
  PROVE  Orderly' /\ EndsClean /\ Moved' /\ Strandless
<1>1. CASE UNCHANGED gameModeVars
  <2>1. ctl' = ctl /\ st' = st /\ desk' = desk /\ left' = left /\ Top' = Top
    BY <1>1 DEF gameModeVars, Top
  <2> QED BY <2>1 DEF Orderly, EndsClean, Under, Moved, Strandless, Stage, At
<1> QED
  BY <1>1, AnswerEnding, RestoresEnding, MutesEnding, SettlesEnding, EntersEnding, ParksEnding, RefreshesEnding,
     ResumesEnding, ExitsEnding, WorldEnding DEF GameModeNext

\* An end of a session in which nothing failed misses nothing, and moves
\* the games' windows before it turns the display off.
LEMMA OrderlyAlways == GameModeSpec => [](Orderly /\ Moved)
<1>1. GameModeInit => Orderly /\ Moved
  BY DEF GameModeInit, Resting, Orderly, Moved, Stage, At
<1>2. Typed /\ OnDisk /\ Orderly /\ Moved /\ [GameModeNext]_gameModeVars => Orderly' /\ Moved'
  BY EndingKept
<1> QED BY TypeCorrect, OnDiskAlways, <1>1, <1>2, PTL DEF GameModeSpec

\* An exit, or the recovery at the start, in which nothing failed and no
\* kill came, leaves neither a session nor a record of one.
THEOREM CleanEnds == GameModeSpec => CleanEndEnds
<1>1. Typed /\ OnDisk /\ Orderly /\ Moved /\ [GameModeNext]_gameModeVars
      => [ ctl'.at = "idle" /\ ctl.at # "idle" /\ ctl.op \in {"Exit", "Recover"} /\ left'.clean
           /\ left'.kills = left.kills
           => session' = "none" /\ disk' = NoRecord ]_gameModeVars
  BY EndingKept DEF EndsClean, Ends
<1> QED BY TypeCorrect, OnDiskAlways, OrderlyAlways, <1>1, PTL DEF GameModeSpec, CleanEndEnds

\* The display with a game's window on it is turned off only by a restore
\* of which a step failed before: the windows are moved first.
THEOREM NoneStranded == GameModeSpec => NotStranded
<1>1. Typed /\ OnDisk /\ Orderly /\ Moved /\ [GameModeNext]_gameModeVars
      => [ desk.at \in desk.on /\ desk'.at \notin desk'.on /\ st.games \cap desk.inside # {}
           => ~ctl.retained /\ ~left.clean ]_gameModeVars
  BY EndingKept DEF Strandless
<1> QED BY TypeCorrect, OnDiskAlways, OrderlyAlways, <1>1, PTL DEF GameModeSpec, NotStranded

---------------------------------------------------------------------------

\* The games that Omakade muted; a list of streams that has each of them
\* as heard before; and what a record's games and streams may be, when the
\* games running, ended, muted by the player, and a lost record, are c's.
Owed == desk.muted \ was.muted
Noted(m, s) == \A g \in m : [game |-> g, muted |-> FALSE] \in s
Scene == [games |-> desk.games, over |-> desk.over, muted |-> was.muted, lost |-> left.lost]
Known(games, streams, c) ==
  /\ games \subseteq c.games \cup c.over
  /\ \A q \in streams : q.game \in c.games \cup c.over
  /\ \A q \in streams : ~q.muted => q.game \notin c.muted
  /\ ~c.lost => \A q \in streams : q.muted /\ q.game \in c.games => q.game \in c.muted
\* The streams of the record on disk.
OnFile == IF disk = NoRecord THEN {} ELSE disk.streams

\* Only games that run are muted, and what each record knows of games and
\* of their sounds is so.
Sounds ==
  /\ was.muted \subseteq desk.muted /\ desk.muted \subseteq desk.games /\ desk.inside \subseteq desk.games
  /\ desk.games \cap desk.over = {}
  /\ Known(st.games, st.streams, Scene)
  /\ Known(ctl.kept.games, ctl.kept.streams, Scene)
  /\ disk # NoRecord => Known(disk.games, disk.streams, Scene)
\* Where the session is on still, and where it is there still.
OnLabels == {"park", "parkMuted", "parkUnmuted", "parkRestore", "parkRestored", "exitHeard", "exitRestored"}
Sessions ==
  /\ Under(RefreshLabels) => session # "none"
  /\ Under(OnLabels) => session = "active"
\* Where resume has a copy of the record that it found.
ResumeKept == ResumeLabels \ {"resume", "resumeMuted"}
\* Each game that Omakade muted is on record: on disk without a session,
\* in the controller's record with one, and in the copy that resume keeps.
Muting ==
  /\ ~left.lost /\ session = "none" => Noted(Owed, OnFile)
  /\ ~left.lost /\ Live => Noted(Owed, st.streams)
  /\ ~left.lost /\ Under(ResumeKept) => Noted(Owed, ctl.kept.streams)
  /\ Entering => st.streams = {}
\* What is gone through is of the record; a stream is put on record before
\* its game is muted, and unmuted before it is taken off.
Turns ==
  /\ ctl.at \in {"muteNext", "muteOne"} => ctl.todo \subseteq st.games
  /\ At("muteOne") => \E g \in ctl.todo : ctl.one = {g} /\ MuteRecorded(g)
  /\ At("unmuteNext") => ctl.todo \subseteq st.streams /\ (ctl.audio => ctl.todo = st.streams)
  /\ At("unmuted") =>
       /\ \E r \in st.streams : ctl.one = {r} /\ (r.muted \/ r.game \notin desk.muted)
       /\ ctl.todo \subseteq st.streams \ ctl.one /\ (ctl.audio => ctl.todo = st.streams \ ctl.one)
\* An answer that all was unmuted is true.
Unmuted ==
  /\ At("yes") /\ Top \in UnmuteTops => st.streams = {}
  /\ ctl.at \in UnmuteTops /\ ctl.ok => st.streams = {}
  /\ Under({"exitRestored"}) /\ ctl.desktop => st.streams = {}
\* Each mute that Omakade made is on record until it is undone.
Audible == Sounds /\ Sessions /\ Muting /\ Turns /\ Unmuted

\* A record that knows less is still right, and one that knows nothing.
LEMMA KnownFewer ==
  ASSUME NEW games, NEW streams, NEW g, NEW s, NEW c, Known(games, streams, c), g \subseteq games, s \subseteq streams
  PROVE  Known(g, s, c)
BY DEF Known

LEMMA KnownNone ==
  ASSUME NEW c
  PROVE  Known({}, {}, c)
BY DEF Known

\* Nothing muted needs no note; and with no notes nothing was muted.
LEMMA NotedNone ==
  ASSUME NEW s
  PROVE  Noted({}, s)
BY DEF Noted

LEMMA NotedEmpty ==
  ASSUME NEW m, Noted(m, {})
  PROVE  m = {}
BY DEF Noted

\* Fewer muted games need no more notes.
LEMMA Quieter ==
  ASSUME NEW m, NEW s, NEW n \in SUBSET m, Noted(m, s)
  PROVE  Noted(n, s)
BY DEF Noted

\* The values of the fields that the invariant compares.
LEMMA Signs ==
  ASSUME Typed, Typed'
  PROVE  /\ left.lost \in BOOLEAN /\ left'.lost \in BOOLEAN /\ st # NoRecord /\ st' # NoRecord /\ ctl.kept # NoRecord
         /\ ctl.ok \in BOOLEAN /\ ctl'.ok \in BOOLEAN /\ ctl.audio \in BOOLEAN /\ ctl'.audio \in BOOLEAN
         /\ ctl.desktop \in BOOLEAN /\ ctl'.desktop \in BOOLEAN
BY GameModeAssumption DEF Typed, TypeOK, Lefts, Ctls

\* Labels at which no list is gone through.
LEMMA NoTurns ==
  ASSUME ctl'.at \notin {"muteNext", "muteOne", "unmuteNext", "unmuted"}
  PROVE  Turns'
BY DEF Turns, At

\* More notes are as good.
LEMMA NotedMore ==
  ASSUME NEW m, NEW s, NEW t, Noted(m, s), s \subseteq t
  PROVE  Noted(m, t)
BY DEF Noted

\* A record may know any games that run or ran.
LEMMA KnownAnew ==
  ASSUME NEW games, NEW streams, NEW c, NEW g, Known(games, streams, c), g \subseteq c.games \cup c.over
  PROVE  Known(g, streams, c)
BY DEF Known

\* So may one from which the games that ended were taken.
LEMMA KnownAlive ==
  ASSUME NEW streams, Known(st.games, streams, Scene)
  PROVE  Known(Alive(st.games), streams, Scene)
<1>1. Alive(st.games) \subseteq st.games
  BY DEF Alive
<1> QED BY <1>1, KnownFewer

\* Games are muted only while a session is there.
LEMMA MuteSession ==
  ASSUME Typed, OnDisk, Audible, ctl.at \in MuteLabels
  PROVE  /\ session # "none" /\ Top \in MuteTops /\ ~Under(ResumeKept) /\ ~Entering
         /\ Live /\ (~left.lost => Noted(Owed, st.streams))
<1>1. Top \in MuteTops
  BY Waiting
<1>2. session # "none"
  BY <1>1 DEF MuteTops, OnDisk, Kept, Sitting, ResumeLabels, Audible, Sessions, OnLabels, RefreshLabels, Under
<1>3. ~Under(ResumeKept) /\ ~Entering
  BY <1>1 DEF MuteTops, MuteLabels, ResumeKept, ResumeLabels, Entering, EnterLabels, Under
<1>4. Live
  BY <1>2 DEF Live
<1> QED BY <1>1, <1>2, <1>3, <1>4 DEF Audible, Muting

\* Nothing is owed by a session whose streams were all unmuted.
LEMMA NothingOwed ==
  ASSUME Audible, ~left.lost, Live, st.streams = {}
  PROVE  Owed = {}
BY NotedEmpty DEF Audible, Muting

\* Each mute stays on record by each step of the controller.
LEMMA RestoresAudible ==
  ASSUME Typed, OnDisk, Audible, Restores
  PROVE  Audible'
<1>1. CASE RecordUndone
  <2>9. Scene' = Scene /\ Owed' = Owed /\ left'.lost = left.lost
    BY <1>1, RecordUndoneDoes DEF Scene, Owed, Failed
  <2>1. Sounds' /\ Sessions' /\ Muting' /\ Unmuted'
    BY <1>1, <2>9, RecordUndoneDoes, Signs, BlankFields, NextStage, Waiting
       DEF At, CtlBut, Goes, Lacks, Stages, Audible, Sounds, RestoreLabels, RestoreTops, Sessions,
           Under, RefreshLabels, OnLabels, Muting, Live, Entering, ResumeKept, ResumeLabels,
           EnterLabels, OnFile, Returned, OnDisk, Unmuted, UnmuteTops, MuteTops
  <2>2. Turns'
    BY <1>1, <2>9, RecordUndoneDoes, NoTurns, NextStage
       DEF At, CtlBut, Goes, Lacks, Stages
  <2> QED BY <2>1, <2>2 DEF Audible
<1>2. CASE RestoreQuiet
  <2>9. Scene' = Scene /\ Owed' = Owed /\ left'.lost = left.lost
    BY <1>2, RestoreQuietDoes DEF Scene, Owed, DeskBut, Failed
  <2>1. Sounds' /\ Sessions' /\ Muting' /\ Unmuted'
    BY <1>2, <2>9, RestoreQuietDoes, Signs, BlankFields, Waiting
       DEF At, CtlBut, DeskBut, Goes, Lacks, Registers, StBut, Audible, Sounds, RestoreLabels,
           RestoreTops, Sessions, Under, RefreshLabels, OnLabels, Muting, Live, Entering,
           ResumeKept, ResumeLabels, EnterLabels, OnFile, Returned, OnDisk, Unmuted, UnmuteTops,
           MuteTops
  <2>2. Turns'
    BY <1>2, <2>9, RestoreQuietDoes, NoTurns
       DEF At, CtlBut, DeskBut, Goes, Lacks, Registers, StBut
  <2> QED BY <2>1, <2>2 DEF Audible
<1>3. CASE RestoreWindow
  <2>9. Scene' = Scene /\ Owed' = Owed /\ left'.lost = left.lost
    BY <1>3, RestoreWindowDoes DEF Scene, Owed, DeskBut, Failed
  <2>1. Sounds' /\ Sessions' /\ Muting' /\ Unmuted'
    BY <1>3, <2>9, RestoreWindowDoes, Signs, BlankFields, Waiting
       DEF At, CtlBut, DeskBut, Goes, StBut, Audible, Sounds, RestoreLabels, RestoreTops, Sessions,
           Under, RefreshLabels, OnLabels, Muting, Live, Entering, ResumeKept, ResumeLabels,
           EnterLabels, OnFile, Returned, OnDisk, Unmuted, UnmuteTops, MuteTops
  <2>2. Turns'
    BY <1>3, <2>9, RestoreWindowDoes, NoTurns
       DEF At, CtlBut, DeskBut, Goes, StBut
  <2> QED BY <2>1, <2>2 DEF Audible
<1>4. CASE RestoreLeftover
  <2>9. Scene' = Scene /\ Owed' = Owed /\ left'.lost = left.lost
    BY <1>4, RestoreLeftoverDoes DEF Scene, Owed, DeskBut, Failed
  <2>1. Sounds' /\ Sessions' /\ Muting' /\ Unmuted'
    BY <1>4, <2>9, RestoreLeftoverDoes, Signs, BlankFields, Waiting
       DEF At, CtlBut, DeskBut, Goes, Lacks, Audible, Sounds, RestoreLabels, RestoreTops, Sessions,
           Under, RefreshLabels, OnLabels, Muting, Live, Entering, ResumeKept, ResumeLabels,
           EnterLabels, OnFile, Returned, OnDisk, Unmuted, UnmuteTops, MuteTops
  <2>2. Turns'
    BY <1>4, <2>9, RestoreLeftoverDoes, NoTurns
       DEF At, CtlBut, DeskBut, Goes, Lacks
  <2> QED BY <2>1, <2>2 DEF Audible
<1>5. CASE RestoreFocus
  <2>9. Scene' = Scene /\ Owed' = Owed /\ left'.lost = left.lost
    BY <1>5, RestoreFocusDoes DEF Scene, Owed, Failed
  <2>1. Sounds' /\ Sessions' /\ Muting' /\ Unmuted'
    BY <1>5, <2>9, RestoreFocusDoes, Signs, BlankFields, Waiting
       DEF At, CtlBut, Goes, Lacks, Registers, StBut, Audible, Sounds, RestoreLabels, RestoreTops,
           Sessions, Under, RefreshLabels, OnLabels, Muting, Live, Entering, ResumeKept,
           ResumeLabels, EnterLabels, OnFile, Returned, OnDisk, Unmuted, UnmuteTops, MuteTops
  <2>2. Turns'
    BY <1>5, <2>9, RestoreFocusDoes, NoTurns
       DEF At, CtlBut, Goes, Lacks, Registers, StBut
  <2> QED BY <2>1, <2>2 DEF Audible
<1>6. CASE RestoreSink
  <2>9. Scene' = Scene /\ Owed' = Owed /\ left'.lost = left.lost
    BY <1>6, RestoreSinkDoes DEF Scene, Owed, DeskBut, WasBut, Failed
  <2>1. Sounds' /\ Sessions' /\ Muting' /\ Unmuted'
    BY <1>6, <2>9, RestoreSinkDoes, Signs, BlankFields, Waiting
       DEF At, CtlBut, DeskBut, WasBut, Goes, Lacks, Registers, StBut, Audible, Sounds,
           RestoreLabels, RestoreTops, Sessions, Under, RefreshLabels, OnLabels, Muting, Live, Entering,
           ResumeKept, ResumeLabels, EnterLabels, OnFile, Returned, OnDisk, Unmuted, UnmuteTops,
           MuteTops
  <2>2. Turns'
    BY <1>6, <2>9, RestoreSinkDoes, NoTurns
       DEF At, CtlBut, DeskBut, Goes, Lacks, Registers, StBut
  <2> QED BY <2>1, <2>2 DEF Audible
<1>7. CASE RestoreOutput
  <2>9. Scene' = Scene /\ Owed' = Owed /\ left'.lost = left.lost
    BY <1>7, RestoreOutputDoes DEF Scene, Owed, DeskBut, Failed
  <2>1. Sounds' /\ Sessions' /\ Muting' /\ Unmuted'
    BY <1>7, <2>9, RestoreOutputDoes, Signs, BlankFields, Waiting
       DEF At, CtlBut, DeskBut, Goes, Lacks, Registers, StBut, Audible, Sounds, RestoreLabels,
           RestoreTops, Sessions, Under, RefreshLabels, OnLabels, Muting, Live, Entering,
           ResumeKept, ResumeLabels, EnterLabels, OnFile, Returned, OnDisk, Unmuted, UnmuteTops,
           MuteTops
  <2>2. Turns'
    BY <1>7, <2>9, RestoreOutputDoes, NoTurns
       DEF At, CtlBut, DeskBut, Goes, Lacks, Registers, StBut
  <2> QED BY <2>1, <2>2 DEF Audible
<1>8. CASE RestoreDisable
  <2>9. Scene' = Scene /\ Owed' = Owed /\ left'.lost = left.lost
    BY <1>8, RestoreDisableDoes DEF Scene, Owed, DeskBut, Failed
  <2>1. Sounds' /\ Sessions' /\ Muting' /\ Unmuted'
    BY <1>8, <2>9, RestoreDisableDoes, Signs, BlankFields, Waiting
       DEF At, CtlBut, DeskBut, Lacks, Registers, StBut, Audible, Sounds, RestoreLabels,
           RestoreTops, Sessions, Under, RefreshLabels, OnLabels, Muting, Live, Entering,
           ResumeKept, ResumeLabels, EnterLabels, OnFile, Returned, OnDisk, Unmuted, UnmuteTops,
           MuteTops
  <2>2. Turns'
    BY <1>8, <2>9, RestoreDisableDoes, NoTurns
       DEF At, CtlBut, DeskBut, Lacks, Registers, StBut
  <2> QED BY <2>1, <2>2 DEF Audible
<1>9. CASE RestoreDone
  <2>0. /\ Typed' /\ At("restored")
       /\ \/ /\ ctl.complete /\ disk # NoRecord /\ Passes(TRUE) /\ disk' = st
             /\ UNCHANGED <<desk, was, st, session, left>>
          \/ /\ ctl.complete /\ disk # NoRecord /\ Passes(FALSE) /\ Failed
             /\ UNCHANGED <<desk, was, disk, st, session>>
          \/ /\ (ctl.complete => disk = NoRecord) /\ Passes(ctl.complete)
             /\ UNCHANGED <<desk, was, disk, st, session, left>>
    BY <1>9, RestoreDoneCases
  <2>9. Scene' = Scene /\ Owed' = Owed /\ left'.lost = left.lost
    BY <1>9, <2>0 DEF Scene, Owed, Failed
  <2>1. Sounds' /\ Sessions' /\ Muting' /\ Unmuted'
    BY <1>9, <2>0, <2>9, Signs, BlankFields, KnownNone, Waiting, Callers
       DEF At, CtlBut, Passes, Audible, Sounds, RestoreLabels, RestoreTops, LowTops, FinishTops,
           Sessions, Under, RefreshLabels, OnLabels, Muting, Live, Entering, ResumeKept,
           ResumeLabels, EnterLabels, OnFile, Returned, OnDisk, Unmuted, UnmuteTops, MuteTops
  <2>2. Turns'
    BY <1>9, <2>0, <2>9, NoTurns, Callers
       DEF At, CtlBut, Passes, AllTops, RestoreTops, MuteTops, UnmuteTops, FinishTops
  <2> QED BY <2>1, <2>2 DEF Audible
<1> QED BY <1>1, <1>2, <1>3, <1>4, <1>5, <1>6, <1>7, <1>8, <1>9 DEF Restores

LEMMA MutesAudible ==
  ASSUME Typed, OnDisk, Audible, Mutes
  PROVE  Audible'
<1>1. CASE MuteGames
  <2>9. Scene' = Scene /\ Owed' = Owed /\ left'.lost = left.lost
    BY <1>1, MuteGamesDoes DEF Scene, Owed, Failed
  <2>1. Sounds' /\ Sessions' /\ Muting' /\ Unmuted'
    BY <1>1, <2>9, MuteGamesDoes, Signs, BlankFields, Waiting
       DEF At, CtlBut, Goes, Audible, Sounds, MuteLabels, MuteTops, Sessions, Under, RefreshLabels,
           OnLabels, Muting, Live, Entering, ResumeKept, ResumeLabels, EnterLabels, OnFile,
           Returned, OnDisk, RestoreTops, Unmuted, UnmuteTops
  <2>2. Turns'
    BY <1>1, MuteGamesDoes DEF At, Goes, Turns, CtlBut, Alive
  <2> QED BY <2>1, <2>2 DEF Audible
<1>2. CASE MuteRecord
  <2>9. Scene' = Scene /\ Owed' = Owed /\ left'.lost = left.lost
    BY <1>2, MuteRecordDoes DEF Scene, Owed, Failed
  <2>1. Sounds'
    <3>1. CASE st' = st /\ disk' = disk
      BY <1>2, <2>9, <3>1, MuteRecordDoes, Signs DEF At, CtlBut, Goes, Audible, Sounds
    <3>2. ASSUME NEW g \in ctl.todo, ~MuteRecorded(g), CtlBut({"one"}), StBut({"streams"}), disk' = st', desk' = desk,
                 st'.streams = st.streams \cup {[game |-> g, muted |-> g \in desk.muted]}
          PROVE  Sounds'
      <4>1. g \in st.games /\ At("muteNext")
        BY <1>2, MuteRecordDoes DEF At, Audible, Turns
      <4>2. g \in desk.games \cup desk.over /\ was.muted \subseteq desk.muted
        BY <4>1 DEF Audible, Sounds, Known, Scene
      <4>3. ASSUME ~left.lost, g \in desk.muted PROVE g \in was.muted
        <5>1. Noted(Owed, st.streams)
          BY <4>1, <4>3, MuteSession DEF At, MuteLabels
        <5>2. [game |-> g, muted |-> FALSE] \notin st.streams
          BY <3>2 DEF MuteRecorded
        <5> QED BY <4>3, <5>1, <5>2 DEF Noted, Owed
      <4>4. Known(st.games, st'.streams, Scene)
        <5> DEFINE q == [game |-> g, muted |-> g \in desk.muted]
                   c == Scene
        <5>1. q.game = g /\ q.muted = (g \in desk.muted)
          OBVIOUS
        <5>2. c.games = desk.games /\ c.over = desk.over /\ c.muted = was.muted /\ c.lost = left.lost
          BY DEF Scene
        <5>3. st'.streams = st.streams \cup {q}
          BY <3>2
        <5>4. Known(st.games, st.streams, c)
          BY DEF Audible, Sounds
        <5> HIDE DEF q, c
        <5>5. /\ q.game \in c.games \cup c.over /\ (~q.muted => q.game \notin c.muted)
              /\ (~c.lost /\ q.muted => q.game \in c.muted)
          BY <4>2, <4>3, <5>1, <5>2
        <5>6. Known(st.games, st'.streams, c)
          BY <5>3, <5>4, <5>5 DEF Known
        <5> QED BY <5>6 DEF c
      <4> QED BY <1>2, <2>9, <3>2, <4>4, MuteRecordDoes, Signs DEF CtlBut, StBut, Audible, Sounds
    <3> QED BY <1>2, <3>1, <3>2, MuteRecordDoes
  <2>2. Sessions' /\ Turns' /\ Unmuted'
    BY <1>2, <2>9, MuteRecordDoes, Signs, Waiting, BlankFields
       DEF At, CtlBut, Goes, StBut, MuteLabels, MuteTops, Audible, Sessions, Under, RefreshLabels,
           OnLabels, Turns, MuteRecorded, Unmuted, UnmuteTops, RestoreTops
  <2>3. Muting'
    <3>1. /\ session' = session /\ Top' = Top /\ ctl'.at \in {"yes", "no", "muteOne"} /\ ctl'.kept = ctl.kept
          /\ st.streams \subseteq st'.streams
      BY <1>2, MuteRecordDoes DEF CtlBut, Goes
    <3>2. At("muteNext") /\ ctl.at \in MuteLabels
      BY <1>2, MuteRecordDoes DEF At, MuteLabels
    <3>3. ~left'.lost => Noted(Owed', st'.streams)
      BY <2>9, <3>1, <3>2, MuteSession, NotedMore
    <3>4. session' # "none" /\ Top' \in MuteTops
      BY <3>1, <3>2, MuteSession
    <3> QED BY <3>1, <3>3, <3>4 DEF Muting, Live, Entering, Under, ResumeKept, ResumeLabels, EnterLabels, MuteTops
  <2> QED BY <2>1, <2>2, <2>3 DEF Audible
<1>3. CASE MuteOne
  <2>0. ctl.at \in MuteLabels /\ At("muteOne")
    BY <1>3, MuteOneDoes DEF At, MuteLabels
  <2>9. Scene' = Scene /\ left'.lost = left.lost
    BY <1>3, MuteOneDoes DEF Scene, DeskBut, Failed
  <2>1. Sounds'
    <3>1. /\ desk.muted \subseteq desk'.muted /\ desk'.muted \subseteq desk.muted \cup desk.games /\ was' = was
          /\ st' = st /\ disk' = disk /\ ctl'.kept = ctl.kept /\ desk'.games = desk.games /\ desk'.over = desk.over
          /\ desk'.inside = desk.inside
      BY <1>3, MuteOneDoes DEF DeskBut, CtlBut, Goes, Alive
    <3> QED BY <2>9, <3>1 DEF Audible, Sounds
  <2>2. Sessions' /\ Turns' /\ Unmuted'
    BY <1>3, <2>0, MuteOneDoes, Signs, Waiting, BlankFields
       DEF At, CtlBut, DeskBut, Goes, MuteLabels, MuteTops, Audible, Sessions, Under, RefreshLabels,
           OnLabels, Turns, MuteRecorded, Unmuted, UnmuteTops, RestoreTops
  <2>3. Muting'
    <3>1. /\ session' = session /\ Top' = Top /\ ctl'.at \in {"muteNext", "no"} /\ was' = was /\ st' = st
      BY <1>3, MuteOneDoes DEF Goes
    <3>2. PICK g \in ctl.todo : ctl.one = {g} /\ MuteRecorded(g)
      BY <2>0 DEF Audible, Turns
    <3>3. PICK q \in st.streams : q.game = g
      BY <3>2 DEF MuteRecorded
    <3>4. q \in Streams
      BY <3>3, Types, Fields
    <3>5. /\ q = [game |-> g, muted |-> q.muted] /\ q.muted \in BOOLEAN
      BY <3>3, <3>4 DEF Streams
    <3>6. ASSUME ~left.lost PROVE Noted(Owed', st'.streams)
      <4>1. Noted(Owed, st.streams)
        BY <3>6, <2>0, MuteSession
      <4>2. Owed' \subseteq Owed \cup ({g} \cap (desk.games \ was.muted))
        BY <1>3, <3>2, MuteOneDoes DEF Owed, Alive
      <4>3. q.muted => g \notin desk.games \ was.muted
        BY <3>3, <3>6 DEF Audible, Sounds, Known, Scene
      <4>4. ~q.muted => [game |-> g, muted |-> FALSE] \in st.streams
        BY <3>3, <3>5
      <4> QED BY <3>1, <3>5, <4>1, <4>2, <4>3, <4>4 DEF Noted
    <3>7. session' # "none" /\ Top' \in MuteTops
      BY <2>0, <3>1, MuteSession
    <3> QED BY <2>9, <3>1, <3>6, <3>7 DEF Muting, Live, Entering, Under, ResumeKept, ResumeLabels, EnterLabels, MuteTops
  <2> QED BY <2>1, <2>2, <2>3 DEF Audible
<1>4. CASE UnmuteGames
  <2>9. Scene' = Scene /\ Owed' = Owed /\ left'.lost = left.lost
    BY <1>4, UnmuteGamesDoes DEF Scene, Owed, Failed
  <2>1. Sounds' /\ Sessions' /\ Muting' /\ Turns' /\ Unmuted'
    BY <1>4, <2>9, UnmuteGamesDoes, Signs, BlankFields, Waiting
       DEF At, CtlBut, Goes, Audible, Sounds, UnmuteLabels, UnmuteTops, Sessions, Under,
           RefreshLabels, OnLabels, Muting, Live, Entering, ResumeKept, ResumeLabels, EnterLabels,
           OnFile, Returned, OnDisk, RestoreTops, Turns, MuteRecorded, Unmuted, MuteTops
  <2> QED BY <2>1 DEF Audible
<1>5. CASE UnmuteOne
  <2>0. /\ Typed' /\ At("unmuteNext") /\ UNCHANGED <<was, disk, st, session>> /\ DeskBut({"muted"})
        /\ desk'.muted \subseteq desk.muted /\ was.muted \subseteq desk'.muted /\ Owed' \subseteq Owed
        /\ Scene' = Scene /\ left'.lost = left.lost
        /\ ctl'.at \in {"yes", "no", "unmuted", "unmuteNext"} /\ Top' = Top /\ CtlBut({"todo", "one", "audio"})
    <3>1. CASE /\ Goes("yes") \/ Goes("no")
               /\ UNCHANGED <<desk, was, disk, st, session, left>>
      BY <1>5, <3>1, UnmuteOneDoes DEF Goes, CtlBut, DeskBut, Owed, Scene, Audible, Sounds
    <3>2. ASSUME NEW r \in ctl.todo,
                 /\ ctl'.at = "unmuted" /\ Top' = Top /\ CtlBut({"todo", "one"})
                 /\ (desk'.muted = IF r.muted THEN desk.muted ELSE desk.muted \ {r.game})
                 /\ DeskBut({"muted"}) /\ UNCHANGED <<was, disk, st, session, left>>
          PROVE  /\ DeskBut({"muted"}) /\ UNCHANGED <<was, disk, st, session>>
                 /\ desk'.muted \subseteq desk.muted /\ was.muted \subseteq desk'.muted /\ Owed' \subseteq Owed
                 /\ Scene' = Scene /\ left'.lost = left.lost
                 /\ ctl'.at = "unmuted" /\ Top' = Top /\ CtlBut({"todo", "one", "audio"})
      <4>1. r \in st.streams
        BY <1>5, UnmuteOneDoes DEF Audible, Turns
      <4>2. ~r.muted => r.game \notin was.muted
        BY <4>1 DEF Audible, Sounds, Known, Scene
      <4>3. was.muted \subseteq desk.muted
        BY DEF Audible, Sounds
      <4>4. desk'.muted \subseteq desk.muted /\ was.muted \subseteq desk'.muted
        BY <3>2, <4>2, <4>3
      <4> QED BY <3>2, <4>4 DEF CtlBut, DeskBut, Owed, Scene
    <3>3. ASSUME NEW r \in ctl.todo,
                 /\ ctl'.at = "unmuteNext" /\ Top' = Top /\ CtlBut({"todo", "audio"}) /\ Failed
                 /\ UNCHANGED <<desk, was, disk, st, session>>
          PROVE  /\ DeskBut({"muted"}) /\ UNCHANGED <<was, disk, st, session>>
                 /\ desk'.muted \subseteq desk.muted /\ was.muted \subseteq desk'.muted /\ Owed' \subseteq Owed
                 /\ Scene' = Scene /\ left'.lost = left.lost
                 /\ ctl'.at = "unmuteNext" /\ Top' = Top /\ CtlBut({"todo", "one", "audio"})
      BY <3>3 DEF CtlBut, DeskBut, Owed, Scene, Failed, Audible, Sounds
    <3> QED BY <1>5, <3>1, <3>2, <3>3, UnmuteOneDoes
  <2>1. Sounds'
    BY <2>0 DEF CtlBut, DeskBut, Audible, Sounds
  <2>2. Sessions'
    BY <1>5, <2>0, Signs, Waiting
       DEF At, CtlBut, DeskBut, Goes, UnmuteLabels, UnmuteTops, Audible, Sessions, Under, RefreshLabels, OnLabels
  <2>3. Muting'
    <3>1. Under(ResumeKept)' => Under(ResumeKept)
      BY <2>0 DEF Under, ResumeKept, ResumeLabels
    <3>2. Entering' => Entering
      BY <2>0 DEF Entering, Under, EnterLabels
    <3>3. Live /\ OnFile' = OnFile /\ ctl'.kept = ctl.kept
      BY <2>0 DEF Live, OnFile, CtlBut, At
    <3> QED BY <2>0, <3>1, <3>2, <3>3, Quieter DEF Audible, Muting
  <2>4. Turns'
    <3>1. /\ ctl.todo \subseteq st.streams /\ (ctl.audio => ctl.todo = st.streams)
      BY <2>0 DEF Audible, Turns
    <3>2. CASE Goes("yes") \/ Goes("no")
      BY <3>2 DEF Goes, Turns, At
    <3>3. ASSUME NEW r \in ctl.todo, ctl'.at = "unmuted", ctl'.todo = ctl.todo \ {r}, ctl'.one = {r}, ctl'.audio = ctl.audio,
                 desk'.muted = IF r.muted THEN desk.muted ELSE desk.muted \ {r.game}
          PROVE  Turns'
      BY <2>0, <3>1, <3>3 DEF Turns, At
    <3>4. ASSUME NEW r \in ctl.todo, ctl'.at = "unmuteNext", ctl'.todo = ctl.todo \ {r}, ~ctl'.audio
          PROVE  Turns'
      BY <2>0, <3>1, <3>4 DEF Turns, At
    <3> QED BY <1>5, <3>2, <3>3, <3>4, UnmuteOneDoes DEF CtlBut
  <2>5. Unmuted'
    <3>1. ctl'.at = "yes" => st.streams = {}
      BY <1>5, UnmuteOneDoes DEF Goes, Audible, Turns
    <3>2. Top \in UnmuteTops
      BY <2>0, Waiting DEF At, UnmuteLabels
    <3> QED BY <2>0, <3>1, <3>2 DEF Unmuted, Under, UnmuteTops, At
  <2> QED BY <2>1, <2>2, <2>3, <2>4, <2>5 DEF Audible
<1>6. CASE UnmuteRecord
  <2>0. /\ At("unmuted") /\ st'.games = st.games /\ st'.streams \subseteq st.streams /\ UNCHANGED <<desk, was, session>>
        /\ (disk' = disk \/ disk' = st') /\ ctl'.at = "unmuteNext" /\ Top' = Top /\ ctl'.kept = ctl.kept
        /\ (st'.streams = st.streams \/ st'.streams = st.streams \ ctl.one) /\ left'.lost = left.lost
    BY <1>6, UnmuteRecordDoes DEF CtlBut, StBut, Failed
  <2>9. Scene' = Scene /\ Owed' = Owed /\ left'.lost = left.lost
    BY <1>6, <2>0 DEF Scene, Owed, Failed
  <2>1. Sounds'
    <3>1. Known(st'.games, st'.streams, Scene)
      BY <2>0, KnownFewer DEF Audible, Sounds
    <3> QED BY <2>0, <2>9, <3>1 DEF Audible, Sounds
  <2>2. Sessions' /\ Turns' /\ Unmuted'
    BY <1>6, <2>0, <2>9, UnmuteRecordDoes, Signs, Waiting, BlankFields
       DEF At, CtlBut, StBut, UnmuteLabels, UnmuteTops, Audible, Sessions, Under, RefreshLabels,
           OnLabels, Turns, MuteRecorded, Unmuted, RestoreTops, MuteTops
  <2>3. Muting'
    <3>1. PICK r \in st.streams : ctl.one = {r} /\ (r.muted \/ r.game \notin desk.muted)
      BY <2>0 DEF Audible, Turns
    <3>2. Live
      BY <2>0 DEF Live, At
    <3>3. ASSUME ~left.lost PROVE Noted(Owed, st'.streams)
      <4>1. Noted(Owed, st.streams)
        BY <3>2, <3>3 DEF Audible, Muting
      <4>2. Noted(Owed, st.streams \ {r})
        <5> SUFFICES ASSUME NEW g \in Owed PROVE [game |-> g, muted |-> FALSE] \in st.streams \ {r}
          BY DEF Noted
        <5>1. [game |-> g, muted |-> FALSE] \in st.streams
          BY <4>1 DEF Noted
        <5>2. r # [game |-> g, muted |-> FALSE]
          BY <3>1 DEF Owed
        <5> QED BY <5>1, <5>2
      <4> QED BY <2>0, <3>1, <4>1, <4>2
    <3>4. Under(ResumeKept)' => Under(ResumeKept)
      BY <2>0 DEF Under, ResumeKept, ResumeLabels
    <3>5. Entering' => Entering
      BY <2>0 DEF Entering, Under, EnterLabels
    <3>6. OnFile' = OnFile \/ OnFile' = st'.streams
      BY <1>6, <2>0, UnmuteRecordDoes, Signs DEF OnFile
    <3>7. Entering => st'.streams = {}
      BY <2>0 DEF Audible, Muting
    <3> QED BY <2>0, <2>9, <3>3, <3>4, <3>5, <3>6, <3>7 DEF Audible, Muting
  <2> QED BY <2>1, <2>2, <2>3 DEF Audible
<1> QED BY <1>1, <1>2, <1>3, <1>4, <1>5, <1>6 DEF Mutes

LEMMA SettlesAudible ==
  ASSUME Typed, OnDisk, Audible, Settles
  PROVE  Audible'
<1>1. CASE Settle
  <2>9. Scene' = Scene /\ Owed' = Owed /\ left'.lost = left.lost
    BY <1>1, SettleDoes DEF Scene, Owed
  <2>1. Sounds'
    <3>1. Known(st'.games, st'.streams, Scene)
      BY <1>1, SettleDoes, KnownAlive DEF StBut, Audible, Sounds
    <3> QED BY <1>1, <2>9, <3>1, SettleDoes DEF CtlBut, Audible, Sounds
  <2>2. Sessions' /\ Muting' /\ Unmuted'
    BY <1>1, <2>9, SettleDoes, Signs, Waiting, BlankFields
       DEF At, CtlBut, StBut, SettleLabels, FinishTops, Audible, Sessions, Under, RefreshLabels,
           OnLabels, Muting, Live, Entering, ResumeKept, ResumeLabels, EnterLabels, OnFile, Sounds,
           Returned, OnDisk, RestoreTops, Unmuted, UnmuteTops, MuteTops
  <2>3. Turns'
    BY <1>1, <2>9, SettleDoes, NoTurns
       DEF At, CtlBut, StBut
  <2> QED BY <2>1, <2>2, <2>3 DEF Audible
<1>2. CASE Expose
  <2>9. Scene' = Scene /\ Owed' = Owed /\ left'.lost = left.lost
    BY <1>2, ExposeDoes DEF Scene, Owed, DeskBut, Failed
  <2>1. Sounds' /\ Sessions' /\ Muting' /\ Unmuted'
    BY <1>2, <2>9, ExposeDoes, Signs, BlankFields, Waiting
       DEF At, Calls, CtlBut, DeskBut, Goes, Audible, Sounds, SettleLabels, FinishTops, Sessions,
           Under, RefreshLabels, OnLabels, Muting, Live, Entering, ResumeKept, ResumeLabels,
           EnterLabels, OnFile, Returned, OnDisk, RestoreTops, Unmuted, UnmuteTops, MuteTops
  <2>2. Turns'
    BY <1>2, <2>9, ExposeDoes, NoTurns
       DEF At, Calls, CtlBut, DeskBut, Goes
  <2> QED BY <2>1, <2>2 DEF Audible
<1>3. CASE Settled
  <2>9. Scene' = Scene /\ Owed' = Owed /\ left'.lost = left.lost
    BY <1>3, SettledCases DEF Scene, Owed
  <2>1. Sounds'
    BY <1>3, SettledCases, <2>9, Signs, BlankFields, KnownNone
       DEF At, CtlBut, Goes, Passes, Rests, Audible, Sounds
  <2>2. Sessions'
    BY <1>3, SettledCases, <2>9, Signs, Waiting, Callers
       DEF At, CtlBut, Goes, Passes, Rests, SettleLabels, FinishTops, LowTops, Audible, Sessions, Under, RefreshLabels, OnLabels
  <2>3. Muting'
    <3>1. CASE Goes("unsettled") /\ UNCHANGED <<desk, was, disk, st, session, left>>
      BY <1>3, SettledCases, <2>9, <3>1 DEF Goes, CtlBut, At, Audible, Muting, Live, Entering, Under, ResumeKept, ResumeLabels, EnterLabels,
         OnFile
    <3>2. CASE ctl.ok /\ st' = Blank /\ disk' = NoRecord /\ session' = "none" /\ (Passes(TRUE) \/ Rests)
      <4>1. ~left.lost => Owed = {}
        BY <1>3, SettledCases, <3>2, NothingOwed DEF Audible, Unmuted, UnmuteTops, Live, At
      <4>2. ctl'.at \in {"idle", "entered", "exited", "no", "resume"} /\ Top' \notin ResumeKept \cup EnterLabels
        BY <1>3, SettledCases, <3>2, Waiting DEF At, Passes, Rests, LowTops, FinishTops, SettleLabels, ResumeKept, ResumeLabels, EnterLabels
      <4> QED BY <2>9, <3>2, <4>1, <4>2, BlankFields, NotedNone
              DEF Muting, Live, Entering, Under, ResumeKept, ResumeLabels, EnterLabels
    <3> QED BY <1>3, SettledCases, <3>1, <3>2
  <2>4. Turns'
    BY <1>3, SettledCases, <2>9, NoTurns, Callers
       DEF At, CtlBut, Goes, Passes, Rests, AllTops, RestoreTops, MuteTops, UnmuteTops, FinishTops
  <2>5. Unmuted'
    BY <1>3, SettledCases, <2>9, Signs, BlankFields, Waiting, Callers
       DEF At, CtlBut, Goes, Passes, Rests, SettleLabels, FinishTops, LowTops, Audible, Unmuted, Under, UnmuteTops, RestoreTops, MuteTops
  <2> QED BY <2>1, <2>2, <2>3, <2>4, <2>5 DEF Audible
<1>4. CASE Unsettled
  <2>9. Scene' = Scene /\ Owed' = Owed /\ left'.lost = left.lost
    BY <1>4, UnsettledCases DEF Scene, Owed, Failed
  <2>1. Sounds'
    BY <1>4, UnsettledCases, <2>9, Signs, BlankFields, KnownNone
       DEF At, CtlBut, Passes, Rests, Audible, Sounds
  <2>2. Sessions'
    BY <1>4, UnsettledCases, <2>9, Signs, Waiting, Callers
       DEF At, CtlBut, Passes, Rests, SettleLabels, FinishTops, LowTops, Audible, Sessions, Under, RefreshLabels, OnLabels
  <2>3. Muting'
    BY <1>4, UnsettledCases, <2>9, Signs, BlankFields, Waiting, Callers
       DEF At, CtlBut, Passes, Rests, SettleLabels, FinishTops, LowTops, Audible, Muting, Under, Live, Entering, ResumeKept, ResumeLabels, EnterLabels, OnFile, Sounds, Sessions, Returned, OnDisk, RestoreTops
  <2>4. Turns'
    BY <1>4, UnsettledCases, <2>9, NoTurns, Callers
       DEF At, CtlBut, Passes, Rests, AllTops, RestoreTops, MuteTops, UnmuteTops, FinishTops
  <2>5. Unmuted'
    BY <1>4, UnsettledCases, <2>9, Signs, BlankFields, Waiting, Callers
       DEF At, CtlBut, Passes, Rests, SettleLabels, FinishTops, LowTops, Audible, Unmuted, Under, UnmuteTops, RestoreTops, MuteTops
  <2> QED BY <2>1, <2>2, <2>3, <2>4, <2>5 DEF Audible
<1>5. CASE FinishRetention
  <2>0. /\ Typed' /\ At("finish") /\ UNCHANGED <<desk, was, session>> /\ ctl'.kept = ctl.kept
        /\ st'.streams = st.streams /\ st'.games \subseteq st.games /\ left'.lost = left.lost
        /\ \/ ctl'.at = "quiet" /\ Top' = "settle"
              /\ disk' # NoRecord /\ disk'.streams = st.streams /\ disk'.games = st.games
           \/ ctl'.at = "no" /\ Top' = Top /\ disk' = disk
    <3> DEFINE e == [st EXCEPT !.ending = TRUE]
    <3>1. /\ e \in Records /\ e.streams = st.streams /\ e.games = st.games
      BY Types DEF Records
    <3>2. e # NoRecord
      BY <3>1, GameModeAssumption
    <3> HIDE DEF e
    <3>3. Alive(st.games) \subseteq st.games
      BY DEF Alive
    <3>4. CASE /\ CallsRestore(TRUE, FALSE, "settle") /\ StBut({"ending", "games"}) /\ st'.games = Alive(st.games)
               /\ disk' = e /\ UNCHANGED <<desk, was, session, left>>
      BY <1>5, <3>1, <3>2, <3>3, <3>4, FinishRetentionDoes DEF CallsRestore, CtlBut, StBut
    <3>5. CASE Goes("no") /\ StBut({"ending"}) /\ Failed /\ UNCHANGED <<desk, was, disk, session>>
      BY <1>5, <3>5, FinishRetentionDoes DEF Goes, CtlBut, StBut, Failed
    <3> QED BY <1>5, <3>4, <3>5, FinishRetentionDoes DEF e
  <2>9. Scene' = Scene /\ Owed' = Owed /\ left'.lost = left.lost
    BY <1>5, <2>0 DEF Scene, Owed, Failed
  <2>1. Sounds'
    <3>1. Known(st'.games, st'.streams, Scene)
      BY <2>0, KnownFewer DEF Audible, Sounds
    <3> QED BY <2>0, <2>9, <3>1 DEF Audible, Sounds
  <2>2. Sessions'
    BY <1>5, <2>0, <2>9, Signs, Waiting
       DEF At, CallsRestore, CtlBut, Goes, StBut, Audible, Sessions, Under, RefreshLabels, OnLabels
  <2>3. Muting'
    <3>1. Live /\ (~left.lost => Noted(Owed, st.streams)) /\ st'.streams = st.streams
      BY <2>0 DEF Live, At, Audible, Muting
    <3>2. OnFile' = OnFile \/ OnFile' = st.streams
      BY <2>0 DEF OnFile
    <3>3. ~Entering' /\ ~Under(ResumeKept)'
      BY <2>0, Waiting DEF At, FinishTops, Entering, Under, EnterLabels, ResumeKept, ResumeLabels
    <3> QED BY <2>0, <2>9, <3>1, <3>2, <3>3 DEF Audible, Muting
  <2>4. Turns'
    BY <1>5, <2>0, <2>9, NoTurns
       DEF At, CallsRestore, CtlBut, Goes, StBut
  <2>5. Unmuted'
    BY <2>0, Waiting DEF At, FinishTops, Unmuted, Under, UnmuteTops
  <2> QED BY <2>1, <2>2, <2>3, <2>4, <2>5 DEF Audible
<1>6. CASE Recover
  <2>9. Scene' = Scene /\ Owed' = Owed /\ left'.lost = left.lost
    BY <1>6, RecoverCases DEF Scene, Owed
  <2>1. Sounds' /\ Sessions' /\ Unmuted'
    BY <1>6, RecoverCases, <2>9, Signs, BlankFields, KnownNone, Waiting, Callers
       DEF At, CallsRestore, CtlBut, Passes, Rests, Audible, Sounds, LowTops, FinishTops, Sessions,
           Under, RefreshLabels, OnLabels, Unmuted, UnmuteTops, RestoreTops, MuteTops
  <2>2. Muting'
    <3>1. session = "none" /\ session' = session /\ OnFile' = OnFile /\ (~left.lost => Noted(Owed, OnFile))
      BY <1>6, RecoverCases DEF OnFile, OnDisk, Desktop, Audible, Muting
    <3>2. ~Entering' /\ ~Under(ResumeKept)'
      BY <1>6, RecoverCases, Waiting DEF At, CallsRestore, Passes, Rests, LowTops, FinishTops, Entering, Under, EnterLabels,
         ResumeKept, ResumeLabels
    <3>3. Live' => disk # NoRecord /\ st' = disk
      BY <1>6, RecoverCases, <3>1, Waiting DEF At, Live, Passes, Rests
    <3>4. Live' => st'.streams = OnFile
      BY <3>3 DEF OnFile
    <3> QED BY <2>9, <3>1, <3>2, <3>4 DEF Muting
  <2>3. Turns'
    BY <1>6, RecoverCases, <2>9, NoTurns, Callers
       DEF At, CallsRestore, CtlBut, Passes, Rests, AllTops, RestoreTops, MuteTops, UnmuteTops, FinishTops
  <2> QED BY <2>1, <2>2, <2>3 DEF Audible
<1>7. CASE RecoverAtStart
  <2>9. Scene' = Scene /\ Owed' = Owed /\ left'.lost = left.lost
    BY <1>7, RecoverAtStartDoes DEF Scene, Owed, Afresh
  <2>1. Sounds' /\ Sessions' /\ Muting' /\ Unmuted'
    BY <1>7, <2>9, RecoverAtStartDoes, Signs, BlankFields, Waiting
       DEF At, CtlBut, Audible, Sounds, Sessions, Under, RefreshLabels, OnLabels, Muting, Live,
           Entering, ResumeKept, ResumeLabels, EnterLabels, OnFile, Returned, OnDisk, RestoreTops,
           Unmuted, UnmuteTops, MuteTops
  <2>2. Turns'
    BY <1>7, <2>9, RecoverAtStartDoes, NoTurns
       DEF At, CtlBut
  <2> QED BY <2>1, <2>2 DEF Audible
<1> QED BY <1>1, <1>2, <1>3, <1>4, <1>5, <1>6, <1>7 DEF Settles

LEMMA EntersAudible ==
  ASSUME Typed, OnDisk, Audible, Enters
  PROVE  Audible'
<1>1. ASSUME NEW k \in Kinds, Enter(k) PROVE Audible'
  <2>9. Scene' = Scene /\ Owed' = Owed /\ left'.lost = left.lost
    BY <1>1, EnterDoes DEF Scene, Owed, Afresh
  <2>1. Sounds' /\ Sessions' /\ Muting' /\ Unmuted'
    BY <1>1, <2>9, EnterDoes, Signs, BlankFields, Waiting
       DEF At, CtlBut, Audible, Sounds, Sessions, Under, RefreshLabels, OnLabels, Muting, Live,
           Entering, ResumeKept, ResumeLabels, EnterLabels, OnFile, Returned, OnDisk, RestoreTops,
           Unmuted, UnmuteTops, MuteTops
  <2>2. Turns'
    BY <1>1, <2>9, EnterDoes, NoTurns
       DEF At, CtlBut
  <2> QED BY <2>1, <2>2 DEF Audible
<1>2. CASE Entered
  <2>9. Scene' = Scene /\ Owed' = Owed /\ left'.lost = left.lost
    BY <1>2, EnteredCases DEF Scene, Owed
  <2>1. Sounds'
    BY <1>2, EnteredCases, <2>9, Signs, BlankFields, KnownNone
       DEF At, CtlBut, Goes, StBut, Rests, Audible, Sounds
  <2>2. Sessions'
    BY <1>2, EnteredCases, <2>9, Signs, Waiting, Callers
       DEF At, CtlBut, Goes, StBut, Rests, LowTops, FinishTops, Audible, Sessions, Under, RefreshLabels, OnLabels
  <2>3. Muting'
    BY <1>2, EnteredCases, <2>9, Signs, BlankFields, Waiting, Callers
       DEF At, CtlBut, Goes, StBut, Rests, LowTops, FinishTops, Audible, Muting, Under, Live, Entering, ResumeKept, ResumeLabels, EnterLabels, OnFile, Sounds, Sessions, Returned, OnDisk, RestoreTops
  <2>4. Turns'
    BY <1>2, EnteredCases, <2>9, NoTurns, Callers
       DEF At, CtlBut, Goes, StBut, Rests, AllTops, RestoreTops, MuteTops, UnmuteTops, FinishTops
  <2>5. Unmuted'
    BY <1>2, EnteredCases, <2>9, Signs, BlankFields, Waiting, Callers
       DEF At, CtlBut, Goes, StBut, Rests, LowTops, FinishTops, Audible, Unmuted, Under, UnmuteTops, RestoreTops, MuteTops
  <2> QED BY <2>1, <2>2, <2>3, <2>4, <2>5 DEF Audible
<1>3. CASE EnterOutput
  <2>9. Scene' = Scene /\ Owed' = Owed /\ left'.lost = left.lost
    BY <1>3, EnterOutputDoes DEF Scene, Owed, Failed
  <2>1. Sounds'
    BY <1>3, <2>9, EnterOutputDoes, Signs, BlankFields, KnownNone
       DEF At, CtlBut, Goes, StBut, Audible, Sounds
  <2>2. Sessions'
    BY <1>3, <2>9, EnterOutputDoes, Signs, Waiting
       DEF At, CtlBut, Goes, StBut, EnterLabels, Audible, Sessions, Under, RefreshLabels, OnLabels
  <2>3. Muting'
    BY <1>3, <2>9, EnterOutputDoes, Signs, BlankFields, Waiting
       DEF At, CtlBut, Goes, StBut, EnterLabels, Audible, Muting, Under, Live, Entering, ResumeKept, ResumeLabels, OnFile, Sounds, Sessions, Returned, OnDisk, RestoreTops
  <2>4. Turns'
    BY <1>3, <2>9, EnterOutputDoes, NoTurns
       DEF At, CtlBut, Goes, StBut
  <2>5. Unmuted'
    BY <1>3, <2>9, EnterOutputDoes, Signs, BlankFields, Waiting
       DEF At, CtlBut, Goes, StBut, EnterLabels, Audible, Unmuted, Under, UnmuteTops, RestoreTops, MuteTops
  <2> QED BY <2>1, <2>2, <2>3, <2>4, <2>5 DEF Audible
<1>4. CASE EnterLight
  <2>9. Scene' = Scene /\ Owed' = Owed /\ left'.lost = left.lost
    BY <1>4, EnterLightDoes DEF Scene, Owed, DeskBut, Failed
  <2>1. Sounds' /\ Sessions' /\ Muting' /\ Unmuted'
    BY <1>4, <2>9, EnterLightDoes, Signs, BlankFields, Waiting
       DEF At, CtlBut, DeskBut, Goes, Audible, Sounds, EnterLabels, Sessions, Under, RefreshLabels,
           OnLabels, Muting, Live, Entering, ResumeKept, ResumeLabels, OnFile, Returned, OnDisk,
           RestoreTops, Unmuted, UnmuteTops, MuteTops
  <2>2. Turns'
    BY <1>4, <2>9, EnterLightDoes, NoTurns
       DEF At, CtlBut, DeskBut, Goes
  <2> QED BY <2>1, <2>2 DEF Audible
<1>5. CASE EnterSink
  <2>9. Scene' = Scene /\ Owed' = Owed /\ left'.lost = left.lost
    BY <1>5, EnterSinkDoes DEF Scene, Owed, Failed
  <2>1. Sounds' /\ Sessions' /\ Muting' /\ Unmuted'
    BY <1>5, <2>9, EnterSinkDoes, Signs, BlankFields, Waiting
       DEF At, CtlBut, Goes, StBut, Audible, Sounds, EnterLabels, Sessions, Under, RefreshLabels,
           OnLabels, Muting, Live, Entering, ResumeKept, ResumeLabels, OnFile, Returned, OnDisk,
           RestoreTops, Unmuted, UnmuteTops, MuteTops
  <2>2. Turns'
    BY <1>5, <2>9, EnterSinkDoes, NoTurns
       DEF At, CtlBut, Goes, StBut
  <2> QED BY <2>1, <2>2 DEF Audible
<1>6. CASE EnterSetSink
  <2>9. Scene' = Scene /\ Owed' = Owed /\ left'.lost = left.lost
    BY <1>6, EnterSetSinkDoes DEF Scene, Owed, DeskBut, Failed
  <2>1. Sounds' /\ Sessions' /\ Muting' /\ Unmuted'
    BY <1>6, <2>9, EnterSetSinkDoes, Signs, BlankFields, Waiting
       DEF At, CtlBut, DeskBut, Goes, Audible, Sounds, EnterLabels, Sessions, Under, RefreshLabels,
           OnLabels, Muting, Live, Entering, ResumeKept, ResumeLabels, OnFile, Returned, OnDisk,
           RestoreTops, Unmuted, UnmuteTops, MuteTops
  <2>2. Turns'
    BY <1>6, <2>9, EnterSetSinkDoes, NoTurns
       DEF At, CtlBut, DeskBut, Goes
  <2> QED BY <2>1, <2>2 DEF Audible
<1>7. CASE EnterWindow
  <2>9. Scene' = Scene /\ Owed' = Owed /\ left'.lost = left.lost
    BY <1>7, EnterWindowDoes DEF Scene, Owed, Failed
  <2>1. Sounds' /\ Sessions' /\ Muting' /\ Unmuted'
    BY <1>7, <2>9, EnterWindowDoes, Signs, BlankFields, Waiting
       DEF At, CtlBut, Goes, StBut, Audible, Sounds, EnterLabels, Sessions, Under, RefreshLabels,
           OnLabels, Muting, Live, Entering, ResumeKept, ResumeLabels, OnFile, Returned, OnDisk,
           RestoreTops, Unmuted, UnmuteTops, MuteTops
  <2>2. Turns'
    BY <1>7, <2>9, EnterWindowDoes, NoTurns
       DEF At, CtlBut, Goes, StBut
  <2> QED BY <2>1, <2>2 DEF Audible
<1>8. CASE EnterPlace
  <2>9. Scene' = Scene /\ Owed' = Owed /\ left'.lost = left.lost
    BY <1>8, EnterPlaceDoes DEF Scene, Owed, DeskBut, Failed
  <2>1. Sounds' /\ Sessions' /\ Muting' /\ Unmuted'
    BY <1>8, <2>9, EnterPlaceDoes, Signs, BlankFields, Waiting
       DEF At, CtlBut, DeskBut, Goes, Audible, Sounds, EnterLabels, Sessions, Under, RefreshLabels,
           OnLabels, Muting, Live, Entering, ResumeKept, ResumeLabels, OnFile, Returned, OnDisk,
           RestoreTops, Unmuted, UnmuteTops, MuteTops
  <2>2. Turns'
    BY <1>8, <2>9, EnterPlaceDoes, NoTurns
       DEF At, CtlBut, DeskBut, Goes
  <2> QED BY <2>1, <2>2 DEF Audible
<1>9. CASE EnterQuiet
  <2>9. Scene' = Scene /\ Owed' = Owed /\ left'.lost = left.lost
    BY <1>9, EnterQuietDoes DEF Scene, Owed, Failed
  <2>1. Sounds' /\ Sessions' /\ Muting' /\ Unmuted'
    BY <1>9, <2>9, EnterQuietDoes, Signs, BlankFields, Waiting
       DEF At, CtlBut, Goes, StBut, Audible, Sounds, EnterLabels, Sessions, Under, RefreshLabels,
           OnLabels, Muting, Live, Entering, ResumeKept, ResumeLabels, OnFile, Returned, OnDisk,
           RestoreTops, Unmuted, UnmuteTops, MuteTops
  <2>2. Turns'
    BY <1>9, <2>9, EnterQuietDoes, NoTurns
       DEF At, CtlBut, Goes, StBut
  <2> QED BY <2>1, <2>2 DEF Audible
<1>10. CASE EnterSilence
  <2>9. Scene' = Scene /\ Owed' = Owed /\ left'.lost = left.lost
    BY <1>10, EnterSilenceDoes DEF Scene, Owed, DeskBut, Failed
  <2>1. Sounds' /\ Sessions' /\ Muting' /\ Unmuted'
    BY <1>10, <2>9, EnterSilenceDoes, Signs, BlankFields, Waiting
       DEF At, CtlBut, DeskBut, Goes, Audible, Sounds, EnterLabels, Sessions, Under, RefreshLabels,
           OnLabels, Muting, Live, Entering, ResumeKept, ResumeLabels, OnFile, Returned, OnDisk,
           RestoreTops, Unmuted, UnmuteTops, MuteTops
  <2>2. Turns'
    BY <1>10, <2>9, EnterSilenceDoes, NoTurns
       DEF At, CtlBut, DeskBut, Goes
  <2> QED BY <2>1, <2>2 DEF Audible
<1>11. CASE EnterLoud
  <2>9. Scene' = Scene /\ Owed' = Owed /\ left'.lost = left.lost
    BY <1>11, EnterLoudDoes DEF Scene, Owed, Failed
  <2>1. Sounds' /\ Sessions' /\ Muting' /\ Unmuted'
    BY <1>11, <2>9, EnterLoudDoes, Signs, BlankFields, Waiting
       DEF At, CtlBut, Goes, StBut, Audible, Sounds, EnterLabels, Sessions, Under, RefreshLabels,
           OnLabels, Muting, Live, Entering, ResumeKept, ResumeLabels, OnFile, Returned, OnDisk,
           RestoreTops, Unmuted, UnmuteTops, MuteTops
  <2>2. Turns'
    BY <1>11, <2>9, EnterLoudDoes, NoTurns
       DEF At, CtlBut, Goes, StBut
  <2> QED BY <2>1, <2>2 DEF Audible
<1>12. CASE EnterLast
  <2>9. Scene' = Scene /\ Owed' = Owed /\ left'.lost = left.lost
    BY <1>12, EnterLastCases DEF Scene, Owed, Failed
  <2>1. Sounds' /\ Sessions' /\ Muting' /\ Unmuted'
    BY <1>12, EnterLastCases, <2>9, Signs, BlankFields, KnownNone, Waiting, Callers
       DEF At, CtlBut, Goes, Rests, Audible, Sounds, EnterLabels, LowTops, FinishTops, Sessions,
           Under, RefreshLabels, OnLabels, Muting, Live, Entering, ResumeKept, ResumeLabels, OnFile,
           Returned, OnDisk, RestoreTops, Unmuted, UnmuteTops, MuteTops
  <2>2. Turns'
    BY <1>12, EnterLastCases, <2>9, NoTurns, Callers
       DEF At, CtlBut, Goes, Rests, AllTops, RestoreTops, MuteTops, UnmuteTops, FinishTops
  <2> QED BY <2>1, <2>2 DEF Audible
<1>13. CASE EnterFail
  <2>9. Scene' = Scene /\ Owed' = Owed /\ left'.lost = left.lost
    BY <1>13, EnterFailDoes DEF Scene, Owed
  <2>1. Sounds' /\ Sessions' /\ Muting' /\ Unmuted'
    BY <1>13, <2>9, EnterFailDoes, Signs, BlankFields, Waiting
       DEF At, CallsRestore, CtlBut, Audible, Sounds, EnterLabels, Sessions, Under, RefreshLabels,
           OnLabels, Muting, Live, Entering, ResumeKept, ResumeLabels, OnFile, Returned, OnDisk,
           RestoreTops, Unmuted, UnmuteTops, MuteTops
  <2>2. Turns'
    BY <1>13, <2>9, EnterFailDoes, NoTurns
       DEF At, CallsRestore, CtlBut
  <2> QED BY <2>1, <2>2 DEF Audible
<1>14. CASE EnterFailed
  <2>9. Scene' = Scene /\ Owed' = Owed /\ left'.lost = left.lost
    BY <1>14, EnterFailedCases DEF Scene, Owed, Failed
  <2>1. Sounds' /\ Sessions' /\ Muting' /\ Unmuted'
    BY <1>14, EnterFailedCases, <2>9, Signs, BlankFields, KnownNone, Waiting, Callers
       DEF At, CtlBut, Rests, Audible, Sounds, EnterLabels, LowTops, FinishTops, Sessions, Under,
           RefreshLabels, OnLabels, Muting, Live, Entering, ResumeKept, ResumeLabels, OnFile,
           Returned, OnDisk, RestoreTops, Unmuted, UnmuteTops, MuteTops
  <2>2. Turns'
    BY <1>14, EnterFailedCases, <2>9, NoTurns, Callers
       DEF At, CtlBut, Rests, AllTops, RestoreTops, MuteTops, UnmuteTops, FinishTops
  <2> QED BY <2>1, <2>2 DEF Audible
<1> QED BY <1>1, <1>2, <1>3, <1>4, <1>5, <1>6, <1>7, <1>8, <1>9, <1>10, <1>11, <1>12, <1>13, <1>14 DEF Enters

LEMMA ParksAudible ==
  ASSUME Typed, OnDisk, Audible, Parks
  PROVE  Audible'
<1>1. CASE Park
  <2>9. Scene' = Scene /\ Owed' = Owed /\ left'.lost = left.lost
    BY <1>1, ParkDoes DEF Scene, Owed, Afresh
  <2>1. Sounds' /\ Sessions' /\ Muting' /\ Unmuted'
    BY <1>1, <2>9, ParkDoes, Signs, BlankFields, Waiting
       DEF At, CtlBut, Audible, Sounds, Sessions, Under, RefreshLabels, OnLabels, Muting, Live,
           Entering, ResumeKept, ResumeLabels, EnterLabels, OnFile, Returned, OnDisk, RestoreTops,
           Unmuted, UnmuteTops, MuteTops
  <2>2. Turns'
    BY <1>1, <2>9, ParkDoes, NoTurns
       DEF At, CtlBut
  <2> QED BY <2>1, <2>2 DEF Audible
<1>2. CASE ParkDiscover
  <2>9. Scene' = Scene /\ Owed' = Owed /\ left'.lost = left.lost
    BY <1>2, ParkDiscoverDoes DEF Scene, Owed, Failed
  <2>1. Sounds'
    <3>1. Known(st'.games, st'.streams, Scene)
      <4>1. desk.inside \subseteq Scene.games \cup Scene.over
        BY DEF Scene, Audible, Sounds
      <4>2. st'.streams = st.streams /\ st'.games \in {st.games, desk.inside}
        BY <1>2, ParkDiscoverDoes DEF StBut
      <4> QED BY <4>1, <4>2, KnownAnew DEF Audible, Sounds
    <3>2. /\ desk' = desk /\ was' = was /\ ctl'.kept \in {st, ctl.kept} /\ disk' \in {disk, st'}
      BY <1>2, ParkDiscoverDoes DEF Goes, CtlBut
    <3> QED BY <2>9, <3>1, <3>2, Signs DEF Audible, Sounds
  <2>2. Sessions' /\ Muting' /\ Unmuted'
    BY <1>2, <2>9, ParkDiscoverDoes, Signs, Waiting, BlankFields
       DEF At, CtlBut, Goes, StBut, ParkLabels, Audible, Sessions, Under, RefreshLabels, OnLabels,
           Muting, Live, Entering, ResumeKept, ResumeLabels, EnterLabels, OnFile, Sounds, Returned,
           OnDisk, RestoreTops, Unmuted, UnmuteTops, MuteTops
  <2>3. Turns'
    BY <1>2, <2>9, ParkDiscoverDoes, NoTurns
       DEF At, CtlBut, Goes, StBut
  <2> QED BY <2>1, <2>2, <2>3 DEF Audible
<1>3. CASE ParkMuted
  <2>9. Scene' = Scene /\ Owed' = Owed /\ left'.lost = left.lost
    BY <1>3, ParkMutedDoes DEF Scene, Owed
  <2>1. Sounds' /\ Sessions' /\ Muting' /\ Unmuted'
    BY <1>3, <2>9, ParkMutedDoes, Signs, BlankFields, Waiting
       DEF At, Calls, CtlBut, Goes, Audible, Sounds, ParkLabels, Sessions, Under, RefreshLabels,
           OnLabels, Muting, Live, Entering, ResumeKept, ResumeLabels, EnterLabels, OnFile,
           Returned, OnDisk, RestoreTops, Unmuted, UnmuteTops, MuteTops
  <2>2. Turns'
    BY <1>3, <2>9, ParkMutedDoes, NoTurns
       DEF At, Calls, CtlBut, Goes
  <2> QED BY <2>1, <2>2 DEF Audible
<1>4. CASE ParkUnmuted
  <2>9. Scene' = Scene /\ Owed' = Owed /\ left'.lost = left.lost
    BY <1>4, ParkUnmutedCases DEF Scene, Owed, Failed
  <2>1. Sounds' /\ Sessions' /\ Unmuted'
    BY <1>4, ParkUnmutedCases, <2>9, Signs, BlankFields, KnownNone, Waiting, Callers
       DEF At, CtlBut, Rests, Audible, Sounds, ParkLabels, LowTops, FinishTops, Sessions, Under,
           RefreshLabels, OnLabels, Unmuted, UnmuteTops, RestoreTops, MuteTops
  <2>2. Muting'
    <3>3. session' = session /\ session = "active" /\ ctl'.at = "idle" /\ Top' = "idle"
      BY <1>4, ParkUnmutedCases DEF Rests, At, Audible, Sessions, OnLabels, Under
    <3>4. ~left.lost => Noted(Owed, st'.streams)
      <4>1. CASE ctl.ok
        <5>1. ~left.lost => Owed = {}
          BY <1>4, ParkUnmutedCases, <3>3, <4>1, NothingOwed DEF Audible, Unmuted, UnmuteTops, Live, At
        <5> QED BY <5>1, NotedNone
      <4>2. CASE ~ctl.ok
        BY <1>4, ParkUnmutedCases, <3>3, <4>2 DEF Audible, Muting, Live
      <4> QED BY <4>1, <4>2
    <3> QED BY <2>9, <3>3, <3>4 DEF Muting, Live, Entering, Under, ResumeKept, ResumeLabels, EnterLabels
  <2>3. Turns'
    BY <1>4, ParkUnmutedCases, <2>9, NoTurns, Callers
       DEF At, CtlBut, Rests, AllTops, RestoreTops, MuteTops, UnmuteTops, FinishTops
  <2> QED BY <2>1, <2>2, <2>3 DEF Audible
<1>5. CASE ParkRestore
  <2>9. Scene' = Scene /\ Owed' = Owed /\ left'.lost = left.lost
    BY <1>5, ParkRestoreDoes DEF Scene, Owed
  <2>1. Sounds' /\ Sessions' /\ Muting' /\ Unmuted'
    BY <1>5, <2>9, ParkRestoreDoes, Signs, BlankFields, Waiting
       DEF At, CallsRestore, CtlBut, Audible, Sounds, ParkLabels, Sessions, Under, RefreshLabels,
           OnLabels, Muting, Live, Entering, ResumeKept, ResumeLabels, EnterLabels, OnFile,
           Returned, OnDisk, RestoreTops, Unmuted, UnmuteTops, MuteTops
  <2>2. Turns'
    BY <1>5, <2>9, ParkRestoreDoes, NoTurns
       DEF At, CallsRestore, CtlBut
  <2> QED BY <2>1, <2>2 DEF Audible
<1>6. CASE ParkRestored
  <2>9. Scene' = Scene /\ Owed' = Owed /\ left'.lost = left.lost
    BY <1>6, ParkRestoredCases DEF Scene, Owed
  <2>1. Sounds' /\ Sessions' /\ Muting' /\ Unmuted'
    BY <1>6, ParkRestoredCases, <2>9, Signs, BlankFields, KnownNone, Waiting, Callers
       DEF At, CtlBut, Rests, Audible, Sounds, ParkLabels, LowTops, FinishTops, Sessions, Under,
           RefreshLabels, OnLabels, Muting, Live, Entering, ResumeKept, ResumeLabels, EnterLabels,
           OnFile, Returned, OnDisk, RestoreTops, Unmuted, UnmuteTops, MuteTops
  <2>2. Turns'
    BY <1>6, ParkRestoredCases, <2>9, NoTurns, Callers
       DEF At, CtlBut, Rests, AllTops, RestoreTops, MuteTops, UnmuteTops, FinishTops
  <2> QED BY <2>1, <2>2 DEF Audible
<1>7. CASE ParkRolledBack
  <2>9. Scene' = Scene /\ Owed' = Owed /\ left'.lost = left.lost
    BY <1>7, ParkRolledBackCases DEF Scene, Owed, Failed
  <2>1. Sounds' /\ Sessions' /\ Muting' /\ Unmuted'
    BY <1>7, ParkRolledBackCases, <2>9, Signs, BlankFields, KnownNone, Waiting, Callers
       DEF At, CtlBut, Rests, Audible, Sounds, ParkLabels, LowTops, FinishTops, Sessions, Under,
           RefreshLabels, OnLabels, Muting, Live, Entering, ResumeKept, ResumeLabels, EnterLabels,
           OnFile, Returned, OnDisk, RestoreTops, Unmuted, UnmuteTops, MuteTops
  <2>2. Turns'
    BY <1>7, ParkRolledBackCases, <2>9, NoTurns, Callers
       DEF At, CtlBut, Rests, AllTops, RestoreTops, MuteTops, UnmuteTops, FinishTops
  <2> QED BY <2>1, <2>2 DEF Audible
<1> QED BY <1>1, <1>2, <1>3, <1>4, <1>5, <1>6, <1>7 DEF Parks

LEMMA RefreshesAudible ==
  ASSUME Typed, OnDisk, Audible, Refreshes
  PROVE  Audible'
<1>1. CASE RefreshParked
  <2>9. Scene' = Scene /\ Owed' = Owed /\ left'.lost = left.lost
    BY <1>1, RefreshParkedDoes DEF Scene, Owed, Afresh
  <2>1. Sounds' /\ Sessions' /\ Muting' /\ Unmuted'
    BY <1>1, <2>9, RefreshParkedDoes, Signs, BlankFields, Waiting
       DEF At, CtlBut, Audible, Sounds, Sessions, Under, RefreshLabels, OnLabels, Muting, Live,
           Entering, ResumeKept, ResumeLabels, EnterLabels, OnFile, Returned, OnDisk, RestoreTops,
           Unmuted, UnmuteTops, MuteTops
  <2>2. Turns'
    BY <1>1, <2>9, RefreshParkedDoes, NoTurns
       DEF At, CtlBut
  <2> QED BY <2>1, <2>2 DEF Audible
<1>2. CASE RefreshDiscover
  <2>9. Scene' = Scene /\ Owed' = Owed /\ left'.lost = left.lost
    BY <1>2, RefreshDiscoverDoes DEF Scene, Owed, Failed
  <2>1. Sounds'
    <3>1. desk' = desk /\ was' = was /\ disk' = disk /\ ctl'.kept = ctl.kept /\ st'.streams \subseteq st.streams
      BY <1>2, RefreshDiscoverDoes DEF Goes, Calls, CtlBut, StBut
    <3>2. Known(st'.games, st'.streams, Scene)
      <4>1. st'.games \subseteq st.games \cup desk.inside
        BY <1>2, RefreshDiscoverDoes DEF StBut, Alive
      <4>2. Known(st.games, st'.streams, Scene)
        BY <3>1, KnownFewer DEF Audible, Sounds
      <4>3. st'.games \subseteq Scene.games \cup Scene.over
        BY <4>1 DEF Scene, Audible, Sounds, Known
      <4> QED BY <4>2, <4>3, KnownAnew
    <3> QED BY <2>9, <3>1, <3>2, Signs DEF Audible, Sounds
  <2>2. Sessions' /\ Unmuted'
    BY <1>2, <2>9, RefreshDiscoverDoes, Signs, Waiting, BlankFields
       DEF At, Calls, CtlBut, Goes, StBut, RefreshLabels, Audible, Sessions, Under, OnLabels,
           Unmuted, UnmuteTops, RestoreTops, MuteTops
  <2>3. Muting'
    <3>1. /\ session' = session /\ session # "none" /\ ctl'.at \in {"finish", "no", "unmute", "refreshStreams"}
          /\ Top' \in {"idle", "resume", "no", "refreshHeard"}
      BY <1>2, RefreshDiscoverDoes, Waiting DEF At, Goes, Calls, RefreshLabels, Audible, Sessions, Under
    <3>2. ASSUME ~left.lost PROVE Noted(Owed, st'.streams)
      <4>1. Noted(Owed, st.streams)
        BY <3>1, <3>2 DEF Audible, Muting, Live
      <4>2. Owed \subseteq desk.games
        BY DEF Owed, Audible, Sounds
      <4>3. st'.streams = st.streams \/ st'.streams = {q \in st.streams : q.game \in desk.games}
        BY <1>2, RefreshDiscoverDoes DEF StBut
      <4>4. Noted(Owed, {q \in st.streams : q.game \in desk.games})
        BY <4>1, <4>2 DEF Noted
      <4> QED BY <4>1, <4>3, <4>4
    <3> QED BY <2>9, <3>1, <3>2 DEF Muting, Live, Entering, Under, ResumeKept, ResumeLabels, EnterLabels
  <2>4. Turns'
    BY <1>2, <2>9, RefreshDiscoverDoes, NoTurns
       DEF At, Calls, CtlBut, Goes, StBut
  <2> QED BY <2>1, <2>2, <2>3, <2>4 DEF Audible
<1>3. CASE RefreshHeard
  <2>9. Scene' = Scene /\ Owed' = Owed /\ left'.lost = left.lost
    BY <1>3, RefreshHeardDoes DEF Scene, Owed
  <2>1. Sounds' /\ Sessions' /\ Muting' /\ Unmuted'
    BY <1>3, <2>9, RefreshHeardDoes, Signs, BlankFields, Waiting
       DEF At, CtlBut, Audible, Sounds, RefreshLabels, Sessions, Under, OnLabels, Muting, Live,
           Entering, ResumeKept, ResumeLabels, EnterLabels, OnFile, Returned, OnDisk, RestoreTops,
           Unmuted, UnmuteTops, MuteTops
  <2>2. Turns'
    BY <1>3, <2>9, RefreshHeardDoes, NoTurns
       DEF At, CtlBut
  <2> QED BY <2>1, <2>2 DEF Audible
<1>4. CASE RefreshRestored
  <2>9. Scene' = Scene /\ Owed' = Owed /\ left'.lost = left.lost
    BY <1>4, RefreshRestoredCases DEF Scene, Owed, Failed
  <2>1. Sounds' /\ Sessions' /\ Muting' /\ Unmuted'
    BY <1>4, RefreshRestoredCases, <2>9, Signs, BlankFields, KnownNone, Waiting, Callers
       DEF At, CtlBut, Passes, Rests, Audible, Sounds, RefreshLabels, LowTops, FinishTops, Sessions,
           Under, OnLabels, Muting, Live, Entering, ResumeKept, ResumeLabels, EnterLabels, OnFile,
           Returned, OnDisk, RestoreTops, Unmuted, UnmuteTops, MuteTops
  <2>2. Turns'
    BY <1>4, RefreshRestoredCases, <2>9, NoTurns, Callers
       DEF At, CtlBut, Passes, Rests, AllTops, RestoreTops, MuteTops, UnmuteTops, FinishTops
  <2> QED BY <2>1, <2>2 DEF Audible
<1>5. CASE RefreshStreams
  <2>9. Scene' = Scene /\ Owed' = Owed /\ left'.lost = left.lost
    BY <1>5, RefreshStreamsDoes DEF Scene, Owed, Failed
  <2>1. Sounds'
    <3>1. desk' = desk /\ was' = was /\ disk' \in {disk, st'} /\ ctl'.kept = ctl.kept /\ st'.streams \subseteq st.streams
      BY <1>5, RefreshStreamsDoes DEF Goes, Calls, CtlBut, StBut
    <3>2. Known(st'.games, st'.streams, Scene)
      <4>1. st'.games = st.games
        BY <1>5, RefreshStreamsDoes DEF StBut
      <4> QED BY <3>1, <4>1, KnownFewer DEF Audible, Sounds
    <3> QED BY <2>9, <3>1, <3>2, Signs DEF Audible, Sounds
  <2>2. Sessions' /\ Unmuted'
    BY <1>5, <2>9, RefreshStreamsDoes, Signs, Waiting, BlankFields
       DEF At, Calls, CtlBut, StBut, RefreshLabels, Audible, Sessions, Under, OnLabels, Unmuted,
           UnmuteTops, RestoreTops, MuteTops
  <2>3. Muting'
    <3>1. /\ session' = session /\ session # "none" /\ ctl'.at \in {"finish", "mute"}
          /\ Top' \in {"no", "refreshMuted"}
      BY <1>5, RefreshStreamsDoes, Waiting DEF At, Goes, Calls, RefreshLabels, Audible, Sessions, Under
    <3>2. ASSUME ~left.lost PROVE Noted(Owed, st'.streams)
      <4>1. Noted(Owed, st.streams)
        BY <3>1, <3>2 DEF Audible, Muting, Live
      <4>2. Owed \subseteq desk.games
        BY DEF Owed, Audible, Sounds
      <4>3. st'.streams = st.streams \/ st'.streams = {q \in st.streams : q.game \in desk.games}
        BY <1>5, RefreshStreamsDoes DEF StBut
      <4>4. Noted(Owed, {q \in st.streams : q.game \in desk.games})
        BY <4>1, <4>2 DEF Noted
      <4> QED BY <4>1, <4>3, <4>4
    <3> QED BY <2>9, <3>1, <3>2 DEF Muting, Live, Entering, Under, ResumeKept, ResumeLabels, EnterLabels
  <2>4. Turns'
    BY <1>5, <2>9, RefreshStreamsDoes, NoTurns
       DEF At, Calls, CtlBut, StBut
  <2> QED BY <2>1, <2>2, <2>3, <2>4 DEF Audible
<1>6. CASE RefreshMuted
  <2>9. Scene' = Scene /\ Owed' = Owed /\ left'.lost = left.lost
    BY <1>6, RefreshMutedCases DEF Scene, Owed
  <2>1. Sounds'
    BY <1>6, RefreshMutedCases, <2>9, Signs, BlankFields, KnownNone
       DEF At, Calls, CtlBut, Passes, Rests, Audible, Sounds
  <2>2. Sessions'
    BY <1>6, RefreshMutedCases, <2>9, Signs, Waiting, Callers
       DEF At, Calls, CtlBut, Passes, Rests, RefreshLabels, LowTops, FinishTops, Audible, Sessions, Under, OnLabels
  <2>3. Muting'
    BY <1>6, RefreshMutedCases, <2>9, Signs, BlankFields, Waiting, Callers
       DEF At, Calls, CtlBut, Passes, Rests, RefreshLabels, LowTops, FinishTops, Audible, Muting, Under, Live, Entering, ResumeKept, ResumeLabels, EnterLabels, OnFile, Sounds, Sessions, Returned, OnDisk, RestoreTops
  <2>4. Turns'
    BY <1>6, RefreshMutedCases, <2>9, NoTurns, Callers
       DEF At, Calls, CtlBut, Passes, Rests, AllTops, RestoreTops, MuteTops, UnmuteTops, FinishTops
  <2>5. Unmuted'
    BY <1>6, RefreshMutedCases, <2>9, Signs, BlankFields, Waiting, Callers
       DEF At, Calls, CtlBut, Passes, Rests, RefreshLabels, LowTops, FinishTops, Audible, Unmuted, Under, UnmuteTops, RestoreTops, MuteTops
  <2> QED BY <2>1, <2>2, <2>3, <2>4, <2>5 DEF Audible
<1> QED BY <1>1, <1>2, <1>3, <1>4, <1>5, <1>6 DEF Refreshes

LEMMA ResumesAudible ==
  ASSUME Typed, OnDisk, Audible, Resumes
  PROVE  Audible'
<1>1. CASE Resume
  <2>9. Scene' = Scene /\ Owed' = Owed /\ left'.lost = left.lost
    BY <1>1, ResumeDoes DEF Scene, Owed, Afresh
  <2>1. Sounds' /\ Sessions' /\ Muting' /\ Unmuted'
    BY <1>1, <2>9, ResumeDoes, Signs, BlankFields, Waiting
       DEF At, CtlBut, Audible, Sounds, Sessions, Under, RefreshLabels, OnLabels, Muting, Live,
           Entering, ResumeKept, ResumeLabels, EnterLabels, OnFile, Returned, OnDisk, RestoreTops,
           Unmuted, UnmuteTops, MuteTops
  <2>2. Turns'
    BY <1>1, <2>9, ResumeDoes, NoTurns
       DEF At, CtlBut
  <2> QED BY <2>1, <2>2 DEF Audible
<1>2. CASE ResumeCapture
  <2>0. /\ Typed' /\ At("resume")
       /\ \/ /\ (~ctl.ok \/ session # "parked") /\ (Passes(ctl.ok) \/ Rests)
             /\ UNCHANGED <<desk, was, disk, st, session, left>>
          \/ /\ ctl.ok /\ session = "parked" /\ (Passes(FALSE) \/ Rests) /\ Failed
             /\ UNCHANGED <<desk, was, disk, st, session>>
          \/ /\ ctl.ok /\ session = "parked" /\ ctl.want.output \notin desk.plugged
             /\ (Passes(FALSE) \/ Rests) /\ UNCHANGED <<desk, was, disk, st, session, left>>
          \/ /\ ctl.ok /\ session = "parked" /\ ctl.want.output \in desk.plugged
             /\ ctl'.at = "resumeRecord" /\ Top' = Top /\ ctl'.kept = st /\ CtlBut({"kept"})
             /\ st'.output = ctl.want.output /\ (st'.lit = (st.lit \/ ctl.want.output \notin desk.on))
             /\ StBut({"output", "lit"}) /\ UNCHANGED <<desk, was, disk, session, left>>
    BY <1>2, ResumeCaptureCases
  <2>9. Scene' = Scene /\ Owed' = Owed /\ left'.lost = left.lost
    BY <1>2, <2>0 DEF Scene, Owed, Failed
  <2>1. Sounds' /\ Sessions' /\ Muting' /\ Unmuted'
    BY <1>2, <2>0, <2>9, Signs, BlankFields, KnownNone, Waiting, Callers
       DEF At, CtlBut, StBut, Passes, Rests, Audible, Sounds, ResumeLabels, LowTops, FinishTops,
           Sessions, Under, RefreshLabels, OnLabels, Muting, Live, Entering, ResumeKept,
           EnterLabels, OnFile, Returned, OnDisk, RestoreTops, Unmuted, UnmuteTops, MuteTops
  <2>2. Turns'
    BY <1>2, <2>0, <2>9, NoTurns, Callers
       DEF At, CtlBut, StBut, Passes, Rests, AllTops, RestoreTops, MuteTops, UnmuteTops, FinishTops
  <2> QED BY <2>1, <2>2 DEF Audible
<1>3. CASE ResumeRecord
  <2>9. Scene' = Scene /\ Owed' = Owed /\ left'.lost = left.lost
    BY <1>3, ResumeRecordDoes DEF Scene, Owed, Failed
  <2>1. Sounds' /\ Sessions' /\ Muting' /\ Unmuted'
    BY <1>3, <2>9, ResumeRecordDoes, Signs, BlankFields, Waiting
       DEF At, CtlBut, Goes, Audible, Sounds, ResumeLabels, Sessions, Under, RefreshLabels,
           OnLabels, Muting, Live, Entering, ResumeKept, EnterLabels, OnFile, Returned, OnDisk,
           RestoreTops, Unmuted, UnmuteTops, MuteTops
  <2>2. Turns'
    BY <1>3, <2>9, ResumeRecordDoes, NoTurns
       DEF At, CtlBut, Goes
  <2> QED BY <2>1, <2>2 DEF Audible
<1>4. CASE ResumeLight
  <2>9. Scene' = Scene /\ Owed' = Owed /\ left'.lost = left.lost
    BY <1>4, ResumeLightDoes DEF Scene, Owed, DeskBut, Failed
  <2>1. Sounds' /\ Sessions' /\ Muting' /\ Unmuted'
    BY <1>4, <2>9, ResumeLightDoes, Signs, BlankFields, Waiting
       DEF At, CtlBut, DeskBut, Goes, Audible, Sounds, ResumeLabels, Sessions, Under, RefreshLabels,
           OnLabels, Muting, Live, Entering, ResumeKept, EnterLabels, OnFile, Returned, OnDisk,
           RestoreTops, Unmuted, UnmuteTops, MuteTops
  <2>2. Turns'
    BY <1>4, <2>9, ResumeLightDoes, NoTurns
       DEF At, CtlBut, DeskBut, Goes
  <2> QED BY <2>1, <2>2 DEF Audible
<1>5. CASE ResumeSink
  <2>9. Scene' = Scene /\ Owed' = Owed /\ left'.lost = left.lost
    BY <1>5, ResumeSinkDoes DEF Scene, Owed, Failed
  <2>1. Sounds' /\ Sessions' /\ Muting' /\ Unmuted'
    BY <1>5, <2>9, ResumeSinkDoes, Signs, BlankFields, Waiting
       DEF At, CtlBut, Goes, StBut, Audible, Sounds, ResumeLabels, Sessions, Under, RefreshLabels,
           OnLabels, Muting, Live, Entering, ResumeKept, EnterLabels, OnFile, Returned, OnDisk,
           RestoreTops, Unmuted, UnmuteTops, MuteTops
  <2>2. Turns'
    BY <1>5, <2>9, ResumeSinkDoes, NoTurns
       DEF At, CtlBut, Goes, StBut
  <2> QED BY <2>1, <2>2 DEF Audible
<1>6. CASE ResumeSetSink
  <2>9. Scene' = Scene /\ Owed' = Owed /\ left'.lost = left.lost
    BY <1>6, ResumeSetSinkDoes DEF Scene, Owed, DeskBut, Failed
  <2>1. Sounds' /\ Sessions' /\ Muting' /\ Unmuted'
    BY <1>6, <2>9, ResumeSetSinkDoes, Signs, BlankFields, Waiting
       DEF At, CtlBut, DeskBut, Goes, Audible, Sounds, ResumeLabels, Sessions, Under, RefreshLabels,
           OnLabels, Muting, Live, Entering, ResumeKept, EnterLabels, OnFile, Returned, OnDisk,
           RestoreTops, Unmuted, UnmuteTops, MuteTops
  <2>2. Turns'
    BY <1>6, <2>9, ResumeSetSinkDoes, NoTurns
       DEF At, CtlBut, DeskBut, Goes
  <2> QED BY <2>1, <2>2 DEF Audible
<1>7. CASE ResumeWindow
  <2>9. Scene' = Scene /\ Owed' = Owed /\ left'.lost = left.lost
    BY <1>7, ResumeWindowDoes DEF Scene, Owed, Failed
  <2>1. Sounds' /\ Sessions' /\ Muting' /\ Unmuted'
    BY <1>7, <2>9, ResumeWindowDoes, Signs, BlankFields, Waiting
       DEF At, CtlBut, Goes, StBut, Audible, Sounds, ResumeLabels, Sessions, Under, RefreshLabels,
           OnLabels, Muting, Live, Entering, ResumeKept, EnterLabels, OnFile, Returned, OnDisk,
           RestoreTops, Unmuted, UnmuteTops, MuteTops
  <2>2. Turns'
    BY <1>7, <2>9, ResumeWindowDoes, NoTurns
       DEF At, CtlBut, Goes, StBut
  <2> QED BY <2>1, <2>2 DEF Audible
<1>8. CASE ResumePlace
  <2>9. Scene' = Scene /\ Owed' = Owed /\ left'.lost = left.lost
    BY <1>8, ResumePlaceDoes DEF Scene, Owed, DeskBut, Failed
  <2>1. Sounds' /\ Sessions' /\ Muting' /\ Unmuted'
    BY <1>8, <2>9, ResumePlaceDoes, Signs, BlankFields, Waiting
       DEF At, CtlBut, DeskBut, Goes, Audible, Sounds, ResumeLabels, Sessions, Under, RefreshLabels,
           OnLabels, Muting, Live, Entering, ResumeKept, EnterLabels, OnFile, Returned, OnDisk,
           RestoreTops, Unmuted, UnmuteTops, MuteTops
  <2>2. Turns'
    BY <1>8, <2>9, ResumePlaceDoes, NoTurns
       DEF At, CtlBut, DeskBut, Goes
  <2> QED BY <2>1, <2>2 DEF Audible
<1>9. CASE ResumeMove
  <2>9. Scene' = Scene /\ Owed' = Owed /\ left'.lost = left.lost
    BY <1>9, ResumeMoveDoes DEF Scene, Owed, DeskBut, Failed
  <2>1. Sounds' /\ Sessions' /\ Muting' /\ Unmuted'
    BY <1>9, <2>9, ResumeMoveDoes, Signs, BlankFields, Waiting
       DEF At, CtlBut, DeskBut, Goes, Audible, Sounds, ResumeLabels, Sessions, Under, RefreshLabels,
           OnLabels, Muting, Live, Entering, ResumeKept, EnterLabels, OnFile, Returned, OnDisk,
           RestoreTops, Unmuted, UnmuteTops, MuteTops
  <2>2. Turns'
    BY <1>9, <2>9, ResumeMoveDoes, NoTurns
       DEF At, CtlBut, DeskBut, Goes
  <2> QED BY <2>1, <2>2 DEF Audible
<1>10. CASE ResumeQuiet
  <2>9. Scene' = Scene /\ Owed' = Owed /\ left'.lost = left.lost
    BY <1>10, ResumeQuietDoes DEF Scene, Owed, Failed
  <2>1. Sounds' /\ Sessions' /\ Muting' /\ Unmuted'
    BY <1>10, <2>9, ResumeQuietDoes, Signs, BlankFields, Waiting
       DEF At, Calls, CtlBut, Goes, StBut, Audible, Sounds, ResumeLabels, Sessions, Under,
           RefreshLabels, OnLabels, Muting, Live, Entering, ResumeKept, EnterLabels, OnFile,
           Returned, OnDisk, RestoreTops, Unmuted, UnmuteTops, MuteTops
  <2>2. Turns'
    BY <1>10, <2>9, ResumeQuietDoes, NoTurns
       DEF At, Calls, CtlBut, Goes, StBut
  <2> QED BY <2>1, <2>2 DEF Audible
<1>11. CASE ResumeSilence
  <2>9. Scene' = Scene /\ Owed' = Owed /\ left'.lost = left.lost
    BY <1>11, ResumeSilenceDoes DEF Scene, Owed, DeskBut, Failed
  <2>1. Sounds' /\ Sessions' /\ Muting' /\ Unmuted'
    BY <1>11, <2>9, ResumeSilenceDoes, Signs, BlankFields, Waiting
       DEF At, Calls, CtlBut, DeskBut, Goes, Audible, Sounds, ResumeLabels, Sessions, Under,
           RefreshLabels, OnLabels, Muting, Live, Entering, ResumeKept, EnterLabels, OnFile,
           Returned, OnDisk, RestoreTops, Unmuted, UnmuteTops, MuteTops
  <2>2. Turns'
    BY <1>11, <2>9, ResumeSilenceDoes, NoTurns
       DEF At, Calls, CtlBut, DeskBut, Goes
  <2> QED BY <2>1, <2>2 DEF Audible
<1>12. CASE ResumeHeard
  <2>9. Scene' = Scene /\ Owed' = Owed /\ left'.lost = left.lost
    BY <1>12, ResumeHeardCases DEF Scene, Owed, Failed
  <2>1. Sounds'
    BY <1>12, ResumeHeardCases, <2>9, Signs, BlankFields, KnownNone
       DEF At, CtlBut, Goes, StBut, Passes, Rests, Audible, Sounds
  <2>2. Sessions'
    BY <1>12, ResumeHeardCases, <2>9, Signs, Waiting, Callers
       DEF At, CtlBut, Goes, StBut, Passes, Rests, ResumeLabels, LowTops, FinishTops, Audible, Sessions, Under, RefreshLabels, OnLabels
  <2>3. Muting'
    BY <1>12, ResumeHeardCases, <2>9, Signs, BlankFields, Waiting, Callers
       DEF At, CtlBut, Goes, StBut, Passes, Rests, ResumeLabels, LowTops, FinishTops, Audible, Muting, Under, Live, Entering, ResumeKept, EnterLabels, OnFile, Sounds, Sessions, Returned, OnDisk, RestoreTops
  <2>4. Turns'
    BY <1>12, ResumeHeardCases, <2>9, NoTurns, Callers
       DEF At, CtlBut, Goes, StBut, Passes, Rests, AllTops, RestoreTops, MuteTops, UnmuteTops, FinishTops
  <2>5. Unmuted'
    BY <1>12, ResumeHeardCases, <2>9, Signs, BlankFields, Waiting, Callers
       DEF At, CtlBut, Goes, StBut, Passes, Rests, ResumeLabels, LowTops, FinishTops, Audible, Unmuted, Under, UnmuteTops, RestoreTops, MuteTops
  <2> QED BY <2>1, <2>2, <2>3, <2>4, <2>5 DEF Audible
<1>13. CASE ResumeFail
  <2>9. Scene' = Scene /\ Owed' = Owed /\ left'.lost = left.lost
    BY <1>13, ResumeFailDoes DEF Scene, Owed
  <2>1. Sounds' /\ Sessions' /\ Muting' /\ Unmuted'
    BY <1>13, <2>9, ResumeFailDoes, Signs, BlankFields, Waiting
       DEF At, CallsRestore, CtlBut, Audible, Sounds, ResumeLabels, Sessions, Under, RefreshLabels,
           OnLabels, Muting, Live, Entering, ResumeKept, EnterLabels, OnFile, Returned, OnDisk,
           RestoreTops, Unmuted, UnmuteTops, MuteTops
  <2>2. Turns'
    BY <1>13, <2>9, ResumeFailDoes, NoTurns
       DEF At, CallsRestore, CtlBut
  <2> QED BY <2>1, <2>2 DEF Audible
<1>14. CASE ResumeUndone
  <2>9. Scene' = Scene /\ Owed' = Owed /\ left'.lost = left.lost
    BY <1>14, ResumeUndoneDoes DEF Scene, Owed, Failed
  <2>1. Sounds' /\ Sessions' /\ Muting' /\ Unmuted'
    BY <1>14, <2>9, ResumeUndoneDoes, Signs, BlankFields, Waiting
       DEF At, Calls, CtlBut, Goes, Audible, Sounds, ResumeLabels, Sessions, Under, RefreshLabels,
           OnLabels, Muting, Live, Entering, ResumeKept, EnterLabels, OnFile, Returned, OnDisk,
           RestoreTops, Unmuted, UnmuteTops, MuteTops
  <2>2. Turns'
    BY <1>14, <2>9, ResumeUndoneDoes, NoTurns
       DEF At, Calls, CtlBut, Goes
  <2> QED BY <2>1, <2>2 DEF Audible
<1>15. CASE ResumeMuted
  <2>9. Scene' = Scene /\ Owed' = Owed /\ left'.lost = left.lost
    BY <1>15, ResumeMutedDoes DEF Scene, Owed
  <2>1. Sounds' /\ Sessions' /\ Muting' /\ Unmuted'
    BY <1>15, <2>9, ResumeMutedDoes, Signs, BlankFields, Waiting
       DEF At, Calls, CtlBut, Goes, Audible, Sounds, ResumeLabels, Sessions, Under, RefreshLabels,
           OnLabels, Muting, Live, Entering, ResumeKept, EnterLabels, OnFile, Returned, OnDisk,
           RestoreTops, Unmuted, UnmuteTops, MuteTops
  <2>2. Turns'
    BY <1>15, <2>9, ResumeMutedDoes, NoTurns
       DEF At, Calls, CtlBut, Goes
  <2> QED BY <2>1, <2>2 DEF Audible
<1> QED BY <1>1, <1>2, <1>3, <1>4, <1>5, <1>6, <1>7, <1>8, <1>9, <1>10, <1>11, <1>12, <1>13, <1>14, <1>15 DEF Resumes

LEMMA ExitsAudible ==
  ASSUME Typed, OnDisk, Audible, Exits
  PROVE  Audible'
<1>1. CASE Exit
  <2>9. Scene' = Scene /\ Owed' = Owed /\ left'.lost = left.lost
    BY <1>1, ExitDoes DEF Scene, Owed, Afresh
  <2>1. Sounds' /\ Sessions' /\ Muting' /\ Unmuted'
    BY <1>1, <2>9, ExitDoes, Signs, BlankFields, Waiting
       DEF At, CtlBut, Audible, Sounds, Sessions, Under, RefreshLabels, OnLabels, Muting, Live,
           Entering, ResumeKept, ResumeLabels, EnterLabels, OnFile, Returned, OnDisk, RestoreTops,
           Unmuted, UnmuteTops, MuteTops
  <2>2. Turns'
    BY <1>1, <2>9, ExitDoes, NoTurns
       DEF At, CtlBut
  <2> QED BY <2>1, <2>2 DEF Audible
<1>2. CASE ExitHeard
  <2>9. Scene' = Scene /\ Owed' = Owed /\ left'.lost = left.lost
    BY <1>2, ExitHeardDoes DEF Scene, Owed
  <2>1. Sounds' /\ Sessions' /\ Muting' /\ Unmuted'
    BY <1>2, <2>9, ExitHeardDoes, Signs, BlankFields, Waiting
       DEF At, CtlBut, Audible, Sounds, ExitLabels, Sessions, Under, RefreshLabels, OnLabels,
           Muting, Live, Entering, ResumeKept, ResumeLabels, EnterLabels, OnFile, Returned, OnDisk,
           RestoreTops, Unmuted, UnmuteTops, MuteTops
  <2>2. Turns'
    BY <1>2, <2>9, ExitHeardDoes, NoTurns
       DEF At, CtlBut
  <2> QED BY <2>1, <2>2 DEF Audible
<1>3. CASE ExitRestored
  <2>9. Scene' = Scene /\ Owed' = Owed /\ left'.lost = left.lost
    BY <1>3, ExitRestoredCases DEF Scene, Owed, Failed
  <2>1. Sounds' /\ Sessions' /\ Unmuted'
    BY <1>3, ExitRestoredCases, <2>9, Signs, BlankFields, KnownNone, Waiting, Callers
       DEF At, CtlBut, Rests, Audible, Sounds, ExitLabels, LowTops, FinishTops, Sessions, Under,
           RefreshLabels, OnLabels, Unmuted, UnmuteTops, RestoreTops, MuteTops
  <2>2. Muting'
    <3>1. ctl'.at = "idle" /\ Top' = "idle" /\ session = "active"
      BY <1>3, ExitRestoredCases DEF Rests, At, Audible, Sessions, OnLabels, Under
    <3>2. CASE ctl.desktop /\ st' = Blank /\ disk' = NoRecord /\ session' = "none"
      <4>1. ~left.lost => Owed = {}
        BY <1>3, ExitRestoredCases, <3>1, <3>2, NothingOwed DEF Audible, Unmuted, Under, Live, At
      <4> QED BY <2>9, <3>1, <3>2, <4>1, BlankFields, NotedNone
              DEF Muting, Live, Entering, Under, ResumeKept, ResumeLabels, EnterLabels
    <3>3. CASE st' = st /\ session' = session
      BY <2>9, <3>1, <3>3 DEF Audible, Muting, Live, Entering, Under, ResumeKept, ResumeLabels, EnterLabels
    <3> QED BY <1>3, ExitRestoredCases, <3>2, <3>3
  <2>3. Turns'
    BY <1>3, ExitRestoredCases, <2>9, NoTurns, Callers
       DEF At, CtlBut, Rests, AllTops, RestoreTops, MuteTops, UnmuteTops, FinishTops
  <2> QED BY <2>1, <2>2, <2>3 DEF Audible
<1>4. CASE Exited
  <2>9. Scene' = Scene /\ Owed' = Owed /\ left'.lost = left.lost
    BY <1>4, ExitedCases DEF Scene, Owed, Failed
  <2>1. Sounds' /\ Sessions' /\ Muting' /\ Unmuted'
    BY <1>4, ExitedCases, <2>9, Signs, BlankFields, KnownNone, Waiting, Callers
       DEF At, CtlBut, Rests, Audible, Sounds, ExitLabels, LowTops, FinishTops, Sessions, Under,
           RefreshLabels, OnLabels, Muting, Live, Entering, ResumeKept, ResumeLabels, EnterLabels,
           OnFile, Returned, OnDisk, RestoreTops, Unmuted, UnmuteTops, MuteTops
  <2>2. Turns'
    BY <1>4, ExitedCases, <2>9, NoTurns, Callers
       DEF At, CtlBut, Rests, AllTops, RestoreTops, MuteTops, UnmuteTops, FinishTops
  <2> QED BY <2>1, <2>2 DEF Audible
<1> QED BY <1>1, <1>2, <1>3, <1>4 DEF Exits

\* So it does by a return of an answer.
LEMMA AnswerAudible ==
  ASSUME Typed, OnDisk, Audible, Answer
  PROVE  Audible'
<1>1. \/ /\ Typed' /\ At("yes") /\ Passes(TRUE) /\ UNCHANGED <<desk, was, disk, st, session, left>>
      \/ /\ Typed' /\ At("no") /\ (Passes(FALSE) \/ Rests) /\ UNCHANGED <<desk, was, disk, st, session, left>>
  BY AnswerDoes, ReturnCases, Waiting DEF At, Passes, Rests, MuteTops, UnmuteTops
<1>2. Scene' = Scene /\ Owed' = Owed
  BY <1>1 DEF Scene, Owed
<1>3. Sounds'
  BY <1>1, <1>2, BlankFields, KnownNone DEF Passes, Rests, CtlBut, Audible, Sounds
<1>4. Sessions'
  BY <1>1, Callers DEF At, Passes, Rests, CtlBut, LowTops, FinishTops, Audible, Sessions, Under, RefreshLabels, OnLabels
<1>5. Muting'
  BY <1>1, <1>2, Callers
     DEF At, Passes, Rests, CtlBut, LowTops, FinishTops, Audible, Muting, Under, Live, Entering, ResumeKept, ResumeLabels,
         EnterLabels, OnFile
<1>6. Turns'
  BY <1>1, Callers, NoTurns DEF At, Passes, Rests, AllTops, RestoreTops, MuteTops, UnmuteTops, FinishTops
<1>7. Unmuted'
  BY <1>1, Signs, Callers, Waiting
     DEF At, Passes, Rests, CtlBut, LowTops, FinishTops, Audible, Unmuted, Under, UnmuteTops, MuteTops
<1> QED BY <1>3, <1>4, <1>5, <1>6, <1>7 DEF Audible

\* What the run calls MutesOnRecord, in terms of notes.
LEMMA OnFileNotes == MutesOnRecord <=> Noted(Owed, OnFile)
BY DEF MutesOnRecord, Noted, Owed, OnFile

\* A kill that loses no mute's record leaves it on disk.
LEMMA KillAudible ==
  ASSUME Typed, OnDisk, Audible, Kill
  PROVE  Audible'
<1>1. /\ desk'.muted = desk.muted /\ desk'.games = desk.games /\ desk'.over = desk.over /\ desk'.inside = desk.inside
      /\ was' = was /\ disk' = disk /\ st' = Blank /\ session' = "none" /\ ctl'.at = "idle" /\ Top' = "idle"
      /\ ctl'.kept = Blank /\ left'.lost = (left.lost \/ ~MutesOnRecord)
  BY KillDoes DEF DeskBut
<1>2. Owed' = Owed /\ OnFile' = OnFile
  BY <1>1 DEF Owed, OnFile
<1>3. ASSUME NEW g, NEW s, Known(g, s, Scene) PROVE Known(g, s, Scene')
  BY <1>1, <1>3 DEF Known, Scene
<1>4. Sounds'
  BY <1>1, <1>3, BlankFields, KnownNone DEF Audible, Sounds
<1>5. Sessions' /\ Turns' /\ Unmuted'
  BY <1>1, NoTurns DEF Sessions, Unmuted, Under, RefreshLabels, OnLabels, UnmuteTops, At
<1>6. Muting'
  BY <1>1, <1>2, OnFileNotes, BlankFields
     DEF Muting, Live, Entering, Under, ResumeKept, ResumeLabels, EnterLabels
<1> QED BY <1>4, <1>5, <1>6 DEF Audible

\* A game that ends takes its mute with it.
LEMMA GameEndsAudible ==
  ASSUME Typed, OnDisk, Audible, NEW g \in Games, GameEnds(g)
  PROVE  Audible'
<1>1. /\ g \in desk.games /\ desk'.games = desk.games \ {g} /\ desk'.inside = desk.inside \ {g}
      /\ desk'.muted = desk.muted \ {g} /\ desk'.over = desk.over \cup {g} /\ was'.muted = was.muted \ {g}
      /\ UNCHANGED <<disk, st, session, ctl, left>> /\ Top' = Top
  BY GameEndsDoes, IdleStays
<1>2. Owed' \subseteq Owed
  BY <1>1 DEF Owed
<1>3. ASSUME NEW h, NEW s, Known(h, s, Scene) PROVE Known(h, s, Scene')
  BY <1>1, <1>3 DEF Known, Scene
<1>4. Sounds'
  BY <1>1, <1>3 DEF Audible, Sounds
<1>5. Sessions' /\ Turns' /\ Unmuted'
  BY <1>1 DEF Audible, Sessions, Turns, Unmuted, Under, At, MuteRecorded
<1>6. Live' = Live /\ Entering' = Entering /\ Under(ResumeKept)' = Under(ResumeKept) /\ OnFile' = OnFile
  BY <1>1 DEF Live, Entering, Under, OnFile
<1>7. Muting'
  BY <1>1, <1>2, <1>6, Quieter DEF Audible, Muting
<1> QED BY <1>4, <1>5, <1>7 DEF Audible

\* A game that starts is in no record yet, whatever the player did to it.
LEMMA GameStartsAudible ==
  ASSUME Typed, OnDisk, Audible, NEW g \in Games, GameStarts(g)
  PROVE  Audible'
<1>1. PICK quiet \in {{}, {g}} :
        /\ desk'.games = desk.games \cup {g} /\ desk'.inside = desk.inside \cup {g}
        /\ desk'.muted = desk.muted \cup quiet /\ desk'.over = desk.over
        /\ was'.muted = was.muted \cup quiet
  BY GameStartsDoes DEF DeskBut
<1>2. /\ At("idle") /\ g \notin desk.games \cup desk.over /\ Top' = Top /\ left'.lost = left.lost
      /\ UNCHANGED <<disk, st, session, ctl>>
  BY GameStartsDoes, IdleStays
<1>3. Owed' \subseteq Owed
  BY <1>1 DEF Owed
<1>4. ASSUME NEW h, NEW s, Known(h, s, Scene) PROVE Known(h, s, Scene')
  <2>1. \A q \in s : q.game # g
    BY <1>2, <1>4 DEF Known, Scene
  <2>2. h \subseteq desk'.games \cup desk'.over /\ \A q \in s : q.game \in desk'.games \cup desk'.over
    BY <1>1, <1>4 DEF Known, Scene
  <2>3. \A q \in s : (q.game \in was'.muted <=> q.game \in was.muted) /\ (q.game \in desk'.games <=> q.game \in desk.games)
    BY <1>1, <2>1
  <2> QED BY <1>2, <1>4, <2>2, <2>3 DEF Known, Scene
<1>5. Sounds'
  <2>1. was'.muted \subseteq desk'.muted /\ desk'.muted \subseteq desk'.games /\ desk'.inside \subseteq desk'.games
        /\ desk'.games \cap desk'.over = {}
    BY <1>1, <1>2 DEF Audible, Sounds
  <2> QED BY <1>2, <1>4, <2>1 DEF Audible, Sounds
<1>6. Sessions' /\ Turns' /\ Unmuted'
  BY <1>2, NoTurns DEF Audible, Sessions, Unmuted, Under, At
<1>7. Live' = Live /\ Entering' = Entering /\ Under(ResumeKept)' = Under(ResumeKept) /\ OnFile' = OnFile
  BY <1>2 DEF Live, Entering, Under, OnFile
<1>8. Muting'
  BY <1>2, <1>3, <1>7, Quieter DEF Audible, Muting
<1> QED BY <1>5, <1>6, <1>8 DEF Audible

\* What else the world does touches no mute.
LEMMA ElsewhereAudible ==
  ASSUME Audible, UNCHANGED <<disk, st, session, ctl>>, Top' = Top, left'.lost = left.lost,
         DeskBut({"plugged", "on", "at", "sinks", "sink"}), WasBut({"on", "sink"})
  PROVE  Audible'
<1>1. Scene' = Scene /\ Owed' = Owed /\ OnFile' = OnFile
  BY DEF Scene, Owed, OnFile, DeskBut, WasBut
<1>2. Sounds'
  BY <1>1 DEF Audible, Sounds, DeskBut, WasBut
<1>3. Sessions' /\ Turns' /\ Unmuted'
  BY DEF Audible, Sessions, Turns, Unmuted, Under, At, MuteRecorded, DeskBut
<1>4. Muting'
  BY <1>1 DEF Audible, Muting, Live, Entering, Under
<1> QED BY <1>2, <1>3, <1>4 DEF Audible

LEMMA WorldAudible ==
  ASSUME Typed, OnDisk, Audible, World
  PROVE  Audible'
<1>1. ASSUME NEW s \in Sinks, PlayerPicksSink(s) \/ SinkGoes(s) PROVE Audible'
  <2>1. /\ UNCHANGED <<disk, st, session, ctl>> /\ Top' = Top /\ left'.lost = left.lost
        /\ DeskBut({"plugged", "on", "at", "sinks", "sink"}) /\ WasBut({"on", "sink"})
    BY <1>1, PlayerPicksSinkDoes, SinkGoesDoes, IdleStays DEF DeskBut, WasBut
  <2> QED BY <2>1, ElsewhereAudible
<1>2. ASSUME NEW o \in Outputs, Unplug(o) PROVE Audible'
  <2>1. /\ UNCHANGED <<disk, st, session, ctl>> /\ Top' = Top /\ left'.lost = left.lost
        /\ DeskBut({"plugged", "on", "at", "sinks", "sink"}) /\ WasBut({"on", "sink"})
    BY <1>2, UnplugDoes, IdleStays DEF DeskBut, WasBut, Failed
  <2> QED BY <2>1, ElsewhereAudible
<1> QED BY <1>1, <1>2, KillAudible, GameStartsAudible, GameEndsAudible DEF World

\* So it does by every step.
LEMMA AudibleKept ==
  ASSUME Typed, OnDisk, Audible, [GameModeNext]_gameModeVars
  PROVE  Audible'
<1>1. CASE UNCHANGED gameModeVars
  <2>1. /\ UNCHANGED <<disk, st, session, ctl>> /\ Top' = Top /\ left'.lost = left.lost
        /\ DeskBut({"plugged", "on", "at", "sinks", "sink"}) /\ WasBut({"on", "sink"})
    BY <1>1 DEF gameModeVars, Top, DeskBut, WasBut
  <2> QED BY <2>1, ElsewhereAudible
<1> QED
  BY <1>1, AnswerAudible, RestoresAudible, MutesAudible, SettlesAudible, EntersAudible, ParksAudible,
     RefreshesAudible, ResumesAudible, ExitsAudible, WorldAudible DEF GameModeNext

\* Nothing is muted at first.
LEMMA InitAudible == GameModeInit => Audible
<1> SUFFICES ASSUME GameModeInit PROVE Audible
  OBVIOUS
<1>1. /\ desk.games = {} /\ desk.over = {} /\ desk.muted = {} /\ desk.inside = {} /\ was.muted = {}
      /\ disk = NoRecord /\ st = Blank /\ session = "none" /\ ctl.at = "idle" /\ ctl.stack = <<>> /\ ctl.kept = Blank
  BY DEF GameModeInit, Resting
<1>2. Top = "idle" /\ Owed = {}
  BY <1>1 DEF Top, Owed
<1>3. Sounds
  BY <1>1, BlankFields, KnownNone DEF Sounds
<1>4. Sessions /\ Turns /\ Unmuted
  BY <1>1, <1>2 DEF Sessions, Turns, Unmuted, Under, RefreshLabels, OnLabels, UnmuteTops, At
<1>5. Muting
  BY <1>1, <1>2, NotedNone DEF Muting, Live, Entering, Under, ResumeKept, ResumeLabels, EnterLabels
<1> QED BY <1>3, <1>4, <1>5 DEF Audible

\* Each mute that Omakade made is on record, or a kill came between the
\* mute and the write of its record.
LEMMA AudibleAlways == GameModeSpec => []Audible
<1>1. Typed /\ OnDisk /\ Audible /\ [GameModeNext]_gameModeVars => Audible'
  BY AudibleKept
<1> QED BY TypeCorrect, OnDiskAlways, InitAudible, <1>1, PTL DEF GameModeSpec

\* When the desktop is not as it was before Game Mode, there is a record,
\* and it has every effect that is left, but for a default sink that is
\* gone or that a restore took another for; and with neither session nor
\* record no game is left muted, unless a kill came between a mute and the
\* write of its record.
THEOREM EffectsRecorded == GameModeSpec => []EffectsOnRecord
<1>1. OnDisk /\ Audible => EffectsOnRecord
  <2> SUFFICES ASSUME OnDisk, Audible PROVE EffectsOnRecord
    OBVIOUS
  <2>1. Untouched \/ (disk # NoRecord /\ OnRecord)
    BY DEF OnDisk, Desktop, Covers, OnRecord
  <2>2. ASSUME session = "none", disk = NoRecord, ~left.lost PROVE desk.muted = was.muted
    <3>1. Noted(Owed, {})
      BY <2>2 DEF Audible, Muting, OnFile
    <3>2. Owed = {}
      BY <3>1, NotedEmpty
    <3> QED BY <3>2 DEF Owed, Audible, Sounds
  <2> QED BY <2>1, <2>2 DEF EffectsOnRecord
<1> QED BY OnDiskAlways, AudibleAlways, <1>1, PTL

---------------------------------------------------------------------------

\* The games that record r knows are not heard; and the session is parked
\* and not being ended.
Quiet(r) == Alive(r.games) \subseteq desk.muted
Parked == session = "parked" /\ ~st.ending

\* While games are muted, those that had their turn are not heard.
Silencing ==
  /\ ctl.at \in {"muteNext", "muteOne"} => Alive(st.games) \ ctl.todo \subseteq desk.muted
  /\ At("yes") /\ Top \in MuteTops => Quiet(st)
  /\ ctl.at \in MuteTops /\ ctl.ok => Quiet(st)
\* Nor is any, from when they are muted until the desktop is back.
Silenced ==
  /\ Under({"parkRestored"}) \/ At("parkRestore") => Quiet(st)
  /\ Under({"refreshHeard", "refreshRestored"}) => st.games = {}
  /\ At("resumeRecord") => Quiet(ctl.kept) \/ ctl.kept.ending
\* A session that is being ended, or was, is not parked for good.
Ended ==
  (At("no") /\ Top = "exited") \/ At("exited") \/ ctl.at \in SettleLabels \/ Under({"settle", "settled"}) => ~Parked
\* A session that is parked at rest, or after an answer, has no game that
\* is heard.
Answered ==
  ctl.at \in {"idle", "resume", "parkRolledBack"} \/ (At("no") /\ Top \in LowTops) => (Parked => Quiet(st))
\* A session is parked in silence.
Hushed == Silencing /\ Silenced /\ Ended /\ Answered

\* The labels that these speak of, and those that they say wait.
Telling ==
  {"muteNext", "muteOne", "yes", "no", "parkRestore", "refreshHeard", "refreshRestored", "parkRestored", "resumeRecord",
   "exited", "idle", "resume", "parkRolledBack"} \cup MuteTops \cup SettleLabels
Promising == {"parkRestored", "refreshHeard", "refreshRestored", "settle", "settled"}

\* A step to where nothing is said needs nothing.
LEMMA Untold ==
  ASSUME ctl'.at \notin Telling, Top' \notin Promising
  PROVE  Hushed'
BY DEF Hushed, Silencing, Silenced, Ended, Answered, Telling, Promising, MuteTops, SettleLabels, Under, At

\* Nor does one that leaves the games and the mutes, and goes to where
\* nothing is said.
LEMMA StillHushed ==
  ASSUME Hushed, Top' = Top, session' = session, st'.games = st.games, st'.ending = st.ending,
         desk'.games = desk.games, desk.muted \subseteq desk'.muted \/ ~Under({"parkRestored"}),
         ctl'.at \notin Telling \/ (ctl'.at = "no" /\ Top \in RestoreTops)
  PROVE  Hushed'
<1>1. Quiet(st) /\ desk.muted \subseteq desk'.muted => Quiet(st)'
  BY DEF Quiet, Alive
<1>2. Silencing' /\ Answered'
  BY DEF Silencing, Answered, Telling, MuteTops, RestoreTops, LowTops, FinishTops, At
<1>3. Silenced'
  BY <1>1 DEF Hushed, Silenced, Telling, Under, At
<1>4. Ended'
  BY DEF Hushed, Ended, Parked, Telling, SettleLabels, RestoreTops, Under, At
<1> QED BY <1>2, <1>3, <1>4 DEF Hushed

\* Of the end of an operation only the answer is asked.
LEMMA RestsHushed ==
  ASSUME ctl'.at = "idle", Top' = "idle", Parked' => Quiet(st)'
  PROVE  Hushed'
BY DEF Hushed, Silencing, Silenced, Ended, Answered, MuteTops, SettleLabels, Under, At

\* The values of the fields that the invariant compares.
LEMMA Hush ==
  ASSUME Typed, Typed'
  PROVE  /\ ctl.ok \in BOOLEAN /\ ctl'.ok \in BOOLEAN /\ ctl.desktop \in BOOLEAN /\ st.ending \in BOOLEAN /\ st'.ending \in BOOLEAN
         /\ ctl.kept.ending \in BOOLEAN
         /\ session \in {"none", "active", "parked"} /\ session' \in {"none", "active", "parked"}
BY DEF Typed, TypeOK, Ctls, Records

\* An entry is of no parked session.
LEMMA EnterNotParked ==
  ASSUME Typed, Expected, ctl.at \in EnterLabels \cup {"entered"}
  PROVE  session # "parked"
<1>1. ~At("idle") /\ ctl.op = "Enter"
  BY Running DEF Serves, EnterLabels, At
<1>2. ctl.from = "none"
  BY <1>1 DEF Expected, Sources
<1> QED BY <1>1, <1>2 DEF Expected, Promise!Outcomes

\* A session is parked in silence after each step of the controller.
LEMMA RestoresHushed ==
  ASSUME Typed, OnDisk, Audible, Expected, Hushed, Restores
  PROVE  Hushed'
<1>1. CASE RecordUndone
  BY <1>1, RecordUndoneDoes, Waiting, StillHushed, NextStage
     DEF At, CtlBut, Goes, Lacks, RestoreLabels, DeskBut, StBut, Telling, MuteTops, SettleLabels, Stages
<1>2. CASE RestoreQuiet
  BY <1>2, RestoreQuietDoes, Waiting, StillHushed
     DEF At, CtlBut, DeskBut, Goes, Lacks, Registers, StBut, RestoreLabels, Telling, MuteTops, SettleLabels
<1>3. CASE RestoreWindow
  BY <1>3, RestoreWindowDoes, Waiting, StillHushed
     DEF At, CtlBut, DeskBut, Goes, StBut, RestoreLabels, Telling, MuteTops, SettleLabels
<1>4. CASE RestoreLeftover
  BY <1>4, RestoreLeftoverDoes, Waiting, StillHushed
     DEF At, CtlBut, DeskBut, Goes, Lacks, RestoreLabels, StBut, Telling, MuteTops, SettleLabels
<1>5. CASE RestoreFocus
  BY <1>5, RestoreFocusDoes, Waiting, StillHushed
     DEF At, CtlBut, Goes, Lacks, Registers, StBut, RestoreLabels, DeskBut, Telling, MuteTops, SettleLabels
<1>6. CASE RestoreSink
  BY <1>6, RestoreSinkDoes, Waiting, StillHushed
     DEF At, CtlBut, DeskBut, Goes, Lacks, Registers, StBut, RestoreLabels, Telling, MuteTops, SettleLabels
<1>7. CASE RestoreOutput
  BY <1>7, RestoreOutputDoes, Waiting, StillHushed
     DEF At, CtlBut, DeskBut, Goes, Lacks, Registers, StBut, RestoreLabels, Telling, MuteTops, SettleLabels
<1>8. CASE RestoreDisable
  BY <1>8, RestoreDisableDoes, Waiting, StillHushed
     DEF At, CtlBut, DeskBut, Lacks, Registers, StBut, RestoreLabels, Telling, MuteTops, SettleLabels
<1>9. CASE RestoreDone
  <2>1. Silencing' /\ Silenced' /\ Ended' /\ Answered'
    BY <1>9, RestoreDoneCases, Hush, Waiting, Callers, BlankFields
       DEF At, CtlBut, Passes, RestoreLabels, RestoreTops, LowTops, FinishTops, Hushed, Silencing,
           MuteTops, Quiet, Alive, Silenced, Under, Ended, Parked, SettleLabels, Answered
  <2> QED BY <2>1 DEF Hushed
<1> QED BY <1>1, <1>2, <1>3, <1>4, <1>5, <1>6, <1>7, <1>8, <1>9 DEF Restores

LEMMA MutesHushed ==
  ASSUME Typed, OnDisk, Audible, Expected, Hushed, Mutes
  PROVE  Hushed'
<1>1. CASE MuteGames
  <2>1. Silencing' /\ Silenced' /\ Ended' /\ Answered'
    BY <1>1, MuteGamesDoes, Hush, Waiting, BlankFields
       DEF At, CtlBut, Goes, MuteLabels, MuteTops, Hushed, Silencing, Quiet, Alive, Silenced, Under,
           Ended, Parked, SettleLabels, Answered, LowTops, FinishTops
  <2> QED BY <2>1 DEF Hushed
<1>2. CASE MuteRecord
  <2>1. Silencing' /\ Silenced' /\ Ended' /\ Answered'
    BY <1>2, MuteRecordDoes, Hush, Waiting, BlankFields
       DEF At, CtlBut, Goes, StBut, MuteLabels, MuteTops, Hushed, Silencing, Quiet, Alive, Silenced,
           Under, Ended, Parked, SettleLabels, Answered, LowTops, FinishTops
  <2> QED BY <2>1 DEF Hushed
<1>3. CASE MuteOne
  <2>1. Silencing' /\ Silenced' /\ Ended' /\ Answered'
    BY <1>3, MuteOneDoes, Hush, Waiting, BlankFields
       DEF At, CtlBut, DeskBut, Goes, MuteLabels, MuteTops, Hushed, Silencing, Quiet, Alive, StBut,
           Silenced, Under, Ended, Parked, SettleLabels, Answered, LowTops, FinishTops
  <2> QED BY <2>1 DEF Hushed
<1>4. CASE UnmuteGames
  <2>1. Silencing' /\ Silenced' /\ Ended' /\ Answered'
    BY <1>4, UnmuteGamesDoes, Hush, Waiting, BlankFields
       DEF At, CtlBut, Goes, UnmuteLabels, UnmuteTops, Hushed, Silencing, MuteTops, Quiet, Alive,
           Silenced, Under, Ended, Parked, SettleLabels, Answered, LowTops, FinishTops
  <2> QED BY <2>1 DEF Hushed
<1>5. CASE UnmuteOne
  <2>1. CASE Goes("yes") \/ Goes("no")
    <3>1. Top' = Top /\ Top \in UnmuteTops /\ ctl'.at \in {"yes", "no"} /\ UNCHANGED <<desk, was, disk, st, session, left>>
      BY <1>5, <2>1, UnmuteOneDoes, Waiting DEF Goes, At, UnmuteLabels
    <3>2. Silencing' /\ Answered'
      BY <3>1 DEF Silencing, Answered, MuteTops, UnmuteTops, LowTops, FinishTops, At
    <3>3. Silenced' /\ Ended'
      BY <3>1 DEF Hushed, Silenced, Ended, Parked, Under, At, UnmuteTops, SettleLabels
    <3> QED BY <3>2, <3>3 DEF Hushed
  <2>2. CASE ctl'.at \in {"unmuted", "unmuteNext"}
    <3>1. Top' = Top /\ Top \in UnmuteTops /\ ctl.at = "unmuteNext" /\ UNCHANGED <<was, disk, st, session>> /\ desk'.games = desk.games
      BY <1>5, <2>2, UnmuteOneDoes, Waiting DEF Goes, At, UnmuteLabels, DeskBut
    <3> QED BY <2>2, <3>1, StillHushed DEF Telling, MuteTops, SettleLabels, Under, UnmuteTops
  <2> QED BY <1>5, <2>1, <2>2, UnmuteOneDoes
<1>6. CASE UnmuteRecord
  BY <1>6, UnmuteRecordDoes, Waiting, StillHushed
     DEF At, CtlBut, StBut, UnmuteLabels, DeskBut, Telling, MuteTops, SettleLabels
<1> QED BY <1>1, <1>2, <1>3, <1>4, <1>5, <1>6 DEF Mutes

LEMMA SettlesHushed ==
  ASSUME Typed, OnDisk, Audible, Expected, Hushed, Settles
  PROVE  Hushed'
<1>1. CASE Settle
  <2>1. Silencing' /\ Silenced' /\ Ended' /\ Answered'
    BY <1>1, SettleDoes, Hush, Waiting, BlankFields
       DEF At, CtlBut, StBut, SettleLabels, FinishTops, Hushed, Silencing, MuteTops, Quiet, Alive,
           Silenced, Under, Ended, Parked, Answered, LowTops
  <2> QED BY <2>1 DEF Hushed
<1>2. CASE Expose
  <2>1. Silencing' /\ Silenced' /\ Ended' /\ Answered'
    BY <1>2, ExposeDoes, Hush, Waiting, BlankFields
       DEF At, Calls, CtlBut, DeskBut, Goes, SettleLabels, FinishTops, Hushed, Silencing, MuteTops,
           Quiet, Alive, StBut, Silenced, Under, Ended, Parked, Answered, LowTops
  <2> QED BY <2>1 DEF Hushed
<1>3. CASE Settled
  <2>1. Silencing' /\ Silenced' /\ Ended' /\ Answered'
    BY <1>3, SettledCases, Hush, Waiting, Callers, BlankFields
       DEF At, CtlBut, Goes, Passes, Rests, SettleLabels, FinishTops, LowTops, Hushed, Silencing,
           MuteTops, Quiet, Alive, StBut, Silenced, Under, Ended, Parked, Answered
  <2> QED BY <2>1 DEF Hushed
<1>4. CASE Unsettled
  <2>1. Silencing' /\ Silenced' /\ Ended' /\ Answered'
    BY <1>4, UnsettledCases, Hush, Waiting, Callers, BlankFields
       DEF At, CtlBut, Passes, Rests, SettleLabels, FinishTops, LowTops, Hushed, Silencing,
           MuteTops, Quiet, Alive, Silenced, Under, Ended, Parked, Answered
  <2> QED BY <2>1 DEF Hushed
<1>5. CASE FinishRetention
  <2>1. /\ st'.ending /\ session' = session /\ Top \in FinishTops
        /\ (ctl'.at = "quiet" /\ Top' = "settle") \/ (ctl'.at = "no" /\ Top' = Top)
    BY <1>5, FinishRetentionDoes, Waiting DEF At, Goes, CallsRestore
  <2> QED BY <2>1 DEF Hushed, Silencing, Silenced, Ended, Answered, Parked, Under, At, MuteTops, SettleLabels, FinishTops
<1>6. CASE Recover
  <2>1. Silencing' /\ Silenced' /\ Ended' /\ Answered'
    BY <1>6, RecoverCases, Hush, Waiting, Callers, BlankFields
       DEF At, CallsRestore, CtlBut, Passes, Rests, LowTops, FinishTops, Hushed, Silencing,
           MuteTops, Quiet, Alive, StBut, Silenced, Under, Ended, Parked, SettleLabels, OnDisk,
           Desktop, Answered
  <2> QED BY <2>1 DEF Hushed
<1>7. CASE RecoverAtStart
  BY <1>7, RecoverAtStartDoes, Waiting, Untold
     DEF At, CtlBut, Telling, Promising, MuteTops, SettleLabels
<1> QED BY <1>1, <1>2, <1>3, <1>4, <1>5, <1>6, <1>7 DEF Settles

LEMMA EntersHushed ==
  ASSUME Typed, OnDisk, Audible, Expected, Hushed, Enters
  PROVE  Hushed'
<1>1. ASSUME NEW k \in Kinds, Enter(k) PROVE Hushed'
  BY <1>1, EnterDoes, Waiting, Untold
     DEF At, CtlBut, Telling, Promising, MuteTops, SettleLabels
<1>2. CASE Entered
  <2>1. Silencing' /\ Silenced' /\ Ended' /\ Answered'
    BY <1>2, EnteredCases, Hush, Waiting, Callers, BlankFields, EnterNotParked
       DEF At, CtlBut, Goes, StBut, Rests, LowTops, FinishTops, Hushed, Silencing, MuteTops, Quiet,
           Alive, Silenced, Under, Ended, Parked, SettleLabels, Answered
  <2> QED BY <2>1 DEF Hushed
<1>3. CASE EnterOutput
  <2>1. Silencing' /\ Silenced' /\ Ended' /\ Answered'
    BY <1>3, EnterOutputDoes, Hush, Waiting, BlankFields
       DEF At, CtlBut, Goes, StBut, EnterLabels, Hushed, Silencing, MuteTops, Quiet, Alive,
           Silenced, Under, Ended, Parked, SettleLabels, Answered, LowTops, FinishTops
  <2> QED BY <2>1 DEF Hushed
<1>4. CASE EnterLight
  BY <1>4, EnterLightDoes, Waiting, Untold
     DEF At, CtlBut, DeskBut, Goes, EnterLabels, Telling, Promising, MuteTops, SettleLabels
<1>5. CASE EnterSink
  BY <1>5, EnterSinkDoes, Waiting, Untold
     DEF At, CtlBut, Goes, StBut, EnterLabels, Telling, Promising, MuteTops, SettleLabels
<1>6. CASE EnterSetSink
  BY <1>6, EnterSetSinkDoes, Waiting, Untold
     DEF At, CtlBut, DeskBut, Goes, EnterLabels, Telling, Promising, MuteTops, SettleLabels
<1>7. CASE EnterWindow
  BY <1>7, EnterWindowDoes, Waiting, Untold
     DEF At, CtlBut, Goes, StBut, EnterLabels, Telling, Promising, MuteTops, SettleLabels
<1>8. CASE EnterPlace
  BY <1>8, EnterPlaceDoes, Waiting, Untold
     DEF At, CtlBut, DeskBut, Goes, EnterLabels, Telling, Promising, MuteTops, SettleLabels
<1>9. CASE EnterQuiet
  BY <1>9, EnterQuietDoes, Waiting, Untold
     DEF At, CtlBut, Goes, StBut, EnterLabels, Telling, Promising, MuteTops, SettleLabels
<1>10. CASE EnterSilence
  BY <1>10, EnterSilenceDoes, Waiting, Untold
     DEF At, CtlBut, DeskBut, Goes, EnterLabels, Telling, Promising, MuteTops, SettleLabels
<1>11. CASE EnterLoud
  BY <1>11, EnterLoudDoes, Waiting, Untold
     DEF At, CtlBut, Goes, StBut, EnterLabels, Telling, Promising, MuteTops, SettleLabels
<1>12. CASE EnterLast
  <2>1. Silencing' /\ Silenced' /\ Ended' /\ Answered'
    BY <1>12, EnterLastCases, Hush, Waiting, Callers, BlankFields
       DEF At, CtlBut, Goes, Rests, EnterLabels, LowTops, FinishTops, Hushed, Silencing, MuteTops,
           Quiet, Alive, Silenced, Under, Ended, Parked, SettleLabels, Answered
  <2> QED BY <2>1 DEF Hushed
<1>13. CASE EnterFail
  BY <1>13, EnterFailDoes, Waiting, Untold
     DEF At, CallsRestore, CtlBut, EnterLabels, Telling, Promising, MuteTops, SettleLabels
<1>14. CASE EnterFailed
  <2>1. Silencing' /\ Silenced' /\ Ended' /\ Answered'
    BY <1>14, EnterFailedCases, Hush, Waiting, Callers, BlankFields
       DEF At, CtlBut, Rests, EnterLabels, LowTops, FinishTops, Hushed, Silencing, MuteTops, Quiet,
           Alive, StBut, Silenced, Under, Ended, Parked, SettleLabels, Answered
  <2> QED BY <2>1 DEF Hushed
<1> QED BY <1>1, <1>2, <1>3, <1>4, <1>5, <1>6, <1>7, <1>8, <1>9, <1>10, <1>11, <1>12, <1>13, <1>14 DEF Enters

LEMMA ParksHushed ==
  ASSUME Typed, OnDisk, Audible, Expected, Hushed, Parks
  PROVE  Hushed'
<1>1. CASE Park
  BY <1>1, ParkDoes, Waiting, Untold
     DEF At, CtlBut, Telling, Promising, MuteTops, SettleLabels
<1>2. CASE ParkDiscover
  <2>1. Silencing' /\ Silenced' /\ Ended' /\ Answered'
    BY <1>2, ParkDiscoverDoes, Hush, Waiting, BlankFields
       DEF At, CtlBut, Goes, StBut, ParkLabels, Hushed, Silencing, MuteTops, Quiet, Alive, Silenced,
           Under, Ended, Parked, SettleLabels, Answered, LowTops, FinishTops, Audible, Sessions,
           OnLabels
  <2> QED BY <2>1 DEF Hushed
<1>3. CASE ParkMuted
  <2>1. Silencing' /\ Silenced' /\ Ended' /\ Answered'
    BY <1>3, ParkMutedDoes, Hush, Waiting, BlankFields
       DEF At, Calls, CtlBut, Goes, ParkLabels, Hushed, Silencing, MuteTops, Quiet, Alive, Silenced,
           Under, Ended, Parked, SettleLabels, Answered, LowTops, FinishTops
  <2> QED BY <2>1 DEF Hushed
<1>4. CASE ParkUnmuted
  <2>1. Silencing' /\ Silenced' /\ Ended' /\ Answered'
    BY <1>4, ParkUnmutedCases, Hush, Waiting, Callers, BlankFields
       DEF At, CtlBut, Rests, ParkLabels, LowTops, FinishTops, Hushed, Silencing, MuteTops, Quiet,
           Alive, StBut, Silenced, Under, Ended, Parked, SettleLabels, Answered, Audible, Sessions,
           OnLabels
  <2> QED BY <2>1 DEF Hushed
<1>5. CASE ParkRestore
  <2>1. Silencing' /\ Silenced' /\ Ended' /\ Answered'
    BY <1>5, ParkRestoreDoes, Hush, Waiting, BlankFields
       DEF At, CallsRestore, CtlBut, ParkLabels, Hushed, Silencing, MuteTops, Quiet, Alive,
           Silenced, Under, Ended, Parked, SettleLabels, Answered, LowTops, FinishTops
  <2> QED BY <2>1 DEF Hushed
<1>6. CASE ParkRestored
  <2>1. Silencing' /\ Silenced' /\ Ended' /\ Answered'
    BY <1>6, ParkRestoredCases, Hush, Waiting, Callers, BlankFields
       DEF At, CtlBut, Rests, ParkLabels, LowTops, FinishTops, Hushed, Silencing, MuteTops, Quiet,
           Alive, Silenced, Under, Ended, Parked, SettleLabels, Answered
  <2> QED BY <2>1 DEF Hushed
<1>7. CASE ParkRolledBack
  <2>1. Silencing' /\ Silenced' /\ Ended' /\ Answered'
    BY <1>7, ParkRolledBackCases, Hush, Waiting, Callers, BlankFields
       DEF At, CtlBut, Rests, ParkLabels, LowTops, FinishTops, Hushed, Silencing, MuteTops, Quiet,
           Alive, Silenced, Under, Ended, Parked, SettleLabels, Answered
  <2> QED BY <2>1 DEF Hushed
<1> QED BY <1>1, <1>2, <1>3, <1>4, <1>5, <1>6, <1>7 DEF Parks

LEMMA RefreshesHushed ==
  ASSUME Typed, OnDisk, Audible, Expected, Hushed, Refreshes
  PROVE  Hushed'
<1>1. CASE RefreshParked
  BY <1>1, RefreshParkedDoes, Waiting, Untold
     DEF At, CtlBut, Telling, Promising, MuteTops, SettleLabels
<1>2. CASE RefreshDiscover
  <2>1. Silencing' /\ Silenced' /\ Ended' /\ Answered'
    BY <1>2, RefreshDiscoverDoes, Hush, Waiting, BlankFields
       DEF At, Calls, CtlBut, Goes, StBut, RefreshLabels, Hushed, Silencing, MuteTops, Quiet, Alive,
           Silenced, Under, Ended, Parked, SettleLabels, Answered, LowTops, FinishTops
  <2> QED BY <2>1 DEF Hushed
<1>3. CASE RefreshHeard
  <2>1. Silencing' /\ Silenced' /\ Ended' /\ Answered'
    BY <1>3, RefreshHeardDoes, Hush, Waiting, BlankFields
       DEF At, CtlBut, RefreshLabels, Hushed, Silencing, MuteTops, Quiet, Alive, Silenced, Under,
           Ended, Parked, SettleLabels, Answered, LowTops, FinishTops
  <2> QED BY <2>1 DEF Hushed
<1>4. CASE RefreshRestored
  <2>1. Silencing' /\ Silenced' /\ Ended' /\ Answered'
    BY <1>4, RefreshRestoredCases, Hush, Waiting, Callers, BlankFields
       DEF At, CtlBut, Passes, Rests, RefreshLabels, LowTops, FinishTops, Hushed, Silencing,
           MuteTops, Quiet, Alive, Silenced, Under, Ended, Parked, SettleLabels, Answered
  <2> QED BY <2>1 DEF Hushed
<1>5. CASE RefreshStreams
  BY <1>5, RefreshStreamsDoes, Waiting, Untold
     DEF At, Calls, CtlBut, StBut, RefreshLabels, Telling, Promising, MuteTops, SettleLabels
<1>6. CASE RefreshMuted
  <2>1. Silencing' /\ Silenced' /\ Ended' /\ Answered'
    BY <1>6, RefreshMutedCases, Hush, Waiting, Callers, BlankFields
       DEF At, Calls, CtlBut, Passes, Rests, RefreshLabels, LowTops, FinishTops, Hushed, Silencing,
           MuteTops, Quiet, Alive, Silenced, Under, Ended, Parked, SettleLabels, Answered
  <2> QED BY <2>1 DEF Hushed
<1> QED BY <1>1, <1>2, <1>3, <1>4, <1>5, <1>6 DEF Refreshes

LEMMA ResumesHushed ==
  ASSUME Typed, OnDisk, Audible, Expected, Hushed, Resumes
  PROVE  Hushed'
<1>1. CASE Resume
  BY <1>1, ResumeDoes, Waiting, Untold
     DEF At, CtlBut, Telling, Promising, MuteTops, SettleLabels
<1>2. CASE ResumeCapture
  <2>1. Silencing' /\ Silenced' /\ Ended' /\ Answered'
    BY <1>2, ResumeCaptureCases, Hush, Waiting, Callers, BlankFields
       DEF At, CtlBut, StBut, Passes, Rests, ResumeLabels, LowTops, FinishTops, Hushed, Silencing,
           MuteTops, Quiet, Alive, Silenced, Under, Answered, Parked, Ended, SettleLabels
  <2> QED BY <2>1 DEF Hushed
<1>3. CASE ResumeRecord
  <2>1. Silencing' /\ Silenced' /\ Ended' /\ Answered'
    BY <1>3, ResumeRecordDoes, Hush, Waiting, BlankFields
       DEF At, CtlBut, Goes, ResumeLabels, Hushed, Silencing, MuteTops, Quiet, Alive, StBut,
           Silenced, Under, Ended, Parked, SettleLabels, Answered, LowTops, FinishTops
  <2> QED BY <2>1 DEF Hushed
<1>4. CASE ResumeLight
  BY <1>4, ResumeLightDoes, Waiting, Untold
     DEF At, CtlBut, DeskBut, Goes, ResumeLabels, Telling, Promising, MuteTops, SettleLabels
<1>5. CASE ResumeSink
  BY <1>5, ResumeSinkDoes, Waiting, Untold
     DEF At, CtlBut, Goes, StBut, ResumeLabels, Telling, Promising, MuteTops, SettleLabels
<1>6. CASE ResumeSetSink
  BY <1>6, ResumeSetSinkDoes, Waiting, Untold
     DEF At, CtlBut, DeskBut, Goes, ResumeLabels, Telling, Promising, MuteTops, SettleLabels
<1>7. CASE ResumeWindow
  BY <1>7, ResumeWindowDoes, Waiting, Untold
     DEF At, CtlBut, Goes, StBut, ResumeLabels, Telling, Promising, MuteTops, SettleLabels
<1>8. CASE ResumePlace
  BY <1>8, ResumePlaceDoes, Waiting, Untold
     DEF At, CtlBut, DeskBut, Goes, ResumeLabels, Telling, Promising, MuteTops, SettleLabels
<1>9. CASE ResumeMove
  BY <1>9, ResumeMoveDoes, Waiting, Untold
     DEF At, CtlBut, DeskBut, Goes, ResumeLabels, Telling, Promising, MuteTops, SettleLabels
<1>10. CASE ResumeQuiet
  BY <1>10, ResumeQuietDoes, Waiting, Untold
     DEF At, Calls, CtlBut, Goes, StBut, ResumeLabels, Telling, Promising, MuteTops, SettleLabels
<1>11. CASE ResumeSilence
  BY <1>11, ResumeSilenceDoes, Waiting, Untold
     DEF At, Calls, CtlBut, DeskBut, Goes, ResumeLabels, Telling, Promising, MuteTops, SettleLabels
<1>12. CASE ResumeHeard
  <2>1. Silencing' /\ Silenced' /\ Ended' /\ Answered'
    BY <1>12, ResumeHeardCases, Hush, Waiting, Callers, BlankFields
       DEF At, CtlBut, Goes, StBut, Passes, Rests, ResumeLabels, LowTops, FinishTops, Hushed,
           Silencing, MuteTops, Quiet, Alive, Silenced, Under, Ended, Parked, SettleLabels, Answered
  <2> QED BY <2>1 DEF Hushed
<1>13. CASE ResumeFail
  BY <1>13, ResumeFailDoes, Waiting, Untold
     DEF At, CallsRestore, CtlBut, ResumeLabels, Telling, Promising, MuteTops, SettleLabels
<1>14. CASE ResumeUndone
  <2>1. Silencing' /\ Silenced' /\ Ended' /\ Answered'
    BY <1>14, ResumeUndoneDoes, Hush, Waiting, BlankFields
       DEF At, Calls, CtlBut, Goes, ResumeLabels, Hushed, Silencing, MuteTops, Quiet, Alive, StBut,
           Silenced, Under, Ended, Parked, SettleLabels, Answered, LowTops, FinishTops
  <2> QED BY <2>1 DEF Hushed
<1>15. CASE ResumeMuted
  <2>1. Silencing' /\ Silenced' /\ Ended' /\ Answered'
    BY <1>15, ResumeMutedDoes, Hush, Waiting, BlankFields
       DEF At, Calls, CtlBut, Goes, ResumeLabels, Hushed, Silencing, MuteTops, Quiet, Alive,
           Silenced, Under, Ended, Parked, SettleLabels, Answered, LowTops, FinishTops
  <2> QED BY <2>1 DEF Hushed
<1> QED BY <1>1, <1>2, <1>3, <1>4, <1>5, <1>6, <1>7, <1>8, <1>9, <1>10, <1>11, <1>12, <1>13, <1>14, <1>15 DEF Resumes

LEMMA ExitsHushed ==
  ASSUME Typed, OnDisk, Audible, Expected, Hushed, Exits
  PROVE  Hushed'
<1>1. CASE Exit
  BY <1>1, ExitDoes, Waiting, Untold
     DEF At, CtlBut, Telling, Promising, MuteTops, SettleLabels
<1>2. CASE ExitHeard
  BY <1>2, ExitHeardDoes, Waiting, Untold
     DEF At, CtlBut, ExitLabels, Telling, Promising, MuteTops, SettleLabels
<1>3. CASE ExitRestored
  <2>1. Silencing' /\ Silenced' /\ Ended' /\ Answered'
    BY <1>3, ExitRestoredCases, Hush, Waiting, Callers, BlankFields
       DEF At, CtlBut, Rests, ExitLabels, LowTops, FinishTops, Hushed, Silencing, MuteTops, Quiet,
           Alive, StBut, Silenced, Under, Ended, Parked, SettleLabels, Answered, Audible, Sessions,
           OnLabels
  <2> QED BY <2>1 DEF Hushed
<1>4. CASE Exited
  <2>1. Silencing' /\ Silenced' /\ Ended' /\ Answered'
    BY <1>4, ExitedCases, Hush, Waiting, Callers, BlankFields
       DEF At, CtlBut, Rests, ExitLabels, LowTops, FinishTops, Hushed, Silencing, MuteTops, Quiet,
           Alive, StBut, Silenced, Under, Ended, Parked, SettleLabels, Answered
  <2> QED BY <2>1 DEF Hushed
<1> QED BY <1>1, <1>2, <1>3, <1>4 DEF Exits

\* A failure is passed on to those that wait for it, one of which may be
\* about to fail itself.
LEMMA AnswerHushed ==
  ASSUME Typed, Hushed, Answer
  PROVE  Hushed'
<1>1. /\ Typed' /\ UNCHANGED <<desk, was, disk, st, session, left>> /\ (At("yes") \/ At("no"))
      /\ \E ok \in BOOLEAN : Returns(ok) /\ (ok <=> At("yes"))
  BY AnswerDoes DEF At
<1>2. PICK ok \in BOOLEAN : Returns(ok) /\ (ok <=> At("yes"))
  BY <1>1
<1>3. (Quiet(st)' <=> Quiet(st)) /\ (Parked' <=> Parked)
  BY <1>1 DEF Quiet, Alive, Parked
<1>4. CASE Top = "idle"
  <2>1. ctl'.at = "idle" /\ Top' = "idle"
    BY <1>2, <1>4 DEF Returns
  <2>2. At("no")
    BY <1>1, <1>4, Waiting DEF MuteTops, UnmuteTops
  <2> QED BY <1>3, <1>4, <2>1, <2>2, RestsHushed DEF Hushed, Answered, LowTops, FinishTops
<1>5. CASE Top # "idle"
  <2>1. ctl'.at = Top /\ Top' \in LowTops /\ ctl'.ok = ok /\ CtlBut({"ok"}) /\ Below(Top, Top')
    BY <1>2, <1>5 DEF Returns
  <2>2. ctl'.at \in AllTops \ {"idle"} /\ (At("yes") => ctl'.at \in MuteTops \cup UnmuteTops)
    BY <1>1, <1>5, <2>1, Callers, Waiting DEF At
  <2>3. Silencing' /\ Silenced' /\ Ended' /\ Answered'
    BY <1>1, <1>2, <1>3, <2>1, <2>2
       DEF Hushed, Silencing, At, AllTops, RestoreTops, MuteTops, UnmuteTops, FinishTops, LowTops,
           Silenced, Under, Ended, Below, SettleLabels, Answered
  <2> QED BY <2>3 DEF Hushed
<1> QED BY <1>4, <1>5

\* A step that leaves the controller, and after which no game is heard
\* that was not, changes none of it.
LEMMA QuietStays ==
  ASSUME Hushed, UNCHANGED <<st, session, ctl>>, Top' = Top,
         desk'.games \subseteq desk.games, desk.muted \cap desk'.games \subseteq desk'.muted
  PROVE  Hushed'
<1>1. \A t : Alive(st.games) \ t \subseteq desk.muted => Alive(st.games)' \ t \subseteq desk'.muted
  BY DEF Alive
<1>2. (Quiet(st) => Quiet(st)') /\ (Quiet(ctl.kept) => Quiet(ctl.kept)') /\ (Parked' <=> Parked)
  BY DEF Quiet, Alive, Parked
<1>3. Silencing' /\ Silenced'
  BY <1>1, <1>2 DEF Hushed, Silencing, Silenced, Under, At
<1>4. Ended' /\ Answered'
  BY <1>2 DEF Hushed, Ended, Answered, Under, At
<1> QED BY <1>3, <1>4 DEF Hushed

\* No step of the world makes a game that was not heard heard: one that
\* starts is not known yet, and one that ends is alive no more.
LEMMA WorldHushed ==
  ASSUME Typed, Audible, Hushed, World
  PROVE  Hushed'
<1>1. CASE Kill
  BY <1>1, KillDoes, RestsHushed DEF Parked
<1>2. ASSUME NEW g \in Games, GameStarts(g) PROVE Hushed'
  <2>1. /\ At("idle") /\ Top' = "idle" /\ ctl' = ctl /\ st' = st /\ session' = session
        /\ g \notin desk.games \cup desk.over
    BY <1>2, GameStartsDoes, IdleStays, Waiting
  <2>2. desk'.games = desk.games \cup {g} /\ desk.muted \subseteq desk'.muted
    BY <1>2, GameStartsDoes DEF DeskBut
  <2>3. g \notin st.games
    BY <2>1 DEF Audible, Sounds, Known, Scene
  <2>4. Parked' => Quiet(st)'
    BY <2>1, <2>2, <2>3 DEF Hushed, Answered, Parked, Quiet, Alive, At
  <2> QED BY <2>1, <2>4, RestsHushed DEF At
<1>3. ASSUME NEW g \in Games, GameEnds(g) PROVE Hushed'
  <2>1. /\ UNCHANGED <<st, session, ctl>> /\ Top' = Top
        /\ desk'.games = desk.games \ {g} /\ desk'.muted = desk.muted \ {g}
    BY <1>3, GameEndsDoes, IdleStays
  <2> QED BY <2>1, QuietStays
<1>4. ASSUME NEW s \in Sinks, PlayerPicksSink(s) \/ SinkGoes(s) PROVE Hushed'
  <2>1. /\ UNCHANGED <<st, session, ctl>> /\ Top' = Top /\ desk'.games = desk.games /\ desk'.muted = desk.muted
    BY <1>4, PlayerPicksSinkDoes, SinkGoesDoes, IdleStays DEF DeskBut
  <2> QED BY <2>1, QuietStays
<1>5. ASSUME NEW o \in Outputs, Unplug(o) PROVE Hushed'
  <2>1. /\ UNCHANGED <<st, session, ctl>> /\ Top' = Top /\ desk'.games = desk.games /\ desk'.muted = desk.muted
    BY <1>5, UnplugDoes, IdleStays DEF DeskBut
  <2> QED BY <2>1, QuietStays
<1> QED BY <1>1, <1>2, <1>3, <1>4, <1>5 DEF World

\* A session is parked in silence after every step.
LEMMA HushedKept ==
  ASSUME Typed, OnDisk, Audible, Expected, Hushed, [GameModeNext]_gameModeVars
  PROVE  Hushed'
<1>1. CASE UNCHANGED gameModeVars
  BY <1>1 DEF gameModeVars, Hushed, Silencing, Silenced, Ended, Answered, Parked, Quiet, Alive, Under, Top, At
<1> QED
  BY <1>1, AnswerHushed, RestoresHushed, MutesHushed, SettlesHushed, EntersHushed, ParksHushed,
     RefreshesHushed, ResumesHushed, ExitsHushed, WorldHushed DEF GameModeNext

\* What the session is while an operation runs is one of its outcomes.
LEMMA ExpectedAlways == GameModeSpec => []Expected
<1>1. GameModeInit => Expected
  BY DEF GameModeInit, Expected, At, Resting
<1>2. Typed /\ Expected /\ [GameModeNext]_gameModeVars => Expected'
  BY OperationStep
<1> QED BY TypeCorrect, <1>1, <1>2, PTL DEF GameModeSpec

\* While a session is parked and nothing runs, no game of it that is alive
\* is heard, unless the session is being ended: every game was muted
\* before park, refreshParked and a resumption that was undone answered,
\* and none was unmuted since.
THEOREM ParkedQuiet == GameModeSpec => []ParkedIsQuiet
<1>1. GameModeInit => Hushed
  BY DEF GameModeInit, Resting, Hushed, Silencing, Silenced, Ended, Answered, Parked, MuteTops, SettleLabels, Under, Top, At
<1>2. Typed /\ OnDisk /\ Audible /\ Expected /\ Hushed /\ [GameModeNext]_gameModeVars => Hushed'
  BY HushedKept
<1>3. Hushed => ParkedIsQuiet
  BY DEF Hushed, Answered, Parked, Quiet, ParkedIsQuiet, At
<1> QED BY TypeCorrect, OnDiskAlways, AudibleAlways, ExpectedAlways, <1>1, <1>2, <1>3, PTL DEF GameModeSpec
===========================================================================
