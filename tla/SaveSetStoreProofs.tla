-------------------------- MODULE SaveSetStoreProofs --------------------------
\* Proofs about SaveSetStore, for any number of processes and files, any
\* retention and any bounds.
\*
\* The inductive invariant says who may be where while a journal is
\* pending (the lock), what the live files hold then (JournalInv) and how
\* far the two loops over the files have come (RollInv, SwapInv).
EXTENDS SaveSetStore, FiniteSetTheorems, TLAPS

Results == {"none", "swapped", "unswapped", "success", "failure"}

DiskType ==
  /\ live \in SaveSets
  /\ versions \subseteq Versions
  /\ journal \in Journals \cup {NoJournal}
  /\ lock \in Procs \cup {Nobody}
  /\ running \in BOOLEAN
  /\ clock \in Nat
  /\ touched \subseteq Paths
  /\ budget \in [{"ops", "writes", "starts", "faults", "crashes"} -> Nat]

LocalType ==
  /\ pc \in [Procs -> Labels]
  /\ op \in [Procs -> [kind : Kinds, id : Ids \cup {Nothing}]]
  /\ before \in [Procs -> SaveSets]
  /\ after \in [Procs -> SaveSets]
  /\ data \in [Procs -> SaveSets]
  /\ todo \in [Procs -> SUBSET Paths]
  /\ cur \in [Procs -> Paths \cup Ids \cup {Nothing}]
  /\ result \in [Procs -> Results]

LEMMA TypeSplit == TypeOK <=> DiskType /\ LocalType
BY DEF TypeOK, DiskType, LocalType, Results

LEMMA TypeSplitPrime == TypeOK' <=> DiskType' /\ LocalType'
BY DEF TypeOK, DiskType, LocalType, Results

LEMMA EmptySetType == EmptySet \in SaveSets
BY DEF EmptySet, SaveSets

\* An operation that ends leaves well-typed variables behind.
LEMMA ReturnType ==
  ASSUME LocalType, NEW p \in Procs, NEW r \in Results, Return(p, r)
  PROVE  LocalType'
<1>1. "idle" \in Labels /\ "recover" \in Kinds
  BY DEF Labels, Kinds
<1>2. pc' \in [Procs -> Labels] /\ result' \in [Procs -> Results]
  BY <1>1 DEF LocalType, Return, Goto
<1>3. op' \in [Procs -> [kind : Kinds, id : Ids \cup {Nothing}]]
  BY <1>1 DEF LocalType, Return, Forget
<1>4. /\ before' \in [Procs -> SaveSets]
      /\ after' \in [Procs -> SaveSets]
      /\ data' \in [Procs -> SaveSets]
      /\ todo' \in [Procs -> SUBSET Paths]
      /\ cur' \in [Procs -> Paths \cup Ids \cup {Nothing}]
  BY EmptySetType DEF LocalType, Return, Forget
<1>5. QED BY <1>2, <1>3, <1>4 DEF LocalType

LEMMA ContinueType ==
  ASSUME LocalType, NEW p \in Procs, NEW l \in Labels, Continue(p, l)
  PROVE  LocalType'
BY DEF LocalType, Continue, Goto, locals, copies

LEMMA AfterRecoverType ==
  ASSUME LocalType, NEW p \in Procs, AfterRecover(p)
  PROVE  LocalType'
<1>1. {"read", "snapshot", "remove", "launch"} \subseteq Labels
  BY DEF Labels, RestoreLabels, SnapshotLabels
<1>2. {"success", "failure"} \subseteq Results
  BY DEF Results
<1>3. CASE \E r \in {"success", "failure"} : Return(p, r)
  BY <1>2, <1>3, ReturnType
<1>4. CASE \E l \in {"read", "snapshot", "remove", "launch"} : Continue(p, l)
  BY <1>1, <1>4, ContinueType
<1>5. QED BY <1>3, <1>4 DEF AfterRecover

LEMMA AfterSnapshotType ==
  ASSUME LocalType, NEW p \in Procs, NEW okay \in BOOLEAN, AfterSnapshot(p, okay)
  PROVE  LocalType'
<1>1. {"spawn", "prepare"} \subseteq Labels
  BY DEF Labels, RestoreLabels
<1>2. {"success", "failure"} \subseteq Results
  BY DEF Results
<1>3. CASE \E r \in {"success", "failure"} : Return(p, r)
  BY <1>2, <1>3, ReturnType
<1>4. CASE \E l \in {"spawn", "prepare"} : Continue(p, l)
  BY <1>1, <1>4, ContinueType
<1>5. QED BY <1>3, <1>4 DEF AfterSnapshot

LEMMA AfterDropType ==
  ASSUME LocalType, NEW p \in Procs, NEW okay \in BOOLEAN, AfterDrop(p, okay)
  PROVE  LocalType'
<1>1. CASE \E r \in {"success", "failure"} : Return(p, r)
  BY <1>1, ReturnType DEF Results
<1>2. CASE AfterSnapshot(p, TRUE)
  BY <1>2, AfterSnapshotType
<1>3. QED BY <1>1, <1>2 DEF AfterDrop

LEMMA SpendType ==
  ASSUME DiskType, NEW what \in {"ops", "writes", "starts", "faults", "crashes"},
         Spend(what)
  PROVE  budget' \in [{"ops", "writes", "starts", "faults", "crashes"} -> Nat]
BY DEF DiskType, Spend

LEMMA BeginType ==
  ASSUME TypeOK, NEW p \in Procs, NEW k \in Kinds, NEW id \in Ids \cup {Nothing},
         Begin(p, k, id), budget' \in [{"ops", "writes", "starts", "faults", "crashes"} -> Nat]
  PROVE  TypeOK'
<1>1. "recover" \in Labels
  BY DEF Labels, RecoverLabels
<1>2. QED BY <1>1 DEF TypeOK, Begin, Goto, disk, locals, copies

-----------------------------------------------------------------------------
LEMMA AskType == ASSUME TypeOK, NEW p \in Procs, Ask(p) PROVE TypeOK'
<1>1. DiskType BY TypeSplit
<1>2. Kinds = {"restore", "snapshot", "remove", "launch", "recover"} BY DEF Kinds
<1>3. \A v \in versions : v.id \in Ids BY DEF TypeOK, Versions
<1>4. ASSUME NEW k \in Kinds, NEW id \in Ids \cup {Nothing}, Begin(p, k, id), Spend("ops")
      PROVE  TypeOK'
  BY <1>1, <1>4, SpendType, BeginType
<1>5. CASE Restore(p) BY <1>2, <1>3, <1>4, <1>5 DEF Restore
<1>6. CASE Remove(p) BY <1>2, <1>3, <1>4, <1>6 DEF Remove
<1>7. CASE Snapshot(p) BY <1>2, <1>4, <1>7 DEF Snapshot
<1>8. CASE Launch(p) BY <1>2, <1>4, <1>8 DEF Launch
<1>9. CASE RetryRecovery(p)
  BY <1>1, <1>2, <1>9, BeginType DEF RetryRecovery, DiskType
<1>10. QED BY <1>5, <1>6, <1>7, <1>8, <1>9 DEF Ask

LEMMA LabelsAre ==
  Labels = {"idle", "remove", "launch", "spawn", "recover", "roll", "rollApply",
            "clearing", "snapshot", "publish", "trim", "drop", "dropping", "read",
            "prepare", "stage", "swap", "swapApply"}
BY DEF Labels, RecoverLabels, SnapshotLabels, RestoreLabels

-----------------------------------------------------------------------------
\* The invariant.

Locked == {"roll", "rollApply", "clearing", "publish", "trim", "drop", "dropping",
           "stage", "swap", "swapApply"}

\* These labels are reached with the lock file held.
LockInv == \A p \in Procs : pc[p] \in Locked => lock = p

\* A pending journal knows the content of every file nothing else wrote.
JournalInv == Pending => \A q \in Paths \ touched : Settled(q)

\* Rolling: the files already visited are on the side of the journal.
RollAt(p) ==
  pc[p] \in {"roll", "rollApply", "clearing"} =>
    /\ Pending
    /\ \A q \in Paths \ touched : q \notin todo[p] => live[q] = Target(journal)[q]
    /\ pc[p] = "clearing" => todo[p] = {}
    /\ pc[p] # "clearing" => journal.intact
    /\ pc[p] = "rollApply" => cur[p] \in Paths
RollInv == \A p \in Procs : RollAt(p)

\* Swapping: the journal is uncommitted and is the one in memory.
SwapAt(p) ==
  pc[p] \in {"swap", "swapApply"} =>
    /\ Pending
    /\ journal.before = before[p] /\ journal.after = after[p]
    /\ journal.intact /\ ~journal.committed
    /\ pc[p] = "swapApply" => cur[p] \in Paths
SwapInv == \A p \in Procs : SwapAt(p)

\* Snapshots are taken and journals are staged with no journal pending.
QuietAt(p) == pc[p] \in {"publish", "trim", "stage"} => ~Pending
QuietInv == \A p \in Procs : QuietAt(p)

IInv == TypeOK /\ LockInv /\ JournalInv /\ RollInv /\ SwapInv /\ QuietInv

-----------------------------------------------------------------------------
\* Every step of an operation keeps the variables well typed.
LEMMA RecoverType == ASSUME TypeOK, RollInv, NEW p \in Procs, RecoverStep(p) PROVE TypeOK'
<1> USE DEF disk, world, copies, locals, At, Goto
<1>1. DiskType /\ LocalType BY TypeSplit
<1>2. {"roll", "rollApply", "clearing"} \subseteq Labels BY LabelsAre
<1>3. "failure" \in Results BY DEF Results
<1>4. LocalType' /\ DiskType' => TypeOK' BY TypeSplitPrime
<1>5. CASE RecoverNothing(p)
  BY <1>1, <1>4, <1>5, AfterRecoverType DEF RecoverNothing, DiskType
<1>6. CASE RecoverBegin(p)
  <2>1. Files(journal) \subseteq Paths BY DEF Files
  <2>2. DiskType' BY <1>1, <1>6 DEF RecoverBegin, DiskType, Take
  <2>3. LocalType' BY <2>1, <1>1, <1>2, <1>6 DEF RecoverBegin, LocalType
  <2>4. QED BY <2>2, <2>3, <1>4
<1>7. CASE RecoverRefused(p)
  BY <1>1, <1>3, <1>4, <1>7, ReturnType DEF RecoverRefused, DiskType
<1>8. CASE RecoverFails(p)
  BY <1>1, <1>3, <1>4, <1>8, ReturnType, SpendType DEF RecoverFails, DiskType
<1>9. CASE RollCheck(p)
  BY <1>2, <1>9 DEF RollCheck, TypeOK
<1>10. CASE RollRefused(p)
  BY <1>1, <1>3, <1>4, <1>10, ReturnType DEF RollRefused, DiskType, Unlock
<1>11. CASE RollApplyFails(p)
  BY <1>1, <1>3, <1>4, <1>11, ReturnType, SpendType DEF RollApplyFails, DiskType, Unlock
<1>12. CASE ClearBegin(p)
  <2>1. Pending \/ todo[p] # {} BY <1>12 DEF ClearBegin, RollInv, RollAt
  <2>2. journal' \in Journals BY <1>12, <2>1 DEF ClearBegin, TypeOK, Journals, Pending
  <2>3. QED BY <2>2, <1>2, <1>12 DEF ClearBegin, TypeOK
<1>13. CASE ClearEnd(p)
  BY <1>1, <1>4, <1>13, AfterRecoverType DEF ClearEnd, DiskType, Unlock
<1>14. CASE ClearFails(p)
  BY <1>1, <1>3, <1>4, <1>14, ReturnType, SpendType DEF ClearFails, DiskType, Unlock
<1>15. CASE RollApply(p)
  <2>1. Pending BY <1>15 DEF RollApply, RollInv, RollAt
  <2>2. Target(journal) \in SaveSets BY <2>1 DEF TypeOK, Journals, Pending, Target
  <2>3. live' \in SaveSets BY <2>2, <1>15 DEF RollApply, TypeOK, SaveSets
  <2>4. QED BY <2>3, <1>2, <1>15 DEF RollApply, TypeOK
<1>16. QED
  BY <1>5, <1>6, <1>7, <1>8, <1>9, <1>10, <1>11, <1>12, <1>13, <1>14, <1>15
  DEF RecoverStep

LEMMA SnapshotType == ASSUME TypeOK, NEW p \in Procs, SnapshotStep(p) PROVE TypeOK'
<1> USE DEF disk, world, copies, locals, At, Goto
<1>1. DiskType /\ LocalType BY TypeSplit
<1>2. {"publish", "trim", "drop", "dropping"} \subseteq Labels BY LabelsAre
<1>3. LocalType' /\ DiskType' => TypeOK' BY TypeSplitPrime
<1>4. CASE SnapshotUnneeded(p)
  BY <1>1, <1>3, <1>4, AfterSnapshotType DEF SnapshotUnneeded, DiskType
<1>5. CASE SnapshotBegin(p)
  BY <1>2, <1>5 DEF SnapshotBegin, TypeOK, Take
<1>6. CASE SnapshotRefused(p)
  BY <1>1, <1>3, <1>6, AfterSnapshotType DEF SnapshotRefused, DiskType
<1>7. CASE SnapshotFails(p)
  BY <1>1, <1>3, <1>7, AfterSnapshotType, SpendType DEF SnapshotFails, DiskType
<1>8. CASE Publish(p)
  <2>1. \A v \in versions : v.stamp \in Nat BY DEF TypeOK, Versions
  <2>2. PICK now \in Times, stamp \in Nat :
          /\ clock' = now
          /\ versions' = versions \cup
               {[id |-> CHOOSE i \in FreshIds : TRUE, created |-> now, stamp |-> stamp,
                 data |-> data[p], whole |-> TRUE]}
    BY <1>8, <2>1 DEF Publish, Times, Later, Newest
  <2>3. (CHOOSE i \in FreshIds : TRUE) \in Ids
    <3>1. PICK i \in FreshIds : TRUE BY <1>8 DEF Publish
    <3>2. QED BY <3>1 DEF FreshIds
  <2>4. now \in Nat BY BoundsAssumption DEF Times
  <2>5. versions' \subseteq Versions
    <3> DEFINE i == CHOOSE j \in FreshIds : TRUE
    <3> DEFINE new == [id |-> i, created |-> now, stamp |-> stamp,
                       data |-> data[p], whole |-> TRUE]
    <3>1. data[p] \in SaveSets BY DEF TypeOK
    <3>2. i \in Ids BY <2>3
    <3>3. versions' = versions \cup {new} BY <2>2
    <3> HIDE DEF i
    <3>4. new \in Versions BY <3>1, <3>2, <2>4 DEF Versions
    <3> HIDE DEF new
    <3>5. QED BY <3>3, <3>4 DEF TypeOK
  <2>6. QED BY <2>2, <2>4, <2>5, <1>2, <1>8 DEF Publish, TypeOK
<1>9. CASE PublishRefused(p)
  BY <1>1, <1>3, <1>9, AfterSnapshotType DEF PublishRefused, DiskType, Unlock
<1>10. CASE PublishFails(p)
  BY <1>1, <1>3, <1>10, AfterSnapshotType, SpendType DEF PublishFails, DiskType, Unlock
<1>11. CASE Trim(p)
  <2>1. \A v \in versions : v.id \in Ids BY DEF TypeOK, Versions
  <2>2. QED BY <2>1, <1>2, <1>11 DEF Trim, TypeOK, Oldest
<1>12. CASE TrimNothing(p)
  BY <1>1, <1>3, <1>12, AfterSnapshotType DEF TrimNothing, DiskType, Unlock
<1>13. CASE DropBegin(p)
  <2>1. \A v \in versions : [v EXCEPT !.whole = FALSE] \in Versions
    BY DEF TypeOK, Versions
  <2>2. versions' \subseteq Versions BY <2>1, <1>13 DEF DropBegin, TypeOK
  <2>3. QED BY <2>2, <1>2, <1>13 DEF DropBegin, TypeOK
<1>14. CASE DropEnd(p)
  BY <1>1, <1>3, <1>14, AfterDropType DEF DropEnd, DiskType, Unlock
<1>15. CASE DropFails(p)
  BY <1>1, <1>3, <1>15, AfterDropType, SpendType DEF DropFails, DiskType, Unlock
<1>16. QED
  BY <1>4, <1>5, <1>6, <1>7, <1>8, <1>9, <1>10, <1>11, <1>12, <1>13, <1>14, <1>15
  DEF SnapshotStep

LEMMA OtherType == ASSUME TypeOK, NEW p \in Procs, OtherStep(p) PROVE TypeOK'
<1> USE DEF disk, world, copies, locals, At, Goto
<1>1. DiskType /\ LocalType BY TypeSplit
<1>2. {"drop", "snapshot", "spawn"} \subseteq Labels BY LabelsAre
<1>3. LocalType' /\ DiskType' => TypeOK' BY TypeSplitPrime
<1>4. CASE RemoveBegin(p)
  <2>1. op[p].id \in Ids BY <1>4 DEF RemoveBegin, TypeOK, Versions
  <2>2. QED BY <2>1, <1>2, <1>4 DEF RemoveBegin, TypeOK, Take
<1>5. CASE RemoveRefused(p)
  BY <1>1, <1>3, <1>5, ReturnType DEF RemoveRefused, DiskType, Results
<1>6. CASE ProtectLaunch(p)
  BY <1>1, <1>2, <1>3, <1>6, ContinueType DEF ProtectLaunch, DiskType
<1>7. CASE SkipProtection(p)
  BY <1>1, <1>2, <1>3, <1>7, ContinueType DEF SkipProtection, DiskType
<1>8. CASE Spawn(p)
  BY <1>1, <1>3, <1>8, ReturnType DEF Spawn, DiskType, Results
<1>9. QED BY <1>4, <1>5, <1>6, <1>7, <1>8 DEF OtherStep

LEMMA RestoreType ==
  ASSUME TypeOK, SwapInv, NEW p \in Procs, RestoreStep(p) PROVE TypeOK'
<1> USE DEF disk, world, copies, locals, At, Goto
<1>1. DiskType /\ LocalType BY TypeSplit
<1>2. {"snapshot", "stage", "swap", "swapApply", "recover"} \subseteq Labels BY LabelsAre
<1>3. LocalType' /\ DiskType' => TypeOK' BY TypeSplitPrime
<1>4. "failure" \in Results /\ "swapped" \in Results /\ "unswapped" \in Results
  BY DEF Results
<1>5. CASE RestoreRead(p)
  <2>1. \A v \in versions : v.data \in SaveSets BY DEF TypeOK, Versions
  <2>2. DiskType' BY <1>1, <1>5 DEF RestoreRead, DiskType
  <2>3. LocalType' BY <2>1, <1>1, <1>2, <1>5 DEF RestoreRead, LocalType, DiskType
  <2>4. QED BY <2>2, <2>3, <1>3
<1>6. CASE RestoreReadFails(p)
  BY <1>1, <1>3, <1>4, <1>6, ReturnType, SpendType DEF RestoreReadFails, DiskType
<1>7. CASE Prepare(p)
  BY <1>2, <1>7 DEF Prepare, TypeOK, Take
<1>8. CASE PrepareRefused(p)
  BY <1>1, <1>3, <1>4, <1>8, ReturnType DEF PrepareRefused, DiskType
<1>9. CASE Journalize(p)
  <2>1. journal' \in Journals BY <1>9 DEF Journalize, TypeOK, Journals
  <2>2. Files(journal') \subseteq Paths BY DEF Files
  <2>3. DiskType' BY <2>1, <1>1, <1>9 DEF Journalize, DiskType
  <2>4. LocalType' BY <2>2, <1>1, <1>2, <1>9 DEF Journalize, LocalType
  <2>5. QED BY <2>3, <2>4, <1>3
<1>10. CASE JournalizeRefused(p)
  BY <1>1, <1>3, <1>4, <1>10, ReturnType DEF JournalizeRefused, DiskType, Unlock
<1>11. CASE JournalizeFails(p)
  BY <1>1, <1>3, <1>4, <1>11, ReturnType, SpendType DEF JournalizeFails, DiskType, Unlock
<1>12. CASE SwapCheck(p)
  BY <1>2, <1>12 DEF SwapCheck, TypeOK
<1>13. CASE SwapRefused(p)
  BY <1>1, <1>2, <1>3, <1>4, <1>13 DEF SwapRefused, EndSwap, Unlock, DiskType, LocalType
<1>14. CASE SwapApply(p)
  <2>1. after[p] \in SaveSets BY DEF TypeOK
  <2>2. cur[p] \in Paths BY <1>14 DEF SwapApply, SwapInv, SwapAt
  <2>3. live' \in SaveSets BY <2>1, <2>2, <1>14 DEF SwapApply, TypeOK, SaveSets
  <2>4. QED BY <2>3, <1>2, <1>14 DEF SwapApply, TypeOK
<1>15. CASE SwapApplyFails(p)
  <2>1. DiskType' BY <1>1, <1>15, SpendType DEF SwapApplyFails, EndSwap, Unlock, DiskType
  <2>2. LocalType' BY <1>1, <1>2, <1>4, <1>15 DEF SwapApplyFails, EndSwap, LocalType
  <2>3. QED BY <2>1, <2>2, <1>3
<1>16. CASE Commit(p)
  <2>1. journal' \in Journals
    BY <1>16 DEF Commit, SwapInv, SwapAt, TypeOK, Journals, Pending
  <2>2. QED BY <2>1, <1>1, <1>2, <1>3, <1>4, <1>16 DEF Commit, EndSwap, Unlock, DiskType, LocalType
<1>17. CASE CommitFails(p)
  <2>1. DiskType' BY <1>1, <1>17, SpendType DEF CommitFails, EndSwap, Unlock, DiskType
  <2>2. LocalType' BY <1>1, <1>2, <1>4, <1>17 DEF CommitFails, EndSwap, LocalType
  <2>3. QED BY <2>1, <2>2, <1>3
<1>18. QED
  BY <1>5, <1>6, <1>7, <1>8, <1>9, <1>10, <1>11, <1>12, <1>13, <1>14, <1>15, <1>16, <1>17
  DEF RestoreStep

LEMMA WorldType ==
  ASSUME TypeOK,
         (\E p \in Procs : Crash(p)) \/ EmulatorStarts \/ EmulatorQuits \/ Outside
  PROVE  TypeOK'
<1> USE DEF disk, world, copies, locals, At, Goto
<1>1. DiskType /\ LocalType BY TypeSplit
<1>2. LocalType' /\ DiskType' => TypeOK' BY TypeSplitPrime
<1>3. ASSUME NEW p \in Procs, Crash(p) PROVE TypeOK'
  BY <1>1, <1>2, <1>3, ReturnType, SpendType DEF Crash, DiskType, Results
<1>4. CASE EmulatorStarts
  BY <1>1, <1>2, <1>4, SpendType DEF EmulatorStarts, DiskType, LocalType
<1>5. CASE EmulatorQuits
  BY <1>5 DEF EmulatorQuits, TypeOK
<1>6. ASSUME NEW q \in Paths, NEW c \in Contents \cup {Absent}, OutsideWrite(q, c)
      PROVE  TypeOK'
  <2>1. live' \in SaveSets BY <1>6 DEF OutsideWrite, TypeOK, SaveSets
  <2>2. touched' \subseteq Paths BY <1>6 DEF OutsideWrite, TypeOK
  <2>3. DiskType' BY <2>1, <2>2, <1>1, <1>6, SpendType DEF OutsideWrite, DiskType
  <2>4. LocalType' BY <1>1, <1>6 DEF OutsideWrite, LocalType
  <2>5. QED BY <2>3, <2>4, <1>2
<1>7. QED BY <1>3, <1>4, <1>5, <1>6 DEF Outside

LEMMA TypeStep ==
  ASSUME TypeOK, RollInv, SwapInv, [Next]_vars
  PROVE  TypeOK'
<1>1. ASSUME NEW p \in Procs, Ask(p) PROVE TypeOK'
  BY <1>1, AskType
<1>2. ASSUME NEW p \in Procs, Step(p) PROVE TypeOK'
  BY <1>2, RecoverType, SnapshotType, OtherType, RestoreType DEF Step
<1>3. CASE (\E p \in Procs : Crash(p)) \/ EmulatorStarts \/ EmulatorQuits \/ Outside
  BY <1>3, WorldType
<1>4. CASE UNCHANGED vars
  BY <1>4 DEF vars, disk, world, locals, copies, TypeOK
<1>5. QED BY <1>1, <1>2, <1>3, <1>4 DEF Next

-----------------------------------------------------------------------------
\* A step of p leaves the loops of the others alone.
Frame(p) ==
  \A r \in Procs \ {p} :
    /\ pc'[r] = pc[r]
    /\ before'[r] = before[r] /\ after'[r] = after[r]
    /\ todo'[r] = todo[r] /\ cur'[r] = cur[r]

\* ... and takes p to a label at which it does not hold the lock.
Leaves(p) == Frame(p) /\ pc'[p] \notin Locked

LEMMA ReturnLeaves ==
  ASSUME TypeOK, NEW p \in Procs, NEW r, Return(p, r)
  PROVE  Leaves(p)
BY DEF TypeOK, Return, Forget, Goto, Leaves, Frame, Locked

LEMMA ContinueLeaves ==
  ASSUME TypeOK, NEW p \in Procs, NEW l, l \notin Locked, Continue(p, l)
  PROVE  Leaves(p)
BY DEF TypeOK, Continue, Goto, Leaves, Frame, locals, copies

LEMMA AfterLeaves ==
  ASSUME TypeOK, NEW p \in Procs, NEW okay \in BOOLEAN,
         AfterRecover(p) \/ AfterSnapshot(p, okay) \/ AfterDrop(p, okay)
  PROVE  Leaves(p)
<1>1. CASE \E r : Return(p, r)
  BY <1>1, ReturnLeaves
<1>2. CASE \E l \in {"read", "snapshot", "remove", "launch", "spawn", "prepare"} :
             Continue(p, l)
  BY <1>2, ContinueLeaves DEF Locked
<1>3. QED BY <1>1, <1>2 DEF AfterRecover, AfterSnapshot, AfterDrop

\* A step that touches neither files nor journal, after which p holds no
\* lock, keeps the invariant.
LEMMA LeavesInv ==
  ASSUME IInv, TypeOK', NEW p \in Procs, Leaves(p),
         UNCHANGED <<live, journal, touched>>,
         lock' = lock \/ lock = p
  PROVE  IInv'
<1>1. LockInv' BY DEF IInv, LockInv, Leaves, Frame
<1>2. JournalInv' BY DEF IInv, JournalInv, Pending, Settled
<1>3. ASSUME NEW r \in Procs \ {p} PROVE RollAt(r)' /\ SwapAt(r)' /\ QuietAt(r)'
  <2>1. RollAt(r) /\ SwapAt(r) /\ QuietAt(r) BY DEF IInv, RollInv, SwapInv, QuietInv
  <2>2. RollAt(r)' BY <2>1 DEF RollAt, Pending, Target, Leaves, Frame
  <2>3. SwapAt(r)' BY <2>1 DEF SwapAt, Pending, Leaves, Frame
  <2>4. QuietAt(r)' BY <2>1 DEF QuietAt, Pending, Leaves, Frame
  <2>5. QED BY <2>2, <2>3, <2>4
<1>4. RollAt(p)' /\ SwapAt(p)' /\ QuietAt(p)'
  BY DEF Leaves, Locked, RollAt, SwapAt, QuietAt
<1>5. QED BY <1>1, <1>2, <1>3, <1>4 DEF IInv, RollInv, SwapInv, QuietInv

\* A step of the process that holds the lock keeps the invariant if its
\* own part and that of the journal are kept.
LEMMA HolderInv ==
  ASSUME IInv, TypeOK', NEW p \in Procs, Frame(p),
         lock = Nobody \/ pc[p] \in Locked,
         pc'[p] \in Locked => lock' = p,
         JournalInv', RollAt(p)', SwapAt(p)', QuietAt(p)'
  PROVE  IInv'
<1>1. \A r \in Procs \ {p} : pc[r] \notin Locked
  BY NobodyAssumption DEF IInv, LockInv
<1>2. LockInv' BY <1>1 DEF LockInv, Frame
<1>3. ASSUME NEW r \in Procs \ {p} PROVE RollAt(r)' /\ SwapAt(r)' /\ QuietAt(r)'
  BY <1>1 DEF RollAt, SwapAt, QuietAt, Frame, Locked
<1>4. QED BY <1>2, <1>3 DEF IInv, RollInv, SwapInv, QuietInv

LEMMA FrameLemma ==
  ASSUME TypeOK, NEW p \in Procs, NEW l, Goto(p, l), UNCHANGED <<before, after>>,
         todo' = todo \/ \E t : todo' = [todo EXCEPT ![p] = t],
         cur' = cur \/ \E c : cur' = [cur EXCEPT ![p] = c]
  PROVE  Frame(p) /\ pc'[p] = l
BY DEF TypeOK, Goto, Frame

LEMMA AskInv == ASSUME IInv, NEW p \in Procs, Ask(p) PROVE IInv'
<1>1. TypeOK' BY AskType DEF IInv
<1>2. ASSUME NEW k, NEW id, Begin(p, k, id) PROVE IInv'
  <2>1. Frame(p) /\ pc'[p] = "recover"
    BY <1>2, FrameLemma DEF Begin, IInv, locals, copies
  <2>2. Leaves(p) BY <2>1 DEF Leaves, Locked
  <2>3. QED BY <1>1, <1>2, <2>2, LeavesInv DEF Begin, disk
<1>3. QED BY <1>2 DEF Ask, Restore, Remove, Snapshot, Launch, RetryRecovery

LEMMA RecoverInv == ASSUME IInv, NEW p \in Procs, RecoverStep(p) PROVE IInv'
<1> USE DEF disk, world, copies, locals, At, Goto
<1>1. TypeOK /\ TypeOK' BY RecoverType DEF IInv
<1>2. RollAt(p) /\ SwapAt(p) /\ QuietAt(p) BY DEF IInv, RollInv, SwapInv, QuietInv
<1>3. pc[p] \in Locked => lock = p BY DEF IInv, LockInv
<1>4. ASSUME Leaves(p), UNCHANGED <<live, journal, touched>>, lock' = lock \/ lock = p
      PROVE  IInv'
  BY <1>1, <1>4, LeavesInv
<1>5. CASE RecoverNothing(p)
  BY <1>1, <1>4, <1>5, AfterLeaves DEF RecoverNothing
<1>6. CASE RecoverBegin(p)
  <2>1. Frame(p) /\ pc'[p] = "roll"
    BY <1>1, <1>6, FrameLemma DEF RecoverBegin
  <2>2. JournalInv' BY <1>6 DEF RecoverBegin, IInv, JournalInv, Pending, Settled
  <2>3. todo'[p] = Files(journal) BY <1>1, <1>6 DEF RecoverBegin, TypeOK
  <2>4. RollAt(p)'
    <3>1. ASSUME NEW q \in Paths, q \notin Files(journal)
          PROVE  live[q] = Target(journal)[q]
      BY <1>6, <3>1 DEF RecoverBegin, Settled, Files, Target
    <3>2. QED BY <1>6, <2>1, <2>3, <3>1 DEF RollAt, RecoverBegin, Pending, Target, Files
  <2>5. SwapAt(p)' /\ QuietAt(p)' BY <2>1 DEF SwapAt, QuietAt
  <2>6. QED BY <1>1, <1>6, <2>1, <2>2, <2>4, <2>5, HolderInv DEF RecoverBegin, Take
<1>7. CASE RecoverRefused(p)
  BY <1>1, <1>4, <1>7, ReturnLeaves DEF RecoverRefused
<1>8. CASE RecoverFails(p)
  BY <1>1, <1>4, <1>8, ReturnLeaves DEF RecoverFails
<1>9. CASE RollCheck(p)
  <2>1. PICK q \in todo[p] : cur' = [cur EXCEPT ![p] = q] BY <1>9 DEF RollCheck
  <2>2. q \in Paths /\ cur'[p] = q BY <1>1, <2>1 DEF TypeOK
  <2>3. Frame(p) /\ pc'[p] = "rollApply"
    BY <1>1, <1>9, FrameLemma DEF RollCheck
  <2>4. JournalInv' BY <1>9 DEF RollCheck, IInv, JournalInv, Pending, Settled
  <2>5. RollAt(p)' BY <1>2, <1>9, <2>2, <2>3 DEF RollAt, RollCheck, Pending, Target
  <2>6. SwapAt(p)' /\ QuietAt(p)' BY <2>3 DEF SwapAt, QuietAt
  <2>7. QED BY <1>1, <1>3, <1>9, <2>3, <2>4, <2>5, <2>6, HolderInv DEF RollCheck, Locked
<1>10. CASE RollRefused(p)
  BY <1>1, <1>3, <1>4, <1>10, ReturnLeaves DEF RollRefused, Locked
<1>11. CASE RollApply(p)
  <2>1. /\ Pending /\ journal.intact /\ cur[p] \in Paths
        /\ \A q \in Paths \ touched : q \notin todo[p] => live[q] = Target(journal)[q]
    BY <1>2, <1>11 DEF RollAt, RollApply
  <2>2. Frame(p) /\ pc'[p] = "roll"
    BY <1>1, <1>11, FrameLemma DEF RollApply
  <2>3. \A q \in Paths : live'[q] = IF q = cur[p] THEN Target(journal)[q] ELSE live[q]
    BY <1>1, <1>11, <2>1 DEF RollApply, TypeOK, SaveSets
  <2>4. todo'[p] = todo[p] \ {cur[p]} BY <1>1, <1>11 DEF RollApply, TypeOK
  <2>5. JournalInv'
    BY <1>11, <2>3 DEF RollApply, IInv, JournalInv, Pending, Settled, Target
  <2>6. RollAt(p)'
    BY <1>11, <2>1, <2>2, <2>3, <2>4 DEF RollAt, RollApply, Pending, Target
  <2>7. SwapAt(p)' /\ QuietAt(p)' BY <2>2 DEF SwapAt, QuietAt
  <2>8. QED BY <1>1, <1>3, <1>11, <2>2, <2>5, <2>6, <2>7, HolderInv DEF RollApply, Locked
<1>12. CASE RollApplyFails(p)
  BY <1>1, <1>3, <1>4, <1>12, ReturnLeaves DEF RollApplyFails, Locked
<1>13. CASE ClearBegin(p)
  <2>1. /\ Pending /\ journal \in Journals
        /\ \A q \in Paths \ touched : q \notin todo[p] => live[q] = Target(journal)[q]
    BY <1>1, <1>2, <1>13 DEF RollAt, ClearBegin, TypeOK, Pending
  <2>2. Frame(p) /\ pc'[p] = "clearing"
    BY <1>1, <1>13, FrameLemma DEF ClearBegin
  <2>3. /\ journal' # NoJournal /\ journal'.committed = journal.committed
        /\ journal'.before = journal.before /\ journal'.after = journal.after
    BY <1>1, <1>13, <2>1, JournalAssumption DEF ClearBegin, Journals, TypeOK
  <2>4. JournalInv' BY <1>13, <2>1, <2>3 DEF ClearBegin, IInv, JournalInv, Pending, Settled
  <2>5. RollAt(p)' BY <1>13, <2>1, <2>2, <2>3 DEF RollAt, ClearBegin, Pending, Target
  <2>6. SwapAt(p)' /\ QuietAt(p)' BY <2>2 DEF SwapAt, QuietAt
  <2>7. QED BY <1>1, <1>3, <1>13, <2>2, <2>4, <2>5, <2>6, HolderInv DEF ClearBegin, Locked
<1>14. CASE ClearEnd(p)
  <2>1. Leaves(p) BY <1>1, <1>14, AfterLeaves DEF ClearEnd
  <2>2. JournalInv' BY <1>14 DEF ClearEnd, JournalInv, Pending
  <2>3. RollAt(p)' /\ SwapAt(p)' /\ QuietAt(p)'
    BY <2>1 DEF RollAt, SwapAt, QuietAt, Leaves, Locked
  <2>4. QED BY <1>1, <1>14, <2>1, <2>2, <2>3, HolderInv DEF ClearEnd, Leaves, Locked
<1>15. CASE ClearFails(p)
  BY <1>1, <1>3, <1>4, <1>15, ReturnLeaves DEF ClearFails, Locked
<1>16. QED
  BY <1>5, <1>6, <1>7, <1>8, <1>9, <1>10, <1>11, <1>12, <1>13, <1>14, <1>15
  DEF RecoverStep

LEMMA SnapshotInv == ASSUME IInv, NEW p \in Procs, SnapshotStep(p) PROVE IInv'
<1> USE DEF disk, world, copies, locals, At, Goto
<1>1. TypeOK /\ TypeOK' BY SnapshotType DEF IInv
<1>2. RollAt(p) /\ SwapAt(p) /\ QuietAt(p) BY DEF IInv, RollInv, SwapInv, QuietInv
<1>3. pc[p] \in Locked => lock = p BY DEF IInv, LockInv
<1>4. ASSUME Leaves(p), UNCHANGED <<live, journal, touched>>, lock' = lock \/ lock = p
      PROVE  IInv'
  BY <1>1, <1>4, LeavesInv
<1>5. ASSUME NEW l \in {"publish", "trim", "drop", "dropping"}, pc'[p] = l, Frame(p),
             lock = Nobody \/ pc[p] \in Locked, lock' = p,
             l \in {"publish", "trim"} => ~Pending,
             UNCHANGED <<live, journal, touched>>
      PROVE  IInv'
  <2>1. JournalInv' BY <1>5 DEF IInv, JournalInv, Pending, Settled
  <2>2. RollAt(p)' /\ SwapAt(p)' /\ QuietAt(p)'
    BY <1>5 DEF RollAt, SwapAt, QuietAt, Pending
  <2>3. QED BY <1>1, <1>5, <2>1, <2>2, HolderInv
<1>6. CASE SnapshotUnneeded(p) \/ SnapshotRefused(p) \/ SnapshotFails(p)
  BY <1>1, <1>4, <1>6, AfterLeaves DEF SnapshotUnneeded, SnapshotRefused, SnapshotFails
<1>7. CASE SnapshotBegin(p)
  <2>1. Frame(p) /\ pc'[p] = "publish" BY <1>1, <1>7, FrameLemma DEF SnapshotBegin
  <2>2. QED BY <1>5, <1>7, <2>1 DEF SnapshotBegin, Take, Refused
<1>8. CASE Publish(p)
  <2>1. Frame(p) /\ pc'[p] = "trim" BY <1>1, <1>8, FrameLemma DEF Publish
  <2>2. lock = p /\ pc[p] \in Locked /\ ~Pending /\ lock' = lock
    BY <1>2, <1>3, <1>8 DEF Publish, Locked, QuietAt
  <2>3. UNCHANGED <<live, journal, touched>> BY <1>8 DEF Publish
  <2>4. QED BY <1>5, <2>1, <2>2, <2>3
<1>9. CASE PublishRefused(p) \/ PublishFails(p)
  BY <1>1, <1>3, <1>4, <1>9, AfterLeaves DEF PublishRefused, PublishFails, Locked
<1>10. CASE Trim(p)
  <2>1. Frame(p) /\ pc'[p] = "drop" BY <1>1, <1>10, FrameLemma DEF Trim
  <2>2. QED BY <1>3, <1>5, <1>10, <2>1 DEF Trim, Locked
<1>11. CASE TrimNothing(p)
  BY <1>1, <1>3, <1>4, <1>11, AfterLeaves DEF TrimNothing, Locked
<1>12. CASE DropBegin(p)
  <2>1. Frame(p) /\ pc'[p] = "dropping" BY <1>1, <1>12, FrameLemma DEF DropBegin
  <2>2. QED BY <1>3, <1>5, <1>12, <2>1 DEF DropBegin, Locked
<1>13. CASE DropEnd(p) \/ DropFails(p)
  BY <1>1, <1>3, <1>4, <1>13, AfterLeaves DEF DropEnd, DropFails, Locked
<1>14. QED
  BY <1>6, <1>7, <1>8, <1>9, <1>10, <1>11, <1>12, <1>13 DEF SnapshotStep

LEMMA OtherInv == ASSUME IInv, NEW p \in Procs, OtherStep(p) PROVE IInv'
<1> USE DEF disk, world, copies, locals, At, Goto
<1>1. TypeOK /\ TypeOK' BY OtherType DEF IInv
<1>2. ASSUME Leaves(p), UNCHANGED <<live, journal, touched>>, lock' = lock \/ lock = p
      PROVE  IInv'
  BY <1>1, <1>2, LeavesInv
<1>3. CASE RemoveBegin(p)
  <2>1. Frame(p) /\ pc'[p] = "drop" BY <1>1, <1>3, FrameLemma DEF RemoveBegin
  <2>2. JournalInv' BY <1>3 DEF RemoveBegin, IInv, JournalInv, Pending, Settled
  <2>3. RollAt(p)' /\ SwapAt(p)' /\ QuietAt(p)' BY <2>1 DEF RollAt, SwapAt, QuietAt
  <2>4. QED BY <1>1, <1>3, <2>1, <2>2, <2>3, HolderInv DEF RemoveBegin, Take, Refused
<1>4. CASE RemoveRefused(p)
  BY <1>1, <1>2, <1>4, ReturnLeaves DEF RemoveRefused
<1>5. CASE ProtectLaunch(p) \/ SkipProtection(p)
  BY <1>1, <1>2, <1>5, ContinueLeaves DEF ProtectLaunch, SkipProtection, Locked
<1>6. CASE Spawn(p)
  BY <1>1, <1>2, <1>6, ReturnLeaves DEF Spawn
<1>7. QED BY <1>3, <1>4, <1>5, <1>6 DEF OtherStep

LEMMA RestoreInv == ASSUME IInv, NEW p \in Procs, RestoreStep(p) PROVE IInv'
<1> USE DEF disk, world, copies, locals, At, Goto
<1>1. TypeOK /\ TypeOK' BY RestoreType DEF IInv
<1>2. RollAt(p) /\ SwapAt(p) /\ QuietAt(p) BY DEF IInv, RollInv, SwapInv, QuietInv
<1>3. pc[p] \in Locked => lock = p BY DEF IInv, LockInv
<1>4. ASSUME Leaves(p), UNCHANGED <<live, journal, touched>>, lock' = lock \/ lock = p
      PROVE  IInv'
  BY <1>1, <1>4, LeavesInv
<1>5. ASSUME NEW l, l \notin Locked, Goto(p, l), UNCHANGED locals
      PROVE  Leaves(p)
  BY <1>1, <1>5, FrameLemma DEF Leaves
<1>6. CASE RestoreRead(p)
  <2>1. pc'[p] = "snapshot" /\ Frame(p)
    BY <1>1, <1>6 DEF RestoreRead, TypeOK, Frame
  <2>2. CASE Pending
    BY <1>4, <1>6, <2>1, <2>2 DEF RestoreRead, Leaves, Locked
  <2>3. CASE ~Pending
    <3>1. JournalInv' BY <1>6, <2>3 DEF RestoreRead, JournalInv, Pending
    <3>2. LockInv' BY <1>6, <2>1 DEF RestoreRead, IInv, LockInv, Frame, Locked
    <3>3. ASSUME NEW r \in Procs PROVE RollAt(r)' /\ SwapAt(r)' /\ QuietAt(r)'
      <4>1. RollAt(r) /\ SwapAt(r) /\ QuietAt(r) BY DEF IInv, RollInv, SwapInv, QuietInv
      <4>2. journal' = journal /\ ~Pending' BY <1>6, <2>3 DEF RestoreRead, Pending
      <4>3. QED BY <4>1, <4>2, <2>1, <2>3 DEF RollAt, SwapAt, QuietAt, Frame
    <3>4. QED BY <1>1, <3>1, <3>2, <3>3 DEF IInv, RollInv, SwapInv, QuietInv
  <2>4. QED BY <2>2, <2>3
<1>7. CASE RestoreReadFails(p)
  BY <1>1, <1>4, <1>7, ReturnLeaves DEF RestoreReadFails
<1>8. CASE Prepare(p)
  <2>1. Frame(p) /\ pc'[p] = "stage" BY <1>1, <1>8, FrameLemma DEF Prepare
  <2>2. JournalInv' BY <1>8 DEF Prepare, IInv, JournalInv, Pending, Settled
  <2>3. RollAt(p)' /\ SwapAt(p)' /\ QuietAt(p)'
    BY <1>8, <2>1 DEF RollAt, SwapAt, QuietAt, Prepare, Refused, Pending
  <2>4. QED BY <1>1, <1>8, <2>1, <2>2, <2>3, HolderInv DEF Prepare, Take, Refused
<1>9. CASE PrepareRefused(p)
  BY <1>1, <1>4, <1>9, ReturnLeaves DEF PrepareRefused
<1>10. CASE Journalize(p)
  <2> DEFINE j == [before |-> before[p], after |-> after[p],
                   committed |-> FALSE, intact |-> TRUE]
  <2>1. Frame(p) /\ pc'[p] = "swap" BY <1>1, <1>10, FrameLemma DEF Journalize
  <2>2. journal' = j /\ journal' \in Journals
    BY <1>1, <1>10 DEF Journalize, Journals, TypeOK
  <2>3. journal' # NoJournal BY <2>2, JournalAssumption
  <2>4. /\ journal'.before = before[p] /\ journal'.after = after[p]
        /\ journal'.committed = FALSE /\ journal'.intact = TRUE
    BY <2>2
  <2>5. live' = before[p] BY <1>10 DEF Journalize
  <2>6. JournalInv' BY <2>4, <2>5 DEF JournalInv, Settled
  <2>7. RollAt(p)' /\ QuietAt(p)' BY <2>1 DEF RollAt, QuietAt
  <2>8. SwapAt(p)'
    BY <1>10, <2>1, <2>3, <2>4 DEF SwapAt, Pending, Journalize
  <2>9. QED BY <1>1, <1>3, <1>10, <2>1, <2>6, <2>7, <2>8, HolderInv DEF Journalize, Locked
<1>11. CASE JournalizeRefused(p)
  BY <1>1, <1>3, <1>4, <1>11, ReturnLeaves DEF JournalizeRefused, Locked
<1>12. CASE JournalizeFails(p)
  BY <1>1, <1>3, <1>4, <1>12, ReturnLeaves DEF JournalizeFails, Locked
<1>13. CASE SwapCheck(p)
  <2>1. PICK q \in todo[p] : cur' = [cur EXCEPT ![p] = q] BY <1>13 DEF SwapCheck
  <2>2. q \in Paths /\ cur'[p] = q BY <1>1, <2>1 DEF TypeOK
  <2>3. Frame(p) /\ pc'[p] = "swapApply" BY <1>1, <1>13, FrameLemma DEF SwapCheck
  <2>4. JournalInv' BY <1>13 DEF SwapCheck, IInv, JournalInv, Pending, Settled
  <2>5. SwapAt(p)' BY <1>2, <1>13, <2>2, <2>3 DEF SwapAt, SwapCheck, Pending
  <2>6. RollAt(p)' /\ QuietAt(p)' BY <2>3 DEF RollAt, QuietAt
  <2>7. QED BY <1>1, <1>3, <1>13, <2>3, <2>4, <2>5, <2>6, HolderInv DEF SwapCheck, Locked
<1>14. CASE SwapApply(p)
  <2>1. /\ Pending /\ journal.after = after[p] /\ cur[p] \in Paths
    BY <1>2, <1>14 DEF SwapAt, SwapApply
  <2>2. Frame(p) /\ pc'[p] = "swap" BY <1>1, <1>14, FrameLemma DEF SwapApply
  <2>3. \A q \in Paths : live'[q] = IF q = cur[p] THEN journal.after[q] ELSE live[q]
    BY <1>1, <1>14, <2>1 DEF SwapApply, TypeOK, SaveSets
  <2>4. JournalInv' BY <1>14, <2>3 DEF SwapApply, IInv, JournalInv, Pending, Settled
  <2>5. SwapAt(p)' BY <1>2, <1>14, <2>2 DEF SwapAt, SwapApply, Pending
  <2>6. RollAt(p)' /\ QuietAt(p)' BY <2>2 DEF RollAt, QuietAt
  <2>7. QED BY <1>1, <1>3, <1>14, <2>2, <2>4, <2>5, <2>6, HolderInv DEF SwapApply, Locked
<1>15. CASE Commit(p)
  <2>1. Leaves(p) BY <1>5, <1>15 DEF Commit, EndSwap, Locked
  <2>2. Pending /\ journal \in Journals
    BY <1>1, <1>2, <1>15 DEF SwapAt, Commit, TypeOK, Pending
  <2>3. journal'.before = journal.before /\ journal'.after = journal.after
    BY <1>15, <2>2 DEF Commit, Journals
  <2>4. JournalInv' BY <1>15, <2>2, <2>3 DEF Commit, IInv, JournalInv, Settled
  <2>5. RollAt(p)' /\ SwapAt(p)' /\ QuietAt(p)'
    BY <2>1 DEF Leaves, Locked, RollAt, SwapAt, QuietAt
  <2>6. QED BY <1>1, <1>15, <2>1, <2>4, <2>5, HolderInv DEF Commit, Leaves, Locked
<1>16. CASE SwapRefused(p) \/ SwapApplyFails(p) \/ CommitFails(p)
  BY <1>3, <1>4, <1>5, <1>16
  DEF SwapRefused, SwapApplyFails, CommitFails, EndSwap, Locked
<1>17. QED
  BY <1>6, <1>7, <1>8, <1>9, <1>10, <1>11, <1>12, <1>13, <1>14, <1>15, <1>16
  DEF RestoreStep

LEMMA WorldInv ==
  ASSUME IInv,
         (\E p \in Procs : Crash(p)) \/ EmulatorStarts \/ EmulatorQuits \/ Outside
  PROVE  IInv'
<1> USE DEF disk, world, copies, locals
<1>1. TypeOK /\ TypeOK' BY WorldType DEF IInv
<1>2. ASSUME NEW p \in Procs, Crash(p) PROVE IInv'
  BY <1>1, <1>2, ReturnLeaves, LeavesInv DEF Crash
<1>3. CASE EmulatorStarts \/ EmulatorQuits
  BY <1>1, <1>3
  DEF EmulatorStarts, EmulatorQuits, IInv, LockInv, JournalInv, RollInv, SwapInv, QuietInv,
      RollAt, SwapAt, QuietAt, Pending, Settled, Target
<1>4. ASSUME NEW q \in Paths, NEW c \in Contents \cup {Absent}, OutsideWrite(q, c)
      PROVE  IInv'
  <2>1. \A x \in Paths \ {q} : live'[x] = live[x]
    BY <1>1, <1>4 DEF OutsideWrite, TypeOK, SaveSets
  <2>2. Pending => touched' = touched \cup {q}
    BY <1>4 DEF OutsideWrite, Watched
  <2>3. UNCHANGED <<journal, lock, pc, locals>> BY <1>4 DEF OutsideWrite
  <2>4. JournalInv' BY <2>1, <2>2, <2>3 DEF IInv, JournalInv, Pending, Settled
  <2>5. LockInv' BY <2>3 DEF IInv, LockInv
  <2>6. ASSUME NEW r \in Procs PROVE RollAt(r)' /\ SwapAt(r)' /\ QuietAt(r)'
    <3>1. RollAt(r) /\ SwapAt(r) /\ QuietAt(r) BY DEF IInv, RollInv, SwapInv, QuietInv
    <3>2. RollAt(r)' BY <3>1, <2>1, <2>2, <2>3 DEF RollAt, Pending, Target
    <3>3. SwapAt(r)' BY <3>1, <2>3 DEF SwapAt, Pending
    <3>4. QuietAt(r)' BY <3>1, <2>3 DEF QuietAt, Pending
    <3>5. QED BY <3>2, <3>3, <3>4
  <2>7. QED BY <1>1, <2>4, <2>5, <2>6 DEF IInv, RollInv, SwapInv, QuietInv
<1>5. QED BY <1>2, <1>3, <1>4, WorldType DEF Outside

LEMMA InitInv == Init => IInv
<1>1. SUFFICES ASSUME Init PROVE IInv OBVIOUS
<1>3. budget \in [{"ops", "writes", "starts", "faults", "crashes"} -> Nat]
  BY <1>1, BoundsAssumption DEF Init
<1>4. "idle" \in Labels /\ "recover" \in Kinds BY LabelsAre DEF Kinds
<1>5. TypeOK BY <1>1, <1>3, <1>4, EmptySetType DEF Init, TypeOK
<1>6. \A p \in Procs : pc[p] = "idle" BY <1>1 DEF Init
<1>7. ~Pending BY <1>1 DEF Init, Pending
<1>8. QED
  BY <1>5, <1>6, <1>7
  DEF IInv, LockInv, Locked, JournalInv, RollInv, RollAt, SwapInv, SwapAt, QuietInv, QuietAt

LEMMA StepInv == ASSUME IInv, [Next]_vars PROVE IInv'
<1>1. ASSUME NEW p \in Procs, Ask(p) PROVE IInv'
  BY <1>1, AskInv
<1>2. ASSUME NEW p \in Procs, Step(p) PROVE IInv'
  BY <1>2, RecoverInv, SnapshotInv, OtherInv, RestoreInv DEF Step
<1>3. CASE (\E p \in Procs : Crash(p)) \/ EmulatorStarts \/ EmulatorQuits \/ Outside
  BY <1>3, WorldInv
<1>4. CASE UNCHANGED vars
  <2>1. TypeOK' BY <1>4, TypeStep DEF IInv
  <2>2. QED
    BY <1>4, <2>1
    DEF vars, disk, world, locals, copies, IInv, LockInv, JournalInv, RollInv, SwapInv,
        QuietInv, RollAt, SwapAt, QuietAt, Pending, Settled, Target
<1>5. QED BY <1>1, <1>2, <1>3, <1>4 DEF Next

-----------------------------------------------------------------------------
\* The inductive invariant holds in every reachable state.
THEOREM Invariance == Spec => []IInv
<1>1. Init => IInv BY InitInv
<1>2. IInv /\ [Next]_vars => IInv' BY StepInv
<1>3. QED BY <1>1, <1>2, PTL DEF Spec

\* Type correctness of the store, its journal and every process.
THEOREM TypeCorrect == Spec => []TypeOK
<1>1. IInv => TypeOK BY DEF IInv
<1>2. QED BY <1>1, Invariance, PTL

-----------------------------------------------------------------------------
\* Only these steps change the journal, and only these the save files.
LEMMA JournalSteps ==
  ASSUME [Next]_vars, journal' # journal
  PROVE  \E p \in Procs : Journalize(p) \/ Commit(p) \/ ClearBegin(p) \/ ClearEnd(p)
<1> USE DEF vars, disk
<1>1. ASSUME NEW p \in Procs, Ask(p) PROVE FALSE
  BY <1>1 DEF Ask, Begin, Restore, Remove, Snapshot, Launch, RetryRecovery
<1>2. ASSUME NEW p \in Procs, RecoverStep(p) PROVE ClearBegin(p) \/ ClearEnd(p)
  BY <1>2
  DEF RecoverStep, RecoverNothing, RecoverBegin, RecoverRefused, RecoverFails, RollCheck,
      RollRefused, RollApply, RollApplyFails, ClearFails
<1>3. ASSUME NEW p \in Procs, SnapshotStep(p) PROVE FALSE
  BY <1>3
  DEF SnapshotStep, SnapshotUnneeded, SnapshotBegin, SnapshotRefused, SnapshotFails, Publish,
      PublishRefused, PublishFails, Trim, TrimNothing, DropBegin, DropEnd, DropFails
<1>4. ASSUME NEW p \in Procs, OtherStep(p) PROVE FALSE
  BY <1>4 DEF OtherStep, RemoveBegin, RemoveRefused, ProtectLaunch, SkipProtection, Spawn
<1>5. ASSUME NEW p \in Procs, RestoreStep(p) PROVE Journalize(p) \/ Commit(p)
  BY <1>5
  DEF RestoreStep, RestoreRead, RestoreReadFails, Prepare, PrepareRefused, JournalizeRefused,
      JournalizeFails, SwapCheck, SwapRefused, SwapApply, SwapApplyFails, CommitFails
<1>6. ~((\E p \in Procs : Crash(p)) \/ EmulatorStarts \/ EmulatorQuits \/ Outside)
  BY DEF Crash, EmulatorStarts, EmulatorQuits, Outside, OutsideWrite
<1>7. QED BY <1>1, <1>2, <1>3, <1>4, <1>5, <1>6 DEF Next, Step

LEMMA LiveSteps ==
  ASSUME [Next]_vars, live' # live
  PROVE  Outside \/ \E p \in Procs : RollApply(p) \/ SwapApply(p)
<1> USE DEF vars, disk
<1>1. ASSUME NEW p \in Procs, Ask(p) PROVE FALSE
  BY <1>1 DEF Ask, Begin, Restore, Remove, Snapshot, Launch, RetryRecovery
<1>2. ASSUME NEW p \in Procs, RecoverStep(p) PROVE RollApply(p)
  BY <1>2
  DEF RecoverStep, RecoverNothing, RecoverBegin, RecoverRefused, RecoverFails, RollCheck,
      RollRefused, RollApplyFails, ClearBegin, ClearEnd, ClearFails
<1>3. ASSUME NEW p \in Procs, SnapshotStep(p) PROVE FALSE
  BY <1>3
  DEF SnapshotStep, SnapshotUnneeded, SnapshotBegin, SnapshotRefused, SnapshotFails, Publish,
      PublishRefused, PublishFails, Trim, TrimNothing, DropBegin, DropEnd, DropFails
<1>4. ASSUME NEW p \in Procs, OtherStep(p) PROVE FALSE
  BY <1>4 DEF OtherStep, RemoveBegin, RemoveRefused, ProtectLaunch, SkipProtection, Spawn
<1>5. ASSUME NEW p \in Procs, RestoreStep(p) PROVE SwapApply(p)
  BY <1>5
  DEF RestoreStep, RestoreRead, RestoreReadFails, Prepare, PrepareRefused, Journalize,
      JournalizeRefused, JournalizeFails, SwapCheck, SwapRefused, SwapApplyFails, Commit,
      CommitFails
<1>6. ~((\E p \in Procs : Crash(p)) \/ EmulatorStarts \/ EmulatorQuits)
  BY DEF Crash, EmulatorStarts, EmulatorQuits
<1>7. QED BY <1>1, <1>2, <1>3, <1>4, <1>5, <1>6 DEF Next, Step

\* A restore is all or nothing on the files nothing else wrote, whatever
\* crashes, failures and other processes come in between.
THEOREM RestoreIsAtomic == Spec => AllOrNothing
<1>1. ASSUME IInv, [Next]_vars, Pending, journal' = NoJournal, NEW q \in Paths \ touched
      PROVE  live'[q] = Target(journal)[q]
  <2>1. PICK p \in Procs : Journalize(p) \/ Commit(p) \/ ClearBegin(p) \/ ClearEnd(p)
    BY <1>1, JournalSteps DEF Pending
  <2>2. TypeOK /\ TypeOK' BY <1>1, StepInv DEF IInv
  <2>3. ~Journalize(p)
    <3>1. before[p] \in SaveSets /\ after[p] \in SaveSets BY <2>2 DEF TypeOK
    <3>2. [before |-> before[p], after |-> after[p], committed |-> FALSE, intact |-> TRUE]
            \in Journals
      BY <3>1 DEF Journals
    <3>3. QED BY <1>1, <3>2, JournalAssumption DEF Journalize
  <2>4. journal \in Journals BY <1>1, <2>2 DEF TypeOK, Pending
  <2>5. ~Commit(p) /\ ~ClearBegin(p)
    BY <1>1, <2>4, JournalAssumption DEF Commit, ClearBegin, Journals
  <2>6. ClearEnd(p) BY <2>1, <2>3, <2>5
  <2>7. RollAt(p) BY <1>1 DEF IInv, RollInv
  <2>8. QED BY <1>1, <2>6, <2>7 DEF ClearEnd, RollAt, At
<1>2. IInv /\ [Next]_vars =>
        [Pending /\ journal' = NoJournal =>
           \A q \in Paths \ touched : live'[q] = Target(journal)[q]]_vars
  BY <1>1
<1>3. QED BY <1>2, Invariance, PTL DEF Spec, AllOrNothing

\* Whatever the store overwrites is in a complete journal, but for files
\* written from outside while the restore was under way.
THEOREM OverwrittenIsJournaled == Spec => StoreWritesJournaled
<1>1. ASSUME IInv, [Next]_vars, NEW q \in Paths, live'[q] # live[q], ~Outside
      PROVE  Pending /\ journal.intact /\ (Settled(q) \/ q \in touched)
  <2>1. PICK p \in Procs : RollApply(p) \/ SwapApply(p)
    BY <1>1, LiveSteps
  <2>2. RollAt(p) /\ SwapAt(p) BY <1>1 DEF IInv, RollInv, SwapInv
  <2>3. Pending /\ journal.intact
    BY <2>1, <2>2 DEF RollApply, SwapApply, RollAt, SwapAt, At
  <2>4. QED BY <1>1, <2>3 DEF IInv, JournalInv
<1>2. IInv /\ [Next]_vars =>
        [\A q \in Paths : live'[q] # live[q] /\ ~Outside =>
           Pending /\ journal.intact /\ (Settled(q) \/ q \in touched)]_vars
  BY <1>1
<1>3. QED BY <1>2, Invariance, PTL DEF Spec, StoreWritesJournaled

-----------------------------------------------------------------------------
\* What holds when Omakade is the only process of its kind: it is one
\* instance (SingleInstance::claimOrNotify).  Beyond recover() and the
\* swap it runs with no journal pending, and what a restore has in memory
\* is what it found, or what its journal says.
Clear == {"remove", "launch", "spawn", "read", "prepare", "stage"} \cup SnapshotLabels
Unswapped == {"prepare", "stage"} \cup SnapshotLabels

ClearAt(p) == pc[p] \in Clear => ~Pending

NamedAt(p) ==
  /\ pc[p] \in {"remove", "launch"} => op[p].kind = pc[p]
  /\ pc[p] \in RestoreLabels => op[p].kind = "restore"

FoundAt(p) ==
  op[p].kind = "restore" /\ pc[p] \in Unswapped =>
    \A q \in Paths \ touched : live[q] = before[p][q]

DividedAt(p) ==
  before[p] # after[p] =>
    /\ op[p].kind = "restore"
    /\ \/ pc[p] \in Unswapped \cup {"swap", "swapApply"}
       \/ /\ pc[p] \in RecoverLabels /\ Pending
          /\ \/ result[p] = "swapped" /\ journal.committed /\ journal.after = after[p]
             \/ result[p] = "unswapped" /\ ~journal.committed /\ journal.before = before[p]

SoleAt(p) == ClearAt(p) /\ NamedAt(p) /\ FoundAt(p) /\ DividedAt(p)

LEMMA AskSole ==
  ASSUME IInv, NEW p \in Procs, SoleAt(p), Ask(p)
  PROVE  SoleAt(p)'
<1> USE DEF disk, world, copies, locals, At, Goto, RecoverLabels, SnapshotLabels,
           RestoreLabels, Clear, Unswapped, ClearAt, NamedAt, FoundAt, DividedAt, SoleAt
<1>1. TypeOK BY DEF IInv
<1>2. ASSUME NEW k, NEW id, Begin(p, k, id) PROVE SoleAt(p)'
  BY <1>1, <1>2 DEF Begin, TypeOK
<1>3. QED BY <1>2 DEF Ask, Restore, Remove, Snapshot, Launch, RetryRecovery

\* An operation that returns has nothing left in memory.
LEMMA ReturnSole ==
  ASSUME TypeOK, NEW p \in Procs, NEW r, Return(p, r)
  PROVE  SoleAt(p)' /\ pc'[p] = "idle" /\ result'[p] = r
<1>1. /\ pc'[p] = "idle" /\ result'[p] = r
      /\ before'[p] = EmptySet /\ after'[p] = EmptySet
  BY DEF TypeOK, Return, Forget, Goto
<1>2. QED
  BY <1>1
  DEF RecoverLabels, SnapshotLabels, RestoreLabels, Clear, Unswapped, ClearAt, NamedAt, FoundAt, DividedAt, SoleAt

LEMMA RecoverSole ==
  ASSUME IInv, NEW p \in Procs, SoleAt(p), RecoverStep(p)
  PROVE  SoleAt(p)'
<1> USE DEF disk, world, copies, locals, At, Goto
<1>1. TypeOK /\ TypeOK' BY RecoverType DEF IInv
<1>2. RollAt(p) BY DEF IInv, RollInv
<1>3. ASSUME ~Pending', UNCHANGED live, AfterRecover(p),
             result[p] = "none" => before[p] = after[p]
      PROVE  SoleAt(p)'
  <2>1. CASE \E r : Return(p, r) BY <1>1, <2>1, ReturnSole
  <2>2. CASE result[p] = "none" /\ op[p].kind = "restore" /\ Continue(p, "read")
    BY <1>1, <1>3, <2>2
    DEF Continue, TypeOK, RecoverLabels, SnapshotLabels, RestoreLabels, Clear, Unswapped, ClearAt, NamedAt,
        FoundAt, DividedAt, SoleAt
  <2>3. CASE result[p] = "none" /\ op[p].kind \in {"snapshot", "remove", "launch"}
             /\ Continue(p, op[p].kind)
    BY <1>1, <1>3, <2>3
    DEF Continue, TypeOK, RecoverLabels, SnapshotLabels, RestoreLabels, Clear, Unswapped, ClearAt, NamedAt,
        FoundAt, DividedAt, SoleAt
  <2>4. QED BY <1>3, <2>1, <2>2, <2>3 DEF AfterRecover
<1>4. pc[p] \in RecoverLabels /\ result[p] = "none" => before[p] = after[p]
  BY DEF SoleAt, DividedAt, RecoverLabels, Unswapped, SnapshotLabels
<1>5. CASE RecoverNothing(p)
  BY <1>3, <1>4, <1>5 DEF RecoverNothing, Pending, RecoverLabels
<1>6. CASE RecoverBegin(p) \/ RollCheck(p) \/ RollApply(p)
  BY <1>1, <1>6
  DEF RecoverBegin, RollCheck, RollApply, Pending, TypeOK, RecoverLabels, SnapshotLabels, RestoreLabels, Clear,
      Unswapped, ClearAt, NamedAt, FoundAt, DividedAt, SoleAt
<1>7. CASE RecoverRefused(p) \/ RecoverFails(p) \/ RollRefused(p) \/ RollApplyFails(p)
           \/ ClearFails(p)
  BY <1>1, <1>7, ReturnSole
  DEF RecoverRefused, RecoverFails, RollRefused, RollApplyFails, ClearFails
<1>8. CASE ClearBegin(p)
  <2>1. Pending BY <1>2, <1>8 DEF ClearBegin, RollAt
  <2>2. journal \in Journals /\ journal' \in Journals
    BY <1>1, <1>8, <2>1 DEF ClearBegin, TypeOK, Pending, Journals
  <2>3. Pending' BY <2>2, JournalAssumption DEF Pending
  <2>4. journal'.committed = journal.committed /\ journal'.before = journal.before
        /\ journal'.after = journal.after
    BY <1>8, <2>2 DEF ClearBegin, Journals
  <2>5. QED
    BY <1>1, <1>8, <2>3, <2>4
    DEF ClearBegin, TypeOK, RecoverLabels, SnapshotLabels, RestoreLabels, Clear, Unswapped, ClearAt, NamedAt,
        FoundAt, DividedAt, SoleAt
<1>9. CASE ClearEnd(p)
  BY <1>3, <1>4, <1>9 DEF ClearEnd, Pending, RecoverLabels
<1>10. QED BY <1>5, <1>6, <1>7, <1>8, <1>9 DEF RecoverStep

\* The steps between the reading of a version and the journal.
LEMMA AfterSnapshotSole ==
  ASSUME IInv, NEW p \in Procs, NEW okay \in BOOLEAN, SoleAt(p), pc[p] \in SnapshotLabels,
         UNCHANGED <<live, journal, touched>>, AfterSnapshot(p, okay) \/ AfterDrop(p, okay)
  PROVE  SoleAt(p)'
<1>1. TypeOK BY DEF IInv
<1>2. CASE \E r : Return(p, r) BY <1>1, <1>2, ReturnSole
<1>3. CASE \/ op[p].kind = "launch" /\ Continue(p, "spawn")
           \/ op[p].kind = "restore" /\ Continue(p, "prepare")
  BY <1>1, <1>3
  DEF Continue, Goto, locals, copies, TypeOK, Pending, RecoverLabels, SnapshotLabels, RestoreLabels, Clear,
      Unswapped, ClearAt, NamedAt, FoundAt, DividedAt, SoleAt
<1>4. QED BY <1>2, <1>3 DEF AfterSnapshot, AfterDrop

LEMMA SnapshotSole ==
  ASSUME IInv, NEW p \in Procs, SoleAt(p), SnapshotStep(p)
  PROVE  SoleAt(p)'
<1> USE DEF disk, world, copies, locals, At, Goto
<1>1. TypeOK BY DEF IInv
<1>2. pc[p] \in SnapshotLabels /\ UNCHANGED <<live, journal, touched>>
  BY DEF SnapshotStep, SnapshotUnneeded, SnapshotBegin, SnapshotRefused, SnapshotFails, Publish,
         PublishRefused, PublishFails, Trim, TrimNothing, DropBegin, DropEnd, DropFails,
         SnapshotLabels
<1>3. CASE \E okay \in BOOLEAN : AfterSnapshot(p, okay) \/ AfterDrop(p, okay)
  BY <1>2, <1>3, AfterSnapshotSole
<1>4. CASE SnapshotBegin(p) \/ Publish(p) \/ Trim(p) \/ DropBegin(p)
  <2>1. pc'[p] \in SnapshotLabels /\ UNCHANGED <<op, before, after, result>>
    BY <1>1, <1>4 DEF SnapshotBegin, Publish, Trim, DropBegin, TypeOK, SnapshotLabels
  <2>2. QED
    BY <1>2, <2>1
    DEF Pending, RecoverLabels, SnapshotLabels, RestoreLabels, Clear, Unswapped, ClearAt, NamedAt, FoundAt,
        DividedAt, SoleAt
<1>5. QED
  BY <1>3, <1>4
  DEF SnapshotStep, SnapshotUnneeded, SnapshotRefused, SnapshotFails, PublishRefused,
      PublishFails, TrimNothing, DropEnd, DropFails

LEMMA OtherSole ==
  ASSUME IInv, NEW p \in Procs, SoleAt(p), OtherStep(p)
  PROVE  SoleAt(p)'
<1> USE DEF disk, world, copies, locals, At, Goto
<1>1. TypeOK BY DEF IInv
<1>2. CASE RemoveRefused(p) \/ Spawn(p)
  BY <1>1, <1>2, ReturnSole DEF RemoveRefused, Spawn
<1>3. CASE RemoveBegin(p) \/ ProtectLaunch(p) \/ SkipProtection(p)
  BY <1>1, <1>3
  DEF RemoveBegin, ProtectLaunch, SkipProtection, Continue, TypeOK, Pending, RecoverLabels,
      SnapshotLabels, RestoreLabels, Clear, Unswapped, ClearAt, NamedAt, FoundAt, DividedAt, SoleAt
<1>4. QED BY <1>2, <1>3 DEF OtherStep

LEMMA RestoreSole ==
  ASSUME IInv, NEW p \in Procs, SoleAt(p), RestoreStep(p)
  PROVE  SoleAt(p)'
<1> USE DEF disk, world, copies, locals, At, Goto
<1>1. TypeOK /\ TypeOK' BY RestoreType DEF IInv
<1>2. SwapAt(p) BY DEF IInv, SwapInv
<1>3. CASE RestoreReadFails(p) \/ PrepareRefused(p) \/ JournalizeRefused(p) \/ JournalizeFails(p)
  BY <1>1, <1>3, ReturnSole
  DEF RestoreReadFails, PrepareRefused, JournalizeRefused, JournalizeFails
<1>4. CASE RestoreRead(p)
  <2>1. pc'[p] = "snapshot" /\ before'[p] = live /\ live' = live /\ op' = op /\ journal' = journal
    BY <1>1, <1>4 DEF RestoreRead, TypeOK
  <2>2. pc[p] = "read" BY <1>4 DEF RestoreRead
  <2>3. QED
    BY <2>1, <2>2
    DEF Pending, RecoverLabels, SnapshotLabels, RestoreLabels, Clear, Unswapped, ClearAt, NamedAt, FoundAt,
        DividedAt, SoleAt
<1>5. CASE Prepare(p)
  BY <1>1, <1>5
  DEF Prepare, Pending, TypeOK, RecoverLabels, SnapshotLabels, RestoreLabels, Clear, Unswapped,
      ClearAt, NamedAt, FoundAt, DividedAt, SoleAt
<1>6. CASE Journalize(p) \/ SwapCheck(p) \/ SwapApply(p)
  <2>1. pc'[p] \in {"swap", "swapApply"} /\ pc[p] \in RestoreLabels
        /\ UNCHANGED <<op, before, after>>
    BY <1>1, <1>6 DEF Journalize, SwapCheck, SwapApply, TypeOK, RestoreLabels
  <2>2. QED
    BY <2>1
    DEF RecoverLabels, SnapshotLabels, RestoreLabels, Clear, Unswapped, ClearAt, NamedAt, FoundAt,
        DividedAt, SoleAt
<1>7. CASE SwapRefused(p) \/ SwapApplyFails(p) \/ CommitFails(p) \/ Commit(p)
  <2>1. /\ Pending /\ journal.before = before[p] /\ journal.after = after[p]
        /\ journal.intact /\ ~journal.committed
    BY <1>2, <1>7 DEF SwapRefused, SwapApplyFails, CommitFails, Commit, SwapAt
  <2>2. journal \in Journals BY <1>1, <2>1 DEF TypeOK, Pending
  <2>3. /\ pc'[p] = "recover" /\ UNCHANGED <<op, before, after>>
        /\ pc[p] \in RestoreLabels
    BY <1>1, <1>7
    DEF SwapRefused, SwapApplyFails, CommitFails, Commit, EndSwap, TypeOK, RestoreLabels
  <2>4. \/ result'[p] = "unswapped" /\ journal' = journal
        \/ result'[p] = "swapped" /\ journal' = [journal EXCEPT !.committed = TRUE]
    BY <1>1, <1>7 DEF SwapRefused, SwapApplyFails, CommitFails, Commit, EndSwap, TypeOK
  <2>5. CASE result'[p] = "unswapped" /\ journal' = journal
    BY <2>1, <2>3, <2>5
    DEF Pending, RecoverLabels, SnapshotLabels, RestoreLabels, Clear, Unswapped, ClearAt, NamedAt,
        FoundAt, DividedAt, SoleAt
  <2>6. CASE result'[p] = "swapped" /\ journal' = [journal EXCEPT !.committed = TRUE]
    <3>1. journal' \in Journals /\ journal'.committed /\ journal'.after = journal.after
      BY <2>2, <2>6 DEF Journals
    <3>2. Pending' BY <3>1, JournalAssumption DEF Pending
    <3>3. QED
      BY <2>1, <2>3, <2>6, <3>1, <3>2
      DEF RecoverLabels, SnapshotLabels, RestoreLabels, Clear, Unswapped, ClearAt, NamedAt,
          FoundAt, DividedAt, SoleAt
  <2>7. QED BY <2>4, <2>5, <2>6
<1>8. QED BY <1>3, <1>4, <1>5, <1>6, <1>7 DEF RestoreStep

LEMMA WorldSole ==
  ASSUME IInv, NEW p \in Procs, SoleAt(p),
         Crash(p) \/ EmulatorStarts \/ EmulatorQuits \/ Outside \/ UNCHANGED vars
  PROVE  SoleAt(p)'
<1> USE DEF disk, world, copies, locals
<1>1. TypeOK BY DEF IInv
<1>2. CASE Crash(p) BY <1>1, <1>2, ReturnSole DEF Crash
<1>3. CASE EmulatorStarts \/ EmulatorQuits \/ UNCHANGED vars
  BY <1>3
  DEF EmulatorStarts, EmulatorQuits, vars, Pending, ClearAt, NamedAt, FoundAt, DividedAt, SoleAt
<1>4. CASE Outside
  <2>1. PICK q \in Paths, c \in Contents \cup {Absent} : OutsideWrite(q, c)
    BY <1>4 DEF Outside
  <2>2. UNCHANGED <<journal, pc, op, before, after, result>> BY <2>1 DEF OutsideWrite
  <2>3. ASSUME op[p].kind = "restore"
        PROVE  \A r \in Paths \ touched' : r \in Paths \ touched /\ live'[r] = live[r]
    BY <1>1, <2>1, <2>3 DEF OutsideWrite, Watched, TypeOK, SaveSets
  <2>4. QED BY <2>2, <2>3 DEF Pending, ClearAt, NamedAt, FoundAt, DividedAt, SoleAt
<1>5. QED BY <1>2, <1>3, <1>4

LEMMA SoleInvariance ==
  ASSUME NEW P, Procs = {P}
  PROVE  Spec => [](IInv /\ SoleAt(P))
<1>1. Init => SoleAt(P)
  BY DEF Init, Pending, RecoverLabels, SnapshotLabels, RestoreLabels, Clear, Unswapped, ClearAt,
         NamedAt, FoundAt, DividedAt, SoleAt
<1>2. IInv /\ SoleAt(P) /\ [Next]_vars => SoleAt(P)'
  BY AskSole, RecoverSole, SnapshotSole, OtherSole, RestoreSole, WorldSole DEF Next, Step
<1>3. QED BY <1>1, <1>2, Invariance, PTL DEF Spec

\* No emulator is launched while a journal is pending.
THEOREM LaunchIsPaused ==
  ASSUME NEW P, Procs = {P}
  PROVE  Spec => LaunchPaused
<1>1. SoleAt(P) => \A p \in Procs : Spawn(p) => ~Pending
  BY DEF SoleAt, ClearAt, Clear, Spawn, At
<1>2. IInv /\ SoleAt(P) /\ [Next]_vars => [\A p \in Procs : Spawn(p) => ~Pending]_vars
  BY <1>1
<1>3. QED BY <1>2, SoleInvariance, PTL DEF Spec, LaunchPaused

\* A restore that reports success has the new set in place; one that
\* reports failure and leaves no journal behind has the old one, but for
\* files written from outside.
Honest(p) ==
  op[p].kind = "restore" /\ pc'[p] = "idle" /\ before[p] # after[p] =>
    /\ result'[p] = "success" => \A q \in Paths \ touched : live'[q] = after[p][q]
    /\ result'[p] = "failure" /\ journal' = NoJournal =>
         \A q \in Paths \ touched : live'[q] = before[p][q]

LEMMA HonestStep ==
  ASSUME IInv, NEW p \in Procs, SoleAt(p), Ask(p) \/ Step(p) \/ Crash(p)
  PROVE  Honest(p)
<1> USE DEF disk, world, copies, locals, At, Goto
<1>1. SUFFICES ASSUME op[p].kind = "restore", pc'[p] = "idle", before[p] # after[p]
               PROVE  /\ result'[p] = "success" => \A q \in Paths \ touched : live'[q] = after[p][q]
                      /\ result'[p] = "failure" /\ journal' = NoJournal =>
                           \A q \in Paths \ touched : live'[q] = before[p][q]
  BY DEF Honest
<1>2. TypeOK BY DEF IInv
<1>3. RollAt(p) BY DEF IInv, RollInv
<1>4. CASE Ask(p)
  BY <1>1, <1>2, <1>4 DEF Ask, Restore, Remove, Snapshot, Launch, RetryRecovery, Begin, TypeOK
<1>5. CASE Crash(p)
  BY <1>2, <1>5, ReturnSole DEF Crash
<1>6. CASE RecoverStep(p)
  <2>1. pc[p] \in RecoverLabels
    BY <1>6
    DEF RecoverStep, RecoverNothing, RecoverBegin, RecoverRefused, RecoverFails, RollCheck,
        RollRefused, RollApply, RollApplyFails, ClearBegin, ClearEnd, ClearFails, RecoverLabels
  <2>2. /\ Pending
        /\ \/ result[p] = "swapped" /\ journal.committed /\ journal.after = after[p]
           \/ result[p] = "unswapped" /\ ~journal.committed /\ journal.before = before[p]
    BY <1>1, <2>1 DEF SoleAt, DividedAt, RecoverLabels, Unswapped, SnapshotLabels
  <2>3. CASE ClearEnd(p)
    <3>1. \A q \in Paths \ touched : live'[q] = Target(journal)[q]
      BY <1>3, <2>3 DEF ClearEnd, RollAt
    <3>2. CASE result[p] = "swapped" /\ journal.committed /\ journal.after = after[p]
      <4>1. result'[p] = "success" BY <1>2, <2>3, <3>2, ReturnSole DEF ClearEnd, AfterRecover
      <4>2. QED BY <3>1, <3>2, <4>1 DEF Target
    <3>3. CASE result[p] = "unswapped" /\ ~journal.committed /\ journal.before = before[p]
      <4>1. result'[p] = "failure" BY <1>2, <2>3, <3>3, ReturnSole DEF ClearEnd, AfterRecover
      <4>2. QED BY <3>1, <3>3, <4>1 DEF Target
    <3>4. QED BY <2>2, <3>2, <3>3
  <2>4. CASE RecoverRefused(p) \/ RecoverFails(p) \/ RollRefused(p) \/ RollApplyFails(p)
             \/ ClearFails(p)
    BY <1>2, <2>2, <2>4, ReturnSole
    DEF RecoverRefused, RecoverFails, RollRefused, RollApplyFails, ClearFails, Pending
  <2>5. CASE RecoverNothing(p)
    BY <2>2, <2>5 DEF RecoverNothing
  <2>6. CASE RecoverBegin(p) \/ RollCheck(p) \/ RollApply(p) \/ ClearBegin(p)
    BY <1>1, <1>2, <2>6 DEF RecoverBegin, RollCheck, RollApply, ClearBegin, TypeOK
  <2>7. QED BY <1>6, <2>3, <2>4, <2>5, <2>6 DEF RecoverStep
<1>7. ASSUME pc[p] \in Unswapped, live' = live, Return(p, "failure") PROVE Honest(p)
  <2>1. result'[p] = "failure" BY <1>2, <1>7, ReturnSole
  <2>2. \A q \in Paths \ touched : live'[q] = before[p][q]
    BY <1>1, <1>7 DEF SoleAt, FoundAt
  <2>3. QED BY <2>1, <2>2 DEF Honest
<1>8. CASE SnapshotStep(p)
  <2>1. pc[p] \in SnapshotLabels /\ UNCHANGED live
    BY <1>8
    DEF SnapshotStep, SnapshotUnneeded, SnapshotBegin, SnapshotRefused, SnapshotFails, Publish,
        PublishRefused, PublishFails, Trim, TrimNothing, DropBegin, DropEnd, DropFails,
        SnapshotLabels
  <2>2. CASE \E okay \in BOOLEAN : AfterSnapshot(p, okay) \/ AfterDrop(p, okay)
    <3>1. Return(p, "failure") \/ Continue(p, "prepare")
      BY <1>1, <2>2 DEF AfterSnapshot, AfterDrop
    <3>2. ~Continue(p, "prepare") BY <1>1, <1>2 DEF Continue, TypeOK
    <3>3. QED BY <1>1, <1>7, <2>1, <3>1, <3>2 DEF Honest, Unswapped
  <2>3. CASE SnapshotBegin(p) \/ Publish(p) \/ Trim(p) \/ DropBegin(p)
    BY <1>1, <1>2, <2>3 DEF SnapshotBegin, Publish, Trim, DropBegin, TypeOK
  <2>4. QED
    BY <1>8, <2>2, <2>3
    DEF SnapshotStep, SnapshotUnneeded, SnapshotRefused, SnapshotFails, PublishRefused,
        PublishFails, TrimNothing, DropEnd, DropFails
<1>9. CASE OtherStep(p)
  <2>1. pc[p] \in {"remove", "launch", "spawn"}
    BY <1>9 DEF OtherStep, RemoveBegin, RemoveRefused, ProtectLaunch, SkipProtection, Spawn
  <2>2. QED
    BY <1>1, <2>1 DEF SoleAt, DividedAt, Unswapped, SnapshotLabels, RecoverLabels
<1>10. CASE RestoreStep(p)
  <2>1. CASE RestoreReadFails(p)
    BY <1>1, <2>1
    DEF RestoreReadFails, SoleAt, DividedAt, Unswapped, SnapshotLabels, RecoverLabels
  <2>2. CASE PrepareRefused(p) \/ JournalizeRefused(p) \/ JournalizeFails(p)
    BY <1>1, <1>7, <2>2
    DEF PrepareRefused, JournalizeRefused, JournalizeFails, Unswapped, Honest
  <2>3. CASE RestoreRead(p) \/ Prepare(p) \/ Journalize(p) \/ SwapCheck(p) \/ SwapRefused(p)
             \/ SwapApply(p) \/ SwapApplyFails(p) \/ Commit(p) \/ CommitFails(p)
    BY <1>1, <1>2, <2>3
    DEF RestoreRead, Prepare, Journalize, SwapCheck, SwapRefused, SwapApply, SwapApplyFails,
        Commit, CommitFails, EndSwap, TypeOK
  <2>4. QED BY <1>10, <2>1, <2>2, <2>3 DEF RestoreStep
<1>11. QED BY <1>4, <1>5, <1>6, <1>8, <1>9, <1>10 DEF Step

\* What a restore reports is true, whatever failed on the way.
THEOREM ReportIsHonest ==
  ASSUME NEW P, Procs = {P}
  PROVE  Spec => HonestReport
<1>1. ASSUME IInv, SoleAt(P), Next PROVE Honest(P)
  <2>1. CASE Ask(P) \/ Step(P) \/ Crash(P)
    BY <1>1, <2>1, HonestStep
  <2>2. CASE EmulatorStarts \/ EmulatorQuits \/ Outside
    <3>1. pc' = pc
      BY <2>2 DEF EmulatorStarts, EmulatorQuits, Outside, OutsideWrite
    <3>2. pc[P] = "idle" => before[P] = after[P]
      BY <1>1 DEF SoleAt, DividedAt, Unswapped, SnapshotLabels, RecoverLabels
    <3>3. QED BY <3>1, <3>2 DEF Honest
  <2>3. QED BY <1>1, <2>1, <2>2 DEF Next
<1>2. IInv /\ SoleAt(P) /\ [Next]_vars => [\A p \in Procs : Honest(p)]_vars
  BY <1>1
<1>3. [\A p \in Procs : Honest(p)]_vars =>
        [\A p \in Procs :
           op[p].kind = "restore" /\ pc'[p] = "idle" /\ before[p] # after[p] =>
             /\ result'[p] = "success" =>
                  \A q \in Paths \ touched : live'[q] = after[p][q]
             /\ result'[p] = "failure" /\ journal' = NoJournal =>
                  \A q \in Paths \ touched : live'[q] = before[p][q]]_vars
  BY DEF Honest
<1>4. QED BY <1>2, <1>3, SoleInvariance, PTL DEF Spec, HonestReport

-----------------------------------------------------------------------------
\* The undo copy.  The version a restore publishes first is newer than
\* every other, so that trimming takes another one.
Keeps(v, p) == v.whole /\ v.data = before[p]

UndoAt(p) ==
  op[p].kind = "restore" /\ touched = {} =>
    /\ pc[p] = "trim" =>
         \E u \in versions :
           Keeps(u, p) /\ \A w \in versions \ {u} : Newer(u, w) /\ w.id # u.id
    /\ pc[p] \in {"drop", "dropping"} => \E u \in versions : Keeps(u, p) /\ u.id # cur[p]
    /\ pc[p] \in {"prepare", "stage"} => \E u \in versions : Keeps(u, p)

Dated == \A v \in versions : v.created <= clock

\* The set a restore has found is that of the save files themselves.
LEMMA FoundIsLive ==
  ASSUME TypeOK, NEW p \in Procs, FoundAt(p), op[p].kind = "restore", pc[p] \in Unswapped,
         touched = {}
  PROVE  live = before[p]
<1>1. live \in SaveSets /\ before[p] \in SaveSets BY DEF TypeOK
<1>2. \A q \in Paths : live[q] = before[p][q] BY DEF FoundAt
<1>3. QED BY <1>1, <1>2 DEF SaveSets

\* A published version is newer than every other and has its own name.
LEMMA PublishedIsNewest ==
  ASSUME IInv, ~ClockStepsBack, Dated, NEW p \in Procs, Publish(p)
  PROVE  /\ Dated'
         /\ \E u \in versions' : /\ u.whole /\ u.data = data[p]
                                 /\ \A w \in versions' \ {u} : Newer(u, w) /\ w.id # u.id
<1>1. TypeOK BY DEF IInv
<1>2. PICK now \in Times, stamp \in IF versions = {} THEN {clock'}
                                    ELSE {Later(clock', v.stamp + 1) : v \in Newest} :
        /\ now >= clock /\ clock' = now /\ FreshIds # {}
        /\ versions' = versions \cup
             {[id |-> CHOOSE i \in FreshIds : TRUE, created |-> now, stamp |-> stamp,
               data |-> data[p], whole |-> TRUE]}
  BY DEF Publish
<1> DEFINE u == [id |-> CHOOSE i \in FreshIds : TRUE, created |-> now, stamp |-> stamp,
                 data |-> data[p], whole |-> TRUE]
<1>3. u.id \in FreshIds BY <1>2
<1>4. /\ u.created = now /\ u.stamp = stamp /\ u.whole /\ u.data = data[p]
      /\ versions' = versions \cup {u}
  BY <1>2
<1>5. now \in Nat /\ clock \in Nat BY <1>1, <1>2, BoundsAssumption DEF TypeOK, Times
<1> HIDE DEF u
<1>6. ASSUME NEW w \in versions PROVE w.created <= now /\ Newer(u, w) /\ w.id # u.id
  <2>1. w.created \in Nat /\ w.stamp \in Nat BY <1>1 DEF TypeOK, Versions
  <2>2. w.created <= now BY <1>2, <1>5, <2>1 DEF Dated
  <2>3. PICK v \in Newest : stamp = Later(now, v.stamp + 1) BY <1>2
  <2>4. v \in versions /\ ~Newer(w, v) BY <2>3 DEF Newest
  <2>5. v.created \in Nat /\ v.stamp \in Nat /\ v.created <= now
    BY <1>1, <1>2, <1>5, <2>4 DEF TypeOK, Versions, Dated
  <2>6. stamp > v.stamp BY <1>5, <2>3, <2>5 DEF Later
  <2>7. stamp \in Nat BY <1>5, <2>3, <2>5 DEF Later
  <2>8. Newer(u, w) BY <1>4, <1>5, <2>1, <2>2, <2>4, <2>5, <2>6, <2>7 DEF Newer
  <2>9. w.id # u.id BY <1>3 DEF FreshIds
  <2>10. QED BY <2>2, <2>8, <2>9
<1>7. Dated' BY <1>2, <1>4, <1>5, <1>6 DEF Dated
<1>8. QED BY <1>4, <1>6, <1>7

LEMMA DatedStep ==
  ASSUME IInv, ~ClockStepsBack, Dated, [Next]_vars
  PROVE  Dated'
<1> USE DEF disk, world
<1>1. TypeOK BY DEF IInv
<1>2. ASSUME UNCHANGED <<versions, clock>> PROVE Dated' BY <1>2 DEF Dated
<1>3. ASSUME NEW p \in Procs, Ask(p) PROVE Dated'
  BY <1>2, <1>3 DEF Ask, Begin, Restore, Remove, Snapshot, Launch, RetryRecovery
<1>4. ASSUME NEW p \in Procs, RecoverStep(p) PROVE Dated'
  BY <1>2, <1>4
  DEF RecoverStep, RecoverNothing, RecoverBegin, RecoverRefused, RecoverFails, RollCheck,
      RollRefused, RollApply, RollApplyFails, ClearBegin, ClearEnd, ClearFails
<1>5. ASSUME NEW p \in Procs, DropBegin(p) \/ DropEnd(p) PROVE Dated'
  <2>1. clock' = clock BY <1>5 DEF DropBegin, DropEnd
  <2>2. ASSUME NEW v \in versions' PROVE \E w \in versions : v.created = w.created
    <3>1. CASE v \in versions BY <3>1
    <3>2. CASE v \notin versions
      <4>1. PICK w \in versions : v = [w EXCEPT !.whole = FALSE]
        BY <1>5, <3>2 DEF DropBegin, DropEnd
      <4>2. w \in Versions BY <1>1 DEF TypeOK
      <4>3. v.created = w.created BY <4>1, <4>2 DEF Versions
      <4>4. QED BY <4>3
    <3>3. QED BY <3>1, <3>2
  <2>3. QED BY <2>1, <2>2 DEF Dated
<1>6. ASSUME NEW p \in Procs, SnapshotStep(p) PROVE Dated'
  BY <1>2, <1>5, <1>6, PublishedIsNewest
  DEF SnapshotStep, SnapshotUnneeded, SnapshotBegin, SnapshotRefused, SnapshotFails,
      PublishRefused, PublishFails, Trim, TrimNothing, DropFails
<1>7. ASSUME NEW p \in Procs, OtherStep(p) PROVE Dated'
  BY <1>2, <1>7 DEF OtherStep, RemoveBegin, RemoveRefused, ProtectLaunch, SkipProtection, Spawn
<1>8. ASSUME NEW p \in Procs, RestoreStep(p) PROVE Dated'
  BY <1>2, <1>8
  DEF RestoreStep, RestoreRead, RestoreReadFails, Prepare, PrepareRefused, Journalize,
      JournalizeRefused, JournalizeFails, SwapCheck, SwapRefused, SwapApply, SwapApplyFails,
      Commit, CommitFails
<1>9. CASE (\E p \in Procs : Crash(p)) \/ EmulatorStarts \/ EmulatorQuits \/ Outside
           \/ UNCHANGED vars
  BY <1>2, <1>9 DEF Crash, EmulatorStarts, EmulatorQuits, Outside, OutsideWrite, vars
<1>10. QED BY <1>3, <1>4, <1>6, <1>7, <1>8, <1>9 DEF Next, Step

LEMMA UndoSnapshot ==
  ASSUME IInv, ~ClockStepsBack, Dated, NEW p \in Procs, SoleAt(p), UndoAt(p), SnapshotStep(p)
  PROVE  UndoAt(p)'
<1> USE DEF disk, world, copies, locals, At, Goto
<1>1. TypeOK BY DEF IInv
<1>2. touched' = touched
  BY DEF SnapshotStep, SnapshotUnneeded, SnapshotBegin, SnapshotRefused, SnapshotFails, Publish,
         PublishRefused, PublishFails, Trim, TrimNothing, DropBegin, DropEnd, DropFails
<1>3. CASE \E r : Return(p, r) BY <1>1, <1>3, ReturnSole DEF UndoAt
<1>4. CASE SnapshotBegin(p)
  BY <1>1, <1>4 DEF SnapshotBegin, UndoAt, TypeOK
<1>5. SUFFICES ASSUME op'[p].kind = "restore", touched = {}, ~\E r : Return(p, r),
                      ~SnapshotBegin(p)
               PROVE  UndoAt(p)'
  BY <1>2, <1>3, <1>4 DEF UndoAt
<1>6. ASSUME pc'[p] = "prepare", before' = before,
             \E u \in versions' : Keeps(u, p)
      PROVE  UndoAt(p)'
  BY <1>6 DEF UndoAt, Keeps
<1>7. ASSUME NEW okay \in BOOLEAN, AfterSnapshot(p, okay) \/ AfterDrop(p, okay)
      PROVE  /\ op[p].kind = "restore" /\ pc'[p] = "prepare" /\ before' = before
             /\ AfterDrop(p, okay) \/ okay
  BY <1>1, <1>5, <1>7 DEF AfterSnapshot, AfterDrop, Continue, TypeOK
<1>8. CASE SnapshotUnneeded(p)
  <2>1. op[p].kind = "restore" /\ pc'[p] = "prepare" /\ before' = before
    BY <1>7, <1>8 DEF SnapshotUnneeded
  <2>2. PICK v \in Newest : v.whole /\ v.data = live
    BY <1>8, <2>1 DEF SnapshotUnneeded, EmptyAllowed
  <2>3. live = before[p]
    BY <1>1, <1>5, <1>8, <2>1, FoundIsLive DEF SnapshotUnneeded, SoleAt, Unswapped, SnapshotLabels
  <2>4. v \in versions' /\ Keeps(v, p)
    BY <1>8, <2>2, <2>3 DEF SnapshotUnneeded, Newest, Keeps
  <2>5. QED BY <1>6, <2>1, <2>4
<1>9. CASE Publish(p)
  <2>1. /\ pc'[p] = "trim" /\ UNCHANGED <<op, before>> /\ live = data[p]
        /\ pc[p] = "publish"
    BY <1>1, <1>9 DEF Publish, TypeOK
  <2>2. live = before[p]
    BY <1>1, <1>5, <2>1, FoundIsLive DEF SoleAt, Unswapped, SnapshotLabels
  <2>3. PICK u \in versions' : /\ u.whole /\ u.data = data[p]
                               /\ \A w \in versions' \ {u} : Newer(u, w) /\ w.id # u.id
    BY <1>9, PublishedIsNewest
  <2>4. QED BY <2>1, <2>2, <2>3 DEF UndoAt, Keeps, Newer
<1>10. CASE SnapshotRefused(p) \/ SnapshotFails(p) \/ PublishRefused(p) \/ PublishFails(p)
  <2>1. AfterSnapshot(p, FALSE)
    BY <1>10 DEF SnapshotRefused, SnapshotFails, PublishRefused, PublishFails
  <2>2. op[p].kind = "restore" BY <1>7, <2>1
  <2>3. QED BY <1>5, <2>1, <2>2 DEF AfterSnapshot
<1>11. ASSUME pc[p] = "trim", op[p].kind = "restore"
       PROVE  \E u \in versions :
                Keeps(u, p) /\ \A w \in versions \ {u} : Newer(u, w) /\ w.id # u.id
  BY <1>5, <1>11 DEF UndoAt
<1>12. CASE TrimNothing(p)
  <2>1. op[p].kind = "restore" /\ pc'[p] = "prepare" /\ before' = before /\ pc[p] = "trim"
        /\ versions' = versions
    BY <1>7, <1>12 DEF TrimNothing
  <2>2. \E u \in versions : Keeps(u, p) BY <1>11, <2>1
  <2>3. QED BY <1>6, <2>1, <2>2
<1>13. CASE Trim(p)
  <2>1. /\ pc[p] = "trim" /\ pc'[p] = "drop" /\ UNCHANGED <<op, before, versions>>
        /\ Cardinality(versions) > Retention
    BY <1>1, <1>13 DEF Trim, TypeOK
  <2>2. PICK u \in versions :
          Keeps(u, p) /\ \A w \in versions \ {u} : Newer(u, w) /\ w.id # u.id
    BY <1>5, <1>11, <2>1
  <2>3. PICK v \in Oldest : cur' = [cur EXCEPT ![p] = v.id]
    BY <1>13 DEF Trim
  <2>4. v # u
    <3>1. SUFFICES ASSUME v = u PROVE FALSE OBVIOUS
    <3>2. versions = {u} BY <2>2, <2>3, <3>1 DEF Oldest
    <3>3. Cardinality(versions) = 1 BY <3>2, FS_Singleton
    <3>4. QED BY <2>1, <3>3, BoundsAssumption
  <2>5. cur'[p] # u.id
    BY <1>1, <2>2, <2>3, <2>4 DEF TypeOK, Oldest
  <2>6. QED BY <2>1, <2>2, <2>5 DEF UndoAt, Keeps
<1>14. ASSUME pc[p] \in {"drop", "dropping"}, op[p].kind = "restore"
       PROVE  \E u \in versions : Keeps(u, p) /\ u.id # cur[p]
  BY <1>5, <1>14 DEF UndoAt
<1>15. CASE DropBegin(p)
  <2>1. pc[p] = "drop" /\ pc'[p] = "dropping" /\ UNCHANGED <<op, before, cur>>
    BY <1>1, <1>15 DEF DropBegin, TypeOK
  <2>2. PICK u \in versions : Keeps(u, p) /\ u.id # cur[p] BY <1>5, <1>14, <2>1
  <2>3. u \in versions' BY <1>15, <2>2 DEF DropBegin
  <2>4. QED BY <2>1, <2>2, <2>3 DEF UndoAt, Keeps
<1>16. CASE DropEnd(p) \/ DropFails(p)
  <2>1. op[p].kind = "restore" /\ pc'[p] = "prepare" /\ before' = before /\ pc[p] = "dropping"
    BY <1>7, <1>16 DEF DropEnd, DropFails
  <2>2. PICK u \in versions : Keeps(u, p) /\ u.id # cur[p] BY <1>14, <2>1
  <2>3. u \in versions' BY <1>16, <2>2 DEF DropEnd, DropFails
  <2>4. QED BY <1>6, <2>1, <2>2, <2>3
<1>17. QED
  BY <1>5, <1>8, <1>9, <1>10, <1>12, <1>13, <1>15, <1>16 DEF SnapshotStep

\* No other step trims, or takes a restore to where it has its undo copy.
LEMMA UndoOther ==
  ASSUME IInv, NEW p \in Procs, SoleAt(p), UndoAt(p),
         \/ Ask(p) \/ RecoverStep(p) \/ OtherStep(p) \/ RestoreStep(p) \/ Crash(p)
         \/ EmulatorStarts \/ EmulatorQuits \/ Outside \/ UNCHANGED vars
  PROVE  UndoAt(p)'
<1> USE DEF disk, world, copies, locals, At, Goto
<1>1. TypeOK BY DEF IInv
<1>2. ASSUME pc'[p] \notin {"trim", "drop", "dropping", "prepare", "stage"} PROVE UndoAt(p)'
  BY <1>2 DEF UndoAt
<1>3. CASE \E r : Return(p, r) BY <1>1, <1>2, <1>3, ReturnSole
<1>4. CASE Ask(p)
  BY <1>1, <1>2, <1>4
  DEF Ask, Restore, Remove, Snapshot, Launch, RetryRecovery, Begin, TypeOK
<1>5. CASE AfterRecover(p)
  BY <1>1, <1>2, <1>3, <1>5 DEF AfterRecover, Continue, TypeOK
<1>6. CASE RecoverBegin(p) \/ RollCheck(p) \/ RollApply(p) \/ ClearBegin(p)
  BY <1>1, <1>2, <1>6 DEF RecoverBegin, RollCheck, RollApply, ClearBegin, TypeOK
<1>7. CASE RecoverStep(p)
  BY <1>3, <1>5, <1>6, <1>7
  DEF RecoverStep, RecoverNothing, RecoverRefused, RecoverFails, RollRefused, RollApplyFails,
      ClearEnd, ClearFails
<1>8. CASE OtherStep(p)
  <2>1. CASE RemoveBegin(p)
    <3>1. op'[p].kind = "remove" BY <2>1 DEF RemoveBegin, SoleAt, NamedAt
    <3>2. QED BY <3>1 DEF UndoAt
  <2>2. CASE ProtectLaunch(p) \/ SkipProtection(p)
    BY <1>1, <1>2, <2>2 DEF ProtectLaunch, SkipProtection, Continue, TypeOK
  <2>3. QED BY <1>3, <1>8, <2>1, <2>2 DEF OtherStep, RemoveRefused, Spawn
<1>9. CASE Prepare(p)
  <2>1. pc[p] = "prepare" /\ UNCHANGED <<op, touched, versions, before>> /\ pc'[p] = "stage"
    BY <1>1, <1>9 DEF Prepare, TypeOK
  <2>2. QED BY <2>1 DEF UndoAt, Keeps
<1>10. CASE RestoreStep(p)
  <2>1. CASE RestoreRead(p) \/ Journalize(p) \/ SwapCheck(p) \/ SwapRefused(p) \/ SwapApply(p)
             \/ SwapApplyFails(p) \/ Commit(p) \/ CommitFails(p)
    BY <1>1, <1>2, <2>1
    DEF RestoreRead, Journalize, SwapCheck, SwapRefused, SwapApply, SwapApplyFails, Commit,
        CommitFails, EndSwap, TypeOK
  <2>2. QED
    BY <1>3, <1>9, <1>10, <2>1
    DEF RestoreStep, RestoreReadFails, PrepareRefused, JournalizeRefused, JournalizeFails
<1>11. CASE Crash(p) BY <1>3, <1>11 DEF Crash
<1>12. CASE EmulatorStarts \/ EmulatorQuits \/ UNCHANGED vars
  BY <1>12 DEF EmulatorStarts, EmulatorQuits, vars, UndoAt, Keeps, Newer
<1>13. CASE Outside
  <2>1. PICK q \in Paths, c \in Contents \cup {Absent} : OutsideWrite(q, c)
    BY <1>13 DEF Outside
  <2>2. UNCHANGED <<versions, pc, op, before, cur>> BY <2>1 DEF OutsideWrite
  <2>3. touched' = {} => touched = {} BY <2>1 DEF OutsideWrite
  <2>4. QED BY <2>2, <2>3 DEF UndoAt, Keeps, Newer
<1>14. QED BY <1>4, <1>7, <1>8, <1>10, <1>11, <1>12, <1>13

\* When a restore publishes its journal, a complete version holds the
\* saves it is about to replace, however many faults, kills and writers.
THEOREM UndoIsKept ==
  ASSUME NEW P, Procs = {P}, ~ClockStepsBack
  PROVE  Spec => UndoKept
<1>1. Init => Dated /\ UndoAt(P)
  BY DEF Init, Dated, UndoAt
<1>2. IInv /\ SoleAt(P) /\ Dated /\ UndoAt(P) /\ [Next]_vars => Dated' /\ UndoAt(P)'
  BY DatedStep, UndoSnapshot, UndoOther DEF Next, Step
<1>3. ASSUME SoleAt(P), UndoAt(P), NEW p \in Procs, Journalize(p), touched = {}
      PROVE  \E v \in versions : v.whole /\ v.data = before[p]
  <2>1. p = P /\ pc[P] = "stage" BY <1>3 DEF Journalize, At
  <2>2. op[P].kind = "restore" BY <1>3, <2>1 DEF SoleAt, NamedAt, RestoreLabels
  <2>3. QED BY <1>3, <2>1, <2>2 DEF UndoAt, Keeps
<1>4. SoleAt(P) /\ UndoAt(P) =>
        [\A p \in Procs : Journalize(p) /\ touched = {} =>
           \E v \in versions : v.whole /\ v.data = before[p]]_vars
  BY <1>3
<1>5. QED BY <1>1, <1>2, <1>4, SoleInvariance, PTL DEF Spec, UndoKept

-----------------------------------------------------------------------------
\* SaveSetStore implements AtomicSaves: a restore that is spread over many
\* file replacements, two processes and any number of crashes looks like
\* one step to whoever reads the saves as the journal will settle them.
\* The steps of p change nothing the others have in memory.
Apart(p) ==
  \A r \in Procs \ {p} :
    /\ pc'[r] = pc[r] /\ op'[r] = op[r]
    /\ before'[r] = before[r] /\ after'[r] = after[r] /\ data'[r] = data[r]

\* What p has in memory and may still make live.
Own(p, set) ==
  \/ HasBefore(p) /\ set = before[p]
  \/ HasAfter(p) /\ set = after[p]
  \/ HasData(p) /\ set = data[p]

LEMMA HeldElements ==
  \A set : set \in Held <=>
    \/ \E v \in versions : set = v.data
    \/ Pending /\ set \in {journal.before, journal.after}
    \/ \E p \in Procs : Own(p, set)
BY DEF Held, Own

LEMMA HeldElementsPrime ==
  \A set : set \in Held' <=>
    \/ \E v \in versions' : set = v.data
    \/ Pending' /\ set \in {journal'.before, journal'.after}
    \/ \E p \in Procs : Own(p, set)'
BY DEF Held, Own

\* A step adds no copy but one of the saves as they are, if what it adds
\* to the versions, the journal and its own memory is one.
LEMMA HeldKept ==
  ASSUME NEW p \in Procs, Apart(p),
         \A set : Own(p, set)' => set \in Held \cup {View},
         \A v \in versions' : v.data \in Held \cup {View},
         Pending' => {journal'.before, journal'.after} \subseteq Held \cup {View}
  PROVE  Held' \subseteq Held \cup {View}
<1>1. \A r \in Procs \ {p} : \A set : Own(r, set)' => Own(r, set)
  BY DEF Own, Apart, HasBefore, HasAfter, HasData, At
<1>2. \A r \in Procs \ {p} : \A set : Own(r, set)' => set \in Held
  BY <1>1, HeldElements
<1>3. QED BY <1>2, HeldElementsPrime

\* A step that leaves the files and the journal alone is a Copy.
LEMMA QuietStep ==
  ASSUME NEW p \in Procs, Apart(p), UNCHANGED <<live, journal, touched>>,
         \A set : Own(p, set)' => set \in Held \cup {View},
         \A v \in versions' : v.data \in Held \cup {View}
  PROVE  Abstract!Next
<1>1. Pending => {journal.before, journal.after} \subseteq Held BY HeldElements
<1>2. Held' \subseteq Held \cup {View} BY <1>1, HeldKept DEF Pending
<1>3. View' = View BY DEF View, Pending, Target
<1>4. QED BY <1>2, <1>3 DEF Abstract!Next, Abstract!Copy, Abstract!Keep

LEMMA VersionsHeld == \A v \in versions : v.data \in Held
BY HeldElements

\* An operation that ends keeps nothing; one that goes on keeps what it has.
LEMMA ReturnApart ==
  ASSUME TypeOK, NEW p \in Procs, NEW r, Return(p, r)
  PROVE  Apart(p) /\ \A set : ~Own(p, set)'
BY DEF TypeOK, Return, Forget, Goto, Apart, Own, HasBefore, HasAfter, HasData, At

LEMMA ContinueApart ==
  ASSUME TypeOK, NEW p \in Procs, NEW l, Continue(p, l)
  PROVE  /\ Apart(p) /\ pc'[p] = l /\ op'[p] = op[p]
         /\ before'[p] = before[p] /\ after'[p] = after[p] /\ data'[p] = data[p]
BY DEF TypeOK, Continue, Goto, Apart, locals, copies

\* Going on from a label where p has what restore() read adds nothing.
LEMMA ContinueOwn ==
  ASSUME TypeOK, NEW p \in Procs, pc[p] \notin RecoverLabels \cup {"idle", "read"},
         NEW l \in {"spawn", "prepare", "snapshot"}, Continue(p, l),
         l = "prepare" => op[p].kind = "restore"
  PROVE  Apart(p) /\ \A set : Own(p, set)' => set \in Held
<1>1. \A set : Own(p, set)' => HasAfter(p) /\ set = after[p]
  BY ContinueApart DEF Own, HasBefore, HasAfter, HasData, At, RestoreLabels
<1>2. QED BY <1>1, ContinueApart, HeldElements DEF Own

LEMMA AfterRecoverApart ==
  ASSUME TypeOK, NEW p \in Procs, AfterRecover(p)
  PROVE  Apart(p) /\ \A set : ~Own(p, set)'
<1>1. CASE \E r : Return(p, r)
  BY <1>1, ReturnApart
<1>2. ASSUME NEW l, Continue(p, l),
             l = "read" \/ (l \in {"snapshot", "remove", "launch"} /\ op[p].kind # "restore")
      PROVE  Apart(p) /\ \A set : ~Own(p, set)'
  BY <1>2, ContinueApart DEF Own, HasBefore, HasAfter, HasData, At, RestoreLabels
<1>3. QED BY <1>1, <1>2 DEF AfterRecover

LEMMA AfterSnapshotApart ==
  ASSUME TypeOK, NEW p \in Procs, pc[p] \in SnapshotLabels, NEW okay \in BOOLEAN,
         AfterSnapshot(p, okay) \/ AfterDrop(p, okay)
  PROVE  Apart(p) /\ \A set : Own(p, set)' => set \in Held
<1>1. CASE \E r : Return(p, r)
  BY <1>1, ReturnApart
<1>2. CASE \E l \in {"spawn", "prepare"} :
             Continue(p, l) /\ (l = "prepare" => op[p].kind = "restore")
  <2>1. pc[p] \notin RecoverLabels \cup {"idle", "read"} BY DEF SnapshotLabels, RecoverLabels
  <2>2. QED BY <1>2, <2>1, ContinueOwn
<1>3. QED BY <1>1, <1>2 DEF AfterSnapshot, AfterDrop

-----------------------------------------------------------------------------
\* The steps, one by one.

LEMMA AskAbstract == ASSUME IInv, NEW p \in Procs, Ask(p) PROVE Abstract!Next
<1>1. TypeOK BY DEF IInv
<1>2. ASSUME NEW k, NEW id, Begin(p, k, id) PROVE Abstract!Next
  <2>1. Apart(p) /\ pc'[p] = "recover"
    BY <1>1, <1>2 DEF Begin, TypeOK, Goto, Apart, locals, copies
  <2>2. \A set : ~Own(p, set)'
    BY <2>1 DEF Own, HasBefore, HasAfter, HasData, At, RecoverLabels, RestoreLabels
  <2>3. QED BY <1>2, <2>1, <2>2, QuietStep, VersionsHeld DEF Begin, disk
<1>3. QED BY <1>2 DEF Ask, Restore, Remove, Snapshot, Launch, RetryRecovery

\* A step of p to label l that keeps what p has in memory is a Copy.
LEMMA MoveAbstract ==
  ASSUME TypeOK, NEW p \in Procs, NEW l, Goto(p, l), UNCHANGED <<op, before, after, data>>,
         \/ l \in {"roll", "rollApply", "clearing", "recover"}
         \/ HasBefore(p) /\ l \in {"swap", "swapApply"}
         \/ /\ pc[p] \notin RecoverLabels \cup {"idle", "read"}
            /\ l \in {"trim", "drop", "dropping"},
         UNCHANGED <<live, journal, touched>>,
         \A v \in versions' : v.data \in Held \cup {View}
  PROVE  Abstract!Next
<1>1. Apart(p) /\ pc'[p] = l BY DEF TypeOK, Goto, Apart
<1>2. ASSUME NEW set, Own(p, set)' PROVE Own(p, set)
  BY <1>1, <1>2 DEF Own, HasBefore, HasAfter, HasData, At, RecoverLabels, RestoreLabels
<1>3. QED BY <1>1, <1>2, HeldElements, QuietStep

LEMMA SnapshotAbstract ==
  ASSUME IInv, NEW p \in Procs, SnapshotStep(p) PROVE Abstract!Next
<1> USE DEF disk, world, copies, locals, At
<1>1. TypeOK BY DEF IInv
<1>2. ASSUME NEW okay \in BOOLEAN, AfterSnapshot(p, okay) \/ AfterDrop(p, okay),
             pc[p] \in SnapshotLabels, UNCHANGED <<live, journal, touched>>,
             \A v \in versions' : v \in versions
      PROVE  Abstract!Next
  BY <1>1, <1>2, AfterSnapshotApart, QuietStep, VersionsHeld
<1>3. ASSUME pc[p] \in SnapshotLabels
      PROVE  pc[p] \notin RecoverLabels \cup {"idle", "read"}
  BY <1>3 DEF SnapshotLabels, RecoverLabels
<1>4. CASE SnapshotUnneeded(p) \/ SnapshotRefused(p) \/ SnapshotFails(p)
  BY <1>2, <1>4 DEF SnapshotUnneeded, SnapshotRefused, SnapshotFails, SnapshotLabels
<1>5. CASE SnapshotBegin(p)
  <2>1. Apart(p) /\ pc'[p] = "publish" /\ data'[p] = live /\ op'[p] = op[p] /\ after' = after
    BY <1>1, <1>5 DEF SnapshotBegin, TypeOK, Goto, Apart
  <2>2. View = live BY <1>5 DEF SnapshotBegin, Refused, View
  <2>3. pc[p] \notin RecoverLabels \cup {"idle", "read"}
    BY <1>3, <1>5 DEF SnapshotBegin, SnapshotLabels
  <2>4. ASSUME NEW set, Own(p, set)' PROVE set \in Held \cup {View}
    <3>1. ~HasBefore(p)' /\ (HasAfter(p)' => HasAfter(p))
      BY <2>1, <2>3 DEF HasBefore, HasAfter, RestoreLabels
    <3>2. set = live \/ (HasAfter(p) /\ set = after[p])
      BY <2>1, <2>4, <3>1 DEF Own
    <3>3. QED BY <2>2, <3>2, HeldElements DEF Own
  <2>5. QED BY <1>5, <2>1, <2>4, QuietStep, VersionsHeld DEF SnapshotBegin
<1>6. CASE Publish(p)
  <2>1. HasData(p) BY <1>6 DEF Publish, HasData
  <2>2. data[p] \in Held BY <2>1, HeldElements DEF Own
  <2>3. \A v \in versions' : v \in versions \/ v.data = data[p] BY <1>6 DEF Publish
  <2>4. \A v \in versions' : v.data \in Held \cup {View}
    BY <2>2, <2>3, VersionsHeld
  <2>5. pc[p] \notin RecoverLabels \cup {"idle", "read"}
    BY <1>3, <1>6 DEF Publish, SnapshotLabels
  <2>6. Goto(p, "trim") /\ UNCHANGED <<live, journal, touched, op, before, after, data>>
    BY <1>6 DEF Publish
  <2>7. QED BY <1>1, <2>4, <2>5, <2>6, MoveAbstract
<1>7. CASE PublishRefused(p) \/ PublishFails(p) \/ TrimNothing(p)
  BY <1>2, <1>7 DEF PublishRefused, PublishFails, TrimNothing, SnapshotLabels
<1>8. CASE Trim(p)
  <2>1. pc[p] \notin RecoverLabels \cup {"idle", "read"}
    BY <1>3, <1>8 DEF Trim, SnapshotLabels
  <2>2. Goto(p, "drop") /\ UNCHANGED <<live, journal, touched, versions, op, before, after, data>>
    BY <1>8 DEF Trim
  <2>3. QED BY <1>1, <2>1, <2>2, MoveAbstract, VersionsHeld
<1>9. CASE DropBegin(p)
  <2>1. \A v \in versions : v \in Versions BY <1>1 DEF TypeOK
  <2>2. \A v \in versions : [v EXCEPT !.whole = FALSE].data = v.data
    BY <2>1 DEF Versions
  <2>3. \A v \in versions' : \E w \in versions : v.data = w.data
    BY <2>2, <1>9 DEF DropBegin
  <2>4. \A v \in versions' : v.data \in Held BY <2>3, VersionsHeld
  <2>5. pc[p] \notin RecoverLabels \cup {"idle", "read"}
    BY <1>3, <1>9 DEF DropBegin, SnapshotLabels
  <2>6. Goto(p, "dropping") /\ UNCHANGED <<live, journal, touched, op, before, after, data>>
    BY <1>9 DEF DropBegin
  <2>7. QED BY <1>1, <2>4, <2>5, <2>6, MoveAbstract
<1>10. CASE DropEnd(p)
  BY <1>2, <1>10 DEF DropEnd, SnapshotLabels
<1>11. CASE DropFails(p)
  BY <1>2, <1>11 DEF DropFails, SnapshotLabels
<1>12. QED
  BY <1>4, <1>5, <1>6, <1>7, <1>8, <1>9, <1>10, <1>11 DEF SnapshotStep

LEMMA OtherAbstract ==
  ASSUME IInv, NEW p \in Procs, OtherStep(p) PROVE Abstract!Next
<1> USE DEF disk, world, copies, locals, At
<1>1. TypeOK BY DEF IInv
<1>2. CASE RemoveBegin(p)
  <2>1. Goto(p, "drop") /\ UNCHANGED <<live, journal, touched, versions, op, before, after, data>>
    BY <1>2 DEF RemoveBegin
  <2>2. pc[p] \notin RecoverLabels \cup {"idle", "read"}
    BY <1>2 DEF RemoveBegin, RecoverLabels
  <2>3. QED BY <1>1, <2>1, <2>2, MoveAbstract, VersionsHeld
<1>3. CASE RemoveRefused(p)
  BY <1>1, <1>3, ReturnApart, QuietStep, VersionsHeld DEF RemoveRefused
<1>4. CASE ProtectLaunch(p) \/ SkipProtection(p)
  <2>1. pc[p] \notin RecoverLabels \cup {"idle", "read"}
    BY <1>4 DEF ProtectLaunch, SkipProtection, RecoverLabels
  <2>2. QED
    BY <1>1, <1>4, <2>1, ContinueOwn, QuietStep, VersionsHeld DEF ProtectLaunch, SkipProtection
<1>5. CASE Spawn(p)
  BY <1>1, <1>5, ReturnApart, QuietStep, VersionsHeld DEF Spawn
<1>6. QED BY <1>2, <1>3, <1>4, <1>5 DEF OtherStep

LEMMA RecoverAbstract ==
  ASSUME IInv, NEW p \in Procs, RecoverStep(p) PROVE Abstract!Next
<1> USE DEF disk, world, copies, locals, At
<1>1. TypeOK BY DEF IInv
<1>2. CASE \E r : Return(p, r) /\ UNCHANGED <<live, journal, touched, versions>>
  BY <1>1, <1>2, ReturnApart, QuietStep, VersionsHeld
<1>3. CASE RecoverNothing(p)
  BY <1>1, <1>3, AfterRecoverApart, QuietStep, VersionsHeld DEF RecoverNothing
<1>4. CASE RecoverBegin(p) \/ RollCheck(p)
  <2>1. \E l \in {"roll", "rollApply"} :
          Goto(p, l) /\ UNCHANGED <<live, journal, touched, versions, op, before, after, data>>
    BY <1>4 DEF RecoverBegin, RollCheck
  <2>2. QED BY <1>1, <2>1, MoveAbstract, VersionsHeld
<1>5. CASE RecoverRefused(p) \/ RecoverFails(p) \/ RollRefused(p) \/ RollApplyFails(p)
           \/ ClearFails(p)
  BY <1>2, <1>5 DEF RecoverRefused, RecoverFails, RollRefused, RollApplyFails, ClearFails
<1>6. CASE RollApply(p)
  <2>1. /\ Pending /\ cur[p] \in Paths
        /\ journal' = journal /\ touched' = touched /\ versions' = versions
        /\ live' = [live EXCEPT ![cur[p]] = Target(journal)[cur[p]]]
    BY <1>6 DEF RollApply, IInv, RollInv, RollAt
  <2>2. Apart(p) /\ \A set : ~Own(p, set)'
    BY <1>1, <1>6
    DEF RollApply, TypeOK, Goto, Apart, Own, HasBefore, HasAfter, HasData, RecoverLabels
  <2>3. Held' \subseteq Held \cup {View}
    <3>1. Pending => {journal.before, journal.after} \subseteq Held BY HeldElements
    <3>2. QED BY <2>1, <2>2, <3>1, HeldKept, VersionsHeld DEF Pending
  <2>4. live \in [Paths -> Contents \cup {Absent}] BY <1>1 DEF TypeOK, SaveSets
  <2>5. CASE cur[p] \in touched
    <3>1. Target(journal) \in Held BY <2>1, HeldElements DEF Target
    <3>2. View' = [View EXCEPT ![cur[p]] = Target(journal)[cur[p]]]
      BY <2>1, <2>4, <2>5 DEF View, Pending, Target
    <3>3. QED
      BY <2>1, <2>3, <2>5, <3>1, <3>2 DEF Abstract!Next, Abstract!Overwrite, Abstract!Keep
  <2>6. CASE cur[p] \notin touched
    <3>1. View' = View BY <2>1, <2>4, <2>6 DEF View, Pending, Target
    <3>2. QED BY <2>1, <2>3, <3>1 DEF Abstract!Next, Abstract!Copy, Abstract!Keep
  <2>7. QED BY <2>5, <2>6
<1>7. CASE ClearBegin(p)
  <2>1. /\ journal \in Journals /\ Pending
        /\ journal' = [journal EXCEPT !.intact = FALSE]
        /\ live' = live /\ touched' = touched /\ versions' = versions
    BY <1>1, <1>7 DEF ClearBegin, IInv, RollInv, RollAt, TypeOK, Pending
  <2>2. /\ journal' \in Journals
        /\ journal'.before = journal.before /\ journal'.after = journal.after
        /\ journal'.committed = journal.committed
    BY <2>1 DEF Journals
  <2>3. Pending' BY <2>2, JournalAssumption DEF Pending
  <2>4. Apart(p) /\ \A set : ~Own(p, set)'
    BY <1>1, <1>7
    DEF ClearBegin, TypeOK, Goto, Apart, Own, HasBefore, HasAfter, HasData, RecoverLabels
  <2>5. {journal.before, journal.after} \subseteq Held BY <2>1, HeldElements
  <2>6. Held' \subseteq Held \cup {View}
    BY <2>1, <2>2, <2>4, <2>5, HeldKept, VersionsHeld
  <2>7. View' = View BY <2>1, <2>2, <2>3 DEF View, Target
  <2>8. QED BY <2>1, <2>6, <2>7 DEF Abstract!Next, Abstract!Copy, Abstract!Keep
<1>8. CASE ClearEnd(p)
  <2>1. /\ Pending /\ \A q \in Paths \ touched : live[q] = Target(journal)[q]
        /\ ~Pending' /\ live' = live /\ touched' = {} /\ versions' = versions
    BY <1>8 DEF ClearEnd, IInv, RollInv, RollAt, Pending
  <2>2. Apart(p) /\ \A set : ~Own(p, set)'
    BY <1>1, <1>8, AfterRecoverApart DEF ClearEnd
  <2>3. Held' \subseteq Held \cup {View}
    BY <2>1, <2>2, HeldKept, VersionsHeld
  <2>4. live \in [Paths -> Contents \cup {Absent}] BY <1>1 DEF TypeOK, SaveSets
  <2>5. View' = View BY <2>1, <2>4 DEF View
  <2>6. QED BY <2>1, <2>3, <2>5 DEF Abstract!Next, Abstract!Clean, Abstract!Keep
<1>9. QED BY <1>3, <1>4, <1>5, <1>6, <1>7, <1>8 DEF RecoverStep

LEMMA RestoreAbstract ==
  ASSUME IInv, NEW p \in Procs, RestoreStep(p) PROVE Abstract!Next
<1> USE DEF disk, world, copies, locals, At
<1>1. TypeOK BY DEF IInv
<1>2. CASE \E r : Return(p, r) /\ UNCHANGED <<live, journal, touched, versions>>
  BY <1>1, <1>2, ReturnApart, QuietStep, VersionsHeld
<1>3. CASE RestoreReadFails(p) \/ PrepareRefused(p) \/ JournalizeRefused(p)
           \/ JournalizeFails(p)
  BY <1>2, <1>3 DEF RestoreReadFails, PrepareRefused, JournalizeRefused, JournalizeFails
<1>4. CASE SwapCheck(p) \/ SwapRefused(p) \/ SwapApplyFails(p) \/ CommitFails(p)
  <2>1. HasBefore(p)
    BY <1>4 DEF SwapCheck, SwapRefused, SwapApplyFails, CommitFails, HasBefore
  <2>2. \E l \in {"swapApply", "recover"} :
          Goto(p, l) /\ UNCHANGED <<live, journal, touched, versions, op, before, after, data>>
    BY <1>4 DEF SwapCheck, SwapRefused, SwapApplyFails, CommitFails, EndSwap
  <2>3. QED BY <1>1, <2>1, <2>2, MoveAbstract, VersionsHeld
<1>5. CASE RestoreRead(p)
  <2>1. /\ live' = live /\ journal' = journal /\ versions' = versions
        /\ touched' = IF Pending THEN touched ELSE {}
    BY <1>5 DEF RestoreRead
  <2>2. Apart(p) /\ after'[p] \in Held
    BY <1>1, <1>5, VersionsHeld DEF RestoreRead, TypeOK, Goto, Apart
  <2>3. ASSUME NEW set, Own(p, set)' PROVE set \in Held
    <3>1. pc'[p] = "snapshot" BY <1>1, <1>5 DEF RestoreRead, TypeOK, Goto
    <3>2. QED BY <2>2, <2>3, <3>1 DEF Own, HasBefore, HasData
  <2>4. Pending => {journal.before, journal.after} \subseteq Held BY HeldElements
  <2>5. Held' \subseteq Held \cup {View}
    BY <2>1, <2>2, <2>3, <2>4, HeldKept, VersionsHeld DEF Pending
  <2>6. View' = View BY <2>1 DEF View, Pending, Target
  <2>7. QED
    BY <2>1, <2>5, <2>6
    DEF Abstract!Next, Abstract!Copy, Abstract!Clean, Abstract!Keep
<1>6. CASE Prepare(p)
  <2>1. /\ Apart(p) /\ pc'[p] = "stage" /\ before[p] = View
        /\ UNCHANGED <<live, journal, touched, versions, op, before, after, data>>
    BY <1>1, <1>6 DEF Prepare, Refused, View, TypeOK, Goto, Apart
  <2>2. HasAfter(p)' => HasAfter(p)
    BY <1>6, <2>1 DEF Prepare, HasAfter, RecoverLabels, RestoreLabels
  <2>3. ASSUME NEW set, Own(p, set)' PROVE set \in Held \cup {View}
    <3>1. set = before[p] \/ (HasAfter(p) /\ set = after[p])
      BY <2>1, <2>2, <2>3 DEF Own, HasData
    <3>2. QED BY <2>1, <3>1, HeldElements DEF Own
  <2>4. QED BY <2>1, <2>3, QuietStep, VersionsHeld
<1>7. CASE Journalize(p)
  <2>1. ~Pending /\ live = before[p]
    BY <1>7 DEF Journalize, IInv, QuietInv, QuietAt
  <2>2. before[p] \in SaveSets /\ after[p] \in SaveSets BY <1>1 DEF TypeOK
  <2>3. /\ journal' \in Journals
        /\ journal'.before = before[p] /\ journal'.after = after[p] /\ ~journal'.committed
    BY <1>7, <2>2 DEF Journalize, Journals
  <2>4. /\ live' = live /\ versions' = versions /\ touched' = {}
        /\ UNCHANGED <<op, before, after, data>> /\ Goto(p, "swap")
    BY <1>7 DEF Journalize
  <2>5. Pending' BY <2>3, JournalAssumption DEF Pending
  <2>6. View = live /\ View' = View
    BY <2>1, <2>2, <2>3, <2>4, <2>5 DEF View, Target, SaveSets
  <2>7. Apart(p) /\ pc'[p] = "swap" BY <1>1, <2>4 DEF TypeOK, Goto, Apart
  <2>8. HasAfter(p) BY <1>7 DEF Journalize, HasAfter, RecoverLabels, RestoreLabels
  <2>9. before[p] = View /\ after[p] \in Held BY <2>1, <2>6, <2>8, HeldElements DEF Own
  <2>10. ASSUME NEW set, Own(p, set)' PROVE set \in Held \cup {View}
    BY <2>4, <2>7, <2>9, <2>10 DEF Own, HasData
  <2>11. Held' \subseteq Held \cup {View}
    BY <2>3, <2>4, <2>7, <2>9, <2>10, HeldKept, VersionsHeld
  <2>12. QED
    BY <2>4, <2>6, <2>11 DEF Abstract!Next, Abstract!Clean, Abstract!Keep
<1>8. CASE SwapApply(p)
  <2>1. /\ Pending /\ cur[p] \in Paths /\ ~journal.committed
        /\ journal.before = before[p] /\ journal.after = after[p]
        /\ journal' = journal /\ touched' = touched /\ versions' = versions
        /\ live' = [live EXCEPT ![cur[p]] = after[p][cur[p]]]
    BY <1>8 DEF SwapApply, IInv, SwapInv, SwapAt
  <2>2. Apart(p) /\ pc'[p] = "swap" /\ UNCHANGED <<op, before, after, data>>
    BY <1>1, <1>8 DEF SwapApply, TypeOK, Goto, Apart
  <2>3. HasBefore(p) /\ HasAfter(p)
    BY <1>8 DEF SwapApply, HasBefore, HasAfter, RecoverLabels, RestoreLabels
  <2>4. before[p] \in Held /\ after[p] \in Held BY <2>3, HeldElements DEF Own
  <2>5. Held' \subseteq Held \cup {View}
    <3>1. ASSUME NEW set, Own(p, set)' PROVE set \in Held \cup {View}
      BY <2>2, <2>4, <3>1 DEF Own, HasData
    <3>2. QED BY <2>1, <2>2, <2>4, <3>1, HeldKept, VersionsHeld DEF Pending
  <2>6. live \in [Paths -> Contents \cup {Absent}] BY <1>1 DEF TypeOK, SaveSets
  <2>7. CASE cur[p] \in touched
    <3>1. View' = [View EXCEPT ![cur[p]] = after[p][cur[p]]]
      BY <2>1, <2>6, <2>7 DEF View, Pending, Target
    <3>2. QED
      BY <2>1, <2>4, <2>5, <2>7, <3>1 DEF Abstract!Next, Abstract!Overwrite, Abstract!Keep
  <2>8. CASE cur[p] \notin touched
    <3>1. View' = View BY <2>1, <2>6, <2>8 DEF View, Pending, Target
    <3>2. QED BY <2>1, <2>5, <3>1 DEF Abstract!Next, Abstract!Copy, Abstract!Keep
  <2>9. QED BY <2>7, <2>8
<1>9. CASE Commit(p)
  <2>1. /\ journal \in Journals /\ Pending
        /\ journal' = [journal EXCEPT !.committed = TRUE]
        /\ live' = live /\ touched' = touched /\ versions' = versions
    BY <1>1, <1>9 DEF Commit, IInv, SwapInv, SwapAt, TypeOK, Pending
  <2>2. /\ journal' \in Journals
        /\ journal'.before = journal.before /\ journal'.after = journal.after
        /\ journal'.committed
    BY <2>1 DEF Journals
  <2>3. Pending' BY <2>2, JournalAssumption DEF Pending
  <2>4. Apart(p) /\ \A set : ~Own(p, set)'
    BY <1>1, <1>9
    DEF Commit, EndSwap, TypeOK, Goto, Apart, Own, HasBefore, HasAfter, HasData, RecoverLabels
  <2>5. {journal.before, journal.after} \subseteq Held BY <2>1, HeldElements
  <2>6. Held' \subseteq Held \cup {View}
    BY <2>1, <2>2, <2>4, <2>5, HeldKept, VersionsHeld
  <2>7. View' = [q \in Paths |-> IF q \in touched THEN View[q] ELSE journal.after[q]]
    BY <2>1, <2>2, <2>3 DEF View, Target
  <2>8. QED
    BY <2>1, <2>5, <2>6, <2>7 DEF Abstract!Next, Abstract!Restore, Abstract!Keep
<1>10. QED BY <1>3, <1>4, <1>5, <1>6, <1>7, <1>8, <1>9 DEF RestoreStep

LEMMA WorldAbstract ==
  ASSUME IInv,
         (\E p \in Procs : Crash(p)) \/ EmulatorStarts \/ EmulatorQuits \/ Outside
  PROVE  Abstract!Next \/ UNCHANGED <<View, Held, touched>>
<1> USE DEF disk, world, copies, locals, At
<1>1. TypeOK BY DEF IInv
<1>2. ASSUME NEW p \in Procs, Crash(p) PROVE Abstract!Next
  BY <1>1, <1>2, ReturnApart, QuietStep, VersionsHeld DEF Crash
<1>3. CASE EmulatorStarts \/ EmulatorQuits
  BY <1>3
  DEF EmulatorStarts, EmulatorQuits, View, Held, Pending, Target, HasBefore, HasAfter, HasData
<1>4. CASE Outside
  <2>1. PICK q \in Paths, c \in Contents \cup {Absent} : OutsideWrite(q, c)
    BY <1>4 DEF Outside
  <2>2. live \in [Paths -> Contents \cup {Absent}] BY <1>1 DEF TypeOK, SaveSets
  <2>3. /\ live' = [live EXCEPT ![q] = c] /\ journal' = journal
        /\ touched' \in {touched, touched \cup {q}}
        /\ Pending => touched' = touched \cup {q}
    BY <2>1 DEF OutsideWrite, Watched
  <2>4. View' = [View EXCEPT ![q] = c]
    BY <2>2, <2>3 DEF View, Pending, Target
  <2>5. Held' = Held
    BY <2>1 DEF OutsideWrite, Held, Pending, HasBefore, HasAfter, HasData
  <2>6. QED BY <2>3, <2>4, <2>5 DEF Abstract!Next, Abstract!Play
<1>5. QED BY <1>2, <1>3, <1>4

-----------------------------------------------------------------------------
\* Every behaviour of the store is one of the abstract specification.
THEOREM Refinement == Spec => ImplementsAtomicSaves
<1>1. Init => Abstract!Init
  <2>1. ASSUME Init PROVE Held = {}
    BY <2>1
    DEF Init, Held, Pending, HasBefore, HasAfter, HasData, At, RecoverLabels, RestoreLabels
  <2>2. ASSUME Init PROVE View = live /\ touched = {}
    BY <2>2 DEF Init, View, Pending
  <2>3. ASSUME Init PROVE live \in Abstract!SaveSets
    BY <2>3 DEF Init, SaveSets, Abstract!SaveSets
  <2>4. QED BY <2>1, <2>2, <2>3 DEF Abstract!Init
<1>2. ASSUME IInv, [Next]_vars PROVE [Abstract!Next]_<<View, Held, touched>>
  <2>1. ASSUME NEW p \in Procs, Ask(p) \/ Step(p) PROVE Abstract!Next
    BY <1>2, <2>1, AskAbstract, RecoverAbstract, SnapshotAbstract, OtherAbstract,
       RestoreAbstract
    DEF Step
  <2>2. CASE (\E p \in Procs : Crash(p)) \/ EmulatorStarts \/ EmulatorQuits \/ Outside
    BY <1>2, <2>2, WorldAbstract
  <2>3. CASE UNCHANGED vars
    BY <2>3
    DEF vars, disk, world, copies, locals, View, Held, Pending, Target, HasBefore, HasAfter,
        HasData, At
  <2>4. QED BY <1>2, <2>1, <2>2, <2>3 DEF Next
<1>3. QED
  BY <1>1, <1>2, Invariance, PTL
  DEF Spec, ImplementsAtomicSaves, Abstract!Spec, Abstract!avars
=============================================================================
