------------------------ MODULE GuideAndGameModeProofs ------------------------
\* What workers that run at once keep to: the guards of the guide, and the
\* threads of Game Mode.
\*
\* Of the pause of a process tree: a process the player had stopped is
\* never resumed, for any number of processes and of guards, also when
\* guards of several openings of the guide are at work at once; and what
\* the card calls paused is frozen, when no two guards are.
\*
\* Of GuideListener: a press it reports was short, after the node was
\* armed, and alone, however late and from however many nodes it reads;
\* and one press of the player's is told once, if nobody is too late.
\*
\* Of GameModeSession: the operations of the controller run one at a time,
\* and what they do to the session is what GameModeOperations allows.
EXTENDS GuidePause, GuideListener, GameModeSession, FiniteSetTheorems, SequenceTheorems, WellFoundedInduction,
        TLAPS

States == {"none", "run", "stopping", "stopped", "zombie", "gone"}
ProcRecord == [state : States, parent : Procs \cup {Init1}]
Message == [kind : {"pin"}, proc : Procs] \cup [kind : {"ok", "failed"}]
Places ==
  {"off", "starting", "idle", "anr", "add", "pin", "stop", "settle", "visit", "release", "ended"}

GuardRecord ==
  [pc : Places, owned : SUBSET Procs, round : Int, todo : SUBSET Procs, target : Procs \cup {NoProc},
   added : BOOLEAN, in : Seq({"pause", "pin-ok"}), eof : BOOLEAN, out : Seq(Message)]

OwnerRecord ==
  [alive : BOOLEAN, open : BOOLEAN, wants : BOOLEAN, guard : Guards \cup {NoGuard}, paused : BOOLEAN,
   tree : SUBSET Procs]

UserRecord == [before : SUBSET Procs, after : SUBSET Procs, left : SUBSET Procs]

Types ==
  /\ proc \in [Procs -> ProcRecord]
  /\ user \in UserRecord
  /\ guard \in [Guards -> GuardRecord]
  /\ owner \in OwnerRecord

\* A process that the player had stopped is neither stopped by a guard nor
\* about to be: it is none of those that a guard owns, works on, or has
\* reported, nor of those Omakade has pinned.
ReportsNot(unsaid, p) == \A i \in 1 .. Len(unsaid) : unsaid[i] # [kind |-> "pin", proc |-> p]

LeftAlone(p) ==
  /\ proc[p].state \in {"stopped", "zombie", "gone"}
  /\ p \notin owner.tree
  /\ \A g \in Guards :
       /\ p \notin guard[g].owned /\ ReportsNot(guard[g].out, p)
       /\ guard[g].pc \in {"pin", "stop"} => guard[g].target # p

\* The process a guard is about to report, has reported or is to stop.
Aimed(pc, target) == pc \in {"add", "pin", "stop"} => target \in Procs

PlayersInv ==
  /\ Types
  /\ \A p \in user.before : LeftAlone(p)
  /\ \A g \in Guards : Aimed(guard[g].pc, guard[g].target)

-----------------------------------------------------------------------------
\* What a guard has still to say, when it says more or is heard.
LEMMA Reports ==
  ASSUME NEW unsaid \in Seq(Message), NEW p
  PROVE  /\ \A m \in Message : ReportsNot(unsaid, p) /\ m # [kind |-> "pin", proc |-> p]
              => Append(unsaid, m) \in Seq(Message) /\ ReportsNot(Append(unsaid, m), p)
         /\ unsaid # <<>> /\ ReportsNot(unsaid, p)
              => /\ Tail(unsaid) \in Seq(Message) /\ ReportsNot(Tail(unsaid), p)
                 /\ Head(unsaid) \in Message /\ Head(unsaid) # [kind |-> "pin", proc |-> p]
<1>1. ASSUME NEW m \in Message, ReportsNot(unsaid, p), m # [kind |-> "pin", proc |-> p]
      PROVE  Append(unsaid, m) \in Seq(Message) /\ ReportsNot(Append(unsaid, m), p)
  BY <1>1, AppendProperties DEF ReportsNot
<1>2. ASSUME unsaid # <<>>, ReportsNot(unsaid, p)
      PROVE  /\ Tail(unsaid) \in Seq(Message) /\ ReportsNot(Tail(unsaid), p)
             /\ Head(unsaid) \in Message /\ Head(unsaid) # [kind |-> "pin", proc |-> p]
  <2>1. /\ Tail(unsaid) \in Seq(Message) /\ Len(Tail(unsaid)) = Len(unsaid) - 1 /\ Len(unsaid) \in Nat
        /\ \A i \in 1 .. Len(Tail(unsaid)) : Tail(unsaid)[i] = unsaid[i + 1]
        /\ Head(unsaid) \in Message /\ Head(unsaid) = unsaid[1] /\ Len(unsaid) >= 1
    BY <1>2, HeadTailProperties, EmptySeq
  <2> QED BY <1>2, <2>1 DEF ReportsNot
<1> QED BY <1>1, <1>2

\* A CONT to processes that the player did not stop.
LEMMA ContinuedKeeps ==
  ASSUME Types, NEW S \in SUBSET Procs, \A p \in user.before : proc[p].state \in {"stopped", "zombie", "gone"},
         S \cap user.before = {}
  PROVE  /\ Continued(S) \in [Procs -> ProcRecord]
         /\ \A p \in user.before : Continued(S)[p].state \in {"stopped", "zombie", "gone"}
BY DEF Continued, Types, ProcRecord, States, UserRecord

\* A step of a guard g that stops and resumes nothing the player stopped
\* before, which may leave processes stopped.
LEMMA GuardLeaves ==
  ASSUME PlayersInv, NEW g \in Guards, NEW new \in GuardRecord,
         guard' = [guard EXCEPT ![g] = new], UNCHANGED owner,
         user' \in UserRecord, user'.before = user.before,
         proc' \in [Procs -> ProcRecord],
         \A p \in user.before : proc'[p].state \in {"stopped", "zombie", "gone"},
         \A p \in user.before : p \notin new.owned /\ ReportsNot(new.out, p),
         \A p \in user.before : new.pc \in {"pin", "stop"} => new.target # p,
         Aimed(new.pc, new.target)
  PROVE  PlayersInv'
<1>1. guard' \in [Guards -> GuardRecord]
  BY DEF PlayersInv, Types
<1>2. \A h \in Guards : guard'[h] = IF h = g THEN new ELSE guard[h]
  BY DEF PlayersInv, Types
<1> QED BY <1>1, <1>2 DEF PlayersInv, Types, LeftAlone, Aimed

LEMMA GuardStep ==
  ASSUME PlayersInv, NEW g \in Guards, NEW new \in GuardRecord,
         guard' = [guard EXCEPT ![g] = new], UNCHANGED <<user, owner>>,
         proc' \in [Procs -> ProcRecord],
         \A p \in user.before : proc'[p].state \in {"stopped", "zombie", "gone"},
         \A p \in user.before : p \notin new.owned /\ ReportsNot(new.out, p),
         \A p \in user.before : new.pc \in {"pin", "stop"} => new.target # p,
         Aimed(new.pc, new.target)
  PROVE  PlayersInv'
<1>1. user' \in UserRecord /\ user'.before = user.before
  BY DEF PlayersInv, Types
<1> QED BY <1>1, GuardLeaves

\* The player has stopped nothing at the start.
LEMMA PlayersInit == PauseInit => PlayersInv
<1> SUFFICES ASSUME PauseInit PROVE PlayersInv
  OBVIOUS
<1>1. IdleGuard \in GuardRecord
  <2>1. <<>> \in Seq({"pause", "pin-ok"}) /\ <<>> \in Seq(Message)
    OBVIOUS
  <2> QED BY <2>1 DEF IdleGuard, GuardRecord, Places, NoProc
<1>2. proc \in [Procs -> ProcRecord]
  BY DEF PauseInit, ProcRecord, States
<1> QED BY <1>1, <1>2 DEF PauseInit, PlayersInv, Types, OwnerRecord, UserRecord, IdleGuard, Aimed

\* One step per action; what a guard says or asks for is spelt out where
\* it matters, the rest does not touch what the player stopped.
LEMMA PlayersNext == PlayersInv /\ [PauseNext]_pauseVars => PlayersInv'
<1> SUFFICES ASSUME PlayersInv, [PauseNext]_pauseVars PROVE PlayersInv'
  OBVIOUS
<1>0. /\ Types /\ (\A p \in user.before : LeftAlone(p)) /\ user \in UserRecord /\ user.before \in SUBSET Procs
      /\ \A g \in Guards : Aimed(guard[g].pc, guard[g].target)
  BY DEF PlayersInv, Types, UserRecord
<1>a. IdleGuard \in GuardRecord /\ IdleGuard.owned = {} /\ \A p : ReportsNot(IdleGuard.out, p)
  <2>1. <<>> \in Seq({"pause", "pin-ok"}) /\ <<>> \in Seq(Message)
    OBVIOUS
  <2> QED BY <2>1 DEF IdleGuard, GuardRecord, Places, NoProc, ReportsNot
<1>b. \A g \in Guards : guard[g] \in GuardRecord
  BY <1>0 DEF Types
<1>c. /\ proc \in [Procs -> ProcRecord]
      /\ \A p \in user.before : proc[p].state \in {"stopped", "zombie", "gone"}
  BY <1>0 DEF Types, LeftAlone
<1>d. \A g \in Guards, p \in user.before :
        /\ p \notin guard[g].owned /\ ReportsNot(guard[g].out, p)
        /\ guard[g].pc \in {"pin", "stop"} => guard[g].target # p
  BY <1>0 DEF LeftAlone
<1>e. \A g \in Guards :
        /\ Continued(guard[g].owned) \in [Procs -> ProcRecord]
        /\ \A p \in user.before : Continued(guard[g].owned)[p].state \in {"stopped", "zombie", "gone"}
  <2> TAKE g \in Guards
  <2>1. guard[g].owned \in SUBSET Procs /\ guard[g].owned \cap user.before = {}
    BY <1>b, <1>d DEF GuardRecord
  <2> QED BY <1>0, <1>c, <2>1, ContinuedKeeps
<1>f. /\ Continued(owner.tree) \in [Procs -> ProcRecord]
      /\ \A p \in user.before : Continued(owner.tree)[p].state \in {"stopped", "zombie", "gone"}
  <2>1. owner.tree \in SUBSET Procs /\ owner.tree \cap user.before = {}
    BY <1>0 DEF Types, OwnerRecord, LeftAlone
  <2> QED BY <1>0, <1>c, <2>1, ContinuedKeeps
<1>g. [kind |-> "ok"] \in Message /\ [kind |-> "failed"] \in Message
      /\ \A p : [kind |-> "ok"] # [kind |-> "pin", proc |-> p] /\ [kind |-> "failed"] # [kind |-> "pin", proc |-> p]
  BY DEF Message
<1>1. CASE Game
  <2>1. UNCHANGED <<guard, owner>>
    BY <1>1 DEF Game, Fork, StopTakes, Exit, Collect, PlayerStops
  <2>2. ASSUME NEW p \in Procs, Fork(p) PROVE PlayersInv'
    <3>1. PICK q \in Procs : proc[q].state = "none" /\ proc' = [proc EXCEPT ![q] = [state |-> "run", parent |-> p]]
      <4>1. PICK q \in Procs : /\ \A r \in Procs : proc[r].state = "none" <=> r >= q
                              /\ proc' = [proc EXCEPT ![q] = [state |-> "run", parent |-> p]]
        BY <2>2 DEF Fork
      <4>2. q >= q
        BY <4>1, ConstantsAssumption DEF Procs
      <4>3. proc[q].state = "none"
        BY <4>1, <4>2
      <4> QED BY <4>1, <4>3
    <3>2. q \notin user.before
      BY <1>c, <3>1
    <3>3. [state |-> "run", parent |-> p] \in ProcRecord
      BY DEF ProcRecord, States
    <3>4. proc' \in [Procs -> ProcRecord] /\ user' = user /\ \A r \in user.before : proc'[r] = proc[r]
      BY <1>0, <1>c, <2>2, <3>1, <3>2, <3>3 DEF Fork
    <3> QED BY <1>0, <2>1, <3>4 DEF PlayersInv, Types, LeftAlone
  <2>3. ASSUME NEW p \in Procs, StopTakes(p) \/ Collect(p) PROVE PlayersInv'
    <3>1. /\ proc' \in [Procs -> ProcRecord] /\ user' = user
          /\ \A r \in user.before : proc'[r].state \in {"stopped", "zombie", "gone"}
      BY <1>0, <1>c, <2>3 DEF StopTakes, Collect, ProcRecord, States
    <3> QED BY <1>0, <2>1, <3>1 DEF PlayersInv, Types, LeftAlone
  <2>4. ASSUME NEW p \in Procs, Exit(p) PROVE PlayersInv'
    <3> DEFINE after(q) ==
          IF q = p THEN [proc[p] EXCEPT !.state = IF proc[p].parent = Init1 THEN "gone" ELSE "zombie"]
          ELSE IF proc[q].parent = p
          THEN [state |-> IF proc[q].state = "zombie" THEN "gone" ELSE proc[q].state, parent |-> Init1]
          ELSE proc[q]
    <3>1. proc' = [q \in Procs |-> after(q)] /\ user' = user
      BY <2>4 DEF Exit
    <3>2. \A q \in Procs : after(q) \in ProcRecord
      BY <1>c DEF ProcRecord, States
    <3>3. \A q \in user.before : after(q).state \in {"stopped", "zombie", "gone"}
      BY <1>0, <1>c DEF ProcRecord
    <3>4. /\ proc' \in [Procs -> ProcRecord]
          /\ \A r \in user.before : proc'[r].state \in {"stopped", "zombie", "gone"}
      <4> HIDE DEF after
      <4> QED BY <1>0, <3>1, <3>2, <3>3
    <3> HIDE DEF after
    <3> QED BY <1>0, <2>1, <3>1, <3>4 DEF PlayersInv, Types, LeftAlone
  <2>5. ASSUME NEW p \in Procs, PlayerStops(p) PROVE PlayersInv'
    <3>1. proc' \in [Procs -> ProcRecord] /\ proc'[p].state = "stopped"
          /\ \A r \in Procs \ {p} : proc'[r] = proc[r]
      BY <1>c, <2>5 DEF PlayerStops, ProcRecord, States
    <3>2. CASE LookedAt(p)
      <4>1. user' \in UserRecord /\ user'.before = user.before
        BY <1>0, <2>5, <3>2 DEF PlayerStops, UserRecord
      <4> QED BY <1>0, <2>1, <3>1, <4>1 DEF PlayersInv, Types, LeftAlone, UserRecord
    <3>3. CASE ~LookedAt(p)
      <4>1. user' \in UserRecord /\ user'.before = user.before \cup {p}
        BY <1>0, <2>5, <3>3 DEF PlayerStops, UserRecord
      <4>2. \A g \in Guards : /\ p \notin guard[g].owned /\ ReportsNot(guard[g].out, p)
                              /\ guard[g].pc \in {"pin", "stop"} => guard[g].target # p
        BY <1>b, <3>3 DEF LookedAt, ReportsNot, GuardRecord
      <4>3. LeftAlone(p)'
        BY <2>1, <3>1, <3>3, <4>2 DEF LeftAlone, LookedAt
      <4>4. ASSUME NEW q \in user.before \ {p} PROVE LeftAlone(q)'
        BY <1>0, <2>1, <3>1, <4>4 DEF LeftAlone
      <4> QED BY <1>0, <2>1, <3>1, <4>1, <4>3, <4>4 DEF PlayersInv, Types
    <3> QED BY <3>2, <3>3
  <2> QED BY <1>1, <2>2, <2>3, <2>4, <2>5 DEF Game
<1>2. ASSUME NEW g \in Guards, Works(g) PROVE PlayersInv'
  <2> DEFINE old == guard[g]
  <2>0. /\ old \in GuardRecord /\ \A p \in user.before : p \notin old.owned /\ ReportsNot(old.out, p)
        /\ \A p \in user.before : old.pc \in {"pin", "stop"} => old.target # p
    BY <1>b, <1>d
  <2>a. /\ old.in \in Seq({"pause", "pin-ok"}) /\ old.out \in Seq(Message)
        /\ (old.in # <<>> => Tail(old.in) \in Seq({"pause", "pin-ok"}))
    BY <2>0, HeadTailProperties DEF GuardRecord
  <2>b. \A b \in BOOLEAN : Say(g, b) \in Seq(Message) /\ \A p \in user.before : ReportsNot(Say(g, b), p)
    <3> TAKE b \in BOOLEAN
    <3> DEFINE said == [kind |-> IF b THEN "ok" ELSE "failed"]
    <3>1. said \in Message /\ \A p : said # [kind |-> "pin", proc |-> p]
      BY DEF Message
    <3>2. Say(g, b) = Append(old.out, said)
      BY DEF Say
    <3> HIDE DEF said
    <3>3. Append(old.out, said) \in Seq(Message)
      BY <2>a, <3>1, AppendProperties
    <3> QED BY <2>0, <2>a, <3>1, <3>2, <3>3, Reports
  <2>1. ASSUME Fails(g), UNCHANGED <<user, owner>> PROVE PlayersInv'
    <3> DEFINE new == [IdleGuard EXCEPT !.pc = "idle", !.in = guard[g].in, !.eof = guard[g].eof, !.out = Say(g, FALSE)]
    <3>1. /\ new \in GuardRecord /\ new.owned = {} /\ new.out = Say(g, FALSE) /\ new.pc = "idle"
      BY <1>a, <2>0, <2>a, <2>b DEF GuardRecord, Places
    <3>2. proc' = Continued(guard[g].owned) /\ guard' = [guard EXCEPT ![g] = new]
      BY <2>1 DEF Fails
    <3> HIDE DEF new
    <3> QED BY <1>e, <2>1, <2>b, <3>1, <3>2, GuardStep DEF Aimed
  <2>2. CASE Request(g)
    <3>1. CASE Head(guard[g].in) = "pause"
      <4> DEFINE new == [old EXCEPT !.in = Tail(@), !.owned = {}, !.pc = "anr"]
      <4>1. new \in GuardRecord /\ new.owned = {} /\ new.out = old.out /\ new.pc = "anr"
        BY <2>0, <2>2, <2>a DEF Request, GuardRecord, Places
      <4>2. proc' = Continued(guard[g].owned) /\ guard' = [guard EXCEPT ![g] = new] /\ UNCHANGED <<user, owner>>
        BY <1>0, <2>2, <3>1 DEF Request, Types
      <4> HIDE DEF new
      <4> QED BY <1>e, <2>0, <4>1, <4>2, GuardStep DEF Aimed
    <3>2. CASE Head(guard[g].in) # "pause"
      <4> DEFINE new == [old EXCEPT !.in = Tail(@), !.out = Say(g, FALSE)]
      <4>1. /\ new \in GuardRecord /\ new.owned = old.owned /\ new.out = Say(g, FALSE) /\ new.pc = "idle"
        BY <2>0, <2>2, <2>a, <2>b DEF Request, GuardRecord, Places
      <4>2. proc' = proc /\ guard' = [guard EXCEPT ![g] = new] /\ UNCHANGED <<user, owner>>
        BY <1>0, <2>2, <3>2 DEF Request, Types
      <4> HIDE DEF new
      <4> QED BY <1>c, <2>0, <2>b, <4>1, <4>2, GuardStep DEF Aimed
    <3> QED BY <3>1, <3>2
  <2>3. CASE Begin(g)
    <3>1. CASE Fails(g)
      BY <2>1, <2>3, <3>1 DEF Begin
    <3>2. CASE guard' = [guard EXCEPT ![g].pc = "add", ![g].target = Root, ![g].round = 0] /\ proc' = proc
      <4> DEFINE first == 0
                 new == [old EXCEPT !.pc = "add", !.target = Root, !.round = first]
      <4>1. /\ new \in GuardRecord /\ new.owned = old.owned /\ new.out = old.out /\ new.pc = "add"
            /\ new.target \in Procs
        <5>1. Root \in Procs
          BY ConstantsAssumption DEF Root, Procs
        <5>2. first \in Int
          OBVIOUS
        <5> HIDE DEF first
        <5> QED BY <2>0, <5>1, <5>2 DEF GuardRecord, Places
      <4>2. guard' = [guard EXCEPT ![g] = new] /\ UNCHANGED <<proc, user, owner>>
        BY <1>0, <2>3, <3>2 DEF Begin, Types
      <4> HIDE DEF new
      <4> QED BY <1>c, <2>0, <4>1, <4>2, GuardStep DEF Aimed
    <3> QED BY <2>3, <3>1, <3>2 DEF Begin
  <2>4. CASE Add(g)
    <3>1. CASE ~Addable(old.target)
      BY <2>1, <2>4, <3>1 DEF Add
    <3>2. CASE Addable(old.target)
      <4> DEFINE m == [kind |-> "pin", proc |-> old.target]
                 new == [old EXCEPT !.pc = "pin", !.out = Append(@, m)]
      <4>1. old.target \in Procs /\ old.target \notin user.before
        <5>1. old.target \in Procs
          BY <1>0, <2>4 DEF Add, Aimed
        <5> QED BY <1>c, <3>2, <5>1 DEF Addable
      <4>2. m \in Message /\ \A p \in user.before : m # [kind |-> "pin", proc |-> p]
        BY <4>1 DEF Message
      <4>3. Append(old.out, m) \in Seq(Message) /\ \A p \in user.before : ReportsNot(Append(old.out, m), p)
        <5> HIDE DEF m
        <5>1. Append(old.out, m) \in Seq(Message)
          BY <2>a, <4>2, AppendProperties
        <5> QED BY <2>0, <2>a, <4>2, <5>1, Reports
      <4>4. /\ new \in GuardRecord /\ new.owned = old.owned /\ new.out = Append(old.out, m)
            /\ new.target = old.target /\ new.pc = "pin"
        <5> HIDE DEF m
        <5> QED BY <2>0, <4>3 DEF GuardRecord, Places
      <4>5. proc' = proc /\ guard' = [guard EXCEPT ![g] = new] /\ UNCHANGED <<user, owner>>
        BY <1>0, <2>4, <3>2 DEF Add, Types
      <4> HIDE DEF new, m
      <4> QED BY <1>c, <2>0, <4>1, <4>3, <4>4, <4>5, GuardStep DEF Aimed
    <3> QED BY <3>1, <3>2
  <2>5. CASE Pinned(g)
    <3>1. CASE guard[g].in = <<>>
      BY <2>1, <2>5, <3>1 DEF Pinned
    <3>2. CASE guard[g].in # <<>>
      <4> DEFINE new == [old EXCEPT !.in = Tail(@), !.pc = "stop"]
      <4>1. new \in GuardRecord /\ new.owned = old.owned /\ new.out = old.out /\ new.target = old.target
        BY <2>0, <2>a, <3>2 DEF GuardRecord, Places
      <4>2. /\ proc' = proc /\ guard' = [guard EXCEPT ![g] = new] /\ UNCHANGED <<user, owner>>
            /\ old.pc = "pin"
        BY <1>0, <2>5, <3>2 DEF Pinned, Types
      <4>3. new.target \in Procs
        BY <1>0, <4>1, <4>2 DEF Aimed
      <4> HIDE DEF new
      <4> QED BY <1>c, <2>0, <4>1, <4>2, <4>3, GuardStep DEF Aimed
    <3> QED BY <3>1, <3>2
  <2>6. CASE Stop(g)
    <3>1. CASE ~Exists(old.target)
      BY <2>1, <2>6, <3>1 DEF Stop
    <3>2. CASE Exists(old.target)
      <4> DEFINE p == old.target
                 new == [old EXCEPT !.owned = @ \cup {p}, !.target = NoProc, !.added = TRUE,
                                    !.pc = IF p = Root THEN "settle" ELSE "visit"]
      <4>1. old.pc = "stop" /\ p \notin user.before
        BY <2>0, <2>6 DEF Stop
      <4>2. p \in Procs
        BY <1>0, <4>1 DEF Aimed
      <4>3. /\ new \in GuardRecord /\ new.owned = old.owned \cup {p} /\ new.out = old.out
            /\ new.pc \in {"settle", "visit"}
        BY <2>0, <4>2 DEF GuardRecord, Places
      <4>4. /\ proc' = [proc EXCEPT ![p].state = IF @ = "run" THEN "stopping" ELSE @]
            /\ guard' = [guard EXCEPT ![g] = new] /\ UNCHANGED <<user, owner>>
        BY <1>0, <2>6, <3>2 DEF Stop, Types
      <4>5. proc' \in [Procs -> ProcRecord] /\ \A q \in user.before : proc'[q].state \in {"stopped", "zombie", "gone"}
        <5> HIDE DEF p
        <5> QED BY <1>0, <1>c, <4>1, <4>2, <4>4 DEF ProcRecord, States
      <4> HIDE DEF new
      <4> QED BY <2>0, <4>1, <4>3, <4>4, <4>5, GuardStep DEF Aimed
    <3> QED BY <3>1, <3>2
  <2>7. ASSUME NextRound(g), UNCHANGED <<user, owner>> PROVE PlayersInv'
    <3>1. CASE guard' = [guard EXCEPT ![g].round = @ + 1, ![g].pc = "settle"] /\ proc' = proc
      <4> DEFINE round == old.round + 1
                 new == [old EXCEPT !.round = round, !.pc = "settle"]
      <4>1. new \in GuardRecord /\ new.owned = old.owned /\ new.out = old.out /\ new.pc = "settle"
        <5>1. round \in Int
          BY <2>0 DEF GuardRecord
        <5> HIDE DEF round
        <5> QED BY <2>0, <5>1 DEF GuardRecord, Places
      <4>2. guard' = [guard EXCEPT ![g] = new]
        BY <1>0, <3>1 DEF Types
      <4> HIDE DEF new
      <4> QED BY <1>c, <2>0, <2>7, <3>1, <4>1, <4>2, GuardStep DEF Aimed
    <3> QED BY <2>1, <2>7, <3>1 DEF NextRound
  <2>8. CASE Settle(g)
    <3>1. CASE ~SeenStopped(g)
      BY <2>7, <2>8, <3>1 DEF Settle
    <3>2. CASE SeenStopped(g)
      <4> DEFINE listed == {p \in Procs : Exists(p)} \ guard[g].owned
                 new == [old EXCEPT !.pc = "visit", !.added = FALSE, !.todo = listed]
      <4>1. new \in GuardRecord /\ new.owned = old.owned /\ new.out = old.out /\ new.pc = "visit"
        <5>1. listed \in SUBSET Procs
          OBVIOUS
        <5> HIDE DEF listed
        <5> QED BY <2>0, <5>1 DEF GuardRecord, Places
      <4>2. guard' = [guard EXCEPT ![g] = new] /\ UNCHANGED <<proc, user, owner>>
        BY <1>0, <2>8, <3>2 DEF Settle, Types
      <4> HIDE DEF new
      <4> QED BY <1>c, <2>0, <4>1, <4>2, GuardStep DEF Aimed
    <3> QED BY <3>1, <3>2
  <2>9. CASE Visit(g)
    <3>1. PICK p \in guard[g].todo :
            guard' = [guard EXCEPT ![g].todo = @ \ {p},
                                   ![g].target = IF Exists(p) /\ proc[p].parent \in guard[g].owned THEN p ELSE @,
                                   ![g].pc = IF Exists(p) /\ proc[p].parent \in guard[g].owned THEN "add" ELSE @]
      BY <2>9 DEF Visit
    <3> DEFINE child == Exists(p) /\ proc[p].parent \in guard[g].owned
               new == [old EXCEPT !.todo = @ \ {p}, !.target = IF child THEN p ELSE @, !.pc = IF child THEN "add" ELSE @]
    <3>2. /\ new \in GuardRecord /\ new.owned = old.owned /\ new.out = old.out
          /\ new.pc \in {"visit", "add"} /\ (new.pc = "add" => new.target \in Procs)
      <4>1. p \in Procs /\ old.pc = "visit"
        BY <2>0, <2>9 DEF Visit, GuardRecord
      <4> HIDE DEF child
      <4> QED BY <2>0, <4>1 DEF GuardRecord, Places
    <3>3. guard' = [guard EXCEPT ![g] = new] /\ UNCHANGED <<proc, user, owner>>
      BY <1>0, <2>9, <3>1 DEF Visit, Types
    <3> HIDE DEF new
    <3> QED BY <1>c, <2>0, <3>2, <3>3, GuardStep DEF Aimed
  <2>10. CASE Visited(g)
    <3>1. CASE guard[g].added
      BY <2>7, <2>10, <3>1 DEF Visited
    <3>2. CASE ~guard[g].added
      <4> DEFINE new == [old EXCEPT !.pc = "idle", !.out = Say(g, TRUE)]
      <4>1. new \in GuardRecord /\ new.owned = old.owned /\ new.out = Say(g, TRUE) /\ new.pc = "idle"
        BY <2>0, <2>b DEF GuardRecord, Places
      <4>2. guard' = [guard EXCEPT ![g] = new] /\ UNCHANGED <<proc, user, owner>>
        BY <1>0, <2>10, <3>2 DEF Visited, Types
      <4> HIDE DEF new
      <4> QED BY <1>c, <2>0, <2>b, <4>1, <4>2, GuardStep DEF Aimed
    <3> QED BY <3>1, <3>2
  <2>11. CASE Eof(g)
    <3> DEFINE new == [old EXCEPT !.owned = {}, !.pc = "release"]
    <3>1. new \in GuardRecord /\ new.owned = {} /\ new.out = old.out /\ new.pc = "release"
      BY <2>0 DEF GuardRecord, Places
    <3>2. proc' = Continued(guard[g].owned) /\ guard' = [guard EXCEPT ![g] = new] /\ UNCHANGED <<user, owner>>
      BY <1>0, <2>11 DEF Eof, Types
    <3> HIDE DEF new
    <3> QED BY <1>e, <2>0, <3>1, <3>2, GuardStep DEF Aimed
  <2>12. CASE End(g)
    <3> DEFINE new == [IdleGuard EXCEPT !.pc = "ended", !.out = guard[g].out]
    <3>1. new \in GuardRecord /\ new.owned = {} /\ new.out = old.out /\ new.pc = "ended"
      BY <1>a, <2>0 DEF GuardRecord, Places
    <3>2. guard' = [guard EXCEPT ![g] = new] /\ UNCHANGED <<proc, user, owner>>
      BY <2>12 DEF End
    <3> HIDE DEF new
    <3> QED BY <1>c, <2>0, <3>1, <3>2, GuardStep DEF Aimed
  <2>13. CASE Started(g)
    <3>1. CASE guard' = [guard EXCEPT ![g].pc = "ended"]
      <4> DEFINE new == [old EXCEPT !.pc = "ended"]
      <4>1. new \in GuardRecord /\ new.owned = old.owned /\ new.out = old.out /\ new.pc = "ended"
        BY <2>0 DEF GuardRecord, Places
      <4>2. guard' = [guard EXCEPT ![g] = new] /\ UNCHANGED <<proc, user, owner>>
        BY <1>0, <2>13, <3>1 DEF Started, Types
      <4> HIDE DEF new
      <4> QED BY <1>c, <2>0, <4>1, <4>2, GuardStep DEF Aimed
    <3>2. CASE guard' = [guard EXCEPT ![g].pc = "idle", ![g].in = IF ReliedOn(g) THEN <<"pause">> ELSE <<>>,
                                      ![g].eof = ~ReliedOn(g)]
      <4> DEFINE pins == IF ReliedOn(g) THEN <<"pause">> ELSE <<>>
                 eof == ~ReliedOn(g)
                 new == [old EXCEPT !.pc = "idle", !.in = pins, !.eof = eof]
      <4>1. pins \in Seq({"pause", "pin-ok"}) /\ eof \in BOOLEAN
        <5>1. CASE ReliedOn(g)
          BY <5>1
        <5>2. CASE ~ReliedOn(g)
          BY <5>2
        <5> QED BY <5>1, <5>2
      <4>2. new \in GuardRecord /\ new.owned = old.owned /\ new.out = old.out /\ new.pc = "idle"
        <5> HIDE DEF pins, eof
        <5> QED BY <2>0, <4>1 DEF GuardRecord, Places
      <4>3. guard' = [guard EXCEPT ![g] = new] /\ UNCHANGED <<proc, user, owner>>
        BY <1>0, <2>13, <3>2 DEF Started, Types
      <4> HIDE DEF new
      <4> QED BY <1>c, <2>0, <4>2, <4>3, GuardStep DEF Aimed
    <3> QED BY <2>13, <3>1, <3>2 DEF Started
  <2> QED BY <1>2, <2>2, <2>3, <2>4, <2>5, <2>6, <2>8, <2>9, <2>10, <2>11, <2>12, <2>13 DEF Works
<1>3. ASSUME NEW g \in Guards, GuardDies(g) PROVE PlayersInv'
  <2> DEFINE new == [IdleGuard EXCEPT !.pc = "ended", !.out = guard[g].out]
             left == {p \in guard[g].owned : ~ReliedOn(g) /\ proc[p].state \in {"stopping", "stopped"}}
  <2>1. new \in GuardRecord /\ new.owned = {} /\ new.out = guard[g].out /\ new.pc = "ended"
    BY <1>a, <1>b DEF GuardRecord, Places
  <2>2. guard' = [guard EXCEPT ![g] = new] /\ UNCHANGED <<proc, owner>> /\ user' = [user EXCEPT !.left = left]
    BY <1>3 DEF GuardDies
  <2>3. left \in SUBSET Procs
    BY <1>b DEF GuardRecord
  <2> HIDE DEF new, left
  <2>4. user' \in UserRecord /\ user'.before = user.before
    BY <1>0, <2>2, <2>3 DEF UserRecord
  <2> QED BY <1>c, <1>d, <2>1, <2>2, <2>4, GuardLeaves DEF Aimed
<1>4. ASSUME NEW next \in OwnerRecord, StopGuard(next), user' = user PROVE PlayersInv'
  <2>1. owner' \in OwnerRecord /\ owner'.tree = {}
    BY <1>4 DEF StopGuard, OwnerRecord
  <2> DEFINE Ended(r) == [r EXCEPT !.eof = TRUE]
  <2>5. ASSUME NEW r \in GuardRecord
        PROVE  /\ Ended(r) \in GuardRecord /\ Ended(r).owned = r.owned /\ Ended(r).out = r.out
               /\ Ended(r).pc = r.pc /\ Ended(r).target = r.target
    BY DEF GuardRecord
  <2>6. guard' = [g \in Guards |-> IF g = owner.guard THEN Ended(guard[g]) ELSE guard[g]]
    BY <1>4 DEF StopGuard
  <2> HIDE DEF Ended
  <2>2. guard' \in [Guards -> GuardRecord]
    BY <1>b, <2>5, <2>6
  <2>3. \A g \in Guards : /\ guard'[g].owned = guard[g].owned /\ guard'[g].out = guard[g].out
                          /\ guard'[g].pc = guard[g].pc /\ guard'[g].target = guard[g].target
    BY <1>b, <2>5, <2>6
  <2>4. proc' = Continued(owner.tree)
    BY <1>4 DEF StopGuard
  <2> QED BY <1>0, <1>4, <1>d, <1>f, <2>1, <2>2, <2>3, <2>4 DEF PlayersInv, Types, LeftAlone
<1>5. ASSUME NEW g \in Guards, Finished(g) PROVE PlayersInv'
  <2>1. [owner EXCEPT !.wants = FALSE, !.open = @ /\ ~owner.paused] \in OwnerRecord
    BY <1>0 DEF Types, OwnerRecord
  <2> QED BY <1>4, <1>5, <2>1 DEF Finished
<1>6. CASE TooLong \/ GameEnded
  <2>1. [owner EXCEPT !.wants = FALSE] \in OwnerRecord
    BY <1>0 DEF Types, OwnerRecord
  <2> QED BY <1>4, <1>6, <2>1 DEF TooLong, GameEnded, Failed
<1>7. CASE Close
  <2>1. [owner EXCEPT !.open = FALSE] \in OwnerRecord
    BY <1>0 DEF Types, OwnerRecord
  <2> QED BY <1>4, <1>7, <2>1 DEF Close
<1>8. CASE Open
  <2>1. UNCHANGED <<proc, user>>
    BY <1>8 DEF Open
  <2>2. owner' \in OwnerRecord /\ owner'.tree = owner.tree
    BY <1>0, <1>8 DEF Open, Types, OwnerRecord
  <2>3. CASE guard' = guard
    BY <1>0, <2>1, <2>2, <2>3 DEF PlayersInv, Types, LeftAlone
  <2>4. ASSUME NEW g \in Guards, guard[g].pc = "off", guard' = [guard EXCEPT ![g].pc = "starting"]
        PROVE  PlayersInv'
    <3> DEFINE new == [guard[g] EXCEPT !.pc = "starting"]
    <3>a. /\ new \in GuardRecord /\ new.owned = guard[g].owned /\ new.out = guard[g].out
          /\ new.pc = "starting"
      BY <1>b DEF GuardRecord, Places
    <3>b. guard' = [guard EXCEPT ![g] = new] /\ guard \in [Guards -> GuardRecord]
      BY <1>0, <2>4 DEF Types
    <3> HIDE DEF new
    <3>1. guard' \in [Guards -> GuardRecord]
      BY <3>a, <3>b
    <3>2. \A h \in Guards : /\ guard'[h].owned = guard[h].owned /\ guard'[h].out = guard[h].out
                            /\ guard'[h].pc \in {"pin", "stop"} =>
                                 guard[h].pc \in {"pin", "stop"} /\ guard'[h].target = guard[h].target
      BY <3>a, <3>b
    <3>3. \A h \in Guards : Aimed(guard'[h].pc, guard'[h].target)
      BY <1>0, <3>a, <3>b DEF Aimed
    <3> QED BY <1>0, <1>d, <2>1, <2>2, <3>1, <3>2, <3>3 DEF PlayersInv, Types, LeftAlone
  <2> QED BY <1>8, <2>3, <2>4 DEF Open
<1>9. ASSUME NEW g \in Guards, Hear(g) PROVE PlayersInv'
  <2> DEFINE said == Head(guard[g].out)
             rest == [guard EXCEPT ![g].out = Tail(@)]
             pins == IF said.kind = "pin" THEN owner.tree \cup {said.proc} ELSE {}
  <2>1. guard[g].out # <<>> /\ guard[g].out \in Seq(Message) /\ user' = user
    BY <1>9, <1>b DEF Hear, GuardRecord
  <2>2. /\ said \in Message /\ Tail(guard[g].out) \in Seq(Message)
        /\ \A p \in user.before : said # [kind |-> "pin", proc |-> p] /\ ReportsNot(Tail(guard[g].out), p)
    <3>1. said \in Message /\ Tail(guard[g].out) \in Seq(Message)
      BY <2>1, HeadTailProperties
    <3> QED BY <1>d, <2>1, <3>1, Reports
  <2>3. pins \in SUBSET Procs /\ pins \cap user.before = {}
    <3>1. CASE said.kind = "pin"
      <4>1. said.proc \in Procs /\ said = [kind |-> "pin", proc |-> said.proc]
        BY <2>2, <3>1 DEF Message
      <4>2. said.proc \notin user.before
        BY <2>2, <4>1
      <4> QED BY <1>0, <3>1, <4>1, <4>2 DEF Types, OwnerRecord, LeftAlone
    <3> QED BY <3>1
  <2>4. /\ rest \in [Guards -> GuardRecord]
        /\ \A h \in Guards : /\ rest[h].owned = guard[h].owned /\ rest[h].pc = guard[h].pc
                             /\ rest[h].target = guard[h].target
                             /\ \A p \in user.before : ReportsNot(rest[h].out, p)
    <3>1. guard[g] \in GuardRecord /\ guard \in [Guards -> GuardRecord]
      BY <1>0 DEF Types
    <3> DEFINE tail == Tail(guard[g].out)
               new == [guard[g] EXCEPT !.out = tail]
    <3>2. tail \in Seq(Message) /\ \A p \in user.before : ReportsNot(tail, p)
      BY <2>2
    <3> HIDE DEF tail
    <3>3. /\ new \in GuardRecord /\ new.owned = guard[g].owned /\ new.pc = guard[g].pc
          /\ new.target = guard[g].target /\ new.out = tail
      BY <3>1, <3>2 DEF GuardRecord
    <3>4. rest = [guard EXCEPT ![g] = new]
      BY <3>1 DEF tail
    <3> HIDE DEF new, rest
    <3> QED BY <1>d, <3>1, <3>2, <3>3, <3>4
  <2>5. ASSUME NEW f \in [Guards -> GuardRecord], guard' = f, owner' \in OwnerRecord,
               \A h \in Guards : /\ f[h].owned = rest[h].owned /\ f[h].pc = rest[h].pc
                                 /\ f[h].target = rest[h].target /\ f[h].out = rest[h].out,
               owner'.tree \cap user.before = {}, proc' \in {proc, Continued(owner.tree)}
        PROVE  PlayersInv'
    <3> HIDE DEF rest, said
    <3> QED BY <1>0, <1>c, <1>d, <1>f, <2>1, <2>4, <2>5 DEF PlayersInv, Types, LeftAlone
  <2>6. CASE ~ReliedOn(g) /\ guard' = rest /\ UNCHANGED <<proc, owner>>
    <3>1. owner' \in OwnerRecord /\ owner'.tree \cap user.before = {}
      BY <1>0, <2>6 DEF Types, LeftAlone
    <3> HIDE DEF rest, said
    <3> QED BY <2>4, <2>5, <2>6, <3>1
  <2>7. CASE /\ owner' = [owner EXCEPT !.tree = pins] /\ proc' = proc
             /\ guard' = [rest EXCEPT ![g].in = IF Runs(g) THEN Append(@, "pin-ok") ELSE @]
    <3> HIDE DEF rest, said, pins
    <3>1. owner' \in OwnerRecord /\ owner'.tree \cap user.before = {}
      BY <1>0, <2>3, <2>7 DEF Types, OwnerRecord
    <3>2. rest[g].in \in Seq({"pause", "pin-ok"}) /\ Append(rest[g].in, "pin-ok") \in Seq({"pause", "pin-ok"})
      BY <2>4, AppendProperties DEF GuardRecord
    <3> DEFINE in == IF Runs(g) THEN Append(rest[g].in, "pin-ok") ELSE rest[g].in
               new == [rest[g] EXCEPT !.in = in]
    <3>a. in \in Seq({"pause", "pin-ok"})
      BY <3>2
    <3>b. /\ new \in GuardRecord /\ new.owned = rest[g].owned /\ new.pc = rest[g].pc
          /\ new.target = rest[g].target /\ new.out = rest[g].out
      <4> HIDE DEF in
      <4> QED BY <2>4, <3>a DEF GuardRecord
    <3>c. guard' = [rest EXCEPT ![g] = new]
      BY <2>4, <2>7
    <3> HIDE DEF in, new
    <3>3. guard' \in [Guards -> GuardRecord]
      BY <2>4, <3>b, <3>c
    <3>4. \A h \in Guards : /\ guard'[h].owned = rest[h].owned /\ guard'[h].pc = rest[h].pc
                            /\ guard'[h].target = rest[h].target /\ guard'[h].out = rest[h].out
      BY <2>4, <3>b, <3>c
    <3> QED BY <2>5, <2>7, <3>1, <3>3, <3>4
  <2>8. CASE owner' = [owner EXCEPT !.paused = TRUE] /\ guard' = rest /\ proc' = proc
    <3>1. owner' \in OwnerRecord /\ owner'.tree \cap user.before = {}
      BY <1>0, <2>8 DEF Types, OwnerRecord, LeftAlone
    <3> HIDE DEF rest, said
    <3> QED BY <2>4, <2>5, <2>8, <3>1
  <2>9. CASE /\ proc' = Continued(owner.tree) /\ guard' = [rest EXCEPT ![g].eof = TRUE]
             /\ owner' = [owner EXCEPT !.wants = FALSE, !.guard = NoGuard, !.paused = FALSE, !.tree = {}]
    <3> HIDE DEF rest, said
    <3>1. owner' \in OwnerRecord /\ owner'.tree = {}
      BY <1>0, <2>9 DEF Types, OwnerRecord
    <3> DEFINE new == [rest[g] EXCEPT !.eof = TRUE]
    <3>b. /\ new \in GuardRecord /\ new.owned = rest[g].owned /\ new.pc = rest[g].pc
          /\ new.target = rest[g].target /\ new.out = rest[g].out
      BY <2>4 DEF GuardRecord
    <3>c. guard' = [rest EXCEPT ![g] = new]
      BY <2>4, <2>9
    <3> HIDE DEF new
    <3>2. guard' \in [Guards -> GuardRecord]
      BY <2>4, <3>b, <3>c
    <3>3. \A h \in Guards : /\ guard'[h].owned = rest[h].owned /\ guard'[h].pc = rest[h].pc
                            /\ guard'[h].target = rest[h].target /\ guard'[h].out = rest[h].out
      BY <2>4, <3>b, <3>c
    <3> QED BY <2>5, <2>9, <3>1, <3>2, <3>3
  <2> QED BY <1>9, <2>6, <2>7, <2>8, <2>9 DEF Hear
<1>10. CASE OwnerDies
  <2>1. owner' \in OwnerRecord /\ owner'.tree = {} /\ UNCHANGED <<proc, user>>
    BY <1>10 DEF OwnerDies, OwnerRecord
  <2>2. guard' \in [Guards -> GuardRecord]
    <3>1. <<>> \in Seq(Message)
      OBVIOUS
    <3>2. ASSUME NEW h \in Guards PROVE [guard[h] EXCEPT !.eof = TRUE, !.out = <<>>] \in GuardRecord
      BY <1>b, <3>1 DEF GuardRecord
    <3> QED BY <1>10, <3>2 DEF OwnerDies
  <2>3. \A g \in Guards : /\ guard'[g].owned = guard[g].owned /\ guard'[g].out = <<>>
                          /\ guard'[g].pc = guard[g].pc /\ guard'[g].target = guard[g].target
    BY <1>10, <1>b DEF OwnerDies, GuardRecord
  <2>4. \A p : ReportsNot(<<>>, p)
    BY DEF ReportsNot
  <2> QED BY <1>0, <1>d, <2>1, <2>2, <2>3, <2>4 DEF PlayersInv, Types, LeftAlone
<1>11. CASE UNCHANGED pauseVars
  BY <1>11 DEF pauseVars, PlayersInv, Types, LeftAlone
<1> QED BY <1>1, <1>2, <1>3, <1>5, <1>6, <1>7, <1>8, <1>9, <1>10, <1>11 DEF PauseNext

\* What the player stopped before a guard looked at it stays stopped,
\* whoever of Omakade and the guards is killed or hangs.
THEOREM PlayersStopStaysHolds == PauseSpec => []PlayersStopStays
<1>1. PauseInit => PlayersInv
  BY PlayersInit
<1>2. PlayersInv /\ [PauseNext]_pauseVars => PlayersInv'
  BY PlayersNext
<1>3. PlayersInv => PlayersStopStays
  BY DEF PlayersInv, LeftAlone, PlayersStopStays
<1> QED BY <1>1, <1>2, <1>3, PTL DEF PauseSpec

-----------------------------------------------------------------------------
\* PausedIsFrozen.  The stages of the guard that Omakade relies on say how
\* what it owns relates to what Omakade has pinned and to what is still on
\* its way between the two: "ok" is only said, and heard, of exactly the
\* processes that are pinned, after a round that found them stopped and no
\* child of theirs that moves.
\* No guard of an earlier opening is still at work when the next begins.
OneGuardAtWork == \A g, h \in Guards : Runs(g) /\ Runs(h) => g = h

Moving == {"run", "stopping"}
Pin(p) == [kind |-> "pin", proc |-> p]
Ok == [kind |-> "ok"]
NoneOf(s, x) == \A i \in 1 .. Len(s) : s[i] # x

\* The processes S and their children: none of them moves.
Still(ps, S) ==
  \A p \in Procs : p \in S \/ ps[p].parent \in S => ps[p].state \notin Moving

\* A guard before its first round, in its rounds, after it gave up, and
\* after it said that everything is stopped.
Asked(o, r) ==
  /\ ~o.paused /\ o.tree = {} /\ r.owned = {} /\ r.out = <<>>
  /\ r.pc \in {"starting", "idle", "anr"}
  /\ r.in = IF r.pc = "idle" THEN <<"pause">> ELSE <<>>

Listed(ps, r) ==
  \A p \in Procs : /\ p \in r.owned => ps[p].state \notin Moving
                   /\ ps[p].parent \in r.owned /\ ps[p].state \in Moving => p \in r.todo

Freezing(ps, o, r) ==
  /\ ~o.paused
  /\ \/ r.pc \in {"add", "settle", "visit"} /\ r.in = <<>> /\ r.out = <<>> /\ o.tree = r.owned
     \/ r.pc = "pin" /\ r.in = <<>> /\ r.out = <<Pin(r.target)>> /\ o.tree = r.owned
     \/ r.pc = "pin" /\ r.in = <<"pin-ok">> /\ r.out = <<>> /\ o.tree = r.owned \cup {r.target}
     \/ r.pc = "stop" /\ r.in = <<>> /\ r.out = <<>> /\ o.tree = r.owned \cup {r.target}
  /\ r.pc = "visit" /\ ~r.added => Listed(ps, r)

GivenUp(o, r) ==
  /\ ~o.paused /\ r.pc \in {"idle", "ended"} /\ NoneOf(r.out, Ok) /\ NoneOf(r.in, "pause")

Frozen(ps, o, r) ==
  /\ r.pc \in {"idle", "ended"} /\ r.in = <<>> /\ r.out = IF o.paused THEN <<>> ELSE <<Ok>>
  /\ Still(ps, o.tree)

Stage(ps, o, r) == Asked(o, r) \/ Freezing(ps, o, r) \/ GivenUp(o, r) \/ Frozen(ps, o, r)

\* A guard that has not been started.
Unused(o, r) ==
  r.pc = "off" => r.owned = {} /\ r.in = <<>> /\ r.out = <<>> /\ (o.alive => ~r.eof)

FrozenInv ==
  /\ owner.guard = NoGuard => ~owner.paused /\ owner.tree = {}
  /\ \A p \in owner.tree : proc[p].state # "none"
  /\ \A g \in Guards : Unused(owner, guard[g])
  /\ \A g \in Guards : owner.guard = g =>
       /\ owner.alive /\ ~guard[g].eof
       /\ Stage(proc, owner, guard[g])
       /\ \A h \in Guards : Runs(h) => h = g

-----------------------------------------------------------------------------
\* What the game and its player do: a process that moves moved before, and
\* was nobody else's child, or has just been forked by one that moves.
LEMMA GameMoves ==
  ASSUME Types, Game, NEW p \in Procs
  PROVE  /\ proc[p].state # "none" => proc'[p].state # "none"
         /\ proc'[p].state \in Moving =>
              \/ proc[p].state \in Moving /\ proc'[p].parent \in {proc[p].parent, Init1}
              \/ /\ proc[p].state = "none" /\ proc'[p].parent \in Procs
                 /\ proc[proc'[p].parent].state \in Moving
<1> DEFINE kept ==
      /\ proc[p].state # "none" => proc'[p].state # "none"
      /\ proc'[p].state \in Moving =>
           \/ proc[p].state \in Moving /\ proc'[p].parent \in {proc[p].parent, Init1}
           \/ /\ proc[p].state = "none" /\ proc'[p].parent \in Procs
              /\ proc[proc'[p].parent].state \in Moving
<1>0. proc \in [Procs -> ProcRecord]
  BY DEF Types
<1>1. ASSUME NEW q \in Procs, Fork(q) PROVE kept
  <2>1. PICK r \in Procs : /\ \A s \in Procs : proc[s].state = "none" <=> s >= r
                           /\ proc' = [proc EXCEPT ![r] = [state |-> "run", parent |-> q]]
    BY <1>1 DEF Fork
  <2>2. r >= r
    BY ConstantsAssumption DEF Procs
  <2>3. proc[r].state = "none"
    BY <2>1, <2>2
  <2>4. proc[q].state \in Moving
    BY <1>1 DEF Fork, Moving
  <2> QED BY <1>0, <2>1, <2>3, <2>4 DEF Moving
<1>2. ASSUME NEW q \in Procs, StopTakes(q) \/ Collect(q) \/ PlayerStops(q) PROVE kept
  BY <1>0, <1>2 DEF StopTakes, Collect, PlayerStops, Moving, ProcRecord
<1>3. ASSUME NEW q \in Procs, Exit(q) PROVE kept
  <2>1. proc'[p] = IF p = q THEN [proc[q] EXCEPT !.state = IF proc[q].parent = Init1 THEN "gone" ELSE "zombie"]
                   ELSE IF proc[p].parent = q
                   THEN [state |-> IF proc[p].state = "zombie" THEN "gone" ELSE proc[p].state, parent |-> Init1]
                   ELSE proc[p]
    BY <1>3 DEF Exit
  <2>2. proc[p] \in ProcRecord /\ proc[q] \in ProcRecord /\ proc[q].state # "none"
    BY <1>0, <1>3 DEF Exit, Alive
  <2> QED BY <2>1, <2>2 DEF Moving, ProcRecord
<1>4. kept
  BY <1>1, <1>2, <1>3 DEF Game
<1> QED BY <1>4

\* A frozen tree stays frozen whatever the game and its player do: nobody
\* in it can fork, and nobody outside it becomes its child.
LEMMA GameFrozen == PlayersInv /\ FrozenInv /\ Game => FrozenInv'
<1> SUFFICES ASSUME PlayersInv, FrozenInv, Game PROVE FrozenInv'
  OBVIOUS
<1>0. Types /\ UNCHANGED <<guard, owner>> /\ owner.tree \in SUBSET Procs /\ Init1 \notin Procs
  <2>1. UNCHANGED <<guard, owner>>
    BY DEF Game, Fork, StopTakes, Exit, Collect, PlayerStops
  <2>2. Types /\ owner.tree \in SUBSET Procs
    BY DEF PlayersInv, Types, OwnerRecord
  <2>3. Init1 \notin Procs
    BY ConstantsAssumption DEF Procs, Init1
  <2> QED BY <2>1, <2>2, <2>3
<1>1. \A p \in owner.tree : proc'[p].state # "none"
  BY <1>0, GameMoves DEF FrozenInv
<1>2. ASSUME Still(proc, owner.tree) PROVE Still(proc', owner.tree)
  BY <1>0, <1>2, GameMoves DEF Still, FrozenInv
<1>3. ASSUME NEW g \in Guards, owner.guard = g, Stage(proc, owner, guard[g])
      PROVE  Stage(proc', owner, guard[g])
  <2>1. ASSUME Freezing(proc, owner, guard[g]) PROVE Freezing(proc', owner, guard[g])
    <3>1. ASSUME guard[g].pc = "visit", ~guard[g].added PROVE Listed(proc', guard[g])
      <4>1. Listed(proc, guard[g]) /\ guard[g].owned = owner.tree
        BY <2>1, <3>1 DEF Freezing
      <4> QED BY <1>0, <4>1, GameMoves DEF Listed, FrozenInv
    <3> QED BY <2>1, <3>1 DEF Freezing
  <2> QED BY <1>2, <1>3, <2>1 DEF Stage, Frozen
<1> QED BY <1>0, <1>1, <1>3 DEF FrozenInv, Runs

-----------------------------------------------------------------------------
\* A CONT takes no process out of existence.
LEMMA ContinuedExist ==
  ASSUME Types, NEW S \in SUBSET Procs, NEW T \in SUBSET Procs, \A p \in T : proc[p].state # "none"
  PROVE  \A p \in T : Continued(S)[p].state # "none"
BY DEF Continued, Types, ProcRecord

\* A step of the guard that Omakade relies on.
LEMMA RelyStep ==
  ASSUME PlayersInv, FrozenInv, NEW g \in Guards, owner.guard = g, NEW new,
         guard' = [guard EXCEPT ![g] = new], owner' = owner,
         \A p \in owner.tree : proc'[p].state # "none",
         new.pc # "off", new.eof = guard[g].eof, Stage(proc', owner, new)
  PROVE  FrozenInv'
<1>1. guard'[g] = new /\ \A h \in Guards \ {g} : guard'[h] = guard[h]
  BY DEF PlayersInv, Types
<1>2. g # NoGuard
  BY ConstantsAssumption
<1> QED BY <1>1, <1>2 DEF FrozenInv, Unused, Runs

\* What the pipes between a guard and Omakade hold.
LEMMA NothingSaid ==
  /\ \A x : NoneOf(<<>>, x)
  /\ \A s \in Seq(Message) : NoneOf(s, Ok) => NoneOf(Append(s, [kind |-> "failed"]), Ok)
  /\ NoneOf(<<"pin-ok">>, "pause")
  /\ \A p : NoneOf(<<Pin(p)>>, Ok)
  /\ \A x : Tail(<<x>>) = <<>> /\ Head(<<x>>) = x
<1>1. \A x : NoneOf(<<>>, x)
  BY DEF NoneOf
<1>2. ASSUME NEW s \in Seq(Message), NoneOf(s, Ok) PROVE NoneOf(Append(s, [kind |-> "failed"]), Ok)
  <2> DEFINE m == [kind |-> "failed"]
  <2>1. m \in Message /\ m # Ok
    BY DEF Message, Ok
  <2> HIDE DEF m
  <2>2. NoneOf(Append(s, m), Ok)
    BY <1>2, <2>1, AppendProperties DEF NoneOf
  <2> QED BY <2>2 DEF m
<1>3. NoneOf(<<"pin-ok">>, "pause")
  BY DEF NoneOf
<1>4. ASSUME NEW p PROVE NoneOf(<<Pin(p)>>, Ok)
  <2>1. Pin(p) # Ok
    BY DEF Pin, Ok
  <2> QED BY <2>1 DEF NoneOf
<1>5. \A x : Tail(<<x>>) = <<>> /\ Head(<<x>>) = x
  OBVIOUS
<1> QED BY <1>1, <1>2, <1>3, <1>4, <1>5

\* The guard that Omakade relies on works: each of its steps takes it from
\* one stage to the same or a later one.
LEMMA WorksFrozen ==
  ASSUME PlayersInv, FrozenInv, NEW g \in Guards, owner.guard = g, Works(g)
  PROVE  FrozenInv'
<1> DEFINE r == guard[g]
<1>0. /\ r \in GuardRecord /\ r.owned \in SUBSET Procs /\ owner.tree \in SUBSET Procs
      /\ guard \in [Guards -> GuardRecord] /\ proc \in [Procs -> ProcRecord] /\ Types
  BY DEF PlayersInv, Types, GuardRecord, OwnerRecord
<1>1. /\ \A p \in owner.tree : proc[p].state # "none"
      /\ \A p \in owner.tree : Continued(r.owned)[p].state # "none"
  BY <1>0, ContinuedExist DEF FrozenInv
<1>2. ~r.eof /\ Stage(proc, owner, r)
  BY DEF FrozenInv
<1>3. owner' = owner
  BY DEF Works, Request, Begin, Add, Pinned, Stop, Settle, Visit, Visited, Eof, End, Started
<1>4. ASSUME Fails(g), Asked(owner, r) \/ Freezing(proc, owner, r), r.in # <<"pause">> PROVE FrozenInv'
  <2> DEFINE new == [IdleGuard EXCEPT !.pc = "idle", !.in = r.in, !.eof = r.eof, !.out = Say(g, FALSE)]
  <2>1. guard' = [guard EXCEPT ![g] = new] /\ proc' = Continued(r.owned)
    BY <1>4 DEF Fails
  <2>2. new.pc = "idle" /\ new.in = r.in /\ new.eof = r.eof /\ new.out = Append(r.out, [kind |-> "failed"])
    BY DEF IdleGuard, Say
  <2>3. NoneOf(r.in, "pause") /\ NoneOf(r.out, Ok) /\ ~owner.paused
    BY <1>4, NothingSaid DEF Asked, Freezing
  <2>4. NoneOf(new.out, Ok)
    <3>1. r.out \in Seq(Message)
      BY <1>0 DEF GuardRecord
    <3> HIDE DEF new
    <3> QED BY <2>2, <2>3, <3>1, NothingSaid
  <2> HIDE DEF new
  <2>5. Stage(proc', owner, new)
    BY <2>2, <2>3, <2>4 DEF Stage, GivenUp
  <2> QED BY <1>1, <1>3, <2>1, <2>2, <2>5, RelyStep
<1>5. CASE Request(g)
  <2>1. r.pc = "idle" /\ r.in # <<>>
    BY <1>5 DEF Request
  <2>2. CASE Asked(owner, r)
    <3> DEFINE new == [r EXCEPT !.in = Tail(@), !.owned = {}, !.pc = "anr"]
    <3>0. r.in = <<"pause">> /\ r.owned = {}
      BY <2>1, <2>2 DEF Asked
    <3>1. r.in = <<"pause">> /\ r.owned = {} /\ Tail(r.in) = <<>> /\ Head(r.in) = "pause"
      BY <3>0, NothingSaid
    <3>2. guard' = [guard EXCEPT ![g] = new] /\ proc' = Continued(r.owned)
      BY <1>0, <1>5, <3>1 DEF Request
    <3>3. new.pc = "anr" /\ new.eof = r.eof /\ new.in = <<>> /\ new.owned = {} /\ new.out = r.out
      BY <1>0, <3>1 DEF GuardRecord
    <3> HIDE DEF new
    <3>4. Stage(proc', owner, new)
      BY <2>2, <3>3 DEF Stage, Asked
    <3> QED BY <1>1, <1>3, <3>2, <3>3, <3>4, RelyStep
  <2>3. CASE GivenUp(owner, r)
    <3> DEFINE new == [r EXCEPT !.in = Tail(@), !.out = Say(g, FALSE)]
    <3>1. Head(r.in) # "pause" /\ NoneOf(Tail(r.in), "pause")
      <4>1. r.in \in Seq({"pause", "pin-ok"}) /\ NoneOf(r.in, "pause")
        BY <1>0, <2>3 DEF GivenUp, GuardRecord
      <4>2. /\ Len(Tail(r.in)) = Len(r.in) - 1 /\ Len(r.in) \in Nat /\ Len(r.in) >= 1
            /\ \A i \in 1 .. Len(Tail(r.in)) : Tail(r.in)[i] = r.in[i + 1]
            /\ Head(r.in) = r.in[1]
        BY <2>1, <4>1, HeadTailProperties, EmptySeq
      <4> QED BY <4>1, <4>2 DEF NoneOf
    <3>2. guard' = [guard EXCEPT ![g] = new] /\ proc' = proc
      BY <1>0, <1>5, <3>1 DEF Request
    <3>3. /\ new.pc = "idle" /\ new.eof = r.eof /\ new.in = Tail(r.in)
          /\ new.out = Append(r.out, [kind |-> "failed"])
      BY <1>0, <2>1 DEF GuardRecord, Say
    <3>4. NoneOf(new.out, Ok)
      <4>1. r.out \in Seq(Message) /\ NoneOf(r.out, Ok)
        BY <1>0, <2>3 DEF GivenUp, GuardRecord
      <4> HIDE DEF new
      <4> QED BY <3>3, <4>1, NothingSaid
    <3> HIDE DEF new
    <3>5. Stage(proc', owner, new)
      BY <2>3, <3>1, <3>3, <3>4 DEF Stage, GivenUp
    <3> QED BY <1>1, <1>3, <3>2, <3>3, <3>5, RelyStep
  <2> QED BY <1>2, <2>1, <2>2, <2>3 DEF Stage, Freezing, Frozen
<1>6. CASE Begin(g)
  <2>1. r.pc = "anr" /\ Asked(owner, r)
    BY <1>2, <1>6 DEF Begin, Stage, Freezing, GivenUp, Frozen
  <2>2. CASE Fails(g)
    BY <1>4, <2>1, <2>2 DEF Asked
  <2>3. CASE guard' = [guard EXCEPT ![g].pc = "add", ![g].target = Root, ![g].round = 0] /\ proc' = proc
    <3> DEFINE new == [r EXCEPT !.pc = "add", !.target = Root, !.round = 0]
    <3>1. guard' = [guard EXCEPT ![g] = new]
      BY <1>0, <2>3
    <3>2. new.pc = "add" /\ new.eof = r.eof /\ new.in = r.in /\ new.owned = r.owned /\ new.out = r.out
      BY <1>0 DEF GuardRecord
    <3> HIDE DEF new
    <3>3. Stage(proc', owner, new)
      BY <2>1, <3>2 DEF Stage, Freezing, Asked
    <3> QED BY <1>1, <1>3, <2>3, <3>1, <3>2, <3>3, RelyStep
  <2> QED BY <1>6, <2>2, <2>3 DEF Begin
<1>7. CASE Add(g)
  <2>1. r.pc = "add" /\ Freezing(proc, owner, r) /\ r.in = <<>> /\ r.out = <<>> /\ owner.tree = r.owned
    BY <1>2, <1>7 DEF Add, Stage, Freezing, Asked, GivenUp, Frozen
  <2>2. CASE Fails(g)
    BY <1>4, <2>1, <2>2
  <2>3. CASE /\ guard' = [guard EXCEPT ![g].pc = "pin", ![g].out = Append(@, [kind |-> "pin", proc |-> r.target])]
             /\ proc' = proc
    <3> DEFINE said == Append(r.out, Pin(r.target))
               new == [r EXCEPT !.pc = "pin", !.out = said]
    <3>1. guard' = [guard EXCEPT ![g] = new]
      BY <1>0, <2>3 DEF Pin
    <3>2. said = <<Pin(r.target)>>
      BY <2>1
    <3>3. /\ new.pc = "pin" /\ new.eof = r.eof /\ new.in = r.in /\ new.owned = r.owned
          /\ new.target = r.target /\ new.out = said
      BY <1>0 DEF GuardRecord
    <3> HIDE DEF new, said
    <3>4. Stage(proc', owner, new)
      BY <2>1, <3>2, <3>3 DEF Stage, Freezing
    <3> QED BY <1>1, <1>3, <2>3, <3>1, <3>3, <3>4, RelyStep
  <2> QED BY <1>7, <2>2, <2>3 DEF Add
<1>8. CASE Pinned(g)
  <2>1. r.pc = "pin" /\ Freezing(proc, owner, r)
    BY <1>2, <1>8 DEF Pinned, Stage, Asked, GivenUp, Frozen
  <2>2. CASE r.in = <<>>
    BY <1>4, <1>8, <2>1, <2>2 DEF Pinned
  <2>3. CASE r.in # <<>>
    <3> DEFINE new == [r EXCEPT !.in = Tail(@), !.pc = "stop"]
    <3>0. r.in = <<"pin-ok">> /\ r.out = <<>> /\ owner.tree = r.owned \cup {r.target}
      BY <2>1, <2>3 DEF Freezing
    <3>1. r.in = <<"pin-ok">> /\ r.out = <<>> /\ owner.tree = r.owned \cup {r.target} /\ Tail(r.in) = <<>>
      BY <3>0, NothingSaid
    <3>2. guard' = [guard EXCEPT ![g] = new] /\ proc' = proc
      BY <1>0, <1>8, <2>3 DEF Pinned
    <3>3. /\ new.pc = "stop" /\ new.eof = r.eof /\ new.in = Tail(r.in) /\ new.owned = r.owned
          /\ new.target = r.target /\ new.out = r.out
      BY <1>0 DEF GuardRecord
    <3> HIDE DEF new
    <3>4. Stage(proc', owner, new)
      BY <2>1, <3>1, <3>3 DEF Stage, Freezing
    <3> QED BY <1>1, <1>3, <3>2, <3>3, <3>4, RelyStep
  <2> QED BY <2>2, <2>3
<1>9. CASE Stop(g)
  <2>1. /\ r.pc = "stop" /\ Freezing(proc, owner, r) /\ r.in = <<>> /\ r.out = <<>>
        /\ owner.tree = r.owned \cup {r.target}
    BY <1>2, <1>9 DEF Stop, Stage, Freezing, Asked, GivenUp, Frozen
  <2>2. CASE Fails(g)
    BY <1>4, <2>1, <2>2
  <2>3. CASE /\ proc' = [proc EXCEPT ![r.target].state = IF @ = "run" THEN "stopping" ELSE @]
             /\ guard' = [guard EXCEPT ![g].owned = @ \cup {r.target}, ![g].target = NoProc, ![g].added = TRUE,
                                       ![g].pc = IF r.target = Root THEN "settle" ELSE "visit"]
    <3> DEFINE new == [r EXCEPT !.owned = @ \cup {r.target}, !.target = NoProc, !.added = TRUE,
                                !.pc = IF r.target = Root THEN "settle" ELSE "visit"]
    <3>1. guard' = [guard EXCEPT ![g] = new]
      BY <1>0, <2>3
    <3>2. /\ new.pc \in {"settle", "visit"} /\ new.eof = r.eof /\ new.in = r.in
          /\ new.owned = r.owned \cup {r.target} /\ new.added /\ new.out = r.out
      BY <1>0 DEF GuardRecord
    <3> HIDE DEF new
    <3>3. Stage(proc', owner, new)
      BY <2>1, <3>2 DEF Stage, Freezing
    <3>4. \A p \in owner.tree : proc'[p].state # "none"
      BY <1>0, <1>1, <2>3 DEF ProcRecord
    <3> QED BY <1>3, <3>1, <3>2, <3>3, <3>4, RelyStep
  <2> QED BY <1>9, <2>2, <2>3 DEF Stop
<1>10. ASSUME NextRound(g), r.pc \in {"settle", "visit"} PROVE FrozenInv'
  <2>1. Freezing(proc, owner, r) /\ r.in = <<>> /\ r.out = <<>> /\ owner.tree = r.owned
    BY <1>2, <1>10 DEF Stage, Freezing, Asked, GivenUp, Frozen
  <2>2. CASE Fails(g)
    BY <1>4, <2>1, <2>2
  <2>3. CASE guard' = [guard EXCEPT ![g].round = @ + 1, ![g].pc = "settle"] /\ proc' = proc
    <3> DEFINE round == r.round + 1
               new == [r EXCEPT !.round = round, !.pc = "settle"]
    <3>1. guard' = [guard EXCEPT ![g] = new]
      BY <1>0, <2>3
    <3> HIDE DEF round
    <3>2. new.pc = "settle" /\ new.eof = r.eof /\ new.in = r.in /\ new.owned = r.owned /\ new.out = r.out
      BY <1>0 DEF GuardRecord
    <3> HIDE DEF new
    <3>3. Stage(proc', owner, new)
      BY <2>1, <3>2 DEF Stage, Freezing
    <3> QED BY <1>1, <1>3, <2>3, <3>1, <3>2, <3>3, RelyStep
  <2> QED BY <1>10, <2>2, <2>3 DEF NextRound
<1>11. CASE Settle(g)
  <2>1. /\ r.pc = "settle" /\ Freezing(proc, owner, r) /\ r.in = <<>> /\ r.out = <<>>
        /\ owner.tree = r.owned
    BY <1>2, <1>11 DEF Settle, Stage, Freezing, Asked, GivenUp, Frozen
  <2>2. CASE ~SeenStopped(g)
    BY <1>10, <1>11, <2>1, <2>2 DEF Settle
  <2>3. CASE SeenStopped(g)
    <3> DEFINE listed == {p \in Procs : Exists(p)} \ r.owned
               new == [r EXCEPT !.pc = "visit", !.added = FALSE, !.todo = listed]
    <3>1. guard' = [guard EXCEPT ![g] = new] /\ proc' = proc
      BY <1>0, <1>11, <2>3 DEF Settle
    <3>2. /\ new.pc = "visit" /\ new.eof = r.eof /\ new.in = r.in
          /\ new.owned = r.owned /\ new.out = r.out /\ new.todo = listed
      BY <1>0 DEF GuardRecord
    <3>3. \A p \in Procs : /\ p \in r.owned => proc[p].state \notin Moving
                           /\ proc[p].state \in Moving => p \in listed
      BY <1>0, <2>3 DEF SeenStopped, Moving, Exists
    <3> HIDE DEF new, listed
    <3>4. Listed(proc, new)
      BY <3>2, <3>3 DEF Listed
    <3>5. Stage(proc', owner, new)
      BY <2>1, <3>1, <3>2, <3>4 DEF Stage, Freezing
    <3> QED BY <1>1, <1>3, <3>1, <3>2, <3>5, RelyStep
  <2> QED BY <2>2, <2>3
<1>12. CASE Visit(g)
  <2>1. /\ r.pc = "visit" /\ Freezing(proc, owner, r) /\ r.in = <<>> /\ r.out = <<>>
        /\ owner.tree = r.owned
    BY <1>2, <1>12 DEF Visit, Stage, Freezing, Asked, GivenUp, Frozen
  <2>2. PICK p \in r.todo :
          guard' = [guard EXCEPT ![g].todo = @ \ {p},
                                 ![g].target = IF Exists(p) /\ proc[p].parent \in guard[g].owned THEN p ELSE @,
                                 ![g].pc = IF Exists(p) /\ proc[p].parent \in guard[g].owned THEN "add" ELSE @]
    BY <1>12 DEF Visit
  <2> DEFINE child == Exists(p) /\ proc[p].parent \in r.owned
             new == [r EXCEPT !.todo = @ \ {p}, !.target = IF child THEN p ELSE @, !.pc = IF child THEN "add" ELSE @]
  <2>3. guard' = [guard EXCEPT ![g] = new] /\ proc' = proc
    <3>1. guard \in [Guards -> GuardRecord] /\ r = guard[g] /\ proc' = proc
      BY <1>0, <1>12 DEF Visit
    <3>2. [guard EXCEPT ![g].todo = @ \ {p},
                        ![g].target = IF Exists(p) /\ proc[p].parent \in guard[g].owned THEN p ELSE @,
                        ![g].pc = IF Exists(p) /\ proc[p].parent \in guard[g].owned THEN "add" ELSE @]
            = [guard EXCEPT ![g] = new]
      BY <3>1
    <3> QED BY <2>2, <3>1, <3>2
  <2>4. /\ new.pc = (IF child THEN "add" ELSE "visit") /\ new.eof = r.eof /\ new.in = r.in
        /\ new.owned = r.owned /\ new.out = r.out /\ new.todo = r.todo \ {p} /\ new.added = r.added
    BY <1>0, <2>1 DEF GuardRecord
  <2>5. proc[p].state \in Moving /\ proc[p].parent \in r.owned => child
    BY DEF Moving, Exists
  <2> HIDE DEF new, child
  <2>6. ASSUME new.pc = "visit", ~new.added PROVE Listed(proc', new)
    <3>1. Listed(proc, r) /\ ~child
      BY <2>1, <2>4, <2>6 DEF Freezing
    <3> QED BY <2>3, <2>4, <2>5, <3>1 DEF Listed
  <2>7. Stage(proc', owner, new)
    BY <2>1, <2>4, <2>6 DEF Stage, Freezing
  <2> QED BY <1>1, <1>3, <2>3, <2>4, <2>7, RelyStep
<1>13. CASE Visited(g)
  <2>1. /\ r.pc = "visit" /\ Freezing(proc, owner, r) /\ r.in = <<>> /\ r.out = <<>>
        /\ owner.tree = r.owned /\ r.todo = {}
    BY <1>2, <1>13 DEF Visited, Stage, Freezing, Asked, GivenUp, Frozen
  <2>2. CASE r.added
    BY <1>10, <1>13, <2>1, <2>2 DEF Visited
  <2>3. CASE ~r.added
    <3> DEFINE said == Say(g, TRUE)
               new == [r EXCEPT !.pc = "idle", !.out = said]
    <3>1. guard' = [guard EXCEPT ![g] = new] /\ proc' = proc
      BY <1>0, <1>13, <2>3 DEF Visited
    <3>2. said = <<Ok>>
      BY <2>1 DEF Say, Ok
    <3>3. new.pc = "idle" /\ new.eof = r.eof /\ new.in = r.in /\ new.out = said
      BY <1>0 DEF GuardRecord
    <3>4. Still(proc, owner.tree)
      BY <2>1, <2>3 DEF Freezing, Listed, Still
    <3> HIDE DEF new, said
    <3>5. Stage(proc', owner, new)
      BY <2>1, <3>1, <3>2, <3>3, <3>4 DEF Stage, Freezing, Frozen
    <3> QED BY <1>1, <1>3, <3>1, <3>3, <3>5, RelyStep
  <2> QED BY <2>2, <2>3
<1>14. CASE Eof(g) \/ End(g)
  BY <1>2, <1>14 DEF Eof, End, Stage, Asked, Freezing, GivenUp, Frozen
<1>15. CASE Started(g)
  <2>1. r.pc = "starting" /\ Asked(owner, r)
    BY <1>2, <1>15 DEF Started, Stage, Freezing, GivenUp, Frozen
  <2>2. CASE guard' = [guard EXCEPT ![g].pc = "ended"]
    <3> DEFINE new == [r EXCEPT !.pc = "ended"]
    <3>1. guard' = [guard EXCEPT ![g] = new] /\ proc' = proc
      BY <1>0, <1>15, <2>2 DEF Started
    <3>2. new.pc = "ended" /\ new.eof = r.eof /\ new.in = r.in /\ new.out = r.out
      BY <1>0 DEF GuardRecord
    <3> HIDE DEF new
    <3>3. Stage(proc', owner, new)
      BY <2>1, <3>2, NothingSaid DEF Stage, Asked, GivenUp
    <3> QED BY <1>1, <1>3, <3>1, <3>2, <3>3, RelyStep
  <2>3. CASE guard' = [guard EXCEPT ![g].pc = "idle", ![g].in = IF ReliedOn(g) THEN <<"pause">> ELSE <<>>,
                                    ![g].eof = ~ReliedOn(g)]
    <3>a. ReliedOn(g)
      BY DEF ReliedOn, FrozenInv
    <3> DEFINE new == [r EXCEPT !.pc = "idle", !.in = <<"pause">>, !.eof = FALSE]
    <3>1. guard' = [guard EXCEPT ![g] = new] /\ proc' = proc
      BY <1>0, <1>15, <2>3, <3>a DEF Started
    <3>2. new.pc = "idle" /\ new.eof = r.eof /\ new.in = <<"pause">> /\ new.out = r.out /\ new.owned = r.owned
      BY <1>0, <1>2 DEF GuardRecord
    <3> HIDE DEF new
    <3>3. Stage(proc', owner, new)
      BY <2>1, <3>2 DEF Stage, Asked
    <3> QED BY <1>1, <1>3, <3>1, <3>2, <3>3, RelyStep
  <2> QED BY <1>15, <2>2, <2>3 DEF Started
<1> QED BY <1>5, <1>6, <1>7, <1>8, <1>9, <1>11, <1>12, <1>13, <1>14, <1>15 DEF Works

-----------------------------------------------------------------------------
\* What is left of a guard that was killed.
LEMMA DeathFrozen ==
  ASSUME PlayersInv, FrozenInv, NEW g \in Guards, owner.guard = g, GuardDies(g)
  PROVE  FrozenInv'
<1> DEFINE r == guard[g]
           new == [IdleGuard EXCEPT !.pc = "ended", !.out = r.out]
<1>0. /\ guard' = [guard EXCEPT ![g] = new] /\ UNCHANGED <<proc, owner>> /\ owner.guard = g
      /\ r \in GuardRecord /\ ~r.eof /\ Stage(proc, owner, r) /\ r.pc # "off"
      /\ \A p \in owner.tree : proc[p].state # "none"
  BY DEF GuardDies, ReliedOn, FrozenInv, PlayersInv, Types, Runs
<1>1. new.pc = "ended" /\ new.in = <<>> /\ new.out = r.out /\ new.eof = r.eof
  BY <1>0 DEF IdleGuard, GuardRecord
<1> HIDE DEF new
<1>2. Stage(proc, owner, new)
  <2>1. CASE Asked(owner, r)
    BY <1>1, <2>1, NothingSaid DEF Asked, GivenUp, Stage
  <2>2. CASE Freezing(proc, owner, r)
    BY <1>1, <2>2, NothingSaid DEF Freezing, GivenUp, Stage
  <2>3. CASE GivenUp(owner, r)
    BY <1>1, <2>3, NothingSaid DEF GivenUp, Stage
  <2>4. CASE Frozen(proc, owner, r)
    BY <1>1, <2>4 DEF Frozen, Stage
  <2> QED BY <1>0, <2>1, <2>2, <2>3, <2>4 DEF Stage
<1> QED BY <1>0, <1>1, <1>2, RelyStep

\* And of one that Omakade had let go of.
LEMMA OtherDeathFrozen ==
  ASSUME PlayersInv, FrozenInv, NEW g \in Guards, owner.guard # g, GuardDies(g)
  PROVE  FrozenInv'
<1>1. Runs(g) /\ UNCHANGED <<proc, owner>>
  BY DEF GuardDies
<1>2. owner.guard = NoGuard
  BY <1>1 DEF FrozenInv, PlayersInv, Types, OwnerRecord
<1>3. \A h \in Guards : owner.guard # h
  BY <1>2, ConstantsAssumption
<1>4. guard'[g].pc = "ended" /\ \A h \in Guards \ {g} : guard'[h] = guard[h]
  BY DEF GuardDies, IdleGuard, PlayersInv, Types
<1> QED BY <1>1, <1>2, <1>3, <1>4 DEF FrozenInv, Unused

\* A guard on which Omakade does not rely works only when it relies on
\* none.
LEMMA OtherFrozen ==
  ASSUME PlayersInv, FrozenInv, NEW g \in Guards, owner.guard # g, Works(g)
  PROVE  FrozenInv'
<1>1. Runs(g) /\ owner' = owner
  BY DEF Runs, Works, Request, Begin, Add, Pinned, Stop, Settle, Visit, Visited, Eof, End, Started
<1>2. owner.guard = NoGuard
  BY <1>1 DEF FrozenInv, PlayersInv, Types, OwnerRecord
<1>3. \A h \in Guards : owner.guard # h
  BY <1>2, ConstantsAssumption
<1>4. guard \in [Guards -> GuardRecord]
  BY DEF PlayersInv, Types
<1>5. /\ \A h \in Guards \ {g} : guard'[h] = guard[h]
      /\ guard'[g].pc # "off"
  <2> DEFINE others == guard'[g].pc # "off" /\ \A h \in Guards \ {g} : guard'[h] = guard[h]
  <2>1. ASSUME Fails(g) PROVE others
    BY <1>4, <2>1 DEF Fails, IdleGuard
  <2>2. ASSUME NextRound(g) PROVE others
    <3>1. CASE guard' = [guard EXCEPT ![g].round = @ + 1, ![g].pc = "settle"]
      <4> DEFINE new == [guard[g] EXCEPT !.round = @ + 1, !.pc = "settle"]
      <4>1. guard' = [guard EXCEPT ![g] = new]
        BY <1>4, <3>1
      <4>2. new.pc = "settle"
        BY <1>4 DEF GuardRecord
      <4> HIDE DEF new
      <4> QED BY <1>4, <4>1, <4>2
    <3> QED BY <2>1, <2>2, <3>1 DEF NextRound
  <2>3. CASE Request(g)
    <3>1. CASE guard' = [guard EXCEPT ![g].in = Tail(@), ![g].owned = {}, ![g].pc = "anr"]
      BY <1>4, <3>1 DEF GuardRecord
    <3>2. CASE guard' = [guard EXCEPT ![g].in = Tail(@), ![g].out = Say(g, FALSE)]
      <4>1. guard[g].pc = "idle"
        BY <2>3 DEF Request
      <4> QED BY <1>4, <3>2, <4>1 DEF GuardRecord
    <3> QED BY <2>3, <3>1, <3>2 DEF Request
  <2>4. CASE Begin(g)
    BY <1>4, <2>1, <2>4 DEF Begin, GuardRecord
  <2>5. CASE Add(g)
    BY <1>4, <2>1, <2>5 DEF Add, GuardRecord
  <2>6. CASE Pinned(g)
    BY <1>4, <2>1, <2>6 DEF Pinned, GuardRecord
  <2>7. CASE Stop(g)
    BY <1>4, <2>1, <2>7 DEF Stop, GuardRecord
  <2>8. CASE Settle(g)
    BY <1>4, <2>2, <2>8 DEF Settle, GuardRecord
  <2>9. CASE Visit(g)
    BY <1>4, <2>9 DEF Visit, GuardRecord
  <2>10. CASE Visited(g)
    BY <1>4, <2>2, <2>10 DEF Visited, GuardRecord
  <2>11. CASE Eof(g)
    BY <1>4, <2>11 DEF Eof, GuardRecord
  <2>12. CASE End(g)
    BY <1>4, <2>12 DEF End, IdleGuard
  <2>13. CASE Started(g)
    <3>1. CASE guard' = [guard EXCEPT ![g].pc = "ended"]
      BY <1>4, <3>1 DEF GuardRecord
    <3>2. CASE guard' = [guard EXCEPT ![g].pc = "idle", ![g].in = IF ReliedOn(g) THEN <<"pause">> ELSE <<>>,
                                      ![g].eof = ~ReliedOn(g)]
      BY <1>4, <3>2 DEF GuardRecord
    <3> QED BY <2>13, <3>1, <3>2 DEF Started
  <2> QED BY <2>3, <2>4, <2>5, <2>6, <2>7, <2>8, <2>9, <2>10, <2>11, <2>12, <2>13 DEF Works
<1> QED BY <1>1, <1>2, <1>3, <1>5 DEF FrozenInv, Unused

\* Omakade gives its guard up: it relies on none.
LEMMA StopGuardFrozen ==
  ASSUME PlayersInv, FrozenInv, NEW next \in OwnerRecord, next.alive = owner.alive, StopGuard(next)
  PROVE  FrozenInv'
<1>1. owner'.guard = NoGuard /\ ~owner'.paused /\ owner'.tree = {} /\ owner'.alive = owner.alive
  BY DEF StopGuard, OwnerRecord
<1>2. \A h \in Guards : owner'.guard # h
  BY <1>1, ConstantsAssumption
<1>3. ASSUME NEW h \in Guards PROVE Unused(owner', guard'[h])
  <2>0. guard[h] \in GuardRecord /\ Unused(owner, guard[h])
    BY DEF PlayersInv, Types, FrozenInv
  <2>1. CASE h # owner.guard
    <3>1. guard'[h] = guard[h]
      BY <2>1 DEF StopGuard
    <3> QED BY <1>1, <2>0, <3>1 DEF Unused
  <2>2. CASE h = owner.guard
    <3>1. guard[h].pc # "off"
      BY <2>2 DEF FrozenInv, Stage, Asked, Freezing, GivenUp, Frozen
    <3>2. guard'[h].pc = guard[h].pc
      BY <2>0, <2>2 DEF StopGuard, GuardRecord
    <3> QED BY <3>1, <3>2 DEF Unused
  <2> QED BY <2>1, <2>2
<1> QED BY <1>1, <1>2, <1>3 DEF FrozenInv

\* The guide opens with a guard that has not been used.
LEMMA OpenFrozen == PlayersInv /\ FrozenInv /\ Open /\ OneGuardAtWork' => FrozenInv'
<1> SUFFICES ASSUME PlayersInv, FrozenInv, Open, OneGuardAtWork' PROVE FrozenInv'
  OBVIOUS
<1>0. /\ proc' = proc /\ owner \in OwnerRecord /\ guard \in [Guards -> GuardRecord]
  BY DEF Open, PlayersInv, Types
<1>1. ASSUME guard' = guard, owner'.guard = owner.guard, owner'.paused = owner.paused,
             owner'.tree = owner.tree, owner'.alive = owner.alive
      PROVE  FrozenInv'
  BY <1>0, <1>1 DEF FrozenInv, Unused, Stage, Asked, Freezing, GivenUp, Frozen, Runs
<1>2. ASSUME NEW g \in Guards, guard[g].pc = "off", owner.alive, owner.guard = NoGuard,
             owner' = [owner EXCEPT !.open = TRUE, !.guard = g],
             guard' = [guard EXCEPT ![g].pc = "starting"]
      PROVE  FrozenInv'
  <2>1. /\ owner'.guard = g /\ owner'.paused = owner.paused /\ owner'.tree = owner.tree /\ owner'.alive
    BY <1>0, <1>2 DEF OwnerRecord
  <2>2. /\ guard'[g].pc = "starting" /\ guard'[g].in = <<>> /\ guard'[g].out = <<>>
        /\ guard'[g].owned = {} /\ ~guard'[g].eof
        /\ \A h \in Guards \ {g} : guard'[h] = guard[h]
    BY <1>0, <1>2 DEF GuardRecord, FrozenInv, Unused
  <2>3. Asked(owner', guard'[g])
    BY <1>2, <2>1, <2>2 DEF Asked, FrozenInv
  <2>4. \A h \in Guards : Runs(h)' => h = g
    <3>1. Runs(g)'
      BY <2>2 DEF Runs
    <3> QED BY <3>1 DEF OneGuardAtWork
  <2>5. g # NoGuard
    BY ConstantsAssumption
  <2> QED BY <1>0, <1>2, <2>1, <2>2, <2>3, <2>4, <2>5 DEF FrozenInv, Unused, Stage
<1> QED BY <1>0, <1>1, <1>2 DEF Open, OwnerRecord

\* A line of a guard is heard: a pin, an "ok", or a failure.
LEMMA HearFrozen ==
  ASSUME PlayersInv, FrozenInv, NEW g \in Guards, Hear(g)
  PROVE  FrozenInv'
<1> DEFINE r == guard[g]
           said == Head(r.out)
           rest == [guard EXCEPT ![g].out = Tail(@)]
           pins == IF said.kind = "pin" THEN owner.tree \cup {said.proc} ELSE {}
<1>0. /\ owner \in OwnerRecord /\ guard \in [Guards -> GuardRecord] /\ r \in GuardRecord
      /\ r.out # <<>> /\ r.out \in Seq(Message) /\ owner.alive
      /\ proc \in [Procs -> ProcRecord] /\ Types
  BY DEF Hear, PlayersInv, Types, GuardRecord
<1>1. said \in Message /\ NoneOf(r.out, Ok) => said # Ok /\ NoneOf(Tail(r.out), Ok)
  <2>1. /\ Len(Tail(r.out)) = Len(r.out) - 1 /\ Len(r.out) \in Nat /\ Len(r.out) >= 1
        /\ \A i \in 1 .. Len(Tail(r.out)) : Tail(r.out)[i] = r.out[i + 1]
        /\ said = r.out[1]
    BY <1>0, HeadTailProperties, EmptySeq
  <2> QED BY <2>1 DEF NoneOf
<1>a. said \in Message
  BY <1>0, HeadTailProperties
<1>2. CASE ~ReliedOn(g) /\ guard' = rest /\ UNCHANGED <<proc, owner>>
  <2>1. owner.guard # g
    BY <1>0, <1>2 DEF ReliedOn
  <2>2. /\ \A h \in Guards \ {g} : guard'[h] = guard[h]
        /\ guard'[g].pc = r.pc
    BY <1>0, <1>2 DEF GuardRecord
  <2>3. r.pc # "off"
    BY <1>0 DEF FrozenInv, Unused
  <2> QED BY <1>2, <2>1, <2>2, <2>3 DEF FrozenInv, Unused, Runs
<1>3. CASE /\ ReliedOn(g) /\ said.kind = "pin" /\ \A p \in pins : Alive(p)
           /\ owner' = [owner EXCEPT !.tree = pins]
           /\ guard' = [rest EXCEPT ![g].in = IF Runs(g) THEN Append(@, "pin-ok") ELSE @]
           /\ proc' = proc
  <2> DEFINE in == IF Runs(g) THEN Append(r.in, "pin-ok") ELSE r.in
             unsaid == Tail(r.out)
             new == [r EXCEPT !.out = unsaid, !.in = in]
  <2>1. guard' = [guard EXCEPT ![g] = new]
    BY <1>0, <1>3
  <2>2. new.pc = r.pc /\ new.eof = r.eof /\ new.in = in /\ new.out = unsaid /\ new.owned = r.owned /\ new.target = r.target
    BY <1>0 DEF GuardRecord
  <2>3. /\ owner'.guard = g /\ owner'.paused = owner.paused /\ owner'.alive = owner.alive
        /\ owner'.tree = owner.tree \cup {said.proc} /\ owner.guard = g
    BY <1>0, <1>3 DEF OwnerRecord, ReliedOn
  <2>4. said # Ok
    BY <1>3 DEF Ok
  <2>5. \A p \in owner'.tree : proc[p].state # "none"
    BY <1>3, <2>3 DEF Alive
  <2>6. Stage(proc, owner, r) /\ r.pc # "off"
    BY <2>3 DEF FrozenInv, Stage, Asked, Freezing, GivenUp, Frozen
  <2> HIDE DEF new, in
  <2>7. Stage(proc, owner', new)
    <3>1. CASE Asked(owner, r)
      BY <1>0, <3>1 DEF Asked
    <3>2. CASE Freezing(proc, owner, r)
      <4>1. r.pc = "pin" /\ r.in = <<>> /\ r.out = <<Pin(r.target)>> /\ owner.tree = r.owned /\ ~owner.paused
        BY <1>0, <3>2 DEF Freezing
      <4>2. said = Pin(r.target) /\ unsaid = <<>> /\ Runs(g)
        BY <4>1, NothingSaid DEF Runs
      <4>3. in = <<"pin-ok">>
        BY <4>1, <4>2 DEF in
      <4>4. owner'.tree = r.owned \cup {r.target}
        BY <2>3, <4>1, <4>2 DEF Pin
      <4> QED BY <2>2, <2>3, <4>1, <4>2, <4>3, <4>4 DEF Stage, Freezing
    <3>3. CASE GivenUp(owner, r)
      <4>1. r.in \in Seq({"pause", "pin-ok"}) /\ NoneOf(r.in, "pause")
        BY <1>0, <3>3 DEF GivenUp, GuardRecord
      <4>2. NoneOf(in, "pause")
        BY <4>1, AppendProperties DEF NoneOf, in
      <4> QED BY <1>1, <1>a, <2>2, <2>3, <3>3, <4>2 DEF Stage, GivenUp
    <3>4. CASE Frozen(proc, owner, r)
      <4>1. r.out = <<Ok>>
        BY <1>0, <3>4 DEF Frozen
      <4> QED BY <2>4, <4>1, NothingSaid
    <3> QED BY <2>6, <3>1, <3>2, <3>3, <3>4 DEF Stage
  <2>8. guard'[g] = new /\ \A h \in Guards \ {g} : guard'[h] = guard[h]
    BY <1>0, <2>1
  <2>9. g # NoGuard
    BY ConstantsAssumption
  <2>10. owner.alive /\ ~r.eof /\ (\A h \in Guards : Runs(h) => h = g) /\ \A h \in Guards : Unused(owner, guard[h])
    BY <2>3 DEF FrozenInv
  <2>11. \A h \in Guards : Runs(h)' => h = g
    BY <2>8, <2>10 DEF Runs
  <2>12. \A h \in Guards : Unused(owner', guard'[h])
    BY <2>2, <2>3, <2>6, <2>8, <2>10 DEF Unused
  <2>13. \A p \in owner'.tree : proc'[p].state # "none"
    BY <1>3, <2>3, <2>5 DEF FrozenInv
  <2>14. Stage(proc', owner', guard'[g]) /\ owner'.alive /\ ~guard'[g].eof
    BY <1>3, <2>2, <2>3, <2>7, <2>8, <2>10
  <2> QED BY <2>3, <2>9, <2>11, <2>12, <2>13, <2>14 DEF FrozenInv
<1>4. CASE /\ ReliedOn(g) /\ said.kind = "ok" /\ owner' = [owner EXCEPT !.paused = TRUE]
           /\ guard' = rest /\ proc' = proc
  <2> DEFINE unsaid == Tail(r.out)
             new == [r EXCEPT !.out = unsaid]
  <2>1. guard' = [guard EXCEPT ![g] = new]
    BY <1>0, <1>4
  <2>2. new.pc = r.pc /\ new.eof = r.eof /\ new.in = r.in /\ new.out = unsaid
    BY <1>0 DEF GuardRecord
  <2>3. /\ owner'.guard = g /\ owner'.paused /\ owner'.alive = owner.alive
        /\ owner'.tree = owner.tree /\ owner.guard = g
    BY <1>0, <1>4 DEF OwnerRecord, ReliedOn
  <2>4. said = Ok
    BY <1>4, <1>a DEF Ok, Message
  <2>6. Stage(proc, owner, r) /\ r.pc # "off"
    BY <2>3 DEF FrozenInv, Stage, Asked, Freezing, GivenUp, Frozen
  <2> HIDE DEF new
  <2>7. Stage(proc, owner', new)
    <3>1. Frozen(proc, owner, r)
      <4>1. \A p : Pin(p) # Ok /\ Head(<<Pin(p)>>) = Pin(p)
        BY DEF Pin, Ok
      <4> QED BY <1>0, <1>1, <1>a, <2>4, <2>6, <4>1 DEF Stage, Asked, Freezing, GivenUp
    <3>2. r.out = <<Ok>>
      BY <1>0, <3>1 DEF Frozen
    <3>3. unsaid = <<>>
      BY <3>2, NothingSaid
    <3> QED BY <2>2, <2>3, <3>1, <3>3 DEF Stage, Frozen
  <2>8. guard'[g] = new /\ \A h \in Guards \ {g} : guard'[h] = guard[h]
    BY <1>0, <2>1
  <2>9. g # NoGuard
    BY ConstantsAssumption
  <2>10. owner.alive /\ ~r.eof /\ (\A h \in Guards : Runs(h) => h = g) /\ \A h \in Guards : Unused(owner, guard[h])
    BY <2>3 DEF FrozenInv
  <2>11. \A h \in Guards : Runs(h)' => h = g
    BY <2>8, <2>10 DEF Runs
  <2>12. \A h \in Guards : Unused(owner', guard'[h])
    BY <2>2, <2>3, <2>6, <2>8, <2>10 DEF Unused
  <2>13. \A p \in owner'.tree : proc'[p].state # "none"
    BY <1>4, <2>3 DEF FrozenInv
  <2>14. Stage(proc', owner', guard'[g]) /\ owner'.alive /\ ~guard'[g].eof
    BY <1>4, <2>2, <2>3, <2>7, <2>8, <2>10
  <2> QED BY <2>3, <2>9, <2>11, <2>12, <2>13, <2>14 DEF FrozenInv
<1>5. CASE /\ ReliedOn(g) /\ guard' = [rest EXCEPT ![g].eof = TRUE]
           /\ owner' = [owner EXCEPT !.wants = FALSE, !.guard = NoGuard, !.paused = FALSE, !.tree = {}]
  <2>1. owner'.guard = NoGuard /\ ~owner'.paused /\ owner'.tree = {} /\ owner'.alive = owner.alive
    BY <1>0, <1>5 DEF OwnerRecord
  <2>2. guard'[g].pc = r.pc /\ \A h \in Guards \ {g} : guard'[h] = guard[h]
    BY <1>0, <1>5 DEF GuardRecord
  <2>3. r.pc # "off"
    BY <1>0 DEF FrozenInv, Unused
  <2>4. \A h \in Guards : owner'.guard # h
    BY <2>1, ConstantsAssumption
  <2> QED BY <2>1, <2>2, <2>3, <2>4 DEF FrozenInv, Unused
<1> QED BY <1>2, <1>3, <1>4, <1>5 DEF Hear

\* Omakade is killed.
LEMMA OwnerDiesFrozen == PlayersInv /\ FrozenInv /\ OwnerDies => FrozenInv'
<1> SUFFICES ASSUME PlayersInv, FrozenInv, OwnerDies PROVE FrozenInv'
  OBVIOUS
<1>1. owner'.guard = NoGuard /\ ~owner'.paused /\ owner'.tree = {} /\ ~owner'.alive
  BY DEF OwnerDies
<1>2. \A h \in Guards : owner'.guard # h
  BY <1>1, ConstantsAssumption
<1>3. ASSUME NEW h \in Guards PROVE Unused(owner', guard'[h])
  <2>1. guard[h] \in GuardRecord
    BY DEF PlayersInv, Types
  <2>2. guard'[h] = [guard[h] EXCEPT !.eof = TRUE, !.out = <<>>]
    BY DEF OwnerDies
  <2>3. /\ guard'[h].pc = guard[h].pc /\ guard'[h].owned = guard[h].owned
        /\ guard'[h].in = guard[h].in /\ guard'[h].out = <<>>
    BY <2>1, <2>2 DEF GuardRecord
  <2>4. Unused(owner, guard[h])
    BY DEF FrozenInv
  <2> QED BY <1>1, <2>3, <2>4 DEF Unused
<1> QED BY <1>1, <1>2, <1>3 DEF FrozenInv

\* One step per action.
LEMMA FrozenNext == PlayersInv /\ FrozenInv /\ OneGuardAtWork' /\ [PauseNext]_pauseVars => FrozenInv'
<1> SUFFICES ASSUME PlayersInv, FrozenInv, OneGuardAtWork', [PauseNext]_pauseVars PROVE FrozenInv'
  OBVIOUS
<1>1. CASE Game
  BY <1>1, GameFrozen
<1>2. ASSUME NEW g \in Guards, Works(g) \/ GuardDies(g) \/ Hear(g) PROVE FrozenInv'
  BY <1>2, WorksFrozen, OtherFrozen, DeathFrozen, OtherDeathFrozen, HearFrozen
<1>3. owner \in OwnerRecord
  BY DEF PlayersInv, Types
<1>4. ASSUME NEW g \in Guards, Finished(g) PROVE FrozenInv'
  <2> DEFINE next == [owner EXCEPT !.wants = FALSE, !.open = @ /\ ~owner.paused]
  <2>1. next \in OwnerRecord /\ next.alive = owner.alive
    BY <1>3 DEF OwnerRecord
  <2>2. StopGuard(next)
    BY <1>4 DEF Finished
  <2> HIDE DEF next
  <2> QED BY <2>1, <2>2, StopGuardFrozen
<1>5. CASE TooLong \/ GameEnded
  <2> DEFINE next == [owner EXCEPT !.wants = FALSE]
  <2>1. next \in OwnerRecord /\ next.alive = owner.alive
    BY <1>3 DEF OwnerRecord
  <2>2. StopGuard(next)
    BY <1>5 DEF TooLong, GameEnded, Failed
  <2> HIDE DEF next
  <2> QED BY <2>1, <2>2, StopGuardFrozen
<1>6. CASE Close
  <2> DEFINE next == [owner EXCEPT !.open = FALSE]
  <2>1. next \in OwnerRecord /\ next.alive = owner.alive
    BY <1>3 DEF OwnerRecord
  <2>2. StopGuard(next)
    BY <1>6 DEF Close
  <2> HIDE DEF next
  <2> QED BY <2>1, <2>2, StopGuardFrozen
<1>7. CASE Open \/ OwnerDies
  BY <1>7, OpenFrozen, OwnerDiesFrozen
<1>8. CASE UNCHANGED pauseVars
  BY <1>8 DEF pauseVars, FrozenInv, Runs
<1> QED BY <1>1, <1>2, <1>4, <1>5, <1>6, <1>7, <1>8 DEF PauseNext

\* At the start there is no guard.
LEMMA FrozenStart == PauseInit => FrozenInv
<1> SUFFICES ASSUME PauseInit PROVE FrozenInv
  OBVIOUS
<1>1. owner.guard = NoGuard /\ ~owner.paused /\ owner.tree = {}
  BY DEF PauseInit
<1>2. \A h \in Guards : owner.guard # h
  BY <1>1, ConstantsAssumption
<1> QED BY <1>1, <1>2 DEF PauseInit, FrozenInv, Unused, IdleGuard

\* A guard is only taken for done at its last stage.
LEMMA FrozenShows == PlayersInv /\ FrozenInv => PausedIsFrozen
<1> SUFFICES ASSUME PlayersInv, FrozenInv, owner.paused PROVE Still(proc, owner.tree)
  BY DEF PausedIsFrozen, Still, Moving
<1>1. owner.guard \in Guards \cup {NoGuard}
  BY DEF PlayersInv, Types, OwnerRecord
<1> QED BY <1>1 DEF FrozenInv, Stage, Asked, Freezing, GivenUp, Frozen

\* While the card says paused, nothing that is pinned moves, nor any child
\* of it (GuidePause.cpp:52-72), whoever forks, ends or is killed, as long
\* as no guard of an earlier opening still works when the next one does.
THEOREM PausedIsFrozenHolds == PauseSpec /\ []OneGuardAtWork => []PausedIsFrozen
<1>1. PauseInit => PlayersInv /\ FrozenInv
  BY PlayersInit, FrozenStart
<1>2. PlayersInv /\ [PauseNext]_pauseVars => PlayersInv'
  BY PlayersNext
<1>3. PlayersInv /\ FrozenInv /\ OneGuardAtWork' /\ [PauseNext]_pauseVars => FrozenInv'
  BY FrozenNext
<1>4. PlayersInv /\ FrozenInv => PausedIsFrozen
  BY FrozenShows
<1> QED BY <1>1, <1>2, <1>3, <1>4, PTL DEF PauseSpec

\* The same of a guide that has paused the game once.
THEOREM PausedIsFrozenAlone == ASSUME \A g, h \in Guards : g = h PROVE PauseSpec => []PausedIsFrozen
<1>1. OneGuardAtWork
  BY DEF OneGuardAtWork
<1>2. PauseInit => PlayersInv /\ FrozenInv
  BY PlayersInit, FrozenStart
<1>3. PlayersInv /\ [PauseNext]_pauseVars => PlayersInv'
  BY PlayersNext
<1>5. OneGuardAtWork'
  BY DEF OneGuardAtWork
<1>4. PlayersInv /\ FrozenInv /\ [PauseNext]_pauseVars => FrozenInv'
  BY <1>5, FrozenNext
<1>6. PlayersInv /\ FrozenInv => PausedIsFrozen
  BY FrozenShows
<1> QED BY <1>2, <1>3, <1>4, <1>6, PTL DEF PauseSpec

-------------------------------------------------------------------------------

Requests == {"exit", "resume"}
Flags ==
  [active : BOOLEAN, parked : BOOLEAN, busy : BOOLEAN, change : Controller!Operations,
   changePending : BOOLEAN, refreshPending : BOOLEAN, resumeAfter : BOOLEAN,
   exitAfter : BOOLEAN, checked : BOOLEAN, down : BOOLEAN]
Readings == [at : {"none", "runs", "ended"}, recover : BOOLEAN]
SessionType ==
  /\ gui \in Flags
  /\ change \in {"none", "waits", "runs", "ended"}
  /\ refresh \in Readings
  /\ focus \in BOOLEAN
  /\ session \in {"none", "active", "parked"}
  /\ asked \subseteq Requests

\* A change is on the worker, or waits for the reading of the devices to
\* end, only while the session is busy; it is never started twice; and it
\* does not overlap the reading it waited for, nor a focusing.
Serial ==
  /\ ~(ChangeRuns /\ RefreshRuns)
  /\ change = "runs" => ~focus
  /\ gui.changePending => change = "none"
  /\ ~gui.down /\ (change # "none" \/ gui.changePending) => gui.busy
Shown ==
  ~gui.busy /\ ~gui.down => gui.active = (session = "active") /\ gui.parked = (session = "parked")
SerialInv == SessionType /\ Serial /\ Shown

---------------------------------------------------------------------------
\* Whatever an operation is begun on, it leaves one of the three states.
LEMMA OutcomesType ==
  ASSUME NEW op \in Controller!Operations, NEW from \in {"none", "active", "parked"}
  PROVE  Controller!Outcomes(op, from) \subseteq {"none", "active", "parked"}
BY DEF Controller!Outcomes, Controller!Operations

LEMMA InitSerial == SessionInit => SerialInv
<1> SUFFICES ASSUME SessionInit PROVE SerialInv
  OBVIOUS
<1>1. SessionType
  BY DEF SessionInit, SessionType, Flags, Readings, Controller!Operations, Requests
<1>2. Serial
  BY DEF SessionInit, Serial, ChangeRuns, RefreshRuns
<1>3. Shown
  BY DEF SessionInit, Shown
<1> QED BY <1>1, <1>2, <1>3 DEF SerialInv

\* The readings of the devices, and what the end of a change tells the GUI
\* thread.
LEMMA ReadingType ==
  ASSUME NEW g \in Flags PROVE [at |-> "runs", recover |-> ~g.checked] \in Readings
BY DEF Flags, Readings

LEMMA ToldType ==
  ASSUME SerialInv
  PROVE  /\ Told \in Flags /\ Told.changePending = gui.changePending /\ Told.down = gui.down
         /\ Told.active = (session = "active") /\ Told.parked = (session = "parked")
<1> DEFINE a == session = "active"
           b == session = "parked"
<1>1. gui \in Flags /\ a \in BOOLEAN /\ b \in BOOLEAN
  BY DEF SerialInv, SessionType
<1>2. Told = [gui EXCEPT !.active = a, !.parked = b, !.busy = FALSE, !.resumeAfter = FALSE, !.exitAfter = FALSE]
  BY DEF Told
<1> HIDE DEF a, b
<1>3. [gui EXCEPT !.active = a, !.parked = b] \in Flags
  BY <1>1 DEF Flags
<1>4. Told = [[gui EXCEPT !.active = a, !.parked = b] EXCEPT !.busy = FALSE, !.resumeAfter = FALSE, !.exitAfter = FALSE]
  BY <1>1, <1>2 DEF Flags
<1>5. Told \in Flags
  BY <1>3, <1>4 DEF Flags
<1>6. Told.changePending = gui.changePending /\ Told.down = gui.down
  BY <1>1, <1>2 DEF Flags
<1>7. Told.active = a /\ Told.parked = b
  BY <1>1, <1>2 DEF Flags
<1> QED BY <1>5, <1>6, <1>7 DEF a, b

\* A request is remembered, or its operation is begun.
LEMMA BusyStep ==
  ASSUME SerialInv, NEW g \in Flags, NEW r \in SUBSET Requests, Busy(g, r),
         g.busy = gui.busy, g.active = gui.active, g.parked = gui.parked,
         g.changePending = gui.changePending, g.down = gui.down
  PROVE  SerialInv'
BY DEF Busy, SerialInv, SessionType, Serial, Shown, ChangeRuns, RefreshRuns

LEMMA TakesStep ==
  ASSUME SerialInv, ~gui.busy, ~gui.down, NEW op \in Controller!Operations, NEW r, Takes(op, r)
  PROVE  SerialInv'
<1> USE DEF SerialInv, Takes, StartChange, RefreshRuns
<1>1. SessionType'
  BY DEF SessionType, Flags
<1>2. Serial'
  BY DEF Serial, SessionType, Flags, ChangeRuns
<1>3. Shown'
  BY DEF Shown, SessionType, Flags
<1> QED BY <1>1, <1>2, <1>3

LEMMA StepSerial == SerialInv /\ [SessionNext]_sessionVars => SerialInv'
<1> SUFFICES ASSUME SerialInv, [SessionNext]_sessionVars PROVE SerialInv'
  OBVIOUS
<1>1. CASE Start
  <2>1. CASE gui.busy /\ Busy([gui EXCEPT !.resumeAfter = TRUE], {"resume"})
    BY <2>1, BusyStep DEF SerialInv, SessionType, Flags, Requests
  <2>2. CASE ~gui.busy /\ Takes(IF gui.parked THEN "Resume" ELSE "Enter", {"resume"})
    BY <1>1, <2>2, TakesStep DEF Start, Controller!Operations
  <2> QED BY <1>1, <2>1, <2>2 DEF Start
<1>2. CASE EndSession
  <2>1. CASE gui.busy /\ Busy([gui EXCEPT !.exitAfter = TRUE], {"exit"})
    BY <2>1, BusyStep DEF SerialInv, SessionType, Flags, Requests
  <2>2. CASE ~gui.busy /\ Takes("Exit", {"exit", "resume"})
    BY <1>2, <2>2, TakesStep DEF EndSession, Controller!Operations
  <2> QED BY <1>2, <2>1, <2>2 DEF EndSession
<1>3. CASE Park \/ ParkTimer
  BY <1>3, TakesStep DEF Park, ParkTimer, Controller!Operations
<1>4. CASE Refresh
  <2>1. SessionType'
    BY <1>4, ReadingType DEF Refresh, StartRefresh, SerialInv, SessionType, Flags
  <2>2. Serial' /\ Shown'
    BY <1>4 DEF Refresh, StartRefresh, SerialInv, SessionType, Flags, Serial, Shown,
                ChangeRuns, RefreshRuns
  <2> QED BY <2>1, <2>2 DEF SerialInv
<1>5. CASE FocusGame \/ FocusEnds
  <2>1. focus' \in BOOLEAN
    BY <1>5 DEF FocusGame, FocusEnds
  <2> QED BY <1>5, <2>1 DEF FocusGame, FocusEnds, SerialInv, SessionType, Serial, Shown,
                            ChangeRuns, RefreshRuns
<1>6. CASE Shutdown
  BY <1>6 DEF Shutdown, SerialInv, SessionType, Flags, Serial, Shown, ChangeRuns, RefreshRuns
<1>7. CASE Leave
  <2>1. session' \in {"none", "active", "parked"}
    BY <1>7, OutcomesType DEF Leave, Controller!Operations, SerialInv, SessionType
  <2> QED BY <1>7, <2>1 DEF Leave, SerialInv, SessionType, Flags, Serial, Shown,
                            ChangeRuns, RefreshRuns
<1>8. CASE ChangeBegins
  BY <1>8 DEF ChangeBegins, SerialInv, SessionType, Serial, Shown, ChangeRuns, RefreshRuns
<1>9. CASE ChangeEnds
  <2>1. session' \in {"none", "active", "parked"}
    BY <1>9, OutcomesType DEF ChangeEnds, SerialInv, SessionType, Flags
  <2> QED BY <1>9, <2>1 DEF ChangeEnds, SerialInv, SessionType, Serial, Shown,
                            ChangeRuns, RefreshRuns
<1>10. CASE RefreshEnds
  BY <1>10 DEF RefreshEnds, SerialInv, SessionType, Readings, Serial, Shown,
               ChangeRuns, RefreshRuns
<1>11. CASE FinishRefresh
  <2>1. gui' \in Flags /\ change' \in {"none", "waits", "runs", "ended"}
    <3>1. gui \in Flags /\ change \in {"none", "waits", "runs", "ended"}
      BY DEF SerialInv, SessionType
    <3>2. [gui EXCEPT !.changePending = FALSE] \in Flags
      BY <3>1 DEF Flags
    <3>3. [gui EXCEPT !.refreshPending = TRUE] \in Flags
      BY <3>1 DEF Flags
    <3>4. [gui EXCEPT !.refreshPending = FALSE, !.checked = TRUE] \in Flags
      BY <3>1 DEF Flags
    <3> QED BY <1>11, <3>1, <3>2, <3>3, <3>4 DEF FinishRefresh, StartRefresh
  <2>2. refresh' \in Readings
    BY <1>11, ReadingType DEF FinishRefresh, StartRefresh, SerialInv, SessionType, Readings
  <2>3. Serial' /\ Shown'
    <3>1. gui \in Flags /\ refresh \in Readings
      BY DEF SerialInv, SessionType
    <3>2. /\ focus' = focus /\ session' = session
          /\ gui'.active = gui.active /\ gui'.parked = gui.parked
          /\ gui'.busy = gui.busy /\ gui'.down = gui.down
      BY <1>11, <3>1 DEF FinishRefresh, StartRefresh, Flags
    <3>3. Shown'
      BY <3>2 DEF SerialInv, Shown
    <3>4. CASE gui.changePending
      <4>1. change' = "waits" /\ refresh'.at = "none" /\ ~gui'.changePending /\ change = "none"
        BY <1>11, <3>1, <3>4 DEF FinishRefresh, Flags, Readings, SerialInv, Serial
      <4>2. ~gui.down => gui.busy
        BY <3>4 DEF SerialInv, Serial
      <4> QED BY <3>2, <3>3, <4>1, <4>2 DEF Serial, ChangeRuns, RefreshRuns
    <3>5. CASE ~gui.changePending
      <4>1. change' = change /\ ~gui'.changePending
        BY <1>11, <3>1, <3>5 DEF FinishRefresh, StartRefresh, Flags
      <4>2. refresh'.at = "none" \/ ~ChangeRuns
        BY <1>11, <3>1, <3>5 DEF FinishRefresh, StartRefresh, Readings
      <4> QED BY <3>2, <3>3, <4>1, <4>2 DEF SerialInv, Serial, ChangeRuns, RefreshRuns
    <3> QED BY <3>4, <3>5
  <2> QED BY <1>11, <2>1, <2>2, <2>3 DEF FinishRefresh, SerialInv, SessionType
<1>12. CASE FinishChange
  <2> USE DEF FinishChange, Again, AtRest
  <2>1. gui' \in Flags
    <3>1. Told \in Flags
      BY ToldType
    <3>2. ASSUME NEW op \in Controller!Operations, NEW b \in BOOLEAN
          PROVE  [Told EXCEPT !.busy = TRUE, !.change = op, !.changePending = b] \in Flags
      BY <3>1 DEF Flags
    <3>3. [Told EXCEPT !.refreshPending = TRUE] \in Flags
      BY <3>1 DEF Flags
    <3>4. [Told EXCEPT !.refreshPending = FALSE, !.checked = TRUE] \in Flags
      BY <3>1 DEF Flags
    <3>5. "Exit" \in Controller!Operations /\ "Resume" \in Controller!Operations
      BY DEF Controller!Operations
    <3>6. RefreshRuns \in BOOLEAN
      BY DEF RefreshRuns
    <3> HIDE DEF Again, AtRest
    <3>7. CASE Again("Exit") \/ Again("Resume")
      BY <3>2, <3>5, <3>6, <3>7 DEF Again
    <3>8. CASE AtRest
      BY <3>1, <3>3, <3>4, <3>8 DEF AtRest
    <3> QED BY <1>12, <3>7, <3>8
  <2>2. refresh' \in Readings
    BY <1>12, ReadingType DEF SerialInv, SessionType
  <2>3. change' \in {"none", "waits", "runs", "ended"} /\ asked' \subseteq Requests
    BY <1>12 DEF SerialInv, SessionType
  <2>4. Serial'
    <3>1. CASE Again("Exit") \/ Again("Resume")
      BY <1>12, <3>1, ToldType DEF SerialInv, SessionType, Serial, Flags, ChangeRuns, RefreshRuns
    <3>2. CASE AtRest
      BY <1>12, <3>2, ToldType DEF SerialInv, SessionType, Serial, Flags, ChangeRuns, RefreshRuns
    <3> QED BY <1>12, <3>1, <3>2
  <2>5. Shown'
    BY <1>12, ToldType DEF Flags, Shown
  <2> QED BY <1>12, <2>1, <2>2, <2>3, <2>4, <2>5 DEF SerialInv, SessionType
<1>13. CASE UNCHANGED sessionVars
  BY <1>13 DEF sessionVars, SerialInv, SessionType, Serial, Shown, ChangeRuns, RefreshRuns
<1> QED
  BY <1>1, <1>2, <1>3, <1>4, <1>5, <1>6, <1>7, <1>8, <1>9, <1>10, <1>11, <1>12, <1>13
  DEF SessionNext

LEMMA SerialAlways == SessionSpec => []SerialInv
BY InitSerial, StepSerial, PTL DEF SessionSpec

---------------------------------------------------------------------------
\* The controller has one user at a time, and what the GUI thread shows of
\* it when idle is its own state (GameModeSession.cpp, startChange(),
\* refresh(), focusGame() and finishChange()).
THEOREM OneUserAlways == SessionSpec => []OneUser
<1>1. SerialInv => OneUser
  BY DEF SerialInv, SessionType, Serial, Shown, OneUser, ChangeRuns, RefreshRuns
<1> QED BY <1>1, SerialAlways, PTL

\* The operation under way is not exchanged for another, so each change
\* the session goes through is one that its operation may have: the
\* requests, however they interleave, implement GameModeOperations.
THEOREM OneAtATime == SessionSpec => Controller!Spec
<1>1. SessionInit => Controller!Init
  BY DEF SessionInit, Controller!Init
<1>2. SerialInv /\ [SessionNext]_sessionVars
      => [Controller!Next]_<<session, IF change = "runs" THEN gui.change ELSE "none">>
  <2> SUFFICES ASSUME SerialInv, [SessionNext]_sessionVars
               PROVE  Controller!Next
                      \/ UNCHANGED <<session, IF change = "runs" THEN gui.change ELSE "none">>
    OBVIOUS
  <2> USE DEF SerialInv, SessionType, Flags, Serial, ChangeRuns, RefreshRuns
  <2>1. CASE Start \/ EndSession \/ Park \/ ParkTimer
    BY <2>1 DEF Start, EndSession, Park, ParkTimer, Busy, Takes, StartChange
  <2>2. CASE Refresh \/ FocusGame \/ Shutdown \/ RefreshEnds \/ FocusEnds
    BY <2>2 DEF Refresh, FocusGame, Shutdown, RefreshEnds, FocusEnds, StartRefresh
  <2>3. CASE Leave
    <3>1. Controller!Outcomes("Exit", session) = {session, "none"}
      BY DEF Controller!Outcomes
    <3> QED BY <2>3, <3>1 DEF Leave, Controller!Next, Controller!Killed
  <2>4. CASE ChangeBegins
    <3>1. Controller!Begins(gui.change)
      BY <2>4 DEF ChangeBegins, Controller!Begins
    <3> QED BY <3>1 DEF Controller!Next
  <2>5. CASE ChangeEnds
    <3>1. Controller!Ends
      BY <2>5 DEF ChangeEnds, Controller!Ends, Controller!Operations
    <3> QED BY <3>1 DEF Controller!Next
  <2>6. CASE FinishRefresh
    BY <2>6 DEF FinishRefresh, StartRefresh
  <2>7. CASE FinishChange
    BY <2>7 DEF FinishChange, Again, AtRest
  <2>8. CASE UNCHANGED sessionVars
    BY <2>8 DEF sessionVars
  <2> QED
    BY <2>1, <2>2, <2>3, <2>4, <2>5, <2>6, <2>7, <2>8 DEF SessionNext
<1> QED BY <1>1, <1>2, SerialAlways, PTL DEF SessionSpec, Controller!Spec

-------------------------------------------------------------------------------

\* GuideListener: a press that toggles was short, came after its node was
\* armed, and nothing went with it.
\*
\* What GuidePress knows of a node lags behind the node by what its queue
\* still holds, and read() takes the whole queue at once, so neither the
\* policy alone nor the queue alone says anything of the next press. The
\* invariant follows the policy's view of a node through the events
\* queued, one view per event: every release on the way finds in the view
\* the press that the kernel stamped it with, and the last view is in step
\* with the node as it is now. What a reading does to the policy is then
\* the last of those views, whatever was dropped, late or left over.
DeviceRecord ==
  [armedAt : Int, heldSince : Int, chord : BOOLEAN, held : BOOLEAN, keysDown : SUBSET Inputs]
ReportRecord == [at : Int, by : Devices \cup {NoDevice}]
PolicyRecord ==
  [device : [Devices -> DeviceRecord], open : SUBSET Devices,
   release : ReportRecord, hold : ReportRecord, capture : ReportRecord]
KeyEvent ==
  [code : Inputs, value : {0, 1}, press : Nat, at : Nat, since : Int, with : SUBSET Inputs]
LostEvent == [code : {Lost}, at : Nat]
QueueEvent == KeyEvent \cup LostEvent
NodeRecord ==
  [there : BOOLEAN, gen : Nat, down : SUBSET Inputs, unseen : SUBSET Inputs, since : Int,
   with : SUBSET Inputs, queue : Seq(QueueEvent)]
Repetition == [code : Inputs, value : {0, 1}, press : Nat, made : Nat]
Timers == [of : Devices, due : Int]
ReadingRecord(s) ==
  [policy : PolicyRecord, timers : SUBSET Timers, pressed : {s.pressed}, signal : {s.signal},
   captured : {s.captured}, current : {s.current}]

PadRecord(p) ==
  [down : SUBSET Inputs, downs : Nat, press : [Inputs -> Nat], since : {p.since}, alone : {p.alone},
   good : {p.good}]

\* The types; what is history only is left as it is.
ListenTypes ==
  /\ now \in Nat
  /\ pad \in PadRecord(pad)
  /\ lagging \in [Mirrored -> Seq(Repetition)]
  /\ node \in [Devices -> NodeRecord]
  /\ table \in [Devices -> [gen : Nat, triggers : BOOLEAN]]
  /\ policy \in PolicyRecord
  /\ timers \subseteq Timers
  /\ out \in [presses : {out.presses}, signals : {out.signals}, holds : {out.holds},
                  captures : {out.captures}, early : {out.early}]

\* What the policy of a node says of a press, without what it says of holds.
View(state) ==
  [armedAt |-> state.armedAt, heldSince |-> state.heldSince, chord |-> state.chord, keys |-> state.keysDown]
ViewRecord == [armedAt : Int, heldSince : Int, chord : BOOLEAN, keys : SUBSET Inputs]

\* The view after one more event.
KeysAfter(keys, e) ==
  IF e.code \notin Buttons THEN keys ELSE IF e.value = 1 THEN keys \cup {e.code} ELSE keys \ {e.code}
Viewed(v, e) ==
  IF e.code = Lost
  THEN [armedAt |-> v.armedAt, heldSince |-> Never, chord |-> FALSE, keys |-> {}]
  ELSE IF e.code # Guide
  THEN [armedAt |-> v.armedAt, heldSince |-> v.heldSince,
        chord |-> v.chord \/ (e.value = 1 /\ v.heldSince >= 0), keys |-> KeysAfter(v.keys, e)]
  ELSE IF e.value = 1
  THEN [armedAt |-> v.armedAt, heldSince |-> IF e.at >= v.armedAt THEN e.at ELSE Never,
        chord |-> v.keys # {}, keys |-> v.keys]
  ELSE IF v.heldSince < 0 THEN v
  ELSE [armedAt |-> v.armedAt, heldSince |-> Never, chord |-> FALSE, keys |-> v.keys]

\* Views are views, whatever the event.
LEMMA ViewType ==
  ASSUME NEW state \in DeviceRecord
  PROVE  View(state) \in ViewRecord
BY DEF View, ViewRecord, DeviceRecord

LEMMA ViewedType ==
  ASSUME NEW v \in ViewRecord, NEW e \in QueueEvent
  PROVE  Viewed(v, e) \in ViewRecord
<1>1. e.code \in Inputs \cup {Lost} /\ (e.code # Lost => e.at \in Nat)
  BY DEF QueueEvent, KeyEvent, LostEvent
<1>2. KeysAfter(v.keys, e) \in SUBSET Inputs
  <2>1. v.keys \in SUBSET Inputs
    BY DEF ViewRecord
  <2> QED BY <1>1, <2>1, InputsAssumption DEF KeysAfter, Inputs
<1> QED BY <1>1, <1>2 DEF Viewed, ViewRecord, Never

\* A policy whose state of one node is another.
LEMMA PolicyWith ==
  ASSUME NEW p \in PolicyRecord, NEW d \in Devices, NEW state \in DeviceRecord
  PROVE  /\ [p EXCEPT !.device[d] = state] \in PolicyRecord
         /\ [p EXCEPT !.device[d] = state].device = [p.device EXCEPT ![d] = state]
         /\ [p EXCEPT !.device[d] = state].open = p.open
BY DEF PolicyRecord

\* What the reading of one event does to the state of its node, and when
\* it is a press.
LEMMA GuideDownDoes ==
  ASSUME NEW p \in PolicyRecord, NEW d \in Devices, NEW at \in Nat
  PROVE  LET new == GuideDown(p, d, at)
             v == View(p.device[d])
         IN  /\ new \in PolicyRecord /\ new.open = p.open
             /\ \A x \in Devices \ {d} : new.device[x] = p.device[x]
             /\ View(new.device[d]) =
                  [armedAt |-> v.armedAt, heldSince |-> IF at >= v.armedAt THEN at ELSE Never,
                   chord |-> v.keys # {}, keys |-> v.keys]
<1> DEFINE new == GuideDown(p, d, at)
           st == p.device[d]
           since == IF at >= st.armedAt THEN at ELSE Never
           keyed == st.keysDown # {}
           after == [st EXCEPT !.heldSince = since, !.chord = keyed, !.held = FALSE]
<1>1. new = [p EXCEPT !.device[d] = after]
  BY Zenon DEF GuideDown
<1>2. st \in DeviceRecord
  BY DEF PolicyRecord
<1>3. since \in Int /\ keyed \in BOOLEAN
  BY <1>2 DEF DeviceRecord, Never
<1>4. View(st) = [armedAt |-> st.armedAt, heldSince |-> st.heldSince, chord |-> st.chord, keys |-> st.keysDown]
  BY DEF View
<1> HIDE DEF st
<1>5. after \in DeviceRecord /\ View(after) = [armedAt |-> st.armedAt, heldSince |-> since, chord |-> keyed, keys |-> st.keysDown]
  <2> HIDE DEF since, keyed
  <2> QED BY <1>2, <1>3 DEF DeviceRecord, View
<1>6. new.device[d] = after
  <2> HIDE DEF after
  <2> QED BY <1>1, <1>5, PolicyWith DEF PolicyRecord
<1>7. new \in PolicyRecord /\ new.open = p.open /\ \A x \in Devices \ {d} : new.device[x] = p.device[x]
  <2> HIDE DEF after, new
  <2> QED BY <1>1, <1>5, PolicyWith DEF PolicyRecord
<1>8. View(st).armedAt = st.armedAt /\ View(st).keys = st.keysDown
  BY <1>4
<1> QED BY <1>5, <1>6, <1>7, <1>8 DEF st

\* What the reading of an event leaves of the policy, but for mirrors.
InStepWith(p, new, d, e) ==
  /\ new \in PolicyRecord /\ new.open = p.open
  /\ \A x \in Devices \ {d} : new.device[x] = p.device[x]
  /\ View(new.device[d]) = Viewed(View(p.device[d]), e)

\* The mirror windows keep their type, told anew or not.
LEMMA ReportedType ==
  ASSUME NEW report \in ReportRecord, NEW d \in Devices, NEW at \in Int
  PROVE  Reported(report, d, at) \in ReportRecord
BY DEF Reported, ReportRecord

\* Guide goes up: the press is over for this node.
LEMMA GuideUpDoes ==
  ASSUME NEW p \in PolicyRecord, NEW d \in Devices, NEW at \in Nat
  PROVE  LET new == GuideUp(p, d, at)
             v == View(p.device[d])
         IN  /\ new \in PolicyRecord /\ new.open = p.open
             /\ \A x \in Devices \ {d} : new.device[x] = p.device[x]
             /\ View(new.device[d]) =
                  [armedAt |-> v.armedAt, heldSince |-> Never, chord |-> FALSE, keys |-> v.keys]
<1> DEFINE new == GuideUp(p, d, at)
           st == p.device[d]
           after == [st EXCEPT !.heldSince = Never, !.chord = FALSE, !.held = FALSE]
           told == Reported(p.release, d, at)
<1>1. new = [p EXCEPT !.device[d] = after, !.release = told]
  BY Zenon DEF GuideUp
<1>2. st \in DeviceRecord /\ told \in ReportRecord
  BY ReportedType DEF PolicyRecord
<1>4. View(st) = [armedAt |-> st.armedAt, heldSince |-> st.heldSince, chord |-> st.chord, keys |-> st.keysDown]
  BY DEF View
<1> HIDE DEF st, told
<1>5. after \in DeviceRecord /\ View(after) = [armedAt |-> st.armedAt, heldSince |-> Never, chord |-> FALSE, keys |-> st.keysDown]
  <2>1. Never \in Int
    BY DEF Never
  <2> QED BY <1>2, <2>1 DEF DeviceRecord, View
<1> DEFINE mid == [p EXCEPT !.device[d] = after]
<1>6. mid \in PolicyRecord /\ mid.open = p.open /\ mid.device = [p.device EXCEPT ![d] = after]
  <2> HIDE DEF after
  <2> QED BY <1>5, PolicyWith
<1>7. new = [mid EXCEPT !.release = told]
  BY <1>1
<1> HIDE DEF mid, after
<1>8. new \in PolicyRecord /\ new.open = p.open /\ new.device = [p.device EXCEPT ![d] = after]
  BY <1>2, <1>6, <1>7 DEF PolicyRecord
<1>9. new.device[d] = after /\ \A x \in Devices \ {d} : new.device[x] = p.device[x]
  BY <1>8 DEF PolicyRecord
<1>10. View(st).armedAt = st.armedAt /\ View(st).keys = st.keysDown
  BY <1>4
<1> QED BY <1>5, <1>8, <1>9, <1>10 DEF st

\* Any other input, which makes a chord of a press that is a candidate.
LEMMA OtherDoes ==
  ASSUME NEW p \in PolicyRecord, NEW d \in Devices, NEW e \in KeyEvent
  PROVE  LET new == Other(p, d, e)
             v == View(p.device[d])
         IN  /\ new \in PolicyRecord /\ new.open = p.open
             /\ \A x \in Devices \ {d} : new.device[x] = p.device[x]
             /\ View(new.device[d]) =
                  [armedAt |-> v.armedAt, heldSince |-> v.heldSince,
                   chord |-> v.chord \/ (e.value = 1 /\ v.heldSince >= 0), keys |-> KeysAfter(v.keys, e)]
<1> DEFINE new == Other(p, d, e)
           st == p.device[d]
           keys == KeysAfter(st.keysDown, e)
           chorded == st.chord \/ (e.value = 1 /\ st.heldSince >= 0)
           after == [st EXCEPT !.keysDown = keys, !.chord = chorded]
<1>1. new = [p EXCEPT !.device[d] = after]
  BY Zenon DEF Other, KeysAfter
<1>2. st \in DeviceRecord
  BY DEF PolicyRecord
<1>3. keys \in SUBSET Inputs /\ chorded \in BOOLEAN
  <2>1. st.keysDown \in SUBSET Inputs /\ e.code \in Inputs /\ st.chord \in BOOLEAN
    BY <1>2 DEF DeviceRecord, KeyEvent
  <2> QED BY <2>1 DEF KeysAfter
<1>4. View(st) = [armedAt |-> st.armedAt, heldSince |-> st.heldSince, chord |-> st.chord, keys |-> st.keysDown]
  BY DEF View
<1> HIDE DEF st
<1>5. after \in DeviceRecord /\ View(after) = [armedAt |-> st.armedAt, heldSince |-> st.heldSince, chord |-> chorded, keys |-> keys]
  <2> HIDE DEF keys, chorded
  <2> QED BY <1>2, <1>3 DEF DeviceRecord, View
<1>6. new.device[d] = after
  <2> HIDE DEF after
  <2> QED BY <1>1, <1>5, PolicyWith DEF PolicyRecord
<1>7. new \in PolicyRecord /\ new.open = p.open /\ \A x \in Devices \ {d} : new.device[x] = p.device[x]
  <2> HIDE DEF after, new
  <2> QED BY <1>1, <1>5, PolicyWith DEF PolicyRecord
<1>8. View(st).armedAt = st.armedAt /\ View(st).keys = st.keysDown /\ View(st).heldSince = st.heldSince
      /\ View(st).chord = st.chord
  BY <1>4
<1>9. View(after) = [armedAt |-> View(st).armedAt, heldSince |-> View(st).heldSince,
                     chord |-> View(st).chord \/ (e.value = 1 /\ View(st).heldSince >= 0),
                     keys |-> KeysAfter(View(st).keys, e)]
  BY <1>5, <1>8, Zenon
<1> HIDE DEF after, new
<1> QED BY <1>6, <1>7, <1>9 DEF st, new

\* SYN_DROPPED forgets the candidate and the keys, not what is armed.
LEMMA DroppedDoes ==
  ASSUME NEW p \in PolicyRecord, NEW d \in p.open, NEW e \in LostEvent
  PROVE  InStepWith(p, Dropped(p, d), d, e)
<1> DEFINE new == Dropped(p, d)
           st == p.device[d]
           after == [st EXCEPT !.heldSince = Never, !.chord = FALSE, !.keysDown = {}]
<1>0. d \in Devices /\ e.code = Lost
  BY DEF PolicyRecord, LostEvent
<1>1. new = [p EXCEPT !.device[d] = after]
  BY Zenon DEF Dropped
<1>2. st \in DeviceRecord
  BY <1>0 DEF PolicyRecord
<1>4. View(st).armedAt = st.armedAt
  BY DEF View
<1> HIDE DEF st
<1>5. after \in DeviceRecord /\ View(after) = [armedAt |-> st.armedAt, heldSince |-> Never, chord |-> FALSE, keys |-> {}]
  <2>1. Never \in Int
    BY DEF Never
  <2> QED BY <1>2, <2>1 DEF DeviceRecord, View
<1>6. new.device[d] = after
  <2> HIDE DEF after
  <2> QED BY <1>0, <1>1, <1>5, PolicyWith DEF PolicyRecord
<1>7. new \in PolicyRecord /\ new.open = p.open /\ \A x \in Devices \ {d} : new.device[x] = p.device[x]
  <2> HIDE DEF after, new
  <2> QED BY <1>0, <1>1, <1>5, PolicyWith DEF PolicyRecord
<1>8. Viewed(View(st), e) = [armedAt |-> st.armedAt, heldSince |-> Never, chord |-> FALSE, keys |-> {}]
  BY <1>0, <1>4 DEF Viewed
<1> HIDE DEF after, new
<1> QED BY <1>5, <1>6, <1>7, <1>8 DEF st, new, InStepWith

\* capture() leaves the state of every node alone.
LEMMA CaptureDoes ==
  ASSUME NEW p \in PolicyRecord, NEW d \in Devices, NEW e \in KeyEvent
  PROVE  LET new == Capture(p, d, e).policy
         IN  new \in PolicyRecord /\ new.open = p.open /\ new.device = p.device
<1> DEFINE told == Reported(p.capture, d, e.at)
<1>1. told \in ReportRecord
  BY ReportedType DEF PolicyRecord, KeyEvent
<1>2. Capture(p, d, e).policy = p \/ Capture(p, d, e).policy = [p EXCEPT !.capture = told]
  BY DEF Capture
<1> HIDE DEF told
<1> QED BY <1>1, <1>2 DEF PolicyRecord

\* event() is one step of the view; it counts a release only of a
\* candidate that is no chord and was short.
LEMMA EventDoes ==
  ASSUME NEW p \in PolicyRecord, NEW d \in p.open, NEW e \in KeyEvent
  PROVE  /\ InStepWith(p, Event(p, d, e).policy, d, e)
         /\ Event(p, d, e).yes =>
              /\ e.code = Guide /\ e.value = 0 /\ View(p.device[d]).heldSince >= 0
              /\ ~View(p.device[d]).chord
              /\ e.at - View(p.device[d]).heldSince <= MaxHoldMs
<1> DEFINE v == View(p.device[d])
<1>0. d \in Devices /\ e.code \in Inputs /\ e.code # Lost /\ e.at \in Nat /\ e.value \in {0, 1}
  BY LostIsNoInput DEF PolicyRecord, KeyEvent
<1>1. v.heldSince = p.device[d].heldSince /\ v.chord = p.device[d].chord /\ v \in ViewRecord
  BY <1>0, ViewType DEF View, PolicyRecord
<1> HIDE DEF v
<1>2. CASE e.code # Guide
  <2>1. Event(p, d, e).policy = Other(p, d, e) /\ Event(p, d, e).yes = FALSE
    BY <1>2 DEF Event
  <2> QED BY <1>0, <1>2, <2>1, OtherDoes DEF InStepWith, Viewed
<1>3. CASE e.code = Guide /\ e.value = 1
  <2>1. Event(p, d, e).policy = GuideDown(p, d, e.at) /\ Event(p, d, e).yes = FALSE
    BY <1>3 DEF Event
  <2> QED BY <1>0, <1>3, <2>1, GuideDownDoes DEF InStepWith, Viewed
<1>4. CASE e.code = Guide /\ e.value = 0 /\ p.device[d].heldSince < 0
  <2>1. Event(p, d, e).policy = p /\ Event(p, d, e).yes = FALSE
    BY <1>4 DEF Event
  <2>2. Viewed(v, e) = v
    BY <1>0, <1>1, <1>4 DEF Viewed
  <2> QED BY <2>1, <2>2 DEF InStepWith, v
<1>5. CASE e.code = Guide /\ e.value = 0 /\ ~(p.device[d].heldSince < 0)
  <2>1. Event(p, d, e).policy = GuideUp(p, d, e.at) /\ Event(p, d, e).yes = Counts(p, d, e.at)
    <3>1. e.code = Guide /\ e.value # 1 /\ d \in p.open
      BY <1>5
    <3> QED BY <1>5, <3>1, Zenon DEF Event
  <2>2. Viewed(v, e) = [armedAt |-> v.armedAt, heldSince |-> Never, chord |-> FALSE, keys |-> v.keys]
    BY <1>0, <1>1, <1>5 DEF Viewed
  <2>3. InStepWith(p, GuideUp(p, d, e.at), d, e)
    BY <1>0, <2>2, GuideUpDoes DEF InStepWith, v
  <2>4. p.device[d].heldSince \in Int
    BY <1>0 DEF PolicyRecord, DeviceRecord
  <2>5. ASSUME Counts(p, d, e.at)
        PROVE  ~v.chord /\ e.at - v.heldSince <= MaxHoldMs
    BY <1>1, <2>5, Zenon DEF Counts
  <2>6. v.heldSince >= 0
    BY <1>1, <1>5, <2>4
  <2> QED BY <1>5, <2>1, <2>3, <2>5, <2>6 DEF v
<1> QED BY <1>0, <1>2, <1>3, <1>4, <1>5

\* A press that toggles, as the event that completes it tells it.
Press(v, d, e) ==
  [by |-> d, press |-> e.press, took |-> e.at - e.since, with |-> e.with, armed |-> e.since >= v.armedAt]
Completes(v, e) ==
  /\ e.code = Guide /\ e.value = 0 /\ v.heldSince >= 0 /\ ~v.chord
  /\ e.at - v.heldSince <= MaxHoldMs

\* One event of the queue: capture, event and timers together.
LEMMA ReadEventDoes ==
  ASSUME now \in Nat, NEW d, NEW s, s \in ReadingRecord(s), d \in s.policy.open, NEW e \in QueueEvent
  PROVE  LET new == ReadEvent(d, s, e)
             v == View(s.policy.device[d])
         IN  /\ new \in ReadingRecord(new)
             /\ InStepWith(s.policy, new.policy, d, e)
             /\ \A r \in new.pressed : r \in s.pressed \/ (Completes(v, e) /\ r = Press(v, d, e))
<1> DEFINE new == ReadEvent(d, s, e)
           v == View(s.policy.device[d])
           p == s.policy
<1>0. p \in PolicyRecord /\ d \in Devices /\ s.timers \subseteq Timers
  BY DEF ReadingRecord, PolicyRecord
<1>1. CASE e \in LostEvent
  <2>1. new = [s EXCEPT !.policy = Dropped(p, d)]
    BY <1>1 DEF ReadEvent, LostEvent
  <2>2. InStepWith(p, Dropped(p, d), d, e)
    BY <1>0, <1>1, DroppedDoes
  <2>3. new \in ReadingRecord(new) /\ new.policy = Dropped(p, d) /\ new.pressed = s.pressed
    <3>1. Dropped(p, d) \in PolicyRecord
      BY <2>2 DEF InStepWith
    <3> HIDE DEF p
    <3> QED BY <2>1, <3>1 DEF ReadingRecord
  <2> QED BY <2>2, <2>3
<1>2. CASE e \in KeyEvent
  <2> DEFINE capture == Capture(p, d, e)
             event == Event(capture.policy, d, e)
             begins == ~Holding(capture.policy, d) /\ Holding(event.policy, d)
             told == [by |-> d, press |-> e.press]
             press == [by |-> d, press |-> e.press, took |-> e.at - e.since, with |-> e.with,
                       armed |-> e.since >= s.policy.device[d].armedAt]
             more == IF begins THEN {[of |-> d, due |-> now + HoldTimerMs]} ELSE {}
             clips == IF capture.yes THEN {told} ELSE {}
             presses == IF event.yes THEN {press} ELSE {}
             sent == IF event.yes THEN {e.press} ELSE s.signal
             last == IF e.code = Guide /\ e.value = 1 THEN e.press ELSE s.current
  <2>1. e.code # Lost
    BY <1>2, LostIsNoInput DEF KeyEvent
  <2>2. new = [policy |-> event.policy, timers |-> s.timers \cup more,
               captured |-> s.captured \cup clips, pressed |-> s.pressed \cup presses, signal |-> sent, current |-> last]
    BY <2>1, Zenon DEF ReadEvent
  <2>3. capture.policy \in PolicyRecord /\ capture.policy.open = p.open /\ capture.policy.device = p.device
    BY <1>0, <1>2, CaptureDoes
  <2> HIDE DEF capture
  <2>4. /\ InStepWith(capture.policy, event.policy, d, e)
        /\ event.yes => Completes(View(capture.policy.device[d]), e)
    BY <1>2, <2>3, EventDoes DEF Completes
  <2>5. InStepWith(p, event.policy, d, e) /\ (event.yes => Completes(v, e))
    BY <2>3, <2>4 DEF InStepWith
  <2>6. press = Press(v, d, e)
    BY DEF Press, View
  <2>7. more \subseteq Timers
    <3>1. now + HoldTimerMs \in Int
      BY ListenerAssumption, TimesAssumption
    <3> QED BY <1>0, <3>1 DEF Timers
  <2>8. presses = {} \/ (event.yes /\ presses = {press})
    OBVIOUS
  <2> HIDE DEF event, more, clips, presses, sent, last, press, v, p
  <2>9. new.policy = event.policy /\ new.pressed = s.pressed \cup presses /\ new.timers = s.timers \cup more
    BY <2>2
  <2>10. new \in ReadingRecord(new)
    <3>1. event.policy \in PolicyRecord
      BY <2>5 DEF InStepWith
    <3> QED BY <1>0, <2>2, <2>7, <3>1 DEF ReadingRecord
  <2> HIDE DEF new
  <2>11. \A r \in new.pressed : r \in s.pressed \/ (Completes(v, e) /\ r = Press(v, d, e))
    BY <2>5, <2>6, <2>8, <2>9
  <2> QED BY <2>5, <2>9, <2>10, <2>11 DEF new, v, p
<1> QED BY <1>1, <1>2 DEF QueueEvent

\* Every set of natural numbers has a least one, which is induction.
LEMMA LeastNatural ==
  ASSUME NEW T \in SUBSET Nat, T # {}
  PROVE  \E x \in T : \A y \in T : x <= y
<1>1. IsWellFoundedOn(OpToRel(<, Nat), Nat)
  BY NatLessThanWellFounded, Zenon
<1> DEFINE R == OpToRel(<, Nat)
<1>2. R = {s \in Nat \X Nat : s[1] < s[2]}
  BY Zenon DEF OpToRel
<1> HIDE DEF R
<1>3. PICK x \in T : \A y \in T : ~(<<y, x>> \in R)
  BY <1>1, WFMin, Zenon DEF R
<1>4. ASSUME NEW y \in T PROVE x <= y
  <2>1. <<y, x>> \in Nat \X Nat /\ <<y, x>>[1] = y /\ <<y, x>>[2] = x
    OBVIOUS
  <2>2. ~(y < x)
    BY <1>2, <1>3, <2>1
  <2> QED BY <2>1, <2>2
<1> QED BY <1>4

\* A set of indices has a last one.
LEMMA LastIndex ==
  ASSUME NEW n \in Nat, NEW s \in SUBSET (1 .. n), s # {}
  PROVE  Max(s) \in s /\ \A x \in s : x <= Max(s)
<1> DEFINE Bound == {m \in Nat : \A x \in s : x <= m}
<1>1. n \in Bound
  OBVIOUS
<1>2. PICK m \in Bound : \A k \in Bound : m <= k
  <2>1. Bound \in SUBSET Nat /\ Bound # {}
    BY <1>1
  <2> HIDE DEF Bound
  <2> QED BY <2>1, LeastNatural
<1>3. m \in s
  <2> SUFFICES ASSUME m \notin s PROVE FALSE
    OBVIOUS
  <2>1. PICK y \in s : TRUE
    OBVIOUS
  <2>2. \A x \in s : x \in Nat /\ x <= m - 1
    BY <1>2
  <2>3. m - 1 \in Nat
    BY <1>2, <2>1, <2>2
  <2>4. m - 1 \in Bound
    BY <2>2, <2>3
  <2>5. m <= m - 1
    BY <1>2, <2>4
  <2> QED BY <1>2, <2>5
<1>4. \A x \in s : m >= x
  BY <1>2
<1>5. Max(s) \in s /\ \A x \in s : Max(s) >= x
  BY <1>3, <1>4, Zenon DEF Max
<1> QED BY <1>5, <1>2

\* What the events up to one leave, as the function behind FoldLeft.
IsReading(d, start, queue, f, s0) ==
  f = [s \in SUBSET s0 |-> IF s = {} THEN start ELSE ReadEvent(d, f[s \ {Max(s)}], queue[Max(s)])]

\* That function exists for every queue, by induction over its length:
\* there is no least length that has none.
LEMMA ReadingExists ==
  ASSUME NEW d, NEW start, NEW queue, NEW n \in Nat
  PROVE  \E f : IsReading(d, start, queue, f, 1 .. n)
<1> DEFINE Built(k) == \E f : IsReading(d, start, queue, f, 1 .. k)
           Bad == {k \in Nat : ~Built(k)}
<1> SUFFICES ASSUME Bad # {} PROVE FALSE
  OBVIOUS
<1>1. PICK k \in Bad : \A j \in Bad : k <= j
  <2>1. Bad \in SUBSET Nat
    OBVIOUS
  <2> HIDE DEF Bad
  <2> QED BY <2>1, LeastNatural
<1>2. k # 0
  <2> SUFFICES ASSUME k = 0 PROVE FALSE
    OBVIOUS
  <2> DEFINE f == [s \in SUBSET (1 .. 0) |-> start]
  <2>1. \A s \in SUBSET (1 .. 0) : s = {}
    OBVIOUS
  <2>2. f = [s \in SUBSET (1 .. 0) |-> IF s = {} THEN start
                                       ELSE ReadEvent(d, f[s \ {Max(s)}], queue[Max(s)])]
    BY <2>1
  <2>3. Built(0)
    BY <2>2, Zenon DEF IsReading
  <2> QED BY <1>1, <2>3
<1>3. k \in Nat /\ k - 1 \in Nat /\ Built(k - 1)
  <2>1. k \in Nat /\ k - 1 \in Nat
    BY <1>2
  <2>2. k - 1 \notin Bad
    BY <1>1, <2>1
  <2> QED BY <2>1, <2>2
<1>4. PICK f : IsReading(d, start, queue, f, 1 .. (k - 1))
  BY <1>3
<1> DEFINE Next0(s) == IF k \in s THEN ReadEvent(d, f[s \ {k}], queue[k]) ELSE f[s]
           g == [s \in SUBSET (1 .. k) |-> Next0(s)]
<1>5. ASSUME NEW s \in SUBSET (1 .. k)
      PROVE  g[s] = IF s = {} THEN start ELSE ReadEvent(d, g[s \ {Max(s)}], queue[Max(s)])
  <2>1. g[s] = Next0(s)
    OBVIOUS
  <2>2. CASE s = {}
    <3>1. s \in SUBSET (1 .. (k - 1)) /\ k \notin s
      BY <2>2
    <3>2. f[s] = start
      BY <1>4, <2>2, <3>1, Zenon DEF IsReading
    <3> QED BY <2>1, <2>2, <3>1, <3>2
  <2>3. CASE k \in s
    <3>1. Max(s) = k
      <4>1. s # {} /\ k \in Nat
        BY <1>3, <2>3
      <4>2. Max(s) \in s /\ \A x \in s : x <= Max(s)
        <5>1. Max(s) \in s
          BY <1>3, <4>1, LastIndex
        <5>2. \A x \in s : x <= Max(s)
          BY <1>3, <4>1, LastIndex
        <5> QED BY <5>1, <5>2
      <4>3. \A x \in s : x \in Nat /\ x <= k
        BY <4>1
      <4>4. k \in s
        BY <2>3
      <4>5. k <= Max(s) /\ Max(s) <= k /\ Max(s) \in Nat /\ k \in Nat
        BY <4>1, <4>2, <4>3, <4>4, Zenon
      <4> QED BY <4>5
    <3>2. s \ {k} \in SUBSET (1 .. (k - 1)) /\ s \ {k} \in SUBSET (1 .. k)
      BY <1>3
    <3>3. g[s \ {k}] = f[s \ {k}]
      BY <3>2
    <3> QED BY <2>1, <2>3, <3>1, <3>3
  <2>4. CASE s # {} /\ k \notin s
    <3>1. s \in SUBSET (1 .. (k - 1))
      BY <1>3, <2>4
    <3>2. Max(s) \in s
      BY <1>3, <2>4, LastIndex
    <3>3. s \ {Max(s)} \in SUBSET (1 .. k) /\ k \notin s \ {Max(s)}
      BY <2>4
    <3>4. g[s \ {Max(s)}] = f[s \ {Max(s)}]
      BY <3>3
    <3>5. f[s] = ReadEvent(d, f[s \ {Max(s)}], queue[Max(s)])
      BY <1>4, <2>4, <3>1, Zenon DEF IsReading
    <3> QED BY <2>1, <2>4, <3>4, <3>5
  <2> QED BY <2>2, <2>3, <2>4
<1> HIDE DEF Next0
<1>6. IsReading(d, start, queue, g, 1 .. k)
  <2> DEFINE h == [s \in SUBSET (1 .. k) |-> IF s = {} THEN start ELSE ReadEvent(d, g[s \ {Max(s)}], queue[Max(s)])]
  <2>1. g = h
    BY <1>5, Zenon
  <2> QED BY <2>1, Zenon DEF IsReading
<1> QED BY <1>1, <1>6

\* Event by event: the function behind the fold, from one to the next.
LEMMA DrainedUnfold ==
  ASSUME NEW d, NEW start, NEW S, NEW queue \in Seq(S)
  PROVE  \E f : /\ Drained(d, start, queue) = f[Len(queue)]
                /\ f[0] = start
                /\ \A n \in 1 .. Len(queue) : f[n] = ReadEvent(d, f[n - 1], queue[n])
<1> DEFINE D == DOMAIN queue
           iter == CHOOSE f : IsReading(d, start, queue, f, D)
           f == [n \in 0 .. Len(queue) |-> iter[1 .. n]]
<1>1. D = 1 .. Len(queue) /\ Len(queue) \in Nat
  OBVIOUS
<1>2. Drained(d, start, queue) = iter[D]
  BY Zenon DEF Drained, FoldLeft, MapThenFoldSet, IsReading
<1>3. IsReading(d, start, queue, iter, D)
  <2>1. \E h : IsReading(d, start, queue, h, D)
    BY <1>1, ReadingExists
  <2> QED BY <2>1, Zenon
<1> HIDE DEF D, iter
<1>4. \A s \in SUBSET D : iter[s] = IF s = {} THEN start ELSE ReadEvent(d, iter[s \ {Max(s)}], queue[Max(s)])
  BY <1>3, Zenon DEF IsReading
<1>5. Drained(d, start, queue) = f[Len(queue)]
  BY <1>1, <1>2
<1>6. f[0] = start
  <2>1. 1 .. 0 = {} /\ 1 .. 0 \in SUBSET D
    OBVIOUS
  <2>2. f[0] = iter[1 .. 0]
    BY <1>1
  <2> QED BY <1>4, <2>1, <2>2
<1>7. ASSUME NEW n \in 1 .. Len(queue) PROVE f[n] = ReadEvent(d, f[n - 1], queue[n])
  <2>0. n \in Nat /\ n >= 1 /\ n <= Len(queue)
    BY <1>1
  <2>1. n \in 1 .. n /\ 1 .. n \in SUBSET D /\ 1 .. n # {}
    <3>1. \A x \in 1 .. n : x \in 1 .. Len(queue)
      BY <1>1, <2>0
    <3>2. 1 .. n \in SUBSET D
      BY <1>1, <3>1
    <3> QED BY <2>0, <3>2
  <2>2. Max(1 .. n) = n
    <3>1. 1 .. n \in SUBSET (1 .. n) /\ n \in Nat
      BY <1>1
    <3>2. Max(1 .. n) \in 1 .. n /\ \A x \in 1 .. n : x <= Max(1 .. n)
      BY <2>1, <3>1, LastIndex
    <3> QED BY <2>1, <3>1, <3>2
  <2>3. (1 .. n) \ {n} = 1 .. (n - 1)
    BY <1>1
  <2>4. f[n] = iter[1 .. n] /\ f[n - 1] = iter[1 .. (n - 1)]
    BY <1>1
  <2>5. iter[1 .. n] = ReadEvent(d, iter[(1 .. n) \ {n}], queue[n])
    BY <1>4, <2>1, <2>2
  <2> QED BY <2>3, <2>4, <2>5
<1> HIDE DEF f
<1> QED BY <1>5, <1>6, <1>7


-----------------------------------------------------------------------------
\* What the node knows of a press that its reader has for a candidate, at
\* the end of what is queued; and every key that is down and was told is
\* known to be.
Sync(v, n, t) ==
  /\ v.heldSince >= 0 => /\ n.since = v.heldSince /\ n.since >= v.armedAt /\ n.since <= t
                         /\ Guide \in n.down
                         /\ (~v.chord => n.with = {})
  /\ (n.down \cap Buttons) \ n.unseen \subseteq v.keys

\* A release that is read while a press is a candidate is that press's.
Ends(v, e) ==
  e.code = Guide /\ e.value = 0 /\ v.heldSince >= 0 =>
    /\ e.since = v.heldSince /\ e.since >= v.armedAt /\ e.at >= e.since
    /\ (~v.chord => e.with = {})

\* What the queue makes of the view, event by event.
IsFollowed(views, state, n, t) ==
  /\ views \in [0 .. Len(n.queue) -> ViewRecord]
  /\ views[0] = View(state)
  /\ \A i \in 1 .. Len(n.queue) :
       views[i] = Viewed(views[i - 1], n.queue[i]) /\ Ends(views[i - 1], n.queue[i])
  /\ Sync(views[Len(n.queue)], n, t)
Followed(state, n, t) == \E views : IsFollowed(views, state, n, t)

\* How a node is after an event of its input that is queued.
DownAfter(n, e) == IF e.value = 1 THEN n.down \cup {e.code} ELSE n.down \ {e.code}
WithAfter(n, e) == With(n, e, DownAfter(n, e), n.unseen \ {e.code})
SinceAfter(n, e, t) == IF e.code = Guide /\ e.value = 1 THEN t ELSE n.since
ReportsEvent(n, e, t, event, new) ==
  /\ e.code \in Inputs /\ e.value \in {0, 1}
  /\ event.code = e.code /\ event.value = e.value /\ event.at = t
  /\ event.since = SinceAfter(n, e, t) /\ event.with = WithAfter(n, e)
  /\ new.down = DownAfter(n, e) /\ new.unseen = n.unseen \ {e.code}
  /\ new.since = (IF Guide \in DownAfter(n, e) THEN SinceAfter(n, e, t) ELSE Never)
  /\ new.with = (IF Guide \in DownAfter(n, e) THEN WithAfter(n, e) ELSE {})

\* A queued event finds its press in the last view, and takes the view to
\* one that is in step with the node after it.
LEMMA ReportInStep ==
  ASSUME NEW n \in NodeRecord, NEW v \in ViewRecord, NEW t \in Nat, Sync(v, n, t),
         NEW e, NEW event, NEW new, ReportsEvent(n, e, t, event, new)
  PROVE  Ends(v, event) /\ Sync(Viewed(v, event), new, t)
<1> DEFINE down == DownAfter(n, e)
           unseen == n.unseen \ {e.code}
           with == WithAfter(n, e)
           since == SinceAfter(n, e, t)
<1>0. /\ e.code \in Inputs /\ e.value \in {0, 1}
      /\ event.code = e.code /\ event.value = e.value /\ event.at = t
      /\ event.since = since /\ event.with = with
      /\ new.down = down /\ new.unseen = unseen
      /\ new.since = (IF Guide \in down THEN since ELSE Never)
      /\ new.with = (IF Guide \in down THEN with ELSE {})
  BY DEF ReportsEvent
<1>a. /\ down = (IF e.value = 1 THEN n.down \cup {e.code} ELSE n.down \ {e.code})
      /\ unseen = n.unseen \ {e.code} /\ with = With(n, e, down, unseen)
      /\ since = (IF e.code = Guide /\ e.value = 1 THEN t ELSE n.since)
  BY DEF DownAfter, WithAfter, SinceAfter
<1> HIDE DEF down, unseen, with, since
<1> USE <1>0, <1>a
<1>1. event.code # Lost
  BY LostIsNoInput
<1>2. v.heldSince \in Int /\ v.armedAt \in Int /\ v.chord \in BOOLEAN /\ n.since \in Int
  BY DEF ViewRecord, NodeRecord
<1>3. CASE e.code # Guide
  <2>1. since = n.since /\ (Guide \in down <=> Guide \in n.down)
    BY <1>3
  <2>2. with = n.with \cup (IF e.value = 1 /\ Guide \in down THEN {e.code} ELSE {})
    BY <1>3 DEF With
  <2> DEFINE chorded == v.chord \/ (event.value = 1 /\ v.heldSince >= 0)
             seen == Viewed(v, event)
  <2>3. seen = [armedAt |-> v.armedAt, heldSince |-> v.heldSince, chord |-> chorded,
                keys |-> KeysAfter(v.keys, event)]
    BY <1>1, <1>3, Zenon DEF Viewed
  <2>4. Ends(v, event)
    BY <1>3 DEF Ends
  <2>5. (down \cap Buttons) \ unseen \subseteq KeysAfter(v.keys, event)
    BY DEF Sync, KeysAfter
  <2>6. ASSUME v.heldSince >= 0
        PROVE  /\ new.since = v.heldSince /\ new.since >= v.armedAt /\ new.since <= t /\ Guide \in new.down
               /\ (~v.chord => n.with = {})
    BY <2>1, <2>6 DEF Sync
  <2>7. ASSUME v.heldSince >= 0, ~v.chord, e.value # 1
        PROVE  new.with = {}
    BY <2>1, <2>2, <2>6, <2>7
  <2>8. ASSUME v.heldSince >= 0, ~chorded PROVE new.with = {}
    BY <2>7, <2>8
  <2>9. seen.armedAt = v.armedAt /\ seen.heldSince = v.heldSince /\ seen.chord = chorded
        /\ seen.keys = KeysAfter(v.keys, event)
    <3> HIDE DEF chorded, seen
    <3> QED BY <2>3
  <2> HIDE DEF chorded, seen
  <2>10. (new.down \cap Buttons) \ new.unseen \subseteq seen.keys
    BY <2>5, <2>9
  <2>11. ASSUME seen.heldSince >= 0, ~seen.chord PROVE new.with = {}
    BY <2>8, <2>9, <2>11
  <2>12. Sync(seen, new, t)
    BY <2>6, <2>9, <2>10, <2>11, Zenon DEF Sync
  <2> QED BY <2>4, <2>12 DEF seen
<1>4. CASE e.code = Guide /\ e.value = 1
  <2> DEFINE keyed == v.keys # {}
  <2>1. /\ since = t /\ Guide \in down /\ with = (down \cap Buttons) \ unseen
        /\ new.since = t /\ new.with = with /\ new.down = down
    BY <1>4 DEF With
  <2>2. Viewed(v, event) = [armedAt |-> v.armedAt, heldSince |-> IF t >= v.armedAt THEN t ELSE Never,
                            chord |-> keyed, keys |-> v.keys]
    BY <1>1, <1>4 DEF Viewed
  <2>3. Ends(v, event)
    BY <1>4 DEF Ends
  <2>4. (down \cap Buttons) \ unseen \subseteq v.keys
    BY <1>4, InputsAssumption DEF Sync
  <2>5. ~keyed => new.with = {}
    BY <2>1, <2>4
  <2>6. (IF t >= v.armedAt THEN t ELSE Never) >= 0 => t >= v.armedAt
    BY DEF Never
  <2> DEFINE seen == Viewed(v, event)
             since0 == IF t >= v.armedAt THEN t ELSE Never
  <2>7. seen.armedAt = v.armedAt /\ seen.heldSince = since0 /\ seen.chord = keyed /\ seen.keys = v.keys
    <3> HIDE DEF keyed
    <3> QED BY <2>2
  <2>8. since0 >= 0 => since0 = t /\ t >= v.armedAt /\ t <= t
    BY DEF Never
  <2> HIDE DEF keyed, seen, since0
  <2>9. (new.down \cap Buttons) \ new.unseen \subseteq seen.keys
    BY <2>1, <2>4, <2>7
  <2>10. ASSUME ~seen.chord PROVE new.with = {}
    BY <2>5, <2>7, <2>10
  <2>11. ASSUME seen.heldSince >= 0
         PROVE  new.since = seen.heldSince /\ new.since >= seen.armedAt /\ new.since <= t /\ Guide \in new.down
    BY <2>1, <2>7, <2>8, <2>11
  <2>12. Sync(seen, new, t)
    BY <2>9, <2>10, <2>11, Zenon DEF Sync
  <2> QED BY <2>3, <2>12 DEF seen
<1>5. CASE e.code = Guide /\ e.value = 0
  <2>1. /\ since = n.since /\ with = n.with /\ new.down = n.down \ {Guide}
    BY <1>5 DEF With
  <2>2. Ends(v, event)
    BY <1>5, <2>1 DEF Ends, Sync
  <2>3. (down \cap Buttons) \ unseen \subseteq v.keys
    BY <1>5, InputsAssumption DEF Sync
  <2>4. Viewed(v, event).keys = v.keys /\ Viewed(v, event).heldSince < 0
    BY <1>1, <1>2, <1>5 DEF Viewed, Never
  <2>5. ~(Viewed(v, event).heldSince >= 0)
    <3>1. Viewed(v, event).heldSince \in Int
      BY <1>1, <1>2, <1>5 DEF Viewed, Never
    <3> QED BY <2>4, <3>1
  <2> QED BY <2>2, <2>3, <2>4, <2>5 DEF Sync
<1> QED BY <1>3, <1>4, <1>5

\* A report keeps a node followed: delivered or not, and also when the
\* queue is full and all of it is lost.
LEMMA ReportDoes ==
  ASSUME NEW n \in NodeRecord, NEW d \in Devices, n = node[d], now \in Nat,
         NEW e, e.code \in Inputs, e.value \in {0, 1}, e.press \in Nat
  PROVE  LET new == Report(n, d, e)
         IN  /\ new \in NodeRecord /\ new.there = n.there /\ new.gen = n.gen
             /\ (~Current(d) => new.queue = n.queue /\ new.since = n.since /\ new.with = n.with
                                  /\ new.unseen = n.unseen)
             /\ (Current(d) => \A state : Followed(state, n, now) => Followed(state, new, now))
<1> DEFINE down == IF e.value = 1 THEN n.down \cup {e.code} ELSE n.down \ {e.code}
           unseen == n.unseen \ {e.code}
           with == With(n, e, down, unseen)
           since == IF e.code = Guide /\ e.value = 1 THEN now ELSE n.since
           event == [code |-> e.code, value |-> e.value, press |-> e.press, at |-> now, since |-> since, with |-> with]
           heldNow == IF Guide \in down THEN since ELSE Never
           withNow == IF Guide \in down THEN with ELSE {}
           after == [n EXCEPT !.down = down, !.since = heldNow, !.with = withNow]
           lost == [code |-> Lost, at |-> now]
           new == Report(n, d, e)
<1>1. new = IF ~Delivered(d, e.code) THEN [n EXCEPT !.down = down]
            ELSE IF Overflows(d, e.code) THEN [after EXCEPT !.queue = <<lost>>, !.unseen = down \cap Buttons]
            ELSE [after EXCEPT !.queue = Append(after.queue, event), !.unseen = unseen]
  BY Zenon DEF Report
<1>2. /\ down \in SUBSET Inputs /\ unseen \in SUBSET Inputs /\ n.down \in SUBSET Inputs
      /\ n.with \in SUBSET Inputs /\ n.since \in Int /\ n.queue \in Seq(QueueEvent)
  BY DEF NodeRecord
<1>3. with \in SUBSET Inputs /\ since \in Int /\ Never \in Int
  BY <1>2 DEF With, Never
<1>4. event \in QueueEvent /\ lost \in QueueEvent
  <2> HIDE DEF with, since
  <2> QED BY <1>3 DEF QueueEvent, KeyEvent, LostEvent
<1>5. heldNow \in Int /\ withNow \in SUBSET Inputs
  BY <1>3
<1> HIDE DEF with, since, event, lost, new
<1>6. /\ after \in NodeRecord /\ after.there = n.there /\ after.gen = n.gen /\ after.queue = n.queue
      /\ after.down = down /\ after.since = heldNow /\ after.with = withNow
  <2> HIDE DEF down, heldNow, withNow
  <2> QED BY <1>2, <1>5 DEF NodeRecord
<1> HIDE DEF after, heldNow, withNow, down, unseen
<1>7. CASE ~Delivered(d, e.code)
  <2>1. new = [n EXCEPT !.down = down]
    BY <1>1, <1>7
  <2>2. /\ new \in NodeRecord /\ new.there = n.there /\ new.gen = n.gen /\ new.queue = n.queue
        /\ new.since = n.since /\ new.with = n.with /\ new.unseen = n.unseen /\ new.down = down
    BY <1>2, <2>1 DEF NodeRecord
  <2>3. ASSUME NEW v, Sync(v, n, now), Current(d) PROVE Sync(v, new, now)
    <3>1. e.code \in Triggers /\ e.code # Guide /\ e.code \notin Buttons
      BY <1>7, <2>3, InputsAssumption DEF Delivered
    <3>2. (Guide \in down <=> Guide \in n.down) /\ down \cap Buttons = n.down \cap Buttons
      BY <3>1 DEF down
    <3> QED BY <2>2, <2>3, <3>2 DEF Sync
  <2>4. ASSUME Current(d), NEW state, Followed(state, n, now) PROVE Followed(state, new, now)
    <3>1. PICK views : IsFollowed(views, state, n, now)
      BY <2>4 DEF Followed
    <3>2. Sync(views[Len(n.queue)], new, now)
      BY <2>3, <2>4, <3>1 DEF IsFollowed
    <3>3. IsFollowed(views, state, new, now)
      BY <2>2, <3>1, <3>2 DEF IsFollowed
    <3> QED BY <3>3 DEF Followed
  <2> QED BY <2>2, <2>4 DEF new
<1>8. CASE Delivered(d, e.code) /\ Overflows(d, e.code)
  <2> DEFINE dropped == down \cap Buttons
             queue == <<lost>>
  <2>1. new = [after EXCEPT !.queue = queue, !.unseen = dropped]
    BY <1>1, <1>8
  <2>2. queue \in Seq(QueueEvent) /\ Len(queue) = 1 /\ queue[1] = lost
    BY <1>4
  <2>3. dropped \in SUBSET Inputs
    BY <1>2
  <2>4. lost.code = Lost
    BY DEF lost
  <2> HIDE DEF queue, dropped
  <2>5. /\ new \in NodeRecord /\ new.there = n.there /\ new.gen = n.gen /\ new.queue = queue
        /\ new.unseen = dropped /\ new.down = down
    BY <1>6, <2>1, <2>2, <2>3 DEF NodeRecord
  <2>6. ASSUME NEW state, Followed(state, n, now) PROVE Followed(state, new, now)
    <3>1. PICK views : IsFollowed(views, state, n, now)
      BY <2>6 DEF Followed
    <3>2. views[0] = View(state) /\ views[0] \in ViewRecord
      <4>1. 0 \in 0 .. Len(n.queue)
        BY <1>2
      <4> QED BY <3>1, <4>1 DEF IsFollowed
    <3> DEFINE seen == Viewed(views[0], lost)
               more == [i \in 0 .. 1 |-> IF i = 0 THEN views[0] ELSE seen]
    <3>3. seen \in ViewRecord
      BY <1>4, <3>2, ViewedType
    <3>4. seen.heldSince = Never /\ seen.keys = {}
      BY <2>4 DEF Viewed
    <3>5. Sync(seen, new, now)
      <4>1. ~(seen.heldSince >= 0)
        BY <3>4 DEF Never
      <4>2. (new.down \cap Buttons) \ new.unseen = {}
        BY <2>5 DEF dropped
      <4> HIDE DEF seen
      <4> QED BY <4>1, <4>2 DEF Sync
    <3>6. Ends(views[0], lost)
      <4>1. Lost # Guide
        BY LostIsNoInput DEF Inputs
      <4> QED BY <2>4, <4>1 DEF Ends
    <3> HIDE DEF seen
    <3>7. more \in [0 .. 1 -> ViewRecord] /\ more[0] = views[0] /\ more[1] = seen
      BY <3>2, <3>3
    <3> HIDE DEF more
    <3>8. \A i \in 1 .. 1 : more[i] = Viewed(more[i - 1], queue[i]) /\ Ends(more[i - 1], queue[i])
      <4>1. ASSUME NEW i \in 1 .. 1 PROVE i = 1 /\ i - 1 = 0
        OBVIOUS
      <4> QED BY <2>2, <3>6, <3>7, <4>1 DEF seen
    <3>9. IsFollowed(more, state, new, now)
      BY <2>2, <2>5, <3>2, <3>5, <3>7, <3>8 DEF IsFollowed
    <3> QED BY <3>9 DEF Followed
  <2> QED BY <1>8, <2>5, <2>6 DEF new, Delivered
<1>9. CASE Delivered(d, e.code) /\ ~Overflows(d, e.code)
  <2> DEFINE queue == Append(n.queue, event)
             k == Len(n.queue)
  <2>1. new = [after EXCEPT !.queue = queue, !.unseen = unseen]
    BY <1>1, <1>6, <1>9
  <2>2. /\ queue \in Seq(QueueEvent) /\ Len(queue) = k + 1 /\ queue[k + 1] = event /\ k \in Nat
        /\ \A i \in 1 .. k : queue[i] = n.queue[i]
    BY <1>2, <1>4, AppendProperties
  <2> HIDE DEF queue, k
  <2>3. /\ new \in NodeRecord /\ new.there = n.there /\ new.gen = n.gen /\ new.queue = queue
        /\ new.unseen = unseen /\ new.down = down /\ new.since = heldNow /\ new.with = withNow
    BY <1>2, <1>6, <2>1, <2>2 DEF NodeRecord
  <2>4. event.code = e.code /\ event.value = e.value /\ event.at = now /\ event.since = since /\ event.with = with
    BY DEF event
  <2>5. ASSUME NEW v \in ViewRecord, Sync(v, n, now) PROVE Ends(v, event) /\ Sync(Viewed(v, event), new, now)
    <3>1. ReportsEvent(n, e, now, event, new)
      <4>1. /\ down = DownAfter(n, e) /\ unseen = n.unseen \ {e.code}
            /\ with = WithAfter(n, e) /\ since = SinceAfter(n, e, now)
        BY DEF down, unseen, with, since, DownAfter, WithAfter, SinceAfter
      <4> QED BY <2>3, <2>4, <4>1, Zenon DEF ReportsEvent, heldNow, withNow
    <3> HIDE DEF new
    <3> QED BY <2>5, <3>1, ReportInStep, Zenon
  <2>6. ASSUME NEW state, Followed(state, n, now) PROVE Followed(state, new, now)
    <3>1. PICK views : IsFollowed(views, state, n, now)
      BY <2>6 DEF Followed
    <3> DEFINE v == views[k]
               seen == Viewed(v, event)
               more == [i \in 0 .. (k + 1) |-> IF i = k + 1 THEN seen ELSE views[i]]
    <3>2. /\ views \in [0 .. k -> ViewRecord] /\ views[0] = View(state) /\ Sync(v, n, now)
          /\ \A i \in 1 .. k : views[i] = Viewed(views[i - 1], n.queue[i]) /\ Ends(views[i - 1], n.queue[i])
      BY <3>1 DEF IsFollowed, k
    <3>3. v \in ViewRecord
      BY <2>2, <3>2
    <3>4. Ends(v, event) /\ Sync(seen, new, now) /\ seen \in ViewRecord
      BY <1>4, <2>5, <3>2, <3>3, ViewedType
    <3> HIDE DEF seen
    <3>5. /\ more \in [0 .. (k + 1) -> ViewRecord] /\ more[k + 1] = seen
          /\ \A i \in 0 .. k : more[i] = views[i]
      BY <2>2, <3>2, <3>4
    <3> HIDE DEF more
    <3>6. ASSUME NEW i \in 1 .. (k + 1)
          PROVE  more[i] = Viewed(more[i - 1], queue[i]) /\ Ends(more[i - 1], queue[i])
      <4>1. CASE i = k + 1
        <5>1. i - 1 = k /\ k \in 0 .. k
          BY <2>2, <4>1
        <5> QED BY <2>2, <3>4, <3>5, <4>1, <5>1 DEF seen
      <4>2. CASE i # k + 1
        <5>1. i \in 1 .. k /\ i \in 0 .. k /\ i - 1 \in 0 .. k
          BY <2>2, <4>2
        <5> QED BY <2>2, <3>2, <3>5, <5>1
      <4> QED BY <4>1, <4>2
    <3>7. more[0] = View(state)
      BY <2>2, <3>2, <3>5
    <3>8. IsFollowed(more, state, new, now)
      BY <2>2, <2>3, <3>4, <3>5, <3>6, <3>7 DEF IsFollowed
    <3> QED BY <3>8 DEF Followed
  <2> QED BY <1>9, <2>3, <2>6 DEF new, Delivered
<1> QED BY <1>7, <1>8, <1>9

-----------------------------------------------------------------------------
\* A press that toggles was short, after the node was armed, and alone.
Short(r) == r.took \in 0 .. MaxHoldMs /\ r.with = {} /\ r.armed

\* What completes a press after such a view is short and alone.
LEMMA CompletedIsShort ==
  ASSUME NEW v \in ViewRecord, NEW e \in QueueEvent, NEW d, Ends(v, e), Completes(v, e)
  PROVE  Short(Press(v, d, e))
<1>1. e \in KeyEvent
  BY LostIsNoInput DEF QueueEvent, LostEvent, Completes, Inputs
<1>2. e.at \in Nat /\ e.since \in Int /\ v.heldSince \in Int /\ v.armedAt \in Int /\ MaxHoldMs \in Nat
  BY <1>1, TimesAssumption DEF KeyEvent, ViewRecord
<1>3. e.since = v.heldSince /\ e.since >= v.armedAt /\ e.at >= e.since /\ e.with = {}
      /\ e.at - v.heldSince <= MaxHoldMs
  BY DEF Ends, Completes
<1>4. e.at - e.since \in 0 .. MaxHoldMs /\ (e.since >= v.armedAt) = TRUE
  BY <1>2, <1>3
<1> QED BY <1>3, <1>4 DEF Short, Press

\* Where read() starts from.
ReadsFrom(d, views, start) ==
  /\ now \in Nat /\ d \in policy.open /\ policy \in PolicyRecord /\ timers \subseteq Timers
  /\ node[d] \in NodeRecord /\ IsFollowed(views, policy.device[d], node[d], now)
  /\ start = [Reading EXCEPT !.current = current[d]]

\* What read() leaves of a node's queue.
LEMMA DrainedDoes ==
  ASSUME NEW d \in Devices, NEW views, NEW start, ReadsFrom(d, views, start)
  PROVE  LET s == Drained(d, start, node[d].queue)
         IN  /\ s \in ReadingRecord(s) /\ s.policy.open = policy.open
             /\ \A x \in Devices \ {d} : s.policy.device[x] = policy.device[x]
             /\ View(s.policy.device[d]) = views[Len(node[d].queue)]
             /\ \A r \in s.pressed : Short(r)
<1>10. /\ now \in Nat /\ d \in policy.open /\ policy \in PolicyRecord /\ timers \subseteq Timers
      /\ node[d] \in NodeRecord /\ IsFollowed(views, policy.device[d], node[d], now)
      /\ start = [Reading EXCEPT !.current = current[d]]
  BY DEF ReadsFrom
<1> DEFINE q == node[d].queue
           k == Len(q)
<1>0. q \in Seq(QueueEvent) /\ k \in Nat /\ \A i \in 1 .. k : q[i] \in QueueEvent
  BY <1>10 DEF NodeRecord
<1>1. /\ views \in [0 .. k -> ViewRecord] /\ views[0] = View(policy.device[d])
      /\ \A i \in 1 .. k : views[i] = Viewed(views[i - 1], q[i]) /\ Ends(views[i - 1], q[i])
  BY <1>10 DEF IsFollowed
<1> HIDE DEF q
<1>2. PICK f : /\ Drained(d, start, q) = f[k] /\ f[0] = start
               /\ \A n \in 1 .. k : f[n] = ReadEvent(d, f[n - 1], q[n])
  BY <1>10, <1>0, DrainedUnfold
<1> DEFINE ReadUpTo(i) == /\ f[i] \in ReadingRecord(f[i]) /\ f[i].policy.open = policy.open
                          /\ \A x \in Devices \ {d} : f[i].policy.device[x] = policy.device[x]
                          /\ View(f[i].policy.device[d]) = views[i]
                          /\ \A r \in f[i].pressed : Short(r)
           Bad == {i \in 0 .. k : ~ReadUpTo(i)}
<1> HIDE DEF k
<1>3. ReadUpTo(0)
  <2>1. f[0] = [policy |-> policy, timers |-> timers, pressed |-> {}, signal |-> {}, captured |-> {}, current |-> current[d]]
    BY <1>10, <1>2 DEF Reading
  <2> QED BY <1>10, <1>1, <2>1 DEF ReadingRecord
<1>4. ASSUME NEW i \in 1 .. k, ReadUpTo(i - 1) PROVE ReadUpTo(i)
  <2> DEFINE was == f[i - 1]
             new == ReadEvent(d, was, q[i])
             v == View(was.policy.device[d])
  <2>1. /\ was \in ReadingRecord(was) /\ was.policy.open = policy.open /\ d \in was.policy.open
        /\ \A x \in Devices \ {d} : was.policy.device[x] = policy.device[x]
        /\ v = views[i - 1] /\ \A r \in was.pressed : Short(r)
    BY <1>10, <1>4
  <2>2. q[i] \in QueueEvent /\ i - 1 \in 0 .. k /\ i \in 0 .. k /\ f[i] = new
    BY <1>0, <1>2
  <2>3. views[i - 1] \in ViewRecord /\ views[i] = Viewed(views[i - 1], q[i]) /\ Ends(views[i - 1], q[i])
    BY <1>1, <2>2
  <2> HIDE DEF was, new, v
  <2>4. /\ new \in ReadingRecord(new)
        /\ InStepWith(was.policy, new.policy, d, q[i])
        /\ \A r \in new.pressed : r \in was.pressed \/ (Completes(v, q[i]) /\ r = Press(v, d, q[i]))
    BY <1>10, <2>1, <2>2, ReadEventDoes DEF new, v
  <2>5. View(new.policy.device[d]) = views[i]
    BY <2>1, <2>3, <2>4 DEF InStepWith, v
  <2>6. \A r \in new.pressed : Short(r)
    BY <2>1, <2>2, <2>3, <2>4, CompletedIsShort
  <2> QED BY <2>1, <2>2, <2>4, <2>5, <2>6 DEF InStepWith
<1> HIDE DEF ReadUpTo
<1>5. Bad = {}
  <2> SUFFICES ASSUME Bad # {} PROVE FALSE
    OBVIOUS
  <2>1. Bad \in SUBSET Nat
    BY <1>0
  <2> HIDE DEF Bad
  <2>2. PICK n \in Bad : \A m \in Bad : n <= m
    BY <2>1, LeastNatural
  <2>3. n \in 0 .. k /\ ~ReadUpTo(n)
    BY <2>2 DEF Bad
  <2>4. n \in 1 .. k /\ n - 1 \in 0 .. k
    BY <1>0, <1>3, <2>3
  <2>5. n - 1 \notin Bad
    BY <2>1, <2>2, <2>4
  <2>6. ReadUpTo(n - 1)
    BY <2>4, <2>5 DEF Bad
  <2> QED BY <1>4, <2>3, <2>4, <2>6
<1>6. ReadUpTo(k)
  <2>1. k \in 0 .. k
    BY <1>0
  <2> QED BY <1>5, <2>1
<1> QED BY <1>2, <1>6 DEF ReadUpTo, q, k

-----------------------------------------------------------------------------
\* A node that is read was opened; one that is not has told nothing.
Tabled ==
  \A d \in Devices : /\ d \in policy.open <=> table[d].gen > 0
                     /\ table[d].gen <= node[d].gen /\ node[d].gen > 0
\* A node that no reader has open queues nothing.
Silent ==
  \A d \in Devices : ~Current(d) =>
    node[d].queue = <<>> /\ node[d].since = Never /\ node[d].with = {} /\ node[d].unseen = {}
\* The policy's view of an open node is in step with it, once its queue is
\* read.
InStep ==
  \A d \in Devices : Current(d) => Followed(policy.device[d], node[d], now)
AllShort == \A r \in out.presses : Short(r)

\* The inductive invariant.
ListenInv == ListenTypes /\ Tabled /\ Silent /\ InStep /\ AllShort

\* With nothing queued the view itself is the last one.
LEMMA StartFollowed ==
  ASSUME NEW state, NEW n \in NodeRecord, NEW t, View(state) \in ViewRecord, n.queue = <<>>,
         Sync(View(state), n, t)
  PROVE  Followed(state, n, t)
<1> DEFINE views == [i \in 0 .. 0 |-> View(state)]
<1>1. Len(n.queue) = 0 /\ 1 .. Len(n.queue) = {}
  OBVIOUS
<1>2. views \in [0 .. 0 -> ViewRecord] /\ views[0] = View(state)
  OBVIOUS
<1>3. IsFollowed(views, state, n, t)
  <2> HIDE DEF views
  <2> QED BY <1>1, <1>2 DEF IsFollowed
<1> QED BY <1>3 DEF Followed

\* The controller and its virtual pads are open, armed later and idle.
LEMMA ListenInit == ListenerInit => ListenInv
<1> SUFFICES ASSUME ListenerInit PROVE ListenInv
  OBVIOUS
<1> DEFINE n == [there |-> TRUE, gen |-> 1, down |-> {}, unseen |-> {}, since |-> Never,
                 with |-> {}, queue |-> <<>>]
           first == [Unwatched EXCEPT !.armedAt = ArmDelayMs]
<1>1. n \in NodeRecord
  BY DEF NodeRecord, Never
<1>2. first \in DeviceRecord /\ View(first) = [armedAt |-> ArmDelayMs, heldSince |-> Never, chord |-> FALSE, keys |-> {}]
  <2>1. ArmDelayMs \in Int /\ Never \in Int
    BY TimesAssumption DEF Never
  <2> QED BY <2>1 DEF Unwatched, DeviceRecord, View
<1>3. NoReport \in ReportRecord
  BY DEF NoReport, ReportRecord, Never
<1>4. /\ node = [d \in Devices |-> n] /\ table = [d \in Devices |-> [gen |-> 1, triggers |-> FALSE]]
      /\ now = 0 /\ timers = {} /\ lagging = [d \in Mirrored |-> <<>>]
      /\ pad = [down |-> {}, downs |-> 0, press |-> [i \in Inputs |-> 0], since |-> 0, alone |-> FALSE, good |-> {}]
      /\ out = [presses |-> {}, signals |-> {}, holds |-> {}, captures |-> {}, early |-> FALSE]
  BY DEF ListenerInit
<1>5. policy \in PolicyRecord /\ policy.open = Devices /\ policy.device = [d \in Devices |-> first]
  <2>1. policy = [NoPolicy EXCEPT !.open = Devices, !.device = [d \in Devices |-> first]]
    BY DEF ListenerInit
  <2> HIDE DEF first
  <2> QED BY <1>2, <1>3, <2>1 DEF NoPolicy, PolicyRecord
<1> HIDE DEF n, first
<1>6. ListenTypes
  <2>1. pad \in PadRecord(pad)
    BY <1>4 DEF PadRecord
  <2>2. lagging \in [Mirrored -> Seq(Repetition)]
    BY <1>4
  <2> QED BY <1>1, <1>4, <1>5, <2>1, <2>2 DEF ListenTypes
<1>7. Tabled /\ Silent /\ \A d \in Devices : Current(d)
  BY <1>4, <1>5 DEF Tabled, Silent, Current, n
<1>8. InStep
  <2>1. Sync(View(first), n, now)
    BY <1>2 DEF Sync, n, Never
  <2>2. View(first) \in ViewRecord
    BY <1>2, ViewType
  <2>3. Followed(first, n, now)
    BY <1>1, <2>1, <2>2, StartFollowed DEF n
  <2> QED BY <1>4, <1>5, <2>3 DEF InStep
<1> QED BY <1>4, <1>6, <1>7, <1>8 DEF ListenInv, AllShort

\* A report by a node, the player's own or repeated, keeps the invariant.
LEMMA NodeReports ==
  ASSUME ListenInv, NEW d \in Devices,
         NEW e, e.code \in Inputs, e.value \in {0, 1}, e.press \in Nat,
         node' = [node EXCEPT ![d] = Report(node[d], d, e)],
         UNCHANGED <<now, table, policy, timers, out, current>>
  PROVE  node' \in [Devices -> NodeRecord] /\ Tabled' /\ Silent' /\ InStep' /\ AllShort'
<1> DEFINE n == node[d]
           new == Report(n, d, e)
<1>1. now \in Nat /\ n \in NodeRecord /\ node \in [Devices -> NodeRecord]
  BY DEF ListenInv, ListenTypes
<1>2. /\ new \in NodeRecord /\ new.there = n.there /\ new.gen = n.gen
      /\ (~Current(d) => new.queue = n.queue /\ new.since = n.since /\ new.with = n.with
                           /\ new.unseen = n.unseen)
      /\ (Current(d) => \A state : Followed(state, n, now) => Followed(state, new, now))
  BY <1>1, ReportDoes
<1>3. node' = [node EXCEPT ![d] = new]
  OBVIOUS
<1> HIDE DEF new
<1>4. node'[d] = new /\ \A x \in Devices \ {d} : node'[x] = node[x]
  BY <1>1, <1>3
<1>5. node' \in [Devices -> NodeRecord]
  BY <1>1, <1>2, <1>3
<1>6. \A x \in Devices : Current(x)' <=> Current(x)
  BY <1>2, <1>4 DEF Current
<1>7. Tabled'
  BY <1>2, <1>4 DEF ListenInv, Tabled
<1>8. Silent'
  BY <1>2, <1>4, <1>6 DEF ListenInv, Silent
<1>9. InStep'
  <2>1. ASSUME NEW x \in Devices, Current(x)' PROVE Followed(policy.device[x], node'[x], now)
    <3>1. Current(x)
      BY <1>6, <2>1
    <3>2. Followed(policy.device[x], node[x], now)
      BY <3>1 DEF ListenInv, InStep
    <3>3. CASE x = d
      BY <1>2, <1>4, <3>1, <3>2, <3>3
    <3>4. CASE x # d
      BY <1>4, <3>2, <3>4
    <3> QED BY <3>3, <3>4
  <2> QED BY <2>1 DEF InStep
<1> QED BY <1>5, <1>7, <1>8, <1>9 DEF ListenInv, AllShort

\* Doubts of a press are history.
LEMMA DoubtfulPad ==
  ASSUME NEW p, p \in PadRecord(p)
  PROVE  Doubtful(p) \in PadRecord(Doubtful(p)) /\ Doubtful(p).down = p.down /\ Doubtful(p).downs = p.downs
         /\ Doubtful(p).press = p.press
<1> DEFINE good == p.good \cap ToldPresses
<1>1. Doubtful(p) = [p EXCEPT !.alone = FALSE, !.good = good]
  BY DEF Doubtful
<1> HIDE DEF good
<1> QED BY <1>1 DEF PadRecord

\* Input: the player presses or releases; the virtual pads will repeat it.
LEMMA ListenInput ==
  ASSUME ListenInv, NEW code \in Inputs, Input(code)
  PROVE  ListenInv'
<1> DEFINE value == IF code \in pad.down THEN 0 ELSE 1
           id == IF value = 1 THEN pad.downs + 1 ELSE pad.press[code]
           down == IF value = 1 THEN pad.down \cup {code} ELSE pad.down \ {code}
           e == [code |-> code, value |-> value, press |-> id]
           downs == IF value = 1 THEN id ELSE pad.downs
           own == IF value = 1 THEN id ELSE 0
           since == IF code = Guide THEN now * value ELSE pad.since
           alone == IF code = Guide THEN Ready /\ pad.down = {} ELSE pad.alone /\ Guide \notin pad.down
           good == IF code # Guide \/ value = 1 THEN pad.good
                   ELSE (IF Unread THEN pad.good \cap ToldPresses ELSE pad.good)
                        \cup (IF pad.alone /\ now - pad.since + Lag < HoldMs THEN {id} ELSE {})
           after == [pad EXCEPT !.down = down, !.downs = downs, !.press[code] = own, !.since = since,
                                !.alone = alone, !.good = good]
           told == [code |-> code, value |-> value, press |-> id, made |-> now]
<1>1. /\ pad' = (IF Overflows(Pad, code) THEN Doubtful(after) ELSE after)
      /\ node' = [node EXCEPT ![Pad] = Report(node[Pad], Pad, e)]
      /\ lagging' = [d \in Mirrored |-> IF node[d].there THEN Append(lagging[d], told) ELSE lagging[d]]
      /\ UNCHANGED <<now, table, policy, timers, out, current>>
  BY Zenon DEF Input
<1>2. /\ pad \in PadRecord(pad) /\ pad.down \in SUBSET Inputs /\ pad.downs \in Nat /\ pad.press \in [Inputs -> Nat]
      /\ now \in Nat /\ lagging \in [Mirrored -> Seq(Repetition)]
  BY DEF ListenInv, ListenTypes, PadRecord
<1>3. /\ value \in {0, 1} /\ id \in Nat /\ down \in SUBSET Inputs /\ downs \in Nat /\ own \in Nat
      /\ e.code = code /\ e.value = value /\ e.press = id
  BY <1>2
<1> HIDE DEF value, id, down, downs, own, since, alone, good, e
<1>4. after \in PadRecord(after)
  <2> DEFINE press == [pad.press EXCEPT ![code] = own]
  <2>1. press \in [Inputs -> Nat]
    BY <1>2, <1>3
  <2>2. after = [pad EXCEPT !.down = down, !.downs = downs, !.press = press, !.since = since,
                            !.alone = alone, !.good = good]
    BY <1>2 DEF PadRecord
  <2> HIDE DEF press, after
  <2> QED BY <1>2, <1>3, <2>1, <2>2 DEF PadRecord
<1> HIDE DEF after
<1>5. pad' \in PadRecord(pad')
  BY <1>1, <1>4, DoubtfulPad
<1>6. lagging' \in [Mirrored -> Seq(Repetition)]
  <2>1. told \in Repetition
    BY <1>2, <1>3 DEF Repetition
  <2> HIDE DEF told
  <2>2. \A d \in Mirrored : Append(lagging[d], told) \in Seq(Repetition)
    BY <1>2, <2>1
  <2> QED BY <1>1, <1>2, <2>2
<1>7. node' \in [Devices -> NodeRecord] /\ Tabled' /\ Silent' /\ InStep' /\ AllShort'
  BY <1>1, <1>3, ListenerAssumption, NodeReports
<1> QED BY <1>1, <1>5, <1>6, <1>7 DEF ListenInv, ListenTypes

\* Repeat: a virtual pad reports what it owes.
LEMMA ListenRepeat ==
  ASSUME ListenInv, NEW d \in Mirrored, Repeat(d)
  PROVE  ListenInv'
<1> DEFINE h == Head(lagging[d])
           e == [code |-> h.code, value |-> h.value, press |-> h.press]
<1>1. /\ node' = [node EXCEPT ![d] = Report(node[d], d, e)]
      /\ pad' = (IF Overflows(d, h.code) THEN Doubtful(pad) ELSE pad)
      /\ lagging' = [lagging EXCEPT ![d] = Tail(lagging[d])] /\ lagging[d] # <<>>
      /\ UNCHANGED <<now, table, policy, timers, out, current>>
  BY DEF Repeat
<1>2. pad \in PadRecord(pad) /\ lagging \in [Mirrored -> Seq(Repetition)] /\ d \in Devices
  BY DEF ListenInv, ListenTypes, Mirrored
<1>3. h \in Repetition /\ Tail(lagging[d]) \in Seq(Repetition)
  BY <1>1, <1>2
<1>4. e.code \in Inputs /\ e.value \in {0, 1} /\ e.press \in Nat
  BY <1>3 DEF Repetition
<1> HIDE DEF h, e
<1>5. pad' \in PadRecord(pad')
  BY <1>1, <1>2, DoubtfulPad
<1>6. lagging' \in [Mirrored -> Seq(Repetition)]
  BY <1>1, <1>2, <1>3
<1>7. node' \in [Devices -> NodeRecord] /\ Tabled' /\ Silent' /\ InStep' /\ AllShort'
  BY <1>1, <1>2, <1>4, NodeReports
<1> QED BY <1>1, <1>5, <1>6, <1>7 DEF ListenInv, ListenTypes

\* The releases of a controller that is gone come in some order.
LEMMA SetToSeqType ==
  ASSUME NEW X, NEW S \in SUBSET X, IsFiniteSet(S)
  PROVE  SetToSeq(S) \in Seq(X)
<1> DEFINE n == Cardinality(S)
<1>1. n \in Nat /\ ExistsBijection(1 .. n, S)
  BY FS_CardinalityType
<1> HIDE DEF n
<1>2. PICK f : f \in Bijection(1 .. n, S)
  BY <1>1 DEF ExistsBijection
<1>3. f \in [1 .. n -> S] /\ IsInjective(f)
  BY <1>2 DEF Bijection, Injection, Surjection, IsInjective
<1>4. SetToSeq(S) = CHOOSE g \in [1 .. n -> S] : IsInjective(g)
  BY Zenon DEF SetToSeq, n
<1>5. SetToSeq(S) \in [1 .. n -> S]
  BY <1>3, <1>4, Zenon
<1>6. SetToSeq(S) \in Seq(S)
  BY <1>1, <1>5
<1> QED BY <1>6

\* What a vanishing controller leaves its virtual pads to repeat.
LEMMA ReleasesType ==
  ASSUME ListenTypes
  PROVE  SetToSeq({Release(c) : c \in pad.down}) \in Seq(Repetition)
<1> DEFINE T == {Release(c) : c \in pad.down}
           f == [c \in pad.down |-> Release(c)]
<1>1. pad.down \in SUBSET Inputs /\ pad.press \in [Inputs -> Nat] /\ now \in Nat
  BY DEF ListenTypes, PadRecord
<1>2. \A c \in pad.down : Release(c) \in Repetition
  BY <1>1 DEF Release, Repetition
<1>3. IsFiniteSet(pad.down)
  <2>1. Inputs = (Buttons \cup Hats \cup Triggers) \cup {Guide}
    BY DEF Inputs
  <2>2. IsFiniteSet(Inputs)
    BY <2>1, FS_AddElement, InputsAssumption
  <2> QED BY <1>1, <2>2, FS_Subset
<1>4. f \in Surjection(pad.down, T)
  BY DEF Surjection
<1>5. IsFiniteSet(T)
  <2> HIDE DEF f, T
  <2> QED BY <1>3, <1>4, FS_Surjection
<1>6. T \in SUBSET Repetition
  BY <1>2
<1> HIDE DEF T
<1> QED BY <1>5, <1>6, SetToSeqType DEF T

\* Unplug: nobody can read the node any more, with what it had queued.
LEMMA ListenUnplug ==
  ASSUME ListenInv, NEW d \in Devices, Unplug(d)
  PROVE  ListenInv'
<1> DEFINE gone == [node[d] EXCEPT !.there = FALSE, !.down = {}, !.unseen = {}, !.queue = <<>>,
                                   !.since = Never, !.with = {}]
           doubtful == Doubtful(pad)
           left == IF d = Pad THEN {} ELSE doubtful.down
           releases == SetToSeq({Release(c) : c \in pad.down})
<1>1. /\ node' = [node EXCEPT ![d] = gone]
      /\ pad' = [doubtful EXCEPT !.down = left, !.downs = doubtful.downs + 1]
      /\ lagging' = IF d = Pad THEN [v \in Mirrored |-> lagging[v] \o releases]
                    ELSE [lagging EXCEPT ![d] = <<>>]
      /\ UNCHANGED <<now, table, policy, timers, out, current>>
  BY DEF Unplug
<1>2. /\ pad \in PadRecord(pad) /\ lagging \in [Mirrored -> Seq(Repetition)]
      /\ node \in [Devices -> NodeRecord] /\ node[d] \in NodeRecord /\ now \in Nat
  BY DEF ListenInv, ListenTypes
<1>3. releases \in Seq(Repetition)
  BY ReleasesType DEF ListenInv
<1>4. doubtful \in PadRecord(doubtful)
  BY <1>2, DoubtfulPad
<1>5. /\ gone \in NodeRecord /\ ~gone.there /\ gone.gen = node[d].gen /\ gone.queue = <<>>
      /\ gone.since = Never /\ gone.with = {} /\ gone.unseen = {}
  <2>1. <<>> \in Seq(QueueEvent) /\ Never \in Int
    BY DEF Never
  <2> QED BY <1>2, <2>1 DEF NodeRecord
<1> HIDE DEF gone, doubtful, releases
<1>6. pad' \in PadRecord(pad')
  <2>1. left \in SUBSET Inputs /\ doubtful.downs + 1 \in Nat
    BY <1>4 DEF PadRecord
  <2> HIDE DEF left
  <2> QED BY <1>1, <1>4, <2>1 DEF PadRecord
<1>7. lagging' \in [Mirrored -> Seq(Repetition)]
  <2>1. CASE d = Pad
    <3>1. \A v \in Mirrored : lagging[v] \o releases \in Seq(Repetition)
      BY <1>2, <1>3, ConcatProperties
    <3> QED BY <1>1, <2>1, <3>1
  <2>2. CASE d # Pad
    <3>1. <<>> \in Seq(Repetition)
      OBVIOUS
    <3> QED BY <1>1, <1>2, <2>2, <3>1
  <2> QED BY <2>1, <2>2
<1>8. node'[d] = gone /\ (\A x \in Devices \ {d} : node'[x] = node[x]) /\ node' \in [Devices -> NodeRecord]
  BY <1>1, <1>2, <1>5
<1>9. ~Current(d)' /\ \A x \in Devices \ {d} : Current(x)' <=> Current(x)
  BY <1>1, <1>5, <1>8 DEF Current
<1>10. Tabled' /\ Silent' /\ InStep' /\ AllShort'
  <2>1. Tabled'
    BY <1>1, <1>5, <1>8 DEF ListenInv, Tabled
  <2>2. Silent'
    BY <1>5, <1>8, <1>9 DEF ListenInv, Silent
  <2>3. InStep' /\ AllShort'
    BY <1>1, <1>8, <1>9 DEF ListenInv, InStep, AllShort
  <2> QED BY <2>1, <2>2, <2>3
<1> QED BY <1>1, <1>6, <1>7, <1>8, <1>10 DEF ListenInv, ListenTypes

\* Plug: another device under the name; the one open is still not it.
LEMMA ListenPlug ==
  ASSUME ListenInv, NEW d \in Devices, Plug(d)
  PROVE  ListenInv'
<1> DEFINE new == [node[d] EXCEPT !.there = TRUE, !.gen = node[d].gen + 1]
<1>1. ~node[d].there /\ UNCHANGED <<now, pad, lagging, table, policy, timers, out, current>>
  BY DEF Plug
<1>2. node \in [Devices -> NodeRecord] /\ node[d] \in NodeRecord /\ table \in [Devices -> [gen : Nat, triggers : BOOLEAN]]
  BY DEF ListenInv, ListenTypes
<1>3. node' = [node EXCEPT ![d] = new]
  BY Zenon DEF Plug
<1>4. /\ new \in NodeRecord /\ new.gen = node[d].gen + 1 /\ new.queue = node[d].queue
      /\ new.since = node[d].since /\ new.with = node[d].with /\ new.unseen = node[d].unseen
  <2> DEFINE n == node[d]
             gen == n.gen + 1
  <2>1. n \in NodeRecord /\ gen \in Nat /\ gen = n.gen + 1
    BY <1>2 DEF NodeRecord
  <2>2. new = [n EXCEPT !.there = TRUE, !.gen = gen]
    OBVIOUS
  <2> HIDE DEF n, gen, new
  <2>3. /\ new \in NodeRecord /\ new.gen = gen /\ new.queue = n.queue
        /\ new.since = n.since /\ new.with = n.with /\ new.unseen = n.unseen
    BY <2>1, <2>2 DEF NodeRecord
  <2> QED BY <2>1, <2>3 DEF n
<1> HIDE DEF new
<1>5. node'[d] = new /\ (\A x \in Devices \ {d} : node'[x] = node[x]) /\ node' \in [Devices -> NodeRecord]
  BY <1>2, <1>3, <1>4
<1>6. node[d].gen \in Nat /\ table[d].gen \in Nat /\ table[d].gen <= node[d].gen
  BY <1>2 DEF ListenInv, Tabled, NodeRecord
<1>7. ~Current(d) /\ ~Current(d)' /\ \A x \in Devices \ {d} : Current(x)' <=> Current(x)
  BY <1>1, <1>4, <1>5, <1>6 DEF Current
<1>8. Tabled'
  BY <1>1, <1>4, <1>5, <1>6 DEF ListenInv, Tabled
<1>9. Silent'
  BY <1>4, <1>5, <1>7 DEF ListenInv, Silent
<1>10. InStep' /\ AllShort'
  BY <1>1, <1>5, <1>7 DEF ListenInv, InStep, AllShort
<1> QED BY <1>1, <1>5, <1>8, <1>9, <1>10 DEF ListenInv, ListenTypes

\* Watching the triggers may find one already pulled: the press is then a
\* chord, and nothing else changes.
LEMMA WatchedDoes ==
  ASSUME NEW p \in PolicyRecord, NEW d \in Devices, NEW n, Sync(View(p.device[d]), n, now)
  PROVE  LET new == Watched(p, d)
         IN  /\ new \in PolicyRecord /\ new.open = p.open
             /\ \A x \in Devices \ {d} : new.device[x] = p.device[x]
             /\ Sync(View(new.device[d]), n, now)
<1> DEFINE new == Watched(p, d)
           st == p.device[d]
           after == [st EXCEPT !.chord = TRUE]
<1>1. new = p \/ new = [p EXCEPT !.device[d] = after]
  BY Zenon DEF Watched
<1>2. st \in DeviceRecord
  BY DEF PolicyRecord
<1> HIDE DEF new, st
<1>3. /\ after \in DeviceRecord /\ after.armedAt = st.armedAt /\ after.heldSince = st.heldSince
      /\ after.chord = TRUE /\ after.keysDown = st.keysDown
  BY <1>2 DEF DeviceRecord
<1> HIDE DEF after
<1>4. Sync(View(after), n, now)
  BY <1>3 DEF Sync, View, st
<1>5. CASE new = p
  BY <1>5 DEF new
<1>6. CASE new = [p EXCEPT !.device[d] = after]
  <2>1. /\ new \in PolicyRecord /\ new.device = [p.device EXCEPT ![d] = after] /\ new.open = p.open
    BY <1>3, <1>6, PolicyWith
  <2>2. new.device[d] = after /\ \A x \in Devices \ {d} : new.device[x] = p.device[x]
    BY <2>1 DEF PolicyRecord
  <2> QED BY <1>4, <2>1, <2>2 DEF new
<1> QED BY <1>1, <1>5, <1>6

\* read(): the view of the node becomes the last one the queue leads to.
LEMMA ListenRead ==
  ASSUME ListenInv, NEW d \in Devices, Read(d)
  PROVE  ListenInv'
<1> DEFINE n == node[d]
           start == [Reading EXCEPT !.current = current[d]]
           s == Drained(d, start, n.queue)
           p == s.policy
           new == Watched(p, d)
           watches == Holding(p, d)
           after == [n EXCEPT !.queue = <<>>]
           presses == out.presses \cup s.pressed
           signals == out.signals \cup s.signal
           captures == out.captures \cup s.captured
<1>1. /\ table[d].gen > 0 /\ Current(d)
      /\ policy' = new
      /\ table' = [table EXCEPT ![d] = [gen |-> table[d].gen, triggers |-> watches]]
      /\ timers' = s.timers
      /\ out' = [out EXCEPT !.presses = presses, !.signals = signals, !.captures = captures]
      /\ node' = [node EXCEPT ![d] = after]
      /\ UNCHANGED <<now, pad, lagging>>
  BY Zenon DEF Read
<1>2. /\ now \in Nat /\ policy \in PolicyRecord /\ timers \subseteq Timers /\ n \in NodeRecord
      /\ node \in [Devices -> NodeRecord] /\ table \in [Devices -> [gen : Nat, triggers : BOOLEAN]]
      /\ out \in [presses : {out.presses}, signals : {out.signals}, holds : {out.holds},
                  captures : {out.captures}, early : {out.early}]
      /\ d \in policy.open
  BY <1>1 DEF ListenInv, ListenTypes, Tabled
<1>3. PICK views : IsFollowed(views, policy.device[d], n, now)
  BY <1>1 DEF ListenInv, InStep, Followed
<1> HIDE DEF start
<1>4. /\ s \in ReadingRecord(s) /\ p.open = policy.open
      /\ \A x \in Devices \ {d} : p.device[x] = policy.device[x]
      /\ View(p.device[d]) = views[Len(n.queue)]
      /\ \A r \in s.pressed : Short(r)
  <2>1. start = [Reading EXCEPT !.current = current[d]]
    BY DEF start
  <2>2. LET t == Drained(d, start, node[d].queue)
        IN  /\ t \in ReadingRecord(t) /\ t.policy.open = policy.open
            /\ \A x \in Devices \ {d} : t.policy.device[x] = policy.device[x]
            /\ View(t.policy.device[d]) = views[Len(node[d].queue)]
            /\ \A r \in t.pressed : Short(r)
    <3>1. ReadsFrom(d, views, start)
      BY <1>2, <1>3, <2>1 DEF ReadsFrom
    <3> QED BY <3>1, DrainedDoes, Zenon
  <2> QED BY <2>2, Zenon
<1> HIDE DEF s
<1>5. p \in PolicyRecord /\ s.timers \subseteq Timers
  BY <1>4 DEF ReadingRecord
<1>6. Sync(View(p.device[d]), n, now)
  BY <1>3, <1>4 DEF IsFollowed
<1> HIDE DEF p
<1>7. /\ new \in PolicyRecord /\ new.open = p.open
      /\ \A x \in Devices \ {d} : new.device[x] = p.device[x]
      /\ Sync(View(new.device[d]), n, now)
  BY <1>5, <1>6, WatchedDoes
<1> HIDE DEF new, n
<1>8. /\ after \in NodeRecord /\ after.there = n.there /\ after.gen = n.gen /\ after.queue = <<>>
      /\ after.since = n.since /\ after.with = n.with /\ after.unseen = n.unseen /\ after.down = n.down
  <2>1. <<>> \in Seq(QueueEvent)
    OBVIOUS
  <2> QED BY <1>2, <2>1 DEF NodeRecord
<1> HIDE DEF after
<1>9. node'[d] = after /\ (\A x \in Devices \ {d} : node'[x] = node[x]) /\ node' \in [Devices -> NodeRecord]
  BY <1>1, <1>2, <1>8
<1>10. watches \in BOOLEAN
  BY DEF Holding
<1> HIDE DEF watches
<1>11. /\ table' \in [Devices -> [gen : Nat, triggers : BOOLEAN]]
       /\ \A x \in Devices : table'[x].gen = table[x].gen
  BY <1>1, <1>2, <1>10
<1>12. \A x \in Devices : Current(x)' <=> Current(x)
  BY <1>8, <1>9, <1>11 DEF Current, n
<1> HIDE DEF presses, captures
<1>13. /\ out'.presses = presses
       /\ out' \in [presses : {out'.presses}, signals : {out'.signals}, holds : {out'.holds},
                  captures : {out'.captures}, early : {out'.early}]
  BY <1>1, <1>2
<1>14. AllShort'
  BY <1>4, <1>13 DEF ListenInv, AllShort, presses
<1>15. Tabled'
  BY <1>1, <1>4, <1>7, <1>8, <1>9, <1>11 DEF ListenInv, Tabled, p, n
<1>16. Silent'
  <2>1. ASSUME NEW x \in Devices, ~Current(x)'
        PROVE  node'[x].queue = <<>> /\ node'[x].since = Never /\ node'[x].with = {} /\ node'[x].unseen = {}
    <3>1. ~Current(x) /\ x # d
      BY <1>1, <1>12, <2>1
    <3> QED BY <1>9, <3>1 DEF ListenInv, Silent
  <2> QED BY <2>1 DEF Silent
<1>17. InStep'
  <2>1. Followed(new.device[d], after, now)
    <3>1. Sync(View(new.device[d]), after, now)
      BY <1>7, <1>8 DEF Sync
    <3>2. View(new.device[d]) \in ViewRecord
      BY <1>7, ViewType DEF PolicyRecord
    <3> QED BY <1>8, <3>1, <3>2, StartFollowed
  <2>2. ASSUME NEW x \in Devices \ {d}, Current(x)' PROVE Followed(policy'.device[x], node'[x], now)
    <3>1. Followed(policy.device[x], node[x], now)
      BY <1>12, <2>2 DEF ListenInv, InStep
    <3>2. policy'.device[x] = policy.device[x] /\ node'[x] = node[x]
      BY <1>1, <1>4, <1>7, <1>9 DEF p
    <3> QED BY <3>1, <3>2
  <2>3. ASSUME NEW x \in Devices, Current(x)' PROVE Followed(policy'.device[x], node'[x], now')
    BY <1>1, <1>9, <2>1, <2>2, <2>3
  <2> QED BY <2>3 DEF InStep
<1>18. ListenTypes'
  BY <1>1, <1>2, <1>5, <1>7, <1>9, <1>11, <1>13 DEF ListenInv, ListenTypes
<1> QED BY <1>14, <1>15, <1>16, <1>17, <1>18 DEF ListenInv

\* The state of a node that is not open.
LEMMA UnwatchedType == Unwatched \in DeviceRecord
<1>1. Never \in Int
  BY DEF Never
<1> QED BY <1>1 DEF Unwatched, DeviceRecord

\* closed() forgets one node and leaves the others alone.
LEMMA ClosedDoes ==
  ASSUME NEW p \in PolicyRecord, NEW d \in Devices
  PROVE  /\ Closed(p, d) \in PolicyRecord /\ Closed(p, d).open = p.open \ {d}
         /\ Closed(p, d).device[d] = Unwatched
         /\ \A x \in Devices \ {d} : Closed(p, d).device[x] = p.device[x]
<1> DEFINE open == p.open \ {d}
           new == Closed(p, d)
           st == Unwatched
<1>1. new = [p EXCEPT !.open = open, !.device[d] = st]
  BY DEF Closed
<1>2. st \in DeviceRecord /\ open \in SUBSET Devices
  BY UnwatchedType DEF PolicyRecord
<1> HIDE DEF open, new, st
<1>3. new \in PolicyRecord /\ new.open = open /\ new.device = [p.device EXCEPT ![d] = st]
  BY <1>1, <1>2 DEF PolicyRecord
<1>4. new.device[d] = st /\ \A x \in Devices \ {d} : new.device[x] = p.device[x]
  BY <1>3 DEF PolicyRecord
<1> QED BY <1>3, <1>4 DEF open, new, st

\* What a node that is opened is known to do.
LEMMA OpensDoes ==
  ASSUME NEW d \in Devices, policy \in PolicyRecord, now \in Nat, node[d] \in NodeRecord
  PROVE  /\ Opens(policy, d).device[d] \in DeviceRecord
         /\ View(Opens(policy, d).device[d]).heldSince = Never
         /\ View(Opens(policy, d).device[d]).keys = (node[d].down \ (Hats \cup Triggers)) \ {Guide}
<1> DEFINE down == node[d].down \ (Hats \cup Triggers)
           keys == down \ {Guide}
           open == policy.open \cup {d}
           armed == now + ArmDelayMs
           st == [Unwatched EXCEPT !.armedAt = armed, !.keysDown = keys]
           new == Opens(policy, d)
<1>1. new = [policy EXCEPT !.open = open, !.device[d] = st]
  BY DEF Opens, Opened
<1>2. keys \in SUBSET Inputs /\ armed \in Int
  <2>1. ArmDelayMs \in Int
    BY TimesAssumption
  <2> QED BY <2>1 DEF NodeRecord
<1> HIDE DEF keys, armed
<1>3. st \in DeviceRecord /\ st.heldSince = Never /\ st.keysDown = keys
  <2>1. Never \in Int
    BY DEF Never
  <2> QED BY <1>2, <2>1 DEF Unwatched, DeviceRecord
<1> HIDE DEF st, open, new
<1>4. new.device[d] = st
  BY <1>1, <1>3 DEF PolicyRecord
<1> QED BY <1>3, <1>4 DEF View, keys, new

\* A read that finds the device gone closes its row.
LEMMA ListenReadGone ==
  ASSUME ListenInv, NEW d \in Devices, ReadGone(d)
  PROVE  ListenInv'
<1> DEFINE new == Closed(policy, d)
           row == [gen |-> 0, triggers |-> FALSE]
<1>1. /\ table[d].gen > 0 /\ ~Current(d)
      /\ table' = [table EXCEPT ![d] = row] /\ policy' = new
      /\ UNCHANGED <<now, pad, lagging, node, timers, out, current>>
  BY DEF ReadGone
<1>2. /\ policy \in PolicyRecord /\ table \in [Devices -> [gen : Nat, triggers : BOOLEAN]]
      /\ node \in [Devices -> NodeRecord]
  BY DEF ListenInv, ListenTypes
<1>3. /\ new \in PolicyRecord /\ new.open = policy.open \ {d}
      /\ \A x \in Devices \ {d} : new.device[x] = policy.device[x]
  BY <1>2, ClosedDoes
<1>4. row \in [gen : Nat, triggers : BOOLEAN] /\ row.gen = 0
  OBVIOUS
<1> HIDE DEF new, row
<1>5. /\ table' \in [Devices -> [gen : Nat, triggers : BOOLEAN]] /\ table'[d].gen = 0
      /\ \A x \in Devices \ {d} : table'[x] = table[x]
  BY <1>1, <1>2, <1>4
<1>6. Tabled'
  <2>1. \A x \in Devices : node[x].gen \in Nat
    BY <1>2 DEF NodeRecord
  <2> QED BY <1>1, <1>3, <1>5, <2>1 DEF ListenInv, Tabled
<1>7. ~Current(d)' /\ \A x \in Devices \ {d} : Current(x)' <=> Current(x)
  BY <1>1, <1>5, <1>6 DEF Current, Tabled
<1>8. Silent'
  BY <1>1, <1>7 DEF ListenInv, Silent
<1>9. InStep' /\ AllShort'
  BY <1>1, <1>3, <1>7 DEF ListenInv, InStep, AllShort
<1> QED BY <1>1, <1>3, <1>5, <1>6, <1>8, <1>9 DEF ListenInv, ListenTypes

\* rescan(): what is opened starts without a candidate and knows the keys
\* that are down; what stays open is not touched.
LEMMA ListenRescan ==
  ASSUME ListenInv, Rescan
  PROVE  ListenInv'
<1> DEFINE gone == {d \in Devices : table[d].gen > 0 /\ ~Current(d)}
           new == {d \in Devices : node[d].there /\ ~Current(d)}
           open == (policy.open \ gone) \cup new
           states == [d \in Devices |-> IF d \in new THEN Opens(policy, d).device[d]
                                        ELSE IF d \in gone THEN Closed(policy, d).device[d]
                                        ELSE policy.device[d]]
           rows == [d \in Devices |-> IF d \in new THEN [gen |-> node[d].gen, triggers |-> FALSE]
                                      ELSE IF d \in gone THEN [gen |-> 0, triggers |-> FALSE]
                                      ELSE table[d]]
<1>1. /\ policy' = [policy EXCEPT !.open = open, !.device = states]
      /\ table' = rows
      /\ UNCHANGED <<now, pad, lagging, node, timers, out, current>>
  BY DEF Rescan
<1>2. /\ policy \in PolicyRecord /\ table \in [Devices -> [gen : Nat, triggers : BOOLEAN]]
      /\ node \in [Devices -> NodeRecord] /\ now \in Nat
  BY DEF ListenInv, ListenTypes
<1>3. states \in [Devices -> DeviceRecord]
  <2>1. ASSUME NEW d \in Devices PROVE states[d] \in DeviceRecord
    <3>1. Opens(policy, d).device[d] \in DeviceRecord
      BY <1>2, OpensDoes
    <3>2. Closed(policy, d).device[d] \in DeviceRecord
      BY <1>2, ClosedDoes, UnwatchedType
    <3>3. policy.device[d] \in DeviceRecord
      BY <1>2 DEF PolicyRecord
    <3> HIDE DEF new, gone
    <3> QED BY <3>1, <3>2, <3>3
  <2> HIDE DEF new, gone
  <2> QED BY <2>1
<1>4. rows \in [Devices -> [gen : Nat, triggers : BOOLEAN]]
  <2>1. \A d \in Devices : node[d].gen \in Nat
    BY <1>2 DEF NodeRecord
  <2> HIDE DEF new, gone
  <2> QED BY <1>2, <2>1
<1>5. open \in SUBSET Devices
  BY <1>2 DEF PolicyRecord
<1>6. policy' \in PolicyRecord /\ policy'.open = open /\ policy'.device = states
  <2> HIDE DEF open, states
  <2> QED BY <1>1, <1>2, <1>3, <1>5 DEF PolicyRecord
<1>7. \A d \in new : /\ policy'.device[d] = Opens(policy, d).device[d]
                     /\ table'[d].gen = node[d].gen /\ node[d].there /\ ~Current(d)
  BY <1>1, <1>6
<1>8. \A d \in Devices \ new : d \in gone => /\ table'[d].gen = 0 /\ d \notin open
  BY <1>1
<1>9. \A d \in Devices \ new : d \notin gone => /\ policy'.device[d] = policy.device[d] /\ table'[d] = table[d]
                                                /\ (d \in open <=> d \in policy.open)
  BY <1>1, <1>6
<1>10. \A d \in Devices \ new : ~node[d].there \/ Current(d)
  OBVIOUS
<1>11. new \subseteq open /\ gone \subseteq Devices /\ new \subseteq Devices
  OBVIOUS
<1>12. \A d \in gone : ~Current(d)
  OBVIOUS
<1> HIDE DEF new, gone, open, states, rows
<1>13. \A d \in Devices : node[d].gen \in Nat /\ node[d].gen > 0 /\ table[d].gen <= node[d].gen /\ table[d].gen \in Nat
  BY <1>2 DEF ListenInv, Tabled, NodeRecord
<1>14. Tabled'
  <2>1. ASSUME NEW d \in Devices
        PROVE  (d \in open <=> table'[d].gen > 0) /\ table'[d].gen <= node[d].gen
    <3>1. CASE d \in new
      BY <1>7, <1>11, <1>13, <3>1
    <3>2. CASE d \notin new /\ d \in gone
      BY <1>8, <1>13, <3>2
    <3>3. CASE d \notin new /\ d \notin gone
      BY <1>9, <1>13, <3>3 DEF ListenInv, Tabled
    <3> QED BY <3>1, <3>2, <3>3
  <2> QED BY <1>1, <1>6, <1>13, <2>1 DEF Tabled
<1>15. \A d \in Devices \ new : Current(d)' => Current(d) /\ d \notin gone
  BY <1>1, <1>8, <1>9, <1>10, <1>13 DEF Current
<1>16. \A d \in Devices : Current(d) => d \notin new /\ d \notin gone /\ Current(d)'
  BY <1>1, <1>7, <1>9, <1>12 DEF Current
<1>17. Silent'
  BY <1>1, <1>16 DEF ListenInv, Silent
<1>18. InStep'
  <2>1. ASSUME NEW d \in new PROVE Followed(policy'.device[d], node[d], now)
    <3> DEFINE st == Opens(policy, d).device[d]
               n == node[d]
    <3>0. d \in Devices /\ n \in NodeRecord
      BY <1>2, <1>11
    <3>1. st \in DeviceRecord /\ View(st).heldSince = Never /\ View(st).keys = (n.down \ (Hats \cup Triggers)) \ {Guide}
      BY <1>2, <3>0, OpensDoes
    <3>2. n.queue = <<>>
      BY <1>7, <3>0 DEF ListenInv, Silent
    <3> HIDE DEF st, n
    <3>3. Sync(View(st), n, now)
      <4>1. ~(View(st).heldSince >= 0)
        BY <3>1 DEF Never
      <4>2. (n.down \cap Buttons) \ n.unseen \subseteq View(st).keys
        BY <3>1, InputsAssumption
      <4> QED BY <4>1, <4>2 DEF Sync
    <3>4. Followed(st, n, now)
      BY <3>0, <3>1, <3>2, <3>3, StartFollowed, ViewType
    <3> QED BY <1>7, <3>4 DEF st, n
  <2>2. ASSUME NEW d \in Devices \ new, Current(d)' PROVE Followed(policy'.device[d], node[d], now)
    BY <1>9, <1>15, <2>2 DEF ListenInv, InStep
  <2> QED BY <1>1, <2>1, <2>2 DEF InStep
<1> QED BY <1>1, <1>4, <1>6, <1>14, <1>17, <1>18 DEF ListenInv, ListenTypes, AllShort

\* hold() marks the hold and changes no view.
LEMMA HoldDoes ==
  ASSUME NEW p \in PolicyRecord, NEW d \in Devices, NEW t \in Int
  PROVE  LET new == Hold(p, d, t).policy
         IN  /\ new \in PolicyRecord /\ new.open = p.open
             /\ \A x \in Devices : View(new.device[x]) = View(p.device[x])
<1> DEFINE new == Hold(p, d, t).policy
           st == p.device[d]
           after == [st EXCEPT !.held = TRUE]
           told == Reported(p.hold, d, t)
           mid == [p EXCEPT !.device[d] = after]
<1>1. new = p \/ new = [p EXCEPT !.device[d] = after, !.hold = told]
  BY DEF Hold
<1>2. st \in DeviceRecord /\ told \in ReportRecord
  BY ReportedType DEF PolicyRecord
<1> HIDE DEF new, st, told
<1>3. after \in DeviceRecord /\ View(after) = View(st)
  BY <1>2 DEF DeviceRecord, View
<1> HIDE DEF after
<1>4. CASE new = p
  BY <1>4 DEF new
<1>5. CASE new = [p EXCEPT !.device[d] = after, !.hold = told]
  <2>1. mid \in PolicyRecord /\ mid.open = p.open /\ mid.device = [p.device EXCEPT ![d] = after]
    BY <1>3, PolicyWith
  <2>2. new = [mid EXCEPT !.hold = told]
    BY <1>5
  <2> HIDE DEF mid
  <2>3. new \in PolicyRecord /\ new.open = p.open /\ new.device = [p.device EXCEPT ![d] = after]
    BY <1>2, <2>1, <2>2 DEF PolicyRecord
  <2>4. \A x \in Devices : new.device[x] = IF x = d THEN after ELSE p.device[x]
    BY <2>3 DEF PolicyRecord
  <2> QED BY <1>3, <2>3, <2>4 DEF new, st
<1> QED BY <1>1, <1>4, <1>5

\* What a node is followed by is its view.
LEMMA SameView ==
  ASSUME NEW st, NEW other, View(st) = View(other), NEW n, NEW t, Followed(st, n, t)
  PROVE  Followed(other, n, t)
BY DEF Followed, IsFollowed

\* The timer of a hold, in time or for a press that is over.
LEMMA ListenDue ==
  ASSUME ListenInv, NEW t \in timers, Due(t)
  PROVE  ListenInv'
<1> DEFINE hold == Hold(policy, t.of, now).policy
<1>1. /\ timers' = timers \ {t}
      /\ UNCHANGED <<now, pad, lagging, node, table, current>>
  BY DEF Due
<1>2. /\ policy \in PolicyRecord /\ now \in Nat /\ t.of \in Devices /\ timers \subseteq Timers
      /\ out \in [presses : {out.presses}, signals : {out.signals}, holds : {out.holds},
                  captures : {out.captures}, early : {out.early}]
  BY DEF ListenInv, ListenTypes, Timers
<1>3. /\ policy' = policy \/ policy' = hold
      /\ out' = out \/ \E holds, early : out' = [out EXCEPT !.holds = holds, !.early = early]
  BY DEF Due
<1>4. /\ hold \in PolicyRecord /\ hold.open = policy.open
      /\ \A x \in Devices : View(hold.device[x]) = View(policy.device[x])
  BY <1>2, HoldDoes
<1> HIDE DEF hold
<1>5. /\ policy' \in PolicyRecord /\ policy'.open = policy.open
      /\ \A x \in Devices : View(policy'.device[x]) = View(policy.device[x])
  BY <1>2, <1>3, <1>4
<1>6. /\ out'.presses = out.presses
      /\ out' \in [presses : {out'.presses}, signals : {out'.signals}, holds : {out'.holds},
                  captures : {out'.captures}, early : {out'.early}]
  BY <1>2, <1>3
<1>7. Tabled' /\ Silent' /\ AllShort' /\ \A x \in Devices : Current(x)' <=> Current(x)
  BY <1>1, <1>5, <1>6 DEF ListenInv, Tabled, Silent, AllShort, Current
<1>8. InStep'
  <2>1. ASSUME NEW x \in Devices, Current(x)' PROVE Followed(policy'.device[x], node[x], now)
    <3>1. Followed(policy.device[x], node[x], now)
      BY <1>7, <2>1 DEF ListenInv, InStep
    <3> QED BY <1>5, <3>1, SameView
  <2> QED BY <1>1, <2>1 DEF InStep
<1> QED BY <1>1, <1>2, <1>5, <1>6, <1>7, <1>8 DEF ListenInv, ListenTypes

\* Time only makes the node's stamps older.
LEMMA ListenTick ==
  ASSUME ListenInv, Tick
  PROVE  ListenInv'
<1>1. /\ now' = now + 1 /\ now \in Nat
      /\ UNCHANGED <<pad, lagging, node, table, policy, timers, out, current>>
  BY DEF Tick, ListenInv, ListenTypes
<1>2. \A x \in Devices : Current(x)' <=> Current(x)
  BY <1>1 DEF Current
<1>3. Tabled' /\ Silent' /\ AllShort'
  BY <1>1, <1>2 DEF ListenInv, Tabled, Silent, AllShort
<1>4. InStep'
  <2>1. ASSUME NEW x \in Devices, Current(x)' PROVE Followed(policy.device[x], node[x], now + 1)
    <3> DEFINE n == node[x]
               st == policy.device[x]
    <3>1. PICK views : IsFollowed(views, st, n, now)
      BY <1>2, <2>1 DEF ListenInv, InStep, Followed
    <3>2. n.since \in Int
      BY DEF ListenInv, ListenTypes, NodeRecord
    <3> HIDE DEF n, st
    <3>3. IsFollowed(views, st, n, now + 1)
      BY <1>1, <3>1, <3>2 DEF IsFollowed, Sync
    <3> QED BY <3>3 DEF Followed, n, st
  <2> QED BY <1>1, <2>1 DEF InStep
<1> QED BY <1>1, <1>3, <1>4 DEF ListenInv, ListenTypes

\* Every step of the player, the kernel and the listener.
LEMMA ListenStep == ListenInv /\ [ListenerNext]_listenerVars => ListenInv'
<1> SUFFICES ASSUME ListenInv, [ListenerNext]_listenerVars PROVE ListenInv'
  OBVIOUS
<1>1. CASE UNCHANGED listenerVars
  BY <1>1 DEF listenerVars, ListenInv, ListenTypes, Tabled, Silent, InStep, AllShort, Current
<1>2. CASE ListenerNext
  BY <1>2, ListenInput, ListenRepeat, ListenUnplug, ListenPlug, ListenRead, ListenReadGone, ListenRescan,
     ListenDue, ListenTick DEF ListenerNext
<1> QED BY <1>1, <1>2

\* A press that GuideListener reports lasted no longer than kMaxHoldMs,
\* began after its node was armed, and nothing the node reported went with
\* it: whichever events a full queue dropped, however late the listener
\* reads, and whatever is unplugged, plugged in again or rescanned in
\* between (GuidePress.h:10-13).
THEOREM PressesAreShortAndAloneHolds == ListenerSpec => []PressesAreShortAndAlone
<1>1. ListenInv => PressesAreShortAndAlone
  BY DEF ListenInv, AllShort, Short, PressesAreShortAndAlone
<1> QED BY <1>1, ListenInit, ListenStep, PTL DEF ListenerSpec

-----------------------------------------------------------------------------
\* GuideListener: one press of the player's is told once, by one node.
\*
\* The invariant dates the presses (m: when each was begun and ended, a
\* history of the player's, no part of the model): what is still to be
\* repeated or read of one was stamped within Lag of its date. A report
\* that was made is of that date or a later one, so what another node
\* tells of the press falls into the window of the mirrors, unless it is
\* that node the report is of; and that cannot be, as the report would
\* have become the node's only by an event past the window (Once).
Key(e) == <<e.press, e.value>>

Dated(m) ==
  /\ \A k \in DOMAIN m : k \in Nat \X {0, 1} /\ m[k] \in Nat /\ m[k] <= now /\ k[1] <= pad.downs
  /\ \A c \in pad.down : /\ pad.press[c] <= pad.downs /\ <<pad.press[c], 0>> \notin DOMAIN m
                         /\ \A o \in pad.down : pad.press[o] = pad.press[c] => o = c
Grows(m, m2) == DOMAIN m \subseteq DOMAIN m2 /\ \A k \in DOMAIN m : m2[k] = m[k]

\* What a node has to repeat; the press of Guide that is on, or the latest
\* of all.
Owes(d) == IF d \in Mirrored THEN lagging[d] ELSE <<>>
LastGuide == IF Guide \in pad.down THEN pad.press[Guide] ELSE pad.downs

\* What is queued is stamped within Lag of its date and not older than
\* Late, what is to be repeated is not older than Lag.
Stamped(m, t, e) ==
  /\ e.at <= t /\ t <= e.at + Late
  /\ e.code # Lost => Key(e) \in DOMAIN m /\ m[Key(e)] <= e.at /\ e.at <= m[Key(e)] + Lag
Owing(m, t, e) == Key(e) \in DOMAIN m /\ m[Key(e)] <= t /\ t <= m[Key(e)] + Lag /\ e.made = m[Key(e)]

\* Events of Guide come in the order of its presses.
Precedes(i, e) == e.code = Guide => i <= e.press /\ (e.value = 1 => i < e.press)

\* A node's stream: queued, then to be repeated; "said" are presses of
\* Guide the listener has read or told of.
QueueFair(m, t, q) ==
  /\ \A j \in DOMAIN q : Stamped(m, t, q[j])
  /\ \A i, j \in DOMAIN q : i < j => q[i].at <= q[j].at /\ (q[i].code = Guide => Precedes(q[i].press, q[j]))
LagFair(m, t, l) ==
  /\ \A j \in DOMAIN l : Owing(m, t, l[j])
  /\ \A i, j \in DOMAIN l : i < j /\ l[i].code = Guide => Precedes(l[i].press, l[j])
InLine(q, l) == \A i \in DOMAIN q, j \in DOMAIN l : q[i].code = Guide => Precedes(q[i].press, l[j])
Behind(said, q, l) ==
  \A s \in said : (\A j \in DOMAIN q : Precedes(s, q[j])) /\ (\A j \in DOMAIN l : Precedes(s, l[j]))
UpTo(last, said, q, l) ==
  /\ \A s \in said : s <= last
  /\ \A j \in DOMAIN q : q[j].code = Guide => q[j].press <= last
  /\ \A j \in DOMAIN l : l[j].code = Guide => l[j].press <= last
StreamFair(m, t, q, l, said, last) ==
  QueueFair(m, t, q) /\ LagFair(m, t, l) /\ InLine(q, l) /\ Behind(said, q, l) /\ UpTo(last, said, q, l)

ToldBy(d) == {r \in out.presses \cup out.holds : r.by = d}
Said(d) == {current[d]} \cup {r.press : r \in ToldBy(d)}
Streams(m) == \A d \in Devices : StreamFair(m, now, node[d].queue, Owes(d), Said(d), LastGuide)

\* The presses whose beginning (1) or end (0) a node has yet to tell of.
Has(q, l, c, v, i) ==
  \/ \E j \in DOMAIN q : q[j].code = c /\ q[j].value = v /\ q[j].press = i
  \/ \E j \in DOMAIN l : l[j].code = c /\ l[j].value = v /\ l[j].press = i
Awaited(C, v) == {x \in Devices \X Nat : \E c \in C : Has(node[x[1]].queue, Owes(x[1]), c, v, x[2])}

\* The nodes that are followed for a hold.
Waits(state) == state.heldSince >= 0 /\ ~state.held
Waiting == {x \in Devices \X Nat : Waits(policy.device[x[1]]) /\ x[2] = current[x[1]]}

\* What was told is dated no later than the report of its kind, which is
\* of no other node that has still to tell of it; and is told by one node.
Past(report, told, m, v, off) ==
  \A r \in told : r.by \in Devices /\ <<r.press, v>> \in DOMAIN m /\ m[<<r.press, v>>] + off <= report.at
NotTheirs(report, told, P) ==
  \A r \in told : \A d \in Devices \ {r.by} : <<d, r.press>> \in P => report.by # d
ByOne(told) == \A r, s \in told : r.press = s.press => r.by = s.by
Once(report, told, m, v, off, P) ==
  Past(report, told, m, v, off) /\ NotTheirs(report, told, P) /\ ByOne(told)

\* A report is no later than what its node has still queued.
NoLater(report, q, d) == report.by = d => \A j \in DOMAIN q : report.at <= q[j].at
InTime(report) == report.at <= now /\ \A d \in Devices : NoLater(report, node[d].queue, d)

ReportsFair(m) ==
  /\ Once(policy.release, out.presses, m, 0, 0, Awaited({Guide}, 0))
  /\ Once(policy.capture, out.captures, m, 1, 0, Awaited(CaptureButtons, 1))
  /\ Once(policy.hold, out.holds, m, 1, HoldMs, Awaited({Guide}, 1) \cup Waiting)
  /\ InTime(policy.release) /\ InTime(policy.capture) /\ policy.hold.at <= now

\* A timer is due no later than it may be for the press that is followed,
\* which is the one read last.
DueFor(t, state, q) ==
  /\ now <= t.due + Late /\ t.due <= now + HoldTimerMs
  /\ \A j \in DOMAIN q : t.due <= q[j].at + Late + HoldTimerMs
  /\ state.heldSince >= 0 => t.due <= state.heldSince + Late + HoldTimerMs
Timely == \A t \in timers : DueFor(t, policy.device[t.of], node[t.of].queue)
HeldFrom(m, state, i) ==
  state.heldSince >= 0 =>
    /\ <<i, 1>> \in DOMAIN m /\ m[<<i, 1>>] <= state.heldSince /\ state.heldSince <= m[<<i, 1>>] + Lag
Follows(m) == \A d \in Devices : HeldFrom(m, policy.device[d], current[d])

\* A node that follows a press has not told of it, but as a hold.
Untold(state, i, d, presses, holds) ==
  state.heldSince >= 0 =>
    /\ \A r \in presses : r.by = d => r.press < i
    /\ ~state.held => \A h \in holds : h.by = d => h.press < i
Untolds == \A d \in Devices : Untold(policy.device[d], current[d], d, out.presses, out.holds)
Apart(presses, holds) == \A r \in presses, h \in holds : r.by = h.by => r.press # h.press

OnceFor(m) ==
  /\ current \in [Devices -> Nat]
  /\ Dated(m) /\ Streams(m) /\ ReportsFair(m) /\ Timely /\ Follows(m) /\ Untolds /\ Apart(out.presses, out.holds)

\* How late repetitions and the listener may be: what is late of a press
\* falls into the window of the mirrors (kSameReleaseMs).
Punctual == Lag < SameReleaseMs /\ HoldTimerMs - HoldMs + Lag + 2 * Late < SameReleaseMs

-----------------------------------------------------------------------------
\* Fewer to wait for, or presses that nothing was told of.
LEMMA OnceFewer ==
  ASSUME NEW report, NEW told, NEW m, NEW v, NEW off, NEW P, Once(report, told, m, v, off, P),
         NEW m2, Grows(m, m2), NEW P2,
         \A d \in Devices : \A i : <<d, i>> \in P2 => <<d, i>> \in P \/ <<i, v>> \notin DOMAIN m
  PROVE  Once(report, told, m2, v, off, P2)
<1>1. Past(report, told, m2, v, off)
  BY DEF Once, Past, Grows
<1>2. NotTheirs(report, told, P2)
  BY DEF Once, Past, NotTheirs
<1> QED BY <1>1, <1>2 DEF Once

\* An event told to a report: it is a mirror, or the report becomes its.
LEMMA OnceReported ==
  ASSUME NEW report \in ReportRecord, NEW told, NEW m, NEW v, NEW off \in Nat, NEW P,
         Once(report, told, m, v, off, P),
         \A k \in DOMAIN m : m[k] \in Nat,
         NEW d \in Devices, NEW i, <<d, i>> \in P, <<i, v>> \in DOMAIN m,
         NEW x \in Nat, NEW w \in Int, w < SameReleaseMs,
         m[<<i, v>>] + off <= x, x <= m[<<i, v>>] + off + w,
         report.by = d => report.at <= x,
         NEW P2, P2 \subseteq P,
         \A j : <<d, j>> \in P2 /\ <<j, v>> \in DOMAIN m => x <= m[<<j, v>>] + off + w,
         NEW more, told \subseteq more,
         \A r \in more \ told : ~Mirrors(report, d, x) /\ r.by = d /\ r.press = i
  PROVE  Once(Reported(report, d, x), more, m, v, off, P2)
<1>0. SameReleaseMs \in Nat /\ report.at \in Int
  BY TimesAssumption DEF ReportRecord
<1>1. CASE Mirrors(report, d, x)
  <2>1. more = told /\ Reported(report, d, x) = report
    BY <1>1 DEF Reported
  <2> QED BY <2>1 DEF Once, Past, NotTheirs
<1>2. CASE ~Mirrors(report, d, x)
  <2> DEFINE new == [at |-> x, by |-> d]
  <2>1. Reported(report, d, x) = new /\ new.at = x /\ new.by = d
    BY <1>2 DEF Reported
  <2> HIDE DEF new
  <2>2. ASSUME NEW r \in told
        PROVE  /\ r.by \in Devices /\ <<r.press, v>> \in DOMAIN m /\ m[<<r.press, v>>] \in Nat
               /\ m[<<r.press, v>>] + off <= report.at /\ report.at >= 0
    <3>1. r.by \in Devices /\ <<r.press, v>> \in DOMAIN m /\ m[<<r.press, v>>] + off <= report.at
      BY <2>2 DEF Once, Past
    <3>2. m[<<r.press, v>>] \in Nat
      BY <3>1
    <3> QED BY <1>0, <3>1, <3>2
  <2>3. ASSUME NEW r \in told PROVE report.at <= x /\ (d # report.by => x - report.at >= SameReleaseMs)
    <3>1. report.at >= 0 /\ report.at \in Int
      BY <1>0, <2>2
    <3>2. d # report.by => x - report.at >= SameReleaseMs
      BY <1>0, <1>2, <3>1 DEF Mirrors
    <3> QED BY <1>0, <3>1, <3>2
  <2>4. Past(new, more, m, v, off)
    <3>1. ASSUME NEW r \in more
          PROVE  r.by \in Devices /\ <<r.press, v>> \in DOMAIN m /\ m[<<r.press, v>>] + off <= x
      <4>1. CASE r \in told
        BY <1>0, <2>2, <2>3, <4>1
      <4>2. CASE r \notin told
        BY <4>2
      <4> QED BY <4>1, <4>2
    <3> QED BY <2>1, <3>1 DEF Past
  <2>5. NotTheirs(new, more, P2)
    <3>1. ASSUME NEW r \in more, d # r.by, <<d, r.press>> \in P2 PROVE FALSE
      <4>1. r \in told
        BY <3>1
      <4>2. report.by # d
        BY <3>1, <4>1 DEF Once, NotTheirs
      <4>3. x <= m[<<r.press, v>>] + off + w
        BY <2>2, <3>1, <4>1
      <4> QED BY <1>0, <2>2, <2>3, <4>1, <4>2, <4>3
    <3> QED BY <2>1, <3>1 DEF NotTheirs
  <2>6. ByOne(more)
    <3>1. ASSUME NEW r \in told, r.press = i PROVE r.by = d
      <4> SUFFICES ASSUME r.by # d PROVE FALSE
        OBVIOUS
      <4>1. report.by # d
        BY <3>1 DEF Once, NotTheirs
      <4>2. m[<<i, v>>] + off <= report.at /\ m[<<i, v>>] \in Nat
        BY <2>2, <3>1
      <4> QED BY <1>0, <2>3, <4>1, <4>2
    <3> QED BY <3>1 DEF Once, ByOne
  <2> QED BY <2>1, <2>4, <2>5, <2>6 DEF Once
<1> QED BY <1>1, <1>2

\* A stream stays in order when there are more dates and presses.
LEMMA StreamGrows ==
  ASSUME NEW m, NEW m2, Grows(m, m2), NEW t, NEW q \in Seq(QueueEvent), NEW l \in Seq(Repetition),
         NEW said \in SUBSET Nat, NEW last \in Nat, NEW last2 \in Nat, last <= last2,
         StreamFair(m, t, q, l, said, last)
  PROVE  StreamFair(m2, t, q, l, said, last2)
<1>1. QueueFair(m2, t, q)
  BY DEF StreamFair, QueueFair, Stamped, Grows
<1>2. LagFair(m2, t, l)
  BY DEF StreamFair, LagFair, Owing, Grows
<1>3. \A j \in DOMAIN q : q[j].code = Guide => q[j].press \in Nat
  <2>1. \A j \in DOMAIN q : q[j] \in QueueEvent
    OBVIOUS
  <2> QED BY <2>1, LostIsNoInput DEF QueueEvent, KeyEvent, LostEvent, Inputs
<1>4. \A j \in DOMAIN l : l[j].press \in Nat
  <2>1. \A j \in DOMAIN l : l[j] \in Repetition
    OBVIOUS
  <2> QED BY <2>1 DEF Repetition
<1>5. UpTo(last2, said, q, l)
  BY <1>3, <1>4 DEF StreamFair, UpTo
<1> QED BY <1>1, <1>2, <1>5 DEF StreamFair

\* One more is queued, after everything that was said and was queued.
QueuedLast(q, l, said, ev, last) ==
  /\ \A j \in DOMAIN q : q[j].code = Guide => Precedes(q[j].press, ev)
  /\ \A s \in said : Precedes(s, ev)
  /\ ev.code = Guide => \A j \in DOMAIN l : Precedes(ev.press, l[j])
  /\ ev.code = Guide => ev.press <= last

\* What is queued now, after all that is queued, keeps a stream in order.
LEMMA StreamQueues ==
  ASSUME NEW m, NEW t, NEW q \in Seq(QueueEvent), NEW l, NEW said, NEW last,
         StreamFair(m, t, q, l, said, last),
         NEW ev, ev.at = t, Stamped(m, t, ev), QueuedLast(q, l, said, ev, last)
  PROVE  StreamFair(m, t, Append(q, ev), l, said, last)
<1> DEFINE q2 == Append(q, ev)
           k == Len(q) + 1
<1>1. k \in Nat /\ DOMAIN q = 1 .. (k - 1) /\ DOMAIN q2 = 1 .. k
      /\ q2[k] = ev /\ \A j \in 1 .. (k - 1) : q2[j] = q[j]
  OBVIOUS
<1> HIDE DEF q2, k
<1>2. ASSUME NEW j \in DOMAIN q2 PROVE (q2[j] = ev /\ j = k) \/ (j \in DOMAIN q /\ q2[j] = q[j])
  BY <1>1
<1>3. QueueFair(m, t, q2)
  <2>1. \A j \in DOMAIN q2 : Stamped(m, t, q2[j])
    BY <1>2 DEF StreamFair, QueueFair
  <2>2. ASSUME NEW i \in DOMAIN q2, NEW j \in DOMAIN q2, i < j
        PROVE  q2[i].at <= q2[j].at /\ (q2[i].code = Guide => Precedes(q2[i].press, q2[j]))
    <3>1. i \in DOMAIN q /\ q2[i] = q[i]
      BY <1>1, <2>2
    <3>2. CASE j \in DOMAIN q
      <4>1. q2[j] = q[j]
        BY <1>1, <3>2
      <4> QED BY <2>2, <3>1, <3>2, <4>1 DEF StreamFair, QueueFair
    <3>3. CASE j \notin DOMAIN q
      <4>1. q2[j] = ev
        BY <1>2, <3>3
      <4>2. q[i].at <= t
        BY <3>1 DEF StreamFair, QueueFair, Stamped
      <4> QED BY <3>1, <4>1, <4>2 DEF QueuedLast
    <3> QED BY <3>2, <3>3
  <2> QED BY <2>1, <2>2 DEF QueueFair
<1>4. InLine(q2, l) /\ Behind(said, q2, l) /\ UpTo(last, said, q2, l)
  <2>1. InLine(q2, l)
    BY <1>2 DEF StreamFair, InLine, QueuedLast
  <2>2. Behind(said, q2, l)
    BY <1>2 DEF StreamFair, Behind, QueuedLast
  <2>3. UpTo(last, said, q2, l)
    BY <1>2 DEF StreamFair, UpTo, QueuedLast
  <2> QED BY <2>1, <2>2, <2>3
<1> QED BY <1>3, <1>4 DEF StreamFair, q2

\* The queue is lost, or read.
LEMMA StreamLoses ==
  ASSUME NEW m, NEW t \in Nat, NEW q, NEW l, NEW said, NEW last, StreamFair(m, t, q, l, said, last),
         NEW ev, ev.at = t, ev.code = Lost
  PROVE  StreamFair(m, t, <<ev>>, l, said, last)
<1> DEFINE q2 == <<ev>>
<1>1. DOMAIN q2 = {1} /\ q2[1] = ev /\ Lost # Guide
  BY LostIsNoInput DEF Inputs
<1>2. Late \in Nat
  BY ListenerAssumption
<1> HIDE DEF q2
<1>3. QueueFair(m, t, q2)
  BY <1>1, <1>2 DEF QueueFair, Stamped
<1>4. InLine(q2, l) /\ Behind(said, q2, l) /\ UpTo(last, said, q2, l)
  BY <1>1 DEF StreamFair, InLine, Behind, UpTo, Precedes
<1> QED BY <1>3, <1>4 DEF StreamFair, q2

\* Of a queue that is emptied nothing is left to be in order.
LEMMA StreamEmpties ==
  ASSUME NEW m, NEW t, NEW q, NEW l, NEW said, NEW last, StreamFair(m, t, q, l, said, last)
  PROVE  StreamFair(m, t, <<>>, l, said, last)
BY DEF StreamFair, QueueFair, InLine, Behind, UpTo

\* Nor of a virtual pad that has nothing to repeat.
LEMMA StreamOwesNone ==
  ASSUME NEW m, NEW t, NEW q, NEW l, NEW said, NEW last, StreamFair(m, t, q, l, said, last)
  PROVE  StreamFair(m, t, q, <<>>, said, last)
BY DEF StreamFair, LagFair, InLine, Behind, UpTo

\* The oldest repetition is made: the next is in line.
LEMMA StreamTail ==
  ASSUME NEW m, NEW t, NEW q, NEW l \in Seq(Repetition), NEW said, NEW last,
         StreamFair(m, t, q, l, said, last), l # <<>>
  PROVE  StreamFair(m, t, q, Tail(l), said, last)
<1> DEFINE l2 == Tail(l)
<1>1. /\ \A j \in DOMAIN l2 : j \in Nat /\ j + 1 \in DOMAIN l /\ l2[j] = l[j + 1]
  OBVIOUS
<1> HIDE DEF l2
<1>2. LagFair(m, t, l2)
  <2>1. ASSUME NEW i \in DOMAIN l2, NEW j \in DOMAIN l2, i < j, l2[i].code = Guide
        PROVE  Precedes(l2[i].press, l2[j])
    <3>1. i + 1 \in DOMAIN l /\ j + 1 \in DOMAIN l /\ i + 1 < j + 1 /\ l2[i] = l[i + 1] /\ l2[j] = l[j + 1]
      BY <1>1, <2>1
    <3> QED BY <2>1, <3>1 DEF StreamFair, LagFair
  <2>2. \A j \in DOMAIN l2 : Owing(m, t, l2[j])
    BY <1>1 DEF StreamFair, LagFair
  <2> QED BY <2>1, <2>2 DEF LagFair
<1>3. InLine(q, l2) /\ Behind(said, q, l2) /\ UpTo(last, said, q, l2)
  BY <1>1 DEF StreamFair, InLine, Behind, UpTo
<1> QED BY <1>2, <1>3 DEF StreamFair, l2

\* What is repeated next follows all that was queued.
LEMMA HeadQueuesLast ==
  ASSUME NEW m, NEW t, NEW q \in Seq(QueueEvent), NEW l \in Seq(Repetition), NEW said, NEW last,
         StreamFair(m, t, q, l, said, last), l # <<>>,
         NEW ev, ev.code = Head(l).code, ev.value = Head(l).value, ev.press = Head(l).press
  PROVE  QueuedLast(q, Tail(l), said, ev, last)
<1> DEFINE l2 == Tail(l)
           h == Head(l)
<1>1. /\ \A j \in DOMAIN l2 : j \in Nat /\ j >= 1 /\ j + 1 \in DOMAIN l /\ l2[j] = l[j + 1]
      /\ 1 \in DOMAIN l /\ h = l[1]
  OBVIOUS
<1> HIDE DEF l2, h
<1>2. \A i : Precedes(i, ev) <=> Precedes(i, h)
  BY DEF Precedes, h
<1>3. h.code = Guide => \A j \in DOMAIN l2 : Precedes(h.press, l2[j])
  <2>1. ASSUME h.code = Guide, NEW j \in DOMAIN l2 PROVE Precedes(h.press, l2[j])
    <3>1. j + 1 \in DOMAIN l /\ 1 < j + 1 /\ l2[j] = l[j + 1]
      BY <1>1
    <3> QED BY <1>1, <2>1, <3>1 DEF StreamFair, LagFair
  <2> QED BY <2>1
<1>4. /\ \A j \in DOMAIN q : q[j].code = Guide => Precedes(q[j].press, h)
      /\ \A s \in said : Precedes(s, h)
      /\ h.code = Guide => h.press <= last
  BY <1>1 DEF StreamFair, InLine, Behind, UpTo
<1> QED BY <1>2, <1>3, <1>4 DEF QueuedLast, l2, h

\* More to repeat: presses and releases after all that is known.
Later(last, last2, e) ==
  e.code = Guide => last <= e.press /\ e.press <= last2 /\ (e.value = 1 => last < e.press)

\* What a virtual pad is given to repeat comes after all it has.
LEMMA StreamOwes ==
  ASSUME NEW m, NEW t, NEW q \in Seq(QueueEvent), NEW l \in Seq(Repetition), NEW said \in SUBSET Nat,
         NEW last \in Nat, NEW last2 \in Nat, last <= last2,
         StreamFair(m, t, q, l, said, last),
         NEW m2, Grows(m, m2), NEW x \in Seq(Repetition),
         \A j \in DOMAIN x : Owing(m2, t, x[j]) /\ Later(last, last2, x[j]),
         \A i, j \in DOMAIN x : i < j /\ x[i].code = Guide => Precedes(x[i].press, x[j])
  PROVE  StreamFair(m2, t, q, l \o x, said, last2)
<1> DEFINE l2 == l \o x
           n == Len(l)
<1>0. StreamFair(m2, t, q, l, said, last2)
  BY StreamGrows
<1>1. n \in Nat /\ DOMAIN l = 1 .. n
  OBVIOUS
<1>2. ASSUME NEW j \in DOMAIN l2
      PROVE  /\ j \in Nat
             /\ (j \in DOMAIN l /\ l2[j] = l[j]) \/ (j > n /\ j - n \in DOMAIN x /\ l2[j] = x[j - n])
  OBVIOUS
<1> HIDE DEF l2, n
<1>3. ASSUME NEW j \in DOMAIN x, NEW i \in Nat, i <= last PROVE Precedes(i, x[j])
  <2>1. x[j].press \in Nat
    <3>1. x[j] \in Repetition
      OBVIOUS
    <3> QED BY <3>1 DEF Repetition
  <2> QED BY <1>3, <2>1 DEF Later, Precedes
<1>4. LagFair(m2, t, l2)
  <2>1. \A j \in DOMAIN l2 : Owing(m2, t, l2[j])
    BY <1>0, <1>2 DEF StreamFair, LagFair
  <2>2. ASSUME NEW i \in DOMAIN l2, NEW j \in DOMAIN l2, i < j, l2[i].code = Guide
        PROVE  Precedes(l2[i].press, l2[j])
    <3>1. CASE j \in DOMAIN l /\ l2[j] = l[j]
      <4>1. i \in DOMAIN l /\ l2[i] = l[i]
        BY <1>1, <1>2, <2>2, <3>1
      <4> QED BY <1>0, <2>2, <3>1, <4>1 DEF StreamFair, LagFair
    <3>2. CASE j > n /\ j - n \in DOMAIN x /\ l2[j] = x[j - n]
      <4>1. CASE i \in DOMAIN l /\ l2[i] = l[i]
        <5>1. l[i].press \in Nat /\ l[i].press <= last
          <6>1. l[i] \in Repetition
            BY <4>1
          <6>2. l[i].code = Guide
            BY <2>2, <4>1
          <6>3. l[i].press <= last
            BY <4>1, <6>2 DEF StreamFair, UpTo
          <6> QED BY <6>1, <6>3 DEF Repetition
        <5> QED BY <1>3, <3>2, <4>1, <5>1
      <4>2. CASE i > n /\ i - n \in DOMAIN x /\ l2[i] = x[i - n]
        <5>1. i - n < j - n
          BY <1>1, <1>2, <2>2
        <5> QED BY <2>2, <3>2, <4>2, <5>1
      <4> QED BY <1>2, <4>1, <4>2
    <3> QED BY <1>2, <3>1, <3>2
  <2> QED BY <2>1, <2>2 DEF LagFair
<1>5. InLine(q, l2)
  <2>1. ASSUME NEW i \in DOMAIN q, q[i].code = Guide PROVE q[i].press \in Nat /\ q[i].press <= last
    <3>1. q[i] \in QueueEvent
      OBVIOUS
    <3>2. q[i].press \in Nat
      BY <2>1, <3>1, LostIsNoInput DEF QueueEvent, KeyEvent, LostEvent, Inputs
    <3> QED BY <2>1, <3>2 DEF StreamFair, UpTo
  <2> QED BY <1>0, <1>2, <1>3, <2>1 DEF StreamFair, InLine
<1>6. Behind(said, q, l2)
  <2>1. \A s \in said : s \in Nat /\ s <= last
    BY DEF StreamFair, UpTo
  <2> QED BY <1>0, <1>2, <1>3, <2>1 DEF StreamFair, Behind
<1>7. UpTo(last2, said, q, l2)
  BY <1>0, <1>2 DEF StreamFair, UpTo, Later
<1> QED BY <1>0, <1>4, <1>5, <1>6, <1>7 DEF StreamFair, l2

\* What the invariant says of types.
LEMMA SaidType ==
  ASSUME ListenInv, NEW m, OnceFor(m), NEW d \in Devices
  PROVE  /\ Said(d) \in SUBSET Nat /\ LastGuide \in Nat
         /\ node[d].queue \in Seq(QueueEvent) /\ Owes(d) \in Seq(Repetition)
         /\ StreamFair(m, now, node[d].queue, Owes(d), Said(d), LastGuide)
<1>1. /\ \A k \in DOMAIN m : k[1] \in Nat
      /\ current \in [Devices -> Nat]
  BY DEF OnceFor, Dated
<1>2. ASSUME NEW r \in out.presses \cup out.holds PROVE r.press \in Nat
  <2>1. \E v : <<r.press, v>> \in DOMAIN m
    BY DEF OnceFor, ReportsFair, Once, Past
  <2>2. PICK v : <<r.press, v>> \in DOMAIN m
    BY <2>1
  <2>3. <<r.press, v>>[1] \in Nat
    BY <1>1, <2>2, Zenon
  <2> QED BY <2>3
<1>3. Said(d) \in SUBSET Nat
  BY <1>1, <1>2 DEF Said, ToldBy
<1>4. LastGuide \in Nat
  <2>1. pad.downs \in Nat /\ pad.press \in [Inputs -> Nat] /\ Guide \in Inputs
    BY DEF ListenInv, ListenTypes, PadRecord, Inputs
  <2> QED BY <2>1 DEF LastGuide
<1>5. node[d].queue \in Seq(QueueEvent)
  BY DEF ListenInv, ListenTypes, NodeRecord
<1>6. Owes(d) \in Seq(Repetition)
  BY DEF ListenInv, ListenTypes, Owes
<1>7. StreamFair(m, now, node[d].queue, Owes(d), Said(d), LastGuide)
  BY DEF OnceFor, Streams
<1> QED BY <1>3, <1>4, <1>5, <1>6, <1>7

\* What the kernel does to a node: it queues what happens now; what the
\* node has to tell of is a press that nothing was told of yet.
Arrives(d) ==
  \A j \in DOMAIN node'[d].queue :
    node'[d].queue[j].at = now \/ \E i \in DOMAIN node[d].queue : node'[d].queue[j].at = node[d].queue[i].at
Brings(m, d) ==
  \A c \in Inputs, v \in {0, 1} : \A i :
    Has(node'[d].queue, Owes(d)', c, v, i) => Has(node[d].queue, Owes(d), c, v, i) \/ <<i, v>> \notin DOMAIN m

\* A step of the player or the kernel that brings only what is dated now.
LEMMA KernelKeeps ==
  ASSUME ListenInv, NEW m, OnceFor(m), UNCHANGED <<now, policy, timers, out, current>>,
         NEW m2, Grows(m, m2), Dated(m2)', Streams(m2)',
         \A d \in Devices : Arrives(d) /\ Brings(m, d)
  PROVE  OnceFor(m2)'
<1>0. CaptureButtons \subseteq Inputs /\ {Guide} \subseteq Inputs /\ 0 \in {0, 1} /\ 1 \in {0, 1}
  BY InputsAssumption DEF Inputs
<1>1. ASSUME NEW C \in SUBSET Inputs, NEW v \in {0, 1}, NEW d \in Devices, NEW i, <<d, i>> \in Awaited(C, v)'
      PROVE  <<d, i>> \in Awaited(C, v) \/ <<i, v>> \notin DOMAIN m
  <2>1. i \in Nat /\ \E c \in C : Has(node'[d].queue, Owes(d)', c, v, i)
    BY <1>1 DEF Awaited
  <2>2. PICK c \in C : Has(node'[d].queue, Owes(d)', c, v, i)
    BY <2>1
  <2>3. Has(node[d].queue, Owes(d), c, v, i) \/ <<i, v>> \notin DOMAIN m
    BY <1>1, <2>2 DEF Brings
  <2> QED BY <2>1, <2>3 DEF Awaited
<1>2. Waiting' = Waiting
  BY DEF Waiting
<1>3. ReportsFair(m2)'
  <2>1. Once(policy.release, out.presses, m2, 0, 0, Awaited({Guide}, 0)')
    <3>1. Once(policy.release, out.presses, m, 0, 0, Awaited({Guide}, 0))
      BY DEF OnceFor, ReportsFair
    <3> QED BY <1>0, <1>1, <3>1, OnceFewer
  <2>2. Once(policy.capture, out.captures, m2, 1, 0, Awaited(CaptureButtons, 1)')
    <3>1. Once(policy.capture, out.captures, m, 1, 0, Awaited(CaptureButtons, 1))
      BY DEF OnceFor, ReportsFair
    <3> QED BY <1>0, <1>1, <3>1, OnceFewer
  <2>3. Once(policy.hold, out.holds, m2, 1, HoldMs, Awaited({Guide}, 1)' \cup Waiting)
    <3>1. Once(policy.hold, out.holds, m, 1, HoldMs, Awaited({Guide}, 1) \cup Waiting)
      BY DEF OnceFor, ReportsFair
    <3>2. \A d \in Devices : \A i :
            <<d, i>> \in Awaited({Guide}, 1)' \cup Waiting =>
              <<d, i>> \in Awaited({Guide}, 1) \cup Waiting \/ <<i, 1>> \notin DOMAIN m
      BY <1>0, <1>1
    <3> QED BY <3>1, <3>2, OnceFewer
  <2>4. ASSUME NEW report, InTime(report) PROVE report.at <= now /\ \A d \in Devices : NoLater(report, node'[d].queue, d)
    BY <2>4 DEF InTime, NoLater, Arrives
  <2>5. InTime(policy.release)' /\ InTime(policy.capture)' /\ policy'.hold.at <= now'
    <3>1. InTime(policy.release) /\ InTime(policy.capture) /\ policy.hold.at <= now
      BY DEF OnceFor, ReportsFair
    <3> QED BY <2>4, <3>1 DEF InTime
  <2> QED BY <1>2, <2>1, <2>2, <2>3, <2>5 DEF ReportsFair
<1>4. Timely'
  <2>1. ASSUME NEW t \in timers PROVE DueFor(t, policy.device[t.of], node'[t.of].queue)
    <3>1. DueFor(t, policy.device[t.of], node[t.of].queue)
      BY DEF OnceFor, Timely
    <3>2. t.of \in Devices /\ t.due \in Int /\ now \in Nat /\ {Late, HoldTimerMs} \subseteq Nat
      BY ListenerAssumption DEF ListenInv, ListenTypes, Timers
    <3>3. ASSUME NEW j \in DOMAIN node'[t.of].queue PROVE t.due <= node'[t.of].queue[j].at + Late + HoldTimerMs
      <4>1. CASE node'[t.of].queue[j].at = now
        BY <3>1, <3>2, <4>1 DEF DueFor
      <4>2. CASE \E i \in DOMAIN node[t.of].queue : node'[t.of].queue[j].at = node[t.of].queue[i].at
        BY <3>1, <4>2 DEF DueFor
      <4> QED BY <3>2, <4>1, <4>2 DEF Arrives
    <3> QED BY <3>1, <3>3 DEF DueFor
  <2> QED BY <2>1 DEF Timely, DueFor
<1>5. Follows(m2)'
  BY DEF OnceFor, Follows, HeldFrom, Grows
<1>6. Untolds' /\ Apart(out'.presses, out'.holds)
  BY DEF OnceFor, Untolds
<1> QED BY <1>3, <1>4, <1>5, <1>6 DEF OnceFor

\* What a report leaves queued.
Queues(d, e, q2) ==
  \/ q2 = node[d].queue
  \/ \E ev : q2 = <<ev>> /\ ev.code = Lost /\ ev.at = now
  \/ \E ev : q2 = Append(node[d].queue, ev) /\ ev.code = e.code /\ ev.value = e.value /\ ev.press = e.press /\ ev.at = now

\* What the model's report of an event does to the queue.
LEMMA ReportQueues ==
  ASSUME NEW d \in Devices, NEW e, node[d] \in NodeRecord
  PROVE  Queues(d, e, Report(node[d], d, e).queue)
<1> DEFINE n == node[d]
           down == IF e.value = 1 THEN n.down \cup {e.code} ELSE n.down \ {e.code}
           unseen == n.unseen \ {e.code}
           with == With(n, e, down, unseen)
           since == IF e.code = Guide /\ e.value = 1 THEN now ELSE n.since
           event == [code |-> e.code, value |-> e.value, press |-> e.press, at |-> now, since |-> since, with |-> with]
           heldNow == IF Guide \in down THEN since ELSE Never
           withNow == IF Guide \in down THEN with ELSE {}
           after == [n EXCEPT !.down = down, !.since = heldNow, !.with = withNow]
           lost == [code |-> Lost, at |-> now]
           new == Report(n, d, e)
<1>1. new = IF ~Delivered(d, e.code) THEN [n EXCEPT !.down = down]
            ELSE IF Overflows(d, e.code) THEN [after EXCEPT !.queue = <<lost>>, !.unseen = down \cap Buttons]
            ELSE [after EXCEPT !.queue = Append(after.queue, event), !.unseen = unseen]
  BY Zenon DEF Report
<1>2. /\ event.code = e.code /\ event.value = e.value /\ event.press = e.press /\ event.at = now
      /\ lost.code = Lost /\ lost.at = now
  OBVIOUS
<1>3. n = [there |-> n.there, gen |-> n.gen, down |-> n.down, unseen |-> n.unseen, since |-> n.since,
           with |-> n.with, queue |-> n.queue]
  BY DEF NodeRecord
<1> HIDE DEF n, down, unseen, with, since, heldNow, withNow, event, lost
<1>4. DOMAIN n = {"there", "gen", "down", "unseen", "since", "with", "queue"}
  BY <1>3
<1>5. new.queue = n.queue \/ new.queue = <<lost>> \/ new.queue = Append(n.queue, event)
  BY <1>1, <1>4
<1> HIDE DEF new, after
<1> QED BY <1>2, <1>5 DEF Queues, n, new

\* A node that reports something of a press in time: its stream is fair,
\* and it has nothing else to tell of than it had.
Within(m, t, k) == k \in DOMAIN m /\ m[k] <= t /\ t <= m[k] + Lag

\* With the event dated within Lag, the stream stays in order.
LEMMA QueuesFair ==
  ASSUME NEW d \in Devices, NEW e, NEW q2, Queues(d, e, q2), e.code \in Inputs, now \in Nat,
         node[d].queue \in Seq(QueueEvent),
         NEW m, NEW l, NEW said, NEW last,
         StreamFair(m, now, node[d].queue, l, said, last),
         Within(m, now, Key(e)), QueuedLast(node[d].queue, l, said, e, last)
  PROVE  StreamFair(m, now, q2, l, said, last)
<1> DEFINE q == node[d].queue
<1>1. CASE q2 = q
  BY <1>1
<1>2. CASE \E ev : q2 = <<ev>> /\ ev.code = Lost /\ ev.at = now
  BY <1>2, StreamLoses
<1>3. CASE \E ev : q2 = Append(q, ev) /\ ev.code = e.code /\ ev.value = e.value /\ ev.press = e.press /\ ev.at = now
  <2>1. PICK ev : q2 = Append(q, ev) /\ ev.code = e.code /\ ev.value = e.value /\ ev.press = e.press /\ ev.at = now
    BY <1>3
  <2>2. QueuedLast(q, l, said, ev, last)
    BY <2>1 DEF QueuedLast, Precedes
  <2>3. Stamped(m, now, ev)
    BY <2>1, ListenerAssumption DEF Stamped, Within, Key
  <2> QED BY <2>1, <2>2, <2>3, StreamQueues
<1> QED BY <1>1, <1>2, <1>3 DEF Queues

\* What is in the queue then was there, or is the event or its loss.
LEMMA QueuesTell ==
  ASSUME NEW d \in Devices, NEW e, NEW q2, Queues(d, e, q2), e.code \in Inputs,
         node[d].queue \in Seq(QueueEvent)
  PROVE  /\ \A j \in DOMAIN q2 : q2[j].at = now \/ \E i \in DOMAIN node[d].queue : q2[j].at = node[d].queue[i].at
         /\ \A j \in DOMAIN q2 : q2[j].code \in Inputs =>
              \/ q2[j].code = e.code /\ q2[j].value = e.value /\ q2[j].press = e.press
              \/ \E i \in DOMAIN node[d].queue : q2[j] = node[d].queue[i]
<1> DEFINE q == node[d].queue
<1>1. CASE q2 = q
  BY <1>1
<1>2. CASE \E ev : q2 = <<ev>> /\ ev.code = Lost /\ ev.at = now
  BY <1>2, LostIsNoInput
<1>3. CASE \E ev : q2 = Append(q, ev) /\ ev.code = e.code /\ ev.value = e.value /\ ev.press = e.press /\ ev.at = now
  <2>1. PICK ev : q2 = Append(q, ev) /\ ev.code = e.code /\ ev.value = e.value /\ ev.press = e.press /\ ev.at = now
    BY <1>3
  <2>2. ASSUME NEW j \in DOMAIN q2 PROVE q2[j] = ev \/ (j \in DOMAIN q /\ q2[j] = q[j])
    BY <2>1
  <2> HIDE DEF q
  <2> QED BY <2>1, <2>2 DEF q
<1> QED BY <1>1, <1>2, <1>3 DEF Queues

\* The dates, and what is dated now.
Dating(m, K) == [k \in DOMAIN m \cup K |-> IF k \in DOMAIN m THEN m[k] ELSE now]

\* Dates are only added.
LEMMA DatingGrows ==
  ASSUME NEW m, NEW K
  PROVE  Grows(m, Dating(m, K)) /\ DOMAIN Dating(m, K) = DOMAIN m \cup K
         /\ \A k \in K : k \notin DOMAIN m => Dating(m, K)[k] = now
BY DEF Dating, Grows

\* The events of a node whose stream and reports are as before.
LEMMA StreamSame ==
  ASSUME ListenInv, NEW m, OnceFor(m), NEW m2, Grows(m, m2), UNCHANGED <<now, out, current>>,
         LastGuide' \in Nat, LastGuide <= LastGuide',
         NEW d \in Devices, node'[d].queue = node[d].queue, Owes(d)' = Owes(d)
  PROVE  StreamFair(m2, now', node'[d].queue, Owes(d)', Said(d)', LastGuide')
<1>1. Said(d)' = Said(d)
  BY DEF Said, ToldBy
<1>2. StreamFair(m2, now, node[d].queue, Owes(d), Said(d), LastGuide')
  BY SaidType, StreamGrows
<1> QED BY <1>1, <1>2

\* Input: the next press of the player's or the end of one.
LEMMA OnceInput ==
  ASSUME ListenInv, NEW m, OnceFor(m), NEW code \in Inputs, Input(code)
  PROVE  \E m2 : OnceFor(m2)'
<1> DEFINE value == IF code \in pad.down THEN 0 ELSE 1
           id == IF value = 1 THEN pad.downs + 1 ELSE pad.press[code]
           down == IF value = 1 THEN pad.down \cup {code} ELSE pad.down \ {code}
           e == [code |-> code, value |-> value, press |-> id]
           downs == IF value = 1 THEN id ELSE pad.downs
           own == IF value = 1 THEN id ELSE 0
           since == IF code = Guide THEN now * value ELSE pad.since
           alone == IF code = Guide THEN Ready /\ pad.down = {} ELSE pad.alone /\ Guide \notin pad.down
           good == IF code # Guide \/ value = 1 THEN pad.good
                   ELSE (IF Unread THEN pad.good \cap ToldPresses ELSE pad.good)
                        \cup (IF pad.alone /\ now - pad.since + Lag < HoldMs THEN {id} ELSE {})
           after == [pad EXCEPT !.down = down, !.downs = downs, !.press[code] = own, !.since = since,
                                !.alone = alone, !.good = good]
           told == [code |-> code, value |-> value, press |-> id, made |-> now]
           press == [pad.press EXCEPT ![code] = own]
           key == <<id, value>>
           dating == Dating(m, {key})
<1>1. /\ pad' = (IF Overflows(Pad, code) THEN Doubtful(after) ELSE after)
      /\ node' = [node EXCEPT ![Pad] = Report(node[Pad], Pad, e)]
      /\ lagging' = [d \in Mirrored |-> IF node[d].there THEN Append(lagging[d], told) ELSE lagging[d]]
      /\ UNCHANGED <<now, table, policy, timers, out, current>>
  BY Zenon DEF Input
<1>2. /\ pad \in PadRecord(pad) /\ pad.down \in SUBSET Inputs /\ pad.downs \in Nat /\ pad.press \in [Inputs -> Nat]
      /\ now \in Nat /\ lagging \in [Mirrored -> Seq(Repetition)] /\ node \in [Devices -> NodeRecord]
  BY DEF ListenInv, ListenTypes, PadRecord
<1>3. /\ value \in {0, 1} /\ id \in Nat /\ down \in SUBSET Inputs /\ downs \in Nat /\ own \in Nat
      /\ e.code = code /\ e.value = value /\ e.press = id
      /\ told.code = code /\ told.value = value /\ told.press = id /\ told.made = now /\ told \in Repetition
  BY <1>2 DEF Repetition
<1>4. /\ value = 1 => /\ code \notin pad.down /\ id = pad.downs + 1 /\ own = id /\ downs = id
                      /\ down = pad.down \cup {code}
      /\ value = 0 => /\ code \in pad.down /\ id = pad.press[code] /\ downs = pad.downs
                      /\ down = pad.down \ {code}
  OBVIOUS
<1>5. Dated(m)
  BY DEF OnceFor
<1>6. key \notin DOMAIN m /\ id <= downs /\ pad.downs <= downs
  <2>1. CASE value = 1
    <3>1. \A k \in DOMAIN m : k[1] <= pad.downs
      BY <1>5 DEF Dated
    <3>2. key[1] = id
      OBVIOUS
    <3> HIDE DEF value, id, downs, key
    <3>3. ~(id <= pad.downs)
      BY <1>2, <1>4, <2>1
    <3>4. key \notin DOMAIN m
      BY <3>1, <3>2, <3>3, Zenon
    <3> QED BY <1>2, <1>4, <2>1, <3>4
  <2>2. CASE value = 0
    <3>1. <<pad.press[code], 0>> \notin DOMAIN m /\ pad.press[code] <= pad.downs
      BY <1>4, <1>5, <2>2 DEF Dated
    <3>2. key = <<pad.press[code], 0>> /\ id = pad.press[code] /\ downs = pad.downs
      BY <1>4, <2>2
    <3> HIDE DEF value, id, downs, key
    <3> QED BY <1>2, <3>1, <3>2
  <2> QED BY <1>3, <2>1, <2>2
<1>7. after.down = down /\ after.downs = downs /\ after.press = press /\ after \in PadRecord(after)
  <2>1. press \in [Inputs -> Nat]
    BY <1>2, <1>3
  <2>2. after = [pad EXCEPT !.down = down, !.downs = downs, !.press = press, !.since = since,
                            !.alone = alone, !.good = good]
    BY <1>2 DEF PadRecord
  <2> HIDE DEF value, id, down, downs, own, since, alone, good, e, press, after
  <2> QED BY <1>2, <1>3, <2>1, <2>2 DEF PadRecord
<1> HIDE DEF value, id, down, downs, own, since, alone, good, e, after, told, dating
<1>8. pad'.down = down /\ pad'.downs = downs /\ pad'.press = press
  BY <1>1, <1>7, DoubtfulPad
<1>9. press[code] = own /\ \A c \in Inputs \ {code} : press[c] = pad.press[c]
  BY <1>2
<1> HIDE DEF press
<1>d. PICK m2 : m2 = dating
  OBVIOUS
<1>10. /\ Grows(m, m2) /\ DOMAIN m2 = DOMAIN m \cup {key} /\ m2[key] = now
  BY <1>6, <1>d, DatingGrows DEF dating
<1>11. Dated(m2)'
  <2>1. ASSUME NEW k \in DOMAIN m2
        PROVE  k \in Nat \X {0, 1} /\ m2[k] \in Nat /\ m2[k] <= now' /\ k[1] <= pad'.downs
    <3>1. CASE k \in DOMAIN m
      <4>1. m2[k] = m[k]
        BY <1>10, <3>1 DEF Grows
      <4>2. k \in Nat \X {0, 1} /\ m[k] \in Nat /\ m[k] <= now /\ k[1] <= pad.downs /\ k[1] \in Nat
        BY <1>5, <3>1 DEF Dated
      <4> QED BY <1>1, <1>2, <1>3, <1>6, <1>8, <4>1, <4>2
    <3>2. CASE k = key
      BY <1>1, <1>2, <1>3, <1>6, <1>8, <1>10, <3>2
    <3> QED BY <1>10, <3>1, <3>2
  <2>2. ASSUME NEW c \in down
        PROVE  /\ press[c] <= downs /\ <<press[c], 0>> \notin DOMAIN m2
               /\ \A o \in down : press[o] = press[c] => o = c
    <3>1. CASE value = 1
      <4>1. \A x \in pad.down : /\ press[x] = pad.press[x] /\ press[x] <= pad.downs /\ press[x] \in Nat
                                /\ <<press[x], 0>> \notin DOMAIN m
        BY <1>2, <1>4, <1>5, <1>9, <3>1 DEF Dated
      <4>2. press[code] = id /\ ~(id <= pad.downs)
        BY <1>2, <1>4, <1>9, <3>1
      <4>3. \A x : <<x, 0>> # key
        BY <3>1
      <4>4. <<id, 0>> \notin DOMAIN m
        <5>1. \A k \in DOMAIN m : k[1] <= pad.downs
          BY <1>5 DEF Dated
        <5>2. <<id, 0>>[1] = id
          OBVIOUS
        <5> QED BY <4>2, <5>1, <5>2, Zenon
      <4>5. c \in pad.down \/ c = code
        BY <1>4, <3>1
      <4>6. press[c] <= downs /\ <<press[c], 0>> \notin DOMAIN m2
        <5>1. <<press[c], 0>> \notin DOMAIN m2
          <6>1. <<press[c], 0>> \notin DOMAIN m
            BY <4>1, <4>2, <4>4, <4>5
          <6>2. <<press[c], 0>> # key
            BY <4>3
          <6> HIDE DEF key
          <6> QED BY <1>10, <6>1, <6>2
        <5>2. press[c] <= downs
          <6>1. downs = pad.downs + 1 /\ downs = id
            BY <1>4, <3>1
          <6>2. CASE c = code
            BY <1>3, <4>2, <6>1, <6>2
          <6>3. CASE c \in pad.down
            <7>1. press[c] \in Nat /\ press[c] <= pad.downs
              BY <4>1, <6>3
            <7> HIDE DEF id, downs
            <7> QED BY <1>2, <6>1, <7>1
          <6> QED BY <4>5, <6>2, <6>3
        <5> QED BY <5>1, <5>2
      <4>7. ASSUME NEW o \in down, press[o] = press[c] PROVE o = c
        <5>1. o \in pad.down \/ o = code
          BY <1>4, <3>1
        <5>2. CASE o \in pad.down /\ c \in pad.down
          BY <1>5, <4>1, <4>7, <5>2 DEF Dated
        <5> QED BY <4>1, <4>2, <4>5, <4>7, <5>1, <5>2
      <4> QED BY <4>6, <4>7
    <3>2. CASE value = 0
      <4>1. \A x \in down : x \in pad.down /\ press[x] = pad.press[x] /\ x # code
        BY <1>2, <1>4, <1>9, <3>2
      <4>2. press[c] # id
        BY <1>4, <1>5, <3>2, <4>1 DEF Dated
      <4>3. press[c] <= pad.downs /\ <<press[c], 0>> \notin DOMAIN m
        BY <1>5, <4>1 DEF Dated
      <4>5. <<press[c], 0>> \notin DOMAIN m2
        <5>1. key = <<id, 0>>
          BY <3>2
        <5> HIDE DEF key
        <5>2. <<press[c], 0>> # key
          BY <4>2, <5>1
        <5> QED BY <1>10, <4>3, <5>2
      <4>4. \A o \in down : press[o] = press[c] => o = c
        BY <1>5, <4>1 DEF Dated
      <4> QED BY <1>4, <3>2, <4>3, <4>4, <4>5
    <3> QED BY <1>3, <3>1, <3>2
  <2> QED BY <1>8, <2>1, <2>2 DEF Dated
<1>12. LastGuide \in Nat /\ LastGuide' \in Nat /\ LastGuide <= LastGuide' /\ LastGuide <= pad.downs
  <2>1. Guide \in pad.down => pad.press[Guide] <= pad.downs
    BY <1>5 DEF Dated
  <2>2. Guide \in Inputs
    BY DEF Inputs
  <2>3. LastGuide \in Nat /\ LastGuide <= pad.downs
    BY <1>2, <2>1, <2>2 DEF LastGuide
  <2>4. LastGuide' = (IF Guide \in down THEN press[Guide] ELSE downs)
    BY <1>8 DEF LastGuide
  <2>5. CASE code = Guide
    <3>1. value = 1 => LastGuide' = id
      BY <1>4, <1>9, <2>4, <2>5
    <3>2. value = 0 => LastGuide' = pad.downs
      BY <1>4, <2>4, <2>5
    <3> QED BY <1>2, <1>3, <1>4, <2>3, <3>1, <3>2
  <2>6. CASE code # Guide
    <3>1. (Guide \in down <=> Guide \in pad.down) /\ press[Guide] = pad.press[Guide]
      BY <1>3, <1>4, <1>9, <2>2, <2>6
    <3> QED BY <1>2, <1>3, <1>6, <2>3, <2>4, <3>1 DEF LastGuide
  <2> QED BY <2>5, <2>6
<1>13. Later(LastGuide, LastGuide', e)
  <2> SUFFICES ASSUME code = Guide
               PROVE  LastGuide <= id /\ id <= LastGuide' /\ (value = 1 => LastGuide < id)
    BY <1>3 DEF Later
  <2>1. LastGuide' = (IF Guide \in down THEN press[Guide] ELSE downs)
    BY <1>8 DEF LastGuide
  <2>2. value = 1 => LastGuide' = id /\ id = pad.downs + 1
    BY <1>4, <1>9, <2>1
  <2>3. value = 0 => LastGuide' = pad.downs /\ LastGuide = id
    BY <1>4, <2>1 DEF LastGuide
  <2> QED BY <1>2, <1>3, <1>6, <1>12, <2>2, <2>3
<1>14. Within(m2, now, key)
  BY <1>2, <1>10, ListenerAssumption DEF Within
<1> DEFINE q2 == Report(node[Pad], Pad, e).queue
<1>15. /\ Pad \in Devices /\ node'[Pad].queue = q2 /\ Queues(Pad, e, q2)
       /\ \A d \in Devices \ {Pad} : node'[d] = node[d]
       /\ Owes(Pad) = <<>> /\ Owes(Pad)' = <<>>
  <2>1. Pad \in Devices /\ Pad \notin Mirrored
    BY ListenerAssumption DEF Mirrored
  <2>2. Queues(Pad, e, q2)
    BY <1>2, <2>1, ReportQueues
  <2> QED BY <1>1, <1>2, <2>1, <2>2 DEF Owes
<1> HIDE DEF q2
<1>16. /\ \A d \in Mirrored : d \in Devices /\ d # Pad /\ Owes(d) = lagging[d] /\ Owes(d)' = lagging'[d]
       /\ \A d \in Mirrored : Owes(d)' = Owes(d) \/ Owes(d)' = Append(Owes(d), told)
       /\ \A d \in Devices : d = Pad \/ d \in Mirrored
  BY <1>1, ListenerAssumption DEF Mirrored, Owes
<1>17. Streams(m2)'
  <2>1. StreamFair(m2, now', node'[Pad].queue, Owes(Pad)', Said(Pad)', LastGuide')
    <3> DEFINE q == node[Pad].queue
               said == Said(Pad)
    <3>1. q \in Seq(QueueEvent) /\ said \in SUBSET Nat /\ StreamFair(m, now, q, <<>>, said, LastGuide)
      BY <1>15, SaidType
    <3>2. <<>> \in Seq(Repetition)
      OBVIOUS
    <3> HIDE DEF q, said
    <3>3. StreamFair(m2, now, q, <<>>, said, LastGuide')
      BY <1>10, <1>12, <3>1, <3>2, StreamGrows
    <3>4. QueuedLast(q, <<>>, said, e, LastGuide')
      <4>1. ASSUME NEW i \in Nat, i <= LastGuide PROVE Precedes(i, e)
        BY <1>3, <1>12, <1>13, <4>1 DEF Later, Precedes
      <4>2. ASSUME NEW j \in DOMAIN q, q[j].code = Guide PROVE q[j].press \in Nat /\ q[j].press <= LastGuide
        <5>1. q[j] \in QueueEvent
          BY <3>1
        <5>2. q[j].press \in Nat
          BY <4>2, <5>1, LostIsNoInput DEF QueueEvent, KeyEvent, LostEvent, Inputs
        <5> QED BY <3>1, <4>2, <5>2 DEF StreamFair, UpTo
      <4>3. \A s \in said : s \in Nat /\ s <= LastGuide
        BY <3>1 DEF StreamFair, UpTo
      <4> QED BY <1>13, <4>1, <4>2, <4>3 DEF QueuedLast, Later
    <3>5. Key(e) = key
      BY <1>3 DEF Key
    <3>6. StreamFair(m2, now, q2, <<>>, said, LastGuide')
      BY <1>2, <1>3, <1>14, <1>15, <3>1, <3>3, <3>4, <3>5, QueuesFair DEF q
    <3>7. Said(Pad)' = said
      BY <1>1 DEF Said, ToldBy, said
    <3> QED BY <1>1, <1>15, <3>6, <3>7
  <2>2. ASSUME NEW d \in Mirrored
        PROVE  StreamFair(m2, now', node'[d].queue, Owes(d)', Said(d)', LastGuide')
    <3>1. d \in Devices /\ node'[d].queue = node[d].queue /\ Said(d)' = Said(d)
      BY <1>1, <1>15, <1>16 DEF Said, ToldBy
    <3>2. CASE Owes(d)' = Owes(d)
      BY <1>1, <1>10, <1>12, <3>1, <3>2, StreamSame
    <3>3. CASE Owes(d)' = Append(Owes(d), told)
      <4> DEFINE q == node[d].queue
                 l == Owes(d)
                 said == Said(d)
                 x == <<told>>
      <4>1. /\ q \in Seq(QueueEvent) /\ l \in Seq(Repetition) /\ said \in SUBSET Nat
            /\ StreamFair(m, now, q, l, said, LastGuide)
        BY <3>1, SaidType
      <4>2. x \in Seq(Repetition) /\ DOMAIN x = {1} /\ x[1] = told /\ Append(l, told) = l \o x
        BY <1>3, <4>1
      <4>3. Owing(m2, now, told) /\ Later(LastGuide, LastGuide', told)
        <5>1. Key(told) = key /\ told.made = m2[key]
          BY <1>3, <1>10 DEF Key
        <5> QED BY <1>3, <1>13, <1>14, <5>1 DEF Owing, Within, Later
      <4> HIDE DEF q, l, said, x
      <4>4. \A j \in DOMAIN x : Owing(m2, now, x[j]) /\ Later(LastGuide, LastGuide', x[j])
        BY <4>2, <4>3
      <4>5. \A i, j \in DOMAIN x : i < j /\ x[i].code = Guide => Precedes(x[i].press, x[j])
        BY <4>2
      <4>6. StreamFair(m2, now, q, l \o x, said, LastGuide')
        BY <1>10, <1>12, <4>1, <4>2, <4>4, <4>5, StreamOwes
      <4> QED BY <1>1, <3>1, <3>3, <4>2, <4>6 DEF q, l, said
    <3> QED BY <1>16, <3>2, <3>3
  <2> QED BY <1>16, <2>1, <2>2 DEF Streams
<1>18. ASSUME NEW d \in Devices PROVE Arrives(d) /\ Brings(m, d)
  <2>1. CASE d = Pad
    <3>1. node[Pad].queue \in Seq(QueueEvent)
      BY <1>15, SaidType
    <3>2. Arrives(Pad)
      BY <1>3, <1>15, <3>1, QueuesTell DEF Arrives
    <3>3. ASSUME NEW c \in Inputs, NEW v \in {0, 1}, NEW i, Has(q2, <<>>, c, v, i), <<i, v>> # key
          PROVE  Has(node[Pad].queue, <<>>, c, v, i)
      <4>1. PICK j \in DOMAIN q2 : q2[j].code = c /\ q2[j].value = v /\ q2[j].press = i
        BY <3>3 DEF Has
      <4>2. \/ q2[j].code = e.code /\ q2[j].value = e.value /\ q2[j].press = e.press
            \/ \E k \in DOMAIN node[Pad].queue : q2[j] = node[Pad].queue[k]
        BY <1>3, <1>15, <3>1, <4>1, QueuesTell
      <4> QED BY <1>3, <3>3, <4>1, <4>2 DEF Has
    <3>4. Brings(m, Pad)
      BY <1>6, <1>15, <3>3 DEF Brings
    <3> QED BY <2>1, <3>2, <3>4
  <2>2. CASE d \in Mirrored
    <3>1. node'[d].queue = node[d].queue
      BY <1>15, <1>16, <2>2
    <3>2. Owes(d) \in Seq(Repetition)
      BY SaidType
    <3>3. ASSUME NEW j \in DOMAIN Owes(d)'
          PROVE  Owes(d)'[j] = told \/ (j \in DOMAIN Owes(d) /\ Owes(d)'[j] = Owes(d)[j])
      <4> DEFINE l == Owes(d)
                 l2 == Owes(d)'
      <4>1. l2 = l \/ l2 = Append(l, told)
        BY <1>16, <2>2
      <4>2. j \in DOMAIN l2
        BY <3>3
      <4> HIDE DEF l, l2
      <4>3. l \in Seq(Repetition)
        BY <3>2 DEF l
      <4>4. l2[j] = told \/ (j \in DOMAIN l /\ l2[j] = l[j])
        BY <4>1, <4>2, <4>3
      <4> QED BY <4>4 DEF l, l2
    <3>4. Brings(m, d)
      <4>1. ASSUME NEW c \in Inputs, NEW v \in {0, 1}, NEW i, Has(node[d].queue, Owes(d)', c, v, i), <<i, v>> # key
            PROVE  Has(node[d].queue, Owes(d), c, v, i)
        BY <1>3, <3>3, <4>1 DEF Has
      <4> QED BY <1>6, <3>1, <4>1 DEF Brings
    <3> QED BY <3>1, <3>4 DEF Arrives
  <2> QED BY <1>16, <2>1, <2>2
<1>19. OnceFor(m2)'
  <2>1. UNCHANGED <<now, policy, timers, out, current>>
    BY <1>1
  <2> QED BY <1>10, <1>11, <1>17, <1>18, <2>1, KernelKeeps
<1> QED BY <1>19

\* The dates are of the player's presses only.
LEMMA DatedSame ==
  ASSUME NEW m, Dated(m), UNCHANGED now, pad.downs \in Nat, pad'.downs \in Nat, pad.downs <= pad'.downs,
         pad'.press = pad.press, pad'.down \subseteq pad.down,
         \A c \in pad.down : pad.press[c] \in Nat
  PROVE  Dated(m)'
<1>1. ASSUME NEW k \in DOMAIN m
      PROVE  k \in Nat \X {0, 1} /\ m[k] \in Nat /\ m[k] <= now' /\ k[1] <= pad'.downs
  <2>1. k \in Nat \X {0, 1} /\ m[k] \in Nat /\ m[k] <= now /\ k[1] <= pad.downs /\ k[1] \in Nat
    BY DEF Dated
  <2> QED BY <2>1
<1>2. ASSUME NEW c \in pad'.down
      PROVE  /\ pad'.press[c] <= pad'.downs /\ <<pad'.press[c], 0>> \notin DOMAIN m
             /\ \A o \in pad'.down : pad'.press[o] = pad'.press[c] => o = c
  <2>1. c \in pad.down /\ pad.press[c] <= pad.downs
    BY DEF Dated
  <2> QED BY <2>1 DEF Dated
<1> QED BY <1>1, <1>2 DEF Dated

\* Repeat: the oldest repetition is queued, or lost.
LEMMA OnceRepeat ==
  ASSUME ListenInv, NEW m, OnceFor(m), NEW d \in Mirrored, Repeat(d)
  PROVE  OnceFor(m)'
<1> DEFINE h == Head(lagging[d])
           e == [code |-> h.code, value |-> h.value, press |-> h.press]
           q == node[d].queue
           q2 == Report(node[d], d, e).queue
           l == lagging[d]
           said == Said(d)
<1>1. /\ node' = [node EXCEPT ![d] = Report(node[d], d, e)]
      /\ pad' = (IF Overflows(d, h.code) THEN Doubtful(pad) ELSE pad)
      /\ lagging' = [lagging EXCEPT ![d] = Tail(lagging[d])] /\ lagging[d] # <<>>
      /\ UNCHANGED <<now, table, policy, timers, out, current>>
  BY DEF Repeat
<1>2. /\ pad \in PadRecord(pad) /\ lagging \in [Mirrored -> Seq(Repetition)] /\ d \in Devices /\ d # Pad
      /\ node \in [Devices -> NodeRecord] /\ now \in Nat /\ pad.downs \in Nat /\ pad.press \in [Inputs -> Nat]
      /\ pad.down \in SUBSET Inputs
  BY DEF ListenInv, ListenTypes, Mirrored, PadRecord
<1>3. h \in Repetition /\ l \in Seq(Repetition) /\ l # <<>> /\ h = l[1] /\ 1 \in DOMAIN l
  BY <1>1, <1>2
<1>4. /\ e.code = h.code /\ e.value = h.value /\ e.press = h.press
      /\ e.code \in Inputs /\ e.value \in {0, 1} /\ e.press \in Nat
  BY <1>3 DEF Repetition
<1>5. /\ node'[d].queue = q2 /\ Queues(d, e, q2) /\ \A x \in Devices \ {d} : node'[x] = node[x]
      /\ Owes(d) = l /\ Owes(d)' = Tail(l)
      /\ \A x \in Devices \ {d} : Owes(x)' = Owes(x)
  BY <1>1, <1>2, ReportQueues DEF Owes
<1> HIDE DEF e, q2
<1>6. /\ q \in Seq(QueueEvent) /\ said \in SUBSET Nat /\ StreamFair(m, now, q, l, said, LastGuide)
  BY <1>2, <1>5, SaidType
<1>7. pad'.down = pad.down /\ pad'.downs = pad.downs /\ pad'.press = pad.press
  BY <1>1, <1>2, DoubtfulPad
<1>8. LastGuide' = LastGuide /\ \A x \in Devices : Said(x)' = Said(x)
  BY <1>1, <1>7 DEF LastGuide, Said, ToldBy
<1> HIDE DEF q, l, said, h
<1>9. StreamFair(m, now, q2, Tail(l), said, LastGuide)
  <2>1. StreamFair(m, now, q, Tail(l), said, LastGuide)
    BY <1>3, <1>6, StreamTail
  <2>2. QueuedLast(q, Tail(l), said, e, LastGuide)
    BY <1>3, <1>4, <1>6, HeadQueuesLast DEF h, l
  <2>3. Within(m, now, Key(e))
    <3>1. Owing(m, now, l[1])
      BY <1>3, <1>6 DEF StreamFair, LagFair
    <3> QED BY <1>3, <1>4, <3>1 DEF Owing, Within, Key
  <2> QED BY <1>2, <1>4, <1>5, <1>6, <2>1, <2>2, <2>3, QueuesFair DEF q
<1>10. Streams(m)'
  <2>1. ASSUME NEW x \in Devices
        PROVE  StreamFair(m, now', node'[x].queue, Owes(x)', Said(x)', LastGuide')
    <3>1. CASE x = d
      BY <1>1, <1>5, <1>8, <1>9, <3>1 DEF said
    <3>2. CASE x # d
      BY <1>1, <1>5, <1>8, <3>2, SaidType
    <3> QED BY <3>1, <3>2
  <2> QED BY <2>1 DEF Streams
<1>11. Dated(m)'
  BY <1>1, <1>2, <1>7, DatedSame DEF OnceFor
<1>12. ASSUME NEW x \in Devices PROVE Arrives(x) /\ Brings(m, x)
  <2>1. CASE x = d
    <3>1. Arrives(d)
      BY <1>2, <1>4, <1>5, <1>6, QueuesTell DEF Arrives, q
    <3>2. ASSUME NEW c \in Inputs, NEW v \in {0, 1}, NEW i, Has(q2, Tail(l), c, v, i)
          PROVE  Has(q, l, c, v, i)
      <4>1. CASE \E j \in DOMAIN q2 : q2[j].code = c /\ q2[j].value = v /\ q2[j].press = i
        <5>1. PICK j \in DOMAIN q2 : q2[j].code = c /\ q2[j].value = v /\ q2[j].press = i
          BY <4>1
        <5>2. \/ q2[j].code = e.code /\ q2[j].value = e.value /\ q2[j].press = e.press
              \/ \E k \in DOMAIN q : q2[j] = q[k]
          BY <1>2, <1>4, <1>5, <1>6, <5>1, QueuesTell DEF q
        <5> QED BY <1>3, <1>4, <5>1, <5>2 DEF Has
      <4>2. CASE \E j \in DOMAIN Tail(l) : Tail(l)[j].code = c /\ Tail(l)[j].value = v /\ Tail(l)[j].press = i
        <5>1. PICK j \in DOMAIN Tail(l) : Tail(l)[j].code = c /\ Tail(l)[j].value = v /\ Tail(l)[j].press = i
          BY <4>2
        <5>2. j + 1 \in DOMAIN l /\ Tail(l)[j] = l[j + 1]
          BY <1>3
        <5> QED BY <5>1, <5>2 DEF Has
      <4> QED BY <3>2, <4>1, <4>2 DEF Has
    <3>3. Brings(m, d)
      BY <1>5, <3>2 DEF Brings, q
    <3> QED BY <2>1, <3>1, <3>3
  <2>2. CASE x # d
    BY <1>5, <2>2 DEF Arrives, Brings
  <2> QED BY <2>1, <2>2
<1>13. Grows(m, m)
  BY DEF Grows
<1>14. UNCHANGED <<now, policy, timers, out, current>>
  BY <1>1
<1> QED BY <1>10, <1>11, <1>12, <1>13, <1>14, KernelKeeps

\* Plug: another device of the name owes nothing more than it did.
LEMMA OncePlug ==
  ASSUME ListenInv, NEW m, OnceFor(m), NEW d \in Devices, Plug(d)
  PROVE  OnceFor(m)'
<1> DEFINE new == [node[d] EXCEPT !.there = TRUE, !.gen = node[d].gen + 1]
<1>1. UNCHANGED <<now, pad, lagging, table, policy, timers, out, current>>
  BY DEF Plug
<1>2. node \in [Devices -> NodeRecord] /\ node[d] \in NodeRecord
  BY DEF ListenInv, ListenTypes
<1>3. node' = [node EXCEPT ![d] = new]
  BY Zenon DEF Plug
<1>4. new.queue = node[d].queue
  BY <1>2 DEF NodeRecord
<1> HIDE DEF new
<1>5. \A x \in Devices : node'[x].queue = node[x].queue /\ Owes(x)' = Owes(x) /\ Said(x)' = Said(x)
  BY <1>1, <1>2, <1>3, <1>4 DEF Owes, Said, ToldBy
<1>6. LastGuide' = LastGuide /\ Grows(m, m)
  BY <1>1 DEF LastGuide, Grows
<1>7. Streams(m)' /\ Dated(m)'
  BY <1>1, <1>5, <1>6 DEF OnceFor, Streams, Dated
<1>8. \A x \in Devices : Arrives(x) /\ Brings(m, x)
  BY <1>5 DEF Arrives, Brings
<1> QED BY <1>1, <1>6, <1>7, <1>8, KernelKeeps

\* Time passes while nothing is overdue.
LEMMA OnceTick ==
  ASSUME ListenInv, NEW m, OnceFor(m), Tick
  PROVE  OnceFor(m)'
<1>1. /\ now' = now + 1 /\ now \in Nat
      /\ UNCHANGED <<pad, lagging, node, table, policy, timers, out, current>>
      /\ \A d \in Devices : \A i \in DOMAIN node[d].queue : now - node[d].queue[i].at < Late
      /\ \A d \in Mirrored : \A i \in DOMAIN lagging[d] : now - lagging[d][i].made < Lag
      /\ \A t \in timers : now - t.due < Late
  BY DEF Tick, ListenInv, ListenTypes
<1>2. Late \in Nat /\ Lag \in Nat /\ HoldTimerMs \in Nat
  BY ListenerAssumption
<1>3. LastGuide' = LastGuide /\ \A d \in Devices : Owes(d)' = Owes(d) /\ Said(d)' = Said(d)
  BY <1>1 DEF LastGuide, Owes, Said, ToldBy
<1>4. Streams(m)'
  <2>1. ASSUME NEW d \in Devices PROVE StreamFair(m, now', node[d].queue, Owes(d), Said(d), LastGuide)
    <3> DEFINE q == node[d].queue
               l == Owes(d)
               said == Said(d)
    <3>1. q \in Seq(QueueEvent) /\ l \in Seq(Repetition) /\ StreamFair(m, now, q, l, said, LastGuide)
      BY SaidType
    <3>2. \A j \in DOMAIN q : now - q[j].at < Late
      BY <1>1
    <3>3. \A j \in DOMAIN l : now - l[j].made < Lag
      BY <1>1 DEF Owes
    <3> HIDE DEF q, l, said
    <3>4. ASSUME NEW j \in DOMAIN q PROVE Stamped(m, now', q[j])
      <4>1. q[j].at \in Nat
        <5>1. q[j] \in QueueEvent
          BY <3>1
        <5> QED BY <5>1 DEF QueueEvent, KeyEvent, LostEvent
      <4> QED BY <1>1, <1>2, <3>1, <3>2, <4>1 DEF StreamFair, QueueFair, Stamped
    <3>5. ASSUME NEW j \in DOMAIN l PROVE Owing(m, now', l[j])
      <4>1. l[j].made \in Nat
        <5>1. l[j] \in Repetition
          BY <3>1
        <5> QED BY <5>1 DEF Repetition
      <4>2. Owing(m, now, l[j])
        BY <3>1 DEF StreamFair, LagFair
      <4> QED BY <1>1, <1>2, <3>3, <4>1, <4>2 DEF Owing
    <3>6. QueueFair(m, now', q)
      BY <3>1, <3>4 DEF StreamFair, QueueFair
    <3>7. LagFair(m, now', l)
      BY <3>1, <3>5 DEF StreamFair, LagFair
    <3> QED BY <3>1, <3>6, <3>7 DEF StreamFair, q, l, said
  <2> QED BY <1>1, <1>3, <2>1 DEF Streams
<1>5. Dated(m)'
  <2>1. \A k \in DOMAIN m : m[k] \in Nat /\ m[k] <= now
    BY DEF OnceFor, Dated
  <2> QED BY <1>1, <2>1 DEF OnceFor, Dated
<1>6. Waiting' = Waiting /\ \A C, v : Awaited(C, v)' = Awaited(C, v)
  BY <1>1, <1>3 DEF Waiting, Awaited
<1>7. ReportsFair(m)'
  <2>1. policy.release.at \in Int /\ policy.capture.at \in Int /\ policy.hold.at \in Int
    BY DEF ListenInv, ListenTypes, PolicyRecord, ReportRecord
  <2>2. InTime(policy.release)' /\ InTime(policy.capture)' /\ policy'.hold.at <= now'
    BY <1>1, <2>1 DEF OnceFor, ReportsFair, InTime
  <2>3. /\ Once(policy.release, out.presses, m, 0, 0, Awaited({Guide}, 0))
        /\ Once(policy.capture, out.captures, m, 1, 0, Awaited(CaptureButtons, 1))
        /\ Once(policy.hold, out.holds, m, 1, HoldMs, Awaited({Guide}, 1) \cup Waiting)
    BY DEF OnceFor, ReportsFair
  <2> QED BY <1>1, <1>6, <2>2, <2>3 DEF ReportsFair
<1>8. Timely'
  <2>1. ASSUME NEW t \in timers PROVE now' <= t.due + Late /\ t.due <= now' + HoldTimerMs
    <3>1. t.due \in Int
      BY DEF ListenInv, ListenTypes, Timers
    <3> QED BY <1>1, <1>2, <3>1 DEF OnceFor, Timely, DueFor
  <2> QED BY <1>1, <2>1 DEF OnceFor, Timely, DueFor
<1>9. Follows(m)' /\ Untolds' /\ Apart(out'.presses, out'.holds) /\ current' \in [Devices -> Nat]
  BY <1>1 DEF OnceFor, Follows, HeldFrom, Untolds
<1> QED BY <1>4, <1>5, <1>7, <1>8, <1>9 DEF OnceFor

\* A node that is forgotten is followed for nothing.
LEMMA ForgetsKeeps ==
  ASSUME NEW m, OnceFor(m), UNCHANGED <<now, pad, lagging, node, timers, out, current>>, timers \subseteq Timers,
         policy'.release = policy.release, policy'.hold = policy.hold, policy'.capture = policy.capture,
         \A d \in Devices : policy'.device[d] = policy.device[d] \/ policy'.device[d].heldSince = Never
  PROVE  OnceFor(m)'
<1>0. ~(Never >= 0)
  BY DEF Never
<1>1. LastGuide' = LastGuide /\ \A d \in Devices : Owes(d)' = Owes(d) /\ Said(d)' = Said(d)
  BY DEF LastGuide, Owes, Said, ToldBy
<1>2. Streams(m)' /\ Dated(m)'
  BY <1>1 DEF OnceFor, Streams, Dated
<1>3. Waiting' \subseteq Waiting /\ \A C, v : Awaited(C, v)' = Awaited(C, v)
  BY <1>0, <1>1 DEF Waiting, Waits, Awaited
<1>4. ReportsFair(m)'
  <2>1. /\ Once(policy.release, out.presses, m, 0, 0, Awaited({Guide}, 0))
        /\ Once(policy.capture, out.captures, m, 1, 0, Awaited(CaptureButtons, 1))
        /\ Once(policy.hold, out.holds, m, 1, HoldMs, Awaited({Guide}, 1) \cup Waiting)
    BY DEF OnceFor, ReportsFair
  <2>2. Once(policy.hold, out.holds, m, 1, HoldMs, Awaited({Guide}, 1) \cup Waiting')
    BY <1>3, <2>1 DEF Once, NotTheirs
  <2> QED BY <1>3, <2>1, <2>2 DEF OnceFor, ReportsFair, InTime
<1>5. Timely'
  <2>1. ASSUME NEW t \in timers PROVE DueFor(t, policy'.device[t.of], node[t.of].queue)
    <3>1. t.of \in Devices
      BY DEF Timers
    <3> QED BY <1>0, <3>1 DEF OnceFor, Timely, DueFor
  <2> QED BY <2>1 DEF Timely, DueFor
<1>6. Follows(m)'
  BY <1>0 DEF OnceFor, Follows, HeldFrom
<1>7. Untolds'
  <2>1. ASSUME NEW d \in Devices PROVE Untold(policy'.device[d], current[d], d, out.presses, out.holds)
    <3>1. Untold(policy.device[d], current[d], d, out.presses, out.holds)
      BY DEF OnceFor, Untolds
    <3> QED BY <1>0, <3>1 DEF Untold
  <2> QED BY <2>1 DEF Untolds
<1> QED BY <1>2, <1>4, <1>5, <1>6, <1>7 DEF OnceFor

\* read() of a node that is gone.
LEMMA OnceReadGone ==
  ASSUME ListenInv, NEW m, OnceFor(m), NEW d \in Devices, ReadGone(d)
  PROVE  OnceFor(m)'
<1> DEFINE new == Closed(policy, d)
           open == policy.open \ {d}
           st == Unwatched
<1>1. policy' = new /\ UNCHANGED <<now, pad, lagging, node, timers, out, current>>
  BY DEF ReadGone
<1>2. policy \in PolicyRecord /\ timers \subseteq Timers
  BY DEF ListenInv, ListenTypes
<1>3. /\ new.device[d] = Unwatched /\ \A x \in Devices \ {d} : new.device[x] = policy.device[x]
  BY <1>2, ClosedDoes
<1>4. Unwatched.heldSince = Never
  BY DEF Unwatched
<1>5. new = [policy EXCEPT !.open = open, !.device[d] = st]
  BY DEF Closed
<1> HIDE DEF new, open, st
<1>6. new.release = policy.release /\ new.hold = policy.hold /\ new.capture = policy.capture
  BY <1>2, <1>5 DEF PolicyRecord
<1> QED BY <1>1, <1>2, <1>3, <1>4, <1>6, ForgetsKeeps

\* rescan() forgets what is gone and knows of no press of what is opened.
LEMMA OnceRescan ==
  ASSUME ListenInv, NEW m, OnceFor(m), Rescan
  PROVE  OnceFor(m)'
<1> DEFINE gone == {d \in Devices : table[d].gen > 0 /\ ~Current(d)}
           new == {d \in Devices : node[d].there /\ ~Current(d)}
           open == (policy.open \ gone) \cup new
           states == [d \in Devices |-> IF d \in new THEN Opens(policy, d).device[d]
                                        ELSE IF d \in gone THEN Closed(policy, d).device[d]
                                        ELSE policy.device[d]]
<1>1. /\ policy' = [policy EXCEPT !.open = open, !.device = states]
      /\ UNCHANGED <<now, pad, lagging, node, timers, out, current>>
  BY DEF Rescan
<1>2. policy \in PolicyRecord /\ timers \subseteq Timers /\ now \in Nat /\ node \in [Devices -> NodeRecord]
  BY DEF ListenInv, ListenTypes
<1>3. ASSUME NEW d \in Devices PROVE states[d] = policy.device[d] \/ states[d].heldSince = Never
  <2>1. Opens(policy, d).device[d].heldSince = Never
    BY <1>2, OpensDoes DEF View
  <2>2. Closed(policy, d).device[d] = Unwatched /\ Unwatched.heldSince = Never
    BY <1>2, ClosedDoes DEF Unwatched
  <2> HIDE DEF new, gone
  <2> QED BY <2>1, <2>2
<1> HIDE DEF new, gone, open, states
<1>4. /\ policy'.device = states /\ policy'.release = policy.release /\ policy'.hold = policy.hold
      /\ policy'.capture = policy.capture
  BY <1>1, <1>2 DEF PolicyRecord
<1> QED BY <1>1, <1>2, <1>3, <1>4, ForgetsKeeps

\* Unplug: what is let go of with the controller is to be repeated.
LEMMA ReleasesOf ==
  ASSUME ListenTypes
  PROVE  /\ SetToSeq({Release(c) : c \in pad.down}) \in Seq(Repetition)
         /\ \A j \in DOMAIN SetToSeq({Release(c) : c \in pad.down}) :
              \E c \in pad.down : SetToSeq({Release(o) : o \in pad.down})[j] = Release(c)
<1> DEFINE T == {Release(c) : c \in pad.down}
           f == [c \in pad.down |-> Release(c)]
           x == SetToSeq(T)
<1>1. pad.down \in SUBSET Inputs
  BY DEF ListenTypes, PadRecord
<1>3. IsFiniteSet(pad.down)
  <2>1. Inputs = (Buttons \cup Hats \cup Triggers) \cup {Guide}
    BY DEF Inputs
  <2>2. IsFiniteSet(Inputs)
    BY <2>1, FS_AddElement, InputsAssumption
  <2> QED BY <1>1, <2>2, FS_Subset
<1>4. f \in Surjection(pad.down, T)
  BY DEF Surjection
<1>5. IsFiniteSet(T)
  <2> HIDE DEF f, T
  <2> QED BY <1>3, <1>4, FS_Surjection
<1>6. x \in Seq(T)
  <2> HIDE DEF T
  <2>1. T \in SUBSET T
    OBVIOUS
  <2> QED BY <1>5, <2>1, SetToSeqType
<1>7. \A j \in DOMAIN x : x[j] \in T
  <2> HIDE DEF x, T
  <2> QED BY <1>6
<1>8. \A j \in DOMAIN x : \E c \in pad.down : x[j] = Release(c)
  <2> HIDE DEF x
  <2> QED BY <1>7
<1> QED BY <1>8, ReleasesType

\* A node is unplugged: what it had pressed is released, now.
LEMMA OnceUnplug ==
  ASSUME ListenInv, NEW m, OnceFor(m), NEW d \in Devices, Unplug(d)
  PROVE  \E m2 : OnceFor(m2)'
<1> DEFINE gone == [node[d] EXCEPT !.there = FALSE, !.down = {}, !.unseen = {}, !.queue = <<>>,
                                   !.since = Never, !.with = {}]
           doubtful == Doubtful(pad)
           left == IF d = Pad THEN {} ELSE doubtful.down
           downs == doubtful.downs + 1
           releases == SetToSeq({Release(c) : c \in pad.down})
           keys == {<<pad.press[c], 0>> : c \in pad.down}
           dating == Dating(m, keys)
<1>1. /\ node' = [node EXCEPT ![d] = gone]
      /\ pad' = [doubtful EXCEPT !.down = left, !.downs = downs]
      /\ lagging' = IF d = Pad THEN [v \in Mirrored |-> lagging[v] \o releases]
                    ELSE [lagging EXCEPT ![d] = <<>>]
      /\ UNCHANGED <<now, table, policy, timers, out, current>>
  BY DEF Unplug
<1>2. /\ pad \in PadRecord(pad) /\ lagging \in [Mirrored -> Seq(Repetition)]
      /\ node \in [Devices -> NodeRecord] /\ node[d] \in NodeRecord /\ now \in Nat
      /\ pad.down \in SUBSET Inputs /\ pad.downs \in Nat /\ pad.press \in [Inputs -> Nat]
  BY DEF ListenInv, ListenTypes, PadRecord
<1>3. /\ doubtful \in PadRecord(doubtful) /\ doubtful.down = pad.down /\ doubtful.downs = pad.downs
      /\ doubtful.press = pad.press
  BY <1>2, DoubtfulPad
<1>4. gone.queue = <<>>
  BY <1>2 DEF NodeRecord
<1>5. releases \in Seq(Repetition) /\ \A j \in DOMAIN releases : \E c \in pad.down : releases[j] = Release(c)
  BY ReleasesOf DEF ListenInv
<1> HIDE DEF gone, doubtful, releases
<1>6. /\ pad'.down = (IF d = Pad THEN {} ELSE pad.down) /\ pad'.downs = pad.downs + 1 /\ pad'.press = pad.press
  <2>1. left = IF d = Pad THEN {} ELSE pad.down
    BY <1>3
  <2>2. downs = pad.downs + 1
    BY <1>3
  <2> HIDE DEF left, downs
  <2> QED BY <1>1, <1>3, <2>1, <2>2 DEF PadRecord
<1> HIDE DEF left, downs, keys, dating
<1>7. node'[d].queue = <<>> /\ \A x \in Devices \ {d} : node'[x] = node[x]
  BY <1>1, <1>2, <1>4
<1>8. \A x \in Devices : Said(x)' = Said(x)
  BY <1>1 DEF Said, ToldBy
<1>9. LastGuide \in Nat /\ LastGuide' \in Nat /\ LastGuide <= LastGuide'
  <2>1. Guide \in pad.down => pad.press[Guide] <= pad.downs
    BY DEF OnceFor, Dated
  <2>2. Guide \in Inputs
    BY DEF Inputs
  <2> QED BY <1>2, <1>6, <2>1, <2>2 DEF LastGuide
<1>10. \A x \in Devices : Arrives(x)
  BY <1>7 DEF Arrives
<1>11. UNCHANGED <<now, policy, timers, out, current>>
  BY <1>1
<1>12. CASE d # Pad
  <2>1. Grows(m, m)
    BY DEF Grows
  <2>2. \A x \in Devices \ {d} : Owes(x)' = Owes(x)
    BY <1>1, <1>2, <1>12 DEF Owes
  <2>3. Owes(d)' = <<>>
    BY <1>1, <1>2, <1>12 DEF Owes, Mirrored
  <2>4. Dated(m)'
    BY <1>2, <1>6, <1>11, <1>12, DatedSame DEF OnceFor
  <2>5. ASSUME NEW x \in Devices
        PROVE  StreamFair(m, now', node'[x].queue, Owes(x)', Said(x)', LastGuide')
    <3>1. CASE x # d
      BY <1>7, <1>9, <1>11, <2>1, <2>2, <3>1, StreamSame
    <3>2. CASE x = d
      <4>1. StreamFair(m, now, node[d].queue, Owes(d), Said(d), LastGuide) /\ Said(d) \in SUBSET Nat
        BY SaidType
      <4>2. StreamFair(m, now, <<>>, <<>>, Said(d), LastGuide)
        BY <4>1, StreamEmpties, StreamOwesNone
      <4>3. <<>> \in Seq(QueueEvent) /\ <<>> \in Seq(Repetition)
        OBVIOUS
      <4>4. StreamFair(m, now, <<>>, <<>>, Said(d), LastGuide')
        BY <1>9, <2>1, <4>1, <4>2, <4>3, StreamGrows
      <4> QED BY <1>7, <1>8, <1>11, <2>3, <3>2, <4>4
    <3> QED BY <3>1, <3>2
  <2>6. Streams(m)'
    BY <2>5 DEF Streams
  <2>7. \A x \in Devices : Brings(m, x)
    <3>1. ~(\E j \in DOMAIN << >> : TRUE)
      OBVIOUS
    <3>2. Brings(m, d)
      BY <1>7, <2>3 DEF Brings, Has
    <3>3. \A x \in Devices \ {d} : Brings(m, x)
      BY <1>7, <2>2 DEF Brings
    <3> QED BY <3>2, <3>3
  <2>8. OnceFor(m)'
    BY <1>10, <1>11, <2>1, <2>4, <2>6, <2>7, KernelKeeps
  <2> QED BY <2>8
<1>13. CASE d = Pad
  <2>0. PICK m2 : m2 = dating
    OBVIOUS
  <2>1. /\ \A c \in pad.down : <<pad.press[c], 0>> \notin DOMAIN m /\ pad.press[c] <= pad.downs /\ pad.press[c] \in Nat
    BY <1>2 DEF OnceFor, Dated
  <2>2. /\ Grows(m, m2) /\ DOMAIN m2 = DOMAIN m \cup keys
        /\ \A k \in keys : k \notin DOMAIN m /\ m2[k] = now /\ k \in Nat \X {0, 1} /\ k[1] <= pad.downs
    <3>1. ASSUME NEW k \in keys PROVE k \notin DOMAIN m /\ k \in Nat \X {0, 1} /\ k[1] <= pad.downs
      <4>1. PICK c \in pad.down : k = <<pad.press[c], 0>>
        BY DEF keys
      <4> QED BY <2>1, <4>1
    <3> QED BY <2>0, <3>1, DatingGrows DEF dating
  <2>3. Dated(m2)'
    <3>1. ASSUME NEW k \in DOMAIN m2
          PROVE  k \in Nat \X {0, 1} /\ m2[k] \in Nat /\ m2[k] <= now' /\ k[1] <= pad'.downs
      <4>1. CASE k \in DOMAIN m
        <5>1. m2[k] = m[k]
          BY <2>2, <4>1 DEF Grows
        <5>2. k \in Nat \X {0, 1} /\ m[k] \in Nat /\ m[k] <= now /\ k[1] <= pad.downs /\ k[1] \in Nat
          BY <4>1 DEF OnceFor, Dated
        <5> QED BY <1>2, <1>6, <1>11, <5>1, <5>2
      <4>2. CASE k \in keys
        <5>1. k \in Nat \X {0, 1} /\ m2[k] = now /\ k[1] <= pad.downs /\ k[1] \in Nat
          BY <2>2, <4>2
        <5> QED BY <1>2, <1>6, <1>11, <5>1
      <4> QED BY <2>2, <4>1, <4>2
    <3>2. pad'.down = {}
      BY <1>6, <1>13
    <3> QED BY <3>1, <3>2 DEF Dated
  <2>4. /\ d \notin Mirrored /\ Owes(d) = <<>> /\ Owes(d)' = <<>>
        /\ \A x \in Mirrored : x \in Devices /\ x # d /\ Owes(x) = lagging[x] /\ Owes(x)' = lagging[x] \o releases
        /\ \A x \in Devices : x = d \/ x \in Mirrored
    BY <1>1, <1>13 DEF Owes, Mirrored
  <2>5. ASSUME NEW j \in DOMAIN releases
        PROVE  /\ Owing(m2, now, releases[j]) /\ Later(LastGuide, LastGuide', releases[j])
               /\ releases[j].value = 0 /\ <<releases[j].press, 0>> \notin DOMAIN m
               /\ releases[j].code = Guide => releases[j].press = pad.press[Guide] /\ pad.press[Guide] \in Nat
    <3>1. PICK c \in pad.down : releases[j] = Release(c)
      BY <1>5
    <3>2. /\ releases[j].code = c /\ releases[j].value = 0 /\ releases[j].press = pad.press[c]
          /\ releases[j].made = now
      BY <3>1 DEF Release
    <3> HIDE DEF releases
    <3>3. Key(releases[j]) \in keys /\ Key(releases[j]) = <<pad.press[c], 0>>
      BY <3>2 DEF Key, keys
    <3>4. Owing(m2, now, releases[j])
      BY <1>2, <2>2, <3>2, <3>3, ListenerAssumption DEF Owing
    <3>5. c = Guide => LastGuide = pad.press[c]
      BY DEF LastGuide
    <3>6. Later(LastGuide, LastGuide', releases[j])
      BY <1>9, <3>2, <3>5 DEF Later
    <3> QED BY <2>1, <3>2, <3>4, <3>6
  <2>6. \A i, j \in DOMAIN releases : i < j /\ releases[i].code = Guide => Precedes(releases[i].press, releases[j])
    <3>1. ASSUME NEW i \in DOMAIN releases, NEW j \in DOMAIN releases, releases[i].code = Guide
          PROVE  Precedes(releases[i].press, releases[j])
      <4>1. releases[i].press = pad.press[Guide] /\ pad.press[Guide] \in Nat /\ releases[j].value = 0
            /\ (releases[j].code = Guide => releases[j].press = pad.press[Guide])
        BY <2>5, <3>1
      <4> QED BY <4>1 DEF Precedes
    <3> QED BY <3>1
  <2>7. ASSUME NEW x \in Devices
        PROVE  StreamFair(m2, now', node'[x].queue, Owes(x)', Said(x)', LastGuide')
    <3>1. /\ StreamFair(m, now, node[x].queue, Owes(x), Said(x), LastGuide) /\ Said(x) \in SUBSET Nat
          /\ node[x].queue \in Seq(QueueEvent) /\ Owes(x) \in Seq(Repetition)
      BY SaidType
    <3>2. CASE x = d
      <4>1. StreamFair(m, now, <<>>, <<>>, Said(d), LastGuide)
        BY <2>4, <3>1, <3>2, StreamEmpties
      <4>2. <<>> \in Seq(QueueEvent) /\ <<>> \in Seq(Repetition)
        OBVIOUS
      <4>3. StreamFair(m2, now, <<>>, <<>>, Said(d), LastGuide')
        BY <1>9, <2>2, <3>1, <3>2, <4>1, <4>2, StreamGrows
      <4> QED BY <1>7, <1>8, <1>11, <2>4, <3>2, <4>3
    <3>3. CASE x \in Mirrored
      <4>1. StreamFair(m2, now, node[x].queue, Owes(x) \o releases, Said(x), LastGuide')
        BY <1>5, <1>9, <2>2, <2>5, <2>6, <3>1, StreamOwes
      <4> QED BY <1>7, <1>8, <1>11, <2>4, <3>3, <4>1
    <3> QED BY <2>4, <3>2, <3>3
  <2>8. Streams(m2)'
    BY <2>7 DEF Streams
  <2>9. ASSUME NEW x \in Devices PROVE Brings(m, x)
    <3>1. CASE x = d
      BY <1>7, <2>4, <3>1 DEF Brings, Has
    <3>2. CASE x \in Mirrored
      <4> DEFINE l == lagging[x]
                 l2 == l \o releases
      <4>1. l \in Seq(Repetition)
        BY <1>2, <3>2
      <4>2. ASSUME NEW j \in DOMAIN l2
            PROVE  (j \in DOMAIN l /\ l2[j] = l[j]) \/ (\E i \in DOMAIN releases : l2[j] = releases[i])
        <5>1. j \in DOMAIN l \/ j - Len(l) \in DOMAIN releases
          BY <1>5, <4>1
        <5> QED BY <1>5, <4>1, <5>1
      <4>3. ASSUME NEW c \in Inputs, NEW v \in {0, 1}, NEW i, Has(node[x].queue, l2, c, v, i)
            PROVE  Has(node[x].queue, l, c, v, i) \/ <<i, v>> \notin DOMAIN m
        <5> HIDE DEF l2
        <5>1. CASE \E j \in DOMAIN l2 : l2[j].code = c /\ l2[j].value = v /\ l2[j].press = i
          BY <2>5, <4>2, <5>1 DEF Has
        <5> QED BY <4>3, <5>1 DEF Has
      <4> QED BY <1>7, <2>4, <3>2, <4>3 DEF Brings
    <3> QED BY <2>4, <3>1, <3>2
  <2>10. OnceFor(m2)'
    BY <1>10, <1>11, <2>2, <2>3, <2>8, <2>9, KernelKeeps
  <2> QED BY <2>10
<1> QED BY <1>12, <1>13

\* A timer that reports nothing.
LEMMA TimerOver ==
  ASSUME NEW m, OnceFor(m), UNCHANGED <<now, pad, lagging, node, policy, current>>, timers' \subseteq timers,
         out'.presses = out.presses, out'.holds = out.holds, out'.captures = out.captures
  PROVE  OnceFor(m)'
<1>1. LastGuide' = LastGuide /\ \A d \in Devices : Owes(d)' = Owes(d) /\ Said(d)' = Said(d)
  BY DEF LastGuide, Owes, Said, ToldBy
<1>2. Streams(m)' /\ Dated(m)'
  BY <1>1 DEF OnceFor, Streams, Dated
<1>3. Waiting' = Waiting /\ \A C, v : Awaited(C, v)' = Awaited(C, v)
  BY <1>1 DEF Waiting, Awaited
<1>4. ReportsFair(m)'
  BY <1>3 DEF OnceFor, ReportsFair, InTime
<1>5. Timely'
  BY DEF OnceFor, Timely, DueFor
<1>6. Follows(m)' /\ Untolds' /\ Apart(out'.presses, out'.holds)
  BY DEF OnceFor, Follows, HeldFrom, Untolds
<1> QED BY <1>2, <1>4, <1>5, <1>6 DEF OnceFor

\* hold(): the candidate is held, and the hold is reported or mirrored.
LEMMA HoldSets ==
  ASSUME NEW p \in PolicyRecord, NEW d \in Devices, NEW t \in Int, HoldDue(p, d, t)
  PROVE  LET new == Hold(p, d, t).policy
         IN  /\ new.hold = Reported(p.hold, d, t) /\ new.release = p.release /\ new.capture = p.capture
             /\ new.device[d].heldSince = p.device[d].heldSince /\ new.device[d].held = TRUE
             /\ \A x \in Devices \ {d} : new.device[x] = p.device[x]
<1> DEFINE new == Hold(p, d, t).policy
           st == p.device[d]
           after == [st EXCEPT !.held = TRUE]
           told == Reported(p.hold, d, t)
           mid == [p EXCEPT !.device[d] = after]
<1>1. new = [p EXCEPT !.device[d] = after, !.hold = told]
  BY Zenon DEF Hold
<1>2. st \in DeviceRecord /\ told \in ReportRecord
  BY ReportedType DEF PolicyRecord
<1> HIDE DEF new, st, told
<1>3. after \in DeviceRecord /\ after.heldSince = st.heldSince /\ after.held = TRUE
  BY <1>2 DEF DeviceRecord
<1> HIDE DEF after
<1>4. mid \in PolicyRecord /\ mid.device = [p.device EXCEPT ![d] = after]
  BY <1>3, PolicyWith
<1>5. new = [mid EXCEPT !.hold = told]
  BY <1>1
<1>6. mid.release = p.release /\ mid.capture = p.capture
  BY DEF PolicyRecord
<1> HIDE DEF mid
<1>7. new.hold = told /\ new.release = p.release /\ new.capture = p.capture /\ new.device = [p.device EXCEPT ![d] = after]
  BY <1>2, <1>4, <1>5, <1>6 DEF PolicyRecord
<1>8. new.device[d] = after /\ \A x \in Devices \ {d} : new.device[x] = p.device[x]
  BY <1>7 DEF PolicyRecord
<1> QED BY <1>3, <1>7, <1>8 DEF new, st, told

\* The timer of a hold: the press it is held for is not older than what
\* Punctual allows, so every other node's hold of it is a mirror.
LEMMA OnceDue ==
  ASSUME Punctual, ListenInv, NEW m, OnceFor(m), NEW t \in timers, Due(t)
  PROVE  OnceFor(m)'
<1> DEFINE d == t.of
           due == HoldDue(policy, d, now)
           mirrors == Mirrors(policy.hold, d, now)
           told == [by |-> d, press |-> current[d]]
           w == HoldTimerMs - HoldMs + Lag + 2 * Late
<1>1. /\ t.due <= now /\ timers' = timers \ {t}
      /\ UNCHANGED <<now, pad, lagging, node, table, current>>
  BY DEF Due
<1>2. /\ policy \in PolicyRecord /\ now \in Nat /\ d \in Devices /\ t.due \in Int
      /\ out \in [presses : {out.presses}, signals : {out.signals}, holds : {out.holds},
                  captures : {out.captures}, early : {out.early}]
      /\ policy.device[d] \in DeviceRecord /\ policy.hold \in ReportRecord
  BY DEF ListenInv, ListenTypes, Timers, PolicyRecord
<1>3. \/ UNCHANGED <<policy, out>>
      \/ /\ policy' = Hold(policy, d, now).policy
         /\ \E early : out' = [out EXCEPT !.holds = out.holds \cup (IF Hold(policy, d, now).yes THEN {told} ELSE {}),
                                          !.early = early]
  BY DEF Due
<1>4. CASE UNCHANGED <<policy, out>>
  BY <1>1, <1>4, TimerOver
<1>5. CASE /\ policy' = Hold(policy, d, now).policy
           /\ \E early : out' = [out EXCEPT !.holds = out.holds \cup (IF Hold(policy, d, now).yes THEN {told} ELSE {}),
                                            !.early = early]
  <2> DEFINE holds == out.holds \cup (IF Hold(policy, d, now).yes THEN {told} ELSE {})
  <2>0. PICK early : out' = [out EXCEPT !.holds = holds, !.early = early]
    BY <1>5
  <2> HIDE DEF holds
  <2>1. out'.presses = out.presses /\ out'.captures = out.captures /\ out'.holds = holds
    BY <1>2, <2>0
  <2>2. CASE ~due
    <3>1. Hold(policy, d, now).policy = policy /\ Hold(policy, d, now).yes = FALSE
      BY <2>2 DEF Hold
    <3>2. policy' = policy /\ holds = out.holds
      BY <1>5, <3>1 DEF holds
    <3> QED BY <1>1, <2>1, <3>2, TimerOver
  <2>3. CASE due
    <3> DEFINE st == policy.device[d]
               i == current[d]
               P == Awaited({Guide}, 1) \cup Waiting
               P2 == Awaited({Guide}, 1) \cup Waiting'
    <3>1. st.heldSince >= 0 /\ ~st.held /\ now - st.heldSince >= HoldMs /\ st.heldSince \in Int
      BY <1>2, <2>3 DEF HoldDue, Holding, DeviceRecord
    <3>2. holds = IF mirrors THEN out.holds ELSE out.holds \cup {told}
      <4>1. Hold(policy, d, now).yes <=> ~mirrors
        BY <2>3 DEF Hold
      <4> HIDE DEF mirrors, told
      <4> QED BY <4>1 DEF holds
    <3>3. /\ policy'.hold = Reported(policy.hold, d, now) /\ policy'.release = policy.release
          /\ policy'.capture = policy.capture
          /\ policy'.device[d].heldSince = st.heldSince /\ policy'.device[d].held = TRUE
          /\ \A x \in Devices \ {d} : policy'.device[x] = policy.device[x]
      <4> DEFINE new == Hold(policy, d, now).policy
      <4>1. now \in Int
        BY <1>2
      <4>2. /\ new.hold = Reported(policy.hold, d, now) /\ new.release = policy.release /\ new.capture = policy.capture
            /\ new.device[d].heldSince = policy.device[d].heldSince /\ new.device[d].held = TRUE
            /\ \A x \in Devices \ {d} : new.device[x] = policy.device[x]
        BY <1>2, <2>3, <4>1, HoldSets
      <4> HIDE DEF new
      <4>3. policy' = new
        BY <1>5 DEF new
      <4> QED BY <4>2, <4>3, Zenon
    <3>4. i \in Nat /\ <<i, 1>> \in DOMAIN m /\ m[<<i, 1>>] \in Nat
          /\ m[<<i, 1>>] <= st.heldSince /\ st.heldSince <= m[<<i, 1>>] + Lag
      BY <1>2, <3>1 DEF OnceFor, Follows, HeldFrom, Dated
    <3>5. /\ {Late, Lag, HoldTimerMs, HoldMs} \subseteq Nat /\ w \in Int /\ w < SameReleaseMs
          /\ HoldMs + w = HoldTimerMs + Lag + 2 * Late
      BY ListenerAssumption, TimesAssumption DEF Punctual
    <3>6. DueFor(t, st, node[d].queue)
      BY DEF OnceFor, Timely
    <3>7. now <= t.due + Late /\ t.due <= st.heldSince + Late + HoldTimerMs
          /\ \A j \in DOMAIN node[d].queue : t.due <= node[d].queue[j].at + Late + HoldTimerMs
      BY <3>1, <3>6 DEF DueFor
    <3> HIDE DEF st, i, w, told, mirrors, due
    <3>8. ASSUME NEW k \in Int, k \in Nat, t.due <= k + Lag + Late + HoldTimerMs PROVE now <= k + HoldMs + w
      BY <1>2, <3>5, <3>7, <3>8
    <3>9. <<d, i>> \in P
      <4>1. <<d, i>> \in Waiting
        BY <1>2, <3>1, <3>4 DEF Waiting, Waits, st, i
      <4> QED BY <4>1
    <3>10. P2 \subseteq P /\ \A j : <<d, j>> \in P2 => <<d, j>> \in Awaited({Guide}, 1)
      <4>1. ASSUME NEW x \in Waiting' PROVE x \in Waiting /\ x[1] # d
        <5>1. x \in Devices \X Nat /\ Waits(policy'.device[x[1]]) /\ x[2] = current[x[1]]
          BY <1>1, <4>1 DEF Waiting
        <5>2. x[1] # d
          BY <3>3, <5>1 DEF Waits
        <5>3. policy'.device[x[1]] = policy.device[x[1]]
          BY <3>3, <5>1, <5>2
        <5> QED BY <5>1, <5>2, <5>3 DEF Waiting
      <4> QED BY <4>1
    <3>11. ASSUME NEW j, <<d, j>> \in P2, <<j, 1>> \in DOMAIN m
           PROVE  now <= m[<<j, 1>>] + HoldMs + w
      <4>1. Has(node[d].queue, Owes(d), Guide, 1, j)
        BY <3>10, <3>11 DEF Awaited
      <4>2. m[<<j, 1>>] \in Nat
        BY <3>11 DEF OnceFor, Dated
      <4>3. /\ node[d].queue \in Seq(QueueEvent)
            /\ StreamFair(m, now, node[d].queue, Owes(d), Said(d), LastGuide)
        BY <1>2, SaidType
      <4>4. CASE \E k \in DOMAIN node[d].queue : /\ node[d].queue[k].code = Guide /\ node[d].queue[k].value = 1
                                                 /\ node[d].queue[k].press = j
        <5>1. PICK k \in DOMAIN node[d].queue : /\ node[d].queue[k].code = Guide /\ node[d].queue[k].value = 1
                                                /\ node[d].queue[k].press = j
          BY <4>4
        <5>2. Stamped(m, now, node[d].queue[k])
          BY <4>3 DEF StreamFair, QueueFair
        <5>3. node[d].queue[k].at <= m[<<j, 1>>] + Lag
          BY <5>1, <5>2, LostIsNoInput DEF Stamped, Key, Inputs
        <5>4. node[d].queue[k].at \in Nat
          <6>1. node[d].queue[k] \in QueueEvent
            BY <4>3
          <6> QED BY <6>1 DEF QueueEvent, KeyEvent, LostEvent
        <5>5. t.due <= node[d].queue[k].at + Late + HoldTimerMs
          BY <3>7
        <5>6. t.due <= m[<<j, 1>>] + Lag + Late + HoldTimerMs
          BY <1>2, <3>5, <4>2, <5>3, <5>4, <5>5
        <5> QED BY <3>8, <4>2, <5>6
      <4>5. CASE \E k \in DOMAIN Owes(d) : Owes(d)[k].code = Guide /\ Owes(d)[k].value = 1 /\ Owes(d)[k].press = j
        <5>1. PICK k \in DOMAIN Owes(d) : Owes(d)[k].code = Guide /\ Owes(d)[k].value = 1 /\ Owes(d)[k].press = j
          BY <4>5
        <5>2. Owing(m, now, Owes(d)[k])
          BY <4>3 DEF StreamFair, LagFair
        <5>3. now <= m[<<j, 1>>] + Lag
          BY <5>1, <5>2 DEF Owing, Key
        <5> QED BY <1>2, <3>5, <4>2, <5>3
      <4> QED BY <4>1, <4>4, <4>5 DEF Has
    <3>12. m[<<i, 1>>] + HoldMs <= now /\ now <= m[<<i, 1>>] + HoldMs + w
      <4>1. t.due <= m[<<i, 1>>] + Lag + Late + HoldTimerMs
        BY <1>2, <3>1, <3>4, <3>5, <3>7
      <4> QED BY <1>2, <3>1, <3>4, <3>5, <3>8, <4>1
    <3>13. Once(policy'.hold, holds, m, 1, HoldMs, P2)
      <4> DEFINE report == policy.hold
      <4>1. Once(report, out.holds, m, 1, HoldMs, P) /\ report.at <= now
        BY DEF OnceFor, ReportsFair
      <4>2. \A k \in DOMAIN m : m[k] \in Nat
        BY DEF OnceFor, Dated
      <4>3. out.holds \subseteq holds /\ \A r \in holds \ out.holds : ~Mirrors(report, d, now) /\ r.by = d /\ r.press = i
        BY <3>2 DEF mirrors, told, i
      <4> HIDE DEF report, P, P2
      <4>4. report \in ReportRecord /\ HoldMs \in Nat
        BY <1>2, <3>5 DEF report
      <4> HIDE DEF d, holds
      <4>5. Once(Reported(report, d, now), holds, m, 1, HoldMs, P2)
        BY <1>2, <3>4, <3>5, <3>9, <3>10, <3>11, <3>12, <4>1, <4>2, <4>3, <4>4, OnceReported
      <4> QED BY <3>3, <4>5 DEF report
    <3>14. LastGuide' = LastGuide /\ \A x \in Devices : Owes(x)' = Owes(x)
      BY <1>1 DEF LastGuide, Owes
    <3>15. \A x \in Devices : Said(x)' = Said(x)
      <4>1. ASSUME NEW x \in Devices PROVE Said(x)' = Said(x)
        <5>1. CASE x = d
          BY <1>1, <2>1, <3>2, <5>1 DEF Said, ToldBy, told
        <5>2. CASE x # d
          BY <1>1, <2>1, <3>2, <5>2 DEF Said, ToldBy, told
        <5> QED BY <5>1, <5>2
      <4> QED BY <4>1
    <3>16. Streams(m)' /\ Dated(m)'
      BY <1>1, <3>14, <3>15 DEF OnceFor, Streams, Dated
    <3>17. \A C, v : Awaited(C, v)' = Awaited(C, v)
      BY <1>1, <3>14 DEF Awaited
    <3>18. ReportsFair(m)'
      <4>1. /\ Once(policy'.release, out'.presses, m, 0, 0, Awaited({Guide}, 0)')
            /\ Once(policy'.capture, out'.captures, m, 1, 0, Awaited(CaptureButtons, 1)')
        BY <2>1, <3>3, <3>17 DEF OnceFor, ReportsFair
      <4>2. Once(policy'.hold, out'.holds, m, 1, HoldMs, Awaited({Guide}, 1)' \cup Waiting')
        BY <2>1, <3>13, <3>17
      <4>3. policy'.hold.at <= now'
        <5>1. policy.hold.at <= now
          BY DEF OnceFor, ReportsFair
        <5> QED BY <1>1, <1>2, <3>3, <5>1 DEF Reported
      <4>4. InTime(policy.release)' /\ InTime(policy.capture)'
        BY <1>1, <3>3 DEF OnceFor, ReportsFair, InTime
      <4> QED BY <4>1, <4>2, <4>3, <4>4 DEF ReportsFair
    <3>19. Timely'
      <4>1. ASSUME NEW o \in timers PROVE DueFor(o, policy'.device[o.of], node[o.of].queue)
        <5>1. o.of \in Devices /\ DueFor(o, policy.device[o.of], node[o.of].queue)
          BY DEF OnceFor, Timely, ListenInv, ListenTypes, Timers
        <5>2. policy'.device[o.of].heldSince = policy.device[o.of].heldSince
          BY <3>3, <5>1 DEF st
        <5> QED BY <5>1, <5>2 DEF DueFor
      <4> QED BY <1>1, <4>1 DEF Timely, DueFor
    <3>20. \A x \in Devices : policy'.device[x].heldSince = policy.device[x].heldSince
      BY <3>3 DEF st
    <3>21. Follows(m)'
      BY <1>1, <3>20 DEF OnceFor, Follows, HeldFrom
    <3>22. Untolds'
      <4>1. ASSUME NEW x \in Devices PROVE Untold(policy'.device[x], current[x], x, out.presses, holds)
        <5>1. Untold(policy.device[x], current[x], x, out.presses, out.holds)
          BY DEF OnceFor, Untolds
        <5>2. CASE x = d
          BY <3>3, <3>20, <5>1, <5>2 DEF Untold
        <5>3. CASE x # d
          <6>1. policy'.device[x] = policy.device[x]
            BY <3>3, <5>3
          <6>2. \A h \in holds : h.by = x => h \in out.holds
            BY <3>2, <5>3 DEF told
          <6> QED BY <5>1, <6>1, <6>2 DEF Untold
        <5> QED BY <5>2, <5>3
      <4> QED BY <1>1, <2>1, <4>1 DEF Untolds
    <3>23. Apart(out'.presses, out'.holds)
      <4>1. ASSUME NEW r \in out.presses, r.by = d PROVE r.press # i
        <5>1. Untold(st, i, d, out.presses, out.holds)
          BY <1>2 DEF OnceFor, Untolds, st, i
        <5>2. r.press < i
          BY <3>1, <4>1, <5>1 DEF Untold
        <5>3. r.press \in Nat
          BY <1>2, <4>1, SaidType DEF Said, ToldBy
        <5> QED BY <3>4, <5>2, <5>3
      <4>2. \A h \in holds : h \in out.holds \/ (h.by = d /\ h.press = i)
        BY <3>2 DEF told, i
      <4> QED BY <2>1, <4>1, <4>2 DEF OnceFor, Apart
    <3> QED BY <1>1, <3>16, <3>18, <3>19, <3>21, <3>22, <3>23 DEF OnceFor
  <2> QED BY <2>2, <2>3
<1> QED BY <1>3, <1>4, <1>5

\* What the reading of one event does to the reports of other presses.
LEMMA GuideDownReports ==
  ASSUME NEW p \in PolicyRecord, NEW d \in Devices, NEW at \in Nat
  PROVE  LET new == GuideDown(p, d, at)
         IN  new.release = p.release /\ new.hold = p.hold /\ new.capture = p.capture
<1> DEFINE new == GuideDown(p, d, at)
           st == p.device[d]
           since == IF at >= st.armedAt THEN at ELSE Never
           keyed == st.keysDown # {}
           after == [st EXCEPT !.heldSince = since, !.chord = keyed, !.held = FALSE]
<1>1. new = [p EXCEPT !.device[d] = after]
  BY Zenon DEF GuideDown
<1> HIDE DEF new, after
<1>2. new.release = p.release /\ new.hold = p.hold /\ new.capture = p.capture
  BY <1>1 DEF PolicyRecord
<1> QED BY <1>2 DEF new

\* The release of Guide touches the report of presses only.
LEMMA GuideUpReports ==
  ASSUME NEW p \in PolicyRecord, NEW d \in Devices, NEW at \in Nat
  PROVE  LET new == GuideUp(p, d, at)
         IN  new.release = Reported(p.release, d, at) /\ new.hold = p.hold /\ new.capture = p.capture
<1> DEFINE new == GuideUp(p, d, at)
           st == p.device[d]
           after == [st EXCEPT !.heldSince = Never, !.chord = FALSE, !.held = FALSE]
           told == Reported(p.release, d, at)
<1>1. new = [p EXCEPT !.device[d] = after, !.release = told]
  BY Zenon DEF GuideUp
<1> HIDE DEF new, after, told
<1>2. new.release = told /\ new.hold = p.hold /\ new.capture = p.capture
  BY <1>1 DEF PolicyRecord
<1> QED BY <1>2 DEF new, told

\* Another input touches no report.
LEMMA OtherReports ==
  ASSUME NEW p \in PolicyRecord, NEW d \in Devices, NEW e \in KeyEvent
  PROVE  LET new == Other(p, d, e)
         IN  /\ new.release = p.release /\ new.hold = p.hold /\ new.capture = p.capture
             /\ ~new.device[d].held => ~p.device[d].held
<1> DEFINE new == Other(p, d, e)
           st == p.device[d]
           keys == KeysAfter(st.keysDown, e)
           chorded == st.chord \/ (e.value = 1 /\ st.heldSince >= 0)
           after == [st EXCEPT !.keysDown = keys, !.chord = chorded]
<1>1. new = [p EXCEPT !.device[d] = after]
  BY Zenon DEF Other, KeysAfter
<1>2. st \in DeviceRecord
  BY DEF PolicyRecord
<1> HIDE DEF new, st, keys, chorded
<1>3. after.held = st.held
  BY <1>2 DEF DeviceRecord
<1> HIDE DEF after
<1>4. new.release = p.release /\ new.hold = p.hold /\ new.capture = p.capture /\ new.device[d] = after
  BY <1>1 DEF PolicyRecord
<1>5. ~new.device[d].held => ~p.device[d].held
  BY <1>3, <1>4, Zenon DEF st
<1> QED BY <1>4, <1>5 DEF new

\* Nor does what a full queue lost.
LEMMA DroppedReports ==
  ASSUME NEW p \in PolicyRecord, NEW d \in p.open
  PROVE  LET new == Dropped(p, d)
         IN  new.release = p.release /\ new.hold = p.hold /\ new.capture = p.capture
<1> DEFINE new == Dropped(p, d)
           st == p.device[d]
           after == [st EXCEPT !.heldSince = Never, !.chord = FALSE, !.keysDown = {}]
<1>1. new = [p EXCEPT !.device[d] = after]
  BY Zenon DEF Dropped
<1> HIDE DEF new, after
<1>2. new.release = p.release /\ new.hold = p.hold /\ new.capture = p.capture
  BY <1>1 DEF PolicyRecord
<1> QED BY <1>2 DEF new

\* A capture button touches the report of captures only.
LEMMA CaptureReports ==
  ASSUME NEW p \in PolicyRecord, NEW d \in Devices, NEW e \in KeyEvent
  PROVE  LET new == Capture(p, d, e)
         IN  /\ new.policy.release = p.release /\ new.policy.hold = p.hold
             /\ \/ new.policy.capture = p.capture /\ ~new.yes
                \/ /\ CaptureDue(p, d, e) /\ new.policy.capture = Reported(p.capture, d, e.at)
                   /\ new.yes => ~Mirrors(p.capture, d, e.at)
<1> DEFINE told == Reported(p.capture, d, e.at)
           mirrors == Mirrors(p.capture, d, e.at)
           new == Capture(p, d, e)
<1>1. CASE ~CaptureDue(p, d, e)
  <2>1. new.policy = p /\ new.yes = FALSE
    BY <1>1 DEF Capture
  <2> HIDE DEF new
  <2>2. new.policy.release = p.release /\ new.policy.hold = p.hold /\ new.policy.capture = p.capture /\ ~new.yes
    BY <2>1
  <2> QED BY <2>2 DEF new
<1>2. CASE CaptureDue(p, d, e)
  <2>1. new = [policy |-> [p EXCEPT !.capture = told], yes |-> ~mirrors]
    BY <1>2, Zenon DEF Capture
  <2> HIDE DEF told, mirrors, new
  <2>2. new.policy = [p EXCEPT !.capture = told] /\ (new.yes => ~mirrors)
    BY <2>1
  <2>3. new.policy.release = p.release /\ new.policy.hold = p.hold /\ new.policy.capture = told
    BY <2>2 DEF PolicyRecord
  <2> QED BY <1>2, <2>2, <2>3 DEF told, mirrors, new
<1> QED BY <1>1, <1>2

\* One event of the queue: the press or the clip it reports, if it does;
\* and whether the press that is followed is another one.
TellsPress(d, s, e, new) ==
  \/ new.policy.release = s.policy.release /\ new.pressed = s.pressed
  \/ /\ e.code = Guide /\ e.value = 0
     /\ s.policy.device[d].heldSince >= 0 /\ new.policy.device[d].heldSince = Never
     /\ new.policy.release = Reported(s.policy.release, d, e.at) /\ s.pressed \subseteq new.pressed
     /\ \A r \in new.pressed \ s.pressed :
          ~Mirrors(s.policy.release, d, e.at) /\ ~s.policy.device[d].held /\ r.by = d /\ r.press = e.press
TellsClip(d, s, e, new) ==
  \/ new.policy.capture = s.policy.capture /\ new.captured = s.captured
  \/ /\ e.code \in CaptureButtons /\ e.value = 1
     /\ new.policy.capture = Reported(s.policy.capture, d, e.at) /\ s.captured \subseteq new.captured
     /\ \A r \in new.captured \ s.captured :
          ~Mirrors(s.policy.capture, d, e.at) /\ r.by = d /\ r.press = e.press
TellsOf(d, s, e, new) ==
  \/ /\ e.code = Guide /\ e.value = 1 /\ new.current = e.press
     /\ new.policy.device[d].heldSince \in {e.at, Never} /\ new.pressed = s.pressed
     /\ new.timers \subseteq s.timers \cup {[of |-> d, due |-> now + HoldTimerMs]}
  \/ /\ new.current = s.current /\ new.timers = s.timers
     /\ \/ new.policy.device[d].heldSince = Never
        \/ /\ new.policy.device[d].heldSince = s.policy.device[d].heldSince
           /\ ~new.policy.device[d].held => ~s.policy.device[d].held
Tells(d, s, e, new) ==
  /\ new.policy.hold = s.policy.hold
  /\ TellsPress(d, s, e, new) /\ TellsClip(d, s, e, new) /\ TellsOf(d, s, e, new)

\* The mark of a loss tells nothing.
LEMMA LostTells ==
  ASSUME NEW d, NEW s, s.policy \in PolicyRecord, d \in s.policy.open, NEW e \in LostEvent,
         s \in ReadingRecord(s)
  PROVE  Tells(d, s, e, ReadEvent(d, s, e))
<1> DEFINE new == ReadEvent(d, s, e)
           p == s.policy
           np == Dropped(p, d)
<1>1. new = [s EXCEPT !.policy = np]
  BY DEF ReadEvent, LostEvent
<1>2. np.release = p.release /\ np.hold = p.hold /\ np.capture = p.capture
  BY DroppedReports
<1>3. np.device[d].heldSince = Never
  <2>1. View(np.device[d]) = Viewed(View(p.device[d]), e)
    BY DroppedDoes DEF InStepWith
  <2>2. View(np.device[d]).heldSince = Never
    BY <2>1 DEF Viewed, LostEvent
  <2> QED BY <2>2 DEF View
<1> HIDE DEF new, np
<1>4. new.policy = np /\ new.pressed = s.pressed /\ new.captured = s.captured /\ new.current = s.current
      /\ new.timers = s.timers
  BY <1>1 DEF ReadingRecord
<1> QED BY <1>2, <1>3, <1>4 DEF Tells, TellsPress, TellsClip, TellsOf, new

\* What event() does to the reports and to the press that is followed.
LEMMA EventReports ==
  ASSUME NEW p \in PolicyRecord, NEW d \in p.open, NEW e \in KeyEvent
  PROVE  LET new == Event(p, d, e).policy
         IN  /\ new.hold = p.hold /\ new.capture = p.capture
             /\ \/ new.release = p.release /\ ~Event(p, d, e).yes
                \/ /\ e.code = Guide /\ e.value = 0 /\ p.device[d].heldSince >= 0 /\ new.device[d].heldSince = Never
                   /\ new.release = Reported(p.release, d, e.at)
                   /\ Event(p, d, e).yes => ~Mirrors(p.release, d, e.at) /\ ~p.device[d].held
             /\ \/ /\ e.code = Guide /\ e.value = 1 /\ new.device[d].heldSince \in {e.at, Never}
                   /\ ~Event(p, d, e).yes
                \/ /\ ~(e.code = Guide /\ e.value = 1) /\ (Holding(new, d) => Holding(p, d))
                   /\ \/ new.device[d].heldSince = Never
                      \/ /\ new.device[d].heldSince = p.device[d].heldSince
                         /\ ~new.device[d].held => ~p.device[d].held
<1> DEFINE new == Event(p, d, e).policy
           yes == Event(p, d, e).yes
           st == p.device[d]
           v == View(st)
<1>0. d \in Devices /\ e.at \in Nat /\ e.value \in {0, 1} /\ st \in DeviceRecord /\ e.code # Lost
  BY LostIsNoInput DEF PolicyRecord, KeyEvent
<1>1. new \in PolicyRecord /\ new.open = p.open /\ View(new.device[d]) = Viewed(v, e)
  BY EventDoes DEF InStepWith
<1>2. new.device[d].heldSince = Viewed(v, e).heldSince /\ new.device[d].chord = Viewed(v, e).chord
      /\ v.heldSince = st.heldSince /\ v.chord = st.chord
  <2>1. View(new.device[d]).heldSince = new.device[d].heldSince /\ View(new.device[d]).chord = new.device[d].chord
        /\ v.heldSince = st.heldSince /\ v.chord = st.chord
    BY DEF View
  <2> HIDE DEF new, st, v
  <2> QED BY <1>1, <2>1
<1>3. CASE e.code # Guide
  <2>1. new = Other(p, d, e) /\ yes = FALSE
    BY <1>3 DEF Event
  <2>2. /\ new.release = p.release /\ new.hold = p.hold /\ new.capture = p.capture
        /\ ~new.device[d].held => ~st.held
    BY <1>0, <2>1, OtherReports
  <2>3. Viewed(v, e).heldSince = v.heldSince /\ (~Viewed(v, e).chord => ~v.chord)
    <3> DEFINE c == v.chord \/ (e.value = 1 /\ v.heldSince >= 0)
    <3>1. Viewed(v, e) = [armedAt |-> v.armedAt, heldSince |-> v.heldSince, chord |-> c, keys |-> KeysAfter(v.keys, e)]
      BY <1>0, <1>3 DEF Viewed
    <3>2. ~c => ~v.chord
      OBVIOUS
    <3> HIDE DEF v, c
    <3>3. Viewed(v, e).chord = c /\ Viewed(v, e).heldSince = v.heldSince
      BY <3>1
    <3> QED BY <3>2, <3>3, Zenon
  <2>4. new.device[d].heldSince = st.heldSince /\ (~new.device[d].chord => ~st.chord)
    BY <1>2, <2>3, Zenon
  <2>5. Holding(new, d) => Holding(p, d)
    BY <1>1, <2>4 DEF Holding
  <2>6. ~(e.code = Guide /\ e.value = 1) /\ ~yes
    BY <1>3, <2>1
  <2> HIDE DEF new, yes, st
  <2> QED BY <2>2, <2>4, <2>5, <2>6 DEF new, yes, st
<1>4. CASE e.code = Guide /\ e.value = 1
  <2>1. new = GuideDown(p, d, e.at) /\ yes = FALSE
    BY <1>4 DEF Event
  <2>2. new.release = p.release /\ new.hold = p.hold /\ new.capture = p.capture
    BY <1>0, <2>1, GuideDownReports
  <2>3. Viewed(v, e).heldSince \in {e.at, Never}
    BY <1>0, <1>4 DEF Viewed
  <2>4. new.device[d].heldSince \in {e.at, Never} /\ ~yes
    BY <1>2, <2>1, <2>3
  <2> HIDE DEF new, yes, st
  <2> QED BY <1>4, <2>2, <2>4 DEF new, yes, st
<1>5. CASE e.code = Guide /\ e.value = 0 /\ st.heldSince < 0
  <2>1. new = p /\ yes = FALSE
    BY <1>5 DEF Event
  <2>2. ~yes /\ ~(e.code = Guide /\ e.value = 1)
    BY <1>5, <2>1
  <2> HIDE DEF new, yes
  <2> QED BY <2>1, <2>2 DEF new, yes
<1>6. CASE e.code = Guide /\ e.value = 0 /\ ~(st.heldSince < 0)
  <2>0. st.heldSince >= 0 /\ d \in p.open
    BY <1>0, <1>6 DEF DeviceRecord
  <2>1. new = GuideUp(p, d, e.at) /\ yes = Counts(p, d, e.at)
    <3>1. e.code = Guide /\ e.value # 1 /\ ~(p.device[d].heldSince < 0)
      BY <1>6
    <3> QED BY <2>0, <3>1, Zenon DEF Event
  <2>2. new.release = Reported(p.release, d, e.at) /\ new.hold = p.hold /\ new.capture = p.capture
    BY <1>0, <2>1, GuideUpReports
  <2>3. Viewed(v, e).heldSince = Never
    <3>1. ~(v.heldSince < 0)
      BY <1>2, <1>6
    <3> HIDE DEF v
    <3> QED BY <1>0, <1>6, <3>1 DEF Viewed
  <2>4. new.device[d].heldSince = Never
    BY <1>2, <2>3
  <2>5. yes => ~Mirrors(p.release, d, e.at) /\ ~p.device[d].held
    BY <2>1, Zenon DEF Counts
  <2>6. ~Holding(new, d)
    BY <2>4 DEF Holding, Never
  <2>7. ~(e.code = Guide /\ e.value = 1)
    BY <1>6
  <2> HIDE DEF new, yes
  <2> QED BY <1>6, <2>0, <2>2, <2>4, <2>5, <2>6, <2>7 DEF new, yes
<1> QED BY <1>0, <1>3, <1>4, <1>5, <1>6

\* The event of an input tells what Tells says.
LEMMA KeyTells ==
  ASSUME NEW d, NEW s, s.policy \in PolicyRecord, d \in s.policy.open, NEW e \in KeyEvent,
         s \in ReadingRecord(s)
  PROVE  Tells(d, s, e, ReadEvent(d, s, e))
<1> DEFINE new == ReadEvent(d, s, e)
           p == s.policy
           capture == Capture(p, d, e)
           cp == capture.policy
           event == Event(cp, d, e)
           np == event.policy
           begins == ~Holding(cp, d) /\ Holding(np, d)
           told == [by |-> d, press |-> e.press]
           press == [by |-> d, press |-> e.press, took |-> e.at - e.since, with |-> e.with,
                     armed |-> e.since >= s.policy.device[d].armedAt]
           more == IF begins THEN {[of |-> d, due |-> now + HoldTimerMs]} ELSE {}
           clips == IF capture.yes THEN {told} ELSE {}
           presses == IF event.yes THEN {press} ELSE {}
           sent == IF event.yes THEN {e.press} ELSE s.signal
           last == IF e.code = Guide /\ e.value = 1 THEN e.press ELSE s.current
<1>0. d \in Devices /\ e.code # Lost
  BY LostIsNoInput DEF PolicyRecord, KeyEvent
<1>1. new = [policy |-> np, timers |-> s.timers \cup more,
             captured |-> s.captured \cup clips, pressed |-> s.pressed \cup presses, signal |-> sent, current |-> last]
  BY <1>0, Zenon DEF ReadEvent
<1>2. cp \in PolicyRecord /\ cp.open = p.open /\ cp.device = p.device /\ d \in cp.open
  BY <1>0, CaptureDoes
<1>3. /\ cp.release = p.release /\ cp.hold = p.hold
      /\ \/ cp.capture = p.capture /\ ~capture.yes
         \/ /\ CaptureDue(p, d, e) /\ cp.capture = Reported(p.capture, d, e.at)
            /\ capture.yes => ~Mirrors(p.capture, d, e.at)
  BY <1>0, CaptureReports
<1> HIDE DEF cp
<1>4. /\ np.hold = cp.hold /\ np.capture = cp.capture
      /\ \/ np.release = cp.release /\ ~event.yes
         \/ /\ e.code = Guide /\ e.value = 0 /\ cp.device[d].heldSince >= 0 /\ np.device[d].heldSince = Never
            /\ np.release = Reported(cp.release, d, e.at)
            /\ event.yes => ~Mirrors(cp.release, d, e.at) /\ ~cp.device[d].held
      /\ \/ /\ e.code = Guide /\ e.value = 1 /\ np.device[d].heldSince \in {e.at, Never} /\ ~event.yes
         \/ /\ ~(e.code = Guide /\ e.value = 1) /\ (Holding(np, d) => Holding(cp, d))
            /\ \/ np.device[d].heldSince = Never
               \/ /\ np.device[d].heldSince = cp.device[d].heldSince
                  /\ ~np.device[d].held => ~cp.device[d].held
  BY <1>2, EventReports
<1>5. clips = (IF capture.yes THEN {told} ELSE {}) /\ told.by = d /\ told.press = e.press
  OBVIOUS
<1>6. presses = (IF event.yes THEN {press} ELSE {}) /\ press.by = d /\ press.press = e.press
  OBVIOUS
<1> HIDE DEF new, capture, event, np, told, press
<1>7. /\ (Holding(np, d) => Holding(cp, d)) => more = {}
      /\ more \subseteq {[of |-> d, due |-> now + HoldTimerMs]}
  BY DEF Holding
<1>8. last = (IF e.code = Guide /\ e.value = 1 THEN e.press ELSE s.current)
  OBVIOUS
<1> HIDE DEF more, clips, presses, sent, last
<1>9. /\ new.policy = np /\ new.timers = s.timers \cup more /\ new.captured = s.captured \cup clips
      /\ new.pressed = s.pressed \cup presses /\ new.current = last
  BY <1>1
<1>10. new.policy.hold = s.policy.hold
  BY <1>3, <1>4, <1>9
<1>11. TellsPress(d, s, e, new)
  <2>1. CASE np.release = cp.release /\ ~event.yes
    BY <1>3, <1>6, <1>9, <2>1 DEF TellsPress
  <2>2. CASE /\ e.code = Guide /\ e.value = 0 /\ cp.device[d].heldSince >= 0 /\ np.device[d].heldSince = Never
             /\ np.release = Reported(cp.release, d, e.at)
             /\ event.yes => ~Mirrors(cp.release, d, e.at) /\ ~cp.device[d].held
    <3>1. cp.device[d] = p.device[d] /\ cp.release = p.release
      BY <1>2, <1>3
    <3>2. \A r \in new.pressed \ s.pressed : event.yes /\ r = press
      BY <1>6, <1>9
    <3>3. \A r \in new.pressed \ s.pressed :
            ~Mirrors(p.release, d, e.at) /\ ~p.device[d].held /\ r.by = d /\ r.press = e.press
      BY <1>6, <2>2, <3>1, <3>2, Zenon
    <3>4. /\ p.device[d].heldSince >= 0 /\ new.policy.device[d].heldSince = Never
          /\ new.policy.release = Reported(p.release, d, e.at) /\ s.pressed \subseteq new.pressed
      BY <1>9, <2>2, <3>1
    <3> QED BY <2>2, <3>3, <3>4 DEF TellsPress
  <2> QED BY <1>4, <2>1, <2>2
<1>12. TellsClip(d, s, e, new)
  <2>1. CASE cp.capture = p.capture /\ ~capture.yes
    BY <1>4, <1>5, <1>9, <2>1 DEF TellsClip
  <2>2. CASE /\ CaptureDue(p, d, e) /\ cp.capture = Reported(p.capture, d, e.at)
             /\ capture.yes => ~Mirrors(p.capture, d, e.at)
    <3>1. \A r \in new.captured \ s.captured : capture.yes /\ r = told
      BY <1>5, <1>9
    <3>2. \A r \in new.captured \ s.captured : ~Mirrors(p.capture, d, e.at) /\ r.by = d /\ r.press = e.press
      BY <1>5, <2>2, <3>1, Zenon
    <3>3. e.code \in CaptureButtons /\ e.value = 1
      BY <2>2 DEF CaptureDue
    <3>4. new.policy.capture = Reported(p.capture, d, e.at) /\ s.captured \subseteq new.captured
      BY <1>4, <1>9, <2>2
    <3> QED BY <3>2, <3>3, <3>4 DEF TellsClip
  <2> QED BY <1>3, <2>1, <2>2
<1>13. TellsOf(d, s, e, new)
  <2>1. CASE e.code = Guide /\ e.value = 1
    <3>1. np.device[d].heldSince \in {e.at, Never} /\ ~event.yes
      BY <1>4, <2>1
    <3>2. new.current = e.press /\ new.pressed = s.pressed /\ new.policy.device[d].heldSince \in {e.at, Never}
      BY <1>6, <1>8, <1>9, <2>1, <3>1
    <3>3. new.timers \subseteq s.timers \cup {[of |-> d, due |-> now + HoldTimerMs]}
      BY <1>7, <1>9
    <3> QED BY <2>1, <3>2, <3>3 DEF TellsOf
  <2>2. CASE ~(e.code = Guide /\ e.value = 1)
    <3>1. /\ Holding(np, d) => Holding(cp, d)
          /\ \/ np.device[d].heldSince = Never
             \/ /\ np.device[d].heldSince = cp.device[d].heldSince
                /\ ~np.device[d].held => ~cp.device[d].held
      BY <1>4, <2>2
    <3>2. new.current = s.current /\ new.timers = s.timers
      BY <1>7, <1>8, <1>9, <2>2, <3>1
    <3>3. cp.device[d] = p.device[d] /\ new.policy.device[d] = np.device[d]
      BY <1>2, <1>9
    <3>4. \/ new.policy.device[d].heldSince = Never
          \/ /\ new.policy.device[d].heldSince = p.device[d].heldSince
             /\ ~new.policy.device[d].held => ~p.device[d].held
      BY <3>1, <3>3, Zenon
    <3> QED BY <3>2, <3>4 DEF TellsOf
  <2> QED BY <2>1, <2>2
<1> QED BY <1>10, <1>11, <1>12, <1>13 DEF Tells, new

\* And so does each of what is queued.
LEMMA ReadEventTells ==
  ASSUME NEW d, NEW s, s \in ReadingRecord(s), d \in s.policy.open, NEW e \in QueueEvent
  PROVE  Tells(d, s, e, ReadEvent(d, s, e))
<1>1. s.policy \in PolicyRecord
  BY DEF ReadingRecord
<1> QED BY <1>1, LostTells, KeyTells DEF QueueEvent

\* read() one event at a time: what the invariant says of the reports, of
\* the timers and of the press that is followed, of a node the first i
\* events of which were read.
HasAfter(d, i, c, v, x) ==
  \/ \E j \in DOMAIN node[d].queue :
       i < j /\ node[d].queue[j].code = c /\ node[d].queue[j].value = v /\ node[d].queue[j].press = x
  \/ \E j \in DOMAIN Owes(d) : Owes(d)[j].code = c /\ Owes(d)[j].value = v /\ Owes(d)[j].press = x
AwaitedAfter(d, i, C, v) == {x \in Awaited(C, v) : x[1] = d => \E c \in C : HasAfter(d, i, c, v, x[2])}
WaitingFor(d, p, followed) ==
  {x \in Devices \X Nat : Waits(p.device[x[1]]) /\ x[2] = IF x[1] = d THEN followed ELSE current[x[1]]}

PressesRead(s) == out.presses \cup s.pressed
SaidBy(d, s) == {s.current} \cup {r.press : r \in {o \in PressesRead(s) \cup out.holds : o.by = d}}

InTimeAfter(report, d, i) ==
  /\ report.at <= now /\ \A x \in Devices \ {d} : NoLater(report, node[x].queue, x)
  /\ report.by = d => \A j \in DOMAIN node[d].queue : i < j => report.at <= node[d].queue[j].at
ToldInTime(report, told, m, v, d, i, C) ==
  Once(report, told, m, v, 0, AwaitedAfter(d, i, C, v)) /\ InTimeAfter(report, d, i)

PressesFair(m, d, i, s) == ToldInTime(s.policy.release, PressesRead(s), m, 0, d, i, {Guide})
ClipsFair(m, d, i, s) == ToldInTime(s.policy.capture, out.captures \cup s.captured, m, 1, d, i, CaptureButtons)
HoldsFair(m, d, i, s) ==
  /\ Once(s.policy.hold, out.holds, m, 1, HoldMs,
          AwaitedAfter(d, i, {Guide}, 1) \cup WaitingFor(d, s.policy, s.current))
  /\ s.policy.hold.at <= now
DueAfter(t, d, i, state) ==
  /\ now <= t.due + Late /\ t.due <= now + HoldTimerMs
  /\ \A j \in DOMAIN node[d].queue : i < j => t.due <= node[d].queue[j].at + Late + HoldTimerMs
  /\ state.heldSince >= 0 => t.due <= state.heldSince + Late + HoldTimerMs
TimersFair(d, i, s) ==
  \A t \in s.timers : IF t.of = d THEN DueAfter(t, d, i, s.policy.device[d])
                      ELSE DueFor(t, policy.device[t.of], node[t.of].queue)
FollowsFair(m, d, s) ==
  /\ HeldFrom(m, s.policy.device[d], s.current)
  /\ Untold(s.policy.device[d], s.current, d, PressesRead(s), out.holds)
  /\ Apart(PressesRead(s), out.holds)
SaidFair(d, i, s) ==
  \A x \in SaidBy(d, s) :
    /\ x \in Nat /\ x <= LastGuide
    /\ \A j \in DOMAIN node[d].queue : i < j => Precedes(x, node[d].queue[j])
    /\ \A j \in DOMAIN Owes(d) : Precedes(x, Owes(d)[j])
ReadFair(m, d, i, s) ==
  /\ \A r \in s.pressed : r.by = d
  /\ PressesFair(m, d, i, s) /\ ClipsFair(m, d, i, s) /\ HoldsFair(m, d, i, s)
  /\ TimersFair(d, i, s) /\ FollowsFair(m, d, s) /\ SaidFair(d, i, s)
ReadTypes(d, s) ==
  /\ s \in ReadingRecord(s) /\ s.policy.open = policy.open
  /\ \A x \in Devices \ {d} : s.policy.device[x] = policy.device[x]
IsReadStep(m, d, i, s, e, new) ==
  /\ d \in Devices /\ d \in policy.open /\ i \in DOMAIN node[d].queue /\ e = node[d].queue[i]
  /\ new = ReadEvent(d, s, e) /\ ReadTypes(d, s) /\ ReadFair(m, d, i - 1, s)

\* The event that is read, and what is queued after it.
LEMMA ReadStepFacts ==
  ASSUME ListenInv, NEW m, OnceFor(m), NEW d, NEW i, NEW s, NEW e, NEW new, IsReadStep(m, d, i, s, e, new)
  PROVE  /\ i \in Nat /\ i >= 1 /\ e \in QueueEvent /\ e.at \in Nat /\ e.at <= now /\ now <= e.at + Late
         /\ e.code # Lost => /\ e.press \in Nat /\ Key(e) \in DOMAIN m /\ m[Key(e)] \in Nat
                             /\ m[Key(e)] <= e.at /\ e.at <= m[Key(e)] + Lag
         /\ \A j \in DOMAIN node[d].queue : i < j => e.at <= node[d].queue[j].at /\ node[d].queue[j].at \in Nat
         /\ \A j \in DOMAIN node[d].queue : i < j => i - 1 < j
         /\ ReadTypes(d, new) /\ Tells(d, s, e, new)
<1> DEFINE q == node[d].queue
<1>0. /\ d \in Devices /\ d \in policy.open /\ i \in DOMAIN q /\ e = q[i]
      /\ new = ReadEvent(d, s, e) /\ ReadTypes(d, s)
  BY DEF IsReadStep
<1>1. q \in Seq(QueueEvent) /\ StreamFair(m, now, q, Owes(d), Said(d), LastGuide)
  BY <1>0, SaidType
<1> HIDE DEF q
<1>2. i \in Nat /\ i >= 1 /\ e \in QueueEvent /\ Stamped(m, now, e)
  BY <1>0, <1>1 DEF StreamFair, QueueFair
<1>3. e.at \in Nat /\ (e.code # Lost => e.press \in Nat)
  BY <1>2, LostIsNoInput DEF QueueEvent, KeyEvent, LostEvent
<1>4. e.code # Lost => Key(e) \in DOMAIN m /\ m[Key(e)] \in Nat /\ m[Key(e)] <= e.at /\ e.at <= m[Key(e)] + Lag
  BY <1>2 DEF Stamped, OnceFor, Dated
<1>5. ASSUME NEW j \in DOMAIN q, i < j PROVE e.at <= q[j].at /\ q[j].at \in Nat /\ i - 1 < j
  <2>1. q[j] \in QueueEvent /\ j \in Nat
    BY <1>1
  <2>2. q[j].at \in Nat
    BY <2>1 DEF QueueEvent, KeyEvent, LostEvent
  <2> QED BY <1>0, <1>1, <1>2, <1>5, <2>1, <2>2 DEF StreamFair, QueueFair
<1>6. s \in ReadingRecord(s) /\ d \in s.policy.open /\ now \in Nat
  BY <1>0 DEF ReadTypes, ListenInv, ListenTypes
<1>7. Tells(d, s, e, new)
  BY <1>0, <1>2, <1>6, ReadEventTells
<1>8. ReadTypes(d, new)
  <2>1. new \in ReadingRecord(new) /\ InStepWith(s.policy, new.policy, d, e)
    BY <1>0, <1>2, <1>6, ReadEventDoes
  <2> QED BY <1>0, <2>1 DEF ReadTypes, InStepWith
<1> QED BY <1>2, <1>3, <1>4, <1>5, <1>7, <1>8 DEF q, Stamped

\* Less is awaited after one event more.
LEMMA AwaitedLess ==
  ASSUME NEW d, NEW i \in Nat, \A j \in DOMAIN node[d].queue : i < j => i - 1 < j, NEW C, NEW v
  PROVE  AwaitedAfter(d, i, C, v) \subseteq AwaitedAfter(d, i - 1, C, v)
<1>1. ASSUME NEW c, NEW x, HasAfter(d, i, c, v, x) PROVE HasAfter(d, i - 1, c, v, x)
  <2> HIDE DEF Owes
  <2> QED BY <1>1 DEF HasAfter
<1> QED BY <1>1 DEF AwaitedAfter

\* A press or a clip that is told, or not, of one event.
LEMMA ToldStep ==
  ASSUME Punctual, ListenInv, NEW m, OnceFor(m), NEW d, NEW i, NEW s, NEW e, NEW new, IsReadStep(m, d, i, s, e, new),
         NEW C \in SUBSET Inputs, NEW v \in {0, 1}, NEW report \in ReportRecord, NEW told, NEW report2, NEW more,
         ToldInTime(report, told, m, v, d, i - 1, C),
         \/ report2 = report /\ more = told
         \/ /\ e.code \in C /\ e.value = v /\ report2 = Reported(report, d, e.at) /\ told \subseteq more
            /\ \A r \in more \ told : ~Mirrors(report, d, e.at) /\ r.by = d /\ r.press = e.press
  PROVE  ToldInTime(report2, more, m, v, d, i, C)
<1> DEFINE P == AwaitedAfter(d, i - 1, C, v)
           P2 == AwaitedAfter(d, i, C, v)
           q == node[d].queue
<1>0. /\ i \in Nat /\ i >= 1 /\ e \in QueueEvent /\ e.at \in Nat /\ e.at <= now /\ now <= e.at + Late
      /\ e.code # Lost => /\ e.press \in Nat /\ Key(e) \in DOMAIN m /\ m[Key(e)] \in Nat
                          /\ m[Key(e)] <= e.at /\ e.at <= m[Key(e)] + Lag
      /\ \A j \in DOMAIN q : i < j => e.at <= q[j].at /\ q[j].at \in Nat
      /\ \A j \in DOMAIN q : i < j => i - 1 < j
  BY ReadStepFacts
<1>1. d \in Devices /\ i \in DOMAIN q /\ e = q[i]
  BY DEF IsReadStep
<1>2. P2 \subseteq P
  BY <1>0, AwaitedLess
<1>3. Once(report, told, m, v, 0, P) /\ InTimeAfter(report, d, i - 1) /\ report.at \in Int
  BY DEF ToldInTime, ReportRecord
<1>4. InTimeAfter(report, d, i)
  BY <1>0, <1>3 DEF InTimeAfter
<1>5. CASE report2 = report /\ more = told
  <2>1. Once(report, told, m, v, 0, P2)
    BY <1>2, <1>3 DEF Once, NotTheirs
  <2> QED BY <1>4, <1>5, <2>1 DEF ToldInTime
<1>6. CASE /\ e.code \in C /\ e.value = v /\ report2 = Reported(report, d, e.at) /\ told \subseteq more
           /\ \A r \in more \ told : ~Mirrors(report, d, e.at) /\ r.by = d /\ r.press = e.press
  <2>1. e.code # Lost /\ Key(e) = <<e.press, v>> /\ e.press \in Nat
    BY <1>0, <1>6, LostIsNoInput DEF Key
  <2>2. <<d, e.press>> \in P
    <3>1. Has(q, Owes(d), e.code, v, e.press)
      BY <1>1, <1>6 DEF Has
    <3>2. HasAfter(d, i - 1, e.code, v, e.press)
      BY <1>0, <1>1, <1>6 DEF HasAfter
    <3> QED BY <1>1, <1>6, <2>1, <3>1, <3>2 DEF AwaitedAfter, Awaited
  <2>3. Lag \in Nat /\ Lag < SameReleaseMs
    BY ListenerAssumption DEF Punctual
  <2>4. ASSUME NEW j, <<d, j>> \in P2, <<j, v>> \in DOMAIN m PROVE e.at <= m[<<j, v>>] + 0 + Lag
    <3>0. m[<<j, v>>] \in Nat /\ now \in Nat
      BY <2>4 DEF OnceFor, Dated, ListenInv, ListenTypes
    <3>1. PICK c \in C : HasAfter(d, i, c, v, j)
      BY <2>4 DEF AwaitedAfter
    <3>2. q \in Seq(QueueEvent) /\ StreamFair(m, now, q, Owes(d), Said(d), LastGuide)
      BY <1>1, SaidType
    <3>3. CASE \E k \in DOMAIN q : i < k /\ q[k].code = c /\ q[k].value = v /\ q[k].press = j
      <4>1. PICK k \in DOMAIN q : i < k /\ q[k].code = c /\ q[k].value = v /\ q[k].press = j
        BY <3>3
      <4>2. Stamped(m, now, q[k]) /\ q[k].code # Lost
        BY <3>2, <4>1, LostIsNoInput DEF StreamFair, QueueFair
      <4>3. q[k].at <= m[<<j, v>>] + Lag
        BY <4>1, <4>2 DEF Stamped, Key
      <4>4. e.at <= q[k].at /\ q[k].at \in Nat
        BY <1>0, <4>1
      <4> QED BY <1>0, <2>3, <3>0, <4>3, <4>4
    <3>4. CASE \E k \in DOMAIN Owes(d) : Owes(d)[k].code = c /\ Owes(d)[k].value = v /\ Owes(d)[k].press = j
      <4>1. PICK k \in DOMAIN Owes(d) : Owes(d)[k].code = c /\ Owes(d)[k].value = v /\ Owes(d)[k].press = j
        BY <3>4
      <4>2. Owing(m, now, Owes(d)[k])
        BY <3>2 DEF StreamFair, LagFair
      <4>3. now <= m[<<j, v>>] + Lag
        BY <4>1, <4>2 DEF Owing, Key
      <4> QED BY <1>0, <2>3, <3>0, <4>3
    <3> QED BY <3>1, <3>3, <3>4 DEF HasAfter
  <2>5. report.by = d => report.at <= e.at
    BY <1>0, <1>1, <1>3 DEF InTimeAfter
  <2>6. /\ <<e.press, v>> \in DOMAIN m /\ m[<<e.press, v>>] + 0 <= e.at /\ e.at <= m[<<e.press, v>>] + 0 + Lag
        /\ \A k \in DOMAIN m : m[k] \in Nat
    BY <1>0, <2>1 DEF OnceFor, Dated
  <2> HIDE DEF P, P2, q
  <2>7. Once(Reported(report, d, e.at), more, m, v, 0, P2)
    BY <1>0, <1>1, <1>2, <1>3, <1>6, <2>2, <2>3, <2>4, <2>5, <2>6, OnceReported
  <2>8. InTimeAfter(Reported(report, d, e.at), d, i)
    <3>1. CASE Mirrors(report, d, e.at)
      BY <1>4, <3>1 DEF Reported
    <3>2. CASE ~Mirrors(report, d, e.at)
      <4>1. Reported(report, d, e.at).at = e.at /\ Reported(report, d, e.at).by = d
        BY <3>2 DEF Reported
      <4> QED BY <1>0, <4>1 DEF InTimeAfter, NoLater, q
    <3> QED BY <3>1, <3>2
  <2> QED BY <1>6, <2>7, <2>8 DEF ToldInTime, P2
<1> QED BY <1>5, <1>6

\* The reports of presses and of captures.
LEMMA ReportsStep ==
  ASSUME Punctual, ListenInv, NEW m, OnceFor(m), NEW d, NEW i, NEW s, NEW e, NEW new, IsReadStep(m, d, i, s, e, new)
  PROVE  PressesFair(m, d, i, new) /\ ClipsFair(m, d, i, new)
<1>0. Tells(d, s, e, new) /\ s.policy \in PolicyRecord
  BY ReadStepFacts DEF IsReadStep, ReadTypes, ReadingRecord
<1>1. PressesFair(m, d, i - 1, s) /\ ClipsFair(m, d, i - 1, s)
  BY DEF IsReadStep, ReadFair
<1>2. {Guide} \in SUBSET Inputs /\ CaptureButtons \in SUBSET Inputs /\ 0 \in {0, 1} /\ 1 \in {0, 1}
  BY InputsAssumption DEF Inputs
<1>3. PressesFair(m, d, i, new)
  <2> DEFINE report == s.policy.release
             report2 == new.policy.release
             told == PressesRead(s)
             more == PressesRead(new)
  <2>1. ToldInTime(report, told, m, 0, d, i - 1, {Guide}) /\ report \in ReportRecord
    BY <1>0, <1>1 DEF PressesFair, PolicyRecord
  <2>2. \/ report2 = report /\ more = told
        \/ /\ e.code \in {Guide} /\ e.value = 0 /\ report2 = Reported(report, d, e.at) /\ told \subseteq more
           /\ \A r \in more \ told : ~Mirrors(report, d, e.at) /\ r.by = d /\ r.press = e.press
    BY <1>0 DEF Tells, TellsPress, PressesRead
  <2> HIDE DEF report, report2, told, more
  <2>3. ToldInTime(report2, more, m, 0, d, i, {Guide})
    BY <1>2, <2>1, <2>2, ToldStep
  <2> QED BY <2>3 DEF PressesFair, report2, more
<1>4. ClipsFair(m, d, i, new)
  <2> DEFINE report == s.policy.capture
             report2 == new.policy.capture
             told == out.captures \cup s.captured
             more == out.captures \cup new.captured
  <2>1. ToldInTime(report, told, m, 1, d, i - 1, CaptureButtons) /\ report \in ReportRecord
    BY <1>0, <1>1 DEF ClipsFair, PolicyRecord
  <2>2. \/ report2 = report /\ more = told
        \/ /\ e.code \in CaptureButtons /\ e.value = 1 /\ report2 = Reported(report, d, e.at) /\ told \subseteq more
           /\ \A r \in more \ told : ~Mirrors(report, d, e.at) /\ r.by = d /\ r.press = e.press
    BY <1>0 DEF Tells, TellsClip
  <2> HIDE DEF report, report2, told, more
  <2>3. ToldInTime(report2, more, m, 1, d, i, CaptureButtons)
    BY <1>2, <2>1, <2>2, ToldStep
  <2> QED BY <2>3 DEF ClipsFair, report2, more
<1> QED BY <1>3, <1>4

\* Which press is followed, and what may still be held.
LEMMA HoldsStep ==
  ASSUME ListenInv, NEW m, OnceFor(m), NEW d, NEW i, NEW s, NEW e, NEW new, IsReadStep(m, d, i, s, e, new)
  PROVE  HoldsFair(m, d, i, new)
<1> DEFINE P == AwaitedAfter(d, i - 1, {Guide}, 1) \cup WaitingFor(d, s.policy, s.current)
           P2 == AwaitedAfter(d, i, {Guide}, 1) \cup WaitingFor(d, new.policy, new.current)
           q == node[d].queue
<1>0. /\ i \in Nat /\ i >= 1 /\ (e.code # Lost => e.press \in Nat) /\ Tells(d, s, e, new) /\ ReadTypes(d, new)
      /\ \A j \in DOMAIN q : i < j => i - 1 < j
  BY ReadStepFacts
<1>1. d \in Devices /\ i \in DOMAIN q /\ e = q[i] /\ HoldsFair(m, d, i - 1, s) /\ ReadTypes(d, s)
  BY DEF IsReadStep, ReadFair
<1>2. AwaitedAfter(d, i, {Guide}, 1) \subseteq AwaitedAfter(d, i - 1, {Guide}, 1)
  BY <1>0, AwaitedLess
<1>3. \A x \in Devices \ {d} : new.policy.device[x] = s.policy.device[x]
  BY <1>0, <1>1 DEF ReadTypes
<1>4. ASSUME NEW x \in WaitingFor(d, new.policy, new.current) PROVE x \in P
  <2>1. x \in Devices \X Nat /\ Waits(new.policy.device[x[1]])
        /\ x[2] = IF x[1] = d THEN new.current ELSE current[x[1]]
    BY <1>4 DEF WaitingFor
  <2>2. CASE x[1] # d
    <3>1. x \in WaitingFor(d, s.policy, s.current)
      BY <1>3, <2>1, <2>2 DEF WaitingFor
    <3> QED BY <3>1
  <2>3. CASE x[1] = d
    <3>1. new.policy.device[d].heldSince >= 0 /\ ~new.policy.device[d].held /\ x[2] = new.current /\ x[2] \in Nat
      BY <2>1, <2>3 DEF Waits
    <3>2. new.policy.device[d].heldSince # Never
      BY <3>1 DEF Never
    <3>3. CASE e.code = Guide /\ e.value = 1 /\ new.current = e.press
      <4>1. Has(q, Owes(d), Guide, 1, x[2]) /\ HasAfter(d, i - 1, Guide, 1, x[2])
        BY <1>0, <1>1, <3>1, <3>3 DEF Has, HasAfter
      <4>2. x \in AwaitedAfter(d, i - 1, {Guide}, 1)
        BY <2>1, <2>3, <4>1 DEF AwaitedAfter, Awaited
      <4> QED BY <4>2
    <3>4. CASE /\ new.current = s.current /\ new.policy.device[d].heldSince = s.policy.device[d].heldSince
               /\ ~new.policy.device[d].held => ~s.policy.device[d].held
      <4>1. Waits(s.policy.device[d]) /\ x[2] = s.current
        BY <3>1, <3>4 DEF Waits
      <4>2. x \in WaitingFor(d, s.policy, s.current)
        BY <2>1, <2>3, <4>1 DEF WaitingFor
      <4> QED BY <4>2
    <3> QED BY <1>0, <3>2, <3>3, <3>4 DEF Tells, TellsOf
  <2> QED BY <2>2, <2>3
<1>5. P2 \subseteq P
  BY <1>2, <1>4
<1>6. new.policy.hold = s.policy.hold
  BY <1>0 DEF Tells
<1>7. Once(s.policy.hold, out.holds, m, 1, HoldMs, P2)
  BY <1>1, <1>5 DEF HoldsFair, Once, NotTheirs
<1> QED BY <1>1, <1>6, <1>7 DEF HoldsFair

\* Timers are due in time for the event that is read.
LEMMA TimersStep ==
  ASSUME ListenInv, NEW m, OnceFor(m), NEW d, NEW i, NEW s, NEW e, NEW new, IsReadStep(m, d, i, s, e, new)
  PROVE  TimersFair(d, i, new)
<1> DEFINE q == node[d].queue
           state == s.policy.device[d]
           state2 == new.policy.device[d]
           t0 == [of |-> d, due |-> now + HoldTimerMs]
<1>0. /\ i \in Nat /\ i >= 1 /\ e.at \in Nat /\ e.at <= now /\ now <= e.at + Late /\ Tells(d, s, e, new)
      /\ \A j \in DOMAIN q : i < j => i - 1 < j
      /\ \A j \in DOMAIN q : i < j => q[j].at \in Nat /\ e.at <= q[j].at
  BY ReadStepFacts
<1>1. d \in Devices /\ i \in DOMAIN q /\ e = q[i] /\ TimersFair(d, i - 1, s)
  BY DEF IsReadStep, ReadFair
<1>2. now \in Nat /\ Late \in Nat /\ HoldTimerMs \in Nat
  BY ListenerAssumption DEF ListenInv, ListenTypes
<1>3. state2.heldSince = Never => ~(state2.heldSince >= 0)
  BY DEF Never
<1>4. \/ /\ state2.heldSince \in {e.at, Never} /\ new.timers \subseteq s.timers \cup {t0}
      \/ /\ new.timers = s.timers
         /\ state2.heldSince = Never \/ state2.heldSince = state.heldSince
  BY <1>0 DEF Tells, TellsOf
<1> HIDE DEF q, state, state2
<1>5. ASSUME NEW t \in s.timers, t.of = d PROVE DueAfter(t, d, i, state2)
  <2>1. DueAfter(t, d, i - 1, state)
    BY <1>1, <1>5 DEF TimersFair, state
  <2>2. /\ now <= t.due + Late /\ t.due <= now + HoldTimerMs
        /\ \A j \in DOMAIN q : i < j => t.due <= q[j].at + Late + HoldTimerMs
        /\ t.due <= e.at + Late + HoldTimerMs
        /\ state.heldSince >= 0 => t.due <= state.heldSince + Late + HoldTimerMs
    BY <1>0, <1>1, <2>1 DEF DueAfter, q
  <2>3. state2.heldSince >= 0 => t.due <= state2.heldSince + Late + HoldTimerMs
    BY <1>3, <1>4, <2>2
  <2> QED BY <2>2, <2>3 DEF DueAfter, q
<1>6. ASSUME state2.heldSince \in {e.at, Never} PROVE DueAfter(t0, d, i, state2)
  <2>1. t0.due = now + HoldTimerMs
    OBVIOUS
  <2> HIDE DEF t0
  <2>2. now <= t0.due + Late /\ t0.due <= now + HoldTimerMs
    BY <1>2, <2>1
  <2>3. t0.due <= e.at + Late + HoldTimerMs
    BY <1>0, <1>2, <2>1
  <2>4. \A j \in DOMAIN q : i < j => t0.due <= q[j].at + Late + HoldTimerMs
    BY <1>0, <1>2, <2>1, <2>3
  <2>5. state2.heldSince >= 0 => t0.due <= state2.heldSince + Late + HoldTimerMs
    BY <1>3, <1>6, <2>3
  <2> QED BY <2>2, <2>4, <2>5 DEF DueAfter, q
<1>7. t0.of = d
  OBVIOUS
<1> HIDE DEF t0
<1>8. ASSUME NEW t \in new.timers
      PROVE  IF t.of = d THEN DueAfter(t, d, i, state2) ELSE DueFor(t, policy.device[t.of], node[t.of].queue)
  <2>1. CASE t \in s.timers
    BY <1>1, <1>5, <2>1 DEF TimersFair
  <2>2. CASE t \notin s.timers
    <3>1. t = t0 /\ state2.heldSince \in {e.at, Never}
      BY <1>4, <1>8, <2>2
    <3> QED BY <1>6, <1>7, <3>1
  <2> QED BY <2>1, <2>2
<1> QED BY <1>8 DEF TimersFair, state2

\* What was said of is before what is queued still.
LEMMA SaidStep ==
  ASSUME ListenInv, NEW m, OnceFor(m), NEW d, NEW i, NEW s, NEW e, NEW new, IsReadStep(m, d, i, s, e, new)
  PROVE  SaidFair(d, i, new)
<1> DEFINE q == node[d].queue
           l == Owes(d)
<1>0. /\ i \in Nat /\ i >= 1 /\ (e.code # Lost => e.press \in Nat) /\ Tells(d, s, e, new)
      /\ \A j \in DOMAIN q : i < j => i - 1 < j
  BY ReadStepFacts
<1>1. d \in Devices /\ i \in DOMAIN q /\ e = q[i] /\ SaidFair(d, i - 1, s)
  BY DEF IsReadStep, ReadFair
<1>2. StreamFair(m, now, q, l, Said(d), LastGuide)
  BY <1>1, SaidType
<1>3. ASSUME NEW x \in SaidBy(d, s)
      PROVE  /\ x \in Nat /\ x <= LastGuide
             /\ \A j \in DOMAIN q : i < j => Precedes(x, q[j])
             /\ \A j \in DOMAIN l : Precedes(x, l[j])
  BY <1>0, <1>1 DEF SaidFair
<1>4. ASSUME e.code = Guide
      PROVE  /\ e.press \in Nat /\ e.press <= LastGuide
             /\ \A j \in DOMAIN q : i < j => Precedes(e.press, q[j])
             /\ \A j \in DOMAIN l : Precedes(e.press, l[j])
  <2>1. e.press \in Nat
    BY <1>0, <1>4, LostIsNoInput DEF Inputs
  <2> HIDE DEF q, l
  <2> QED BY <1>1, <1>2, <1>4, <2>1 DEF StreamFair, QueueFair, InLine, UpTo
<1>5. ASSUME NEW x \in SaidBy(d, new) PROVE x \in SaidBy(d, s) \/ (e.code = Guide /\ x = e.press)
  <2>1. CASE x = new.current
    <3>1. s.current \in SaidBy(d, s)
      BY DEF SaidBy
    <3> QED BY <1>0, <2>1, <3>1 DEF Tells, TellsOf
  <2>2. CASE \E r \in PressesRead(new) \cup out.holds : r.by = d /\ r.press = x
    <3>1. PICK r \in PressesRead(new) \cup out.holds : r.by = d /\ r.press = x
      BY <2>2
    <3>2. CASE r \in PressesRead(s) \cup out.holds
      BY <3>1, <3>2 DEF SaidBy
    <3>3. CASE r \notin PressesRead(s) \cup out.holds
      <4>1. r \in new.pressed \ s.pressed
        BY <3>1, <3>3 DEF PressesRead
      <4>2. e.code = Guide /\ r.press = e.press
        BY <1>0, <4>1 DEF Tells, TellsPress
      <4> QED BY <3>1, <4>2
    <3> QED BY <3>2, <3>3
  <2> QED BY <1>5, <2>1, <2>2 DEF SaidBy
<1> QED BY <1>3, <1>4, <1>5 DEF SaidFair

\* The press that is followed was not told of, but as a hold.
LEMMA FollowsStep ==
  ASSUME ListenInv, NEW m, OnceFor(m), NEW d, NEW i, NEW s, NEW e, NEW new, IsReadStep(m, d, i, s, e, new)
  PROVE  FollowsFair(m, d, new)
<1> DEFINE q == node[d].queue
           state == s.policy.device[d]
           state2 == new.policy.device[d]
<1>0. /\ i \in Nat /\ i >= 1 /\ Tells(d, s, e, new)
      /\ e.code # Lost => /\ e.press \in Nat /\ Key(e) \in DOMAIN m /\ m[Key(e)] \in Nat
                          /\ m[Key(e)] <= e.at /\ e.at <= m[Key(e)] + Lag
      /\ e.at \in Nat
  BY ReadStepFacts
<1>1. d \in Devices /\ i \in DOMAIN q /\ e = q[i] /\ FollowsFair(m, d, s) /\ SaidFair(d, i - 1, s)
  BY DEF IsReadStep, ReadFair
<1>2. \A x \in SaidBy(d, s) : x \in Nat /\ Precedes(x, e)
  <2>1. i - 1 < i
    BY <1>0
  <2> QED BY <1>1, <2>1 DEF SaidFair
<1>3. state2.heldSince = Never => ~(state2.heldSince >= 0)
  BY DEF Never
<1>4. /\ s.current \in SaidBy(d, s)
      /\ \A r \in PressesRead(s) \cup out.holds : r.by = d => r.press \in SaidBy(d, s)
  BY DEF SaidBy
<1>5. TellsPress(d, s, e, new) /\ TellsOf(d, s, e, new)
  BY <1>0 DEF Tells
<1>6. /\ HeldFrom(m, state, s.current)
      /\ Untold(state, s.current, d, PressesRead(s), out.holds)
      /\ Apart(PressesRead(s), out.holds)
  BY <1>1 DEF FollowsFair
<1> HIDE DEF q, state, state2
<1>7. HeldFrom(m, state2, new.current)
  <2>1. CASE e.code = Guide /\ e.value = 1 /\ new.current = e.press /\ state2.heldSince \in {e.at, Never}
    <3>1. e.code # Lost /\ Key(e) = <<e.press, 1>>
      BY <2>1, LostIsNoInput DEF Key, Inputs
    <3> QED BY <1>0, <1>3, <2>1, <3>1 DEF HeldFrom
  <2>2. CASE new.current = s.current /\ (state2.heldSince = Never \/ state2.heldSince = state.heldSince)
    BY <1>3, <1>6, <2>2 DEF HeldFrom
  <2> QED BY <1>5, <2>1, <2>2 DEF TellsOf, state, state2
<1>8. Untold(state2, new.current, d, PressesRead(new), out.holds)
  <2>1. CASE e.code = Guide /\ e.value = 1 /\ new.current = e.press /\ new.pressed = s.pressed
    <3>1. \A x \in SaidBy(d, s) : x < e.press
      BY <1>2, <2>1 DEF Precedes
    <3>2. PressesRead(new) = PressesRead(s)
      BY <2>1 DEF PressesRead
    <3> QED BY <1>4, <2>1, <3>1, <3>2 DEF Untold
  <2>2. CASE state2.heldSince = Never
    BY <1>3, <2>2 DEF Untold
  <2>3. CASE /\ new.current = s.current /\ state2.heldSince = state.heldSince /\ state2.heldSince # Never
             /\ ~state2.held => ~state.held
    <3>1. new.pressed = s.pressed
      BY <1>5, <2>3 DEF TellsPress, state2
    <3>2. PressesRead(new) = PressesRead(s)
      BY <3>1 DEF PressesRead
    <3> QED BY <1>6, <2>3, <3>2 DEF Untold
  <2> QED BY <1>5, <2>1, <2>2, <2>3 DEF TellsOf, state, state2
<1>9. Apart(PressesRead(new), out.holds)
  <2>1. CASE new.pressed = s.pressed
    BY <1>6, <2>1 DEF PressesRead
  <2>2. CASE /\ e.code = Guide /\ e.value = 0 /\ state.heldSince >= 0 /\ s.pressed \subseteq new.pressed
             /\ \A r \in new.pressed \ s.pressed : ~state.held /\ r.by = d /\ r.press = e.press
    <3>1. ASSUME NEW r \in PressesRead(new), NEW h \in out.holds, r.by = h.by PROVE r.press # h.press
      <4>1. CASE r \in PressesRead(s)
        BY <1>6, <3>1, <4>1 DEF Apart
      <4>2. CASE r \notin PressesRead(s)
        <5>1. r \in new.pressed \ s.pressed
          BY <4>2 DEF PressesRead
        <5>2. ~state.held /\ r.by = d /\ r.press = e.press
          BY <2>2, <5>1
        <5>3. h.press < s.current
          BY <1>6, <2>2, <3>1, <5>2 DEF Untold
        <5>4. s.current <= e.press /\ s.current \in Nat /\ h.press \in Nat /\ e.press \in Nat
          <6>1. s.current \in Nat /\ Precedes(s.current, e)
            BY <1>2, <1>4
          <6>2. h.press \in SaidBy(d, s)
            BY <1>4, <3>1, <5>2
          <6>3. e.code # Lost
            BY <2>2, LostIsNoInput DEF Inputs
          <6> QED BY <1>0, <1>2, <2>2, <6>1, <6>2, <6>3 DEF Precedes
        <5> QED BY <5>2, <5>3, <5>4
      <4> QED BY <4>1, <4>2
    <3> QED BY <3>1 DEF Apart
  <2> QED BY <1>5, <2>1, <2>2 DEF TellsPress, state
<1> QED BY <1>7, <1>8, <1>9 DEF FollowsFair, state2

\* One event, and the reading is as fair as it was.
LEMMA ReadStepFair ==
  ASSUME Punctual, ListenInv, NEW m, OnceFor(m), NEW d, NEW i, NEW s, NEW e, NEW new, IsReadStep(m, d, i, s, e, new)
  PROVE  ReadTypes(d, new) /\ ReadFair(m, d, i, new)
<1>1. ReadTypes(d, new)
  BY ReadStepFacts
<1>2. \A r \in new.pressed : r.by = d
  <2>1. \A r \in s.pressed : r.by = d
    BY DEF IsReadStep, ReadFair
  <2> QED BY <2>1, ReadStepFacts DEF Tells, TellsPress
<1> QED BY <1>1, <1>2, ReportsStep, HoldsStep, TimersStep, SaidStep, FollowsStep DEF ReadFair

\* read() starts from what the invariant says, with nothing told.
LEMMA ReadStarts ==
  ASSUME ListenInv, NEW m, OnceFor(m), NEW d \in Devices, NEW s, s = [Reading EXCEPT !.current = current[d]]
  PROVE  ReadTypes(d, s) /\ ReadFair(m, d, 0, s)
<1>1. /\ s.policy = policy /\ s.timers = timers /\ s.pressed = {} /\ s.captured = {} /\ s.current = current[d]
      /\ s = [policy |-> policy, timers |-> timers, pressed |-> {}, signal |-> {}, captured |-> {}, current |-> current[d]]
  BY DEF Reading
<1>2. policy \in PolicyRecord /\ timers \subseteq Timers
  BY DEF ListenInv, ListenTypes
<1>3. ReadTypes(d, s)
  BY <1>1, <1>2 DEF ReadTypes, ReadingRecord
<1>4. PressesRead(s) = out.presses /\ out.captures \cup s.captured = out.captures
  BY <1>1 DEF PressesRead
<1>5. \A C, v : AwaitedAfter(d, 0, C, v) \subseteq Awaited(C, v)
  BY DEF AwaitedAfter
<1>6. WaitingFor(d, policy, current[d]) = Waiting
  BY DEF WaitingFor, Waiting
<1>7. \A report : InTime(report) => InTimeAfter(report, d, 0)
  BY DEF InTime, InTimeAfter, NoLater
<1>8. PressesFair(m, d, 0, s) /\ ClipsFair(m, d, 0, s)
  <2>1. Once(policy.release, out.presses, m, 0, 0, AwaitedAfter(d, 0, {Guide}, 0))
    <3>1. Once(policy.release, out.presses, m, 0, 0, Awaited({Guide}, 0))
      BY DEF OnceFor, ReportsFair
    <3> QED BY <1>5, <3>1 DEF Once, NotTheirs
  <2>2. Once(policy.capture, out.captures, m, 1, 0, AwaitedAfter(d, 0, CaptureButtons, 1))
    <3>1. Once(policy.capture, out.captures, m, 1, 0, Awaited(CaptureButtons, 1))
      BY DEF OnceFor, ReportsFair
    <3> QED BY <1>5, <3>1 DEF Once, NotTheirs
  <2>3. InTime(policy.release) /\ InTime(policy.capture)
    BY DEF OnceFor, ReportsFair
  <2> QED BY <1>1, <1>4, <1>7, <2>1, <2>2, <2>3 DEF PressesFair, ClipsFair, ToldInTime
<1>9. HoldsFair(m, d, 0, s)
  <2>1. Once(policy.hold, out.holds, m, 1, HoldMs, Awaited({Guide}, 1) \cup Waiting) /\ policy.hold.at <= now
    BY DEF OnceFor, ReportsFair
  <2>2. Once(policy.hold, out.holds, m, 1, HoldMs, AwaitedAfter(d, 0, {Guide}, 1) \cup Waiting)
    <3>1. AwaitedAfter(d, 0, {Guide}, 1) \subseteq Awaited({Guide}, 1)
      BY <1>5
    <3> QED BY <2>1, <3>1 DEF Once, NotTheirs
  <2> QED BY <1>1, <1>6, <2>1, <2>2 DEF HoldsFair
<1>10. TimersFair(d, 0, s)
  <2>1. ASSUME NEW t \in timers
        PROVE  IF t.of = d THEN DueAfter(t, d, 0, policy.device[d]) ELSE DueFor(t, policy.device[t.of], node[t.of].queue)
    <3>1. DueFor(t, policy.device[t.of], node[t.of].queue)
      BY DEF OnceFor, Timely
    <3> QED BY <3>1 DEF DueFor, DueAfter
  <2> QED BY <1>1, <2>1 DEF TimersFair
<1>11. FollowsFair(m, d, s)
  BY <1>1, <1>4 DEF FollowsFair, OnceFor, Follows, Untolds
<1>12. SaidFair(d, 0, s)
  <2>1. SaidBy(d, s) = Said(d)
    BY <1>1, <1>4 DEF SaidBy, Said, ToldBy
  <2>2. Said(d) \in SUBSET Nat /\ StreamFair(m, now, node[d].queue, Owes(d), Said(d), LastGuide)
    BY SaidType
  <2> QED BY <2>1, <2>2 DEF SaidFair, StreamFair, Behind, UpTo
<1> QED BY <1>1, <1>3, <1>8, <1>9, <1>10, <1>11, <1>12 DEF ReadFair

\* The whole queue, event by event.
LEMMA ReadEnds ==
  ASSUME Punctual, ListenInv, NEW m, OnceFor(m), NEW d \in Devices, d \in policy.open,
         NEW start, ReadTypes(d, start), ReadFair(m, d, 0, start)
  PROVE  /\ ReadTypes(d, Drained(d, start, node[d].queue))
         /\ ReadFair(m, d, Len(node[d].queue), Drained(d, start, node[d].queue))
<1> DEFINE q == node[d].queue
           k == Len(q)
<1>0. q \in Seq(QueueEvent) /\ k \in Nat /\ DOMAIN q = 1 .. k
  BY SaidType
<1> HIDE DEF q
<1>2. PICK f : /\ Drained(d, start, q) = f[k] /\ f[0] = start
               /\ \A n \in 1 .. k : f[n] = ReadEvent(d, f[n - 1], q[n])
  BY <1>0, DrainedUnfold
<1> DEFINE ReadUpTo(i) == ReadTypes(d, f[i]) /\ ReadFair(m, d, i, f[i])
           Bad == {i \in 0 .. k : ~ReadUpTo(i)}
<1> HIDE DEF k
<1>3. ReadUpTo(0)
  BY <1>2
<1>4. ASSUME NEW i \in 1 .. k, ReadUpTo(i - 1) PROVE ReadUpTo(i)
  <2>1. f[i] = ReadEvent(d, f[i - 1], q[i])
    BY <1>2
  <2>2. IsReadStep(m, d, i, f[i - 1], q[i], f[i])
    BY <1>0, <1>4, <2>1 DEF IsReadStep, q
  <2> QED BY <2>2, ReadStepFair
<1> HIDE DEF ReadUpTo
<1>5. Bad = {}
  <2> SUFFICES ASSUME Bad # {} PROVE FALSE
    OBVIOUS
  <2>1. Bad \in SUBSET Nat
    BY <1>0
  <2> HIDE DEF Bad
  <2>2. PICK n \in Bad : \A o \in Bad : n <= o
    BY <2>1, LeastNatural
  <2>3. n \in 0 .. k /\ ~ReadUpTo(n)
    BY <2>2 DEF Bad
  <2>4. n \in 1 .. k /\ n - 1 \in 0 .. k
    BY <1>0, <1>3, <2>3
  <2>5. n - 1 \notin Bad
    BY <2>1, <2>2, <2>4
  <2>6. ReadUpTo(n - 1)
    BY <2>4, <2>5 DEF Bad
  <2> QED BY <1>4, <2>3, <2>4, <2>6
<1>6. ReadUpTo(k)
  <2>1. k \in 0 .. k
    BY <1>0
  <2> QED BY <1>5, <2>1
<1> QED BY <1>2, <1>6 DEF ReadUpTo, q, k

\* A trigger that is pulled already makes a chord of the press, no more.
LEMMA WatchedReports ==
  ASSUME NEW p \in PolicyRecord, NEW d \in Devices
  PROVE  LET new == Watched(p, d)
         IN  /\ new.release = p.release /\ new.hold = p.hold /\ new.capture = p.capture
             /\ new.device[d].heldSince = p.device[d].heldSince
             /\ ~new.device[d].held => ~p.device[d].held
             /\ \A x \in Devices \ {d} : new.device[x] = p.device[x]
<1> DEFINE new == Watched(p, d)
           st == p.device[d]
           after == [st EXCEPT !.chord = TRUE]
<1>1. new = p \/ new = [p EXCEPT !.device[d] = after]
  BY Zenon DEF Watched
<1>2. st \in DeviceRecord
  BY DEF PolicyRecord
<1> HIDE DEF new, st
<1>3. after \in DeviceRecord /\ after.heldSince = st.heldSince /\ after.held = st.held
  BY <1>2 DEF DeviceRecord
<1> HIDE DEF after
<1>4. CASE new = p
  <2>1. ~new.device[d].held => ~p.device[d].held
    BY <1>4, Zenon
  <2> QED BY <1>4, <2>1 DEF new
<1>5. CASE new = [p EXCEPT !.device[d] = after]
  <2>1. new.release = p.release /\ new.hold = p.hold /\ new.capture = p.capture /\ new.device[d] = after
        /\ \A x \in Devices \ {d} : new.device[x] = p.device[x]
    BY <1>5 DEF PolicyRecord
  <2>2. ~new.device[d].held => ~p.device[d].held
    BY <1>3, <2>1, Zenon DEF st
  <2>3. new.device[d].heldSince = p.device[d].heldSince
    BY <1>3, <2>1 DEF st
  <2> QED BY <2>1, <2>2, <2>3 DEF new
<1> QED BY <1>1, <1>4, <1>5

\* read(): what it told was told of no press that another node had told.
LEMMA OnceRead ==
  ASSUME Punctual, ListenInv, NEW m, OnceFor(m), NEW d \in Devices, Read(d)
  PROVE  OnceFor(m)'
<1> DEFINE start == [Reading EXCEPT !.current = current[d]]
           q == node[d].queue
           k == Len(q)
           s == Drained(d, start, q)
           p == s.policy
           new == Watched(p, d)
           after == [node[d] EXCEPT !.queue = <<>>]
           presses == out.presses \cup s.pressed
           signals == out.signals \cup s.signal
           captures == out.captures \cup s.captured
           last == s.current
<1>1. /\ table[d].gen > 0
      /\ policy' = new /\ timers' = s.timers
      /\ current' = [current EXCEPT ![d] = last]
      /\ out' = [out EXCEPT !.presses = presses, !.signals = signals, !.captures = captures]
      /\ node' = [node EXCEPT ![d] = after]
      /\ UNCHANGED <<now, pad, lagging>>
  BY Zenon DEF Read
<1>2. /\ now \in Nat /\ policy \in PolicyRecord /\ node \in [Devices -> NodeRecord]
      /\ out \in [presses : {out.presses}, signals : {out.signals}, holds : {out.holds},
                  captures : {out.captures}, early : {out.early}]
      /\ d \in policy.open
  BY <1>1 DEF ListenInv, ListenTypes, Tabled
<1>3. ReadTypes(d, s) /\ ReadFair(m, d, k, s)
  <2>1. ReadTypes(d, start) /\ ReadFair(m, d, 0, start)
    BY ReadStarts
  <2> HIDE DEF start
  <2> QED BY <1>2, <2>1, ReadEnds
<1>4. q \in Seq(QueueEvent) /\ k \in Nat /\ \A j \in DOMAIN q : ~(k < j)
  <2>1. q \in Seq(QueueEvent)
    BY SaidType
  <2> HIDE DEF q
  <2> QED BY <2>1
<1>5. after.queue = <<>>
  <2>1. node[d] \in NodeRecord
    BY <1>2
  <2> QED BY <2>1 DEF NodeRecord
<1>6. PressesRead(s) = presses
  BY DEF PressesRead
<1> HIDE DEF start, q, k, s, after
<1>7. p \in PolicyRecord /\ \A x \in Devices \ {d} : p.device[x] = policy.device[x]
  BY <1>3 DEF ReadTypes, ReadingRecord
<1> HIDE DEF p
<1>8. /\ new.release = p.release /\ new.hold = p.hold /\ new.capture = p.capture
      /\ new.device[d].heldSince = p.device[d].heldSince
      /\ ~new.device[d].held => ~p.device[d].held
      /\ \A x \in Devices \ {d} : new.device[x] = p.device[x]
  BY <1>7, WatchedReports
<1> HIDE DEF new, presses, captures, last
<1>9. out'.presses = presses /\ out'.captures = captures /\ out'.holds = out.holds
  BY <1>1, <1>2
<1>10. node'[d].queue = <<>> /\ \A x \in Devices \ {d} : node'[x] = node[x]
  BY <1>1, <1>2, <1>5
<1>11. current'[d] = last /\ (\A x \in Devices \ {d} : current'[x] = current[x]) /\ current' \in [Devices -> Nat]
  <2>1. last \in Nat
    BY <1>3 DEF ReadFair, SaidFair, SaidBy, last
  <2> QED BY <1>1, <2>1 DEF OnceFor
<1>12. LastGuide' = LastGuide /\ \A x \in Devices : Owes(x)' = Owes(x)
  BY <1>1 DEF LastGuide, Owes
<1>13. \A x \in Devices \ {d} : policy'.device[x] = policy.device[x]
  BY <1>1, <1>7, <1>8
<1>14. PressesFair(m, d, k, s) /\ ClipsFair(m, d, k, s) /\ HoldsFair(m, d, k, s) /\ TimersFair(d, k, s)
       /\ FollowsFair(m, d, s) /\ SaidFair(d, k, s) /\ \A r \in s.pressed : r.by = d
  BY <1>3 DEF ReadFair
<1>15. ASSUME NEW C, NEW v PROVE Awaited(C, v)' \subseteq AwaitedAfter(d, k, C, v)
  <2>1. ASSUME NEW x \in Awaited(C, v)' PROVE x \in AwaitedAfter(d, k, C, v)
    <3>1. x \in Devices \X Nat /\ \E c \in C : Has(node'[x[1]].queue, Owes(x[1])', c, v, x[2])
      BY <2>1 DEF Awaited
    <3>2. PICK c \in C : Has(node'[x[1]].queue, Owes(x[1])', c, v, x[2])
      BY <3>1
    <3>3. CASE x[1] # d
      <4>1. Has(node[x[1]].queue, Owes(x[1]), c, v, x[2])
        BY <1>10, <1>12, <3>1, <3>2, <3>3
      <4> QED BY <3>1, <3>3, <4>1 DEF AwaitedAfter, Awaited
    <3>4. CASE x[1] = d
      <4>1. Has(<<>>, Owes(d), c, v, x[2])
        BY <1>10, <1>12, <3>2, <3>4
      <4>2. Has(node[d].queue, Owes(d), c, v, x[2]) /\ HasAfter(d, k, c, v, x[2])
        BY <4>1 DEF Has, HasAfter
      <4> QED BY <3>1, <3>4, <4>2 DEF AwaitedAfter, Awaited
    <3> QED BY <3>3, <3>4
  <2> QED BY <2>1
<1>16. Waiting' \subseteq WaitingFor(d, p, last)
  <2>1. ASSUME NEW x \in Waiting' PROVE x \in WaitingFor(d, p, last)
    <3>1. x \in Devices \X Nat /\ Waits(policy'.device[x[1]]) /\ x[2] = current'[x[1]]
      BY <2>1 DEF Waiting
    <3>2. CASE x[1] = d
      <4>1. Waits(p.device[d])
        BY <1>1, <1>8, <3>1, <3>2 DEF Waits
      <4> QED BY <1>11, <3>1, <3>2, <4>1 DEF WaitingFor
    <3>3. CASE x[1] # d
      <4>1. Waits(p.device[x[1]])
        BY <1>7, <1>13, <3>1, <3>3
      <4> QED BY <1>11, <3>1, <3>3, <4>1 DEF WaitingFor
    <3> QED BY <3>2, <3>3
  <2> QED BY <2>1
<1>17. Streams(m)'
  <2>1. StreamFair(m, now, <<>>, Owes(d), Said(d)', LastGuide)
    <3>1. LagFair(m, now, Owes(d))
      BY SaidType DEF StreamFair
    <3>2. Said(d)' = SaidBy(d, s)
      BY <1>6, <1>9, <1>11 DEF Said, ToldBy, SaidBy, last
    <3>3. \A j \in DOMAIN Owes(d) : Owes(d)[j].code = Guide => Owes(d)[j].press <= LastGuide
      BY SaidType DEF StreamFair, UpTo
    <3>4. Behind(SaidBy(d, s), <<>>, Owes(d)) /\ UpTo(LastGuide, SaidBy(d, s), <<>>, Owes(d))
      BY <1>14, <3>3 DEF SaidFair, Behind, UpTo
    <3>5. QueueFair(m, now, <<>>) /\ InLine(<<>>, Owes(d))
      BY DEF QueueFair, InLine
    <3> QED BY <3>1, <3>2, <3>4, <3>5 DEF StreamFair
  <2>2. ASSUME NEW x \in Devices \ {d} PROVE StreamFair(m, now, node[x].queue, Owes(x), Said(x)', LastGuide)
    <3>1. Said(x)' = Said(x)
      <4>1. \A r \in presses : r.by = x => r \in out.presses
        BY <1>14 DEF presses
      <4>2. out.presses \subseteq presses
        BY DEF presses
      <4> QED BY <1>9, <1>11, <4>1, <4>2 DEF Said, ToldBy
    <3> QED BY <3>1, SaidType
  <2>3. ASSUME NEW x \in Devices PROVE StreamFair(m, now', node'[x].queue, Owes(x)', Said(x)', LastGuide')
    BY <1>1, <1>10, <1>12, <2>1, <2>2
  <2> QED BY <2>3 DEF Streams
<1>18. Dated(m)'
  BY <1>1 DEF OnceFor, Dated
<1>19. ReportsFair(m)'
  <2>1. ASSUME NEW report, NEW told, NEW C, NEW v, ToldInTime(report, told, m, v, d, k, C)
        PROVE  /\ Once(report, told, m, v, 0, Awaited(C, v)')
               /\ report.at <= now /\ \A x \in Devices : NoLater(report, node'[x].queue, x)
    <3>1. Once(report, told, m, v, 0, AwaitedAfter(d, k, C, v)) /\ InTimeAfter(report, d, k)
      BY <2>1 DEF ToldInTime
    <3>2. Once(report, told, m, v, 0, Awaited(C, v)')
      <4>1. Awaited(C, v)' \subseteq AwaitedAfter(d, k, C, v)
        BY <1>15
      <4> QED BY <3>1, <4>1 DEF Once, NotTheirs
    <3>3. report.at <= now /\ \A x \in Devices : NoLater(report, node'[x].queue, x)
      BY <1>10, <3>1 DEF InTimeAfter, NoLater
    <3> QED BY <3>2, <3>3
  <2>2. ToldInTime(p.release, presses, m, 0, d, k, {Guide}) /\ ToldInTime(p.capture, captures, m, 1, d, k, CaptureButtons)
    BY <1>6, <1>14 DEF PressesFair, ClipsFair, p, captures
  <2>3. Once(p.hold, out.holds, m, 1, HoldMs, Awaited({Guide}, 1)' \cup Waiting') /\ p.hold.at <= now
    <3>1. Once(p.hold, out.holds, m, 1, HoldMs, AwaitedAfter(d, k, {Guide}, 1) \cup WaitingFor(d, p, last)) /\ p.hold.at <= now
      BY <1>14 DEF HoldsFair, p, last
    <3>2. Awaited({Guide}, 1)' \subseteq AwaitedAfter(d, k, {Guide}, 1)
      BY <1>15
    <3> QED BY <1>16, <3>1, <3>2 DEF Once, NotTheirs
  <2>4. policy'.release = p.release /\ policy'.hold = p.hold /\ policy'.capture = p.capture
    BY <1>1, <1>8
  <2>5. /\ Once(policy'.release, out'.presses, m, 0, 0, Awaited({Guide}, 0)')
        /\ Once(policy'.capture, out'.captures, m, 1, 0, Awaited(CaptureButtons, 1)')
        /\ Once(policy'.hold, out'.holds, m, 1, HoldMs, Awaited({Guide}, 1)' \cup Waiting')
    BY <1>9, <2>1, <2>2, <2>3, <2>4
  <2>6. InTime(policy.release)' /\ InTime(policy.capture)' /\ policy'.hold.at <= now'
    BY <1>1, <2>1, <2>2, <2>3, <2>4 DEF InTime
  <2> QED BY <2>5, <2>6 DEF ReportsFair
<1>20. Timely'
  <2>1. ASSUME NEW t \in s.timers PROVE DueFor(t, policy'.device[t.of], node'[t.of].queue)
    <3>0. t.of \in Devices
      BY <1>3 DEF ReadTypes, ReadingRecord, Timers
    <3>1. CASE t.of = d
      <4>1. DueAfter(t, d, k, p.device[d])
        BY <1>14, <3>1 DEF TimersFair, p
      <4> QED BY <1>1, <1>8, <1>10, <3>1, <4>1 DEF DueAfter, DueFor
    <3>2. CASE t.of # d
      BY <1>10, <1>13, <1>14, <3>0, <3>2 DEF TimersFair
    <3> QED BY <3>1, <3>2
  <2> QED BY <1>1, <2>1 DEF Timely, DueFor
<1>21. Follows(m)'
  <2>1. HeldFrom(m, p.device[d], last)
    BY <1>14 DEF FollowsFair, p, last
  <2>2. \A x \in Devices : HeldFrom(m, policy.device[x], current[x])
    BY DEF OnceFor, Follows
  <2>3. ASSUME NEW x \in Devices PROVE HeldFrom(m, policy'.device[x], current'[x])
    <3>1. CASE x = d
      BY <1>1, <1>8, <1>11, <2>1, <3>1 DEF HeldFrom
    <3>2. CASE x # d
      BY <1>11, <1>13, <2>2, <3>2
    <3> QED BY <3>1, <3>2
  <2> QED BY <2>3 DEF Follows
<1>22. Untolds'
  <2>1. Untold(p.device[d], last, d, presses, out.holds)
    BY <1>6, <1>14 DEF FollowsFair, p, last
  <2>2. ASSUME NEW x \in Devices PROVE Untold(policy'.device[x], current'[x], x, presses, out.holds)
    <3>1. CASE x = d
      BY <1>1, <1>8, <1>11, <2>1, <3>1 DEF Untold
    <3>2. CASE x # d
      <4>1. \A r \in presses : r.by = x => r \in out.presses
        BY <1>14, <3>2 DEF presses
      <4>2. Untold(policy.device[x], current[x], x, out.presses, out.holds)
        BY DEF OnceFor, Untolds
      <4> QED BY <1>11, <1>13, <3>2, <4>1, <4>2 DEF Untold
    <3> QED BY <3>1, <3>2
  <2> QED BY <1>9, <2>2 DEF Untolds
<1>23. Apart(out'.presses, out'.holds)
  BY <1>6, <1>9, <1>14 DEF FollowsFair
<1> QED BY <1>11, <1>17, <1>18, <1>19, <1>20, <1>21, <1>22, <1>23 DEF OnceFor

\* Nothing is pressed, queued or told of at first: no press has a date.
LEMMA OnceInit == ListenerInit => \E m : OnceFor(m)
<1> SUFFICES ASSUME ListenerInit PROVE \E m : OnceFor(m)
  OBVIOUS
<1>1. PICK m : m = [k \in {} |-> 0]
  OBVIOUS
<1>2. /\ now = 0 /\ pad.downs = 0 /\ pad.down = {} /\ timers = {}
      /\ out.presses = {} /\ out.holds = {} /\ out.captures = {}
      /\ current = [d \in Devices |-> 0]
      /\ \A d \in Devices : node[d].queue = <<>> /\ Owes(d) = <<>> /\ policy.device[d].heldSince = Never
  <2>1. \A d \in Devices : node[d].queue = <<>> /\ Owes(d) = <<>>
    BY DEF ListenerInit, Owes
  <2>2. \A d \in Devices : policy.device[d].heldSince = Never
    BY DEF ListenerInit, NoPolicy, Unwatched
  <2> QED BY <2>1, <2>2 DEF ListenerInit
<1>3. policy.release = NoReport /\ policy.hold = NoReport /\ policy.capture = NoReport
  BY DEF ListenerInit, NoPolicy
<1>4. NoReport.at = Never /\ Never = -1
  BY DEF NoReport, Never
<1>5. Dated(m) /\ DOMAIN m = {}
  BY <1>1, <1>2 DEF Dated
<1>6. Streams(m)
  <2>1. LastGuide = 0
    BY <1>2 DEF LastGuide
  <2>2. ASSUME NEW d \in Devices PROVE Said(d) = {0}
    BY <1>2 DEF Said, ToldBy
  <2>3. StreamFair(m, now, <<>>, <<>>, {0}, 0)
    BY DEF StreamFair, QueueFair, LagFair, InLine, Behind, UpTo
  <2> QED BY <1>2, <2>1, <2>2, <2>3 DEF Streams
<1>7. ReportsFair(m)
  <2>1. ASSUME NEW report, NEW v, NEW off, NEW P PROVE Once(report, {}, m, v, off, P)
    BY DEF Once, Past, NotTheirs, ByOne
  <2>2. InTime(NoReport)
    BY <1>2, <1>4 DEF InTime, NoLater
  <2> QED BY <1>2, <1>3, <1>4, <2>1, <2>2 DEF ReportsFair
<1>8. Timely /\ Follows(m) /\ Untolds /\ Apart(out.presses, out.holds)
  BY <1>2, <1>4 DEF Timely, Follows, HeldFrom, Untolds, Untold, Apart
<1>9. current \in [Devices -> Nat]
  BY <1>2
<1>10. OnceFor(m)
  BY <1>5, <1>6, <1>7, <1>8, <1>9 DEF OnceFor
<1> QED BY <1>10

\* The invariant of ToldOnce: there are dates for what has happened.
OnceInv == ListenInv /\ \E m : OnceFor(m)

\* Every step of the player, the kernel and the listener.
LEMMA OnceStep ==
  ASSUME Punctual
  PROVE  OnceInv /\ [ListenerNext]_listenerVars => OnceInv'
<1> SUFFICES ASSUME OnceInv, [ListenerNext]_listenerVars PROVE OnceInv'
  OBVIOUS
<1>1. ListenInv /\ ListenInv'
  BY ListenStep DEF OnceInv
<1>2. PICK m : OnceFor(m)
  BY DEF OnceInv
<1>3. \E m2 : OnceFor(m2)'
  <2>1. CASE UNCHANGED listenerVars
    <3>1. OnceFor(m)'
      BY <1>2, <2>1, TimerOver DEF listenerVars
    <3> QED BY <3>1
  <2>2. CASE \E code \in Inputs : Input(code)
    BY <1>1, <1>2, <2>2, OnceInput
  <2>3. CASE \E d \in Mirrored : Repeat(d)
    BY <1>1, <1>2, <2>3, OnceRepeat
  <2>4. CASE \E d \in Devices : Unplug(d)
    BY <1>1, <1>2, <2>4, OnceUnplug
  <2>5. CASE \E d \in Devices : Plug(d)
    BY <1>1, <1>2, <2>5, OncePlug
  <2>6. CASE \E d \in Devices : Read(d)
    BY <1>1, <1>2, <2>6, OnceRead
  <2>7. CASE \E d \in Devices : ReadGone(d)
    BY <1>1, <1>2, <2>7, OnceReadGone
  <2>8. CASE Rescan
    BY <1>1, <1>2, <2>8, OnceRescan
  <2>9. CASE \E t \in timers : Due(t)
    BY <1>1, <1>2, <2>9, OnceDue
  <2>10. CASE Tick
    BY <1>1, <1>2, <2>10, OnceTick
  <2> QED BY <2>1, <2>2, <2>3, <2>4, <2>5, <2>6, <2>7, <2>8, <2>9, <2>10 DEF ListenerNext
<1> QED BY <1>1, <1>3 DEF OnceInv

\* GuideListener tells one press of the player's once, as a press, a hold
\* or a clip, whichever of the nodes it reaches tell of it and in any
\* order (GuidePress.h:14-17), and what a node told as a hold it does not
\* tell as a press (19-20): if the listener and what repeats the events
\* are Punctual.
THEOREM ToldOnceHolds ==
  ASSUME Punctual
  PROVE  ListenerSpec => []ToldOnce
<1>1. OnceInv => ToldOnce
  <2> SUFFICES ASSUME OnceInv PROVE ToldOnce
    OBVIOUS
  <2>1. PICK m : OnceFor(m)
    BY DEF OnceInv
  <2>2. ByOne(out.presses) /\ ByOne(out.holds) /\ ByOne(out.captures) /\ Apart(out.presses, out.holds)
    BY <2>1 DEF OnceFor, ReportsFair, Once
  <2>3. out["presses"] = out.presses /\ out["holds"] = out.holds /\ out["captures"] = out.captures
    OBVIOUS
  <2> QED BY <2>2, <2>3 DEF ToldOnce, ByOne, Apart
<1>2. ListenerInit => OnceInv
  BY ListenInit, OnceInit DEF OnceInv
<1> QED BY <1>1, <1>2, OnceStep, PTL DEF ListenerSpec
===============================================================================
