---------------------------- MODULE MachineProofs ----------------------------
\* What the application does to the machine under it (MCMachine checks the
\* same on a small one).
\*
\* Of the session journal: what it accepted outlives kills and power
\* losses, for any number of keys, operations and faults and whatever the
\* caps are, where an fsync of the file also settles the renames before
\* it.
\*
\* Of a restore of the library: its properties, for every number of games,
\* restores, recorded sessions, failures and crashes, from two inductive
\* invariants, one of the phases of a restore and one of what binds the
\* recorder's journal to the database beside it.
\*
\* Of the launch hold, for every number of windows, launches and events: a
\* hold ends with a game shown only for its own game, and one that was
\* cancelled leaves no window of its own hidden.
\*
\* Of a stop, for every number of games, processes, prefixes, sandboxes
\* and stops: only what was planned for is signalled, a stop reported as
\* done has ended all of it, and Game Mode is left through the panel only
\* when none of the games' processes that still ran then runs any more.
EXTENDS SessionJournal, BackupRecovery, LaunchHold, GameStopper, SequenceTheorems,
        WellFoundedInduction, TLAPS

\* The operations of a key among a file's frames.
Ops(f, k) == {g.op : g \in {h \in f.frames : h.key = k}}

Frames == [key : Keys, op : Nat \ {0}, size : Sizes]
Files == [kind : {"none", "log", "damaged"}, frames : SUBSET Frames, torn : BOOLEAN]

OnDisk == {file} \cup old \cup fresh

FilesOK ==
  /\ ops \in Nat
  /\ file \in Files /\ fresh \subseteq Files /\ old \subseteq Files
  /\ file.kind /= "log" => file.frames = {}
  /\ \A f \in fresh \cup old : f.kind /= "log" => f.frames = {}

\* No frame is of an operation that is still to come.
NoneAhead == \A f \in OnDisk : \A g \in f.frames : g.op <= ops

WantOK == want \in [Keys -> SUBSET Nat]

JournalInv == FilesOK /\ NoneAhead /\ WantOK /\ AcceptedSurvives

-----------------------------------------------------------------------------
\* Two files with the same operations of a key read back the same.
LEMMA SameOps ==
  ASSUME NEW f, NEW g, NEW k, Ops(f, k) = Ops(g, k)
  PROVE  Latest(f, k) = Latest(g, k)
  BY DEF Latest, Ops

\* Without a frame of the key nothing is read back.
LEMMA NoneIsAbsent ==
  ASSUME NEW f, NEW k, Ops(f, k) = {}
  PROVE  Latest(f, k) = Absent
<1>1. Latest(f, k) = Max({0})
  BY DEF Latest, Ops, Absent
<1>2. Max({0}) = 0
  BY DEF Max
<1> QED
  BY <1>1, <1>2 DEF Absent

\* An operation later than every frame is the one read back.
LEMMA NewestIsLatest ==
  ASSUME NEW f \in Files, NEW k, NEW n \in Nat \ {0}, n \in Ops(f, k),
         \A g \in f.frames : g.op <= n
  PROVE  Latest(f, k) = n
<1> DEFINE S == {Absent} \cup Ops(f, k)
<1>1. Latest(f, k) = Max(S)
  BY DEF Latest, Ops
<1>2. n \in S /\ \A m \in S : m \in Nat /\ n >= m
  BY DEF Ops, Files, Frames, Absent
<1>3. \A m \in S : (\A y \in S : m >= y) => m = n
  BY <1>2
<1> HIDE DEF S
<1>4. Max(S) = n
  BY <1>2, <1>3 DEF Max
<1> QED
  BY <1>1, <1>4

-----------------------------------------------------------------------------
\* What each rewriting of a file leaves of the operations of a key.
LEMMA EmptyOps ==
  ASSUME NEW k
  PROVE  /\ Ops(Log({}), k) = {} /\ Ops(NoFile, k) = {} /\ Ops(Damaged, k) = {}
  BY DEF Ops, Log, NoFile, Damaged

LEMMA LogFile ==
  ASSUME NEW frames \in SUBSET Frames
  PROVE  Log(frames) \in Files /\ Log(frames).frames = frames /\ Log(frames).kind = "log"
  BY DEF Log, Files

LEMMA EmptyFiles ==
  /\ Log({}) \in Files /\ Log({}).frames = {}
  /\ NoFile \in Files /\ NoFile.frames = {}
  /\ Damaged \in Files /\ Damaged.frames = {}
  BY DEF Log, NoFile, Damaged, Files

LEMMA TornFile ==
  ASSUME NEW f \in Files
  PROVE  /\ Torn(f) \in Files /\ Torn(f).frames = f.frames /\ Torn(f).kind = f.kind
         /\ \A k : Ops(Torn(f), k) = Ops(f, k)
<1>1. Torn(f) \in Files /\ Torn(f).frames = f.frames /\ Torn(f).kind = f.kind
  BY DEF Torn, Files
<1> QED
  BY <1>1 DEF Ops

\* A set of files is sound when each could be a file of this journal and
\* reads back what is wanted.
Sound(d, w, n) ==
  \A f \in {d.file} \cup d.old \cup d.fresh :
    /\ f \in Files
    /\ f.kind /= "log" => f.frames = {}
    /\ \A g \in f.frames : g.op <= n
    /\ \A k \in Keys : Latest(f, k) \in w[k]

Now == [file |-> file, fresh |-> fresh, old |-> old, ok |-> TRUE]

LEMMA InvSound == JournalInv <=> ops \in Nat /\ WantOK /\ Sound(Now, want, ops)
  BY DEF JournalInv, FilesOK, NoneAhead, AcceptedSurvives, OnDisk, Sound, Now

LEMMA NextSound ==
  ASSUME NEW d, Disk(d), ops' \in Nat, WantOK', Sound(d, want', ops')
  PROVE  JournalInv'
  BY DEF JournalInv, FilesOK, WantOK, NoneAhead, AcceptedSurvives, OnDisk, Sound, Disk

\* More is wanted and more has been done: what was sound still is.
LEMMA SoundGrows ==
  ASSUME NEW d, NEW w, NEW n \in Nat, NEW v, NEW m \in Nat, Sound(d, w, n), n <= m,
         \A k \in Keys : w[k] \subseteq v[k]
  PROVE  Sound(d, v, m)
<1>1. SUFFICES ASSUME NEW f \in {d.file} \cup d.old \cup d.fresh, NEW g \in f.frames
              PROVE  g.op <= m
  BY DEF Sound
<1>2. f \in Files /\ g.op <= n
  BY DEF Sound
<1>3. g.op \in Nat
  BY <1>2 DEF Files, Frames
<1> QED
  BY <1>2, <1>3

\* An exchange is sound when the file it writes is.
LEMMA ExchangeSound ==
  ASSUME NEW f, NEW w, NEW n, Sound(Now, w, n),
         Sound([file |-> f, fresh |-> {f}, old |-> {}, ok |-> TRUE], w, n),
         NEW d \in Exchange(f)
  PROVE  Sound(d, w, n)
  BY DEF Exchange, Sound, Now

-----------------------------------------------------------------------------
\* A file that holds an operation newer than the rest, and of the other
\* keys what the file holds now.
Holds(f, o) ==
  /\ f \in Files /\ f.kind = "log"
  /\ \A g \in f.frames : g.op <= o.op
  /\ Latest(f, o.key) = o.op
  /\ \A k \in Keys \ {o.key} : Latest(f, k) = Latest(file, k)

LEMMA NewHolds ==
  ASSUME NEW o \in Frames, JournalInv, o.op = ops + 1,
         NEW f \in Files, f.kind = "log", o \in f.frames, f.frames \subseteq file.frames \cup {o},
         \A g \in file.frames : g.key /= o.key => g \in f.frames
  PROVE  Holds(f, o)
<1>1. \A g \in f.frames : g.op <= o.op
  <2> SUFFICES ASSUME NEW g \in f.frames PROVE g.op <= o.op
    OBVIOUS
  <2>1. CASE g = o
    BY <2>1 DEF Frames
  <2>2. CASE g \in file.frames
    <3>1. g.op <= ops /\ g.op \in Nat /\ ops \in Nat
      BY <2>2 DEF JournalInv, NoneAhead, OnDisk, FilesOK, Files, Frames
    <3> QED
      BY <3>1
  <2> QED
    BY <2>1, <2>2
<1>2. Latest(f, o.key) = o.op
  <2>1. o.op \in Ops(f, o.key) /\ o.op \in Nat \ {0}
    BY DEF Ops, Frames
  <2> QED
    BY <1>1, <2>1, NewestIsLatest
<1>3. ASSUME NEW k \in Keys \ {o.key}
      PROVE  Latest(f, k) = Latest(file, k)
  <2>1. Ops(f, k) = Ops(file, k)
    BY DEF Ops
  <2> QED
    BY <2>1, SameOps
<1> QED
  BY <1>1, <1>2, <1>3 DEF Holds

\* What remains of a file when some keys are compacted away.
LEMMA CompactedReads ==
  ASSUME NEW gone, JournalInv
  PROVE  LET f == Log(Compacted(file, gone))
         IN  /\ f \in Files /\ f.kind = "log"
             /\ \A g \in f.frames : g.op <= ops
             /\ \A k : Latest(f, k) = IF k \in gone THEN Absent ELSE Latest(file, k)
<1> DEFINE f == Log(Compacted(file, gone))
<1>0. file \in Files /\ \A g \in file.frames : g.op <= ops
  BY DEF JournalInv, FilesOK, NoneAhead, OnDisk
<1>1. f \in Files /\ f.kind = "log" /\ f.frames = {g \in file.frames : g.key \notin gone}
  BY <1>0, LogFile DEF Compacted, Files
<1> HIDE DEF f
<1>2. ASSUME NEW k
      PROVE  Latest(f, k) = IF k \in gone THEN Absent ELSE Latest(file, k)
  <2>1. CASE k \in gone
    <3>1. Ops(f, k) = {}
      BY <1>1, <2>1 DEF Ops
    <3> QED
      BY <2>1, <3>1, NoneIsAbsent
  <2>2. CASE k \notin gone
    <3>1. Ops(f, k) = Ops(file, k)
      BY <1>1, <2>2 DEF Ops
    <3> QED
      BY <2>2, <3>1, SameOps
  <2> QED
    BY <2>1, <2>2
<1>3. \A g \in f.frames : g.op <= ops
  BY <1>0, <1>1
<1>4. f \in Files /\ f.kind = "log"
  BY <1>1
<1> QED
  BY <1>2, <1>3, <1>4 DEF f

-----------------------------------------------------------------------------
\* One lemma per operation.
LEMMA OpenLogKeeps ==
  ASSUME JournalInv, OpenLog
  PROVE  JournalInv'
<1> DEFINE same == [file |-> file, fresh |-> fresh, old |-> old, ok |-> TRUE]
<1>1. PICK d \in IF file.kind = "none" THEN Exchange(Log({}))
                 ELSE IF file.torn THEN Exchange(Log(file.frames))
                 ELSE {same} : Disk(d)
  BY DEF OpenLog
<1>2. UNCHANGED <<want, ops>>
  BY DEF OpenLog
<1>3. ops \in Nat /\ WantOK /\ Sound(Now, want, ops)
  BY InvSound
<1>4. file \in Files /\ (\A g \in file.frames : g.op <= ops) /\ \A k \in Keys : Latest(file, k) \in want[k]
  BY DEF JournalInv, FilesOK, NoneAhead, AcceptedSurvives, OnDisk
<1>5. Sound(d, want, ops)
  <2>1. CASE file.kind = "none"
    <3>1. \A k \in Keys : Latest(Log({}), k) = Latest(file, k)
      <4>1. file.frames = {}
        BY <2>1 DEF JournalInv, FilesOK
      <4>2. \A k : Ops(file, k) = {} /\ Ops(Log({}), k) = {}
        BY <4>1, EmptyOps DEF Ops
      <4> QED
        BY <4>2, SameOps
    <3>2. Sound([file |-> Log({}), fresh |-> {Log({})}, old |-> {}, ok |-> TRUE], want, ops)
      BY <1>4, <3>1, EmptyFiles DEF Sound
    <3> QED
      BY <1>1, <1>3, <2>1, <3>2, ExchangeSound
  <2>2. CASE file.kind /= "none" /\ file.torn
    <3> DEFINE f == Log(file.frames)
    <3>1. f \in Files /\ f.frames = file.frames /\ f.kind = "log"
      BY <1>4, LogFile DEF Files
    <3> HIDE DEF f
    <3>2. \A k : Ops(f, k) = Ops(file, k)
      BY <3>1 DEF Ops
    <3>3. \A k : Latest(f, k) = Latest(file, k)
      BY <3>2, SameOps
    <3>4. Sound([file |-> f, fresh |-> {f}, old |-> {}, ok |-> TRUE], want, ops)
      BY <1>4, <3>1, <3>3 DEF Sound
    <3>5. d \in Exchange(f)
      BY <1>1, <2>2 DEF f
    <3> QED
      BY <1>3, <3>4, <3>5, ExchangeSound
  <2>3. CASE file.kind /= "none" /\ ~file.torn
    BY <1>1, <1>3, <2>3 DEF Now
  <2> QED
    BY <2>1, <2>2, <2>3
<1> QED
  BY <1>1, <1>2, <1>3, <1>5, NextSound DEF WantOK

LEMMA OpenDamagedKeeps ==
  ASSUME JournalInv, OpenDamaged
  PROVE  JournalInv'
<1>1. UNCHANGED <<want, ops>> /\ file.kind = "damaged"
  BY DEF OpenDamaged
<1>2. ops \in Nat /\ WantOK /\ Sound(Now, want, ops)
  BY InvSound
<1>3. PICK d \in {[file |-> Log({}), fresh |-> {Log({})}, old |-> {}, ok |-> TRUE],
                  [file |-> Log({}), fresh |-> {Log({})}, old |-> old \cup fresh \cup {NoFile}, ok |-> FALSE],
                  [file |-> NoFile, fresh |-> {NoFile}, old |-> old \cup fresh, ok |-> FALSE]} : Disk(d)
  BY DEF OpenDamaged
<1>4. \A k \in Keys : Latest(Log({}), k) = Latest(file, k) /\ Latest(NoFile, k) = Latest(file, k)
  <2>1. file.frames = {}
    BY <1>1 DEF JournalInv, FilesOK
  <2>2. \A k : Ops(file, k) = {} /\ Ops(Log({}), k) = {} /\ Ops(NoFile, k) = {}
    BY <2>1, EmptyOps DEF Ops
  <2> QED
    BY <2>2, SameOps
<1>5. \A f \in {d.file} \cup d.old \cup d.fresh : f \in old \cup fresh \cup {Log({}), NoFile}
  BY <1>3
<1>6. \A k \in Keys : Latest(file, k) \in want[k]
  BY DEF JournalInv, AcceptedSurvives, OnDisk
<1>7. Sound(d, want, ops)
  BY <1>2, <1>4, <1>5, <1>6, EmptyFiles DEF Sound, Now
<1> QED
  BY <1>1, <1>2, <1>3, <1>7, NextSound DEF WantOK

LEMMA AppendKeeps ==
  ASSUME FsyncCommitsRename, JournalInv,
         NEW k \in Keys, NEW n \in Sizes, AppendOp([key |-> k, op |-> ops + 1, size |-> n])
  PROVE  JournalInv'
<1> DEFINE o == [key |-> k, op |-> ops + 1, size |-> n]
<1>0. ops \in Nat /\ WantOK /\ Sound(Now, want, ops)
  BY InvSound
<1>1. o \in Frames /\ o.op = ops + 1 /\ o.key = k
  BY <1>0 DEF Frames
<1>2. ops' = o.op /\ ops' \in Nat /\ ops <= ops' /\ file.kind = "log"
  BY <1>0 DEF AppendOp
<1>a. AppendOp(o)
  OBVIOUS
<1> HIDE DEF o
<1>3. CASE AtCap(o)
  <2>1. UNCHANGED <<file, fresh, old, want>>
    BY <1>3, <1>a DEF AppendOp
  <2>2. Disk(Now)
    BY <2>1 DEF Disk, Now
  <2>3. Sound(Now, want', ops')
    BY <1>0, <1>2, <2>1, SoundGrows
  <2> QED
    BY <1>0, <1>2, <2>1, <2>2, <2>3, NextSound DEF WantOK
<1>4. CASE ~AtCap(o)
  <2>1. PICK d \in Appends(o) :
          /\ Disk(d)
          /\ want' = [want EXCEPT ![o.key] = IF d.ok THEN {o.op}
                        ELSE IF Latest(d.file, o.key) = o.op THEN @ \cup {o.op} ELSE @]
    BY <1>4, <1>a DEF AppendOp
  <2>2. WantOK'
    BY <1>0, <1>1, <1>2, <2>1 DEF WantOK
  <2>3. file \in Files /\ \A j \in Keys : Latest(file, j) \in want[j]
    BY DEF JournalInv, FilesOK, AcceptedSurvives, OnDisk
  <2>4. want'[k] = (IF d.ok THEN {o.op} ELSE IF Latest(d.file, k) = o.op THEN want[k] \cup {o.op} ELSE want[k])
        /\ \A j \in Keys \ {k} : want'[j] = want[j]
    BY <1>0, <1>1, <2>1 DEF WantOK
  <2>5. ASSUME NEW f, Holds(f, o)
        PROVE  /\ f \in Files /\ f.kind = "log" /\ \A g \in f.frames : g.op <= ops'
               /\ \A j \in Keys : Latest(f, j) = IF j = k THEN o.op ELSE Latest(file, j)
    BY <1>1, <1>2, <2>5 DEF Holds
  <2>6. Sound(d, want', ops')
    <3>1. CASE d.ok /\ d.old = {} /\ d.fresh = {d.file} /\ Holds(d.file, o)
      BY <2>3, <2>4, <2>5, <3>1 DEF Sound
    <3>2. CASE ~d.ok /\ \A f \in {d.file} \cup d.old \cup d.fresh :
                 f \in OnDisk \/ f = Torn(file) \/ (f = d.file /\ Holds(f, o))
      <4>1. Sound(Now, want', ops')
        BY <1>0, <1>2, <2>4, <3>2, SoundGrows
      <4>2. \A j \in Keys : Latest(Torn(file), j) = Latest(file, j)
        BY <2>3, TornFile, SameOps
      <4> SUFFICES ASSUME NEW f \in {d.file} \cup d.old \cup d.fresh
                   PROVE  /\ f \in Files
                          /\ f.kind /= "log" => f.frames = {}
                          /\ \A g \in f.frames : g.op <= ops'
                          /\ \A j \in Keys : Latest(f, j) \in want'[j]
        BY DEF Sound
      <4>3. CASE f \in OnDisk
        BY <4>1, <4>3 DEF Sound, Now, OnDisk
      <4>4. CASE f = Torn(file)
        <5>1. \A g \in file.frames : g.op <= ops'
          BY <4>1 DEF Sound, Now
        <5>2. \A j \in Keys : Latest(file, j) \in want'[j]
          BY <4>1 DEF Sound, Now
        <5> QED
          BY <1>2, <2>3, <4>2, <4>4, <5>1, <5>2, TornFile
      <4>5. CASE f = d.file /\ Holds(f, o)
        BY <2>3, <2>4, <2>5, <3>2, <4>5
      <4> QED
        BY <3>2, <4>3, <4>4, <4>5
    <3>3. CASE o.key \notin journal.pending
      <4> DEFINE with == [file EXCEPT !.frames = @ \cup {o}]
      <4>1. with \in Files /\ with.kind = "log" /\ with.frames = file.frames \cup {o}
        BY <1>1, <1>2, <2>3 DEF Files
      <4>2. Holds(with, o)
        BY <1>1, <4>1, NewHolds
      <4>3. d \in AppendFrame(o)
        BY <2>1, <3>3 DEF Appends
      <4>4. \/ d = [file |-> with, fresh |-> {with}, old |-> {}, ok |-> TRUE]
            \/ d = [file |-> with, fresh |-> fresh \cup {Torn(file), with}, old |-> old, ok |-> FALSE]
            \/ d = [file |-> Torn(file), fresh |-> fresh \cup {Torn(file)}, old |-> old, ok |-> FALSE]
            \/ d = [file |-> file, fresh |-> fresh, old |-> old, ok |-> FALSE]
        BY <4>3 DEF AppendFrame, SyncedFile
      <4> HIDE DEF with
      <4>5. CASE d.ok
        BY <3>1, <4>2, <4>4, <4>5
      <4>6. CASE ~d.ok
        <5>1. d.file \in {with, Torn(file), file} /\ d.old = old
              /\ d.fresh \subseteq fresh \cup {Torn(file), d.file}
          BY <4>4, <4>6
        <5>2. ASSUME NEW h \in {d.file} \cup d.old \cup d.fresh
              PROVE  h \in OnDisk \/ h = Torn(file) \/ (h = d.file /\ Holds(h, o))
          BY <4>2, <5>1 DEF OnDisk
        <5> QED
          BY <3>2, <4>6, <5>2
      <4> QED
        BY <4>5, <4>6
    <3>4. CASE o.key \in journal.pending
      <4> DEFINE f == Log(Replaced(o))
      <4>1. f \in Files /\ f.kind = "log" /\ f.frames = {g \in file.frames : g.key /= o.key} \cup {o}
        BY <1>1, <2>3, LogFile DEF Replaced, Files
      <4>2. Holds(f, o)
        BY <1>1, <4>1, NewHolds
      <4>3. d \in Exchange(f)
        BY <2>1, <3>4 DEF Appends
      <4> HIDE DEF f
      <4>4. \/ d = [file |-> f, fresh |-> {f}, old |-> {}, ok |-> TRUE]
            \/ d = [file |-> file, fresh |-> fresh, old |-> old, ok |-> FALSE]
            \/ d = [file |-> f, fresh |-> {f}, old |-> old \cup fresh, ok |-> FALSE]
        BY <4>3 DEF Exchange
      <4>5. CASE d.ok
        BY <3>1, <4>2, <4>4, <4>5
      <4>6. CASE ~d.ok
        <5>1. d.file \in {f, file} /\ d.old \cup d.fresh \subseteq old \cup fresh \cup {d.file}
          BY <4>4, <4>6
        <5>2. ASSUME NEW h \in {d.file} \cup d.old \cup d.fresh
              PROVE  h \in OnDisk \/ h = Torn(file) \/ (h = d.file /\ Holds(h, o))
          BY <4>2, <5>1 DEF OnDisk
        <5> QED
          BY <3>2, <4>6, <5>2
      <4> QED
        BY <4>5, <4>6
    <3> QED
      BY <3>3, <3>4
  <2> QED
    BY <1>2, <2>1, <2>2, <2>6, NextSound
<1> QED
  BY <1>3, <1>4

LEMMA CompactKeeps ==
  ASSUME JournalInv, NEW gone \in SUBSET Keys, Compact(gone)
  PROVE  JournalInv'
<1> DEFINE f == Log(Compacted(file, gone))
<1>0. ops \in Nat /\ WantOK /\ Sound(Now, want, ops) /\ ops' = ops
  BY InvSound DEF Compact
<1>1. /\ f \in Files /\ f.kind = "log" /\ \A g \in f.frames : g.op <= ops
      /\ \A k : Latest(f, k) = IF k \in gone THEN Absent ELSE Latest(file, k)
  BY CompactedReads
<1>2. PICK d \in Exchange(f) :
        /\ Disk(d)
        /\ want' = [k \in Keys |-> IF k \notin gone THEN want[k]
                                   ELSE IF d.ok THEN {Absent}
                                   ELSE IF Latest(d.file, k) = Absent THEN want[k] \cup {Absent} ELSE want[k]]
  BY DEF Compact
<1> HIDE DEF f
<1>3. \/ d = [file |-> f, fresh |-> {f}, old |-> {}, ok |-> TRUE]
      \/ d = [file |-> file, fresh |-> fresh, old |-> old, ok |-> FALSE]
      \/ d = [file |-> f, fresh |-> {f}, old |-> old \cup fresh, ok |-> FALSE]
  BY <1>2 DEF Exchange
<1>4. WantOK'
  BY <1>0, <1>2 DEF WantOK, Absent
<1>5. \A k \in Keys : Latest(file, k) \in want[k]
  BY DEF JournalInv, AcceptedSurvives, OnDisk
<1>6. Sound(d, want', ops')
  <2>1. CASE d = [file |-> f, fresh |-> {f}, old |-> {}, ok |-> TRUE]
    <3>1. \A k \in Keys : Latest(f, k) \in want'[k]
      BY <1>1, <1>2, <1>5, <2>1
    <3> QED
      BY <1>0, <1>1, <2>1, <3>1 DEF Sound
  <2>2. CASE ~d.ok
    <3>1. Sound(Now, want', ops')
      BY <1>0, <1>2, <2>2, SoundGrows
    <3>2. CASE d.file = f
      <4>1. \A k \in Keys : Latest(f, k) \in want'[k]
        BY <1>1, <1>2, <1>5, <2>2, <3>2
      <4> QED
        BY <1>0, <1>1, <1>3, <2>2, <3>1, <3>2, <4>1 DEF Sound, Now
    <3>3. CASE d = [file |-> file, fresh |-> fresh, old |-> old, ok |-> FALSE]
      BY <3>1, <3>3 DEF Sound, Now
    <3> QED
      BY <1>3, <2>2, <3>2, <3>3
  <2> QED
    BY <1>3, <2>1, <2>2
<1> QED
  BY <1>0, <1>2, <1>4, <1>6, NextSound

LEMMA FaultsKeep ==
  ASSUME JournalInv, Kill \/ PowerLoss \/ Damage
  PROVE  JournalInv'
<1>1. CASE Kill
  BY <1>1 DEF Kill, JournalInv, FilesOK, NoneAhead, WantOK, AcceptedSurvives, OnDisk
<1>2. CASE PowerLoss
  BY <1>2 DEF PowerLoss, JournalInv, FilesOK, NoneAhead, WantOK, AcceptedSurvives, OnDisk
<1>3. CASE Damage
  <2>1. \A k : Latest(Damaged, k) = Absent
    BY EmptyOps, NoneIsAbsent
  <2> QED
    BY <1>3, <2>1, EmptyFiles
    DEF Damage, JournalInv, FilesOK, NoneAhead, WantOK, AcceptedSurvives, OnDisk, Absent
<1> QED
  BY <1>1, <1>2, <1>3

-----------------------------------------------------------------------------
\* Whatever append() accepted is read back after any kill or power loss,
\* for all keys, caps and faults; the fsync of the file must commit the
\* renames that came before it.
THEOREM AcceptedSurvivesHolds ==
  FsyncCommitsRename => (JournalSpec => []AcceptedSurvives)
<1> SUFFICES ASSUME FsyncCommitsRename PROVE JournalSpec => []AcceptedSurvives
  OBVIOUS
<1>1. JournalInit => JournalInv
  <2>1. \A k : Latest(NoFile, k) = Absent
    BY EmptyOps, NoneIsAbsent
  <2> QED
    BY <2>1, EmptyFiles
    DEF JournalInit, JournalInv, FilesOK, NoneAhead, WantOK, AcceptedSurvives, OnDisk, Absent
<1>2. JournalInv /\ [JournalNext]_journalVars => JournalInv'
  <2> SUFFICES ASSUME JournalInv, [JournalNext]_journalVars PROVE JournalInv'
    OBVIOUS
  <2>1. CASE UNCHANGED journalVars
    BY <2>1 DEF journalVars, JournalInv, FilesOK, NoneAhead, WantOK, AcceptedSurvives, OnDisk
  <2>2. CASE JournalNext
    BY <2>2, OpenLogKeeps, OpenDamagedKeeps, AppendKeeps, CompactKeeps, FaultsKeep DEF JournalNext
  <2> QED
    BY <2>1, <2>2
<1>3. JournalInv => AcceptedSurvives
  BY DEF JournalInv
<1> QED
  BY <1>1, <1>2, <1>3, PTL DEF JournalSpec

-------------------------------------------------------------------------------

Sessions == [game : Games, from : {"recorder", "local", "archive"}, n : Nat]
ChoiceSets == SUBSET {"mine", "archive"}
Settings == {"mine", "absent", "archive", "merged"}
Copies == [history : SUBSET Sessions, choices : ChoiceSets, settings : Settings]
Phases == {"none", "queued", "prepared", "undoing", "complete", "reverted"}

PastDatabase == {"empty journal", "bind journal", "settings", "finish"}
Applying == {"undoing", "database"} \cup PastDatabase
Trying == {"begin", "gate", "capture", "prepare"}

Restores == [phase : Phases, mode : Modes, before : Copies]
Databases == [history : SUBSET Sessions, choices : ChoiceSets, incarnation : Nat \ {0}, owner : Nat]
Operations == [session : Sessions, incarnation : Nat]
Journals == [ops : SUBSET Operations, owner : Nat]
Recorders == [on : BOOLEAN, incarnation : Nat]
Apps == [at : {"library", "off"} \cup Trying \cup Applying, undo : BOOLEAN, copy : Copies]
Histories == [choices : ChoiceSets, settings : Settings, replaced : SUBSET Sessions]
Counts == [plays : Nat, restores : Nat, faults : Nat]

RestoreTypes ==
  /\ active \in Restores /\ db \in Databases /\ settings \in Settings
  /\ pending \in Journals /\ recorder \in Recorders /\ app \in Apps
  /\ seen \in Histories /\ count \in Counts

\* Where the start is says how far the phase on disk has come.
PhaseOfPlace ==
  /\ app.at \in {"begin", "gate"} => active.phase \in {"queued", "prepared", "undoing"}
  /\ app.at \in {"capture", "prepare"} => active.phase = "queued" /\ ~app.undo
  /\ app.at \in Applying => active.phase \in {"prepared", "undoing"}
  /\ app.at \in Applying \ {"undoing"} /\ app.undo => active.phase = "undoing"

\* Until the recovery copy is recorded, nothing has been applied.
NothingApplied ==
  /\ active.phase = "queued" /\ app.at \in Trying =>
       db.choices = seen.choices /\ settings = seen.settings /\ seen.replaced = {}
  /\ app.at = "prepare" => app.copy.choices = seen.choices /\ app.copy.settings = seen.settings

\* What has been applied when the database's part, or all, is done.
DatabaseDone == active.phase = "complete" \/ (active.phase = "prepared" /\ app.at \in PastDatabase)
AllDone == active.phase = "complete" \/ (active.phase = "prepared" /\ app.at = "finish")
DatabaseUndone == active.phase = "reverted" \/ (active.phase = "undoing" /\ app.at \in PastDatabase)
AllUndone == active.phase = "reverted" \/ (active.phase = "undoing" /\ app.at = "finish")

AppliedSoFar ==
  /\ DatabaseDone => "archive" \in db.choices /\ (active.mode = "replace" => "mine" \notin db.choices)
  /\ AllDone => settings \in {"archive", "merged"} /\ (active.mode = "replace" => settings = "archive")
  /\ DatabaseUndone => db.choices = seen.choices
  /\ AllUndone => settings = seen.settings

PhaseInv == RestoreTypes /\ PhaseOfPlace /\ NothingApplied /\ CopyIsOfBefore /\ AppliedSoFar

-----------------------------------------------------------------------------
\* Sessions of the archive are none of the recorder's.
LEMMA ArchiveType == Archive \subseteq Sessions /\ \A s \in Archive : s.from = "archive"
BY DEF Archive, Sessions

\* A session the recorder has recorded.
LEMMA SessionType ==
  ASSUME NEW g \in Games, NEW n \in Nat
  PROVE  Session(g, n) \in Sessions /\ Session(g, n).from = "recorder" /\ Session(g, n).n = n
BY DEF Session, Sessions

\* The types hold at the start.
LEMMA TypesInit == RecoveryInit => RestoreTypes
<1> SUFFICES ASSUME RecoveryInit PROVE RestoreTypes
  OBVIOUS
<1>1. Local \in Sessions
  BY RecoveryAssumption DEF Local, Sessions
<1>2. NoCopy \in Copies
  BY DEF NoCopy, Copies, ChoiceSets, Settings
<1>3. active \in Restores /\ app \in Apps
  BY <1>2 DEF RecoveryInit, NoRestore, Restores, Phases, Modes, Apps
<1>4. db \in Databases /\ pending \in Journals /\ recorder \in Recorders
  BY <1>1 DEF RecoveryInit, Databases, Journals, Recorders, ChoiceSets, Unknown
<1>5. settings \in Settings /\ seen \in Histories /\ count \in Counts
  BY DEF RecoveryInit, Settings, Histories, ChoiceSets, Counts
<1> QED BY <1>3, <1>4, <1>5 DEF RestoreTypes

\* The journal takes one more operation.
LEMMA JournalTakes ==
  ASSUME pending \in Journals, NEW t \in Sessions, NEW i \in Nat
  PROVE  [pending EXCEPT !.ops = @ \cup {[session |-> t, incarnation |-> i]}] \in Journals
<1>1. [session |-> t, incarnation |-> i] \in Operations
  BY DEF Operations
<1> QED BY <1>1 DEF Journals

\* The types are preserved, one step per action.
LEMMA TypesNext == RestoreTypes /\ [RecoveryNext]_recoveryVars => RestoreTypes'
<1> SUFFICES ASSUME RestoreTypes, [RecoveryNext]_recoveryVars PROVE RestoreTypes'
  OBVIOUS
<1> USE DEF RestoreTypes
<1>1. NoCopy \in Copies
  BY DEF NoCopy, Copies, ChoiceSets, Settings
<1>2. ASSUME NEW md \in Modes, Stage(md) PROVE RestoreTypes'
  BY <1>1, <1>2 DEF Stage, Restores, Phases, Counts
<1>3. CASE Quit \/ Retry \/ Undo \/ Fail \/ Crash
  <2>1. app' \in Apps
    <3>1. CASE app' = [at |-> "off", undo |-> FALSE, copy |-> NoCopy]
      BY <1>1, <3>1 DEF Apps
    <3>2. CASE app' = [at |-> "gate", undo |-> FALSE, copy |-> NoCopy]
      BY <1>1, <3>2 DEF Apps, Trying
    <3>3. CASE Retry \/ Undo
      BY <3>3 DEF Retry, Undo, Apps, Trying
    <3> QED BY <1>3, <3>1, <3>2, <3>3 DEF Quit, Fail, Crash
  <2>2. count' \in Counts /\ UNCHANGED <<active, db, settings, pending, recorder, seen>>
    BY <1>3 DEF Quit, Retry, Undo, Fail, Crash, Counts
  <2> QED BY <2>1, <2>2
<1>4. CASE Start
  <2>1. app' \in Apps
    BY <1>1, <1>4 DEF Start, Apps, Trying
  <2>2. seen' \in Histories
    BY <1>4 DEF Start, Histories, Databases
  <2> QED BY <1>4, <2>1, <2>2 DEF Start
<1>5. CASE Begin \/ WriteUndoing \/ Finish
  <2>1. app' \in Apps
    BY <1>5 DEF Begin, WriteUndoing, Finish, At, Apps, Trying, Applying, PastDatabase
  <2>2. active' \in Restores
    BY <1>5 DEF Begin, WriteUndoing, Finish, Restores, Phases
  <2> QED BY <1>5, <2>1, <2>2 DEF Begin, WriteUndoing, Finish
<1>6. CASE Capture
  <2>1. app' \in Apps
    BY <1>6 DEF Capture, Apps, Trying, Copies, Databases
  <2> QED BY <1>6, <2>1 DEF Capture
<1>7. CASE Prepare
  <2>1. app' \in Apps
    BY <1>1, <1>7 DEF Prepare, Apps, Applying
  <2>2. active' \in Restores
    BY <1>7 DEF Prepare, Apps, Restores, Phases
  <2> QED BY <1>7, <2>1, <2>2 DEF Prepare
<1>8. CASE RestoreDatabase
  <2>1. app' \in Apps
    BY <1>8 DEF RestoreDatabase, At, Apps, Applying, PastDatabase
  <2>2. CASE ~Undoing /\ active.mode = "merge"
    <3>1. Merged(db.history) \in SUBSET Sessions /\ db.choices \cup {"archive"} \in ChoiceSets
      BY ArchiveType DEF Merged, ChoiceSets, Databases
    <3>2. db' \in Databases
      BY <1>8, <2>2, <3>1 DEF RestoreDatabase, Databases
    <3> QED BY <1>8, <2>1, <2>2, <3>2 DEF RestoreDatabase
  <2>3. CASE ~(~Undoing /\ active.mode = "merge")
    <3>1. seen' \in Histories
      <4>1. {o.session : o \in pending.ops} \in SUBSET Sessions
        BY DEF Journals, Operations
      <4> QED BY <1>8, <2>3, <4>1 DEF RestoreDatabase, Histories
    <3>2. active.before \in Copies /\ db.incarnation + 1 \in Nat \ {0}
      BY DEF Restores, Databases
    <3>3. ASSUME NEW data, data.history \in SUBSET Sessions, data.choices \in ChoiceSets
          PROVE  Exchanged(data) \in Databases
      BY <3>2, <3>3 DEF Exchanged, Databases
    <3>4. Archive \in SUBSET Sessions /\ {"archive"} \in ChoiceSets
      BY ArchiveType DEF ChoiceSets
    <3>5. /\ Exchanged(active.before) \in Databases
          /\ Exchanged([history |-> Archive, choices |-> {"archive"}]) \in Databases
      BY <3>2, <3>3, <3>4 DEF Copies
    <3>6. db' \in Databases
      BY <1>8, <2>3, <3>5 DEF RestoreDatabase
    <3> QED BY <1>8, <2>1, <2>3, <3>1, <3>6 DEF RestoreDatabase
  <2> QED BY <2>2, <2>3
<1>9. CASE EmptyJournal \/ BindJournal
  <2>1. app' \in Apps
    BY <1>9 DEF EmptyJournal, BindJournal, At, Apps, Applying, PastDatabase
  <2>2. pending' \in Journals
    BY <1>9 DEF EmptyJournal, BindJournal, Journals, Databases
  <2> QED BY <1>9, <2>1, <2>2 DEF EmptyJournal, BindJournal
<1>10. CASE RestoreSettings
  <2>1. app' \in Apps
    BY <1>10 DEF RestoreSettings, At, Apps, Applying, PastDatabase
  <2>2. settings' \in Settings
    BY <1>10 DEF RestoreSettings, Applied, Restores, Copies, Settings
  <2> QED BY <1>10, <2>1, <2>2 DEF RestoreSettings
<1>11. CASE StartRecorder \/ StopRecorder \/ Resolve
  <2>1. recorder' \in Recorders
    <3>1. db.incarnation \in Nat /\ Unknown \in Nat
      BY DEF Databases, Unknown
    <3>2. CASE StartRecorder
      BY <3>1, <3>2 DEF StartRecorder, Recorders
    <3>3. CASE StopRecorder
      BY <3>1, <3>3 DEF StopRecorder, Recorders
    <3>4. CASE Resolve
      BY <3>1, <3>4 DEF Resolve, Recorders
    <3> QED BY <1>11, <3>2, <3>3, <3>4
  <2>2. pending' \in Journals
    BY <1>11 DEF StartRecorder, StopRecorder, Resolve, Bound, Journals, Databases
  <2> QED BY <1>11, <2>1, <2>2 DEF StartRecorder, StopRecorder, Resolve
<1>12. ASSUME NEW g \in Games, Record(g) PROVE RestoreTypes'
  <2> DEFINE s == Session(g, count.plays + 1)
  <2>1. s \in Sessions
    BY SessionType DEF Counts
  <2>2. count' \in Counts
    BY <1>12 DEF Record, Counts
  <2>3. CASE db' = [db EXCEPT !.history = @ \cup {s}] /\ UNCHANGED <<pending, recorder>>
    <3> HIDE DEF s
    <3>1. db' \in Databases
      BY <2>1, <2>3 DEF Databases
    <3> QED BY <1>12, <2>2, <2>3, <3>1 DEF Record
  <2>4. ASSUME NEW i \in {db.incarnation, recorder.incarnation},
               pending' = [pending EXCEPT !.ops = @ \cup {[session |-> s, incarnation |-> i]}],
               recorder' = [recorder EXCEPT !.incarnation = i], db' = db
        PROVE  RestoreTypes'
    <3> HIDE DEF s
    <3>1. i \in Nat
      BY DEF Databases, Recorders
    <3>2. recorder' \in Recorders
      BY <2>4, <3>1 DEF Recorders
    <3>3. pending' \in Journals
      BY <2>1, <2>4, <3>1, JournalTakes
    <3> QED BY <1>12, <2>2, <2>4, <3>2, <3>3 DEF Record
  <2> QED BY <1>12, <2>3, <2>4 DEF Record
<1>13. CASE Replay
  <2>1. PICK o \in pending.ops :
          /\ db' = IF Current(o) THEN [db EXCEPT !.history = @ \cup {o.session}] ELSE db
          /\ pending' = [pending EXCEPT !.ops = @ \ {o}]
    BY <1>13 DEF Replay
  <2>2. o.session \in Sessions
    BY DEF Journals, Operations
  <2>3. db' \in Databases
    BY <2>1, <2>2 DEF Databases
  <2>4. pending' \in Journals
    BY <2>1 DEF Journals
  <2> QED BY <1>13, <2>3, <2>4 DEF Replay
<1>14. CASE UNCHANGED recoveryVars
  BY <1>14 DEF recoveryVars
<1> QED
  <2> HIDE DEF RestoreTypes
  <2> QED BY <1>2, <1>3, <1>4, <1>5, <1>6, <1>7, <1>8, <1>9, <1>10, <1>11, <1>12, <1>13, <1>14 DEF RecoveryNext

-----------------------------------------------------------------------------
\* No restore is on at the start.
LEMMA PhaseInit == RecoveryInit => PhaseInv
<1> SUFFICES ASSUME RecoveryInit PROVE PhaseInv
  OBVIOUS
<1>1. PhaseOfPlace /\ NothingApplied /\ CopyIsOfBefore /\ AppliedSoFar
  BY DEF RecoveryInit, NoRestore, PhaseOfPlace, NothingApplied, CopyIsOfBefore, AppliedSoFar,
         DatabaseDone, AllDone, DatabaseUndone, AllUndone, Applying, PastDatabase, Trying
<1> QED BY <1>1, TypesInit DEF PhaseInv

\* The phases are preserved: a phase is written after what it says was
\* done, and a restart goes on from the phase alone.
LEMMA PhaseNext == PhaseInv /\ [RecoveryNext]_recoveryVars => PhaseInv'
<1> SUFFICES ASSUME PhaseInv, [RecoveryNext]_recoveryVars PROVE PhaseInv'
  OBVIOUS
<1> DEFINE Rest == PhaseOfPlace /\ NothingApplied /\ CopyIsOfBefore /\ AppliedSoFar
<1>0. RestoreTypes /\ RestoreTypes'
  BY TypesNext DEF PhaseInv
<1> SUFFICES Rest'
  BY <1>0 DEF PhaseInv
<1> USE DEF PhaseInv, PhaseOfPlace, NothingApplied, CopyIsOfBefore, AppliedSoFar,
            DatabaseDone, AllDone, DatabaseUndone, AllUndone, Applying, PastDatabase, Trying
<1>1. ASSUME NEW md \in Modes, Stage(md) PROVE Rest'
  <2>1. active'.phase = "queued" /\ app'.at = "library"
    BY <1>1 DEF Stage
  <2> QED BY <2>1
<1>2. CASE Quit \/ Fail \/ Crash
  <2>1. app.at \in {"library", "off"} \cup Trying \cup Applying
    BY <1>0 DEF RestoreTypes, Apps
  <2>2. /\ app'.at = "off" \/ (app'.at = "gate" /\ app.at \notin {"library", "off"})
        /\ UNCHANGED <<active, db, settings, seen>>
    <3>1. CASE Quit \/ Crash
      <4>1. app' = [at |-> "off", undo |-> FALSE, copy |-> NoCopy] /\ UNCHANGED <<active, db, settings, seen>>
        BY <3>1 DEF Quit, Crash
      <4> QED BY <4>1
    <3>2. CASE Fail
      <4>1. /\ app' = [at |-> "gate", undo |-> FALSE, copy |-> NoCopy] /\ UNCHANGED <<active, db, settings, seen>>
            /\ app.at \notin {"library", "off"}
        BY <3>2 DEF Fail
      <4> QED BY <4>1
    <3> QED BY <1>2, <3>1, <3>2
  <2>3. app'.at = "gate" => active.phase \in {"queued", "prepared", "undoing"}
    BY <2>1, <2>2
  <2> QED BY <2>1, <2>2, <2>3
<1>3. CASE Start
  <2>1. seen' = IF active.phase # "queued" THEN seen
                ELSE [seen EXCEPT !.choices = db.choices, !.settings = settings, !.replaced = {}]
    BY <1>3 DEF Start
  <2>2. active.phase = "queued" =>
          seen'.choices = db.choices /\ seen'.settings = settings /\ seen'.replaced = {}
    BY <1>0, <2>1 DEF RestoreTypes, Histories
  <2>3. /\ app'.at = IF Ends(active.phase) THEN "library" ELSE "begin"
        /\ UNCHANGED <<active, db, settings>>
    BY <1>3 DEF Start
  <2>4. active.phase \in Phases
    BY <1>0 DEF RestoreTypes, Restores
  <2> QED BY <2>1, <2>2, <2>3, <2>4 DEF Ends, Phases
<1>4. CASE Retry \/ Undo
  <2>1. app'.at = "begin" /\ UNCHANGED <<active, db, settings, seen>> /\ app.at = "gate"
    BY <1>0, <1>4 DEF Retry, Undo, RestoreTypes, Apps
  <2> QED BY <2>1
<1>5. CASE Begin
  <2>1. CASE active.phase = "queued" /\ app.undo
    <3>1. app' = [app EXCEPT !.at = "library"] /\ active' = [active EXCEPT !.phase = "reverted"]
      BY <1>5, <2>1 DEF Begin, At
    <3>2. app'.at = "library" /\ active'.phase = "reverted"
      BY <1>0, <3>1 DEF RestoreTypes, Apps, Restores
    <3> QED BY <1>5, <2>1, <3>2 DEF Begin
  <2>2. CASE ~(active.phase = "queued" /\ app.undo)
    <3>1. /\ app'.at = IF active.phase = "queued" THEN "capture" ELSE IF Undoing THEN "undoing" ELSE "database"
          /\ app'.undo = app.undo /\ UNCHANGED <<active, db, settings, seen>> /\ app.at = "begin"
      BY <1>0, <1>5, <2>2 DEF Begin, At, RestoreTypes, Apps
    <3>2. Undoing <=> app.undo \/ active.phase = "undoing"
      BY DEF Undoing
    <3> QED BY <2>2, <3>1, <3>2
  <2> QED BY <2>1, <2>2
<1>6. CASE Capture
  <2>1. /\ app'.at = "prepare" /\ app.at = "capture" /\ app'.undo = app.undo
        /\ app'.copy.choices = db.choices /\ app'.copy.settings = settings
    BY <1>0, <1>6 DEF Capture, RestoreTypes, Apps
  <2> QED BY <1>6, <2>1 DEF Capture
<1>7. CASE Prepare
  <2>1. app'.at = "database" /\ app.at = "prepare" /\ app'.undo = app.undo
    BY <1>0, <1>7 DEF Prepare, RestoreTypes, Apps
  <2>2. active'.phase = "prepared" /\ active'.before = app.copy /\ active'.mode = active.mode
    BY <1>0, <1>7 DEF Prepare, RestoreTypes, Restores
  <2> QED BY <1>7, <2>1, <2>2 DEF Prepare
<1>8. CASE WriteUndoing
  <2>1. app'.at = "database" /\ active'.phase = "undoing" /\ active'.before = active.before
    BY <1>0, <1>8 DEF WriteUndoing, At, RestoreTypes, Apps, Restores
  <2> QED BY <1>8, <2>1 DEF WriteUndoing
<1>9. CASE RestoreDatabase
  <2>1. /\ app'.at \in {"settings", "empty journal"} /\ app'.undo = app.undo /\ app.at = "database"
        /\ UNCHANGED <<active, settings>>
        /\ seen'.choices = seen.choices /\ seen'.settings = seen.settings
    BY <1>0, <1>9 DEF RestoreDatabase, At, RestoreTypes, Apps, Histories
  <2>2. CASE ~Undoing /\ active.mode = "merge"
    <3>1. db'.choices = db.choices \cup {"archive"}
      BY <1>0, <1>9, <2>2 DEF RestoreDatabase, RestoreTypes, Databases
    <3> QED BY <2>1, <2>2, <3>1 DEF Undoing
  <2>3. CASE ~Undoing /\ active.mode # "merge"
    <3>1. db'.choices = {"archive"}
      <4>1. db' = Exchanged([history |-> Archive, choices |-> {"archive"}])
        BY <1>9, <2>3 DEF RestoreDatabase
      <4> QED BY <4>1 DEF Exchanged
    <3> QED BY <2>1, <2>3, <3>1 DEF Undoing
  <2>4. CASE Undoing
    <3>1. db'.choices = active.before.choices
      <4>1. db' = Exchanged(active.before)
        BY <1>9, <2>4 DEF RestoreDatabase
      <4> QED BY <4>1 DEF Exchanged
    <3> QED BY <2>1, <2>4, <3>1 DEF Undoing
  <2> QED BY <2>2, <2>3, <2>4
<1>10. CASE EmptyJournal \/ BindJournal
  <2>1. /\ app'.at \in {"bind journal", "settings"} /\ app.at \in {"empty journal", "bind journal"}
        /\ app'.undo = app.undo /\ UNCHANGED <<active, db, settings, seen>>
    BY <1>0, <1>10 DEF EmptyJournal, BindJournal, At, RestoreTypes, Apps
  <2> QED BY <2>1
<1>11. CASE RestoreSettings
  <2>1. /\ app'.at = "finish" /\ app.at = "settings" /\ app'.undo = app.undo
        /\ UNCHANGED <<active, db, seen>>
        /\ settings' = IF Undoing THEN active.before.settings ELSE Applied(active.mode)
    BY <1>0, <1>11 DEF RestoreSettings, At, RestoreTypes, Apps
  <2> QED BY <2>1 DEF Applied, Undoing
<1>12. CASE Finish
  <2>1. /\ app'.at = "library" /\ app.at = "finish" /\ UNCHANGED <<db, settings, seen>>
        /\ active'.phase = (IF Undoing THEN "reverted" ELSE "complete")
        /\ active'.before = active.before /\ active'.mode = active.mode
    BY <1>0, <1>12 DEF Finish, At, RestoreTypes, Apps, Restores
  <2> QED BY <2>1 DEF Undoing
<1>13. CASE StartRecorder \/ StopRecorder \/ Resolve
  BY <1>13 DEF StartRecorder, StopRecorder, Resolve
<1>14. ASSUME NEW g \in Games, Record(g) PROVE Rest'
  <2>1. UNCHANGED <<active, settings, app, seen>> /\ db'.choices = db.choices
    BY <1>0, <1>14 DEF Record, RestoreTypes, Databases
  <2> QED BY <2>1
<1>15. CASE Replay
  <2>1. UNCHANGED <<active, settings, app, seen>> /\ db'.choices = db.choices
    BY <1>0, <1>15 DEF Replay, RestoreTypes, Databases
  <2> QED BY <2>1
<1>16. CASE UNCHANGED recoveryVars
  BY <1>16 DEF recoveryVars
<1> QED
  <2> HIDE DEF Rest
  <2> QED BY <1>1, <1>2, <1>3, <1>4, <1>5, <1>6, <1>7, <1>8, <1>9, <1>10, <1>11, <1>12, <1>13,
             <1>14, <1>15, <1>16 DEF RecoveryNext

\* What the phase on disk says of the database, the settings and the
\* recovery copy holds throughout, whatever crashes (BackupRecovery.cpp).
THEOREM PhaseInvariant == RecoverySpec => []PhaseInv
BY PhaseInit, PhaseNext, PTL DEF RecoverySpec

\* The recovery copy is of the library before anything was applied.
THEOREM CopyIsOfBeforeHolds == RecoverySpec => []CopyIsOfBefore
<1>1. PhaseInv => CopyIsOfBefore
  BY DEF PhaseInv
<1> QED BY <1>1, PhaseInvariant, PTL

\* The library only opens on data of one piece.
THEOREM OpensWholeHolds == RecoverySpec => OpensWhole
<1> DEFINE Whole ==
      app.at /= "library" /\ app'.at = "library" /\ active'.phase /= "none" =>
        IF active'.phase = "complete"
        THEN "archive" \in db'.choices /\ settings' \in {"archive", "merged"}
             /\ (active'.mode = "replace" => "mine" \notin db'.choices /\ settings' = "archive")
        ELSE db'.choices = seen.choices /\ settings' = seen.settings
<1>1. PhaseInv /\ [RecoveryNext]_recoveryVars => [Whole]_recoveryVars
  <2> SUFFICES ASSUME PhaseInv, [RecoveryNext]_recoveryVars,
                      app.at /= "library", app'.at = "library", active'.phase /= "none"
               PROVE  Whole
    OBVIOUS
  <2>1. PhaseInv'
    BY PhaseNext
  <2>2. active'.phase \in {"complete", "reverted"} /\ seen' = seen
    <3>0. app \in Apps
      BY DEF PhaseInv, RestoreTypes
    <3>1. Start \/ Begin \/ Finish
      <4>1. ~(Quit \/ Retry \/ Undo \/ Fail \/ Crash) /\ \A md \in Modes : ~Stage(md)
        <5>1. ~Quit /\ ~Fail /\ ~Crash /\ \A md \in Modes : ~Stage(md)
          BY DEF Quit, Fail, Crash, Stage
        <5>2. ~Retry /\ ~Undo
          BY <3>0 DEF Retry, Undo, Apps
        <5> QED BY <5>1, <5>2
      <4>2. ~(Capture \/ Prepare \/ WriteUndoing \/ RestoreDatabase \/ EmptyJournal \/ BindJournal
               \/ RestoreSettings)
        BY <3>0 DEF Capture, Prepare, WriteUndoing, RestoreDatabase, EmptyJournal, BindJournal,
                    RestoreSettings, At, Apps
      <4>3. ~(StartRecorder \/ StopRecorder \/ Replay \/ Resolve) /\ \A g \in Games : ~Record(g)
        BY DEF StartRecorder, StopRecorder, Record, Replay, Resolve
      <4> QED BY <4>1, <4>2, <4>3 DEF RecoveryNext, recoveryVars
    <3>2. CASE Start
      <4>1. Ends(active.phase) /\ active' = active
        BY <3>2 DEF Start
      <4> QED BY <3>2, <4>1 DEF Start, Ends
    <3>3. CASE Begin
      <4>1. active.phase = "queued" /\ app.undo
        BY <3>0, <3>3 DEF Begin, At, Apps
      <4> QED BY <3>3, <4>1 DEF Begin, PhaseInv, RestoreTypes, Restores
    <3>4. CASE Finish
      BY <3>4 DEF Finish, PhaseInv, RestoreTypes, Restores
    <3> QED BY <3>1, <3>2, <3>3, <3>4
  <2> QED BY <2>1, <2>2 DEF PhaseInv, AppliedSoFar, DatabaseDone, AllDone, DatabaseUndone, AllUndone
<1> QED BY <1>1, PhaseInvariant, PTL DEF RecoverySpec, OpensWhole
-----------------------------------------------------------------------------
\* While the database has been exchanged and the journal perhaps not, the
\* journal's operations are for another database.
BetweenTwo ==
  /\ active.phase \in {"prepared", "undoing"} /\ app.at \notin {"settings", "finish"}
  /\ active.mode = "replace" \/ active.phase = "undoing"

PendingSessions == {o.session : o \in pending.ops}
Stored == db.history \cup active.before.history \cup app.copy.history

\* The database's identities only grow, and the recorder knows the one of
\* now or none.
Identities ==
  /\ db.owner = db.incarnation /\ pending.owner <= db.owner
  /\ \A o \in pending.ops : o.incarnation <= db.incarnation
  /\ recorder.incarnation \in {Unknown, db.incarnation}
  /\ ~recorder.on => recorder.incarnation = Unknown

\* The lock is held for an exchange only, and shuts the recorder out.
LockedOut ==
  /\ Locked => ~recorder.on /\ (active.mode = "replace" \/ active.phase = "undoing")
  /\ app.at = "bind journal" => pending.ops = {}

\* Outside an exchange every operation counts.
Trusted == ~BetweenTwo => pending.owner = db.owner /\ \A o \in pending.ops : Current(o)

\* Those whose database was replaced do not.
StaleIsDropped == \A o \in pending.ops : o.session \in seen.replaced => ~Current(o)

\* A recorded session is in one place.
Recorded ==
  /\ \A s \in seen.replaced \cup PendingSessions : s.from = "recorder" /\ s.n <= count.plays
  /\ \A s \in Stored : s.from = "recorder" => s.n <= count.plays
  /\ (seen.replaced \cup PendingSessions) \cap Stored = {}
  /\ \A o, p \in pending.ops : o.session = p.session => o = p

BindingInv == Identities /\ LockedOut /\ Trusted /\ StaleIsDropped /\ Recorded

\* At the start the journal belongs to the only history there is.
LEMMA BindingInit == RecoveryInit => BindingInv
<1> SUFFICES ASSUME RecoveryInit PROVE BindingInv
  OBVIOUS
<1>1. /\ db.owner = 1 /\ db.incarnation = 1 /\ pending.owner = 1 /\ pending.ops = {}
      /\ recorder.incarnation = Unknown /\ app.at = "library" /\ seen.replaced = {}
  BY DEF RecoveryInit
<1>2. \A s \in Stored : s.from = "local"
  BY DEF RecoveryInit, NoRestore, NoCopy, Local, Stored
<1> QED BY <1>1, <1>2 DEF BindingInv, Identities, LockedOut, Locked, Trusted, StaleIsDropped, Recorded, PendingSessions

\* A step that leaves database, journal and recorder alone.
LEMMA BindingUntouched ==
  ASSUME BindingInv, UNCHANGED <<db, pending, recorder>>, count'.plays = count.plays,
         seen'.replaced \subseteq seen.replaced, BetweenTwo => BetweenTwo', Locked' => Locked,
         LockedOut', Stored' \subseteq Stored
  PROVE  BindingInv'
<1>1. Identities' /\ Trusted'
  BY DEF BindingInv, Identities, Trusted, Current
<1>2. StaleIsDropped'
  BY DEF BindingInv, StaleIsDropped, Current
<1>3. Recorded'
  BY DEF BindingInv, Recorded, PendingSessions
<1> QED BY <1>1, <1>2, <1>3 DEF BindingInv

\* One step per action; most leave the history and its journal alone.
LEMMA BindingNext == PhaseInv /\ BindingInv /\ [RecoveryNext]_recoveryVars => BindingInv'
<1> SUFFICES ASSUME PhaseInv, BindingInv, [RecoveryNext]_recoveryVars PROVE BindingInv'
  OBVIOUS
<1>0. RestoreTypes /\ RestoreTypes' /\ PhaseOfPlace
  BY TypesNext DEF PhaseInv
<1>a. NoCopy.history = {}
  BY DEF NoCopy
<1>1. ASSUME NEW md \in Modes, Stage(md) PROVE BindingInv'
  <2>1. /\ UNCHANGED <<db, pending, recorder, seen, app>> /\ count'.plays = count.plays
        /\ active'.phase = "queued" /\ active'.before = NoCopy /\ app.at = "library"
        /\ Ends(active.phase)
    BY <1>0, <1>1 DEF Stage, RestoreTypes, Counts
  <2>2. Stored' \subseteq Stored
    BY <1>a, <2>1 DEF Stored
  <2> QED BY <2>1, <2>2, BindingUntouched DEF BetweenTwo, Ends, Locked, LockedOut
<1>2. CASE Quit \/ Fail \/ Crash
  <2>1. /\ UNCHANGED <<active, db, pending, recorder, seen>> /\ count'.plays = count.plays
        /\ app'.at \in {"off", "gate"} /\ app'.copy = NoCopy
    <3>1. CASE Quit \/ Crash
      <4>1. app' = [at |-> "off", undo |-> FALSE, copy |-> NoCopy]
        BY <3>1 DEF Quit, Crash
      <4> QED BY <1>0, <3>1, <4>1 DEF Quit, Crash, RestoreTypes, Counts
    <3>2. CASE Fail
      <4>1. app' = [at |-> "gate", undo |-> FALSE, copy |-> NoCopy]
        BY <3>2 DEF Fail
      <4> QED BY <1>0, <3>2, <4>1 DEF Fail, RestoreTypes, Counts
    <3> QED BY <1>2, <3>1, <3>2
  <2>2. Stored' \subseteq Stored
    BY <1>a, <2>1 DEF Stored
  <2>3. BetweenTwo => BetweenTwo'
    BY <2>1 DEF BetweenTwo
  <2>4. Trusted'
    <3>1. ASSUME ~BetweenTwo' PROVE ~BetweenTwo
      BY <2>3, <3>1
    <3> QED BY <2>1, <3>1 DEF BindingInv, Trusted, Current
  <2> QED BY <2>1, <2>2, <2>3, <2>4, BindingUntouched DEF Locked, LockedOut
<1>3. CASE Start
  <2>1. /\ UNCHANGED <<active, db, pending, recorder, count>>
        /\ app'.at \in {"library", "begin"} /\ app'.copy = NoCopy /\ app.at = "off"
    BY <1>3 DEF Start
  <2>2. seen'.replaced \subseteq seen.replaced
    BY <1>0, <1>3 DEF Start, RestoreTypes, Histories
  <2>3. Stored' \subseteq Stored
    BY <1>a, <2>1 DEF Stored
  <2> QED BY <2>1, <2>2, <2>3, BindingUntouched DEF BetweenTwo, Locked, LockedOut
<1>4. CASE Retry \/ Undo
  <2>1. /\ UNCHANGED <<active, db, pending, recorder, seen, count>>
        /\ app'.at = "begin" /\ app'.copy = app.copy /\ app.at = "gate"
    BY <1>0, <1>4 DEF Retry, Undo, RestoreTypes, Apps
  <2> QED BY <2>1, BindingUntouched DEF BetweenTwo, Locked, LockedOut, Stored
<1>5. CASE Begin \/ WriteUndoing
  <2>1. /\ UNCHANGED <<db, pending, recorder, seen, count>> /\ app.at \in {"begin", "undoing"}
        /\ app'.at \in {"library", "capture", "undoing", "database"} /\ app'.copy = app.copy
        /\ active'.before = active.before /\ active'.mode = active.mode
        /\ \/ active'.phase = active.phase \/ active'.phase = "undoing"
           \/ active'.phase = "reverted" /\ active.phase = "queued"
    BY <1>0, <1>5 DEF Begin, WriteUndoing, At, RestoreTypes, Apps, Restores
  <2> QED BY <2>1, BindingUntouched DEF BetweenTwo, Locked, LockedOut, Stored
<1>6. CASE Capture
  <2>1. /\ UNCHANGED <<active, db, pending, recorder, seen, count>>
        /\ app'.at = "prepare" /\ app'.copy.history = db.history /\ app.at = "capture"
    BY <1>0, <1>6 DEF Capture, RestoreTypes, Apps
  <2> QED BY <2>1, BindingUntouched DEF BetweenTwo, Locked, LockedOut, Stored
<1>7. CASE Prepare
  <2>1. /\ UNCHANGED <<db, pending, recorder, seen, count>>
        /\ app'.at = "database" /\ app'.copy = NoCopy /\ app.at = "prepare"
    BY <1>0, <1>7 DEF Prepare, RestoreTypes, Apps
  <2>2. active'.phase = "prepared" /\ active'.before = app.copy /\ active.phase = "queued"
    BY <1>0, <1>7 DEF Prepare, RestoreTypes, Restores, PhaseOfPlace
  <2>3. Stored' \subseteq Stored
    BY <1>a, <2>1, <2>2 DEF Stored
  <2> QED BY <2>1, <2>2, <2>3, BindingUntouched DEF BetweenTwo, Locked, LockedOut
<1>8. CASE RestoreDatabase
  <2>1. /\ UNCHANGED <<active, pending, recorder, count>> /\ ~recorder.on /\ app.at = "database"
        /\ app'.copy = app.copy
    BY <1>0, <1>8 DEF RestoreDatabase, At, RestoreTypes, Apps
  <2>2. Undoing => active.phase = "undoing"
    BY <1>0, <2>1 DEF Undoing, PhaseOfPlace, Applying, PastDatabase
  <2>3. active.phase \in {"prepared", "undoing"}
    BY <1>0, <2>1 DEF PhaseOfPlace, Applying, PastDatabase
  <2>4. CASE ~Undoing /\ active.mode = "merge"
    <3>1. /\ app'.at = "settings" /\ seen' = seen
          /\ db'.history = Merged(db.history)
          /\ db'.owner = db.owner /\ db'.incarnation = db.incarnation
      BY <1>0, <1>8, <2>4 DEF RestoreDatabase, At, RestoreTypes, Apps, Databases
    <3>2. ~BetweenTwo
      BY <2>3, <2>4 DEF BetweenTwo, Undoing
    <3>3. Identities' /\ LockedOut' /\ Trusted' /\ StaleIsDropped'
      BY <2>1, <3>1, <3>2 DEF BindingInv, Identities, LockedOut, Locked, Trusted, StaleIsDropped, Current
    <3>4. Stored' \subseteq Stored \cup Archive
      BY <2>1, <3>1 DEF Stored, Merged
    <3>5. Recorded'
      BY <2>1, <3>1, <3>4, ArchiveType DEF BindingInv, Recorded, PendingSessions
    <3> QED BY <3>3, <3>5 DEF BindingInv
  <2>5. CASE ~(~Undoing /\ active.mode = "merge")
    <3>1. app'.at = "empty journal" /\ seen'.replaced = seen.replaced \cup PendingSessions
      BY <1>0, <1>8, <2>5 DEF RestoreDatabase, At, RestoreTypes, Apps, Histories, PendingSessions
    <3>2. /\ db'.incarnation = db.incarnation + 1 /\ db'.owner = db.incarnation + 1
          /\ db'.history \in {active.before.history, Archive}
      <4>1. \/ db' = Exchanged(active.before)
            \/ db' = Exchanged([history |-> Archive, choices |-> {"archive"}])
        BY <1>8, <2>5 DEF RestoreDatabase
      <4> QED BY <4>1 DEF Exchanged
    <3>3. /\ db.incarnation \in Nat \ {0} /\ pending.owner \in Nat
          /\ \A o \in pending.ops : o.incarnation \in Nat
      BY <1>0 DEF RestoreTypes, Databases, Journals, Operations
    <3>4. \A o \in pending.ops : ~Current(o)'
      BY <2>1, <3>2, <3>3 DEF BindingInv, Identities, Current, Unknown
    <3>5. Identities'
      BY <2>1, <3>2, <3>3 DEF BindingInv, Identities
    <3>6. active.mode = "replace" \/ active.phase = "undoing"
      BY <1>0, <2>2, <2>5 DEF RestoreTypes, Restores, Modes
    <3>7. LockedOut' /\ Trusted' /\ StaleIsDropped'
      BY <2>1, <2>3, <3>1, <3>4, <3>6 DEF LockedOut, Locked, Trusted, BetweenTwo, StaleIsDropped
    <3>8. Stored' \subseteq Stored \cup Archive
      BY <2>1, <3>2 DEF Stored
    <3>9. Recorded'
      BY <2>1, <3>1, <3>8, ArchiveType DEF BindingInv, Recorded, PendingSessions
    <3> QED BY <3>5, <3>7, <3>9 DEF BindingInv
  <2> QED BY <2>4, <2>5
<1>9. CASE EmptyJournal
  <2>1. /\ UNCHANGED <<active, db, recorder, seen, count>> /\ app.at = "empty journal"
        /\ app'.at = "bind journal" /\ app'.copy = app.copy
        /\ pending'.ops = {} /\ pending'.owner = pending.owner
    BY <1>0, <1>9 DEF EmptyJournal, At, RestoreTypes, Apps, Journals
  <2>2. active.phase \in {"prepared", "undoing"}
    BY <1>0, <2>1 DEF PhaseOfPlace, Applying, PastDatabase
  <2> QED BY <2>1, <2>2 DEF BindingInv, Identities, LockedOut, Locked, Trusted, BetweenTwo, StaleIsDropped,
                         Recorded, PendingSessions, Stored
<1>10. CASE BindJournal
  <2>1. /\ UNCHANGED <<active, db, recorder, seen, count>> /\ app.at = "bind journal"
        /\ app'.at = "settings" /\ app'.copy = app.copy
        /\ pending'.ops = {} /\ pending'.owner = db.owner
    BY <1>0, <1>10 DEF BindJournal, At, RestoreTypes, Apps, Journals, BindingInv, LockedOut
  <2>2. db.owner <= db.owner
    BY <1>0 DEF RestoreTypes, Databases
  <2>3. Identities' /\ LockedOut' /\ Trusted' /\ StaleIsDropped'
    BY <2>1, <2>2 DEF BindingInv, Identities, LockedOut, Locked, Trusted, StaleIsDropped
  <2>4. Recorded'
    BY <2>1 DEF BindingInv, Recorded, PendingSessions, Stored
  <2> QED BY <2>3, <2>4 DEF BindingInv
<1>11. CASE RestoreSettings
  <2>1. /\ UNCHANGED <<active, db, pending, recorder, seen, count>> /\ app.at = "settings"
        /\ app'.at = "finish" /\ app'.copy = app.copy
    BY <1>0, <1>11 DEF RestoreSettings, At, RestoreTypes, Apps
  <2> QED BY <2>1, BindingUntouched DEF BetweenTwo, Locked, LockedOut, Stored
<1>12. CASE Finish
  <2>1. /\ UNCHANGED <<db, pending, recorder, seen, count>> /\ app.at = "finish"
        /\ app'.at = "library" /\ app'.copy = app.copy /\ active'.before = active.before
    BY <1>0, <1>12 DEF Finish, At, RestoreTypes, Apps, Restores
  <2> QED BY <2>1, BindingUntouched DEF BetweenTwo, Locked, LockedOut, Stored
<1>13. CASE StartRecorder
  <2>1. /\ UNCHANGED <<active, db, app, seen, count>> /\ ~Locked
        /\ recorder'.on /\ recorder'.incarnation \in {Unknown, db.incarnation}
        /\ pending' = pending \/ (pending.ops = {} /\ pending' = [pending EXCEPT !.owner = db.owner])
    BY <1>13 DEF StartRecorder, Bound
  <2>2. pending'.ops = pending.ops /\ (pending'.owner = pending.owner \/ (pending.ops = {} /\ pending'.owner = db.owner))
    BY <1>0, <2>1 DEF RestoreTypes, Journals
  <2>3. db.owner <= db.owner
    BY <1>0 DEF RestoreTypes, Databases
  <2>4. Identities' /\ LockedOut'
    BY <2>1, <2>2, <2>3 DEF BindingInv, Identities, LockedOut, Locked
  <2>6. Trusted' /\ StaleIsDropped'
    <3>1. CASE pending' = pending
      BY <2>1, <3>1 DEF BindingInv, Trusted, BetweenTwo, StaleIsDropped, Current
    <3>2. CASE pending.ops = {} /\ pending' = [pending EXCEPT !.owner = db.owner]
      <4>1. pending'.ops = {} /\ pending'.owner = db.owner
        BY <1>0, <3>2 DEF RestoreTypes, Journals
      <4> QED BY <2>1, <4>1 DEF Trusted, StaleIsDropped
    <3> QED BY <2>1, <3>1, <3>2
  <2>5. Recorded'
    BY <2>1, <2>2 DEF BindingInv, Recorded, PendingSessions, Stored
  <2> QED BY <2>4, <2>5, <2>6 DEF BindingInv
<1>14. CASE StopRecorder
  <2>1. UNCHANGED <<active, db, pending, app, seen, count>> /\ ~recorder'.on /\ recorder'.incarnation = Unknown
    BY <1>14 DEF StopRecorder
  <2> QED BY <2>1 DEF BindingInv, Identities, LockedOut, Locked, Trusted, BetweenTwo, StaleIsDropped, Current,
                      Recorded, PendingSessions, Stored
<1>15. CASE Resolve
  <2>1. /\ UNCHANGED <<active, db, app, seen, count>> /\ recorder.on
        /\ recorder'.on = recorder.on /\ recorder'.incarnation = db.incarnation
        /\ pending.ops = {} /\ pending'.ops = {} /\ pending'.owner = db.owner
    BY <1>0, <1>15 DEF Resolve, RestoreTypes, Recorders, Journals
  <2>2. db.owner <= db.owner
    BY <1>0 DEF RestoreTypes, Databases
  <2>3. Identities' /\ LockedOut' /\ Trusted' /\ StaleIsDropped'
    BY <2>1, <2>2 DEF BindingInv, Identities, LockedOut, Locked, Trusted, StaleIsDropped
  <2>4. Recorded'
    BY <2>1 DEF BindingInv, Recorded, PendingSessions, Stored
  <2> QED BY <2>3, <2>4 DEF BindingInv
<1>16. ASSUME NEW g \in Games, Record(g) PROVE BindingInv'
  <2> DEFINE s == Session(g, count.plays + 1)
  <2>1. /\ UNCHANGED <<active, app, seen>> /\ recorder.on
        /\ count'.plays = count.plays + 1 /\ count.plays \in Nat
    BY <1>0, <1>16 DEF Record, RestoreTypes, Counts
  <2>2. s \in Sessions /\ s.from = "recorder" /\ s.n = count.plays + 1
    BY <2>1, SessionType
  <2>3. \A t \in seen.replaced \cup PendingSessions \cup Stored : t.n \in Nat
    BY <1>0 DEF RestoreTypes, Histories, Journals, Operations, Sessions, PendingSessions, Stored, Databases,
                Restores, Copies, Apps
  <2>4. s \notin seen.replaced \cup PendingSessions \cup Stored
    BY <2>1, <2>2, <2>3 DEF BindingInv, Recorded
  <2>5. CASE db' = [db EXCEPT !.history = @ \cup {s}] /\ UNCHANGED <<pending, recorder>>
    <3> HIDE DEF s
    <3>1. db'.history = db.history \cup {s} /\ db'.owner = db.owner /\ db'.incarnation = db.incarnation
      BY <1>0, <2>5 DEF RestoreTypes, Databases
    <3>2. Identities' /\ LockedOut' /\ Trusted' /\ StaleIsDropped'
      BY <2>1, <2>5, <3>1 DEF BindingInv, Identities, LockedOut, Locked, Trusted, BetweenTwo, StaleIsDropped, Current
    <3>3. Stored' = Stored \cup {s} /\ PendingSessions' = PendingSessions
      BY <2>1, <2>5, <3>1 DEF Stored, PendingSessions
    <3>4. Recorded'
      BY <2>1, <2>2, <2>3, <2>4, <2>5, <3>3 DEF BindingInv, Recorded
    <3> QED BY <3>2, <3>4 DEF BindingInv
  <2>6. ASSUME NEW i \in {db.incarnation, recorder.incarnation},
               pending' = [pending EXCEPT !.ops = @ \cup {[session |-> s, incarnation |-> i]}],
               recorder' = [recorder EXCEPT !.incarnation = i], db' = db
        PROVE  BindingInv'
    <3> DEFINE o == [session |-> s, incarnation |-> i]
    <3>1. o.session = s /\ o.incarnation = i
      OBVIOUS
    <3>2. pending'.ops = pending.ops \cup {o} /\ pending'.owner = pending.owner
      BY <1>0, <2>6 DEF RestoreTypes, Journals
    <3>3. recorder'.on = recorder.on /\ recorder'.incarnation = i
      BY <1>0, <2>6 DEF RestoreTypes, Recorders
    <3>4. i \in {Unknown, db.incarnation} /\ i <= db.incarnation
      BY <1>0 DEF BindingInv, Identities, RestoreTypes, Databases, Unknown
    <3> HIDE DEF s, o
    <3>5. Identities' /\ LockedOut'
      BY <2>1, <2>6, <3>1, <3>2, <3>3, <3>4 DEF BindingInv, Identities, LockedOut, Locked
    <3>6. ASSUME NEW q \in pending'.ops, ~BetweenTwo
          PROVE  pending'.owner = db'.owner /\ Current(q)'
      <4>1. CASE q \in pending.ops
        BY <2>6, <3>2, <3>6, <4>1 DEF BindingInv, Trusted, Current
      <4>2. CASE q = o
        BY <2>6, <3>1, <3>2, <3>4, <3>6, <4>2 DEF BindingInv, Trusted, Current
      <4> QED BY <3>2, <4>1, <4>2
    <3>7. Trusted'
      BY <2>1, <3>2, <3>6, <2>6 DEF BindingInv, Trusted, BetweenTwo
    <3>8. StaleIsDropped'
      BY <2>1, <2>4, <2>6, <3>1, <3>2 DEF BindingInv, StaleIsDropped, Current
    <3>9. Stored' = Stored /\ PendingSessions' = PendingSessions \cup {s}
      BY <2>1, <2>6, <3>1, <3>2 DEF Stored, PendingSessions
    <3>10. \A p, q \in pending'.ops : p.session = q.session => p = q
      BY <2>4, <3>1, <3>2 DEF BindingInv, Recorded, PendingSessions
    <3>11. Recorded'
      BY <2>1, <2>2, <2>3, <2>4, <3>9, <3>10 DEF BindingInv, Recorded
    <3> QED BY <3>5, <3>7, <3>8, <3>11 DEF BindingInv
  <2> QED BY <1>16, <2>5, <2>6 DEF Record
<1>17. CASE Replay
  <2>1. PICK o \in pending.ops :
          /\ db' = IF Current(o) THEN [db EXCEPT !.history = @ \cup {o.session}] ELSE db
          /\ pending' = [pending EXCEPT !.ops = @ \ {o}]
    BY <1>17 DEF Replay
  <2>2. /\ UNCHANGED <<active, recorder, app, seen, count>>
        /\ pending'.ops = pending.ops \ {o} /\ pending'.owner = pending.owner
        /\ db'.owner = db.owner /\ db'.incarnation = db.incarnation
        /\ db'.history = db.history \/ (Current(o) /\ db'.history = db.history \cup {o.session})
    BY <1>0, <1>17, <2>1 DEF Replay, RestoreTypes, Databases, Journals
  <2>3. Identities' /\ LockedOut' /\ Trusted' /\ StaleIsDropped'
    BY <2>2 DEF BindingInv, Identities, LockedOut, Locked, Trusted, BetweenTwo, StaleIsDropped, Current
  <2>4. PendingSessions' = PendingSessions \ {o.session} /\ o.session \in PendingSessions
    BY <2>2 DEF BindingInv, Recorded, PendingSessions
  <2>5. Stored' \subseteq Stored \/ (o.session \notin seen.replaced /\ Stored' \subseteq Stored \cup {o.session})
    BY <2>2 DEF BindingInv, StaleIsDropped, Stored
  <2>6. Recorded'
    BY <2>2, <2>4, <2>5 DEF BindingInv, Recorded
  <2> QED BY <2>3, <2>6 DEF BindingInv
<1>18. CASE UNCHANGED recoveryVars
  <2>1. UNCHANGED <<active, db, pending, recorder, app, seen, count>>
    BY <1>18 DEF recoveryVars
  <2> QED BY <2>1, BindingUntouched DEF BetweenTwo, Locked, LockedOut, Stored, BindingInv
<1> QED BY <1>1, <1>2, <1>3, <1>4, <1>5, <1>6, <1>7, <1>8, <1>9, <1>10, <1>11, <1>12, <1>13,
           <1>14, <1>15, <1>16, <1>17, <1>18 DEF RecoveryNext

\* What the recorder journals is for the history it opened, and whatever
\* is of another one is dropped, throughout (BackupRecovery.cpp,
\* SessionDatabase.cpp).
THEOREM BindingInvariant == RecoverySpec => [](PhaseInv /\ BindingInv)
<1>1. RecoveryInit => PhaseInv /\ BindingInv
  BY PhaseInit, BindingInit
<1>2. PhaseInv /\ BindingInv /\ [RecoveryNext]_recoveryVars => (PhaseInv /\ BindingInv)'
  BY PhaseNext, BindingNext
<1> QED BY <1>1, <1>2, PTL DEF RecoverySpec

\* Journaled work for a replaced history does not enter the restored one,
\* whatever crashes before the journal is emptied.
THEOREM ReplacedStaysOutHolds == RecoverySpec => []ReplacedStaysOut
<1>1. BindingInv => ReplacedStaysOut
  BY DEF BindingInv, Recorded, Stored, ReplacedStaysOut
<1> QED BY <1>1, BindingInvariant, PTL

\* A merge loses no session of the history and none that the recorder's
\* journal has accepted.
THEOREM MergeKeepsPlayHolds == RecoverySpec => MergeKeepsPlay
<1> DEFINE KeptPlay ==
      active.mode = "merge" /\ active.phase \in {"queued", "prepared"} /\ seen.replaced = {}
        => Held \subseteq (db.history \cup {o.session : o \in pending.ops})'
<1>1. PhaseInv /\ BindingInv /\ [RecoveryNext]_recoveryVars => KeptPlay
  <2> SUFFICES ASSUME PhaseInv, BindingInv, [RecoveryNext]_recoveryVars,
                      active.mode = "merge", active.phase \in {"queued", "prepared"}
               PROVE  Held \subseteq Held'
    BY DEF Held
  <2>1. RestoreTypes /\ PhaseOfPlace
    BY DEF PhaseInv
  <2>2. ~BetweenTwo /\ ~Locked
    BY DEF BetweenTwo, BindingInv, LockedOut
  <2>3. CASE UNCHANGED <<db, pending>>
    BY <2>3 DEF Held
  <2>4. CASE RestoreDatabase
    <3>1. ~Undoing
      BY <2>1, <2>4 DEF RestoreDatabase, Undoing, PhaseOfPlace, Applying, PastDatabase
    <3>2. db'.history = Merged(db.history) /\ pending' = pending
      BY <2>1, <2>4, <3>1 DEF RestoreDatabase, RestoreTypes, Databases
    <3> QED BY <3>2 DEF Held, Merged
  <2>5. CASE StartRecorder \/ Resolve
    <3>1. db' = db /\ pending'.ops = pending.ops
      BY <2>1, <2>5 DEF StartRecorder, Resolve, Bound, RestoreTypes, Journals
    <3> QED BY <3>1 DEF Held
  <2>6. ASSUME NEW g \in Games, Record(g) PROVE Held \subseteq Held'
    <3>1. db.history \subseteq db'.history /\ pending.ops \subseteq pending'.ops
      BY <2>1, <2>6 DEF Record, RestoreTypes, Databases, Journals
    <3> QED BY <3>1 DEF Held
  <2>7. CASE Replay
    <3>1. PICK o \in pending.ops :
            /\ db' = IF Current(o) THEN [db EXCEPT !.history = @ \cup {o.session}] ELSE db
            /\ pending' = [pending EXCEPT !.ops = @ \ {o}]
      BY <2>7 DEF Replay
    <3>2. db'.history = db.history \cup {o.session} /\ pending'.ops = pending.ops \ {o}
      BY <2>1, <2>2, <3>1 DEF BindingInv, Trusted, RestoreTypes, Databases, Journals
    <3> QED BY <3>2 DEF Held
  <2>8. ~EmptyJournal /\ ~BindJournal
    BY <2>2 DEF EmptyJournal, BindJournal, Locked
  <2> QED BY <2>3, <2>4, <2>5, <2>6, <2>7, <2>8
          DEF RecoveryNext, recoveryVars, Stage, Quit, Start, Retry, Undo, Fail, Crash, Begin, Capture,
              Prepare, WriteUndoing, RestoreSettings, Finish, StopRecorder
<1> QED BY <1>1, BindingInvariant, PTL DEF RecoverySpec, MergeKeepsPlay

-----------------------------------------------------------------------------
Endings == {"none", "Cancelled", "GameClosed", "GameShown"}
Calls == [call : {"unrule", "hide", "show", "showAllBut"}, arg : SUBSET Windows]

HoldRecord ==
  [active : BOOLEAN, launch : Nat, windows : SUBSET Windows, kept : SUBSET Windows,
   ignored : SUBSET Windows, presented : Windows \cup {NoWindow}, seen : BOOLEAN,
   timeout : BOOLEAN, grace : BOOLEAN, owed : Seq(Calls), again : BOOLEAN, ending : Endings,
   refused : BOOLEAN]

ScanRecord ==
  [at : {"none", "running", "done"}, current : BOOLEAN, ran : BOOLEAN, ok : BOOLEAN,
   windows : SUBSET Windows, game : Windows \cup {NoWindow}, owner : Nat]

WindowRecord ==
  [is : {"new", "open", "closed"}, launch : Nat, since : Nat, game : BOOLEAN, held : BOOLEAN]

HoldTypes ==
  /\ hold \in HoldRecord
  /\ scan \in ScanRecord
  /\ window \in [Windows -> WindowRecord]
  /\ rule \in BOOLEAN
  /\ steam \in BOOLEAN

\* What a listing says is for the hold that is on, or it is not read.
ListingIsOfThisHold ==
  /\ scan.current => hold.active
  /\ scan.at = "done" /\ scan.ok /\ scan.current /\ scan.game # NoWindow
       => scan.owner = hold.launch

\* A hold that is on has not ended; one that is not shows no window.
OnOrOver ==
  /\ hold.active => hold.ending = "none" /\ ~hold.again
  /\ ~hold.active => hold.presented = NoWindow

\* No window opened during a launch that is yet to come, and what the hold
\* ignores opened during an earlier one.
IgnoredIsOld ==
  /\ \A w \in Windows : window[w].since <= hold.launch
  /\ \A w \in hold.ignored : window[w].is # "new" /\ window[w].since < hold.launch

\* The calls of a cancelled hold, from the moment they are owed to the one
\* they have all been made, if none of them fails.
LettingGo ==
  hold.ending = "Cancelled" /\ ~hold.refused =>
    \/ hold.owed = <<Unrule, ShowAllBut(hold.ignored)>>
    \/ hold.owed = <<>> /\ calls = <<Unrule, ShowAllBut(hold.ignored)>>
    \/ hold.owed = <<>> /\ calls = <<ShowAllBut(hold.ignored)>> /\ ~rule
    \/ /\ hold.owed = <<>> /\ calls = <<>> /\ ~rule
       /\ \A w \in HeldNow : window[w].since < hold.launch

HoldInv == HoldTypes /\ ListingIsOfThisHold /\ OnOrOver /\ IgnoredIsOld /\ LettingGo

-----------------------------------------------------------------------------
\* The calls that are left when one or two are made.
LEMMA CallsLeft ==
  /\ \A a, b : Head(<<a, b>>) = a /\ <<a, b>> # <<>> /\ <<a>> # <<>> /\ Head(<<a>>) = a
  /\ \A a : Tail(<<a>>) = <<>>
  /\ \A a, b : Tail(<<a, b>>) = <<b>>
OBVIOUS

\* However a hold ends, what it owes are calls to the compositor.
LEMMA CallsType ==
  ASSUME NEW h \in HoldRecord, NEW ending \in Endings \ {"none"}, NEW game \in Windows \cup {NoWindow},
         ending = "GameShown" => game \in Windows
  PROVE  CallsAtEnd(h, game, ending) \in Seq(Calls)
<1>1. <<Unrule>> \in Seq(Calls)
  BY DEF Unrule, Calls
<1>2. CASE ending = "Cancelled"
  <2>1. Unrule \in Calls /\ ShowAllBut(h.ignored) \in Calls
    BY DEF Unrule, ShowAllBut, Calls, HoldRecord
  <2>2. <<Unrule, ShowAllBut(h.ignored)>> \in Seq(Calls)
    BY <2>1
  <2> QED BY <1>2, <2>2 DEF CallsAtEnd
<1>3. CASE ending = "GameClosed"
  BY <1>1, <1>3 DEF CallsAtEnd
<1>4. CASE ending = "GameShown"
  <2>1. <<Show(game)>> \in Seq(Calls)
    BY <1>4 DEF Show, Calls
  <2>2. PresentedOver(h, game, ending) \in Windows \cup {NoWindow}
    BY DEF PresentedOver, HoldRecord
  <2>3. HideIfAny(PresentedOver(h, game, ending)) \in Seq(Calls)
    <3>1. CASE PresentedOver(h, game, ending) = NoWindow
      BY <3>1 DEF HideIfAny
    <3>2. CASE PresentedOver(h, game, ending) \in Windows
      <4>1. Hide(PresentedOver(h, game, ending)) \in Calls
        BY <3>2 DEF Hide, Calls
      <4>2. <<Hide(PresentedOver(h, game, ending))>> \in Seq(Calls)
        BY <4>1
      <4> QED BY <3>2, <4>2, WindowAssumption DEF HideIfAny
    <3> QED BY <2>2, <3>1, <3>2
  <2>4. <<Unrule>> \o HideIfAny(PresentedOver(h, game, ending)) \in Seq(Calls)
    BY <1>1, <2>3, ConcatProperties
  <2>5. <<Unrule>> \o HideIfAny(PresentedOver(h, game, ending)) \o <<Show(game)>> \in Seq(Calls)
    BY <2>1, <2>4, ConcatProperties
  <2> QED BY <1>4, <2>5 DEF CallsAtEnd
<1> QED BY <1>2, <1>3, <1>4 DEF Endings

\* release() is the end of the hold it is called for: nothing it lists is
\* read for the next one, and what has to be called is owed.
LEMMA ReleaseKeepsInv ==
  ASSUME HoldInv, NEW h \in HoldRecord, h.launch = hold.launch, h.ignored = hold.ignored,
         NEW ending \in Endings \ {"none"}, NEW game \in Windows \cup {NoWindow},
         ending = "GameShown" => game \in Windows,
         Release(h, game, ending), UNCHANGED <<window, rule, steam>>
  PROVE  HoldInv'
<1> DEFINE ended == Ended(h, game, ending)
           owed == CallsAtEnd(h, game, ending)
<1>1. /\ hold' = [ended EXCEPT !.owed = owed]
      /\ scan' = Outdated
  BY DEF Release
<1>2. PresentedOver(h, game, ending) \in Windows \cup {NoWindow}
  BY DEF PresentedOver, HoldRecord
<1>3. Kept(h, game, ending) \in SUBSET Windows
  BY <1>2 DEF Kept, HoldRecord
<1>4. ended = [Inactive(h) EXCEPT !.kept = Kept(h, game, ending), !.ending = ending]
  BY DEF Ended
<1>5. /\ ended \in HoldRecord /\ ~ended.active /\ ended.presented = NoWindow
      /\ ended.launch = h.launch /\ ended.ignored = h.ignored /\ ended.ending = ending
  BY <1>3, <1>4 DEF Inactive, HoldRecord, Endings
<1>6. owed \in Seq(Calls)
  BY CallsType
<1>7. /\ hold' \in HoldRecord /\ ~hold'.active /\ hold'.presented = NoWindow
      /\ hold'.launch = hold.launch /\ hold'.ignored = hold.ignored
      /\ hold'.ending = ending /\ hold'.owed = owed
  <2> HIDE DEF ended, owed
  <2> QED BY <1>1, <1>5, <1>6 DEF HoldRecord
<1>8. scan' \in ScanRecord /\ ~scan'.current
  BY <1>1 DEF Outdated, ScanRecord, HoldInv, HoldTypes
<1>9. HoldTypes' /\ ListingIsOfThisHold' /\ OnOrOver' /\ IgnoredIsOld'
  BY <1>7, <1>8 DEF HoldInv, HoldTypes, ListingIsOfThisHold, OnOrOver, IgnoredIsOld
<1>10. LettingGo'
  <2>1. ending = "Cancelled" => owed = <<Unrule, ShowAllBut(h.ignored)>>
    BY DEF CallsAtEnd
  <2> QED BY <1>7, <2>1 DEF LettingGo, Unrule, ShowAllBut
<1> QED BY <1>9, <1>10 DEF HoldInv

\* begin(), with or without a hold: what it ignores opened before.
LEMMA BeginKeepsInv ==
  ASSUME HoldInv, ~hold.active, hold.owed = <<>>, BeginHold(hold)
  PROVE  HoldInv'
<1>1. UNCHANGED <<calls, window>> /\ steam' = FALSE /\ calls = <<>>
  BY DEF BeginHold, WorkersIdle
<1>2. ASSUME NEW ignored \in SUBSET HeldNow, hold' = Begun(hold, ignored), rule' = TRUE, scan' = Outdated
      PROVE  HoldInv'
  <2>1. ignored \in SUBSET Windows /\ \A w \in ignored : window[w].is = "open"
    BY <1>2 DEF HeldNow, OpenNow
  <2>2. /\ hold' \in HoldRecord /\ hold'.active /\ hold'.ending = "none" /\ ~hold'.again
        /\ hold'.launch = hold.launch + 1 /\ hold'.ignored = ignored
    <3>1. hold \in HoldRecord /\ hold.launch + 1 \in Nat
      BY DEF HoldInv, HoldTypes, HoldRecord
    <3> QED BY <1>2, <2>1, <3>1 DEF Begun, HoldRecord, Endings
  <2>3. scan' \in ScanRecord /\ ~scan'.current
    BY <1>2 DEF Outdated, ScanRecord, HoldInv, HoldTypes
  <2>4. HoldTypes'
    BY <1>1, <1>2, <2>2, <2>3 DEF HoldInv, HoldTypes
  <2>5. IgnoredIsOld'
    BY <1>1, <2>1, <2>2 DEF HoldInv, HoldTypes, IgnoredIsOld, HoldRecord, WindowRecord
  <2> QED BY <2>2, <2>3, <2>4, <2>5 DEF HoldInv, ListingIsOfThisHold, OnOrOver, LettingGo
<1>3. CASE hold' = [hold EXCEPT !.again = FALSE, !.launch = @ + 1] /\ UNCHANGED <<rule, scan>>
  <2>1. /\ hold' \in HoldRecord /\ hold'.launch = hold.launch + 1 /\ ~hold'.active
        /\ hold'.ending = hold.ending /\ hold'.refused = hold.refused /\ hold'.presented = hold.presented
        /\ hold'.ignored = hold.ignored /\ hold'.owed = hold.owed
    <3>1. hold \in HoldRecord /\ hold.launch + 1 \in Nat
      BY DEF HoldInv, HoldTypes, HoldRecord
    <3> QED BY <1>3, <3>1 DEF HoldRecord
  <2>2. HoldTypes'
    BY <1>1, <1>3, <2>1 DEF HoldInv, HoldTypes
  <2>3. ListingIsOfThisHold' /\ OnOrOver'
    BY <1>3, <2>1 DEF HoldInv, ListingIsOfThisHold, OnOrOver
  <2>4. IgnoredIsOld'
    BY <1>1, <2>1 DEF HoldInv, HoldTypes, IgnoredIsOld, HoldRecord, WindowRecord
  <2>5. ASSUME hold'.ending = "Cancelled", ~hold'.refused PROVE ~rule /\ \A w \in HeldNow : window[w].since < hold.launch
    BY <1>1, <2>1, <2>5 DEF HoldInv, LettingGo, Unrule, ShowAllBut
  <2>6. LettingGo'
    BY <1>1, <1>3, <2>1, <2>5 DEF LettingGo, HeldNow, OpenNow, HoldInv, HoldTypes, HoldRecord, WindowRecord
  <2> QED BY <2>2, <2>3, <2>4, <2>6 DEF HoldInv
<1>4. CASE hold' = Begun(hold, HeldNow \cap hold.kept) /\ rule' = TRUE /\ scan' = Outdated
  BY <1>2, <1>4
<1>5. CASE hold' = Begun(hold, {}) /\ rule' = TRUE /\ scan' = Outdated
  BY <1>2, <1>5
<1> QED BY <1>3, <1>4, <1>5 DEF BeginHold

-----------------------------------------------------------------------------
\* No hold is on at the start, and no window is hidden.
LEMMA HoldInitInv == HoldInit => HoldInv
<1> SUFFICES ASSUME HoldInit PROVE HoldInv
  OBVIOUS
<1>1. hold \in HoldRecord
  <2>1. <<>> \in Seq(Calls)
    OBVIOUS
  <2> QED BY <2>1 DEF HoldInit, HoldRecord, Endings
<1>2. scan \in ScanRecord
  BY DEF HoldInit, NoScan, ScanRecord
<1>3. window \in [Windows -> WindowRecord]
  BY DEF HoldInit, NotYet, WindowRecord
<1>4. /\ rule \in BOOLEAN /\ steam \in BOOLEAN
      /\ ListingIsOfThisHold /\ OnOrOver /\ LettingGo
  BY DEF HoldInit, NoScan, ListingIsOfThisHold, OnOrOver, LettingGo
<1>5. IgnoredIsOld
  BY DEF HoldInit, NotYet, IgnoredIsOld
<1> QED BY <1>1, <1>2, <1>3, <1>4, <1>5 DEF HoldInv, HoldTypes

\* One step per action, and under it one per part of the invariant; begin
\* and release have lemmas of their own.
LEMMA HoldNextInv == HoldInv /\ [HoldNext]_holdVars => HoldInv'
<1> SUFFICES ASSUME HoldInv, [HoldNext]_holdVars PROVE HoldInv'
  OBVIOUS
<1> USE DEF HoldInv
<1>1. CASE Play
  <2>1. CASE ~hold.active /\ BeginHold(hold)
    BY <1>1, <2>1, BeginKeepsInv DEF Play, MainFree
  <2>2. CASE /\ Release([hold EXCEPT !.again = TRUE], NoWindow, "Cancelled")
             /\ UNCHANGED <<window, rule, steam, mode, eventsLeft>>
    <3>1. /\ [hold EXCEPT !.again = TRUE] \in HoldRecord
          /\ [hold EXCEPT !.again = TRUE].launch = hold.launch
          /\ [hold EXCEPT !.again = TRUE].ignored = hold.ignored
      BY DEF HoldTypes, HoldRecord
    <3> QED BY <2>2, <3>1, ReleaseKeepsInv DEF Endings
  <2> QED BY <1>1, <2>1, <2>2 DEF Play
<1>2. CASE PlayGoesOn
  BY <1>2, BeginKeepsInv DEF PlayGoesOn, OnOrOver
<1>3. CASE ReleaseGoesOn
  <2>1. /\ hold' \in HoldRecord /\ hold'.owed = <<>> /\ calls' = hold.owed
        /\ hold'.active = hold.active /\ hold'.launch = hold.launch /\ hold'.again = hold.again
        /\ hold'.ending = hold.ending /\ hold'.refused = hold.refused /\ hold'.presented = hold.presented
        /\ hold'.ignored = hold.ignored /\ hold.owed # <<>>
        /\ UNCHANGED <<scan, window, rule, steam>>
    <3>1. <<>> \in Seq(Calls)
      OBVIOUS
    <3> QED BY <1>3, <3>1 DEF ReleaseGoesOn, HoldTypes, HoldRecord
  <2>2. HoldTypes' /\ ListingIsOfThisHold' /\ OnOrOver' /\ IgnoredIsOld'
    BY <2>1 DEF HoldTypes, ListingIsOfThisHold, OnOrOver, IgnoredIsOld
  <2>3. LettingGo'
    BY <2>1 DEF LettingGo, Unrule, ShowAllBut
  <2> QED BY <2>2, <2>3
<1>4. CASE Cancel
  BY <1>4, ReleaseKeepsInv DEF Cancel, HoldTypes, Endings
<1>5. CASE ReturnToLibrary
  <2>1. /\ hold' \in HoldRecord
        /\ hold'.active = hold.active /\ hold'.launch = hold.launch /\ hold'.again = hold.again
        /\ hold'.ending = hold.ending /\ hold'.refused = hold.refused /\ hold'.presented = NoWindow
        /\ hold'.ignored = hold.ignored /\ hold.presented # NoWindow
        /\ UNCHANGED <<scan, window, rule, steam>>
    BY <1>5 DEF ReturnToLibrary, HoldTypes, HoldRecord
  <2> QED BY <2>1 DEF HoldTypes, ListingIsOfThisHold, OnOrOver, IgnoredIsOld, LettingGo
<1>6. ASSUME NEW w \in Windows, Present(w) PROVE HoldInv'
  <2>1. /\ hold' \in HoldRecord /\ hold.active
        /\ hold'.active = hold.active /\ hold'.launch = hold.launch /\ hold'.again = hold.again
        /\ hold'.ending = hold.ending /\ hold'.refused = hold.refused /\ hold'.ignored = hold.ignored
        /\ UNCHANGED <<scan, window, rule, steam>>
    BY <1>6 DEF Present, HoldTypes, HoldRecord
  <2> QED BY <2>1 DEF HoldTypes, ListingIsOfThisHold, OnOrOver, IgnoredIsOld, LettingGo
<1>7. ASSUME NEW w \in Windows, Closes(w) PROVE HoldInv'
  <2>1. /\ window' = [window EXCEPT ![w] = [NotYet EXCEPT !.is = "closed"]]
        /\ UNCHANGED <<hold, scan, calls, rule, steam>>
    BY <1>7 DEF Closes
  <2>2. /\ NotYet \in WindowRecord /\ [NotYet EXCEPT !.is = "closed"] \in WindowRecord
        /\ [NotYet EXCEPT !.is = "closed"].is = "closed" /\ [NotYet EXCEPT !.is = "closed"].since = 0
    BY DEF NotYet, WindowRecord
  <2>3. /\ window' \in [Windows -> WindowRecord]
        /\ window'[w].is = "closed" /\ window'[w].since = 0
        /\ \A v \in Windows \ {w} : window'[v] = window[v]
    <3> DEFINE closed == [NotYet EXCEPT !.is = "closed"]
    <3>1. closed \in WindowRecord /\ closed.is = "closed" /\ closed.since = 0
      BY <2>2
    <3>2. window' = [window EXCEPT ![w] = closed]
      BY <2>1
    <3> HIDE DEF closed
    <3> QED BY <3>1, <3>2 DEF HoldTypes
  <2>4. HoldTypes' /\ ListingIsOfThisHold' /\ OnOrOver'
    BY <2>1, <2>3 DEF HoldTypes, ListingIsOfThisHold, OnOrOver
  <2>5. IgnoredIsOld'
    BY <2>1, <2>3 DEF HoldTypes, IgnoredIsOld, HoldRecord, WindowRecord
  <2>6. HeldNow' \subseteq HeldNow \ {w}
    BY <2>3 DEF HeldNow, OpenNow
  <2>7. LettingGo'
    BY <2>1, <2>3, <2>6 DEF LettingGo, HeldNow, OpenNow
  <2> QED BY <2>4, <2>5, <2>7
<1>8. CASE TimesOut
  <2>1. CASE Release(hold, NoWindow, "Cancelled")
    BY <1>8, <2>1, ReleaseKeepsInv DEF TimesOut, HoldTypes, Endings
  <2>2. CASE hold' = [hold EXCEPT !.timeout = FALSE] /\ UNCHANGED <<scan, calls>>
    <3>1. /\ hold' \in HoldRecord
          /\ hold'.active = hold.active /\ hold'.launch = hold.launch /\ hold'.again = hold.again
          /\ hold'.ending = hold.ending /\ hold'.refused = hold.refused /\ hold'.presented = hold.presented
          /\ hold'.ignored = hold.ignored /\ hold'.owed = hold.owed
          /\ UNCHANGED <<scan, calls, window, rule, steam>>
      BY <1>8, <2>2 DEF TimesOut, HoldTypes, HoldRecord
    <3> QED BY <3>1 DEF HoldTypes, ListingIsOfThisHold, OnOrOver, IgnoredIsOld, LettingGo, HeldNow, OpenNow
  <2> QED BY <1>8, <2>1, <2>2 DEF TimesOut
<1>9. CASE GraceEnds
  <2>1. CASE Release(hold, NoWindow, "GameClosed")
    BY <1>9, <2>1, ReleaseKeepsInv DEF GraceEnds, HoldTypes, Endings
  <2>2. CASE hold' = [hold EXCEPT !.grace = FALSE] /\ UNCHANGED <<scan, calls>>
    <3>1. /\ hold' \in HoldRecord
          /\ hold'.active = hold.active /\ hold'.launch = hold.launch /\ hold'.again = hold.again
          /\ hold'.ending = hold.ending /\ hold'.refused = hold.refused /\ hold'.presented = hold.presented
          /\ hold'.ignored = hold.ignored /\ hold'.owed = hold.owed
          /\ UNCHANGED <<scan, calls, window, rule, steam>>
      BY <1>9, <2>2 DEF GraceEnds, HoldTypes, HoldRecord
    <3> QED BY <3>1 DEF HoldTypes, ListingIsOfThisHold, OnOrOver, IgnoredIsOld, LettingGo, HeldNow, OpenNow
  <2> QED BY <1>9, <2>1, <2>2 DEF GraceEnds
<1>10. CASE ScanStart
  <2>1. /\ scan' \in ScanRecord /\ scan'.at = "running" /\ hold.active
        /\ UNCHANGED <<hold, calls, window, rule, steam>>
    BY <1>10 DEF ScanStart, NoScan, ScanRecord, HoldTypes
  <2> QED BY <2>1 DEF HoldTypes, ListingIsOfThisHold, OnOrOver, IgnoredIsOld, LettingGo, HeldNow, OpenNow
<1>11. CASE ScanRuns
  <2>1. UNCHANGED <<hold, calls, window, rule, steam>>
    BY <1>11 DEF ScanRuns
  <2>2. HeldNow \ hold.ignored \in SUBSET Windows
    BY DEF HeldNow, OpenNow
  <2>3. ASSUME NEW w \in HeldNow \ hold.ignored, ItsGame(w), Listed(HeldNow \ hold.ignored, w)
        PROVE  scan' \in ScanRecord /\ scan'.current = scan.current /\ scan'.owner = hold.launch
    <3>1. w \in Windows /\ w # NoWindow /\ window[w].launch \in Nat /\ window[w].launch = hold.launch
      BY <2>2, <2>3, WindowAssumption DEF ItsGame, HoldTypes, WindowRecord
    <3> QED BY <2>2, <2>3, <3>1 DEF Listed, HoldTypes, ScanRecord
  <2>4. ASSUME Listed(HeldNow \ hold.ignored, NoWindow)
        PROVE  scan' \in ScanRecord /\ scan'.current = scan.current /\ scan'.game = NoWindow
    BY <2>2, <2>4 DEF Listed, HoldTypes, ScanRecord
  <2>5. ASSUME scan' = [scan EXCEPT !.at = "done", !.ok = FALSE]
        PROVE  scan' \in ScanRecord /\ scan'.current = scan.current /\ ~scan'.ok
    BY <2>5 DEF HoldTypes, ScanRecord
  <2>6. HoldTypes' /\ ListingIsOfThisHold'
    BY <1>11, <2>1, <2>3, <2>4, <2>5 DEF ScanRuns, HoldTypes, ListingIsOfThisHold
  <2> QED BY <2>1, <2>6 DEF OnOrOver, IgnoredIsOld, LettingGo, HeldNow, OpenNow
<1>12. CASE ScanFinishes
  <2> DEFINE listed == WithWindows(hold, scan.windows)
  <2>1. /\ listed \in HoldRecord
        /\ listed.active = hold.active /\ listed.launch = hold.launch /\ listed.again = hold.again
        /\ listed.ending = hold.ending /\ listed.refused = hold.refused /\ listed.presented = hold.presented
        /\ listed.ignored = hold.ignored /\ listed.owed = hold.owed
    BY DEF WithWindows, HoldTypes, HoldRecord, ScanRecord
  <2>2. NoScan \in ScanRecord /\ ~NoScan.current
    BY DEF NoScan, ScanRecord
  <2>3. CASE ~Usable /\ scan' = NoScan /\ UNCHANGED <<hold, calls>>
    <3>1. UNCHANGED <<hold, calls, window, rule, steam>>
      BY <1>12, <2>3 DEF ScanFinishes
    <3> QED BY <2>2, <2>3, <3>1 DEF HoldTypes, ListingIsOfThisHold, OnOrOver, IgnoredIsOld, LettingGo, HeldNow, OpenNow
  <2>4. CASE Usable /\ scan.game # NoWindow /\ Release(listed, scan.game, "GameShown")
    <3>1. scan.game \in Windows
      BY <2>4 DEF HoldTypes, ScanRecord
    <3> HIDE DEF listed
    <3> QED BY <1>12, <2>1, <2>4, <3>1, ReleaseKeepsInv DEF ScanFinishes, Endings
  <2>5. CASE Usable /\ hold' = WithSteam(listed) /\ scan' = NoScan /\ UNCHANGED calls
    <3>1. /\ hold' \in HoldRecord /\ hold.active
          /\ hold'.active = hold.active /\ hold'.launch = hold.launch /\ hold'.again = hold.again
          /\ hold'.ending = hold.ending /\ hold'.refused = hold.refused /\ hold'.presented = hold.presented
          /\ hold'.ignored = hold.ignored
      <4> HIDE DEF listed
      <4> QED BY <2>1, <2>5 DEF WithSteam, HoldRecord, Usable
    <3>2. UNCHANGED <<window, rule, steam>>
      BY <1>12 DEF ScanFinishes
    <3> QED BY <2>2, <2>5, <3>1, <3>2 DEF HoldTypes, ListingIsOfThisHold, OnOrOver, IgnoredIsOld, LettingGo
  <2> QED BY <1>12, <2>3, <2>4, <2>5 DEF ScanFinishes
<1>13. CASE Call
  <2>1. calls # <<>> /\ calls' = Tail(calls) /\ UNCHANGED <<hold, scan, steam>>
    BY <1>13 DEF Call
  <2>2. ASSUME NEW ws, NEW b \in BOOLEAN
        PROVE  /\ Move(ws, b) \in [Windows -> WindowRecord]
               /\ \A w \in Windows : /\ Move(ws, b)[w].is = window[w].is
                                     /\ Move(ws, b)[w].since = window[w].since
    BY DEF Move, HoldTypes, WindowRecord
  <2>3. /\ window' \in [Windows -> WindowRecord]
        /\ \A w \in Windows : window'[w].is = window[w].is /\ window'[w].since = window[w].since
    BY <1>13, <2>2 DEF Call, HoldTypes
  <2>4. rule' \in BOOLEAN /\ (~rule => ~rule')
    BY <1>13 DEF Call, HoldTypes
  <2>5. HoldTypes' /\ ListingIsOfThisHold' /\ OnOrOver' /\ IgnoredIsOld'
    BY <2>1, <2>3, <2>4 DEF HoldTypes, ListingIsOfThisHold, OnOrOver, IgnoredIsOld, HoldRecord
  <2>6. ASSUME hold.ending = "Cancelled", ~hold.refused, calls = <<Unrule, ShowAllBut(hold.ignored)>>
        PROVE  calls' = <<ShowAllBut(hold.ignored)>> /\ ~rule'
    <3>1. Head(calls) = Unrule /\ calls' = <<ShowAllBut(hold.ignored)>>
      BY <2>1, <2>6, CallsLeft
    <3>2. Head(calls).call = "unrule"
      BY <3>1 DEF Unrule
    <3>3. rule' = (rule /\ Head(calls).call # "unrule")
      BY <1>13 DEF Call
    <3> QED BY <3>1, <3>2, <3>3
  <2>7. ASSUME hold.ending = "Cancelled", ~hold.refused, calls = <<ShowAllBut(hold.ignored)>>
        PROVE  calls' = <<>> /\ \A w \in HeldNow' : window'[w].since < hold.launch
    <3>1. Head(calls) = ShowAllBut(hold.ignored) /\ calls' = <<>>
      BY <2>1, <2>7, CallsLeft
    <3>2. window' = Move(HeldNow \ hold.ignored, FALSE)
      <4>1. Head(calls).call = "showAllBut" /\ Head(calls).arg = hold.ignored
        BY <3>1 DEF ShowAllBut
      <4>2. Head(calls).call = "showAllBut" => window' = Move(HeldNow \ Head(calls).arg, FALSE)
        BY <1>13 DEF Call
      <4> QED BY <4>1, <4>2
    <3>3. \A w \in HeldNow' : w \in hold.ignored
      BY <3>2 DEF Move, HeldNow, OpenNow, HoldTypes, WindowRecord
    <3>4. HeldNow' \subseteq Windows
      BY DEF HeldNow, OpenNow
    <3> QED BY <2>3, <3>1, <3>3, <3>4 DEF IgnoredIsOld
  <2>8. LettingGo'
    BY <2>1, <2>4, <2>6, <2>7 DEF LettingGo, ShowAllBut
  <2> QED BY <2>5, <2>8
<1>21. CASE CallFails
  <2>1. PICK shown \in SUBSET (HeldNow \ Head(calls).arg) : window' = Move(shown, FALSE)
    BY <1>21 DEF CallFails
  <2>2. /\ hold' \in HoldRecord /\ hold'.active = hold.active /\ hold'.launch = hold.launch
        /\ hold'.again = hold.again /\ hold'.ending = hold.ending
        /\ hold'.presented = hold.presented /\ hold'.ignored = hold.ignored /\ hold'.owed = hold.owed
        /\ hold'.refused = (hold.refused \/ (hold.ending = "Cancelled" /\ hold.owed = <<>>))
        /\ UNCHANGED <<scan, rule, steam>>
    BY <1>21 DEF CallFails, HoldTypes, HoldRecord
  <2>3. /\ window' \in [Windows -> WindowRecord]
        /\ \A w \in Windows : window'[w].is = window[w].is /\ window'[w].since = window[w].since
    BY <2>1 DEF Move, HoldTypes, WindowRecord
  <2>4. HoldTypes' /\ ListingIsOfThisHold' /\ OnOrOver' /\ IgnoredIsOld'
    BY <2>2, <2>3 DEF HoldTypes, ListingIsOfThisHold, OnOrOver, IgnoredIsOld, HoldRecord
  <2>5. LettingGo'
    BY <2>2 DEF LettingGo
  <2> QED BY <2>4, <2>5
<1>14. CASE LeaveGameMode
  <2>1. UNCHANGED <<calls, window, rule, steam>>
    BY <1>14 DEF LeaveGameMode
  <2>2. CASE hold.active /\ hold' = Abandoned /\ scan' = Outdated
    <3>1. /\ hold' \in HoldRecord /\ ~hold'.active /\ hold'.presented = NoWindow
          /\ hold'.launch = hold.launch /\ hold'.ending = hold.ending /\ hold'.refused = hold.refused /\ hold'.ignored = hold.ignored
      BY <2>2 DEF Abandoned, Inactive, HoldTypes, HoldRecord
    <3>2. scan' \in ScanRecord /\ ~scan'.current
      BY <2>2 DEF Outdated, HoldTypes, ScanRecord
    <3> QED BY <2>1, <2>2, <3>1, <3>2 DEF HoldTypes, ListingIsOfThisHold, OnOrOver, IgnoredIsOld, LettingGo
  <2>3. CASE hold' = [hold EXCEPT !.kept = {}] /\ scan' = scan
    <3>1. /\ hold' \in HoldRecord
          /\ hold'.active = hold.active /\ hold'.launch = hold.launch /\ hold'.again = hold.again
          /\ hold'.ending = hold.ending /\ hold'.refused = hold.refused /\ hold'.presented = hold.presented
          /\ hold'.ignored = hold.ignored /\ hold'.owed = hold.owed
      BY <2>3 DEF HoldTypes, HoldRecord
    <3> QED BY <2>1, <2>3, <3>1
            DEF HoldTypes, ListingIsOfThisHold, OnOrOver, IgnoredIsOld, LettingGo, HeldNow, OpenNow
  <2> QED BY <1>14, <2>2, <2>3 DEF LeaveGameMode
<1>15. CASE EndRule
  <2>1. rule' \in BOOLEAN /\ (~rule => ~rule') /\ UNCHANGED <<hold, scan, calls, window, steam>>
    <3>1. rule' = FALSE \/ rule' = rule
      BY <1>15 DEF EndRule
    <3>2. rule \in BOOLEAN
      BY DEF HoldTypes
    <3>3. rule' \in BOOLEAN /\ (~rule => ~rule')
      <4>1. CASE rule' = FALSE
        BY <4>1
      <4>2. CASE rule' = rule
        BY <3>2, <4>2
      <4> QED BY <3>1, <4>1, <4>2
    <3> QED BY <1>15, <3>3 DEF EndRule
  <2> QED BY <2>1 DEF HoldTypes, ListingIsOfThisHold, OnOrOver, IgnoredIsOld, LettingGo, HeldNow, OpenNow
<1>16. CASE PutBack
  <2>1. PICK shown \in SUBSET HeldNow : window' = Move(shown, FALSE)
    BY <1>16 DEF PutBack
  <2>5. UNCHANGED <<hold, scan, calls, rule, steam>>
    BY <1>16 DEF PutBack
  <2>2. /\ window' \in [Windows -> WindowRecord]
        /\ \A w \in Windows : window'[w].is = window[w].is /\ window'[w].since = window[w].since
    BY <2>1 DEF Move, HoldTypes, WindowRecord
  <2>3. HeldNow' \subseteq HeldNow
    BY <2>1 DEF Move, HeldNow, OpenNow, HoldTypes, WindowRecord
  <2>4. HoldTypes' /\ ListingIsOfThisHold' /\ OnOrOver' /\ IgnoredIsOld'
    BY <2>5, <2>2 DEF HoldTypes, ListingIsOfThisHold, OnOrOver, IgnoredIsOld, HoldRecord
  <2> QED BY <2>2, <2>3, <2>4, <2>5 DEF LettingGo, HeldNow, OpenNow
<1>17. CASE ComeBack
  <2>1. UNCHANGED <<hold, scan, calls, window, rule, steam>>
    BY <1>17 DEF ComeBack
  <2> QED BY <2>1 DEF HoldTypes, ListingIsOfThisHold, OnOrOver, IgnoredIsOld, LettingGo, HeldNow, OpenNow
<1>18. ASSUME NEW w \in Windows, NEW n \in 1 .. MaxLaunches, NEW g \in BOOLEAN, Opens(w, n, g)
       PROVE  HoldInv'
  <2>1. /\ window[w].is = "new"
        /\ window' = [window EXCEPT ![w] = [is |-> "open", launch |-> n, since |-> hold.launch,
                                            game |-> g, held |-> rule /\ mode # "out"]]
        /\ UNCHANGED <<hold, scan, calls, rule, steam>>
    BY <1>18 DEF Opens
  <2>2. /\ window' \in [Windows -> WindowRecord]
        /\ window'[w].since = hold.launch /\ (~rule => ~window'[w].held)
        /\ \A v \in Windows \ {w} : window'[v] = window[v]
    BY <2>1, HoldBoundsAssumption DEF HoldTypes, WindowRecord, HoldRecord
  <2>3. w \notin hold.ignored
    BY <2>1 DEF IgnoredIsOld
  <2>4. HoldTypes' /\ ListingIsOfThisHold' /\ OnOrOver'
    BY <2>1, <2>2 DEF HoldTypes, ListingIsOfThisHold, OnOrOver
  <2>5. IgnoredIsOld'
    BY <2>1, <2>2, <2>3 DEF HoldTypes, IgnoredIsOld, HoldRecord, WindowRecord
  <2>6. ~rule => HeldNow' \subseteq HeldNow \ {w}
    BY <2>2 DEF HeldNow, OpenNow
  <2>7. LettingGo'
    BY <2>1, <2>2, <2>6 DEF LettingGo, HeldNow, OpenNow
  <2> QED BY <2>4, <2>5, <2>7
<1>19. CASE SteamStarts \/ SteamEnds
  <2>1. steam' \in BOOLEAN /\ UNCHANGED <<hold, scan, calls, window, rule>>
    BY <1>19 DEF SteamStarts, SteamEnds
  <2> QED BY <2>1 DEF HoldTypes, ListingIsOfThisHold, OnOrOver, IgnoredIsOld, LettingGo, HeldNow, OpenNow
<1>20. CASE UNCHANGED holdVars
  BY <1>20 DEF holdVars, HoldTypes, ListingIsOfThisHold, OnOrOver, IgnoredIsOld, LettingGo, HeldNow, OpenNow
<1> QED
  <2> HIDE DEF HoldInv
  <2> QED BY <1>1, <1>2, <1>3, <1>4, <1>5, <1>6, <1>7, <1>8, <1>9, <1>10, <1>11, <1>12, <1>13,
             <1>14, <1>15, <1>16, <1>17, <1>18, <1>19, <1>20, <1>21 DEF HoldNext

\* The invariant holds throughout (LaunchHold.cpp).
THEOREM HoldInvariant == HoldSpec => []HoldInv
<1>1. HoldInit => HoldInv
  BY HoldInitInv
<1>2. HoldInv /\ [HoldNext]_holdVars => HoldInv'
  BY HoldNextInv
<1> QED BY <1>1, <1>2, PTL DEF HoldSpec

\* Whatever the hold had listed and in whatever order results came in: no
\* window that opened during a cancelled hold stays hidden, unless a call of
\* its end failed.
THEOREM LetsGoHolds == HoldSpec => []LetsGo
<1>1. HoldInv => LetsGo
  BY DEF HoldInv, LettingGo, LetsGo, ShowsEverything, MainFree, Unrule, ShowAllBut
<1> QED BY <1>1, HoldInvariant, PTL

\* A hold only ends with a game shown for a window of the launch it was
\* begun for.
THEOREM ForItsGameHolds == HoldSpec => ForItsGame
<1>1. ASSUME HoldInv, [HoldNext]_holdVars, hold.active, ~hold'.active, hold'.ending = "GameShown"
      PROVE  scan.owner = hold.launch
  <2>1. hold.ending = "none" /\ ~hold.again
    BY <1>1 DEF HoldInv, OnOrOver
  <2>2. hold \in HoldRecord
    BY <1>1 DEF HoldInv, HoldTypes
  <2>3. ASSUME NEW h \in HoldRecord, NEW game, NEW ending \in Endings, Release(h, game, ending)
        PROVE  hold'.ending = ending
    <3>1. hold'.ending = Ended(h, game, ending).ending
      BY <2>3 DEF Release, Ended, Inactive, HoldRecord
    <3> QED BY <3>1, <2>3 DEF Ended, Inactive, HoldRecord
  <2>4. [hold EXCEPT !.again = TRUE] \in HoldRecord
    BY <2>2 DEF HoldRecord
  <2>5. ~Play
    BY <1>1, <2>3, <2>4 DEF Play, Endings
  <2>6. ~PlayGoesOn
    BY <2>1 DEF PlayGoesOn
  <2>7. ~Cancel
    BY <1>1, <2>2, <2>3 DEF Cancel, Endings
  <2>8. ~TimesOut
    BY <1>1, <2>2, <2>3 DEF TimesOut, Endings, HoldRecord
  <2>9. ~GraceEnds
    BY <1>1, <2>2, <2>3 DEF GraceEnds, Endings, HoldRecord
  <2>10. ~LeaveGameMode
    BY <1>1, <2>1, <2>2 DEF LeaveGameMode, Abandoned, Inactive, HoldRecord
  <2>11. ~ReleaseGoesOn /\ ~ReturnToLibrary /\ ~CallFails /\ \A w \in Windows : ~Present(w)
    BY <1>1, <2>2 DEF ReleaseGoesOn, ReturnToLibrary, CallFails, Present, HoldRecord
  <2>12. ASSUME ScanFinishes PROVE scan.owner = hold.launch
    <3>1. CASE Usable /\ scan.game # NoWindow
      BY <1>1, <2>12, <3>1 DEF ScanFinishes, Usable, HoldInv, ListingIsOfThisHold
    <3>2. CASE hold' = WithSteam(WithWindows(hold, scan.windows))
      <4>1. WithWindows(hold, scan.windows).active = hold.active
        BY <2>2 DEF WithWindows, HoldRecord
      <4> QED BY <1>1, <2>2, <3>2, <4>1 DEF WithSteam, WithWindows, HoldRecord
    <3> QED BY <1>1, <2>12, <3>1, <3>2 DEF ScanFinishes
  <2> QED BY <1>1, <2>5, <2>6, <2>7, <2>8, <2>9, <2>10, <2>11, <2>12
          DEF HoldNext, holdVars, Closes, ScanStart, ScanRuns, Call, EndRule, PutBack, ComeBack, Opens,
              SteamStarts, SteamEnds
<1> QED BY <1>1, HoldInvariant, PTL DEF HoldSpec, ForItsGame

-----------------------------------------------------------------------------
\* Stopping games.
\* Of the queue of a worker nothing is said: its games may be any.
StopTypes ==
  /\ table \subseteq Processes
  /\ may \in [starts : Nat, stops : Nat, kinds : SUBSET ProcessKinds]
  /\ ledger \in [planned : SUBSET Processes, asked : SUBSET Processes,
                 forced : SUBSET Processes, hit : SUBSET Processes, closed : SUBSET SUBSET Processes]
  /\ worker \in [at : {"none", "next", "ask", "force", "done"}, queue : {worker.queue},
                 handled : SUBSET (Processes \cup Scopes), todo : SUBSET worker.plan.targets,
                 pending : SUBSET worker.plan.targets,
                 plan : [targets : SUBSET (Processes \cup Scopes), witnesses : SUBSET Processes],
                 signalled : BOOLEAN, failed : BOOLEAN, cancel : BOOLEAN, okay : BOOLEAN]

\* A pid names one process at a time, and with its start time one for ever.
NamedOnce ==
  /\ \A q, r \in table : q.pid = r.pid => q = r
  /\ \A q \in table \cup ledger.planned : q.start > may.starts

AtWork == worker.at \in {"ask", "force"}

\* What a tool may close if something planned for is in its scope.
Closings == {c \in SUBSET Processes : c \cap ledger.planned # {}}

\* What a worker is at was planned, and nothing of it is guarded; the
\* witnesses of a scope are in it, and where a tool ran there was one.
PlannedFor ==
  /\ \A q \in ledger.planned : ~q.guarded
  /\ AtWork => Covered(worker.plan) \subseteq ledger.planned
  /\ AtWork => \A t \in worker.plan.targets \cap Scopes, q \in worker.plan.witnesses : q.scope = t
  /\ ledger.hit \subseteq ledger.planned
  /\ \A c \in ledger.closed : c \cap ledger.planned # {}

\* What is due to be forced was asked before.
AskedFor ==
  /\ worker.at = "next" => worker.pending = {}
  /\ worker.at = "ask" => \A t \in worker.pending : Members(worker.plan, t) \subseteq ledger.asked
  /\ worker.at = "force" => \A t \in worker.todo : Members(worker.plan, t) \subseteq ledger.asked
  /\ ledger.forced \subseteq ledger.asked

\* What was planned is gone, but for what the worker is at, or the stop has
\* failed already.
GoneOrFailed ==
  /\ worker.at = "next" /\ ~worker.failed => ledger.planned \cap table = {}
  /\ AtWork /\ ~worker.failed => (ledger.planned \ Covered(worker.plan)) \cap table = {}
  /\ worker.at = "done" /\ worker.okay => ledger.planned \cap table = {}

StopInv == StopTypes /\ NamedOnce /\ PlannedFor /\ AskedFor /\ GoneOrFailed

\* A plan names processes that run, and only what is not guarded.
LEMMA PlanTypes ==
  ASSUME NEW g, NEW procs \in SUBSET Processes
  PROVE  /\ Plan(g, procs) \in [targets : SUBSET (Processes \cup Scopes), witnesses : SUBSET Processes]
         /\ \A q \in Plan(g, procs).witnesses : ~q.guarded /\ q \in procs
         /\ \A t \in Plan(g, procs).targets : t \notin Scopes => ~t.guarded /\ t \in procs
         /\ \A t \in Plan(g, procs).targets \cap Scopes, q \in Plan(g, procs).witnesses : q.scope = t
<1> DEFINE mine == {q \in procs : q.game = g /\ ~q.guarded}
           inside == {q \in procs : q.scope = ScopeOf[g]}
           whole == ScopeOf[g] \in Scopes /\ mine \cap inside # {} /\ \A q \in inside : ~q.guarded
<1>1. Plan(g, procs) = IF whole THEN [targets |-> (mine \ inside) \cup {ScopeOf[g]}, witnesses |-> inside]
                       ELSE [targets |-> mine, witnesses |-> {}]
  BY Zenon DEF Plan
<1>2. /\ mine \subseteq procs /\ inside \subseteq procs
      /\ \A q \in mine : ~q.guarded /\ q \notin Scopes
      /\ \A q \in inside : q.scope = ScopeOf[g]
  BY StopperAssumption
<1>3. whole => ScopeOf[g] \in Scopes /\ \A q \in inside : ~q.guarded
  OBVIOUS
<1> HIDE DEF mine, inside, whole
<1>4. CASE whole
  <2>1. Plan(g, procs) = [targets |-> (mine \ inside) \cup {ScopeOf[g]}, witnesses |-> inside]
    BY <1>1, <1>4
  <2> QED BY <2>1, <1>2, <1>3, <1>4
<1>5. CASE ~whole
  <2>1. Plan(g, procs) = [targets |-> mine, witnesses |-> {}]
    BY <1>1, <1>5
  <2> QED BY <2>1, <1>2
<1> QED BY <1>4, <1>5

\* The invariant holds at first.
LEMMA StopInit == StopperInit => StopInv
BY StopperAssumption DEF StopperInit, StopInv, StopTypes, NamedOnce, PlannedFor, AskedFor, GoneOrFailed, AtWork,
      Idle, NoPlan, NoLedger, Covered, Members, Unscanned, NewPanel

\* Nothing that the invariant is about changes but what a scan or the panel is at.
LEMMA StopSame ==
  ASSUME StopInv, UNCHANGED <<table, may, worker, ledger>>
  PROVE  StopInv'
BY DEF StopInv, StopTypes, NamedOnce, PlannedFor, AskedFor, GoneOrFailed, AtWork, Covered, Members

\* A process that starts is new, also by its name.
LEMMA StopStarts ==
  ASSUME StopInv, NEW pid \in Pids, ProcessStarts(pid)
  PROVE  StopInv'
<1>1. PICK k \in may.kinds :
        table' = table \cup {[pid |-> pid, start |-> may.starts, game |-> k.game,
                              scope |-> k.scope, guarded |-> k.guarded]}
  BY DEF ProcessStarts
<1> DEFINE new == [pid |-> pid, start |-> may.starts, game |-> k.game,
                   scope |-> k.scope, guarded |-> k.guarded]
<1>2. /\ table' = table \cup {new} /\ new.pid = pid /\ new.start = may.starts
      /\ \A q \in table : q.pid # pid
      /\ may' = [may EXCEPT !.starts = @ - 1] /\ may.starts > 0 /\ UNCHANGED <<worker, ledger>>
  BY <1>1 DEF ProcessStarts
<1>3. k \in ProcessKinds /\ may.starts \in Nat
  BY DEF StopInv, StopTypes
<1>4. new \in Processes
  BY <1>3, StopperAssumption DEF Processes
<1>5. may'.starts = may.starts - 1 /\ may' \in [starts : Nat, stops : Nat, kinds : SUBSET ProcessKinds]
  BY <1>2, <1>3 DEF StopInv, StopTypes
<1> HIDE DEF new
<1>6. StopTypes'
  BY <1>2, <1>4, <1>5 DEF StopInv, StopTypes
<1>7. NamedOnce'
  <2>1. \A q \in table \cup ledger.planned : q \in Processes /\ q.start \in Nat /\ q.start > may.starts
    BY DEF StopInv, StopTypes, NamedOnce, Processes
  <2> QED BY <1>2, <1>3, <1>5, <2>1 DEF StopInv, NamedOnce
<1>8. PlannedFor' /\ AskedFor'
  BY <1>2 DEF StopInv, PlannedFor, AskedFor, AtWork, Covered, Members
<1>9. GoneOrFailed'
  <2>1. new \notin ledger.planned
    BY <1>2, <1>3 DEF StopInv, NamedOnce, StopTypes
  <2> QED BY <1>2, <2>1 DEF StopInv, GoneOrFailed, AtWork, Covered, Members
<1> QED BY <1>6, <1>7, <1>8, <1>9 DEF StopInv

\* Nothing is lost by a process that ends.
LEMMA StopEnds ==
  ASSUME StopInv, NEW q \in table, ProcessEnds(q)
  PROVE  StopInv'
<1>1. table' \subseteq table /\ UNCHANGED <<may, worker, ledger>>
  BY DEF ProcessEnds
<1> QED BY <1>1 DEF StopInv, StopTypes, NamedOnce, PlannedFor, AskedFor, GoneOrFailed, AtWork, Covered, Members

\* A stop begins with nothing planned.
LEMMA StopBegins ==
  ASSUME StopInv, NEW games, BeginStop(games), UNCHANGED table
  PROVE  StopInv'
<1>1. /\ worker' = [Idle EXCEPT !.at = "next", !.queue = games] /\ ledger' = NoLedger
      /\ may.stops \in Nat /\ may.stops > 0 /\ may' = [may EXCEPT !.stops = @ - 1]
      /\ may \in [starts : Nat, stops : Nat, kinds : SUBSET ProcessKinds]
  BY DEF BeginStop, StopInv, StopTypes
<1>2. may' \in [starts : Nat, stops : Nat, kinds : SUBSET ProcessKinds] /\ may'.starts = may.starts
  BY <1>1
<1>3. StopTypes'
  <2>1. (table \subseteq Processes)'
    BY DEF StopInv, StopTypes
  <2>2. (ledger \in [planned : SUBSET Processes, asked : SUBSET Processes,
                     forced : SUBSET Processes, hit : SUBSET Processes, closed : SUBSET SUBSET Processes])'
    BY <1>1 DEF NoLedger
  <2>3. (worker \in [at : {"none", "next", "ask", "force", "done"}, queue : {worker.queue},
                     handled : SUBSET (Processes \cup Scopes), todo : SUBSET worker.plan.targets,
                     pending : SUBSET worker.plan.targets,
                     plan : [targets : SUBSET (Processes \cup Scopes), witnesses : SUBSET Processes],
                     signalled : BOOLEAN, failed : BOOLEAN, cancel : BOOLEAN, okay : BOOLEAN])'
    BY <1>1 DEF Idle, NoPlan
  <2> QED BY <1>2, <2>1, <2>2, <2>3 DEF StopTypes
<1>4. NamedOnce' /\ PlannedFor' /\ AskedFor' /\ GoneOrFailed'
  BY <1>1, <1>2 DEF StopInv, NamedOnce, PlannedFor, AskedFor, GoneOrFailed, AtWork, Idle, NoLedger
<1> QED BY <1>3, <1>4 DEF StopInv

\* A stop that is cancelled keeps its plan.
LEMMA StopCancelled ==
  ASSUME StopInv, CancelStop
  PROVE  StopInv'
<1>1. /\ worker' = [worker EXCEPT !.cancel = TRUE] /\ UNCHANGED <<table, may, ledger>>
  BY DEF CancelStop
<1>2. StopTypes' /\ worker'.at = worker.at /\ worker'.plan = worker.plan /\ worker'.todo = worker.todo
      /\ worker'.pending = worker.pending /\ worker'.failed = worker.failed /\ worker'.okay = worker.okay
  BY <1>1 DEF StopInv, StopTypes
<1>3. NamedOnce' /\ PlannedFor' /\ AskedFor' /\ GoneOrFailed'
  BY <1>1, <1>2 DEF StopInv, NamedOnce, PlannedFor, AskedFor, GoneOrFailed, AtWork, Covered, Members
<1> QED BY <1>2, <1>3 DEF StopInv

\* A stop that is over leaves nothing behind.
LEMMA StopPublished ==
  ASSUME StopInv, Publish
  PROVE  StopInv'
BY DEF StopInv, StopTypes, NamedOnce, PlannedFor, AskedFor, GoneOrFailed, AtWork, Covered, Members,
       Publish, Idle, NoPlan, NoLedger

\* A stop is reported as done only if nothing of it failed.
LEMMA StopReports ==
  ASSUME StopInv, Report
  PROVE  StopInv'
BY DEF StopInv, StopTypes, NamedOnce, PlannedFor, AskedFor, GoneOrFailed, AtWork, Covered, Members, Report

\* What is to be forced is what a close was asked of.
LEMMA StopEscalates ==
  ASSUME StopInv, Escalate
  PROVE  StopInv'
<1>1. /\ worker' = [worker EXCEPT !.at = "force", !.todo = worker.pending, !.pending = {}]
      /\ worker.at = "ask" /\ UNCHANGED <<table, may, ledger>>
  BY DEF Escalate
<1>2. StopTypes' /\ worker'.at = "force" /\ worker'.plan = worker.plan /\ worker'.todo = worker.pending
      /\ worker'.failed = worker.failed
  BY <1>1 DEF StopInv, StopTypes
<1>3. NamedOnce' /\ PlannedFor' /\ AskedFor' /\ GoneOrFailed'
  BY <1>1, <1>2 DEF StopInv, NamedOnce, PlannedFor, AskedFor, GoneOrFailed, AtWork, Covered, Members
<1> QED BY <1>2, <1>3 DEF StopInv

\* When the worker is done with a target, its fields.
LEMMA StopDone ==
  ASSUME StopInv, NEW t \in worker.todo, NEW s \in BOOLEAN, NEW f \in BOOLEAN
  PROVE  /\ Done(t, s, f) \in [at : {worker.at}, queue : {worker.queue}, handled : {worker.handled},
                               todo : {worker.todo \ {t}}, pending : {worker.pending},
                               plan : {worker.plan}, signalled : BOOLEAN, failed : BOOLEAN,
                               cancel : {worker.cancel}, okay : {worker.okay}]
         /\ ~Done(t, s, f).failed => ~worker.failed
BY DEF Done, StopInv, StopTypes

\* The invariant of a worker that went on with its plan.
LEMMA StopGoesOn ==
  ASSUME StopInv, AtWork, UNCHANGED <<table, may>>,
         NEW todo \in SUBSET worker.todo, NEW toForce \in SUBSET worker.plan.targets,
         worker' \in [at : {worker.at}, queue : {worker.queue}, handled : {worker.handled},
                      todo : {todo}, pending : {toForce}, plan : {worker.plan},
                      signalled : BOOLEAN, failed : BOOLEAN, cancel : {worker.cancel},
                      okay : {worker.okay}],
         ~worker'.failed => ~worker.failed,
         ledger' \in [planned : {ledger.planned}, asked : SUBSET Processes,
                      forced : SUBSET Processes, hit : SUBSET ledger.planned, closed : SUBSET Closings],
         ledger.asked \subseteq ledger'.asked, ledger'.forced \subseteq ledger'.asked,
         worker.at = "ask" => \A t \in toForce \ worker.pending : Members(worker.plan, t) \subseteq ledger'.asked
  PROVE  StopInv'
<1>1. StopTypes'
  BY DEF StopInv, StopTypes, AtWork, Closings
<1>2. /\ worker'.at = worker.at /\ worker'.plan = worker.plan /\ worker'.todo = todo
      /\ worker'.pending = toForce /\ ledger'.planned = ledger.planned /\ ledger'.hit \subseteq ledger.planned
  OBVIOUS
<1>3. NamedOnce' /\ PlannedFor' /\ GoneOrFailed'
  BY <1>2 DEF StopInv, NamedOnce, PlannedFor, GoneOrFailed, AtWork, Covered, Members, Closings
<1>4. AskedFor'
  BY <1>2 DEF StopInv, AskedFor, AtWork, Members
<1> QED BY <1>1, <1>3, <1>4 DEF StopInv

\* A target that is gone is skipped.
LEMMA StopGone ==
  ASSUME StopInv, NEW t \in worker.todo, AlreadyGone(t)
  PROVE  StopInv'
<1>1. AtWork /\ worker' = Done(t, FALSE, FALSE) /\ UNCHANGED <<table, may, ledger>>
  BY DEF AlreadyGone, Due, AtWork
<1>2. ledger \in [planned : {ledger.planned}, asked : SUBSET Processes, forced : SUBSET Processes,
                  hit : SUBSET ledger.planned, closed : SUBSET Closings]
      /\ ledger.forced \subseteq ledger.asked /\ worker.pending \subseteq worker.plan.targets
  BY DEF StopInv, StopTypes, PlannedFor, AskedFor, Closings
<1> QED BY <1>1, <1>2, StopDone, StopGoesOn

\* Only the processes meant get a signal that is sent to a pid that runs.
LEMMA HitIsMeant ==
  ASSUME StopInv, AtWork, NEW t \in worker.plan.targets, NEW procs \in SUBSET Left(t)
  PROVE  Hit(procs) = procs /\ procs \subseteq ledger.planned /\ procs \subseteq Members(worker.plan, t)
<1>1. procs \subseteq table /\ procs \subseteq Members(worker.plan, t)
  BY DEF Left, StillRuns
<1>2. Hit(procs) = procs
  BY <1>1 DEF Hit, StopInv, NamedOnce
<1>3. Members(worker.plan, t) \subseteq ledger.planned
  BY DEF Covered, StopInv, PlannedFor
<1> QED BY <1>1, <1>2, <1>3

\* What is asked to close was planned.
LEMMA StopAsks ==
  ASSUME StopInv, NEW t \in worker.todo, AskProcesses(t)
  PROVE  StopInv'
<1>1. PICK refused \in SUBSET Left(t) :
        /\ worker' = [Done(t, refused = {}, refused # {}) EXCEPT
                        !.pending = @ \cup {u \in {t} : Left(t) \ refused # {}}]
        /\ ledger' = [ledger EXCEPT !.hit = @ \cup Hit(Left(t) \ refused),
                                    !.asked = @ \cup {q \in Members(worker.plan, t) : Left(t) \ refused # {}}]
  BY DEF AskProcesses
<1> DEFINE asked == Left(t) \ refused
           toForce == worker.pending \cup {u \in {t} : asked # {}}
<1>2. worker.at = "ask" /\ AtWork /\ UNCHANGED <<table, may>> /\ t \in worker.plan.targets
      /\ ledger.hit \subseteq ledger.planned /\ worker.pending \subseteq worker.plan.targets
      /\ Covered(worker.plan) \subseteq ledger.planned /\ ledger.planned \subseteq Processes
  BY DEF AskProcesses, Due, AtWork, StopInv, StopTypes, PlannedFor
<1>3. Hit(asked) = asked /\ asked \subseteq ledger.planned
  BY <1>2, HitIsMeant
<1>4. Members(worker.plan, t) \subseteq ledger.planned
  BY <1>2 DEF Covered
<1>5. /\ Done(t, refused = {}, refused # {}) \in
            [at : {worker.at}, queue : {worker.queue}, handled : {worker.handled},
             todo : {worker.todo \ {t}}, pending : {worker.pending},
             plan : {worker.plan}, signalled : BOOLEAN, failed : BOOLEAN,
             cancel : {worker.cancel}, okay : {worker.okay}]
      /\ ~Done(t, refused = {}, refused # {}).failed => ~worker.failed
  BY StopDone
<1>6. /\ worker' \in [at : {worker.at}, queue : {worker.queue}, handled : {worker.handled},
                       todo : {worker.todo \ {t}}, pending : {toForce}, plan : {worker.plan},
                       signalled : BOOLEAN, failed : BOOLEAN, cancel : {worker.cancel},
                       okay : {worker.okay}]
      /\ ~worker'.failed => ~worker.failed
  BY <1>1, <1>5
<1>7. /\ ledger' \in [planned : {ledger.planned}, asked : SUBSET Processes,
                       forced : SUBSET Processes, hit : SUBSET ledger.planned, closed : SUBSET Closings]
      /\ ledger'.forced = ledger.forced
      /\ ledger'.asked = ledger.asked \cup {q \in Members(worker.plan, t) : asked # {}}
  BY <1>1, <1>2, <1>3, <1>4 DEF StopInv, StopTypes, PlannedFor, Closings
<1>8. ledger'.forced \subseteq ledger'.asked /\ ledger.asked \subseteq ledger'.asked
  BY <1>7 DEF StopInv, AskedFor
<1>9. \A u \in toForce \ worker.pending : Members(worker.plan, u) \subseteq ledger'.asked
  BY <1>7
<1>10. toForce \in SUBSET worker.plan.targets /\ worker.todo \ {t} \in SUBSET worker.todo
  BY <1>2
<1> HIDE DEF toForce, asked
<1> QED BY <1>2, <1>6, <1>7, <1>8, <1>9, <1>10, StopGoesOn

\* So was what a tool closes.
LEMMA StopTool ==
  ASSUME StopInv, NEW t \in worker.todo, AskTool(t)
  PROVE  StopInv'
<1>1. worker.at = "ask" /\ AtWork /\ UNCHANGED <<table, may>> /\ t \in worker.plan.targets /\ t \in Scopes
      /\ worker.pending \subseteq worker.plan.targets /\ Members(worker.plan, t) = worker.plan.witnesses
  BY DEF AskTool, Due, AtWork, StopInv, StopTypes, Members
<1>2. ledger \in [planned : {ledger.planned}, asked : SUBSET Processes, forced : SUBSET Processes,
                  hit : SUBSET ledger.planned, closed : SUBSET Closings]
      /\ ledger.forced \subseteq ledger.asked /\ worker.plan.witnesses \subseteq Processes
  BY DEF StopInv, StopTypes, PlannedFor, AskedFor, Closings
<1>5. Inside(t) \in Closings
  <2>1. PICK q \in worker.plan.witnesses : q \in table
    BY <1>1 DEF AskTool, Left, StillRuns
  <2>2. q.scope = t /\ q \in ledger.planned
    BY <1>1, <2>1 DEF StopInv, PlannedFor, Covered
  <2> QED BY <2>1, <2>2 DEF Inside, Closings, StopInv, StopTypes
<1>6. [ledger EXCEPT !.closed = @ \cup {Inside(t)}] \in
        [planned : {ledger.planned}, asked : {ledger.asked}, forced : {ledger.forced},
         hit : SUBSET ledger.planned, closed : SUBSET Closings]
  BY <1>2, <1>5
<1>3. CASE \E f \in BOOLEAN : /\ worker' = Done(t, FALSE, f)
                               /\ \/ UNCHANGED ledger
                                  \/ ledger' = [ledger EXCEPT !.closed = @ \cup {Inside(t)}]
  <2>1. PICK f \in BOOLEAN : /\ worker' = Done(t, FALSE, f)
                             /\ ledger' \in [planned : {ledger.planned}, asked : {ledger.asked},
                                             forced : {ledger.forced}, hit : SUBSET ledger.planned,
                                             closed : SUBSET Closings]
    BY <1>2, <1>3, <1>6
  <2>2. /\ worker' \in [at : {worker.at}, queue : {worker.queue}, handled : {worker.handled},
                         todo : {worker.todo \ {t}}, pending : {worker.pending}, plan : {worker.plan},
                         signalled : BOOLEAN, failed : BOOLEAN, cancel : {worker.cancel},
                         okay : {worker.okay}]
        /\ ~worker'.failed => ~worker.failed
    BY <2>1, StopDone
  <2> QED BY <1>1, <1>2, <2>1, <2>2, StopGoesOn
<1>4. CASE /\ worker' = [Done(t, TRUE, FALSE) EXCEPT !.pending = @ \cup ({t} \cap WinePrefixes)]
           /\ ledger' = [ledger EXCEPT !.asked = @ \cup worker.plan.witnesses,
                                       !.closed = @ \cup {Inside(t)}]
  <2> DEFINE toForce == worker.pending \cup ({t} \cap WinePrefixes)
  <2>1. /\ worker' \in [at : {worker.at}, queue : {worker.queue}, handled : {worker.handled},
                         todo : {worker.todo \ {t}}, pending : {toForce}, plan : {worker.plan},
                         signalled : BOOLEAN, failed : BOOLEAN, cancel : {worker.cancel},
                         okay : {worker.okay}]
        /\ ~worker'.failed => ~worker.failed
    <3> DEFINE done == Done(t, TRUE, FALSE)
    <3>1. /\ done \in [at : {worker.at}, queue : {worker.queue}, handled : {worker.handled},
                        todo : {worker.todo \ {t}}, pending : {worker.pending},
                        plan : {worker.plan}, signalled : BOOLEAN, failed : BOOLEAN,
                        cancel : {worker.cancel}, okay : {worker.okay}]
          /\ ~done.failed => ~worker.failed
      BY StopDone
    <3>2. worker' = [done EXCEPT !.pending = @ \cup ({t} \cap WinePrefixes)]
      BY <1>4
    <3> HIDE DEF done
    <3> QED BY <3>1, <3>2
  <2>2. /\ ledger' \in [planned : {ledger.planned}, asked : SUBSET Processes,
                         forced : SUBSET Processes, hit : SUBSET ledger.planned, closed : SUBSET Closings]
        /\ ledger'.forced \subseteq ledger'.asked /\ ledger.asked \subseteq ledger'.asked
        /\ worker.plan.witnesses \subseteq ledger'.asked
    BY <1>2, <1>4, <1>5
  <2>3. \A u \in toForce \ worker.pending : Members(worker.plan, u) \subseteq ledger'.asked
    BY <1>1, <2>2
  <2>4. toForce \in SUBSET worker.plan.targets /\ worker.todo \ {t} \in SUBSET worker.todo
    BY <1>1
  <2> HIDE DEF toForce
  <2> QED BY <1>1, <2>1, <2>2, <2>3, <2>4, StopGoesOn
<1> QED BY <1>3, <1>4 DEF AskTool

\* What is forced was asked before.
LEMMA StopForces ==
  ASSUME StopInv, NEW t \in worker.todo, ForceProcesses(t)
  PROVE  StopInv'
<1>1. PICK refused \in SUBSET Left(t) :
        /\ worker' = Done(t, Left(t) # refused, refused # {})
        /\ ledger' = [ledger EXCEPT !.hit = @ \cup Hit(Left(t) \ refused),
                                    !.forced = @ \cup Hit(Left(t) \ refused)]
  BY DEF ForceProcesses
<1> DEFINE forced == Left(t) \ refused
<1>2. worker.at = "force" /\ AtWork /\ UNCHANGED <<table, may>> /\ t \in worker.plan.targets
      /\ worker.pending \subseteq worker.plan.targets /\ ledger.planned \subseteq Processes
  BY DEF ForceProcesses, Due, AtWork, StopInv, StopTypes
<1>3. Hit(forced) = forced /\ forced \subseteq ledger.planned /\ forced \subseteq Members(worker.plan, t)
  BY <1>2, HitIsMeant
<1>4. forced \subseteq ledger.asked
  BY <1>2, <1>3 DEF StopInv, AskedFor
<1>5. /\ ledger' \in [planned : {ledger.planned}, asked : SUBSET Processes,
                       forced : SUBSET Processes, hit : SUBSET ledger.planned, closed : SUBSET Closings]
      /\ ledger'.asked = ledger.asked /\ ledger'.forced = ledger.forced \cup forced
  BY <1>1, <1>2, <1>3 DEF StopInv, StopTypes, PlannedFor, Closings
<1>6. ledger'.forced \subseteq ledger'.asked
  BY <1>4, <1>5 DEF StopInv, AskedFor
<1>7. /\ worker' \in [at : {worker.at}, queue : {worker.queue}, handled : {worker.handled},
                       todo : {worker.todo \ {t}}, pending : {worker.pending}, plan : {worker.plan},
                       signalled : BOOLEAN, failed : BOOLEAN, cancel : {worker.cancel},
                       okay : {worker.okay}]
      /\ ~worker'.failed => ~worker.failed
  BY <1>1, StopDone
<1> QED BY <1>2, <1>5, <1>6, <1>7, StopGoesOn

\* A plan is of processes that run and may be signalled.
LEMMA StopNextGame ==
  ASSUME StopInv, NextGame
  PROVE  StopInv'
<1> DEFINE full == Plan(Head(worker.queue), table)
           plan == [full EXCEPT !.targets = @ \ worker.handled]
<1>1. worker.at = "next" /\ UNCHANGED <<table, may>> /\ table \in SUBSET Processes
  BY DEF NextGame, StopInv, StopTypes
<1>2. CASE plan.targets = {}
  <2>1. worker' = [worker EXCEPT !.queue = Tail(@)] /\ UNCHANGED ledger
    BY <1>2 DEF NextGame
  <2>2. StopTypes' /\ worker'.at = "next" /\ worker'.failed = worker.failed
    BY <1>1, <2>1 DEF StopInv, StopTypes
  <2> QED BY <1>1, <2>1, <2>2 DEF StopInv, NamedOnce, PlannedFor, AskedFor, GoneOrFailed, AtWork
<1>3. CASE plan.targets # {}
  <2>1. /\ worker' = [worker EXCEPT !.at = "ask", !.plan = plan, !.todo = plan.targets,
                                    !.handled = @ \cup plan.targets]
        /\ ledger' = [ledger EXCEPT !.planned = @ \cup Covered(plan)]
    BY <1>3 DEF NextGame
  <2>2. /\ plan \in [targets : SUBSET (Processes \cup Scopes), witnesses : SUBSET Processes]
        /\ \A q \in plan.witnesses : ~q.guarded /\ q \in table
        /\ \A t \in plan.targets : t \notin Scopes => ~t.guarded /\ t \in table
        /\ \A t \in plan.targets \cap Scopes, q \in plan.witnesses : q.scope = t
    BY <1>1, PlanTypes
  <2> HIDE DEF full, plan
  <2>3. Covered(plan) \subseteq table /\ \A q \in Covered(plan) : ~q.guarded
    BY <2>2 DEF Covered, Members
  <2>4. worker.pending = {}
    BY <1>1 DEF StopInv, AskedFor
  <2>5. StopTypes'
    <3>1. worker' \in [at : {"ask"}, queue : {worker.queue}, handled : SUBSET (Processes \cup Scopes),
                       todo : {plan.targets}, pending : {{}}, plan : {plan}, signalled : BOOLEAN,
                       failed : BOOLEAN, cancel : BOOLEAN, okay : BOOLEAN]
      BY <2>1, <2>2, <2>4 DEF StopInv, StopTypes
    <3>2. ledger' \in [planned : SUBSET Processes, asked : SUBSET Processes,
                       forced : SUBSET Processes, hit : SUBSET Processes, closed : SUBSET SUBSET Processes]
      BY <1>1, <2>1, <2>3 DEF StopInv, StopTypes
    <3> QED BY <1>1, <2>2, <3>1, <3>2 DEF StopInv, StopTypes
  <2>6. /\ worker'.at = "ask" /\ worker'.plan = plan /\ worker'.pending = {}
        /\ worker'.failed = worker.failed
        /\ ledger'.planned = ledger.planned \cup Covered(plan) /\ ledger'.hit = ledger.hit
        /\ ledger'.asked = ledger.asked /\ ledger'.forced = ledger.forced
        /\ ledger'.closed = ledger.closed
    BY <2>1, <2>4 DEF StopInv, StopTypes
  <2>7. Covered(worker.plan)' = Covered(plan)
    BY <2>6 DEF Covered, Members
  <2>8. NamedOnce' /\ PlannedFor' /\ AskedFor' /\ GoneOrFailed'
    BY <1>1, <2>2, <2>3, <2>6, <2>7 DEF StopInv, NamedOnce, PlannedFor, AskedFor, GoneOrFailed, AtWork
  <2> QED BY <2>5, <2>8 DEF StopInv
<1> QED BY <1>2, <1>3

\* What still runs makes the stop a failure.
LEMMA StopChecked ==
  ASSUME StopInv, Checked
  PROVE  StopInv'
<1>1. /\ AtWork /\ UNCHANGED <<table, may, ledger>>
      /\ worker' = [worker EXCEPT !.at = "next", !.queue = Tail(@), !.pending = {}, !.plan = NoPlan,
                                  !.failed = @ \/ \E t \in worker.plan.targets : Stays(t)]
      /\ worker.todo = {}
  BY DEF Checked, AtWork
<1>2. StopTypes' /\ worker'.at = "next" /\ worker'.pending = {}
      /\ worker'.failed = (worker.failed \/ \E t \in worker.plan.targets : Stays(t))
  BY <1>1 DEF StopInv, StopTypes, NoPlan
<1>3. ~(\E t \in worker.plan.targets : Stays(t)) => Covered(worker.plan) \cap table = {}
  BY DEF Stays, Left, StillRuns, Covered
<1>4. GoneOrFailed'
  BY <1>1, <1>2, <1>3 DEF StopInv, GoneOrFailed, AtWork
<1>5. NamedOnce' /\ PlannedFor' /\ AskedFor'
  BY <1>1, <1>2 DEF StopInv, NamedOnce, PlannedFor, AskedFor, AtWork
<1> QED BY <1>2, <1>4, <1>5 DEF StopInv

\* Every step keeps the invariant.
LEMMA StopStep == StopInv /\ [StopperNext]_stopperVars => StopInv'
<1> SUFFICES ASSUME StopInv, [StopperNext]_stopperVars PROVE StopInv'
  OBVIOUS
<1>1. CASE UNCHANGED stopperVars
  BY <1>1, StopSame DEF stopperVars
<1>2. CASE \E pid \in Pids : ProcessStarts(pid)
  BY <1>2, StopStarts
<1>3. CASE \E q \in table : ProcessEnds(q)
  BY <1>3, StopEnds
<1>4. CASE ScanReads \/ ScanEnds \/ Open \/ SessionEnds
  BY <1>4, StopSame DEF ScanReads, ScanEnds, Open, SessionEnds
<1>5. CASE Confirm
  BY <1>5, StopSame, StopBegins DEF Confirm
<1>6. CASE \E g \in Library : StopOne(g)
  BY <1>6, StopBegins DEF StopOne
<1>7. CASE CancelStop \/ Publish \/ NextGame \/ Escalate \/ Checked \/ Report
  BY <1>7, StopCancelled, StopPublished, StopNextGame, StopEscalates, StopChecked, StopReports
<1>8. CASE \E t \in worker.todo : AlreadyGone(t) \/ AskProcesses(t) \/ AskTool(t) \/ ForceProcesses(t)
  BY <1>8, StopGone, StopAsks, StopTool, StopForces
<1> QED BY <1>1, <1>2, <1>3, <1>4, <1>5, <1>6, <1>7, <1>8 DEF StopperNext

\* A signal goes only to a process the worker had planned for, which the
\* guards did not name then, a forced one only to what was asked before; a
\* tool is run only while a process planned for is in its scope.
THEOREM OnlyThePlannedHolds == StopperSpec => []OnlyThePlanned
<1>1. StopInv => OnlyThePlanned
  BY DEF StopInv, PlannedFor, AskedFor, OnlyThePlanned
<1> QED BY <1>1, StopInit, StopStep, PTL DEF StopperSpec

\* A stop that is reported as done has ended every process it was for.
THEOREM DoneIsGoneHolds == StopperSpec => []DoneIsGone
<1>1. StopInv => DoneIsGone
  BY DEF StopInv, GoneOrFailed, DoneIsGone
<1> QED BY <1>1, StopInit, StopStep, PTL DEF StopperSpec

-----------------------------------------------------------------------------
\* A scan goes through the rows of the library.  What a row leaves is told
\* by induction, here as: of the rows for which a fact fails there is no
\* first one.

\* Every set of natural numbers has a least one, which is induction.
LEMMA LeastNatural ==
  ASSUME NEW T \in SUBSET Nat, T # {}
  PROVE  \E x \in T : \A y \in T : x <= y
<1>1. IsWellFoundedOn(OpToRel(<, Nat), Nat)
  BY NatLessThanWellFounded, Zenon
<1> DEFINE R == OpToRel(<, Nat)
<1>2. R = {s \in Nat \X Nat : s[1] < s[2]}
  BY Zenon DEF OpToRel
<1> HIDE DEF R
<1>3. PICK x \in T : \A y \in T : ~(<<y, x>> \in R)
  BY <1>1, WFMin, Zenon DEF R
<1>4. ASSUME NEW y \in T PROVE x <= y
  <2>1. <<y, x>> \in Nat \X Nat /\ <<y, x>>[1] = y /\ <<y, x>>[2] = x
    OBVIOUS
  <2>2. ~(y < x)
    BY <1>2, <1>3, <2>1
  <2> QED BY <2>1, <2>2
<1> QED BY <1>4

\* A set of indices has a last one.
LEMMA LastIndex ==
  ASSUME NEW n \in Nat, NEW s \in SUBSET (1 .. n), s # {}
  PROVE  Max(s) \in s /\ \A x \in s : x <= Max(s)
<1> DEFINE Above == {m \in Nat : \A x \in s : x <= m}
<1>1. n \in Above
  OBVIOUS
<1>2. PICK m \in Above : \A k \in Above : m <= k
  <2>1. Above \in SUBSET Nat /\ Above # {}
    BY <1>1
  <2> HIDE DEF Above
  <2> QED BY <2>1, LeastNatural
<1>3. m \in s
  <2> SUFFICES ASSUME m \notin s PROVE FALSE
    OBVIOUS
  <2>1. PICK y \in s : TRUE
    OBVIOUS
  <2>2. \A x \in s : x \in Nat /\ x <= m - 1
    BY <1>2
  <2>3. m - 1 \in Nat
    BY <1>2, <2>1, <2>2
  <2>4. m - 1 \in Above
    BY <2>2, <2>3
  <2>5. m <= m - 1
    BY <1>2, <2>4
  <2> QED BY <1>2, <2>5
<1>4. \A x \in s : m >= x
  BY <1>2
<1>5. Max(s) \in s /\ \A x \in s : Max(s) >= x
  BY <1>3, <1>4, Zenon DEF Max
<1> QED BY <1>5, <1>2

\* One row of the scan, from what the rows before it left.
LiveStep(procs, found, g) ==
  LET targets == Plan(g, procs).targets
  IN IF targets \subseteq found.shown THEN found
     ELSE [games |-> Append(found.games, g), shown |-> found.shown \cup targets]
LiveBase == [games |-> <<>>, shown |-> {}]

\* What the rows up to one leave found, as the function behind FoldLeft.
IsLiveFold(procs, f, s0) ==
  f = [s \in SUBSET s0 |-> IF s = {} THEN LiveBase ELSE LiveStep(procs, f[s \ {Max(s)}], Rows[Max(s)])]

\* There is such a function for any number of rows.
LEMMA LiveFoldExists ==
  ASSUME NEW procs, NEW n \in Nat
  PROVE  \E f : IsLiveFold(procs, f, 1 .. n)
<1> DEFINE Ok(k) == \E f : IsLiveFold(procs, f, 1 .. k)
           Bad == {k \in Nat : ~Ok(k)}
<1> SUFFICES ASSUME Bad # {} PROVE FALSE
  OBVIOUS
<1>1. PICK k \in Bad : \A j \in Bad : k <= j
  <2>1. Bad \in SUBSET Nat
    OBVIOUS
  <2> HIDE DEF Bad
  <2> QED BY <2>1, LeastNatural
<1>2. k # 0
  <2> SUFFICES ASSUME k = 0 PROVE FALSE
    OBVIOUS
  <2> DEFINE f == [s \in SUBSET (1 .. 0) |-> LiveBase]
  <2>1. \A s \in SUBSET (1 .. 0) : s = {}
    OBVIOUS
  <2>2. f = [s \in SUBSET (1 .. 0) |-> IF s = {} THEN LiveBase
                                       ELSE LiveStep(procs, f[s \ {Max(s)}], Rows[Max(s)])]
    BY <2>1
  <2>3. Ok(0)
    BY <2>2, Zenon DEF IsLiveFold
  <2> QED BY <1>1, <2>3
<1>3. k \in Nat /\ k - 1 \in Nat /\ Ok(k - 1)
  <2>1. k \in Nat /\ k - 1 \in Nat
    BY <1>2
  <2>2. k - 1 \notin Bad
    BY <1>1, <2>1
  <2> QED BY <2>1, <2>2
<1>4. PICK f : IsLiveFold(procs, f, 1 .. (k - 1))
  BY <1>3
<1> DEFINE Next0(s) == IF k \in s THEN LiveStep(procs, f[s \ {k}], Rows[k]) ELSE f[s]
           g == [s \in SUBSET (1 .. k) |-> Next0(s)]
<1>5. ASSUME NEW s \in SUBSET (1 .. k)
      PROVE  g[s] = IF s = {} THEN LiveBase ELSE LiveStep(procs, g[s \ {Max(s)}], Rows[Max(s)])
  <2>1. g[s] = Next0(s)
    OBVIOUS
  <2>2. CASE s = {}
    <3>1. s \in SUBSET (1 .. (k - 1)) /\ k \notin s
      BY <2>2
    <3>2. f[s] = LiveBase
      BY <1>4, <2>2, <3>1, Zenon DEF IsLiveFold
    <3> QED BY <2>1, <2>2, <3>1, <3>2
  <2>3. CASE k \in s
    <3>1. Max(s) = k
      <4>1. s # {} /\ k \in Nat
        BY <1>3, <2>3
      <4>2. Max(s) \in s /\ \A x \in s : x <= Max(s)
        <5>1. Max(s) \in s
          BY <1>3, <4>1, LastIndex
        <5>2. \A x \in s : x <= Max(s)
          BY <1>3, <4>1, LastIndex
        <5> QED BY <5>1, <5>2
      <4>3. \A x \in s : x \in Nat /\ x <= k
        BY <4>1
      <4>4. k \in s
        BY <2>3
      <4>5. k <= Max(s) /\ Max(s) <= k /\ Max(s) \in Nat /\ k \in Nat
        BY <4>1, <4>2, <4>3, <4>4, Zenon
      <4> QED BY <4>5
    <3>2. s \ {k} \in SUBSET (1 .. (k - 1)) /\ s \ {k} \in SUBSET (1 .. k)
      BY <1>3
    <3>3. g[s \ {k}] = f[s \ {k}]
      BY <3>2
    <3> QED BY <2>1, <2>3, <3>1, <3>3
  <2>4. CASE s # {} /\ k \notin s
    <3>1. s \in SUBSET (1 .. (k - 1))
      BY <1>3, <2>4
    <3>2. Max(s) \in s
      BY <1>3, <2>4, LastIndex
    <3>3. s \ {Max(s)} \in SUBSET (1 .. k) /\ k \notin s \ {Max(s)}
      BY <2>4
    <3>4. g[s \ {Max(s)}] = f[s \ {Max(s)}]
      BY <3>3
    <3>5. f[s] = LiveStep(procs, f[s \ {Max(s)}], Rows[Max(s)])
      BY <1>4, <2>4, <3>1, Zenon DEF IsLiveFold
    <3> QED BY <2>1, <2>4, <3>4, <3>5
  <2> QED BY <2>2, <2>3, <2>4
<1> HIDE DEF Next0
<1>6. IsLiveFold(procs, g, 1 .. k)
  <2> DEFINE h == [s \in SUBSET (1 .. k) |-> IF s = {} THEN LiveBase ELSE LiveStep(procs, g[s \ {Max(s)}], Rows[Max(s)])]
  <2>1. g = h
    BY <1>5, Zenon
  <2> QED BY <2>1, Zenon DEF IsLiveFold
<1> QED BY <1>1, <1>6

\* Row by row: the function behind the fold, from one row to the next.
LEMMA LiveGamesUnfold ==
  ASSUME NEW procs
  PROVE  \E f : /\ LiveGames(procs) = f[Len(Rows)].games
                /\ f[0] = LiveBase
                /\ \A n \in 1 .. Len(Rows) : f[n] = LiveStep(procs, f[n - 1], Rows[n])
<1> DEFINE D == DOMAIN Rows
           iter == CHOOSE f : IsLiveFold(procs, f, D)
           f == [n \in 0 .. Len(Rows) |-> iter[1 .. n]]
<1>1. D = 1 .. Len(Rows) /\ Len(Rows) \in Nat
  BY StopperAssumption
<1>2. LiveGames(procs) = iter[D].games
  BY Zenon DEF LiveGames, FoldLeft, MapThenFoldSet, LiveStep, LiveBase, IsLiveFold
<1>3. IsLiveFold(procs, iter, D)
  <2>1. \E h : IsLiveFold(procs, h, D)
    BY <1>1, LiveFoldExists
  <2> QED BY <2>1, Zenon
<1> HIDE DEF D, iter
<1>4. \A s \in SUBSET D : iter[s] = IF s = {} THEN LiveBase ELSE LiveStep(procs, iter[s \ {Max(s)}], Rows[Max(s)])
  BY <1>3, Zenon DEF IsLiveFold
<1>5. LiveGames(procs) = f[Len(Rows)].games
  BY <1>1, <1>2
<1>6. f[0] = LiveBase
  <2>1. 1 .. 0 = {} /\ 1 .. 0 \in SUBSET D
    OBVIOUS
  <2>2. f[0] = iter[1 .. 0]
    BY <1>1
  <2> QED BY <1>4, <2>1, <2>2
<1>7. ASSUME NEW n \in 1 .. Len(Rows) PROVE f[n] = LiveStep(procs, f[n - 1], Rows[n])
  <2>0. n \in Nat /\ n >= 1 /\ n <= Len(Rows)
    BY <1>1
  <2>1. n \in 1 .. n /\ 1 .. n \in SUBSET D /\ 1 .. n # {}
    BY <1>1, <2>0
  <2>2. Max(1 .. n) = n
    <3>1. 1 .. n \in SUBSET (1 .. n) /\ n \in Nat
      BY <1>1
    <3>2. Max(1 .. n) \in 1 .. n /\ \A x \in 1 .. n : x <= Max(1 .. n)
      BY <2>1, <3>1, LastIndex
    <3> QED BY <2>1, <3>1, <3>2
  <2>3. (1 .. n) \ {n} = 1 .. (n - 1)
    BY <1>1
  <2>4. f[n] = iter[1 .. n] /\ f[n - 1] = iter[1 .. (n - 1)]
    BY <1>1
  <2>5. iter[1 .. n] = LiveStep(procs, iter[(1 .. n) \ {n}], Rows[n])
    BY <1>4, <2>1, <2>2
  <2> QED BY <2>3, <2>4, <2>5
<1> HIDE DEF f
<1> QED BY <1>5, <1>6, <1>7

\* A process of a game that no guard names has something to be signalled.
LEMMA PlanNotEmpty ==
  ASSUME NEW g, NEW procs, NEW q \in procs, q.game = g, ~q.guarded
  PROVE  Plan(g, procs).targets # {}
<1> DEFINE mine == {r \in procs : r.game = g /\ ~r.guarded}
           inside == {r \in procs : r.scope = ScopeOf[g]}
           whole == ScopeOf[g] \in Scopes /\ mine \cap inside # {} /\ \A r \in inside : ~r.guarded
<1>1. Plan(g, procs) = IF whole THEN [targets |-> (mine \ inside) \cup {ScopeOf[g]}, witnesses |-> inside]
                       ELSE [targets |-> mine, witnesses |-> {}]
  BY Zenon DEF Plan
<1>2. q \in mine
  OBVIOUS
<1> HIDE DEF mine, inside, whole
<1> QED BY <1>1, <1>2

\* A scan that lists nothing has seen no process of a game that it may
\* signal, in any row of the library.
LEMMA EmptyScan ==
  ASSUME NEW procs, LiveGames(procs) = <<>>
  PROVE  \A q \in procs : q.game \in Library => q.guarded
<1>1. PICK f : /\ LiveGames(procs) = f[Len(Rows)].games
               /\ f[0] = LiveBase
               /\ \A n \in 1 .. Len(Rows) : f[n] = LiveStep(procs, f[n - 1], Rows[n])
  BY LiveGamesUnfold
<1> DEFINE Targets(n) == Plan(Rows[n], procs).targets
           Told(n) == /\ f[n].games \in Seq(Library)
                      /\ f[n].games = <<>> => f[n].shown = {} /\ \A i \in 1 .. n : Targets(i) = {}
           Bad == {n \in 0 .. Len(Rows) : ~Told(n)}
<1>2. Len(Rows) \in Nat /\ \A n \in 1 .. Len(Rows) : Rows[n] \in Library
  BY StopperAssumption
<1>3. Told(0)
  <2>1. f[0].games = <<>> /\ f[0].shown = {} /\ <<>> \in Seq(Library)
    BY <1>1 DEF LiveBase
  <2>2. 1 .. 0 = {}
    OBVIOUS
  <2> QED BY <2>1, <2>2
<1>4. ASSUME NEW n \in 1 .. Len(Rows), Told(n - 1) PROVE Told(n)
  <2> DEFINE was == f[n - 1]
             targets == Targets(n)
  <2>1. f[n] = IF targets \subseteq was.shown THEN was
               ELSE [games |-> Append(was.games, Rows[n]), shown |-> was.shown \cup targets]
    BY <1>1, Zenon DEF LiveStep
  <2>2. /\ was.games \in Seq(Library)
        /\ was.games = <<>> => was.shown = {} /\ \A i \in 1 .. (n - 1) : Targets(i) = {}
    BY <1>4
  <2>3. \A i \in 1 .. n : i \in 1 .. (n - 1) \/ i = n
    BY <1>2
  <2>4. Rows[n] \in Library /\ targets = Targets(n)
    BY <1>2
  <2> HIDE DEF was, targets, Targets
  <2>5. CASE targets \subseteq was.shown
    <3>1. f[n] = was
      BY <2>1, <2>5
    <3>2. was.games = <<>> => Targets(n) = {}
      BY <2>2, <2>4, <2>5
    <3> QED BY <2>2, <2>3, <3>1, <3>2
  <2>6. CASE ~(targets \subseteq was.shown)
    <3>1. f[n].games = Append(was.games, Rows[n])
      BY <2>1, <2>6
    <3>2. Append(was.games, Rows[n]) \in Seq(Library) /\ Append(was.games, Rows[n]) # <<>>
      BY <2>2, <2>4
    <3> QED BY <3>1, <3>2
  <2> QED BY <2>5, <2>6
<1> HIDE DEF Told
<1>5. Bad = {}
  <2> SUFFICES ASSUME Bad # {} PROVE FALSE
    OBVIOUS
  <2>1. Bad \in SUBSET Nat
    BY <1>2
  <2> HIDE DEF Bad
  <2>2. PICK n \in Bad : \A m \in Bad : n <= m
    BY <2>1, LeastNatural
  <2>3. n \in 0 .. Len(Rows) /\ ~Told(n)
    BY <2>2 DEF Bad
  <2>4. n \in 1 .. Len(Rows) /\ n - 1 \in 0 .. Len(Rows)
    BY <1>2, <1>3, <2>3
  <2>5. n - 1 \notin Bad
    BY <2>1, <2>2, <2>4
  <2>6. Told(n - 1)
    BY <2>4, <2>5 DEF Bad
  <2> QED BY <1>4, <2>3, <2>4, <2>6
<1>6. Told(Len(Rows))
  <2>1. Len(Rows) \in 0 .. Len(Rows)
    BY <1>2
  <2> QED BY <1>5, <2>1
<1>7. \A i \in 1 .. Len(Rows) : Targets(i) = {}
  BY <1>1, <1>6 DEF Told
<1>8. ASSUME NEW q \in procs, q.game \in Library PROVE q.guarded
  <2>1. PICK i \in 1 .. Len(Rows) : Rows[i] = q.game
    <3>1. PICK i \in DOMAIN Rows : Rows[i] = q.game
      BY <1>8, Zenon DEF Library, Range
    <3>2. DOMAIN Rows = 1 .. Len(Rows)
      BY StopperAssumption
    <3> QED BY <3>1, <3>2
  <2> SUFFICES ASSUME ~q.guarded PROVE FALSE
    OBVIOUS
  <2>2. Targets(i) # {}
    BY <2>1, PlanNotEmpty
  <2> QED BY <1>7, <2>2
<1> QED BY <1>8

-----------------------------------------------------------------------------
\* The scan a panel waits for.  What had been left running when the stop
\* was over is older than whatever starts, and a scan that may answer the
\* panel read /proc after that.
WaitTypes ==
  /\ service \in [busy : BOOLEAN, scanning : BOOLEAN, again : BOOLEAN]
  /\ scanner \in [at : {"none", "begun", "read"}, games : {scanner.games}]
  /\ panel \in [games : {panel.games}, pending : BOOLEAN, waiting : BOOLEAN,
                mode : {"session", "left"}, ran : {panel.ran}]

RanBefore ==
  \A q \in panel.ran : q.start \in Nat /\ q.start > may.starts /\ q.game \in Library /\ ~q.guarded

Awaited ==
  panel.waiting /\ scanner.at = "read" /\ ~service.again /\ scanner.games = <<>>
    => panel.ran \cap table = {}

WaitInv == WaitTypes /\ RanBefore /\ Awaited

\* At first nothing is waited for.
LEMMA WaitInit == StopperInit => WaitInv
BY DEF StopperInit, WaitInv, WaitTypes, RanBefore, Awaited, Unscanned, NewPanel

\* Processes may end while a panel waits.
LEMMA WaitSame ==
  ASSUME WaitInv, UNCHANGED <<service, scanner, panel>>, table' \subseteq table, may'.starts = may.starts
  PROVE  WaitInv'
BY DEF WaitInv, WaitTypes, RanBefore, Awaited

\* A panel that was closed waits for nothing.
LEMMA NewPanelWaits ==
  /\ NewPanel \in [games : {NewPanel.games}, pending : BOOLEAN, waiting : BOOLEAN,
                   mode : {"session", "left"}, ran : {NewPanel.ran}]
  /\ NewPanel.ran = {} /\ ~NewPanel.waiting /\ NewPanel.mode = "session"
BY DEF NewPanel

\* A request for a scan leaves the one under way alone, or it is begun.
LEMMA ScanAsked ==
  ASSUME WaitInv, NEW was, was \in [busy : BOOLEAN, scanning : BOOLEAN, again : BOOLEAN],
         was.scanning = service.scanning, was.again = service.again, NEW after \in BOOLEAN,
         service' = Refreshed(was, after), scanner' = Scanned(service)
  PROVE  /\ service' \in [busy : BOOLEAN, scanning : BOOLEAN, again : BOOLEAN]
         /\ scanner' \in [at : {"none", "begun", "read"}, games : {scanner'.games}]
         /\ scanner'.at = "read" =>
              scanner' = scanner /\ (service.again => service'.again) /\ (after => service'.again)
<1>1. CASE service.scanning
  <2>1. scanner' = scanner /\ service' = [was EXCEPT !.again = was.again \/ after]
    BY <1>1 DEF Refreshed, Scanned
  <2>2. /\ service' \in [busy : BOOLEAN, scanning : BOOLEAN, again : BOOLEAN]
        /\ service'.again = (was.again \/ after)
    BY <2>1, Zenon
  <2> QED BY <2>1, <2>2 DEF WaitInv, WaitTypes
<1>2. CASE ~service.scanning
  <2>1. scanner' = [Unscanned EXCEPT !.at = "begun"] /\ service' = [was EXCEPT !.scanning = TRUE]
    BY <1>2 DEF Refreshed, Scanned
  <2>2. service' \in [busy : BOOLEAN, scanning : BOOLEAN, again : BOOLEAN]
    BY <2>1
  <2>3. scanner' \in [at : {"none", "begun", "read"}, games : {scanner'.games}] /\ scanner'.at = "begun"
    BY <2>1 DEF Unscanned
  <2> QED BY <2>2, <2>3
<1> QED BY <1>1, <1>2

\* A stop that is over has what still runs noted, and asks for a scan that
\* begins after it.
LEMMA WaitPublished ==
  ASSUME StopInv, WaitInv, Publish
  PROVE  WaitInv'
<1> DEFINE idle == [service EXCEPT !.busy = FALSE]
           running == {q \in table : q.game # NoGame /\ ~q.guarded}
<1>1. UNCHANGED <<table, may>>
  BY DEF Publish
<1>2. /\ idle \in [busy : BOOLEAN, scanning : BOOLEAN, again : BOOLEAN]
      /\ idle.scanning = service.scanning /\ idle.again = service.again
  BY DEF WaitInv, WaitTypes
<1>3. running \subseteq table
      /\ \A q \in running : q.start \in Nat /\ q.start > may.starts /\ q.game \in Library /\ ~q.guarded
  BY DEF StopInv, StopTypes, NamedOnce, Processes
<1>4. CASE panel.pending /\ worker.okay
  <2>1. /\ panel' = [panel EXCEPT !.waiting = TRUE, !.ran = running]
        /\ service' = Refreshed(idle, TRUE) /\ scanner' = Scanned(service)
    BY <1>4 DEF Publish
  <2> HIDE DEF idle, running
  <2>2. /\ service' \in [busy : BOOLEAN, scanning : BOOLEAN, again : BOOLEAN]
        /\ scanner' \in [at : {"none", "begun", "read"}, games : {scanner'.games}]
        /\ scanner'.at = "read" => service'.again
    BY <1>2, <2>1, ScanAsked
  <2>3. /\ panel' \in [games : {panel'.games}, pending : BOOLEAN, waiting : BOOLEAN,
                       mode : {"session", "left"}, ran : {panel'.ran}]
        /\ panel'.ran = running
    BY <2>1 DEF WaitInv, WaitTypes
  <2> QED BY <1>1, <1>3, <2>2, <2>3 DEF WaitInv, WaitTypes, RanBefore, Awaited
<1>5. CASE ~(panel.pending /\ worker.okay)
  <2>1. panel' = [panel EXCEPT !.pending = FALSE] /\ service' = idle /\ scanner' = scanner
    BY <1>5 DEF Publish
  <2>2. /\ panel' \in [games : {panel'.games}, pending : BOOLEAN, waiting : BOOLEAN,
                       mode : {"session", "left"}, ran : {panel'.ran}]
        /\ panel'.ran = panel.ran /\ panel'.waiting = panel.waiting
    BY <2>1 DEF WaitInv, WaitTypes
  <2> HIDE DEF idle
  <2> QED BY <1>1, <1>2, <2>1, <2>2 DEF WaitInv, WaitTypes, RanBefore, Awaited
<1> QED BY <1>4, <1>5

\* A scan that reads an empty list has read that of what was running the
\* panel's none is left.
LEMMA WaitReads ==
  ASSUME WaitInv, ScanReads
  PROVE  WaitInv'
<1>1. /\ scanner' = [at |-> "read", games |-> LiveGames(table)]
      /\ UNCHANGED <<table, may, service, panel>>
  BY DEF ScanReads
<1>2. scanner'.games = <<>> => panel.ran \cap table = {}
  <2> SUFFICES ASSUME LiveGames(table) = <<>> PROVE panel.ran \cap table = {}
    BY <1>1
  <2>1. \A q \in table : q.game \in Library => q.guarded
    BY EmptyScan
  <2> QED BY <2>1 DEF WaitInv, RanBefore
<1> QED BY <1>1, <1>2 DEF WaitInv, WaitTypes, RanBefore, Awaited

\* A scan that is over has answered the panel, or is begun again.
LEMMA WaitScanEnds ==
  ASSUME WaitInv, ScanEnds
  PROVE  WaitInv'
<1>1. scanner'.at # "read" /\ UNCHANGED <<table, may>>
      /\ scanner' \in [at : {"none", "begun", "read"}, games : {scanner'.games}]
  BY DEF ScanEnds, Unscanned
<1>2. service' \in [busy : BOOLEAN, scanning : BOOLEAN, again : BOOLEAN]
  BY DEF ScanEnds, WaitInv, WaitTypes
<1>3. /\ panel' \in [games : {panel'.games}, pending : BOOLEAN, waiting : BOOLEAN,
                     mode : {"session", "left"}, ran : {panel'.ran}]
      /\ panel'.ran \subseteq panel.ran
  <2>1. CASE panel' = panel
    BY <2>1 DEF WaitInv, WaitTypes
  <2>2. CASE panel' = Heard(panel, scanner)
    <3>1. CASE panel.waiting
      <4>1. panel' = [NewPanel EXCEPT !.mode = IF scanner.games = <<>> THEN "left" ELSE NewPanel.mode]
        BY <2>2, <3>1 DEF Heard
      <4> QED BY <4>1, NewPanelWaits
    <3>2. CASE ~panel.waiting
      <4>1. panel' = panel \/ panel' = [panel EXCEPT !.games = scanner.games]
        BY <2>2, <3>2 DEF Heard
      <4> QED BY <2>1, <4>1 DEF WaitInv, WaitTypes
    <3> QED BY <3>1, <3>2
  <2> QED BY <2>1, <2>2 DEF ScanEnds
<1> QED BY <1>1, <1>2, <1>3 DEF WaitInv, WaitTypes, RanBefore, Awaited

\* One step per action.
LEMMA WaitStep == StopInv /\ WaitInv /\ [StopperNext]_stopperVars => WaitInv'
<1> SUFFICES ASSUME StopInv, WaitInv, [StopperNext]_stopperVars PROVE WaitInv'
  OBVIOUS
<1>0. may.starts \in Nat
  BY DEF StopInv, StopTypes
<1>1. CASE UNCHANGED stopperVars
  BY <1>1, WaitSame DEF stopperVars
<1>2. ASSUME NEW pid \in Pids, ProcessStarts(pid) PROVE WaitInv'
  <2>1. PICK k : table' = table \cup {[pid |-> pid, start |-> may.starts, game |-> k.game,
                                       scope |-> k.scope, guarded |-> k.guarded]}
    BY <1>2 DEF ProcessStarts
  <2>2. /\ \A q \in table' : q \in table \/ q.start = may.starts
        /\ may'.starts = may.starts - 1 /\ UNCHANGED <<service, scanner, panel>>
    BY <1>2, <2>1 DEF ProcessStarts, StopInv, StopTypes
  <2>3. panel.ran \cap table' \subseteq panel.ran \cap table
    BY <1>0, <2>2 DEF WaitInv, RanBefore
  <2>4. RanBefore'
    <3>1. ASSUME NEW q \in panel.ran PROVE q.start > may'.starts
      BY <1>0, <2>2, <3>1 DEF WaitInv, RanBefore
    <3> QED BY <2>2, <3>1 DEF WaitInv, RanBefore
  <2> QED BY <2>2, <2>3, <2>4 DEF WaitInv, WaitTypes, Awaited
<1>3. CASE \E q \in table : ProcessEnds(q)
  <2>1. table' \subseteq table /\ UNCHANGED <<service, scanner, panel, may>>
    BY <1>3 DEF ProcessEnds
  <2> QED BY <2>1, WaitSame
<1>4. CASE ScanReads \/ ScanEnds \/ Publish
  BY <1>4, WaitReads, WaitScanEnds, WaitPublished
<1>5. CASE Open
  <2>1. /\ service' = Refreshed(service, FALSE) /\ scanner' = Scanned(service)
        /\ UNCHANGED <<table, may, panel>>
    BY <1>5 DEF Open
  <2>2. /\ service' \in [busy : BOOLEAN, scanning : BOOLEAN, again : BOOLEAN]
        /\ scanner' \in [at : {"none", "begun", "read"}, games : {scanner'.games}]
        /\ scanner'.at = "read" => scanner' = scanner /\ (service.again => service'.again)
    BY <2>1, ScanAsked DEF WaitInv, WaitTypes
  <2> QED BY <2>1, <2>2 DEF WaitInv, WaitTypes, RanBefore, Awaited
<1>6. CASE SessionEnds
  BY <1>6, NewPanelWaits DEF SessionEnds, WaitInv, WaitTypes, RanBefore, Awaited
<1>7. CASE Confirm
  <2>1. CASE service.busy
    <3>1. /\ service' = Refreshed(service, FALSE) /\ scanner' = Scanned(service)
          /\ UNCHANGED <<table, may>> /\ panel' = NewPanel
      BY <1>7, <2>1 DEF Confirm
    <3>2. /\ service' \in [busy : BOOLEAN, scanning : BOOLEAN, again : BOOLEAN]
          /\ scanner' \in [at : {"none", "begun", "read"}, games : {scanner'.games}]
      BY <3>1, ScanAsked DEF WaitInv, WaitTypes
    <3> QED BY <3>1, <3>2, NewPanelWaits DEF WaitInv, WaitTypes, RanBefore, Awaited
  <2>2. CASE ~service.busy
    <3>1. /\ service' = [service EXCEPT !.busy = TRUE] /\ panel' = [NewPanel EXCEPT !.pending = TRUE]
          /\ scanner' = scanner /\ may' = [may EXCEPT !.stops = @ - 1]
      BY <1>7, <2>2 DEF Confirm, BeginStop
    <3>2. /\ panel' \in [games : {panel'.games}, pending : BOOLEAN, waiting : BOOLEAN,
                         mode : {"session", "left"}, ran : {panel'.ran}]
          /\ panel'.ran = {} /\ ~panel'.waiting
      BY <3>1, NewPanelWaits
    <3> QED BY <3>1, <3>2 DEF WaitInv, WaitTypes, RanBefore, Awaited
  <2> QED BY <2>1, <2>2
<1>8. CASE \E g \in Library : StopOne(g)
  <2>1. /\ service' = [service EXCEPT !.busy = TRUE] /\ may' = [may EXCEPT !.stops = @ - 1]
        /\ UNCHANGED <<table, scanner, panel>>
    BY <1>8 DEF StopOne, BeginStop
  <2>2. may'.starts = may.starts
    BY <2>1 DEF StopInv, StopTypes
  <2> QED BY <2>1, <2>2 DEF WaitInv, WaitTypes, RanBefore, Awaited
<1>9. CASE CancelStop \/ NextGame \/ Escalate \/ Checked \/ Report
  <2>1. UNCHANGED <<table, may, service, scanner, panel>>
    BY <1>9 DEF CancelStop, NextGame, Escalate, Checked, Report
  <2> QED BY <2>1, WaitSame
<1>10. CASE \E t \in worker.todo : AlreadyGone(t) \/ AskProcesses(t) \/ AskTool(t) \/ ForceProcesses(t)
  <2>1. UNCHANGED <<table, may, service, scanner, panel>>
    BY <1>10 DEF AlreadyGone, AskProcesses, AskTool, ForceProcesses
  <2> QED BY <2>1, WaitSame
<1> QED BY <1>1, <1>2, <1>3, <1>4, <1>5, <1>6, <1>7, <1>8, <1>9, <1>10 DEF StopperNext

\* Stop Games and Leave leaves only when every process of a game that was
\* running when the stop was over has ended too.
THEOREM LeavesNoneBehindHolds == StopperSpec => LeavesNoneBehind
<1>1. ASSUME WaitInv, [StopperNext]_stopperVars
      PROVE  [panel'.mode = "left" => panel.ran \cap table = {}]_stopperVars
  <2> SUFFICES ASSUME StopperNext, panel'.mode = "left" PROVE panel.ran \cap table = {}
    BY <1>1
  <2>1. panel.mode = "session"
    BY DEF StopperNext
  <2>2. CASE ScanEnds
    <3>1. panel' # panel
      BY <2>1
    <3>2. ~service.again /\ scanner.at = "read" /\ panel' = Heard(panel, scanner)
      BY <2>2, <3>1 DEF ScanEnds
    <3>3. panel.waiting /\ scanner.games = <<>>
      <4>1. CASE panel.waiting
        <5>1. panel' = [NewPanel EXCEPT !.mode = IF scanner.games = <<>> THEN "left" ELSE NewPanel.mode]
          BY <3>2, <4>1 DEF Heard
        <5> QED BY <4>1, <5>1, NewPanelWaits
      <4>2. CASE ~panel.waiting
        <5>1. panel' = panel \/ panel' = [panel EXCEPT !.games = scanner.games]
          BY <3>2, <4>2 DEF Heard
        <5> QED BY <2>1, <5>1, <1>1 DEF WaitInv, WaitTypes
      <4> QED BY <4>1, <4>2
    <3> QED BY <1>1, <3>2, <3>3 DEF WaitInv, Awaited
  <2>3. CASE panel' = panel
    BY <2>1, <2>3
  <2>4. CASE panel'.mode = "session"
    BY <2>4
  <2>5. ASSUME Confirm \/ SessionEnds PROVE panel'.mode = "session"
    BY <2>5, NewPanelWaits DEF Confirm, SessionEnds
  <2>6. ASSUME Publish PROVE panel'.mode = panel.mode
    BY <2>6, <1>1 DEF Publish, WaitInv, WaitTypes
  <2> QED BY <2>1, <2>2, <2>3, <2>5, <2>6
          DEF StopperNext, ProcessStarts, ProcessEnds, ScanReads, Open, StopOne, CancelStop, NextGame,
              Escalate, Checked, Report, AlreadyGone, AskProcesses, AskTool, ForceProcesses
<1> QED BY <1>1, StopInit, WaitInit, StopStep, WaitStep, PTL DEF StopperSpec, LeavesNoneBehind
=============================================================================
