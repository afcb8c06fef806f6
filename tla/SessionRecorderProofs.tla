------------------------- MODULE SessionRecorderProofs -------------------------
\* Proofs about the recorder of play sessions.
\*
\* A step is described by what it may do (Acts): write for the sessions of
\* a few keys K, at one slot sl, through row identifiers I; queue and
\* journal them there; file them there in memory; and compact only keys
\* marked for it.  Each operator of the model is shown to stay within
\* that, then each action (NextActs).  The rest argues from Acts:
\*
\*   Rooted           the row of an active session is its own and there;
\*   Followed         a session is named at one slot that is present, and
\*                    active at no other;
\*   DroppedForCause  a key to compact has a row, or was deleted.
\*
\* The second half argues from an account of play that no play is invented.
EXTENDS SessionRecorder, FiniteSetTheorems, SequenceTheorems, WellFoundedInduction, TLAPS

\* What storage holds, well formed: rows and operations have their types,
\* an operation is filed under its own key, and no two rows share an
\* identifier.
Storage ==
  [rows : [Keys -> Rows \cup {NoRow}], journal : [Keys -> Operations \cup {NoOp}],
   jok : BOOLEAN, cost : Nat]

StorageOK(st) ==
  /\ st \in Storage
  /\ \A k \in Keys : st.journal[k] # NoOp => st.journal[k].key = k
  /\ \A k, l \in Keys : st.rows[k] # NoRow /\ st.rows[l] # NoRow /\ st.rows[k].id = st.rows[l].id => k = l
  /\ \E b \in Nat : \A k \in Keys : st.rows[k] # NoRow => st.rows[k].id <= b

\* What the sessions of the keys in K, at slot sl, whose rows are among I,
\* may do to storage, by writing and by compacting.
Writes(st, t, K, sl, I) ==
  /\ StorageOK(t)
  /\ \A l \in Keys : t.journal[l] # st.journal[l] /\ t.journal[l] # NoOp => l \in K /\ t.journal[l].slot = sl
  /\ \A l \in Keys : st.rows[l] # NoRow =>
       /\ t.rows[l] # NoRow /\ t.rows[l].id = st.rows[l].id
       /\ t.rows[l].slot # st.rows[l].slot => t.rows[l].slot = sl /\ (l \in K \/ st.rows[l].id \in I)
  /\ \A l \in Keys : st.rows[l] = NoRow /\ t.rows[l] # NoRow => l \in K /\ t.rows[l].slot = sl

\* By writing alone.
Extends(st, t, K, sl, I) ==
  /\ Writes(st, t, K, sl, I)
  /\ \A l \in Keys : st.journal[l] # NoOp => t.journal[l] # NoOp

\* Without journaling.
Alters(st, t, K, sl, I) ==
  /\ Extends(st, t, K, sl, I)
  /\ t.journal = st.journal /\ t.jok = st.jok

-----------------------------------------------------------------------------
\* To leave storage alone is to write nothing.
LEMMA ExtendsSelf ==
  ASSUME NEW st, StorageOK(st), NEW K, NEW sl, NEW I
  PROVE  Alters(st, st, K, sl, I)
BY DEF Alters, Extends, Writes

\* What writes do one after the other, they do together.
LEMMA ExtendsOn ==
  ASSUME NEW st, NEW t, NEW u, NEW K, NEW sl, NEW I,
         Extends(st, t, K, sl, I), Extends(t, u, K, sl, I)
  PROVE  Extends(st, u, K, sl, I)
<1>1. ASSUME NEW l \in Keys, st.rows[l] = NoRow, u.rows[l] # NoRow
      PROVE  l \in K /\ u.rows[l].slot = sl
  BY <1>1 DEF Extends, Writes
<1>2. ASSUME NEW l \in Keys, st.rows[l] # NoRow
      PROVE  /\ u.rows[l] # NoRow /\ u.rows[l].id = st.rows[l].id
             /\ u.rows[l].slot # st.rows[l].slot => u.rows[l].slot = sl /\ (l \in K \/ st.rows[l].id \in I)
  BY <1>2 DEF Extends, Writes
<1>3. ASSUME NEW l \in Keys, u.journal[l] # st.journal[l], u.journal[l] # NoOp
      PROVE  l \in K /\ u.journal[l].slot = sl
  BY <1>3 DEF Extends, Writes
<1>4. \A l \in Keys : st.journal[l] # NoOp => u.journal[l] # NoOp
  BY DEF Extends
<1> QED BY <1>1, <1>2, <1>3, <1>4 DEF Extends, Writes

\* So it is for writes that leave the journal alone.
LEMMA AltersOn ==
  ASSUME NEW st, NEW t, NEW u, NEW K, NEW sl, NEW I,
         Alters(st, t, K, sl, I), Alters(t, u, K, sl, I)
  PROVE  Alters(st, u, K, sl, I)
BY ExtendsOn DEF Alters

\* A refused write changes what it costs and nothing else.
LEMMA RefusedOn ==
  ASSUME NEW st, NEW t, NEW K, NEW sl, NEW I, Extends(st, t, K, sl, I)
  PROVE  /\ Extends(st, Refused(t), K, sl, I)
         /\ Refused(t).rows = t.rows /\ Refused(t).journal = t.journal /\ Refused(t).jok = t.jok
<1>1. t \in Storage
  BY DEF Extends, Writes, StorageOK
<1>2. /\ Refused(t).rows = t.rows /\ Refused(t).journal = t.journal /\ Refused(t).jok = t.jok
      /\ Refused(t) \in Storage
  BY <1>1 DEF Refused, Storage
<1> HIDE DEF Refused
<1> QED BY <1>2 DEF Extends, Writes, StorageOK

\* Neither a storage that is left alone nor one that refused a write is
\* altered.
LEMMA AltersNot ==
  ASSUME NEW st, StorageOK(st), NEW K, NEW sl, NEW I
  PROVE  /\ Alters(st, st, K, sl, I) /\ Alters(st, Refused(st), K, sl, I)
         /\ Refused(st).rows = st.rows /\ StorageOK(Refused(st))
<1>1. Extends(st, st, K, sl, I) /\ Alters(st, st, K, sl, I)
  BY ExtendsSelf DEF Alters
<1> QED BY <1>1, RefusedOn DEF Alters, Extends, Writes

\* One row written: a new one of a session of K, with an identifier that
\* is free, or one that keeps its identifier and may move to sl.
LEMMA RowWritten ==
  ASSUME NEW st, StorageOK(st), NEW l \in Keys, NEW row \in Rows, NEW K, NEW sl, NEW I,
         IF st.rows[l] = NoRow THEN l \in K /\ row.slot = sl /\ row.id \notin IdIn(st)
         ELSE row.id = st.rows[l].id /\ (row.slot = st.rows[l].slot \/ (row.slot = sl /\ (l \in K \/ row.id \in I)))
  PROVE  /\ Alters(st, PutRow(st, l, row), K, sl, I)
         /\ PutRow(st, l, row).rows[l] = row /\ \A m \in Keys \ {l} : PutRow(st, l, row).rows[m] = st.rows[m]
<1> DEFINE t == PutRow(st, l, row)
<1>1. st \in Storage
  BY DEF StorageOK
<1>2. /\ t \in Storage /\ t.rows[l] = row /\ t.journal = st.journal /\ t.jok = st.jok
      /\ \A m \in Keys \ {l} : t.rows[m] = st.rows[m]
  BY <1>1 DEF Storage, PutRow
<1> HIDE DEF t
<1>3. row # NoRow /\ row.id \in Nat
  BY NothingAssumption DEF Rows
<1>4. \E b \in Nat : \A m \in Keys : t.rows[m] # NoRow => t.rows[m].id <= b
  <2>1. PICK b \in Nat : \A m \in Keys : st.rows[m] # NoRow => st.rows[m].id <= b
    BY DEF StorageOK
  <2> DEFINE c == IF row.id > b THEN row.id ELSE b
  <2>2. c \in Nat /\ b <= c /\ row.id <= c
    BY <1>3
  <2> HIDE DEF c
  <2>3. \A m \in Keys : t.rows[m] # NoRow => t.rows[m].id <= c
    <3> TAKE m \in Keys
    <3>1. CASE m = l
      BY <1>2, <2>2, <3>1
    <3>2. CASE m # l /\ st.rows[m] # NoRow
      <4>1. st.rows[m].id \in Nat /\ st.rows[m].id <= b
        BY <1>1, <2>1, <3>2 DEF Storage, Rows
      <4> QED BY <1>2, <2>2, <3>2, <4>1
    <3> QED BY <1>2, <3>1, <3>2
  <2> QED BY <2>2, <2>3
<1>5. \A m, n \in Keys : t.rows[m] # NoRow /\ t.rows[n] # NoRow /\ t.rows[m].id = t.rows[n].id => m = n
  BY <1>2 DEF StorageOK, IdIn
<1>6. StorageOK(t)
  BY <1>2, <1>4, <1>5 DEF StorageOK
<1>7. Alters(st, t, K, sl, I)
  BY <1>2, <1>3, <1>6 DEF Alters, Extends, Writes
<1> QED BY <1>2, <1>7 DEF t

\* One operation journaled, over the one of its key.
LEMMA OpWritten ==
  ASSUME NEW st, StorageOK(st), NEW o \in Operations, NEW K, NEW I, o.key \in K
  PROVE  /\ Extends(st, [st EXCEPT !.journal[o.key] = o], K, o.slot, I)
         /\ [st EXCEPT !.journal[o.key] = o].rows = st.rows
<1> DEFINE t == [st EXCEPT !.journal[o.key] = o]
<1>1. st \in Storage /\ o # NoOp /\ o.key \in Keys
  BY NothingAssumption DEF StorageOK, Operations
<1>2. /\ t \in Storage /\ t.rows = st.rows /\ t.journal[o.key] = o /\ t.jok = st.jok
      /\ \A m \in Keys \ {o.key} : t.journal[m] = st.journal[m]
  BY <1>1 DEF Storage
<1> HIDE DEF t
<1>3. Extends(st, t, K, o.slot, I)
  BY <1>1, <1>2 DEF Extends, Writes, StorageOK
<1> QED BY <1>2, <1>3 DEF t

-----------------------------------------------------------------------------
\* A set of naturals that is not empty has a least element.
LEMMA LeastOf ==
  ASSUME NEW T \in SUBSET Nat, T # {}
  PROVE  \E m \in T : \A x \in T : m <= x
<1> DEFINE R == {ss \in Nat \X Nat : ss[1] < ss[2]}
<1>1. IsWellFoundedOn(R, Nat)
  BY NatLessThanWellFounded DEF OpToRel
<1>2. \E m \in T : \A x \in T : ~(<<x, m>> \in R)
  <2> HIDE DEF R
  <2> QED BY <1>1, WFMin
<1>3. PICK m \in T : \A x \in T : ~(<<x, m>> \in R)
  BY <1>2
<1>4. \A x \in T : m <= x
  <2> TAKE x \in T
  <2>1. m \in Nat /\ x \in Nat
    OBVIOUS
  <2>2. CASE x < m
    <3> DEFINE ss == <<x, m>>
    <3>1. ss \in Nat \X Nat /\ ss[1] = x /\ ss[2] = m
      BY <2>1
    <3>2. ss \in R
      BY <2>2, <3>1
    <3> QED BY <1>3, <3>2
  <2> QED BY <2>1, <2>2
<1> QED BY <1>4

\* A new row takes an identifier that no row has: NextId is above all of
\* them.
LEMMA NextIdIsNew ==
  ASSUME NEW st, StorageOK(st)
  PROVE  NextId(st) \in Nat \ {0} /\ NextId(st) \notin IdIn(st)
<1> DEFINE T == {0} \cup IdIn(st)
<1>1. T \in SUBSET Nat
  BY DEF IdIn, StorageOK, Storage, Rows
<1>2. PICK b \in Nat : \A x \in T : x <= b
  BY DEF IdIn, StorageOK
<1> DEFINE D == {n \in Nat : b - n \in T}
<1> HIDE DEF T
<1>3. D # {}
  <2>1. b - b = 0 /\ 0 \in T
    BY <1>2 DEF T
  <2> QED BY <2>1
<1>4. PICK d \in D : \A n \in D : d <= n
  BY <1>3, LeastOf
<1> DEFINE x == b - d
<1>5. x \in T /\ \A y \in T : x >= y
  <2>1. x \in T
    BY <1>4
  <2>2. ASSUME NEW y \in T PROVE x >= y
    <3>1. y \in Nat /\ y <= b
      BY <1>1, <1>2
    <3>2. b - y \in Nat /\ b - (b - y) = y
      BY <3>1
    <3>3. b - y \in D
      BY <3>2
    <3>4. d \in Nat /\ d <= b - y
      BY <1>4, <3>3
    <3> QED BY <3>1, <3>4
  <2> QED BY <2>1, <2>2
<1> HIDE DEF x
<1>6. Max(T) \in T /\ \A y \in T : Max(T) >= y
  BY <1>5 DEF Max
<1>7. NextId(st) = Max(T) + 1
  BY DEF NextId, T
<1>8. NextId(st) \in Nat \ {0} /\ NextId(st) \notin T
  <2>1. PICK m \in T : m = Max(T) /\ \A y \in T : m >= y
    BY <1>6
  <2>2. m \in Nat /\ NextId(st) = m + 1
    BY <1>1, <1>7, <2>1
  <2>3. m + 1 \notin T
    BY <2>1, <2>2
  <2> QED BY <2>2, <2>3
<1> QED BY <1>8 DEF T

-----------------------------------------------------------------------------
\* The row with an identifier is that of one key.
LEMMA RowIs ==
  ASSUME NEW st, StorageOK(st), NEW i \in IdIn(st)
  PROVE  /\ KeyOf(st, i) \in Keys /\ st.rows[KeyOf(st, i)] = RowOf(st, i)
         /\ RowOf(st, i) \in Rows /\ RowOf(st, i) # NoRow /\ RowOf(st, i).id = i
<1>1. \E k \in Keys : st.rows[k] # NoRow /\ st.rows[k].id = i
  BY DEF IdIn
<1>2. KeyOf(st, i) \in Keys /\ st.rows[KeyOf(st, i)] # NoRow /\ st.rows[KeyOf(st, i)].id = i
  BY <1>1 DEF KeyOf
<1>3. st.rows[KeyOf(st, i)] \in Rows
  BY <1>2 DEF StorageOK, Storage
<1> QED BY <1>2, <1>3 DEF RowOf

\* A row changed in place keeps its identifier, and moves to sl only for K
\* or I.
LEMMA RowAltered ==
  ASSUME NEW st, StorageOK(st), NEW l \in Keys, NEW row \in Rows, NEW K, NEW sl, NEW I,
         st.rows[l] # NoRow, row.id = st.rows[l].id,
         row.slot = st.rows[l].slot \/ (row.slot = sl /\ (l \in K \/ row.id \in I))
  PROVE  /\ Alters(st, PutRow(st, l, row), K, sl, I)
         /\ PutRow(st, l, row).rows[l] = row /\ \A m \in Keys \ {l} : PutRow(st, l, row).rows[m] = st.rows[m]
BY RowWritten

\* A row identifier that may be written for K: one of I, or that of a row
\* of K.
Owns(st, i, K, I) == i \in I \/ \A k \in Keys : st.rows[k] # NoRow /\ st.rows[k].id = i => k \in K

\* An UPDATE by identifier alters the row with that identifier, or
\* nothing.
LEMMA UpdateOn ==
  ASSUME NEW st, StorageOK(st), NEW i, NEW row, NEW K, NEW sl, NEW I,
         i \in IdIn(st) => /\ row \in Rows /\ row.id = i
                           /\ (row.slot = RowOf(st, i).slot \/ (row.slot = sl /\ Owns(st, i, K, I)))
  PROVE  \A u \in Update(st, i, row) : Alters(st, u.st, K, sl, I)
<1>0. /\ Alters(st, st, K, sl, I) /\ Alters(st, Refused(st), K, sl, I)
      /\ Refused(st).rows = st.rows
  BY AltersNot
<1>1. CASE i \notin IdIn(st)
  BY <1>0, <1>1 DEF Update, No
<1>2. CASE i \in IdIn(st)
  <2> DEFINE k == KeyOf(st, i)
             t == PutRow(st, k, row)
  <2>1. /\ k \in Keys /\ st.rows[k] # NoRow /\ st.rows[k].id = i /\ RowOf(st, i).slot = st.rows[k].slot
    BY <1>2, RowIs
  <2>2. \A u \in Update(st, i, row) : u.st = Refused(st) \/ u.st = t
    BY <1>2 DEF Update, No, Yes, PutRow
  <2> HIDE DEF k
  <2>3. row.slot = st.rows[k].slot \/ (row.slot = sl /\ (k \in K \/ row.id \in I))
    BY <1>2, <2>1 DEF Owns
  <2>4. Alters(st, t, K, sl, I) /\ \A m \in Keys \ {k} : t.rows[m] = st.rows[m]
    BY <1>2, <2>1, <2>3, RowAltered
  <2> HIDE DEF t
  <2> QED BY <1>0, <2>2, <2>4
<1> QED BY <1>1, <1>2

\* It leaves every other row alone.
LEMMA UpdateOthers ==
  ASSUME NEW st, StorageOK(st), NEW i, NEW row, NEW u \in Update(st, i, row),
         NEW l \in Keys, st.rows[l] # NoRow, st.rows[l].id # i
  PROVE  u.st.rows[l] = st.rows[l]
<1>1. st \in Storage /\ Refused(st).rows = st.rows
  BY RefusedOn, ExtendsSelf DEF StorageOK, Alters
<1>2. CASE u = No(st) \/ u = No(Refused(st))
  BY <1>1, <1>2 DEF No
<1>3. CASE u = Yes([st EXCEPT !.rows[KeyOf(st, i)] = row]) /\ i \in IdIn(st)
  <2> DEFINE k == KeyOf(st, i)
  <2>1. k # l /\ k \in Keys
    BY <1>3, RowIs
  <2> HIDE DEF k
  <2>2. u.st = [st EXCEPT !.rows[k] = row]
    BY <1>3 DEF Yes, k
  <2> QED BY <1>1, <2>1, <2>2 DEF Storage
<1> QED BY <1>2, <1>3 DEF Update

\* Progress moves no row to another slot.
LEMMA ProgressOn ==
  ASSUME NEW st, StorageOK(st), NEW i, NEW K, NEW sl, NEW I, NEW secs \in Int, now \in Int
  PROVE  \A u \in Progress(st, i, secs) : Alters(st, u.st, K, sl, I)
<1> DEFINE r == RowOf(st, i)
<1>0. i \in IdIn(st) => r \in Rows /\ r.id = i
  BY RowIs
<1> HIDE DEF r
<1> DEFINE row == [r EXCEPT !.secs = secs, !.beat = now]
<1>1. i \in IdIn(st) => row \in Rows /\ row.id = i /\ row.slot = r.slot
  BY <1>0 DEF Rows
<1>2. Progress(st, i, secs) = Update(st, i, row)
  BY DEF Progress, r
<1> HIDE DEF row
<1>3. i \in IdIn(st) => /\ row \in Rows /\ row.id = i
                         /\ (row.slot = RowOf(st, i).slot \/ (row.slot = sl /\ Owns(st, i, K, I)))
  BY <1>1 DEF r
<1>4. \A u \in Update(st, i, row) : Alters(st, u.st, K, sl, I)
  BY <1>3, UpdateOn
<1> QED BY <1>2, <1>4

\* Nor does the end of a session.
LEMMA EndOn ==
  ASSUME NEW st, StorageOK(st), NEW i, NEW K, NEW sl, NEW I, NEW end \in Int, NEW secs \in Int
  PROVE  \A u \in End(st, i, end, secs) : Alters(st, u.st, K, sl, I)
<1> DEFINE r == RowOf(st, i)
<1>0. i \in IdIn(st) => r \in Rows /\ r.id = i
  BY RowIs
<1> HIDE DEF r
<1> DEFINE row == [r EXCEPT !.end = end, !.secs = secs]
<1>1. i \in IdIn(st) => row \in Rows /\ row.id = i /\ row.slot = r.slot
  BY <1>0 DEF Rows
<1>2. End(st, i, end, secs) = Update(st, i, row)
  BY DEF End, r
<1> HIDE DEF row
<1>3. i \in IdIn(st) => /\ row \in Rows /\ row.id = i
                         /\ (row.slot = RowOf(st, i).slot \/ (row.slot = sl /\ Owns(st, i, K, I)))
  BY <1>1 DEF r
<1>4. \A u \in Update(st, i, row) : Alters(st, u.st, K, sl, I)
  BY <1>3, UpdateOn
<1> QED BY <1>2, <1>4

\* The move of a row to another process is a move to sl, of a row that may
\* be written.
LEMMA MoveOn ==
  ASSUME NEW st, StorageOK(st), NEW i, NEW K, NEW sl \in Slots, NEW I, Owns(st, i, K, I)
  PROVE  \A u \in Move(st, i, sl) : Alters(st, u.st, K, sl, I) /\ u.ok \in BOOLEAN
<1> DEFINE r == RowOf(st, i)
<1>0. i \in IdIn(st) => r \in Rows /\ r.id = i
  BY RowIs
<1> HIDE DEF r
<1> DEFINE row == [r EXCEPT !.slot = sl]
<1>1. i \in IdIn(st) => row \in Rows /\ row.id = i /\ row.slot = sl
  BY <1>0 DEF Rows
<1>2. Move(st, i, sl) \subseteq {No(st)} \cup Update(st, i, row)
  BY DEF Move, r
<1>3. \A u \in Update(st, i, row) : u.ok \in BOOLEAN
  <2> DEFINE yes == [st EXCEPT !.rows[KeyOf(st, i)] = row]
  <2>1. \A u \in Update(st, i, row) : u = No(st) \/ u = No(Refused(st)) \/ u = Yes(yes)
    BY DEF Update
  <2> HIDE DEF yes
  <2>2. No(st).ok = FALSE /\ No(Refused(st)).ok = FALSE /\ Yes(yes).ok = TRUE
    BY DEF No, Yes
  <2> QED BY <2>1, <2>2
<1>4. Alters(st, No(st).st, K, sl, I) /\ No(st).ok \in BOOLEAN
  BY AltersNot DEF No
<1> HIDE DEF row
<1>6. i \in IdIn(st) => /\ row \in Rows /\ row.id = i
                         /\ (row.slot = RowOf(st, i).slot \/ (row.slot = sl /\ Owns(st, i, K, I)))
  BY <1>1
<1>5. \A u \in Update(st, i, row) : Alters(st, u.st, K, sl, I)
  BY <1>6, UpdateOn
<1> QED BY <1>2, <1>3, <1>4, <1>5

\* The row of a session that begins has a fresh identifier and its
\* session's slot.
LEMMA NewRowIs ==
  ASSUME NEW st, StorageOK(st), NEW o, o.game \in Games, o.start \in Int, o.slot \in Slots
  PROVE  NewRow(st, o) \in Rows /\ NewRow(st, o).id = NextId(st) /\ NewRow(st, o).slot = o.slot
BY NextIdIsNew DEF NewRow, Rows

\* What beginSession() may do and answer.
Begins(st, b, o, K, I) ==
  /\ Alters(st, b.st, K, o.slot, I) /\ b.id \in Nat
  /\ b.id # 0 => b.st.rows[o.key] # NoRow /\ b.st.rows[o.key].id = b.id

\* beginSession() gives a session the row of its own key, new or old, or
\* none.
LEMMA BeginOn ==
  ASSUME NEW st, StorageOK(st), NEW o, NEW K, NEW I,
         o.key \in Keys, o.key \in K, o.game \in Games, o.start \in Int, o.slot \in Slots
  PROVE  \A b \in Begin(st, o) : Begins(st, b, o, K, I)
<1> SUFFICES \A b \in Begin(st, o) :
           /\ Alters(st, b.st, K, o.slot, I) /\ b.id \in Nat
           /\ b.id # 0 => b.st.rows[o.key] # NoRow /\ b.st.rows[o.key].id = b.id
  BY DEF Begins
<1>1. Alters(st, Refused(st), K, o.slot, I) /\ Alters(st, st, K, o.slot, I)
  BY AltersNot
<1>2. CASE st.rows[o.key] # NoRow
  <2>1. st.rows[o.key].id \in Nat
    BY <1>2 DEF StorageOK, Storage, Rows
  <2> QED BY <1>1, <1>2, <2>1 DEF Begin
<1>3. CASE st.rows[o.key] = NoRow
  <2> DEFINE row == NewRow(st, o)
             t == PutRow(st, o.key, row)
  <2>0. row \in Rows /\ row.id \notin IdIn(st) /\ row.slot = o.slot
    BY NewRowIs, NextIdIsNew
  <2>1. Alters(st, t, K, o.slot, I) /\ t.rows[o.key] = row
    <3> HIDE DEF row
    <3> QED BY <1>3, <2>0, RowWritten
  <2>2. NewRow(st, o) # NoRow /\ NewRow(st, o).id = NextId(st) /\ NextId(st) \in Nat
    BY NewRowIs, NextIdIsNew, NothingAssumption
  <2>3. \A b \in Begin(st, o) : (b.id = 0 /\ b.st = Refused(st)) \/ (b.id = NextId(st) /\ b.st = t)
    BY <1>3 DEF Begin, PutRow
  <2> HIDE DEF t
  <2> QED BY <1>1, <2>1, <2>2, <2>3
<1> QED BY <1>2, <1>3

\* Intervals are written into a row without moving it.
LEMMA IntervalsOn ==
  ASSUME NEW st, StorageOK(st), NEW k \in Keys, NEW ivs \in Int \cup {NoIntervals}, NEW K, NEW sl, NEW I
  PROVE  \A u \in Intervals(st, k, ivs) : Alters(st, u.st, K, sl, I)
<1>1. CASE ivs = NoIntervals \/ st.rows[k] = NoRow \/ st.rows[k].secs # ivs
  BY <1>1, AltersNot DEF Intervals, Yes, No
<1>2. CASE ~(ivs = NoIntervals \/ st.rows[k] = NoRow \/ st.rows[k].secs # ivs)
  <2> DEFINE row == [st.rows[k] EXCEPT !.ivs = ivs]
             t == PutRow(st, k, row)
  <2>1. st.rows[k] \in Rows /\ st.rows[k] # NoRow
    BY <1>2 DEF StorageOK, Storage
  <2>2. row \in Rows /\ row.id = st.rows[k].id /\ row.slot = st.rows[k].slot
    BY <2>1 DEF Rows
  <2>3. t = [st EXCEPT !.rows[k].ivs = ivs]
    BY DEF PutRow
  <2>4. \A u \in Intervals(st, k, ivs) : u.st = Refused(st) \/ u.st = t
    BY <1>2, <2>3 DEF Intervals, Yes, No
  <2> HIDE DEF row
  <2>6. Alters(st, t, K, sl, I)
    BY <2>1, <2>2, RowAltered
  <2> HIDE DEF t
  <2> QED BY <2>4, <2>6, AltersNot
<1> QED BY <1>1, <1>2

Entries == [id : Nat, op : Operations]

\* What is queued is what was, and what the session of a key in K, at slot
\* sl, left to be written.
Grows(q, r, K, sl) ==
  /\ r \in Seq(Entries)
  /\ \A j \in 1 .. Len(r) :
       \/ r[j].op.key \in K /\ r[j].op.slot = sl
       \/ \E i \in 1 .. Len(q) : r[j].op = q[i].op

\* A queue that is left alone takes nothing.
LEMMA GrowsNot ==
  ASSUME NEW q \in Seq(Entries), NEW K, NEW sl
  PROVE  Grows(q, q, K, sl)
BY DEF Grows

\* A trimmed queue is made of elements of the queue.
LEMMA TrimmedOn ==
  ASSUME NEW S, NEW q \in Seq(S)
  PROVE  /\ Trimmed(q) \in Seq(S)
         /\ \A j \in 1 .. Len(Trimmed(q)) : \E i \in 1 .. Len(q) : Trimmed(q)[j] = q[i]
<1>1. MaxQueue \in Nat \ {0} /\ Len(q) \in Nat
  BY RecorderBoundsAssumption, LenProperties
<1>2. CASE Len(q) > MaxQueue
  <2> DEFINE m == Len(q) - MaxQueue + 1
             n == Len(q)
  <2>1. /\ m \in 1 .. Len(q) + 1 /\ n \in m - 1 .. Len(q)
        /\ Trimmed(q) = SubSeq(q, m, n)
    BY <1>1, <1>2 DEF Trimmed
  <2>2. m \in Int /\ n \in Int /\ m >= 1 /\ n <= Len(q) /\ m <= n
    BY <1>1, <1>2
  <2> HIDE DEF m, n
  <2>3. /\ SubSeq(q, m, n) \in Seq(S)
        /\ Len(SubSeq(q, m, n)) = n - m + 1
        /\ \A j \in 1 .. n - m + 1 : SubSeq(q, m, n)[j] = q[m + j - 1]
    BY <2>1, <2>2, SubSeqProperties
  <2>4. ASSUME NEW j \in 1 .. n - m + 1 PROVE m + j - 1 \in 1 .. Len(q)
    BY <1>1, <2>2
  <2> QED BY <2>1, <2>3, <2>4
<1>3. CASE ~(Len(q) > MaxQueue)
  BY <1>3 DEF Trimmed
<1> QED BY <1>2, <1>3

-----------------------------------------------------------------------------
\* What the journal and the queue take of a session.
Billed(s) ==
  /\ s.key \in Keys /\ s.game \in Games /\ s.start \in Int /\ s.secs \in Int
  /\ s.slot \in Slots /\ s.ivs \in Int \cup {NoIntervals}

\* append() writes the operation of its own key, whatever else fails.
LEMMA JournaledOn ==
  ASSUME NEW st, StorageOK(st), NEW o \in Operations, NEW K, NEW I, o.key \in K
  PROVE  \A t \in Journaled(st, o) : Extends(st, t, K, o.slot, I) /\ t.rows = st.rows
<1> DEFINE with == [st EXCEPT !.journal[o.key] = o]
           lost(t) == [Refused(t) EXCEPT !.jok = FALSE]
<1>1. Extends(st, with, K, o.slot, I) /\ with.rows = st.rows
  BY OpWritten
<1>2. \A t \in Journaled(st, o) : t \in {st, with, lost(st), lost(with)}
  BY DEF Journaled
<1> HIDE DEF with
<1>3. ASSUME NEW t, Extends(st, t, K, o.slot, I)
      PROVE  Extends(st, lost(t), K, o.slot, I) /\ lost(t).rows = t.rows
  <2>1. Extends(st, Refused(t), K, o.slot, I) /\ Refused(t).rows = t.rows
    BY <1>3, RefusedOn
  <2> DEFINE r == Refused(t)
  <2>2. r \in Storage
    BY <2>1 DEF Extends, Writes, StorageOK
  <2> HIDE DEF r
  <2>3. /\ [r EXCEPT !.jok = FALSE] \in Storage /\ [r EXCEPT !.jok = FALSE].rows = r.rows
        /\ [r EXCEPT !.jok = FALSE].journal = r.journal
    BY <2>2 DEF Storage
  <2> DEFINE u == [r EXCEPT !.jok = FALSE]
  <2> HIDE DEF u
  <2>4. Extends(st, u, K, o.slot, I)
    BY <2>1, <2>3 DEF Extends, Writes, StorageOK, r, u
  <2> QED BY <2>1, <2>3, <2>4 DEF r, u
<1>4. Extends(st, st, K, o.slot, I)
  BY ExtendsSelf DEF Alters
<1> HIDE DEF lost
<1> QED BY <1>1, <1>2, <1>3, <1>4

\* Reading the epoch of a game writes nothing.
LEMMA EpochsOn ==
  ASSUME NEW st, StorageOK(st), NEW g \in Games, epoch \in [Games -> Nat], NEW K, NEW sl, NEW I
  PROVE  \A e \in Epochs(st, g) :
           Alters(st, e.st, K, sl, I) /\ e.st.rows = st.rows /\ StorageOK(e.st) /\ e.epoch \in Nat
<1>1. /\ Alters(st, st, K, sl, I) /\ Alters(st, Refused(st), K, sl, I)
      /\ Refused(st).rows = st.rows /\ StorageOK(Refused(st))
  BY AltersNot
<1>2. \A e \in Epochs(st, g) : e.st \in {st, Refused(st)} /\ e.epoch \in Nat
  BY DEF Epochs
<1> QED BY <1>1, <1>2

\* An operation that became pending.
Pends(st, c, K, sl, I) ==
  /\ Extends(st, c.st, K, sl, I) /\ c.st.rows = st.rows
  /\ Grows(queue, c.queue, K, sl)
  /\ c.tried \in Int

\* queuePending() queues and journals the operation of one session at its
\* slot.
LEMMA QueuePendingOn ==
  ASSUME NEW st, StorageOK(st), NEW id \in Nat, NEW s, Billed(s), NEW end \in Int,
         NEW K, NEW I, s.key \in K, epoch \in [Games -> Nat], queue \in Seq(Entries), now \in Int
  PROVE  \A c \in QueuePending(st, id, s, end) : Pends(st, c, K, s.slot, I)
<1> SUFFICES ASSUME NEW c \in QueuePending(st, id, s, end)
             PROVE  Pends(st, c, K, s.slot, I)
  OBVIOUS
<1> DEFINE o(e) == Operation(s, end, 0, FALSE, e.epoch)
           q(e) == Append(queue, [id |-> id, op |-> o(e)])
           pends(e) == {[st |-> t, queue |-> Trimmed(q(e)), tried |-> now] : t \in Journaled(e.st, o(e))}
<1>0. PICK e \in Epochs(st, s.game) : c \in pends(e)
  <2>1. QueuePending(st, id, s, end) = UNION {pends(e) : e \in Epochs(st, s.game)}
    BY DEF QueuePending
  <2> HIDE DEF pends
  <2> QED BY <2>1
<1>1. PICK t \in Journaled(e.st, o(e)) : c = [st |-> t, queue |-> Trimmed(q(e)), tried |-> now]
  BY <1>0
<1>2. /\ Extends(st, e.st, K, s.slot, I) /\ e.st.rows = st.rows /\ StorageOK(e.st) /\ e.epoch \in Nat
  BY EpochsOn DEF Billed, Alters
<1>3. o(e) \in Operations /\ o(e).key = s.key /\ o(e).slot = s.slot
  BY <1>2 DEF Operation, Operations, Billed
<1> HIDE DEF o
<1>4. Extends(e.st, t, K, s.slot, I) /\ t.rows = e.st.rows
  BY <1>2, <1>3, JournaledOn
<1>5. Extends(st, t, K, s.slot, I) /\ t.rows = st.rows
  BY <1>2, <1>4, ExtendsOn
<1>6. Grows(queue, Trimmed(q(e)), K, s.slot)
  <2> DEFINE x == [id |-> id, op |-> o(e)]
             r == Trimmed(q(e))
  <2>1. x \in Entries /\ x.op.key \in K /\ x.op.slot = s.slot
    BY <1>3 DEF Entries
  <2> HIDE DEF x
  <2>2. /\ q(e) \in Seq(Entries) /\ Len(q(e)) = Len(queue) + 1 /\ Len(queue) \in Nat
        /\ \A j \in 1 .. Len(queue) : q(e)[j] = queue[j]
        /\ q(e)[Len(queue) + 1] = x
    BY <2>1, AppendProperties, LenProperties DEF x
  <2> HIDE DEF q
  <2>3. r \in Seq(Entries) /\ \A j \in 1 .. Len(r) : \E i \in 1 .. Len(q(e)) : r[j] = q(e)[i]
    BY <2>2, TrimmedOn
  <2> HIDE DEF r
  <2>4. ASSUME NEW j \in 1 .. Len(r)
        PROVE  \/ r[j].op.key \in K /\ r[j].op.slot = s.slot
               \/ \E i \in 1 .. Len(queue) : r[j].op = queue[i].op
    <3>1. PICK i \in 1 .. Len(q(e)) : r[j] = q(e)[i]
      BY <2>3
    <3>2. CASE i = Len(queue) + 1
      BY <2>1, <2>2, <3>1, <3>2
    <3>3. CASE i # Len(queue) + 1
      <4>1. i \in 1 .. Len(queue)
        BY <2>2, <3>3
      <4> QED BY <2>2, <3>1, <4>1
    <3> QED BY <3>2, <3>3
  <2> QED BY <2>3, <2>4 DEF Grows, r
<1> QED BY <1>1, <1>5, <1>6 DEF Pends

\* checkpointActive() journals it.
LEMMA CheckpointOn ==
  ASSUME NEW st, StorageOK(st), NEW s, Billed(s),
         NEW K, NEW I, s.key \in K, epoch \in [Games -> Nat], now \in Int
  PROVE  \A t \in Checkpoint(st, s) : Extends(st, t, K, s.slot, I) /\ t.rows = st.rows
<1> SUFFICES ASSUME NEW t \in Checkpoint(st, s)
             PROVE  Extends(st, t, K, s.slot, I) /\ t.rows = st.rows
  OBVIOUS
<1> DEFINE o(e) == Operation(s, 0, now, TRUE, e.epoch)
<1>1. PICK e \in Epochs(st, s.game) : t \in Journaled(e.st, o(e))
  BY DEF Checkpoint
<1>2. /\ Extends(st, e.st, K, s.slot, I) /\ e.st.rows = st.rows /\ StorageOK(e.st) /\ e.epoch \in Nat
  BY EpochsOn DEF Billed, Alters
<1>3. o(e) \in Operations /\ o(e).key = s.key /\ o(e).slot = s.slot
  BY <1>2 DEF Operation, Operations, Billed
<1> HIDE DEF o
<1>4. Extends(e.st, t, K, s.slot, I) /\ t.rows = e.st.rows
  BY <1>1, <1>2, <1>3, JournaledOn
<1> QED BY <1>2, <1>4, ExtendsOn

\* The identifier i is that of the row of k.
IsRow(st, k, i) == st.rows[k] # NoRow /\ st.rows[k].id = i

\* A row keeps its identifier through every write.
LEMMA RowKept ==
  ASSUME NEW st, NEW t, NEW K, NEW sl, NEW I, Writes(st, t, K, sl, I),
         NEW k \in Keys, NEW i, IsRow(st, k, i)
  PROVE  IsRow(t, k, i)
BY DEF IsRow, Writes

\* An identifier that may be written stays one through writes that are its
\* own.
LEMMA OwnsKept ==
  ASSUME NEW st, NEW t, NEW K, NEW sl, NEW I, Extends(st, t, K, sl, I), NEW i, Owns(st, i, K, I)
  PROVE  Owns(t, i, K, I)
BY DEF Owns, Extends, Writes

-----------------------------------------------------------------------------
\* Sessions.
Same(s, u) == u \in Sessions /\ u.key = s.key /\ u.slot = s.slot /\ u.game = s.game

\* The fields of a session.
LEMMA SessionIs ==
  ASSUME NEW s \in Sessions
  PROVE  Billed(s) /\ s.id \in Nat /\ s.secs \in Int /\ s.slot \in Slots /\ s.key \in Keys
BY DEF Sessions, Billed

\* recordObservedSpan() changes neither key, slot, game nor identifier.
LEMMA ObservedOn ==
  ASSUME NEW s \in Sessions, now \in Int
  PROVE  Same(s, Observed(s)) /\ Observed(s).id = s.id
<1> DEFINE billed == IF s.paused THEN 0 ELSE now - s.mark
<1>1. billed \in Int /\ s.mark \in Int
  BY DEF Sessions
<1> HIDE DEF billed
<1> DEFINE u == [s EXCEPT !.secs = @ + billed, !.mark = now,
                          !.ivs = IF @ = NoIntervals THEN billed ELSE @ + billed]
<1>2. s.secs + billed \in Int /\ (s.ivs # NoIntervals => s.ivs + billed \in Int)
  BY <1>1 DEF Sessions
<1>3. Same(s, u) /\ u.id = s.id
  BY <1>1, <1>2 DEF Same, Sessions
<1>4. Same(s, s)
  BY DEF Same
<1>5. Observed(s) = s \/ Observed(s) = u
  BY DEF Observed, billed
<1> HIDE DEF u
<1> QED BY <1>3, <1>4, <1>5

\* A flush writes the row its session's identifier names, or journals the
\* session.
LEMMA FlushOn ==
  ASSUME NEW st, StorageOK(st), NEW s \in Sessions, NEW K, NEW I, s.key \in K, Owns(st, s.id, K, I),
         epoch \in [Games -> Nat], now \in Int
  PROVE  \A c \in Flush(st, s) :
           Extends(st, c.st, K, s.slot, I) /\ Same(s, c.s) /\ c.s.id = s.id
<1> SUFFICES ASSUME NEW c \in Flush(st, s)
             PROVE  Extends(st, c.st, K, s.slot, I) /\ Same(s, c.s) /\ c.s.id = s.id
  OBVIOUS
<1> DEFINE moves == IF s.id > 0 /\ s.moving THEN Move(st, s.id, s.slot) ELSE {Yes(st)}
           writes(m) == IF s.id > 0 THEN Progress(m.st, s.id, s.secs) ELSE {No(m.st)}
           ends(w) == IF w.ok THEN {i.st : i \in Intervals(w.st, s.key, s.ivs)} ELSE Checkpoint(w.st, s)
           after(m) == UNION {ends(w) : w \in writes(m)}
           tracks(m) == {Tracked([s EXCEPT !.moving = ~m.ok, !.flushed = now], t) : t \in after(m)}
<1>1. Flush(st, s) = UNION {tracks(m) : m \in moves}
  BY DEF Flush
<1>2. PICK m \in moves : c \in tracks(m)
  <2> HIDE DEF tracks, moves
  <2> QED BY <1>1
<1>3. PICK t \in after(m) : c = Tracked([s EXCEPT !.moving = ~m.ok, !.flushed = now], t)
  <2> HIDE DEF after
  <2> QED BY <1>2
<1>4. PICK w \in writes(m) : t \in ends(w)
  <2> HIDE DEF writes, ends
  <2> QED BY <1>3
<1>5. Alters(st, m.st, K, s.slot, I) /\ m.ok \in BOOLEAN
  <2>1. Alters(st, Yes(st).st, K, s.slot, I) /\ Yes(st).ok \in BOOLEAN
    BY AltersNot DEF Yes
  <2>2. \A u \in Move(st, s.id, s.slot) : Alters(st, u.st, K, s.slot, I) /\ u.ok \in BOOLEAN
    BY SessionIs, MoveOn
  <2> QED BY <2>1, <2>2
<1>6. StorageOK(m.st)
  BY <1>5 DEF Alters, Extends, Writes
<1>7. Alters(m.st, w.st, K, s.slot, I) /\ StorageOK(w.st)
  <2>1. Alters(m.st, No(m.st).st, K, s.slot, I)
    BY <1>6, AltersNot DEF No
  <2>2. \A u \in Progress(m.st, s.id, s.secs) : Alters(m.st, u.st, K, s.slot, I)
    BY <1>6, SessionIs, ProgressOn
  <2>3. Alters(m.st, w.st, K, s.slot, I)
    BY <1>4, <2>1, <2>2
  <2> QED BY <2>3 DEF Alters, Extends, Writes
<1>8. Extends(w.st, t, K, s.slot, I)
  <2>1. \A i \in Intervals(w.st, s.key, s.ivs) : Extends(w.st, i.st, K, s.slot, I)
    BY <1>7, SessionIs, IntervalsOn DEF Alters, Billed
  <2>2. \A u \in Checkpoint(w.st, s) : Extends(w.st, u, K, s.slot, I)
    BY <1>7, SessionIs, CheckpointOn
  <2> QED BY <1>4, <2>1, <2>2
<1>9. Extends(st, t, K, s.slot, I)
  BY <1>5, <1>7, <1>8, ExtendsOn DEF Alters
<1>10. Same(s, [s EXCEPT !.moving = ~m.ok, !.flushed = now])
       /\ [s EXCEPT !.moving = ~m.ok, !.flushed = now].id = s.id
  BY <1>5 DEF Same, Sessions
<1> QED BY <1>3, <1>9, <1>10 DEF Tracked

\* A retried insert gives the session the identifier it had or that of its
\* own row.
LEMMA RetryInsertOn ==
  ASSUME NEW st, StorageOK(st), NEW s \in Sessions, NEW K, NEW I, s.key \in K, Owns(st, s.id, K, I),
         epoch \in [Games -> Nat], now \in Int
  PROVE  \A c \in RetryInsert(st, s) :
           /\ Extends(st, c.st, K, s.slot, I) /\ Same(s, c.s)
           /\ c.s.id = s.id \/ IsRow(c.st, s.key, c.s.id)
           /\ Owns(c.st, c.s.id, K, I)
<1> SUFFICES ASSUME NEW c \in RetryInsert(st, s)
             PROVE  /\ Extends(st, c.st, K, s.slot, I) /\ Same(s, c.s)
                    /\ c.s.id = s.id \/ IsRow(c.st, s.key, c.s.id)
                    /\ Owns(c.st, c.s.id, K, I)
  OBVIOUS
<1>0. Same(s, s) /\ Extends(st, st, K, s.slot, I)
  BY ExtendsSelf DEF Same, Alters
<1>1. CASE s.id > 0
  BY <1>0, <1>1 DEF RetryInsert, Tracked
<1>2. CASE ~(s.id > 0)
  <2> DEFINE outcome(b) == IF b.id = 0 THEN {Tracked(s, b.st)} ELSE Flush(b.st, [s EXCEPT !.id = b.id])
  <2>1. RetryInsert(st, s) = UNION {outcome(b) : b \in Begin(st, s)}
    BY <1>2 DEF RetryInsert
  <2>2. PICK b \in Begin(st, s) : c \in outcome(b)
    <3> HIDE DEF outcome
    <3> QED BY <2>1
  <2>3. /\ Alters(st, b.st, K, s.slot, I) /\ b.id \in Nat
        /\ b.id # 0 => IsRow(b.st, s.key, b.id)
    <3>1. s.key \in Keys /\ s.game \in Games /\ s.start \in Int /\ s.slot \in Slots
      BY SessionIs DEF Billed
    <3>2. Begins(st, b, s, K, I)
      BY <3>1, BeginOn
    <3> QED BY <3>2 DEF IsRow, Begins
  <2>4. StorageOK(b.st) /\ Extends(st, b.st, K, s.slot, I)
    BY <2>3 DEF Alters, Extends, Writes
  <2>5. CASE b.id = 0
    <3>1. c = Tracked(s, b.st)
      BY <2>2, <2>5
    <3>2. c.s = s /\ c.st = b.st
      BY <3>1 DEF Tracked
    <3>3. Owns(b.st, s.id, K, I)
      BY <2>4, OwnsKept
    <3> QED BY <1>0, <2>4, <3>2, <3>3
  <2>6. CASE b.id # 0
    <3> DEFINE u == [s EXCEPT !.id = b.id]
    <3>1. u \in Sessions /\ Same(s, u) /\ u.id = b.id
      BY <2>3 DEF Sessions, Same
    <3>2. c \in Flush(b.st, u)
      BY <2>2, <2>6
    <3> HIDE DEF u
    <3>3. Owns(b.st, b.id, K, I)
      BY <2>3, <2>4, <2>6, SessionIs DEF Owns, IsRow, StorageOK
    <3>4. u.key \in K /\ u.slot = s.slot
      BY <3>1 DEF Same
    <3>5. Extends(b.st, c.st, K, s.slot, I) /\ Same(u, c.s) /\ c.s.id = b.id
      BY <2>4, <3>1, <3>2, <3>3, <3>4, FlushOn
    <3>6. IsRow(c.st, s.key, b.id)
      BY <2>3, <2>6, <3>5, RowKept, SessionIs DEF Extends
    <3>7. Owns(c.st, b.id, K, I)
      BY <3>3, <3>5, OwnsKept
    <3>8. Extends(st, c.st, K, s.slot, I)
      BY <2>4, <3>5, ExtendsOn
    <3>9. Same(s, c.s)
      BY <3>1, <3>5 DEF Same
    <3> QED BY <3>5, <3>6, <3>7, <3>8, <3>9
  <2> QED BY <2>5, <2>6
<1> QED BY <1>1, <1>2

\* A session that goes on keeps its identifier or takes that of its own
\* row.
LEMMA ContinueOn ==
  ASSUME NEW st, StorageOK(st), NEW s \in Sessions, NEW K, NEW I, s.key \in K, Owns(st, s.id, K, I),
         epoch \in [Games -> Nat], now \in Int, NEW paused \in BOOLEAN
  PROVE  \A c \in Continue(st, s, paused) :
           /\ Extends(st, c.st, K, s.slot, I) /\ Same(s, c.s)
           /\ c.s.id = s.id \/ IsRow(c.st, s.key, c.s.id)
<1> SUFFICES ASSUME NEW c \in Continue(st, s, paused)
             PROVE  /\ Extends(st, c.st, K, s.slot, I) /\ Same(s, c.s)
                    /\ c.s.id = s.id \/ IsRow(c.st, s.key, c.s.id)
  OBVIOUS
<1> DEFINE o(r) == Observed([r.s EXCEPT !.paused = paused])
           goes(r) == IF now - o(r).flushed >= FlushEvery THEN Flush(r.st, o(r)) ELSE {Tracked(o(r), r.st)}
<1>1. Continue(st, s, paused) = UNION {goes(r) : r \in RetryInsert(st, s)}
  BY DEF Continue
<1>2. PICK r \in RetryInsert(st, s) : c \in goes(r)
  <2> HIDE DEF goes
  <2> QED BY <1>1
<1>3. /\ Extends(st, r.st, K, s.slot, I) /\ Same(s, r.s)
      /\ r.s.id = s.id \/ IsRow(r.st, s.key, r.s.id)
      /\ Owns(r.st, r.s.id, K, I)
  BY RetryInsertOn
<1>4. StorageOK(r.st)
  BY <1>3 DEF Extends, Writes
<1>5. Same(s, o(r)) /\ o(r).id = r.s.id
  <2> DEFINE u == [r.s EXCEPT !.paused = paused]
  <2>1. Same(s, u) /\ u \in Sessions /\ u.id = r.s.id
    BY <1>3 DEF Same, Sessions
  <2> HIDE DEF u
  <2>2. Same(u, Observed(u)) /\ Observed(u).id = u.id
    BY <2>1, ObservedOn
  <2>3. o(r) = Observed(u)
    BY DEF u
  <2> HIDE DEF o
  <2> QED BY <2>1, <2>2, <2>3 DEF Same
<1> HIDE DEF o
<1>6. CASE c = Tracked(o(r), r.st)
  <2>1. c.s = o(r) /\ c.st = r.st
    BY <1>6 DEF Tracked
  <2> QED BY <1>3, <1>5, <2>1
<1>7. CASE c \in Flush(r.st, o(r))
  <2>1. o(r) \in Sessions /\ o(r).key \in K /\ o(r).slot = s.slot /\ Owns(r.st, o(r).id, K, I)
    BY <1>3, <1>5 DEF Same
  <2>2. Extends(r.st, c.st, K, s.slot, I) /\ Same(o(r), c.s) /\ c.s.id = o(r).id
    BY <1>4, <1>7, <2>1, FlushOn
  <2>3. Extends(st, c.st, K, s.slot, I)
    BY <1>3, <2>2, ExtendsOn
  <2>4. Same(s, c.s)
    BY <1>5, <2>2 DEF Same
  <2>5. c.s.id = s.id \/ IsRow(c.st, s.key, c.s.id)
    BY <1>3, <1>5, <2>2, RowKept, SessionIs DEF Extends
  <2> QED BY <2>3, <2>4, <2>5
<1> QED BY <1>2, <1>6, <1>7

\* closeSession() ends a row, or queues the close of its own session.
LEMMA CloseOn ==
  ASSUME NEW st, StorageOK(st), NEW s \in Sessions, NEW K, NEW I, s.key \in K,
         epoch \in [Games -> Nat], now \in Int, queue \in Seq(Entries), tried \in Int
  PROVE  \A c \in Close(st, s) :
           Extends(st, c.st, K, s.slot, I) /\ Grows(queue, c.queue, K, s.slot) /\ c.tried \in Int
<1> SUFFICES ASSUME NEW c \in Close(st, s)
             PROVE  Extends(st, c.st, K, s.slot, I) /\ Grows(queue, c.queue, K, s.slot) /\ c.tried \in Int
  OBVIOUS
<1> DEFINE o == Observed(s)
<1>1. Same(s, o) /\ o \in Sessions /\ o.id = s.id /\ Billed(o) /\ o.key = s.key /\ o.slot = s.slot
      /\ o.secs \in Int /\ o.ivs \in Int \cup {NoIntervals} /\ s.id \in Nat
  <2>1. Same(s, o) /\ o.id = s.id
    BY ObservedOn
  <2> HIDE DEF o
  <2> QED BY <2>1, SessionIs DEF Same, Billed
<1> HIDE DEF o
<1> DEFINE ended(e) == IF e.ok THEN Intervals(e.st, o.key, o.ivs) ELSE {No(e.st)}
           ends == IF s.id > 0 THEN UNION {ended(e) : e \in End(st, s.id, now, o.secs)} ELSE {No(st)}
           left1(e) == IF e.ok THEN {[st |-> e.st, queue |-> queue, tried |-> tried]}
                       ELSE QueuePending(e.st, s.id, o, now)
<1>2. Close(st, s) = UNION {left1(e) : e \in ends}
  BY DEF Close, o
<1>3. PICK e \in ends : c \in left1(e)
  <2> HIDE DEF ends, left1
  <2> QED BY <1>2
<1>4. Extends(st, e.st, K, s.slot, I)
  <2>1. CASE e = No(st)
    BY <2>1, ExtendsSelf DEF No, Alters
  <2>2. CASE s.id > 0 /\ e \in UNION {ended(f) : f \in End(st, s.id, now, o.secs)}
    <3>1. PICK f \in End(st, s.id, now, o.secs) : e \in ended(f)
      <4> HIDE DEF ended
      <4> QED BY <2>2
    <3>2. Extends(st, f.st, K, s.slot, I) /\ StorageOK(f.st)
      <4>1. Alters(st, f.st, K, s.slot, I)
        BY <1>1, EndOn
      <4> QED BY <4>1 DEF Alters, Extends, Writes
    <3>3. Extends(f.st, e.st, K, s.slot, I)
      <4>1. \A u \in Intervals(f.st, o.key, o.ivs) : Extends(f.st, u.st, K, s.slot, I)
        BY <1>1, <3>2, SessionIs, IntervalsOn DEF Alters
      <4>2. Extends(f.st, No(f.st).st, K, s.slot, I)
        BY <3>2, ExtendsSelf DEF No, Alters
      <4> QED BY <3>1, <4>1, <4>2
    <3> QED BY <3>2, <3>3, ExtendsOn
  <2> QED BY <1>3, <2>1, <2>2
<1>5. StorageOK(e.st)
  BY <1>4 DEF Extends, Writes
<1>6. CASE c = [st |-> e.st, queue |-> queue, tried |-> tried]
  BY <1>4, <1>6, GrowsNot
<1>7. CASE c \in QueuePending(e.st, s.id, o, now)
  <2>0. o.key \in K
    BY <1>1
  <2>2. /\ Extends(e.st, c.st, K, o.slot, I) /\ Grows(queue, c.queue, K, o.slot) /\ c.tried \in Int
    BY <1>1, <1>5, <1>7, <2>0, QueuePendingOn DEF Pends
  <2>1. /\ Extends(e.st, c.st, K, s.slot, I) /\ Grows(queue, c.queue, K, s.slot) /\ c.tried \in Int
    BY <1>1, <2>2
  <2> QED BY <1>4, <2>1, ExtendsOn
<1> QED BY <1>3, <1>6, <1>7

-----------------------------------------------------------------------------
\* The intervals that follow a replay move no row and remove none.
LEMMA WithIntervalsOn ==
  ASSUME NEW st, NEW t, NEW K, NEW sl, NEW I, Alters(st, t, K, sl, I),
         NEW k \in Keys, NEW ivs \in Int \cup {NoIntervals}
  PROVE  \A r \in WithIntervals(t, k, ivs) :
           /\ Alters(st, r.st, K, sl, I) /\ r.result \in {"written", "error"}
           /\ t.rows[k] # NoRow => r.st.rows[k] # NoRow
<1> SUFFICES ASSUME NEW r \in WithIntervals(t, k, ivs)
             PROVE  /\ Alters(st, r.st, K, sl, I) /\ r.result \in {"written", "error"}
                    /\ t.rows[k] # NoRow => r.st.rows[k] # NoRow
  OBVIOUS
<1>0. StorageOK(t)
  BY DEF Alters, Extends, Writes
<1>1. PICK i \in Intervals(t, k, ivs) : r = Result(IF i.ok THEN "written" ELSE "error", i.st)
  BY DEF WithIntervals
<1>2. r.st = i.st /\ r.result \in {"written", "error"}
  BY <1>1 DEF Result
<1>3. Alters(t, i.st, K, sl, I)
  BY <1>0, IntervalsOn
<1>4. t.rows[k] # NoRow => i.st.rows[k] # NoRow
  BY <1>3 DEF Alters, Extends, Writes
<1> QED BY <1>2, <1>3, <1>4, AltersOn

\* What replaying the operation o may do, and what its answer means.
Replayed(st, r, o, sl, K, I) ==
  /\ Alters(st, r.st, K, sl, I)
  /\ r.result \in {"written", "stale", "error"}
  /\ r.result = "written" => r.st.rows[o.key] # NoRow
  /\ r.result = "stale" => Stale(o)

\* The answers of a replay that writes nothing are true ones.
LEMMA FailedOn ==
  ASSUME NEW st, StorageOK(st), NEW K, NEW sl, NEW I, NEW o
  PROVE  /\ \A r \in Failed(st) : Replayed(st, r, o, sl, K, I) /\ r.result = "error"
         /\ Replayed(st, Result("error", st), o, sl, K, I)
         /\ Stale(o) => Replayed(st, Result("stale", st), o, sl, K, I)
         /\ st.rows[o.key] # NoRow => Replayed(st, Result("written", st), o, sl, K, I)
<1>1. Alters(st, st, K, sl, I) /\ Alters(st, Refused(st), K, sl, I)
  BY AltersNot
<1>2. \A x, y : Result(x, y).result = x /\ Result(x, y).st = y
  BY DEF Result
<1> QED BY <1>1, <1>2 DEF Failed, Replayed

\* A row of the session is written, then its intervals.
LEMMA RowReplayed ==
  ASSUME NEW st, StorageOK(st), NEW o, NEW sl, NEW K, NEW I, o.key \in Keys, o.key \in K,
         NEW row \in Rows, NEW ivs \in Int \cup {NoIntervals},
         IF st.rows[o.key] = NoRow THEN row.id \notin IdIn(st) /\ row.slot = sl
         ELSE row.id = st.rows[o.key].id /\ row.slot = st.rows[o.key].slot
  PROVE  \A r \in WithIntervals(PutRow(st, o.key, row), o.key, ivs) : Replayed(st, r, o, sl, K, I)
<1> DEFINE t == PutRow(st, o.key, row)
<1>1. /\ Alters(st, t, K, sl, I) /\ t.rows[o.key] = row
  BY RowWritten
<1>2. row # NoRow
  BY NothingAssumption
<1> HIDE DEF t
<1>3. \A r \in WithIntervals(t, o.key, ivs) :
        /\ Alters(st, r.st, K, sl, I) /\ r.result \in {"written", "error"}
        /\ r.st.rows[o.key] # NoRow
  BY <1>1, <1>2, WithIntervalsOn
<1>4. \A r \in WithIntervals(t, o.key, ivs) : Replayed(st, r, o, sl, K, I)
  BY <1>3 DEF Replayed
<1> QED BY <1>4 DEF t

\* The replay of a close: "written" when its session has a row, "stale"
\* when it was deleted.
LEMMA ReplayClosedOn ==
  ASSUME NEW st, StorageOK(st), NEW o \in Operations, NEW K, NEW I, o.key \in K
  PROVE  \A r \in ReplayClosed(st, o) : Replayed(st, r, o, o.slot, K, I)
<1> DEFINE k == o.key
           end == Later(o.end, o.start)
<1>0. /\ k \in Keys /\ o.game \in Games /\ o.start \in Int /\ o.slot \in Slots
      /\ end \in Int /\ o.secs \in Int /\ o.ivs \in Int \cup {NoIntervals}
  BY DEF Operations, Later
<1> HIDE DEF k, end
<1> DEFINE ended == [NewRow(st, o) EXCEPT !.end = end, !.beat = end, !.secs = o.secs]
           row == [st.rows[k] EXCEPT !.end = end, !.secs = o.secs]
<1>1. st.rows[k] = NoRow => ended \in Rows /\ ended.id \notin IdIn(st) /\ ended.slot = o.slot
  <2>1. NewRow(st, o) \in Rows /\ NewRow(st, o).id \notin IdIn(st) /\ NewRow(st, o).slot = o.slot
    BY <1>0, NewRowIs, NextIdIsNew
  <2> DEFINE new == NewRow(st, o)
  <2> HIDE DEF new
  <2>2. [new EXCEPT !.end = end, !.beat = end, !.secs = o.secs] \in Rows
        /\ [new EXCEPT !.end = end, !.beat = end, !.secs = o.secs].id = new.id
        /\ [new EXCEPT !.end = end, !.beat = end, !.secs = o.secs].slot = new.slot
    BY <1>0, <2>1 DEF Rows, new
  <2> QED BY <2>1, <2>2 DEF new
<1>2. st.rows[k] # NoRow => row \in Rows /\ row.id = st.rows[k].id /\ row.slot = st.rows[k].slot
  <2>1. st.rows[k] # NoRow => st.rows[k] \in Rows
    BY <1>0 DEF StorageOK, Storage
  <2> QED BY <1>0, <2>1 DEF Rows
<1> HIDE DEF ended, row
<1>3. \A r \in Failed(st) : Replayed(st, r, o, o.slot, K, I)
  BY FailedOn
<1>4. CASE Stale(o)
  <2>1. Replayed(st, Result("stale", st), o, o.slot, K, I)
    BY <1>4, FailedOn
  <2>2. ReplayClosed(st, o) = Failed(st) \cup {Result("stale", st)}
    BY <1>4 DEF ReplayClosed
  <2> QED BY <1>3, <2>1, <2>2
<1>5. CASE ~Stale(o) /\ st.rows[k] = NoRow
  <2>1. ReplayClosed(st, o) = Failed(st) \cup WithIntervals(PutRow(st, k, ended), k, o.ivs)
    BY <1>5 DEF ReplayClosed, k, ended, end
  <2>2. \A r \in WithIntervals(PutRow(st, k, ended), k, o.ivs) : Replayed(st, r, o, o.slot, K, I)
    BY <1>0, <1>1, <1>5, RowReplayed DEF k
  <2> QED BY <1>3, <2>1, <2>2
<1>6. CASE ~Stale(o) /\ st.rows[k] # NoRow /\ Open(st, k)
  <2>1. ReplayClosed(st, o) = Failed(st) \cup WithIntervals(PutRow(st, k, row), k, o.ivs)
    BY <1>6 DEF ReplayClosed, k, end, row
  <2>3. \A r \in WithIntervals(PutRow(st, k, row), k, o.ivs) : Replayed(st, r, o, o.slot, K, I)
    BY <1>0, <1>2, <1>6, RowReplayed DEF k
  <2> QED BY <1>3, <2>1, <2>3
<1>7. CASE ~Stale(o) /\ st.rows[k] # NoRow /\ ~Open(st, k)
  <2>1. \A r \in ReplayClosed(st, o) : r \in Failed(st) \/ r \in WithIntervals(st, k, o.ivs) \/ r = Result("error", st)
    BY <1>7 DEF ReplayClosed, k
  <2>2. \A r \in WithIntervals(st, k, o.ivs) : Replayed(st, r, o, o.slot, K, I)
    <3>1. Alters(st, st, K, o.slot, I)
      BY AltersNot
    <3>2. ASSUME NEW r \in WithIntervals(st, k, o.ivs)
          PROVE  Replayed(st, r, o, o.slot, K, I)
      <4>1. Alters(st, r.st, K, o.slot, I) /\ r.result \in {"written", "error"}
        BY <1>0, <3>1, WithIntervalsOn
      <4>2. r.st.rows[k] # NoRow
        BY <1>0, <1>7, <4>1 DEF Alters, Extends, Writes
      <4> QED BY <4>1, <4>2 DEF Replayed, k
    <3> QED BY <3>2
  <2> QED BY <1>3, <2>1, <2>2, FailedOn
<1> QED BY <1>4, <1>5, <1>6, <1>7

\* The replay of a checkpoint: likewise.
LEMMA ReplayOpenOn ==
  ASSUME NEW st, StorageOK(st), NEW o \in Operations, NEW K, NEW I, o.key \in K, NEW close
  PROVE  \A r \in ReplayOpen(st, o, close) : Replayed(st, r, o, o.slot, K, I)
<1> DEFINE k == o.key
<1>0. /\ k \in Keys /\ o.game \in Games /\ o.start \in Int /\ o.slot \in Slots
      /\ o.obs \in Int /\ o.secs \in Int /\ o.ivs \in Int \cup {NoIntervals}
  BY DEF Operations
<1> HIDE DEF k
<1> DEFINE beat == Later(o.start, o.obs)
           first == [NewRow(st, o) EXCEPT !.secs = o.secs, !.beat = beat]
           grown == [st.rows[k] EXCEPT !.secs = Later(@, o.secs), !.beat = Later(@, o.obs)]
           merged == IF st.rows[k] = NoRow THEN first ELSE grown
           final == IF close THEN [merged EXCEPT !.end = merged.beat] ELSE merged
<1>1. st.rows[k] = NoRow => first \in Rows /\ first.id \notin IdIn(st) /\ first.slot = o.slot
  <2>1. NewRow(st, o) \in Rows /\ NewRow(st, o).id \notin IdIn(st) /\ NewRow(st, o).slot = o.slot
    BY <1>0, NewRowIs, NextIdIsNew
  <2>2. beat \in Int
    BY <1>0 DEF Later
  <2> DEFINE new == NewRow(st, o)
  <2> HIDE DEF new, beat
  <2>3. [new EXCEPT !.secs = o.secs, !.beat = beat] \in Rows
        /\ [new EXCEPT !.secs = o.secs, !.beat = beat].id = new.id
        /\ [new EXCEPT !.secs = o.secs, !.beat = beat].slot = new.slot
    BY <1>0, <2>1, <2>2 DEF Rows, new
  <2> QED BY <2>1, <2>3 DEF new
<1>2. st.rows[k] # NoRow => grown \in Rows /\ grown.id = st.rows[k].id /\ grown.slot = st.rows[k].slot
  <2>1. st.rows[k] # NoRow => st.rows[k] \in Rows
    BY <1>0 DEF StorageOK, Storage
  <2>2. st.rows[k] # NoRow => Later(st.rows[k].secs, o.secs) \in Int /\ Later(st.rows[k].beat, o.obs) \in Int
    BY <1>0, <2>1 DEF Rows, Later
  <2> QED BY <2>1, <2>2 DEF Rows
<1> HIDE DEF first, grown
<1>3. /\ merged \in Rows
      /\ IF st.rows[k] = NoRow THEN merged.id \notin IdIn(st) /\ merged.slot = o.slot
         ELSE merged.id = st.rows[k].id /\ merged.slot = st.rows[k].slot
  BY <1>1, <1>2
<1> HIDE DEF merged
<1>4. final \in Rows /\ final.id = merged.id /\ final.slot = merged.slot
  BY <1>3 DEF Rows
<1> HIDE DEF final
<1>5. \A r \in Failed(st) : Replayed(st, r, o, o.slot, K, I)
  BY FailedOn
<1>6. CASE Stale(o)
  <2>1. Replayed(st, Result("stale", st), o, o.slot, K, I)
    BY <1>6, FailedOn
  <2>2. ReplayOpen(st, o, close) = Failed(st) \cup {Result("stale", st)}
    BY <1>6 DEF ReplayOpen
  <2> QED BY <1>5, <2>1, <2>2
<1>7. CASE ~Stale(o) /\ Closed(st, k)
  <2>1. ReplayOpen(st, o, close) = Failed(st) \cup {Result("written", st)}
    BY <1>7 DEF ReplayOpen, k
  <2>2. st.rows[o.key] # NoRow
    BY <1>7 DEF Closed, k
  <2>3. Replayed(st, Result("written", st), o, o.slot, K, I)
    BY <2>2, FailedOn
  <2> QED BY <1>5, <2>1, <2>3
<1>8. CASE ~Stale(o) /\ ~Closed(st, k)
  <2>1. ReplayOpen(st, o, close) = Failed(st) \cup WithIntervals(PutRow(st, k, final), k, o.ivs)
    BY <1>8 DEF ReplayOpen, k, final, merged, first, grown
  <2>2. \A r \in WithIntervals(PutRow(st, k, final), k, o.ivs) : Replayed(st, r, o, o.slot, K, I)
    <3>1. IF st.rows[o.key] = NoRow THEN final.id \notin IdIn(st) /\ final.slot = o.slot
          ELSE final.id = st.rows[o.key].id /\ final.slot = st.rows[o.key].slot
      BY <1>3, <1>4 DEF k
    <3> QED BY <1>0, <1>4, <3>1, RowReplayed DEF k
  <2> QED BY <1>5, <2>1, <2>2
<1> QED BY <1>6, <1>7, <1>8

\* The retried close of a session that had a row: dropped only while its
\* key has a row.
LEMMA FinalizeOn ==
  ASSUME NEW st, StorageOK(st), NEW e \in Entries, NEW K, NEW sl, NEW I, e.op.key \in K
  PROVE  \A r \in Finalize(st, e) :
           /\ Alters(st, r.st, K, sl, I)
           /\ r.result # "error" => r.st.rows[e.op.key] # NoRow
<1> DEFINE k == e.op.key
<1>0. k \in Keys /\ e.op.end \in Int /\ e.op.secs \in Int /\ e.op.ivs \in Int \cup {NoIntervals}
  BY DEF Entries, Operations
<1>1. /\ Alters(st, st, K, sl, I) /\ Alters(st, Refused(st), K, sl, I)
      /\ \A x, y : Result(x, y).result = x /\ Result(x, y).st = y
  BY AltersNot DEF Result
<1> HIDE DEF k
<1> DEFINE row == [st.rows[k] EXCEPT !.end = Later(st.rows[k].start, e.op.end),
                                     !.secs = Later(st.rows[k].secs, e.op.secs)]
           good(r) == Alters(st, r.st, K, sl, I) /\ (r.result # "error" => r.st.rows[k] # NoRow)
<1>2. \A r \in Failed(st) : good(r)
  BY <1>1 DEF Failed
<1>3. CASE st.rows[k] = NoRow
  <2>1. Finalize(st, e) = Failed(st) \cup {Result("error", st)}
    BY <1>3 DEF Finalize, k
  <2> QED BY <1>1, <1>2, <2>1 DEF k
<1>4. CASE st.rows[k] # NoRow /\ st.rows[k].id # e.id
  <2>1. Finalize(st, e) = Failed(st) \cup {Result("stale", st)}
    BY <1>4 DEF Finalize, k
  <2> QED BY <1>1, <1>2, <1>4, <2>1 DEF k
<1>5. CASE st.rows[k] # NoRow /\ st.rows[k].id = e.id /\ Closed(st, k)
  <2>1. Finalize(st, e) = Failed(st) \cup WithIntervals(st, k, e.op.ivs)
    BY <1>5 DEF Finalize, k
  <2>2. \A r \in WithIntervals(st, k, e.op.ivs) : good(r)
    <3>2. ASSUME NEW r \in WithIntervals(st, k, e.op.ivs) PROVE good(r)
      <4>1. Alters(st, r.st, K, sl, I)
        BY <1>0, <1>1, WithIntervalsOn
      <4>2. r.st.rows[k] # NoRow
        BY <1>0, <1>5, <4>1 DEF Alters, Extends, Writes
      <4> QED BY <4>1, <4>2
    <3> QED BY <3>2
  <2> QED BY <1>2, <2>1, <2>2 DEF k
<1>6. CASE st.rows[k] # NoRow /\ st.rows[k].id = e.id /\ ~Closed(st, k)
  <2>1. /\ st.rows[k] \in Rows
    BY <1>0, <1>6 DEF StorageOK, Storage
  <2>2. Later(st.rows[k].start, e.op.end) \in Int /\ Later(st.rows[k].secs, e.op.secs) \in Int
    BY <1>0, <2>1 DEF Rows, Later
  <2>3. row \in Rows /\ row.id = st.rows[k].id /\ row.slot = st.rows[k].slot
    BY <2>1, <2>2 DEF Rows
  <2>5. Finalize(st, e) = Failed(st) \cup WithIntervals(PutRow(st, k, row), k, e.op.ivs)
    BY <1>6 DEF Finalize, k
  <2> HIDE DEF row
  <2>6. Alters(st, PutRow(st, k, row), K, sl, I) /\ PutRow(st, k, row).rows[k] = row
    BY <1>0, <1>6, <2>3, RowAltered DEF k
  <2>7. \A r \in WithIntervals(PutRow(st, k, row), k, e.op.ivs) : good(r)
    BY <1>0, <2>3, <2>6, NothingAssumption, WithIntervalsOn
  <2> QED BY <1>2, <2>5, <2>7 DEF k
<1> QED BY <1>3, <1>4, <1>5, <1>6

-----------------------------------------------------------------------------
\* Sessions that are followed again.
Filled == active \in [Slots -> Sessions \cup {NoSession}] /\ \A s \in Slots : active[s] # NoSession => active[s].slot = s

\* The sessions a are the active ones, or one of key k is followed at sl,
\* which was free or already k's and which a match of this poll stands for.
Places(a, st, k, sl) ==
  \/ a = active
  \/ \E s \in Sessions :
       /\ s.key = k /\ s.slot = sl /\ a = [active EXCEPT ![sl] = s]
       /\ s.id = 0 \/ IsRow(st, k, s.id)
       /\ \E m \in seen : m.slot = sl
       /\ active[sl] = NoSession \/ active[sl].key = k

\* reconcileRecoveredOpen() follows the session of a checkpoint at its own
\* slot, under its own key and with the identifier of its own row.
LEMMA ReconcileOn ==
  ASSUME StorageOK(Stored), Filled, now \in Int, NEW o \in Operations, NEW K, o.key \in K, NEW I
  PROVE  \A c \in Reconcile(o) :
           /\ Replayed(Stored, c.r, o, o.slot, K, I)
           /\ Places(c.active, c.r.st, o.key, o.slot)
<1> SUFFICES ASSUME NEW c \in Reconcile(o)
             PROVE  /\ Replayed(Stored, c.r, o, o.slot, K, I)
                    /\ Places(c.active, c.r.st, o.key, o.slot)
  OBVIOUS
<1> DEFINE follows == Alive(o.slot[1]) /\ Matched(o.slot, o.game)
           here == active[o.slot]
           Leave(r) == [r |-> r, active |-> active]
           Follow(r, s) == [r |-> r, active |-> [active EXCEPT ![o.slot] = s]]
           Reserved == [Session(o.key, o.slot, o.game, 0, o.start, o.secs, o.ivs)
                        EXCEPT !.titled = ~o.slot[2]]
           Adopted(row) == Session(o.key, o.slot, o.game, row.id, row.start, row.secs, o.ivs)
           Merged(row) == [here EXCEPT !.id = row.id, !.secs = Later(@, row.secs),
                                       !.ivs = IF o.ivs = NoIntervals /\ row.secs > 0
                                               THEN row.secs ELSE o.ivs]
           Adopt(r, row) ==
             IF here = NoSession THEN Follow(r, Adopted(row))
             ELSE IF here.key # o.key THEN Leave(Result("error", r.st))
             ELSE Follow(r, Merged(row))
           Outcomes(r) ==
             IF ~follows \/ r.result = "stale" THEN {Leave(r)}
             ELSE IF r.result = "error"
             THEN {IF here = NoSession THEN Follow(r, Reserved) ELSE Leave(r)}
             ELSE IF here # NoSession /\ here.game # o.game THEN {Leave(r)}
             ELSE {Adopt(r, r.st.rows[o.key]), Leave(Result("error", Refused(r.st)))}
<1>1. Reconcile(o) = UNION {Outcomes(r) : r \in ReplayOpen(Stored, o, ~follows)}
  BY DEF Reconcile
<1>2. PICK r \in ReplayOpen(Stored, o, ~follows) : c \in Outcomes(r)
  <2> HIDE DEF Outcomes
  <2> QED BY <1>1
<1>3. /\ o.key \in Keys /\ o.slot \in Slots /\ o.game \in Games /\ o.start \in Int /\ o.secs \in Int
      /\ o.ivs \in Int \cup {NoIntervals}
      /\ o.slot[2] \in BOOLEAN
  BY DEF Operations, Slots
<1>4. Replayed(Stored, r, o, o.slot, K, I)
  <2> HIDE DEF follows
  <2>1. \A q \in ReplayOpen(Stored, o, ~follows) : Replayed(Stored, q, o, o.slot, K, I)
    BY ReplayOpenOn
  <2> QED BY <2>1
<1>5. Replayed(Stored, Result("error", r.st), o, o.slot, K, I)
      /\ Result("error", r.st).st = r.st
  BY <1>4 DEF Replayed, Result
<1>6. Replayed(Stored, Result("error", Refused(r.st)), o, o.slot, K, I)
  <2>2. Alters(Stored, Refused(r.st), K, o.slot, I)
    BY <1>4, RefusedOn DEF Replayed, Alters
  <2>3. Result("error", Refused(r.st)).st = Refused(r.st) /\ Result("error", Refused(r.st)).result = "error"
    BY DEF Result
  <2> HIDE DEF Refused
  <2> QED BY <2>2, <2>3 DEF Replayed
<1> DEFINE good(d) == Replayed(Stored, d.r, o, o.slot, K, I) /\ Places(d.active, d.r.st, o.key, o.slot)
<1>7. \A q : Replayed(Stored, q, o, o.slot, K, I) => good(Leave(q))
  BY DEF Places
<1>8. ASSUME follows, NEW s \in Sessions, s.key = o.key, s.slot = o.slot,
             s.id = 0 \/ IsRow(r.st, o.key, s.id), here = NoSession \/ here.key = o.key
      PROVE  good(Follow(r, s))
  <2>1. Places([active EXCEPT ![o.slot] = s], r.st, o.key, o.slot)
    BY <1>8 DEF Places, Matched
  <2> QED BY <1>4, <2>1
<1>9. Reserved \in Sessions /\ Reserved.key = o.key /\ Reserved.slot = o.slot /\ Reserved.id = 0
  <2> DEFINE n == Session(o.key, o.slot, o.game, 0, o.start, o.secs, o.ivs)
  <2>1. n \in Sessions /\ n.key = o.key /\ n.slot = o.slot /\ n.id = 0
    BY <1>3 DEF Session, Sessions
  <2> HIDE DEF n
  <2>2. [n EXCEPT !.titled = ~o.slot[2]] \in Sessions /\ [n EXCEPT !.titled = ~o.slot[2]].key = n.key
        /\ [n EXCEPT !.titled = ~o.slot[2]].slot = n.slot /\ [n EXCEPT !.titled = ~o.slot[2]].id = n.id
    BY <1>3, <2>1 DEF Sessions
  <2> QED BY <2>1, <2>2 DEF n
<1>10. CASE ~follows \/ r.result = "stale"
  <2>1. c = Leave(r)
    BY <1>2, <1>10
  <2> QED BY <1>4, <1>7, <2>1
<1>11. CASE follows /\ r.result = "error"
  <2>1. c = Leave(r) \/ (here = NoSession /\ c = Follow(r, Reserved))
    BY <1>2, <1>11
  <2> QED BY <1>4, <1>7, <1>8, <1>9, <1>11, <2>1
<1>12. CASE follows /\ r.result = "written"
  <2> DEFINE row == r.st.rows[o.key]
  <2>1. row \in Rows /\ row # NoRow
    BY <1>3, <1>4, <1>12 DEF Replayed, Alters, Extends, Writes, StorageOK, Storage
  <2>2. IsRow(r.st, o.key, row.id)
    BY <2>1 DEF IsRow
  <2>3. row.id \in Nat /\ row.start \in Int /\ row.secs \in Int
    BY <2>1 DEF Rows
  <2> HIDE DEF row
  <2>4. Adopted(row) \in Sessions /\ Adopted(row).key = o.key /\ Adopted(row).slot = o.slot /\ Adopted(row).id = row.id
    BY <1>3, <2>3 DEF Session, Sessions
  <2>5. here # NoSession /\ here.key = o.key =>
          Merged(row) \in Sessions /\ Merged(row).key = o.key /\ Merged(row).slot = o.slot /\ Merged(row).id = row.id
    <3> SUFFICES ASSUME here # NoSession, here.key = o.key
                 PROVE  Merged(row) \in Sessions /\ Merged(row).key = o.key
                        /\ Merged(row).slot = o.slot /\ Merged(row).id = row.id
      OBVIOUS
    <3>1. here \in Sessions /\ here.slot = o.slot
      BY <1>3 DEF Filled
    <3>2. here.secs \in Int
      BY <3>1 DEF Sessions
    <3>3. Later(here.secs, row.secs) \in Int
      BY <2>3, <3>2 DEF Later
    <3> QED BY <1>3, <2>3, <3>1, <3>3 DEF Sessions
  <2>6. c \in {Leave(r), Adopt(r, row), Leave(Result("error", Refused(r.st)))}
    BY <1>2, <1>12 DEF row
  <2> HIDE DEF Adopted, Merged
  <2>7. Adopt(r, row) = Leave(Result("error", r.st))
        \/ (here = NoSession /\ Adopt(r, row) = Follow(r, Adopted(row)))
        \/ (here # NoSession /\ here.key = o.key /\ Adopt(r, row) = Follow(r, Merged(row)))
    OBVIOUS
  <2>8. good(Leave(r)) /\ good(Leave(Result("error", Refused(r.st)))) /\ good(Leave(Result("error", r.st)))
    BY <1>4, <1>5, <1>6, <1>7
  <2>9. here = NoSession => good(Follow(r, Adopted(row)))
    BY <1>8, <1>12, <2>2, <2>4
  <2>10. here # NoSession /\ here.key = o.key => good(Follow(r, Merged(row)))
    BY <1>8, <1>12, <2>2, <2>5
  <2> HIDE DEF good, Adopt, Follow, Leave
  <2> QED BY <2>6, <2>7, <2>8, <2>9, <2>10 DEF good
<1> QED BY <1>4, <1>10, <1>11, <1>12 DEF Replayed

\* So does applyJournalOperation().
LEMMA ApplyOn ==
  ASSUME StorageOK(Stored), Filled, now \in Int, NEW o \in Operations, NEW K, o.key \in K, NEW I
  PROVE  \A c \in Apply(o) :
           /\ Replayed(Stored, c.r, o, o.slot, K, I)
           /\ Places(c.active, c.r.st, o.key, o.slot)
<1>1. CASE o.open
  BY <1>1, ReconcileOn DEF Apply
<1>2. CASE ~o.open
  <2>2. \A r \in ReplayClosed(Stored, o) : Replayed(Stored, r, o, o.slot, K, I)
    BY ReplayClosedOn
  <2> QED BY <1>2, <2>2 DEF Apply, Places
<1> QED BY <1>1, <1>2

\* An open row that is recovered, when its row could not be ended.
RowsKept(st, t, i) == \A l \in Keys : st.rows[l] # NoRow /\ st.rows[l].id # i => t.rows[l] = st.rows[l]

\* Ending a recovered row leaves the others alone.
LEMMA EndsOn ==
  ASSUME NEW st, StorageOK(st), NEW k, NEW K, NEW sl, NEW I, rows[k] \in Rows
  PROVE  \A e \in Ends(st, k) : Alters(st, e.st, K, sl, I) /\ RowsKept(st, e.st, rows[k].id)
<1> DEFINE end == Later(rows[k].start, rows[k].beat)
           i == rows[k].id
           secs == rows[k].secs
<1>1. end \in Int /\ secs \in Int
  BY DEF Rows, Later
<1>2. Ends(st, k) = End(st, i, end, secs)
  BY DEF Ends
<1> HIDE DEF end, i, secs
<1>3. \A e \in End(st, i, end, secs) : Alters(st, e.st, K, sl, I)
  BY <1>1, EndOn
<1>4. \A e \in End(st, i, end, secs) : RowsKept(st, e.st, i)
  BY UpdateOthers DEF End, RowsKept
<1> QED BY <1>2, <1>3, <1>4 DEF i

\* A recovered row that goes on is adopted, queued or left.
LEMMA SurvivesOn ==
  ASSUME NEW st, StorageOK(st), Filled, now \in Int, epoch \in [Games -> Nat], queue \in Seq(Entries),
         tried \in Int, NEW k \in Keys, rows[k] \in Rows, IsRow(st, k, rows[k].id),
         NEW K, k \in K, NEW I
  PROVE  \A c \in Survives(st, k) :
           /\ Extends(st, c.st, K, rows[k].slot, I) /\ RowsKept(st, c.st, rows[k].id)
           /\ Grows(queue, c.queue, K, rows[k].slot) /\ c.tried \in Int
           /\ Places(c.active, c.st, k, rows[k].slot)
<1> DEFINE r == rows[k]
           s == [key |-> k, game |-> r.game, slot |-> r.slot, start |-> r.start, secs |-> r.secs,
                 ivs |-> r.ivs]
           end == Later(r.start, r.beat)
           same(t) == [st |-> t, active |-> active, queue |-> queue, tried |-> tried]
           a == [active EXCEPT ![r.slot] = Session(k, r.slot, r.game, r.id, r.start, r.secs, r.ivs)]
           pends(e) == {[same(c.st) EXCEPT !.queue = c.queue, !.tried = c.tried] :
                          c \in QueuePending(e.st, r.id, s, end)}
           left1(e) == IF e.ok THEN {same(e.st)} ELSE pends(e)
           good(c) == /\ Extends(st, c.st, K, r.slot, I) /\ RowsKept(st, c.st, r.id)
                      /\ Grows(queue, c.queue, K, r.slot) /\ c.tried \in Int
                      /\ Places(c.active, c.st, k, r.slot)
<1>1. /\ r \in Rows /\ r.id \in Nat /\ r.game \in Games /\ r.slot \in Slots /\ r.start \in Int
      /\ r.secs \in Int /\ r.ivs \in Int \cup {NoIntervals} /\ end \in Int
  BY DEF Rows, Later
<1>2. Billed(s) /\ s.key = k /\ s.slot = r.slot
  BY <1>1 DEF Billed
<1>3. Extends(st, st, K, r.slot, I) /\ RowsKept(st, st, r.id)
  BY ExtendsSelf DEF Alters, RowsKept
<1>4. Grows(queue, queue, K, r.slot)
  BY GrowsNot
<1>5. ASSUME NEW t, Extends(st, t, K, r.slot, I), RowsKept(st, t, r.id) PROVE good(same(t))
  BY <1>4, <1>5 DEF Places
<1>6. CASE active[r.slot] # NoSession
  <2>1. Survives(st, k) = {same(st)}
    BY <1>6 DEF Survives
  <2> HIDE DEF good
  <2> QED BY <1>3, <1>5, <2>1 DEF good
<1>7. CASE active[r.slot] = NoSession /\ (r.slot[2] /\ Matched(r.slot, r.game))
  <2> DEFINE c == [same(st) EXCEPT !.active = a]
             n == Session(k, r.slot, r.game, r.id, r.start, r.secs, r.ivs)
  <2>1. Survives(st, k) = {c}
    BY <1>7 DEF Survives
  <2>2. n \in Sessions /\ n.key = k /\ n.slot = r.slot /\ n.id = r.id
    BY <1>1 DEF Session, Sessions
  <2>3. Places([active EXCEPT ![r.slot] = n], st, k, r.slot)
    <3> HIDE DEF n, r
    <3>1. \E m \in seen : m.slot = r.slot
      BY <1>7 DEF Matched
    <3> QED BY <1>7, <2>2, <3>1 DEF Places, r
  <2>4. /\ c.st = st /\ c.active = [active EXCEPT ![r.slot] = n] /\ c.queue = queue /\ c.tried = tried
    OBVIOUS
  <2> HIDE DEF c, n
  <2>5. good(c)
    BY <1>3, <1>4, <2>3, <2>4
  <2> QED BY <2>1, <2>5
<1>8. CASE active[r.slot] = NoSession /\ ~(r.slot[2] /\ Matched(r.slot, r.game))
  <2>1. Survives(st, k) = UNION {left1(e) : e \in Ends(st, k)}
    BY <1>8 DEF Survives
  <2>2. ASSUME NEW e \in Ends(st, k), NEW c \in left1(e) PROVE good(c)
    <3>1. Alters(st, e.st, K, r.slot, I) /\ RowsKept(st, e.st, r.id)
      BY EndsOn
    <3>2. Extends(st, e.st, K, r.slot, I) /\ StorageOK(e.st)
      BY <3>1 DEF Alters, Extends, Writes
    <3>3. CASE e.ok
      <4>1. c = same(e.st)
        BY <2>2, <3>3
      <4> HIDE DEF good
      <4> QED BY <1>5, <3>1, <3>2, <4>1
    <3>4. CASE ~e.ok
      <4>1. c \in pends(e)
        BY <2>2, <3>4
      <4>2. PICK d \in QueuePending(e.st, r.id, s, end) : c = [same(d.st) EXCEPT !.queue = d.queue, !.tried = d.tried]
        BY <4>1
      <4>3. /\ c.st = d.st /\ c.active = active /\ c.queue = d.queue /\ c.tried = d.tried
        BY <4>2
      <4> HIDE DEF s, end
      <4>4. s.key \in K
        BY <1>2
      <4>5. /\ Extends(e.st, d.st, K, s.slot, I) /\ d.st.rows = e.st.rows
            /\ Grows(queue, d.queue, K, s.slot) /\ d.tried \in Int
        <5>1. r.id \in Nat /\ Billed(s) /\ end \in Int
          BY <1>1, <1>2
        <5>2. Pends(e.st, d, K, s.slot, I)
          BY <3>2, <4>4, <5>1, QueuePendingOn
        <5> QED BY <5>2 DEF Pends
      <4>6. Extends(st, d.st, K, r.slot, I)
        BY <1>2, <3>2, <4>5, ExtendsOn
      <4>7. RowsKept(st, d.st, r.id)
        BY <3>1, <4>5 DEF RowsKept
      <4>8. Places(c.active, c.st, k, r.slot)
        BY <4>3 DEF Places
      <4> QED BY <1>2, <4>3, <4>5, <4>6, <4>7, <4>8
    <3> QED BY <3>3, <3>4
  <2> HIDE DEF left1, good
  <2>3. \A c \in Survives(st, k) : good(c)
    BY <2>1, <2>2
  <2> QED BY <2>3 DEF good
<1> QED BY <1>6, <1>7, <1>8

\* What remains of the conditions.
Budgets ==
  [refused : Nat, deletes : Nat, kills : Nat, offs : Nat, polls : Nat,
   procs : SUBSET Procs, games : SUBSET Games,
   evidence : SUBSET {"verified", "titled", "none"}, pauses : BOOLEAN]

\* The labels of a poll and of a start.
Labels == {"down", "replay", "recover", "idle", "retry", "drain", "match", "sweep"}

\* What the loops rely on: what is left for them to handle is still there.
Loops ==
  /\ pc \in {"drain", "replay"} => work \subseteq {k \in Keys : journal[k] # NoOp}
  /\ pc = "recover" => work \subseteq {k \in Keys : Open(Stored, k)}
  /\ pc = "sweep" => work \subseteq {s \in Slots : active[s] # NoSession}
  /\ pc = "match" => \A m \in seen : m \in work \/ active[m.slot] # NoSession

\* The type invariant, with the structure every step relies on.
TypeOK ==
  /\ now \in Nat /\ game \in [Procs -> Games \cup {NoGame, Gone}]
  /\ StorageOK(Stored) /\ tombs \in SUBSET Keys /\ epoch \in [Games -> Nat]
  /\ Filled /\ queue \in Seq(Entries) /\ tried \in Int
  /\ pc \in Labels /\ off \in BOOLEAN
  /\ seen \subseteq [slot : Slots, game : Games]
  /\ \A m, n \in seen : m.slot[1] = n.slot[1] => m = n
  /\ at \in Nat \ {0} /\ drop \in SUBSET Keys
  /\ left \in Budgets
  /\ Loops

\* A slot that names the session of a key.
Named(k, s) ==
  \/ rows[k] # NoRow /\ rows[k].slot = s
  \/ journal[k] # NoOp /\ journal[k].slot = s
  \/ \E i \in 1 .. Len(queue) : queue[i].op.key = k /\ queue[i].op.slot = s
  \/ active[s] # NoSession /\ active[s].key = k

\* Where the session of key k that a step files at slot sl comes from.
Source(k, sl) ==
  \/ Named(k, sl)
  \/ /\ pc = "match" /\ \E m \in seen : m.slot = sl
     /\ \/ k \in Keys \ Minted
        \/ \E from \in Slots :
             /\ active[from] # NoSession /\ active[from].key = k /\ active'[from] = NoSession
             /\ ~from[2] \/ \A n \in seen : n.slot # from

\* A step of the recorder for the sessions of K, at slot sl.
Acts(K, sl, I) ==
  /\ Writes(Stored, Stored', K, sl, I)
  /\ Grows(queue, queue', K, sl)
  /\ \A k \in Keys : journal[k] # NoOp /\ journal'[k] = NoOp => k \in drop
  /\ \A k \in drop' : \/ k \in drop \/ rows'[k] # NoRow \/ k \in tombs
                      \/ \E g \in Games : epoch[g] > 0
  /\ \A s \in Slots : active'[s] # NoSession =>
       \/ active[s] # NoSession /\ active'[s].key = active[s].key /\ active'[s].id = active[s].id
       \/ /\ s = sl /\ active'[s].key \in K
          /\ \/ active'[s].id = 0
             \/ IsRow(Stored', active'[s].key, active'[s].id)
             \/ \E t \in Slots : active[t] # NoSession /\ active[t].key = active'[s].key /\ active[t].id = active'[s].id
          /\ \/ active[s] # NoSession /\ active[s].key = active'[s].key
             \/ \E m \in seen : m.slot = sl
  /\ \A i \in I : \E t \in Slots : active[t] # NoSession /\ active[t].key \in K /\ active[t].id = i
  /\ \A k \in K : Source(k, sl)

-----------------------------------------------------------------------------
\* Writes to the storage of a step are writes to the disk.
LEMMA StoreOn ==
  ASSUME TypeOK, NEW st, NEW K, NEW sl, NEW I, Writes(Stored, st, K, sl, I), Store(st)
  PROVE  /\ Writes(Stored, Stored', K, sl, I) /\ StorageOK(Stored')
         /\ rows' = st.rows /\ journal' = st.journal /\ tombs' = tombs /\ epoch' = epoch
         /\ left' \in Budgets
<1>1. rows' = st.rows /\ journal' = st.journal /\ jok' = st.jok /\ tombs' = tombs /\ epoch' = epoch
  BY DEF Store
<1>2. st \in Storage /\ StorageOK(st)
  BY DEF Writes, StorageOK
<1>3. /\ Stored'.rows = st.rows /\ Stored'.journal = st.journal /\ Stored'.jok = st.jok
      /\ Stored' \in Storage
  BY <1>1, <1>2 DEF Stored, Storage
<1>4. StorageOK(Stored')
  BY <1>2, <1>3 DEF StorageOK
<1>5. Writes(Stored, Stored', K, sl, I)
  BY <1>3, <1>4 DEF Writes
<1>6. left' \in Budgets
  <2>1. st.cost \in Nat /\ left.refused \in Nat /\ st.cost <= left.refused
    BY <1>2 DEF Storage, TypeOK, Budgets, Store
  <2>2. left' = [left EXCEPT !.refused = left.refused - st.cost]
    BY DEF Store
  <2>3. left.refused - st.cost \in Nat
    BY <2>1
  <2> QED BY <2>2, <2>3 DEF TypeOK, Budgets
<1> QED BY <1>1, <1>4, <1>5, <1>6

\* A step that files nothing new: rows stay, and the journal loses no key
\* but those to compact.
LEMMA ActsNot ==
  ASSUME TypeOK, StorageOK(Stored'), rows' = rows,
         \A k \in Keys : journal'[k] = journal[k] \/ (journal'[k] = NoOp /\ k \in drop),
         queue' \in Seq(Entries), \A j \in 1 .. Len(queue') : \E i \in 1 .. Len(queue) : queue'[j] = queue[i],
         drop' \subseteq drop,
         \A s \in Slots : active'[s] # NoSession =>
           active[s] # NoSession /\ active'[s].key = active[s].key /\ active'[s].id = active[s].id
  PROVE  Acts({}, 0, {})
<1>1. Writes(Stored, Stored', {}, 0, {})
  BY DEF Writes, Stored
<1>2. Grows(queue, queue', {}, 0)
  BY DEF Grows
<1> QED BY <1>1, <1>2 DEF Acts

\* A step that writes neither rows nor the journal leaves the storage well
\* formed.
LEMMA StoredSame ==
  ASSUME TypeOK, rows' = rows, journal' = journal, jok' \in BOOLEAN
  PROVE  StorageOK(Stored')
<1>1. Stored'.rows = rows /\ Stored'.journal = journal /\ Stored' \in Storage
  BY DEF TypeOK, StorageOK, Storage, Stored
<1> QED BY <1>1 DEF TypeOK, StorageOK, Stored

\* The initial states are well formed.
LEMMA InitTypeOK == Init => TypeOK
<1> SUFFICES ASSUME Init PROVE TypeOK
  OBVIOUS
<1>1. Stored \in Storage /\ \A k \in Keys : Stored.rows[k] = NoRow /\ Stored.journal[k] = NoOp
  BY DEF Init, Stored, Storage
<1>2. StorageOK(Stored)
  BY <1>1 DEF StorageOK
<1>3. left \in Budgets
  BY ConditionsAssumption DEF Init, Budgets
<1>4. Filled
  BY DEF Init, Filled
<1>5. queue \in Seq(Entries)
  BY DEF Init
<1>6. Loops
  BY DEF Init, Loops
<1>7. /\ tombs \in SUBSET Keys /\ tried \in Int
      /\ seen = {} /\ at \in Nat \ {0} /\ drop \in SUBSET Keys /\ now \in Nat
  <2>1. tombs = {} /\ drop = {} /\ tried = 0 /\ seen = {} /\ at = 1 /\ now = 1
    BY DEF Init
  <2> QED BY <2>1
<1>8. epoch \in [Games -> Nat] /\ game \in [Procs -> Games \cup {NoGame, Gone}]
  BY DEF Init
<1>10. off \in BOOLEAN
  BY Zenon DEF Init
<1>9. pc \in Labels
  BY DEF Init, Labels
<1> QED BY <1>2, <1>3, <1>4, <1>5, <1>6, <1>7, <1>8, <1>9, <1>10 DEF TypeOK

-----------------------------------------------------------------------------
\* The world: processes and time write nothing.
LEMMA WorldActs ==
  ASSUME TypeOK, Pass \/ \E p \in Procs, g \in Games : StartGame(p, g) \/ SwitchGame(p, g) \/ ExitGame(p)
  PROVE  TypeOK' /\ Acts({}, 0, {})
<1>1. /\ UNCHANGED <<database, disk, memory, poll, left>>
      /\ now' = now \/ now' = now + 1
      /\ game' = game \/ \E p \in Procs, g \in Games : game' = [game EXCEPT ![p] = g] \/ game' = [game EXCEPT ![p] = Gone]
  BY DEF Pass, Passes, StartGame, SwitchGame, ExitGame
<1>2. UNCHANGED <<rows, tombs, epoch, journal, jok, active, queue, tried, pc, off, seen, work, at, drop, left>>
  BY <1>1 DEF database, disk, memory, poll
<1>3. StorageOK(Stored')
  BY <1>2, StoredSame DEF TypeOK, StorageOK, Storage, Stored
<1>4. game' \in [Procs -> Games \cup {NoGame, Gone}] /\ now' \in Nat
  BY <1>1 DEF TypeOK
<1>5. Loops'
  BY <1>2 DEF TypeOK, Loops, Open, Stored
<1>6. Filled'
  BY <1>2 DEF TypeOK, Filled
<1>7. TypeOK'
  BY <1>2, <1>3, <1>4, <1>5, <1>6 DEF TypeOK
<1>8. Acts({}, 0, {})
  BY <1>2, <1>3, ActsNot DEF TypeOK
<1> QED BY <1>7, <1>8

\* History that is deleted: finished rows only, so that the rows a
\* recovery has yet to read are there.
LEMMA DeletesType ==
  ASSUME TypeOK, rows' \in [Keys -> Rows \cup {NoRow}],
         \A k \in Keys : rows'[k] = rows[k] \/ (rows'[k] = NoRow /\ Closed(Stored, k)),
         UNCHANGED <<disk, memory, poll, world>>,
         tombs' \in SUBSET Keys, epoch' \in [Games -> Nat], left' \in Budgets
  PROVE  TypeOK'
<1>1. UNCHANGED <<now, game, journal, jok, active, queue, tried, pc, off, seen, work, at, drop>>
  BY DEF disk, memory, poll, world
<1>2. StorageOK(Stored')
  <2>1. /\ Stored' \in Storage /\ Stored'.journal = journal /\ Stored'.rows = rows'
    BY <1>1 DEF TypeOK, StorageOK, Storage, Stored
  <2>2. \A k \in Keys : Stored'.rows[k] # NoRow => Stored'.rows[k] = Stored.rows[k]
    BY <2>1 DEF Stored
  <2>3. Stored.journal = journal /\ StorageOK(Stored)
    BY DEF TypeOK, Stored
  <2> DEFINE st == Stored
  <2> DEFINE t == Stored'
  <2>5. t \in Storage /\ t.journal = journal /\ st.journal = journal /\ StorageOK(st)
    BY <2>1, <2>3
  <2>6. \A k \in Keys : t.rows[k] # NoRow => t.rows[k] = st.rows[k]
    BY <2>2
  <2> HIDE DEF st, t
  <2>7. StorageOK(t)
    BY <2>5, <2>6 DEF StorageOK
  <2> QED BY <2>7 DEF t
<1>3. Loops'
  <2>1. pc = "recover" => \A k \in work : Open(Stored, k)'
    BY <1>1 DEF TypeOK, Loops, Open, Closed, Stored, StorageOK, Storage, Rows
  <2> QED BY <1>1, <2>1 DEF TypeOK, Loops
<1>4. Filled'
  BY <1>1 DEF TypeOK, Filled
<1> QED BY <1>1, <1>2, <1>3, <1>4 DEF TypeOK

\* The deletion of a session leaves a tombstone.
LEMMA DeleteSessionType ==
  ASSUME TypeOK, NEW k \in Keys, DeleteSession(k)
  PROVE  /\ TypeOK' /\ tombs' # {} /\ epoch' = epoch
         /\ \A l \in Keys : rows'[l] = rows[l] \/ (rows'[l] = NoRow /\ l \in tombs')
         /\ tombs \subseteq tombs' /\ UNCHANGED <<journal, active, queue, seen, game, drop, pc, off>>
         /\ left'.evidence = left.evidence
<1>1. /\ rows' = [rows EXCEPT ![k] = NoRow] /\ tombs' = tombs \cup {k} /\ epoch' = epoch
      /\ UNCHANGED <<disk, memory, poll, world>> /\ Closed(Stored, k) /\ left.deletes > 0
      /\ left' = [left EXCEPT !.deletes = @ - 1]
  BY DEF DeleteSession
<1>2. rows \in [Keys -> Rows \cup {NoRow}]
  BY DEF TypeOK, StorageOK, Storage, Stored
<1>3. left' \in Budgets /\ left'.evidence = left.evidence
  <2>1. left.deletes - 1 \in Nat
    BY <1>1 DEF TypeOK, Budgets
  <2> QED BY <1>1, <2>1 DEF TypeOK, Budgets
<1>4. TypeOK'
  BY <1>1, <1>2, <1>3, DeletesType DEF TypeOK
<1> QED BY <1>1, <1>2, <1>3, <1>4 DEF disk, memory, poll, world

\* The clearing of a game raises its epoch.
LEMMA ClearGameType ==
  ASSUME TypeOK, NEW g \in Games, ClearGame(g)
  PROVE  /\ TypeOK' /\ epoch'[g] # 0 /\ tombs' = tombs
         /\ \A l \in Keys : rows'[l] = rows[l] \/ rows'[l] = NoRow
         /\ UNCHANGED <<journal, active, queue, seen, game, drop, pc, off>>
         /\ left'.evidence = left.evidence
<1>1. /\ rows' = [k \in Keys |-> IF Closed(Stored, k) /\ rows[k].game = g THEN NoRow ELSE rows[k]]
      /\ epoch' = [epoch EXCEPT ![g] = @ + 1] /\ tombs' = tombs
      /\ UNCHANGED <<disk, memory, poll, world>> /\ left.deletes > 0
      /\ left' = [left EXCEPT !.deletes = @ - 1]
  BY DEF ClearGame
<1>2. rows \in [Keys -> Rows \cup {NoRow}] /\ epoch \in [Games -> Nat]
  BY DEF TypeOK, StorageOK, Storage, Stored
<1>3. left' \in Budgets /\ left'.evidence = left.evidence
  <2>1. left.deletes - 1 \in Nat
    BY <1>1 DEF TypeOK, Budgets
  <2> QED BY <1>1, <2>1 DEF TypeOK, Budgets
<1>5. epoch' \in [Games -> Nat] /\ epoch'[g] # 0
  BY <1>1, <1>2
<1>4. TypeOK'
  BY <1>1, <1>2, <1>3, <1>5, DeletesType DEF TypeOK
<1> QED BY <1>1, <1>2, <1>3, <1>4, <1>5 DEF disk, memory, poll, world

-----------------------------------------------------------------------------
\* What a poll finds: living processes, each once, and all of them when
\* every match is by proof.
LEMMA SightingsOn ==
  ASSUME TypeOK, NEW z \in Sightings
  PROVE  /\ z \subseteq [slot : Slots, game : Games]
         /\ \A m, n \in z : m.slot[1] = n.slot[1] => m = n
         /\ \A m \in z : Alive(m.slot[1])
         /\ left.evidence = {"verified"} => /\ \A m \in z : m.slot[2]
                                            /\ \A p \in Procs : Alive(p) => \E m \in z : m.slot = <<p, TRUE>>
<1>1. PICK how \in [Procs -> left.evidence] :
        z = {[slot |-> <<p, how[p] = "verified">>, game |-> game[p]] :
               p \in {q \in Procs : Alive(q) /\ how[q] # "none"}}
  BY DEF Sightings
<1>2. \A m \in z : \E p \in Procs : Alive(p) /\ m = [slot |-> <<p, how[p] = "verified">>, game |-> game[p]]
  BY <1>1
<1>3. ASSUME NEW m \in z PROVE m \in [slot : Slots, game : Games] /\ Alive(m.slot[1])
  <2>1. PICK p \in Procs : Alive(p) /\ m = [slot |-> <<p, how[p] = "verified">>, game |-> game[p]]
    BY <1>2
  <2>2. (how[p] = "verified") \in BOOLEAN
    BY Zenon
  <2>3. <<p, how[p] = "verified">> \in Slots
    BY <2>2, Zenon DEF Slots
  <2>4. game[p] \in Games
    BY <2>1 DEF Alive
  <2>5. m.slot = <<p, how[p] = "verified">> /\ m \in [slot : Slots, game : Games]
    BY <2>1, <2>3, <2>4
  <2>6. m.slot[1] = p
    BY <2>5
  <2> QED BY <2>1, <2>5, <2>6
<1>4. ASSUME NEW m \in z, NEW n \in z, m.slot[1] = n.slot[1] PROVE m = n
  BY <1>2, <1>4
<1>5. ASSUME left.evidence = {"verified"}
      PROVE  /\ \A m \in z : m.slot[2]
             /\ \A p \in Procs : Alive(p) => \E m \in z : m.slot = <<p, TRUE>>
  <2>1. \A p \in Procs : how[p] = "verified"
    BY <1>5
  <2>2. ASSUME NEW m \in z PROVE m.slot[2]
    <3>1. PICK p \in Procs : m = [slot |-> <<p, how[p] = "verified">>, game |-> game[p]]
      BY <1>2
    <3>2. m.slot[2] = (how[p] = "verified")
      BY <3>1
    <3> QED BY <2>1, <3>2, Zenon
  <2>3. ASSUME NEW p \in Procs, Alive(p) PROVE \E m \in z : m.slot = <<p, TRUE>>
    <3> DEFINE m == [slot |-> <<p, how[p] = "verified">>, game |-> game[p]]
    <3>1. m \in z
      BY <1>1, <2>1, <2>3
    <3>2. m.slot = <<p, TRUE>>
      BY <2>1
    <3> QED BY <3>1, <3>2
  <2> QED BY <2>2, <2>3
<1> QED BY <1>3, <1>4, <1>5

\* The start of a poll files nothing.
LEMMA PollActs ==
  ASSUME TypeOK, Poll
  PROVE  TypeOK' /\ Acts({}, 0, {}) /\ left'.evidence = left.evidence
<1>1. PICK o \in BOOLEAN :
        /\ (o => left.offs > 0) /\ off' = o
        /\ left' = IF o THEN [left EXCEPT !.offs = @ - 1] ELSE left
        /\ seen' \in IF o THEN {{}} ELSE Sightings
  BY DEF Poll
<1>2. /\ now' = now + 1
      /\ (pc' = "retry" /\ work' = {} /\ tried' = now') \/ (pc' = "match" /\ work' = seen' /\ tried' = tried)
      /\ UNCHANGED <<rows, tombs, epoch, journal, jok, active, queue, at, drop, game>>
  BY DEF Poll, Passes, database, disk
<1>3. StorageOK(Stored')
  BY <1>2, StoredSame DEF TypeOK, StorageOK, Storage, Stored
<1>4. left' \in Budgets /\ left'.evidence = left.evidence
  <2>1. CASE o
    <3>1. left.offs - 1 \in Nat /\ left' = [left EXCEPT !.offs = left.offs - 1]
      BY <1>1, <2>1 DEF TypeOK, Budgets
    <3> QED BY <3>1 DEF TypeOK, Budgets
  <2>2. CASE ~o
    BY <1>1, <2>2 DEF TypeOK
  <2> QED BY <2>1, <2>2
<1>5. seen' \subseteq [slot : Slots, game : Games] /\ \A m, n \in seen' : m.slot[1] = n.slot[1] => m = n
  BY <1>1, SightingsOn
<1>6. Loops' /\ pc' \in Labels
  BY <1>2 DEF Loops, Labels
<1>7. Filled'
  BY <1>2 DEF TypeOK, Filled
<1>8. now' \in Nat /\ tried' \in Int
  BY <1>2 DEF TypeOK
<1>11. off' \in BOOLEAN
  BY <1>1, Zenon
<1>12. /\ game' \in [Procs -> Games \cup {NoGame, Gone}] /\ tombs' \in SUBSET Keys /\ epoch' \in [Games -> Nat]
       /\ queue' \in Seq(Entries) /\ at' \in Nat \ {0} /\ drop' \in SUBSET Keys
  BY <1>2 DEF TypeOK
<1>9. TypeOK'
  BY <1>3, <1>4, <1>5, <1>6, <1>7, <1>8, <1>11, <1>12 DEF TypeOK
<1>10. Acts({}, 0, {})
  BY <1>2, <1>3, ActsNot DEF TypeOK
<1> QED BY <1>4, <1>9, <1>10

-----------------------------------------------------------------------------
\* The steps that only go from one label to the next.
LEMMA StepType ==
  ASSUME TypeOK, UNCHANGED <<now, game>>,
         StorageOK(Stored'), tombs' = tombs, epoch' = epoch, left' \in Budgets,
         Filled', queue' \in Seq(Entries), tried' \in Int, pc' \in Labels, off' \in BOOLEAN,
         seen' \subseteq [slot : Slots, game : Games],
         \A m, n \in seen' : m.slot[1] = n.slot[1] => m = n,
         at' \in Nat \ {0}, drop' \in SUBSET Keys, Loops'
  PROVE  TypeOK'
<1>1. now' \in Nat /\ game' \in [Procs -> Games \cup {NoGame, Gone}] /\ tombs' \in SUBSET Keys /\ epoch' \in [Games -> Nat]
  BY DEF TypeOK
<1> QED BY <1>1 DEF TypeOK

\* compact() removes the operations of dropped keys, or nothing.
LEMMA CompactedOn ==
  ASSUME TypeOK, NEW st \in Compacted(Stored)
  PROVE  /\ Writes(Stored, st, {}, 0, {}) /\ st.rows = rows /\ st.journal \in [Keys -> Operations \cup {NoOp}]
         /\ \A k \in Keys : st.journal[k] = journal[k] \/ (st.journal[k] = NoOp /\ k \in drop)
<1> DEFINE kept == [Stored EXCEPT !.journal = [k \in Keys |-> IF k \in drop THEN NoOp ELSE @[k]]]
<1>1. st = Stored \/ st = kept \/ st = Refused(Stored) \/ st = Refused(kept)
  BY DEF Compacted
<1>2. StorageOK(Stored) /\ Stored \in Storage /\ Stored.rows = rows /\ Stored.journal = journal
  BY DEF TypeOK, StorageOK, Stored
<1>3. /\ kept \in Storage /\ kept.rows = rows
      /\ kept.journal = [k \in Keys |-> IF k \in drop THEN NoOp ELSE journal[k]]
  BY <1>2 DEF Storage
<1> HIDE DEF kept
<1>4. StorageOK(kept)
  BY <1>2, <1>3 DEF StorageOK
<1>5. Writes(Stored, kept, {}, 0, {})
  BY <1>2, <1>3, <1>4 DEF Writes
<1>6. ASSUME NEW u, StorageOK(u), Writes(Stored, u, {}, 0, {})
      PROVE  Writes(Stored, Refused(u), {}, 0, {}) /\ Refused(u).rows = u.rows /\ Refused(u).journal = u.journal
  <2>1. StorageOK(Refused(u)) /\ Refused(u).rows = u.rows /\ Refused(u).journal = u.journal
    BY <1>6, AltersNot DEF StorageOK, Storage, Refused
  <2> QED BY <1>6, <2>1 DEF Writes
<1>7. Writes(Stored, Stored, {}, 0, {})
  BY <1>2 DEF Writes
<1>8. journal \in [Keys -> Operations \cup {NoOp}]
  BY <1>2 DEF Storage
<1> QED BY <1>1, <1>2, <1>3, <1>4, <1>5, <1>6, <1>7, <1>8

\* The end of the retries compacts and files nothing.
LEMMA RetryDoneActs ==
  ASSUME TypeOK, RetryDone
  PROVE  TypeOK' /\ Acts({}, 0, {})
<1>1. PICK st \in Compacted(Stored) :
        /\ Store(st)
        /\ \/ pc' = "match" /\ work' = seen
           \/ pc' = "drain" /\ work' = Pending(st)
  BY DEF RetryDone
<1>2. at' = 1 /\ drop' = {} /\ UNCHANGED <<active, queue, tried, off, seen, now, game>>
  BY DEF RetryDone, memory, world
<1>3. /\ StorageOK(Stored') /\ rows' = rows /\ left' \in Budgets /\ tombs' = tombs /\ epoch' = epoch
      /\ journal' = st.journal
      /\ \A k \in Keys : journal'[k] = journal[k] \/ (journal'[k] = NoOp /\ k \in drop)
  <2>1. Writes(Stored, st, {}, 0, {}) /\ st.rows = rows
        /\ \A k \in Keys : st.journal[k] = journal[k] \/ (st.journal[k] = NoOp /\ k \in drop)
    BY CompactedOn
  <2> QED BY <1>1, <2>1, StoreOn
<1>4. Loops'
  BY <1>1, <1>2, <1>3 DEF Loops, Pending
<1>5. Filled' /\ queue' \in Seq(Entries) /\ tried' \in Int /\ pc' \in Labels
  BY <1>1, <1>2 DEF TypeOK, Filled, Labels
<1>6. off' \in BOOLEAN
  BY <1>2, Zenon DEF TypeOK
<1>7. seen' \subseteq [slot : Slots, game : Games] /\ \A m, n \in seen' : m.slot[1] = n.slot[1] => m = n
  BY <1>2 DEF TypeOK
<1>8. TypeOK'
  BY <1>2, <1>3, <1>4, <1>5, <1>6, <1>7, StepType
<1>9. Acts({}, 0, {})
  BY <1>2, <1>3, <1>5, ActsNot
<1> QED BY <1>8, <1>9

\* So does the end of the drain.
LEMMA DrainDoneActs ==
  ASSUME TypeOK, DrainDone
  PROVE  TypeOK' /\ Acts({}, 0, {})
<1>1. PICK st \in Compacted(Stored) : Store(st)
  BY DEF DrainDone
<1>2. /\ pc' = "match" /\ work' = seen /\ drop' = {}
      /\ UNCHANGED <<active, queue, tried, off, seen, at, now, game>>
  BY DEF DrainDone, memory, world
<1>3. /\ StorageOK(Stored') /\ rows' = rows /\ left' \in Budgets /\ tombs' = tombs /\ epoch' = epoch
      /\ \A k \in Keys : journal'[k] = journal[k] \/ (journal'[k] = NoOp /\ k \in drop)
  <2>1. Writes(Stored, st, {}, 0, {}) /\ st.rows = rows
        /\ \A k \in Keys : st.journal[k] = journal[k] \/ (st.journal[k] = NoOp /\ k \in drop)
    BY CompactedOn
  <2> QED BY <1>1, <2>1, StoreOn
<1>4. Loops'
  BY <1>2 DEF Loops
<1>5. Filled' /\ queue' \in Seq(Entries) /\ tried' \in Int /\ pc' \in Labels /\ at' \in Nat \ {0}
  BY <1>2 DEF TypeOK, Filled, Labels
<1>6. off' \in BOOLEAN
  BY <1>2, Zenon DEF TypeOK
<1>7. seen' \subseteq [slot : Slots, game : Games] /\ \A m, n \in seen' : m.slot[1] = n.slot[1] => m = n
  BY <1>2 DEF TypeOK
<1>8. TypeOK'
  BY <1>2, <1>3, <1>4, <1>5, <1>6, <1>7, StepType
<1>9. Acts({}, 0, {})
  BY <1>2, <1>3, <1>5, ActsNot
<1> QED BY <1>8, <1>9

\* So does the end of the replay at a start.
LEMMA ReplayDoneActs ==
  ASSUME TypeOK, ReplayDone
  PROVE  TypeOK' /\ Acts({}, 0, {})
<1>1. PICK st \in Compacted(Stored) :
        \/ Store(st) /\ work' = {k \in Keys : Open(st, k)}
        \/ Store(Refused(st)) /\ work' = {}
  BY DEF ReplayDone
<1>2. /\ pc' = "recover" /\ drop' = {} /\ queue' = Trimmed(queue)
      /\ UNCHANGED <<active, tried, off, seen, at, now, game>>
  BY DEF ReplayDone, world
<1>3. /\ StorageOK(Stored') /\ rows' = rows /\ left' \in Budgets /\ tombs' = tombs /\ epoch' = epoch
      /\ \A k \in Keys : journal'[k] = journal[k] \/ (journal'[k] = NoOp /\ k \in drop)
      /\ work' \subseteq {k \in Keys : Open(Stored', k)}
  <2>1. Writes(Stored, st, {}, 0, {}) /\ st.rows = rows
        /\ \A k \in Keys : st.journal[k] = journal[k] \/ (st.journal[k] = NoOp /\ k \in drop)
    BY CompactedOn
  <2>2. CASE Store(st) /\ work' = {k \in Keys : Open(st, k)}
    <3>1. /\ StorageOK(Stored') /\ rows' = st.rows /\ journal' = st.journal /\ left' \in Budgets
          /\ tombs' = tombs /\ epoch' = epoch
      BY <2>1, <2>2, StoreOn
    <3>2. Stored'.rows = st.rows
      BY <3>1 DEF Stored
    <3> QED BY <2>1, <2>2, <3>1, <3>2 DEF Open
  <2>3. CASE Store(Refused(st)) /\ work' = {}
    <3>1. StorageOK(st)
      BY <2>1 DEF Writes
    <3>2. Refused(st).rows = st.rows /\ Refused(st).journal = st.journal /\ StorageOK(Refused(st))
      BY <3>1, AltersNot DEF Refused, StorageOK, Storage
    <3>3. Writes(Stored, Refused(st), {}, 0, {})
      BY <2>1, <3>2 DEF Writes
    <3> QED BY <2>1, <2>3, <3>2, <3>3, StoreOn
  <2> QED BY <1>1, <2>2, <2>3
<1>4. Loops'
  BY <1>2, <1>3 DEF Loops
<1>5. Filled' /\ tried' \in Int /\ pc' \in Labels /\ at' \in Nat \ {0}
  BY <1>2 DEF TypeOK, Filled, Labels
<1>10. queue' \in Seq(Entries) /\ \A j \in 1 .. Len(queue') : \E i \in 1 .. Len(queue) : queue'[j] = queue[i]
  BY <1>2, TrimmedOn DEF TypeOK
<1>6. off' \in BOOLEAN
  BY <1>2, Zenon DEF TypeOK
<1>7. seen' \subseteq [slot : Slots, game : Games] /\ \A m, n \in seen' : m.slot[1] = n.slot[1] => m = n
  BY <1>2 DEF TypeOK
<1>8. TypeOK'
  BY <1>2, <1>3, <1>4, <1>5, <1>6, <1>7, <1>10, StepType
<1>9. Acts({}, 0, {})
  BY <1>2, <1>3, <1>10, ActsNot
<1> QED BY <1>8, <1>9

\* The end of a recovery files nothing.
LEMMA RecoverDoneActs ==
  ASSUME TypeOK, RecoverDone
  PROVE  TypeOK' /\ Acts({}, 0, {})
<1>1. /\ pc' = "idle" /\ seen' = {}
      /\ UNCHANGED <<rows, tombs, epoch, journal, jok, active, queue, tried, off, work, at, drop, now, game, left>>
  BY DEF RecoverDone, database, disk, memory, world
<1>2. StorageOK(Stored')
  BY <1>1, StoredSame DEF TypeOK, StorageOK, Storage, Stored
<1>3. /\ Filled' /\ queue' \in Seq(Entries) /\ tried' \in Int /\ pc' \in Labels /\ at' \in Nat \ {0}
      /\ drop' \in SUBSET Keys /\ left' \in Budgets /\ Loops'
  BY <1>1 DEF TypeOK, Filled, Labels, Loops
<1>4. off' \in BOOLEAN
  BY <1>1, Zenon DEF TypeOK
<1>5. TypeOK'
  BY <1>1, <1>2, <1>3, <1>4, StepType
<1>6. Acts({}, 0, {})
  BY <1>1, <1>2, <1>3, ActsNot
<1> QED BY <1>5, <1>6

\* A kill loses the memory and writes nothing.
LEMMA KillActs ==
  ASSUME TypeOK, Kill
  PROVE  TypeOK' /\ Acts({}, 0, {}) /\ left'.evidence = left.evidence
<1>1. /\ pc' = "down" /\ off' = FALSE /\ seen' = {} /\ work' = {} /\ at' = 1 /\ drop' = {}
      /\ active' = [s \in Slots |-> NoSession] /\ queue' = <<>> /\ tried' = 0 /\ jok' = FALSE
      /\ UNCHANGED <<rows, tombs, epoch, journal, now, game>>
      /\ left.kills > 0 /\ left' = [left EXCEPT !.kills = @ - 1]
  BY DEF Kill, database, world
<1>2. StorageOK(Stored')
  BY <1>1, StoredSame
<1>3. left' \in Budgets /\ left'.evidence = left.evidence
  <2>1. left.kills - 1 \in Nat
    BY <1>1 DEF TypeOK, Budgets
  <2> QED BY <1>1, <2>1 DEF TypeOK, Budgets
<1>4. Filled' /\ queue' \in Seq(Entries) /\ Loops' /\ pc' \in Labels
  BY <1>1 DEF Filled, Loops, Labels
<1>5. off' \in BOOLEAN
  BY <1>1, Zenon
<1>6. TypeOK'
  BY <1>1, <1>2, <1>3, <1>4, <1>5, StepType
<1>7. Acts({}, 0, {})
  BY <1>1, <1>2, <1>4, ActsNot
<1> QED BY <1>3, <1>6, <1>7

\* A start opens the journal and writes nothing.
LEMMA StartActs ==
  ASSUME TypeOK, Start
  PROVE  TypeOK' /\ Acts({}, 0, {}) /\ left'.evidence = left.evidence
<1>1. PICK fails \in BOOLEAN, o \in BOOLEAN :
        /\ (fails => left.refused > 0) /\ (o => left.offs > 0)
        /\ jok' = ~fails /\ off' = o
        /\ left' = [left EXCEPT !.refused = IF fails THEN @ - 1 ELSE @,
                                !.offs = IF o THEN @ - 1 ELSE @]
        /\ \/ pc' = "sweep" /\ work' = {} /\ seen' = {}
           \/ /\ pc' = "replay"
              /\ work' = Pending([jok |-> ~fails, journal |-> journal])
              /\ \E s \in Sightings : seen' = {m \in s : m.slot[2]}
  BY DEF Start
<1>2. /\ tried' = now /\ UNCHANGED <<rows, tombs, epoch, journal, active, queue, at, drop, now, game>>
  BY DEF Start, database, world
<1>10. jok' \in BOOLEAN /\ off' \in BOOLEAN
  BY <1>1, Zenon
<1>3. StorageOK(Stored')
  BY <1>2, <1>10, StoredSame
<1>4. left' \in Budgets /\ left'.evidence = left.evidence
  <2> DEFINE n == IF fails THEN left.refused - 1 ELSE left.refused
  <2> DEFINE m == IF o THEN left.offs - 1 ELSE left.offs
  <2>1. n \in Nat /\ m \in Nat
    BY <1>1 DEF TypeOK, Budgets
  <2>2. left' = [left EXCEPT !.refused = n, !.offs = m]
    BY <1>1
  <2> HIDE DEF n, m
  <2> QED BY <2>1, <2>2 DEF TypeOK, Budgets
<1>5. seen' \subseteq [slot : Slots, game : Games] /\ \A m, n \in seen' : m.slot[1] = n.slot[1] => m = n
  <2>1. CASE seen' = {}
    BY <2>1
  <2>2. ASSUME NEW s \in Sightings, seen' = {m \in s : m.slot[2]}
        PROVE  seen' \subseteq [slot : Slots, game : Games] /\ \A m, n \in seen' : m.slot[1] = n.slot[1] => m = n
    BY <2>2, SightingsOn
  <2> QED BY <1>1, <2>1, <2>2
<1>6. Loops'
  <2>1. pc' \in {"sweep", "replay"} /\ (pc' = "sweep" => work' = {})
        /\ (pc' = "replay" => work' \subseteq {k \in Keys : journal'[k] # NoOp})
    BY <1>1, <1>2 DEF Pending
  <2> QED BY <2>1 DEF Loops
<1>7. /\ Filled' /\ queue' \in Seq(Entries) /\ tried' \in Int /\ pc' \in Labels /\ at' \in Nat \ {0}
      /\ drop' \in SUBSET Keys
  BY <1>1, <1>2 DEF TypeOK, Filled, Labels
<1>8. TypeOK'
  BY <1>2, <1>3, <1>4, <1>5, <1>6, <1>7, <1>10, StepType
<1>9. Acts({}, 0, {})
  BY <1>2, <1>3, <1>7, ActsNot
<1> QED BY <1>4, <1>8, <1>9

\* The end of the matches counts polls without one and files nothing.
LEMMA MatchDoneActs ==
  ASSUME TypeOK, MatchDone
  PROVE  TypeOK' /\ Acts({}, 0, {})
<1> DEFINE matched == {m.slot : m \in seen}
<1>1. /\ pc = "match" /\ work = {} /\ pc' = "sweep"
      /\ active' = [s \in Slots |-> IF s \in matched THEN [active[s] EXCEPT !.missed = 0] ELSE active[s]]
      /\ work' = {s \in Slots \ matched : active[s] # NoSession}
      /\ UNCHANGED <<rows, tombs, epoch, journal, jok, queue, tried, off, seen, at, drop, now, game, left>>
  BY DEF MatchDone, database, disk, world
<1>2. StorageOK(Stored')
  BY <1>1, StoredSame DEF TypeOK, StorageOK, Storage, Stored
<1>3. ASSUME NEW s \in Slots
      PROVE  /\ active'[s] \in Sessions \cup {NoSession}
             /\ active[s] = NoSession <=> active'[s] = NoSession
             /\ active[s] # NoSession => /\ active'[s].key = active[s].key /\ active'[s].id = active[s].id
                                         /\ active'[s].slot = active[s].slot
  <2>1. CASE s \in matched
    <3>1. active[s] # NoSession /\ active[s] \in Sessions
      BY <1>1, <2>1 DEF TypeOK, Loops, Filled
    <3>2. active'[s] = [active[s] EXCEPT !.missed = 0]
      BY <1>1, <2>1
    <3>3. active'[s] \in Sessions /\ active'[s].key = active[s].key /\ active'[s].id = active[s].id /\ active'[s].slot = active[s].slot
      BY <3>1, <3>2 DEF Sessions
    <3> QED BY <3>1, <3>3, NothingAssumption
  <2>2. CASE s \notin matched
    BY <1>1, <2>2 DEF TypeOK, Filled
  <2> QED BY <2>1, <2>2
<1>4. Filled'
  <2>1. active' = [s \in Slots |-> active'[s]]
    BY <1>1
  <2> QED BY <1>3, <2>1 DEF Filled, TypeOK
<1>5. Loops'
  BY <1>1, <1>3 DEF Loops
<1>6. /\ queue' \in Seq(Entries) /\ tried' \in Int /\ pc' \in Labels /\ at' \in Nat \ {0}
      /\ drop' \in SUBSET Keys /\ left' \in Budgets
  BY <1>1 DEF TypeOK, Labels
<1>7. off' \in BOOLEAN
  BY <1>1, Zenon DEF TypeOK
<1>8. seen' \subseteq [slot : Slots, game : Games] /\ \A m, n \in seen' : m.slot[1] = n.slot[1] => m = n
  BY <1>1 DEF TypeOK
<1>9. TypeOK'
  BY <1>1, <1>2, <1>4, <1>5, <1>6, <1>7, <1>8, StepType
<1>10. \A k \in Keys : journal'[k] = journal[k]
  BY <1>1
<1>11. Acts({}, 0, {})
  BY <1>1, <1>2, <1>3, <1>6, <1>10, ActsNot
<1> QED BY <1>9, <1>11

-----------------------------------------------------------------------------
\* What is left of a sequence when one of its elements goes.
LEMMA RemoveAtOn ==
  ASSUME NEW S, NEW q \in Seq(S), NEW i \in 1 .. Len(q)
  PROVE  /\ RemoveAt(q, i) \in Seq(S)
         /\ \A j \in 1 .. Len(RemoveAt(q, i)) : \E n \in 1 .. Len(q) : RemoveAt(q, i)[j] = q[n]
<1> DEFINE a == SubSeq(q, 1, i - 1)
<1> DEFINE b == SubSeq(q, i + 1, Len(q))
<1>1. RemoveAt(q, i) = a \o b
  BY DEF RemoveAt
<1>2. a \in Seq(S) /\ Len(a) = i - 1 /\ \A j \in 1 .. (i - 1) : a[j] = q[j]
  OBVIOUS
<1>3. b \in Seq(S) /\ Len(b) = Len(q) - i /\ \A j \in 1 .. (Len(q) - i) : b[j] = q[i + j]
  <2> DEFINE m == i + 1
             n == Len(q)
  <2>1. m \in Int /\ n \in Int /\ m >= 1 /\ \A j \in m .. n : q[j] \in S
    OBVIOUS
  <2>2. n - m + 1 = Len(q) - i /\ \A j \in 1 .. (Len(q) - i) : m + j - 1 = i + j
    OBVIOUS
  <2>3. (IF m <= n THEN n - m + 1 ELSE 0) = Len(q) - i
    OBVIOUS
  <2>4. b = SubSeq(q, m, n)
    OBVIOUS
  <2> HIDE DEF m, n, b
  <2> DEFINE d == SubSeq(q, m, n)
  <2>4a. /\ d \in Seq(S) /\ Len(d) = (IF m <= n THEN n - m + 1 ELSE 0)
        /\ \A j \in 1 .. n - m + 1 : d[j] = q[m + j - 1]
    BY <2>1, SubSeqProperties
  <2>4b. b = d
    BY <2>4
  <2> HIDE DEF d
  <2>5. b \in Seq(S) /\ Len(b) = (IF m <= n THEN n - m + 1 ELSE 0) /\ \A j \in 1 .. n - m + 1 : b[j] = q[m + j - 1]
    BY <2>4a, <2>4b
  <2>6. ASSUME NEW j \in 1 .. (Len(q) - i) PROVE b[j] = q[i + j]
    <3>1. j \in 1 .. n - m + 1 /\ m + j - 1 = i + j
      BY <2>2
    <3>2. b[j] = q[m + j - 1]
      BY <2>5, <3>1
    <3> QED BY <3>1, <3>2
  <2>7. Len(b) = Len(q) - i
    BY <2>3, <2>5
  <2> QED BY <2>5, <2>6, <2>7
<1> HIDE DEF a, b
<1> DEFINE r == a \o b
<1>4. r \in Seq(S) /\ Len(r) = Len(a) + Len(b)
  BY <1>2, <1>3, ConcatProperties
<1>5. \A j \in 1 .. Len(r) : r[j] = IF j <= Len(a) THEN a[j] ELSE b[j - Len(a)]
  BY <1>2, <1>3, ConcatProperties
<1> HIDE DEF r
<1>6. ASSUME NEW j \in 1 .. Len(r) PROVE \E n \in 1 .. Len(q) : r[j] = q[n]
  <2>1. CASE j <= i - 1
    <3>1. r[j] = q[j] /\ j \in 1 .. Len(q)
      BY <1>2, <1>5, <2>1
    <3> QED BY <3>1
  <2>2. CASE j > i - 1
    <3>1. j - (i - 1) \in 1 .. (Len(q) - i)
      BY <1>2, <1>3, <1>4, <2>2
    <3>2. r[j] = b[j - (i - 1)]
      BY <1>2, <1>5, <2>2
    <3>3. r[j] = q[i + (j - (i - 1))] /\ i + (j - (i - 1)) \in 1 .. Len(q)
      BY <1>3, <3>1, <3>2
    <3> QED BY <3>3
  <2> QED BY <2>1, <2>2
<1>7. RemoveAt(q, i) = r
  BY <1>1 DEF r
<1> QED BY <1>4, <1>6, <1>7

\* An operation is replayed from where it is pending.
LEMMA ReplayedActs ==
  ASSUME TypeOK, NEW o \in Operations, NEW K, K = {o.key}, Named(o.key, o.slot),
         NEW r, NEW a, Replayed(Stored, r, o, o.slot, K, {}), Places(a, r.st, o.key, o.slot),
         Store(r.st), active' = a,
         Grows(queue, queue', K, o.slot),
         drop' = drop \/ (r.result # "error" /\ drop' = drop \cup {o.key})
  PROVE  /\ Acts(K, o.slot, {}) /\ StorageOK(Stored') /\ left' \in Budgets /\ Filled'
         /\ journal' = journal /\ tombs' = tombs /\ epoch' = epoch /\ drop' \in SUBSET Keys
         /\ \A s \in Slots : active[s] # NoSession => active'[s] # NoSession
<1>0. o.key \in Keys /\ o.slot \in Slots /\ o.game \in Games /\ o.epoch \in Nat
  BY DEF Operations
<1>1. Writes(Stored, r.st, K, o.slot, {}) /\ r.st.journal = journal
  BY DEF Replayed, Alters, Extends, Stored
<1>2. /\ Writes(Stored, Stored', K, o.slot, {}) /\ StorageOK(Stored')
      /\ rows' = r.st.rows /\ journal' = journal /\ tombs' = tombs /\ epoch' = epoch
      /\ left' \in Budgets
  BY <1>1, StoreOn
<1>3. Stored'.rows = r.st.rows
  BY <1>2 DEF Stored
<1>4. \A k \in drop' : \/ k \in drop \/ rows'[k] # NoRow \/ k \in tombs
                       \/ \E g \in Games : epoch[g] > 0
  <2>1. r.result \in {"written", "stale", "error"}
        /\ (r.result = "written" => rows'[o.key] # NoRow) /\ (r.result = "stale" => Stale(o))
    BY <1>2 DEF Replayed
  <2>2. Stale(o) => o.key \in tombs \/ \E g \in Games : epoch[g] > 0
    BY <1>0 DEF Stale, TypeOK
  <2> QED BY <2>1, <2>2
<1>5. Filled' /\ \A s \in Slots : active[s] # NoSession => active'[s] # NoSession
  <2>1. CASE a = active
    BY <2>1 DEF Filled, TypeOK
  <2>2. ASSUME NEW s \in Sessions, s.slot = o.slot, a = [active EXCEPT ![o.slot] = s]
        PROVE  Filled' /\ \A t \in Slots : active[t] # NoSession => active'[t] # NoSession
    <3>1. s # NoSession
      BY NothingAssumption
    <3>2. active' \in [Slots -> Sessions \cup {NoSession}]
      BY <2>2 DEF Filled, TypeOK
    <3>3. \A t \in Slots : active'[t] = IF t = o.slot THEN s ELSE active[t]
      BY <2>2 DEF Filled, TypeOK
    <3> QED BY <2>2, <3>1, <3>2, <3>3 DEF Filled, TypeOK
  <2> QED BY <2>1, <2>2 DEF Places
<1>6. ASSUME NEW s \in Slots, active'[s] # NoSession
      PROVE
       \/ active[s] # NoSession /\ active'[s].key = active[s].key /\ active'[s].id = active[s].id
       \/ /\ s = o.slot /\ active'[s].key \in K
          /\ \/ active'[s].id = 0
             \/ IsRow(Stored', active'[s].key, active'[s].id)
             \/ \E t \in Slots : active[t] # NoSession /\ active[t].key = active'[s].key /\ active[t].id = active'[s].id
          /\ \/ active[s] # NoSession /\ active[s].key = active'[s].key
             \/ \E m \in seen : m.slot = o.slot
  <2>1. CASE a = active
    BY <1>6, <2>1
  <2>2. ASSUME NEW x \in Sessions, x.key = o.key, a = [active EXCEPT ![o.slot] = x],
               x.id = 0 \/ IsRow(r.st, o.key, x.id), \E m \in seen : m.slot = o.slot, s = o.slot
        PROVE  /\ s = o.slot /\ active'[s].key \in K
               /\ \/ active'[s].id = 0
                  \/ IsRow(Stored', active'[s].key, active'[s].id)
               /\ \E m \in seen : m.slot = o.slot
    <3>1. active'[s] = x
      BY <2>2 DEF Filled, TypeOK
    <3>2. IsRow(r.st, o.key, x.id) => IsRow(Stored', o.key, x.id)
      BY <1>3 DEF IsRow
    <3> QED BY <2>2, <3>1, <3>2
  <2>3. ASSUME NEW x \in Sessions, a = [active EXCEPT ![o.slot] = x], s # o.slot
        PROVE  active'[s] = active[s]
    BY <2>3 DEF Filled, TypeOK
  <2> QED BY <1>6, <2>1, <2>2, <2>3 DEF Places
<1>7. Acts(K, o.slot, {})
  <2>1. \A k \in Keys : journal[k] # NoOp /\ journal'[k] = NoOp => k \in drop
    BY <1>2
  <2>2. \A k \in K : Source(k, o.slot)
    BY DEF Source
  <2> QED BY <1>2, <1>4, <1>6, <2>1, <2>2 DEF Acts
<1>8. drop' \in SUBSET Keys
  BY <1>0 DEF TypeOK
<1> QED BY <1>2, <1>5, <1>7, <1>8

-----------------------------------------------------------------------------
\* The steps that replay an operation.
SomeActs == \E K, sl, I : Acts(K, sl, I)

\* A step of some sessions at some slot.
LEMMA ActsAre ==
  ASSUME NEW K, NEW sl, NEW I, Acts(K, sl, I)
  PROVE  SomeActs
BY DEF SomeActs

\* A queued operation names its key at its slot.
LEMMA EntryIs ==
  ASSUME TypeOK, NEW i \in 1 .. Len(queue)
  PROVE  /\ queue[i] \in Entries /\ queue[i].op \in Operations /\ queue[i].op.key \in Keys
         /\ Named(queue[i].op.key, queue[i].op.slot)
<1>1. queue[i] \in Entries
  BY DEF TypeOK
<1>2. queue[i].op \in Operations /\ queue[i].op.key \in Keys
  BY <1>1 DEF Entries, Operations
<1>3. Named(queue[i].op.key, queue[i].op.slot)
  BY DEF Named
<1> QED BY <1>1, <1>2, <1>3

\* An open entry is refreshed under its own key and slot.
LEMMA RefreshedOn ==
  ASSUME TypeOK, NEW o \in Operations
  PROVE  Refreshed(o) \in Operations /\ Refreshed(o).key = o.key /\ Refreshed(o).slot = o.slot
<1>1. o.key \in Keys /\ o.slot \in Slots
  BY DEF Operations
<1>2. CASE o.open /\ jok /\ journal[o.key] # NoOp
  <2> DEFINE j == journal[o.key]
  <2>1. j \in Operations /\ j.key = o.key
    BY <1>1, <1>2 DEF TypeOK, StorageOK, Storage, Stored
  <2>2. Refreshed(o) = [j EXCEPT !.slot = o.slot]
    BY <1>2 DEF Refreshed
  <2> HIDE DEF j
  <2> QED BY <1>1, <2>1, <2>2 DEF Operations
<1>3. CASE ~(o.open /\ jok /\ journal[o.key] # NoOp)
  BY <1>3 DEF Refreshed
<1> QED BY <1>2, <1>3

\* A journaled operation is that of its key, which it names at its slot.
LEMMA JournaledIs ==
  ASSUME TypeOK, NEW k \in Keys, journal[k] # NoOp
  PROVE  journal[k] \in Operations /\ journal[k].key = k /\ Named(k, journal[k].slot)
<1>1. journal[k] \in Operations /\ journal[k].key = k
  BY DEF TypeOK, StorageOK, Storage, Stored
<1> QED BY <1>1 DEF Named

\* What the lemmas about storage need of the type invariant.
LEMMA Basics ==
  ASSUME TypeOK
  PROVE  /\ StorageOK(Stored) /\ Filled /\ now \in Int /\ epoch \in [Games -> Nat]
         /\ queue \in Seq(Entries) /\ tried \in Int
BY DEF TypeOK

\* retryClosed(): the step of the session of a queued operation.
LEMMA RetryActs ==
  ASSUME TypeOK, Retry
  PROVE  TypeOK' /\ SomeActs
<1> DEFINE e == queue[at]
<1> DEFINE o == Refreshed(e.op)
<1>1. at \in 1 .. Len(queue)
  BY DEF Retry, TypeOK
<1>2. /\ e \in Entries /\ e.op \in Operations /\ e.op.key \in Keys
      /\ Named(e.op.key, e.op.slot)
  BY <1>1, EntryIs
<1>3. o \in Operations /\ o.key = e.op.key /\ o.slot = e.op.slot
  BY <1>2, RefreshedOn
<1>4. PICK c \in Attempt(e) :
        /\ Store(c.r.st) /\ active' = c.active
        /\ IF c.r.result = "error" THEN at' = at + 1 /\ queue' = queue /\ drop' = drop
           ELSE queue' = RemoveAt(queue, at) /\ drop' = drop \cup {e.op.key} /\ at' = at
  BY DEF Retry
<1>5. UNCHANGED <<tried, pc, off, seen, work, now, game>>
  BY DEF Retry, world
<1> DEFINE K == {o.key}
<1>6. K = {o.key} /\ o.key \in K /\ K = {e.op.key}
  BY <1>3
<1> HIDE DEF K
<1>7. /\ queue' \in Seq(Entries)
      /\ \A j \in 1 .. Len(queue') : \E i \in 1 .. Len(queue) : queue'[j] = queue[i]
  <2>1. CASE queue' = queue
    BY <2>1 DEF TypeOK
  <2>2. CASE queue' = RemoveAt(queue, at)
    <3>1. queue \in Seq(Entries)
      BY Basics
    <3>2. /\ RemoveAt(queue, at) \in Seq(Entries)
          /\ \A j \in 1 .. Len(RemoveAt(queue, at)) : \E n \in 1 .. Len(queue) : RemoveAt(queue, at)[j] = queue[n]
      BY <1>1, <3>1, RemoveAtOn
    <3> QED BY <2>2, <3>2
  <2> QED BY <1>4, <2>1, <2>2
<1>8. Grows(queue, queue', K, o.slot)
  BY <1>7 DEF Grows
<1>9. drop' = drop \/ (c.r.result # "error" /\ drop' = drop \cup {o.key})
  BY <1>3, <1>4
<1> HIDE DEF e
<1>10. /\ Acts(K, o.slot, {})
       /\ StorageOK(Stored') /\ left' \in Budgets /\ Filled' /\ tombs' = tombs /\ epoch' = epoch
       /\ drop' \in SUBSET Keys
  <2>1. CASE ~(e.id > 0)
    <3>1. c \in Apply(o)
      BY <1>4, <2>1 DEF Attempt
    <3>2. Replayed(Stored, c.r, o, o.slot, K, {}) /\ Places(c.active, c.r.st, o.key, o.slot)
      <4> HIDE DEF o
      <4> QED BY <1>3, <1>6, <3>1, ApplyOn, Basics
    <3> HIDE DEF o
    <3> QED BY <1>2, <1>3, <1>4, <1>6, <1>8, <1>9, <3>2, ReplayedActs
  <2>2. CASE e.id > 0
    <3> DEFINE f == [e EXCEPT !.op = o]
    <3>1. f \in Entries /\ f.op = o
      BY <1>2, <1>3 DEF Entries
    <3>2. PICK r \in Finalize(Stored, f) : c = [r |-> r, active |-> active]
      BY <1>4, <2>2 DEF Attempt
    <3> HIDE DEF f, o
    <3>3. /\ Alters(Stored, r.st, K, o.slot, {})
          /\ r.result # "error" => r.st.rows[o.key] # NoRow
      BY <1>6, <3>1, <3>2, FinalizeOn, Basics
    <3>4. c.r = r /\ active' = active /\ Store(r.st)
      BY <1>4, <3>2
    <3>5. Writes(Stored, r.st, K, o.slot, {}) /\ r.st.journal = journal
      BY <3>3 DEF Alters, Extends, Stored
    <3>6. /\ Writes(Stored, Stored', K, o.slot, {}) /\ StorageOK(Stored')
          /\ rows' = r.st.rows /\ journal' = journal /\ tombs' = tombs /\ epoch' = epoch
          /\ left' \in Budgets
      BY <3>4, <3>5, StoreOn
    <3>7. Filled' /\ drop' \in SUBSET Keys
      BY <1>2, <1>3, <1>9, <3>4 DEF Filled, TypeOK
    <3>8. \A k \in drop' : k \in drop \/ rows'[k] # NoRow
      BY <1>9, <3>3, <3>4, <3>6
    <3>9. \A k \in K : Source(k, o.slot)
      BY <1>2, <1>3, <1>6 DEF Source
    <3>10. Acts(K, o.slot, {})
      BY <1>8, <3>4, <3>6, <3>8, <3>9 DEF Acts
    <3> QED BY <3>6, <3>7, <3>10
  <2> QED BY <2>1, <2>2
<1>11. Loops' /\ pc' \in Labels /\ tried' \in Int
  BY <1>5 DEF Loops, Labels, Retry, TypeOK
<1>12. off' \in BOOLEAN
  BY <1>5, Zenon DEF TypeOK
<1>13. at' \in Nat \ {0}
  BY <1>4 DEF TypeOK
<1>14. seen' \subseteq [slot : Slots, game : Games] /\ \A m, n \in seen' : m.slot[1] = n.slot[1] => m = n
  BY <1>5 DEF TypeOK
<1>15. TypeOK'
  BY <1>5, <1>7, <1>10, <1>11, <1>12, <1>13, <1>14, StepType
<1> HIDE DEF o
<1>16. SomeActs
  BY <1>10, ActsAre
<1> QED BY <1>15, <1>16

\* drainJournal(): the step of the session of a journaled operation.
LEMMA DrainActs ==
  ASSUME TypeOK, NEW k \in Keys, Drain(k)
  PROVE  TypeOK' /\ SomeActs
<1> DEFINE o == journal[k]
<1>1. pc = "drain" /\ k \in work /\ o # NoOp
  BY DEF Drain, TypeOK, Loops
<1>2. o \in Operations /\ o.key = k /\ Named(k, o.slot)
  BY <1>1, JournaledIs
<1>3. PICK c \in Apply(o) :
        /\ Store(c.r.st) /\ active' = c.active
        /\ drop' = IF c.r.result = "error" THEN drop ELSE drop \cup {k}
  BY DEF Drain
<1>4. work' = work \ {k} /\ UNCHANGED <<queue, tried, pc, off, seen, at, now, game>>
  BY DEF Drain, world
<1> DEFINE K == {o.key}
<1>5. K = {o.key} /\ o.key \in K
  OBVIOUS
<1> HIDE DEF K, o
<1>6. Grows(queue, queue', K, o.slot)
  BY <1>4 DEF Grows, TypeOK
<1>7. Replayed(Stored, c.r, o, o.slot, K, {}) /\ Places(c.active, c.r.st, o.key, o.slot)
  BY <1>2, <1>3, <1>5, ApplyOn, Basics
<1>8. drop' = drop \/ (c.r.result # "error" /\ drop' = drop \cup {o.key})
  BY <1>2, <1>3
<1>9. /\ Acts(K, o.slot, {}) /\ StorageOK(Stored') /\ left' \in Budgets /\ Filled'
      /\ journal' = journal /\ tombs' = tombs /\ epoch' = epoch /\ drop' \in SUBSET Keys
  BY <1>2, <1>3, <1>5, <1>6, <1>7, <1>8, ReplayedActs
<1>10. Loops'
  BY <1>1, <1>4, <1>9 DEF Loops, TypeOK
<1>11. pc' \in Labels /\ tried' \in Int /\ queue' \in Seq(Entries) /\ at' \in Nat \ {0}
  BY <1>4 DEF TypeOK
<1>12. off' \in BOOLEAN
  BY <1>4, Zenon DEF TypeOK
<1>13. seen' \subseteq [slot : Slots, game : Games] /\ \A m, n \in seen' : m.slot[1] = n.slot[1] => m = n
  BY <1>4 DEF TypeOK
<1>14. TypeOK'
  BY <1>4, <1>9, <1>10, <1>11, <1>12, <1>13, StepType
<1>15. SomeActs
  BY <1>9, ActsAre
<1> QED BY <1>14, <1>15

\* replayJournal(): likewise, and what cannot be replayed is queued.
LEMMA ReplayActs ==
  ASSUME TypeOK, NEW k \in Keys, Replay(k)
  PROVE  TypeOK' /\ SomeActs
<1> DEFINE o == journal[k]
<1>1. pc = "replay" /\ k \in work /\ o # NoOp
  BY DEF Replay, TypeOK, Loops
<1>2. o \in Operations /\ o.key = k /\ Named(k, o.slot)
  BY <1>1, JournaledIs
<1>3. PICK c \in Apply(o) :
        /\ Store(c.r.st) /\ active' = c.active
        /\ \/ drop' = drop /\ (queue' = queue \/ queue' = Append(queue, [id |-> 0, op |-> o]))
           \/ c.r.result # "error" /\ queue' = queue /\ drop' = drop \cup {k}
  BY DEF Replay
<1>4. work' = work \ {k} /\ UNCHANGED <<tried, pc, off, seen, at, now, game>>
  BY DEF Replay, world
<1> DEFINE K == {o.key}
<1>5. K = {o.key} /\ o.key \in K
  OBVIOUS
<1> HIDE DEF K, o
<1>6. Grows(queue, queue', K, o.slot)
  <2>1. CASE queue' = queue
    BY <2>1 DEF Grows, TypeOK
  <2>2. CASE queue' = Append(queue, [id |-> 0, op |-> o])
    <3> DEFINE e == [id |-> 0, op |-> o]
    <3>1. e \in Entries /\ e.op = o
      BY <1>2 DEF Entries
    <3> HIDE DEF e
    <3>2. queue \in Seq(Entries) /\ queue' = Append(queue, e)
      BY <2>2 DEF TypeOK, e
    <3>3. /\ queue' \in Seq(Entries) /\ Len(queue') = Len(queue) + 1 /\ Len(queue) \in Nat
          /\ \A j \in 1 .. Len(queue) : queue'[j] = queue[j]
          /\ queue'[Len(queue) + 1] = e
      BY <3>1, <3>2
    <3>4. ASSUME NEW j \in 1 .. Len(queue')
          PROVE  \/ queue'[j].op.key \in K /\ queue'[j].op.slot = o.slot
                 \/ \E i \in 1 .. Len(queue) : queue'[j].op = queue[i].op
      <4>1. CASE j = Len(queue) + 1
        BY <1>5, <3>1, <3>3, <4>1
      <4>2. CASE j # Len(queue) + 1
        <5>1. j \in 1 .. Len(queue)
          BY <3>3, <4>2
        <5> QED BY <3>3, <5>1
      <4> QED BY <4>1, <4>2
    <3> QED BY <3>3, <3>4 DEF Grows
  <2> QED BY <1>3, <2>1, <2>2
<1>7. Replayed(Stored, c.r, o, o.slot, K, {}) /\ Places(c.active, c.r.st, o.key, o.slot)
  BY <1>2, <1>3, <1>5, ApplyOn, Basics
<1>8. drop' = drop \/ (c.r.result # "error" /\ drop' = drop \cup {o.key})
  BY <1>2, <1>3
<1>9. /\ Acts(K, o.slot, {}) /\ StorageOK(Stored') /\ left' \in Budgets /\ Filled'
      /\ journal' = journal /\ tombs' = tombs /\ epoch' = epoch /\ drop' \in SUBSET Keys
  BY <1>2, <1>3, <1>5, <1>6, <1>7, <1>8, ReplayedActs
<1>10. Loops'
  BY <1>1, <1>4, <1>9 DEF Loops, TypeOK
<1>11. pc' \in Labels /\ tried' \in Int /\ at' \in Nat \ {0} /\ queue' \in Seq(Entries)
  BY <1>4, <1>6 DEF TypeOK, Grows
<1>12. off' \in BOOLEAN
  BY <1>4, Zenon DEF TypeOK
<1>13. seen' \subseteq [slot : Slots, game : Games] /\ \A m, n \in seen' : m.slot[1] = n.slot[1] => m = n
  BY <1>4 DEF TypeOK
<1>14. TypeOK'
  BY <1>4, <1>9, <1>10, <1>11, <1>12, <1>13, StepType
<1>15. SomeActs
  BY <1>9, ActsAre
<1> QED BY <1>14, <1>15

-----------------------------------------------------------------------------
\* The step of one session: what Acts asks of it, when the sessions in
\* memory are placed as Places says.
LEMMA PlacedActs ==
  ASSUME TypeOK, NEW k \in Keys, NEW sl \in Slots, NEW K, K = {k}, Named(k, sl),
         NEW st, Extends(Stored, st, K, sl, {}), Store(st), Places(active', st, k, sl),
         Grows(queue, queue', K, sl), drop' = drop
  PROVE  /\ Acts(K, sl, {}) /\ StorageOK(Stored') /\ left' \in Budgets /\ Filled'
         /\ rows' = st.rows /\ tombs' = tombs /\ epoch' = epoch
<1>1. Writes(Stored, st, K, sl, {}) /\ \A l \in Keys : journal[l] # NoOp => st.journal[l] # NoOp
  BY DEF Extends, Stored
<1>2. /\ Writes(Stored, Stored', K, sl, {}) /\ StorageOK(Stored')
      /\ rows' = st.rows /\ journal' = st.journal /\ tombs' = tombs /\ epoch' = epoch
      /\ left' \in Budgets
  BY <1>1, StoreOn
<1>3. Stored'.rows = st.rows
  BY <1>2 DEF Stored
<1>4. Filled'
  <2>1. CASE active' = active
    BY <2>1 DEF Filled, TypeOK
  <2>2. ASSUME NEW s \in Sessions, s.slot = sl, active' = [active EXCEPT ![sl] = s]
        PROVE  Filled'
    <3>1. active' \in [Slots -> Sessions \cup {NoSession}]
      BY <2>2 DEF Filled, TypeOK
    <3>2. \A t \in Slots : active'[t] = IF t = sl THEN s ELSE active[t]
      BY <2>2 DEF Filled, TypeOK
    <3> QED BY <2>2, <3>1, <3>2 DEF Filled, TypeOK
  <2> QED BY <2>1, <2>2 DEF Places
<1>5. ASSUME NEW s \in Slots, active'[s] # NoSession
      PROVE
       \/ active[s] # NoSession /\ active'[s].key = active[s].key /\ active'[s].id = active[s].id
       \/ /\ s = sl /\ active'[s].key \in K
          /\ \/ active'[s].id = 0
             \/ IsRow(Stored', active'[s].key, active'[s].id)
             \/ \E t \in Slots : active[t] # NoSession /\ active[t].key = active'[s].key /\ active[t].id = active'[s].id
          /\ \/ active[s] # NoSession /\ active[s].key = active'[s].key
             \/ \E m \in seen : m.slot = sl
  <2>1. CASE active' = active
    BY <1>5, <2>1
  <2>2. ASSUME NEW x \in Sessions, x.key = k, active' = [active EXCEPT ![sl] = x],
               x.id = 0 \/ IsRow(st, k, x.id), \E m \in seen : m.slot = sl, s = sl
        PROVE  /\ s = sl /\ active'[s].key \in K
               /\ \/ active'[s].id = 0
                  \/ IsRow(Stored', active'[s].key, active'[s].id)
               /\ \E m \in seen : m.slot = sl
    <3>1. active'[s] = x
      BY <2>2 DEF Filled, TypeOK
    <3>2. IsRow(st, k, x.id) => IsRow(Stored', k, x.id)
      BY <1>3 DEF IsRow
    <3> QED BY <2>2, <3>1, <3>2
  <2>3. ASSUME NEW x \in Sessions, active' = [active EXCEPT ![sl] = x], s # sl
        PROVE  active'[s] = active[s]
    BY <2>3 DEF Filled, TypeOK
  <2> QED BY <1>5, <2>1, <2>2, <2>3 DEF Places
<1>6. \A k2 \in Keys : ~(journal[k2] # NoOp /\ journal'[k2] = NoOp)
  BY <1>1, <1>2
<1>7. \A k2 \in K : Source(k2, sl)
  BY DEF Source
<1>8. Acts(K, sl, {})
  BY <1>2, <1>5, <1>6, <1>7 DEF Acts
<1> QED BY <1>2, <1>4, <1>8

\* reconcileOpenSessions(): the step of the session of an open row.
LEMMA RecoverActs ==
  ASSUME TypeOK, NEW k \in Keys, Recover(k)
  PROVE  TypeOK' /\ SomeActs
<1> DEFINE row == rows[k]
           sl == rows[k].slot
           K == {k}
<1>1. pc = "recover" /\ k \in work /\ Open(Stored, k)
  BY DEF Recover, TypeOK, Loops
<1>2. row \in Rows /\ row # NoRow /\ IsRow(Stored, k, row.id) /\ sl \in Slots
  BY <1>1 DEF Open, IsRow, Stored, TypeOK, StorageOK, Storage, Rows
<1>3. Named(k, sl)
  BY <1>2 DEF Named
<1>4. K = {k} /\ k \in K
  OBVIOUS
<1>5. work' = work \ {k} /\ UNCHANGED <<pc, off, seen, at, drop, now, game>>
  BY DEF Recover, world
<1>6. PICK e \in Ends(Stored, k) \cup {No(Stored)} :
        \/ e.ok /\ Store(e.st) /\ UNCHANGED memory
        \/ \E c \in Survives(e.st, k) :
             Store(c.st) /\ active' = c.active /\ queue' = c.queue /\ tried' = c.tried
  BY DEF Recover
<1> HIDE DEF K, sl
<1>7. Alters(Stored, e.st, K, sl, {}) /\ RowsKept(Stored, e.st, row.id)
  <2>1. CASE e \in Ends(Stored, k)
    BY <1>2, <2>1, Basics, EndsOn
  <2>2. CASE e = No(Stored)
    BY <2>2, Basics, ExtendsSelf DEF No, RowsKept
  <2> QED BY <1>6, <2>1, <2>2
<1>8. Extends(Stored, e.st, K, sl, {}) /\ StorageOK(e.st) /\ IsRow(e.st, k, row.id)
  BY <1>2, <1>7, RowKept DEF Alters, Extends, Writes
<1>9. \E st : /\ Extends(Stored, st, K, sl, {}) /\ RowsKept(Stored, st, row.id)
              /\ Store(st) /\ Places(active', st, k, sl)
              /\ Grows(queue, queue', K, sl) /\ tried' \in Int
  <2>1. CASE e.ok /\ Store(e.st) /\ UNCHANGED memory
    <3>1. active' = active /\ queue' = queue /\ tried' = tried
      BY <2>1 DEF memory
    <3>2. Grows(queue, queue', K, sl) /\ tried' \in Int /\ Places(active', e.st, k, sl)
      BY <3>1, Basics, GrowsNot DEF Places
    <3> QED BY <1>7, <1>8, <2>1, <3>2
  <2>2. ASSUME NEW c \in Survives(e.st, k), Store(c.st), active' = c.active, queue' = c.queue, tried' = c.tried
        PROVE  /\ Extends(Stored, c.st, K, sl, {}) /\ RowsKept(Stored, c.st, row.id)
               /\ Store(c.st) /\ Places(active', c.st, k, sl)
               /\ Grows(queue, queue', K, sl) /\ tried' \in Int
    <3>1. /\ Extends(e.st, c.st, K, rows[k].slot, {}) /\ RowsKept(e.st, c.st, rows[k].id)
          /\ Grows(queue, c.queue, K, rows[k].slot) /\ c.tried \in Int
          /\ Places(c.active, c.st, k, rows[k].slot)
      BY <1>2, <1>4, <1>8, <2>2, Basics, SurvivesOn
    <3>2. Extends(Stored, c.st, K, sl, {})
      BY <1>8, <3>1, ExtendsOn DEF sl
    <3>3. RowsKept(Stored, c.st, row.id)
      BY <1>7, <3>1 DEF RowsKept
    <3> QED BY <2>2, <3>1, <3>2, <3>3 DEF sl
  <2> QED BY <1>6, <2>1, <2>2
<1>10. PICK st : /\ Extends(Stored, st, K, sl, {}) /\ RowsKept(Stored, st, row.id)
                 /\ Store(st) /\ Places(active', st, k, sl)
                 /\ Grows(queue, queue', K, sl) /\ tried' \in Int
  BY <1>9
<1>11. /\ Acts(K, sl, {}) /\ StorageOK(Stored') /\ left' \in Budgets /\ Filled'
       /\ rows' = st.rows /\ tombs' = tombs /\ epoch' = epoch
  BY <1>2, <1>3, <1>4, <1>5, <1>10, PlacedActs DEF sl, K
<1>12. Loops'
  <2>1. ASSUME NEW l \in work' PROVE l \in Keys /\ Open(Stored, l)'
    <3>1. l \in Keys /\ l # k /\ Open(Stored, l)
      BY <1>1, <1>5, <2>1 DEF TypeOK, Loops
    <3>2. rows[l] # NoRow /\ rows[l].end = 0
      BY <3>1 DEF Open, Stored
    <3>3. rows[l].id # row.id
      BY <1>2, <3>1, <3>2 DEF TypeOK, StorageOK, Stored
    <3>4. rows'[l] = rows[l]
      BY <1>10, <1>11, <3>1, <3>2, <3>3 DEF RowsKept, Stored
    <3> QED BY <3>1, <3>2, <3>4 DEF Open, Stored
  <2> QED BY <1>1, <1>5, <2>1 DEF Loops
<1>13. pc' \in Labels /\ at' \in Nat \ {0} /\ queue' \in Seq(Entries) /\ drop' \in SUBSET Keys
  BY <1>5, <1>10 DEF TypeOK, Grows
<1>14. off' \in BOOLEAN
  BY <1>5, Zenon DEF TypeOK
<1>15. seen' \subseteq [slot : Slots, game : Games] /\ \A m, n \in seen' : m.slot[1] = n.slot[1] => m = n
  BY <1>5 DEF TypeOK
<1>16. TypeOK'
  BY <1>5, <1>10, <1>11, <1>12, <1>13, <1>14, <1>15, StepType
<1>17. SomeActs
  BY <1>11, ActsAre
<1> QED BY <1>16, <1>17

\* Storage with its rows replaced.
LEMMA RowsReplaced ==
  ASSUME NEW st \in Storage, NEW f \in [Keys -> Rows \cup {NoRow}]
  PROVE  [st EXCEPT !.rows = f] \in Storage
BY DEF Storage

\* The end of a sweep, endAllSessions() included, ends rows and moves
\* none.
LEMMA SweepDoneActs ==
  ASSUME TypeOK, SweepDone
  PROVE  TypeOK' /\ Acts({}, 0, {})
<1>1. /\ pc' = "idle" /\ off' = FALSE /\ seen' = {}
      /\ UNCHANGED <<active, queue, tried, work, at, drop, now, game>>
  BY DEF SweepDone, memory, world
<1> DEFINE ended == AllEnded(Stored)
<1>2. PICK st \in {ended, Refused(Stored), Stored} : Store(st)
  BY DEF SweepDone
<1>3. StorageOK(Stored) /\ Stored \in Storage /\ Stored.rows = rows /\ Stored.journal = journal /\ now \in Int
  BY DEF TypeOK, StorageOK, Stored
<1>4. /\ ended = [Stored EXCEPT !.rows = ended.rows] /\ ended.journal = journal
      /\ DOMAIN ended.rows = Keys /\ ended.rows = [k \in Keys |-> ended.rows[k]]
      /\ \A k \in Keys : \/ ended.rows[k] = rows[k]
                         \/ /\ rows[k] # NoRow
                            /\ ended.rows[k] = [rows[k] EXCEPT !.end = now,
                                   !.secs = IF rows[k].beat > rows[k].start THEN @ ELSE 0]
  <2> DEFINE f == [k \in Keys |->
                     IF Open(Stored, k)
                     THEN [Stored.rows[k] EXCEPT !.end = now,
                            !.secs = IF Stored.rows[k].beat > Stored.rows[k].start THEN @ ELSE 0]
                     ELSE Stored.rows[k]]
  <2>1. ended = [Stored EXCEPT !.rows = f]
    BY DEF AllEnded
  <2>2. DOMAIN f = Keys /\ f = [k \in Keys |-> f[k]]
    OBVIOUS
  <2>3. \A k \in Keys : \/ f[k] = rows[k]
                        \/ /\ rows[k] # NoRow
                           /\ f[k] = [rows[k] EXCEPT !.end = now,
                                   !.secs = IF rows[k].beat > rows[k].start THEN @ ELSE 0]
    BY <1>3 DEF Open
  <2> HIDE DEF f, ended
  <2>4. ended.rows = f /\ ended.journal = journal /\ ended = [Stored EXCEPT !.rows = ended.rows]
    BY <1>3, <2>1 DEF Storage
  <2> QED BY <2>2, <2>3, <2>4
<1> HIDE DEF ended
<1>5. ASSUME NEW k \in Keys
      PROVE  /\ ended.rows[k] \in Rows \cup {NoRow}
             /\ (ended.rows[k] = NoRow) <=> (rows[k] = NoRow)
             /\ rows[k] # NoRow => ended.rows[k].id = rows[k].id /\ ended.rows[k].slot = rows[k].slot
  <2>1. CASE ended.rows[k] = rows[k]
    BY <1>3, <2>1 DEF Storage
  <2>2. CASE /\ rows[k] # NoRow
             /\ ended.rows[k] = [rows[k] EXCEPT !.end = now,
                                   !.secs = IF rows[k].beat > rows[k].start THEN @ ELSE 0]
    <3>1. rows[k] \in Rows
      BY <1>3, <2>2 DEF Storage
    <3>2. (IF rows[k].beat > rows[k].start THEN rows[k].secs ELSE 0) \in Int
      BY <3>1 DEF Rows
    <3>3. ended.rows[k] \in Rows /\ ended.rows[k].id = rows[k].id /\ ended.rows[k].slot = rows[k].slot
      BY <1>3, <2>2, <3>1, <3>2 DEF Rows
    <3> QED BY <2>2, <3>3, NothingAssumption
  <2> QED BY <1>4, <2>1, <2>2
<1>6. ended \in Storage
  <2>1. ended.rows \in [Keys -> Rows \cup {NoRow}]
    BY <1>4, <1>5
  <2>2. [Stored EXCEPT !.rows = ended.rows] \in Storage
    BY <1>3, <2>1, RowsReplaced
  <2>4. ended = [Stored EXCEPT !.rows = ended.rows]
    BY <1>4
  <2> QED BY <2>2, <2>4, Zenon
<1>7. StorageOK(ended)
  <2>1. \A k \in Keys : ended.rows[k] # NoRow => rows[k] # NoRow /\ ended.rows[k].id = rows[k].id
    BY <1>5
  <2>2. \A k \in Keys : ended.journal[k] # NoOp => ended.journal[k].key = k
    <3>1. \A k \in Keys : Stored.journal[k] # NoOp => Stored.journal[k].key = k
      BY <1>3 DEF StorageOK
    <3>2. ended.journal = Stored.journal
      BY <1>3, <1>4, Zenon
    <3> QED BY <3>1, <3>2
  <2>3. \A k, l \in Keys : rows[k] # NoRow /\ rows[l] # NoRow /\ rows[k].id = rows[l].id => k = l
    BY <1>3 DEF StorageOK
  <2>4. \A k, l \in Keys : ended.rows[k] # NoRow /\ ended.rows[l] # NoRow /\ ended.rows[k].id = ended.rows[l].id => k = l
    BY <2>1, <2>3
  <2>5. PICK n \in Nat : \A k \in Keys : rows[k] # NoRow => rows[k].id <= n
    BY <1>3 DEF StorageOK
  <2>6. \A k \in Keys : ended.rows[k] # NoRow => ended.rows[k].id <= n
    BY <2>1, <2>5
  <2> QED BY <1>6, <2>2, <2>4, <2>6 DEF StorageOK
<1>8. Writes(Stored, ended, {}, 0, {})
  BY <1>3, <1>4, <1>5, <1>7 DEF Writes
<1>9. Writes(Stored, st, {}, 0, {}) /\ st.journal = journal
  <2>1. Writes(Stored, Stored, {}, 0, {}) /\ Writes(Stored, Refused(Stored), {}, 0, {})
    BY <1>3, AltersNot DEF Alters, Extends
  <2>2. Refused(Stored).journal = journal
    BY <1>3 DEF Refused, Storage
  <2> QED BY <1>2, <1>3, <1>4, <1>8, <2>1, <2>2
<1>10. /\ Writes(Stored, Stored', {}, 0, {}) /\ StorageOK(Stored') /\ left' \in Budgets
       /\ journal' = journal /\ tombs' = tombs /\ epoch' = epoch
  BY <1>2, <1>9, StoreOn
<1>11. /\ Filled' /\ queue' \in Seq(Entries) /\ tried' \in Int /\ pc' \in Labels /\ at' \in Nat \ {0}
       /\ drop' \in SUBSET Keys /\ Loops'
  BY <1>1 DEF TypeOK, Filled, Labels, Loops
<1>12. off' \in BOOLEAN
  BY <1>1, Zenon
<1>13. TypeOK'
  BY <1>1, <1>10, <1>11, <1>12, StepType
<1>14. Grows(queue, queue', {}, 0)
  BY <1>1 DEF Grows, TypeOK
<1>15. Acts({}, 0, {})
  BY <1>1, <1>10, <1>14 DEF Acts
<1> QED BY <1>13, <1>15

\* A session that a title keeps alive: the step of that session at its
\* slot.
LEMMA SweepGraceActs ==
  ASSUME TypeOK, NEW s \in Slots, SweepGrace(s)
  PROVE  TypeOK' /\ SomeActs
<1> DEFINE a == active[s]
           b == [a EXCEPT !.missed = @ + 1]
           K == {a.key}
           I == {a.id}
<1>1. pc = "sweep" /\ s \in work /\ a # NoSession
  BY DEF SweepGrace, TypeOK, Loops
<1>2. a \in Sessions /\ a.slot = s /\ a.paused \in BOOLEAN /\ a.key \in Keys
  BY <1>1 DEF TypeOK, Filled, Sessions
<1>3. b \in Sessions /\ b.key = a.key /\ b.id = a.id /\ b.slot = s
  BY <1>2 DEF Sessions
<1>4. work' = work \ {s} /\ UNCHANGED <<queue, tried, pc, off, seen, at, drop, now, game>>
  BY DEF SweepGrace, world
<1>5. PICK c \in Continue(Stored, b, a.paused) : Store(c.st) /\ active' = [active EXCEPT ![s] = c.s]
  BY DEF SweepGrace
<1>6. a.key \in K /\ \A k \in K : k = a.key
  OBVIOUS
<1>7. a.id \in I /\ \A i \in I : i = a.id
  OBVIOUS
<1> HIDE DEF K, I, b
<1>8. Owns(Stored, b.id, K, I)
  BY <1>3, <1>7 DEF Owns
<1>9. /\ Extends(Stored, c.st, K, b.slot, I) /\ Same(b, c.s)
      /\ c.s.id = b.id \/ IsRow(c.st, b.key, c.s.id)
  BY <1>2, <1>3, <1>5, <1>6, <1>8, Basics, ContinueOn
<1>10. Writes(Stored, c.st, K, s, I) /\ \A l \in Keys : journal[l] # NoOp => c.st.journal[l] # NoOp
  BY <1>3, <1>9 DEF Extends, Stored
<1>11. /\ Writes(Stored, Stored', K, s, I) /\ StorageOK(Stored') /\ rows' = c.st.rows
       /\ journal' = c.st.journal /\ tombs' = tombs /\ epoch' = epoch /\ left' \in Budgets
  BY <1>5, <1>10, StoreOn
<1>12. c.s \in Sessions /\ c.s.key = a.key /\ c.s.slot = s /\ c.s # NoSession
  BY <1>3, <1>9, NothingAssumption DEF Same
<1>13. Filled' /\ \A t \in Slots : active'[t] = IF t = s THEN c.s ELSE active[t]
  <2>1. active' \in [Slots -> Sessions \cup {NoSession}]
    BY <1>5, <1>12 DEF Filled, TypeOK
  <2>2. \A t \in Slots : active'[t] = IF t = s THEN c.s ELSE active[t]
    BY <1>5 DEF Filled, TypeOK
  <2> QED BY <1>12, <2>1, <2>2 DEF Filled, TypeOK
<1>14. Loops'
  BY <1>1, <1>4, <1>13 DEF Loops, TypeOK
<1>15. /\ queue' \in Seq(Entries) /\ tried' \in Int /\ pc' \in Labels /\ at' \in Nat \ {0}
       /\ drop' \in SUBSET Keys
  BY <1>4 DEF TypeOK
<1>16. off' \in BOOLEAN
  BY <1>4, Zenon DEF TypeOK
<1>17. seen' \subseteq [slot : Slots, game : Games] /\ \A m, n \in seen' : m.slot[1] = n.slot[1] => m = n
  BY <1>4 DEF TypeOK
<1>18. TypeOK'
  BY <1>4, <1>11, <1>13, <1>14, <1>15, <1>16, <1>17, StepType
<1>19. Grows(queue, queue', K, s)
  BY <1>4, Basics, GrowsNot
<1>20. \A k \in K : Source(k, s)
  <2>1. Named(a.key, s)
    BY <1>1 DEF Named
  <2> QED BY <1>6, <2>1 DEF Source
<1>21. ASSUME NEW t \in Slots, active'[t] # NoSession
      PROVE
       \/ active[t] # NoSession /\ active'[t].key = active[t].key /\ active'[t].id = active[t].id
       \/ /\ t = s /\ active'[t].key \in K
          /\ \/ active'[t].id = 0
             \/ IsRow(Stored', active'[t].key, active'[t].id)
             \/ \E u \in Slots : active[u] # NoSession /\ active[u].key = active'[t].key /\ active[u].id = active'[t].id
          /\ \/ active[t] # NoSession /\ active[t].key = active'[t].key
             \/ \E m \in seen : m.slot = s
  <2>1. CASE t # s
    BY <1>13, <1>21, <2>1
  <2>2. CASE t = s
    <3>1. active'[t] = c.s /\ c.s.key = active[t].key /\ active[t] # NoSession
      BY <1>1, <1>12, <1>13, <2>2
    <3>2. IsRow(c.st, b.key, c.s.id) => IsRow(Stored', active'[t].key, active'[t].id)
      BY <1>3, <1>11, <3>1, <2>2 DEF IsRow, Stored
    <3> QED BY <1>3, <1>6, <1>9, <2>2, <3>1, <3>2
  <2> QED BY <2>1, <2>2
<1>22. \A k \in Keys : ~(journal[k] # NoOp /\ journal'[k] = NoOp)
  BY <1>10, <1>11
<1>23. \A i \in I : \E t \in Slots : active[t] # NoSession /\ active[t].key \in K /\ active[t].id = i
  BY <1>1, <1>6, <1>7
<1>24. Acts(K, s, I)
  BY <1>4, <1>11, <1>19, <1>20, <1>21, <1>22, <1>23 DEF Acts
<1>25. SomeActs
  BY <1>24, ActsAre
<1> QED BY <1>18, <1>25

\* A session nobody plays any more: the same.
LEMMA SweepCloseActs ==
  ASSUME TypeOK, NEW s \in Slots, SweepClose(s)
  PROVE  TypeOK' /\ SomeActs
<1> DEFINE a == active[s]
           K == {a.key}
<1>1. pc = "sweep" /\ s \in work /\ a # NoSession
  BY DEF SweepClose, TypeOK, Loops
<1>2. a \in Sessions /\ a.slot = s /\ a.key \in Keys
  BY <1>1 DEF TypeOK, Filled, Sessions
<1>3. work' = work \ {s} /\ UNCHANGED <<pc, off, seen, at, drop, now, game>>
  BY DEF SweepClose, world
<1>4. active' = [active EXCEPT ![s] = NoSession]
  BY DEF SweepClose
<1>5. PICK c \in Close(Stored, a) : Store(c.st) /\ queue' = c.queue /\ tried' = c.tried
  BY DEF SweepClose
<1>6. a.key \in K /\ \A k \in K : k = a.key
  OBVIOUS
<1> HIDE DEF K
<1>7. Extends(Stored, c.st, K, a.slot, {}) /\ Grows(queue, c.queue, K, a.slot) /\ c.tried \in Int
  BY <1>2, <1>5, <1>6, Basics, CloseOn
<1>8. Writes(Stored, c.st, K, s, {}) /\ \A l \in Keys : journal[l] # NoOp => c.st.journal[l] # NoOp
  BY <1>2, <1>7 DEF Extends, Stored
<1>9. /\ Writes(Stored, Stored', K, s, {}) /\ StorageOK(Stored')
      /\ journal' = c.st.journal /\ tombs' = tombs /\ epoch' = epoch /\ left' \in Budgets
  BY <1>5, <1>8, StoreOn
<1>10. Filled' /\ \A t \in Slots : active'[t] = IF t = s THEN NoSession ELSE active[t]
  <2>1. active' \in [Slots -> Sessions \cup {NoSession}]
    BY <1>4 DEF Filled, TypeOK
  <2>2. \A t \in Slots : active'[t] = IF t = s THEN NoSession ELSE active[t]
    BY <1>4 DEF Filled, TypeOK
  <2> QED BY <2>1, <2>2 DEF Filled, TypeOK
<1>11. Loops'
  BY <1>1, <1>3, <1>10 DEF Loops, TypeOK
<1>12. Grows(queue, queue', K, s)
  BY <1>2, <1>5, <1>7
<1>13. /\ queue' \in Seq(Entries) /\ tried' \in Int /\ pc' \in Labels /\ at' \in Nat \ {0}
       /\ drop' \in SUBSET Keys
  BY <1>3, <1>5, <1>7, <1>12 DEF TypeOK, Grows
<1>14. off' \in BOOLEAN
  BY <1>3, Zenon DEF TypeOK
<1>15. seen' \subseteq [slot : Slots, game : Games] /\ \A m, n \in seen' : m.slot[1] = n.slot[1] => m = n
  BY <1>3 DEF TypeOK
<1>16. TypeOK'
  BY <1>3, <1>9, <1>10, <1>11, <1>13, <1>14, <1>15, StepType
<1>17. \A k \in K : Source(k, s)
  <2>1. Named(a.key, s)
    BY <1>1 DEF Named
  <2> QED BY <1>6, <2>1 DEF Source
<1>18. \A k \in Keys : ~(journal[k] # NoOp /\ journal'[k] = NoOp)
  BY <1>8, <1>9
<1>19. Acts(K, s, {})
  BY <1>3, <1>9, <1>10, <1>12, <1>17, <1>18 DEF Acts
<1>20. SomeActs
  BY <1>19, ActsAre
<1> QED BY <1>16, <1>20

-----------------------------------------------------------------------------
\* A match.
Here(m) == active[m.slot]

\* Before it, the process may have ended another session.
Cleared(b, m, K) ==
  /\ Extends(Stored, b.st, K, m.slot, {}) /\ StorageOK(b.st)
  /\ Grows(queue, b.queue, K, m.slot) /\ b.tried \in Int
  /\ b.active \in [Slots -> Sessions \cup {NoSession}]
  /\ \A s \in Slots : s # m.slot => b.active[s] = active[s]
  /\ b.active[m.slot] # NoSession => b.active[m.slot] = active[m.slot]

\* Closing what its process played before writes for that session only.
LEMMA BeforeOn ==
  ASSUME TypeOK, NEW m, m.slot \in Slots, NEW K, Here(m) # NoSession /\ Here(m).game # m.game => Here(m).key \in K
  PROVE  \A b \in Before(m) : Cleared(b, m, K)
<1>1. CASE ~(Here(m) # NoSession /\ Here(m).game # m.game)
  <2> DEFINE b == [st |-> Stored, queue |-> queue, tried |-> tried, active |-> active]
  <2>1. Before(m) = {b}
    BY <1>1 DEF Before, Here
  <2>2. Extends(Stored, Stored, K, m.slot, {})
    BY Basics, ExtendsSelf DEF Alters
  <2>3. Grows(queue, queue, K, m.slot)
    BY Basics, GrowsNot
  <2>4. b.st = Stored /\ b.queue = queue /\ b.tried = tried /\ b.active = active
    OBVIOUS
  <2> HIDE DEF b
  <2>5. Cleared(b, m, K)
    BY <2>2, <2>3, <2>4, Basics DEF Cleared, Filled
  <2> QED BY <2>1, <2>5
<1>2. CASE Here(m) # NoSession /\ Here(m).game # m.game
  <2> DEFINE a == [active EXCEPT ![m.slot] = NoSession]
  <2>1. Before(m) = {[st |-> c.st, queue |-> c.queue, tried |-> c.tried, active |-> a] : c \in Close(Stored, Here(m))}
    BY <1>2 DEF Before, Here
  <2>2. Here(m) \in Sessions /\ Here(m).slot = m.slot /\ Here(m).key \in K
    BY <1>2, Basics DEF Filled, Here
  <2>3. \A c \in Close(Stored, Here(m)) :
          Extends(Stored, c.st, K, Here(m).slot, {}) /\ Grows(queue, c.queue, K, Here(m).slot) /\ c.tried \in Int
    BY <2>2, Basics, CloseOn
  <2>4. /\ a \in [Slots -> Sessions \cup {NoSession}]
        /\ \A s \in Slots : a[s] = IF s = m.slot THEN NoSession ELSE active[s]
    BY Basics DEF Filled
  <2> HIDE DEF a
  <2>5. ASSUME NEW b \in Before(m) PROVE Cleared(b, m, K)
    <3>1. PICK c \in Close(Stored, Here(m)) : b = [st |-> c.st, queue |-> c.queue, tried |-> c.tried, active |-> a]
      BY <2>1
    <3>2. b.st = c.st /\ b.queue = c.queue /\ b.tried = c.tried /\ b.active = a
      BY <3>1
    <3>3. Extends(Stored, c.st, K, m.slot, {}) /\ Grows(queue, c.queue, K, m.slot) /\ c.tried \in Int
      BY <2>2, <2>3
    <3>4. StorageOK(c.st)
      BY <3>3 DEF Extends, Writes
    <3> QED BY <2>4, <3>2, <3>3, <3>4 DEF Cleared
  <2> QED BY <2>5
<1> QED BY <1>1, <1>2

\* The session it continues, as the process it plays in now.
Taken(b, t, m) ==
  /\ t.s \in Sessions /\ t.s.slot = m.slot
  /\ t.from \in Slots /\ b.active[t.from] # NoSession
  /\ b.active[t.from].key = t.s.key /\ b.active[t.from].id = t.s.id
  /\ \/ t.from = m.slot
     \/ /\ m.slot[2]
        /\ ~t.from[2] \/ \A n \in seen : n.slot # t.from
        /\ t.from = <<m.slot[1], FALSE>> \/ \A n \in seen : n.slot # t.from

\* A session taken over keeps its key and its identifier.
LEMMA Retitled ==
  ASSUME NEW w \in Sessions, NEW sl \in Slots, NEW y \in BOOLEAN
  PROVE  /\ [w EXCEPT !.slot = sl, !.titled = y, !.missed = 0] \in Sessions
         /\ [w EXCEPT !.slot = sl, !.titled = y, !.missed = 0].slot = sl
         /\ [w EXCEPT !.slot = sl, !.titled = y, !.missed = 0].key = w.key
         /\ [w EXCEPT !.slot = sl, !.titled = y, !.missed = 0].id = w.id
<1> DEFINE a == [w EXCEPT !.slot = sl]
           b == [a EXCEPT !.titled = y]
           c == [b EXCEPT !.missed = 0]
<1>1. [w EXCEPT !.slot = sl, !.titled = y, !.missed = 0] = c
  OBVIOUS
<1>2. a \in Sessions /\ a.slot = sl /\ a.key = w.key /\ a.id = w.id
  BY DEF Sessions
<1> HIDE DEF a
<1>3. b \in Sessions /\ b.slot = sl /\ b.key = w.key /\ b.id = w.id
  BY <1>2 DEF Sessions
<1> HIDE DEF b
<1>4. c \in Sessions /\ c.slot = sl /\ c.key = w.key /\ c.id = w.id
  BY <1>3 DEF Sessions
<1> QED BY <1>1, <1>4

\* The session a match continues was active, under its own key, and is
\* filed nowhere else afterwards.
LEMMA ContinuedOn ==
  ASSUME TypeOK, NEW m \in [slot : Slots, game : Games], NEW b, NEW K, Cleared(b, m, K)
  PROVE  \A t \in Continued(b, m) : Taken(b, t, m)
<1> DEFINE titled == <<m.slot[1], FALSE>>
           byTitle == b.active[titled]
           leavers == {s \in Slots : /\ b.active[s] # NoSession /\ ~b.active[s].titled
                                     /\ b.active[s].game = m.game
                                     /\ \A n \in seen : n.slot # s}
           Takes(s) == [b.active[s] EXCEPT !.slot = m.slot]
           moves(s) == IF b.active[s].id > 0 THEN Move(b.st, b.active[s].id, m.slot) ELSE {Yes(b.st)}
           takes(s) == {[s |-> [Takes(s) EXCEPT !.moving = ~v.ok], from |-> s, st |-> v.st] : v \in moves(s)}
<1>0. m.slot \in Slots /\ m.slot[1] \in Procs
  BY DEF Slots
<1>1. titled \in Slots /\ ~titled[2]
  <2>1. m.slot[1] \in Procs /\ FALSE \in BOOLEAN
    BY <1>0
  <2>2. titled[2] = FALSE
    OBVIOUS
  <2> QED BY <2>1, <2>2 DEF Slots
<1>2. \A s \in Slots : b.active[s] \in Sessions \cup {NoSession}
  BY DEF Cleared
<1>3. CASE b.active[m.slot] # NoSession
  <2> DEFINE t == [s |-> b.active[m.slot], from |-> m.slot, st |-> b.st]
  <2>1. Continued(b, m) = {t}
    BY <1>3 DEF Continued
  <2>2. b.active[m.slot] \in Sessions /\ b.active[m.slot].slot = m.slot
    BY <1>0, <1>2, <1>3, Basics DEF Cleared, Filled
  <2>3. t.s = b.active[m.slot] /\ t.from = m.slot
    OBVIOUS
  <2> HIDE DEF t
  <2>4. Taken(b, t, m)
    BY <1>0, <1>3, <2>2, <2>3 DEF Taken
  <2> QED BY <2>1, <2>4
<1>4. CASE b.active[m.slot] = NoSession /\ ~m.slot[2]
  BY <1>4 DEF Continued
<1>5. CASE b.active[m.slot] = NoSession /\ m.slot[2] /\ (byTitle # NoSession /\ byTitle.titled /\ byTitle.game = m.game)
  <2> DEFINE u == [byTitle EXCEPT !.slot = m.slot, !.titled = FALSE, !.missed = 0]
             t == [s |-> u, from |-> titled, st |-> b.st]
  <2>1. Continued(b, m) = {t}
    BY <1>5 DEF Continued
  <2>2. byTitle \in Sessions
    BY <1>1, <1>2, <1>5
  <2>3. u \in Sessions /\ u.slot = m.slot /\ u.key = byTitle.key /\ u.id = byTitle.id
    BY <1>0, <2>2, Retitled
  <2>4. t.s = u /\ t.from = titled
    OBVIOUS
  <2> HIDE DEF t, u
  <2>5. byTitle = b.active[titled] /\ byTitle # NoSession
    BY <1>5 DEF byTitle
  <2>6. Taken(b, t, m)
    BY <1>1, <1>5, <2>3, <2>4, <2>5 DEF Taken
  <2> QED BY <2>1, <2>6
<1>6. CASE /\ b.active[m.slot] = NoSession /\ m.slot[2]
           /\ ~(byTitle # NoSession /\ byTitle.titled /\ byTitle.game = m.game)
  <2>1. Continued(b, m) = IF m.slot[1] \in HandsOver THEN UNION {takes(s) : s \in leavers} ELSE {}
    BY <1>6 DEF Continued
  <2>2. ASSUME NEW s \in leavers, NEW t \in takes(s) PROVE Taken(b, t, m)
    <3>1. s \in Slots /\ b.active[s] \in Sessions /\ b.active[s] # NoSession /\ \A n \in seen : n.slot # s
      BY <1>2
    <3> DEFINE w == b.active[s]
    <3>2. PICK v \in moves(s) : t = [s |-> [Takes(s) EXCEPT !.moving = ~v.ok], from |-> s, st |-> v.st]
      BY <2>2
    <3>3. t.s = [[w EXCEPT !.slot = m.slot] EXCEPT !.moving = ~v.ok] /\ t.from = s
      BY <3>2
    <3>4. (~v.ok) \in BOOLEAN
      BY Zenon
    <3> DEFINE y == ~v.ok
    <3>5. w \in Sessions /\ y \in BOOLEAN /\ t.s = [[w EXCEPT !.slot = m.slot] EXCEPT !.moving = y]
      BY <3>1, <3>3, <3>4
    <3> HIDE DEF w, y
    <3>6. t.s \in Sessions /\ t.s.slot = m.slot /\ t.s.key = w.key /\ t.s.id = w.id
      BY <1>0, <3>5 DEF Sessions
    <3> QED BY <1>6, <3>1, <3>3, <3>6 DEF Taken, w
  <2> HIDE DEF takes, leavers
  <2> QED BY <2>1, <2>2
<1> QED BY <1>3, <1>4, <1>5, <1>6

\* What taking it over wrote.
LEMMA ContinuedWrites ==
  ASSUME TypeOK, NEW m \in [slot : Slots, game : Games], NEW b, NEW K, Cleared(b, m, K), NEW t \in Continued(b, m),
         NEW I, t.s.id \in I
  PROVE  Extends(b.st, t.st, K, m.slot, I)
<1> DEFINE titled == <<m.slot[1], FALSE>>
           byTitle == b.active[titled]
           leavers == {s \in Slots : /\ b.active[s] # NoSession /\ ~b.active[s].titled
                                     /\ b.active[s].game = m.game
                                     /\ \A n \in seen : n.slot # s}
           Takes(s) == [b.active[s] EXCEPT !.slot = m.slot]
           moves(s) == IF b.active[s].id > 0 THEN Move(b.st, b.active[s].id, m.slot) ELSE {Yes(b.st)}
           takes(s) == {[s |-> [Takes(s) EXCEPT !.moving = ~v.ok], from |-> s, st |-> v.st] : v \in moves(s)}
<1>0. m.slot \in Slots /\ StorageOK(b.st)
  BY DEF Cleared
<1>1. Extends(b.st, b.st, K, m.slot, I)
  BY <1>0, ExtendsSelf DEF Alters
<1>2. \/ t.st = b.st
      \/ \E s \in leavers : t \in takes(s)
  <2>1. \/ t \in {[s |-> b.active[m.slot], from |-> m.slot, st |-> b.st]}
        \/ t \in {[s |-> [byTitle EXCEPT !.slot = m.slot, !.titled = FALSE, !.missed = 0],
                   from |-> titled, st |-> b.st]}
        \/ t \in UNION {takes(s) : s \in leavers}
    <3>1. CASE b.active[m.slot] # NoSession
      BY <3>1 DEF Continued
    <3>2. CASE b.active[m.slot] = NoSession /\ m.slot[2] /\ (byTitle # NoSession /\ byTitle.titled /\ byTitle.game = m.game)
      BY <3>2 DEF Continued
    <3>3. CASE /\ b.active[m.slot] = NoSession /\ m.slot[2] /\ m.slot[1] \in HandsOver
               /\ ~(byTitle # NoSession /\ byTitle.titled /\ byTitle.game = m.game)
      <4>1. Continued(b, m) = UNION {takes(s) : s \in leavers}
        BY <3>3 DEF Continued
      <4> HIDE DEF takes, leavers
      <4> QED BY <4>1
    <3>4. CASE /\ b.active[m.slot] = NoSession
               /\ ~m.slot[2] \/ (/\ m.slot[1] \notin HandsOver
                                /\ ~(byTitle # NoSession /\ byTitle.titled /\ byTitle.game = m.game))
      <4>1. Continued(b, m) = {}
        BY <3>4 DEF Continued
      <4> QED BY <4>1
    <3> HIDE DEF takes, leavers, byTitle
    <3>5. \/ b.active[m.slot] # NoSession
          \/ b.active[m.slot] = NoSession /\ m.slot[2] /\ (byTitle # NoSession /\ byTitle.titled /\ byTitle.game = m.game)
          \/ /\ b.active[m.slot] = NoSession /\ m.slot[2] /\ m.slot[1] \in HandsOver
             /\ ~(byTitle # NoSession /\ byTitle.titled /\ byTitle.game = m.game)
          \/ /\ b.active[m.slot] = NoSession
             /\ ~m.slot[2] \/ (/\ m.slot[1] \notin HandsOver
                              /\ ~(byTitle # NoSession /\ byTitle.titled /\ byTitle.game = m.game))
      BY Zenon
    <3>6. b.active[m.slot] # NoSession =>
            \/ t \in {[s |-> b.active[m.slot], from |-> m.slot, st |-> b.st]}
            \/ t \in {[s |-> [byTitle EXCEPT !.slot = m.slot, !.titled = FALSE, !.missed = 0],
                       from |-> titled, st |-> b.st]}
            \/ t \in UNION {takes(s) : s \in leavers}
      BY <3>1
    <3> QED BY <3>2, <3>3, <3>4, <3>5, <3>6
  <2> HIDE DEF takes, leavers, byTitle, titled
  <2>2. t \in {[s |-> b.active[m.slot], from |-> m.slot, st |-> b.st]} => t.st = b.st
    OBVIOUS
  <2>3. t \in {[s |-> [byTitle EXCEPT !.slot = m.slot, !.titled = FALSE, !.missed = 0],
                   from |-> titled, st |-> b.st]} => t.st = b.st
    OBVIOUS
  <2>4. t \in UNION {takes(s) : s \in leavers} => \E s \in leavers : t \in takes(s)
    OBVIOUS
  <2> QED BY <2>1, <2>2, <2>3, <2>4
<1>3. ASSUME NEW s \in leavers, t \in takes(s) PROVE Extends(b.st, t.st, K, m.slot, I)
  <2>1. PICK v \in moves(s) : t = [s |-> [Takes(s) EXCEPT !.moving = ~v.ok], from |-> s, st |-> v.st]
    BY <1>3
  <2>2. b.active[s] \in Sessions
    BY DEF Cleared
  <2> DEFINE w == b.active[s]
  <2>3. w \in Sessions /\ t.s = [[w EXCEPT !.slot = m.slot] EXCEPT !.moving = ~v.ok] /\ t.st = v.st
    BY <2>1, <2>2
  <2>4. v \in IF w.id > 0 THEN Move(b.st, w.id, m.slot) ELSE {Yes(b.st)}
    BY <2>1
  <2> HIDE DEF w
  <2>5. t.s.id = w.id
    BY <2>3 DEF Sessions
  <2>6. CASE v = Yes(b.st)
    BY <1>1, <2>3, <2>6 DEF Yes
  <2>7. CASE v \in Move(b.st, w.id, m.slot)
    <3>1. Owns(b.st, w.id, K, I)
      BY <2>5 DEF Owns
    <3>2. Alters(b.st, v.st, K, m.slot, I)
      BY <1>0, <2>7, <3>1, MoveOn
    <3> QED BY <2>3, <3>2 DEF Alters
  <2> QED BY <2>4, <2>6, <2>7
<1> QED BY <1>1, <1>2, <1>3

-----------------------------------------------------------------------------
\* Writes for no identifier are writes for any.
LEMMA ExtendsMore ==
  ASSUME NEW st, NEW t, NEW K, NEW sl, NEW I, Extends(st, t, K, sl, {})
  PROVE  Extends(st, t, K, sl, I)
BY DEF Extends, Writes

\* The session that a match ends first.
Ended(m) == {k \in Keys : Here(m) # NoSession /\ Here(m).game # m.game /\ Here(m).key = k}

\* The session x is filed for the match m, and nothing where it was from.
Files(m, b, x, from, st, K, I) ==
  /\ Cleared(b, m, K) /\ K = Ended(m) \cup {x.key}
  /\ x \in Sessions /\ x.slot = m.slot /\ Source(x.key, m.slot)
  /\ from \in Slots
  /\ from = m.slot \/ from = <<m.slot[1], FALSE>> \/ \A n \in seen : n.slot # from
  /\ Extends(b.st, st, K, m.slot, I)
  /\ active' \in [Slots -> Sessions \cup {NoSession}]
  /\ \A s \in Slots : active'[s] = IF s = m.slot THEN x ELSE IF s = from THEN NoSession ELSE b.active[s]
  /\ \/ x.id = 0 \/ IsRow(st, x.key, x.id)
     \/ \E t \in Slots : active[t] # NoSession /\ active[t].key = x.key /\ active[t].id = x.id
  /\ \A i \in I : \E t \in Slots : active[t] # NoSession /\ active[t].key \in K /\ active[t].id = i
  /\ queue' = b.queue /\ tried' = b.tried /\ Store(st)

\* A session filed at the slot of its match: the step of that session.
LEMMA MatchedActs ==
  ASSUME TypeOK, pc = "match", NEW m \in seen, work' = work \ {m},
         UNCHANGED <<pc, off, seen, at, drop, now, game>>,
         NEW b, NEW x, NEW from, NEW st, NEW K, NEW I, Files(m, b, x, from, st, K, I)
  PROVE  TypeOK' /\ SomeActs
<1> USE DEF Files
<1> DEFINE sl == m.slot
<1>1. sl \in Slots /\ m \in [slot : Slots, game : Games] /\ x # NoSession
  BY NothingAssumption DEF TypeOK
<1>2. Extends(Stored, st, K, sl, I)
  BY ExtendsMore, ExtendsOn DEF Cleared
<1>3. Writes(Stored, st, K, sl, I) /\ \A l \in Keys : journal[l] # NoOp => st.journal[l] # NoOp
  BY <1>2 DEF Extends, Stored
<1>4. /\ Writes(Stored, Stored', K, sl, I) /\ StorageOK(Stored') /\ rows' = st.rows
      /\ journal' = st.journal /\ tombs' = tombs /\ epoch' = epoch /\ left' \in Budgets
  BY <1>3, StoreOn
<1>5. ASSUME NEW s \in Slots, s # sl, s # from PROVE active'[s] = active[s]
  BY <1>5 DEF Cleared
<1>6. active'[sl] = x
  BY <1>1
<1>7. ASSUME NEW s \in Slots, s # sl, s = from PROVE active'[s] = NoSession
  BY <1>7
<1>8. Filled'
  <2>1. ASSUME NEW s \in Slots, active'[s] # NoSession PROVE active'[s].slot = s
    BY <1>5, <1>6, <1>7, <2>1, Basics DEF Filled
  <2> QED BY <2>1 DEF Filled
<1>9. Loops'
  <2>1. ASSUME NEW n \in seen PROVE n \in work' \/ active'[n.slot] # NoSession
    <3>1. CASE n = m
      BY <1>1, <1>6, <3>1
    <3>2. CASE n # m
      <4>1. n.slot \in Slots /\ n.slot[1] # m.slot[1]
        BY <3>2 DEF TypeOK
      <4>5. <<m.slot[1], FALSE>>[1] = m.slot[1]
        OBVIOUS
      <4>2. n.slot # sl /\ n.slot # <<m.slot[1], FALSE>>
        BY <4>1, <4>5
      <4>3. n.slot # from
        BY <4>2
      <4>4. n \in work \/ active[n.slot] # NoSession
        BY DEF TypeOK, Loops
      <4> QED BY <1>5, <3>2, <4>1, <4>2, <4>3, <4>4
    <3> QED BY <3>1, <3>2
  <2> QED BY <2>1 DEF Loops
<1>10. /\ queue' \in Seq(Entries) /\ tried' \in Int /\ Grows(queue, queue', K, sl)
  BY DEF Cleared, Grows
<1>11. pc' \in Labels /\ at' \in Nat \ {0} /\ drop' \in SUBSET Keys
  BY DEF TypeOK
<1>12. off' \in BOOLEAN
  BY Zenon DEF TypeOK
<1>13. seen' \subseteq [slot : Slots, game : Games] /\ \A m1, n1 \in seen' : m1.slot[1] = n1.slot[1] => m1 = n1
  BY DEF TypeOK
<1>14. TypeOK'
  BY <1>4, <1>8, <1>9, <1>10, <1>11, <1>12, <1>13, StepType
<1>15. ASSUME NEW s \in Slots, active'[s] # NoSession
      PROVE
       \/ active[s] # NoSession /\ active'[s].key = active[s].key /\ active'[s].id = active[s].id
       \/ /\ s = sl /\ active'[s].key \in K
          /\ \/ active'[s].id = 0
             \/ IsRow(Stored', active'[s].key, active'[s].id)
             \/ \E t \in Slots : active[t] # NoSession /\ active[t].key = active'[s].key /\ active[t].id = active'[s].id
          /\ \/ active[s] # NoSession /\ active[s].key = active'[s].key
             \/ \E n \in seen : n.slot = sl
  <2>1. CASE s = sl
    <3>1. IsRow(st, x.key, x.id) => IsRow(Stored', x.key, x.id)
      BY <1>4 DEF IsRow, Stored
    <3> QED BY <1>6, <2>1, <3>1
  <2>2. CASE s # sl
    BY <1>5, <1>7, <1>15, <2>2
  <2> QED BY <2>1, <2>2
<1>16. ASSUME NEW k \in K PROVE Source(k, sl)
  <2>1. CASE k = x.key
    BY <2>1
  <2>2. CASE k \in Ended(m)
    BY <2>2 DEF Ended, Here, Source, Named
  <2> QED BY <2>1, <2>2
<1>17. \A k \in Keys : ~(journal[k] # NoOp /\ journal'[k] = NoOp)
  BY <1>3, <1>4
<1>18. Acts(K, sl, I)
  BY <1>4, <1>10, <1>15, <1>16, <1>17 DEF Acts
<1>19. SomeActs
  <2> HIDE DEF sl
  <2> QED BY <1>18, ActsAre
<1> QED BY <1>14, <1>19

\* A session that begins has a key nothing names.
LEMMA BegunIs ==
  ASSUME TypeOK, NEW m \in [slot : Slots, game : Games], Minted # Keys, NEW i \in Nat
  PROVE  /\ Fresh \in Keys \ Minted
         /\ Begun(m).key = Fresh /\ Begun(m).game = m.game /\ Begun(m).slot = m.slot /\ Begun(m).start \in Int
         /\ [Begun(m) EXCEPT !.id = i] \in Sessions
         /\ [Begun(m) EXCEPT !.id = i].key = Fresh /\ [Begun(m) EXCEPT !.id = i].slot = m.slot
         /\ [Begun(m) EXCEPT !.id = i].id = i
<1>1. Fresh \in Keys \ Minted
  <2>1. \E k \in Keys : k \notin Minted
    BY DEF Minted
  <2> QED BY <2>1 DEF Fresh
<1>2. m.slot \in Slots /\ m.game \in Games /\ m.slot[2] \in BOOLEAN
  BY DEF Slots
<1> DEFINE n == Session(Fresh, m.slot, m.game, 0, now, 0, NoIntervals)
           y == ~m.slot[2]
           u == [n EXCEPT !.titled = y]
<1>3. n \in Sessions /\ n.key = Fresh /\ n.slot = m.slot /\ n.game = m.game /\ n.start = now
  BY <1>1, <1>2, Basics DEF Session, Sessions
<1>4. y \in BOOLEAN
  BY <1>2, Zenon
<1>5. Begun(m) = u
  BY DEF Begun
<1> HIDE DEF n, y
<1>6. u \in Sessions /\ u.key = Fresh /\ u.slot = m.slot /\ u.game = m.game /\ u.start = now
  BY <1>3, <1>4 DEF Sessions
<1> HIDE DEF u
<1>7. [u EXCEPT !.id = i] \in Sessions /\ [u EXCEPT !.id = i].key = u.key /\ [u EXCEPT !.id = i].slot = u.slot
      /\ [u EXCEPT !.id = i].id = i
  BY <1>6 DEF Sessions
<1> QED BY <1>1, <1>5, <1>6, <1>7, Basics

\* A match is the step, at its slot, of the session it continues or begins
\* and of the one it closes.
LEMMA MatchActs ==
  ASSUME TypeOK, NEW m \in seen, Match(m)
  PROVE  TypeOK' /\ SomeActs
<1>1. /\ pc = "match" /\ work' = work \ {m} /\ UNCHANGED <<pc, off, seen, at, drop, now, game>>
  BY DEF Match, world
<1>2. m \in [slot : Slots, game : Games] /\ m.slot \in Slots
  BY DEF TypeOK
<1>3. PICK b \in Before(m) :
       /\ \/ \E t \in Continued(b, m), paused \in {FALSE, left.pauses} :
               \E c \in Continue(t.st, t.s, paused) :
                 Store(c.st) /\ active' = Filed(b.active, t.from, c.s)
          \/ /\ Minted # Keys
             /\ \E n \in Begin(b.st, Begun(m)) :
                 /\ Store(n.st)
                 /\ active' = [b.active EXCEPT ![m.slot] = [Begun(m) EXCEPT !.id = n.id]]
       /\ queue' = b.queue /\ tried' = b.tried
  BY DEF Match
<1>4. Ended(m) \subseteq Keys /\ (Here(m) # NoSession /\ Here(m).game # m.game => Here(m).key \in Ended(m))
  <2>1. Here(m) # NoSession => Here(m) \in Sessions /\ Here(m).key \in Keys
    BY <1>2, Basics DEF Filled, Here, Sessions
  <2> QED BY <2>1 DEF Ended
<1>5. ASSUME NEW t \in Continued(b, m), NEW paused \in {FALSE, left.pauses},
             NEW c \in Continue(t.st, t.s, paused), Store(c.st), active' = Filed(b.active, t.from, c.s)
      PROVE  TypeOK' /\ SomeActs
  <2> DEFINE K == Ended(m) \cup {t.s.key}
             I == {t.s.id}
  <2>1. /\ Here(m) # NoSession /\ Here(m).game # m.game => Here(m).key \in K
        /\ K = Ended(m) \cup {t.s.key} /\ t.s.key \in K /\ t.s.id \in I /\ \A i \in I : i = t.s.id
    BY <1>4
  <2> HIDE DEF K, I
  <2>2. Cleared(b, m, K)
    BY <1>2, <2>1, BeforeOn
  <2>3. Taken(b, t, m)
    BY <1>2, <2>2, ContinuedOn
  <2>4. Extends(b.st, t.st, K, m.slot, I)
    BY <1>2, <2>1, <2>2, ContinuedWrites
  <2>5. StorageOK(t.st) /\ Owns(t.st, t.s.id, K, I) /\ t.s \in Sessions /\ t.s.slot = m.slot
    BY <2>1, <2>3, <2>4 DEF Extends, Writes, Owns, Taken
  <2>6. paused \in BOOLEAN
    BY DEF TypeOK, Budgets
  <2>7. /\ Extends(t.st, c.st, K, m.slot, I) /\ Same(t.s, c.s)
        /\ c.s.id = t.s.id \/ IsRow(c.st, t.s.key, c.s.id)
    BY <1>5, <2>1, <2>5, <2>6, Basics, ContinueOn
  <2>8. Extends(b.st, c.st, K, m.slot, I)
    BY <2>4, <2>7, ExtendsOn
  <2>9. c.s \in Sessions /\ c.s.slot = m.slot /\ c.s.key = t.s.key
    BY <2>5, <2>7 DEF Same
  <2>10. t.from \in Slots /\ b.active \in [Slots -> Sessions \cup {NoSession}]
    BY <2>2, <2>3 DEF Cleared, Taken
  <2>11. /\ active' \in [Slots -> Sessions \cup {NoSession}]
         /\ \A s \in Slots : active'[s] = IF s = m.slot THEN c.s ELSE IF s = t.from THEN NoSession ELSE b.active[s]
    BY <1>2, <1>5, <2>9, <2>10 DEF Filed
  <2>12. active[t.from] # NoSession /\ active[t.from].key = t.s.key /\ active[t.from].id = t.s.id
    BY <1>2, <2>2, <2>3 DEF Cleared, Taken
  <2>13. Source(t.s.key, m.slot)
    <3>1. CASE t.from = m.slot
      BY <2>12, <3>1 DEF Source, Named
    <3>2. CASE t.from # m.slot
      <4>1. active'[t.from] = NoSession
        BY <2>10, <2>11, <3>2
      <4>2. m.slot[2] /\ (~t.from[2] \/ \A n \in seen : n.slot # t.from)
        BY <2>3, <3>2 DEF Taken
      <4> QED BY <1>1, <2>10, <2>12, <4>1, <4>2 DEF Source
    <3> QED BY <3>1, <3>2
  <2>14. t.from = m.slot \/ t.from = <<m.slot[1], FALSE>> \/ \A n \in seen : n.slot # t.from
    BY <2>3 DEF Taken
  <2>15. \/ c.s.id = 0 \/ IsRow(c.st, c.s.key, c.s.id)
         \/ \E u \in Slots : active[u] # NoSession /\ active[u].key = c.s.key /\ active[u].id = c.s.id
    BY <2>7, <2>9, <2>10, <2>12
  <2>16. \A i \in I : \E u \in Slots : active[u] # NoSession /\ active[u].key \in K /\ active[u].id = i
    BY <2>1, <2>10, <2>12
  <2>17. K = Ended(m) \cup {c.s.key} /\ Source(c.s.key, m.slot)
    BY <2>1, <2>9, <2>13
  <2>18. Files(m, b, c.s, t.from, c.st, K, I)
    BY <1>3, <1>5, <2>2, <2>8, <2>9, <2>10, <2>11, <2>14, <2>15, <2>16, <2>17 DEF Files
  <2> QED BY <1>1, <2>18, MatchedActs
<1>6. ASSUME Minted # Keys, NEW n \in Begin(b.st, Begun(m)), Store(n.st),
             active' = [b.active EXCEPT ![m.slot] = [Begun(m) EXCEPT !.id = n.id]]
      PROVE  TypeOK' /\ SomeActs
  <2> DEFINE K == Ended(m) \cup {Fresh}
  <2>1. /\ Here(m) # NoSession /\ Here(m).game # m.game => Here(m).key \in K
        /\ K = Ended(m) \cup {Fresh} /\ Fresh \in K
    BY <1>4
  <2> HIDE DEF K
  <2>2. Cleared(b, m, K)
    BY <1>2, <2>1, BeforeOn
  <2>3. StorageOK(b.st) /\ b.active \in [Slots -> Sessions \cup {NoSession}]
    BY <2>2 DEF Cleared
  <2>4. /\ Fresh \in Keys \ Minted
        /\ Begun(m).key = Fresh /\ Begun(m).game = m.game /\ Begun(m).slot = m.slot /\ Begun(m).start \in Int
    BY <1>2, <1>6, BegunIs
  <2>5. /\ Alters(b.st, n.st, K, m.slot, {}) /\ n.id \in Nat
        /\ n.id # 0 => n.st.rows[Fresh] # NoRow /\ n.st.rows[Fresh].id = n.id
    <3>1. Begun(m).key \in Keys /\ Begun(m).key \in K /\ Begun(m).game \in Games /\ Begun(m).slot \in Slots
      BY <1>2, <2>1, <2>4
    <3>2. Begins(b.st, n, Begun(m), K, {})
      BY <1>6, <2>3, <2>4, <3>1, BeginOn
    <3> QED BY <2>4, <3>2 DEF Begins
  <2> DEFINE x == [Begun(m) EXCEPT !.id = n.id]
  <2>6. x \in Sessions /\ x.key = Fresh /\ x.slot = m.slot /\ x.id = n.id
    BY <1>2, <1>6, <2>5, BegunIs
  <2>7. active' = [b.active EXCEPT ![m.slot] = x]
    BY <1>6
  <2> HIDE DEF x
  <2>8. /\ active' \in [Slots -> Sessions \cup {NoSession}]
        /\ \A s \in Slots : active'[s] = IF s = m.slot THEN x ELSE IF s = m.slot THEN NoSession ELSE b.active[s]
    BY <1>2, <2>3, <2>6, <2>7
  <2>9. Source(x.key, m.slot)
    BY <1>1, <2>4, <2>6 DEF Source
  <2>10. x.id = 0 \/ IsRow(n.st, x.key, x.id)
    BY <2>5, <2>6 DEF IsRow
  <2>11. Extends(b.st, n.st, K, m.slot, {}) /\ K = Ended(m) \cup {x.key}
    BY <2>1, <2>5, <2>6 DEF Alters
  <2>12. Files(m, b, x, m.slot, n.st, K, {})
    BY <1>2, <1>3, <1>6, <2>2, <2>6, <2>8, <2>9, <2>10, <2>11 DEF Files
  <2> QED BY <1>1, <2>12, MatchedActs
<1> QED BY <1>3, <1>5, <1>6

-----------------------------------------------------------------------------
\* Every step is one of these.
LEMMA NextActs ==
  ASSUME TypeOK, Next
  PROVE  TypeOK' /\ (SomeActs \/ (\E k \in Keys : DeleteSession(k)) \/ (\E g \in Games : ClearGame(g)))
<1> DEFINE A == Acts({}, 0, {})
<1>1. A => SomeActs
  BY ActsAre
<1>2. CASE Poll \/ RetryDone \/ DrainDone \/ MatchDone \/ SweepDone \/ Start \/ ReplayDone \/ RecoverDone \/ Kill
  BY <1>1, <1>2, PollActs, RetryDoneActs, DrainDoneActs, MatchDoneActs, SweepDoneActs, StartActs, ReplayDoneActs,
     RecoverDoneActs, KillActs
<1>3. CASE Retry
  BY <1>3, RetryActs
<1>4. CASE \E k \in Keys : Drain(k) \/ Replay(k) \/ Recover(k)
  BY <1>4, DrainActs, ReplayActs, RecoverActs
<1>5. CASE \E m \in seen : Match(m)
  BY <1>5, MatchActs
<1>6. CASE \E s \in Slots : SweepGrace(s) \/ SweepClose(s)
  BY <1>6, SweepGraceActs, SweepCloseActs
<1>7. CASE Pass \/ \E p \in Procs, g \in Games : StartGame(p, g) \/ SwitchGame(p, g)
  <2>1. Pass \/ \E p \in Procs, g \in Games : StartGame(p, g) \/ SwitchGame(p, g) \/ ExitGame(p)
    BY <1>7
  <2> QED BY <1>1, <2>1, WorldActs
<1>8. CASE \E p \in Procs : ExitGame(p)
  <2>1. \E g \in Games : TRUE
    BY <1>8 DEF ExitGame, Alive
  <2>2. Pass \/ \E p \in Procs, g \in Games : StartGame(p, g) \/ SwitchGame(p, g) \/ ExitGame(p)
    BY <1>8, <2>1
  <2> QED BY <1>1, <2>2, WorldActs
<1>9. CASE \E k \in Keys : DeleteSession(k)
  BY <1>9, DeleteSessionType
<1>10. CASE \E g \in Games : ClearGame(g)
  BY <1>10, ClearGameType
<1> QED BY <1>2, <1>3, <1>4, <1>5, <1>6, <1>7, <1>8, <1>9, <1>10 DEF Next, Step, World

\* Every step leaves a well-formed state.
LEMMA TypeNext ==
  ASSUME TypeOK, [Next]_vars
  PROVE  TypeOK'
<1>1. CASE Next
  BY <1>1, NextActs
<1>2. CASE UNCHANGED vars
  <2>1. UNCHANGED <<now, game, rows, tombs, epoch, journal, jok, active, queue, tried, pc, off, seen, work, at, drop, left>>
    BY <1>2 DEF vars, database, disk, memory, poll, world
  <2>2. StorageOK(Stored') /\ Loops'
    BY <2>1 DEF TypeOK, Loops, Open, Stored
  <2>3. Filled'
    BY <2>1 DEF TypeOK, Filled
  <2>4. off' \in BOOLEAN
    BY <2>1, Zenon DEF TypeOK
  <2>5. /\ queue' \in Seq(Entries) /\ tried' \in Int /\ pc' \in Labels /\ at' \in Nat \ {0}
        /\ drop' \in SUBSET Keys /\ left' \in Budgets
        /\ seen' \subseteq [slot : Slots, game : Games] /\ \A m, n \in seen' : m.slot[1] = n.slot[1] => m = n
    BY <2>1 DEF TypeOK
  <2> QED BY <2>1, <2>2, <2>3, <2>4, <2>5, StepType
<1> QED BY <1>1, <1>2

\* The state of the recorder is well formed (TypeOK): in every reachable
\* state the fields have their types, a journaled operation is filed under
\* its own key, no two rows share an identifier, an active session is
\* filed under the slot it carries, and what each loop has yet to handle
\* is still there (rows, operations and sessions that nothing deletes
\* under it).
THEOREM RecorderTypeOK == Spec => []TypeOK
<1>1. Init => TypeOK
  BY InitTypeOK
<1>2. TypeOK /\ [Next]_vars => TypeOK'
  BY TypeNext
<1> QED BY <1>1, <1>2, PTL DEF Spec

-----------------------------------------------------------------------------
\* Nothing was ever deleted.
NothingDeleted == tombs = {} /\ \A g \in Games : epoch[g] = 0

\* The row an active session names is there, and it is its own.
Rooted == \A s \in Slots : active[s] # NoSession /\ active[s].id # 0 => IsRow(Stored, active[s].key, active[s].id)

\* Nothing is active at first.
LEMMA InitRooted == Init => Rooted
BY DEF Init, Rooted

\* A step keeps an active session's row as long as nothing is deleted.
LEMMA RootedNext ==
  ASSUME TypeOK, Rooted, NothingDeleted', [Next]_vars
  PROVE  Rooted'
<1>1. CASE SomeActs
  <2>1. PICK K, sl, I : Acts(K, sl, I)
    BY <1>1 DEF SomeActs
  <2>2. Writes(Stored, Stored', K, sl, I)
    BY <2>1 DEF Acts
  <2>3. ASSUME NEW s \in Slots, active'[s] # NoSession, active'[s].id # 0
        PROVE  IsRow(Stored', active'[s].key, active'[s].id)
    <3>1. IsRow(Stored', active'[s].key, active'[s].id)
          \/ \E t \in Slots : active[t] # NoSession /\ active[t].key = active'[s].key /\ active[t].id = active'[s].id
      BY <2>1, <2>3 DEF Acts
    <3>2. ASSUME NEW t \in Slots, active[t] # NoSession, active[t].key = active'[s].key, active[t].id = active'[s].id
          PROVE  IsRow(Stored', active'[s].key, active'[s].id)
      <4>1. IsRow(Stored, active[t].key, active[t].id)
        BY <2>3, <3>2 DEF Rooted
      <4>2. active[t].key \in Keys
        BY <3>2, Basics DEF Filled, Sessions
      <4> QED BY <2>2, <3>2, <4>1, <4>2, RowKept
    <3> QED BY <3>1, <3>2
  <2> QED BY <2>3 DEF Rooted
<1>2. CASE (\E k \in Keys : DeleteSession(k)) \/ (\E g \in Games : ClearGame(g))
  BY <1>2, DeleteSessionType, ClearGameType DEF NothingDeleted
<1>3. CASE UNCHANGED vars
  BY <1>3 DEF vars, database, disk, memory, Rooted, Stored
<1> QED BY <1>1, <1>2, <1>3, NextActs

\* When every active session's row is there, no identifier names
\* another's.
LEMMA RootedNames ==
  ASSUME TypeOK, Rooted
  PROVE  IdsNameOwnRow
<1> SUFFICES ASSUME NEW s \in Slots, active[s] # NoSession, NEW k \in Keys, rows[k] # NoRow, rows[k].id = active[s].id
             PROVE  k = active[s].key
  BY DEF IdsNameOwnRow
<1>1. StorageOK(Stored) /\ Stored.rows = rows
  BY DEF TypeOK, Stored
<1>2. active[s].key \in Keys
  BY Basics DEF Filled, Sessions
<1>3. rows[k].id # 0
  BY <1>1 DEF StorageOK, Storage, Rows
<1>4. rows[active[s].key] # NoRow /\ rows[active[s].key].id = active[s].id
  BY <1>1, <1>3 DEF Rooted, IsRow
<1> QED BY <1>1, <1>2, <1>4 DEF StorageOK

\* IdsNameOwnRow holds while nothing was ever deleted: row identifiers
\* come back only after a deletion. VIdsNameOwnRow shows what happens
\* then.
THEOREM IdsNameOwnRowUntilDeletion == Spec /\ []NothingDeleted => []IdsNameOwnRow
<1>1. Init => Rooted
  BY InitRooted
<1>2. TypeOK /\ Rooted /\ NothingDeleted' /\ [Next]_vars => Rooted'
  BY RootedNext
<1>3. TypeOK /\ Rooted => IdsNameOwnRow
  BY RootedNames
<1> QED BY <1>1, <1>2, <1>3, RecorderTypeOK, PTL DEF Spec

-----------------------------------------------------------------------------
\* What a step does to what the recorder sees.
Matching == {"retry", "drain", "match"}

Watches ==
  /\ left'.evidence = left.evidence
  /\ \A p \in Procs : (game'[p] = NoGame => game[p] = NoGame) /\ (game[p] = Gone => game'[p] = Gone)
  /\ \/ seen' = {}
     \/ game' = game /\ seen' \in Sightings
     \/ game' = game /\ pc' \notin Matching /\ \E z \in Sightings : seen' \subseteq z
     \/ /\ seen' = seen
        /\ pc' \in Matching => pc \in Matching /\ \A p \in Procs : game'[p] \in Games => game[p] \in Games

\* A write does not change what evidence there is.
LEMMA StoreLeft ==
  ASSUME TypeOK, NEW st, Store(st)
  PROVE  left'.evidence = left.evidence
BY DEF Store, TypeOK, Budgets

\* A step of the recorder that finds no new match only watches.
LEMMA WatchesSame ==
  ASSUME left'.evidence = left.evidence, game' = game,
         seen' = {} \/ (seen' = seen /\ (pc' \in Matching => pc \in Matching))
  PROVE  Watches
BY DEF Watches

\* Every step but a poll and a start keeps its matches or forgets them,
\* and no process starts or changes while a poll runs.
LEMMA NextWatches ==
  ASSUME TypeOK, Next
  PROVE  Watches
<1>1. CASE Poll
  <2>1. game' = game /\ (seen' = {} \/ seen' \in Sightings)
    BY <1>1 DEF Poll
  <2> QED BY <1>1, <2>1, PollActs DEF Watches
<1>2. CASE Start
  <2>1. left'.evidence = left.evidence
    BY <1>2, StartActs
  <2>2. game' = game /\ \/ seen' = {}
                        \/ pc' = "replay" /\ \E z \in Sightings : seen' = {m \in z : m.slot[2]}
    BY <1>2 DEF Start, world
  <2>3. ASSUME NEW z \in Sightings, seen' = {m \in z : m.slot[2]} PROVE seen' \subseteq z
    BY <2>3
  <2> QED BY <2>1, <2>2, <2>3 DEF Watches, Matching
<1>3. CASE Kill
  <2>1. game' = game /\ seen' = {}
    BY <1>3 DEF Kill, world
  <2> QED BY <1>3, <2>1, KillActs, WatchesSame
<1>4. CASE Retry
  BY <1>4, StoreLeft, WatchesSame DEF Retry, world
<1>5. CASE RetryDone
  BY <1>5, StoreLeft, WatchesSame DEF RetryDone, world, Matching
<1>6. CASE DrainDone
  BY <1>6, StoreLeft, WatchesSame DEF DrainDone, world, Matching
<1>7. CASE MatchDone
  BY <1>7, WatchesSame DEF MatchDone, world, Matching
<1>8. CASE SweepDone
  BY <1>8, StoreLeft, WatchesSame DEF SweepDone, world
<1>9. CASE ReplayDone
  BY <1>9, StoreLeft, WatchesSame DEF ReplayDone, world, Matching
<1>10. CASE RecoverDone
  BY <1>10, WatchesSame DEF RecoverDone, world
<1>11. ASSUME NEW k \in Keys, Drain(k) \/ Replay(k) PROVE Watches
  BY <1>11, StoreLeft, WatchesSame DEF Drain, Replay, world
<1>12. ASSUME NEW k \in Keys, Recover(k) PROVE Watches
  BY <1>12, StoreLeft, WatchesSame DEF Recover, world
<1>13. ASSUME NEW m \in seen, Match(m) PROVE Watches
  BY <1>13, StoreLeft, WatchesSame DEF Match, world
<1>14. ASSUME NEW s \in Slots, SweepGrace(s) \/ SweepClose(s) PROVE Watches
  BY <1>14, StoreLeft, WatchesSame DEF SweepGrace, SweepClose, world
<1>15. ASSUME NEW k \in Keys, DeleteSession(k) PROVE Watches
  BY <1>15, DeleteSessionType, WatchesSame
<1>16. ASSUME NEW g \in Games, ClearGame(g) PROVE Watches
  BY <1>16, ClearGameType, WatchesSame
<1>17. CASE Pass
  BY <1>17, WatchesSame DEF Pass, poll
<1>18. ASSUME NEW p \in Procs, NEW g \in Games, StartGame(p, g) \/ SwitchGame(p, g) PROVE Watches
  <2>1. /\ UNCHANGED <<left, seen, pc>> /\ pc \in {"idle", "down"}
        /\ game[p] # Gone /\ game' = [game EXCEPT ![p] = g] /\ g # NoGame
    BY <1>18, GamesAssumption DEF StartGame, SwitchGame, poll, Alive
  <2>2. \A q \in Procs : game'[q] = IF q = p THEN g ELSE game[q]
    BY <2>1 DEF TypeOK
  <2> QED BY <2>1, <2>2 DEF Watches, Matching
<1>19. ASSUME NEW p \in Procs, ExitGame(p) PROVE Watches
  <2>1. /\ UNCHANGED <<left, seen, pc>> /\ game' = [game EXCEPT ![p] = Gone]
    BY <1>19 DEF ExitGame, poll
  <2>2. \A q \in Procs : game'[q] = IF q = p THEN Gone ELSE game[q]
    BY <2>1 DEF TypeOK
  <2> QED BY <2>1, <2>2, GamesAssumption DEF Watches, Matching
<1> QED BY <1>1, <1>2, <1>3, <1>4, <1>5, <1>6, <1>7, <1>8, <1>9, <1>10, <1>11, <1>12, <1>13, <1>14, <1>15,
           <1>16, <1>17, <1>18, <1>19 DEF Next, Step, World

-----------------------------------------------------------------------------
\* A slot whose process may still run, or that a match stands for.
Present(s) == game[s[1]] # Gone \/ \E m \in seen : m.slot = s

\* Every match is by proof.
Verified == left.evidence = {"verified"}

\* What names a slot names a process that was once matched by proof.
NamesProve == \A k \in Keys, s \in Slots : Named(k, s) => s[2] /\ game[s[1]] # NoGame

\* A session is named at one slot whose process may still run.
OnePresent ==
  \A k \in Keys, s, t \in Slots : Named(k, s) /\ Named(k, t) /\ Present(s) /\ Present(t) => s = t

\* An active session is named at no other such slot.
FollowedThere ==
  \A k \in Keys, s, t \in Slots :
    active[s] # NoSession /\ active[s].key = k /\ Named(k, t) /\ Present(t) => s = t

\* A session is active at one slot.
OneActive ==
  \A s, t \in Slots :
    (active[s] # NoSession /\ active[t] # NoSession /\ active[s].key = active[t].key) => s = t

\* The matches are by proof.
SeenProve == \A m \in seen : m.slot[2] /\ game[m.slot[1]] # NoGame

\* They stand for every process that runs, or none was looked for.
AllSeen ==
  pc \in Matching => seen = {} \/ \A p \in Procs : Alive(p) => \E m \in seen : m.slot = <<p, TRUE>>

\* Each session is at one place.
Followed == NamesProve /\ OnePresent /\ FollowedThere /\ OneActive /\ SeenProve /\ AllSeen

\* A slot that is present was: identities of processes are never used
\* again.
LEMMA PresentNext ==
  ASSUME TypeOK, Watches, NEW s \in Slots, Present(s)'
  PROVE  Present(s)
<1>1. s[1] \in Procs
  BY DEF Slots
<1>2. CASE game'[s[1]] # Gone
  BY <1>1, <1>2 DEF Watches, Present
<1>3. ASSUME NEW m \in seen', m.slot = s, m \notin seen PROVE Present(s)
  <2>1. PICK z \in Sightings : seen' \subseteq z
    BY <1>3 DEF Watches
  <2>2. Alive(s[1])
    BY <1>3, <2>1, SightingsOn
  <2> QED BY <2>2, GamesAssumption DEF Alive, Present
<1> QED BY <1>2, <1>3 DEF Present

\* When every match is by proof, the matches of a poll stand for all
\* processes that run.
LEMMA SeenNext ==
  ASSUME TypeOK, Watches, Verified, SeenProve, AllSeen
  PROVE  SeenProve' /\ AllSeen'
<1>1. ASSUME NEW m \in seen' PROVE m.slot[2] /\ game'[m.slot[1]] # NoGame
  <2>1. CASE m \in seen
    <3>1. m.slot[1] \in Procs /\ m.slot[2] /\ game[m.slot[1]] # NoGame
      BY <2>1 DEF SeenProve, TypeOK, Slots
    <3> QED BY <3>1 DEF Watches
  <2>2. CASE m \notin seen
    <3>1. PICK z \in Sightings : seen' \subseteq z /\ game' = game
      BY <1>1, <2>2 DEF Watches
    <3>2. m.slot[2] /\ Alive(m.slot[1])
      BY <1>1, <3>1, SightingsOn DEF Verified
    <3> QED BY <3>1, <3>2, GamesAssumption DEF Alive
  <2> QED BY <2>1, <2>2
<1>2. ASSUME pc' \in Matching, seen' # {}, NEW p \in Procs, Alive(p)'
      PROVE  \E m \in seen' : m.slot = <<p, TRUE>>
  <2>1. CASE game' = game /\ seen' \in Sightings
    BY <1>2, <2>1, SightingsOn DEF Alive, Verified
  <2>2. CASE seen' = seen /\ (pc' \in Matching => pc \in Matching /\ \A q \in Procs : game'[q] \in Games => game[q] \in Games)
    BY <1>2, <2>2 DEF Alive, AllSeen
  <2> QED BY <1>2, <2>1, <2>2 DEF Watches
<1> QED BY <1>1, <1>2 DEF SeenProve, AllSeen

-----------------------------------------------------------------------------
\* The names a step makes: those of its own sessions at its own slot.
LEMMA NamesOn ==
  ASSUME TypeOK, IdsNameOwnRow, NEW K, NEW sl, NEW I, Acts(K, sl, I),
         NEW k \in Keys, NEW s \in Slots, Named(k, s)'
  PROVE  Named(k, s) \/ (k \in K /\ s = sl)
<1>1. Writes(Stored, Stored', K, sl, I) /\ Grows(queue, queue', K, sl)
  BY DEF Acts
<1>2. CASE rows'[k] # NoRow /\ rows'[k].slot = s
  <2>1. CASE rows[k] = NoRow
    BY <1>1, <1>2, <2>1 DEF Writes, Stored
  <2>2. CASE rows[k] # NoRow
    <3>1. rows'[k].slot # rows[k].slot => rows'[k].slot = sl /\ (k \in K \/ rows[k].id \in I)
      BY <1>1, <2>2 DEF Writes, Stored
    <3>2. rows[k].id \in I => k \in K
      <4> SUFFICES ASSUME rows[k].id \in I PROVE k \in K
        OBVIOUS
      <4>1. PICK t \in Slots : active[t] # NoSession /\ active[t].key \in K /\ active[t].id = rows[k].id
        BY DEF Acts
      <4>2. k = active[t].key
        BY <2>2, <4>1 DEF IdsNameOwnRow
      <4> QED BY <4>1, <4>2
    <3> QED BY <1>2, <2>2, <3>1, <3>2 DEF Named
  <2> QED BY <2>1, <2>2
<1>3. CASE journal'[k] # NoOp /\ journal'[k].slot = s
  <2>1. journal'[k] # journal[k] => k \in K /\ journal'[k].slot = sl
    BY <1>1, <1>3 DEF Writes, Stored
  <2> QED BY <1>3, <2>1 DEF Named
<1>4. ASSUME NEW j \in 1 .. Len(queue'), queue'[j].op.key = k, queue'[j].op.slot = s
      PROVE  Named(k, s) \/ (k \in K /\ s = sl)
  <2>1. \/ queue'[j].op.key \in K /\ queue'[j].op.slot = sl
        \/ \E i \in 1 .. Len(queue) : queue'[j].op = queue[i].op
    BY <1>1 DEF Grows
  <2> QED BY <1>4, <2>1 DEF Named
<1>5. CASE active'[s] # NoSession /\ active'[s].key = k
  <2>1. \/ active[s] # NoSession /\ active'[s].key = active[s].key
        \/ s = sl /\ active'[s].key \in K
    BY <1>5 DEF Acts
  <2> QED BY <1>5, <2>1 DEF Named
<1> QED BY <1>2, <1>3, <1>4, <1>5 DEF Named

\* A session comes to a slot that names it already, or nobody else does.
Arrives(k, sl) ==
  \/ Named(k, sl)
  \/ /\ \E m \in seen : m.slot = sl
     /\ \A t \in Slots : Named(k, t) => ~Present(t)
     /\ \A s \in Slots : active[s] # NoSession /\ active[s].key = k => active'[s] = NoSession

\* A fresh key is named at no slot.
LEMMA FreshUnnamed ==
  ASSUME NEW k \in Keys \ Minted, NEW s \in Slots
  PROVE  ~Named(k, s)
<1>1. DOMAIN queue = DOMAIN queue
  OBVIOUS
<1> QED BY DEF Minted, Named

\* A session that a match brings to a slot either is named there already,
\* or left every slot at which it could still be found: the process it was
\* taken over from is gone.
LEMMA ArrivesOn ==
  ASSUME TypeOK, Verified, Followed, NEW k \in Keys, NEW sl, Source(k, sl)
  PROVE  Arrives(k, sl)
<1>1. CASE Named(k, sl)
  BY <1>1 DEF Arrives
<1>2. CASE (\E m \in seen : m.slot = sl) /\ k \in Keys \ Minted
  <2>1. \A t \in Slots : ~Named(k, t)
    BY <1>2, FreshUnnamed
  <2>2. \A s \in Slots : ~(active[s] # NoSession /\ active[s].key = k)
    BY <2>1 DEF Named
  <2> QED BY <1>2, <2>1, <2>2 DEF Arrives
<1>3. ASSUME \E m \in seen : m.slot = sl, NEW from \in Slots, pc = "match",
             active[from] # NoSession, active[from].key = k, active'[from] = NoSession,
             ~from[2] \/ \A n \in seen : n.slot # from
      PROVE  Arrives(k, sl)
  <2>1. Named(k, from) /\ from[1] \in Procs /\ game[from[1]] \in Games \cup {NoGame, Gone}
    BY <1>3 DEF Named, TypeOK, Slots
  <2>2. from[2] /\ game[from[1]] # NoGame
    BY <2>1 DEF Followed, NamesProve
  <2>3. \A n \in seen : n.slot # from
    BY <1>3, <2>2
  <2>4. from = <<from[1], TRUE>>
    <3>1. from = <<from[1], from[2]>> /\ from[2] \in BOOLEAN
      BY DEF Slots
    <3>2. from[2] = TRUE
      BY <2>2, <3>1
    <3> QED BY <3>1, <3>2
  <2>5. ~Alive(from[1])
    BY <1>3, <2>1, <2>3, <2>4 DEF Followed, AllSeen, Matching
  <2>6. ~Present(from)
    BY <2>1, <2>2, <2>3, <2>5 DEF Alive, Present
  <2>7. \A t \in Slots : Named(k, t) => ~Present(t)
    BY <1>3, <2>6 DEF Followed, FollowedThere
  <2>8. \A s \in Slots : active[s] # NoSession /\ active[s].key = k => active'[s] = NoSession
    BY <1>3 DEF Followed, OneActive
  <2> QED BY <1>3, <2>7, <2>8 DEF Arrives
<1> QED BY <1>1, <1>2, <1>3 DEF Source

\* A step of the recorder keeps each session at one place.
LEMMA ActsFollowed ==
  ASSUME TypeOK, TypeOK', Verified, Followed, IdsNameOwnRow, Watches, NEW K, NEW sl, NEW I, Acts(K, sl, I)
  PROVE  NamesProve' /\ OnePresent' /\ FollowedThere' /\ OneActive'
<1> DEFINE Comes(k) ==
             /\ \E m \in seen : m.slot = sl
             /\ \A t \in Slots : Named(k, t) => ~Present(t)
             /\ \A s \in Slots : active[s] # NoSession /\ active[s].key = k => active'[s] = NoSession
<1>1. \A k \in Keys : k \in K => Named(k, sl) \/ Comes(k)
  BY ArrivesOn DEF Acts, Arrives
<1>2. \A k \in Keys, s \in Slots : Named(k, s)' => Named(k, s) \/ (s = sl /\ Comes(k))
  BY <1>1, NamesOn
<1>3. \A s \in Slots : Present(s)' => Present(s)
  BY PresentNext
<1>4. \A m \in seen : m.slot[2] /\ game[m.slot[1]] # NoGame /\ Present(m.slot)
  BY DEF Followed, SeenProve, Present
<1>5. ASSUME NEW s \in Slots, active'[s] # NoSession
      PROVE  \/ active[s] # NoSession /\ active'[s].key = active[s].key
             \/ s = sl /\ active'[s].key \in K /\ Present(s)
  BY <1>4, <1>5 DEF Acts
<1>6. ASSUME NEW s \in Slots, active'[s] # NoSession
      PROVE  active'[s].key \in Keys
  <2>1. active'[s] \in Sessions
    BY <1>6 DEF TypeOK, Filled
  <2> QED BY <2>1 DEF Sessions
<1>7. ASSUME NEW k \in Keys, NEW s \in Slots, Named(k, s)' PROVE s[2] /\ game'[s[1]] # NoGame
  <2>1. s[1] \in Procs
    BY DEF Slots
  <2>2. s[2] /\ game[s[1]] # NoGame
    BY <1>2, <1>4, <1>7 DEF Followed, NamesProve
  <2> QED BY <2>1, <2>2 DEF Watches
<1> HIDE DEF Comes
<1>8. ASSUME NEW k \in Keys, NEW s \in Slots, NEW t \in Slots,
             Named(k, s)', Named(k, t)', Present(s), Present(t)
      PROVE  s = t
  <2>1. CASE Named(k, s) /\ Named(k, t)
    BY <1>8, <2>1 DEF Followed, OnePresent
  <2>2. CASE Comes(k)
    <3>1. ~Named(k, s) /\ ~Named(k, t)
      BY <1>8, <2>2 DEF Comes
    <3> QED BY <1>2, <1>8, <3>1
  <2> QED BY <1>2, <1>8, <2>1, <2>2
<1>9. ASSUME NEW k \in Keys, NEW s \in Slots, NEW t \in Slots,
             active'[s] # NoSession, active'[s].key = k, Named(k, t)', Present(t)
      PROVE  s = t
  <2>1. CASE active[s] # NoSession /\ active[s].key = k
    <3>1. ~Comes(k)
      BY <1>9, <2>1 DEF Comes
    <3>2. Named(k, t)
      BY <1>2, <1>9, <3>1
    <3> QED BY <1>9, <2>1, <3>2 DEF Followed, FollowedThere
  <2>2. CASE s = sl /\ k \in K /\ Present(s)
    <3>1. CASE Named(k, s)
      <4>1. Named(k, t) \/ t = s
        BY <1>2, <1>9, <2>2
      <4> QED BY <1>9, <2>2, <3>1, <4>1 DEF Followed, OnePresent
    <3>2. CASE Comes(k)
      <4>1. ~Named(k, t)
        BY <1>9, <3>2 DEF Comes
      <4> QED BY <1>2, <1>9, <2>2, <4>1
    <3> QED BY <1>1, <2>2, <3>1, <3>2
  <2> QED BY <1>5, <1>9, <2>1, <2>2
<1>10. ASSUME NEW s \in Slots, NEW t \in Slots, active'[s] # NoSession, active'[t] # NoSession,
              active'[s].key = active'[t].key,
              active[s] # NoSession, active'[s].key = active[s].key
       PROVE  s = t
  <2> DEFINE k == active'[s].key
  <2>1. k \in Keys
    BY <1>6, <1>10
  <2>2. CASE active[t] # NoSession /\ active'[t].key = active[t].key
    BY <1>10, <2>2 DEF Followed, OneActive
  <2>3. CASE t = sl /\ active'[t].key \in K /\ Present(t)
    <3>1. ~Comes(k)
      BY <1>10 DEF Comes
    <3>2. Named(k, t)
      BY <1>1, <1>10, <2>1, <2>3, <3>1
    <3> QED BY <1>10, <2>1, <2>3, <3>2 DEF Followed, FollowedThere
  <2> QED BY <1>5, <1>10, <2>2, <2>3
<1>11. ASSUME NEW s \in Slots, NEW t \in Slots, active'[s] # NoSession, active'[t] # NoSession,
              active'[s].key = active'[t].key
       PROVE  s = t
  BY <1>5, <1>10, <1>11
<1>12. NamesProve'
  BY <1>7 DEF NamesProve
<1>13. OnePresent'
  BY <1>3, <1>8 DEF OnePresent
<1>14. FollowedThere'
  BY <1>3, <1>9 DEF FollowedThere
<1>15. OneActive'
  BY <1>11 DEF OneActive
<1> QED BY <1>12, <1>13, <1>14, <1>15

\* Nothing is named at first.
LEMMA InitFollowed == Init => Followed
<1> SUFFICES ASSUME Init PROVE Followed
  OBVIOUS
<1>1. /\ rows = [k \in Keys |-> NoRow] /\ journal = [k \in Keys |-> NoOp] /\ queue = <<>>
      /\ active = [s \in Slots |-> NoSession] /\ seen = {}
  BY DEF Init
<1>2. \A k \in Keys, s \in Slots : ~Named(k, s)
  BY <1>1 DEF Named
<1>3. \A s \in Slots : active[s] = NoSession
  BY <1>1
<1> QED BY <1>1, <1>2, <1>3 DEF Followed, NamesProve, OnePresent, FollowedThere, OneActive, SeenProve, AllSeen

\* A step that only takes rows away.
LEMMA RowsGone ==
  ASSUME UNCHANGED <<journal, active, queue, seen, game, pc>>,
         \A l \in Keys : rows'[l] = rows[l] \/ rows'[l] = NoRow,
         Followed
  PROVE  Followed'
<1>1. \A k \in Keys, s \in Slots : Named(k, s)' => Named(k, s)
  BY DEF Named
<1>2. \A s \in Slots : Present(s)' <=> Present(s)
  BY DEF Present
<1>3. NamesProve'
  BY <1>1 DEF Followed, NamesProve
<1>4. OnePresent' 
  BY <1>1, <1>2 DEF Followed, OnePresent
<1>5. FollowedThere'
  BY <1>1, <1>2 DEF Followed, FollowedThere
<1>6. OneActive' /\ SeenProve' /\ AllSeen'
  BY DEF Followed, OneActive, SeenProve, AllSeen, Alive
<1> QED BY <1>3, <1>4, <1>5, <1>6 DEF Followed

\* Every step keeps each session at one place, when every match is by
\* proof and every identifier is that of its session's own row.
LEMMA FollowedNext ==
  ASSUME TypeOK, IdsNameOwnRow, Verified => Followed, [Next]_vars
  PROVE  Verified' => Followed'
<1>1. CASE Next
  <2>1. Watches
    BY <1>1, NextWatches
  <2>2. Verified' => Verified
    BY <2>1 DEF Watches, Verified
  <2>3. TypeOK'
    BY <1>1, NextActs
  <2>4. CASE SomeActs
    <3>1. PICK K, sl, I : Acts(K, sl, I)
      BY <2>4 DEF SomeActs
    <3> SUFFICES ASSUME Verified' PROVE Followed'
      OBVIOUS
    <3>2. Verified /\ Followed
      BY <2>2
    <3>3. NamesProve' /\ OnePresent' /\ FollowedThere' /\ OneActive'
      BY <2>1, <2>3, <3>1, <3>2, ActsFollowed
    <3>4. SeenProve' /\ AllSeen'
      BY <2>1, <3>2, SeenNext DEF Followed
    <3> QED BY <3>3, <3>4 DEF Followed
  <2>5. CASE \E k \in Keys : DeleteSession(k)
    BY <2>2, <2>5, DeleteSessionType, RowsGone
  <2>6. CASE \E g \in Games : ClearGame(g)
    BY <2>2, <2>6, ClearGameType, RowsGone
  <2> QED BY <1>1, <2>4, <2>5, <2>6, NextActs
<1>2. CASE UNCHANGED vars
  <2>1. UNCHANGED <<rows, journal, active, queue, seen, game, pc, left>>
    BY <1>2 DEF vars, database, disk, memory, poll, world
  <2> QED BY <2>1, RowsGone DEF Verified
<1> QED BY <1>1, <1>2

\* OneSessionPerKey: two active sessions are never one session, through
\* kills, replays, recoveries and takeovers, as long as every identifier
\* an active session holds is that of its own row (IdsNameOwnRow).
THEOREM OneSessionWhileIdsOwn == Spec /\ []IdsNameOwnRow => []OneSessionPerKey
<1> DEFINE J == Verified => Followed
<1>1. Init => J
  BY InitFollowed
<1>2. TypeOK /\ IdsNameOwnRow /\ J /\ [Next]_vars => J'
  BY FollowedNext
<1>3. J => OneSessionPerKey
  BY DEF Followed, OneActive, OneSessionPerKey, Verified
<1> HIDE DEF J
<1> QED BY <1>1, <1>2, <1>3, RecorderTypeOK, PTL DEF Spec

\* OneSessionPerKey holds, then, while nothing was ever deleted.
THEOREM OneSessionUntilDeletion == Spec /\ []NothingDeleted => []OneSessionPerKey
BY OneSessionWhileIdsOwn, IdsNameOwnRowUntilDeletion, PTL

\* The operation of k need not be replayed any more.
Excused(k) == rows[k] # NoRow \/ k \in tombs \/ \E g \in Games : epoch[g] > 0

\* No key is to be compacted for nothing.
DroppedForCause == \A k \in drop : Excused(k)

\* A write leaves the deletions alone.
LEMMA StoreKeeps ==
  ASSUME NEW st, Store(st)
  PROVE  tombs' = tombs /\ epoch' = epoch
BY DEF Store

\* Tombstones stay, and clears are never undone.
LEMMA DeletionsStay ==
  ASSUME TypeOK, Next
  PROVE  tombs \subseteq tombs' /\ \A g \in Games : epoch[g] > 0 => epoch'[g] > 0
<1>1. CASE Poll \/ MatchDone \/ Start \/ RecoverDone \/ Kill \/ Pass
  <2>1. tombs' = tombs /\ epoch' = epoch
    BY <1>1 DEF Poll, MatchDone, Start, RecoverDone, Kill, Pass, database
  <2> QED BY <2>1
<1>2. CASE Retry \/ RetryDone \/ DrainDone \/ SweepDone
  <2>1. tombs' = tombs /\ epoch' = epoch
    BY <1>2, StoreKeeps DEF Retry, RetryDone, DrainDone, SweepDone
  <2> QED BY <2>1
<1>3. CASE ReplayDone \/ \E k \in Keys : Drain(k) \/ Replay(k) \/ Recover(k)
  <2>1. tombs' = tombs /\ epoch' = epoch
    BY <1>3, StoreKeeps DEF ReplayDone, Drain, Replay, Recover
  <2> QED BY <2>1
<1>4. CASE (\E m \in seen : Match(m)) \/ \E s \in Slots : SweepGrace(s) \/ SweepClose(s)
  <2>1. tombs' = tombs /\ epoch' = epoch
    BY <1>4, StoreKeeps DEF Match, SweepGrace, SweepClose
  <2> QED BY <2>1
<1>5. CASE (\E p \in Procs, g \in Games : StartGame(p, g) \/ SwitchGame(p, g)) \/ \E p \in Procs : ExitGame(p)
  <2>1. tombs' = tombs /\ epoch' = epoch
    BY <1>5 DEF StartGame, SwitchGame, ExitGame, database
  <2> QED BY <2>1
<1>6. CASE \E k \in Keys : DeleteSession(k)
  BY <1>6 DEF DeleteSession
<1>7. ASSUME NEW g \in Games, ClearGame(g)
      PROVE  tombs \subseteq tombs' /\ \A h \in Games : epoch[h] > 0 => epoch'[h] > 0
  <2>1. epoch \in [Games -> Nat] /\ tombs' = tombs /\ epoch' = [epoch EXCEPT ![g] = @ + 1]
    BY <1>7 DEF ClearGame, TypeOK
  <2>2. \A h \in Games : epoch[h] \in Nat /\ epoch'[h] = IF h = g THEN epoch[h] + 1 ELSE epoch[h]
    BY <2>1
  <2> QED BY <2>1, <2>2
<1> QED BY <1>1, <1>2, <1>3, <1>4, <1>5, <1>6, <1>7 DEF Next, Step, World

\* A key to compact has a row, a tombstone or a cleared game, and keeps
\* it.
LEMMA DroppedNext ==
  ASSUME TypeOK, DroppedForCause, [Next]_vars
  PROVE  DroppedForCause'
<1>1. CASE Next
  <2>0. tombs \subseteq tombs' /\ \A g \in Games : epoch[g] > 0 => epoch'[g] > 0
    BY <1>1, DeletionsStay
  <2>1. drop \subseteq Keys
    BY DEF TypeOK
  <2>2. CASE SomeActs
    <3>1. PICK K, sl, I : Acts(K, sl, I)
      BY <2>2 DEF SomeActs
    <3>2. \A k \in Keys : rows[k] # NoRow => rows'[k] # NoRow
      BY <3>1 DEF Acts, Writes, Stored
    <3>3. ASSUME NEW k \in drop' PROVE Excused(k)'
      <4>1. k \in drop \/ rows'[k] # NoRow \/ k \in tombs \/ \E g \in Games : epoch[g] > 0
        BY <3>1, <3>3 DEF Acts
      <4>2. CASE k \in drop
        BY <2>0, <2>1, <3>2, <4>2 DEF DroppedForCause, Excused
      <4> QED BY <2>0, <4>1, <4>2 DEF Excused
    <3> QED BY <3>3 DEF DroppedForCause
  <2>3. ASSUME NEW l \in Keys, DeleteSession(l) PROVE DroppedForCause'
    <3>1. drop' = drop /\ \A k \in Keys : rows'[k] = rows[k] \/ k \in tombs'
      BY <2>3, DeleteSessionType
    <3> QED BY <2>0, <2>1, <3>1 DEF DroppedForCause, Excused
  <2>4. ASSUME NEW g \in Games, ClearGame(g) PROVE DroppedForCause'
    <3>1. epoch'[g] # 0 /\ TypeOK'
      BY <2>4, ClearGameType
    <3>2. epoch'[g] > 0
      BY <3>1 DEF TypeOK
    <3> QED BY <3>2 DEF DroppedForCause, Excused
  <2> QED BY <1>1, <2>2, <2>3, <2>4, NextActs
<1>2. CASE UNCHANGED vars
  <2>1. UNCHANGED <<rows, tombs, epoch, drop>>
    BY <1>2 DEF vars, database, poll
  <2> QED BY <2>1 DEF DroppedForCause, Excused
<1> QED BY <1>1, <1>2

\* The journal loses an operation only for one of them.
LEMMA DroppedOnlyThen ==
  ASSUME TypeOK, DroppedForCause, [Next]_vars, NEW k \in Keys, journal[k] # NoOp, journal'[k] = NoOp
  PROVE  Excused(k)
<1>1. CASE SomeActs
  BY <1>1 DEF SomeActs, Acts, DroppedForCause
<1>2. journal' # journal
  OBVIOUS
<1>3. ~UNCHANGED vars
  BY <1>2 DEF vars, disk
<1> QED BY <1>1, <1>2, <1>3, NextActs, DeleteSessionType, ClearGameType

\* ReplayedBeforeDropped holds while no game was ever cleared: an
\* operation leaves the journal only once its session has a row or a
\* tombstone, whatever is refused, retried, killed or deleted in between.
THEOREM ReplayedUntilCleared ==
  Spec /\ [](\A g \in Games : epoch[g] = 0) => ReplayedBeforeDropped
<1> DEFINE N == \A g \in Games : epoch[g] = 0
           A == \A k \in Keys : (journal[k] # NoOp /\ journal'[k] = NoOp) =>
                  rows[k] # NoRow \/ k \in tombs \/ epoch[journal[k].game] > journal[k].epoch
<1>1. Init => DroppedForCause
  BY DEF Init, DroppedForCause
<1>2. TypeOK /\ DroppedForCause /\ [Next]_vars => DroppedForCause'
  BY DroppedNext
<1>3. TypeOK /\ DroppedForCause /\ N /\ [Next]_vars => [A]_vars
  BY DroppedOnlyThen DEF Excused
<1> HIDE DEF N, A
<1>4. ReplayedBeforeDropped <=> [][A]_vars
  BY DEF ReplayedBeforeDropped, A
<1>5. []N <=> [](\A g \in Games : epoch[g] = 0)
  BY PTL DEF N
<1> QED BY <1>1, <1>2, <1>3, <1>4, <1>5, RecorderTypeOK, PTL DEF Spec

-----------------------------------------------------------------------------
\* No play is invented (NoPlayInvented), for any number of games,
\* processes and sessions and whatever fails.
\*
\* The proof keeps an account of play (Books): every total that is
\* claimed, in a row, an operation or a session, is made of seconds of the
\* account, and the account with the sessions that are yet to be billed
\* for the last poll counts no more seconds than processes ran for
\* (Balanced).  Each operator is shown to be fair to such an account, then
\* each action.  A poll adds as many seconds as processes ran: Placed says
\* that the sessions it bills are of such processes, one each.

\* An account: when the session of each key started, the seconds of play
\* that are claimed, and the time up to which storage knows of play.
\* A total is credited when the session played for no less between its
\* start and "till", and each second of it is one of the account.
Credited(c, k, start, secs, till) ==
  /\ start = c.start[k] /\ start \in Nat /\ secs \in Nat /\ till \in Int
  /\ secs <= till - start
  /\ \A n \in 1 .. secs : <<k, n>> \in c.play

\* A row is fair to the account: its total is credited up to its end or
\* last heartbeat, which storage may know of.
RowFair(c, k, r) ==
  /\ r.end \in Nat /\ r.beat \in Int /\ r.end <= c.till /\ r.beat <= c.till
  /\ Credited(c, k, r.start, r.secs, Later(r.end, r.beat))

\* An operation's total reaches to its observation or its end.
OpTill(o) == IF o.open THEN o.obs ELSE o.end
OpFair(c, o) == Credited(c, o.key, o.start, o.secs, OpTill(o)) /\ OpTill(o) <= c.till

\* Storage is, row by row and operation by operation.
StorageFair(c, st) ==
  /\ StorageOK(st) /\ c.till \in Int
  /\ \A k \in Keys : st.rows[k] # NoRow => RowFair(c, k, st.rows[k])
  /\ \A k \in Keys : st.journal[k] # NoOp => OpFair(c, st.journal[k])

\* A total that is credited is credited at a later time.
LEMMA CreditedLater ==
  ASSUME NEW c, NEW k, NEW start, NEW secs, NEW till, Credited(c, k, start, secs, till),
         NEW t \in Int, till <= t
  PROVE  Credited(c, k, start, secs, t)
BY DEF Credited

\* The larger of two totals of one session is credited when both are.
LEMMA CreditedLarger ==
  ASSUME NEW c, NEW k, NEW start, NEW x, NEW y, NEW till,
         Credited(c, k, start, x, till), Credited(c, k, start, y, till)
  PROVE  Credited(c, k, start, Later(x, y), till)
BY DEF Credited, Later

\* A row is written for its session.
LEMMA FairRow ==
  ASSUME NEW c, NEW st, StorageFair(c, st), NEW k \in Keys, NEW row \in Rows, RowFair(c, k, row),
         IF st.rows[k] = NoRow THEN row.id \notin IdIn(st) ELSE row.id = st.rows[k].id
  PROVE  StorageFair(c, PutRow(st, k, row))
<1> DEFINE t == PutRow(st, k, row)
<1>1. StorageOK(st)
  BY DEF StorageFair
<1>2. Alters(st, t, Keys, row.slot, {}) /\ t.rows[k] = row /\ \A m \in Keys \ {k} : t.rows[m] = st.rows[m]
  BY <1>1, RowWritten
<1>3. StorageOK(t) /\ t.journal = st.journal
  BY <1>2 DEF Alters, Extends, Writes
<1> HIDE DEF t
<1>4. \A m \in Keys : t.rows[m] # NoRow => RowFair(c, m, t.rows[m])
  BY <1>2 DEF StorageFair
<1>5. \A m \in Keys : t.journal[m] # NoOp => OpFair(c, t.journal[m])
  BY <1>3 DEF StorageFair
<1>6. StorageFair(c, t)
  BY <1>3, <1>4, <1>5 DEF StorageFair
<1> QED BY <1>6 DEF t

\* An answer to a write does not alter what is stored.
LEMMA FairRefused ==
  ASSUME NEW c, NEW st, StorageFair(c, st)
  PROVE  /\ StorageFair(c, Refused(st)) /\ Refused(st).rows = st.rows
         /\ Yes(st).st = st /\ No(st).st = st
<1>1. StorageOK(st) /\ Alters(st, Refused(st), Keys, 0, {}) /\ Refused(st).rows = st.rows
  BY AltersNot DEF StorageFair
<1>2. StorageOK(Refused(st)) /\ Refused(st).journal = st.journal
  BY <1>1 DEF Alters, Extends, Writes
<1> QED BY <1>1, <1>2 DEF StorageFair, Yes, No

\* UPDATE ... WHERE id = i
LEMMA FairUpdate ==
  ASSUME NEW c, NEW st, StorageFair(c, st), NEW i, NEW row,
         i \in IdIn(st) => row \in Rows /\ row.id = i /\ RowFair(c, KeyOf(st, i), row)
  PROVE  \A u \in Update(st, i, row) : StorageFair(c, u.st)
<1>0. StorageOK(st) /\ StorageFair(c, Refused(st))
  BY FairRefused DEF StorageFair
<1>1. CASE i \notin IdIn(st)
  BY <1>0, <1>1 DEF Update, No
<1>2. CASE i \in IdIn(st)
  <2> DEFINE k == KeyOf(st, i)
             t == PutRow(st, k, row)
  <2>1. k \in Keys /\ st.rows[k] # NoRow /\ st.rows[k].id = i
    BY <1>0, <1>2, RowIs
  <2>2. \A u \in Update(st, i, row) : u.st = Refused(st) \/ u.st = t
    BY <1>2 DEF Update, No, Yes, PutRow
  <2>3. row \in Rows /\ row.id = i /\ RowFair(c, k, row)
    BY <1>2
  <2> HIDE DEF k
  <2>4. StorageFair(c, t)
    BY <2>1, <2>3, FairRow
  <2> HIDE DEF t
  <2> QED BY <1>0, <2>2, <2>4
<1> QED BY <1>1, <1>2

\* The identifier i names the row of a session whose total is credited
\* then, or none.
Pays(c, st, i, secs, till) ==
  \E k \in Keys : Owns(st, i, {k}, {}) /\ Credited(c, k, c.start[k], secs, till)

\* A heartbeat writes a total that the session was credited until now.
LEMMA FairProgress ==
  ASSUME NEW c, NEW st, StorageFair(c, st), NEW i, NEW secs, Pays(c, st, i, secs, now), c.till = now
  PROVE  \A u \in Progress(st, i, secs) : StorageFair(c, u.st)
<1> DEFINE r == RowOf(st, i)
           k == KeyOf(st, i)
           row == [r EXCEPT !.secs = secs, !.beat = now]
<1>1. ASSUME i \in IdIn(st)
      PROVE  row \in Rows /\ row.id = i /\ RowFair(c, k, row)
  <2>1. k \in Keys /\ r = st.rows[k] /\ r \in Rows /\ r # NoRow /\ r.id = i
    BY <1>1, RowIs DEF StorageFair
  <2>2. Credited(c, k, c.start[k], secs, now) /\ now \in Int /\ secs \in Nat
    BY <2>1 DEF Pays, Owns, Credited, StorageFair
  <2>3. RowFair(c, k, r)
    BY <2>1 DEF StorageFair
  <2> HIDE DEF r, k
  <2>4. /\ row \in Rows /\ row.id = i /\ row.secs = secs /\ row.beat = now
        /\ row.end = r.end /\ row.start = r.start
    <3>1. r \in Rows /\ r.id = i
      BY <2>1
    <3>2. secs \in Int /\ now \in Int
      BY <2>2
    <3> QED BY <3>1, <3>2 DEF Rows
  <2>5. r.start = c.start[k] /\ r.end \in Nat /\ r.end <= now
    BY <2>3 DEF RowFair, Credited
  <2> HIDE DEF row
  <2>6. Credited(c, k, row.start, row.secs, Later(row.end, row.beat))
    <3> DEFINE till == Later(row.end, row.beat)
    <3>1. till \in Int /\ now <= till
      BY <2>2, <2>4, <2>5 DEF Later
    <3> HIDE DEF till
    <3>2. Credited(c, k, c.start[k], secs, till)
      BY <2>2, <3>1, CreditedLater
    <3> QED BY <2>4, <2>5, <3>2 DEF till
  <2> QED BY <2>2, <2>4, <2>5, <2>6 DEF RowFair
<1> HIDE DEF k, r
<1>2. Progress(st, i, secs) = Update(st, i, row)
  BY DEF Progress, r
<1> HIDE DEF row
<1> QED BY <1>1, <1>2, FairUpdate DEF k

\* A row is ended at a time by which its total is credited.
LEMMA FairEnd ==
  ASSUME NEW c, NEW st, StorageFair(c, st), NEW i, NEW secs,
         NEW end \in Nat, end <= c.till, Pays(c, st, i, secs, end)
  PROVE  \A u \in End(st, i, end, secs) : StorageFair(c, u.st)
<1> DEFINE r == RowOf(st, i)
           k == KeyOf(st, i)
           row == [r EXCEPT !.end = end, !.secs = secs]
<1>1. ASSUME i \in IdIn(st)
      PROVE  row \in Rows /\ row.id = i /\ RowFair(c, k, row)
  <2>1. k \in Keys /\ r = st.rows[k] /\ r \in Rows /\ r # NoRow /\ r.id = i
    BY <1>1, RowIs DEF StorageFair
  <2>2. Credited(c, k, c.start[k], secs, end) /\ secs \in Nat
    BY <2>1 DEF Pays, Owns, Credited, StorageFair
  <2>3. RowFair(c, k, r)
    BY <2>1 DEF StorageFair
  <2> HIDE DEF r, k
  <2>4. /\ row \in Rows /\ row.id = i /\ row.secs = secs /\ row.beat = r.beat
        /\ row.end = end /\ row.start = r.start
    <3>1. r \in Rows /\ r.id = i
      BY <2>1
    <3>2. secs \in Int /\ end \in Int
      BY <2>2
    <3> QED BY <3>1, <3>2 DEF Rows
  <2>5. r.start = c.start[k] /\ r.beat \in Int /\ r.beat <= c.till
    BY <2>3 DEF RowFair, Credited
  <2> HIDE DEF row
  <2>6. Credited(c, k, row.start, row.secs, Later(row.end, row.beat))
    <3> DEFINE till == Later(row.end, row.beat)
    <3>1. till \in Int /\ end <= till
      BY <2>2, <2>4, <2>5 DEF Later
    <3> HIDE DEF till
    <3>2. Credited(c, k, c.start[k], secs, till)
      BY <2>2, <3>1, CreditedLater
    <3> QED BY <2>4, <2>5, <3>2 DEF till
  <2> QED BY <2>2, <2>4, <2>5, <2>6 DEF RowFair
<1> HIDE DEF k, r
<1>2. End(st, i, end, secs) = Update(st, i, row)
  BY DEF End, r
<1> HIDE DEF row
<1> QED BY <1>1, <1>2, FairUpdate DEF k

-----------------------------------------------------------------------------
\* A queued entry is fair, and a session that has a row is queued as
\* ended.
EntryFair(c, e) == OpFair(c, e.op) /\ (e.id > 0 => ~e.op.open)
QueueFair(c, q) == \A i \in 1 .. Len(q) : EntryFair(c, q[i])

\* Storage whose rows and operations are old ones or fair.
LEMMA FairMerged ==
  ASSUME NEW c, NEW st, StorageFair(c, st), NEW t, StorageOK(t),
         \A k \in Keys : t.rows[k] = st.rows[k] \/ t.rows[k] = NoRow \/ RowFair(c, k, t.rows[k]),
         \A k \in Keys : t.journal[k] = st.journal[k] \/ t.journal[k] = NoOp \/ OpFair(c, t.journal[k])
  PROVE  StorageFair(c, t)
<1>1. \A k \in Keys : t.rows[k] # NoRow => RowFair(c, k, t.rows[k])
  BY DEF StorageFair
<1>2. \A k \in Keys : t.journal[k] # NoOp => OpFair(c, t.journal[k])
  BY DEF StorageFair
<1> QED BY <1>1, <1>2 DEF StorageFair

\* A move or a replacement of intervals leaves the total of the row alone.
LEMMA FairMove ==
  ASSUME NEW c, NEW st, StorageFair(c, st), NEW i, NEW sl \in Slots
  PROVE  \A u \in Move(st, i, sl) : StorageFair(c, u.st)
<1> DEFINE r == RowOf(st, i)
           k == KeyOf(st, i)
           row == [r EXCEPT !.slot = sl]
<1>1. ASSUME i \in IdIn(st)
      PROVE  row \in Rows /\ row.id = i /\ RowFair(c, k, row)
  <2>1. k \in Keys /\ r = st.rows[k] /\ r \in Rows /\ r # NoRow /\ r.id = i
    BY <1>1, RowIs DEF StorageFair
  <2>2. RowFair(c, k, r)
    BY <2>1 DEF StorageFair
  <2> HIDE DEF r, k
  <2>3. /\ row \in Rows /\ row.id = i /\ row.start = r.start /\ row.end = r.end
        /\ row.secs = r.secs /\ row.beat = r.beat
    <3>1. r \in Rows /\ r.id = i
      BY <2>1
    <3> QED BY <3>1 DEF Rows
  <2> HIDE DEF row
  <2> QED BY <2>2, <2>3 DEF RowFair
<1> HIDE DEF k, r
<1>2. Move(st, i, sl) \subseteq {No(st)} \cup Update(st, i, row)
  BY DEF Move, r
<1> HIDE DEF row
<1>3. \A u \in Update(st, i, row) : StorageFair(c, u.st)
  BY <1>1, FairUpdate DEF k
<1> QED BY <1>2, <1>3, FairRefused

\* replaceSessionIntervals() leaves the total alone.
LEMMA FairIntervals ==
  ASSUME NEW c, NEW st, StorageFair(c, st), NEW k \in Keys, NEW ivs \in Int \cup {NoIntervals}
  PROVE  \A u \in Intervals(st, k, ivs) : StorageFair(c, u.st) /\ u.ok \in BOOLEAN
<1>0. StorageFair(c, Refused(st)) /\ \A t : /\ Yes(t).st = t /\ No(t).st = t
                                            /\ Yes(t).ok \in BOOLEAN /\ No(t).ok \in BOOLEAN
  BY FairRefused DEF Yes, No
<1>1. CASE ivs = NoIntervals \/ st.rows[k] = NoRow \/ st.rows[k].secs # ivs
  <2>1. \A u \in Intervals(st, k, ivs) : u \in {Yes(st), No(st)}
    BY <1>1 DEF Intervals
  <2> QED BY <1>0, <2>1
<1>2. CASE ~(ivs = NoIntervals \/ st.rows[k] = NoRow \/ st.rows[k].secs # ivs)
  <2> DEFINE r == st.rows[k]
             row == [r EXCEPT !.ivs = ivs]
             t == PutRow(st, k, row)
  <2>1. r \in Rows /\ r # NoRow /\ RowFair(c, k, r)
    BY <1>2 DEF StorageOK, Storage, StorageFair
  <2>2. \A u \in Intervals(st, k, ivs) : u \in {No(Refused(st)), Yes(t)}
    <3>1. t = [st EXCEPT !.rows[k].ivs = ivs]
      BY DEF PutRow
    <3> QED BY <1>2, <3>1 DEF Intervals
  <2>3. st.rows[k] # NoRow /\ r.id = st.rows[k].id
    BY <1>2
  <2> HIDE DEF r
  <2>4. /\ row \in Rows /\ row.id = r.id /\ row.start = r.start /\ row.end = r.end
        /\ row.secs = r.secs /\ row.beat = r.beat
    <3>1. r \in Rows
      BY <2>1
    <3> QED BY <3>1 DEF Rows
  <2> HIDE DEF row
  <2>5. RowFair(c, k, row)
    BY <2>1, <2>4 DEF RowFair
  <2>6. StorageFair(c, t)
    BY <2>3, <2>4, <2>5, FairRow
  <2> HIDE DEF t
  <2> QED BY <1>0, <2>2, <2>6
<1> QED BY <1>1, <1>2

\* beginSession() claims nothing.
LEMMA FairBegin ==
  ASSUME NEW c, NEW st, StorageFair(c, st), NEW o,
         o.key \in Keys, o.game \in Games, o.slot \in Slots, o.start \in Nat, o.start = c.start[o.key], o.start <= c.till
  PROVE  \A b \in Begin(st, o) : StorageFair(c, b.st)
<1>0. StorageFair(c, Refused(st)) /\ StorageOK(st)
  BY FairRefused DEF StorageFair
<1>1. CASE st.rows[o.key] # NoRow
  <2>1. \A b \in Begin(st, o) : b.st \in {st, Refused(st)}
    BY <1>1 DEF Begin
  <2> QED BY <1>0, <2>1
<1>2. CASE st.rows[o.key] = NoRow
  <2> DEFINE k == o.key
             row == NewRow(st, o)
             t == PutRow(st, k, row)
  <2>1. row \in Rows /\ row.id \notin IdIn(st)
    BY <1>0, NewRowIs, NextIdIsNew
  <2>2. row.start = o.start /\ row.end = 0 /\ row.secs = 0 /\ row.beat = o.start
    BY DEF NewRow
  <2>3. \A b \in Begin(st, o) : b.st \in {t, Refused(st)}
    BY <1>2 DEF Begin, PutRow
  <2> HIDE DEF row
  <2>4. Later(row.end, row.beat) = o.start
    BY <2>2 DEF Later
  <2>5. RowFair(c, k, row)
    BY <2>2, <2>4 DEF RowFair, Credited, StorageFair
  <2>6. StorageFair(c, t)
    BY <1>2, <2>1, <2>5, FairRow
  <2> HIDE DEF t
  <2> QED BY <1>0, <2>3, <2>6
<1> QED BY <1>1, <1>2

\* What the journal takes is an operation of its session.
LEMMA FairJournaled ==
  ASSUME NEW c, NEW st, StorageFair(c, st), NEW o \in Operations, OpFair(c, o)
  PROVE  \A t \in Journaled(st, o) : StorageFair(c, t)
<1> SUFFICES ASSUME NEW t \in Journaled(st, o) PROVE StorageFair(c, t)
  OBVIOUS
<1>1. o.key \in Keys /\ st \in Storage /\ StorageOK(st)
  BY DEF Operations, StorageFair, StorageOK
<1>2. StorageOK(t) /\ t.rows = st.rows
  <2>1. o.key \in Keys
    BY <1>1
  <2>2. Extends(st, t, Keys, o.slot, {}) /\ t.rows = st.rows
    BY <1>1, JournaledOn
  <2> QED BY <2>2 DEF Extends, Writes
<1>3. \A l \in Keys : t.journal[l] = st.journal[l] \/ (t.journal[l] = o /\ l = o.key)
  <2> DEFINE with == [st EXCEPT !.journal[o.key] = o]
             lost(u) == [Refused(u) EXCEPT !.jok = FALSE]
  <2>1. t \in {st, with, lost(st), lost(with)}
    BY DEF Journaled
  <2>2. with \in Storage /\ with.journal = [st.journal EXCEPT ![o.key] = o]
    BY <1>1 DEF Storage
  <2> HIDE DEF with
  <2>3. \A u \in Storage : lost(u).journal = u.journal
    BY DEF Storage, Refused
  <2> HIDE DEF lost
  <2>4. \A l \in Keys : with.journal[l] = st.journal[l] \/ (with.journal[l] = o /\ l = o.key)
    BY <1>1, <2>2 DEF Storage
  <2> QED BY <1>1, <2>1, <2>2, <2>3, <2>4
<1> QED BY <1>2, <1>3, FairMerged

\* Reading a game's clear epoch changes nothing.
LEMMA FairEpochs ==
  ASSUME NEW c, NEW st, StorageFair(c, st), NEW g \in Games, epoch \in [Games -> Nat]
  PROVE  \A e \in Epochs(st, g) : StorageFair(c, e.st) /\ e.epoch \in Nat
<1>1. \A e \in Epochs(st, g) : e.st \in {st, Refused(st)} /\ e.epoch \in Nat
  BY DEF Epochs
<1> QED BY <1>1, FairRefused

\* The close of a session that is queued and journaled, and a checkpoint.
LEMMA FairQueuePending ==
  ASSUME NEW c, NEW st, StorageFair(c, st), NEW id \in Nat, NEW s, Billed(s), NEW end,
         Credited(c, s.key, s.start, s.secs, end), end <= c.till,
         QueueFair(c, queue), epoch \in [Games -> Nat], queue \in Seq(Entries)
  PROVE  \A x \in QueuePending(st, id, s, end) : StorageFair(c, x.st) /\ QueueFair(c, x.queue)
<1> SUFFICES ASSUME NEW x \in QueuePending(st, id, s, end)
             PROVE  StorageFair(c, x.st) /\ QueueFair(c, x.queue)
  OBVIOUS
<1> DEFINE o(e) == Operation(s, end, 0, FALSE, e.epoch)
           q(e) == Append(queue, [id |-> id, op |-> o(e)])
           pends(e) == {[st |-> t, queue |-> Trimmed(q(e)), tried |-> now] : t \in Journaled(e.st, o(e))}
<1>0. PICK e \in Epochs(st, s.game) : x \in pends(e)
  <2>1. QueuePending(st, id, s, end) = UNION {pends(e) : e \in Epochs(st, s.game)}
    BY DEF QueuePending
  <2> HIDE DEF pends
  <2> QED BY <2>1
<1>1. PICK t \in Journaled(e.st, o(e)) : x = [st |-> t, queue |-> Trimmed(q(e)), tried |-> now]
  BY <1>0
<1>2. StorageFair(c, e.st) /\ e.epoch \in Nat
  BY FairEpochs DEF Billed
<1>3. end \in Int
  BY DEF Credited
<1>4. /\ o(e) \in Operations /\ o(e).key = s.key /\ o(e).start = s.start /\ o(e).secs = s.secs
      /\ ~o(e).open /\ o(e).end = end
  BY <1>2, <1>3 DEF Operation, Operations, Billed
<1> HIDE DEF o
<1>5. OpFair(c, o(e))
  BY <1>4 DEF OpFair, OpTill
<1>6. StorageFair(c, t)
  BY <1>1, <1>2, <1>4, <1>5, FairJournaled
<1>7. QueueFair(c, Trimmed(q(e)))
  <2> DEFINE y == [id |-> id, op |-> o(e)]
             r == Trimmed(q(e))
  <2>1. y \in Entries /\ EntryFair(c, y)
    BY <1>4, <1>5 DEF Entries, EntryFair
  <2> HIDE DEF y
  <2>2. /\ q(e) \in Seq(Entries) /\ Len(q(e)) = Len(queue) + 1 /\ Len(queue) \in Nat
        /\ \A j \in 1 .. Len(queue) : q(e)[j] = queue[j]
        /\ q(e)[Len(queue) + 1] = y
    BY <2>1, AppendProperties, LenProperties DEF y
  <2> HIDE DEF q
  <2>3. r \in Seq(Entries) /\ \A j \in 1 .. Len(r) : \E i \in 1 .. Len(q(e)) : r[j] = q(e)[i]
    BY <2>2, TrimmedOn
  <2> HIDE DEF r
  <2>4. \A i \in 1 .. Len(q(e)) : EntryFair(c, q(e)[i])
    <3>1. \A i \in 1 .. Len(q(e)) : i = Len(queue) + 1 \/ i \in 1 .. Len(queue)
      BY <2>2
    <3> QED BY <2>1, <2>2, <3>1 DEF QueueFair
  <2>5. QueueFair(c, r)
    BY <2>3, <2>4 DEF QueueFair
  <2> QED BY <2>5 DEF r
<1> QED BY <1>1, <1>6, <1>7

\* A checkpoint carries what its session was credited until now.
LEMMA FairCheckpoint ==
  ASSUME NEW c, NEW st, StorageFair(c, st), NEW s, Billed(s),
         Credited(c, s.key, s.start, s.secs, now), now <= c.till, epoch \in [Games -> Nat]
  PROVE  \A t \in Checkpoint(st, s) : StorageFair(c, t)
<1> SUFFICES ASSUME NEW t \in Checkpoint(st, s) PROVE StorageFair(c, t)
  OBVIOUS
<1> DEFINE o(e) == Operation(s, 0, now, TRUE, e.epoch)
<1>1. PICK e \in Epochs(st, s.game) : t \in Journaled(e.st, o(e))
  BY DEF Checkpoint
<1>2. StorageFair(c, e.st) /\ e.epoch \in Nat /\ now \in Int
  BY FairEpochs DEF Billed, Credited
<1>3. /\ o(e) \in Operations /\ o(e).key = s.key /\ o(e).start = s.start /\ o(e).secs = s.secs
      /\ o(e).open /\ o(e).obs = now
  BY <1>2 DEF Operation, Operations, Billed
<1> HIDE DEF o
<1>4. OpFair(c, o(e))
  BY <1>3 DEF OpFair, OpTill
<1> QED BY <1>1, <1>2, <1>3, <1>4, FairJournaled

-----------------------------------------------------------------------------
\* An account that grew.
Grown(c, d) ==
  /\ d.start = c.start /\ c.play \subseteq d.play
  /\ c.till \in Int /\ d.till \in Int /\ c.till <= d.till

\* What is credited by an account is by one that grew from it.
LEMMA MoreCredited ==
  ASSUME NEW c, NEW d, Grown(c, d), NEW k, NEW start, NEW secs, NEW till, Credited(c, k, start, secs, till)
  PROVE  Credited(d, k, start, secs, till)
BY DEF Grown, Credited

\* So an operation that was fair is.
LEMMA MoreOp ==
  ASSUME NEW c, NEW d, Grown(c, d), NEW o, OpFair(c, o)
  PROVE  OpFair(d, o)
<1>1. Credited(c, o.key, o.start, o.secs, OpTill(o)) /\ OpTill(o) <= c.till
  BY DEF OpFair
<1>2. Credited(d, o.key, o.start, o.secs, OpTill(o))
  BY <1>1, MoreCredited
<1>3. OpTill(o) <= d.till
  BY <1>1 DEF Credited, Grown
<1> QED BY <1>2, <1>3 DEF OpFair

\* So a row that was fair is.
LEMMA MoreRow ==
  ASSUME NEW c, NEW d, Grown(c, d), NEW k, NEW r, RowFair(c, k, r)
  PROVE  RowFair(d, k, r)
<1>1. Credited(d, k, r.start, r.secs, Later(r.end, r.beat))
  BY MoreCredited DEF RowFair
<1>2. r.end \in Nat /\ r.beat \in Int /\ r.end <= d.till /\ r.beat <= d.till
  BY DEF RowFair, Grown
<1> QED BY <1>1, <1>2 DEF RowFair

\* So storage is.
LEMMA MoreStorage ==
  ASSUME NEW c, NEW d, Grown(c, d), NEW st, StorageFair(c, st)
  PROVE  StorageFair(d, st)
<1>1. \A k \in Keys : st.rows[k] # NoRow => RowFair(d, k, st.rows[k])
  BY MoreRow DEF StorageFair
<1>2. \A k \in Keys : st.journal[k] # NoOp => OpFair(d, st.journal[k])
  BY MoreOp DEF StorageFair
<1> QED BY <1>1, <1>2 DEF StorageFair, Grown

\* So the queue is.
LEMMA MoreQueue ==
  ASSUME NEW c, NEW d, Grown(c, d), NEW q, QueueFair(c, q)
  PROVE  QueueFair(d, q)
<1>1. \A i \in 1 .. Len(q) : OpFair(d, q[i].op)
  BY MoreOp DEF QueueFair, EntryFair
<1> QED BY <1>1 DEF QueueFair, EntryFair

\* A session is credited up to the last poll that looked at it.
SessionFair(c, s) ==
  /\ Credited(c, s.key, s.start, s.secs, s.mark) /\ s.mark <= now /\ now - 1 <= s.mark
  /\ s.titled => ~s.slot[2]

\* So a session is.
LEMMA MoreSession ==
  ASSUME NEW c, NEW d, Grown(c, d), NEW s, SessionFair(c, s)
  PROVE  SessionFair(d, s)
BY MoreCredited DEF SessionFair

\* The account when a session is billed for the polls since its mark.
Billing(c, s) ==
  [start |-> c.start, till |-> c.till,
   play |-> c.play \cup (IF s.mark = now THEN {} ELSE {<<s.key, s.secs + 1>>})]

\* Billing adds one second at most to an account.
LEMMA BillingGrows ==
  ASSUME NEW c, NEW s, c.till \in Int
  PROVE  /\ Grown(c, Billing(c, s)) /\ Billing(c, s).till = c.till
         /\ s.mark # now => Billing(c, s).play = c.play \cup {<<s.key, s.secs + 1>>}
         /\ s.mark = now => Billing(c, s).play = c.play
BY DEF Grown, Billing

\* recordObservedSpan() bills a session up to now: the polls since its
\* mark are one second, the next of its total.
LEMMA FairObserved ==
  ASSUME NEW c, c.till \in Int, NEW s \in Sessions, SessionFair(c, s), now \in Int
  PROVE  SessionFair(Billing(c, s), Observed(s)) /\ Observed(s).mark = now
<1> DEFINE billed == IF s.paused THEN 0 ELSE now - s.mark
           d == Billing(c, s)
<1>0. Grown(c, d) /\ (s.mark # now => d.play = c.play \cup {<<s.key, s.secs + 1>>})
  BY BillingGrows
<1> HIDE DEF d
<1>1. /\ s.mark \in Int /\ Credited(c, s.key, s.start, s.secs, s.mark) /\ s.mark <= now /\ now - 1 <= s.mark
      /\ (s.titled => ~s.slot[2])
  BY DEF SessionFair, Sessions
<1>2. CASE now = s.mark
  <2>1. Observed(s) = s
    BY <1>2 DEF Observed
  <2> QED BY <1>0, <1>2, <2>1, MoreSession DEF d
<1>3. CASE now # s.mark
  <2>1. s.mark = now - 1 /\ billed \in {0, 1}
    BY <1>1, <1>3
  <2> HIDE DEF billed
  <2> DEFINE u == [s EXCEPT !.secs = @ + billed, !.mark = now,
                            !.ivs = IF @ = NoIntervals THEN billed ELSE @ + billed]
  <2>2. Observed(s) = u
    BY <1>3 DEF Observed, billed
  <2>3. /\ u.key = s.key /\ u.start = s.start /\ u.secs = s.secs + billed /\ u.mark = now
        /\ u.titled = s.titled /\ u.slot = s.slot
    BY DEF Sessions
  <2> HIDE DEF u
  <2>4. Credited(d, s.key, s.start, s.secs, s.mark)
    BY <1>0, <1>1, MoreCredited
  <2>5. <<s.key, s.secs + 1>> \in d.play
    BY <1>0, <1>3
  <2>6. Credited(d, s.key, s.start, s.secs + billed, now)
    BY <2>1, <2>4, <2>5 DEF Credited
  <2> QED BY <1>1, <2>2, <2>3, <2>6 DEF SessionFair, d
<1> QED BY <1>2, <1>3

\* A session that is billed for the same polls.
Held(s, u) == u.key = s.key /\ u.secs = s.secs /\ u.mark = s.mark

\* A flush writes what its session was credited.
LEMMA FairFlush ==
  ASSUME NEW c, NEW st, StorageFair(c, st), NEW s \in Sessions, SessionFair(c, s), Owns(st, s.id, {s.key}, {}),
         epoch \in [Games -> Nat], now \in Int, c.till = now
  PROVE  \A x \in Flush(st, s) : StorageFair(c, x.st) /\ SessionFair(c, x.s) /\ Held(s, x.s)
<1> SUFFICES ASSUME NEW x \in Flush(st, s)
             PROVE  StorageFair(c, x.st) /\ SessionFair(c, x.s) /\ Held(s, x.s)
  OBVIOUS
<1> DEFINE moves == IF s.id > 0 /\ s.moving THEN Move(st, s.id, s.slot) ELSE {Yes(st)}
           writes(m) == IF s.id > 0 THEN Progress(m.st, s.id, s.secs) ELSE {No(m.st)}
           ends(w) == IF w.ok THEN {i.st : i \in Intervals(w.st, s.key, s.ivs)} ELSE Checkpoint(w.st, s)
           after(m) == UNION {ends(w) : w \in writes(m)}
           tracks(m) == {Tracked([s EXCEPT !.moving = ~m.ok, !.flushed = now], t) : t \in after(m)}
<1>1. Flush(st, s) = UNION {tracks(m) : m \in moves}
  BY DEF Flush
<1>2. PICK m \in moves : x \in tracks(m)
  <2> HIDE DEF tracks, moves
  <2> QED BY <1>1
<1>3. PICK t \in after(m) : x = Tracked([s EXCEPT !.moving = ~m.ok, !.flushed = now], t)
  <2> HIDE DEF after
  <2> QED BY <1>2
<1>4. PICK w \in writes(m) : t \in ends(w)
  <2> HIDE DEF writes, ends
  <2> QED BY <1>3
<1>5. /\ Billed(s) /\ s.id \in Nat /\ s.key \in Keys /\ s.slot \in Slots /\ StorageOK(st)
      /\ s.ivs \in Int \cup {NoIntervals}
  BY SessionIs DEF Billed, StorageFair
<1>6. StorageFair(c, m.st) /\ Owns(m.st, s.id, {s.key}, {})
  <2>1. \A u \in Move(st, s.id, s.slot) : StorageFair(c, u.st)
    BY <1>5, FairMove
  <2>2. \A u \in Move(st, s.id, s.slot) : Alters(st, u.st, {s.key}, s.slot, {})
    BY <1>5, MoveOn
  <2>3. \A u \in Move(st, s.id, s.slot) : Owns(u.st, s.id, {s.key}, {})
    BY <2>2, OwnsKept DEF Alters
  <2>4. Yes(st).st = st
    BY DEF Yes
  <2> QED BY <2>1, <2>3, <2>4
<1>7. Credited(c, s.key, s.start, s.secs, now) /\ Credited(c, s.key, c.start[s.key], s.secs, now)
  <2>1. Credited(c, s.key, s.start, s.secs, s.mark) /\ s.mark <= now
    BY DEF SessionFair
  <2>2. Credited(c, s.key, s.start, s.secs, now)
    BY <2>1, CreditedLater
  <2> QED BY <2>2 DEF Credited
<1>8. StorageFair(c, w.st)
  <2>1. Pays(c, m.st, s.id, s.secs, now)
    BY <1>5, <1>6, <1>7 DEF Pays
  <2>2. \A u \in Progress(m.st, s.id, s.secs) : StorageFair(c, u.st)
    BY <1>6, <2>1, FairProgress
  <2>3. No(m.st).st = m.st
    BY DEF No
  <2> QED BY <1>6, <2>2, <2>3
<1>9. StorageFair(c, t)
  <2>1. \A i \in Intervals(w.st, s.key, s.ivs) : StorageFair(c, i.st)
    BY <1>5, <1>8, FairIntervals
  <2>2. \A u \in Checkpoint(w.st, s) : StorageFair(c, u)
    BY <1>5, <1>7, <1>8, FairCheckpoint
  <2> QED BY <1>4, <2>1, <2>2
<1> DEFINE y == [s EXCEPT !.moving = ~m.ok, !.flushed = now]
<1>10. y.key = s.key /\ y.start = s.start /\ y.secs = s.secs /\ y.mark = s.mark /\ y.titled = s.titled /\ y.slot = s.slot
  BY DEF Sessions
<1>11. x.st = t /\ x.s = y
  BY <1>3 DEF Tracked
<1> HIDE DEF y
<1>12. SessionFair(c, y)
  BY <1>10 DEF SessionFair
<1> QED BY <1>9, <1>10, <1>11, <1>12 DEF Held

\* A retried insert changes neither the session's total nor its mark.
LEMMA FairRetryInsert ==
  ASSUME NEW c, NEW st, StorageFair(c, st), NEW s \in Sessions, SessionFair(c, s), Owns(st, s.id, {s.key}, {}),
         epoch \in [Games -> Nat], now \in Int, c.till = now
  PROVE  \A x \in RetryInsert(st, s) : StorageFair(c, x.st) /\ SessionFair(c, x.s) /\ Held(s, x.s)
<1> SUFFICES ASSUME NEW x \in RetryInsert(st, s)
             PROVE  StorageFair(c, x.st) /\ SessionFair(c, x.s) /\ Held(s, x.s)
  OBVIOUS
<1>0. Held(s, s) /\ StorageOK(st)
  BY DEF Held, StorageFair
<1>1. CASE s.id > 0
  BY <1>0, <1>1 DEF RetryInsert, Tracked
<1>2. CASE ~(s.id > 0)
  <2> DEFINE outcome(b) == IF b.id = 0 THEN {Tracked(s, b.st)} ELSE Flush(b.st, [s EXCEPT !.id = b.id])
  <2>1. RetryInsert(st, s) = UNION {outcome(b) : b \in Begin(st, s)}
    BY <1>2 DEF RetryInsert
  <2>2. PICK b \in Begin(st, s) : x \in outcome(b)
    <3> HIDE DEF outcome
    <3> QED BY <2>1
  <2>3. /\ StorageFair(c, b.st) /\ b.id \in Nat
        /\ b.id # 0 => IsRow(b.st, s.key, b.id)
    <3>1. s.key \in Keys /\ s.game \in Games /\ s.start \in Int /\ s.slot \in Slots
      BY SessionIs DEF Billed
    <3>2. Begins(st, b, s, {s.key}, {})
      BY <1>0, <3>1, BeginOn
    <3>3. s.start \in Nat /\ s.start = c.start[s.key] /\ s.start <= c.till
      BY DEF SessionFair, Credited
    <3>4. StorageFair(c, b.st)
      BY <3>1, <3>3, FairBegin
    <3> QED BY <3>2, <3>4 DEF IsRow, Begins
  <2>4. CASE b.id = 0
    <3>1. x = Tracked(s, b.st)
      BY <2>2, <2>4
    <3> QED BY <1>0, <2>3, <3>1 DEF Tracked
  <2>5. CASE b.id # 0
    <3> DEFINE u == [s EXCEPT !.id = b.id]
    <3>1. /\ u \in Sessions /\ u.id = b.id /\ u.key = s.key /\ u.secs = s.secs /\ u.mark = s.mark
          /\ u.start = s.start /\ u.slot = s.slot /\ u.titled = s.titled
      BY <2>3 DEF Sessions
    <3>2. x \in Flush(b.st, u)
      BY <2>2, <2>5
    <3> HIDE DEF u
    <3>3. SessionFair(c, u)
      BY <3>1 DEF SessionFair
    <3>4. Owns(b.st, u.id, {u.key}, {})
      BY <2>3, <2>5, <3>1, SessionIs DEF Owns, IsRow, StorageFair, StorageOK
    <3>5. StorageFair(c, x.st) /\ SessionFair(c, x.s) /\ Held(u, x.s)
      BY <2>3, <3>1, <3>2, <3>3, <3>4, FairFlush
    <3> QED BY <3>1, <3>5 DEF Held
  <2> QED BY <2>4, <2>5
<1> QED BY <1>1, <1>2

\* A session that goes on is billed, and only it.
LEMMA FairContinue ==
  ASSUME NEW c, NEW st, StorageFair(c, st), NEW s \in Sessions, SessionFair(c, s), Owns(st, s.id, {s.key}, {}),
         epoch \in [Games -> Nat], now \in Int, c.till = now, NEW paused \in BOOLEAN
  PROVE  \A x \in Continue(st, s, paused) :
           StorageFair(Billing(c, s), x.st) /\ SessionFair(Billing(c, s), x.s) /\ x.s.mark = now
<1> DEFINE d == Billing(c, s)
<1> SUFFICES ASSUME NEW x \in Continue(st, s, paused)
             PROVE  StorageFair(d, x.st) /\ SessionFair(d, x.s) /\ x.s.mark = now
  OBVIOUS
<1> DEFINE o(r) == Observed([r.s EXCEPT !.paused = paused])
           goes(r) == IF now - o(r).flushed >= FlushEvery THEN Flush(r.st, o(r)) ELSE {Tracked(o(r), r.st)}
<1>1. Continue(st, s, paused) = UNION {goes(r) : r \in RetryInsert(st, s)}
  BY DEF Continue
<1>2. PICK r \in RetryInsert(st, s) : x \in goes(r)
  <2> HIDE DEF goes
  <2> QED BY <1>1
<1>3. StorageFair(c, r.st) /\ SessionFair(c, r.s) /\ Held(s, r.s)
  BY FairRetryInsert
<1>4. Same(s, r.s) /\ Owns(r.st, r.s.id, {s.key}, {})
  <2> DEFINE K == {s.key}
             I == {}
  <2>1. StorageOK(st) /\ s.key \in K /\ Owns(st, s.id, K, I)
    BY DEF StorageFair
  <2> HIDE DEF K, I
  <2>2. \A c2 \in RetryInsert(st, s) : Same(s, c2.s) /\ Owns(c2.st, c2.s.id, K, I)
    BY <2>1, RetryInsertOn
  <2>3. Same(s, r.s) /\ Owns(r.st, r.s.id, K, I)
    BY <2>2
  <2> QED BY <2>3 DEF K, I
<1>5. Grown(c, d) /\ d.till = now
  BY BillingGrows
<1>6. /\ SessionFair(d, o(r)) /\ o(r).mark = now
      /\ o(r) \in Sessions /\ o(r).key = s.key /\ o(r).id = r.s.id
  <2> DEFINE u == [r.s EXCEPT !.paused = paused]
  <2>1. /\ u \in Sessions /\ u.key = s.key /\ u.secs = s.secs /\ u.mark = s.mark /\ u.id = r.s.id
        /\ u.start = r.s.start /\ u.slot = r.s.slot /\ u.titled = r.s.titled
    BY <1>3, <1>4 DEF Same, Held, Sessions
  <2>2. o(r) = Observed(u)
    OBVIOUS
  <2> HIDE DEF u, o
  <2>3. SessionFair(c, u)
    <3>1. r.s.key = u.key /\ r.s.secs = u.secs /\ r.s.mark = u.mark
      BY <1>3, <2>1 DEF Held
    <3> QED BY <1>3, <2>1, <3>1 DEF SessionFair
  <2>4. Billing(c, u) = d
    BY <2>1 DEF Billing
  <2>5. SessionFair(Billing(c, u), Observed(u)) /\ Observed(u).mark = now
    <3>1. c.till \in Int
      OBVIOUS
    <3> QED BY <2>1, <2>3, <3>1, FairObserved
  <2>6. Same(u, Observed(u)) /\ Observed(u).id = u.id
    BY <2>1, ObservedOn
  <2> HIDE DEF d
  <2> QED BY <2>1, <2>2, <2>4, <2>5, <2>6 DEF Same
<1>7. StorageFair(d, r.st)
  BY <1>3, <1>5, MoreStorage
<1> HIDE DEF d, o
<1>8. CASE x = Tracked(o(r), r.st)
  BY <1>6, <1>7, <1>8 DEF Tracked
<1>9. CASE x \in Flush(r.st, o(r))
  <2>1. Owns(r.st, o(r).id, {o(r).key}, {})
    BY <1>4, <1>6
  <2>2. StorageFair(d, x.st) /\ SessionFair(d, x.s) /\ Held(o(r), x.s)
    BY <1>5, <1>6, <1>7, <1>9, <2>1, FairFlush
  <2> QED BY <1>6, <2>2 DEF Held
<1> QED BY <1>2, <1>8, <1>9

\* So is one that ends.
LEMMA FairClose ==
  ASSUME NEW c, NEW st, StorageFair(c, st), NEW s \in Sessions, SessionFair(c, s), Owns(st, s.id, {s.key}, {}),
         epoch \in [Games -> Nat], now \in Nat, c.till = now, QueueFair(c, queue), queue \in Seq(Entries)
  PROVE  \A x \in Close(st, s) : StorageFair(Billing(c, s), x.st) /\ QueueFair(Billing(c, s), x.queue)
<1> DEFINE d == Billing(c, s)
<1> SUFFICES ASSUME NEW x \in Close(st, s)
             PROVE  StorageFair(d, x.st) /\ QueueFair(d, x.queue)
  OBVIOUS
<1> DEFINE o == Observed(s)
<1>1. /\ SessionFair(d, o) /\ o.mark = now /\ Grown(c, d) /\ d.till = now
      /\ o.key = s.key /\ s.key \in Keys /\ Billed(o) /\ o.ivs \in Int \cup {NoIntervals} /\ o.id = s.id /\ s.id \in Nat
  <2>1. SessionFair(d, o) /\ o.mark = now
    BY FairObserved
  <2>2. Same(s, o) /\ o.id = s.id
    BY ObservedOn
  <2>3. Grown(c, d) /\ d.till = now
    BY BillingGrows
  <2> HIDE DEF o, d
  <2> QED BY <2>1, <2>2, <2>3, SessionIs DEF Same, Billed
<1>2. StorageFair(d, st) /\ QueueFair(d, queue)
  BY <1>1, MoreStorage, MoreQueue
<1> HIDE DEF o, d
<1>3. /\ Credited(d, o.key, o.start, o.secs, now) /\ Credited(d, s.key, d.start[s.key], o.secs, now)
      /\ now <= d.till
  BY <1>1 DEF SessionFair, Credited
<1> DEFINE ended(e) == IF e.ok THEN Intervals(e.st, o.key, o.ivs) ELSE {No(e.st)}
           ends == IF s.id > 0 THEN UNION {ended(e) : e \in End(st, s.id, now, o.secs)} ELSE {No(st)}
           left1(e) == IF e.ok THEN {[st |-> e.st, queue |-> queue, tried |-> tried]}
                       ELSE QueuePending(e.st, s.id, o, now)
<1>4. Close(st, s) = UNION {left1(e) : e \in ends}
  BY DEF Close, o
<1>5. PICK e \in ends : x \in left1(e)
  <2> HIDE DEF ends, left1
  <2> QED BY <1>4
<1>6. \A t : No(t).st = t
  BY DEF No
<1>7. StorageFair(d, e.st)
  <2>1. ASSUME NEW f \in End(st, s.id, now, o.secs), e \in ended(f)
        PROVE  StorageFair(d, e.st)
    <3>1. Pays(d, st, s.id, o.secs, now)
      BY <1>1, <1>3 DEF Pays
    <3>2. StorageFair(d, f.st)
      BY <1>1, <1>2, <3>1, FairEnd
    <3>3. \A u \in Intervals(f.st, o.key, o.ivs) : StorageFair(d, u.st)
      BY <1>1, <3>2, FairIntervals
    <3> QED BY <1>6, <2>1, <3>2, <3>3
  <2>2. e = No(st) \/ \E f \in End(st, s.id, now, o.secs) : e \in ended(f)
    <3> HIDE DEF ended
    <3> QED BY <1>5
  <2> HIDE DEF ended
  <2> QED BY <1>2, <1>6, <2>1, <2>2
<1>8. \A y \in QueuePending(e.st, s.id, o, now) : StorageFair(d, y.st) /\ QueueFair(d, y.queue)
  BY <1>1, <1>2, <1>3, <1>7, FairQueuePending
<1> HIDE DEF ends
<1> QED BY <1>2, <1>5, <1>7, <1>8

-----------------------------------------------------------------------------
\* A row that is replayed, then its intervals.
LEMMA FairWithIntervals ==
  ASSUME NEW c, NEW st, StorageFair(c, st), NEW k \in Keys, NEW ivs \in Int \cup {NoIntervals}
  PROVE  \A r \in WithIntervals(st, k, ivs) : StorageFair(c, r.st)
<1>1. \A u \in Intervals(st, k, ivs) : StorageFair(c, u.st)
  BY FairIntervals
<1> QED BY <1>1 DEF WithIntervals, Result

\* A row is written by a replay, and its intervals after it.
LEMMA FairRowReplayed ==
  ASSUME NEW c, NEW st, StorageFair(c, st), NEW k \in Keys, NEW row \in Rows, RowFair(c, k, row),
         IF st.rows[k] = NoRow THEN row.id \notin IdIn(st) ELSE row.id = st.rows[k].id,
         NEW ivs \in Int \cup {NoIntervals}
  PROVE  \A r \in WithIntervals(PutRow(st, k, row), k, ivs) : StorageFair(c, r.st)
<1>1. StorageFair(c, PutRow(st, k, row))
  BY FairRow
<1> QED BY <1>1, FairWithIntervals

\* A replay that writes nothing.
LEMMA FairNotReplayed ==
  ASSUME NEW c, NEW st, StorageFair(c, st)
  PROVE  /\ \A r \in Failed(st) : StorageFair(c, r.st)
         /\ \A x : StorageFair(c, Result(x, st).st)
<1>1. StorageFair(c, Refused(st))
  BY FairRefused
<1> QED BY <1>1 DEF Failed, Result

\* A close is replayed: the row ends no earlier than its play.
LEMMA FairReplayClosed ==
  ASSUME NEW c, NEW st, StorageFair(c, st), NEW o \in Operations, OpFair(c, o), ~o.open
  PROVE  \A r \in ReplayClosed(st, o) : StorageFair(c, r.st)
<1> DEFINE k == o.key
           end == Later(o.end, o.start)
<1>0. /\ k \in Keys /\ o.game \in Games /\ o.start \in Int /\ o.slot \in Slots
      /\ o.secs \in Int /\ o.ivs \in Int \cup {NoIntervals} /\ StorageOK(st)
  BY DEF Operations, StorageFair
<1>1. /\ Credited(c, k, c.start[k], o.secs, end) /\ end \in Nat /\ end <= c.till /\ end \in Int
      /\ o.start = c.start[k]
  <2>1. /\ Credited(c, k, o.start, o.secs, o.end) /\ o.end <= c.till
    BY DEF OpFair, OpTill
  <2>2. end = o.end /\ o.end \in Nat
    BY <2>1 DEF Credited, Later
  <2> HIDE DEF end
  <2> QED BY <2>1, <2>2 DEF Credited
<1> HIDE DEF k, end
<1> DEFINE ended == [NewRow(st, o) EXCEPT !.end = end, !.beat = end, !.secs = o.secs]
           row == [st.rows[k] EXCEPT !.end = end, !.secs = o.secs]
<1>2. st.rows[k] = NoRow => ended \in Rows /\ ended.id \notin IdIn(st) /\ RowFair(c, k, ended)
  <2> DEFINE new == NewRow(st, o)
  <2>1. new \in Rows /\ new.id \notin IdIn(st)
    BY <1>0, NewRowIs, NextIdIsNew
  <2>2. new.start = o.start
    BY DEF NewRow
  <2> HIDE DEF new
  <2> DEFINE e == [new EXCEPT !.end = end, !.beat = end, !.secs = o.secs]
  <2>3. /\ e \in Rows /\ e.id = new.id /\ e.start = new.start /\ e.end = end /\ e.beat = end
        /\ e.secs = o.secs
    <3>1. new \in Rows
      BY <2>1
    <3>2. end \in Int /\ o.secs \in Int
      BY <1>0, <1>1
    <3> QED BY <3>1, <3>2 DEF Rows
  <2> HIDE DEF e
  <2>4. Later(e.end, e.beat) = end
    BY <1>1, <2>3 DEF Later
  <2>5. RowFair(c, k, e)
    BY <1>1, <2>2, <2>3, <2>4 DEF RowFair
  <2> QED BY <2>1, <2>3, <2>5 DEF e, new
<1>3. st.rows[k] # NoRow => row \in Rows /\ row.id = st.rows[k].id /\ RowFair(c, k, row)
  <2> SUFFICES ASSUME st.rows[k] # NoRow
               PROVE  row \in Rows /\ row.id = st.rows[k].id /\ RowFair(c, k, row)
    OBVIOUS
  <2> DEFINE r == st.rows[k]
  <2>1. r \in Rows /\ RowFair(c, k, r)
    BY <1>0 DEF StorageOK, Storage, StorageFair
  <2> HIDE DEF r
  <2> DEFINE e == [r EXCEPT !.end = end, !.secs = o.secs]
  <2>3. /\ e \in Rows /\ e.id = r.id /\ e.start = r.start /\ e.end = end /\ e.beat = r.beat
        /\ e.secs = o.secs
    <3>1. r \in Rows
      BY <2>1
    <3>2. end \in Int /\ o.secs \in Int
      BY <1>0, <1>1
    <3> QED BY <3>1, <3>2 DEF Rows
  <2> HIDE DEF e
  <2>4. r.beat \in Int /\ r.beat <= c.till /\ r.start = c.start[k]
    BY <2>1 DEF RowFair, Credited
  <2> DEFINE till == Later(e.end, e.beat)
  <2>5. till \in Int /\ end <= till
    BY <1>1, <2>3, <2>4 DEF Later
  <2> HIDE DEF till
  <2>6. Credited(c, k, c.start[k], o.secs, till)
    BY <1>1, <2>5, CreditedLater
  <2>7. RowFair(c, k, e)
    BY <1>1, <2>3, <2>4, <2>6 DEF RowFair, till
  <2> QED BY <2>3, <2>7 DEF e, r
<1> HIDE DEF ended, row
<1> DEFINE good(r) == StorageFair(c, r.st)
<1>4. ASSUME NEW r \in ReplayClosed(st, o)
      PROVE  \/ r \in Failed(st) \/ \E x : r = Result(x, st)
             \/ st.rows[k] = NoRow /\ r \in WithIntervals(PutRow(st, k, ended), k, o.ivs)
             \/ st.rows[k] # NoRow /\ r \in WithIntervals(PutRow(st, k, row), k, o.ivs)
             \/ r \in WithIntervals(st, k, o.ivs)
  BY DEF ReplayClosed, Open, k, end, ended, row
<1>5. \A r \in WithIntervals(st, k, o.ivs) : StorageFair(c, r.st)
  BY <1>0, FairWithIntervals
<1>6. st.rows[k] = NoRow => \A r \in WithIntervals(PutRow(st, k, ended), k, o.ivs) : StorageFair(c, r.st)
  BY <1>0, <1>2, FairRowReplayed
<1>7. st.rows[k] # NoRow => \A r \in WithIntervals(PutRow(st, k, row), k, o.ivs) : StorageFair(c, r.st)
  BY <1>0, <1>3, FairRowReplayed
<1> QED BY <1>4, <1>5, <1>6, <1>7, FairNotReplayed

\* A checkpoint is replayed: the row takes its total and its time, and is
\* closed then, when it is.
LEMMA FairReplayOpen ==
  ASSUME NEW c, NEW st, StorageFair(c, st), NEW o \in Operations, OpFair(c, o), o.open, NEW close
  PROVE  \A r \in ReplayOpen(st, o, close) : StorageFair(c, r.st)
<1> DEFINE k == o.key
           beat == Later(o.start, o.obs)
           first == [NewRow(st, o) EXCEPT !.secs = o.secs, !.beat = beat]
           grown == [st.rows[k] EXCEPT !.secs = Later(@, o.secs), !.beat = Later(@, o.obs)]
           merged == IF st.rows[k] = NoRow THEN first ELSE grown
           final == IF close THEN [merged EXCEPT !.end = merged.beat] ELSE merged
<1>0. /\ k \in Keys /\ o.game \in Games /\ o.start \in Int /\ o.slot \in Slots
      /\ o.secs \in Int /\ o.ivs \in Int \cup {NoIntervals} /\ StorageOK(st)
  BY DEF Operations, StorageFair
<1>1. /\ Credited(c, k, o.start, o.secs, o.obs) /\ o.obs <= c.till /\ o.start = c.start[k]
      /\ o.obs \in Nat /\ beat = o.obs
  <2>1. /\ Credited(c, k, o.start, o.secs, o.obs) /\ o.obs <= c.till
    BY DEF OpFair, OpTill
  <2> QED BY <2>1 DEF Credited, Later
<1> HIDE DEF k, beat
\* A row that is open then, and credited up to its heartbeat.
<1> DEFINE goes(r) == /\ r \in Rows /\ r.end = 0 /\ r.beat \in Nat /\ r.beat <= c.till
                      /\ Credited(c, k, r.start, r.secs, r.beat)
<1>2. st.rows[k] = NoRow => goes(first) /\ first.id \notin IdIn(st)
  <2> DEFINE new == NewRow(st, o)
  <2>1. new \in Rows /\ new.id \notin IdIn(st)
    BY <1>0, NewRowIs, NextIdIsNew
  <2>2. new.start = o.start /\ new.end = 0
    BY DEF NewRow
  <2> HIDE DEF new
  <2> DEFINE e == [new EXCEPT !.secs = o.secs, !.beat = beat]
  <2>3. /\ e \in Rows /\ e.id = new.id /\ e.start = new.start /\ e.end = new.end /\ e.beat = beat
        /\ e.secs = o.secs
    <3>1. new \in Rows
      BY <2>1
    <3>2. beat \in Int /\ o.secs \in Int
      BY <1>0, <1>1
    <3> QED BY <3>1, <3>2 DEF Rows
  <2> HIDE DEF e
  <2>4. goes(e)
    BY <1>1, <2>2, <2>3
  <2> HIDE DEF goes
  <2> QED BY <2>1, <2>3, <2>4 DEF e, new
<1>3. st.rows[k] # NoRow /\ ~Closed(st, k) => goes(grown) /\ grown.id = st.rows[k].id
  <2> SUFFICES ASSUME st.rows[k] # NoRow, ~Closed(st, k)
               PROVE  goes(grown) /\ grown.id = st.rows[k].id
    OBVIOUS
  <2> DEFINE r == st.rows[k]
  <2>1. r \in Rows /\ RowFair(c, k, r) /\ ~(r.end > 0)
    BY <1>0 DEF StorageOK, Storage, StorageFair, Closed
  <2> DEFINE secs == Later(r.secs, o.secs)
             then == Later(r.beat, o.obs)
  <2>2. r.end = 0 /\ r.beat \in Int /\ r.beat <= c.till /\ Credited(c, k, r.start, r.secs, Later(0, r.beat))
    BY <2>1 DEF RowFair
  <2> HIDE DEF r
  <2>3. then \in Nat /\ then <= c.till /\ Later(0, r.beat) <= then /\ Later(0, r.beat) \in Int /\ o.obs <= then
    BY <1>1, <2>2 DEF Later
  <2> HIDE DEF then
  <2>4. Credited(c, k, r.start, r.secs, then)
    BY <2>2, <2>3, CreditedLater
  <2>5. r.start = o.start
    BY <1>1, <2>2 DEF Credited
  <2>6. Credited(c, k, r.start, o.secs, then)
    BY <1>1, <2>3, <2>5, CreditedLater
  <2>7. Credited(c, k, r.start, secs, then)
    BY <2>4, <2>6, CreditedLarger
  <2> HIDE DEF secs
  <2> DEFINE e == [r EXCEPT !.secs = secs, !.beat = then]
  <2>8. /\ e \in Rows /\ e.id = r.id /\ e.start = r.start /\ e.end = r.end /\ e.beat = then
        /\ e.secs = secs
    <3>1. r \in Rows
      BY <2>1
    <3>2. then \in Int /\ secs \in Int
      BY <2>3, <2>7 DEF Credited
    <3> QED BY <3>1, <3>2 DEF Rows
  <2> HIDE DEF e
  <2>9. goes(e)
    BY <2>2, <2>3, <2>7, <2>8
  <2> HIDE DEF goes
  <2> QED BY <2>8, <2>9 DEF e, r, secs, then
<1> HIDE DEF first, grown
<1>4. ~Closed(st, k) =>
        goes(merged) /\ IF st.rows[k] = NoRow THEN merged.id \notin IdIn(st) ELSE merged.id = st.rows[k].id
  <2> HIDE DEF goes
  <2> QED BY <1>2, <1>3
<1> HIDE DEF merged
<1>5. ~Closed(st, k) => final \in Rows /\ final.id = merged.id /\ RowFair(c, k, final)
  <2> SUFFICES ASSUME goes(merged)
               PROVE  final \in Rows /\ final.id = merged.id /\ RowFair(c, k, final)
    BY <1>4
  <2>1. /\ final \in Rows /\ final.id = merged.id /\ final.start = merged.start /\ final.secs = merged.secs
        /\ final.beat = merged.beat /\ final.end \in {0, merged.beat}
    <3>1. merged \in Rows /\ merged.end = 0 /\ merged.beat \in Int
      OBVIOUS
    <3> QED BY <3>1 DEF Rows
  <2> HIDE DEF final
  <2>2. Later(final.end, final.beat) = merged.beat /\ final.end \in Nat /\ final.end <= c.till
    <3>1. c.till \in Int
      BY DEF StorageFair
    <3> QED BY <2>1, <3>1 DEF Later
  <2> QED BY <2>1, <2>2 DEF RowFair
<1> HIDE DEF final, goes
<1>6. ASSUME NEW r \in ReplayOpen(st, o, close)
      PROVE  \/ r \in Failed(st) \/ \E x : r = Result(x, st)
             \/ ~Closed(st, k) /\ r \in WithIntervals(PutRow(st, k, final), k, o.ivs)
  BY DEF ReplayOpen, k, beat, first, grown, merged, final
<1>7. ~Closed(st, k) => \A r \in WithIntervals(PutRow(st, k, final), k, o.ivs) : StorageFair(c, r.st)
  <2> SUFFICES ASSUME ~Closed(st, k)
               PROVE  \A r \in WithIntervals(PutRow(st, k, final), k, o.ivs) : StorageFair(c, r.st)
    OBVIOUS
  <2>1. final \in Rows /\ RowFair(c, k, final)
        /\ IF st.rows[k] = NoRow THEN final.id \notin IdIn(st) ELSE final.id = st.rows[k].id
    BY <1>4, <1>5
  <2> QED BY <1>0, <2>1, FairRowReplayed
<1> QED BY <1>6, <1>7, FairNotReplayed

\* A queued close is retried on the row that is still its own.
LEMMA FairFinalize ==
  ASSUME NEW c, NEW st, StorageFair(c, st), NEW e \in Entries, OpFair(c, e.op), ~e.op.open
  PROVE  \A r \in Finalize(st, e) : StorageFair(c, r.st)
<1> DEFINE k == e.op.key
           r == st.rows[k]
           end == Later(r.start, e.op.end)
           secs == Later(r.secs, e.op.secs)
           row == [r EXCEPT !.end = end, !.secs = secs]
<1>0. k \in Keys /\ e.op.end \in Int /\ e.op.secs \in Int /\ e.op.ivs \in Int \cup {NoIntervals} /\ StorageOK(st)
  BY DEF Entries, Operations, StorageFair
<1>1. Credited(c, k, e.op.start, e.op.secs, e.op.end) /\ e.op.end <= c.till
  BY DEF OpFair, OpTill
<1>2. ASSUME r # NoRow, ~Closed(st, k)
      PROVE  row \in Rows /\ row.id = r.id /\ RowFair(c, k, row)
  <2>1. r \in Rows /\ RowFair(c, k, r) /\ ~(r.end > 0)
    BY <1>0, <1>2 DEF StorageOK, Storage, StorageFair, Closed
  <2> HIDE DEF r, k
  <2>2. r.end = 0 /\ r.beat \in Int /\ r.beat <= c.till /\ Credited(c, k, r.start, r.secs, Later(0, r.beat))
    BY <2>1 DEF RowFair
  <2>3. r.start = e.op.start /\ end = e.op.end /\ end \in Nat /\ end <= c.till
    BY <1>1, <2>2 DEF Credited, Later
  <2> HIDE DEF end
  <2> DEFINE till == Later(end, r.beat)
  <2>4. till \in Int /\ end <= till /\ Later(0, r.beat) <= till
    BY <2>2, <2>3 DEF Later
  <2> HIDE DEF till
  <2>5. Credited(c, k, r.start, r.secs, till)
    BY <2>2, <2>4, CreditedLater
  <2>6. Credited(c, k, r.start, e.op.secs, till)
    BY <1>1, <2>3, <2>4, CreditedLater
  <2>7. Credited(c, k, r.start, secs, till)
    BY <2>5, <2>6, CreditedLarger
  <2> HIDE DEF secs
  <2>8. /\ row \in Rows /\ row.id = r.id /\ row.start = r.start /\ row.end = end /\ row.beat = r.beat
        /\ row.secs = secs
    <3>1. r \in Rows
      BY <2>1
    <3>2. end \in Int /\ secs \in Int
      BY <2>3, <2>7 DEF Credited
    <3> QED BY <3>1, <3>2 DEF Rows
  <2> HIDE DEF row
  <2>9. RowFair(c, k, row)
    BY <2>2, <2>3, <2>7, <2>8 DEF RowFair, till
  <2> QED BY <2>8, <2>9
<1> HIDE DEF row
<1>3. ASSUME NEW x \in Finalize(st, e)
      PROVE  \/ x \in Failed(st) \/ \E y : x = Result(y, st)
             \/ x \in WithIntervals(st, k, e.op.ivs)
             \/ r # NoRow /\ ~Closed(st, k) /\ x \in WithIntervals(PutRow(st, k, row), k, e.op.ivs)
  BY DEF Finalize, row
<1> HIDE DEF r
<1>4. ASSUME r # NoRow, ~Closed(st, k)
      PROVE  \A x \in WithIntervals(PutRow(st, k, row), k, e.op.ivs) : StorageFair(c, x.st)
  <2>1. IF st.rows[k] = NoRow THEN row.id \notin IdIn(st) ELSE row.id = st.rows[k].id
    BY <1>2, <1>4 DEF r
  <2>2. k \in Keys /\ row \in Rows /\ RowFair(c, k, row)
    BY <1>0, <1>2, <1>4
  <2> HIDE DEF k
  <2> QED BY <1>0, <2>1, <2>2, FairRowReplayed
<1>5. \A x \in WithIntervals(st, k, e.op.ivs) : StorageFair(c, x.st)
  BY <1>0, FairWithIntervals
<1> QED BY <1>3, <1>4, <1>5, FairNotReplayed

-----------------------------------------------------------------------------
\* What the active sessions are credited: no less than storage knows of.
Paid(c, a) == \A s \in Slots : a[s] # NoSession => SessionFair(c, a[s])

\* The recorder watches: storage knows of no play after a session's mark.
Watching(c) ==
  /\ StorageFair(c, Stored) /\ c.till <= now /\ now \in Nat /\ Filled
  /\ \A s \in Slots : active[s] # NoSession => SessionFair(c, active[s]) /\ c.till <= active[s].mark

\* At most one session is followed anew at sl, billed for the same polls.
Pursues(c, a, sl) ==
  \/ a = active
  \/ \E s \in Sessions :
       /\ a = [active EXCEPT ![sl] = s] /\ SessionFair(c, s)
       /\ IF active[sl] = NoSession THEN s.mark = now ELSE s.mark = active[sl].mark

\* What a session may be adopted with: a total that storage may know of.
Known(c, k, sl, g, id, start, secs, ivs) ==
  /\ now \in Nat /\ c.till \in Int /\ c.till <= now
  /\ k \in Keys /\ sl \in Slots /\ g \in Games /\ id \in Nat /\ ivs \in Int \cup {NoIntervals}
  /\ \E till \in Int : till <= c.till /\ Credited(c, k, start, secs, till)

\* A session that is adopted is credited what storage knew.
LEMMA FairSession ==
  ASSUME NEW c, NEW k, NEW sl, NEW g, NEW id, NEW start, NEW secs, NEW ivs,
         Known(c, k, sl, g, id, start, secs, ivs)
  PROVE  /\ Session(k, sl, g, id, start, secs, ivs) \in Sessions
         /\ SessionFair(c, Session(k, sl, g, id, start, secs, ivs))
         /\ Session(k, sl, g, id, start, secs, ivs).mark = now
         /\ Session(k, sl, g, id, start, secs, ivs).slot = sl
<1> DEFINE s == Session(k, sl, g, id, start, secs, ivs)
<1>0. PICK till \in Int : till <= c.till /\ Credited(c, k, start, secs, till)
  BY DEF Known
<1>1. start \in Int /\ secs \in Int
  BY <1>0 DEF Credited
<1>2. /\ s \in Sessions /\ s.mark = now /\ s.slot = sl /\ s.key = k /\ s.start = start
      /\ s.secs = secs /\ s.titled = FALSE
  BY <1>1 DEF Session, Sessions, Known
<1> HIDE DEF s
<1>3. till <= now /\ now \in Int
  BY <1>0 DEF Known
<1>4. Credited(c, k, start, secs, now)
  BY <1>0, <1>3, CreditedLater
<1>5. SessionFair(c, s)
  BY <1>2, <1>3, <1>4 DEF SessionFair
<1> QED BY <1>2, <1>5 DEF s

\* reconcileRecoveredOpen() follows a session for what storage knows of.
LEMMA FairReconcile ==
  ASSUME NEW c, Watching(c), NEW o \in Operations, OpFair(c, o), o.open
  PROVE  \A x \in Reconcile(o) : StorageFair(c, x.r.st) /\ Pursues(c, x.active, o.slot)
<1> SUFFICES ASSUME NEW x \in Reconcile(o)
             PROVE  StorageFair(c, x.r.st) /\ Pursues(c, x.active, o.slot)
  OBVIOUS
<1> DEFINE follows == Alive(o.slot[1]) /\ Matched(o.slot, o.game)
           here == active[o.slot]
           Leave(r) == [r |-> r, active |-> active]
           Follow(r, s) == [r |-> r, active |-> [active EXCEPT ![o.slot] = s]]
           Reserved == [Session(o.key, o.slot, o.game, 0, o.start, o.secs, o.ivs)
                        EXCEPT !.titled = ~o.slot[2]]
           Adopted(row) == Session(o.key, o.slot, o.game, row.id, row.start, row.secs, o.ivs)
           Merged(row) == [here EXCEPT !.id = row.id, !.secs = Later(@, row.secs),
                                       !.ivs = IF o.ivs = NoIntervals /\ row.secs > 0
                                               THEN row.secs ELSE o.ivs]
           Adopt(r, row) ==
             IF here = NoSession THEN Follow(r, Adopted(row))
             ELSE IF here.key # o.key THEN Leave(Result("error", r.st))
             ELSE Follow(r, Merged(row))
           Outcomes(r) ==
             IF ~follows \/ r.result = "stale" THEN {Leave(r)}
             ELSE IF r.result = "error"
             THEN {IF here = NoSession THEN Follow(r, Reserved) ELSE Leave(r)}
             ELSE IF here # NoSession /\ here.game # o.game THEN {Leave(r)}
             ELSE {Adopt(r, r.st.rows[o.key]), Leave(Result("error", Refused(r.st)))}
<1>1. Reconcile(o) = UNION {Outcomes(r) : r \in ReplayOpen(Stored, o, ~follows)}
  BY DEF Reconcile
<1>2. PICK r \in ReplayOpen(Stored, o, ~follows) : x \in Outcomes(r)
  <2> HIDE DEF Outcomes
  <2> QED BY <1>1
<1>3. /\ o.key \in Keys /\ o.slot \in Slots /\ o.game \in Games /\ o.start \in Int /\ o.secs \in Int
      /\ o.ivs \in Int \cup {NoIntervals} /\ o.slot[2] \in BOOLEAN
      /\ now \in Nat /\ c.till <= now /\ c.till \in Int /\ StorageOK(Stored) /\ now \in Int /\ Filled
  BY DEF Operations, Slots, Watching, StorageFair
<1>4. StorageFair(c, r.st) /\ Replayed(Stored, r, o, o.slot, {o.key}, {})
  <2> HIDE DEF follows
  <2>1. \A q \in ReplayOpen(Stored, o, ~follows) : StorageFair(c, q.st)
    BY FairReplayOpen DEF Watching
  <2> DEFINE K == {o.key}
             I == {}
  <2>2. o.key \in K
    OBVIOUS
  <2> HIDE DEF K, I
  <2>3. \A q \in ReplayOpen(Stored, o, ~follows) : Replayed(Stored, q, o, o.slot, K, I)
    BY <1>3, <2>2, ReplayOpenOn
  <2> QED BY <2>1, <2>3 DEF K, I
<1>5. StorageFair(c, Refused(r.st))
  BY <1>4, FairRefused
<1> DEFINE good(d) == StorageFair(c, d.r.st) /\ Pursues(c, d.active, o.slot)
<1>6. good(Leave(r)) /\ good(Leave(Result("error", r.st))) /\ good(Leave(Result("error", Refused(r.st))))
  <2>1. Result("error", r.st).st = r.st /\ Result("error", Refused(r.st)).st = Refused(r.st)
    BY DEF Result
  <2> HIDE DEF Refused
  <2> QED BY <1>4, <1>5, <2>1 DEF Pursues
<1>7. ASSUME NEW s \in Sessions, SessionFair(c, s),
             IF active[o.slot] = NoSession THEN s.mark = now ELSE s.mark = active[o.slot].mark
      PROVE  good(Follow(r, s))
  <2>1. Pursues(c, [active EXCEPT ![o.slot] = s], o.slot)
    BY <1>7 DEF Pursues
  <2> QED BY <1>4, <2>1
<1>8. Credited(c, o.key, o.start, o.secs, o.obs) /\ o.obs <= c.till
  BY DEF OpFair, OpTill
<1>9. Reserved \in Sessions /\ SessionFair(c, Reserved) /\ Reserved.mark = now
  <2> DEFINE n == Session(o.key, o.slot, o.game, 0, o.start, o.secs, o.ivs)
  <2>1. n \in Sessions /\ SessionFair(c, n) /\ n.mark = now /\ n.slot = o.slot
    <3>1. Known(c, o.key, o.slot, o.game, 0, o.start, o.secs, o.ivs)
      BY <1>3, <1>8 DEF Known, Credited
    <3> QED BY <3>1, FairSession
  <2> HIDE DEF n
  <2> DEFINE u == [n EXCEPT !.titled = ~o.slot[2]]
  <2>2. /\ u \in Sessions /\ u.key = n.key /\ u.slot = n.slot /\ u.start = n.start /\ u.secs = n.secs
        /\ u.mark = n.mark /\ u.titled = ~o.slot[2]
    <3>1. n \in Sessions /\ o.slot[2] \in BOOLEAN
      BY <1>3, <2>1
    <3> QED BY <3>1 DEF Sessions
  <2> HIDE DEF u
  <2>3. SessionFair(c, u)
    BY <2>1, <2>2 DEF SessionFair
  <2> QED BY <2>1, <2>2, <2>3 DEF u, n
<1>10. CASE ~follows \/ r.result = "stale"
  <2>1. x = Leave(r)
    BY <1>2, <1>10
  <2> QED BY <1>6, <2>1
<1>11. CASE follows /\ r.result = "error"
  <2>1. x = Leave(r) \/ (here = NoSession /\ x = Follow(r, Reserved))
    BY <1>2, <1>11
  <2>2. here = NoSession => good(Follow(r, Reserved))
    BY <1>7, <1>9
  <2> QED BY <1>6, <2>1, <2>2
<1>12. CASE follows /\ r.result = "written"
  <2> DEFINE row == r.st.rows[o.key]
  <2>1. row \in Rows /\ row # NoRow
    BY <1>3, <1>4, <1>12 DEF Replayed, Alters, Extends, Writes, StorageOK, Storage
  <2>2. RowFair(c, o.key, row)
    BY <1>3, <1>4, <2>1 DEF StorageFair
  <2>3. row.id \in Nat
    BY <2>1 DEF Rows
  <2> DEFINE till == Later(row.end, row.beat)
  <2>4. Credited(c, o.key, row.start, row.secs, till) /\ till <= c.till
    BY <2>2 DEF RowFair, Later
  <2> HIDE DEF row, till
  <2>5. Adopted(row) \in Sessions /\ SessionFair(c, Adopted(row)) /\ Adopted(row).mark = now
    <3>1. Known(c, o.key, o.slot, o.game, row.id, row.start, row.secs, o.ivs)
      BY <1>3, <2>3, <2>4 DEF Known, Credited
    <3> QED BY <3>1, FairSession
  <2>6. here # NoSession /\ here.key = o.key =>
          Merged(row) \in Sessions /\ SessionFair(c, Merged(row)) /\ Merged(row).mark = here.mark
    <3> SUFFICES ASSUME here # NoSession, here.key = o.key
                 PROVE  Merged(row) \in Sessions /\ SessionFair(c, Merged(row)) /\ Merged(row).mark = here.mark
      OBVIOUS
    <3>1. here \in Sessions /\ SessionFair(c, here) /\ c.till <= here.mark
      BY <1>3 DEF Filled, Watching
    <3> HIDE DEF here
    <3> DEFINE secs == Later(here.secs, row.secs)
               ivs == IF o.ivs = NoIntervals /\ row.secs > 0 THEN row.secs ELSE o.ivs
               u == [here EXCEPT !.id = row.id, !.secs = secs, !.ivs = ivs]
    <3>2. Credited(c, o.key, here.start, here.secs, here.mark)
      BY <3>1 DEF SessionFair
    <3>3. till \in Int /\ till <= here.mark /\ here.mark \in Int /\ row.start = here.start
      BY <1>3, <2>4, <3>1, <3>2 DEF Credited
    <3>4. Credited(c, o.key, here.start, row.secs, here.mark)
      BY <2>4, <3>3, CreditedLater
    <3>5. Credited(c, o.key, here.start, secs, here.mark)
      BY <3>2, <3>4, CreditedLarger
    <3>6. ivs \in Int \cup {NoIntervals} /\ secs \in Int /\ row.id \in Nat
      BY <1>3, <2>3, <2>4, <3>5 DEF Credited
    <3>7. Merged(row) = u
      OBVIOUS
    <3> HIDE DEF ivs, secs, Merged
    <3>8. /\ u \in Sessions /\ u.key = here.key /\ u.secs = secs /\ u.mark = here.mark /\ u.start = here.start
          /\ u.titled = here.titled /\ u.slot = here.slot
      BY <3>1, <3>6 DEF Sessions
    <3> HIDE DEF u
    <3>9. SessionFair(c, u)
      BY <3>1, <3>5, <3>8 DEF SessionFair
    <3> QED BY <3>7, <3>8, <3>9
  <2>7. x \in {Leave(r), Adopt(r, row), Leave(Result("error", Refused(r.st)))}
    BY <1>2, <1>12 DEF row
  <2> HIDE DEF Adopted, Merged
  <2>8. Adopt(r, row) = Leave(Result("error", r.st))
        \/ (here = NoSession /\ Adopt(r, row) = Follow(r, Adopted(row)))
        \/ (here # NoSession /\ here.key = o.key /\ Adopt(r, row) = Follow(r, Merged(row)))
    OBVIOUS
  <2>9. here = NoSession => good(Follow(r, Adopted(row)))
    BY <1>7, <2>5
  <2>10. here # NoSession /\ here.key = o.key => good(Follow(r, Merged(row)))
    BY <1>7, <2>6
  <2> HIDE DEF good, Adopt, Follow, Leave
  <2>11. good(x)
    BY <1>6, <2>7, <2>8, <2>9, <2>10
  <2> QED BY <2>11 DEF good
<1> QED BY <1>4, <1>10, <1>11, <1>12 DEF Replayed

\* applyJournalOperation() invents nothing.
LEMMA FairApply ==
  ASSUME NEW c, Watching(c), NEW o \in Operations, OpFair(c, o)
  PROVE  \A x \in Apply(o) : StorageFair(c, x.r.st) /\ Pursues(c, x.active, o.slot)
<1>1. CASE o.open
  BY <1>1, FairReconcile DEF Apply
<1>2. CASE ~o.open
  <2>1. \A r \in ReplayClosed(Stored, o) : StorageFair(c, r.st)
    BY <1>2, FairReplayClosed DEF Watching
  <2> QED BY <1>2, <2>1 DEF Apply, Pursues
<1> QED BY <1>1, <1>2

\* The open row of a session is ended at its heartbeat, or its session
\* adopted or queued, for no more than the row is credited.
LEMMA FairEnds ==
  ASSUME NEW c, NEW st, StorageFair(c, st), NEW k \in Keys, rows[k] \in Rows, RowFair(c, k, rows[k]),
         rows[k].end = 0, Owns(st, rows[k].id, {k}, {})
  PROVE  /\ \A e \in Ends(st, k) : StorageFair(c, e.st)
         /\ Credited(c, k, rows[k].start, rows[k].secs, Later(rows[k].start, rows[k].beat))
         /\ Later(rows[k].start, rows[k].beat) \in Nat /\ Later(rows[k].start, rows[k].beat) <= c.till
<1> DEFINE end == Later(rows[k].start, rows[k].beat)
           i == rows[k].id
           secs == rows[k].secs
<1>1. /\ Credited(c, k, rows[k].start, secs, Later(0, rows[k].beat)) /\ rows[k].beat \in Int
      /\ rows[k].beat <= c.till /\ 0 <= c.till
  BY DEF RowFair
<1>2. rows[k].start \in Nat /\ secs \in Nat /\ secs <= Later(0, rows[k].beat) - rows[k].start /\ rows[k].start = c.start[k]
  BY <1>1 DEF Credited
<1>3. end \in Nat /\ Later(0, rows[k].beat) <= end /\ Later(0, rows[k].beat) \in Int
  BY <1>1, <1>2 DEF Later
<1>4. end <= c.till
  <2>1. c.till \in Int
    BY DEF StorageFair
  <2> QED BY <1>1, <1>2, <2>1 DEF Later
<1>5. Ends(st, k) = End(st, i, end, secs)
  BY DEF Ends
<1> HIDE DEF end, secs
<1>6. Credited(c, k, rows[k].start, secs, end)
  BY <1>1, <1>3, CreditedLater
<1>7. Pays(c, st, i, secs, end)
  BY <1>2, <1>6 DEF Pays
<1>8. \A e \in End(st, i, end, secs) : StorageFair(c, e.st)
  <2> HIDE DEF i
  <2> QED BY <1>3, <1>4, <1>7, FairEnd
<1> QED BY <1>3, <1>4, <1>5, <1>6, <1>8 DEF end, secs

\* Neither does a row that goes on after a restart: adopted, or ended at
\* its heartbeat, or queued.
LEMMA FairSurvives ==
  ASSUME NEW c, Watching(c), NEW st, StorageFair(c, st), NEW k \in Keys, rows[k] \in Rows, RowFair(c, k, rows[k]),
         rows[k].end = 0, Owns(st, rows[k].id, {k}, {}),
         QueueFair(c, queue), epoch \in [Games -> Nat], queue \in Seq(Entries)
  PROVE  \A x \in Survives(st, k) :
           StorageFair(c, x.st) /\ QueueFair(c, x.queue) /\ Pursues(c, x.active, rows[k].slot)
<1> DEFINE r == rows[k]
           s == [key |-> k, game |-> r.game, slot |-> r.slot, start |-> r.start, secs |-> r.secs,
                 ivs |-> r.ivs]
           end == Later(r.start, r.beat)
           same(t) == [st |-> t, active |-> active, queue |-> queue, tried |-> tried]
           n == Session(k, r.slot, r.game, r.id, r.start, r.secs, r.ivs)
           pends(e) == {[same(x.st) EXCEPT !.queue = x.queue, !.tried = x.tried] :
                          x \in QueuePending(e.st, r.id, s, end)}
           left1(e) == IF e.ok THEN {same(e.st)} ELSE pends(e)
           good(x) == StorageFair(c, x.st) /\ QueueFair(c, x.queue) /\ Pursues(c, x.active, r.slot)
<1>1. /\ r.id \in Nat /\ r.game \in Games /\ r.slot \in Slots /\ r.start \in Int
      /\ r.secs \in Int /\ r.ivs \in Int \cup {NoIntervals} /\ end \in Int
  BY DEF Rows, Later
<1>2. /\ \A e \in Ends(st, k) : StorageFair(c, e.st)
      /\ Credited(c, k, r.start, r.secs, end) /\ end \in Int /\ end <= c.till
  <2>1. /\ \A e \in Ends(st, k) : StorageFair(c, e.st)
        /\ Credited(c, k, r.start, r.secs, end) /\ end \in Nat /\ end <= c.till
    BY FairEnds, Zenon
  <2> QED BY <1>1, <2>1
<1>3. Billed(s) /\ s.key = k /\ s.start = r.start /\ s.secs = r.secs
  BY <1>1 DEF Billed
<1>4. ASSUME NEW t, StorageFair(c, t) PROVE good(same(t))
  BY <1>4 DEF Pursues
<1>5. CASE active[r.slot] # NoSession
  <2>1. Survives(st, k) = {same(st)}
    BY <1>5 DEF Survives
  <2> HIDE DEF good
  <2> QED BY <1>4, <2>1 DEF good
<1>6. CASE active[r.slot] = NoSession /\ (r.slot[2] /\ Matched(r.slot, r.game))
  <2> DEFINE x == [same(st) EXCEPT !.active[r.slot] = n]
  <2>1. Survives(st, k) = {x}
    BY <1>6 DEF Survives
  <2>2. n \in Sessions /\ SessionFair(c, n) /\ n.mark = now
    <3>1. Known(c, k, r.slot, r.game, r.id, r.start, r.secs, r.ivs)
      BY <1>1, <1>2 DEF Known, Watching, StorageFair
    <3> QED BY <3>1, FairSession
  <2>3. x.st = st /\ x.active = [active EXCEPT ![r.slot] = n] /\ x.queue = queue
    OBVIOUS
  <2> HIDE DEF x, n
  <2>4. good(x)
    BY <1>6, <2>2, <2>3 DEF Pursues
  <2> QED BY <2>1, <2>4
<1>7. CASE active[r.slot] = NoSession /\ ~(r.slot[2] /\ Matched(r.slot, r.game))
  <2>1. Survives(st, k) = UNION {left1(e) : e \in Ends(st, k)}
    BY <1>7 DEF Survives
  <2>2. ASSUME NEW e \in Ends(st, k), NEW x \in left1(e) PROVE good(x)
    <3>1. StorageFair(c, e.st)
      BY <1>2
    <3>2. CASE e.ok
      <4>1. x = same(e.st)
        BY <2>2, <3>2
      <4> HIDE DEF good
      <4> QED BY <1>4, <3>1, <4>1
    <3>3. CASE ~e.ok
      <4>1. PICK d \in QueuePending(e.st, r.id, s, end) : x = [same(d.st) EXCEPT !.queue = d.queue, !.tried = d.tried]
        BY <2>2, <3>3
      <4>2. x.st = d.st /\ x.active = active /\ x.queue = d.queue
        BY <4>1
      <4> HIDE DEF s, end
      <4>3. Credited(c, s.key, s.start, s.secs, end) /\ end <= c.till
        BY <1>2, <1>3
      <4>4. StorageFair(c, d.st) /\ QueueFair(c, d.queue)
        BY <1>1, <1>3, <3>1, <4>3, FairQueuePending
      <4> QED BY <4>2, <4>4 DEF Pursues
    <3> QED BY <3>2, <3>3
  <2> HIDE DEF left1, good
  <2>3. \A x \in Survives(st, k) : good(x)
    BY <2>1, <2>2
  <2> QED BY <2>3 DEF good
<1> QED BY <1>5, <1>6, <1>7

-----------------------------------------------------------------------------
\* The active sessions that are yet to be billed for the last poll.
Unbilled == {s \in Slots : active[s] # NoSession /\ active[s].mark # now}

\* Storage knows of no play after this.
Horizon == IF pc \in {"retry", "drain"} THEN now - 1 ELSE now

\* Play that was claimed or is to be billed to the sessions U was lived.
Balanced(c, U) == IsFiniteSet(c.play) /\ IsFiniteSet(U) /\ Cardinality(c.play) + Cardinality(U) <= lived

\* The books of the recorder, kept with the account c.
Books(c) ==
  /\ StorageFair(c, Stored) /\ QueueFair(c, queue) /\ Paid(c, active)
  /\ c.till = Horizon /\ Balanced(c, Unbilled) /\ lived \in Nat

\* A step that is no poll takes no time.
Steady == now' = now /\ ran' = ran /\ lived' = lived

\* It leaves sessions as they were, or bills them for the last poll.
Marked ==
  \A s \in Slots : active'[s] # NoSession =>
    active'[s].mark = now \/ (active[s] # NoSession /\ active'[s].mark = active[s].mark)

-----------------------------------------------------------------------------
\* With fewer sessions to bill the balance holds.
LEMMA FewerUnbilled ==
  ASSUME NEW c, NEW U, Balanced(c, U), NEW V \in SUBSET U, lived \in Nat
  PROVE  Balanced(c, V)
<1>1. IsFiniteSet(V) /\ Cardinality(V) <= Cardinality(U)
  BY FS_Subset DEF Balanced
<1>2. Cardinality(V) \in Nat /\ Cardinality(U) \in Nat /\ Cardinality(c.play) \in Nat
  BY <1>1, FS_CardinalityType DEF Balanced
<1> QED BY <1>1, <1>2 DEF Balanced

\* Billing the session of a slot that was to be billed keeps the balance.
LEMMA BilledBalance ==
  ASSUME NEW c, NEW U, Balanced(c, U), NEW s, NEW z, s.mark # now => z \in U, lived \in Nat
  PROVE  Balanced(Billing(c, s), U \ {z})
<1> DEFINE d == Billing(c, s)
           x == <<s.key, s.secs + 1>>
<1>0. IsFiniteSet(c.play) /\ IsFiniteSet(U) /\ Cardinality(c.play) + Cardinality(U) <= lived
  BY DEF Balanced
<1>1. /\ IsFiniteSet(U \ {z})
      /\ Cardinality(U \ {z}) = IF z \in U THEN Cardinality(U) - 1 ELSE Cardinality(U)
  BY <1>0, FS_RemoveElement
<1>2. Cardinality(U) \in Nat /\ Cardinality(c.play) \in Nat
  BY <1>0, FS_CardinalityType
<1>3. CASE s.mark = now
  <2>1. d.play = c.play
    BY <1>3 DEF Billing
  <2> HIDE DEF d
  <2> QED BY <1>0, <1>1, <1>2, <2>1 DEF Balanced, d
<1>4. CASE s.mark # now
  <2>1. d.play = c.play \cup {x}
    BY <1>4 DEF Billing
  <2> HIDE DEF x, d
  <2>2. IsFiniteSet(d.play) /\ Cardinality(d.play) = IF x \in c.play THEN Cardinality(c.play) ELSE Cardinality(c.play) + 1
    BY <1>0, <2>1, FS_AddElement
  <2>3. z \in U
    BY <1>4
  <2>4. Cardinality(d.play) + Cardinality(U \ {z}) <= lived
    BY <1>0, <1>1, <1>2, <2>2, <2>3
  <2>5. Balanced(d, U \ {z})
    BY <1>1, <2>2, <2>4 DEF Balanced
  <2> QED BY <2>5 DEF d
<1> QED BY <1>3, <1>4

\* What was written is fair to the account, and so is what is stored.
LEMMA FairStore ==
  ASSUME TypeOK', NEW c, NEW st, StorageFair(c, st), Store(st)
  PROVE  StorageFair(c, Stored')
<1>1. StorageOK(Stored')
  BY DEF TypeOK
<1>2. Stored'.rows = st.rows /\ Stored'.journal = st.journal
  BY DEF Stored, Store
<1> QED BY <1>1, <1>2, FairMerged

\* Storage that lost rows or operations.
LEMMA FairLess ==
  ASSUME TypeOK', NEW c, StorageFair(c, Stored),
         \A k \in Keys : rows'[k] = rows[k] \/ rows'[k] = NoRow,
         \A k \in Keys : journal'[k] = journal[k] \/ journal'[k] = NoOp
  PROVE  StorageFair(c, Stored')
<1>1. StorageOK(Stored')
  BY DEF TypeOK
<1>2. Stored'.rows = rows' /\ Stored'.journal = journal' /\ Stored.rows = rows /\ Stored.journal = journal
  BY DEF Stored
<1> QED BY <1>1, <1>2, FairMerged

\* The books after a step, from what it left.
LEMMA BooksAre ==
  ASSUME Steady, NEW d, NEW U, StorageFair(d, Stored'), QueueFair(d, queue'), Paid(d, active'),
         d.till = Horizon', Balanced(d, U), Unbilled' \subseteq U, lived \in Nat
  PROVE  Books(d)'
<1>1. Paid(d, active)'
  BY DEF Steady, Paid, SessionFair
<1>2. Balanced(d, Unbilled')
  BY FewerUnbilled
<1>3. Balanced(d, Unbilled)'
  BY <1>2 DEF Steady, Balanced
<1> QED BY <1>1, <1>3 DEF Books, Steady

\* The books after a step that bills nobody.
LEMMA BooksStill ==
  ASSUME TypeOK, Steady, NEW c, Books(c), StorageFair(c, Stored'), QueueFair(c, queue'), Paid(c, active'),
         Marked, Horizon <= Horizon'
  PROVE  \E d : Books(d)'
<1>0. PICK d, U : d = [start |-> c.start, play |-> c.play, till |-> Horizon'] /\ U = Unbilled
  OBVIOUS
<1>1. now \in Int /\ c.till = Horizon /\ Horizon \in Int /\ Horizon' \in Int /\ lived \in Nat
  BY DEF Books, Horizon, TypeOK, Steady
<1>2. Grown(c, d) /\ d.till = Horizon' /\ d.play = c.play
  BY <1>0, <1>1 DEF Grown
<1>3. StorageFair(d, Stored') /\ QueueFair(d, queue')
  BY <1>2, MoreStorage, MoreQueue
<1>4. Paid(d, active')
  BY <1>2, MoreSession DEF Paid
<1>5. Balanced(d, U)
  BY <1>0, <1>2 DEF Books, Balanced
<1>6. Unbilled' \subseteq U
  BY <1>0 DEF Unbilled, Marked, Steady
<1>7. Books(d)'
  BY <1>1, <1>2, <1>3, <1>4, <1>5, <1>6, BooksAre
<1> QED BY <1>7

\* Compaction drops operations, or nothing.
LEMMA FairCompacted ==
  ASSUME TypeOK, NEW c, StorageFair(c, Stored), NEW st \in Compacted(Stored)
  PROVE  StorageFair(c, st)
<1>1. /\ Writes(Stored, st, {}, 0, {}) /\ st.rows = rows
      /\ \A k \in Keys : st.journal[k] = journal[k] \/ (st.journal[k] = NoOp /\ k \in drop)
  BY CompactedOn
<1>2. StorageOK(st) /\ Stored.rows = rows /\ Stored.journal = journal
  BY <1>1 DEF Writes, Stored
<1>3. \A k \in Keys : st.rows[k] = Stored.rows[k]
  BY <1>1, <1>2
<1>4. \A k \in Keys : st.journal[k] = Stored.journal[k] \/ st.journal[k] = NoOp
  BY <1>1, <1>2
<1> HIDE DEF Stored
<1> QED BY <1>2, <1>3, <1>4, FairMerged

\* A queue made of the entries of another.
LEMMA FairFewer ==
  ASSUME NEW c, NEW q, QueueFair(c, q), NEW r, \A j \in 1 .. Len(r) : \E i \in 1 .. Len(q) : r[j] = q[i]
  PROVE  QueueFair(c, r)
BY DEF QueueFair

-----------------------------------------------------------------------------
\* Steps that go from one label to the next.
LEMMA RetryDoneBooks ==
  ASSUME TypeOK, TypeOK', NEW c, Books(c), RetryDone
  PROVE  \E d : Books(d)'
<1>1. PICK st \in Compacted(Stored) : Store(st)
  BY DEF RetryDone
<1>2. /\ pc = "retry" /\ pc' \in {"match", "drain"}
      /\ UNCHANGED <<active, queue, now, ran, lived>>
  BY DEF RetryDone, memory, world
<1>3. StorageFair(c, Stored')
  BY <1>1, FairCompacted, FairStore DEF Books
<1>4. QueueFair(c, queue') /\ Paid(c, active') /\ Marked /\ Steady
  BY <1>2 DEF Books, Marked, Steady
<1>5. Horizon <= Horizon'
  BY <1>2 DEF Horizon, TypeOK
<1> QED BY <1>3, <1>4, <1>5, BooksStill

\* Compacting the journal when it was drained keeps the books,
LEMMA DrainDoneBooks ==
  ASSUME TypeOK, TypeOK', NEW c, Books(c), DrainDone
  PROVE  \E d : Books(d)'
<1>1. PICK st \in Compacted(Stored) : Store(st)
  BY DEF DrainDone
<1>2. /\ pc = "drain" /\ pc' = "match"
      /\ UNCHANGED <<active, queue, now, ran, lived>>
  BY DEF DrainDone, memory, world
<1>3. StorageFair(c, Stored')
  BY <1>1, FairCompacted, FairStore DEF Books
<1>4. QueueFair(c, queue') /\ Paid(c, active') /\ Marked /\ Steady
  BY <1>2 DEF Books, Marked, Steady
<1>5. Horizon <= Horizon'
  BY <1>2 DEF Horizon, TypeOK
<1> QED BY <1>3, <1>4, <1>5, BooksStill

\* and when it was replayed.
LEMMA ReplayDoneBooks ==
  ASSUME TypeOK, TypeOK', NEW c, Books(c), ReplayDone
  PROVE  \E d : Books(d)'
<1>1. PICK st \in Compacted(Stored) : Store(st) \/ Store(Refused(st))
  BY DEF ReplayDone
<1>2. /\ pc = "replay" /\ pc' = "recover" /\ queue' = Trimmed(queue)
      /\ UNCHANGED <<active, now, ran, lived>>
  BY DEF ReplayDone, world
<1>3. StorageFair(c, Stored')
  <2>1. StorageFair(c, st) /\ StorageFair(c, Refused(st))
    BY FairCompacted, FairRefused DEF Books
  <2> QED BY <1>1, <2>1, FairStore
<1>4. QueueFair(c, queue')
  <2>0. queue \in Seq(Entries)
    BY DEF TypeOK
  <2>1. \A j \in 1 .. Len(queue') : \E i \in 1 .. Len(queue) : queue'[j] = queue[i]
    BY <1>2, <2>0, TrimmedOn
  <2> QED BY <2>1, FairFewer DEF Books
<1>5. Paid(c, active') /\ Marked /\ Steady
  BY <1>2 DEF Books, Marked, Steady
<1>6. Horizon <= Horizon'
  BY <1>2 DEF Horizon, TypeOK
<1> QED BY <1>3, <1>4, <1>5, <1>6, BooksStill

\* What storage holds is untouched.
LEMMA FairUntouched ==
  ASSUME TypeOK', NEW c, Books(c), UNCHANGED <<rows, journal>>
  PROVE  StorageFair(c, Stored')
BY FairLess DEF Books

\* The end of the recovery keeps them.
LEMMA RecoverDoneBooks ==
  ASSUME TypeOK, TypeOK', NEW c, Books(c), RecoverDone
  PROVE  \E d : Books(d)'
<1>1. /\ pc = "recover" /\ pc' = "idle"
      /\ UNCHANGED <<rows, journal, active, queue, now, ran, lived>>
  BY DEF RecoverDone, database, disk, memory, world
<1>2. StorageFair(c, Stored')
  BY <1>1, FairUntouched
<1>3. QueueFair(c, queue') /\ Paid(c, active') /\ Marked /\ Steady
  BY <1>1 DEF Books, Marked, Steady
<1>4. Horizon <= Horizon'
  BY <1>1 DEF Horizon, TypeOK
<1> QED BY <1>2, <1>3, <1>4, BooksStill

\* The start opens the journal and looks for processes.
LEMMA StartBooks ==
  ASSUME TypeOK, TypeOK', NEW c, Books(c), Start
  PROVE  \E d : Books(d)'
<1>1. /\ pc = "down" /\ pc' \in {"sweep", "replay"}
      /\ UNCHANGED <<rows, journal, active, queue, now, ran, lived>>
  BY DEF Start, database, world
<1>2. StorageFair(c, Stored')
  BY <1>1, FairUntouched
<1>3. QueueFair(c, queue') /\ Paid(c, active') /\ Marked /\ Steady
  BY <1>1 DEF Books, Marked, Steady
<1>4. Horizon <= Horizon'
  BY <1>1 DEF Horizon, TypeOK
<1> QED BY <1>2, <1>3, <1>4, BooksStill

\* A kill loses what was only in memory.
LEMMA KillBooks ==
  ASSUME TypeOK, TypeOK', NEW c, Books(c), Kill
  PROVE  \E d : Books(d)'
<1>1. /\ pc' = "down" /\ active' = [s \in Slots |-> NoSession] /\ queue' = <<>>
      /\ UNCHANGED <<rows, journal, now, ran, lived>>
  BY DEF Kill, database, world
<1>2. StorageFair(c, Stored')
  BY <1>1, FairUntouched
<1>3. QueueFair(c, queue') /\ Paid(c, active') /\ Marked /\ Steady
  BY <1>1 DEF QueueFair, Paid, Marked, Steady
<1>4. Horizon <= Horizon'
  BY <1>1 DEF Horizon, TypeOK
<1> QED BY <1>2, <1>3, <1>4, BooksStill

\* Clearing the misses of matched sessions bills nothing.
LEMMA MatchDoneBooks ==
  ASSUME TypeOK, TypeOK', NEW c, Books(c), MatchDone
  PROVE  \E d : Books(d)'
<1> DEFINE matched == {m.slot : m \in seen}
<1>1. /\ pc = "match" /\ work = {} /\ pc' = "sweep"
      /\ active' = [s \in Slots |-> IF s \in matched THEN [active[s] EXCEPT !.missed = 0] ELSE active[s]]
      /\ UNCHANGED <<rows, journal, queue, now, ran, lived>>
  BY DEF MatchDone, database, disk, world
<1>2. StorageFair(c, Stored')
  BY <1>1, FairUntouched
<1>3. ASSUME NEW s \in Slots, active'[s] # NoSession
      PROVE  active[s] # NoSession /\ SessionFair(c, active'[s]) /\ active'[s].mark = active[s].mark
  <2>1. CASE s \in matched
    <3>1. active[s] # NoSession /\ active[s] \in Sessions
      BY <1>1, <2>1 DEF TypeOK, Loops, Filled
    <3> DEFINE a == active[s]
               b == [a EXCEPT !.missed = 0]
    <3>2. active'[s] = b /\ SessionFair(c, a)
      BY <1>1, <2>1, <3>1 DEF Books, Paid
    <3>3. a \in Sessions
      BY <3>1
    <3> HIDE DEF a
    <3>4. b.key = a.key /\ b.start = a.start /\ b.secs = a.secs /\ b.mark = a.mark /\ b.titled = a.titled /\ b.slot = a.slot
      BY <3>3 DEF Sessions
    <3> HIDE DEF b
    <3>5. SessionFair(c, b)
      BY <3>2, <3>4 DEF SessionFair
    <3> QED BY <3>1, <3>2, <3>4, <3>5 DEF a
  <2>2. CASE s \notin matched
    BY <1>1, <1>3, <2>2 DEF Books, Paid
  <2> QED BY <2>1, <2>2
<1>4. QueueFair(c, queue') /\ Paid(c, active') /\ Marked /\ Steady
  BY <1>1, <1>3 DEF Books, Marked, Steady, Paid
<1>5. Horizon <= Horizon'
  BY <1>1 DEF Horizon, TypeOK
<1> QED BY <1>2, <1>4, <1>5, BooksStill

\* The interface deletes what has ended.
LEMMA DeletesBooks ==
  ASSUME TypeOK, TypeOK', NEW c, Books(c),
         (\E k \in Keys : DeleteSession(k)) \/ (\E g \in Games : ClearGame(g))
  PROVE  \E d : Books(d)'
<1>1. /\ \A k \in Keys : rows'[k] = rows[k] \/ rows'[k] = NoRow
      /\ UNCHANGED <<journal, active, queue, pc, now, ran, lived>>
  <2>1. rows \in [Keys -> Rows \cup {NoRow}]
    BY DEF TypeOK, StorageOK, Storage, Stored
  <2> QED BY <2>1 DEF DeleteSession, ClearGame, disk, memory, poll, world
<1>2. StorageFair(c, Stored')
  BY <1>1, FairLess DEF Books
<1>3. QueueFair(c, queue') /\ Paid(c, active') /\ Marked /\ Steady
  BY <1>1 DEF Books, Marked, Steady
<1>4. Horizon <= Horizon'
  BY <1>1 DEF Horizon, TypeOK
<1> QED BY <1>2, <1>3, <1>4, BooksStill

\* Processes start games, change them and exit.
LEMMA GamesBooks ==
  ASSUME TypeOK, TypeOK', NEW c, Books(c),
         \/ \E p \in Procs, g \in Games : StartGame(p, g) \/ SwitchGame(p, g)
         \/ \E p \in Procs : ExitGame(p)
  PROVE  \E d : Books(d)'
<1>1. UNCHANGED <<rows, journal, active, queue, pc, now, ran, lived>>
  BY DEF StartGame, SwitchGame, ExitGame, database, disk, memory, poll
<1>2. StorageFair(c, Stored')
  BY <1>1, FairUntouched
<1>3. QueueFair(c, queue') /\ Paid(c, active') /\ Marked /\ Steady
  BY <1>1 DEF Books, Marked, Steady
<1>4. Horizon <= Horizon'
  BY <1>1 DEF Horizon, TypeOK
<1> QED BY <1>2, <1>3, <1>4, BooksStill

\* Following one session leaves the others paid and marked.
LEMMA PursuedIs ==
  ASSUME TypeOK, NEW c, Paid(c, active), NEW sl \in Slots, Pursues(c, active', sl), now' = now
  PROVE  Paid(c, active') /\ Marked
<1>1. CASE active' = active
  BY <1>1 DEF Paid, Marked
<1>2. ASSUME NEW s \in Sessions, active' = [active EXCEPT ![sl] = s], SessionFair(c, s),
             IF active[sl] = NoSession THEN s.mark = now ELSE s.mark = active[sl].mark
      PROVE  Paid(c, active') /\ Marked
  <2>1. \A t \in Slots : active'[t] = IF t = sl THEN s ELSE active[t]
    BY <1>2 DEF TypeOK, Filled
  <2> QED BY <1>2, <2>1 DEF Paid, Marked
<1> QED BY <1>1, <1>2 DEF Pursues

\* The recorder watches: storage knows of no play after a session's mark.
LEMMA BooksWatch ==
  ASSUME TypeOK, NEW c, Books(c),
         pc \in {"retry", "drain"} \/ \A s \in Slots : active[s] # NoSession => active[s].mark = now
  PROVE  Watching(c)
<1>1. now \in Nat /\ Filled /\ c.till = Horizon
  BY DEF TypeOK, Books
<1>2. c.till <= now
  BY <1>1 DEF Horizon
<1>3. ASSUME NEW s \in Slots, active[s] # NoSession
      PROVE  SessionFair(c, active[s]) /\ c.till <= active[s].mark
  <2>1. SessionFair(c, active[s])
    BY <1>3 DEF Books, Paid
  <2>2. now - 1 <= active[s].mark
    BY <2>1 DEF SessionFair
  <2>3. CASE pc \in {"retry", "drain"}
    BY <1>1, <2>1, <2>2, <2>3 DEF Horizon
  <2>4. CASE active[s].mark = now
    BY <1>2, <2>1, <2>4
  <2> QED BY <1>3, <2>3, <2>4
<1> QED BY <1>1, <1>2, <1>3 DEF Watching, Books

\* An open entry takes what the journal says of its session.
LEMMA FairRefreshed ==
  ASSUME TypeOK, NEW c, StorageFair(c, Stored), NEW o \in Operations, OpFair(c, o)
  PROVE  OpFair(c, Refreshed(o)) /\ (~o.open => ~Refreshed(o).open)
<1>1. CASE o.open /\ jok /\ journal[o.key] # NoOp
  <2> DEFINE j == journal[o.key]
             r == [j EXCEPT !.slot = o.slot]
  <2>1. j \in Operations /\ OpFair(c, j) /\ o.open
    <3>1. o.key \in Keys
      BY DEF Operations
    <3> QED BY <1>1, <3>1 DEF TypeOK, StorageOK, Storage, Stored, StorageFair
  <2>2. Refreshed(o) = r
    BY <1>1 DEF Refreshed
  <2> HIDE DEF j
  <2>3. /\ r.key = j.key /\ r.start = j.start /\ r.secs = j.secs /\ r.open = j.open /\ r.obs = j.obs
        /\ r.end = j.end
    <3>1. j \in Operations
      BY <2>1
    <3> QED BY <3>1 DEF Operations
  <2> HIDE DEF r
  <2> QED BY <2>1, <2>2, <2>3 DEF OpFair, OpTill
<1>2. CASE ~(o.open /\ jok /\ journal[o.key] # NoOp)
  BY <1>2 DEF Refreshed
<1> QED BY <1>1, <1>2

\* A queued close or checkpoint is retried with what is fair.
LEMMA RetryBooks ==
  ASSUME TypeOK, TypeOK', NEW c, Books(c), Retry
  PROVE  \E d : Books(d)'
<1> DEFINE e == queue[at]
           o == Refreshed(e.op)
<1>1. pc = "retry" /\ at \in 1 .. Len(queue) /\ UNCHANGED <<pc, now, ran, lived>>
  BY DEF Retry, TypeOK, world
<1>2. PICK x \in Attempt(e) : /\ Store(x.r.st) /\ active' = x.active
                              /\ queue' = queue \/ queue' = RemoveAt(queue, at)
  BY DEF Retry
<1>3. e \in Entries /\ e.op \in Operations /\ EntryFair(c, e) /\ Watching(c) /\ StorageFair(c, Stored)
  BY <1>1, EntryIs, BooksWatch DEF Books, QueueFair
<1> HIDE DEF e
<1>4. o \in Operations /\ OpFair(c, o) /\ o.slot \in Slots /\ (e.id > 0 => ~o.open)
  <2>1. o \in Operations /\ OpFair(c, o) /\ (e.id > 0 => ~o.open)
    BY <1>3, RefreshedOn, FairRefreshed DEF EntryFair
  <2> QED BY <2>1 DEF Operations
<1> HIDE DEF o
<1>5. StorageFair(c, x.r.st) /\ Pursues(c, x.active, o.slot)
  <2>1. CASE ~(e.id > 0)
    <3>1. x \in Apply(o)
      BY <1>2, <2>1 DEF Attempt, o
    <3> QED BY <1>3, <1>4, <3>1, FairApply
  <2>2. CASE e.id > 0
    <3> DEFINE f == [e EXCEPT !.op = o]
    <3>1. f \in Entries /\ f.op = o
      BY <1>3, <1>4 DEF Entries
    <3>2. PICK r \in Finalize(Stored, f) : x = [r |-> r, active |-> active]
      BY <1>2, <2>2 DEF Attempt, o
    <3>3. ~f.op.open /\ OpFair(c, f.op)
      BY <1>4, <2>2, <3>1
    <3> HIDE DEF f
    <3>4. StorageFair(c, r.st)
      BY <1>3, <3>1, <3>2, <3>3, FairFinalize
    <3> QED BY <3>2, <3>4 DEF Pursues
  <2> QED BY <2>1, <2>2
<1>6. StorageFair(c, Stored')
  BY <1>2, <1>5, FairStore
<1>7. Paid(c, active') /\ Marked
  <2>1. Pursues(c, active', o.slot) /\ Paid(c, active)
    BY <1>2, <1>5 DEF Books
  <2> QED BY <1>1, <1>4, <2>1, PursuedIs
<1>8. QueueFair(c, queue')
  <2>1. queue \in Seq(Entries) /\ QueueFair(c, queue)
    BY DEF TypeOK, Books
  <2>2. \A j \in 1 .. Len(RemoveAt(queue, at)) : \E n \in 1 .. Len(queue) : RemoveAt(queue, at)[j] = queue[n]
    BY <1>1, <2>1, RemoveAtOn
  <2>3. QueueFair(c, RemoveAt(queue, at))
    BY <2>1, <2>2, FairFewer
  <2> QED BY <1>2, <2>1, <2>3
<1>9. Horizon <= Horizon' /\ Steady
  BY <1>1 DEF Horizon, TypeOK, Steady
<1> QED BY <1>6, <1>7, <1>8, <1>9, BooksStill

\* A journaled operation is applied beside the active sessions.
LEMMA DrainBooks ==
  ASSUME TypeOK, TypeOK', NEW c, Books(c), NEW k \in Keys, Drain(k)
  PROVE  \E d : Books(d)'
<1> DEFINE o == journal[k]
<1>1. pc = "drain" /\ o # NoOp /\ UNCHANGED <<pc, queue, now, ran, lived>>
  BY DEF Drain, TypeOK, Loops, world
<1>2. PICK x \in Apply(o) : Store(x.r.st) /\ active' = x.active
  BY DEF Drain
<1>3. o \in Operations /\ o.slot \in Slots /\ OpFair(c, o) /\ Watching(c)
  <2>1. o \in Operations /\ Watching(c)
    BY <1>1, JournaledIs, BooksWatch
  <2>2. OpFair(c, o)
    BY <1>1 DEF Books, StorageFair, Stored
  <2> QED BY <2>1, <2>2 DEF Operations
<1> HIDE DEF o
<1>4. StorageFair(c, x.r.st) /\ Pursues(c, x.active, o.slot)
  BY <1>2, <1>3, FairApply
<1>5. StorageFair(c, Stored')
  BY <1>2, <1>4, FairStore
<1>6. Paid(c, active') /\ Marked
  <2>1. Pursues(c, active', o.slot) /\ Paid(c, active)
    BY <1>2, <1>4 DEF Books
  <2> QED BY <1>1, <1>3, <2>1, PursuedIs
<1>7. Horizon <= Horizon' /\ Steady /\ QueueFair(c, queue')
  BY <1>1 DEF Horizon, TypeOK, Steady, Books
<1> QED BY <1>5, <1>6, <1>7, BooksStill

\* The journal is replayed at the start, when the sessions followed are
\* followed since now.
LEMMA ReplayBooks ==
  ASSUME TypeOK, TypeOK', NEW c, Books(c), NEW k \in Keys, Replay(k),
         \A s \in Slots : active[s] # NoSession => active[s].mark = now
  PROVE  (\E d : Books(d)') /\ Marked
<1> DEFINE o == journal[k]
<1>1. pc = "replay" /\ o # NoOp /\ UNCHANGED <<pc, now, ran, lived>>
  BY DEF Replay, TypeOK, Loops, world
<1>2. PICK x \in Apply(o) : /\ Store(x.r.st) /\ active' = x.active
                            /\ queue' = queue \/ queue' = Append(queue, [id |-> 0, op |-> o])
  BY DEF Replay
<1>3. o \in Operations /\ o.slot \in Slots /\ OpFair(c, o) /\ Watching(c)
  <2>1. o \in Operations /\ Watching(c)
    BY <1>1, JournaledIs, BooksWatch
  <2>2. OpFair(c, o)
    BY <1>1 DEF Books, StorageFair, Stored
  <2> QED BY <2>1, <2>2 DEF Operations
<1> HIDE DEF o
<1>4. StorageFair(c, x.r.st) /\ Pursues(c, x.active, o.slot)
  BY <1>2, <1>3, FairApply
<1>5. StorageFair(c, Stored')
  BY <1>2, <1>4, FairStore
<1>6. Paid(c, active') /\ Marked
  <2>1. Pursues(c, active', o.slot) /\ Paid(c, active)
    BY <1>2, <1>4 DEF Books
  <2> QED BY <1>1, <1>3, <2>1, PursuedIs
<1>7. QueueFair(c, queue')
  <2> DEFINE e == [id |-> 0, op |-> o]
             q == Append(queue, e)
  <2>1. e \in Entries /\ EntryFair(c, e)
    BY <1>3 DEF Entries, EntryFair
  <2> HIDE DEF e
  <2>2. queue \in Seq(Entries) /\ QueueFair(c, queue)
    BY DEF TypeOK, Books
  <2>3. /\ Len(q) = Len(queue) + 1 /\ Len(queue) \in Nat
        /\ \A j \in 1 .. Len(queue) : q[j] = queue[j]
        /\ q[Len(queue) + 1] = e
    BY <2>1, <2>2, AppendProperties, LenProperties
  <2> HIDE DEF q
  <2>4. ASSUME NEW j \in 1 .. Len(q) PROVE EntryFair(c, q[j])
    <3>1. j = Len(queue) + 1 \/ j \in 1 .. Len(queue)
      BY <2>3
    <3> QED BY <2>1, <2>2, <2>3, <3>1 DEF QueueFair
  <2>5. QueueFair(c, q)
    BY <2>4 DEF QueueFair
  <2> QED BY <1>2, <2>2, <2>5 DEF q, e
<1>8. Horizon <= Horizon' /\ Steady
  BY <1>1 DEF Horizon, TypeOK, Steady
<1>9. \E d : Books(d)'
  BY <1>5, <1>6, <1>7, <1>8, BooksStill
<1> QED BY <1>6, <1>9

\* A row left open is ended at its heartbeat, adopted or queued.
LEMMA RecoverBooks ==
  ASSUME TypeOK, TypeOK', NEW c, Books(c), NEW k \in Keys, Recover(k),
         \A s \in Slots : active[s] # NoSession => active[s].mark = now
  PROVE  (\E d : Books(d)') /\ Marked
<1>1. pc = "recover" /\ k \in work /\ Open(Stored, k) /\ UNCHANGED <<pc, now, ran, lived>>
  BY DEF Recover, TypeOK, Loops, world
<1>2. /\ rows[k] \in Rows /\ rows[k].end = 0 /\ rows[k].slot \in Slots /\ rows[k].id \in Nat
      /\ IsRow(Stored, k, rows[k].id) /\ RowFair(c, k, rows[k])
  <2>1. rows[k] # NoRow /\ rows[k].end = 0 /\ Stored.rows = rows
    BY <1>1 DEF Open, Stored
  <2>2. rows[k] \in Rows
    BY <2>1 DEF TypeOK, StorageOK, Storage
  <2>3. RowFair(c, k, rows[k])
    BY <2>1 DEF Books, StorageFair
  <2> QED BY <2>1, <2>2, <2>3 DEF Rows, IsRow
<1>3. /\ Watching(c) /\ StorageFair(c, Stored) /\ QueueFair(c, queue) /\ Paid(c, active)
      /\ epoch \in [Games -> Nat] /\ queue \in Seq(Entries) /\ StorageOK(Stored)
  BY <1>1, BooksWatch DEF Books, TypeOK
<1>4. PICK e \in Ends(Stored, k) \cup {No(Stored)} :
        \/ e.ok /\ Store(e.st) /\ UNCHANGED memory
        \/ \E x \in Survives(e.st, k) :
             Store(x.st) /\ active' = x.active /\ queue' = x.queue
  BY DEF Recover
<1> DEFINE K == {k}
           I == {}
           owns(st) == Owns(st, rows[k].id, K, I)
<1>5. owns(Stored)
  BY <1>2 DEF Owns, IsRow, TypeOK, StorageOK
<1>6. StorageFair(c, e.st) /\ owns(e.st)
  <2>1. \A y \in Ends(Stored, k) : StorageFair(c, y.st)
    BY <1>2, <1>3, <1>5, FairEnds, Zenon
  <2>2. k \in K
    OBVIOUS
  <2>3. \A y \in Ends(Stored, k) : Alters(Stored, y.st, {k}, rows[k].slot, {})
    <3> DEFINE L == {k}
    <3>1. k \in L
      OBVIOUS
    <3> HIDE DEF L
    <3>2. \A y \in Ends(Stored, k) : Alters(Stored, y.st, L, rows[k].slot, {})
      BY <1>2, <1>3, <3>1, Basics, EndsOn
    <3> QED BY <3>2 DEF L
  <2>4. No(Stored).st = Stored
    BY DEF No
  <2>5. e \in Ends(Stored, k) => owns(e.st)
    <3> SUFFICES ASSUME e \in Ends(Stored, k) PROVE owns(e.st)
      OBVIOUS
    <3>1. Alters(Stored, e.st, {k}, rows[k].slot, {})
      BY <2>3
    <3>2. Extends(Stored, e.st, {k}, rows[k].slot, {}) /\ StorageOK(e.st)
      BY <3>1 DEF Alters, Extends, Writes
    <3>3. Writes(Stored, e.st, {k}, rows[k].slot, {})
      BY <3>2 DEF Extends
    <3>4. IsRow(e.st, k, rows[k].id)
      BY <1>2, <3>3 DEF IsRow, Writes
    <3> QED BY <3>2, <3>4 DEF Owns, IsRow, StorageOK
  <2> HIDE DEF owns
  <2> QED BY <1>3, <1>4, <1>5, <2>1, <2>4, <2>5
<1>7. \E st : /\ Store(st) /\ StorageFair(c, st) /\ QueueFair(c, queue')
              /\ Pursues(c, active', rows[k].slot)
  <2>1. CASE e.ok /\ Store(e.st) /\ UNCHANGED memory
    BY <1>3, <1>6, <2>1 DEF memory, Pursues
  <2>2. ASSUME NEW x \in Survives(e.st, k), Store(x.st), active' = x.active, queue' = x.queue
        PROVE  StorageFair(c, x.st) /\ QueueFair(c, queue') /\ Pursues(c, active', rows[k].slot)
    <3>1. \A y \in Survives(e.st, k) :
            StorageFair(c, y.st) /\ QueueFair(c, y.queue) /\ Pursues(c, y.active, rows[k].slot)
      BY <1>2, <1>3, <1>6, FairSurvives, Zenon
    <3> QED BY <2>2, <3>1
  <2> QED BY <1>4, <2>1, <2>2
<1>8. PICK st : /\ Store(st) /\ StorageFair(c, st) /\ QueueFair(c, queue')
                /\ Pursues(c, active', rows[k].slot)
  BY <1>7
<1>9. StorageFair(c, Stored')
  BY <1>8, FairStore
<1>10. Paid(c, active') /\ Marked
  BY <1>1, <1>2, <1>3, <1>8, PursuedIs
<1>11. Horizon <= Horizon' /\ Steady
  BY <1>1 DEF Horizon, TypeOK, Steady
<1>12. \E d : Books(d)'
  BY <1>8, <1>9, <1>10, <1>11, BooksStill
<1> QED BY <1>10, <1>12

\* endAllSessions() claims no more than the rows did.
LEMMA SweepDoneBooks ==
  ASSUME TypeOK, TypeOK', NEW c, Books(c), SweepDone
  PROVE  \E d : Books(d)'
<1>1. /\ pc = "sweep" /\ pc' = "idle"
      /\ UNCHANGED <<active, queue, now, ran, lived>>
  BY DEF SweepDone, memory, world
<1> DEFINE ended == AllEnded(Stored)
<1>2. PICK st \in {ended, Refused(Stored), Stored} : Store(st)
  BY DEF SweepDone
<1>3. /\ StorageFair(c, Stored) /\ Stored \in Storage /\ Stored.rows = rows /\ Stored.journal = journal
      /\ c.till = now /\ now \in Nat
  BY <1>1 DEF TypeOK, StorageOK, Stored, Books, Horizon
<1>4. /\ ended.journal = journal
      /\ \A k \in Keys : \/ ended.rows[k] = rows[k]
                         \/ /\ rows[k] # NoRow /\ rows[k].end = 0
                            /\ ended.rows[k] = [rows[k] EXCEPT !.end = now,
                                   !.secs = IF rows[k].beat > rows[k].start THEN @ ELSE 0]
  <2> DEFINE f == [k \in Keys |->
                     IF Open(Stored, k)
                     THEN [Stored.rows[k] EXCEPT !.end = now,
                            !.secs = IF Stored.rows[k].beat > Stored.rows[k].start THEN @ ELSE 0]
                     ELSE Stored.rows[k]]
  <2>1. ended = [Stored EXCEPT !.rows = f]
    BY DEF AllEnded
  <2>3. \A k \in Keys : \/ f[k] = rows[k]
                        \/ /\ rows[k] # NoRow /\ rows[k].end = 0
                           /\ f[k] = [rows[k] EXCEPT !.end = now,
                                   !.secs = IF rows[k].beat > rows[k].start THEN @ ELSE 0]
    BY <1>3 DEF Open
  <2> HIDE DEF f, ended
  <2>4. ended.rows = f /\ ended.journal = journal
    BY <1>3, <2>1 DEF Storage
  <2> QED BY <2>3, <2>4
<1> HIDE DEF ended
<1>5. ASSUME NEW k \in Keys PROVE ended.rows[k] = rows[k] \/ RowFair(c, k, ended.rows[k])
  <2> DEFINE r == rows[k]
             secs == IF r.beat > r.start THEN r.secs ELSE 0
             row == [r EXCEPT !.end = now, !.secs = secs]
  <2> SUFFICES ASSUME r # NoRow, r.end = 0, ended.rows[k] = row
               PROVE  RowFair(c, k, row)
    BY <1>4
  <2>1. r \in Rows /\ RowFair(c, k, r)
    BY <1>3 DEF Storage, StorageFair
  <2> HIDE DEF r
  <2>2. Credited(c, k, r.start, r.secs, Later(0, r.beat)) /\ r.beat \in Int /\ r.beat <= now
    BY <1>3, <2>1 DEF RowFair
  <2>3. secs \in Nat /\ Credited(c, k, r.start, secs, Later(now, r.beat))
    <3> DEFINE till == Later(now, r.beat)
    <3>1. till \in Int /\ Later(0, r.beat) \in Int /\ Later(0, r.beat) <= till /\ till = now
      BY <1>3, <2>2 DEF Later
    <3> HIDE DEF till
    <3>2. Credited(c, k, r.start, r.secs, till)
      BY <2>2, <3>1, CreditedLater
    <3>3. r.start <= now
      BY <3>1, <3>2 DEF Credited
    <3> QED BY <3>1, <3>2, <3>3 DEF Credited, till
  <2> HIDE DEF secs
  <2>4. row.end = now /\ row.secs = secs /\ row.beat = r.beat /\ row.start = r.start
    <3>1. r \in Rows
      BY <2>1
    <3> QED BY <3>1 DEF Rows
  <2> HIDE DEF row
  <2> QED BY <1>3, <2>2, <2>3, <2>4 DEF RowFair
<1>6. StorageFair(c, Stored')
  <2>1. StorageOK(Stored') /\ Stored'.rows = st.rows /\ Stored'.journal = st.journal
    BY <1>2 DEF TypeOK, Store, Stored
  <2>2. CASE st = ended
    <3>1. \A k \in Keys : Stored'.rows[k] = Stored.rows[k] \/ RowFair(c, k, Stored'.rows[k])
      BY <1>3, <1>5, <2>1, <2>2
    <3>2. \A k \in Keys : Stored'.journal[k] = Stored.journal[k]
      BY <1>3, <1>4, <2>1, <2>2
    <3>3. PICK u : u = Stored'
      OBVIOUS
    <3>4. StorageFair(c, u)
      BY <1>3, <2>1, <3>1, <3>2, <3>3, FairMerged
    <3> QED BY <3>3, <3>4
  <2>3. CASE st # ended
    BY <1>2, <1>3, <2>3, FairStore, FairRefused
  <2> QED BY <2>2, <2>3
<1>7. QueueFair(c, queue') /\ Paid(c, active') /\ Marked /\ Steady
  BY <1>1 DEF Books, Marked, Steady
<1>8. Horizon <= Horizon'
  BY <1>1 DEF Horizon, TypeOK
<1> QED BY <1>6, <1>7, <1>8, BooksStill

\* The active sessions were billed for the last poll, and stand for
\* processes that ran then, one each.
Alone ==
  /\ \A s \in Slots : active[s] # NoSession => active[s].mark = now /\ s[1] \in ran
  /\ \A s, t \in Slots : active[s] # NoSession /\ active[t] # NoSession /\ s[1] = t[1] => s = t

\* A poll is lived by the processes that ran, and billed to as many
\* sessions at most.
LEMMA PassesBooks ==
  ASSUME TypeOK, TypeOK', NEW c, Books(c), ran \subseteq Procs, Alone, Passes,
         UNCHANGED <<rows, journal, active, queue>>, pc' \in {"down", "retry", "match"}
  PROVE  \E d : Books(d)'
<1> DEFINE here == {s \in Slots : active[s] # NoSession}
<1>0. PICK d, U : d = [start |-> c.start, play |-> c.play, till |-> Horizon'] /\ U = here
  OBVIOUS
<1>1. /\ now \in Nat /\ now' = now + 1 /\ lived' = lived + Cardinality(ran) /\ lived \in Nat
      /\ c.till = Horizon
  BY DEF TypeOK, Passes, Books
<1>2. c.till <= Horizon' /\ c.till \in Int /\ Horizon' \in Int
  BY <1>1 DEF Horizon
<1>3. Grown(c, d) /\ d.till = Horizon' /\ d.play = c.play
  BY <1>0, <1>2 DEF Grown
<1>4. StorageFair(d, Stored') /\ QueueFair(d, queue')
  <2>1. StorageFair(c, Stored')
    BY FairUntouched
  <2> QED BY <1>3, <2>1, MoreStorage, MoreQueue DEF Books
<1>5. Paid(d, active)'
  <2>1. \A s \in Slots : active[s] # NoSession => SessionFair(d, active[s]) /\ active[s].mark = now
    BY <1>3, MoreSession DEF Books, Paid, Alone
  <2> QED BY <1>1, <2>1 DEF Paid, SessionFair
<1>6. Cardinality(U) <= Cardinality(ran) /\ IsFiniteSet(U) /\ IsFiniteSet(ran) /\ Cardinality(ran) \in Nat
  <2>1. IsFiniteSet(ran) /\ Cardinality(ran) \in Nat
    BY FiniteAssumption, FS_Subset, FS_CardinalityType
  <2> DEFINE f == [s \in here |-> s[1]]
  <2>2. f \in Injection(here, ran)
    <3>1. f \in [here -> ran]
      BY DEF Alone
    <3>2. \A s, t \in here : f[s] = f[t] => s = t
      BY DEF Alone
    <3> HIDE DEF f
    <3> QED BY <3>1, <3>2 DEF Injection, IsInjective
  <2> HIDE DEF here, f
  <2>4. IsFiniteSet(here) /\ Cardinality(here) <= Cardinality(ran)
    BY <2>1, <2>2, FS_Injection
  <2> QED BY <1>0, <2>1, <2>4
<1>7. IsFiniteSet(c.play) /\ Cardinality(c.play) <= lived /\ Cardinality(c.play) \in Nat
  <2>1. Unbilled = {}
    BY DEF Unbilled, Alone
  <2>2. Cardinality(Unbilled) = 0
    BY <2>1, FS_EmptySet
  <2>3. IsFiniteSet(c.play) /\ Cardinality(c.play) + Cardinality(Unbilled) <= lived
    BY DEF Books, Balanced
  <2>4. Cardinality(c.play) \in Nat
    BY <2>3, FS_CardinalityType
  <2> QED BY <2>2, <2>3, <2>4, <1>1
<1>8. Balanced(d, Unbilled)'
  <2>1. Unbilled' \subseteq U
    BY <1>0 DEF Unbilled
  <2>2. IsFiniteSet(Unbilled') /\ Cardinality(Unbilled') <= Cardinality(U) /\ Cardinality(Unbilled') \in Nat /\ Cardinality(U) \in Nat
    BY <1>6, <2>1, FS_Subset, FS_CardinalityType
  <2> QED BY <1>1, <1>3, <1>6, <1>7, <2>2 DEF Balanced
<1>9. lived' \in Nat
  BY <1>1, <1>6
<1> QED BY <1>3, <1>4, <1>5, <1>8, <1>9 DEF Books

\* The books after a step that bills the session u of a slot z for the
\* last poll.
LEMMA BooksBilled ==
  ASSUME TypeOK, Steady, NEW c, Books(c), NEW u, NEW z, u.mark # now => z \in Unbilled,
         StorageFair(Billing(c, u), Stored'), QueueFair(Billing(c, u), queue'), Paid(Billing(c, u), active'),
         Unbilled' \subseteq Unbilled \ {z}, Horizon' = Horizon
  PROVE  \E d : Books(d)'
<1>0. PICK d, U : d = Billing(c, u) /\ U = Unbilled \ {z}
  OBVIOUS
<1>1. lived \in Nat /\ d.till = Horizon'
  BY <1>0 DEF Books, Billing
<1>2. Balanced(d, U)
  <2> DEFINE V == Unbilled
  <2>1. Balanced(c, V) /\ (u.mark # now => z \in V) /\ U = V \ {z}
    BY <1>0 DEF Books
  <2> HIDE DEF V
  <2>2. Balanced(Billing(c, u), V \ {z})
    BY <1>1, <2>1, BilledBalance
  <2> QED BY <1>0, <2>1, <2>2
<1>3. StorageFair(d, Stored') /\ QueueFair(d, queue') /\ Paid(d, active')
  BY <1>0
<1>4. Unbilled' \subseteq U
  BY <1>0
<1>5. Books(d)'
  BY <1>1, <1>2, <1>3, <1>4, BooksAre
<1> QED BY <1>5

\* A session's identifier names its own row.
LEMMA ItsOwn ==
  ASSUME IdsNameOwnRow, NEW s \in Slots, active[s] # NoSession
  PROVE  Owns(Stored, active[s].id, {active[s].key}, {})
BY DEF IdsNameOwnRow, Owns, Stored

\* A title keeps a session going: it is billed.
LEMMA SweepGraceBooks ==
  ASSUME TypeOK, TypeOK', IdsNameOwnRow, NEW c, Books(c), NEW s \in Slots, SweepGrace(s)
  PROVE  (\E d : Books(d)') /\ active'[s].mark = now
<1> DEFINE a == active[s]
           b == [a EXCEPT !.missed = @ + 1]
           d == Billing(c, b)
<1>1. /\ pc = "sweep" /\ s \in work /\ a # NoSession /\ UNCHANGED <<pc, queue, now, ran, lived>>
  BY DEF SweepGrace, TypeOK, Loops, world
<1>2. a \in Sessions /\ a.paused \in BOOLEAN /\ SessionFair(c, a)
  BY <1>1 DEF TypeOK, Filled, Sessions, Books, Paid
<1>3. PICK x \in Continue(Stored, b, a.paused) : Store(x.st) /\ active' = [active EXCEPT ![s] = x.s]
  BY DEF SweepGrace
<1>4. Owns(Stored, a.id, {a.key}, {})
  BY <1>1, ItsOwn
<1>5. (a.mark # now => s \in Unbilled) /\ \A t \in Slots : t # s /\ active[t] # NoSession => SessionFair(c, active[t])
  BY <1>1 DEF Unbilled, Books, Paid
<1>6. \A t \in Slots : active'[t] = IF t = s THEN x.s ELSE active[t]
  BY <1>3 DEF TypeOK, Filled
<1> HIDE DEF a
<1>7. /\ b \in Sessions /\ b.key = a.key /\ b.id = a.id /\ b.start = a.start /\ b.secs = a.secs
      /\ b.mark = a.mark /\ b.titled = a.titled /\ b.slot = a.slot
  BY <1>2 DEF Sessions
<1> HIDE DEF b
<1>8. SessionFair(c, b) /\ Owns(Stored, b.id, {b.key}, {})
  BY <1>2, <1>4, <1>7 DEF SessionFair
<1>9. /\ StorageFair(c, Stored) /\ epoch \in [Games -> Nat] /\ now \in Int /\ c.till = now
  BY <1>1 DEF Books, TypeOK, Horizon
<1>10. StorageFair(d, x.st) /\ SessionFair(d, x.s) /\ x.s.mark = now
  BY <1>2, <1>3, <1>7, <1>8, <1>9, FairContinue
<1>11. Grown(c, d)
  BY <1>9, BillingGrows
<1> HIDE DEF d
<1>12. QueueFair(d, queue')
  BY <1>1, <1>11, MoreQueue DEF Books
<1>13. Paid(d, active')
  BY <1>5, <1>6, <1>10, <1>11, MoreSession DEF Paid
<1>14. StorageFair(d, Stored')
  <2>1. PICK y : y = d
    OBVIOUS
  <2>2. StorageFair(y, Stored')
    BY <1>3, <1>10, <2>1, FairStore
  <2> QED BY <2>1, <2>2
<1>15. Unbilled' \subseteq Unbilled \ {s}
  BY <1>1, <1>6, <1>10 DEF Unbilled
<1>16. Steady /\ Horizon' = Horizon
  BY <1>1 DEF Steady, Horizon
<1>17. b.mark # now => s \in Unbilled
  BY <1>5, <1>7
<1>18. \E f : Books(f)'
  <2>1. PICK u : u = b
    OBVIOUS
  <2>2. /\ u.mark # now => s \in Unbilled
        /\ StorageFair(Billing(c, u), Stored') /\ QueueFair(Billing(c, u), queue') /\ Paid(Billing(c, u), active')
    BY <1>12, <1>13, <1>14, <1>17, <2>1 DEF d
  <2> QED BY <1>15, <1>16, <2>2, BooksBilled
<1> QED BY <1>6, <1>10, <1>18

\* A session that ends is billed.
LEMMA SweepCloseBooks ==
  ASSUME TypeOK, TypeOK', IdsNameOwnRow, NEW c, Books(c), NEW s \in Slots, SweepClose(s)
  PROVE  \E d : Books(d)'
<1>0. PICK a : a = active[s]
  OBVIOUS
<1> DEFINE d == Billing(c, a)
<1>1. /\ pc = "sweep" /\ s \in work /\ a # NoSession /\ UNCHANGED <<pc, now, ran, lived>>
  BY <1>0 DEF SweepClose, TypeOK, Loops, world
<1>2. a \in Sessions /\ SessionFair(c, a)
  BY <1>0, <1>1 DEF TypeOK, Filled, Books, Paid
<1>3. PICK x \in Close(Stored, a) : Store(x.st) /\ queue' = x.queue
  BY <1>0 DEF SweepClose
<1>4. Owns(Stored, a.id, {a.key}, {})
  BY <1>0, <1>1, ItsOwn
<1>5. /\ a.mark # now => s \in Unbilled
      /\ \A t \in Slots : active'[t] = IF t = s THEN NoSession ELSE active[t]
  BY <1>0, <1>1 DEF Unbilled, SweepClose, TypeOK, Filled
<1>6. /\ StorageFair(c, Stored) /\ QueueFair(c, queue) /\ queue \in Seq(Entries)
      /\ epoch \in [Games -> Nat] /\ now \in Nat /\ now \in Int /\ c.till = now
  BY <1>1 DEF Books, TypeOK, Horizon
<1>7. StorageFair(d, x.st) /\ QueueFair(d, queue')
  BY <1>2, <1>3, <1>4, <1>6, FairClose
<1>8. Grown(c, d)
  BY <1>6, BillingGrows
<1> HIDE DEF d
<1>9. Paid(d, active')
  BY <1>5, <1>8, MoreSession DEF Paid, Books
<1>10. StorageFair(d, Stored')
  <2>1. PICK y : y = d
    OBVIOUS
  <2>2. StorageFair(y, Stored')
    BY <1>3, <1>7, <2>1, FairStore
  <2> QED BY <2>1, <2>2
<1>11. Unbilled' \subseteq Unbilled \ {s}
  BY <1>1, <1>5 DEF Unbilled
<1>12. Steady /\ Horizon' = Horizon
  BY <1>1 DEF Steady, Horizon
<1> QED BY <1>5, <1>7, <1>9, <1>10, <1>11, <1>12, BooksBilled DEF d

\* No row is added, and each keeps its identifier.
Fewer(st, t) == \A k \in Keys : t.rows[k] # NoRow => st.rows[k] # NoRow /\ t.rows[k].id = st.rows[k].id

\* An identifier that named no other row still names none.
LEMMA OwnsFewer ==
  ASSUME NEW st, NEW t, Fewer(st, t), NEW i, NEW K, Owns(st, i, K, {})
  PROVE  Owns(t, i, K, {})
BY DEF Fewer, Owns

\* A write for no key and no identifier adds no row.
LEMMA AltersNone ==
  ASSUME NEW st, NEW t, NEW sl, Alters(st, t, {}, sl, {})
  PROVE  Fewer(st, t) /\ StorageOK(t)
BY DEF Alters, Extends, Writes, Fewer

\* closeSession() adds no row.
LEMMA CloseAddsNone ==
  ASSUME NEW st, StorageOK(st), NEW s \in Sessions,
         epoch \in [Games -> Nat], now \in Int, queue \in Seq(Entries), tried \in Int
  PROVE  \A c \in Close(st, s) : Fewer(st, c.st)
<1> SUFFICES ASSUME NEW c \in Close(st, s)
             PROVE  Fewer(st, c.st)
  OBVIOUS
<1> DEFINE o == Observed(s)
<1>1. /\ Billed(o) /\ o.key \in Keys /\ o.secs \in Int /\ o.ivs \in Int \cup {NoIntervals} /\ s.id \in Nat
  <2>1. Same(s, o) /\ o.id = s.id
    BY ObservedOn
  <2> HIDE DEF o
  <2> QED BY <2>1, SessionIs DEF Same, Billed
<1> HIDE DEF o
<1> DEFINE ended(e) == IF e.ok THEN Intervals(e.st, o.key, o.ivs) ELSE {No(e.st)}
           ends == IF s.id > 0 THEN UNION {ended(e) : e \in End(st, s.id, now, o.secs)} ELSE {No(st)}
           left1(e) == IF e.ok THEN {[st |-> e.st, queue |-> queue, tried |-> tried]}
                       ELSE QueuePending(e.st, s.id, o, now)
<1>2. Close(st, s) = UNION {left1(e) : e \in ends}
  BY DEF Close, o
<1>3. PICK e \in ends : c \in left1(e)
  <2> HIDE DEF ends, left1
  <2> QED BY <1>2
<1>4. Fewer(st, e.st) /\ StorageOK(e.st)
  <2>1. CASE e = No(st)
    BY <2>1 DEF No, Fewer
  <2>2. CASE s.id > 0 /\ e \in UNION {ended(f) : f \in End(st, s.id, now, o.secs)}
    <3>1. PICK f \in End(st, s.id, now, o.secs) : e \in ended(f)
      <4> HIDE DEF ended
      <4> QED BY <2>2
    <3>2. Fewer(st, f.st) /\ StorageOK(f.st)
      <4>1. Alters(st, f.st, {}, s.slot, {})
        BY <1>1, EndOn
      <4> QED BY <4>1, AltersNone
    <3>3. Fewer(f.st, e.st) /\ StorageOK(e.st)
      <4>1. \A u \in Intervals(f.st, o.key, o.ivs) : Alters(f.st, u.st, {}, s.slot, {})
        BY <1>1, <3>2, IntervalsOn
      <4>2. \A u \in Intervals(f.st, o.key, o.ivs) : Fewer(f.st, u.st) /\ StorageOK(u.st)
        BY <4>1, AltersNone
      <4>3. Fewer(f.st, No(f.st).st) /\ StorageOK(No(f.st).st)
        BY <3>2 DEF No, Fewer
      <4> QED BY <3>1, <4>2, <4>3
    <3> QED BY <3>2, <3>3 DEF Fewer
  <2> QED BY <1>3, <2>1, <2>2
<1>6. CASE c = [st |-> e.st, queue |-> queue, tried |-> tried]
  BY <1>4, <1>6
<1>7. CASE c \in QueuePending(e.st, s.id, o, now)
  <2>1. c.st.rows = e.st.rows
    <3> DEFINE K == {o.key}
    <3>1. o.key \in K
      OBVIOUS
    <3> HIDE DEF K
    <3>2. \A x \in QueuePending(e.st, s.id, o, now) : Pends(e.st, x, K, o.slot, {})
      BY <1>1, <1>4, <3>1, QueuePendingOn
    <3> QED BY <1>7, <3>2 DEF Pends
  <2> QED BY <1>4, <2>1 DEF Fewer
<1> QED BY <1>3, <1>6, <1>7

-----------------------------------------------------------------------------
\* The books when a match has ended what its process played before.
Ready(b, c, U) ==
  /\ StorageFair(c, b.st) /\ QueueFair(c, b.queue) /\ Paid(c, b.active) /\ c.till = now
  /\ Balanced(c, U) /\ lived \in Nat
  /\ \A s \in Slots : b.active[s] # NoSession =>
       /\ b.active[s].mark # now => s \in U
       /\ Owns(b.st, b.active[s].id, {b.active[s].key}, {})

\* The session that the process played before is billed and closed.
LEMMA FairBefore ==
  ASSUME TypeOK, IdsNameOwnRow, pc = "match", NEW c, Books(c), NEW m, m.slot \in Slots, NEW b \in Before(m)
  PROVE  \E d, U : Ready(b, d, U) /\ d.start = c.start
<1>0. PICK V, h : V = Unbilled /\ h = active[m.slot]
  OBVIOUS
<1>1. /\ StorageFair(c, Stored) /\ QueueFair(c, queue) /\ Paid(c, active) /\ c.till = now /\ Balanced(c, V)
      /\ lived \in Nat /\ epoch \in [Games -> Nat] /\ now \in Nat /\ now \in Int /\ queue \in Seq(Entries)
      /\ tried \in Int /\ StorageOK(Stored)
  BY <1>0 DEF Books, TypeOK, Horizon
<1>2. \A s \in Slots : active[s] # NoSession =>
        /\ active[s].mark # now => s \in V
        /\ Owns(Stored, active[s].id, {active[s].key}, {})
  BY <1>0, ItsOwn DEF Unbilled
<1>3. CASE ~(h # NoSession /\ h.game # m.game)
  <2>1. b.st = Stored /\ b.queue = queue /\ b.active = active
    BY <1>0, <1>3 DEF Before
  <2>2. Ready(b, c, V)
    BY <1>1, <1>2, <2>1 DEF Ready
  <2> QED BY <2>2
<1>4. CASE h # NoSession /\ h.game # m.game
  <2> DEFINE a == [active EXCEPT ![m.slot] = NoSession]
  <2>1. Before(m) = {[st |-> x.st, queue |-> x.queue, tried |-> x.tried, active |-> a] : x \in Close(Stored, h)}
    BY <1>0, <1>4 DEF Before
  <2>2. PICK x \in Close(Stored, h) : b.st = x.st /\ b.queue = x.queue /\ b.active = a
    BY <2>1
  <2>3. \A s \in Slots : b.active[s] = IF s = m.slot THEN NoSession ELSE active[s]
    BY <2>2 DEF TypeOK, Filled
  <2> HIDE DEF a
  <2>4. h \in Sessions /\ SessionFair(c, h) /\ (h.mark # now => m.slot \in V) /\ Owns(Stored, h.id, {h.key}, {})
    BY <1>0, <1>1, <1>2, <1>4 DEF Paid, TypeOK, Filled
  <2> DEFINE d == Billing(c, h)
             U == V \ {m.slot}
  <2>5. StorageFair(d, b.st) /\ QueueFair(d, b.queue)
    <3>1. \A y \in Close(Stored, h) : StorageFair(Billing(c, h), y.st) /\ QueueFair(Billing(c, h), y.queue)
      BY <1>1, <2>4, FairClose
    <3> QED BY <2>2, <3>1
  <2>6. Grown(c, d) /\ d.till = now /\ d.start = c.start
    BY <1>1, BillingGrows DEF Billing
  <2>7. Balanced(d, U)
    BY <1>1, <2>4, BilledBalance
  <2>8. Fewer(Stored, b.st)
    BY <1>1, <2>2, <2>4, CloseAddsNone
  <2> HIDE DEF d, U
  <2>9. Paid(d, b.active)
    BY <1>1, <2>3, <2>6, MoreSession DEF Paid
  <2>10. ASSUME NEW s \in Slots, b.active[s] # NoSession
         PROVE  /\ b.active[s].mark # now => s \in U
                /\ Owns(b.st, b.active[s].id, {b.active[s].key}, {})
    <3>1. s # m.slot /\ b.active[s] = active[s] /\ active[s] # NoSession
      BY <2>3, <2>10
    <3>2. Owns(Stored, active[s].id, {active[s].key}, {}) /\ (active[s].mark # now => s \in V)
      BY <1>2, <3>1
    <3>3. Owns(b.st, active[s].id, {active[s].key}, {})
      BY <2>8, <3>2, OwnsFewer
    <3> QED BY <3>1, <3>2, <3>3 DEF U
  <2>11. Ready(b, d, U)
    BY <1>1, <2>5, <2>6, <2>7, <2>9, <2>10 DEF Ready
  <2> QED BY <2>6, <2>11
<1> QED BY <1>3, <1>4

\* A key that nothing names starts its session when it is used.
LEMMA FreshBooks ==
  ASSUME TypeOK, NEW c, Books(c), NEW f \in Keys \ Minted
  PROVE  \E d : Books(d) /\ d.start[f] = now
<1> DEFINE start == [k \in Keys |-> IF k = f THEN now ELSE c.start[k]]
           d == [start |-> start, play |-> c.play, till |-> c.till]
<1>1. d.start[f] = now /\ d.play = c.play /\ d.till = c.till /\ \A k \in Keys : k # f => d.start[k] = c.start[k]
  OBVIOUS
<1> HIDE DEF d
<1>2. ASSUME NEW k \in Keys, k # f, NEW t, NEW secs, NEW till, Credited(c, k, t, secs, till)
      PROVE  Credited(d, k, t, secs, till)
  BY <1>1, <1>2 DEF Credited
<1>3. StorageFair(d, Stored)
  <2>1. StorageOK(Stored) /\ d.till \in Int
    BY <1>1 DEF Books, StorageFair
  <2>2. ASSUME NEW k \in Keys, rows[k] # NoRow PROVE RowFair(d, k, rows[k])
    <3>1. k # f
      BY <2>2 DEF Minted
    <3>2. RowFair(c, k, rows[k])
      BY <2>2 DEF Books, StorageFair, Stored
    <3> QED BY <1>1, <1>2, <3>1, <3>2 DEF RowFair
  <2>3. ASSUME NEW k \in Keys, journal[k] # NoOp PROVE OpFair(d, journal[k])
    <3>1. k # f /\ journal[k].key = k
      BY <2>3, JournaledIs DEF Minted
    <3>2. OpFair(c, journal[k])
      BY <2>3 DEF Books, StorageFair, Stored
    <3> QED BY <1>1, <1>2, <3>1, <3>2 DEF OpFair
  <2> QED BY <2>1, <2>2, <2>3 DEF StorageFair, Stored
<1>4. QueueFair(d, queue)
  <2>1. ASSUME NEW i \in 1 .. Len(queue) PROVE EntryFair(d, queue[i])
    <3> DEFINE k == queue[i].op.key
    <3>1. queue \in Seq(Entries) /\ DOMAIN queue = 1 .. Len(queue)
      BY LenProperties DEF TypeOK
    <3>2. k \in Keys /\ k # f
      BY <3>1, EntryIs DEF Minted
    <3>3. EntryFair(c, queue[i])
      BY DEF Books, QueueFair
    <3> QED BY <1>1, <1>2, <3>2, <3>3 DEF EntryFair, OpFair
  <2> QED BY <2>1 DEF QueueFair
<1>5. Paid(d, active)
  <2>1. ASSUME NEW s \in Slots, active[s] # NoSession PROVE SessionFair(d, active[s])
    <3>1. active[s].key \in Keys /\ active[s].key # f
      BY <2>1 DEF Minted, TypeOK, Filled, Sessions
    <3>2. SessionFair(c, active[s])
      BY <2>1 DEF Books, Paid
    <3> QED BY <1>2, <3>1, <3>2 DEF SessionFair
  <2> QED BY <2>1 DEF Paid
<1>6. Books(d)
  BY <1>1, <1>3, <1>4, <1>5 DEF Books, Balanced
<1> QED BY <1>1, <1>6

\* What a match continues is the session it continues: billed as it was,
\* and its identifier its own.
Resumes(b, c, t) ==
  /\ StorageFair(c, t.st) /\ SessionFair(c, t.s) /\ t.s \in Sessions
  /\ Held(b.active[t.from], t.s) /\ Owns(t.st, t.s.id, {t.s.key}, {})

\* A session filed anew keeps what it is billed for.
Refiled(w, sl, y, n, x) ==
  [[[[w EXCEPT !.slot = sl] EXCEPT !.titled = y] EXCEPT !.missed = n] EXCEPT !.moving = x]

\* The session r is w filed anew.
Fileable(c, w, r) ==
  \E sl \in Slots, y \in BOOLEAN, n \in Int, x \in BOOLEAN :
    /\ w \in Sessions /\ SessionFair(c, w) /\ (y => ~sl[2]) /\ r = Refiled(w, sl, y, n, x)

\* It is a session, and it is credited as w is.
LEMMA RetitledHeld ==
  ASSUME NEW c, NEW w, NEW r, Fileable(c, w, r)
  PROVE  r \in Sessions /\ SessionFair(c, r) /\ Held(w, r) /\ r.id = w.id
<1>00. PICK sl \in Slots, y \in BOOLEAN, n \in Int, x \in BOOLEAN :
         /\ w \in Sessions /\ SessionFair(c, w) /\ (y => ~sl[2]) /\ r = Refiled(w, sl, y, n, x)
  BY DEF Fileable
<1> DEFINE v1 == [w EXCEPT !.slot = sl]
           v2 == [v1 EXCEPT !.titled = y]
           v3 == [v2 EXCEPT !.missed = n]
           v4 == [v3 EXCEPT !.moving = x]
<1>1. /\ v1 \in Sessions /\ v1.key = w.key /\ v1.start = w.start /\ v1.secs = w.secs /\ v1.mark = w.mark
      /\ v1.id = w.id /\ v1.slot = sl
  BY <1>00 DEF Sessions
<1>0. r = v4
  BY <1>00 DEF Refiled
<1> HIDE DEF v1
<1>2. /\ v2 \in Sessions /\ v2.key = w.key /\ v2.start = w.start /\ v2.secs = w.secs /\ v2.mark = w.mark
      /\ v2.id = w.id /\ v2.slot = sl /\ v2.titled = y
  BY <1>1 DEF Sessions
<1> HIDE DEF v2
<1>3. /\ v3 \in Sessions /\ v3.key = w.key /\ v3.start = w.start /\ v3.secs = w.secs /\ v3.mark = w.mark
      /\ v3.id = w.id /\ v3.slot = sl /\ v3.titled = y
  BY <1>2 DEF Sessions
<1> HIDE DEF v3
<1>4. /\ v4 \in Sessions /\ v4.key = w.key /\ v4.start = w.start /\ v4.secs = w.secs /\ v4.mark = w.mark
      /\ v4.id = w.id /\ v4.slot = sl /\ v4.titled = y
  BY <1>3 DEF Sessions
<1> HIDE DEF v4
<1>5. SessionFair(c, v4)
  BY <1>00, <1>4 DEF SessionFair
<1> QED BY <1>0, <1>4, <1>5 DEF Held

\* A match continues a session as it was billed: its own, its process's by
\* title, or that of a process that is gone.
LEMMA FairContinued ==
  ASSUME TypeOK, NEW m \in [slot : Slots, game : Games], NEW b, Cleared(b, m, Keys), NEW c, NEW U, Ready(b, c, U)
  PROVE  \A t \in Continued(b, m) : Resumes(b, c, t)
<1> DEFINE titled == <<m.slot[1], FALSE>>
           byTitle == b.active[titled]
           leavers == {s \in Slots : /\ b.active[s] # NoSession /\ ~b.active[s].titled
                                     /\ b.active[s].game = m.game
                                     /\ \A n \in seen : n.slot # s}
           Takes(s) == [b.active[s] EXCEPT !.slot = m.slot]
           moves(s) == IF b.active[s].id > 0 THEN Move(b.st, b.active[s].id, m.slot) ELSE {Yes(b.st)}
           takes(s) == {[s |-> [Takes(s) EXCEPT !.moving = ~v.ok], from |-> s, st |-> v.st] : v \in moves(s)}
<1>0. m.slot \in Slots /\ m.slot[1] \in Procs
  BY DEF Slots
<1>1. titled \in Slots
  BY <1>0 DEF Slots
<1>2. \A s \in Slots : b.active[s] # NoSession =>
        /\ b.active[s] \in Sessions /\ SessionFair(c, b.active[s])
        /\ Owns(b.st, b.active[s].id, {b.active[s].key}, {})
  BY DEF Cleared, Ready, Paid
<1>3. StorageFair(c, b.st) /\ StorageOK(b.st)
  BY DEF Ready, Cleared
<1>4. CASE b.active[m.slot] # NoSession
  <2> DEFINE t == [s |-> b.active[m.slot], from |-> m.slot, st |-> b.st]
  <2>1. Continued(b, m) = {t}
    BY <1>4 DEF Continued
  <2>2. t.s = b.active[m.slot] /\ t.from = m.slot /\ t.st = b.st
    OBVIOUS
  <2> HIDE DEF t
  <2>3. Resumes(b, c, t)
    BY <1>0, <1>2, <1>3, <1>4, <2>2 DEF Resumes, Held
  <2> QED BY <2>1, <2>3
<1>5. CASE b.active[m.slot] = NoSession /\ ~m.slot[2]
  BY <1>5 DEF Continued
<1>6. CASE b.active[m.slot] = NoSession /\ m.slot[2] /\ (byTitle # NoSession /\ byTitle.titled /\ byTitle.game = m.game)
  <2> DEFINE u == [byTitle EXCEPT !.slot = m.slot, !.titled = FALSE, !.missed = 0]
             t == [s |-> u, from |-> titled, st |-> b.st]
  <2>1. Continued(b, m) = {t}
    BY <1>6 DEF Continued
  <2>2. byTitle \in Sessions /\ SessionFair(c, byTitle) /\ Owns(b.st, byTitle.id, {byTitle.key}, {})
    BY <1>1, <1>2, <1>6
  <2>3. u \in Sessions /\ SessionFair(c, u) /\ Held(byTitle, u) /\ u.id = byTitle.id
    <3> DEFINE w == byTitle
               x == w.moving
    <3>1. w \in Sessions /\ x \in BOOLEAN /\ SessionFair(c, w)
      BY <2>2 DEF Sessions
    <3>2. u = Refiled(w, m.slot, FALSE, 0, x)
      <4>1. w \in Sessions
        BY <2>2
      <4> HIDE DEF byTitle
      <4> QED BY <4>1 DEF Sessions, Refiled
    <3>0. w = byTitle
      OBVIOUS
    <3> HIDE DEF w, x, u
    <3>3. Fileable(c, w, u)
      <4> DEFINE y == FALSE
                 n == 0
      <4>1. y \in BOOLEAN /\ ~y /\ n \in Int /\ u = Refiled(w, m.slot, y, n, x)
        BY <3>2
      <4> HIDE DEF y, n
      <4> QED BY <1>0, <3>1, <4>1, Zenon DEF Fileable
    <3>4. u \in Sessions /\ SessionFair(c, u) /\ Held(w, u) /\ u.id = w.id
      BY <3>3, RetitledHeld
    <3> QED BY <3>0, <3>4, Zenon
  <2>4. t.s = u /\ t.from = titled /\ t.st = b.st /\ b.active[titled] = byTitle
    OBVIOUS
  <2> HIDE DEF t, u, byTitle, titled
  <2>5. Resumes(b, c, t)
    BY <1>3, <2>2, <2>3, <2>4 DEF Resumes, Held
  <2> QED BY <2>1, <2>5
<1>7. CASE /\ b.active[m.slot] = NoSession /\ m.slot[2]
           /\ ~(byTitle # NoSession /\ byTitle.titled /\ byTitle.game = m.game)
  <2>1. Continued(b, m) = IF m.slot[1] \in HandsOver THEN UNION {takes(s) : s \in leavers} ELSE {}
    BY <1>7 DEF Continued
  <2>2. ASSUME NEW s \in leavers, NEW t \in takes(s) PROVE Resumes(b, c, t)
    <3> DEFINE w == b.active[s]
    <3>1. s \in Slots /\ w \in Sessions /\ SessionFair(c, w) /\ Owns(b.st, w.id, {w.key}, {}) /\ ~w.titled
      BY <1>2
    <3>2. PICK v \in moves(s) : t = [s |-> [Takes(s) EXCEPT !.moving = ~v.ok], from |-> s, st |-> v.st]
      BY <2>2
    <3>3. t.s = [[w EXCEPT !.slot = m.slot] EXCEPT !.moving = ~v.ok] /\ t.from = s /\ t.st = v.st
      BY <3>2
    <3>4. v \in IF w.id > 0 THEN Move(b.st, w.id, m.slot) ELSE {Yes(b.st)}
      BY <3>2
    <3> DEFINE x == ~v.ok
               y == w.titled
               n == w.missed
    <3>5. x \in BOOLEAN
      BY Zenon
    <3>6. b.active[s] = w /\ t.s = [[w EXCEPT !.slot = m.slot] EXCEPT !.moving = x]
      BY <3>3
    <3> HIDE DEF w, x
    <3>7. y = FALSE /\ n \in Int
      <4>1. w.titled \in BOOLEAN /\ w.missed \in Int
        BY <3>1 DEF Sessions
      <4> QED BY <3>1, <4>1
    <3>8. t.s = Refiled(w, m.slot, FALSE, n, x)
      <4>1. [w EXCEPT !.slot = m.slot] = [[[w EXCEPT !.slot = m.slot] EXCEPT !.titled = FALSE] EXCEPT !.missed = n]
        BY <3>1, <3>7 DEF Sessions
      <4> QED BY <3>6, <4>1, Zenon DEF Refiled
    <3> HIDE DEF n, y
    <3>9. t.s \in Sessions /\ SessionFair(c, t.s) /\ Held(w, t.s) /\ t.s.id = w.id
      <4>1. Fileable(c, w, t.s)
        BY <1>0, <3>1, <3>5, <3>7, <3>8 DEF Fileable
      <4> QED BY <4>1, RetitledHeld
    <3>10. StorageFair(c, v.st) /\ Owns(v.st, w.id, {w.key}, {})
      <4>1. CASE v = Yes(b.st)
        BY <1>3, <3>1, <4>1 DEF Yes
      <4>2. CASE v \in Move(b.st, w.id, m.slot)
        <5> DEFINE K == {w.key}
                   I == {}
        <5>1. Owns(b.st, w.id, K, I)
          BY <3>1
        <5> HIDE DEF K, I
        <5>2. Alters(b.st, v.st, K, m.slot, I)
          BY <1>0, <1>3, <4>2, <5>1, MoveOn
        <5>3. Owns(v.st, w.id, K, I)
          BY <5>1, <5>2, OwnsKept DEF Alters
        <5>4. StorageFair(c, v.st)
          BY <1>0, <1>3, <4>2, FairMove
        <5> QED BY <5>3, <5>4 DEF K, I
      <4> QED BY <3>4, <4>1, <4>2
    <3>11. t.from = s /\ t.st = v.st
      BY <3>3
    <3> QED BY <3>6, <3>9, <3>10, <3>11 DEF Resumes, Held
  <2> HIDE DEF takes, leavers
  <2> QED BY <2>1, <2>2
<1> QED BY <1>4, <1>5, <1>6, <1>7

\* A match leaves its process an active session that is billed, and the
\* others as they were or none.
Attends(m) ==
  /\ active'[m.slot] # NoSession /\ active'[m.slot].mark = now
  /\ \A s \in Slots : s # m.slot => active'[s] = NoSession \/ active'[s] = active[s]

\* The session a match continues is billed for the last poll.
LEMMA MatchContinues ==
  ASSUME TypeOK, TypeOK', NEW m \in [slot : Slots, game : Games], pc = "match", NEW b, Cleared(b, m, Keys),
         NEW c, NEW U, Ready(b, c, U), NEW t \in Continued(b, m), NEW paused \in BOOLEAN,
         NEW x \in Continue(t.st, t.s, paused), Store(x.st), active' = Filed(b.active, t.from, x.s),
         queue' = b.queue, UNCHANGED <<pc, now, ran, lived>>
  PROVE  (\E d : Books(d)') /\ Attends(m)
<1>0. /\ m.slot \in Slots /\ epoch \in [Games -> Nat] /\ now \in Int /\ c.till = now /\ lived \in Nat
      /\ Steady /\ Horizon' = now
  BY DEF Ready, TypeOK, Steady, Horizon
<1>1. Taken(b, t, m)
  BY ContinuedOn
<1>2. Resumes(b, c, t)
  BY FairContinued
<1>3. /\ t.s \in Sessions /\ t.s.slot = m.slot /\ t.from \in Slots /\ SessionFair(c, t.s) /\ StorageFair(c, t.st)
      /\ Owns(t.st, t.s.id, {t.s.key}, {}) /\ t.s.mark = b.active[t.from].mark /\ b.active[t.from] # NoSession
  BY <1>1, <1>2 DEF Taken, Resumes, Held
<1>4. t.s.mark # now => t.from \in U
  BY <1>3 DEF Ready
<1> DEFINE d0 == Billing(c, t.s)
<1>5. StorageFair(d0, x.st) /\ SessionFair(d0, x.s) /\ x.s.mark = now
  <2>1. \A y \in Continue(t.st, t.s, paused) :
          StorageFair(Billing(c, t.s), y.st) /\ SessionFair(Billing(c, t.s), y.s) /\ y.s.mark = now
    <3> DEFINE st == t.st
               r == t.s
               p == paused
    <3>1. /\ StorageFair(c, st) /\ r \in Sessions /\ SessionFair(c, r) /\ Owns(st, r.id, {r.key}, {})
          /\ epoch \in [Games -> Nat] /\ now \in Int /\ c.till = now
      BY <1>0, <1>3
    <3>2. p \in BOOLEAN
      OBVIOUS
    <3> HIDE DEF st, r, p
    <3>3. \A y \in Continue(st, r, p) :
            StorageFair(Billing(c, r), y.st) /\ SessionFair(Billing(c, r), y.s) /\ y.s.mark = now
      BY <3>1, <3>2, FairContinue
    <3> QED BY <3>3, Zenon DEF st, r, p
  <2> QED BY <2>1
<1>6. x.s \in Sessions /\ x.s.slot = m.slot
  <2> DEFINE K == {t.s.key}
             I == {}
  <2>1. t.s.key \in K /\ Owns(t.st, t.s.id, K, I) /\ StorageOK(t.st)
    BY <1>3 DEF StorageFair
  <2> HIDE DEF K, I
  <2>2. \A y \in Continue(t.st, t.s, paused) : Same(t.s, y.s)
    BY <1>0, <1>3, <2>1, ContinueOn
  <2> QED BY <1>3, <2>2 DEF Same
<1>7. \A s \in Slots : active'[s] = IF s = m.slot THEN x.s ELSE IF s = t.from THEN NoSession ELSE b.active[s]
  <2>1. b.active \in [Slots -> Sessions \cup {NoSession}]
    BY DEF Cleared
  <2> QED BY <1>0, <1>3, <1>6, <2>1 DEF Filed
<1>8. Attends(m)
  <2>1. active'[m.slot] # NoSession /\ active'[m.slot].mark = now
    BY <1>0, <1>5, <1>6, <1>7, NothingAssumption
  <2> QED BY <1>7, <2>1 DEF Attends, Cleared
<1>9. Grown(c, d0) /\ d0.till = now
  BY <1>0, BillingGrows
<1>10. Balanced(d0, U \ {t.from})
  BY <1>4, BilledBalance DEF Ready
<1> HIDE DEF d0
<1>11. PICK d, V : d = d0 /\ V = U \ {t.from}
  OBVIOUS
<1>12. Balanced(d, V) /\ d.till = Horizon'
  BY <1>0, <1>9, <1>10, <1>11
<1>13. StorageFair(d, Stored')
  BY <1>5, <1>11, FairStore
<1>14. QueueFair(d, queue')
  BY <1>9, <1>11, MoreQueue DEF Ready
<1>15. Paid(d, active')
  <2>1. \A s \in Slots : b.active[s] # NoSession => SessionFair(d0, b.active[s])
    BY <1>9, MoreSession DEF Ready, Paid
  <2> QED BY <1>5, <1>7, <1>11, <2>1 DEF Paid
<1>16. Unbilled' \subseteq V
  <2>1. \A s \in Slots : active'[s] # NoSession /\ active'[s].mark # now => s \in U /\ s # t.from
    <3>1. SUFFICES ASSUME NEW s \in Slots, active'[s] # NoSession, active'[s].mark # now
                   PROVE  s \in U /\ s # t.from
      OBVIOUS
    <3>2. s # m.slot /\ s # t.from /\ active'[s] = b.active[s]
      BY <1>5, <1>7, <3>1
    <3> QED BY <3>1, <3>2 DEF Ready
  <2> QED BY <1>11, <2>1 DEF Unbilled
<1>17. Books(d)'
  BY <1>0, <1>12, <1>13, <1>14, <1>15, <1>16, BooksAre
<1> QED BY <1>8, <1>17

\* A session that begins has no play yet.
LEMMA MatchBegins ==
  ASSUME TypeOK, TypeOK', NEW m \in [slot : Slots, game : Games], pc = "match", NEW b, Cleared(b, m, Keys),
         NEW c, NEW U, Ready(b, c, U), Minted # Keys, c.start[Fresh] = now,
         NEW n \in Begin(b.st, Begun(m)), Store(n.st),
         active' = [b.active EXCEPT ![m.slot] = [Begun(m) EXCEPT !.id = n.id]],
         queue' = b.queue, UNCHANGED <<pc, now, ran, lived>>
  PROVE  (\E d : Books(d)') /\ Attends(m)
<1>0. /\ m.slot \in Slots /\ now \in Nat /\ c.till = now /\ lived \in Nat
      /\ Steady /\ Horizon' = now
  BY DEF Ready, TypeOK, Steady, Horizon
<1>1. Fresh \in Keys
  <2>1. \E k \in Keys : k \notin Minted
    BY DEF Minted
  <2> QED BY <2>1 DEF Fresh
<1> DEFINE w == Session(Fresh, m.slot, m.game, 0, now, 0, NoIntervals)
           y == ~m.slot[2]
           v == [w EXCEPT !.titled = y]
           x == [v EXCEPT !.id = n.id]
<1>2. /\ w \in Sessions /\ w.key = Fresh /\ w.slot = m.slot /\ w.game = m.game /\ w.start = now
      /\ w.secs = 0 /\ w.mark = now
  <2>1. now \in Int /\ FlushEvery \in Int
    BY <1>0, RecorderBoundsAssumption
  <2> QED BY <1>0, <1>1, <2>1 DEF Session, Sessions
<1>3. y \in BOOLEAN
  BY Zenon
<1>4. y = ~m.slot[2]
  OBVIOUS
<1>5. Begun(m) = v
  BY DEF Begun
<1> HIDE DEF w, y
<1>6. /\ v \in Sessions /\ v.key = Fresh /\ v.slot = m.slot /\ v.game = m.game /\ v.start = now
      /\ v.secs = 0 /\ v.mark = now /\ v.titled = y
  BY <1>2, <1>3 DEF Sessions
<1> HIDE DEF v
<1>7. StorageFair(c, b.st) /\ StorageOK(b.st)
  BY DEF Ready, Cleared
<1>8. \A u \in Begin(b.st, v) : StorageFair(c, u.st)
  BY <1>0, <1>1, <1>6, <1>7, FairBegin
<1>9. n.id \in Nat
  <2> DEFINE K == {v.key}
             I == {}
  <2>1. v.key \in K
    OBVIOUS
  <2> HIDE DEF K, I
  <2>2. v.key \in Keys /\ v.game \in Games /\ v.slot \in Slots /\ v.start \in Int
    BY <1>0, <1>1, <1>6
  <2>3. Begins(b.st, n, v, K, I)
    BY <1>5, <1>7, <2>1, <2>2, BeginOn
  <2> QED BY <2>3 DEF Begins
<1>10. /\ x \in Sessions /\ x.key = Fresh /\ x.slot = m.slot /\ x.start = now /\ x.secs = 0 /\ x.mark = now
       /\ x.titled = y
  BY <1>6, <1>9 DEF Sessions
<1>11. active' = [b.active EXCEPT ![m.slot] = x]
  BY <1>5
<1> HIDE DEF x
<1>12. \A s \in Slots : active'[s] = IF s = m.slot THEN x ELSE b.active[s]
  BY <1>0, <1>11 DEF Cleared
<1>13. SessionFair(c, x)
  <2>1. Credited(c, x.key, x.start, x.secs, x.mark)
    BY <1>0, <1>10 DEF Credited
  <2>2. x.titled => ~x.slot[2]
    BY <1>4, <1>10, Zenon
  <2>3. x.mark <= now /\ now - 1 <= x.mark
    BY <1>0, <1>10
  <2> QED BY <2>1, <2>2, <2>3 DEF SessionFair
<1>14. Attends(m)
  <2>1. active'[m.slot] # NoSession /\ active'[m.slot].mark = now
    BY <1>0, <1>10, <1>12, NothingAssumption
  <2> QED BY <1>12, <2>1 DEF Attends, Cleared
<1>15. StorageFair(c, Stored')
  BY <1>5, <1>8, FairStore
<1>16. QueueFair(c, queue') /\ Balanced(c, U)
  BY DEF Ready
<1>17. Paid(c, active')
  BY <1>12, <1>13 DEF Ready, Paid
<1>18. Unbilled' \subseteq U
  <2>1. \A s \in Slots : active'[s] # NoSession /\ active'[s].mark # now => s \in U
    BY <1>10, <1>12 DEF Ready
  <2> QED BY <1>0, <2>1 DEF Unbilled, Steady
<1>19. Books(c)'
  BY <1>0, <1>15, <1>16, <1>17, <1>18, BooksAre
<1> QED BY <1>14, <1>19

\* A match closes, continues and begins sessions within the books.
LEMMA MatchBooks ==
  ASSUME TypeOK, TypeOK', IdsNameOwnRow, NEW c, Books(c), NEW m \in seen, Match(m)
  PROVE  (\E d : Books(d)') /\ Attends(m)
<1>1. /\ pc = "match" /\ UNCHANGED <<pc, now, ran, lived>>
      /\ m \in [slot : Slots, game : Games] /\ m.slot \in Slots
  BY DEF Match, world, TypeOK
<1>2. PICK b \in Before(m) :
       /\ \/ \E t \in Continued(b, m), paused \in {FALSE, left.pauses} :
               \E x \in Continue(t.st, t.s, paused) :
                 Store(x.st) /\ active' = Filed(b.active, t.from, x.s)
          \/ /\ Minted # Keys
             /\ \E n \in Begin(b.st, Begun(m)) :
                 /\ Store(n.st)
                 /\ active' = [b.active EXCEPT ![m.slot] = [Begun(m) EXCEPT !.id = n.id]]
       /\ queue' = b.queue
  BY DEF Match
<1>3. Cleared(b, m, Keys)
  <2>1. Here(m) # NoSession => Here(m).key \in Keys
    BY <1>1, Basics DEF Filled, Here, Sessions
  <2> QED BY <1>1, <2>1, BeforeOn
<1>4. ASSUME NEW t \in Continued(b, m), NEW paused \in {FALSE, left.pauses},
             NEW x \in Continue(t.st, t.s, paused), Store(x.st), active' = Filed(b.active, t.from, x.s)
      PROVE  (\E d : Books(d)') /\ Attends(m)
  <2>1. PICK d, U : Ready(b, d, U)
    BY <1>1, FairBefore
  <2>2. paused \in BOOLEAN
    BY DEF TypeOK, Budgets
  <2> QED BY <1>1, <1>2, <1>3, <1>4, <2>1, <2>2, MatchContinues
<1>5. ASSUME Minted # Keys, NEW n \in Begin(b.st, Begun(m)), Store(n.st),
             active' = [b.active EXCEPT ![m.slot] = [Begun(m) EXCEPT !.id = n.id]]
      PROVE  (\E d : Books(d)') /\ Attends(m)
  <2>1. Fresh \in Keys \ Minted
    <3>1. \E k \in Keys : k \notin Minted
      BY <1>5 DEF Minted
    <3> QED BY <3>1 DEF Fresh
  <2>2. PICK d : Books(d) /\ d.start[Fresh] = now
    BY <2>1, FreshBooks
  <2>3. PICK f, U : Ready(b, f, U) /\ f.start = d.start
    BY <1>1, <2>2, FairBefore
  <2>4. f.start[Fresh] = now
    BY <2>2, <2>3
  <2> QED BY <1>1, <1>2, <1>3, <1>5, <2>3, <2>4, MatchBegins
<1> QED BY <1>2, <1>4, <1>5

-----------------------------------------------------------------------------
\* A match of this poll stands for the slot s.
Stood(s) == \E m \in seen : m.slot = s

\* A process that anything names has run, and still does if it is alive.
NamesRan == \A k \in Keys, s \in Slots : Named(k, s) => game[s[1]] # NoGame /\ (Alive(s[1]) => s[1] \in ran)

\* The matches of a poll stand for processes that ran at the last one.
SeenRan ==
  pc \in {"retry", "drain", "match", "sweep"} => \A m \in seen : m.slot[1] \in ran /\ game[m.slot[1]] # NoGame

\* Nothing is active while the recorder is not running.
Quiet == pc = "down" => \A s \in Slots : active[s] = NoSession

\* Between polls every active session is billed.
Settled == pc = "idle" => Alone

\* So it is at the start: what is followed then was matched.
Regained ==
  pc \in {"replay", "recover"} =>
    /\ \A s \in Slots : active[s] # NoSession => active[s].mark = now /\ Stood(s) /\ s[1] \in ran
    /\ \A k \in Keys, s \in Slots : Named(k, s) /\ Stood(s) => s[1] \in ran

\* The sessions of the matches that were handled are billed.
MatchedPaid == pc = "match" => \A m \in seen \ work : active[m.slot].mark = now

\* And then those no match stood for, which are of a process that runs and
\* is known by a title only.
SweptPaid ==
  pc = "sweep" => \A s \in Slots \ work : active[s] # NoSession =>
    /\ active[s].mark = now
    /\ Stood(s) \/ (~s[2] /\ ~Stood(<<s[1], TRUE>>) /\ s[1] \in ran)

\* When each session is billed, and for which process, by label.
Placed == SeenRan /\ Quiet /\ Settled /\ Regained /\ MatchedPaid /\ SweptPaid

\* A poll starts with the matches of processes that run.
LEMMA PollPlaced ==
  ASSUME TypeOK, Placed, Poll
  PROVE  Placed'
<1>1. /\ pc' \in {"retry", "match"} /\ (pc' = "match" => work' = seen')
      /\ seen' = {} \/ seen' \in Sightings
      /\ ran' = {p \in Procs : Alive(p)} /\ game' = game
  BY DEF Poll, Passes
<1>2. \A m \in seen' : m.slot[1] \in Procs /\ Alive(m.slot[1])
  <2>1. \A z \in Sightings : \A m \in z : m \in [slot : Slots, game : Games] /\ Alive(m.slot[1])
    BY SightingsOn
  <2> QED BY <1>1, <2>1 DEF Slots
<1>3. SeenRan'
  BY <1>1, <1>2, GamesAssumption DEF SeenRan, Alive
<1>4. MatchedPaid'
  BY <1>1 DEF MatchedPaid
<1> QED BY <1>1, <1>3, <1>4 DEF Placed, Quiet, Settled, Regained, SweptPaid

\* Retries and the journal come before the matches.
LEMMA RetriesPlaced ==
  ASSUME Placed, Retry \/ RetryDone \/ DrainDone \/ \E k \in Keys : Drain(k)
  PROVE  Placed'
<1>1. /\ pc \in {"retry", "drain"} /\ pc' \in {"retry", "drain", "match"} /\ (pc' = "match" => work' = seen')
      /\ UNCHANGED <<seen, ran, game>>
  <2>1. CASE Retry
    BY <2>1 DEF Retry, world
  <2>2. CASE RetryDone
    BY <2>2 DEF RetryDone, world
  <2>3. CASE DrainDone
    BY <2>3 DEF DrainDone, world
  <2>4. CASE \E k \in Keys : Drain(k)
    BY <2>4 DEF Drain, world
  <2> QED BY <2>1, <2>2, <2>3, <2>4
<1>2. SeenRan'
  BY <1>1 DEF Placed, SeenRan
<1>3. MatchedPaid'
  BY <1>1 DEF MatchedPaid
<1> QED BY <1>1, <1>2, <1>3 DEF Placed, Quiet, Settled, Regained, SweptPaid

\* A match leaves its slot billed.
LEMMA MatchPlaced ==
  ASSUME TypeOK, TypeOK', Placed, NEW m \in seen, Match(m), Attends(m)
  PROVE  Placed'
<1>1. pc = "match" /\ pc' = "match" /\ work' = work \ {m} /\ UNCHANGED <<seen, ran, game, now>>
  BY DEF Match, world
<1>2. SeenRan'
  BY <1>1 DEF Placed, SeenRan
<1>3. ASSUME NEW n \in seen, n \notin work' PROVE active'[n.slot].mark = now
  <2>1. CASE n = m
    BY <2>1 DEF Attends
  <2>2. CASE n # m
    <3>1. n.slot \in Slots /\ m.slot \in Slots /\ n.slot # m.slot
      BY <2>2 DEF TypeOK
    <3>2. active'[n.slot] # NoSession
      BY <1>1, <1>3 DEF TypeOK, Loops
    <3>3. active'[n.slot] = active[n.slot]
      BY <3>1, <3>2 DEF Attends
    <3> QED BY <1>1, <1>3, <2>2, <3>3 DEF Placed, MatchedPaid
  <2> QED BY <2>1, <2>2
<1>4. MatchedPaid'
  BY <1>1, <1>3 DEF MatchedPaid
<1> QED BY <1>1, <1>2, <1>4 DEF Placed, Quiet, Settled, Regained, SweptPaid

\* What remains when all matches are handled is swept.
LEMMA MatchDonePlaced ==
  ASSUME TypeOK, Placed, MatchDone
  PROVE  Placed'
<1> DEFINE matched == {m.slot : m \in seen}
<1>1. /\ pc = "match" /\ work = {} /\ pc' = "sweep" /\ UNCHANGED <<seen, ran, game, now>>
      /\ work' = {s \in Slots \ matched : active[s] # NoSession}
      /\ active' = [s \in Slots |-> IF s \in matched THEN [active[s] EXCEPT !.missed = 0] ELSE active[s]]
  BY DEF MatchDone, world
<1>2. SeenRan'
  BY <1>1 DEF Placed, SeenRan
<1>3. ASSUME NEW s \in Slots, s \notin work', active'[s] # NoSession
      PROVE  active'[s].mark = now /\ Stood(s)
  <2>1. s \in matched
    BY <1>1, <1>3
  <2>2. PICK m \in seen : m.slot = s
    BY <2>1
  <2>3. active[s].mark = now /\ active[s] \in Sessions
    <3>1. active[s] # NoSession
      BY <1>1, <2>2 DEF TypeOK, Loops
    <3> QED BY <1>1, <2>2, <3>1 DEF Placed, MatchedPaid, TypeOK, Filled
  <2>4. active'[s] = [active[s] EXCEPT !.missed = 0]
    BY <1>1, <2>1
  <2>5. active'[s].mark = active[s].mark
    BY <2>3, <2>4 DEF Sessions
  <2> QED BY <2>2, <2>3, <2>5 DEF Stood
<1>4. SweptPaid'
  BY <1>1, <1>3 DEF SweptPaid, Stood
<1> QED BY <1>1, <1>2, <1>4 DEF Placed, Quiet, Settled, Regained, MatchedPaid

\* A session without a match goes on, or ends.
LEMMA SweepPlaced ==
  ASSUME TypeOK, Placed, NamesRan, NEW c, Books(c), NEW s \in Slots,
         (SweepGrace(s) /\ active'[s].mark = now) \/ SweepClose(s)
  PROVE  Placed'
<1>1. /\ pc = "sweep" /\ pc' = "sweep" /\ s \in work /\ work' = work \ {s} /\ UNCHANGED <<seen, ran, game, now>>
  BY DEF SweepGrace, SweepClose, world
<1>2. SeenRan'
  BY <1>1 DEF Placed, SeenRan
<1>3. \A t \in Slots : t # s => active'[t] = active[t]
  <2>1. CASE SweepGrace(s)
    <3>1. \E x : active' = [active EXCEPT ![s] = x]
      BY <2>1 DEF SweepGrace
    <3> QED BY <3>1 DEF TypeOK, Filled
  <2>2. CASE SweepClose(s)
    BY <2>2 DEF SweepClose, TypeOK, Filled
  <2> QED BY <2>1, <2>2
<1>4. ASSUME active'[s] # NoSession
      PROVE  active'[s].mark = now /\ ~s[2] /\ ~Stood(<<s[1], TRUE>>) /\ s[1] \in ran
  <2>1. SweepGrace(s) /\ active'[s].mark = now
    BY <1>4 DEF SweepClose, TypeOK, Filled
  <2>2. active[s].titled /\ Alive(s[1]) /\ \A m \in seen : m.slot # <<s[1], TRUE>>
    BY <2>1 DEF SweepGrace, InGrace
  <2>3. active[s] # NoSession /\ active[s] \in Sessions /\ active[s].slot = s
    BY <1>1 DEF TypeOK, Loops, Filled
  <2>4. SessionFair(c, active[s])
    BY <2>3 DEF Books, Paid
  <2>5. ~s[2]
    BY <2>2, <2>3, <2>4 DEF SessionFair
  <2>6. Named(active[s].key, s) /\ active[s].key \in Keys
    BY <2>3 DEF Named, Sessions
  <2>7. s[1] \in ran
    BY <2>2, <2>6 DEF NamesRan
  <2> QED BY <2>1, <2>2, <2>5, <2>7 DEF Stood
<1>5. ASSUME NEW t \in Slots, t \notin work', active'[t] # NoSession
      PROVE  active'[t].mark = now /\ (Stood(t) \/ (~t[2] /\ ~Stood(<<t[1], TRUE>>) /\ t[1] \in ran))
  <2>1. CASE t = s
    BY <1>4, <1>5, <2>1
  <2>2. CASE t # s
    BY <1>1, <1>3, <1>5, <2>2 DEF Placed, SweptPaid
  <2> QED BY <2>1, <2>2
<1>6. SweptPaid'
  BY <1>1, <1>5 DEF SweptPaid, Stood
<1> QED BY <1>1, <1>2, <1>6 DEF Placed, Quiet, Settled, Regained, MatchedPaid

\* One slot of a process has a match.
LEMMA StandsAlone ==
  ASSUME TypeOK, NEW s \in Slots, NEW t \in Slots, Stood(s), Stood(t), s[1] = t[1]
  PROVE  s = t
<1>1. PICK m \in seen, n \in seen : m.slot = s /\ n.slot = t
  BY DEF Stood
<1>2. m = n
  BY <1>1 DEF TypeOK
<1> QED BY <1>1, <1>2

\* A slot is its process and its kind of evidence.
LEMMA SlotIs ==
  ASSUME NEW s \in Slots
  PROVE  /\ s = <<s[1], TRUE>> \/ s = <<s[1], FALSE>>
         /\ ~s[2] => s = <<s[1], FALSE>> /\ s # <<s[1], TRUE>>
<1>1. s = <<s[1], s[2]>> /\ s[2] \in BOOLEAN
  BY DEF Slots
<1>2. CASE s[2]
  <2>1. s[2] = TRUE
    BY <1>1, <1>2
  <2> QED BY <1>1, <1>2, <2>1
<1>3. CASE ~s[2]
  <2>1. s[2] = FALSE
    BY <1>1, <1>3
  <2>2. s = <<s[1], FALSE>>
    BY <1>1, <2>1
  <2>3. s # <<s[1], TRUE>>
    <3> SUFFICES ASSUME s = <<s[1], TRUE>> PROVE FALSE
      OBVIOUS
    <3>1. <<s[1], TRUE>>[2] = TRUE
      OBVIOUS
    <3>2. s[2] = TRUE
      BY <3>1, Zenon
    <3> QED BY <2>1, <3>2
  <2> QED BY <1>3, <2>2, <2>3
<1> QED BY <1>2, <1>3

\* The poll leaves each process one session, that is billed.
LEMMA SweepDonePlaced ==
  ASSUME TypeOK, Placed, SweepDone
  PROVE  Placed'
<1>1. /\ pc = "sweep" /\ work = {} /\ pc' = "idle" /\ UNCHANGED <<active, ran, now>>
  BY DEF SweepDone, memory, world
<1>2. \A s \in Slots : active[s] # NoSession =>
        /\ active[s].mark = now
        /\ Stood(s) \/ (~s[2] /\ ~Stood(<<s[1], TRUE>>) /\ s[1] \in ran)
  BY <1>1 DEF Placed, SweptPaid
<1>3. \A s \in Slots : Stood(s) => s[1] \in ran
  BY <1>1 DEF Stood, Placed, SeenRan
<1>4. ASSUME NEW s \in Slots, NEW t \in Slots, active[s] # NoSession, active[t] # NoSession, s[1] = t[1]
      PROVE  s = t
  <2>1. /\ s = <<s[1], TRUE>> \/ s = <<s[1], FALSE>>
        /\ t = <<t[1], TRUE>> \/ t = <<t[1], FALSE>>
        /\ ~s[2] => s = <<s[1], FALSE>> /\ s # <<s[1], TRUE>>
        /\ ~t[2] => t = <<t[1], FALSE>> /\ t # <<t[1], TRUE>>
    BY SlotIs
  <2>2. CASE Stood(s) /\ Stood(t)
    BY <1>4, <2>2, StandsAlone
  <2>3. CASE ~Stood(s) /\ ~Stood(t)
    <3>1. ~s[2] /\ ~t[2]
      BY <1>2, <1>4, <2>3
    <3>2. s = <<s[1], FALSE>> /\ t = <<t[1], FALSE>>
      BY <2>1, <3>1
    <3> QED BY <1>4, <3>2
  <2>4. CASE Stood(s) /\ ~Stood(t)
    <3>1. ~t[2] /\ ~Stood(<<t[1], TRUE>>)
      BY <1>2, <1>4, <2>4
    <3>2. s # <<s[1], TRUE>>
      BY <1>4, <2>4, <3>1
    <3>3. t # <<t[1], TRUE>>
      BY <2>1, <3>1
    <3> QED BY <1>4, <2>1, <3>2, <3>3
  <2>5. CASE ~Stood(s) /\ Stood(t)
    <3>1. ~s[2] /\ ~Stood(<<s[1], TRUE>>)
      BY <1>2, <1>4, <2>5
    <3>2. t # <<t[1], TRUE>>
      BY <1>4, <2>5, <3>1
    <3>3. s # <<s[1], TRUE>>
      BY <2>1, <3>1
    <3> QED BY <1>4, <2>1, <3>2, <3>3
  <2> QED BY <2>2, <2>3, <2>4, <2>5
<1>5. Alone'
  BY <1>1, <1>2, <1>3, <1>4 DEF Alone
<1> QED BY <1>1, <1>5 DEF Placed, SeenRan, Quiet, Settled, Regained, MatchedPaid, SweptPaid

\* So does the start.
LEMMA RecoverDonePlaced ==
  ASSUME TypeOK, Placed, RecoverDone
  PROVE  Placed'
<1>1. pc = "recover" /\ pc' = "idle" /\ UNCHANGED <<active, ran, now>>
  BY DEF RecoverDone, memory, world
<1>2. \A s \in Slots : active[s] # NoSession => active[s].mark = now /\ Stood(s) /\ s[1] \in ran
  BY <1>1 DEF Placed, Regained
<1>3. \A s, t \in Slots : active[s] # NoSession /\ active[t] # NoSession /\ s[1] = t[1] => s = t
  BY <1>2, StandsAlone
<1>4. Alone'
  BY <1>1, <1>2, <1>3 DEF Alone
<1> QED BY <1>1, <1>4 DEF Placed, SeenRan, Quiet, Settled, Regained, MatchedPaid, SweptPaid

\* At the start the matches are of processes that run, and those that
\* anything names ran before.
LEMMA StartPlaced ==
  ASSUME TypeOK, NamesRan, Placed, Start
  PROVE  Placed'
<1>1. /\ pc = "down" /\ UNCHANGED <<rows, journal, active, queue, now, ran, game>>
      /\ \/ pc' = "sweep" /\ seen' = {}
         \/ pc' = "replay" /\ \E z \in Sightings : seen' = {m \in z : m.slot[2]}
  BY DEF Start, database, world
<1>2. \A s \in Slots : active'[s] = NoSession
  BY <1>1 DEF Placed, Quiet
<1>3. SeenRan' /\ Quiet' /\ Settled' /\ MatchedPaid' /\ SweptPaid'
  BY <1>1, <1>2 DEF SeenRan, Quiet, Settled, MatchedPaid, SweptPaid
<1>4. ASSUME pc' = "replay", NEW k \in Keys, NEW s \in Slots, Named(k, s)', Stood(s)'
      PROVE  s[1] \in ran'
  <2>1. Named(k, s)
    BY <1>1, <1>4 DEF Named
  <2>2. PICK z \in Sightings : seen' \subseteq z
    BY <1>1, <1>4
  <2>3. PICK m \in z : m.slot = s
    BY <1>4, <2>2 DEF Stood
  <2>4. Alive(s[1])
    BY <2>3, SightingsOn
  <2> QED BY <1>1, <2>1, <2>4 DEF NamesRan
<1>5. Regained'
  <2>1. CASE pc' = "replay"
    <3>1. \A k \in Keys, s \in Slots : Named(k, s)' /\ Stood(s)' => s[1] \in ran'
      BY <1>4, <2>1
    <3> QED BY <1>2, <3>1 DEF Regained
  <2>2. CASE pc' = "sweep"
    BY <2>2 DEF Regained
  <2> QED BY <1>1, <2>1, <2>2
<1> QED BY <1>3, <1>5 DEF Placed

\* What is followed at the start was named at its slot, and is matched.
LEMMA RegainPlaced ==
  ASSUME TypeOK, TypeOK', IdsNameOwnRow, Placed, Marked, SomeActs,
         pc \in {"replay", "recover"}, pc' \in {"replay", "recover"}, UNCHANGED <<seen, ran, now>>
  PROVE  Placed'
<1>1. PICK K, sl, I : Acts(K, sl, I)
  BY DEF SomeActs
<1>2. \A s \in Slots : Stood(s)' <=> Stood(s)
  BY DEF Stood
<1>3. \A k \in Keys, s \in Slots : Named(k, s)' => Named(k, s)
  <2>1. \A k \in K : Named(k, sl)
    BY <1>1 DEF Acts, Source
  <2> QED BY <1>1, <2>1, NamesOn
<1>4. \A k \in Keys, s \in Slots : Named(k, s)' /\ Stood(s) => s[1] \in ran
  BY <1>3 DEF Placed, Regained
<1>5. ASSUME NEW s \in Slots, active'[s] # NoSession
      PROVE  active'[s].mark = now /\ Stood(s) /\ s[1] \in ran
  <2>1. active'[s].mark = now
    BY <1>5 DEF Marked, Placed, Regained
  <2>2. Stood(s)
    <3>1. active[s] # NoSession \/ Stood(s)
      BY <1>1, <1>5 DEF Acts, Stood
    <3> QED BY <3>1 DEF Placed, Regained
  <2>3. active'[s].key \in Keys
    <3>1. active'[s] \in Sessions
      BY <1>5 DEF TypeOK, Filled
    <3> QED BY <3>1 DEF Sessions
  <2>4. s[1] \in ran
    <3>1. PICK k \in Keys : k = active'[s].key
      BY <2>3
    <3>2. Named(k, s)'
      BY <1>5, <3>1 DEF Named
    <3> QED BY <1>4, <2>2, <3>2
  <2> QED BY <2>1, <2>2, <2>4
<1>6. Regained'
  BY <1>2, <1>4, <1>5 DEF Regained
<1> QED BY <1>6 DEF Placed, SeenRan, Quiet, Settled, MatchedPaid, SweptPaid

\* A killed recorder follows nothing, and time passes without it.
LEMMA DownPlaced ==
  ASSUME Placed, Kill \/ Pass
  PROVE  Placed'
<1>1. pc' = "down" /\ \A s \in Slots : active'[s] = NoSession
  BY DEF Kill, Pass, memory, poll, Placed, Quiet
<1> QED BY <1>1 DEF Placed, SeenRan, Quiet, Settled, Regained, MatchedPaid, SweptPaid

\* The rest of the world leaves sessions and matches alone.
Calm ==
  /\ UNCHANGED <<now, ran, pc, seen, work, active, queue, journal>>
  /\ \A k \in Keys : rows'[k] = rows[k] \/ rows'[k] = NoRow

\* A game that starts or exits and history that is deleted change none of
\* it.
LEMMA CalmPlaced ==
  ASSUME TypeOK, Placed, Calm, Watches
  PROVE  Placed'
<1>1. \A k \in Keys, s \in Slots : Named(k, s)' => Named(k, s)
  BY DEF Named, Calm
<1>2. \A s : Stood(s)' <=> Stood(s)
  BY DEF Stood, Calm
<1>3. SeenRan'
  <2>1. \A m \in seen : m.slot[1] \in Procs
    BY DEF TypeOK, Slots
  <2> QED BY <2>1 DEF Calm, Watches, Placed, SeenRan
<1>4. Quiet' /\ Settled' /\ MatchedPaid'
  BY DEF Calm, Placed, Quiet, Settled, Alone, MatchedPaid
<1>5. Regained'
  BY <1>1, <1>2 DEF Calm, Placed, Regained
<1>6. SweptPaid'
  BY <1>2 DEF Calm, Placed, SweptPaid
<1> QED BY <1>3, <1>4, <1>5, <1>6 DEF Placed

\* Only a poll changes which processes ran at the last one.
LEMMA RanNext ==
  ASSUME [Next]_vars
  PROVE  ran' = ran \/ (game' = game /\ ran' = {p \in Procs : Alive(p)})
<1>1. CASE Poll \/ Pass
  BY <1>1 DEF Poll, Pass, Passes
<1>2. CASE Retry \/ RetryDone \/ DrainDone \/ MatchDone
  BY <1>2 DEF Retry, RetryDone, DrainDone, MatchDone, world
<1>3. CASE SweepDone \/ Start \/ ReplayDone \/ RecoverDone \/ Kill
  BY <1>3 DEF SweepDone, Start, ReplayDone, RecoverDone, Kill, world
<1>4. CASE \E k \in Keys : Drain(k) \/ Replay(k) \/ Recover(k)
  BY <1>4 DEF Drain, Replay, Recover, world
<1>5. CASE \E m \in seen : Match(m)
  BY <1>5 DEF Match, world
<1>6. CASE \E s \in Slots : SweepGrace(s) \/ SweepClose(s)
  BY <1>6 DEF SweepGrace, SweepClose, world
<1>7. CASE (\E p \in Procs, g \in Games : StartGame(p, g) \/ SwitchGame(p, g)) \/ \E p \in Procs : ExitGame(p)
  BY <1>7 DEF StartGame, SwitchGame, ExitGame
<1>8. CASE (\E k \in Keys : DeleteSession(k)) \/ \E g \in Games : ClearGame(g)
  BY <1>8 DEF DeleteSession, ClearGame, world
<1>9. CASE UNCHANGED vars
  BY <1>9 DEF vars, world
<1> QED BY <1>1, <1>2, <1>3, <1>4, <1>5, <1>6, <1>7, <1>8, <1>9 DEF Next, Step, World

\* What runs and has a name ran at the last poll.
LEMMA NamesRanNext ==
  ASSUME TypeOK, IdsNameOwnRow, NamesRan, SeenRan, Next
  PROVE  NamesRan'
<1>1. Watches /\ (ran' = ran \/ (game' = game /\ ran' = {p \in Procs : Alive(p)}))
  BY NextWatches, RanNext
<1>2. ASSUME NEW p \in Procs, game[p] # NoGame, Alive(p) => p \in ran
      PROVE  game'[p] # NoGame /\ (Alive(p)' => p \in ran')
  <2>1. game[p] \in Games \cup {NoGame, Gone}
    BY DEF TypeOK
  <2>2. Alive(p)' => Alive(p)
    BY <1>1, <1>2, <2>1, GamesAssumption DEF Watches, Alive
  <2> QED BY <1>1, <1>2, <2>2 DEF Watches
<1>3. ASSUME NEW k \in Keys, NEW s \in Slots, Named(k, s)'
      PROVE  game[s[1]] # NoGame /\ (Alive(s[1]) => s[1] \in ran)
  <2>1. CASE Named(k, s)
    BY <2>1 DEF NamesRan
  <2>2. CASE SomeActs
    <3>1. PICK K, sl, I : Acts(K, sl, I)
      BY <2>2 DEF SomeActs
    <3>2. Named(k, s) \/ (k \in K /\ s = sl)
      BY <1>3, <3>1, NamesOn
    <3>3. k \in K => Source(k, sl)
      BY <3>1 DEF Acts
    <3>4. CASE pc = "match" /\ \E m \in seen : m.slot = s
      BY <3>4 DEF SeenRan
    <3> QED BY <2>1, <3>2, <3>3, <3>4 DEF Source
  <2>3. CASE (\E l \in Keys : DeleteSession(l)) \/ (\E g \in Games : ClearGame(g))
    <3>1. /\ \A l \in Keys : rows'[l] = rows[l] \/ rows'[l] = NoRow
          /\ UNCHANGED <<journal, active, queue>>
      BY <2>3, DeleteSessionType, ClearGameType
    <3>2. Named(k, s)
      BY <1>3, <3>1 DEF Named
    <3> QED BY <2>1, <3>2
  <2> QED BY <2>2, <2>3, NextActs
<1>4. \A s \in Slots : s[1] \in Procs
  BY DEF Slots
<1> QED BY <1>2, <1>3, <1>4 DEF NamesRan

\* There is an account of all play that is claimed.
Honest == NamesRan /\ Placed /\ ran \subseteq Procs /\ \E c : Books(c)

\* Nothing is claimed at first.
LEMMA InitHonest == Init => Honest
<1> SUFFICES ASSUME Init PROVE Honest
  OBVIOUS
<1>1. /\ rows = [k \in Keys |-> NoRow] /\ journal = [k \in Keys |-> NoOp] /\ queue = <<>>
      /\ active = [s \in Slots |-> NoSession] /\ seen = {} /\ pc = "down" /\ now = 1 /\ ran = {} /\ lived = 0
  BY DEF Init
<1>2. /\ \A k \in Keys : rows[k] = NoRow /\ journal[k] = NoOp
      /\ \A s \in Slots : active[s] = NoSession
      /\ Len(queue) = 0
  BY <1>1
<1>3. \A k \in Keys, s \in Slots : ~Named(k, s)
  BY <1>2 DEF Named
<1>4. NamesRan /\ Placed
  BY <1>1, <1>2, <1>3
     DEF NamesRan, Placed, SeenRan, Quiet, Settled, Regained, MatchedPaid, SweptPaid
<1> DEFINE c == [start |-> [k \in Keys |-> 0], play |-> {}, till |-> 1]
<1>5. StorageFair(c, Stored)
  <2>1. StorageOK(Stored)
    BY InitTypeOK DEF TypeOK
  <2> QED BY <1>2, <2>1 DEF StorageFair, Stored
<1>6. QueueFair(c, queue) /\ Paid(c, active) /\ c.till = Horizon /\ lived \in Nat
  BY <1>1, <1>2 DEF QueueFair, Paid, Horizon
<1>7. Balanced(c, Unbilled)
  <2>1. Unbilled = {} /\ c.play = {}
    BY <1>2 DEF Unbilled
  <2>2. IsFiniteSet({}) /\ Cardinality({}) = 0
    BY FS_EmptySet
  <2> QED BY <1>1, <2>1, <2>2 DEF Balanced
<1>8. Books(c)
  BY <1>5, <1>6, <1>7 DEF Books
<1> QED BY <1>1, <1>4, <1>8 DEF Honest

\* Every step of the recorder keeps its account.
LEMMA StepHonest ==
  ASSUME TypeOK, TypeOK', IdsNameOwnRow, Honest, Step
  PROVE  Placed' /\ \E d : Books(d)'
<1>1. PICK c : Books(c)
  BY DEF Honest
<1>2. Placed /\ NamesRan /\ ran \subseteq Procs
  BY DEF Honest
<1>3. CASE Poll
  <2>1. /\ Passes /\ UNCHANGED <<rows, journal, active, queue>> /\ pc' \in {"down", "retry", "match"} /\ pc = "idle"
    BY <1>3 DEF Poll, database, disk
  <2>2. Alone
    BY <1>2, <2>1 DEF Placed, Settled
  <2>3. \E d : Books(d)'
    BY <1>1, <1>2, <2>1, <2>2, PassesBooks
  <2> QED BY <1>2, <1>3, <2>3, PollPlaced
<1>4. CASE Retry \/ RetryDone \/ DrainDone
  BY <1>1, <1>2, <1>4, RetryBooks, RetryDoneBooks, DrainDoneBooks, RetriesPlaced
<1>5. CASE MatchDone
  BY <1>1, <1>2, <1>5, MatchDoneBooks, MatchDonePlaced
<1>6. CASE SweepDone
  BY <1>1, <1>2, <1>6, SweepDoneBooks, SweepDonePlaced
<1>7. CASE Start
  BY <1>1, <1>2, <1>7, StartBooks, StartPlaced
<1>8. CASE ReplayDone
  <2>1. pc = "replay" /\ pc' = "recover" /\ UNCHANGED <<active, seen, ran, now>>
    BY <1>8 DEF ReplayDone, world
  <2>2. Marked
    BY <2>1 DEF Marked
  <2>3. SomeActs
    <3> DEFINE A == Acts({}, 0, {})
    <3>1. A
      BY <1>8, ReplayDoneActs
    <3>2. A => SomeActs
      BY ActsAre
    <3> QED BY <3>1, <3>2
  <2> QED BY <1>1, <1>2, <1>8, <2>1, <2>2, <2>3, ReplayDoneBooks, RegainPlaced
<1>9. CASE RecoverDone
  BY <1>1, <1>2, <1>9, RecoverDoneBooks, RecoverDonePlaced
<1>10. ASSUME NEW k \in Keys, Drain(k) PROVE Placed' /\ \E d : Books(d)'
  BY <1>1, <1>2, <1>10, DrainBooks, RetriesPlaced
<1>11. ASSUME NEW k \in Keys, Replay(k) \/ Recover(k) PROVE Placed' /\ \E d : Books(d)'
  <2>1. pc \in {"replay", "recover"} /\ pc' = pc /\ UNCHANGED <<seen, ran, now>>
    BY <1>11 DEF Replay, Recover, world
  <2>2. \A s \in Slots : active[s] # NoSession => active[s].mark = now
    BY <1>2, <2>1 DEF Placed, Regained
  <2>3. (\E d : Books(d)') /\ Marked
    BY <1>1, <1>11, <2>2, ReplayBooks, RecoverBooks
  <2>4. SomeActs
    BY <1>11, ReplayActs, RecoverActs
  <2> QED BY <1>2, <2>1, <2>3, <2>4, RegainPlaced
<1>12. ASSUME NEW m \in seen, Match(m) PROVE Placed' /\ \E d : Books(d)'
  <2>1. (\E d : Books(d)') /\ Attends(m)
    BY <1>1, <1>12, MatchBooks
  <2> QED BY <1>2, <1>12, <2>1, MatchPlaced
<1>13. ASSUME NEW s \in Slots, SweepGrace(s) PROVE Placed' /\ \E d : Books(d)'
  <2>1. (\E d : Books(d)') /\ active'[s].mark = now
    BY <1>1, <1>13, SweepGraceBooks
  <2> QED BY <1>1, <1>2, <1>13, <2>1, SweepPlaced
<1>14. ASSUME NEW s \in Slots, SweepClose(s) PROVE Placed' /\ \E d : Books(d)'
  BY <1>1, <1>2, <1>14, SweepCloseBooks, SweepPlaced
<1> QED BY <1>3, <1>4, <1>5, <1>6, <1>7, <1>8, <1>9, <1>10, <1>11, <1>12, <1>13, <1>14 DEF Step

\* So does every other step.
LEMMA HonestNext ==
  ASSUME TypeOK, IdsNameOwnRow, Honest, [Next]_vars
  PROVE  Honest'
<1>0. PICK c : Books(c)
  BY DEF Honest
<1>1. Placed /\ NamesRan /\ ran \subseteq Procs
  BY DEF Honest
<1>2. ran' \subseteq Procs
  BY <1>1, RanNext
<1>3. TypeOK'
  BY TypeNext
<1>4. CASE Next
  <2>1. NamesRan' /\ Watches
    BY <1>1, <1>4, NamesRanNext, NextWatches DEF Placed
  <2>2. CASE Step
    BY <1>2, <1>3, <2>1, <2>2, StepHonest DEF Honest
  <2>3. CASE Kill
    BY <1>0, <1>1, <1>2, <1>3, <2>1, <2>3, KillBooks, DownPlaced DEF Honest
  <2>4. CASE Pass
    <3>1. Passes /\ UNCHANGED <<rows, journal, active, queue, pc>> /\ pc = "down"
      BY <2>4 DEF Pass, database, disk, memory, poll
    <3>2. Alone
      BY <1>1, <3>1 DEF Placed, Quiet, Alone
    <3>3. \E d : Books(d)'
      BY <1>0, <1>1, <1>3, <3>1, <3>2, PassesBooks
    <3> QED BY <1>1, <1>2, <2>1, <2>4, <3>3, DownPlaced DEF Honest
  <2>5. CASE \/ \E p \in Procs, g \in Games : StartGame(p, g) \/ SwitchGame(p, g)
             \/ \E p \in Procs : ExitGame(p)
    <3>1. Calm
      BY <2>5 DEF StartGame, SwitchGame, ExitGame, Calm, database, disk, memory, poll
    <3>2. Placed'
      BY <1>1, <2>1, <3>1, CalmPlaced
    <3>3. \E d : Books(d)'
      BY <1>0, <1>3, <2>5, GamesBooks
    <3> QED BY <1>2, <2>1, <3>2, <3>3 DEF Honest
  <2>6. CASE (\E k \in Keys : DeleteSession(k)) \/ (\E g \in Games : ClearGame(g))
    <3>1. UNCHANGED <<now, ran, work>>
      BY <2>6 DEF DeleteSession, ClearGame, poll, world
    <3>2. /\ \A l \in Keys : rows'[l] = rows[l] \/ rows'[l] = NoRow
          /\ UNCHANGED <<journal, active, queue, seen, pc>>
      BY <2>6, DeleteSessionType, ClearGameType
    <3>3. Placed'
      BY <1>1, <2>1, <3>1, <3>2, CalmPlaced DEF Calm
    <3>4. \E d : Books(d)'
      BY <1>0, <1>3, <2>6, DeletesBooks
    <3> QED BY <1>2, <2>1, <3>3, <3>4 DEF Honest
  <2> QED BY <1>4, <2>2, <2>3, <2>4, <2>5, <2>6 DEF Next, World
<1>5. CASE UNCHANGED vars
  <2>1. UNCHANGED <<now, game, ran, lived, rows, journal, jok, active, queue, pc, seen, work>>
    BY <1>5 DEF vars, database, disk, memory, poll, world
  <2>2. NamesRan'
    BY <1>1, <2>1 DEF NamesRan, Named, Alive
  <2>3. Placed'
    <3>1. SeenRan' /\ Quiet' /\ Settled'
      BY <1>1, <2>1 DEF Placed, SeenRan, Quiet, Settled, Alone
    <3>2. Regained'
      BY <1>1, <2>1 DEF Placed, Regained, Named, Stood
    <3>3. MatchedPaid' /\ SweptPaid'
      BY <1>1, <2>1 DEF Placed, MatchedPaid, SweptPaid, Stood
    <3> QED BY <3>1, <3>2, <3>3 DEF Placed
  <2>4. Books(c)'
    <3>1. StorageFair(c, Stored') /\ QueueFair(c, queue') /\ Horizon' = Horizon /\ Unbilled' = Unbilled
      BY <1>0, <2>1 DEF Books, Stored, Horizon, Unbilled
    <3>2. Paid(c, active)'
      BY <1>0, <2>1 DEF Books, Paid, SessionFair
    <3> QED BY <1>0, <2>1, <3>1, <3>2 DEF Books, Balanced
  <2> QED BY <1>2, <2>2, <2>3, <2>4 DEF Honest
<1> QED BY <1>4, <1>5

\* What an account holds is what was lived.
LEMMA HonestCounts ==
  ASSUME TypeOK, Honest
  PROVE  NoPlayInvented
<1>1. PICK c : Books(c)
  BY DEF Honest
<1>2. ASSUME NEW k \in Keys, NEW x \in Totals(k), NEW n \in 1 .. x
      PROVE  <<k, n>> \in c.play
  <2>1. CASE rows[k] # NoRow /\ x = rows[k].secs
    <3>1. RowFair(c, k, rows[k])
      BY <1>1, <2>1 DEF Books, StorageFair, Stored
    <3> QED BY <2>1, <3>1 DEF RowFair, Credited
  <2>2. CASE journal[k] # NoOp /\ x = journal[k].secs
    <3>1. OpFair(c, journal[k]) /\ journal[k].key = k
      BY <1>1, <2>2, JournaledIs DEF Books, StorageFair, Stored
    <3> QED BY <2>2, <3>1 DEF OpFair, Credited
  <2>3. ASSUME NEW i \in DOMAIN queue, queue[i].op.key = k, x = queue[i].op.secs
        PROVE  <<k, n>> \in c.play
    <3>1. i \in 1 .. Len(queue)
      BY LenProperties DEF TypeOK
    <3>2. OpFair(c, queue[i].op)
      BY <1>1, <3>1 DEF Books, QueueFair, EntryFair
    <3> QED BY <2>3, <3>2 DEF OpFair, Credited
  <2>4. ASSUME NEW s \in Slots, active[s] # NoSession, active[s].key = k, x = active[s].secs
        PROVE  <<k, n>> \in c.play
    <3>1. SessionFair(c, active[s])
      BY <1>1, <2>4 DEF Books, Paid
    <3> QED BY <2>4, <3>1 DEF SessionFair, Credited
  <2> QED BY <2>1, <2>2, <2>3, <2>4 DEF Totals
<1>3. ClaimedPlay \subseteq c.play
  BY <1>2 DEF ClaimedPlay
<1>4. Cardinality(ClaimedPlay) <= lived
  <2>1. IsFiniteSet(c.play) /\ IsFiniteSet(Unbilled) /\ Cardinality(c.play) + Cardinality(Unbilled) <= lived /\ lived \in Nat
    BY <1>1 DEF Books, Balanced
  <2>2. /\ IsFiniteSet(ClaimedPlay) /\ Cardinality(ClaimedPlay) <= Cardinality(c.play)
        /\ Cardinality(ClaimedPlay) \in Nat /\ Cardinality(c.play) \in Nat /\ Cardinality(Unbilled) \in Nat
    BY <1>3, <2>1, FS_Subset, FS_CardinalityType
  <2> QED BY <2>1, <2>2
<1>5. ASSUME NEW k \in Keys, rows[k] # NoRow
      PROVE  rows[k].secs <= Later(rows[k].end, rows[k].beat) - rows[k].start
  <2>1. RowFair(c, k, rows[k])
    BY <1>1, <1>5 DEF Books, StorageFair, Stored
  <2> QED BY <2>1 DEF RowFair, Credited
<1> QED BY <1>4, <1>5 DEF NoPlayInvented

\* NoPlayInvented: over all sessions rows, pending operations and memory
\* never claim more play than processes ran for, and no row more than lies
\* between its boundaries, through refused writes, kills, replays,
\* recoveries, takeovers, upgrades and switched-off tracking, as long as
\* every identifier an active session holds is that of its own row.
THEOREM NoPlayInventedWhileIdsOwn == Spec /\ []IdsNameOwnRow => []NoPlayInvented
<1>1. Init => Honest
  BY InitHonest
<1>2. TypeOK /\ IdsNameOwnRow /\ Honest /\ [Next]_vars => Honest'
  BY HonestNext
<1>3. TypeOK /\ Honest => NoPlayInvented
  BY HonestCounts
<1> QED BY <1>1, <1>2, <1>3, RecorderTypeOK, PTL DEF Spec

\* NoPlayInvented holds, then, while nothing was ever deleted.
THEOREM NoPlayInventedUntilDeletion == Spec /\ []NothingDeleted => []NoPlayInvented
BY NoPlayInventedWhileIdsOwn, IdsNameOwnRowUntilDeletion, PTL
================================================================================
