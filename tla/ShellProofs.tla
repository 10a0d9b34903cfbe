-------------------------------- MODULE ShellProofs -------------------------------
(***************************************************************************)
(* What is proved of Shell, for any number of files, any history and any   *)
(* mixture of inputs: queue, session and history mean the same file, the   *)
(* history is sound and saved, an end is of the file that is open, and a   *)
(* bookmark is changed for nobody but the current file.                    *)
(***************************************************************************)
EXTENDS Shell, FiniteSetTheorems, SequenceTheorems, TLAPS

-----------------------------------------------------------------------------
(* The inductive invariant, in named parts.                                 *)

Phases == {"idle", "opening", "seeking", "playing", "ended", "error"}
Files == Paths \union {NoPath}

Sessions ==
    [file : Files, phase : Phases, known : BOOLEAN, start : Nat,
     target : Nat \union {None}, clock : Nat \union {None}, signal : BOOLEAN, shown : Seq(Paths)]

Queues == [items : Seq(Paths), cursor : Nat]

Distinct(r) ==
    \A i, j \in 1 .. Len(r) : Key(r[i].path) = Key(r[j].path) => i = j

Histories == {r \in Seq(Entries) : Len(r) <= MaxRecent /\ Distinct(r)}

\* The cursor of q is at file f.
At(q, f) == q.cursor \in 1 .. Len(q.items) /\ q.items[q.cursor] = f

\* An end that was latched is not that of a file that is yet to begin.
Sound(x) == x \in Sessions /\ (x.signal => x.phase # "opening")

LoopInv ==
    /\ pc \in {"pump", "input", "exited"}
    /\ present \subseteq 1 .. Names /\ inputs \in 0 .. MaxInputs
    /\ reached \in Nat /\ left \in [path : Files, at : Nat]

SessionInv == Sound(sess)

HistoryInv ==
    /\ recent \in Histories /\ disk = recent
    /\ selected \in Nat /\ SelectionExists

FileInv ==
    /\ queue \in Queues /\ current \in Files
    /\ current # NoPath => sess.file = current /\ At(queue, current)

ShellInv == LoopInv /\ SessionInv /\ HistoryInv /\ FileInv

\* From history r to t only the bookmark of file k has changed.
OnlyOf(r, t, k) ==
    \A i \in 1 .. Len(r) : \A j \in 1 .. Len(t) :
        Key(t[j].path) = Key(r[i].path) /\ t[j].at # r[i].at => Key(r[i].path) = k

-----------------------------------------------------------------------------
(* The history.                                                             *)

\* What the assumption on the constants says of each.
LEMMA Numbers ==
    /\ Names \in Nat \ {0} /\ MaxRecent \in Nat \ {0} /\ MinResume \in Nat
    /\ Shortest \in Nat \ {0} /\ MaxInputs \in Nat
BY ConstantsOK DEF ConstantsOK

\* No file is not a file, and every file has a duration.
LEMMA FileFacts ==
    /\ NoPath \notin Paths
    /\ \A p \in Files : Key(p) \in Nat /\ Duration(p) \in Nat
    /\ None \notin Nat
BY Numbers DEF Paths, NoPath, Files, Key, Duration, None

\* A file that is in the history is in one row of it.
LEMMA RowOf ==
    ASSUME NEW r, Distinct(r), NEW p, Rows(r, p) # {}
    PROVE  /\ Row(r, p) \in 1 .. Len(r) /\ Key(r[Row(r, p)].path) = Key(p)
           /\ \A i \in 1 .. Len(r) : Key(r[i].path) = Key(p) => i = Row(r, p)
<1>1. PICK k \in Rows(r, p) : TRUE
      OBVIOUS
<1>2. \A j \in Rows(r, p) : j = k /\ k <= j
      BY <1>1 DEF Rows, Distinct
<1>3. Row(r, p) \in Rows(r, p)
      BY <1>1, <1>2 DEF Row
<1> QED
    BY <1>2, <1>3 DEF Rows

\* Taking a row out leaves the others, in their order.
LEMMA RemovedRows ==
    ASSUME NEW r \in Seq(Entries), NEW i \in 1 .. Len(r)
    PROVE  /\ Removed(r, i) \in Seq(Entries) /\ Len(Removed(r, i)) = Len(r) - 1
           /\ \A j \in 1 .. Len(r) - 1 : Removed(r, i)[j] = r[IF j < i THEN j ELSE j + 1]
<1> DEFINE a == SubSeq(r, 1, i - 1)
           b == SubSeq(r, i + 1, Len(r))
<1>0. Len(r) \in Nat /\ i \in Nat /\ \A k \in 1 .. Len(r) : r[k] \in Entries
      BY LenProperties, ElementOfSeq
<1>1. a \in Seq(Entries) /\ Len(a) = i - 1 /\ \A k \in 1 .. i - 1 : a[k] = r[k]
      <2>1. /\ a \in Seq(Entries)
            /\ Len(a) = IF 1 <= i - 1 THEN i - 1 - 1 + 1 ELSE 0
            /\ \A k \in 1 .. (i - 1) - 1 + 1 : a[k] = r[1 + k - 1]
            BY <1>0, SubSeqProperties
      <2> QED
          BY <1>0, <2>1
<1>2. /\ b \in Seq(Entries) /\ Len(b) = Len(r) - i
      /\ \A k \in 1 .. Len(r) - i : b[k] = r[i + k]
      <2>1. /\ b \in Seq(Entries)
            /\ Len(b) = IF i + 1 <= Len(r) THEN Len(r) - (i + 1) + 1 ELSE 0
            /\ \A k \in 1 .. Len(r) - (i + 1) + 1 : b[k] = r[i + 1 + k - 1]
            BY <1>0, SubSeqProperties
      <2> QED
          BY <1>0, <2>1
<1>3. /\ a \o b \in Seq(Entries) /\ Len(a \o b) = Len(a) + Len(b)
      /\ \A j \in 1 .. Len(a) + Len(b) : (a \o b)[j] = IF j <= Len(a) THEN a[j] ELSE b[j - Len(a)]
      BY <1>1, <1>2, ConcatProperties
<1>4. Removed(r, i) = a \o b
      BY DEF Removed
<1> HIDE DEF a, b
<1>5. Len(a) + Len(b) = Len(r) - 1
      BY <1>0, <1>1, <1>2
<1>6. ASSUME NEW j \in 1 .. Len(r) - 1
      PROVE  (a \o b)[j] = r[IF j < i THEN j ELSE j + 1]
      <2>1. (a \o b)[j] = IF j <= i - 1 THEN a[j] ELSE b[j - (i - 1)]
            BY <1>1, <1>3, <1>5
      <2>2. CASE j < i
            BY <1>0, <1>1, <2>1, <2>2
      <2>3. CASE ~(j < i)
            <3>1. j - (i - 1) \in 1 .. Len(r) - i /\ i + (j - (i - 1)) = j + 1
                  BY <1>0, <2>3
            <3>2. b[j - (i - 1)] = r[j + 1]
                  BY <1>2, <3>1
            <3> QED
                BY <1>0, <2>1, <2>3, <3>2
      <2> QED
          BY <2>2, <2>3
<1> QED
    BY <1>3, <1>4, <1>5, <1>6

\* So files stay distinct.
LEMMA RemovedHistory ==
    ASSUME NEW r \in Histories, NEW i \in 1 .. Len(r)
    PROVE  /\ Removed(r, i) \in Histories /\ Len(Removed(r, i)) = Len(r) - 1
           /\ \A j \in 1 .. Len(Removed(r, i)) :
                 \E k \in 1 .. Len(r) : k # i /\ Removed(r, i)[j] = r[k]
<1> DEFINE t == Removed(r, i)
           from(j) == IF j < i THEN j ELSE j + 1
<1>0. r \in Seq(Entries) /\ Len(r) \in Nat /\ Len(r) <= MaxRecent /\ Distinct(r)
      BY LenProperties DEF Histories
<1>1. /\ t \in Seq(Entries) /\ Len(t) = Len(r) - 1
      /\ \A j \in 1 .. Len(t) : t[j] = r[from(j)]
      BY <1>0, RemovedRows
<1>2. \A j \in 1 .. Len(t) : from(j) \in 1 .. Len(r) /\ from(j) # i
      BY <1>0, <1>1
<1>3. \A j, k \in 1 .. Len(t) : from(j) = from(k) => j = k
      BY <1>0, <1>1
<1> HIDE DEF t, from
<1>4. Distinct(t)
      BY <1>0, <1>1, <1>2, <1>3 DEF Distinct
<1>5. Len(t) <= MaxRecent
      BY <1>0, <1>1, Numbers
<1>6. \A j \in 1 .. Len(t) : \E k \in 1 .. Len(r) : k # i /\ t[j] = r[k]
      BY <1>1, <1>2
<1> QED
    BY <1>1, <1>4, <1>5, <1>6 DEF Histories, t

\* A prefix of distinct rows, no longer than it may be.
LEMMA CappedHistory ==
    ASSUME NEW r \in Seq(Entries), Distinct(r)
    PROVE  /\ Capped(r) \in Histories
           /\ Len(Capped(r)) = IF Len(r) > MaxRecent THEN MaxRecent ELSE Len(r)
           /\ \A j \in 1 .. Len(Capped(r)) : j \in 1 .. Len(r) /\ Capped(r)[j] = r[j]
<1>0. Len(r) \in Nat /\ \A k \in 1 .. Len(r) : r[k] \in Entries
      BY LenProperties, ElementOfSeq
<1>1. CASE ~(Len(r) > MaxRecent)
      BY <1>0, <1>1, Numbers DEF Capped, Histories
<1>2. CASE Len(r) > MaxRecent
      <2> DEFINE t == SubSeq(r, 1, MaxRecent)
      <2>1. /\ t \in Seq(Entries)
            /\ Len(t) = IF 1 <= MaxRecent THEN MaxRecent - 1 + 1 ELSE 0
            /\ \A k \in 1 .. MaxRecent - 1 + 1 : t[k] = r[1 + k - 1]
            BY <1>0, <1>2, Numbers, SubSeqProperties
      <2>2. Len(t) = MaxRecent /\ \A k \in 1 .. MaxRecent : k \in 1 .. Len(r) /\ t[k] = r[k]
            BY <1>0, <1>2, <2>1, Numbers
      <2>3. Distinct(t)
            BY <2>2 DEF Distinct
      <2>4. Capped(r) = t
            BY <1>2 DEF Capped
      <2> HIDE DEF t
      <2> QED
          BY <1>2, <2>1, <2>2, <2>3, <2>4, Numbers DEF Histories
<1> QED
    BY <1>1, <1>2

\* A row in front of others that are of other files.
LEMMA InFront ==
    ASSUME NEW e \in Entries, NEW t \in Seq(Entries), Distinct(t),
           \A j \in 1 .. Len(t) : Key(t[j].path) # Key(e.path)
    PROVE  /\ <<e>> \o t \in Seq(Entries) /\ Len(<<e>> \o t) = Len(t) + 1
           /\ Distinct(<<e>> \o t)
           /\ \A j \in 1 .. Len(<<e>> \o t) : (<<e>> \o t)[j] = IF j = 1 THEN e ELSE t[j - 1]
<1> DEFINE u == <<e>> \o t
<1>0. Len(t) \in Nat /\ <<e>> \in Seq(Entries) /\ Len(<<e>>) = 1 /\ <<e>>[1] = e
      BY LenProperties
<1>1. /\ u \in Seq(Entries) /\ Len(u) = 1 + Len(t)
      /\ \A j \in 1 .. 1 + Len(t) : u[j] = IF j <= 1 THEN <<e>>[j] ELSE t[j - 1]
      BY <1>0, ConcatProperties
<1>2. \A j \in 1 .. Len(u) : /\ u[j] = IF j = 1 THEN e ELSE t[j - 1]
                             /\ j # 1 => j - 1 \in 1 .. Len(t)
      BY <1>0, <1>1
<1> HIDE DEF u
<1>3. Distinct(u)
      <2> SUFFICES ASSUME NEW i \in 1 .. Len(u), NEW j \in 1 .. Len(u),
                          Key(u[i].path) = Key(u[j].path)
                   PROVE  i = j
          BY DEF Distinct
      <2>1. CASE i = 1 \/ j = 1
            BY <1>2, <2>1
      <2>2. CASE i # 1 /\ j # 1
            <3>1. /\ i - 1 \in 1 .. Len(t) /\ u[i] = t[i - 1]
                  /\ j - 1 \in 1 .. Len(t) /\ u[j] = t[j - 1]
                  BY <1>2, <2>2
            <3>2. i - 1 = j - 1
                  BY <3>1 DEF Distinct
            <3> QED
                BY <3>2
      <2> QED
          BY <2>1, <2>2
<1> QED
    BY <1>0, <1>1, <1>2, <1>3 DEF u

\* touch_opened: nothing but the order changes, and what drops out at the end.
LEMMA TouchedHistory ==
    ASSUME NEW r \in Histories, NEW p \in Paths
    PROVE  /\ Touched(r, p) \in Histories /\ Len(r) <= Len(Touched(r, p))
           /\ Len(Touched(r, p)) \in Nat
           /\ \A j \in 1 .. Len(Touched(r, p)) :
                 \/ \E k \in 1 .. Len(r) : Touched(r, p)[j] = r[k]
                 \/ Rows(r, p) = {} /\ Touched(r, p)[j].path = p
<1>0. r \in Seq(Entries) /\ Len(r) \in Nat /\ Len(r) <= MaxRecent /\ Distinct(r)
      BY LenProperties DEF Histories
<1>1. CASE Rows(r, p) # {}
      <2> DEFINE k == Row(r, p)
                 t == Removed(r, k)
                 u == <<r[k]>> \o t
      <2>1. k \in 1 .. Len(r)
            BY <1>0, <1>1, RowOf
      <2>2. /\ t \in Histories /\ Len(t) = Len(r) - 1
            /\ \A j \in 1 .. Len(t) : \E i \in 1 .. Len(r) : i # k /\ t[j] = r[i]
            BY <2>1, RemovedHistory
      <2>3. Touched(r, p) = Capped(u)
            BY <1>1 DEF Touched
      <2> HIDE DEF t, k
      <2>4. r[k] \in Entries /\ t \in Seq(Entries) /\ Distinct(t)
            BY <1>0, <2>1, <2>2, ElementOfSeq DEF Histories
      <2>5. \A j \in 1 .. Len(t) : Key(t[j].path) # Key(r[k].path)
            BY <1>0, <2>1, <2>2 DEF Distinct
      <2>6. /\ u \in Seq(Entries) /\ Len(u) = Len(t) + 1 /\ Distinct(u)
            /\ \A j \in 1 .. Len(u) : u[j] = IF j = 1 THEN r[k] ELSE t[j - 1]
            BY <2>4, <2>5, InFront
      <2>7. Len(u) = Len(r) /\ \A j \in 1 .. Len(u) : j # 1 => j - 1 \in 1 .. Len(t)
            BY <1>0, <2>2, <2>6
      <2>8. \A j \in 1 .. Len(u) : \E i \in 1 .. Len(r) : u[j] = r[i]
            BY <2>1, <2>2, <2>6, <2>7
      <2> HIDE DEF u
      <2>9. /\ Capped(u) \in Histories
            /\ Len(Capped(u)) = Len(r)
            /\ \A j \in 1 .. Len(Capped(u)) : j \in 1 .. Len(u) /\ Capped(u)[j] = u[j]
            <3>1. ~(Len(u) > MaxRecent)
                  BY <1>0, <2>7, Numbers
            <3> QED
                BY <2>6, <2>7, <3>1, CappedHistory
      <2>10. \A j \in 1 .. Len(Capped(u)) : \E i \in 1 .. Len(r) : Capped(u)[j] = r[i]
             BY <2>8, <2>9
      <2> QED
          BY <1>0, <2>3, <2>9, <2>10
<1>2. CASE Rows(r, p) = {}
      <2> DEFINE e == [path |-> p, at |-> 0, dur |-> 0]
                 u == <<e>> \o r
      <2>1. e \in Entries /\ e.path = p
            BY DEF Entries
      <2>2. Touched(r, p) = Capped(u)
            BY <1>2 DEF Touched
      <2>3. \A j \in 1 .. Len(r) : Key(r[j].path) # Key(p)
            BY <1>2 DEF Rows
      <2> HIDE DEF e
      <2>4. /\ u \in Seq(Entries) /\ Len(u) = Len(r) + 1 /\ Distinct(u)
            /\ \A j \in 1 .. Len(u) : u[j] = IF j = 1 THEN e ELSE r[j - 1]
            BY <1>0, <2>1, <2>3, InFront
      <2>5. \A j \in 1 .. Len(u) : j # 1 => j - 1 \in 1 .. Len(r)
            BY <1>0, <2>4
      <2>6. \A j \in 1 .. Len(u) : u[j].path = p \/ \E i \in 1 .. Len(r) : u[j] = r[i]
            BY <2>1, <2>4, <2>5
      <2> HIDE DEF u
      <2>7. /\ Capped(u) \in Histories
            /\ Len(r) <= Len(Capped(u)) /\ Len(Capped(u)) \in Nat
            /\ \A j \in 1 .. Len(Capped(u)) : j \in 1 .. Len(u) /\ Capped(u)[j] = u[j]
            BY <1>0, <2>4, CappedHistory, Numbers
      <2> QED
          BY <1>2, <2>2, <2>6, <2>7
<1> QED
    BY <1>1, <1>2

\* update_progress: one bookmark changes.
LEMMA UpdatedHistory ==
    ASSUME NEW r \in Histories, NEW p \in Files, NEW at \in Nat, NEW dur \in Nat
    PROVE  /\ Updated(r, p, at, dur) \in Histories /\ Len(Updated(r, p, at, dur)) = Len(r)
           /\ \A i \in 1 .. Len(r) :
                 /\ Updated(r, p, at, dur)[i].path = r[i].path
                 /\ Key(r[i].path) # Key(p) => Updated(r, p, at, dur)[i] = r[i]
<1>0. r \in Seq(Entries) /\ Len(r) \in Nat /\ Len(r) <= MaxRecent /\ Distinct(r)
      BY LenProperties DEF Histories
<1>1. CASE Rows(r, p) = {}
      BY <1>0, <1>1 DEF Updated
<1>2. CASE Rows(r, p) # {}
      <2> DEFINE k == Row(r, p)
                 d == IF dur > 0 THEN dur ELSE r[k].dur
                 e == [path |-> r[k].path, at |-> at, dur |-> d]
                 t == [r EXCEPT ![k] = e]
      <2>1. k \in 1 .. Len(r) /\ Key(r[k].path) = Key(p)
            BY <1>0, <1>2, RowOf
      <2>2. r[k] \in Entries
            BY <1>0, <2>1, ElementOfSeq
      <2>3. e \in Entries
            BY <2>2 DEF Entries
      <2>4. r[k] = [path |-> r[k].path, at |-> r[k].at, dur |-> r[k].dur]
            BY <2>2 DEF Entries
      <2>5. Updated(r, p, at, dur) = t
            <3>1. Updated(r, p, at, dur) = [r EXCEPT ![k] = [[r[k] EXCEPT !.at = at] EXCEPT !.dur = IF dur > 0 THEN dur ELSE @]]
                  BY <1>0, <1>2, <2>1, LenProperties DEF Updated
            <3>2. ASSUME NEW v, v \in Entries
                  PROVE  [[v EXCEPT !.at = at] EXCEPT !.dur = IF dur > 0 THEN dur ELSE @]
                           = [path |-> v.path, at |-> at, dur |-> IF dur > 0 THEN dur ELSE v.dur]
                  <4>1. [v EXCEPT !.at = at] = [path |-> v.path, at |-> at, dur |-> v.dur]
                        BY <3>2 DEF Entries
                  <4>3. [v EXCEPT !.at = at] \in Entries
                        BY <3>2 DEF Entries
                  <4>4. ASSUME NEW x, x \in Entries
                        PROVE  [x EXCEPT !.dur = IF dur > 0 THEN dur ELSE @]
                                 = [path |-> x.path, at |-> x.at, dur |-> IF dur > 0 THEN dur ELSE x.dur]
                        BY <4>4 DEF Entries
                  <4>5. /\ [v EXCEPT !.at = at].path = v.path
                        /\ [v EXCEPT !.at = at].at = at
                        /\ [v EXCEPT !.at = at].dur = v.dur
                        BY <4>1
                  <4> QED
                      BY <4>3, <4>4, <4>5
            <3> QED
                BY <2>2, <3>1, <3>2
      <2> HIDE DEF k, d
      <2>6. /\ t \in Seq(Entries) /\ Len(t) = Len(r)
            /\ \A j \in 1 .. Len(r) : t[j] = IF j = k THEN e ELSE r[j]
            BY <1>0, <2>1, <2>3, ExceptSeq
      <2>7. \A j \in 1 .. Len(r) : t[j].path = r[j].path
            BY <2>6
      <2>8. Distinct(t)
            BY <1>0, <2>6, <2>7 DEF Distinct
      <2>9. \A j \in 1 .. Len(r) : Key(r[j].path) # Key(p) => t[j] = r[j]
            BY <2>1, <2>6
      <2> HIDE DEF t
      <2> QED
          BY <1>0, <2>5, <2>6, <2>7, <2>8, <2>9 DEF Histories
<1> QED
    BY <1>1, <1>2

\* resume_target
LEMMA ResumesSomewhere ==
    ASSUME NEW r \in Histories, NEW p
    PROVE  ResumeAt(r, p) \in Nat
<1>1. CASE Rows(r, p) = {}
      BY <1>1 DEF ResumeAt
<1>2. CASE Rows(r, p) # {}
      <2>1. r \in Seq(Entries) /\ Row(r, p) \in 1 .. Len(r)
            BY <1>2, RowOf DEF Histories
      <2>2. r[Row(r, p)] \in Entries
            BY <2>1, ElementOfSeq
      <2>3. r[Row(r, p)].at \in Nat
            BY <2>2 DEF Entries
      <2> QED
          BY <1>2, <2>3 DEF ResumeAt
<1> QED
    BY <1>1, <1>2

-----------------------------------------------------------------------------
(* The session.                                                             *)

\* Where a session is.
LEMMA SomewhereInFile ==
    ASSUME NEW x \in Sessions
    PROVE  /\ Position(x) \in Nat /\ (reached \in Nat => Where(x) \in Nat)
           /\ Duration(x.file) \in Nat
BY FileFacts DEF Sessions, Position, Where

\* What a tick gives is a session of the same file.
LEMMA TickedSession ==
    ASSUME Sound(sess), reached \in Nat, NEW x \in Ticked(sess)
    PROVE  Sound(x) /\ x.file = sess.file /\ Sound([x EXCEPT !.signal = FALSE])
           /\ [x EXCEPT !.signal = FALSE].file = sess.file
           /\ Where(x) \in Nat
<1>0. sess \in Sessions /\ (sess.signal => sess.phase # "opening") /\ Position(sess) \in Nat
      BY SomewhereInFile DEF Sound
<1>1. x \in Sessions /\ x.file = sess.file /\ (x.signal => x.phase # "opening")
      <2>1. CASE x = sess
            BY <1>0, <2>1
      <2>2. CASE x = [sess EXCEPT !.known = TRUE] /\ sess.phase = "opening"
            BY <1>0, <2>2 DEF Sessions
      <2>3. ASSUME NEW t \in {None, sess.target},
                   x = [sess EXCEPT !.phase = "playing", !.clock = sess.start, !.target = t]
            PROVE  x \in Sessions /\ x.file = sess.file /\ (x.signal => x.phase # "opening")
            BY <1>0, <2>3 DEF Sessions, Phases
      <2>4. CASE x = [sess EXCEPT !.target = None] /\ sess.phase = "playing"
            BY <1>0, <2>4 DEF Sessions
      <2>5. CASE /\ x = [sess EXCEPT !.clock = IF @ = None THEN reached ELSE @ + 1]
                 /\ sess.phase = "playing"
            <3>1. (IF sess.clock = None THEN reached ELSE sess.clock + 1) \in Nat
                  BY <1>0 DEF Sessions
            <3> QED
                BY <1>0, <2>5, <3>1 DEF Sessions
      <2>6. CASE x = [sess EXCEPT !.phase = "ended", !.signal = TRUE]
            BY <1>0, <2>6 DEF Sessions, Phases
      <2>7. CASE x = [sess EXCEPT !.phase = "error", !.target = None]
            BY <1>0, <2>7 DEF Sessions, Phases
      <2>8. CASE x = [sess EXCEPT !.phase = "seeking", !.start = Position(sess), !.clock = None]
            BY <1>0, <2>8 DEF Sessions, Phases
      <2> QED
          BY <2>1, <2>2, <2>3, <2>4, <2>5, <2>6, <2>7, <2>8 DEF Ticked
<1>2. Sound([x EXCEPT !.signal = FALSE]) /\ [x EXCEPT !.signal = FALSE].file = sess.file
      BY <1>1 DEF Sessions, Sound
<1> QED
    BY <1>1, <1>2, SomewhereInFile DEF Sound

\* open_at: the latch is emptied.
LEMMA OpenedIsSound ==
    ASSUME NEW x \in Sessions, NEW p \in Paths, NEW start \in Nat
    PROVE  Sound(OpenedSession(x, p, start)) /\ OpenedSession(x, p, start).file = p
BY DEF OpenedSession, Sessions, Sound, Phases, Files, None

\* The session the program begins with is sound.
LEMMA FreshIsSound == Sound(Fresh) /\ Fresh.file = NoPath
<1>1. <<>> \in Seq(Paths)
      BY EmptySeq
<1> QED
    BY <1>1 DEF Fresh, Sessions, Sound, Phases, Files, None, NoPath

-----------------------------------------------------------------------------
(* The play queue.                                                          *)

\* Files are finitely many.
LEMMA FinitelyMany == IsFiniteSet(Paths)
<1> DEFINE f == [x \in (1 .. Names) \X {1, 2} |-> [name |-> x[1], as |-> x[2]]]
<1>1. IsFiniteSet(1 .. Names)
      BY Numbers, FS_Interval
<1>2. IsFiniteSet({1, 2})
      <2>1. IsFiniteSet({1}) /\ {1, 2} = {1} \cup {2}
            BY FS_Singleton
      <2> QED
          BY <2>1, FS_AddElement
<1>3. IsFiniteSet((1 .. Names) \X {1, 2})
      BY <1>1, <1>2, FS_Product
<1>4. IsFiniteSet({[name |-> x[1], as |-> x[2]] : x \in (1 .. Names) \X {1, 2}})
      <2>1. {[name |-> x[1], as |-> x[2]] : x \in (1 .. Names) \X {1, 2}}
               = {f[x] : x \in (1 .. Names) \X {1, 2}}
            OBVIOUS
      <2>2. f \in Surjection((1 .. Names) \X {1, 2}, {f[x] : x \in (1 .. Names) \X {1, 2}})
            BY DEF Surjection
      <2>3. IsFiniteSet({f[x] : x \in (1 .. Names) \X {1, 2}})
            BY <1>3, <2>2, FS_Surjection
      <2> QED
          BY <2>1, <2>3
<1>5. Paths \subseteq {[name |-> x[1], as |-> x[2]] : x \in (1 .. Names) \X {1, 2}}
      <2> SUFFICES ASSUME NEW p \in Paths
                   PROVE  \E x \in (1 .. Names) \X {1, 2} : p = [name |-> x[1], as |-> x[2]]
          OBVIOUS
      <2>1. <<p.name, p.as>> \in (1 .. Names) \X {1, 2}
            BY DEF Paths
      <2>2. p = [name |-> <<p.name, p.as>>[1], as |-> <<p.name, p.as>>[2]]
            BY DEF Paths
      <2> QED
          BY <2>1, <2>2
<1> QED
    BY <1>4, <1>5, FS_Subset

\* A list of files is a queue, and begins with its first.
LEMMA OrderedQueue ==
    ASSUME NEW S \in SUBSET Paths, NEW items \in Ordered(S), items # <<>>
    PROVE  /\ [items |-> items, cursor |-> 1] \in Queues
           /\ items[1] \in Paths
           /\ At([items |-> items, cursor |-> 1], items[1])
<1>1. Cardinality(S) \in Nat
      BY FinitelyMany, FS_Subset, FS_CardinalityType
<1>2. items \in Seq(Paths)
      <2>1. items \in [1 .. Cardinality(S) -> Paths]
            BY DEF Ordered
      <2> QED
          BY <1>1, <2>1, SeqDef
<1>3. Len(items) \in Nat \ {0}
      BY <1>2, EmptySeq
<1>4. 1 \in 1 .. Len(items)
      BY <1>3
<1> QED
    BY <1>2, <1>4, ElementOfSeq DEF Queues, At

\* A queue of one file is at it.
LEMMA SingleQueue ==
    ASSUME NEW p \in Paths
    PROVE  Single(p) \in Queues /\ At(Single(p), p)
<1>1. <<p>> \in Seq(Paths) /\ Len(<<p>>) = 1 /\ <<p>>[1] = p
      OBVIOUS
<1> QED
    BY <1>1 DEF Single, Queues, At

\* A candidate is a place in the queue.
LEMMA CandidateQueue ==
    ASSUME queue \in Queues, NEW by \in {-1, 1}, NEW c \in Candidates(by)
    PROVE  /\ queue.items[c] \in Paths
           /\ [queue EXCEPT !.cursor = c] \in Queues
           /\ At([queue EXCEPT !.cursor = c], queue.items[c])
<1>1. queue.items \in Seq(Paths) /\ c \in 1 .. Len(queue.items) /\ Len(queue.items) \in Nat
      BY LenProperties DEF Queues, Candidates
<1>2. c \in Nat
      BY <1>1
<1> QED
    BY <1>1, <1>2, ElementOfSeq DEF Queues, At

-----------------------------------------------------------------------------
(* Opening.                                                                 *)

\* What is saved when a session is left is of the current file.
LEMMA ProgressSound ==
    ASSUME recent \in Histories, current \in Files, NEW x \in Sessions
    PROVE  /\ Progressed(x) \in Histories /\ Len(Progressed(x)) = Len(recent)
           /\ \A i \in 1 .. Len(recent) :
                 /\ Progressed(x)[i].path = recent[i].path
                 /\ Key(recent[i].path) # Key(current) => Progressed(x)[i] = recent[i]
<1>1. Position(x) \in Nat /\ Duration(x.file) \in Nat
      BY SomewhereInFile
<1>2. CASE current # NoPath /\ x.known
      BY <1>1, <1>2, UpdatedHistory DEF Progressed
<1>3. CASE ~(current # NoPath /\ x.known)
      BY <1>3 DEF Progressed
<1> QED
    BY <1>2, <1>3

\* Saving progress changes the bookmark of the current file, or none.
LEMMA ProgressIsOfCurrent ==
    ASSUME recent \in Histories, current \in Files, NEW x \in Sessions
    PROVE  OnlyOf(recent, Progressed(x), Key(current))
<1> DEFINE t == Progressed(x)
<1>1. /\ Len(t) = Len(recent)
      /\ \A i \in 1 .. Len(recent) :
            /\ t[i].path = recent[i].path
            /\ Key(recent[i].path) # Key(current) => t[i] = recent[i]
      BY ProgressSound
<1>2. Distinct(recent)
      BY DEF Histories
<1> HIDE DEF t
<1>3. OnlyOf(recent, t, Key(current))
      <2> SUFFICES ASSUME NEW i \in 1 .. Len(recent), NEW j \in 1 .. Len(t),
                          Key(t[j].path) = Key(recent[i].path), t[j].at # recent[i].at,
                          Key(recent[i].path) # Key(current)
                   PROVE  FALSE
          BY DEF OnlyOf
      <2>1. i = j
            BY <1>1, <1>2 DEF Distinct
      <2> QED
          BY <1>1, <2>1
<1> QED
    BY <1>3 DEF t

\* An open touches the history without changing a bookmark.
LEMMA TouchingChangesNoBookmark ==
    ASSUME NEW r \in Histories, NEW s \in Histories, NEW p \in Paths, NEW k,
           Len(s) = Len(r), \A i \in 1 .. Len(r) : s[i].path = r[i].path,
           OnlyOf(r, s, k)
    PROVE  OnlyOf(r, Touched(s, p), k)
<1> DEFINE t == Touched(s, p)
<1>1. \A j \in 1 .. Len(t) :
          \/ \E i \in 1 .. Len(s) : t[j] = s[i]
          \/ Rows(s, p) = {} /\ t[j].path = p
      BY TouchedHistory
<1> HIDE DEF t
<1>2. OnlyOf(r, t, k)
      <2> SUFFICES ASSUME NEW i \in 1 .. Len(r), NEW j \in 1 .. Len(t),
                          Key(t[j].path) = Key(r[i].path), t[j].at # r[i].at
                   PROVE  Key(r[i].path) = k
          BY DEF OnlyOf
      <2>1. CASE \E m \in 1 .. Len(s) : t[j] = s[m]
            BY <2>1 DEF OnlyOf
      <2>2. CASE Rows(s, p) = {} /\ t[j].path = p
            BY <2>2 DEF Rows
      <2> QED
          BY <1>1, <2>1, <2>2
<1> QED
    BY <1>2 DEF t

\* open_media keeps everything: whatever is left, whatever comes, in whatever queue.
LEMMA OpeningSound ==
    ASSUME ShellInv, NEW x \in Sessions, NEW p \in Paths, NEW q \in Queues, At(q, p),
           NEW row \in {selected, Closed}, NEW next \in {"pump", "input", "exited"},
           Opening(x, p, q, row, next)
    PROVE  /\ pc' \in {"pump", "input", "exited"} /\ reached' \in Nat
           /\ left' \in [path : Files, at : Nat]
           /\ SessionInv' /\ HistoryInv' /\ FileInv'
           /\ OnlyOf(recent, recent', Key(current))
<1> USE DEF ShellInv
<1> DEFINE saved == Progressed(x)
           start == ResumeAt(saved, p)
<1>1. recent \in Histories /\ current \in Files /\ reached \in Nat
      BY DEF HistoryInv, FileInv, LoopInv
<1>2. saved \in Histories /\ Len(saved) = Len(recent)
      /\ \A i \in 1 .. Len(recent) : saved[i].path = recent[i].path
      BY <1>1, ProgressSound
<1>3. OnlyOf(recent, saved, Key(current))
      BY <1>1, ProgressIsOfCurrent
<1>4. start \in Nat
      BY <1>2, ResumesSomewhere
<1>5. recent' = Touched(saved, p) /\ disk' = recent'
      BY DEF Opening
<1>6. recent' \in Histories /\ Len(recent) <= Len(recent') /\ Len(recent') \in Nat
      BY <1>2, <1>5, TouchedHistory
<1>7. OnlyOf(recent, recent', Key(current))
      BY <1>1, <1>2, <1>3, <1>5, TouchingChangesNoBookmark
<1>8. left' \in [path : Files, at : Nat]
      <2>1. Where(x) \in Nat
            BY <1>1, SomewhereInFile
      <2>2. left' = IF current # NoPath /\ x.known THEN [path |-> current, at |-> Where(x)] ELSE left
            BY DEF Opening, Leaving
      <2> QED
          BY <1>1, <2>1, <2>2 DEF LoopInv
<1> HIDE DEF saved, start
<1>9. \/ /\ sess' = OpenedSession(x, p, start)
         /\ current' = p /\ queue' = q /\ selected' = row /\ reached' = start
         /\ pc' = next
      \/ Gone
      BY DEF Opening, saved, start
<1>10. CASE /\ sess' = OpenedSession(x, p, start)
            /\ current' = p /\ queue' = q /\ selected' = row /\ reached' = start
            /\ pc' = next
      <2>1. SessionInv' /\ sess'.file = p
            BY <1>4, <1>10, OpenedIsSound DEF SessionInv
      <2>2. FileInv'
            BY <1>10, <2>1 DEF FileInv, Files, At
      <2>3. selected' \in Nat /\ SelectionExists'
            <3>1. selected \in Nat /\ (selected # 0 => selected = 1 \/ selected <= Len(recent))
                  BY DEF HistoryInv, SelectionExists
            <3>2. Len(recent) \in Nat
                  BY <1>1, LenProperties DEF Histories
            <3>3. selected' = selected \/ selected' = 0
                  BY <1>10 DEF Closed
            <3> QED
                BY <1>6, <3>1, <3>2, <3>3 DEF SelectionExists
      <2> QED
          BY <1>4, <1>5, <1>6, <1>7, <1>8, <1>10, <2>1, <2>2, <2>3 DEF HistoryInv
<1>11. CASE Gone
      <2>1. /\ pc' = "exited" /\ sess' = Fresh /\ queue' = NoQueue /\ current' = NoPath
            /\ selected' = 0 /\ reached' = 0
            BY <1>11 DEF Gone, Closed
      <2>2. NoQueue \in Queues
            BY EmptySeq DEF NoQueue, Queues
      <2> QED
          BY <1>5, <1>6, <1>7, <1>8, <2>1, <2>2, FreshIsSound
             DEF SessionInv, FileInv, Files, HistoryInv, SelectionExists
<1> QED
    BY <1>9, <1>10, <1>11

-----------------------------------------------------------------------------
(* The actions. Each keeps the invariant, and the bookmarks of all files    *)
(* but the current one.                                                     *)

Kept == ShellInv' /\ OnlyOf(recent, recent', Key(current))

\* A history that stays keeps its bookmarks.
LEMMA SameBookmarks ==
    ASSUME recent \in Histories
    PROVE  OnlyOf(recent, recent, Key(current))
BY DEF Histories, Distinct, OnlyOf

\* So does one of which a row was removed.
LEMMA FewerBookmarks ==
    ASSUME recent \in Histories, NEW i \in 1 .. Len(recent)
    PROVE  OnlyOf(recent, Removed(recent, i), Key(current))
<1> DEFINE t == Removed(recent, i)
<1>1. \A j \in 1 .. Len(t) : \E k \in 1 .. Len(recent) : k # i /\ t[j] = recent[k]
      BY RemovedHistory
<1> HIDE DEF t
<1>2. OnlyOf(recent, t, Key(current))
      BY <1>1 DEF Histories, Distinct, OnlyOf
<1> QED
    BY <1>2 DEF t

\* What an input counts.
LEMMA Counted ==
    ASSUME LoopInv, NEW kind, Outside(kind)
    PROVE  inputs' \in 0 .. MaxInputs /\ present' \subseteq 1 .. Names
BY Numbers DEF LoopInv, Outside

\* The inputs that open a file.
LEMMA OpenInputs ==
    ASSUME ShellInv,
           \/ OpenSingleFile \/ DropFiles \/ DropFolder \/ NavigateQueue \/ ReopenCurrent
    PROVE  Kept
<1> USE DEF ShellInv
<1>0. /\ sess \in Sessions /\ selected \in {selected, Closed}
      /\ pc \in {"pump", "input", "exited"} /\ queue \in Queues
      BY DEF SessionInv, Sound, LoopInv, FileInv
<1>1. inputs' \in 0 .. MaxInputs /\ present' \subseteq 1 .. Names
      BY Counted DEF OpenSingleFile, DropFiles, DropFolder, NavigateQueue, ReopenCurrent, Input
<1>2. \E p \in Paths, q \in Queues : At(q, p) /\ Opening(sess, p, q, selected, pc)
      <2>1. CASE OpenSingleFile
            BY <2>1, SingleQueue DEF OpenSingleFile
      <2>2. CASE DropFiles \/ DropFolder
            <3>1. PICK S \in SUBSET Paths : OpenQueue(S)
                  <4>1. CASE DropFiles
                        <5>1. PICK p, r \in {q \in Paths : q.name \in present} :
                                      OpenQueue(Chosen(<<p, r>>))
                              BY <4>1 DEF DropFiles
                        <5>2. \A i \in 1 .. Len(<<p, r>>) : <<p, r>>[i] \in Paths
                              <6>1. p \in Paths /\ r \in Paths
                                    BY <5>1
                              <6> QED
                                  BY <6>1
                        <5>3. Chosen(<<p, r>>) \subseteq Paths
                              BY <5>2 DEF Chosen
                        <5> QED
                            BY <5>1, <5>3
                  <4>2. CASE DropFolder
                        BY <4>2 DEF DropFolder, InFolder
                  <4> QED
                      BY <2>2, <4>1, <4>2
            <3>2. PICK items \in Ordered(S) :
                          /\ items # <<>>
                          /\ Opening(sess, items[1], [items |-> items, cursor |-> 1], selected, pc)
                  BY <3>1 DEF OpenQueue
            <3>3. /\ [items |-> items, cursor |-> 1] \in Queues
                  /\ items[1] \in Paths
                  /\ At([items |-> items, cursor |-> 1], items[1])
                  BY <3>2, OrderedQueue
            <3> QED
                BY <3>2, <3>3
      <2>3. CASE NavigateQueue
            <3>1. PICK by \in {-1, 1} : Navigated(sess, by, pc)
                  BY <2>3 DEF NavigateQueue
            <3>2. PICK c \in Candidates(by) :
                          Opening(sess, queue.items[c], [queue EXCEPT !.cursor = c], selected, pc)
                  BY <3>1 DEF Navigated
            <3> QED
                BY <1>0, <3>2, CandidateQueue
      <2>4. CASE ReopenCurrent
            <3>1. sess.file # NoPath /\ Opening(sess, sess.file, Single(sess.file), selected, pc)
                  BY <2>4 DEF ReopenCurrent
            <3>2. sess.file \in Paths
                  BY <1>0, <3>1 DEF Sessions, Files
            <3> QED
                BY <3>1, <3>2, SingleQueue
      <2> QED
          BY <2>1, <2>2, <2>3, <2>4
<1>3. PICK p \in Paths, q \in Queues : At(q, p) /\ Opening(sess, p, q, selected, pc)
      BY <1>2
<1> HIDE DEF ShellInv
<1>4. /\ pc' \in {"pump", "input", "exited"} /\ reached' \in Nat
      /\ left' \in [path : Files, at : Nat]
      /\ SessionInv' /\ HistoryInv' /\ FileInv'
      /\ OnlyOf(recent, recent', Key(current))
      BY <1>0, <1>3, OpeningSound
<1> QED
    BY <1>1, <1>4 DEF Kept, ShellInv, LoopInv

\* The inputs that move within the file.
LEMMA SessionInputs ==
    ASSUME ShellInv, Seek \/ StepRate
    PROVE  Kept
<1> USE DEF ShellInv
<1>1. /\ UNCHANGED <<pc, queue, recent, disk, current, selected, left>>
      /\ reached' \in Nat /\ SessionInv' /\ sess'.file = sess.file
      <2>0. sess \in Sessions /\ (sess.signal => sess.phase # "opening") /\ reached \in Nat
            BY DEF SessionInv, Sound, LoopInv
      <2>1. CASE Seek
            <3>1. PICK at \in 0 .. Duration(sess.file) :
                          sess' = SoughtSession(sess, at) /\ reached' = at
                  BY <2>1 DEF Seek
            <3>2. at \in Nat
                  BY <2>0, <3>1, SomewhereInFile
            <3>3. Sound(SoughtSession(sess, at)) /\ SoughtSession(sess, at).file = sess.file
                  BY <2>0, <3>2 DEF SoughtSession, Sound, Sessions, Phases
            <3> QED
                BY <2>1, <3>1, <3>2, <3>3 DEF Seek, SessionInv
      <2>2. CASE StepRate
            BY <2>0, <2>2 DEF StepRate, SessionInv, Sound, Sessions, None
      <2> QED
          BY <2>1, <2>2
<1>2. inputs' \in 0 .. MaxInputs /\ present' \subseteq 1 .. Names
      BY Counted DEF Seek, StepRate, Input
<1>3. OnlyOf(recent, recent', Key(current))
      BY <1>1, SameBookmarks DEF HistoryInv
<1> QED
    BY <1>1, <1>2, <1>3
       DEF Kept, LoopInv, HistoryInv, FileInv, SelectionExists, At

\* The rows shown are those of the history.
LEMMA ShownRows ==
    ASSUME Sound(sess), NEW r \in Histories, NEW i,
           ShowAt(i, r) \/ (sess' = [sess EXCEPT !.shown = <<>>])
    PROVE  SessionInv' /\ sess'.file = sess.file
<1>1. Shown(r) \in Seq(Paths)
      <2>1. r \in Seq(Entries) /\ Len(r) \in Nat
            BY LenProperties DEF Histories
      <2>2. \A j \in 1 .. Len(r) : r[j].path \in Paths
            <3> SUFFICES ASSUME NEW j \in 1 .. Len(r) PROVE r[j].path \in Paths
                OBVIOUS
            <3>1. r[j] \in Entries
                  BY <2>1, ElementOfSeq
            <3> QED
                BY <3>1 DEF Entries
      <2>3. Shown(r) \in [1 .. Len(r) -> Paths]
            BY <2>2 DEF Shown
      <2> QED
          BY <2>1, <2>3, SeqDef
<1>2. <<>> \in Seq(Paths)
      BY EmptySeq
<1> QED
    BY <1>1, <1>2 DEF ShowAt, SessionInv, Sound, Sessions

\* A row is removed, from the list and from the disk.
LEMMA ForgottenSound ==
    ASSUME ShellInv, selected # 0, selected <= Len(recent), Forgotten(selected)
    PROVE  /\ SessionInv' /\ HistoryInv' /\ FileInv'
           /\ UNCHANGED <<pc, reached, left>> /\ OnlyOf(recent, recent', Key(current))
<1> USE DEF ShellInv
<1> DEFINE i == selected
           t == Removed(recent, i)
<1>1. recent \in Histories /\ Len(recent) \in Nat /\ i \in 1 .. Len(recent)
      BY LenProperties DEF HistoryInv, Histories
<1>2. t \in Histories /\ Len(t) = Len(recent) - 1 /\ OnlyOf(recent, t, Key(current))
      BY <1>1, RemovedHistory, FewerBookmarks
<1>3. /\ recent' = t /\ disk' = t
      /\ IF Len(recent) = 1 THEN Hide ELSE ShowAt(IF i < Len(recent) THEN i ELSE i - 1, t)
      /\ UNCHANGED <<pc, queue, current, left, reached>>
      BY DEF Forgotten
<1> HIDE DEF t
<1>4. SessionInv' /\ sess'.file = sess.file
      BY <1>2, <1>3, ShownRows DEF SessionInv, Hide
<1>5. selected' \in Nat /\ (selected' # 0 => selected' <= Len(t))
      <2>1. CASE Len(recent) = 1
            BY <1>3, <2>1 DEF Hide, Closed
      <2>2. CASE Len(recent) # 1
            <3>1. selected' = IF i < Len(recent) THEN i ELSE i - 1
                  BY <1>3, <2>2 DEF ShowAt
            <3> QED
                BY <1>1, <1>2, <2>2, <3>1
      <2> QED
          BY <2>1, <2>2
<1> QED
    BY <1>2, <1>3, <1>4, <1>5 DEF HistoryInv, SelectionExists, FileInv, At

\* Looking about in the Recent overlay.
LEMMA BrowsingSound ==
    ASSUME ShellInv, ToggleRecentOverlay \/ CloseOverlay \/ MoveSelection
    PROVE  Kept
<1> USE DEF ShellInv
<1>1. UNCHANGED <<pc, queue, recent, disk, current, left, reached>>
      BY DEF ToggleRecentOverlay, CloseOverlay, MoveSelection
<1>2. inputs' \in 0 .. MaxInputs /\ present' \subseteq 1 .. Names
      BY Counted DEF ToggleRecentOverlay, CloseOverlay, MoveSelection, Input, Browsing, LoopInv
<1>3. recent \in Histories /\ Len(recent) \in Nat
      BY LenProperties DEF HistoryInv, Histories
<1>4. /\ SessionInv' /\ sess'.file = sess.file
      /\ selected' \in Nat /\ (selected' # 0 => selected' = 1 \/ selected' <= Len(recent))
      <2>1. CASE ToggleRecentOverlay
            BY <1>3, <2>1, ShownRows DEF ToggleRecentOverlay, ShowAt, SessionInv
      <2>2. CASE CloseOverlay
            BY <1>3, <2>2, ShownRows DEF CloseOverlay, Hide, Closed, SessionInv
      <2>3. CASE MoveSelection
            <3>1. PICK i \in 1 .. Len(recent) : ShowAt(i, recent)
                  BY <2>3 DEF MoveSelection
            <3>2. i \in Nat /\ i <= Len(recent)
                  BY <1>3
            <3> QED
                BY <1>3, <3>1, <3>2, ShownRows DEF ShowAt, SessionInv
      <2> QED
          BY <2>1, <2>2, <2>3
<1>5. OnlyOf(recent, recent', Key(current))
      BY <1>1, <1>3, SameBookmarks
<1> QED
    BY <1>1, <1>2, <1>4, <1>5
       DEF Kept, LoopInv, HistoryInv, FileInv, SelectionExists, At

\* Enter and Delete in it.
LEMMA SelectionSound ==
    ASSUME ShellInv, RemoveSelected \/ Confirm
    PROVE  Kept
<1> USE DEF ShellInv
<1>0. sess \in Sessions /\ selected # 0 /\ selected <= Len(recent)
      BY DEF SessionInv, Sound, RemoveSelected, Confirm, Browsing
<1>1. inputs' \in 0 .. MaxInputs /\ present' \subseteq 1 .. Names
      BY Counted DEF RemoveSelected, Confirm, Browsing, LoopInv
<1>2. CASE Forgotten(selected)
      BY <1>0, <1>1, <1>2, ForgottenSound DEF Kept, LoopInv
<1>3. CASE Opening([sess EXCEPT !.shown = <<>>], recent[selected].path,
                   Single(recent[selected].path), Closed, pc)
      <2>1. [sess EXCEPT !.shown = <<>>] \in Sessions
            <3>1. <<>> \in Seq(Paths)
                  BY EmptySeq
            <3> QED
                BY <1>0, <3>1 DEF Sessions
      <2>2. recent[selected].path \in Paths
            <3>1. recent \in Seq(Entries) /\ selected \in 1 .. Len(recent)
                  BY <1>0, LenProperties DEF HistoryInv, Histories
            <3>2. recent[selected] \in Entries
                  BY <3>1, ElementOfSeq
            <3> QED
                BY <3>2 DEF Entries
      <2>3. Closed \in {selected, Closed} /\ pc \in {"pump", "input", "exited"}
            BY DEF LoopInv
      <2> HIDE DEF ShellInv
      <2>4. /\ pc' \in {"pump", "input", "exited"} /\ reached' \in Nat
            /\ left' \in [path : Files, at : Nat]
            /\ SessionInv' /\ HistoryInv' /\ FileInv'
            /\ OnlyOf(recent, recent', Key(current))
            BY <1>3, <2>1, <2>2, <2>3, SingleQueue, OpeningSound
      <2> QED
          BY <1>1, <2>4 DEF Kept, ShellInv, LoopInv
<1> QED
    BY <1>2, <1>3 DEF RemoveSelected, Confirm

\* The session's tick, and the advance to the next file of the queue.
LEMMA TickSound ==
    ASSUME ShellInv, ModalTick \/ Tick
    PROVE  Kept
<1> USE DEF ShellInv
<1>0. Sound(sess) /\ reached \in Nat /\ pc \in {"pump", "input", "exited"}
      BY DEF SessionInv, LoopInv
<1>1. UNCHANGED <<present, inputs>>
      BY DEF ModalTick, Tick
<1>2. CASE /\ UNCHANGED <<queue, recent, disk, current, selected, left>>
           /\ \E x \in Ticked(sess) :
                 /\ sess' = x \/ sess' = [x EXCEPT !.signal = FALSE]
                 /\ reached' = Where(x)
           /\ pc' = pc \/ pc' = "pump"
      <2>1. PICK x \in Ticked(sess) :
                    /\ sess' = x \/ sess' = [x EXCEPT !.signal = FALSE]
                    /\ reached' = Where(x)
            BY <1>2
      <2>2. SessionInv' /\ sess'.file = sess.file /\ reached' \in Nat
            <3>1. /\ Sound(x) /\ x.file = sess.file /\ Where(x) \in Nat
                  /\ Sound([x EXCEPT !.signal = FALSE])
                  /\ [x EXCEPT !.signal = FALSE].file = sess.file
                  BY <1>0, <2>1, TickedSession
            <3> QED
                BY <2>1, <3>1 DEF SessionInv, Sound
      <2>3. OnlyOf(recent, recent', Key(current))
            BY <1>2, SameBookmarks DEF HistoryInv
      <2> QED
          BY <1>0, <1>1, <1>2, <2>2, <2>3
             DEF Kept, LoopInv, HistoryInv, FileInv, SelectionExists, At
<1>3. CASE \E x \in Ticked(sess) : Navigated([x EXCEPT !.signal = FALSE], 1, "pump")
      <2>1. PICK x \in Ticked(sess) : Navigated([x EXCEPT !.signal = FALSE], 1, "pump")
            BY <1>3
      <2> DEFINE y == [x EXCEPT !.signal = FALSE]
      <2>2. y \in Sessions
            BY <1>0, TickedSession DEF Sound
      <2>3. PICK c \in Candidates(1) :
                    Opening(y, queue.items[c], [queue EXCEPT !.cursor = c], selected, "pump")
            BY <2>1 DEF Navigated
      <2>4. /\ queue.items[c] \in Paths
            /\ [queue EXCEPT !.cursor = c] \in Queues
            /\ At([queue EXCEPT !.cursor = c], queue.items[c])
            <3>1. queue \in Queues
                  BY DEF FileInv
            <3> QED
                BY <3>1, CandidateQueue
      <2> HIDE DEF y, ShellInv
      <2>5. /\ pc' \in {"pump", "input", "exited"} /\ reached' \in Nat
            /\ left' \in [path : Files, at : Nat]
            /\ SessionInv' /\ HistoryInv' /\ FileInv'
            /\ OnlyOf(recent, recent', Key(current))
            BY <2>2, <2>3, <2>4, OpeningSound
      <2> QED
          BY <1>1, <2>5 DEF Kept, ShellInv, LoopInv
<1> QED
    BY <1>2, <1>3 DEF ModalTick, Tick

\* The end of the program, and its next start with what the disk holds.
LEMMA ExitSound ==
    ASSUME ShellInv, Exit \/ Relaunch
    PROVE  Kept
<1> USE DEF ShellInv
<1>0. /\ recent \in Histories /\ current \in Files /\ reached \in Nat /\ sess \in Sessions
      /\ disk = recent
      BY DEF HistoryInv, FileInv, LoopInv, SessionInv, Sound
<1>1. CASE Exit
      <2>1. /\ recent' = Progressed(sess) /\ disk' = recent'
            /\ left' = IF current # NoPath /\ sess.known
                       THEN [path |-> current, at |-> Where(sess)] ELSE left
            /\ pc' = "exited" /\ sess' = Fresh /\ queue' = NoQueue /\ current' = NoPath
            /\ selected' = 0 /\ reached' = 0
            /\ UNCHANGED <<present, inputs>>
            BY <1>1 DEF Exit, Leaving, Gone, Closed
      <2>2. recent' \in Histories /\ OnlyOf(recent, recent', Key(current))
            BY <1>0, <2>1, ProgressSound, ProgressIsOfCurrent
      <2>3. left' \in [path : Files, at : Nat]
            BY <1>0, <2>1, SomewhereInFile DEF LoopInv
      <2>4. NoQueue \in Queues
            BY EmptySeq DEF NoQueue, Queues
      <2> QED
          BY <2>1, <2>2, <2>3, <2>4, FreshIsSound
             DEF Kept, LoopInv, SessionInv, FileInv, Files, HistoryInv, SelectionExists
<1>2. CASE Relaunch
      <2>1. /\ pc' = "pump" /\ recent' = Capped(disk)
            /\ UNCHANGED <<sess, queue, disk, current, selected, reached, left>>
            BY <1>2 DEF Relaunch
      <2>2. recent' = recent
            BY <1>0, <2>1, Numbers, LenProperties DEF Capped, Histories
      <2>3. inputs' \in 0 .. MaxInputs /\ present' \subseteq 1 .. Names
            BY <1>2, Counted DEF Relaunch
      <2>4. OnlyOf(recent, recent', Key(current))
            BY <1>0, <2>2, SameBookmarks
      <2> QED
          BY <2>1, <2>2, <2>3, <2>4
             DEF Kept, LoopInv, SessionInv, FileInv, HistoryInv, SelectionExists, At
<1> QED
    BY <1>1, <1>2

\* Messages are pumped, a file disappears behind the program's back, or nothing happens.
LEMMA SurroundingsSound ==
    ASSUME ShellInv, Pump \/ DeleteFile \/ UNCHANGED vars
    PROVE  Kept
<1> USE DEF ShellInv
<1>1. /\ UNCHANGED <<sess, queue, recent, disk, current, selected, reached, left>>
      /\ pc' \in {pc, "input"}
      BY DEF Pump, DeleteFile, vars
<1>2. inputs' \in 0 .. MaxInputs /\ present' \subseteq 1 .. Names
      <2>1. CASE Pump \/ UNCHANGED vars
            BY <2>1 DEF Pump, vars, LoopInv
      <2>2. CASE DeleteFile
            <3>1. inputs' \in 0 .. MaxInputs
                  BY <2>2, Numbers DEF DeleteFile, LoopInv
            <3>2. present' \subseteq 1 .. Names
                  BY <2>2 DEF DeleteFile, LoopInv
            <3> QED
                BY <3>1, <3>2
      <2> QED
          BY <2>1, <2>2
<1>3. OnlyOf(recent, recent', Key(current))
      BY <1>1, SameBookmarks DEF HistoryInv
<1> QED
    BY <1>1, <1>2, <1>3
       DEF Kept, LoopInv, SessionInv, FileInv, HistoryInv, SelectionExists, At

-----------------------------------------------------------------------------
(* The theorems.                                                            *)

\* Nothing is open and the history is empty: the invariant holds.
LEMMA InitShell == Init => ShellInv
<1> SUFFICES ASSUME Init PROVE ShellInv
    OBVIOUS
<1>1. <<>> \in Histories
      <2>1. <<>> \in Seq(Entries) /\ Len(<<>>) = 0
            BY EmptySeq
      <2> QED
          BY <2>1, Numbers DEF Histories, Distinct
<1>2. NoQueue \in Queues
      BY EmptySeq DEF NoQueue, Queues
<1> QED
    BY <1>1, <1>2, FreshIsSound, Numbers
       DEF Init, ShellInv, LoopInv, SessionInv, HistoryInv, SelectionExists, FileInv, Files, Closed

\* The invariant is inductive, and a step changes no bookmark but the current file's.
LEMMA NextShell == ShellInv /\ [Next]_vars => Kept
<1> SUFFICES ASSUME ShellInv, [Next]_vars PROVE Kept
    OBVIOUS
<1> QED
    BY OpenInputs, SessionInputs, BrowsingSound, SelectionSound, TickSound, ExitSound,
       SurroundingsSound DEF Next

(* The inductive invariant holds in every state.                            *)
THEOREM ShellInvariant == Spec => []ShellInv
<1>1. ShellInv /\ [Next]_vars => ShellInv'
      BY NextShell DEF Kept
<1> QED
    BY InitShell, <1>1, PTL DEF Spec

(* The queue's cursor, the session and the file whose progress is to be     *)
(* saved are the same file, whatever is opened, dropped, missing or fatal.  *)
THEOREM QueueAlwaysFollows == Spec => []QueueFollowsFile
<1>1. ShellInv => QueueFollowsFile
      BY DEF ShellInv, FileInv, At, QueueFollowsFile
<1> QED
    BY <1>1, ShellInvariant, PTL

(* The history has each file once, is on disk as it is in memory, and the   *)
(* overlay's selection is a row of it.                                      *)
THEOREM HistoryAlwaysKept == Spec => []HistoryKept
<1>1. ShellInv => HistoryKept
      <2> SUFFICES ASSUME ShellInv PROVE HistoryKept
          OBVIOUS
      <2> USE DEF ShellInv
      <2>1. RecentDistinct /\ DiskFollows /\ SelectionExists
            BY DEF HistoryInv, Histories, Distinct, RecentDistinct, DiskFollows
      <2>2. /\ recent \in Seq(Entries) /\ Len(recent) <= MaxRecent /\ disk \in Seq(Entries)
            /\ selected \in Nat
            BY DEF HistoryInv, Histories
      <2>3. /\ sess.file \in Paths \union {NoPath}
            /\ sess.phase \in {"idle", "opening", "seeking", "playing", "ended", "error"}
            /\ {sess.known, sess.signal} \subseteq BOOLEAN
            /\ sess.start \in Nat /\ {sess.target, sess.clock} \subseteq Nat \union {None}
            /\ sess.shown \in Seq(Paths)
            BY DEF SessionInv, Sound, Sessions, Files, Phases
      <2>4. /\ queue.items \in Seq(Paths) /\ queue.cursor \in Nat
            /\ current \in Paths \union {NoPath}
            BY DEF FileInv, Queues, Files
      <2>5. /\ pc \in {"pump", "input", "exited"} /\ present \subseteq 1 .. Names
            /\ reached \in Nat /\ inputs \in 0 .. MaxInputs
            /\ left.path \in Paths \union {NoPath} /\ left.at \in Nat
            BY DEF LoopInv, Files
      <2> QED
          BY <2>1, <2>2, <2>3, <2>4, <2>5 DEF HistoryKept, TypeOK
<1> QED
    BY <1>1, ShellInvariant, PTL

(* An end that was latched is never taken for that of the file that is      *)
(* being opened.                                                            *)
THEOREM SignalAlwaysOfFile == Spec => []SignalIsOfFile
<1>1. ShellInv => SignalIsOfFile
      BY DEF ShellInv, SessionInv, Sound, SignalIsOfFile
<1> QED
    BY <1>1, ShellInvariant, PTL

(* A step changes the bookmark of the current file or none: the progress of *)
(* one file is never saved as that of another, and nothing else forgets it. *)
THEOREM BookmarksAlwaysOfCurrent == Spec => BookmarkOfCurrent
<1>1. ShellInv /\ [Next]_vars =>
          [\A i \in 1 .. Len(recent) : \A j \in 1 .. Len(recent') :
              /\ Key(recent'[j].path) = Key(recent[i].path)
              /\ recent'[j].at # recent[i].at
              => Key(recent[i].path) = Key(current)]_vars
      BY NextShell DEF Kept, OnlyOf
<1> QED
    BY <1>1, ShellInvariant, PTL DEF Spec, BookmarkOfCurrent
=============================================================================
