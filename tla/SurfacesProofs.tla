------------------------------- MODULE SurfacesProofs -------------------------------
(***************************************************************************)
(* What is proved of Surfaces, for every queue capacity, lateness          *)
(* threshold and bound: no surface leaks or dangles, no frame is lost to   *)
(* overflow or to a surface mismatch, nothing of a destroyed device is     *)
(* alive, the queue stays ordered, and the vector with epochs implements a *)
(* map whose handles are never reused.                                     *)
(***************************************************************************)
EXTENDS Surfaces, FiniteSetTheorems, SequenceTheorems, TLAPS

-----------------------------------------------------------------------------
(* Lemmas on the registry.                                                  *)

\* A registry the program can be in: one slot for every handle of the epoch, and
\* a counter that agrees with the slots.
RegistryOK(r) ==
    /\ r \in [entries : Seq(Entries \union {NoEntry}), next : Nat, base : Nat, alive : Nat]
    /\ r.next = r.base + Len(r.entries)
    /\ r.alive = Cardinality(LiveHandles(r))

\* Every handle live in r resolves in s to the same surface.
Agree(r, s) == \A h \in LiveHandles(r) : Get(r, h) = Get(s, h)

(* A slot that holds a surface differs from an empty one.                   *)
LEMMA EntryNotEmpty == \A e \in Entries : e # NoEntry
<1> SUFFICES ASSUME NEW e \in Entries, e = NoEntry PROVE FALSE
    OBVIOUS
<1>1. DOMAIN e = {"stamp", "device"}
      BY DEF Entries
<1>2. DOMAIN e = {"stamp"}
      BY DEF NoEntry
<1> QED
    BY <1>1, <1>2

(* The live handles of an epoch are finitely many and lie inside it.        *)
LEMMA LiveFinite ==
    ASSUME NEW r, RegistryOK(r)
    PROVE  /\ IsFiniteSet(LiveHandles(r))
           /\ \A h \in LiveHandles(r) : /\ h \in Nat /\ h > r.base /\ h <= r.next
                                        /\ Get(r, h) \in Entries
<1>1. /\ r.base \in Nat /\ r.next \in Nat /\ Len(r.entries) \in Nat
      /\ r.entries \in Seq(Entries \union {NoEntry})
      /\ r.next = r.base + Len(r.entries)
      BY DEF RegistryOK
<1>2. IsFiniteSet(r.base + 1 .. r.base + Len(r.entries))
      <2>1. r.base + 1 \in Int /\ r.base + Len(r.entries) \in Int
            BY <1>1
      <2> QED
          BY <2>1, FS_Interval, Zenon
<1>3. IsFiniteSet(LiveHandles(r))
      BY <1>2, FS_Subset DEF LiveHandles
<1>4. ASSUME NEW h \in LiveHandles(r)
      PROVE  /\ h \in Nat /\ h > r.base /\ h <= r.next
             /\ Get(r, h) \in Entries
      <2>1. h \in Nat /\ h > r.base /\ h <= r.next
            BY <1>1 DEF LiveHandles
      <2>2. Get(r, h) # NoEntry
            BY DEF LiveHandles, Resolves, Get
      <2>3. h - r.base \in 1 .. Len(r.entries)
            BY <1>1, <2>1
      <2> QED
          BY <1>1, <2>1, <2>2, <2>3 DEF Get
<1> QED
    BY <1>3, <1>4

(* insert appends one slot: exactly the new handle becomes live.            *)
LEMMA InsertedLive ==
    ASSUME NEW r, RegistryOK(r), NEW e \in Entries
    PROVE  LET s == Inserted(r, e) IN
           /\ RegistryOK(s)
           /\ LiveHandles(s) = LiveHandles(r) \union {r.next + 1}
           /\ r.next + 1 \notin LiveHandles(r)
           /\ s.next = r.next + 1
           /\ Agree(r, s)
           /\ Get(s, r.next + 1) = e
<1> DEFINE s == Inserted(r, e)
           n == Len(r.entries)
<1>1. /\ r \in [entries : Seq(Entries \union {NoEntry}), next : Nat, base : Nat, alive : Nat]
      /\ n \in Nat /\ r.base \in Nat /\ r.next = r.base + n /\ r.next \in Nat
      /\ r.alive = Cardinality(LiveHandles(r))
      BY DEF RegistryOK
<1>2. /\ s.base = r.base /\ s.next = r.next + 1 /\ s.alive = r.alive + 1
      /\ s.entries = [i \in 1 .. n + 1 |-> IF i = n + 1 THEN e
                                           ELSE IF i <= n THEN r.entries[i] ELSE NoEntry]
      BY <1>1 DEF Inserted
<1>3. /\ s.entries \in Seq(Entries \union {NoEntry})
      /\ Len(s.entries) = n + 1
      /\ s.entries[n + 1] = e
      /\ \A i \in 1 .. n : s.entries[i] = r.entries[i]
      BY <1>1, <1>2
<1>4. r.next + 1 \notin LiveHandles(r)
      BY <1>1, LiveFinite
<1>5. LiveHandles(s) = LiveHandles(r) \union {r.next + 1}
      <2>1. ASSUME NEW h \in Nat, h > r.base, h <= r.base + n
            PROVE  Resolves(s, h) <=> Resolves(r, h)
            BY <1>1, <1>2, <1>3, <2>1 DEF Resolves
      <2>2. Resolves(s, r.next + 1)
            BY <1>1, <1>2, <1>3, EntryNotEmpty DEF Resolves
      <2> QED
          BY <1>1, <1>2, <1>3, <2>1, <2>2 DEF LiveHandles
<1>6. s.alive = Cardinality(LiveHandles(s))
      <2>1. IsFiniteSet(LiveHandles(r))
            BY LiveFinite, Zenon
      <2>2. Cardinality(LiveHandles(r) \union {r.next + 1}) = Cardinality(LiveHandles(r)) + 1
            BY <1>4, <2>1, FS_AddElement, Zenon
      <2> QED
          BY <1>1, <1>2, <1>5, <2>2
<1>7. RegistryOK(s)
      <2>1. s = [entries |-> s.entries, next |-> r.next + 1, base |-> r.base,
                 alive |-> r.alive + 1]
            BY <1>2 DEF Inserted
      <2>2. s \in [entries : Seq(Entries \union {NoEntry}), next : Nat, base : Nat, alive : Nat]
            BY <1>1, <1>3, <2>1
      <2> QED
          BY <1>1, <1>2, <1>3, <1>6, <2>2 DEF RegistryOK
<1>8. Agree(r, s) /\ Get(s, r.next + 1) = e
      BY <1>1, <1>2, <1>3, LiveFinite DEF Agree, Get
<1> QED
    BY <1>2, <1>4, <1>5, <1>7, <1>8

(* clear_for_new_epoch leaves nothing alive and keeps the handle counter.   *)
LEMMA ClearedLive ==
    ASSUME NEW r, RegistryOK(r)
    PROVE  /\ RegistryOK(Cleared(r))
           /\ LiveHandles(Cleared(r)) = {}
           /\ Cleared(r).next = r.next
<1>1. /\ r \in [entries : Seq(Entries \union {NoEntry}), next : Nat, base : Nat, alive : Nat]
      /\ r.next \in Nat
      BY DEF RegistryOK
<1>2. /\ Cleared(r).base = r.next /\ Cleared(r).next = r.next
      /\ Cleared(r).entries = <<>> /\ Cleared(r).alive = 0
      BY <1>1 DEF Cleared
<1>3. Len(Cleared(r).entries) = 0
      BY <1>2
<1>4. LiveHandles(Cleared(r)) = {}
      BY <1>1, <1>2, <1>3 DEF LiveHandles
<1>5. RegistryOK(Cleared(r))
      <2>1. Cleared(r) = [entries |-> <<>>, next |-> r.next, base |-> r.next, alive |-> 0]
            BY DEF Cleared
      <2>2. Cardinality(LiveHandles(Cleared(r))) = 0
            BY <1>4, FS_EmptySet, Zenon
      <2>3. <<>> \in Seq(Entries \union {NoEntry})
            OBVIOUS
      <2> QED
          BY <1>1, <1>2, <1>3, <2>1, <2>2, <2>3 DEF RegistryOK
<1> QED
    BY <1>2, <1>4, <1>5

(* remove takes exactly the given handles, compacting or not.               *)
LEMMA RemovedLive ==
    ASSUME NEW r, RegistryOK(r), NEW hs
    PROVE  LET s == Removed(r, hs) IN
           /\ RegistryOK(s)
           /\ LiveHandles(s) = LiveHandles(r) \ hs
           /\ s.next = r.next
           /\ Agree(s, r)
<1> DEFINE taken == hs \intersect LiveHandles(r)
           left  == r.alive - Cardinality(taken)
           s     == Removed(r, hs)
           n     == Len(r.entries)
<1>1. /\ r \in [entries : Seq(Entries \union {NoEntry}), next : Nat, base : Nat, alive : Nat]
      /\ n \in Nat /\ r.base \in Nat /\ r.next = r.base + n /\ r.next \in Nat
      /\ r.alive = Cardinality(LiveHandles(r))
      BY DEF RegistryOK
<1>2. /\ IsFiniteSet(LiveHandles(r) \ hs)
      /\ left = Cardinality(LiveHandles(r) \ hs)
      /\ left \in Nat
      <2>1. taken = LiveHandles(r) \cap hs
            OBVIOUS
      <2>2. IsFiniteSet(LiveHandles(r))
            BY LiveFinite, Zenon
      <2>3. /\ IsFiniteSet(LiveHandles(r) \ hs)
            /\ Cardinality(LiveHandles(r) \ hs)
                  = Cardinality(LiveHandles(r)) - Cardinality(LiveHandles(r) \cap hs)
            BY <2>2, FS_Difference, Zenon
      <2>4. Cardinality(LiveHandles(r) \ hs) \in Nat
            BY <2>3, FS_CardinalityType, Zenon
      <2> QED
          BY <1>1, <2>1, <2>3, <2>4
<1>3. CASE taken = {}
      <2>1. s = r /\ LiveHandles(r) \ hs = LiveHandles(r)
            BY <1>3 DEF Removed
      <2> QED
          BY <2>1 DEF Agree
<1>4. CASE taken # {} /\ left = 0
      <2>1. s = Cleared(r)
            BY <1>4 DEF Removed
      <2>2. LiveHandles(r) \ hs = {}
            BY <1>2, <1>4, FS_EmptySet
      <2> QED
          BY <2>1, <2>2, ClearedLive DEF Agree
<1>5. CASE taken # {} /\ left # 0
      <2>1. s = [r EXCEPT !.alive = left,
                          !.entries = [i \in 1 .. n |->
                              IF r.base + i \in taken THEN NoEntry ELSE r.entries[i]]]
            BY <1>5 DEF Removed
      <2>2. /\ s.base = r.base /\ s.next = r.next /\ s.alive = left
            /\ s.entries = [i \in 1 .. n |->
                               IF r.base + i \in taken THEN NoEntry ELSE r.entries[i]]
            BY <1>1, <2>1
      <2>3. s.entries \in Seq(Entries \union {NoEntry}) /\ Len(s.entries) = n
            BY <1>1, <2>2
      <2>4. ASSUME NEW h \in r.base + 1 .. r.base + n
            PROVE  /\ h \in taken => s.entries[h - r.base] = NoEntry
                   /\ h \notin taken => s.entries[h - r.base] = r.entries[h - r.base]
            <3>1. h - r.base \in 1 .. n /\ r.base + (h - r.base) = h
                  BY <1>1
            <3> QED
                BY <2>2, <3>1
      <2>5. LiveHandles(s) = LiveHandles(r) \ hs
            BY <1>1, <2>2, <2>3, <2>4 DEF LiveHandles, Resolves
      <2>6. RegistryOK(s)
            BY <1>1, <1>2, <2>1, <2>2, <2>3, <2>5 DEF RegistryOK
      <2>7. Agree(s, r)
            BY <1>1, <2>2, <2>4, <2>5, LiveFinite DEF Agree, Get, LiveHandles
      <2> QED
          BY <2>2, <2>5, <2>6, <2>7
<1> QED
    BY <1>3, <1>4, <1>5

-----------------------------------------------------------------------------
(* Lemmas on the queue.                                                     *)

\* No two queued frames share a handle.
Distinct(q) == \A i, j \in 1 .. Len(q) : q[i].handle = q[j].handle => i = j

(* A slice of the queue holds the frames between its ends.                  *)
LEMMA SliceOfQueue ==
    ASSUME NEW q \in Seq(Frames), NEW a \in 1 .. Len(q) + 1, NEW b \in 0 .. Len(q),
           a <= b + 1
    PROVE  LET s == SubSeq(q, a, b) IN
           /\ s \in Seq(Frames)
           /\ Len(s) = b - a + 1
           /\ \A i \in 1 .. Len(s) : s[i] = q[a + i - 1]
           /\ Handles(s) = {q[i].handle : i \in a .. b}
<1> DEFINE s == SubSeq(q, a, b)
<1>1. Len(q) \in Nat /\ a \in Int /\ b \in Int
      OBVIOUS
<1>2. \A i \in a .. b : q[i] \in Frames
      BY <1>1
<1>3. /\ s \in Seq(Frames)
      /\ Len(s) = IF a <= b THEN b - a + 1 ELSE 0
      /\ \A i \in 1 .. b - a + 1 : s[i] = q[a + i - 1]
      BY <1>1, <1>2, SubSeqProperties
<1>4. Len(s) = b - a + 1
      BY <1>1, <1>3
<1>5. Handles(s) = {q[i].handle : i \in a .. b}
      <2>1. ASSUME NEW i \in 1 .. Len(s)
            PROVE  s[i].handle \in {q[k].handle : k \in a .. b}
            <3>1. a + i - 1 \in a .. b /\ s[i] = q[a + i - 1]
                  BY <1>1, <1>3, <1>4
            <3> QED
                BY <3>1
      <2>2. ASSUME NEW i \in a .. b
            PROVE  q[i].handle \in Handles(s)
            <3>1. /\ i - a + 1 \in 1 .. Len(s)
                  /\ s[i - a + 1] = q[a + (i - a + 1) - 1]
                  /\ a + (i - a + 1) - 1 = i
                  BY <1>1, <1>3, <1>4
            <3> QED
                BY <3>1 DEF Handles
      <2>3. Handles(s) \subseteq {q[i].handle : i \in a .. b}
            BY <2>1 DEF Handles
      <2>4. {q[i].handle : i \in a .. b} \subseteq Handles(s)
            BY <2>2
      <2> QED
          BY <2>3, <2>4
<1> QED
    BY <1>3, <1>4, <1>5

(* A part of a range has at most as many elements as the range.             *)
LEMMA CountInRange ==
    ASSUME NEW a \in Int, NEW b \in Int, a <= b + 1, NEW S \in SUBSET (a .. b)
    PROVE  Cardinality(S) \in 0 .. b - a + 1
<1>1. IsFiniteSet(a .. b) /\ Cardinality(a .. b) = b - a + 1
      <2>1. IsFiniteSet(a .. b) /\ Cardinality(a .. b) = IF a > b THEN 0 ELSE b - a + 1
            BY FS_Interval, Zenon
      <2> QED
          BY <2>1
<1>2. IsFiniteSet(S) /\ Cardinality(S) <= Cardinality(a .. b)
      BY <1>1, FS_Subset
<1>3. Cardinality(S) \in Nat
      BY <1>2, FS_CardinalityType, Zenon
<1> QED
    BY <1>1, <1>2, <1>3

-----------------------------------------------------------------------------
(* The inductive invariant, in named parts.                                 *)

TypeInv ==
    /\ current \in 0 .. MaxHandles
    /\ queue \in Seq(Frames)
    /\ ops \in 0 .. MaxOps
    /\ stamp \in [open : 0 .. ops, seek : 0 .. ops]
    /\ active \in BOOLEAN
    /\ device \in 0 .. MaxOps
    /\ decoders \subseteq Entries

RegistryInv ==
    /\ RegistryOK(reg)
    /\ reg.next <= MaxHandles

\* Every live surface has one owner: a place in the queue, or the presenter.
OwnerInv ==
    /\ LiveIsHeld
    /\ Distinct(queue)
    /\ current \notin Handles(queue)

\* The queue respects its bound, and no frame was ever dropped for want of room or
\* of a surface.
BoundInv ==
    /\ Len(queue) <= QueueCap
    /\ drops = NoDrops

StampInv ==
    \A i \in 1 .. Len(queue) : Get(reg, queue[i].handle).stamp = queue[i].stamp

\* Whatever carries the generations of an active operation was decoded on the
\* current device.
DeviceInv ==
    /\ OnLiveDevice
    /\ \A d \in decoders :
          /\ active /\ d.stamp = stamp => d.device = device
          /\ d.stamp.open <= stamp.open
          /\ d.stamp.open = stamp.open => d.stamp.seek <= stamp.seek

SurfacesInv ==
    /\ TypeInv
    /\ RegistryInv
    /\ OwnerInv
    /\ BoundInv
    /\ StampInv
    /\ DeviceInv
    /\ QueueOrdered

(* A handle resolves exactly when it is live.                               *)
LEMMA ResolvesLive ==
    ASSUME NEW r, RegistryOK(r), NEW h \in Nat
    PROVE  Resolves(r, h) <=> h \in LiveHandles(r)
<1>1. r.base \in Nat /\ Len(r.entries) \in Nat
      BY DEF RegistryOK
<1> QED
    BY <1>1 DEF Resolves, LiveHandles

(* The fields of a queued frame have their types.                           *)
LEMMA FramesOfQueue ==
    ASSUME NEW q \in Seq(Frames)
    PROVE  /\ \A i \in 1 .. Len(q) : /\ q[i] \in Frames
                                     /\ q[i].handle \in 1 .. MaxHandles
                                     /\ q[i].pts \in Nat
           /\ \A h \in Handles(q) : h \in 1 .. MaxHandles
<1>1. ASSUME NEW i \in 1 .. Len(q)
      PROVE  q[i] \in Frames /\ q[i].handle \in 1 .. MaxHandles /\ q[i].pts \in Nat
      <2>1. q[i] \in Frames
            OBVIOUS
      <2>2. \A f \in Frames : f.handle \in 1 .. MaxHandles /\ f.pts \in 0 .. MaxPts
            BY DEF Frames
      <2> QED
          BY <2>1, <2>2, SizesOK
<1> QED
    BY <1>1 DEF Handles

(* The generations in force are generations.                                *)
LEMMA StampTyped == TypeInv => stamp \in Stamps
<1> SUFFICES ASSUME TypeInv PROVE stamp \in Stamps
    OBVIOUS
<1>1. stamp.open \in 0 .. MaxOps /\ stamp.seek \in 0 .. MaxOps
      BY SizesOK DEF TypeInv
<1>2. stamp = [open |-> stamp.open, seek |-> stamp.seek]
      BY DEF TypeInv
<1> QED
    BY <1>1, <1>2 DEF Stamps

(* Nothing is queued, alive or selected to begin with.                      *)
LEMMA InitSurfaces == Init => SurfacesInv
<1> SUFFICES ASSUME Init PROVE SurfacesInv
    OBVIOUS
<1> USE DEF Init
<1>1. Len(queue) = 0 /\ queue \in Seq(Frames)
      OBVIOUS
<1>2. LiveHandles(reg) = {} /\ Handles(queue) = {}
      BY <1>1 DEF LiveHandles, Handles
<1>3. TypeInv
      <2>1. current \in 0 .. MaxHandles /\ ops \in 0 .. MaxOps /\ device \in 0 .. MaxOps
            BY SizesOK
      <2>2. stamp \in [open : 0 .. ops, seek : 0 .. ops]
            OBVIOUS
      <2>3. active \in BOOLEAN /\ decoders \subseteq Entries
            OBVIOUS
      <2> QED
          BY <1>1, <2>1, <2>2, <2>3 DEF TypeInv
<1>4. RegistryInv
      <2>1. Cardinality(LiveHandles(reg)) = 0
            BY <1>2, FS_EmptySet, Zenon
      <2>2. <<>> \in Seq(Entries \union {NoEntry}) /\ Len(<<>>) = 0
            OBVIOUS
      <2>3. /\ reg \in [entries : Seq(Entries \union {NoEntry}), next : Nat, base : Nat,
                        alive : Nat]
            /\ reg.next = reg.base + Len(reg.entries)
            BY <2>2
      <2> QED
          BY <2>1, <2>3, SizesOK DEF RegistryInv, RegistryOK
<1>5. OwnerInv
      BY <1>1, <1>2 DEF OwnerInv, LiveIsHeld, HeldHandles, Distinct
<1>6. BoundInv /\ StampInv /\ QueueOrdered
      BY <1>1, SizesOK DEF BoundInv, StampInv, QueueOrdered
<1>7. DeviceInv
      BY <1>2 DEF DeviceInv, OnLiveDevice
<1> QED
    BY <1>3, <1>4, <1>5, <1>6, <1>7 DEF SurfacesInv

\* A step that adds one surface under the next handle and touches no other.
RegistersOne ==
    /\ reg'.next = reg.next + 1
    /\ LiveHandles(reg') = LiveHandles(reg) \union {reg.next + 1}
    /\ reg.next + 1 \notin LiveHandles(reg)
    /\ \A h \in LiveHandles(reg) : Get(reg', h) = Get(reg, h)
    /\ Get(reg', reg.next + 1) \in Entries

(* A frame drained from the channel takes a fresh handle and its place.     *)
LEMMA ReceiveStep == SurfacesInv /\ Receive => SurfacesInv' /\ RegistersOne
<1> SUFFICES ASSUME SurfacesInv, Receive PROVE SurfacesInv' /\ RegistersOne
    OBVIOUS
<1> USE DEF SurfacesInv
<1> DEFINE Body(source, pts, k) ==
        LET frame   == [handle |-> reg.next + 1, stamp |-> stamp, pts |-> pts]
            grown   == InsertedAt(queue, k, frame)
            evicted == Len(grown) > QueueCap
        IN  /\ queue' = IF evicted THEN Tail(grown) ELSE grown
            /\ reg' = Removed(Inserted(reg, source),
                              IF evicted THEN {Head(grown).handle} ELSE {})
            /\ drops' = IF evicted THEN [drops EXCEPT !.overflow = @ + 1] ELSE drops
<1> PICK source \in decoders, pts \in 0 .. MaxPts :
        /\ source.stamp = stamp
        /\ \E k \in InsertPositions(queue, pts) : Body(source, pts, k)
    BY DEF Receive
<1> PICK k \in InsertPositions(queue, pts) : Body(source, pts, k)
    OBVIOUS
<1> DEFINE frame == [handle |-> reg.next + 1, stamp |-> stamp, pts |-> pts]
           n     == Len(queue)
           grown == InsertedAt(queue, k, frame)
           ins   == Inserted(reg, source)
           from(j) == IF j < k THEN j ELSE j - 1
<1>1. /\ n \in Nat /\ QueueCap \in Nat /\ n < QueueCap
      /\ queue \in Seq(Frames)
      /\ reg.next \in Nat /\ reg.next < MaxHandles
      BY SizesOK DEF Receive, DrainGate, TypeInv, RegistryInv, RegistryOK
<1>2. k \in 1 .. n + 1
      BY <1>1 DEF InsertPositions
<1>3. frame \in Frames
      <2>1. reg.next + 1 \in 1 .. MaxHandles /\ stamp \in Stamps
            BY <1>1, SizesOK, StampTyped
      <2> QED
          BY <2>1 DEF Frames
<1>4. /\ grown \in Seq(Frames)
      /\ Len(grown) = n + 1
      /\ \A j \in 1 .. n + 1 :
            grown[j] = IF j < k THEN queue[j] ELSE IF j = k THEN frame ELSE queue[j - 1]
      <2>1. ASSUME NEW j \in 1 .. n + 1
            PROVE  (IF j < k THEN queue[j] ELSE IF j = k THEN frame ELSE queue[j - 1]) \in Frames
            BY <1>1, <1>2, <1>3
      <2> QED
          BY <1>1, <2>1 DEF InsertedAt
<1>4a. \A j \in 1 .. n + 1 :
          \/ j = k /\ grown[j] = frame
          \/ j # k /\ from(j) \in 1 .. n /\ grown[j] = queue[from(j)]
      <2> SUFFICES ASSUME NEW j \in 1 .. n + 1, j # k
                   PROVE  from(j) \in 1 .. n /\ grown[j] = queue[from(j)]
          BY <1>4
      <2>1. CASE j < k
            BY <1>1, <1>2, <1>4, <2>1
      <2>2. CASE ~(j < k)
            <3>1. j - 1 \in 1 .. n
                  BY <1>1, <1>2, <2>2
            <3> QED
                BY <1>4, <2>2, <3>1
      <2> QED
          BY <2>1, <2>2
<1>4b. \A j, l \in 1 .. n + 1 :
          /\ j < k => from(j) < k
          /\ j > k => from(j) >= k
          /\ j # k /\ l # k => (from(j) = from(l) => j = l) /\ (j < l => from(j) < from(l))
      BY <1>1, <1>2
<1>5. /\ queue' = grown
      /\ reg' = Removed(ins, {})
      /\ drops' = drops
      BY <1>1, <1>4
<1>6. UNCHANGED <<current, ops, stamp, active, device, decoders>>
      BY DEF Receive
<1>7. source \in Entries /\ source.stamp = stamp /\ source.device = device
      BY SizesOK DEF Receive, DrainGate, TypeInv, DeviceInv, Entries
<1>8. /\ RegistryOK(ins)
      /\ LiveHandles(ins) = LiveHandles(reg) \union {reg.next + 1}
      /\ reg.next + 1 \notin LiveHandles(reg)
      /\ ins.next = reg.next + 1
      /\ Agree(reg, ins)
      /\ Get(ins, reg.next + 1) = source
      BY <1>7, InsertedLive DEF RegistryInv
<1>9. /\ RegistryOK(reg')
      /\ LiveHandles(reg') = LiveHandles(reg) \union {reg.next + 1}
      /\ reg'.next = reg.next + 1
      /\ Agree(reg', ins)
      BY <1>5, <1>8, RemovedLive
<1>10. Handles(queue') = Handles(queue) \union {reg.next + 1}
      <2>1. ASSUME NEW j \in 1 .. n + 1
            PROVE  grown[j].handle \in Handles(queue) \union {reg.next + 1}
            <3>1. CASE j < k
                  <4>1. j \in 1 .. n /\ grown[j] = queue[j]
                        BY <1>1, <1>2, <1>4, <3>1
                  <4> QED
                      BY <4>1 DEF Handles
            <3>2. CASE j = k
                  BY <1>4, <3>2
            <3>3. CASE j > k
                  <4>1. j - 1 \in 1 .. n /\ grown[j] = queue[j - 1]
                        BY <1>1, <1>2, <1>4, <3>3
                  <4> QED
                      BY <4>1 DEF Handles
            <3> QED
                BY <1>2, <3>1, <3>2, <3>3
      <2>2. ASSUME NEW j \in 1 .. n
            PROVE  queue[j].handle \in Handles(grown)
            <3>1. CASE j < k
                  <4>1. j \in 1 .. n + 1 /\ grown[j] = queue[j]
                        BY <1>1, <1>2, <1>4, <3>1
                  <4> QED
                      BY <1>4, <4>1 DEF Handles
            <3>2. CASE j >= k
                  <4>1. /\ j + 1 \in 1 .. n + 1 /\ ~(j + 1 < k) /\ j + 1 # k
                        /\ (j + 1) - 1 = j
                        BY <1>1, <1>2, <3>2
                  <4>2. grown[j + 1] = queue[j]
                        BY <1>4, <4>1
                  <4> QED
                      BY <1>4, <4>1, <4>2 DEF Handles
            <3> QED
                BY <1>2, <3>1, <3>2
      <2>3. reg.next + 1 \in Handles(grown)
            BY <1>2, <1>4 DEF Handles
      <2>4. Handles(grown) \subseteq Handles(queue) \union {reg.next + 1}
            BY <1>4, <2>1 DEF Handles
      <2>5. Handles(queue) \subseteq Handles(grown)
            BY <2>2 DEF Handles
      <2> QED
          BY <1>5, <2>3, <2>4, <2>5
<1>11. reg.next + 1 \notin Handles(queue) /\ reg.next + 1 # current /\ reg.next + 1 # 0
      <2>1. reg.next + 1 # 0
            BY <1>1
      <2> QED
          BY <1>8, <2>1 DEF OwnerInv, LiveIsHeld, HeldHandles
<1>12. TypeInv'
      BY <1>4, <1>5, <1>6 DEF TypeInv
<1>13. RegistryInv'
      <2>1. reg.next + 1 <= MaxHandles
            BY <1>1, SizesOK
      <2> QED
          BY <1>9, <2>1 DEF RegistryInv
<1>14. OwnerInv'
      <2>1. LiveIsHeld'
            BY <1>6, <1>9, <1>10 DEF OwnerInv, LiveIsHeld, HeldHandles
      <2>2. ASSUME NEW j \in 1 .. n + 1, NEW l \in 1 .. n + 1,
                   grown[j].handle = grown[l].handle
            PROVE  j = l
            <3>1. \A m \in 1 .. n : queue[m].handle # reg.next + 1
                  BY <1>11 DEF Handles
            <3>2. \A m, o \in 1 .. n : queue[m].handle = queue[o].handle => m = o
                  BY DEF OwnerInv, Distinct
            <3> QED
                <4>0. ASSUME NEW m \in 1 .. n + 1
                      PROVE  (grown[m].handle = reg.next + 1) <=> (m = k)
                      <5>1. CASE m = k
                            <6>1. grown[m] = frame
                                  BY <1>4, <5>1
                            <6>2. frame.handle = reg.next + 1
                                  OBVIOUS
                            <6> QED
                                BY <5>1, <6>1, <6>2
                      <5>2. CASE m # k
                            <6>1. from(m) \in 1 .. n /\ grown[m] = queue[from(m)]
                                  BY <1>4a, <5>2
                            <6> HIDE DEF from, grown
                            <6> QED
                                BY <3>1, <5>2, <6>1
                      <5> QED
                          BY <5>1, <5>2
                <4>1. CASE j = k \/ l = k
                      <5> HIDE DEF from, grown
                      <5> QED
                          BY <2>2, <4>0, <4>1
                <4>2. CASE j # k /\ l # k
                      <5>1. /\ from(j) \in 1 .. n /\ from(l) \in 1 .. n
                            /\ queue[from(j)].handle = queue[from(l)].handle
                            BY <1>4a, <2>2, <4>2
                      <5>2. from(j) = from(l)
                            BY <3>2, <5>1
                      <5> QED
                          BY <1>4b, <4>2, <5>2
                <4> QED
                    BY <4>1, <4>2
      <2>3. Distinct(queue')
            BY <1>4, <1>5, <2>2 DEF Distinct
      <2>4. current' \notin Handles(queue')
            BY <1>6, <1>10, <1>11 DEF OwnerInv
      <2> QED
          BY <2>1, <2>3, <2>4 DEF OwnerInv
<1>15. BoundInv'
      BY <1>1, <1>4, <1>5 DEF BoundInv
<1>16. \A h \in LiveHandles(reg) : Get(reg', h) = Get(reg, h)
      BY <1>8, <1>9 DEF Agree
<1>17. Get(reg', reg.next + 1) = source
      BY <1>8, <1>9 DEF Agree
<1>18. StampInv'
      <2>1. \A j \in 1 .. n : queue[j].handle \in LiveHandles(reg)
            BY DEF OwnerInv, LiveIsHeld, HeldHandles, Handles
      <2>2. \A j \in 1 .. n : Get(reg', queue[j].handle).stamp = queue[j].stamp
            BY <1>16, <2>1 DEF StampInv
      <2>3. Get(reg', frame.handle).stamp = frame.stamp
            BY <1>7, <1>17
      <2>4. ASSUME NEW j \in 1 .. n + 1
            PROVE  Get(reg', grown[j].handle).stamp = grown[j].stamp
            BY <1>4a, <2>2, <2>3
      <2> QED
          BY <1>4, <1>5, <2>4 DEF StampInv
<1>19. DeviceInv'
      BY <1>6, <1>7, <1>9, <1>16, <1>17 DEF DeviceInv, OnLiveDevice
<1>20. QueueOrdered'
      <2>1. /\ pts \in Nat
            /\ \A j \in 1 .. n : queue[j].pts \in Nat
            BY <1>1, SizesOK, FramesOfQueue
      <2>2. \A i, j \in 1 .. n : i <= j => queue[i].pts <= queue[j].pts
            BY <1>1, <2>1 DEF QueueOrdered
      <2>3. \A j \in 1 .. n : /\ j < k => queue[j].pts <= pts
                              /\ j >= k => pts <= queue[j].pts
            <3>1. CASE n = 0 \/ pts >= queue[n].pts
                  <4>1. k = n + 1
                        BY <3>1 DEF InsertPositions
                  <4>2. \A j \in 1 .. n : queue[j].pts <= pts
                        BY <1>1, <2>1, <2>2, <3>1
                  <4> QED
                      BY <1>1, <4>1, <4>2
            <3>2. CASE ~(n = 0 \/ pts >= queue[n].pts)
                  <4>1. /\ k \in 1 .. n /\ pts <= queue[k].pts
                        /\ k > 1 => queue[k - 1].pts <= pts
                        <5>1. CASE {i \in 1 .. n : queue[i].pts = pts} # {}
                              <6>1. k \in 1 .. n /\ queue[k].pts = pts
                                    BY <3>2, <5>1 DEF InsertPositions
                              <6>2. k > 1 => k - 1 \in 1 .. n /\ k - 1 <= k
                                    BY <1>1, <6>1
                              <6> QED
                                  BY <2>1, <2>2, <6>1, <6>2
                        <5>2. CASE {i \in 1 .. n : queue[i].pts = pts} = {}
                              <6>1. /\ k \in 1 .. n /\ queue[k].pts > pts
                                    /\ k > 1 => queue[k - 1].pts < pts
                                    BY <3>2, <5>2 DEF InsertPositions
                              <6>2. k > 1 => k - 1 \in 1 .. n
                                    BY <1>1, <6>1
                              <6> QED
                                  BY <2>1, <6>1, <6>2
                        <5> QED
                            BY <5>1, <5>2
                  <4>2. ASSUME NEW j \in 1 .. n, j < k
                        PROVE  queue[j].pts <= pts
                        <5>1. k > 1 /\ k - 1 \in 1 .. n /\ j <= k - 1
                              BY <1>1, <4>1, <4>2
                        <5> QED
                            BY <2>1, <2>2, <4>1, <5>1
                  <4> QED
                      BY <1>1, <2>1, <2>2, <4>1, <4>2
            <3> QED
                BY <3>1, <3>2
      <2>4. ASSUME NEW j \in 1 .. n + 1, NEW l \in 1 .. n + 1, j < l
            PROVE  grown[j].pts <= grown[l].pts
            <3>1. CASE j = k
                  <4>1. l > k /\ l # k
                        BY <1>2, <2>4, <3>1
                  <4>2. from(l) \in 1 .. n /\ from(l) >= k /\ grown[l] = queue[from(l)]
                        BY <1>4a, <1>4b, <4>1
                  <4>3. pts <= queue[from(l)].pts
                        BY <2>3, <4>2
                  <4>4. grown[j].pts = pts
                        BY <1>4, <3>1
                  <4> QED
                      BY <4>2, <4>3, <4>4
            <3>2. CASE l = k
                  BY <1>1, <1>4a, <1>4b, <2>3, <2>4, <3>2
            <3>3. CASE j # k /\ l # k
                  <4>1. from(j) < from(l)
                        BY <1>4b, <2>4, <3>3
                  <4>2. /\ from(j) \in 1 .. n /\ from(l) \in 1 .. n
                        /\ grown[j] = queue[from(j)] /\ grown[l] = queue[from(l)]
                        BY <1>4a, <3>3
                  <4>3. from(j) <= from(l)
                        BY <1>1, <4>1, <4>2
                  <4> QED
                      BY <2>2, <4>2, <4>3
            <3> QED
                BY <3>1, <3>2, <3>3
      <2> QED
          BY <1>4, <1>5, <2>4 DEF QueueOrdered
<1> QED
    BY <1>7, <1>8, <1>9, <1>12, <1>13, <1>14, <1>15, <1>16, <1>17, <1>18, <1>19, <1>20
       DEF RegistersOne

\* A step that takes surfaces away and touches no other.
Releases ==
    /\ reg'.next = reg.next
    /\ LiveHandles(reg') \subseteq LiveHandles(reg)
    /\ Agree(reg', reg)

\* The part of the invariant that is about the surfaces and their owners.
HeldInv ==
    /\ queue \in Seq(Frames)
    /\ Len(queue) <= QueueCap
    /\ RegistryInv
    /\ OwnerInv
    /\ StampInv
    /\ OnLiveDevice
    /\ QueueOrdered

(* Whatever takes frames off the front of the queue, and leaves alive what  *)
(* is still queued or shown, keeps the surfaces and their owners in order.  *)
LEMMA QueueAdvances ==
    ASSUME SurfacesInv,
           NEW a \in 1 .. Len(queue) + 1,
           queue' = SubSeq(queue, a, Len(queue)),
           RegistryOK(reg'), reg'.next = reg.next, Agree(reg', reg),
           LiveHandles(reg') \subseteq LiveHandles(reg),
           LiveHandles(reg') = Handles(queue') \union ({current'} \ {0}),
           current' \notin Handles(queue'),
           device' = device
    PROVE  HeldInv'
<1> USE DEF SurfacesInv
<1> DEFINE n == Len(queue)
           m == Len(queue')
<1>1. n \in Nat /\ n <= QueueCap /\ QueueCap \in Nat /\ queue \in Seq(Frames)
      BY SizesOK DEF TypeInv, BoundInv
<1>2. /\ queue' \in Seq(Frames)
      /\ m = n - a + 1
      /\ \A i \in 1 .. m : queue'[i] = queue[a + i - 1]
      <2>1. n \in 0 .. n /\ a <= n + 1
            BY <1>1
      <2> QED
          BY <1>1, <2>1, SliceOfQueue
<1>3. m \in 0 .. n
      BY <1>1, <1>2
<1>4. \A i \in 1 .. m : a + i - 1 \in 1 .. n
      BY <1>1, <1>2
<1>5. RegistryInv'
      BY DEF RegistryInv
<1>6. OwnerInv'
      <2>1. ASSUME NEW i \in 1 .. m, NEW j \in 1 .. m, queue'[i].handle = queue'[j].handle
            PROVE  i = j
            <3>1. a + i - 1 = a + j - 1
                  BY <1>2, <1>4, <2>1 DEF OwnerInv, Distinct
            <3> QED
                BY <1>3, <3>1
      <2> QED
          BY <2>1 DEF OwnerInv, LiveIsHeld, HeldHandles, Distinct
<1>7. StampInv'
      <2>1. ASSUME NEW i \in 1 .. m
            PROVE  Get(reg', queue'[i].handle).stamp = queue'[i].stamp
            <3>1. queue'[i].handle \in LiveHandles(reg')
                  BY DEF Handles
            <3>2. Get(reg', queue'[i].handle) = Get(reg, queue[a + i - 1].handle)
                  BY <1>2, <3>1 DEF Agree
            <3> QED
                BY <1>2, <1>4, <3>2 DEF StampInv
      <2> QED
          BY <2>1 DEF StampInv
<1>8. OnLiveDevice'
      BY DEF DeviceInv, OnLiveDevice, Agree
<1>9. QueueOrdered'
      <2>1. ASSUME NEW i \in 1 .. m, NEW j \in 1 .. m, i < j
            PROVE  queue'[i].pts <= queue'[j].pts
            <3>1. a + i - 1 < a + j - 1
                  BY <1>3, <2>1
            <3> QED
                BY <1>2, <1>4, <3>1 DEF QueueOrdered
      <2> QED
          BY <2>1 DEF QueueOrdered
<1>10. m <= QueueCap
      BY <1>1, <1>3
<1> QED
    BY <1>2, <1>5, <1>6, <1>7, <1>8, <1>9, <1>10 DEF HeldInv

(* clear_video_queue releases the queued surfaces and keeps the picture.    *)
LEMMA QueueCleared ==
    ASSUME SurfacesInv,
           queue' = <<>>, reg' = QueueReleased, current' = SelectionLeft, device' = device
    PROVE  HeldInv' /\ current' = current
<1> USE DEF SurfacesInv
<1>1. Len(queue) \in Nat /\ queue' = SubSeq(queue, Len(queue) + 1, Len(queue))
      <2>1. Len(queue) \in Nat
            BY DEF TypeInv
      <2>2. SubSeq(queue, Len(queue) + 1, Len(queue)) = <<>>
            BY <2>1, SubSeqEmpty
      <2> QED
          BY <2>1, <2>2
<1>2. Handles(queue') = {}
      <2>1. Len(queue') = 0
            OBVIOUS
      <2> QED
          BY <2>1 DEF Handles
<1>3. current' = current
      BY DEF SelectionLeft, OwnerInv
<1>4. /\ RegistryOK(reg') /\ reg'.next = reg.next /\ Agree(reg', reg)
      /\ LiveHandles(reg') = LiveHandles(reg) \ Handles(queue)
      BY RemovedLive DEF QueueReleased, RegistryInv
<1>5. LiveHandles(reg') = Handles(queue') \union ({current'} \ {0})
      BY <1>2, <1>3, <1>4 DEF OwnerInv, LiveIsHeld, HeldHandles
<1>6. LiveHandles(reg') \subseteq LiveHandles(reg) /\ current' \notin Handles(queue')
      BY <1>2, <1>4
<1>7. Len(queue) + 1 \in 1 .. Len(queue) + 1
      BY <1>1
<1> QED
    BY <1>1, <1>3, <1>4, <1>5, <1>6, <1>7, QueueAdvances

(* Presenting a queued frame releases the late ones before it and the       *)
(* picture it replaces, and never finds its surface missing.                *)
LEMMA ShowStep ==
    ASSUME SurfacesInv, NEW n \in 1 .. Len(queue), ShowNth(n)
    PROVE  /\ HeldInv' /\ Releases
           /\ drops' = drops /\ current' \in 0 .. MaxHandles
           /\ UNCHANGED <<ops, stamp, active, device, decoders>>
<1> USE DEF SurfacesInv
<1> DEFINE frame == queue[n]
           late  == Handles(SubSeq(queue, 1, n - 1))
           shown == IF current \in late THEN 0 ELSE current
           rest  == Removed(reg, late)
<1>1. Len(queue) \in Nat /\ queue \in Seq(Frames)
      BY DEF TypeInv
<1>2. /\ late = {queue[i].handle : i \in 1 .. n - 1}
      /\ queue' = SubSeq(queue, n + 1, Len(queue))
      /\ Handles(queue') = {queue[i].handle : i \in n + 1 .. Len(queue)}
      <2>1. /\ 1 \in 1 .. Len(queue) + 1 /\ n - 1 \in 0 .. Len(queue) /\ 1 <= (n - 1) + 1
            /\ n + 1 \in 1 .. Len(queue) + 1 /\ Len(queue) \in 0 .. Len(queue)
            /\ n + 1 <= Len(queue) + 1
            BY <1>1
      <2>2. late = {queue[i].handle : i \in 1 .. n - 1}
            BY <1>1, <2>1, SliceOfQueue
      <2>3. queue' = SubSeq(queue, n + 1, Len(queue))
            BY DEF ShowNth
      <2> QED
          BY <1>1, <2>1, <2>2, <2>3, SliceOfQueue
<1>3. \A i \in 1 .. Len(queue) :
          /\ queue[i].handle \in LiveHandles(reg)
          /\ queue[i].handle \in 1 .. MaxHandles
          /\ queue[i].handle # current
      BY <1>1, FramesOfQueue DEF OwnerInv, LiveIsHeld, HeldHandles, Handles
<1>4. /\ frame.handle \notin late /\ frame.handle \notin Handles(queue')
      /\ late \intersect Handles(queue') = {}
      /\ Handles(queue) = late \union {frame.handle} \union Handles(queue')
      <2>1. \A i, j \in 1 .. Len(queue) : queue[i].handle = queue[j].handle => i = j
            BY DEF OwnerInv, Distinct
      <2>2. \A i \in 1 .. Len(queue) : i \in 1 .. n - 1 \/ i = n \/ i \in n + 1 .. Len(queue)
            BY <1>1
      <2>3. \A i \in 1 .. n - 1 : i \in 1 .. Len(queue) /\ i # n /\ i \notin n + 1 .. Len(queue)
            BY <1>1
      <2>4. \A i \in n + 1 .. Len(queue) : i \in 1 .. Len(queue) /\ i # n
            BY <1>1
      <2>5. \A h \in late : \E i \in 1 .. n - 1 : h = queue[i].handle
            BY <1>2
      <2>6. \A h \in Handles(queue') : \E i \in n + 1 .. Len(queue) : h = queue[i].handle
            BY <1>2
      <2>7. frame.handle \notin late /\ frame.handle \notin Handles(queue')
            BY <2>1, <2>3, <2>4, <2>5, <2>6
      <2>8. late \intersect Handles(queue') = {}
            BY <2>1, <2>3, <2>4, <2>5, <2>6
      <2>9. Handles(queue) \subseteq late \union {frame.handle} \union Handles(queue')
            BY <1>2, <2>2 DEF Handles
      <2>10. late \union {frame.handle} \union Handles(queue') \subseteq Handles(queue)
            BY <2>3, <2>4, <2>5, <2>6 DEF Handles
      <2> QED
          BY <2>7, <2>8, <2>9, <2>10
<1>5. current \notin late /\ shown = current
      BY <1>4 DEF OwnerInv
<1>6. /\ RegistryOK(rest) /\ rest.next = reg.next /\ Agree(rest, reg)
      /\ LiveHandles(rest) = LiveHandles(reg) \ late
      BY RemovedLive DEF RegistryInv
<1>7. /\ frame.handle \in LiveHandles(rest)
      /\ Resolves(rest, frame.handle)
      /\ Get(rest, frame.handle).stamp = frame.stamp
      <2>1. frame.handle \in LiveHandles(rest)
            BY <1>3, <1>4, <1>6
      <2>2. Resolves(rest, frame.handle)
            BY <2>1 DEF LiveHandles
      <2> QED
          BY <1>6, <2>1, <2>2 DEF Agree, StampInv
<1>8. /\ current' = frame.handle
      /\ reg' = Removed(rest, {current} \ {0, frame.handle})
      /\ drops' = drops
      /\ UNCHANGED <<ops, stamp, active, device, decoders>>
      BY <1>5, <1>7 DEF ShowNth
<1>9. /\ RegistryOK(reg') /\ reg'.next = reg.next /\ Agree(reg', rest)
      /\ LiveHandles(reg') = LiveHandles(rest) \ ({current} \ {0, frame.handle})
      BY <1>6, <1>8, RemovedLive
<1>10. LiveHandles(reg') \subseteq LiveHandles(reg) /\ Agree(reg', reg)
      BY <1>6, <1>9 DEF Agree
<1>11. LiveHandles(reg') = Handles(queue') \union ({current'} \ {0})
      <2>1. LiveHandles(reg) = Handles(queue) \union ({current} \ {0})
            BY DEF OwnerInv, LiveIsHeld, HeldHandles
      <2>2. frame.handle # 0 /\ current \notin Handles(queue)
            BY <1>3 DEF OwnerInv
      <2> QED
          BY <1>4, <1>6, <1>8, <1>9, <2>1, <2>2
<1>12. current' \notin Handles(queue') /\ current' \in 0 .. MaxHandles
      BY <1>3, <1>4, <1>8
<1>13. n + 1 \in 1 .. Len(queue) + 1
      BY <1>1
<1>14. HeldInv'
      BY <1>2, <1>8, <1>9, <1>10, <1>11, <1>12, <1>13, QueueAdvances
<1> QED
    BY <1>6, <1>8, <1>9, <1>10, <1>12, <1>14 DEF Releases

(* Late frames dropped with none shown: their surfaces go, the picture stays. *)
LEMMA DropLateStep ==
    ASSUME SurfacesInv, DropLate
    PROVE  HeldInv' /\ current' = current
<1> USE DEF SurfacesInv
<1>1. PICK clock \in 0 .. MaxPts + LateBy + 1 :
        /\ VeryLate(clock) > 0
        /\ queue' = SubSeq(queue, VeryLate(clock) + 1, Len(queue))
        /\ reg' = Removed(reg, Handles(SubSeq(queue, 1, VeryLate(clock))))
        /\ current' = IF current \in Handles(SubSeq(queue, 1, VeryLate(clock))) THEN 0
                      ELSE current
      BY DEF DropLate
<1> DEFINE n    == VeryLate(clock)
           late == Handles(SubSeq(queue, 1, n))
<1>2. Len(queue) \in Nat /\ queue \in Seq(Frames)
      BY DEF TypeInv
<1>3. n \in 0 .. Len(queue)
      <2>1. CASE Len(queue) = 0
            <3>1. {i \in 1 .. Len(queue) - 1 : queue[i].pts + LateBy < clock} = {}
                  BY <2>1
            <3>2. VeryLate(clock) = Cardinality({})
                  BY <3>1 DEF VeryLate
            <3> QED
                BY <1>2, <3>2, FS_EmptySet
      <2>2. CASE Len(queue) # 0
            <3> DEFINE S == {i \in 1 .. Len(queue) - 1 : queue[i].pts + LateBy < clock}
            <3>1. /\ 1 \in Int /\ Len(queue) - 1 \in Int /\ 1 <= (Len(queue) - 1) + 1
                  /\ S \in SUBSET (1 .. Len(queue) - 1)
                  BY <1>2, <2>2
            <3>2. Cardinality(S) \in 0 .. (Len(queue) - 1) - 1 + 1
                  BY ONLY <3>1, CountInRange
            <3> QED
                BY <1>2, <2>2, <3>2 DEF VeryLate
      <2> QED
          BY <2>1, <2>2
<1>4. /\ late = {queue[i].handle : i \in 1 .. n}
      /\ Handles(queue') = {queue[i].handle : i \in n + 1 .. Len(queue)}
      <2>1. /\ 1 \in 1 .. Len(queue) + 1 /\ 1 <= n + 1
            /\ n + 1 \in 1 .. Len(queue) + 1 /\ Len(queue) \in 0 .. Len(queue)
            /\ n + 1 <= Len(queue) + 1
            BY <1>2, <1>3
      <2> QED
          BY <1>1, <1>2, <1>3, <2>1, SliceOfQueue
<1>5. /\ late \intersect Handles(queue') = {}
      /\ Handles(queue) = late \union Handles(queue')
      <2>1. \A i, j \in 1 .. Len(queue) : queue[i].handle = queue[j].handle => i = j
            BY DEF OwnerInv, Distinct
      <2>2. \A i \in 1 .. Len(queue) : i \in 1 .. n \/ i \in n + 1 .. Len(queue)
            BY <1>2, <1>3
      <2>3. \A i \in 1 .. n : i \in 1 .. Len(queue) /\ i \notin n + 1 .. Len(queue)
            BY <1>2, <1>3
      <2>4. \A i \in n + 1 .. Len(queue) : i \in 1 .. Len(queue)
            BY <1>2, <1>3
      <2>5. \A h \in late : \E i \in 1 .. n : h = queue[i].handle
            BY <1>4
      <2>6. \A h \in Handles(queue') : \E i \in n + 1 .. Len(queue) : h = queue[i].handle
            BY <1>4
      <2>7. late \intersect Handles(queue') = {}
            BY <2>1, <2>3, <2>4, <2>5, <2>6
      <2>8. Handles(queue) \subseteq late \union Handles(queue')
            BY <1>4, <2>2 DEF Handles
      <2>9. late \union Handles(queue') \subseteq Handles(queue)
            BY <2>3, <2>4, <2>5, <2>6 DEF Handles
      <2> QED
          BY <2>7, <2>8, <2>9
<1>6. current' = current /\ current \notin Handles(queue)
      BY <1>1, <1>5 DEF OwnerInv
<1>7. /\ RegistryOK(reg') /\ reg'.next = reg.next /\ Agree(reg', reg)
      /\ LiveHandles(reg') = LiveHandles(reg) \ late
      BY <1>1, RemovedLive DEF RegistryInv
<1>8. /\ LiveHandles(reg') = Handles(queue') \union ({current'} \ {0})
      /\ LiveHandles(reg') \subseteq LiveHandles(reg)
      /\ current' \notin Handles(queue')
      BY <1>5, <1>6, <1>7 DEF OwnerInv, LiveIsHeld, HeldHandles
<1>9. n + 1 \in 1 .. Len(queue) + 1 /\ device' = device
      BY <1>2, <1>3 DEF DropLate
<1> QED
    BY <1>1, <1>6, <1>7, <1>8, <1>9, QueueAdvances

(* reset_surfaces after the queue was cleared: nothing is alive or held.    *)
LEMMA WipedStep ==
    ASSUME SurfacesInv, NEW r, RegistryOK(r), r.next = reg.next, Wiped(r)
    PROVE  HeldInv' /\ current' = 0 /\ LiveHandles(reg') = {} /\ reg'.next = reg.next
<1> USE DEF Wiped
<1>1. /\ RegistryOK(reg') /\ LiveHandles(reg') = {} /\ reg'.next = reg.next
      BY ClearedLive
<1>2. Len(queue') = 0 /\ queue' \in Seq(Frames)
      OBVIOUS
<1>3. Handles(queue') = {}
      BY <1>2 DEF Handles
<1>4. RegistryInv' /\ OwnerInv'
      BY <1>1, <1>2, <1>3
         DEF SurfacesInv, RegistryInv, OwnerInv, LiveIsHeld, HeldHandles, Distinct
<1>5. StampInv' /\ OnLiveDevice' /\ QueueOrdered'
      BY <1>1, <1>2 DEF StampInv, OnLiveDevice, QueueOrdered
<1> QED
    BY <1>1, <1>2, <1>4, <1>5, SizesOK DEF HeldInv

(* What a new operation records keeps its types and its newness: nothing    *)
(* decoded earlier carries the generations it starts with.                  *)
LEMMA StartedStep ==
    ASSUME SurfacesInv, NEW s, NEW d,
           \/ s = NewSeek
           \/ s = [open |-> stamp.open + 1, seek |-> 0],
           d \in {device, device + 1},
           Started(s, d)
    PROVE  /\ ops' \in 0 .. MaxOps
           /\ stamp' \in [open : 0 .. ops', seek : 0 .. ops']
           /\ active' \in BOOLEAN
           /\ device' = d /\ device' \in 0 .. MaxOps
           /\ decoders' \subseteq Entries
           /\ \A e \in decoders' :
                 /\ e.stamp = stamp' => e.device = device'
                 /\ e.stamp.open <= stamp'.open
                 /\ e.stamp.open = stamp'.open => e.stamp.seek <= stamp'.seek
<1> USE DEF SurfacesInv, TypeInv
<1>1. /\ ops \in Nat /\ ops < MaxOps /\ ops' = ops + 1 /\ MaxOps \in Nat
      /\ device \in Nat /\ d <= MaxOps
      /\ stamp' = s /\ active' = TRUE /\ device' = d
      /\ decoders' = decoders \union {[stamp |-> s, device |-> d]}
      BY SizesOK DEF Started
<1>2. /\ stamp = [open |-> stamp.open, seek |-> stamp.seek]
      /\ stamp.open \in 0 .. ops /\ stamp.seek \in 0 .. ops
      OBVIOUS
<1>3. /\ s = [open |-> s.open, seek |-> s.seek]
      /\ s.open \in 0 .. ops' /\ s.seek \in 0 .. ops'
      /\ \/ s.open = stamp.open /\ s.seek = stamp.seek + 1
         \/ s.open = stamp.open + 1 /\ s.seek = 0
      <2>1. NewSeek = [open |-> stamp.open, seek |-> stamp.seek + 1]
            BY <1>2 DEF NewSeek
      <2> QED
          BY <1>1, <1>2, <2>1
<1>4. stamp' \in [open : 0 .. ops', seek : 0 .. ops'] /\ s \in Stamps
      <2>1. s.open \in 0 .. MaxOps /\ s.seek \in 0 .. MaxOps
            BY <1>1, <1>3
      <2> QED
          BY <1>1, <1>3, <2>1 DEF Stamps
<1>5. d \in 0 .. MaxOps
      BY <1>1
<1>6. decoders' \subseteq Entries
      <2>1. [stamp |-> s, device |-> d] \in Entries
            BY <1>4, <1>5 DEF Entries
      <2> QED
          BY <1>1, <2>1
<1>7. ASSUME NEW e \in decoders'
      PROVE  /\ e.stamp = stamp' => e.device = device'
             /\ e.stamp.open <= stamp'.open
             /\ e.stamp.open = stamp'.open => e.stamp.seek <= stamp'.seek
      <2>1. CASE e = [stamp |-> s, device |-> d]
            BY <1>1, <1>2, <1>3, <2>1
      <2>2. CASE e \in decoders
            <3>1. e.stamp.open \in Nat /\ e.stamp.seek \in Nat
                  BY <2>2, SizesOK DEF Entries, Stamps
            <3>2. /\ e.stamp.open <= stamp.open
                  /\ e.stamp.open = stamp.open => e.stamp.seek <= stamp.seek
                  BY <2>2 DEF DeviceInv
            <3>3. e.stamp # s
                  BY <1>2, <1>3, <3>1, <3>2
            <3> QED
                BY <1>1, <1>2, <1>3, <3>1, <3>2, <3>3
      <2> QED
          BY <1>1, <2>1, <2>2
<1> QED
    BY <1>1, <1>4, <1>5, <1>6, <1>7

(* Against the audio clock, what is shown is one of the queued frames.      *)
LEMMA AudioShowsOne ==
    ASSUME SurfacesInv, PresentByAudio
    PROVE  \E n \in 1 .. Len(queue) : ShowNth(n)
<1>1. PICK clock \in 0 .. MaxPts + LateBy + 1 :
          Due(clock) > VeryLate(clock) /\ ShowNth(Due(clock))
      BY DEF PresentByAudio
<1>2. Due(clock) \in 1 .. Len(queue)
      <2>1. Len(queue) \in Nat
            BY DEF SurfacesInv, TypeInv
      <2>2. Due(clock) \in 0 .. Len(queue)
            <3> DEFINE S == {i \in 1 .. Len(queue) : queue[i].pts <= clock}
            <3>1. /\ 1 \in Int /\ Len(queue) \in Int /\ 1 <= Len(queue) + 1
                  /\ S \in SUBSET (1 .. Len(queue))
                  BY <2>1
            <3>2. Cardinality(S) \in 0 .. Len(queue) - 1 + 1
                  BY ONLY <3>1, CountInRange
            <3> QED
                BY <2>1, <3>2 DEF Due
      <2>3. VeryLate(clock) \in Nat
            <3>1. IsFiniteSet(1 .. Len(queue) - 1)
                  BY <2>1, FS_Interval
            <3>2. IsFiniteSet({i \in 1 .. Len(queue) - 1 : queue[i].pts + LateBy < clock})
                  BY <3>1, FS_Subset
            <3> QED
                BY <3>2, FS_CardinalityType DEF VeryLate
      <2> QED
          BY <1>1, <2>1, <2>2, <2>3
<1> QED
    BY <1>1, <1>2

(* Every operation of the session keeps the surfaces in order.              *)
LEMMA StepSurfaces == SurfacesInv /\ [Next]_vars => SurfacesInv'
<1> SUFFICES ASSUME SurfacesInv, [Next]_vars PROVE SurfacesInv'
    OBVIOUS
<1>1. ASSUME HeldInv', drops' = drops, current' \in 0 .. MaxHandles,
             UNCHANGED <<ops, stamp, decoders>>,
             \/ active' = active /\ device' = device
             \/ active' = FALSE /\ device' \in 0 .. MaxOps
      PROVE  SurfacesInv'
      <2>1. TypeInv'
            BY <1>1 DEF SurfacesInv, HeldInv, TypeInv
      <2>2. DeviceInv'
            <3>1. OnLiveDevice' /\ decoders' = decoders /\ stamp' = stamp
                  BY <1>1 DEF HeldInv
            <3>2. CASE active' = active /\ device' = device
                  BY <3>1, <3>2 DEF SurfacesInv, DeviceInv
            <3>3. CASE active' = FALSE
                  BY <3>1, <3>3 DEF SurfacesInv, DeviceInv
            <3> QED
                BY <1>1, <3>2, <3>3
      <2> QED
          BY <1>1, <2>1, <2>2 DEF SurfacesInv, HeldInv, BoundInv
<1>2. ASSUME HeldInv', drops' = NoDrops, current' \in 0 .. MaxHandles,
             NEW s, NEW d,
             \/ s = NewSeek
             \/ s = [open |-> stamp.open + 1, seek |-> 0],
             d \in {device, device + 1}, Started(s, d)
      PROVE  SurfacesInv'
      BY <1>2, StartedStep DEF SurfacesInv, HeldInv, TypeInv, BoundInv, DeviceInv
<1>3. /\ current \in 0 .. MaxHandles /\ 0 \in 0 .. MaxHandles /\ active \in BOOLEAN
      /\ RegistryOK(reg)
      BY SizesOK DEF SurfacesInv, TypeInv, RegistryInv
<1>4. RegistryOK(QueueReleased) /\ QueueReleased.next = reg.next
      BY <1>3, RemovedLive DEF QueueReleased
<1>5. CASE Receive
      BY <1>5, ReceiveStep
<1>6. CASE PresentByAudio
      <2>1. PICK n \in 1 .. Len(queue) : ShowNth(n)
            BY <1>6, AudioShowsOne
      <2> QED
          BY <1>1, <1>3, <2>1, ShowStep
<1>7. CASE DropLate
      BY <1>1, <1>3, <1>7, DropLateStep DEF DropLate
<1>8. CASE PresentByVideo
      <2>1. 1 \in 1 .. Len(queue) /\ ShowNth(1)
            BY <1>8 DEF PresentByVideo, SurfacesInv, TypeInv
      <2> QED
          BY <1>1, <1>3, <2>1, ShowStep
<1>9. CASE StopAtOutPoint
      BY <1>1, <1>3, <1>9, QueueCleared DEF StopAtOutPoint
<1>10. CASE Seek
      <2>1. HeldInv' /\ current' = current
            BY <1>10, QueueCleared DEF Seek, Started
      <2> QED
          BY <1>2, <1>3, <1>10, <2>1 DEF Seek
<1>11. CASE Open
      <2>1. HeldInv' /\ current' = 0
            BY <1>4, <1>11, WipedStep DEF Open
      <2> QED
          BY <1>2, <1>3, <1>11, <2>1 DEF Open
<1>12. CASE RecoverEndpoint
      <2>1. HeldInv' /\ current' = 0
            BY <1>4, <1>12, WipedStep DEF RecoverEndpoint
      <2> QED
          BY <1>2, <1>3, <1>12, <2>1 DEF RecoverEndpoint
<1>13. CASE RecoverDevice
      <2>1. /\ RegistryOK(Removed(Cleared(reg), Handles(queue)))
            /\ Removed(Cleared(reg), Handles(queue)).next = reg.next
            BY <1>3, ClearedLive, RemovedLive
      <2>2. HeldInv' /\ current' = 0
            BY <1>13, <2>1, WipedStep DEF RecoverDevice
      <2> QED
          BY <1>2, <1>3, <1>13, <2>2 DEF RecoverDevice
<1>14. CASE Fail
      <2>1. HeldInv' /\ current' = 0
            BY <1>4, <1>14, WipedStep DEF Fail
      <2> QED
          <3>1. device' = device /\ active' = FALSE /\ 0 \in 0 .. MaxHandles
                BY <1>3, <1>14 DEF Fail
          <3>2. device \in 0 .. MaxOps
                BY DEF SurfacesInv, TypeInv
          <3> QED
              BY <1>1, <1>14, <2>1, <3>1, <3>2 DEF Fail
<1>15. CASE DeviceLostForGood
      <2>1. /\ RegistryOK(Removed(Cleared(reg), Handles(queue)))
            /\ Removed(Cleared(reg), Handles(queue)).next = reg.next
            BY <1>3, ClearedLive, RemovedLive
      <2>2. HeldInv' /\ current' = 0
            BY <1>15, <2>1, WipedStep DEF DeviceLostForGood
      <2>3. device' \in 0 .. MaxOps
            BY <1>15, SizesOK DEF DeviceLostForGood, SurfacesInv, TypeInv
      <2> QED
          BY <1>1, <1>3, <1>15, <2>2, <2>3 DEF DeviceLostForGood
<1>16. CASE UNCHANGED vars
      BY <1>16
         DEF vars, SurfacesInv, TypeInv, RegistryInv, OwnerInv, LiveIsHeld, HeldHandles,
             BoundInv, StampInv, DeviceInv, OnLiveDevice, QueueOrdered
<1> QED
    BY <1>5, <1>6, <1>7, <1>8, <1>9, <1>10, <1>11, <1>12, <1>13, <1>14, <1>15, <1>16 DEF Next

-----------------------------------------------------------------------------
(* The theorems.                                                            *)

(* The invariant holds throughout.                                          *)
THEOREM SurfacesInvariant == Spec => []SurfacesInv
BY InitSurfaces, StepSurfaces, PTL DEF Spec

(* Every variable keeps its type; the registry never counts more surfaces   *)
(* than it handed out handles.                                              *)
THEOREM TypeCorrect == Spec => []TypeOK
<1>1. ASSUME SurfacesInv PROVE TypeOK
      <2> USE <1>1 DEF SurfacesInv, TypeInv
      <2>1. /\ reg.entries \in Seq(Entries \union {NoEntry})
            /\ reg.next \in Nat /\ reg.base \in Nat /\ Len(reg.entries) \in Nat
            /\ reg.next = reg.base + Len(reg.entries) /\ reg.next <= MaxHandles
            /\ reg.alive = Cardinality(LiveHandles(reg))
            BY DEF RegistryInv, RegistryOK
      <2>2. reg.alive \in 0 .. Len(reg.entries)
            <3> DEFINE lo == reg.base + 1
                       hi == reg.base + Len(reg.entries)
            <3>1. /\ lo \in Int /\ hi \in Int /\ lo <= hi + 1
                  /\ LiveHandles(reg) \in SUBSET (lo .. hi)
                  /\ hi - lo + 1 = Len(reg.entries)
                  <4>1. LiveHandles(reg) \in SUBSET (lo .. hi)
                        BY DEF LiveHandles
                  <4>2. lo \in Int /\ hi \in Int /\ lo <= hi + 1 /\ hi - lo + 1 = Len(reg.entries)
                        BY ONLY <2>1 DEF lo, hi
                  <4> QED
                      BY <4>1, <4>2
            <3> HIDE DEF lo, hi
            <3>2. Cardinality(LiveHandles(reg)) \in 0 .. hi - lo + 1
                  BY ONLY <3>1, CountInRange
            <3> QED
                BY <2>1, <3>1, <3>2
      <2>3. reg.next \in 0 .. MaxHandles /\ reg.base \in 0 .. MaxHandles
            /\ reg.alive \in 0 .. MaxHandles
            BY <2>1, <2>2, SizesOK
      <2>4. drops.overflow \in Nat /\ drops.mismatch \in Nat
            BY DEF BoundInv, NoDrops
      <2> QED
          BY <2>1, <2>3, <2>4, StampTyped DEF TypeOK
<1> QED
    BY <1>1, SurfacesInvariant, PTL

(* No surface leaks and no held handle dangles.                             *)
THEOREM NothingLeaks == Spec => []LiveIsHeld
BY SurfacesInvariant, PTL DEF SurfacesInv, OwnerInv

(* The counter that decides when the vector is dropped never drifts.        *)
THEOREM CounterExact == Spec => []AliveCounts
BY SurfacesInvariant, PTL DEF SurfacesInv, RegistryInv, RegistryOK, AliveCounts

(* A queued frame always finds its surface: no frame is dropped for a       *)
(* surface mismatch.                                                        *)
THEOREM FramesResolve == Spec => []QueueResolves
<1>1. ASSUME SurfacesInv PROVE QueueResolves
      <2> USE <1>1 DEF SurfacesInv
      <2>1. \A i \in 1 .. Len(queue) : queue[i].handle \in LiveHandles(reg)
            BY DEF OwnerInv, LiveIsHeld, HeldHandles, Handles
      <2> QED
          BY <2>1 DEF QueueResolves, LiveHandles, StampInv, BoundInv, NoDrops
<1> QED
    BY <1>1, SurfacesInvariant, PTL

(* Nothing of a destroyed device is alive.                                  *)
THEOREM NoDeadDevice == Spec => []OnLiveDevice
BY SurfacesInvariant, PTL DEF SurfacesInv, DeviceInv

(* The queue stays ordered by presentation time.                            *)
THEOREM StaysOrdered == Spec => []QueueOrdered
BY SurfacesInvariant, PTL DEF SurfacesInv

(* No decoded frame is lost to a full queue.                                *)
LEMMA NothingOverflows == Spec => []NoOverflow
<1>1. SurfacesInv => NoOverflow
      BY DEF SurfacesInv, BoundInv, NoDrops, NoOverflow
<1> QED
    BY <1>1, SurfacesInvariant, PTL

(* What lives is held, counted and of the living device.                    *)
THEOREM SurfacesAreKept == Spec => []SurfacesKept
BY TypeCorrect, NothingLeaks, CounterExact, NoDeadDevice, PTL DEF SurfacesKept

(* Every queued frame will be shown in its turn.                            *)
THEOREM QueueStaysSound == Spec => []QueueSound
BY FramesResolve, StaysOrdered, NothingOverflows, PTL DEF QueueSound

-----------------------------------------------------------------------------
(* The refinement.                                                          *)

(* A step of the registry that only takes surfaces away releases them.      *)
LEMMA MapReleased ==
    ASSUME Releases
    PROVE  Abstract!Release
<1> DEFINE map == [h \in LiveHandles(reg) |-> Get(reg, h)]
<1>1. /\ LiveHandles(reg') \in SUBSET (DOMAIN map)
      /\ [h \in LiveHandles(reg') |-> Get(reg', h)] = [h \in LiveHandles(reg') |-> map[h]]
      BY DEF Releases, Agree
<1> QED
    BY <1>1 DEF Releases, Abstract!Release

(* A step that adds one surface registers it.                               *)
LEMMA MapRegistered ==
    ASSUME RegistersOne
    PROVE  Abstract!Register
<1> DEFINE map  == [h \in LiveHandles(reg) |-> Get(reg, h)]
           kept == LiveHandles(reg)
           new  == Get(reg', reg.next + 1)
<1>1. [h \in LiveHandles(reg') |-> Get(reg', h)]
        = [h \in kept \union {reg.next + 1} |-> IF h = reg.next + 1 THEN new ELSE map[h]]
      BY DEF RegistersOne
<1>2. kept \in SUBSET (DOMAIN map) /\ new \in Entries
      BY DEF RegistersOne
<1> QED
    BY <1>1, <1>2 DEF RegistersOne, Abstract!Register

(* Each step of the vector with epochs releases surfaces of the map, or     *)
(* registers one under a fresh handle.                                      *)
THEOREM MapImplemented == Spec => ImplementsSurfaceMap
<1>1. Init => Abstract!Init
      <2> SUFFICES ASSUME Init PROVE Abstract!Init
          OBVIOUS
      <2>1. LiveHandles(reg) = {}
            BY DEF Init, LiveHandles
      <2> QED
          BY <2>1 DEF Init, Abstract!Init
<1>2. ASSUME SurfacesInv, [Next]_vars PROVE [Abstract!Next]_(Abstract!vars)
      <2> USE <1>2
      <2>1. RegistryOK(reg)
            BY DEF SurfacesInv, RegistryInv
      <2>2. CASE UNCHANGED reg
            BY <2>2 DEF Abstract!vars
      <2>3. ASSUME NEW hs, reg' = Removed(reg, hs)
            PROVE  Abstract!Release
            BY <2>1, <2>3, RemovedLive, MapReleased DEF Releases
      <2>4. ASSUME NEW r, RegistryOK(r), r.next = reg.next, Wiped(r)
            PROVE  Abstract!Release
            <3>1. Releases
                  BY <2>4, WipedStep DEF Releases, Agree
            <3> QED
                BY <3>1, MapReleased
      <2>5. RegistryOK(QueueReleased) /\ QueueReleased.next = reg.next
            BY <2>1, RemovedLive DEF QueueReleased
      <2>6. /\ RegistryOK(Removed(Cleared(reg), Handles(queue)))
            /\ Removed(Cleared(reg), Handles(queue)).next = reg.next
            BY <2>1, ClearedLive, RemovedLive
      <2>7. CASE Receive
            BY <2>7, ReceiveStep, MapRegistered DEF Abstract!Next
      <2>8. CASE PresentByAudio \/ PresentByVideo
            <3>1. PICK n \in 1 .. Len(queue) : ShowNth(n)
                  BY <2>8, AudioShowsOne DEF PresentByVideo, SurfacesInv, TypeInv
            <3> QED
                BY <3>1, ShowStep, MapReleased DEF Abstract!Next
      <2>9. CASE DropLate
            BY <2>3, <2>9 DEF DropLate, Abstract!Next
      <2>10. CASE StopAtOutPoint \/ Seek
            BY <2>3, <2>10 DEF StopAtOutPoint, Seek, QueueReleased, Abstract!Next
      <2>11. CASE Open \/ RecoverEndpoint \/ Fail
            BY <2>4, <2>5, <2>11 DEF Open, RecoverEndpoint, Fail, Abstract!Next
      <2>12. CASE RecoverDevice \/ DeviceLostForGood
            BY <2>4, <2>6, <2>12 DEF RecoverDevice, DeviceLostForGood, Abstract!Next
      <2> QED
          BY <2>2, <2>7, <2>8, <2>9, <2>10, <2>11, <2>12 DEF Next, vars
<1> QED
    BY <1>1, <1>2, SurfacesInvariant, PTL DEF Spec, ImplementsSurfaceMap, Abstract!Spec
=====================================================================================
