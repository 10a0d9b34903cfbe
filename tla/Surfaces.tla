--------------------------------- MODULE Surfaces ---------------------------------
(***************************************************************************)
(* Who owns a decoded picture between the drain of the event channel and   *)
(* the screen:                                                             *)
(*   - SurfaceRegistry (render/surface_registry.rs): a vector of slots, a  *)
(*     climbing handle counter and an epoch that advances when it empties; *)
(*   - the presenter's current surface (render/presenter.rs);              *)
(*   - VideoFrameQueue (app/video_queue.rs), bounded and ordered by PTS;   *)
(*   - the PlaybackSession operations that move a frame between them, and  *)
(*     those that throw all of them away (seek, open, recovery, failure).  *)
(*                                                                         *)
(* Everything runs on the UI thread, one operation per action. Workers     *)
(* appear as the frames they may still deliver: those of any operation     *)
(* ever started, each made on the device of its day.                       *)
(***************************************************************************)
EXTENDS Naturals, Sequences, FiniteSets

CONSTANTS
    QueueCap,      \* capacity of the decoded video queue
    LateBy,        \* VERY_LATE_VIDEO_THRESHOLD, in PTS ticks
    MaxPts,        \* bound on presentation times
    MaxHandles,    \* bound on the surfaces registered
    MaxOps         \* bound on opens, seeks and recoveries, and on the devices

ASSUME SizesOK ==
    /\ QueueCap \in Nat \ {0}
    /\ LateBy \in Nat
    /\ MaxPts \in Nat
    /\ MaxHandles \in Nat
    /\ MaxOps \in Nat

VARIABLES
    reg,        \* SurfaceRegistry: entries, next (next_handle), base (epoch_base), alive
    current,    \* Presenter.current_surface, 0 for None
    queue,      \* VideoFrameQueue.frames
    drops,      \* VideoDropBuckets: queue_overflow and surface_mismatch
    ops,        \* OperationClock: the operations started
    stamp,      \* the open and seek generations in force
    active,     \* an operation is active: no failure since the last one
    device,     \* the presenter's D3D11 device, by number
    decoders    \* history: stamp and device of every decode that may still deliver

vars == <<reg, current, queue, drops, ops, stamp, active, device, decoders>>

Stamps == [open : 0 .. MaxOps, seek : 0 .. MaxOps]
Entries == [stamp : Stamps, device : 0 .. MaxOps]
NoEntry == [stamp |-> "none"]
Frames == [handle : 1 .. MaxHandles, stamp : Stamps, pts : 0 .. MaxPts]

NoDrops == [overflow |-> 0, mismatch |-> 0]

Init ==
    /\ reg = [entries |-> <<>>, next |-> 0, base |-> 0, alive |-> 0]
    /\ current = 0
    /\ queue = <<>>
    /\ drops = NoDrops
    /\ ops = 0
    /\ stamp = [open |-> 0, seek |-> 0]
    /\ active = FALSE
    /\ device = 0
    /\ decoders = {}

-----------------------------------------------------------------------------
(* SurfaceRegistry                                                          *)

\* get: the slot of h, if h belongs to this epoch and was not taken.
Resolves(r, h) ==
    /\ h > r.base
    /\ h - r.base <= Len(r.entries)
    /\ r.entries[h - r.base] # NoEntry

Get(r, h) == r.entries[h - r.base]

LiveHandles(r) == {h \in r.base + 1 .. r.base + Len(r.entries) : Resolves(r, h)}

\* insert, which pads the vector up to the new slot.
Inserted(r, entry) ==
    LET slot == r.next + 1 - r.base
        size == IF slot > Len(r.entries) THEN slot ELSE Len(r.entries)
    IN  [entries |-> [i \in 1 .. size |->
                         IF i = slot THEN entry
                         ELSE IF i <= Len(r.entries) THEN r.entries[i] ELSE NoEntry],
         next |-> r.next + 1, base |-> r.base, alive |-> r.alive + 1]

\* clear_for_new_epoch
Cleared(r) == [entries |-> <<>>, next |-> r.next, base |-> r.next, alive |-> 0]

\* Mutant of Removed: compacting an empty registry restarts the handle counter.
RemovedRestarting(r, hs) ==
    LET taken == hs \intersect LiveHandles(r)
        left  == r.alive - Cardinality(taken)
    IN  IF taken = {} THEN r
        ELSE IF left = 0 THEN [entries |-> <<>>, next |-> 0, base |-> 0, alive |-> 0]
        ELSE [r EXCEPT !.alive = left,
                       !.entries = [i \in 1 .. Len(r.entries) |->
                           IF r.base + i \in taken THEN NoEntry ELSE r.entries[i]]]

\* remove of each handle of hs: the vector is dropped with its last surface.
Removed(r, hs) ==
    LET taken == hs \intersect LiveHandles(r)
        left  == r.alive - Cardinality(taken)
    IN  IF taken = {} THEN r
        ELSE IF left = 0 THEN Cleared(r)
        ELSE [r EXCEPT !.alive = left,
                       !.entries = [i \in 1 .. Len(r.entries) |->
                           IF r.base + i \in taken THEN NoEntry ELSE r.entries[i]]]

-----------------------------------------------------------------------------
(* VideoFrameQueue                                                          *)

Handles(frames) == {frames[i].handle : i \in 1 .. Len(frames)}

InsertedAt(frames, i, frame) ==
    [j \in 1 .. Len(frames) + 1 |->
        IF j < i THEN frames[j] ELSE IF j = i THEN frame ELSE frames[j - 1]]

\* Mutant of InsertPositions: frames are queued in the order they arrive.
InsertAtBack(frames, pts) == {Len(frames) + 1}

\* insert_ordered: at the back, or wherever binary_search_by may land. On an equal
\* PTS it returns any of the matching positions.
InsertPositions(frames, pts) ==
    LET n == Len(frames) IN
    IF n = 0 \/ pts >= frames[n].pts THEN {n + 1}
    ELSE LET equal == {i \in 1 .. n : frames[i].pts = pts}
         IN  IF equal # {} THEN equal
             ELSE {i \in 1 .. n : /\ frames[i].pts > pts
                                  /\ i > 1 => frames[i - 1].pts < pts}

\* is_full: the drain loop of tick_inner stops here.
DrainGate == active /\ Len(queue) < QueueCap

-----------------------------------------------------------------------------
(* Frames in                                                                *)

\* VideoFrameReady that passes is_current_frame and the seek discard:
\* register_surface, then push_video_frame with its eviction.
Receive ==
    /\ DrainGate
    /\ reg.next < MaxHandles
    /\ \E source \in decoders, pts \in 0 .. MaxPts :
        /\ source.stamp = stamp
        /\ \E i \in InsertPositions(queue, pts) :
            LET frame   == [handle |-> reg.next + 1, stamp |-> stamp, pts |-> pts]
                grown   == InsertedAt(queue, i, frame)
                evicted == Len(grown) > QueueCap
            IN  /\ queue' = IF evicted THEN Tail(grown) ELSE grown
                /\ reg' = Removed(Inserted(reg, source),
                                  IF evicted THEN {Head(grown).handle} ELSE {})
                /\ drops' = IF evicted THEN [drops EXCEPT !.overflow = @ + 1] ELSE drops
    /\ UNCHANGED <<current, ops, stamp, active, device, decoders>>

-----------------------------------------------------------------------------
(* Frames out: advance_video_playback                                       *)

\* present_video_frame of the n-th queued frame, after the n - 1 before it are
\* dropped as late. The surface shown until now is released.
ShowNth(n) ==
    LET frame  == queue[n]
        late  == Handles(SubSeq(queue, 1, n - 1))
        shown == IF current \in late THEN 0 ELSE current
        rest  == Removed(reg, late)
    IN  /\ queue' = SubSeq(queue, n + 1, Len(queue))
        /\ IF Resolves(rest, frame.handle) /\ Get(rest, frame.handle).stamp = frame.stamp
           THEN /\ current' = frame.handle
                /\ reg' = Removed(rest, {shown} \ {0, frame.handle})
                /\ UNCHANGED drops
           ELSE /\ current' = IF shown = frame.handle THEN 0 ELSE shown
                /\ reg' = Removed(rest, {frame.handle})
                /\ drops' = [drops EXCEPT !.mismatch = @ + 1]
        /\ UNCHANGED <<ops, stamp, active, device, decoders>>

\* Frames of the queue that are due at clock, and those too late to be shown while
\* another is queued behind them. The queue is ordered, so both are prefixes.
Due(clock) == Cardinality({i \in 1 .. Len(queue) : queue[i].pts <= clock})
VeryLate(clock) ==
    Cardinality({i \in 1 .. Len(queue) - 1 : queue[i].pts + LateBy < clock})

\* Against the audio clock: late frames are dropped and the newest due one is shown.
PresentByAudio ==
    /\ active
    /\ \E clock \in 0 .. MaxPts + LateBy + 1 :
        /\ Due(clock) > VeryLate(clock)
        /\ ShowNth(Due(clock))

\* The same when every frame that is due was very late: they are dropped and the
\* next one is not due yet.
DropLate ==
    /\ active
    /\ \E clock \in 0 .. MaxPts + LateBy + 1 :
        LET late == VeryLate(clock) IN
        /\ late > 0
        /\ Due(clock) = late
        /\ queue' = SubSeq(queue, late + 1, Len(queue))
        /\ reg' = Removed(reg, Handles(SubSeq(queue, 1, late)))
        /\ current' = IF current \in Handles(SubSeq(queue, 1, late)) THEN 0 ELSE current
    /\ UNCHANGED <<drops, ops, stamp, active, device, decoders>>

\* Against the video clock, or none yet: the front frame when its deadline comes.
PresentByVideo ==
    /\ active
    /\ queue # <<>>
    /\ ShowNth(1)

\* clear_video_queue, as part of the operations below: what is left of the registry
\* and of the presenter's selection.
QueueReleased == Removed(reg, Handles(queue))
SelectionLeft == IF current \in Handles(queue) THEN 0 ELSE current

\* The out-point is reached without a loop: the queue goes, the picture stays.
\* (With a loop it is a Seek, which releases the same frames.)
StopAtOutPoint ==
    /\ active
    /\ queue # <<>>
    /\ queue' = <<>>
    /\ reg' = QueueReleased
    /\ current' = SelectionLeft
    /\ UNCHANGED <<drops, ops, stamp, active, device, decoders>>

-----------------------------------------------------------------------------
(* Operations                                                               *)

Started(newStamp, newDevice) ==
    /\ ops < MaxOps
    /\ newDevice <= MaxOps
    /\ ops' = ops + 1
    /\ stamp' = newStamp
    /\ active' = TRUE
    /\ device' = newDevice
    /\ decoders' = decoders \union {[stamp |-> newStamp, device |-> newDevice]}

NewSeek == [stamp EXCEPT !.seek = @ + 1]

\* execute_seek: the selected surface stays until the new frame replaces it.
Seek ==
    /\ active
    /\ Started(NewSeek, device)
    /\ queue' = <<>>
    /\ reg' = QueueReleased
    /\ current' = SelectionLeft
    /\ drops' = NoDrops

\* prepare_runtime_for_operation with reset_surfaces, on registry r.
Wiped(r) ==
    /\ queue' = <<>>
    /\ reg' = Cleared(r)
    /\ current' = 0

\* Mutant of RecoverDevice: the reopen keeps the seek generation.
RecoverDeviceSameSeek ==
    /\ stamp.open > 0
    /\ Started(stamp, device + 1)
    /\ Wiped(Removed(Cleared(reg), Handles(queue)))
    /\ drops' = NoDrops

\* open_at, and begin_operation.
Open ==
    /\ Started([open |-> stamp.open + 1, seek |-> 0], device)
    /\ Wiped(QueueReleased)
    /\ drops' = NoDrops

\* recover_audio_endpoint
RecoverEndpoint ==
    /\ active
    /\ Started(NewSeek, device)
    /\ Wiped(QueueReleased)
    /\ drops' = NoDrops

\* recover_device: rebuild_device resets the surfaces while the queue still names
\* them; begin_operation then releases those dead handles.
RecoverDevice ==
    /\ stamp.open > 0
    /\ Started(NewSeek, device + 1)
    /\ Wiped(Removed(Cleared(reg), Handles(queue)))
    /\ drops' = NoDrops

\* The same when the rebuild fails, with or without a device to show for it: fail_playback.
DeviceLostForGood ==
    /\ stamp.open > 0
    /\ device' \in {device, device + 1} /\ device' <= MaxOps
    /\ active' = FALSE
    /\ Wiped(Removed(Cleared(reg), Handles(queue)))
    /\ UNCHANGED <<drops, ops, stamp, decoders>>

\* fail_open and fail_playback: release_presented_content.
Fail ==
    /\ active
    /\ active' = FALSE
    /\ Wiped(QueueReleased)
    /\ UNCHANGED <<drops, ops, stamp, device, decoders>>

Next ==
    \/ Receive
    \/ PresentByAudio \/ DropLate \/ PresentByVideo \/ StopAtOutPoint
    \/ Seek \/ Open \/ RecoverEndpoint \/ RecoverDevice \/ DeviceLostForGood \/ Fail

Spec == Init /\ [][Next]_vars

-----------------------------------------------------------------------------
(* Properties *)

TypeOK ==
    /\ reg.entries \in Seq(Entries \union {NoEntry})
    /\ reg.next \in 0 .. MaxHandles
    /\ reg.base \in 0 .. MaxHandles
    /\ reg.alive \in 0 .. MaxHandles
    /\ current \in 0 .. MaxHandles
    /\ queue \in Seq(Frames)
    /\ drops.overflow \in Nat /\ drops.mismatch \in Nat
    /\ ops \in 0 .. MaxOps
    /\ stamp \in Stamps
    /\ active \in BOOLEAN
    /\ device \in 0 .. MaxOps
    /\ decoders \subseteq Entries

(* A surface is alive exactly while the queue or the presenter holds its    *)
(* handle: nothing leaks across seeks, drops and evictions, and no held     *)
(* handle dangles, epochs that advance in the middle included (remove: "no  *)
(* outstanding handle (queued frame or current_surface) references this     *)
(* epoch").                                                                 *)
HeldHandles == Handles(queue) \union ({current} \ {0})
LiveIsHeld == LiveHandles(reg) = HeldHandles

(* The incremental alive counter, on which compaction is decided, agrees    *)
(* with the slots that hold a surface.                                      *)
AliveCounts == reg.alive = Cardinality(LiveHandles(reg))

(* Every queued frame resolves to a surface of its own generation, so the   *)
(* frame is shown when its turn comes: drop_surface_mismatch stays at zero. *)
QueueResolves ==
    /\ \A i \in 1 .. Len(queue) :
          /\ Resolves(reg, queue[i].handle)
          /\ Get(reg, queue[i].handle).stamp = queue[i].stamp
    /\ drops.mismatch = 0

(* No surface of a device that was destroyed is alive, on screen or queued, *)
(* however late a worker of that device delivered it.                       *)
OnLiveDevice ==
    \A h \in LiveHandles(reg) : Get(reg, h).device = device

(* The queue is ordered by PTS, whatever order frames are decoded in: the   *)
(* scheduler reads only its first two.                                      *)
QueueOrdered ==
    \A i, j \in 1 .. Len(queue) : i < j => queue[i].pts <= queue[j].pts

(* Draining behind the gate, no decoded frame is ever lost to overflow: the *)
(* bounded channel paces the decoder instead (the comment in tick_inner     *)
(* tells of the picture freezing when this was not so).                     *)
NoOverflow == drops.overflow = 0

(* What lives is held, counted and of the living device: no release is     *)
(* forgotten or made twice, and nothing outlives the device it was made of.*)
SurfacesKept ==
    /\ TypeOK
    /\ LiveIsHeld
    /\ AliveCounts
    /\ OnLiveDevice

(* Every queued frame will be shown in its turn: it resolves, it is in order,*)
(* and none before it was thrown away for want of room.                    *)
QueueSound ==
    /\ QueueResolves
    /\ QueueOrdered
    /\ NoOverflow

(* The vector with epochs implements a map whose handles are never reused:  *)
(* a handle from a superseded seek or a previous epoch never resolves to    *)
(* somebody else's surface.                                                 *)
Abstract == INSTANCE SurfaceMap
    WITH Surface <- Entries,
         map     <- [h \in LiveHandles(reg) |-> Get(reg, h)],
         issued  <- reg.next

ImplementsSurfaceMap == Abstract!Spec
===================================================================================
