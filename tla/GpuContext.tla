------------------------------- MODULE GpuContext -------------------------------
(***************************************************************************)
(* One immediate context of D3D11 for the UI thread and the decode workers *)
(* (ffi/d3d11.rs, ffi/ffmpeg.rs). The runtime's own critical section keeps *)
(* the calls of the device context apart; those of the video context it    *)
(* does not cover, and context_lock is there for them. An operation is the *)
(* sequence of its calls: a call begins and ends, so that two can overlap, *)
(* and one that fails ends the operation, which unmaps and unlocks what it *)
(* holds. Several calls of one kind in a row are one; pixels are left out. *)
(***************************************************************************)
EXTENDS Integers, Sequences, FiniteSets

CONSTANTS
    UI,        \* the thread of the window, the session and the presenter
    Workers,   \* video decode threads, the current one and stragglers
    None,
    MaxBuffers \* bound: back buffers made one after the other

ASSUME GpuConstants ==
    /\ IsFiniteSet(Workers) /\ UI \notin Workers /\ None \notin Workers \cup {UI}
    /\ MaxBuffers \in Nat \ {0}

Threads == Workers \cup {UI}

VARIABLES
    op,         \* the kind of operation each thread is in, "none" between two
    rest,       \* its calls still to do
    inside,     \* the call it is in
    holder,     \* who holds context_lock
    mapped,     \* a resource is mapped
    bound,      \* the planes of a frame are bound as shader resources
    backbuffer, \* [id, address] of the swap chain's current back buffer
    cache,      \* the back buffer vp_cache was made for, or NoBuffer
    decoder,    \* each worker's: "none", "hardware", "software", "bare"
    refs        \* references to the device

threadVars == <<op, rest, inside, holder>>
vars == <<op, rest, inside, holder, mapped, bound, backbuffer, cache, decoder, refs>>

NoBuffer == [id |-> 0, address |-> 0]
Addresses == {1, 2}   \* where the system puts a back buffer: it may be the same again

-----------------------------------------------------------------------------
(* The operations, as their calls.                                          *)

Locked(calls) == <<"lock">> \o calls \o <<"unlock">>

ClearRenderTarget == <<"context">>
RenderSubtitleOverlay == <<"context">>
UpdateOverlay == <<"context">>
Flush == <<"context">>
RenderVideoSurface == <<"processor", "create">> \o Locked(<<"video">>)

\* When the picture is out of the window the cleared target is the frame.
RenderToneMapped(empty) ==
    Locked(<<"map", "unmap", "map", "unmap", "context">>
           \o (IF empty THEN <<>> ELSE <<"bind", "context", "unbind">>))

Capture == Locked(<<"context", "map", "read", "unmap">>)

SendPacket(mode) == IF mode = "hardware" THEN Locked(<<"video">>) ELSE <<"decode">>

\* surface_from_raw_texture: the caller holds the lock.
SurfaceFromRawTexture == <<"create", "context">>

\* upload_nv12_surface_contiguous.
UploadSurface == Locked(<<"context">>)

\* seek_and_flush takes no lock: the frames it gives up go back to the decoder's own pool.
FlushCodec == <<"decode">>

\* Mutant of ReceiveFrame: the copy takes the lock again.
ReceiveFrameLocking(mode) ==
    IF mode = "hardware"
    THEN Locked(<<"video">> \o Locked(SurfaceFromRawTexture))
    ELSE <<"decode">> \o UploadSurface

\* Of a hardware decoder the frame is copied under the lock it was received under; of a
\* software decoder, uploaded.
ReceiveFrame(mode) ==
    IF mode = "hardware"
    THEN Locked(<<"video">> \o SurfaceFromRawTexture)
    ELSE <<"decode">> \o UploadSurface

\* Mutant of CloseDecoder: the decoder is freed beside the lock.
CloseDecoderUnlocked(mode) == IF mode = "hardware" THEN <<"video", "release">> ELSE <<"release">>

\* CodecContext::drop, then its clone of the device.
CloseDecoder(mode) ==
    IF mode = "hardware" THEN Locked(<<"video">>) \o <<"release">> ELSE <<"release">>

\* Calls that can fail, and those at which the operation may find it has nothing to do or
\* is cancelled; a decoder's end does neither.
CanEnd(o, call) ==
    o # "close" /\ call \in {"processor", "map", "read", "create", "video", "decode"}

\* Mutant of Unwound: no guard unmaps.
UnwoundMapped(t) == IF holder = t THEN <<"unlock">> ELSE <<>>

\* What the guards of an operation that ends early do, the last made first.
Unwound(t) ==
    IF holder # t THEN <<>> ELSE IF mapped THEN <<"unmap", "unlock">> ELSE <<"unlock">>

-----------------------------------------------------------------------------
Init ==
    /\ op = [t \in Threads |-> "none"] /\ rest = [t \in Threads |-> <<>>]
    /\ inside = [t \in Threads |-> "none"] /\ holder = None
    /\ mapped = FALSE /\ bound = FALSE
    /\ backbuffer = [id |-> 1, address |-> 1] /\ cache = NoBuffer
    /\ decoder = [w \in Workers |-> "none"]
    /\ refs = 1 + Cardinality(Workers)

Start(t, o, calls) ==
    /\ op[t] = "none"
    /\ op' = [op EXCEPT ![t] = o] /\ rest' = [rest EXCEPT ![t] = calls]
    /\ UNCHANGED <<inside, holder, mapped, bound, backbuffer>>

\* What the UI thread does with the context in a frame, an overlay's change or a device's end.
Paint ==
    /\ \/ Start(UI, "paint", ClearRenderTarget)
       \/ Start(UI, "paint", RenderSubtitleOverlay)
       \/ Start(UI, "paint", UpdateOverlay)
       \/ Start(UI, "paint", Flush)
       \/ Start(UI, "paint", RenderVideoSurface)
       \/ \E empty \in BOOLEAN : Start(UI, "paint", RenderToneMapped(empty))
       \/ Start(UI, "paint", Capture)
    /\ UNCHANGED <<cache, decoder, refs>>

\* Mutant of Dropped: the processor is kept for the next back buffer.
DroppedNothing == cache
\* resize, release_resources: the processor goes before the back buffer does.
Dropped == NoBuffer

\* The chain gives up its back buffer and gets another, perhaps at the same address.
Resize ==
    /\ op[UI] = "none" /\ backbuffer.id < MaxBuffers
    /\ \E a \in Addresses : backbuffer' = [id |-> backbuffer.id + 1, address |-> a]
    /\ cache' = Dropped
    /\ UNCHANGED <<threadVars, mapped, bound, decoder, refs>>

\* owned_device_ptr: the reference FFmpeg will release.
OwnedDevicePtr == 1

\* The references a decoder holds: a clone of the device beside the codec and one in FFmpeg;
\* only the clone when the device was never handed over ("bare").
Holds(mode) ==
    CASE mode = "hardware" -> 1 + OwnedDevicePtr [] mode = "bare" -> 1 [] OTHER -> 0

\* A hardware decoder. Opening the codec makes no call of either context: the decoder is
\* made as the first packet is sent.
OpenHardware(w) ==
    /\ op[w] = "none" /\ decoder[w] = "none"
    /\ decoder' = [decoder EXCEPT ![w] = "hardware"] /\ refs' = refs + Holds("hardware")
    /\ UNCHANGED <<threadVars, mapped, bound, backbuffer, cache>>

\* The hardware cannot. If its context cannot be set up, the reference handed over goes
\* again at once, without the lock and without a call; if the codec cannot be opened it
\* goes with the codec. The codec is freed under the lock in both cases. The software
\* decoder that follows has no device.
OpenHardwareFails(w) ==
    /\ decoder[w] = "none"
    /\ \E made \in {"bare", "hardware"} :
          decoder' = [decoder EXCEPT ![w] = made] /\ refs' = refs + Holds(made)
    /\ Start(w, "close", CloseDecoder("hardware")) /\ UNCHANGED cache

OpenSoftware(w) ==
    /\ op[w] = "none" /\ decoder[w] = "none"
    /\ decoder' = [decoder EXCEPT ![w] = "software"]
    /\ UNCHANGED <<threadVars, mapped, bound, backbuffer, cache, refs>>

\* A packet is sent, a frame received, at the end of the file the decoder drained, flushed
\* at a seek, the decoder dropped: at the worker's end, or when software takes over.
Work(w) ==
    /\ decoder[w] \in {"hardware", "software"}
    /\ \/ Start(w, "decode", SendPacket(decoder[w]))
       \/ Start(w, "decode", ReceiveFrame(decoder[w]))
       \/ Start(w, "decode", FlushCodec)
       \/ Start(w, "close", CloseDecoder(decoder[w]))
    /\ UNCHANGED <<cache, decoder, refs>>

-----------------------------------------------------------------------------
(* The calls.                                                               *)

ContextCalls == {"context", "map", "unmap", "bind", "unbind"}
Next1(t) == IF rest[t] = <<>> THEN "none" ELSE Head(rest[t])

Lock(t) ==
    /\ inside[t] = "none" /\ Next1(t) = "lock" /\ holder = None
    /\ holder' = t /\ rest' = [rest EXCEPT ![t] = Tail(@)]
    /\ UNCHANGED <<op, inside, mapped, bound, backbuffer, cache, decoder, refs>>

Unlock(t) ==
    /\ inside[t] = "none" /\ Next1(t) = "unlock"
    /\ holder' = None /\ rest' = [rest EXCEPT ![t] = Tail(@)]
    /\ UNCHANGED <<op, inside, mapped, bound, backbuffer, cache, decoder, refs>>

\* The runtime's critical section lets one call of the device context in, and none of the
\* video context: those it does not know of.
Enter(t) ==
    /\ inside[t] = "none" /\ Next1(t) \notin {"none", "lock", "unlock"}
    /\ Next1(t) \in ContextCalls => \A u \in Threads : inside[u] \notin ContextCalls
    /\ inside' = [inside EXCEPT ![t] = Next1(t)]
    /\ UNCHANGED <<op, rest, holder, mapped, bound, backbuffer, cache, decoder, refs>>

\* The cached processor, or one made for this back buffer.
Processor ==
    IF cache # NoBuffer /\ cache.address = backbuffer.address THEN cache ELSE backbuffer

Leave(t) ==
    LET call == inside[t] IN
    /\ call # "none" /\ inside' = [inside EXCEPT ![t] = "none"]
    /\ rest' = [rest EXCEPT ![t] = Tail(@)]
    /\ mapped' = (call = "map" \/ (call # "unmap" /\ mapped))
    /\ bound' = (call = "bind" \/ (call # "unbind" /\ bound))
    /\ cache' = IF call = "processor" THEN Processor ELSE cache
    /\ IF call = "release"
       THEN /\ decoder' = [decoder EXCEPT ![t] = "none"]
            /\ refs' = refs - Holds(decoder[t])
       ELSE UNCHANGED <<decoder, refs>>
    /\ UNCHANGED <<op, holder, backbuffer>>

\* The call failed, or there is no frame, or the command was superseded.
EndEarly(t) ==
    /\ inside[t] # "none" /\ CanEnd(op[t], inside[t])
    /\ inside' = [inside EXCEPT ![t] = "none"] /\ rest' = [rest EXCEPT ![t] = Unwound(t)]
    /\ UNCHANGED <<op, holder, mapped, bound, backbuffer, cache, decoder, refs>>

Return(t) ==
    /\ op[t] # "none" /\ rest[t] = <<>> /\ inside[t] = "none"
    /\ op' = [op EXCEPT ![t] = "none"]
    /\ UNCHANGED <<rest, inside, holder, mapped, bound, backbuffer, cache, decoder, refs>>

Advance(t) == Lock(t) \/ Unlock(t) \/ Enter(t) \/ Leave(t) \/ EndEarly(t) \/ Return(t)

Next ==
    \/ Paint \/ Resize
    \/ \E w \in Workers : OpenHardware(w) \/ OpenHardwareFails(w) \/ OpenSoftware(w) \/ Work(w)
    \/ \E t \in Threads : Advance(t)

Spec == Init /\ [][Next]_vars

\* A thread in an operation goes on, and one that waits for the runtime's critical section
\* gets in in the end; whether it begins another operation is its own affair.
Live == Spec /\ \A t \in Threads : WF_vars(Advance(t)) /\ SF_vars(Enter(t))

-----------------------------------------------------------------------------
(* Properties.                                                              *)

Calls == ContextCalls \cup {"lock", "unlock", "video", "processor", "read", "create", "decode",
                            "release"}

TypeOK ==
    /\ op \in [Threads -> {"none", "paint", "decode", "close"}]
    /\ \A t \in Threads : rest[t] \in Seq(Calls) /\ Len(rest[t]) <= 10
    /\ inside \in [Threads -> Calls \cup {"none"}]
    /\ holder \in Threads \cup {None} /\ (holder # None => op[holder] # "none")
    /\ mapped \in BOOLEAN /\ bound \in BOOLEAN
    /\ {backbuffer, cache} \subseteq [id : 0 .. MaxBuffers, address : Addresses \cup {0}]
    /\ decoder \in [Workers -> {"none", "hardware", "software", "bare"}] /\ refs \in Int

\* No two threads are in calls of the video context at once, and what is done to the device
\* context under the lock never meets one (d3d11.rs:96-103): neither a straggler's decoder
\* that is freed nor its last copy runs beside a blit.
VideoCallsAlone ==
    \A t, u \in Threads : t # u /\ inside[t] = "video"
        => inside[u] # "video" /\ (holder = u => inside[u] = "none")

\* When the lock is free nothing is mapped and no plane of a frame is still bound, however
\* the operation ended (d3d11.rs:481-488, 1471-1473).
LeavesNothing == holder = None => ~mapped /\ ~bound

\* However an operation ends, it leaves the context as it found it.
Unwinds ==
    /\ TypeOK
    /\ LeavesNothing

\* A processor blits into the back buffer it was made for, even when a later one lies at
\* the same address (d3d11.rs:296-301, dxgi.rs:1704).
CacheIsOfBackbuffer == cache = NoBuffer \/ cache = backbuffer

\* However many decoders were opened and closed, and however their opens failed, each user
\* of the device still holds one reference, a hardware decoder two, and one that the device
\* was never handed to one (d3d11.rs:533-549, ffmpeg.rs:1966-1972).
RefsHeld ==
    refs = 1 + Cardinality(Workers) + 2 * Cardinality({w \in Workers : decoder[w] = "hardware"})
             + Cardinality({w \in Workers : decoder[w] = "bare"})

\* Through every failure and every end, what is kept of the device is what is in use: the
\* processor of this back buffer, and as many references as there are users.
DeviceKept ==
    /\ CacheIsOfBackbuffer
    /\ RefsHeld

\* Who holds the lock gives it back: no operation takes it twice or waits for another thread
\* inside it (d3d11.rs:873-876).
LockComesBack == \A t \in Threads : holder = t ~> holder # t

\* "Serializes all immediate-context operations across threads." (d3d11.rs:96)
AllSerialized ==
    \A t, u \in Threads : t # u /\ inside[t] = "video" => inside[u] \notin ContextCalls
=============================================================================
