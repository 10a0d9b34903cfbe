---------------------------- MODULE GpuContextProofs ----------------------------
(***************************************************************************)
(* What is proved of GpuContext, for any number of decode workers and of   *)
(* back buffers: calls of the video context are alone, the cached video    *)
(* processor is never one of a back buffer that is gone, the device's      *)
(* references add up however many decoders come and go, and an operation   *)
(* leaves nothing mapped or bound however it ends.                         *)
(***************************************************************************)
EXTENDS GpuContext, FiniteSetTheorems, SequenceTheorems, TLAPS

-----------------------------------------------------------------------------
(* Operations that lock.                                                    *)

LockCalls == {"lock", "unlock"}
NeedLock == {"video", "unlock"}
Plain == Calls \ {"lock", "unlock", "release"}
Ended == Calls \ {"release"}

\* The i-th of these calls is made with the lock this sequence took.
Covered(s, i) ==
    \E j \in 1 .. (i - 1) : s[j] = "lock" /\ \A k \in (j + 1) .. (i - 1) : s[k] \notin LockCalls

Guarded(s) == \A i \in 1 .. Len(s) : s[i] \in NeedLock => Covered(s, i)

\* What a thread still has to do: it made its way to the lock, or will.
OnTrack(s, holds) ==
    \A i \in 1 .. Len(s) : s[i] \in NeedLock =>
        \/ holds /\ \A k \in 1 .. (i - 1) : s[k] \notin LockCalls
        \/ Covered(s, i)

(* A sequence that releases no device is one of calls.                      *)
LEMMA EndedAreCalls ==
    ASSUME NEW s \in Seq(Ended)
    PROVE  s \in Seq(Calls)
<1>1. Ended \subseteq Calls
      BY DEF Ended
<1> HIDE DEF Ended
<1> QED
    BY <1>1

(* What an operation does under the lock, it does between taking it and     *)
(* giving it back.                                                          *)
LEMMA LockedGuarded ==
    ASSUME NEW calls \in Seq(Plain)
    PROVE  Locked(calls) \in Seq(Ended) /\ Guarded(Locked(calls))
<1> DEFINE s == Locked(calls)
           n == Len(calls)
<1>1. s \in Seq(Ended) /\ Len(s) = n + 2 /\ n \in Nat
      BY DEF Locked, Plain, Ended, Calls, ContextCalls
<1>2. s[1] = "lock" /\ \A i \in 2 .. (n + 1) : s[i] = calls[i - 1]
      BY DEF Locked
<1>3. \A i \in 2 .. (n + 1) : s[i] \notin LockCalls
      BY <1>2 DEF Plain, LockCalls
<1> HIDE DEF s, n
<1>4. ASSUME NEW i \in 1 .. Len(s), s[i] \in NeedLock PROVE Covered(s, i)
      <2>1. i # 1
            BY <1>2, <1>4 DEF NeedLock
      <2>2. 1 \in 1 .. (i - 1) /\ \A k \in 2 .. (i - 1) : k \in 2 .. (n + 1)
            BY <1>1, <2>1
      <2> QED
          BY <1>2, <1>3, <2>2 DEF Covered
<1> QED
    BY <1>1, <1>4 DEF Guarded, s

(* Without the video context and locks there is nothing to guard.           *)
LEMMA PlainGuarded ==
    ASSUME NEW s \in Seq(Plain \ {"video"})
    PROVE  s \in Seq(Ended) /\ Guarded(s)
BY DEF Plain, Ended, Guarded, NeedLock, Calls

(* One guarded sequence after another is guarded.                           *)
LEMMA ConcatGuarded ==
    ASSUME NEW a \in Seq(Calls), NEW b \in Seq(Calls), Guarded(a), Guarded(b)
    PROVE  a \o b \in Seq(Calls) /\ Guarded(a \o b)
<1> DEFINE s == a \o b
           n == Len(a)
<1>1. Len(s) = n + Len(b) /\ n \in Nat /\ Len(b) \in Nat
      OBVIOUS
<1>2. \A i \in 1 .. n : s[i] = a[i]
      OBVIOUS
<1>3. \A i \in (n + 1) .. Len(s) : s[i] = b[i - n]
      OBVIOUS
<1> HIDE DEF s, n
<1>4. ASSUME NEW i \in 1 .. Len(s), s[i] \in NeedLock PROVE Covered(s, i)
      <2>1. CASE i \in 1 .. n
            <3>1. PICK j \in 1 .. (i - 1) :
                      a[j] = "lock" /\ \A k \in (j + 1) .. (i - 1) : a[k] \notin LockCalls
                  BY <1>2, <1>4, <2>1 DEF Guarded, Covered, n
            <3>2. j \in 1 .. n /\ \A k \in (j + 1) .. (i - 1) : k \in 1 .. n
                  BY <1>1, <2>1
            <3> QED
                BY <1>2, <3>1, <3>2 DEF Covered
      <2>2. CASE i \in (n + 1) .. Len(s)
            <3>1. i - n \in 1 .. Len(b) /\ b[i - n] \in NeedLock
                  BY <1>1, <1>3, <1>4, <2>2
            <3>2. PICK j \in 1 .. (i - n - 1) :
                      b[j] = "lock" /\ \A k \in (j + 1) .. (i - n - 1) : b[k] \notin LockCalls
                  BY <3>1 DEF Guarded, Covered
            <3>3. n + j \in 1 .. (i - 1) /\ s[n + j] = "lock"
                  BY <1>1, <1>3, <2>2, <3>2
            <3>4. ASSUME NEW k \in (n + j + 1) .. (i - 1) PROVE s[k] \notin LockCalls
                  <4>1. k - n \in (j + 1) .. (i - n - 1) /\ k \in (n + 1) .. Len(s)
                        BY <1>1, <2>2, <3>2
                  <4> QED
                      BY <1>3, <3>2, <4>1
            <3> QED
                BY <3>3, <3>4 DEF Covered
      <2> QED
          BY <1>1, <1>4, <2>1, <2>2
<1>5. s \in Seq(Calls)
      BY DEF s
<1> QED
    BY <1>4, <1>5 DEF Guarded, s

(* Every operation of the UI thread is guarded, and releases no device.     *)
LEMMA PaintGuarded ==
    ASSUME NEW empty \in BOOLEAN
    PROVE  \A calls \in {ClearRenderTarget, RenderSubtitleOverlay, UpdateOverlay, Flush,
                         RenderVideoSurface, RenderToneMapped(empty), Capture} :
               calls \in Seq(Ended) /\ Guarded(calls)
<1>1. <<"context">> \in Seq(Plain \ {"video"}) /\ <<"video">> \in Seq(Plain)
      /\ <<"processor", "create">> \in Seq(Plain \ {"video"})
      /\ <<"context", "map", "read", "unmap">> \in Seq(Plain)
      BY DEF Plain, Calls, ContextCalls
<1>2. <<"map", "unmap", "map", "unmap", "context">>
          \o (IF empty THEN <<>> ELSE <<"bind", "context", "unbind">>) \in Seq(Plain)
      <2>1. <<"map", "unmap", "map", "unmap", "context">> \in Seq(Plain)
            /\ <<>> \in Seq(Plain) /\ <<"bind", "context", "unbind">> \in Seq(Plain)
            BY DEF Plain, Calls, ContextCalls
      <2> QED
          BY <2>1
<1>3. <<"context">> \in Seq(Ended) /\ Guarded(<<"context">>)
      BY <1>1, PlainGuarded
<1>4. RenderVideoSurface \in Seq(Ended) /\ Guarded(RenderVideoSurface)
      <2>1. <<"processor", "create">> \in Seq(Ended) /\ Guarded(<<"processor", "create">>)
            BY <1>1, PlainGuarded
      <2>2. Locked(<<"video">>) \in Seq(Ended) /\ Guarded(Locked(<<"video">>))
            BY <1>1, LockedGuarded
      <2>3. <<"processor", "create">> \in Seq(Calls) /\ Locked(<<"video">>) \in Seq(Calls)
            BY <2>1, <2>2, EndedAreCalls
      <2>4. Guarded(<<"processor", "create">> \o Locked(<<"video">>))
            BY <2>1, <2>2, <2>3, ConcatGuarded
      <2> QED
          BY <2>1, <2>2, <2>4 DEF RenderVideoSurface
<1>5. RenderToneMapped(empty) \in Seq(Ended) /\ Guarded(RenderToneMapped(empty))
      BY <1>2, LockedGuarded DEF RenderToneMapped
<1>6. Capture \in Seq(Ended) /\ Guarded(Capture)
      BY <1>1, LockedGuarded DEF Capture
<1> QED
    BY <1>3, <1>4, <1>5, <1>6
       DEF ClearRenderTarget, RenderSubtitleOverlay, UpdateOverlay, Flush

(* So is every operation of a worker; its device is released at the end of  *)
(* CloseDecoder.                                                            *)
LEMMA WorkGuarded ==
    ASSUME NEW mode \in {"hardware", "software"}
    PROVE  \A calls \in {SendPacket(mode), ReceiveFrame(mode), FlushCodec, CloseDecoder(mode)} :
               calls \in Seq(Calls) /\ Guarded(calls)
<1>1. <<"decode">> \in Seq(Plain \ {"video"}) /\ <<"video">> \in Seq(Plain)
      /\ <<"context">> \in Seq(Plain) /\ <<"video">> \o SurfaceFromRawTexture \in Seq(Plain)
      BY DEF Plain, Calls, ContextCalls, SurfaceFromRawTexture
<1>2. <<"decode">> \in Seq(Calls) /\ Guarded(<<"decode">>)
      BY <1>1, PlainGuarded, EndedAreCalls
<1>3. <<"release">> \in Seq(Calls) /\ Guarded(<<"release">>)
      BY DEF Calls, Guarded, NeedLock
<1>4. Locked(<<"video">>) \in Seq(Calls) /\ Guarded(Locked(<<"video">>))
      BY <1>1, LockedGuarded, EndedAreCalls
<1>5. UploadSurface \in Seq(Calls) /\ Guarded(UploadSurface)
      BY <1>1, LockedGuarded, EndedAreCalls DEF UploadSurface
<1>6. Locked(<<"video">> \o SurfaceFromRawTexture) \in Seq(Calls)
      /\ Guarded(Locked(<<"video">> \o SurfaceFromRawTexture))
      BY <1>1, LockedGuarded, EndedAreCalls
<1>7. SendPacket(mode) \in Seq(Calls) /\ Guarded(SendPacket(mode))
      BY <1>2, <1>4 DEF SendPacket
<1>8. ReceiveFrame(mode) \in Seq(Calls) /\ Guarded(ReceiveFrame(mode))
      <2>1. <<"decode">> \o UploadSurface \in Seq(Calls)
            /\ Guarded(<<"decode">> \o UploadSurface)
            BY <1>2, <1>5, ConcatGuarded
      <2> QED
          BY <1>6, <2>1 DEF ReceiveFrame
<1>9. CloseDecoder(mode) \in Seq(Calls) /\ Guarded(CloseDecoder(mode))
      <2>1. Locked(<<"video">>) \o <<"release">> \in Seq(Calls)
            /\ Guarded(Locked(<<"video">>) \o <<"release">>)
            BY <1>3, <1>4, ConcatGuarded
      <2> QED
          BY <1>3, <2>1 DEF CloseDecoder
<1> QED
    BY <1>2, <1>7, <1>8, <1>9 DEF FlushCodec

-----------------------------------------------------------------------------
(* What is left of an operation after a call.                               *)

(* The call at hand needs the lock: it is held.                             *)
LEMMA HeadHolds ==
    ASSUME NEW s \in Seq(Calls), NEW holds \in BOOLEAN, s # <<>>, OnTrack(s, holds),
           Head(s) \in NeedLock
    PROVE  holds
BY DEF OnTrack, Covered

(* A guarded operation is on its track from the start.                      *)
LEMMA GuardedOnTrack ==
    ASSUME NEW s \in Seq(Calls), NEW holds \in BOOLEAN, Guarded(s)
    PROVE  OnTrack(s, holds)
BY DEF Guarded, OnTrack

(* After a call the rest is on its track, with the lock as the call left it.*)
LEMMA TailOnTrack ==
    ASSUME NEW s \in Seq(Calls), NEW holds \in BOOLEAN, s # <<>>, OnTrack(s, holds),
           NEW now \in BOOLEAN, Head(s) = "lock" => now, Head(s) \notin LockCalls => now = holds
    PROVE  Tail(s) \in Seq(Calls) /\ OnTrack(Tail(s), now)
<1> DEFINE r == Tail(s)
<1>1. r \in Seq(Calls) /\ Len(s) = Len(r) + 1 /\ Len(r) \in Nat /\ Head(s) = s[1]
      OBVIOUS
<1>2. \A i \in 1 .. Len(r) : r[i] = s[i + 1]
      OBVIOUS
<1> HIDE DEF r
<1>3. ASSUME NEW i \in 1 .. Len(r), r[i] \in NeedLock
      PROVE  (now /\ \A k \in 1 .. (i - 1) : r[k] \notin LockCalls) \/ Covered(r, i)
      <2>1. i + 1 \in 1 .. Len(s) /\ s[i + 1] \in NeedLock
            BY <1>1, <1>2, <1>3
      <2>2. CASE holds /\ \A k \in 1 .. i : s[k] \notin LockCalls
            <3>1. now
                  <4>1. 1 \in 1 .. i
                        OBVIOUS
                  <4>2. Head(s) \notin LockCalls
                        BY <1>1, <2>2, <4>1
                  <4> QED
                      BY <2>2, <4>2
            <3>2. \A k \in 1 .. (i - 1) : k + 1 \in 1 .. i /\ r[k] = s[k + 1]
                  BY <1>1, <1>2
            <3> QED
                BY <2>2, <3>1, <3>2
      <2>3. CASE Covered(s, i + 1)
            <3>1. PICK j \in 1 .. i :
                      s[j] = "lock" /\ \A k \in (j + 1) .. i : s[k] \notin LockCalls
                  BY <2>3 DEF Covered
            <3>2. \A k \in 1 .. (i - 1) : k + 1 \in 1 .. i /\ r[k] = s[k + 1]
                  BY <1>1, <1>2
            <3>3. CASE j = 1
                  <4>1. \A k \in 1 .. (i - 1) : k + 1 \in (j + 1) .. i
                        BY <3>3
                  <4> QED
                      BY <1>1, <3>1, <3>2, <3>3, <4>1
            <3>4. CASE j > 1
                  <4>1. j - 1 \in 1 .. (i - 1) /\ r[j - 1] = "lock"
                        BY <1>1, <3>1, <3>2, <3>4
                  <4>2. \A k \in (j - 1 + 1) .. (i - 1) :
                            k \in 1 .. (i - 1) /\ k + 1 \in (j + 1) .. i
                        BY <3>1, <3>4
                  <4> QED
                      BY <3>1, <3>2, <4>1, <4>2 DEF Covered
            <3> QED
                BY <3>1, <3>3, <3>4
      <2>4. (holds /\ \A k \in 1 .. i : s[k] \notin LockCalls) \/ Covered(s, i + 1)
            BY <2>1 DEF OnTrack
      <2> QED
          BY <2>2, <2>3, <2>4
<1> QED
    BY <1>1, <1>3 DEF OnTrack, r

(* An operation that ends early gives back what it holds, and no more.      *)
LEMMA UnwoundOnTrack ==
    ASSUME NEW t \in Threads
    PROVE  Unwound(t) \in Seq(Ended) /\ OnTrack(Unwound(t), holder = t)
<1>1. CASE holder # t
      BY <1>1 DEF Unwound, OnTrack
<1>2. CASE holder = t
      <2>1. <<"unlock">> \in Seq(Ended) /\ <<"unmap", "unlock">> \in Seq(Ended)
            BY DEF Ended, Calls, ContextCalls
      <2>2. OnTrack(<<"unlock">>, TRUE)
            BY DEF OnTrack
      <2>3. OnTrack(<<"unmap", "unlock">>, TRUE)
            <3>1. \A k \in 1 .. 1 : <<"unmap", "unlock">>[k] \notin LockCalls
                  BY DEF LockCalls
            <3>2. \A i \in 1 .. 2 : i - 1 \in 0 .. 1
                  OBVIOUS
            <3> QED
                BY <3>1, <3>2 DEF OnTrack
      <2> QED
          BY <1>2, <2>1, <2>2, <2>3 DEF Unwound
<1> QED
    BY <1>1, <1>2

-----------------------------------------------------------------------------
(* The inductive invariant.                                                 *)

Operations == {"none", "paint", "decode", "close"}

LockInv ==
    /\ rest \in [Threads -> Seq(Calls)] /\ rest[UI] \in Seq(Ended)
    /\ inside \in [Threads -> (Calls \ LockCalls) \cup {"none"}]
    /\ op \in [Threads -> Operations]
    /\ \A t \in Threads : op[t] = "none" => rest[t] = <<>> /\ inside[t] = "none"
    /\ holder \in Threads \cup {None}
    /\ \A t \in Threads : inside[t] # "none" => rest[t] # <<>> /\ inside[t] = Head(rest[t])
    /\ \A t \in Threads : OnTrack(rest[t], holder = t)

Decoders == {"none", "hardware", "software", "bare"}

RefsInv ==
    /\ decoder \in [Workers -> Decoders]
    /\ refs \in Int
    /\ RefsHeld

GpuInv == LockInv /\ RefsInv /\ CacheIsOfBackbuffer

LEMMA InitGpu == Init => GpuInv
<1> SUFFICES ASSUME Init PROVE GpuInv
    OBVIOUS
<1> USE DEF Init
<1>1. LockInv
      <2>1. <<>> \in Seq(Calls) /\ <<>> \in Seq(Ended) /\ OnTrack(<<>>, FALSE)
            BY DEF OnTrack
      <2>2. UI \in Threads /\ None \notin Threads /\ "none" \in Operations
            BY GpuConstants DEF Threads, Operations
      <2> QED
          BY <2>1, <2>2 DEF LockInv
<1>2. /\ Cardinality({w \in Workers : decoder[w] = "hardware"}) = 0
      /\ Cardinality({w \in Workers : decoder[w] = "bare"}) = 0
      <2>1. /\ {w \in Workers : decoder[w] = "hardware"} = {}
            /\ {w \in Workers : decoder[w] = "bare"} = {}
            OBVIOUS
      <2> QED
          BY <2>1, FS_EmptySet
<1>3. Cardinality(Workers) \in Nat
      BY GpuConstants, FS_CardinalityType
<1>4. RefsInv
      BY <1>2, <1>3 DEF RefsInv, RefsHeld, Decoders
<1> QED
    BY <1>1, <1>4 DEF GpuInv, CacheIsOfBackbuffer

(* An operation begins: its calls are guarded.                              *)
LEMMA StartLock ==
    ASSUME LockInv, NEW t \in Threads, NEW o \in Operations, o # "none",
           NEW calls \in Seq(Calls), Guarded(calls), t = UI => calls \in Seq(Ended),
           Start(t, o, calls)
    PROVE  LockInv'
<1>1. /\ rest' = [rest EXCEPT ![t] = calls] /\ op' = [op EXCEPT ![t] = o]
      /\ UNCHANGED <<inside, holder>> /\ inside[t] = "none"
      BY DEF Start, LockInv
<1>2. OnTrack(calls, holder = t)
      BY GuardedOnTrack
<1>3. UI \in Threads
      BY DEF Threads
<1> QED
    BY <1>1, <1>2, <1>3 DEF LockInv

(* What the lock invariant says does not depend on the other variables.     *)
LEMMA SameLock ==
    ASSUME LockInv, UNCHANGED threadVars
    PROVE  LockInv'
BY DEF LockInv, threadVars

(* A step of an operation in progress.                                      *)
LEMMA AdvanceLock ==
    ASSUME LockInv, NEW t \in Threads, Advance(t)
    PROVE  LockInv'
<1> DEFINE s == rest[t]
<1>1. s \in Seq(Calls) /\ OnTrack(s, holder = t) /\ UI \in Threads
      BY DEF LockInv, Threads
<1>2. t = UI => s \in Seq(Ended)
      BY DEF LockInv
<1>3. "none" \notin Calls /\ None \notin Threads
      BY GpuConstants DEF Calls, ContextCalls, Threads
<1>4. CASE Lock(t)
      <2>1. s # <<>> /\ Head(s) = "lock" /\ rest' = [rest EXCEPT ![t] = Tail(s)]
            /\ holder = None /\ holder' = t /\ UNCHANGED <<op, inside>> /\ inside[t] = "none"
            BY <1>4 DEF Lock, Next1
      <2>2. Tail(s) \in Seq(Calls) /\ OnTrack(Tail(s), holder' = t)
            BY <1>1, <2>1, TailOnTrack DEF LockCalls
      <2>3. t = UI => Tail(s) \in Seq(Ended)
            BY <1>2, <2>1
      <2>4. \A u \in Threads \ {t} : (holder' = u) = (holder = u)
            BY <1>3, <2>1
      <2>5. op[t] # "none"
            BY <2>1 DEF LockInv
      <2> HIDE DEF s
      <2> QED
          BY <2>1, <2>2, <2>3, <2>4, <2>5 DEF LockInv
<1>5. CASE Unlock(t)
      <2>1. s # <<>> /\ Head(s) = "unlock" /\ rest' = [rest EXCEPT ![t] = Tail(s)]
            /\ holder' = None /\ UNCHANGED <<op, inside>> /\ inside[t] = "none"
            BY <1>5 DEF Unlock, Next1
      <2>2. holder = t
            BY <1>1, <2>1, HeadHolds DEF NeedLock
      <2>3. Tail(s) \in Seq(Calls) /\ OnTrack(Tail(s), holder' = t)
            BY <1>1, <2>1, TailOnTrack DEF LockCalls
      <2>4. t = UI => Tail(s) \in Seq(Ended)
            BY <1>2, <2>1
      <2>5. \A u \in Threads \ {t} : (holder' = u) = (holder = u)
            BY <1>3, <2>1, <2>2
      <2>6. op[t] # "none"
            BY <2>1 DEF LockInv
      <2> HIDE DEF s
      <2> QED
          BY <2>1, <2>3, <2>4, <2>5, <2>6 DEF LockInv
<1>6. CASE Enter(t)
      <2>1. s # <<>> /\ Head(s) \in Calls \ LockCalls
            BY <1>1, <1>6 DEF Enter, Next1, LockCalls
      <2>2. inside' = [inside EXCEPT ![t] = Head(s)] /\ UNCHANGED <<op, rest, holder>>
            BY <1>6, <2>1 DEF Enter, Next1
      <2>3. op[t] # "none"
            BY <2>1 DEF LockInv
      <2> QED
          BY <2>1, <2>2, <2>3 DEF LockInv
<1>7. CASE Leave(t)
      <2>1. inside[t] # "none" /\ inside' = [inside EXCEPT ![t] = "none"]
            /\ rest' = [rest EXCEPT ![t] = Tail(s)] /\ UNCHANGED <<op, holder>>
            BY <1>7 DEF Leave
      <2>2. s # <<>> /\ Head(s) = inside[t]
            BY <2>1 DEF LockInv
      <2>3. inside[t] \notin LockCalls
            BY DEF LockInv, LockCalls
      <2>4. Tail(s) \in Seq(Calls) /\ OnTrack(Tail(s), holder' = t)
            BY <1>1, <2>1, <2>2, <2>3, TailOnTrack DEF LockCalls
      <2>5. t = UI => Tail(s) \in Seq(Ended)
            BY <1>2, <2>2
      <2>6. op[t] # "none"
            BY <2>1 DEF LockInv
      <2> HIDE DEF s
      <2> QED
          BY <2>1, <2>4, <2>5, <2>6 DEF LockInv
<1>8. CASE EndEarly(t)
      <2>1. inside[t] # "none" /\ inside' = [inside EXCEPT ![t] = "none"]
            /\ rest' = [rest EXCEPT ![t] = Unwound(t)] /\ UNCHANGED <<op, holder>>
            BY <1>8 DEF EndEarly
      <2>2. Unwound(t) \in Seq(Ended) /\ Unwound(t) \in Seq(Calls)
            /\ OnTrack(Unwound(t), holder = t)
            BY UnwoundOnTrack, EndedAreCalls
      <2>3. op[t] # "none"
            BY <2>1 DEF LockInv
      <2> QED
          BY <2>1, <2>2, <2>3 DEF LockInv
<1>9. CASE Return(t)
      <2>1. op' = [op EXCEPT ![t] = "none"] /\ UNCHANGED <<rest, inside, holder>>
            /\ rest[t] = <<>> /\ inside[t] = "none"
            BY <1>9 DEF Return
      <2>2. "none" \in Operations
            BY DEF Operations
      <2> QED
          BY <2>1, <2>2 DEF LockInv
<1> QED
    BY <1>4, <1>5, <1>6, <1>7, <1>8, <1>9 DEF Advance

(* Every step keeps the lock's invariant.                                   *)
LEMMA StepLock == LockInv /\ RefsInv /\ [Next]_vars => LockInv'
<1> SUFFICES ASSUME LockInv, RefsInv, [Next]_vars PROVE LockInv'
    OBVIOUS
<1>1. UI \in Threads /\ Workers \subseteq Threads /\ UI \notin Workers
      BY GpuConstants DEF Threads
<1>2. CASE Paint
      <2>1. ASSUME NEW o \in Operations \ {"none"}, NEW empty \in BOOLEAN,
                   NEW calls \in {ClearRenderTarget, RenderSubtitleOverlay, UpdateOverlay, Flush,
                                  RenderVideoSurface, RenderToneMapped(empty), Capture},
                   Start(UI, o, calls)
            PROVE  LockInv'
            <3>1. calls \in Seq(Ended) /\ Guarded(calls)
                  BY PaintGuarded
            <3> QED
                BY <1>1, <2>1, <3>1, EndedAreCalls, StartLock
      <2>2. "paint" \in Operations \ {"none"}
            BY DEF Operations
      <2> QED
          BY <1>2, <2>1, <2>2 DEF Paint
<1>3. CASE Resize
      BY <1>3, SameLock DEF Resize, threadVars
<1>4. ASSUME NEW w \in Workers, OpenHardware(w) \/ OpenSoftware(w)
      PROVE  LockInv'
      BY <1>4, SameLock DEF OpenHardware, OpenSoftware, threadVars
<1>5. ASSUME NEW w \in Workers, OpenHardwareFails(w)
      PROVE  LockInv'
      <2>1. CloseDecoder("hardware") \in Seq(Calls) /\ Guarded(CloseDecoder("hardware"))
            BY WorkGuarded
      <2>2. Start(w, "close", CloseDecoder("hardware")) /\ "close" \in Operations
            BY <1>5 DEF OpenHardwareFails, Operations
      <2> QED
          BY <1>1, <2>1, <2>2, StartLock
<1>6. ASSUME NEW w \in Workers, Work(w)
      PROVE  LockInv'
      <2>1. decoder[w] \in {"hardware", "software"}
            BY <1>6 DEF Work, RefsInv
      <2>2. ASSUME NEW o \in Operations \ {"none"},
                   NEW calls \in {SendPacket(decoder[w]), ReceiveFrame(decoder[w]),
                                  FlushCodec, CloseDecoder(decoder[w])},
                   Start(w, o, calls)
            PROVE  LockInv'
            <3>1. calls \in Seq(Calls) /\ Guarded(calls)
                  BY <2>1, WorkGuarded
            <3> QED
                BY <1>1, <2>2, <3>1, StartLock
      <2>3. {"decode", "close"} \subseteq Operations \ {"none"}
            BY DEF Operations
      <2> QED
          BY <1>6, <2>2, <2>3 DEF Work
<1>7. ASSUME NEW t \in Threads, Advance(t)
      PROVE  LockInv'
      BY <1>7, AdvanceLock
<1>8. CASE UNCHANGED vars
      BY <1>8, SameLock DEF vars, threadVars
<1> QED
    BY <1>2, <1>3, <1>4, <1>5, <1>6, <1>7, <1>8 DEF Next

-----------------------------------------------------------------------------
(* The references.                                                          *)

Hardware == {w \in Workers : decoder[w] = "hardware"}
Bare == {w \in Workers : decoder[w] = "bare"}

(* What the decoders hold of the device.                                    *)
Held == 2 * Cardinality(Hardware) + Cardinality(Bare)

LEMMA HeldIsCounted ==
    /\ IsFiniteSet(Hardware) /\ Cardinality(Hardware) \in Nat
    /\ IsFiniteSet(Bare) /\ Cardinality(Bare) \in Nat
    /\ Cardinality(Workers) \in Nat /\ Held \in Nat
<1>1. Hardware \subseteq Workers /\ Bare \subseteq Workers
      BY DEF Hardware, Bare
<1>2. IsFiniteSet(Hardware) /\ IsFiniteSet(Bare)
      BY <1>1, GpuConstants, FS_Subset
<1>3. /\ Cardinality(Hardware) \in Nat /\ Cardinality(Bare) \in Nat
      /\ Cardinality(Workers) \in Nat
      BY <1>2, GpuConstants, FS_CardinalityType
<1> QED
    BY <1>2, <1>3 DEF Held

(* The references add up when those of the decoders do.                     *)
LEMMA RefsOfHeld ==
    /\ RefsHeld <=> refs = 1 + Cardinality(Workers) + Held
    /\ RefsHeld' <=> refs' = 1 + Cardinality(Workers) + Held'
<1>1. 1 + Cardinality(Workers) + 2 * Cardinality(Hardware) + Cardinality(Bare)
          = 1 + Cardinality(Workers) + Held
      BY HeldIsCounted DEF Held
<1>2. /\ Cardinality(Hardware') \in Nat /\ Cardinality(Bare') \in Nat
      <2>1. IsFiniteSet(Hardware') /\ IsFiniteSet(Bare')
            <3>1. Hardware' \subseteq Workers /\ Bare' \subseteq Workers
                  BY DEF Hardware, Bare
            <3> QED
                BY <3>1, GpuConstants, FS_Subset
      <2> QED
          BY <2>1, FS_CardinalityType
<1>3. 1 + Cardinality(Workers) + 2 * Cardinality(Hardware') + Cardinality(Bare')
          = 1 + Cardinality(Workers) + Held'
      BY <1>2, HeldIsCounted DEF Held
<1> QED
    BY <1>1, <1>3 DEF RefsHeld, Hardware, Bare

(* A decoder of any kind is made: what it holds comes to what is held.      *)
LEMMA MakesDecoder ==
    ASSUME RefsInv, NEW w \in Workers, decoder[w] = "none", NEW made \in Decoders \ {"none"},
           decoder' = [decoder EXCEPT ![w] = made], refs' = refs + Holds(made)
    PROVE  RefsInv'
<1>1. refs = 1 + Cardinality(Workers) + Held /\ refs \in Int
      BY RefsOfHeld DEF RefsInv
<1>2. Held' = Held + Holds(made) /\ Holds(made) \in Nat
      <2>1. CASE made = "hardware"
            <3>1. Hardware' = Hardware \cup {w} /\ w \notin Hardware /\ Bare' = Bare
                  BY <2>1 DEF Hardware, Bare, RefsInv
            <3>2. Cardinality(Hardware') = Cardinality(Hardware) + 1
                  BY <3>1, HeldIsCounted, FS_AddElement
            <3>3. Held' = 2 * (Cardinality(Hardware) + 1) + Cardinality(Bare)
                  BY <3>1, <3>2 DEF Held
            <3> QED
                BY <2>1, <3>3, HeldIsCounted DEF Held, Holds, OwnedDevicePtr
      <2>2. CASE made = "bare"
            <3>1. Bare' = Bare \cup {w} /\ w \notin Bare /\ Hardware' = Hardware
                  BY <2>2 DEF Hardware, Bare, RefsInv
            <3>2. Cardinality(Bare') = Cardinality(Bare) + 1
                  BY <3>1, HeldIsCounted, FS_AddElement
            <3>3. Held' = 2 * Cardinality(Hardware) + (Cardinality(Bare) + 1)
                  BY <3>1, <3>2 DEF Held
            <3> QED
                BY <2>2, <3>3, HeldIsCounted DEF Held, Holds
      <2>3. CASE made = "software"
            <3>1. Bare' = Bare /\ Hardware' = Hardware
                  BY <2>3 DEF Hardware, Bare, RefsInv
            <3> QED
                BY <2>3, <3>1, HeldIsCounted DEF Held, Holds
      <2> QED
          BY <2>1, <2>2, <2>3 DEF Decoders
<1>3. refs' = 1 + Cardinality(Workers) + Held' /\ refs' \in Int
      BY <1>1, <1>2, HeldIsCounted
<1>4. decoder' \in [Workers -> Decoders]
      BY DEF RefsInv
<1> QED
    BY <1>3, <1>4, RefsOfHeld DEF RefsInv

(* A decoder is closed: as many go as it held.                              *)
LEMMA ClosesDecoder ==
    ASSUME RefsInv, NEW w \in Workers, decoder' = [decoder EXCEPT ![w] = "none"],
           refs' = refs - Holds(decoder[w])
    PROVE  RefsInv'
<1>1. refs = 1 + Cardinality(Workers) + Held /\ refs \in Int
      BY RefsOfHeld DEF RefsInv
<1>2. Held' = Held - Holds(decoder[w]) /\ Holds(decoder[w]) \in Nat
      <2>1. CASE decoder[w] = "hardware"
            <3>1. Hardware' = Hardware \ {w} /\ w \in Hardware /\ Bare' = Bare
                  BY <2>1 DEF Hardware, Bare, RefsInv
            <3>2. Cardinality(Hardware') = Cardinality(Hardware) - 1
                  BY <3>1, HeldIsCounted, FS_RemoveElement
            <3>3. Held' = 2 * (Cardinality(Hardware) - 1) + Cardinality(Bare)
                  BY <3>1, <3>2 DEF Held
            <3> QED
                BY <2>1, <3>3, HeldIsCounted DEF Held, Holds, OwnedDevicePtr
      <2>2. CASE decoder[w] = "bare"
            <3>1. Bare' = Bare \ {w} /\ w \in Bare /\ Hardware' = Hardware
                  BY <2>2 DEF Hardware, Bare, RefsInv
            <3>2. Cardinality(Bare') = Cardinality(Bare) - 1
                  BY <3>1, HeldIsCounted, FS_RemoveElement
            <3>3. Held' = 2 * Cardinality(Hardware) + (Cardinality(Bare) - 1)
                  BY <3>1, <3>2 DEF Held
            <3> QED
                BY <2>2, <3>3, HeldIsCounted DEF Held, Holds
      <2>3. CASE decoder[w] \notin {"hardware", "bare"}
            <3>1. Bare' = Bare /\ Hardware' = Hardware
                  BY <2>3 DEF Hardware, Bare, RefsInv
            <3> QED
                BY <2>3, <3>1, HeldIsCounted DEF Held, Holds
      <2> QED
          BY <2>1, <2>2, <2>3
<1>3. refs' = 1 + Cardinality(Workers) + Held' /\ refs' \in Int
      BY <1>1, <1>2, HeldIsCounted
<1>4. decoder' \in [Workers -> Decoders]
      BY DEF RefsInv, Decoders
<1> QED
    BY <1>3, <1>4, RefsOfHeld DEF RefsInv

(* Only a worker ever releases a device.                                    *)
LEMMA ReleaseIsWorkers ==
    ASSUME LockInv, NEW t \in Threads, inside[t] = "release"
    PROVE  t \in Workers
<1>1. rest[t] # <<>> /\ Head(rest[t]) = "release"
      BY DEF LockInv
<1>2. t # UI
      BY <1>1 DEF LockInv, Ended
<1> QED
    BY <1>2 DEF Threads

(* Every step keeps the count.                                              *)
LEMMA StepRefs == LockInv /\ RefsInv /\ [Next]_vars => RefsInv'
<1> SUFFICES ASSUME LockInv, RefsInv, [Next]_vars PROVE RefsInv'
    OBVIOUS
<1>1. ASSUME UNCHANGED <<decoder, refs>> PROVE RefsInv'
      BY <1>1 DEF RefsInv, RefsHeld
<1>2. CASE Paint \/ Resize \/ UNCHANGED vars
      BY <1>1, <1>2 DEF Paint, Resize, vars
<1>3. ASSUME NEW w \in Workers, OpenHardware(w) \/ OpenHardwareFails(w) PROVE RefsInv'
      <2>1. /\ decoder[w] = "none"
            /\ \E made \in {"bare", "hardware"} :
                  decoder' = [decoder EXCEPT ![w] = made] /\ refs' = refs + Holds(made)
            BY <1>3 DEF OpenHardware, OpenHardwareFails
      <2> QED
          BY <2>1, MakesDecoder DEF Decoders
<1>4. ASSUME NEW w \in Workers, OpenSoftware(w) PROVE RefsInv'
      <2>1. decoder[w] = "none" /\ decoder' = [decoder EXCEPT ![w] = "software"] /\ refs' = refs
            BY <1>4 DEF OpenSoftware
      <2>2. refs' = refs + Holds("software")
            BY <2>1 DEF Holds, RefsInv
      <2> QED
          BY <2>1, <2>2, MakesDecoder DEF Decoders
<1>5. ASSUME NEW w \in Workers, Work(w) PROVE RefsInv'
      BY <1>1, <1>5 DEF Work
<1>6. ASSUME NEW t \in Threads, Advance(t) PROVE RefsInv'
      <2>1. CASE Leave(t) /\ inside[t] = "release"
            BY <2>1, ReleaseIsWorkers, ClosesDecoder DEF Leave
      <2>2. CASE Leave(t) /\ inside[t] # "release"
            BY <1>1, <2>2 DEF Leave
      <2>3. CASE ~Leave(t)
            BY <1>1, <1>6, <2>3 DEF Advance, Lock, Unlock, Enter, EndEarly, Return
      <2> QED
          BY <2>1, <2>2, <2>3
<1> QED
    BY <1>2, <1>3, <1>4, <1>5, <1>6 DEF Next

(* The cached processor is of the back buffer at hand, or there is none.    *)
LEMMA StepCache == CacheIsOfBackbuffer /\ [Next]_vars => CacheIsOfBackbuffer'
<1> SUFFICES ASSUME CacheIsOfBackbuffer, [Next]_vars PROVE CacheIsOfBackbuffer'
    OBVIOUS
<1>1. CASE Resize
      BY <1>1 DEF Resize, Dropped, CacheIsOfBackbuffer
<1>2. ASSUME NEW t \in Threads, Leave(t) PROVE CacheIsOfBackbuffer'
      BY <1>2 DEF Leave, Processor, CacheIsOfBackbuffer
<1>3. ASSUME UNCHANGED <<cache, backbuffer>> PROVE CacheIsOfBackbuffer'
      BY <1>3 DEF CacheIsOfBackbuffer
<1> QED
    BY <1>1, <1>2, <1>3
       DEF Next, Paint, OpenHardware, OpenHardwareFails, OpenSoftware, Work, Start, Advance,
           Lock, Unlock, Enter, EndEarly, Return, vars

-----------------------------------------------------------------------------
(* How an operation leaves the context.                                     *)

Situations == {"out", "held", "mapped", "bound"}

\* Where a thread stands with the lock and what is set under it.
Situation(t) ==
    IF holder # t THEN "out" ELSE IF mapped THEN "mapped" ELSE IF bound THEN "bound" ELSE "held"

\* From k a call may be made that leads to l.
Follows(k, call, l) ==
    \/ call = "lock" /\ k = "out" /\ l = "held"
    \/ call = "unlock" /\ k = "held" /\ l = "out"
    \/ call = "map" /\ k = "held" /\ l = "mapped"
    \/ call = "unmap" /\ k = "mapped" /\ l = "held"
    \/ call = "bind" /\ k = "held" /\ l = "bound"
    \/ call = "unbind" /\ k = "bound" /\ l = "held"
    \/ call = "context" /\ l = k
    \/ call \notin (ContextCalls \cup LockCalls) /\ k # "bound" /\ l = k

\* These calls lead from k to l.
Path(s, k, l) ==
    \E f \in [1 .. (Len(s) + 1) -> Situations] :
        /\ f[1] = k /\ f[Len(s) + 1] = l
        /\ \A i \in 1 .. Len(s) : Follows(f[i], s[i], f[i + 1])

(* No call leads nowhere.                                                   *)
LEMMA PathOfNone ==
    ASSUME NEW k \in Situations, NEW l
    PROVE  Path(<<>>, k, l) <=> k = l
<1>1. Len(<<>>) = 0
      OBVIOUS
<1>2. ASSUME Path(<<>>, k, l) PROVE k = l
      BY <1>1, <1>2 DEF Path
<1>3. ASSUME k = l PROVE Path(<<>>, k, l)
      <2> DEFINE f == [i \in 1 .. 1 |-> k]
      <2>1. f \in [1 .. 1 -> Situations] /\ f[1] = k
            OBVIOUS
      <2> HIDE DEF f
      <2>2. \A i \in 1 .. 0 : Follows(f[i], <<>>[i], f[i + 1])
            OBVIOUS
      <2>3. Len(<<>>) + 1 = 1
            BY <1>1
      <2> QED
          BY <1>1, <1>3, <2>1, <2>2, <2>3 DEF Path
<1> QED
    BY <1>2, <1>3

(* One call leads where it does.                                            *)
LEMMA PathOfOne ==
    ASSUME NEW k \in Situations, NEW l \in Situations, NEW c, Follows(k, c, l)
    PROVE  Path(<<c>>, k, l)
<1> DEFINE s == <<c>>
           f == [i \in 1 .. 2 |-> IF i = 1 THEN k ELSE l]
<1>1. Len(s) = 1 /\ s[1] = c
      OBVIOUS
<1>2. f \in [1 .. 2 -> Situations] /\ f[1] = k /\ f[2] = l
      OBVIOUS
<1> HIDE DEF s, f
<1>3. \A i \in 1 .. 1 : i = 1
      OBVIOUS
<1>4. \A i \in 1 .. Len(s) : Follows(f[i], s[i], f[i + 1])
      BY <1>1, <1>2, <1>3
<1>5. Path(s, k, l)
      BY <1>1, <1>2, <1>4 DEF Path
<1> QED
    BY <1>5 DEF s

(* One path after another.                                                  *)
LEMMA PathJoins ==
    ASSUME NEW a \in Seq(Calls), NEW b \in Seq(Calls), NEW k, NEW l, NEW m,
           Path(a, k, l), Path(b, l, m)
    PROVE  Path(a \o b, k, m)
<1> DEFINE s == a \o b
           n == Len(a)
<1>1. Len(s) = n + Len(b) /\ n \in Nat /\ Len(b) \in Nat
      OBVIOUS
<1>2. /\ \A i \in 1 .. n : s[i] = a[i]
      /\ \A i \in (n + 1) .. Len(s) : s[i] = b[i - n]
      OBVIOUS
<1> HIDE DEF s, n
<1>3. PICK f \in [1 .. (n + 1) -> Situations] :
          f[1] = k /\ f[n + 1] = l /\ \A i \in 1 .. n : Follows(f[i], a[i], f[i + 1])
      BY DEF Path, n
<1>4. PICK g \in [1 .. (Len(b) + 1) -> Situations] :
          /\ g[1] = l /\ g[Len(b) + 1] = m
          /\ \A i \in 1 .. Len(b) : Follows(g[i], b[i], g[i + 1])
      BY DEF Path
<1> DEFINE h == [i \in 1 .. (Len(s) + 1) |-> IF i <= n + 1 THEN f[i] ELSE g[i - n]]
<1>5. h \in [1 .. (Len(s) + 1) -> Situations]
      <2>1. ASSUME NEW i \in 1 .. (Len(s) + 1), i <= n + 1 PROVE f[i] \in Situations
            BY <1>1, <1>3, <2>1
      <2>2. ASSUME NEW i \in 1 .. (Len(s) + 1), ~(i <= n + 1) PROVE g[i - n] \in Situations
            <3>1. i - n \in 1 .. (Len(b) + 1)
                  BY <1>1, <2>2
            <3> QED
                BY <1>4, <3>1
      <2> QED
          BY <2>1, <2>2
<1>6. /\ \A i \in 1 .. (n + 1) : h[i] = f[i]
      /\ \A i \in (n + 1) .. (Len(s) + 1) : h[i] = g[i - n]
      BY <1>1, <1>3, <1>4
<1> HIDE DEF h
<1>7. h[1] = k /\ h[Len(s) + 1] = m
      <2>1. 1 \in 1 .. (n + 1) /\ Len(s) + 1 \in (n + 1) .. (Len(s) + 1)
            /\ Len(s) + 1 - n = Len(b) + 1
            BY <1>1
      <2>2. h[1] = f[1] /\ h[Len(s) + 1] = g[Len(s) + 1 - n]
            BY <1>1, <1>6, <2>1
      <2>3. g[Len(s) + 1 - n] = g[Len(b) + 1]
            BY <2>1
      <2> QED
          BY <1>3, <1>4, <2>2, <2>3
<1>8. ASSUME NEW i \in 1 .. Len(s) PROVE Follows(h[i], s[i], h[i + 1])
      <2>1. CASE i <= n
            <3>1. i \in 1 .. n /\ i \in 1 .. (n + 1) /\ i + 1 \in 1 .. (n + 1)
                  BY <1>1, <2>1
            <3> QED
                BY <1>2, <1>3, <1>6, <3>1
      <2>2. CASE i > n
            <3>1. /\ i - n \in 1 .. Len(b) /\ i \in (n + 1) .. Len(s)
                  /\ i \in (n + 1) .. (Len(s) + 1) /\ i + 1 \in (n + 1) .. (Len(s) + 1)
                  /\ i + 1 - n = i - n + 1
                  BY <1>1, <2>2
            <3>2. h[i] = g[i - n] /\ s[i] = b[i - n] /\ h[i + 1] = g[i + 1 - n]
                  BY <1>1, <1>2, <1>6, <3>1
            <3>3. g[i + 1 - n] = g[i - n + 1]
                  BY <3>1
            <3> QED
                BY <1>4, <3>1, <3>2, <3>3
      <2> QED
          BY <1>1, <2>1, <2>2
<1>9. Path(s, k, m)
      BY <1>5, <1>7, <1>8 DEF Path
<1> QED
    BY <1>9 DEF s

(* A path goes on after its first call.                                     *)
LEMMA PathGoesOn ==
    ASSUME NEW s \in Seq(Calls), s # <<>>, NEW k, NEW m, Path(s, k, m)
    PROVE  \E l \in Situations : Follows(k, Head(s), l) /\ Path(Tail(s), l, m)
<1> DEFINE r == Tail(s)
<1>1. Len(s) = Len(r) + 1 /\ Len(r) \in Nat /\ Head(s) = s[1]
      OBVIOUS
<1>2. \A i \in 1 .. Len(r) : r[i] = s[i + 1]
      OBVIOUS
<1>3. PICK f \in [1 .. (Len(s) + 1) -> Situations] :
          /\ f[1] = k /\ f[Len(s) + 1] = m
          /\ \A i \in 1 .. Len(s) : Follows(f[i], s[i], f[i + 1])
      BY DEF Path
<1> HIDE DEF r
<1> DEFINE g == [i \in 1 .. (Len(r) + 1) |-> f[i + 1]]
<1>4. \A i \in 1 .. (Len(r) + 1) : i + 1 \in 1 .. (Len(s) + 1)
      BY <1>1
<1>5. g \in [1 .. (Len(r) + 1) -> Situations] /\ \A i \in 1 .. (Len(r) + 1) : g[i] = f[i + 1]
      BY <1>3, <1>4
<1> HIDE DEF g
<1>6. g[1] = f[2] /\ g[Len(r) + 1] = m /\ f[2] \in Situations
      <2>1. 1 \in 1 .. (Len(r) + 1) /\ Len(r) + 1 \in 1 .. (Len(r) + 1)
            /\ 1 + 1 = 2 /\ Len(r) + 1 + 1 = Len(s) + 1
            BY <1>1
      <2> QED
          BY <1>3, <1>4, <1>5, <2>1
<1>7. ASSUME NEW i \in 1 .. Len(r) PROVE Follows(g[i], r[i], g[i + 1])
      <2>1. i \in 1 .. (Len(r) + 1) /\ i + 1 \in 1 .. (Len(r) + 1) /\ i + 1 \in 1 .. Len(s)
            BY <1>1
      <2>2. g[i] = f[i + 1] /\ g[i + 1] = f[i + 1 + 1] /\ r[i] = s[i + 1]
            BY <1>2, <1>5, <2>1
      <2> QED
          BY <1>3, <2>1, <2>2
<1>8. Path(r, f[2], m)
      BY <1>5, <1>6, <1>7 DEF Path
<1>9. Follows(k, Head(s), f[2])
      <2>1. 1 \in 1 .. Len(s) /\ 1 + 1 = 2
            BY <1>1
      <2> QED
          BY <1>1, <1>3, <2>1
<1> QED
    BY <1>6, <1>8, <1>9 DEF r

(* Calls after calls, and their number.                                     *)
LEMMA JoinedCalls ==
    ASSUME NEW a \in Seq(Calls), NEW b \in Seq(Calls)
    PROVE  /\ a \o b \in Seq(Calls) /\ Len(a \o b) = Len(a) + Len(b)
           /\ \A i \in 1 .. Len(a) + Len(b) :
                  (a \o b)[i] = IF i <= Len(a) THEN a[i] ELSE b[i - Len(a)]
BY ConcatProperties

(* A path with one call more.                                               *)
LEMMA PathGrows ==
    ASSUME NEW s \in Seq(Calls), NEW t \in Seq(Calls), NEW k, NEW l \in Situations,
           NEW m \in Situations, Path(s, k, l), Len(t) = Len(s) + 1,
           \A i \in 1 .. Len(s) : t[i] = s[i], Follows(l, t[Len(t)], m)
    PROVE  Path(t, k, m)
<1> DEFINE c == t[Len(t)]
           u == s \o <<c>>
<1>1. Len(s) \in Nat /\ Len(t) \in 1 .. Len(t)
      OBVIOUS
<1>2. c \in Calls
      BY <1>1, ElementOfSeq
<1>3. Path(<<c>>, l, m) /\ <<c>> \in Seq(Calls)
      BY <1>2, PathOfOne
<1>4. Path(u, k, m)
      BY <1>3, PathJoins
<1>5. u \in Seq(Calls) /\ Len(u) = Len(t)
      BY <1>2
<1>6. \A i \in 1 .. Len(t) : u[i] = t[i]
      <2>1. ASSUME NEW i \in 1 .. Len(s) PROVE u[i] = t[i]
            OBVIOUS
      <2>2. u[Len(t)] = t[Len(t)]
            BY <1>1
      <2>3. \A i \in 1 .. Len(t) : i \in 1 .. Len(s) \/ i = Len(t)
            BY <1>1
      <2> QED
          BY <2>1, <2>2, <2>3
<1> HIDE DEF u
<1>7. u = t
      BY <1>5, <1>6, SeqEqual
<1> QED
    BY <1>4, <1>7

(* What an operation does under the lock leaves nothing behind, if it leads *)
(* from the lock held back to it.                                           *)
LEMMA LockedPath ==
    ASSUME NEW calls \in Seq(Calls), Path(calls, "held", "held")
    PROVE  Path(Locked(calls), "out", "out") /\ Len(Locked(calls)) = Len(calls) + 2
<1>1. Path(<<"lock">>, "out", "held") /\ Path(<<"unlock">>, "held", "out")
      BY PathOfOne DEF Follows, Situations
<1>2. <<"lock">> \in Seq(Calls) /\ <<"unlock">> \in Seq(Calls)
      BY DEF Calls
<1>3. Path(<<"lock">> \o calls, "out", "held")
      BY <1>1, <1>2, PathJoins
<1>4. <<"lock">> \o calls \in Seq(Calls)
      BY <1>2
<1>5. Path((<<"lock">> \o calls) \o <<"unlock">>, "out", "out")
      BY <1>1, <1>2, <1>3, <1>4, PathJoins
<1>6. Locked(calls) = (<<"lock">> \o calls) \o <<"unlock">>
      BY DEF Locked
<1>7. Len(Locked(calls)) = Len(calls) + 2
      BY DEF Locked
<1> QED
    BY <1>5, <1>6, <1>7

(* A call that neither locks nor sets anything leaves the thread where it   *)
(* is.                                                                      *)
LEMMA PathOfPlain ==
    ASSUME NEW k \in {"out", "held", "mapped"},
           NEW c \in {"context", "processor", "create", "video", "decode", "read", "release"}
    PROVE  Path(<<c>>, k, k) /\ <<c>> \in Seq(Calls)
<1>1. Follows(k, c, k) /\ k \in Situations
      BY DEF Follows, Situations, ContextCalls, LockCalls
<1>2. c \in Calls
      BY DEF Calls, ContextCalls
<1> QED
    BY <1>1, <1>2, PathOfOne

(* Two calls in a row.                                                      *)
LEMMA PathOfTwo ==
    ASSUME NEW k \in Situations, NEW l \in Situations, NEW m \in Situations,
           NEW c \in Calls, NEW d \in Calls, Follows(k, c, l), Follows(l, d, m)
    PROVE  Path(<<c, d>>, k, m) /\ <<c, d>> \in Seq(Calls)
<1>1. Path(<<c>>, k, l) /\ <<c>> \in Seq(Calls) /\ <<c, d>> \in Seq(Calls)
      BY PathOfOne
<1>2. Len(<<c, d>>) = Len(<<c>>) + 1 /\ <<c, d>>[Len(<<c, d>>)] = d
      /\ \A i \in 1 .. Len(<<c>>) : <<c, d>>[i] = <<c>>[i]
      OBVIOUS
<1>3. Path(<<c, d>>, k, m)
      BY <1>1, <1>2, PathGrows
<1> QED
    BY <1>1, <1>3

(* Three calls in a row.                                                    *)
LEMMA PathOfThree ==
    ASSUME NEW k \in Situations, NEW l \in Situations, NEW m \in Situations,
           NEW n \in Situations, NEW c \in Calls, NEW d \in Calls, NEW e \in Calls,
           Follows(k, c, l), Follows(l, d, m), Follows(m, e, n)
    PROVE  Path(<<c, d, e>>, k, n) /\ <<c, d, e>> \in Seq(Calls)
<1>1. Path(<<c, d>>, k, m) /\ <<c, d>> \in Seq(Calls) /\ <<c, d, e>> \in Seq(Calls)
      BY PathOfTwo
<1>2. Len(<<c, d, e>>) = Len(<<c, d>>) + 1 /\ <<c, d, e>>[Len(<<c, d, e>>)] = e
      /\ \A i \in 1 .. Len(<<c, d>>) : <<c, d, e>>[i] = <<c, d>>[i]
      OBVIOUS
<1>3. Path(<<c, d, e>>, k, n)
      BY <1>1, <1>2, PathGrows
<1> QED
    BY <1>1, <1>3

(* Every operation of the UI thread gives back what it took, and is short.  *)
LEMMA PaintTidy ==
    ASSUME NEW empty \in BOOLEAN
    PROVE  \A calls \in {ClearRenderTarget, RenderSubtitleOverlay, UpdateOverlay, Flush,
                         RenderVideoSurface, RenderToneMapped(empty), Capture} :
               Path(calls, "out", "out") /\ Len(calls) <= 10
<1>1. Path(<<"context">>, "out", "out") /\ Len(<<"context">>) <= 10
      BY PathOfPlain
<1>2. Path(RenderVideoSurface, "out", "out") /\ Len(RenderVideoSurface) <= 10
      <2>1. /\ Path(<<"processor", "create">>, "out", "out")
            /\ <<"processor", "create">> \in Seq(Calls)
            BY PathOfTwo DEF Follows, Situations, Calls, ContextCalls, LockCalls
      <2>2. Path(<<"video">>, "held", "held") /\ <<"video">> \in Seq(Calls)
            BY PathOfPlain
      <2>3. /\ Path(Locked(<<"video">>), "out", "out")
            /\ Len(Locked(<<"video">>)) = Len(<<"video">>) + 2
            BY <2>2, LockedPath
      <2>4. Locked(<<"video">>) \in Seq(Calls)
            BY <2>2 DEF Locked, Calls
      <2>5. Path(<<"processor", "create">> \o Locked(<<"video">>), "out", "out")
            BY <2>1, <2>3, <2>4, PathJoins
      <2>6. Len(RenderVideoSurface) = 5
            <3>1. Len(<<"processor", "create">>) = 2 /\ Len(<<"video">>) = 1
                  OBVIOUS
            <3>2. Len(Locked(<<"video">>)) = 3
                  BY <2>3, <3>1
            <3>3. RenderVideoSurface = <<"processor", "create">> \o Locked(<<"video">>)
                  BY DEF RenderVideoSurface
            <3>4. Len(<<"processor", "create">> \o Locked(<<"video">>))
                      = Len(<<"processor", "create">>) + Len(Locked(<<"video">>))
                  BY <2>1, <2>4, JoinedCalls
            <3> QED
                BY <3>1, <3>2, <3>3, <3>4
      <2> QED
          BY <2>5, <2>6 DEF RenderVideoSurface
<1>3. Path(RenderToneMapped(empty), "out", "out") /\ Len(RenderToneMapped(empty)) <= 10
      <2> DEFINE e == IF empty THEN <<>> ELSE <<"bind", "context", "unbind">>
                 a == <<"map", "unmap", "map", "unmap", "context">>
      <2>1. Path(e, "held", "held") /\ e \in Seq(Calls) /\ Len(e) <= 3
            <3>1. CASE empty
                  BY <3>1, PathOfNone DEF Situations
            <3>2. CASE ~empty
                  <4>1. /\ Path(<<"bind", "context", "unbind">>, "held", "held")
                        /\ <<"bind", "context", "unbind">> \in Seq(Calls)
                        <5>1. /\ Follows("held", "bind", "bound")
                              /\ Follows("bound", "context", "bound")
                              /\ Follows("bound", "unbind", "held")
                              BY DEF Follows
                        <5>2. /\ {"held", "bound"} \subseteq Situations
                              /\ {"bind", "context", "unbind"} \subseteq Calls
                              BY DEF Situations, Calls, ContextCalls
                        <5> QED
                            BY <5>1, <5>2, PathOfThree
                  <4>2. e = <<"bind", "context", "unbind">>
                        BY <3>2
                  <4>3. Len(<<"bind", "context", "unbind">>) = 3
                        OBVIOUS
                  <4> HIDE DEF e
                  <4> QED
                      BY <4>1, <4>2, <4>3
            <3> QED
                BY <3>1, <3>2
      <2>2. Len(a) = 5 /\ a \in Seq(Calls)
            BY DEF Calls, ContextCalls
      <2>3. Path(<<"map", "unmap", "map">>, "held", "mapped")
            /\ <<"map", "unmap", "map">> \in Seq(Calls)
            <3>1. Follows("held", "map", "mapped") /\ Follows("mapped", "unmap", "held")
                  BY DEF Follows
            <3>2. {"held", "mapped"} \subseteq Situations /\ {"map", "unmap"} \subseteq Calls
                  BY DEF Situations, Calls, ContextCalls
            <3> QED
                BY <3>1, <3>2, PathOfThree
      <2>4. Path(<<"map", "unmap", "map", "unmap">>, "held", "held")
            /\ <<"map", "unmap", "map", "unmap">> \in Seq(Calls)
            <3> DEFINE s == <<"map", "unmap", "map">>
                       u == <<"map", "unmap", "map", "unmap">>
            <3>1. u \in Seq(Calls) /\ Len(u) = Len(s) + 1 /\ u[Len(u)] = "unmap"
                  /\ \A i \in 1 .. Len(s) : u[i] = s[i]
                  BY DEF Calls, ContextCalls
            <3>2. Follows("mapped", "unmap", "held") /\ {"mapped", "held"} \subseteq Situations
                  BY DEF Follows, Situations
            <3>3. s \in Seq(Calls) /\ Path(s, "held", "mapped")
                  BY <2>3
            <3> HIDE DEF s, u
            <3>4. u \in Seq(Calls) /\ Path(u, "held", "held")
                  BY <3>1, <3>2, <3>3, PathGrows
            <3> QED
                BY <3>4 DEF u
      <2>5. Path(a, "held", "held")
            <3> DEFINE s == <<"map", "unmap", "map", "unmap">>
            <3>1. a \in Seq(Calls) /\ Len(a) = Len(s) + 1 /\ a[Len(a)] = "context"
                  /\ \A i \in 1 .. Len(s) : a[i] = s[i]
                  BY DEF Calls, ContextCalls
            <3>2. Follows("held", "context", "held") /\ "held" \in Situations
                  BY DEF Follows, Situations
            <3>3. s \in Seq(Calls) /\ Path(s, "held", "held")
                  BY <2>4
            <3> HIDE DEF s, a
            <3> QED
                BY <3>1, <3>2, <3>3, PathGrows
      <2> HIDE DEF e, a
      <2>6. Path(a \o e, "held", "held") /\ a \o e \in Seq(Calls) /\ Len(a \o e) = Len(a) + Len(e)
            <3>1. Path(a \o e, "held", "held")
                  BY <2>1, <2>2, <2>5, PathJoins
            <3>2. a \o e \in Seq(Calls) /\ Len(a \o e) = Len(a) + Len(e)
                  BY <2>1, <2>2, JoinedCalls
            <3> QED
                BY <3>1, <3>2
      <2>7. Path(Locked(a \o e), "out", "out") /\ Len(Locked(a \o e)) = Len(a \o e) + 2
            BY <2>6, LockedPath
      <2>8. Len(e) \in Nat
            BY <2>1
      <2>9. Len(Locked(a \o e)) <= 10
            BY <2>1, <2>2, <2>6, <2>7, <2>8
      <2> QED
          BY <2>7, <2>9 DEF RenderToneMapped, a, e
<1>4. Path(Capture, "out", "out") /\ Len(Capture) <= 10
      <2> DEFINE s == <<"context", "map", "read">>
                 u == <<"context", "map", "read", "unmap">>
      <2>1. Follows("held", "context", "held") /\ Follows("held", "map", "mapped")
            /\ Follows("mapped", "read", "mapped") /\ Follows("mapped", "unmap", "held")
            BY DEF Follows, ContextCalls, LockCalls
      <2>2. {"held", "mapped"} \subseteq Situations
            /\ {"context", "map", "read", "unmap"} \subseteq Calls
            BY DEF Situations, Calls, ContextCalls
      <2>3. Path(s, "held", "mapped") /\ s \in Seq(Calls)
            BY <2>1, <2>2, PathOfThree
      <2>4. u \in Seq(Calls) /\ Len(u) = Len(s) + 1 /\ Len(u) = 4 /\ u[Len(u)] = "unmap"
            /\ \A i \in 1 .. Len(s) : u[i] = s[i]
            BY <2>2
      <2>5. Capture = Locked(u)
            BY DEF Capture
      <2> HIDE DEF s, u
      <2>6. Path(u, "held", "held")
            BY <2>1, <2>2, <2>3, <2>4, PathGrows
      <2>7. Path(Locked(u), "out", "out") /\ Len(Locked(u)) = Len(u) + 2
            BY <2>4, <2>6, LockedPath
      <2> QED
          BY <2>4, <2>5, <2>7
<1> QED
    BY <1>1, <1>2, <1>3, <1>4
       DEF ClearRenderTarget, RenderSubtitleOverlay, UpdateOverlay, Flush

(* So does every operation of a worker.                                     *)
LEMMA WorkTidy ==
    ASSUME NEW mode \in {"hardware", "software"}
    PROVE  \A calls \in {SendPacket(mode), ReceiveFrame(mode), FlushCodec, CloseDecoder(mode)} :
               Path(calls, "out", "out") /\ Len(calls) <= 10
<1>1. /\ Path(<<"decode">>, "out", "out") /\ <<"decode">> \in Seq(Calls)
      /\ Path(<<"release">>, "out", "out") /\ <<"release">> \in Seq(Calls)
      /\ Path(<<"video">>, "held", "held") /\ <<"video">> \in Seq(Calls)
      /\ Path(<<"context">>, "held", "held") /\ <<"context">> \in Seq(Calls)
      /\ Len(<<"decode">>) = 1 /\ Len(<<"release">>) = 1
      /\ Len(<<"video">>) = 1 /\ Len(<<"context">>) = 1
      BY PathOfPlain
<1>2. /\ Path(Locked(<<"video">>), "out", "out") /\ Len(Locked(<<"video">>)) = 3
      /\ Path(UploadSurface, "out", "out") /\ Len(UploadSurface) = 3
      <2>1. \A c \in {"video", "context"} :
                Path(Locked(<<c>>), "out", "out") /\ Len(Locked(<<c>>)) = 1 + 2
            <3>1. ASSUME NEW c \in {"video", "context"}
                  PROVE  /\ Path(<<c>>, "held", "held") /\ <<c>> \in Seq(Calls)
                         /\ Len(<<c>>) = 1
                  BY PathOfPlain
            <3> QED
                BY <3>1, LockedPath
      <2> QED
          BY <2>1 DEF UploadSurface
<1>3. Locked(<<"video">>) \in Seq(Calls) /\ UploadSurface \in Seq(Calls)
      BY DEF Locked, UploadSurface, Calls, ContextCalls
<1>4. Path(SendPacket(mode), "out", "out") /\ Len(SendPacket(mode)) <= 10
      <2>1. CASE mode = "hardware"
            <3>1. SendPacket(mode) = Locked(<<"video">>)
                  BY <2>1 DEF SendPacket
            <3>2. Len(SendPacket(mode)) <= 10
                  BY <1>2, <3>1
            <3> QED
                BY <1>2, <3>1, <3>2
      <2>2. CASE mode # "hardware"
            BY <1>1, <2>2 DEF SendPacket
      <2> QED
          BY <2>1, <2>2
<1>5. Path(ReceiveFrame(mode), "out", "out") /\ Len(ReceiveFrame(mode)) <= 10
      <2>1. CASE mode = "hardware"
            <3> DEFINE u == <<"video">> \o SurfaceFromRawTexture
            <3>1. u \in Seq(Calls) /\ Len(u) = 3 /\ u = <<"video", "create", "context">>
                  <4>1. /\ SurfaceFromRawTexture \in Seq(Calls) /\ Len(SurfaceFromRawTexture) = 2
                        /\ SurfaceFromRawTexture[1] = "create"
                        /\ SurfaceFromRawTexture[2] = "context"
                        BY DEF SurfaceFromRawTexture, Calls, ContextCalls
                  <4>2. <<"video", "create", "context">> \in Seq(Calls)
                        /\ Len(<<"video", "create", "context">>) = 3
                        BY DEF Calls, ContextCalls
                  <4>3. /\ u \in Seq(Calls)
                        /\ Len(u) = Len(<<"video">>) + Len(SurfaceFromRawTexture)
                        /\ \A i \in 1 .. Len(<<"video">>) + Len(SurfaceFromRawTexture) :
                               u[i] = IF i <= Len(<<"video">>) THEN <<"video">>[i]
                                      ELSE SurfaceFromRawTexture[i - Len(<<"video">>)]
                        <5>1. <<"video">> \in Seq(Calls) /\ SurfaceFromRawTexture \in Seq(Calls)
                              BY <1>1, <4>1
                        <5> QED
                            BY <5>1, JoinedCalls
                  <4> HIDE DEF u
                  <4>4. ASSUME NEW i \in 1 .. 3 PROVE u[i] = <<"video", "create", "context">>[i]
                        <5>1. u[i] = IF i <= 1 THEN <<"video">>[i] ELSE SurfaceFromRawTexture[i - 1]
                              BY <1>1, <4>1, <4>3
                        <5>2. i = 1 \/ (i = 2 /\ i - 1 = 1) \/ (i = 3 /\ i - 1 = 2)
                              OBVIOUS
                        <5> QED
                            BY <4>1, <5>1, <5>2
                  <4>5. Len(u) = 3
                        BY <1>1, <4>1, <4>3
                  <4> QED
                      BY <4>2, <4>3, <4>4, <4>5, SeqEqual
            <3>2. Path(<<"video", "create", "context">>, "held", "held")
                  <4>1. \A c \in {"video", "create", "context"} : Follows("held", c, "held")
                        BY DEF Follows, ContextCalls, LockCalls
                  <4>2. "held" \in Situations /\ {"video", "create", "context"} \subseteq Calls
                        BY DEF Situations, Calls, ContextCalls
                  <4> QED
                      BY <4>1, <4>2, PathOfThree
            <3>3. ReceiveFrame(mode) = Locked(u)
                  BY <2>1 DEF ReceiveFrame
            <3> HIDE DEF u
            <3>4. Path(Locked(u), "out", "out") /\ Len(Locked(u)) = Len(u) + 2
                  BY <3>1, <3>2, LockedPath
            <3>5. Len(ReceiveFrame(mode)) <= 10
                  <4>1. Len(u) = 3
                        BY <3>1
                  <4>2. Len(ReceiveFrame(mode)) = Len(u) + 2
                        BY <3>3, <3>4
                  <4> QED
                      BY <4>1, <4>2
            <3> QED
                BY <3>3, <3>4, <3>5
      <2>2. CASE mode # "hardware"
            <3>1. Path(<<"decode">> \o UploadSurface, "out", "out")
                  BY <1>1, <1>2, <1>3, PathJoins
            <3>2. Len(<<"decode">> \o UploadSurface) = Len(<<"decode">>) + Len(UploadSurface)
                  BY <1>1, <1>3, JoinedCalls
            <3> QED
                BY <1>1, <1>2, <2>2, <3>1, <3>2 DEF ReceiveFrame
      <2> QED
          BY <2>1, <2>2
<1>6. Path(CloseDecoder(mode), "out", "out") /\ Len(CloseDecoder(mode)) <= 10
      <2>1. CASE mode = "hardware"
            <3>1. Path(Locked(<<"video">>) \o <<"release">>, "out", "out")
                  BY <1>1, <1>2, <1>3, PathJoins
            <3>2. Len(Locked(<<"video">>) \o <<"release">>)
                      = Len(Locked(<<"video">>)) + Len(<<"release">>)
                  BY <1>1, <1>3, JoinedCalls
            <3>3. CloseDecoder(mode) = Locked(<<"video">>) \o <<"release">>
                  BY <2>1 DEF CloseDecoder
            <3>4. Len(CloseDecoder(mode)) <= 10
                  <4>1. Len(CloseDecoder(mode)) = Len(Locked(<<"video">>)) + Len(<<"release">>)
                        BY <3>2, <3>3
                  <4>2. Len(Locked(<<"video">>)) = 3 /\ Len(<<"release">>) = 1
                        BY <1>1, <1>2
                  <4>3. Len(CloseDecoder(mode)) = 3 + 1
                        BY <4>1, <4>2
                  <4> QED
                      BY <4>3
            <3> QED
                BY <3>1, <3>3, <3>4
      <2>2. CASE mode # "hardware"
            BY <1>1, <2>2 DEF CloseDecoder
      <2> QED
          BY <2>1, <2>2
<1>7. Path(FlushCodec, "out", "out") /\ Len(FlushCodec) <= 10
      BY <1>1 DEF FlushCodec
<1> QED
    BY <1>4, <1>5, <1>6, <1>7

(* Unless the planes of a frame are bound, the guards bring an operation    *)
(* that ends early out.                                                     *)
LEMMA UnwoundTidy ==
    ASSUME NEW t \in Threads, Situation(t) # "bound"
    PROVE  Path(Unwound(t), Situation(t), "out") /\ Len(Unwound(t)) <= 10
<1>1. CASE holder # t
      BY <1>1, PathOfNone DEF Unwound, Situation, Situations
<1>2. CASE holder = t /\ mapped
      <2>1. Path(<<"unmap", "unlock">>, "mapped", "out") /\ Len(<<"unmap", "unlock">>) = 2
            BY PathOfTwo DEF Follows, Situations, Calls, ContextCalls
      <2> QED
          BY <1>2, <2>1 DEF Unwound, Situation
<1>3. CASE holder = t /\ ~mapped
      <2>1. Path(<<"unlock">>, "held", "out") /\ Len(<<"unlock">>) = 1
            BY PathOfOne DEF Follows, Situations
      <2> QED
          BY <1>3, <2>1 DEF Unwound, Situation
<1> QED
    BY <1>1, <1>2, <1>3

(* The inductive invariant: each thread's calls lead it out, and what is    *)
(* mapped or bound is so under the lock.                                    *)
TidyInv ==
    /\ mapped \in BOOLEAN /\ bound \in BOOLEAN /\ ~(mapped /\ bound)
    /\ LeavesNothing
    /\ \A t \in Threads : Path(rest[t], Situation(t), "out") /\ Len(rest[t]) <= 10

BufferInv == {backbuffer, cache} \subseteq [id : 0 .. MaxBuffers, address : Addresses \cup {0}]

(* Where a thread stands is one of the four.                                *)
LEMMA Stands == \A t \in Threads : Situation(t) \in Situations
BY DEF Situation, Situations

(* At first nothing is held, mapped or bound.                               *)
LEMMA InitTidy == Init => TidyInv /\ BufferInv
<1> SUFFICES ASSUME Init PROVE TidyInv /\ BufferInv
    OBVIOUS
<1>1. None \notin Threads
      BY GpuConstants DEF Threads
<1>2. \A t \in Threads : Situation(t) = "out"
      BY <1>1 DEF Init, Situation
<1>3. Path(<<>>, "out", "out") /\ Len(<<>>) <= 10
      BY PathOfNone DEF Situations
<1>4. TidyInv
      BY <1>2, <1>3 DEF Init, TidyInv, LeavesNothing
<1>5. BufferInv
      BY GpuConstants DEF Init, BufferInv, NoBuffer, Addresses
<1> QED
    BY <1>4, <1>5

(* A thread in no operation is out.                                         *)
LEMMA IdleIsOut ==
    ASSUME LockInv, TidyInv, NEW t \in Threads, op[t] = "none"
    PROVE  Situation(t) = "out" /\ holder # t
<1>1. rest[t] = <<>> /\ Path(rest[t], Situation(t), "out")
      BY DEF LockInv, TidyInv
<1>2. Situation(t) = "out"
      BY <1>1, Stands, PathOfNone
<1> QED
    BY <1>2 DEF Situation

(* An operation begins that leads from out to out.                          *)
LEMMA StartTidy ==
    ASSUME LockInv, TidyInv, NEW t \in Threads, NEW o, NEW calls,
           Path(calls, "out", "out"), Len(calls) <= 10, Start(t, o, calls)
    PROVE  TidyInv'
<1>1. /\ rest' = [rest EXCEPT ![t] = calls] /\ UNCHANGED <<holder, mapped, bound>>
      /\ Situation(t) = "out"
      BY IdleIsOut DEF Start
<1>2. rest \in [Threads -> Seq(Calls)]
      BY DEF LockInv
<1>3. \A u \in Threads : Situation(u)' = Situation(u)
      BY <1>1 DEF Situation
<1>4. ASSUME NEW u \in Threads PROVE Path(rest'[u], Situation(u)', "out") /\ Len(rest'[u]) <= 10
      BY <1>1, <1>2, <1>3 DEF TidyInv
<1> QED
    BY <1>1, <1>4 DEF TidyInv, LeavesNothing

(* Where nothing of a thread's calls and of the lock changes, so be it.     *)
LEMMA SameTidy ==
    ASSUME TidyInv, UNCHANGED <<rest, holder, mapped, bound>>
    PROVE  TidyInv'
BY DEF TidyInv, LeavesNothing, Situation

(* A thread comes to stand at l with calls s left, which lead it out; the   *)
(* others stand where they did.                                             *)
LEMMA Goes ==
    ASSUME LockInv, TidyInv, NEW t \in Threads, NEW s, NEW l,
           rest' = [rest EXCEPT ![t] = s], Path(s, l, "out"), Len(s) <= 10,
           Situation(t)' = l, \A u \in Threads \ {t} : Situation(u)' = Situation(u),
           mapped' \in BOOLEAN, bound' \in BOOLEAN, ~(mapped' /\ bound'), LeavesNothing'
    PROVE  TidyInv'
<1>1. rest \in [Threads -> Seq(Calls)]
      BY DEF LockInv
<1>2. ASSUME NEW u \in Threads PROVE Path(rest'[u], Situation(u)', "out") /\ Len(rest'[u]) <= 10
      BY <1>1 DEF TidyInv
<1> QED
    BY <1>2 DEF TidyInv

(* Only under the lock is anything mapped or bound, so a thread's step      *)
(* leaves the others where they stood.                                      *)
LEMMA OthersOut ==
    ASSUME TidyInv, NEW t \in Threads, holder \in {t, None}, holder' \in {t, None}
    PROVE  \A u \in Threads \ {t} : Situation(u)' = Situation(u)
<1>1. None \notin Threads
      BY GpuConstants DEF Threads
<1> QED
    BY <1>1 DEF Situation

(* Taking the lock, and giving it back.                                     *)
LEMMA LocksTidy ==
    ASSUME LockInv, TidyInv, NEW t \in Threads, Lock(t) \/ Unlock(t)
    PROVE  TidyInv'
<1> DEFINE s == rest[t]
<1>1. /\ s \in Seq(Calls) /\ Path(s, Situation(t), "out") /\ Len(s) <= 10
      /\ Situation(t) \in Situations
      BY Stands DEF LockInv, TidyInv
<1>2. None \notin Threads
      BY GpuConstants DEF Threads
<1>3. /\ s # <<>> /\ Head(s) \in LockCalls /\ rest' = [rest EXCEPT ![t] = Tail(s)]
      /\ UNCHANGED <<mapped, bound>>
      BY DEF Lock, Unlock, Next1, LockCalls
<1>4. PICK l \in Situations : Follows(Situation(t), Head(s), l) /\ Path(Tail(s), l, "out")
      BY <1>1, <1>3, PathGoesOn
<1>5. Len(Tail(s)) <= 10
      BY <1>1, <1>3
<1>6. CASE Lock(t)
      <2>1. holder = None /\ holder' = t /\ Head(s) = "lock"
            BY <1>3, <1>6 DEF Lock, Next1
      <2>2. l = "held" /\ ~mapped /\ ~bound
            BY <1>4, <2>1 DEF Follows, ContextCalls, LockCalls, TidyInv, LeavesNothing
      <2>3. Situation(t)' = l
            BY <1>3, <2>1, <2>2 DEF Situation
      <2>4. LeavesNothing'
            BY <1>2, <2>1 DEF LeavesNothing
      <2>5. \A u \in Threads \ {t} : Situation(u)' = Situation(u)
            BY <2>1, OthersOut
      <2>6. mapped' \in BOOLEAN /\ bound' \in BOOLEAN /\ ~(mapped' /\ bound')
            BY <1>3 DEF TidyInv
      <2> HIDE DEF s
      <2> QED
          BY <1>3, <1>4, <1>5, <2>3, <2>4, <2>5, <2>6, Goes
<1>7. CASE Unlock(t)
      <2>1. holder' = None /\ Head(s) = "unlock"
            BY <1>3, <1>7 DEF Unlock, Next1
      <2>2. Situation(t) = "held" /\ l = "out"
            BY <1>4, <2>1 DEF Follows, ContextCalls, LockCalls
      <2>3. holder = t /\ ~mapped /\ ~bound
            BY <2>2 DEF Situation
      <2>4. Situation(t)' = l
            BY <1>2, <2>1, <2>2 DEF Situation
      <2>5. LeavesNothing'
            BY <1>3, <2>3 DEF LeavesNothing
      <2>6. \A u \in Threads \ {t} : Situation(u)' = Situation(u)
            BY <2>1, <2>3, OthersOut
      <2>7. mapped' \in BOOLEAN /\ bound' \in BOOLEAN /\ ~(mapped' /\ bound')
            BY <1>3 DEF TidyInv
      <2> HIDE DEF s
      <2> QED
          BY <1>3, <1>4, <1>5, <2>4, <2>5, <2>6, <2>7, Goes
<1> QED
    BY <1>6, <1>7

(* A call returns: what it sets, its caller holds the lock for.             *)
LEMMA LeaveTidy ==
    ASSUME LockInv, TidyInv, NEW t \in Threads, Leave(t)
    PROVE  TidyInv'
<1> DEFINE s == rest[t]
           call == inside[t]
<1>1. /\ s \in Seq(Calls) /\ Path(s, Situation(t), "out") /\ Len(s) <= 10
      /\ Situation(t) \in Situations
      BY Stands DEF LockInv, TidyInv
<1>2. None \notin Threads
      BY GpuConstants DEF Threads
<1>3. /\ s # <<>> /\ Head(s) = call /\ rest' = [rest EXCEPT ![t] = Tail(s)]
      /\ holder' = holder
      /\ mapped' = (call = "map" \/ (call # "unmap" /\ mapped))
      /\ bound' = (call = "bind" \/ (call # "unbind" /\ bound))
      BY DEF Leave, LockInv
<1>4. PICK l \in Situations : Follows(Situation(t), call, l) /\ Path(Tail(s), l, "out")
      BY <1>1, <1>3, PathGoesOn
<1>5. Len(Tail(s)) <= 10
      BY <1>1, <1>3
<1>6. call \notin LockCalls
      BY DEF LockInv, LockCalls
<1>7. mapped \in BOOLEAN /\ bound \in BOOLEAN /\ ~(mapped /\ bound) /\ LeavesNothing
      BY DEF TidyInv
<1> HIDE DEF s, call
<1>8. CASE holder # t
      <2>1. Situation(t) = "out"
            BY <1>8 DEF Situation
      <2>2. l = "out" /\ call \notin {"map", "unmap", "bind", "unbind"}
            BY <1>4, <1>6, <2>1 DEF Follows, LockCalls, ContextCalls
      <2>3. mapped' = mapped /\ bound' = bound
            BY <1>3, <1>7, <2>2
      <2>4. \A u \in Threads : Situation(u)' = Situation(u)
            BY <1>3, <2>3 DEF Situation
      <2>5. LeavesNothing'
            BY <1>3, <1>7, <2>3 DEF LeavesNothing
      <2>6. Situation(t)' = l
            BY <2>1, <2>2, <2>4
      <2>7. mapped' \in BOOLEAN /\ bound' \in BOOLEAN /\ ~(mapped' /\ bound')
            BY <1>7, <2>3
      <2> QED
          BY <1>3, <1>4, <1>5, <2>4, <2>5, <2>6, <2>7, Goes
<1>9. CASE holder = t
      <2>1. Situation(t) = IF mapped THEN "mapped" ELSE IF bound THEN "bound" ELSE "held"
            BY <1>9 DEF Situation
      <2>2. /\ l = IF mapped' THEN "mapped" ELSE IF bound' THEN "bound" ELSE "held"
            /\ mapped' \in BOOLEAN /\ bound' \in BOOLEAN /\ ~(mapped' /\ bound')
            BY <1>3, <1>4, <1>6, <1>7, <2>1 DEF Follows, LockCalls, ContextCalls
      <2>3. Situation(t)' = l
            BY <1>3, <1>9, <2>2 DEF Situation
      <2>4. \A u \in Threads \ {t} : Situation(u)' = Situation(u)
            BY <1>3, <1>9, OthersOut
      <2>5. LeavesNothing'
            BY <1>2, <1>3, <1>9 DEF LeavesNothing
      <2> QED
          BY <1>3, <1>4, <1>5, <2>2, <2>3, <2>4, <2>5, Goes
<1> QED
    BY <1>8, <1>9

(* A call ends its operation: none that can is made while planes are bound. *)
LEMMA EndsTidy ==
    ASSUME LockInv, TidyInv, NEW t \in Threads, EndEarly(t)
    PROVE  TidyInv'
<1> DEFINE s == rest[t]
<1>1. /\ s \in Seq(Calls) /\ Path(s, Situation(t), "out") /\ s # <<>>
      /\ Head(s) \in {"processor", "map", "read", "create", "video", "decode"}
      /\ rest' = [rest EXCEPT ![t] = Unwound(t)] /\ UNCHANGED <<holder, mapped, bound>>
      BY DEF LockInv, TidyInv, EndEarly, CanEnd
<1>2. PICK l \in Situations : Follows(Situation(t), Head(s), l)
      BY <1>1, PathGoesOn
<1>3. Situation(t) # "bound"
      BY <1>1, <1>2 DEF Follows, ContextCalls
<1>4. Path(Unwound(t), Situation(t), "out") /\ Len(Unwound(t)) <= 10
      BY <1>3, UnwoundTidy
<1>5. \A u \in Threads : Situation(u)' = Situation(u)
      BY <1>1 DEF Situation
<1>6. LeavesNothing' /\ mapped' \in BOOLEAN /\ bound' \in BOOLEAN /\ ~(mapped' /\ bound')
      BY <1>1 DEF TidyInv, LeavesNothing
<1> HIDE DEF s
<1> QED
    BY <1>1, <1>4, <1>5, <1>6, Goes

(* Every step keeps what is mapped and bound under the lock.                *)
LEMMA StepTidy == LockInv /\ RefsInv /\ TidyInv /\ [Next]_vars => TidyInv'
<1> SUFFICES ASSUME LockInv, RefsInv, TidyInv, [Next]_vars PROVE TidyInv'
    OBVIOUS
<1>1. UI \in Threads /\ Workers \subseteq Threads
      BY DEF Threads
<1>2. CASE Paint
      <2>1. ASSUME NEW o, NEW empty \in BOOLEAN,
                   NEW calls \in {ClearRenderTarget, RenderSubtitleOverlay, UpdateOverlay, Flush,
                                  RenderVideoSurface, RenderToneMapped(empty), Capture},
                   Start(UI, o, calls)
            PROVE  TidyInv'
            BY <1>1, <2>1, PaintTidy, StartTidy
      <2> QED
          BY <1>2, <2>1 DEF Paint
<1>3. CASE Resize
      BY <1>3, SameTidy DEF Resize, threadVars
<1>4. ASSUME NEW w \in Workers, OpenHardware(w) \/ OpenSoftware(w) PROVE TidyInv'
      BY <1>4, SameTidy DEF OpenHardware, OpenSoftware, threadVars
<1>5. ASSUME NEW w \in Workers, OpenHardwareFails(w) PROVE TidyInv'
      BY <1>1, <1>5, WorkTidy, StartTidy DEF OpenHardwareFails
<1>6. ASSUME NEW w \in Workers, Work(w) PROVE TidyInv'
      <2>1. decoder[w] \in {"hardware", "software"}
            BY <1>6 DEF Work, RefsInv
      <2>2. ASSUME NEW o,
                   NEW calls \in {SendPacket(decoder[w]), ReceiveFrame(decoder[w]),
                                  FlushCodec, CloseDecoder(decoder[w])},
                   Start(w, o, calls)
            PROVE  TidyInv'
            BY <1>1, <2>1, <2>2, WorkTidy, StartTidy
      <2> QED
          BY <1>6, <2>2 DEF Work
<1>7. ASSUME NEW t \in Threads, Advance(t) PROVE TidyInv'
      <2>1. CASE Lock(t) \/ Unlock(t)
            BY <2>1, LocksTidy
      <2>2. CASE Leave(t)
            BY <2>2, LeaveTidy
      <2>3. CASE EndEarly(t)
            BY <2>3, EndsTidy
      <2>4. CASE Enter(t) \/ Return(t)
            BY <2>4, SameTidy DEF Enter, Return
      <2> QED
          BY <1>7, <2>1, <2>2, <2>3, <2>4 DEF Advance
<1>8. CASE UNCHANGED vars
      BY <1>8, SameTidy DEF vars, threadVars
<1> QED
    BY <1>2, <1>3, <1>4, <1>5, <1>6, <1>7, <1>8 DEF Next

(* And the back buffers are numbered within their bound.                    *)
LEMMA StepBuffer == BufferInv /\ [Next]_vars => BufferInv'
<1> SUFFICES ASSUME BufferInv, [Next]_vars PROVE BufferInv'
    OBVIOUS
<1>1. CASE Resize
      <2>1. backbuffer.id + 1 \in 0 .. MaxBuffers
            BY <1>1, GpuConstants DEF Resize, BufferInv
      <2>2. NoBuffer \in [id : 0 .. MaxBuffers, address : Addresses \cup {0}]
            BY GpuConstants DEF NoBuffer
      <2> QED
          BY <1>1, <2>1, <2>2 DEF Resize, Dropped, BufferInv
<1>2. ASSUME NEW t \in Threads, Leave(t) PROVE BufferInv'
      BY <1>2 DEF Leave, Processor, BufferInv
<1>3. ASSUME UNCHANGED <<cache, backbuffer>> PROVE BufferInv'
      BY <1>3 DEF BufferInv
<1> QED
    BY <1>1, <1>2, <1>3
       DEF Next, Paint, OpenHardware, OpenHardwareFails, OpenSoftware, Work, Start, Advance,
           Lock, Unlock, Enter, EndEarly, Return, vars

-----------------------------------------------------------------------------
(* The invariant holds of every behaviour.                                  *)
LEMMA GpuAlways == Spec => []GpuInv
<1>1. GpuInv /\ [Next]_vars => GpuInv'
      BY StepLock, StepRefs, StepCache DEF GpuInv
<1> QED
    BY <1>1, InitGpu, PTL DEF Spec

(* And so does that of what is set under the lock.                          *)
LEMMA TidyAlways == Spec => [](TidyInv /\ BufferInv)
<1>1. GpuInv /\ TidyInv /\ BufferInv /\ [Next]_vars => TidyInv' /\ BufferInv'
      BY StepTidy, StepBuffer DEF GpuInv
<1> QED
    BY <1>1, InitTidy, GpuAlways, PTL DEF Spec

(* Every variable has its type, and no operation is longer than ten calls.  *)
THEOREM GpuTypes == Spec => []TypeOK
<1>1. GpuInv /\ TidyInv /\ BufferInv => TypeOK
      <2> SUFFICES ASSUME GpuInv, TidyInv, BufferInv PROVE TypeOK
          OBVIOUS
      <2>1. holder # None => holder \in Threads /\ op[holder] # "none"
            BY IdleIsOut DEF GpuInv, LockInv
      <2>2. inside \in [Threads -> Calls \cup {"none"}]
            BY DEF GpuInv, LockInv
      <2> QED
          BY <2>1, <2>2
             DEF GpuInv, LockInv, Operations, RefsInv, Decoders, TidyInv, BufferInv, TypeOK
<1> QED
    BY <1>1, GpuAlways, TidyAlways, PTL

(* However an operation ends, nothing is mapped and no plane bound once the *)
(* lock is free (d3d11.rs:481-488, 1471-1473).                              *)
THEOREM AlwaysUnwinds == Spec => []Unwinds
<1>1. TidyInv => LeavesNothing
      BY DEF TidyInv
<1> QED
    BY <1>1, TidyAlways, GpuTypes, PTL DEF Unwinds

(* No two threads are in calls of the video context at once, nor one beside *)
(* the lock's holder at work (d3d11.rs:96-103): who is in such a call holds *)
(* the lock.                                                                *)
THEOREM VideoIsSerialized == Spec => []VideoCallsAlone
<1>1. ASSUME LockInv, NEW t \in Threads, inside[t] = "video" PROVE holder = t
      <2>1. rest[t] # <<>> /\ Head(rest[t]) \in NeedLock
            BY <1>1 DEF LockInv, NeedLock
      <2>2. rest[t] \in Seq(Calls) /\ OnTrack(rest[t], holder = t)
            BY <1>1 DEF LockInv
      <2> QED
          BY <2>1, <2>2, HeadHolds
<1>2. GpuInv => VideoCallsAlone
      BY <1>1 DEF GpuInv, VideoCallsAlone
<1> QED
    BY <1>2, GpuAlways, PTL

(* A processor blits into the back buffer it was made for, wherever the     *)
(* system puts the next one (d3d11.rs:296-301).                             *)
THEOREM ProcessorFits == Spec => []CacheIsOfBackbuffer
<1>1. GpuInv => CacheIsOfBackbuffer
      BY DEF GpuInv
<1> QED
    BY <1>1, GpuAlways, PTL

(* The device's references add up, failed opens and closed decoders         *)
(* included (d3d11.rs:533-549).                                             *)
THEOREM ReferencesAddUp == Spec => []RefsHeld
<1>1. GpuInv => RefsHeld
      BY DEF GpuInv, RefsInv
<1> QED
    BY <1>1, GpuAlways, PTL

(* What is kept of the device is what is in use.                            *)
THEOREM DeviceIsKept == Spec => []DeviceKept
BY ProcessorFits, ReferencesAddUp, PTL DEF DeviceKept
=============================================================================
