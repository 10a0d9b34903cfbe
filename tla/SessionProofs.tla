------------------------------- MODULE SessionProofs -------------------------------
(***************************************************************************)
(* What is proved of Session, for media, queues and buffers of any length  *)
(* and any number of commands and faults: a paused player is silent, but   *)
(* for the one way out that SilentWhenPaused names, and the player does    *)
(* what was last asked of it. The second half adds the queues, the clocks  *)
(* and the workers: every field keeps its type and every queue its bound,  *)
(* the playhead is kept, and a seek shows nothing from before its target.  *)
(* A third invariant says that nothing the workers delivered is lost on    *)
(* the way; with it the end that is announced is complete.                 *)
(***************************************************************************)
EXTENDS Session, FiniteSetTheorems, TLAPS

-----------------------------------------------------------------------------
(* The inductive invariant, in named parts.                                 *)

Fields == {"state", "file", "order", "vq", "aq", "started", "buffered", "anchor", "sent",
           "vclock", "pausedAt", "pauseAfter", "target", "discard", "settling", "landed",
           "videoExpected", "videoEnded", "audioExpected", "audioEnded", "selected", "last",
           "normal", "in", "out", "loop", "replay", "signal"}

IsSequence(q) == \E V : q \in Seq(V)

\* Of the types only what the argument needs.
Shaped(p) ==
    /\ DOMAIN p = Fields
    /\ p.state \in States
    /\ IsSequence(p.aq)
    /\ p.buffered \in Int /\ p.buffered <= SinkCap
    /\ p.started \in BOOLEAN /\ p.pauseAfter \in BOOLEAN

\* Before the first sound of a file the sink is stopped and has nothing to play.
NotBegun(p) == p.state \in {"idle", "opening"} => ~p.started /\ p.aq = <<>>

\* What was asked for last is what the player does, or will when the seek has landed.
Follows(p, w) ==
    /\ w = "play" => p.state # "paused" /\ ~p.pauseAfter
    /\ w = "pause" => \/ p.state \in {"paused", "ended", "error"}
                      \/ p.pauseAfter /\ p.state # "playing"

SessionInv ==
    /\ Shaped(s) /\ s.order = NoOrder
    /\ NotBegun(s)
    /\ s.state = "idle" => audio = Gone
    /\ s.state = "error" => s.vq = <<>> /\ video = Gone
    /\ wanted \in {"play", "pause", "any"}
    /\ Follows(s, wanted)

-----------------------------------------------------------------------------
(* Sequences of anything.                                                   *)

LEMMA EmptySequence == IsSequence(<<>>)
<1>1. <<>> \in Seq({})
      OBVIOUS
<1> QED BY <1>1 DEF IsSequence

LEMMA AppendSequence ==
    ASSUME NEW q, IsSequence(q), NEW e
    PROVE  IsSequence(Append(q, e))
<1>1. PICK V : q \in Seq(V)
      BY DEF IsSequence
<1>2. q \in Seq(V \cup {e})
      BY <1>1
<1>3. Append(q, e) \in Seq(V \cup {e})
      BY <1>2
<1> QED BY <1>3 DEF IsSequence

LEMMA RestSequence ==
    ASSUME NEW q, IsSequence(q), NEW n \in Nat
    PROVE  Len(q) \in Nat /\ IsSequence(SubSeq(q, n + 1, Len(q)))
<1>1. PICK V : q \in Seq(V)
      BY DEF IsSequence
<1>2. Len(q) \in Nat /\ SubSeq(q, n + 1, Len(q)) \in Seq(V)
      BY <1>1
<1> QED BY <1>2 DEF IsSequence

-----------------------------------------------------------------------------
(* The handlers.                                                            *)

LEMMA PreparedKeeps ==
    ASSUME NEW p, Shaped(p), NEW rebuild \in BOOLEAN, NEW fresh \in BOOLEAN, NEW wipe \in BOOLEAN
    PROVE  LET q == Prepared(p, rebuild, fresh, wipe) IN
           /\ Shaped(q) /\ ~q.started /\ q.aq = <<>> /\ q.vq = <<>>
           /\ q.state = p.state /\ q.pauseAfter = p.pauseAfter /\ q.order = p.order
<1> DEFINE q == Prepared(p, rebuild, fresh, wipe)
<1>1. DOMAIN q = Fields
      BY DEF Shaped, Fields, Prepared, ClockReset
<1>2. /\ q.started = FALSE /\ q.aq = <<>> /\ q.vq = <<>> /\ q.buffered \in {p.buffered, 0}
      /\ q.state = p.state /\ q.pauseAfter = p.pauseAfter /\ q.order = p.order
      BY DEF Shaped, Fields, Prepared, ClockReset
<1> HIDE DEF q
<1>3. IsSequence(q.aq)
      BY <1>2, EmptySequence
<1>4. q.buffered \in Int /\ q.buffered <= SinkCap
  <2>1. p.buffered \in Int /\ p.buffered <= SinkCap
        BY DEF Shaped
  <2> QED BY ONLY <1>2, <2>1, ConstantsOK DEF ConstantsOK
<1>5. q.state \in States /\ q.started \in BOOLEAN /\ q.pauseAfter \in BOOLEAN
      BY <1>2 DEF Shaped
<1>6. Shaped(q)
      BY <1>1, <1>3, <1>4, <1>5 DEF Shaped
<1> QED BY <1>2, <1>6 DEF q

LEMMA SoughtKeeps ==
    ASSUME NEW p, Shaped(p), NEW at
    PROVE  LET q == Sought(p, at) IN
           /\ Shaped(q) /\ q.pauseAfter = p.pauseAfter
           /\ \/ p.state \in {"idle", "opening", "error"} /\ q = p
              \/ /\ p.state \notin {"idle", "opening", "error"}
                 /\ q.state = "seeking" /\ ~q.started /\ q.order.kind = "seek"
<1>1. CASE p.state \in {"idle", "opening", "error"}
      BY <1>1 DEF Sought
<1>2. CASE p.state \notin {"idle", "opening", "error"}
  <2> DEFINE r == Prepared(p, FALSE, FALSE, FALSE)
  <2>1. Shaped(r) /\ ~r.started /\ r.pauseAfter = p.pauseAfter
        BY PreparedKeeps
  <2>2. Sought(p, at) = [Pending(r, Least(at, End)) EXCEPT !.order = Order("seek", Least(at, End))]
        BY <1>2 DEF Sought
  <2> HIDE DEF r
  <2> QED BY <1>2, <2>1, <2>2 DEF Pending, Shaped, Fields, States, Order
<1> QED BY <1>1, <1>2

LEMMA OpenedKeeps ==
    ASSUME NEW p, Shaped(p), NEW file, NEW start
    PROVE  LET q == Opened(p, file, start) IN
           /\ Shaped(q) /\ q.pauseAfter = p.pauseAfter
           /\ q.state = "opening" /\ ~q.started /\ q.aq = <<>>
<1> DEFINE o == [p EXCEPT !.file = file]
           r == Prepared(o, TRUE, TRUE, TRUE)
<1>1. Shaped(o) /\ o.pauseAfter = p.pauseAfter
      BY DEF Shaped, Fields
<1> HIDE DEF o
<1>2. Shaped(r) /\ ~r.started /\ r.aq = <<>> /\ r.pauseAfter = p.pauseAfter
      BY <1>1, PreparedKeeps
<1>3. Opened(p, file, start) =
        [r EXCEPT !.state = "opening", !.order = Order("open", start), !.signal = FALSE,
                  !.normal = TRUE, !.last = None, !.in = None, !.out = None, !.loop = FALSE]
      BY DEF Opened, o
<1> HIDE DEF r
<1> QED BY <1>2, <1>3 DEF Shaped, Fields, States

LEMMA EndpointRecoveredKeeps ==
    ASSUME NEW p, Shaped(p)
    PROVE  LET q == EndpointRecovered(p) IN
           /\ Shaped(q) /\ q.pauseAfter = p.pauseAfter
           /\ q.state = "seeking" /\ ~q.started
<1> DEFINE r == Prepared(p, TRUE, FALSE, TRUE)
           at == Least(Position(p), End)
<1>1. Shaped(r) /\ ~r.started /\ r.pauseAfter = p.pauseAfter
      BY PreparedKeeps
<1>2. EndpointRecovered(p) = [Pending(r, at) EXCEPT !.order = Order("open", at)]
      BY DEF EndpointRecovered
<1> HIDE DEF r, at
<1> QED BY <1>1, <1>2 DEF Pending, Shaped, Fields, States

LEMMA DeviceRecoveredKeeps ==
    ASSUME NEW p, Shaped(p)
    PROVE  LET q == DeviceRecovered(p) IN
           Shaped(q) /\ q.state = "seeking" /\ ~q.started
<1> DEFINE r == Prepared(p, FALSE, FALSE, TRUE)
           order == Order("open", Least(Position(p), End))
<1>1. Shaped(r) /\ ~r.started
      BY PreparedKeeps
<1>2. DeviceRecovered(p) = [r EXCEPT !.state = "seeking", !.order = order]
      BY DEF DeviceRecovered
<1> HIDE DEF r, order
<1> QED BY <1>1, <1>2 DEF Shaped, Fields, States

LEMMA FailedKeeps ==
    ASSUME NEW p, Shaped(p)
    PROVE  LET q == Failed(p) IN
           /\ Shaped(q) /\ q.pauseAfter = p.pauseAfter
           /\ q.state = "error" /\ q.vq = <<>> /\ q.order.kind = "stop"
BY DEF Failed, Shaped, Fields, States, Order

LEMMA PauseSet ==
    ASSUME NEW p, Shaped(p), NEW b \in BOOLEAN
    PROVE  LET q == [p EXCEPT !.pauseAfter = b] IN
           /\ Shaped(q) /\ q.pauseAfter = b
           /\ q.state = p.state /\ q.started = p.started /\ q.order = p.order
           /\ q.aq = p.aq /\ q.vq = p.vq
BY DEF Shaped, Fields

LEMMA PendingToggledKeeps ==
    ASSUME NEW p, Shaped(p), SeekPending(p)
    PROVE  LET q == PendingToggled(p) IN
           /\ Shaped(q) /\ ~q.started
           /\ q.pauseAfter = ~p.pauseAfter
           /\ q.state = IF p.pauseAfter THEN "seeking" ELSE p.state
<1>1. CASE ~p.pauseAfter
      BY <1>1 DEF PendingToggled, Shaped, Fields
<1>2. CASE p.pauseAfter
  <2> DEFINE o == [p EXCEPT !.pauseAfter = FALSE]
  <2>1. Shaped(o) /\ o.pauseAfter = FALSE /\ o.state \notin {"idle", "opening", "error"}
        BY PauseSet DEF SeekPending
  <2>2. PICK at : PendingToggled(p) = Sought(o, at)
        BY <1>2 DEF PendingToggled
  <2> HIDE DEF o
  <2> QED BY <1>2, <2>1, <2>2, SoughtKeeps
<1> QED BY <1>1, <1>2 DEF Shaped

LEMMA PausedNowKeeps ==
    ASSUME NEW p, Shaped(p)
    PROVE  LET q == PausedNow(p) IN
           Shaped(q) /\ ~q.started /\ q.pauseAfter = p.pauseAfter /\ q.state = "paused"
BY DEF PausedNow, Shaped, Fields, States

LEMMA ResumedKeeps ==
    ASSUME NEW p, Shaped(p)
    PROVE  LET q == Resumed(p) IN
           Shaped(q) /\ q.pauseAfter = p.pauseAfter /\ q.state \in {"playing", "priming"}
<1> DEFINE back == [p EXCEPT !.pausedAt = None,
                             !.state = IF p.selected THEN "playing" ELSE "priming"]
<1>1. /\ Shaped(back) /\ back.pauseAfter = p.pauseAfter
      /\ back.state \in {"playing", "priming"}
      BY DEF Shaped, Fields, States
<1>2. Resumed(p) = IF p.anchor # None THEN [back EXCEPT !.started = TRUE]
                   ELSE [back EXCEPT !.started = FALSE, !.buffered = 0,
                                     !.vclock = IF p.pausedAt # None THEN p.pausedAt ELSE 0]
      BY DEF Resumed
<1> HIDE DEF back
<1>3. 0 <= SinkCap
      BY ConstantsOK DEF ConstantsOK
<1> QED BY <1>1, <1>2, <1>3 DEF Shaped, Fields

(* What Space does, by the state it finds.                                  *)
LEMMA ToggledKeeps ==
    ASSUME NEW p, Shaped(p)
    PROVE  LET q == Toggled(p) IN
           /\ Shaped(q)
           /\ \/ /\ SeekPending(p) /\ ~q.started /\ q.pauseAfter = ~p.pauseAfter
                 /\ q.state = IF p.pauseAfter THEN "seeking" ELSE p.state
              \/ /\ p.state \in {"playing", "draining", "priming"} /\ ~SeekPending(p)
                 /\ q.state = "paused" /\ ~q.started /\ q.pauseAfter = p.pauseAfter
              \/ /\ p.state \in {"paused", "ended"}
                 /\ q.state = "seeking" /\ ~q.started /\ (q.pauseAfter => p.pauseAfter)
              \/ /\ p.state = "paused"
                 /\ q.state \in {"playing", "priming"} /\ q.pauseAfter = p.pauseAfter
              \/ p.state \in {"idle", "opening", "error"} /\ q = p
<1>1. CASE SeekPending(p)
  <2>1. Toggled(p) = PendingToggled(p)
        BY <1>1 DEF Toggled, SeekPending
  <2> QED BY <1>1, <2>1, PendingToggledKeeps
<1>2. CASE ~SeekPending(p) /\ p.state \in {"playing", "draining", "priming"}
  <2>1. Toggled(p) = PausedNow(p)
        BY <1>2 DEF Toggled, SeekPending
  <2> QED BY <1>2, <2>1, PausedNowKeeps
<1>3. CASE p.state = "paused" /\ OutsideRange(p, Position(p))
  <2> DEFINE o == [p EXCEPT !.pauseAfter = FALSE]
  <2>1. Shaped(o) /\ o.pauseAfter = FALSE /\ o.state = "paused"
        BY <1>3, PauseSet
  <2>2. Toggled(p) = Sought(o, ReplayAt(p))
        BY <1>3 DEF Toggled, SeekPending
  <2> HIDE DEF o
  <2> QED BY <1>3, <2>1, <2>2, SoughtKeeps
<1>4. CASE p.state = "paused" /\ ~OutsideRange(p, Position(p)) /\ NothingLeft(p)
  <2>1. Toggled(p) = Sought(p, ReplayAt(p))
        BY <1>4 DEF Toggled, SeekPending
  <2> QED BY <1>4, <2>1, SoughtKeeps
<1>5. CASE p.state = "paused" /\ ~OutsideRange(p, Position(p)) /\ ~NothingLeft(p)
  <2>1. Toggled(p) = Resumed(p)
        BY <1>5 DEF Toggled, SeekPending
  <2> QED BY <1>5, <2>1, ResumedKeeps
<1>6. CASE p.state = "ended"
  <2>1. Toggled(p) = Sought(p, ReplayAt(p))
        BY <1>6 DEF Toggled, SeekPending
  <2> QED BY <1>6, <2>1, SoughtKeeps
<1>7. CASE p.state \in {"idle", "opening", "error"}
  <2>1. Toggled(p) = p
        BY <1>7 DEF Toggled, SeekPending
  <2> QED BY <1>7, <2>1
<1>8. p.state \in {"idle", "opening", "priming", "playing", "paused", "seeking", "draining",
                   "ended", "error"}
      BY DEF Shaped, States
<1> QED BY <1>1, <1>2, <1>3, <1>4, <1>5, <1>6, <1>7, <1>8 DEF SeekPending

LEMMA SteppedKeeps ==
    ASSUME NEW p, Shaped(p), NEW by
    PROVE  LET q == Stepped(p, by) IN
           /\ Shaped(q) /\ q.pauseAfter
           /\ \/ /\ p.state \in {"idle", "opening", "error"}
                 /\ q.state = p.state /\ q.started = p.started /\ q.order = p.order
                 /\ q.aq = p.aq /\ q.vq = p.vq
              \/ /\ p.state \notin {"idle", "opening", "error"}
                 /\ q.state = "seeking" /\ ~q.started
<1> DEFINE q == IF p.state \in {"paused", "ended"} THEN p ELSE Toggled(p)
           o == [q EXCEPT !.pauseAfter = TRUE]
<1>1. /\ Shaped(q)
      /\ p.state \in {"idle", "opening", "error"} => q = p
      /\ p.state \notin {"idle", "opening", "error"}
            => q.state \notin {"idle", "opening", "error"}
      BY ToggledKeeps DEF SeekPending
<1>2. PICK at : Stepped(p, by) = Sought(o, at)
      BY DEF Stepped
<1> HIDE DEF q
<1>3. /\ Shaped(o) /\ o.pauseAfter = TRUE /\ o.state = q.state /\ o.started = q.started
      /\ o.order = q.order /\ o.aq = q.aq /\ o.vq = q.vq
      BY <1>1, PauseSet
<1> HIDE DEF o
<1> QED BY <1>1, <1>2, <1>3, SoughtKeeps

\* What the invariant and the property see of a session, but for its state, sound and sink.
SameOrders(q, p) == q.pauseAfter = p.pauseAfter /\ q.order = p.order /\ q.vq = p.vq

LEMMA RateKeeps ==
    ASSUME NEW p, Shaped(p), NEW normal
    PROVE  LET q == RateChanged(p, normal) IN
           /\ Shaped(q) /\ SameOrders(q, p)
           /\ q.state = p.state /\ q.started = p.started /\ q.aq = <<>>
BY EmptySequence DEF RateChanged, ClockReset, Shaped, Fields, SameOrders

LEMMA ClipKeeps ==
    ASSUME NEW p, Shaped(p), NEW at,
           NEW q \in {InSet(p, at), OutSet(p, at), InCleared(p), OutCleared(p), LoopToggled(p)}
    PROVE  /\ Shaped(q) /\ SameOrders(q, p)
           /\ q.state = p.state /\ q.started = p.started /\ q.aq = p.aq
<1>1. CASE q = InSet(p, at)
      BY <1>1 DEF InSet, Shaped, Fields, SameOrders
<1>2. CASE q = OutSet(p, at)
      BY <1>2 DEF OutSet, Shaped, Fields, SameOrders
<1>3. CASE q = InCleared(p)
      BY <1>3 DEF InCleared, Shaped, Fields, SameOrders
<1>4. CASE q = OutCleared(p)
      BY <1>4 DEF OutCleared, Shaped, Fields, SameOrders
<1>5. CASE q = LoopToggled(p)
  <2>1. \/ q = [p EXCEPT !.loop = ~@]
        \/ q = [p EXCEPT !.replay = ~@]
        BY <1>5 DEF LoopToggled
  <2> QED BY <2>1 DEF Shaped, Fields, SameOrders
<1> QED BY <1>1, <1>2, <1>3, <1>4, <1>5

LEMMA PrimedKeeps ==
    ASSUME NEW p, Shaped(p)
    PROVE  LET q == Primed(p) IN
           /\ Shaped(q) /\ SameOrders(q, p) /\ q.started = p.started /\ q.aq = p.aq
           /\ q.state = IF p.state \in {"opening", "seeking"} THEN "priming" ELSE p.state
BY DEF Primed, Shaped, Fields, States, SameOrders

LEMMA VideoArrivedKeeps ==
    ASSUME NEW p, Shaped(p), NEW frame
    PROVE  LET q == VideoArrived(p, frame) IN
           /\ Shaped(q) /\ q.pauseAfter = p.pauseAfter /\ q.order = p.order
           /\ q.started = p.started /\ q.aq = p.aq
           /\ \/ q.state = p.state
              \/ p.state \in {"opening", "seeking"} /\ q.state = "priming"
<1> DEFINE o == [p EXCEPT !.vq = Append(@, frame)]
<1>1. /\ Shaped(o) /\ o.pauseAfter = p.pauseAfter /\ o.order = p.order
      /\ o.started = p.started /\ o.aq = p.aq /\ o.state = p.state
      BY DEF Shaped, Fields
<1>2. VideoArrived(p, frame) = IF Discarded(p, frame) THEN p ELSE Primed(o)
      BY DEF VideoArrived
<1> HIDE DEF o
<1> QED BY <1>1, <1>2, PrimedKeeps DEF SameOrders

LEMMA AudioArrivedKeeps ==
    ASSUME NEW p, Shaped(p), NEW frame
    PROVE  LET q == AudioArrived(p, frame) IN
           /\ Shaped(q) /\ SameOrders(q, p) /\ q.started = p.started
           /\ \/ q.state = p.state /\ p.state # "opening"
              \/ q = p
              \/ p.state \in {"opening", "seeking"} /\ q.state = "priming"
<1> DEFINE o == [p EXCEPT !.audioExpected = TRUE, !.aq = Append(@, frame)]
<1>1. IsSequence(Append(p.aq, frame))
      BY AppendSequence DEF Shaped
<1>2. Shaped(o) /\ SameOrders(o, p) /\ o.started = p.started /\ o.state = p.state
      BY <1>1 DEF Shaped, Fields, SameOrders
<1>3. AudioArrived(p, frame) = IF Discarded(p, frame) THEN p ELSE Primed(o)
      BY DEF AudioArrived
<1> HIDE DEF o
<1> QED BY <1>2, <1>3, PrimedKeeps DEF SameOrders

LEMMA StreamsFinishedKeep ==
    ASSUME NEW p, Shaped(p)
    PROVE  /\ LET q == VideoFinished(p) IN
              /\ Shaped(q) /\ SameOrders(q, p) /\ q.started = p.started /\ q.aq = p.aq
              /\ \/ q.state = p.state
                 \/ p.state \in {"playing", "priming"} /\ q.state = "draining"
           /\ LET q == AudioFinished(p) IN
              /\ Shaped(q) /\ SameOrders(q, p) /\ q.started = p.started /\ q.aq = p.aq
              /\ q.state = p.state
BY DEF VideoFinished, AudioFinished, Shaped, Fields, States, SameOrders

LEMMA WrittenKeeps ==
    ASSUME NEW p, Shaped(p)
    PROVE  LET q == Written(p) IN
           /\ Shaped(q) /\ SameOrders(q, p) /\ q.state = p.state
           /\ p.aq = <<>> => q = p
<1> DEFINE n == Least(Len(p.aq), SinkCap - p.buffered)
<1>1. /\ Len(p.aq) \in Nat /\ SinkCap \in Nat
      /\ p.buffered \in Int /\ p.buffered <= SinkCap
      BY RestSequence, ConstantsOK DEF Shaped, ConstantsOK
<1>2. n \in Nat /\ n <= SinkCap - p.buffered /\ n <= Len(p.aq)
      BY <1>1 DEF Least
<1>3. p.aq = <<>> => Len(p.aq) = 0
      OBVIOUS
<1> HIDE DEF n
<1>4. CASE n = 0
  <2>1. Written(p) = p
        BY <1>4 DEF Written, n
  <2> QED BY <2>1 DEF SameOrders
<1>5. CASE n # 0
  <2> DEFINE q == Written(p)
  <2> DEFINE anchor == IF p.anchor = None THEN p.aq[1] ELSE p.anchor
             vclock == IF p.anchor = None THEN None ELSE p.vclock
             rest == SubSeq(p.aq, n + 1, Len(p.aq))
  <2>1. q = [p EXCEPT !.aq = rest, !.buffered = @ + n, !.sent = @ + n,
                      !.started = TRUE, !.anchor = anchor, !.vclock = vclock]
        BY <1>5 DEF Written, n
  <2> HIDE DEF anchor, vclock, rest
  <2>2. /\ DOMAIN q = Fields /\ q.aq = rest
        /\ q.buffered = p.buffered + n /\ q.started = TRUE
        /\ q.state = p.state /\ SameOrders(q, p)
        BY <2>1 DEF Shaped, Fields, SameOrders
  <2> HIDE DEF q
  <2>3. IsSequence(q.aq)
    <3>1. IsSequence(p.aq) /\ n \in Nat
          BY <1>2 DEF Shaped
    <3>2. IsSequence(SubSeq(p.aq, n + 1, Len(p.aq)))
          BY <3>1, RestSequence
    <3> QED BY <2>2, <3>2 DEF rest
  <2>4. q.buffered \in Int /\ q.buffered <= SinkCap
        BY ONLY <1>1, <1>2, <2>2
  <2>5. q.state \in States /\ q.started \in BOOLEAN /\ q.pauseAfter \in BOOLEAN
        BY <2>2 DEF Shaped, SameOrders
  <2>6. Shaped(q)
        BY <2>2, <2>3, <2>4, <2>5 DEF Shaped
  <2>7. p.aq # <<>>
        BY <1>2, <1>3, <1>5, <1>1
  <2> QED BY <2>2, <2>6, <2>7 DEF q
<1> QED BY <1>4, <1>5

LEMMA HandedOverKeeps ==
    ASSUME NEW p, Shaped(p)
    PROVE  LET q == HandedOver(p) IN
           /\ Shaped(q) /\ SameOrders(q, p)
           /\ q.state = p.state /\ q.started = p.started /\ q.aq = p.aq
BY DEF HandedOver, ClockReset, Shaped, Fields, SameOrders

LEMMA SinkStoppedKeeps ==
    ASSUME NEW p, Shaped(p)
    PROVE  LET q == SinkStopped(p) IN
           /\ Shaped(q) /\ SameOrders(q, p)
           /\ q.state = p.state /\ q.started \in {p.started, FALSE} /\ q.aq = p.aq
BY DEF SinkStopped, Shaped, Fields, SameOrders

LEMMA AudioLedKeeps ==
    ASSUME NEW p, Shaped(p)
    PROVE  LET q == AudioLed(p) IN
           /\ Shaped(q) /\ SameOrders(q, p) /\ q.started = p.started /\ q.aq = p.aq
           /\ q.state = p.state \/ (p.state = "priming" /\ q.state = "playing")
<1>1. CASE p.audioExpected /\ p.anchor # None /\ p.state = "priming"
      BY <1>1 DEF AudioLed, Shaped, Fields, States, SameOrders
<1>2. CASE ~(p.audioExpected /\ p.anchor # None /\ p.state = "priming")
  <2>1. AudioLed(p) = p
        BY <1>2 DEF AudioLed
  <2> QED BY <2>1 DEF SameOrders
<1> QED BY <1>1, <1>2

(* Submitting audio starts the sink of a player that neither is paused nor  *)
(* waits to be, and before the first sound there is nothing to submit.      *)
LEMMA SubmittedKeeps ==
    ASSUME NEW p, Shaped(p), NotBegun(p)
    PROVE  LET q == Submitted(p) IN
           /\ Shaped(q) /\ SameOrders(q, p) /\ NotBegun(q)
           /\ \/ q = p
              \/ /\ ~p.pauseAfter /\ p.state \notin {"paused", "ended"}
                 /\ q.state = p.state \/ (p.state = "priming" /\ q.state = "playing")
<1>1. CASE SubmitSkipped(p)
      BY <1>1 DEF Submitted, SameOrders
<1>2. CASE ~SubmitSkipped(p)
  <2> DEFINE w == Written(p)
             h == HandedOver(w)
             k == SinkStopped(h)
             q == AudioLed(k)
  <2>1. Shaped(w) /\ SameOrders(w, p) /\ w.state = p.state /\ (p.aq = <<>> => w = p)
        BY WrittenKeeps
  <2> HIDE DEF w
  <2>2. /\ Shaped(h) /\ SameOrders(h, w) /\ h.state = w.state /\ h.started = w.started
        /\ h.aq = w.aq
        BY <2>1, HandedOverKeeps
  <2> HIDE DEF h
  <2>3. /\ Shaped(k) /\ SameOrders(k, h) /\ k.state = h.state /\ k.started \in {h.started, FALSE}
        /\ k.aq = h.aq
        BY <2>2, SinkStoppedKeeps
  <2> HIDE DEF k
  <2>4. /\ Shaped(q) /\ SameOrders(q, k) /\ q.started = k.started /\ q.aq = k.aq
        /\ q.state = k.state \/ (k.state = "priming" /\ q.state = "playing")
        BY <2>3, AudioLedKeeps
  <2> HIDE DEF q
  <2>5. Submitted(p) = q
        BY <1>2 DEF Submitted, q, k, h, w
  <2>6. SameOrders(q, p)
        BY <2>1, <2>2, <2>3, <2>4 DEF SameOrders
  <2>7. NotBegun(q)
        BY <2>1, <2>2, <2>3, <2>4 DEF NotBegun
  <2> QED BY <1>2, <2>1, <2>2, <2>3, <2>4, <2>5, <2>6, <2>7 DEF SubmitSkipped
<1> QED BY <1>1, <1>2

LEMMA PresentedKeeps ==
    ASSUME NEW p, Shaped(p), NEW frame
    PROVE  LET q == Presented(p, frame) IN
           /\ Shaped(q) /\ q.started = p.started /\ q.order = p.order
           /\ q.aq = p.aq /\ q.vq = p.vq
           /\ \/ p.pauseAfter /\ ~q.pauseAfter /\ q.state = "paused"
              \/ ~p.pauseAfter /\ ~q.pauseAfter /\ q.state \in {p.state, "playing"}
<1> DEFINE shown == [p EXCEPT !.selected = TRUE, !.last = frame, !.landed = @ \/ p.settling,
                              !.vclock = IF @ = None /\ p.anchor = None THEN frame ELSE @]
<1>1. /\ Shaped(shown) /\ SameOrders(shown, p) /\ shown.started = p.started
      /\ shown.aq = p.aq /\ shown.state = p.state
      BY DEF Shaped, Fields, SameOrders
<1>2. Presented(p, frame) =
        IF p.pauseAfter
        THEN [shown EXCEPT !.pauseAfter = FALSE, !.pausedAt = p.target, !.state = "paused"]
        ELSE IF ~p.audioExpected \/ p.anchor # None THEN [shown EXCEPT !.state = "playing"]
        ELSE shown
      BY DEF Presented
<1> HIDE DEF shown
<1>3. CASE p.pauseAfter
      BY <1>1, <1>2, <1>3 DEF Shaped, Fields, States, SameOrders
<1>4. CASE ~p.pauseAfter
      BY <1>1, <1>2, <1>4 DEF Shaped, Fields, States, SameOrders
<1> QED BY <1>3, <1>4

LEMMA RangeEndedKeeps ==
    ASSUME NEW p, Shaped(p), NEW frame, p.state \notin {"idle", "opening", "error"}
    PROVE  LET q == RangeEnded(p, frame) IN
           /\ Shaped(q) /\ ~q.started /\ q.pauseAfter = p.pauseAfter
           /\ q.state \in {"seeking", "ended"}
<1>1. CASE p.loop
      BY <1>1, SoughtKeeps DEF RangeEnded
<1>2. CASE ~p.loop
      BY <1>2, EmptySequence DEF RangeEnded, Shaped, Fields, States
<1> QED BY <1>1, <1>2

LEMMA SettledKeeps ==
    ASSUME NEW p, Shaped(p)
    PROVE  LET q == Settled(p) IN
           /\ Shaped(q) /\ SameOrders(q, p)
           /\ q.started = p.started /\ q.aq = p.aq /\ q.state = p.state
BY DEF Settled, Shaped, Fields, SameOrders

LEMMA FinishedKeeps ==
    ASSUME NEW p, Shaped(p)
    PROVE  LET q == Finished(p) IN
           /\ Shaped(q) /\ q.pauseAfter = p.pauseAfter
           /\ \/ q = p
              \/ /\ p.state \in {"priming", "playing", "draining"}
                 /\ \/ q.state = "seeking" /\ ~q.started
                    \/ q.state = "ended" /\ q.started = p.started
<1>1. CASE ~CanFinish(p)
      BY <1>1 DEF Finished
<1>2. CASE CanFinish(p) /\ (p.replay \/ p.loop)
  <2>1. p.state \in {"priming", "playing", "draining"}
        BY <1>2 DEF CanFinish
  <2> QED BY <1>2, <2>1, SoughtKeeps DEF Finished
<1>3. CASE CanFinish(p) /\ ~(p.replay \/ p.loop)
  <2>1. p.state \in {"priming", "playing", "draining"}
        BY <1>3 DEF CanFinish
  <2>2. Finished(p) = [p EXCEPT !.state = "ended", !.signal = TRUE]
        BY <1>3 DEF Finished
  <2> QED BY <2>1, <2>2 DEF Shaped, Fields, States
<1> QED BY <1>1, <1>2, <1>3

-----------------------------------------------------------------------------
(* The steps.                                                               *)

\* What a step does to the invariant, and to the silence of the player.
Stands == SessionInv' /\ (Quiet(s) => Quiet(s') \/ ResumesOverPending)

(* An action that runs a handler leaves the session it made.                *)
LEMMA DoKeeps ==
    ASSUME NEW p, Shaped(p), Do(p)
    PROVE  /\ Shaped(s') /\ s'.order = NoOrder
           /\ s'.state = p.state /\ s'.started = p.started /\ s'.pauseAfter = p.pauseAfter
           /\ s'.aq = p.aq /\ s'.vq = p.vq
           /\ p.order = NoOrder => video' = video /\ audio' = audio
           /\ p.order.kind = "stop" => video' = Gone
<1>1. s' = [p EXCEPT !.order = NoOrder]
      BY DEF Do
<1>2. /\ Shaped(s') /\ s'.order = NoOrder
      /\ s'.state = p.state /\ s'.started = p.started /\ s'.pauseAfter = p.pauseAfter
      /\ s'.aq = p.aq /\ s'.vq = p.vq
      BY <1>1 DEF Shaped, Fields
<1>3. p.order = NoOrder => video' = video /\ audio' = audio
  <2>1. p.order = NoOrder => p.order.kind = "none"
        BY DEF NoOrder
  <2>2. p.order = NoOrder => VideoFollows(p) = {video}
        BY <2>1 DEF VideoFollows
  <2>3. p.order = NoOrder => AudioFollows(p) = {audio}
        BY <2>1 DEF AudioFollows
  <2> QED BY <2>2, <2>3 DEF Do
<1>4. p.order.kind = "stop" => video' = Gone
      BY DEF Do, VideoFollows
<1> QED BY <1>2, <1>3, <1>4

LEMMA InitSession == Init => SessionInv
<1> SUFFICES ASSUME Init PROVE SessionInv
    OBVIOUS
<1>1. /\ DOMAIN s = Fields /\ s.state = "idle" /\ s.order = NoOrder /\ s.aq = <<>>
      /\ s.buffered = 0 /\ s.started = FALSE /\ s.pauseAfter = FALSE
      BY DEF Init, Fields
<1>2. 0 <= SinkCap
      BY ConstantsOK DEF ConstantsOK
<1>3. Shaped(s)
  <2>1. IsSequence(s.aq)
        BY <1>1, EmptySequence
  <2>2. s.buffered \in Int /\ s.buffered <= SinkCap
        BY <1>1, <1>2
  <2>3. s.state \in States /\ s.started \in BOOLEAN /\ s.pauseAfter \in BOOLEAN
        BY <1>1 DEF States
  <2> QED BY <1>1, <2>1, <2>2, <2>3 DEF Shaped
<1>4. audio = Gone /\ wanted = "play"
      BY DEF Init
<1> QED BY <1>1, <1>3, <1>4 DEF SessionInv, NotBegun, Follows

LEMMA OpenStep == SessionInv /\ Open => Stands
<1> SUFFICES ASSUME SessionInv, Open PROVE Stands
    OBVIOUS
<1>1. PICK file \in Files, start \in 0 .. End - 1 : Do(Opened(s, file, start))
      BY DEF Open
<1> DEFINE q == Opened(s, file, start)
<1>2. /\ Shaped(q) /\ q.pauseAfter = s.pauseAfter /\ q.state = "opening" /\ ~q.started
      /\ q.aq = <<>>
      BY OpenedKeeps DEF SessionInv
<1> HIDE DEF q
<1>3. /\ Shaped(s') /\ s'.order = NoOrder /\ s'.state = "opening" /\ ~s'.started
      /\ s'.pauseAfter = s.pauseAfter /\ s'.aq = <<>>
      BY <1>1, <1>2, DoKeeps DEF q
<1>4. wanted' = IF s.pauseAfter THEN "any" ELSE "play"
      BY DEF Open
<1> QED BY <1>3, <1>4 DEF Stands, SessionInv, NotBegun, Follows, Quiet

LEMMA ToggleStep == SessionInv /\ TogglePause => Stands
<1> SUFFICES ASSUME SessionInv, TogglePause PROVE Stands
    OBVIOUS
<1> DEFINE q == Toggled(s)
<1>1. Do(q)
      BY DEF TogglePause
<1>2. /\ Shaped(q)
      /\ \/ /\ SeekPending(s) /\ ~q.started /\ q.pauseAfter = ~s.pauseAfter
            /\ q.state = IF s.pauseAfter THEN "seeking" ELSE s.state
         \/ /\ s.state \in {"playing", "draining", "priming"} /\ ~SeekPending(s)
            /\ q.state = "paused" /\ ~q.started /\ q.pauseAfter = s.pauseAfter
         \/ /\ s.state \in {"paused", "ended"}
            /\ q.state = "seeking" /\ ~q.started /\ (q.pauseAfter => s.pauseAfter)
         \/ /\ s.state = "paused"
            /\ q.state \in {"playing", "priming"} /\ q.pauseAfter = s.pauseAfter
         \/ s.state \in {"idle", "opening", "error"} /\ q = s
      BY ToggledKeeps DEF SessionInv
<1>3. /\ Shaped(s') /\ s'.order = NoOrder
      /\ s'.state = q.state /\ s'.started = q.started /\ s'.pauseAfter = q.pauseAfter
      /\ s'.aq = q.aq /\ s'.vq = q.vq
      /\ q.order = NoOrder => video' = video /\ audio' = audio
      BY <1>1, <1>2, DoKeeps
<1> HIDE DEF q
<1>4. wanted' = IF s.state \in {"idle", "opening", "error"} \/ wanted = "any" THEN wanted
                ELSE IF s.pauseAfter /\ ~SeekPending(s) THEN "any"
                ELSE IF s.state = "ended" \/ wanted = "pause" THEN "play" ELSE "pause"
      BY DEF TogglePause
<1>5. SeekPending(s) => s.state \in {"seeking", "priming"}
      BY DEF SeekPending
<1>6. NotBegun(s') /\ (s'.state = "idle" => audio' = Gone)
      /\ (s'.state = "error" => s'.vq = <<>> /\ video' = Gone)
      BY <1>2, <1>3, <1>5 DEF SessionInv, NotBegun
<1>7. wanted' \in {"play", "pause", "any"} /\ Follows(s', wanted')
  <2>1. s.pauseAfter \in BOOLEAN /\ Follows(s, wanted) /\ wanted \in {"play", "pause", "any"}
        BY DEF SessionInv, Shaped
  <2>2. CASE SeekPending(s)
        BY <2>2, <2>1, <1>2, <1>3, <1>4, <1>5 DEF Follows
  <2>3. CASE ~SeekPending(s)
        BY <2>3, <2>1, <1>2, <1>3, <1>4 DEF Follows
  <2> QED BY <2>2, <2>3
<1>8. Quiet(s) => Quiet(s') \/ ResumesOverPending
      BY <1>2, <1>3, <1>5 DEF Quiet, ResumesOverPending, SessionInv, NotBegun
<1> QED BY <1>3, <1>6, <1>7, <1>8 DEF Stands, SessionInv

(* Seek and Scrub, which set the pause flag and seek.                       *)
LEMMA SoughtStep ==
    ASSUME SessionInv, NEW b \in BOOLEAN, NEW at, Do(Sought([s EXCEPT !.pauseAfter = b], at)),
           wanted' = Means(IF b THEN "pause" ELSE "play")
    PROVE  Stands
<1> DEFINE o == [s EXCEPT !.pauseAfter = b]
           q == Sought(o, at)
<1>1. /\ Shaped(o) /\ o.pauseAfter = b
      /\ o.state = s.state /\ o.started = s.started /\ o.order = s.order
      /\ o.aq = s.aq /\ o.vq = s.vq
      BY PauseSet DEF SessionInv
<1>2. Do(q)
      OBVIOUS
<1> HIDE DEF o
<1>3. /\ Shaped(q) /\ q.pauseAfter = b
      /\ \/ /\ s.state \in {"idle", "opening", "error"}
            /\ q.state = s.state /\ q.started = s.started /\ q.order = s.order
            /\ q.aq = s.aq /\ q.vq = s.vq
         \/ /\ s.state \notin {"idle", "opening", "error"}
            /\ q.state = "seeking" /\ ~q.started
      BY <1>1, SoughtKeeps
<1> HIDE DEF q
<1>4. /\ Shaped(s') /\ s'.order = NoOrder
      /\ s'.state = q.state /\ s'.started = q.started /\ s'.pauseAfter = q.pauseAfter
      /\ s'.aq = q.aq /\ s'.vq = q.vq
      /\ q.order = NoOrder => video' = video /\ audio' = audio
      BY <1>2, <1>3, DoKeeps
<1>5. wanted' = IF s.state \in {"idle", "opening", "error"} THEN "any"
                ELSE IF b THEN "pause" ELSE "play"
      BY DEF Means
<1> QED BY <1>3, <1>4, <1>5 DEF Stands, SessionInv, NotBegun, Follows, Quiet

LEMMA SeekStep == SessionInv /\ Seek => Stands
<1> SUFFICES ASSUME SessionInv, Seek PROVE Stands
    OBVIOUS
<1>1. PICK at \in 0 .. End : Do(Sought([s EXCEPT !.pauseAfter = FALSE], at))
      BY DEF Seek
<1>2. wanted' = Means(IF FALSE THEN "pause" ELSE "play")
      BY DEF Seek
<1> QED BY <1>1, <1>2, SoughtStep

LEMMA ScrubStep == SessionInv /\ Scrub => Stands
<1> SUFFICES ASSUME SessionInv, Scrub PROVE Stands
    OBVIOUS
<1>1. PICK at \in 0 .. End : Do(Sought([s EXCEPT !.pauseAfter = TRUE], at))
      BY DEF Scrub
<1>2. wanted' = Means(IF TRUE THEN "pause" ELSE "play")
      BY DEF Scrub
<1> QED BY <1>1, <1>2, SoughtStep

LEMMA StepFrameStep == SessionInv /\ StepFrame => Stands
<1> SUFFICES ASSUME SessionInv, StepFrame PROVE Stands
    OBVIOUS
<1>0. PICK by \in {-1, 1} : Do(Stepped(s, by))
      BY DEF StepFrame
<1> DEFINE q == Stepped(s, by)
<1>1. Do(q)
      BY <1>0
<1>2. /\ Shaped(q) /\ q.pauseAfter
      /\ \/ /\ s.state \in {"idle", "opening", "error"}
            /\ q.state = s.state /\ q.started = s.started /\ q.order = s.order
            /\ q.aq = s.aq /\ q.vq = s.vq
         \/ /\ s.state \notin {"idle", "opening", "error"}
            /\ q.state = "seeking" /\ ~q.started
      BY SteppedKeeps DEF SessionInv
<1> HIDE DEF q
<1>3. /\ Shaped(s') /\ s'.order = NoOrder
      /\ s'.state = q.state /\ s'.started = q.started /\ s'.pauseAfter = q.pauseAfter
      /\ s'.aq = q.aq /\ s'.vq = q.vq
      /\ q.order = NoOrder => video' = video /\ audio' = audio
      BY <1>1, <1>2, DoKeeps
<1>4. wanted' = IF s.state \in {"idle", "opening", "error"} THEN "any" ELSE "pause"
      BY DEF StepFrame, Means
<1> QED BY <1>2, <1>3, <1>4 DEF Stands, SessionInv, NotBegun, Follows, Quiet

(* A handler that leaves state, pause flag and queues as they are, and      *)
(* sounds no more than before, disturbs nothing.                            *)
LEMMA StillStep ==
    ASSUME SessionInv, NEW q, Shaped(q), Do(q), SameOrders(q, s), q.state = s.state,
           q.started \in {s.started, FALSE}, q.aq \in {s.aq, <<>>}, wanted' = wanted
    PROVE  Stands
<1>3. /\ Shaped(s') /\ s'.order = NoOrder
      /\ s'.state = s.state /\ s'.started \in {s.started, FALSE}
      /\ s'.pauseAfter = s.pauseAfter
      /\ s'.aq \in {s.aq, <<>>} /\ s'.vq = s.vq
      /\ video' = video /\ audio' = audio
      BY DoKeeps DEF SameOrders, SessionInv
<1> QED BY <1>3 DEF Stands, SessionInv, NotBegun, Follows, Quiet

LEMMA RateStep == SessionInv /\ StepRate => Stands
<1> SUFFICES ASSUME SessionInv, StepRate PROVE Stands
    OBVIOUS
<1>1. PICK normal : Do(RateChanged(s, normal))
      BY DEF StepRate
<1>2. wanted' = wanted
      BY DEF StepRate
<1> QED BY <1>1, <1>2, RateKeeps, StillStep DEF SessionInv

LEMMA ClipStep == SessionInv /\ SetClip => Stands
<1> SUFFICES ASSUME SessionInv, SetClip PROVE Stands
    OBVIOUS
<1> DEFINE at == Position(s)
<1>1. PICK p \in {InSet(s, at), OutSet(s, at), InCleared(s), OutCleared(s), LoopToggled(s)} : Do(p)
      BY DEF SetClip
<1>2. wanted' = wanted
      BY DEF SetClip
<1> HIDE DEF at
<1>3. /\ Shaped(p) /\ SameOrders(p, s)
      /\ p.state = s.state /\ p.started = s.started /\ p.aq = s.aq
      BY <1>1, ClipKeeps DEF SessionInv
<1> QED BY <1>1, <1>2, <1>3, StillStep

LEMMA TimeStep == SessionInv /\ TimePasses => Stands
<1> SUFFICES ASSUME SessionInv, TimePasses PROVE Stands
    OBVIOUS
<1>1. s' = [s EXCEPT !.vclock = IF @ \in 0 .. End THEN @ + 1 ELSE @,
                     !.buffered = IF s.started /\ @ > 0 THEN @ - 1 ELSE @]
      BY DEF TimePasses
<1>2. /\ DOMAIN s' = Fields /\ s'.order = s.order /\ s'.state = s.state
      /\ s'.started = s.started /\ s'.pauseAfter = s.pauseAfter /\ s'.aq = s.aq /\ s'.vq = s.vq
      /\ s'.buffered = IF s.started /\ s.buffered > 0 THEN s.buffered - 1 ELSE s.buffered
      BY <1>1 DEF SessionInv, Shaped, Fields
<1>3. s.buffered \in Int /\ s.buffered <= SinkCap /\ SinkCap \in Int
      BY ConstantsOK DEF SessionInv, Shaped, ConstantsOK
<1>4. s'.buffered \in Int /\ s'.buffered <= SinkCap
      BY ONLY <1>2, <1>3
<1>5. Shaped(s')
      BY <1>2, <1>4 DEF SessionInv, Shaped
<1>6. UNCHANGED <<video, audio, wanted>>
      BY DEF TimePasses
<1> QED BY <1>2, <1>5, <1>6 DEF Stands, SessionInv, NotBegun, Follows, Quiet

LEMMA StartTickStep == SessionInv /\ StartTick => Stands
<1> SUFFICES ASSUME SessionInv, StartTick PROVE Stands
    OBVIOUS
<1> DEFINE q == IF s.normal \/ s.state = "error" THEN s ELSE [s EXCEPT !.aq = <<>>]
<1>1. Do(q) /\ wanted' = wanted
      BY DEF StartTick, Phase
<1>2. /\ Shaped(q) /\ SameOrders(q, s) /\ q.state = s.state /\ q.started = s.started
      /\ q.aq \in {s.aq, <<>>}
      BY EmptySequence DEF SessionInv, Shaped, Fields, SameOrders
<1> HIDE DEF q
<1> QED BY <1>1, <1>2, StillStep

LEMMA DrainAudioStep == SessionInv /\ DrainAudio => Stands
<1> SUFFICES ASSUME SessionInv, DrainAudio PROVE Stands
    OBVIOUS
<1>1. /\ Shaped(s') /\ SameOrders(s', s) /\ s'.started = s.started
      /\ \/ s'.state = s.state /\ s'.aq = s.aq
         \/ s'.state = s.state /\ s.state # "opening"
         \/ s.state \in {"opening", "seeking"} /\ s'.state = "priming"
  <2>1. CASE audio = AudioEnd
        BY <2>1, StreamsFinishedKeep DEF DrainAudio, SessionInv
  <2>2. CASE audio # AudioEnd
    <3>1. s' = AudioArrived(s, audio)
          BY <2>2 DEF DrainAudio
    <3> QED BY <3>1, AudioArrivedKeeps DEF SessionInv
  <2> QED BY <2>1, <2>2
<1>2. audio # Gone /\ video' = video /\ wanted' = wanted
      BY DEF DrainAudio, Phase
<1> QED BY <1>1, <1>2 DEF Stands, SessionInv, SameOrders, NotBegun, Follows, Quiet

LEMMA DrainVideoStep == SessionInv /\ DrainVideo => Stands
<1> SUFFICES ASSUME SessionInv, DrainVideo PROVE Stands
    OBVIOUS
<1>1. /\ Shaped(s') /\ s'.pauseAfter = s.pauseAfter /\ s'.order = s.order
      /\ s'.started = s.started /\ s'.aq = s.aq
      /\ \/ s'.state = s.state
         \/ s.state \in {"opening", "seeking"} /\ s'.state = "priming"
         \/ s.state \in {"playing", "priming"} /\ s'.state = "draining"
  <2>1. CASE video = End
        BY <2>1, StreamsFinishedKeep DEF DrainVideo, SessionInv, SameOrders
  <2>2. CASE video # End
    <3>1. s' = VideoArrived(s, video)
          BY <2>2 DEF DrainVideo
    <3> QED BY <3>1, VideoArrivedKeeps DEF SessionInv
  <2> QED BY <2>1, <2>2
<1>2. video # Gone /\ audio' = audio /\ wanted' = wanted
      BY DEF DrainVideo, Phase
<1> QED BY <1>1, <1>2 DEF Stands, SessionInv, NotBegun, Follows, Quiet

LEMMA SubmitStep == SessionInv /\ Submit => Stands
<1> SUFFICES ASSUME SessionInv, Submit PROVE Stands
    OBVIOUS
<1> DEFINE q == Submitted(s)
<1>1. Do(q) /\ wanted' = wanted
      BY DEF Submit, Phase
<1>2. /\ Shaped(q) /\ SameOrders(q, s) /\ NotBegun(q)
      /\ \/ q = s
         \/ /\ ~s.pauseAfter /\ s.state \notin {"paused", "ended"}
            /\ q.state = s.state \/ (s.state = "priming" /\ q.state = "playing")
      BY SubmittedKeeps DEF SessionInv
<1> HIDE DEF q
<1>3. /\ Shaped(s') /\ s'.order = NoOrder
      /\ s'.state = q.state /\ s'.started = q.started /\ s'.pauseAfter = q.pauseAfter
      /\ s'.aq = q.aq /\ s'.vq = q.vq
      /\ q.order = NoOrder => video' = video /\ audio' = audio
      BY <1>1, <1>2, DoKeeps
<1>4. video' = video /\ audio' = audio /\ s'.vq = s.vq /\ s'.pauseAfter = s.pauseAfter
      BY <1>2, <1>3 DEF SameOrders, SessionInv
<1>5. NotBegun(s')
      BY <1>2, <1>3 DEF NotBegun
<1> QED BY <1>1, <1>2, <1>3, <1>4, <1>5 DEF Stands, SessionInv, Follows, Quiet

LEMMA ShowStep == SessionInv /\ ShowFrame => Stands
<1> SUFFICES ASSUME SessionInv, ShowFrame PROVE Stands
    OBVIOUS
<1> DEFINE n == Due(s)
           frame == s.vq[n]
           left == [s EXCEPT !.vq = SubSeq(@, n + 1, Len(@))]
<1>1. s.state \notin {"paused", "ended", "error"}
  <2>1. s.vq # <<>>
        BY DEF ShowFrame, NothingDue
  <2> QED BY <2>1 DEF ShowFrame, NothingDue, SessionInv
<1>2. wanted' = wanted
      BY DEF ShowFrame, Phase
<1>3. /\ Shaped(left) /\ left.state = s.state /\ left.started = s.started
      /\ left.pauseAfter = s.pauseAfter /\ left.aq = s.aq /\ left.order = NoOrder
      BY DEF SessionInv, Shaped, Fields
<1>4. \/ Do(left)
      \/ Do(Presented(left, frame))
      \/ AtOutPoint(s, frame) /\ Do(RangeEnded(left, frame))
      BY DEF ShowFrame
<1> HIDE DEF left, frame
<1>5. CASE Do(left)
  <2>1. /\ Shaped(s') /\ s'.order = NoOrder
        /\ s'.state = s.state /\ s'.started = s.started /\ s'.pauseAfter = s.pauseAfter
        /\ s'.aq = s.aq /\ video' = video /\ audio' = audio
        BY <1>3, <1>5, DoKeeps
  <2> QED BY <1>1, <1>2, <2>1 DEF Stands, SessionInv, NotBegun, Follows, Quiet
<1>6. CASE Do(Presented(left, frame))
  <2> DEFINE q == Presented(left, frame)
  <2>1. /\ Shaped(q) /\ q.started = s.started /\ q.order = NoOrder /\ q.aq = s.aq
        /\ \/ s.pauseAfter /\ ~q.pauseAfter /\ q.state = "paused"
           \/ ~s.pauseAfter /\ ~q.pauseAfter /\ q.state \in {s.state, "playing"}
        BY <1>3, PresentedKeeps
  <2> HIDE DEF q
  <2>2. /\ Shaped(s') /\ s'.order = NoOrder
        /\ s'.state = q.state /\ s'.started = s.started /\ s'.pauseAfter = q.pauseAfter
        /\ s'.aq = s.aq /\ video' = video /\ audio' = audio
        BY <1>6, <2>1, DoKeeps DEF q
  <2> QED BY <1>1, <1>2, <2>1, <2>2 DEF Stands, SessionInv, NotBegun, Follows, Quiet
<1>7. CASE AtOutPoint(s, frame) /\ Do(RangeEnded(left, frame))
  <2> DEFINE q == RangeEnded(left, frame)
  <2>1. s.state \in {"playing", "priming", "draining"}
        BY <1>7 DEF AtOutPoint
  <2>2. /\ Shaped(q) /\ ~q.started /\ q.pauseAfter = s.pauseAfter
        /\ q.state \in {"seeking", "ended"}
        BY <1>3, <2>1, RangeEndedKeeps
  <2> HIDE DEF q
  <2>3. /\ Shaped(s') /\ s'.order = NoOrder
        /\ s'.state = q.state /\ s'.started = q.started /\ s'.pauseAfter = s.pauseAfter
        BY <1>7, <2>2, DoKeeps DEF q
  <2> QED BY <1>1, <1>2, <2>2, <2>3 DEF Stands, SessionInv, NotBegun, Follows, Quiet
<1> QED BY <1>4, <1>5, <1>6, <1>7

LEMMA FinishStep == SessionInv /\ FinishTick => Stands
<1> SUFFICES ASSUME SessionInv, FinishTick PROVE Stands
    OBVIOUS
<1> DEFINE p == Settled(s)
           q == Finished(p)
<1>1. Do(q) /\ wanted' = wanted
      BY DEF FinishTick, Phase
<1>2. /\ Shaped(p) /\ SameOrders(p, s)
      /\ p.started = s.started /\ p.aq = s.aq /\ p.state = s.state
      BY SettledKeeps DEF SessionInv
<1> HIDE DEF p
<1>3. /\ Shaped(q) /\ q.pauseAfter = p.pauseAfter
      /\ \/ q = p
         \/ /\ p.state \in {"priming", "playing", "draining"}
            /\ \/ q.state = "seeking" /\ ~q.started
               \/ q.state = "ended" /\ q.started = p.started
      BY <1>2, FinishedKeeps
<1> HIDE DEF q
<1>4. CASE q = p
  <2>1. wanted' = wanted /\ Do(p)
        BY <1>1, <1>4
  <2> QED BY <1>2, <2>1, StillStep
<1>5. CASE /\ s.state \in {"priming", "playing", "draining"}
           /\ \/ q.state = "seeking" /\ ~q.started
              \/ q.state = "ended" /\ q.started = s.started
  <2>1. /\ Shaped(s') /\ s'.order = NoOrder
        /\ s'.state = q.state /\ s'.started = q.started /\ s'.pauseAfter = s.pauseAfter
        BY <1>1, <1>2, <1>3, DoKeeps DEF SameOrders
  <2> QED BY <1>1, <1>5, <2>1 DEF Stands, SessionInv, NotBegun, Follows, Quiet
<1> QED BY <1>2, <1>3, <1>4, <1>5

LEMMA SwitchStep == SessionInv /\ SwitchEndpoint => Stands
<1> SUFFICES ASSUME SessionInv, SwitchEndpoint PROVE Stands
    OBVIOUS
<1> DEFINE o == IF s.state \in {"paused", "ended"} THEN [s EXCEPT !.pauseAfter = TRUE] ELSE s
           q == EndpointRecovered(o)
<1>1. /\ Do(q) /\ s.state \notin {"idle", "error"}
      /\ wanted' = IF s.state = "ended" THEN "pause" ELSE wanted
      BY DEF SwitchEndpoint, EndpointSwitched
<1>2. /\ Shaped(o)
      /\ s.state \in {"paused", "ended"} => o.pauseAfter
      /\ s.state \notin {"paused", "ended"} => o.pauseAfter = s.pauseAfter
      BY PauseSet DEF SessionInv
<1> HIDE DEF o
<1>3. /\ Shaped(q) /\ q.pauseAfter = o.pauseAfter /\ q.state = "seeking" /\ ~q.started
      BY <1>2, EndpointRecoveredKeeps
<1> HIDE DEF q
<1>4. /\ Shaped(s') /\ s'.order = NoOrder
      /\ s'.state = "seeking" /\ ~s'.started /\ s'.pauseAfter = o.pauseAfter
      BY <1>1, <1>3, DoKeeps
<1> QED BY <1>1, <1>2, <1>4 DEF Stands, SessionInv, NotBegun, Follows, Quiet

LEMMA SubmitFailsStep == SessionInv /\ SubmitFails => Stands
<1> SUFFICES ASSUME SessionInv, SubmitFails PROVE Stands
    OBVIOUS
<1> DEFINE q == EndpointRecovered(s)
<1>1. /\ Do(q) /\ ~s.pauseAfter /\ s.state \notin {"paused", "ended"}
      /\ wanted' = IF s.state \in {"idle", "opening", "error"} THEN "any" ELSE wanted
      BY DEF SubmitFails, SubmitSkipped, Means
<1>2. /\ Shaped(q) /\ q.pauseAfter = s.pauseAfter /\ q.state = "seeking" /\ ~q.started
      BY EndpointRecoveredKeeps DEF SessionInv
<1> HIDE DEF q
<1>3. /\ Shaped(s') /\ s'.order = NoOrder
      /\ s'.state = "seeking" /\ ~s'.started /\ s'.pauseAfter = s.pauseAfter
      BY <1>1, <1>2, DoKeeps
<1> QED BY <1>1, <1>3 DEF Stands, SessionInv, NotBegun, Follows, Quiet

LEMMA DeviceStep == SessionInv /\ (WorkerLosesDevice \/ PresentLosesDevice) => Stands
<1> SUFFICES ASSUME SessionInv, WorkerLosesDevice \/ PresentLosesDevice PROVE Stands
    OBVIOUS
<1> DEFINE q == DeviceRecovered(s)
<1>1. Do(q) /\ wanted' = "any"
      BY DEF WorkerLosesDevice, PresentLosesDevice
<1>2. Shaped(q) /\ q.state = "seeking" /\ ~q.started
      BY DeviceRecoveredKeeps DEF SessionInv
<1> HIDE DEF q
<1>3. Shaped(s') /\ s'.order = NoOrder /\ s'.state = "seeking" /\ ~s'.started
      BY <1>1, <1>2, DoKeeps
<1> QED BY <1>1, <1>3 DEF Stands, SessionInv, NotBegun, Follows, Quiet

LEMMA FailsStep == SessionInv /\ PlaybackFails => Stands
<1> SUFFICES ASSUME SessionInv, PlaybackFails PROVE Stands
    OBVIOUS
<1> DEFINE q == Failed(s)
<1>1. Do(q) /\ wanted' = wanted
      BY DEF PlaybackFails
<1>2. /\ Shaped(q) /\ q.pauseAfter = s.pauseAfter
      /\ q.state = "error" /\ q.vq = <<>> /\ q.order.kind = "stop"
      BY FailedKeeps DEF SessionInv
<1> HIDE DEF q
<1>3. /\ Shaped(s') /\ s'.order = NoOrder
      /\ s'.state = "error" /\ s'.pauseAfter = s.pauseAfter
      /\ s'.vq = <<>> /\ video' = Gone
      BY <1>1, <1>2, DoKeeps
<1> QED BY <1>1, <1>3 DEF Stands, SessionInv, NotBegun, Follows, Quiet

(* Nothing the argument speaks of changes.                                  *)
LEMMA UnchangedStep == SessionInv /\ UNCHANGED <<s, video, audio, wanted>> => Stands
BY DEF Stands, SessionInv, Shaped, NotBegun, Follows, Quiet

LEMMA StepSession == SessionInv /\ [Next]_vars => Stands
<1> SUFFICES ASSUME SessionInv, [Next]_vars PROVE Stands
    OBVIOUS
<1>1. CASE UserStep
      BY <1>1, OpenStep, ToggleStep, SeekStep, ScrubStep, StepFrameStep, RateStep, ClipStep
      DEF UserStep
<1>2. CASE TimePasses
      BY <1>2, TimeStep
<1>3. CASE DrainAudio \/ DrainVideo
      BY <1>3, DrainAudioStep, DrainVideoStep
<1>4. CASE Tick
  <2>1. CASE AudioDrained \/ VideoDrained \/ HoldPicture
        BY <2>1, UnchangedStep DEF AudioDrained, VideoDrained, HoldPicture, Phase
  <2>2. CASE StartTick \/ Submit \/ ShowFrame \/ FinishTick
        BY <2>2, StartTickStep, SubmitStep, ShowStep, FinishStep
  <2> QED BY <1>4, <2>1, <2>2 DEF Tick
<1>5. CASE Environment
      BY <1>5, SwitchStep, SubmitFailsStep, DeviceStep, FailsStep DEF Environment
<1>6. CASE UNCHANGED vars
      BY <1>6, UnchangedStep DEF vars
<1> QED BY <1>1, <1>2, <1>3, <1>4, <1>5, <1>6 DEF Next

-----------------------------------------------------------------------------
(* The theorems.                                                            *)

(* The invariant: a session before its first sound has a silent sink, a     *)
(* failed one shows nothing more, and what the player does, or will do when *)
(* a seek has landed, is what was last asked of it.                         *)
THEOREM SessionInvariant == Spec => []SessionInv
<1>1. SessionInv /\ [Next]_vars => SessionInv'
      BY StepSession DEF Stands
<1> QED BY <1>1, InitSession, PTL DEF Spec, Safety

(* A player that is paused, or waits to pause, stays silent until Space     *)
(* resumes it, for media and buffers of any length, whatever is asked and   *)
(* whatever fails.                                                          *)
THEOREM PausesAreSilent == Spec => SilentWhenPaused
<1>1. SessionInv /\ [Next]_vars => [Quiet(s) => Quiet(s') \/ ResumesOverPending]_vars
      BY StepSession DEF Stands
<1> QED BY <1>1, SessionInvariant, PTL DEF Spec, Safety, SilentWhenPaused

(* Between two ticks the player plays or is paused as the user last asked.  *)
THEOREM IntentIsKept == Spec => []IntentKept
<1>1. SessionInv => IntentKept
      BY DEF SessionInv, Follows, IntentKept, Shaped
<1> QED BY <1>1, SessionInvariant, PTL

-----------------------------------------------------------------------------
(* The second invariant: what is queued, and where the workers have got.    *)

\* How far the audio worker of the current operation has got.
Reached(a) == IF a = Gone THEN AudioEnd ELSE a

\* The queue and the sink hold frames the audio worker has delivered, in a row that ends
\* where it has got, and the clock is anchored in that row.
Sound(p, a) ==
    /\ a \in 0 .. AudioEnd \cup {Gone}
    /\ p.aq \in Seq(0 .. AudioEnd - 1) /\ Len(p.aq) <= AudioCap
    /\ \A i \in 1 .. Len(p.aq) : p.aq[i] + Len(p.aq) - i < Reached(a)
    /\ p.buffered \in 0 .. SinkCap /\ p.sent \in Nat /\ p.anchor \in None .. End
    /\ p.anchor = None => p.sent = 0
    /\ p.anchor # None => p.anchor + p.sent + Len(p.aq) <= Reached(a)
    /\ p.audioEnded => a = Gone

\* The queue holds frames from the target on, and a picture that ended was delivered.
Picture(p, v) ==
    /\ v \in 0 .. Gone
    /\ p.vq \in Seq(0 .. End - 1) /\ Len(p.vq) <= VideoCap
    /\ p.discard \in None .. End
    /\ p.discard # None => \A i \in 1 .. Len(p.vq) : p.vq[i] >= p.discard
    /\ p.videoEnded => v >= End
    /\ ~p.videoExpected => p.file = "audio"

\* A position is held only by a session that is paused, or was when it failed.
Timed(p) ==
    /\ p.vclock \in Positions /\ p.pausedAt \in Positions /\ p.target \in None .. End
    /\ p.last \in Positions /\ p.in \in Positions /\ p.out \in Positions
    /\ p.pausedAt # None => p.state \in {"paused", "ended", "error"}

Flags(p) ==
    /\ DOMAIN p = Fields
    /\ p.state \in States /\ p.file \in Files \cup {"none"}
    /\ p.started \in BOOLEAN /\ p.pauseAfter \in BOOLEAN /\ p.settling \in BOOLEAN
    /\ p.landed \in BOOLEAN /\ p.videoExpected \in BOOLEAN /\ p.videoEnded \in BOOLEAN
    /\ p.audioExpected \in BOOLEAN /\ p.audioEnded \in BOOLEAN /\ p.selected \in BOOLEAN
    /\ p.normal \in BOOLEAN /\ p.loop \in BOOLEAN /\ p.replay \in BOOLEAN
    /\ p.signal \in BOOLEAN

Good(p, v, a) == Flags(p) /\ Timed(p) /\ Picture(p, v) /\ Sound(p, a)

PlaybackInv ==
    /\ Good(s, video, audio)
    /\ pc \in {"input", "audio", "video", "submit", "advance", "finish"}
    /\ commands \in 0 .. MaxCommands

\* What a handler leaves alone.
SameSound(q, p) ==
    /\ q.aq = p.aq /\ q.buffered = p.buffered /\ q.sent = p.sent /\ q.anchor = p.anchor
    /\ q.audioEnded = p.audioEnded
SamePicture(q, p) ==
    /\ q.vq = p.vq /\ q.discard = p.discard /\ q.videoEnded = p.videoEnded
    /\ q.videoExpected = p.videoExpected /\ q.file = p.file
SameTimes(q, p) ==
    /\ q.vclock = p.vclock /\ q.pausedAt = p.pausedAt /\ q.target = p.target
    /\ q.last = p.last /\ q.in = p.in /\ q.out = p.out

\* No handler but the end of playback gives the signal, and none but the showing of a
\* picture says that one was shown.
Calm(q, p) == (q.signal => p.signal) /\ q.last \in {p.last, None}

\* What Prepared needs, and what it leaves.
Ready(p) == Flags(p) /\ Timed(p) /\ p.buffered \in 0 .. SinkCap /\ p.discard \in None .. End
Cleared(q) ==
    /\ q.aq = <<>> /\ q.vq = <<>> /\ q.sent = 0 /\ q.anchor = None
    /\ q.buffered \in 0 .. SinkCap /\ q.discard \in None .. End
    /\ ~q.audioEnded
    /\ q.videoEnded => ~q.videoExpected
    /\ ~q.videoExpected => q.file = "audio"

\* A session that gives the workers a new order.
Afresh(q) ==
    /\ Flags(q) /\ Timed(q) /\ Cleared(q)
    /\ q.state \in {"opening", "seeking"}
    /\ q.order.kind \in {"open", "seek"} /\ q.order.at \in 0 .. End

\* Some clock runs, or holds a position.
Ticking(p) == p.pausedAt # None \/ (p.anchor # None /\ p.started) \/ p.vclock # None
Keeps(q, p) == Ticking(p) => Ticking(q) \/ q.state \in {"opening", "seeking"}

LEMMA Bounds ==
    /\ End \in Nat /\ End >= 1 /\ AudioEnd \in Nat /\ AudioEnd >= 1 /\ AudioEnd <= End
    /\ SinkCap \in Nat /\ SinkCap >= 1 /\ AudioCap \in Nat /\ AudioCap >= 1
    /\ VideoCap \in Nat /\ VideoCap >= 1
    /\ None \in Int /\ None = 0 - 1 /\ Gone = End + 1 /\ MaxCommands \in Nat
BY ConstantsOK DEF ConstantsOK, None, Gone

LEMMA ReachedBound ==
    ASSUME NEW a \in 0 .. AudioEnd \cup {Gone}
    PROVE  Reached(a) \in 0 .. AudioEnd /\ (a # Gone => Reached(a) = a)
BY Bounds DEF Reached

LEMMA SoundSame ==
    ASSUME NEW p, NEW q, NEW a, Sound(p, a), SameSound(q, p)
    PROVE  Sound(q, a)
BY DEF Sound, SameSound

LEMMA PictureSame ==
    ASSUME NEW p, NEW q, NEW v, Picture(p, v), SamePicture(q, p)
    PROVE  Picture(q, v)
BY DEF Picture, SamePicture

LEMMA TimesSame ==
    ASSUME NEW p, NEW q, Timed(p), SameTimes(q, p),
           p.pausedAt = None \/ q.state \in {"paused", "ended", "error"}
    PROVE  Timed(q)
BY DEF Timed, SameTimes

(* The clock, and the position that is shown.                               *)
LEMMA ClockTicks ==
    ASSUME NEW p, NEW a, Timed(p), Sound(p, a)
    PROVE  /\ Clock(p) # None <=> Ticking(p)
           /\ Clock(p) \in Positions
           /\ Position(p) \in 0 .. End + 1
<1>1. Reached(a) \in 0 .. AudioEnd
      BY ReachedBound DEF Sound
<1>2. /\ p.buffered \in Nat /\ p.sent \in Nat /\ p.anchor \in None .. End
      /\ p.anchor # None => p.anchor + p.sent + Len(p.aq) <= Reached(a)
      /\ Len(p.aq) \in Nat
      BY Bounds DEF Sound
<1>3. Played(p) \in 0 .. p.sent
      BY <1>2 DEF Played
<1>4. p.anchor # None => p.anchor + Played(p) \in 0 .. End
  <2> SUFFICES ASSUME p.anchor # None PROVE p.anchor + Played(p) \in 0 .. End
      OBVIOUS
  <2>1. p.anchor \in Nat /\ Played(p) \in Nat /\ Played(p) <= p.sent
        BY <1>2, <1>3, Bounds
  <2>2. p.anchor + p.sent <= Reached(a) /\ Reached(a) <= End
        BY <1>1, <1>2, <2>1, Bounds
  <2>3. p.anchor + Played(p) <= End
        BY <1>1, <1>2, <2>1, <2>2, Bounds
  <2> QED BY <2>1, <2>3, Bounds
<1>5. p.vclock \in None .. End + 1 /\ p.pausedAt \in None .. End + 1 /\ p.target \in None .. End
      BY DEF Timed, Positions
<1>6. Clock(p) = IF p.pausedAt # None THEN p.pausedAt
                 ELSE IF p.anchor # None /\ p.started THEN p.anchor + Played(p)
                 ELSE p.vclock
      BY DEF Clock
<1>7. (Clock(p) # None <=> Ticking(p)) /\ Clock(p) \in None .. End + 1
      BY <1>4, <1>5, <1>6, Bounds DEF Ticking
<1>8. Position(p) \in 0 .. End + 1
      BY <1>5, <1>7, Bounds DEF Position
<1> QED BY <1>7, <1>8 DEF Positions

LEMMA LeastBound ==
    ASSUME NEW at \in Nat
    PROVE  Least(at, End) \in 0 .. End
BY Bounds DEF Least

-----------------------------------------------------------------------------
(* The handlers that give a new order.                                      *)

LEMMA PreparedClears ==
    ASSUME NEW p, Ready(p),
           NEW rebuild \in BOOLEAN, NEW fresh \in BOOLEAN, NEW wipe \in BOOLEAN,
           fresh \/ p.videoExpected \/ p.file = "audio"
    PROVE  LET q == Prepared(p, rebuild, fresh, wipe) IN
           /\ Flags(q) /\ Timed(q) /\ Cleared(q)
           /\ q.state = p.state /\ q.target = p.target /\ q.pausedAt = None
           /\ q.signal = p.signal /\ q.last = p.last
<1> DEFINE q == Prepared(p, rebuild, fresh, wipe)
<1>1. /\ DOMAIN q = Fields
      /\ q.aq = <<>> /\ q.vq = <<>> /\ q.sent = 0 /\ q.anchor = None
      /\ q.buffered \in {p.buffered, 0} /\ q.discard \in {p.discard, None}
      BY DEF Ready, Flags, Fields, Prepared, ClockReset
<1>2. /\ q.audioEnded = FALSE /\ q.audioExpected = (p.audioExpected /\ ~fresh)
      /\ q.videoExpected = (fresh \/ p.videoExpected)
      /\ q.videoEnded = ~(fresh \/ p.videoExpected)
      /\ q.started = FALSE /\ q.file = p.file /\ q.selected = (p.selected /\ ~wipe)
      BY DEF Ready, Flags, Fields, Prepared, ClockReset
<1>3. /\ q.vclock = None /\ q.pausedAt = None /\ q.target = p.target /\ q.last = p.last
      /\ q.in = p.in /\ q.out = p.out
      BY DEF Ready, Flags, Fields, Prepared, ClockReset
<1>4. /\ q.state = p.state /\ q.pauseAfter = p.pauseAfter /\ q.settling = p.settling
      /\ q.landed = p.landed /\ q.normal = p.normal /\ q.loop = p.loop
      /\ q.replay = p.replay /\ q.signal = p.signal
      BY DEF Ready, Flags, Fields, Prepared, ClockReset
<1> HIDE DEF q
<1>5. Flags(q)
      BY <1>1, <1>2, <1>4 DEF Ready, Flags
<1>6. None \in Positions /\ None \in None .. End /\ 0 \in 0 .. SinkCap
      BY Bounds DEF Positions
<1>7. Timed(q)
      BY <1>3, <1>6 DEF Ready, Timed
<1>8. Cleared(q)
      BY <1>1, <1>2, <1>6 DEF Ready, Cleared
<1> QED BY <1>3, <1>4, <1>5, <1>7, <1>8 DEF q

\* The fields Pending and the orders change, by the others.
LEMMA PendingTimed ==
    ASSUME NEW r, Flags(r), Timed(r), Cleared(r), r.pausedAt = None,
           NEW at \in 0 .. End, NEW kind \in {"open", "seek"}
    PROVE  LET q == [Pending(r, at) EXCEPT !.order = Order(kind, at)] IN
           /\ Afresh(q) /\ q.state = "seeking"
           /\ q.signal = r.signal /\ q.last = r.last
<1> DEFINE q == [Pending(r, at) EXCEPT !.order = Order(kind, at)]
<1>1. /\ DOMAIN q = Fields /\ q.state = "seeking" /\ q.target = at /\ q.discard = at
      /\ q.settling = TRUE /\ q.landed = FALSE /\ q.order = Order(kind, at)
      BY DEF Flags, Fields, Pending
<1>2. /\ q.aq = r.aq /\ q.vq = r.vq /\ q.sent = r.sent /\ q.anchor = r.anchor
      /\ q.buffered = r.buffered /\ q.audioEnded = r.audioEnded
      /\ q.videoEnded = r.videoEnded /\ q.videoExpected = r.videoExpected /\ q.file = r.file
      BY DEF Flags, Fields, Pending
<1>3. /\ q.vclock = r.vclock /\ q.pausedAt = r.pausedAt /\ q.last = r.last
      /\ q.in = r.in /\ q.out = r.out
      BY DEF Flags, Fields, Pending
<1>4. /\ q.started = r.started /\ q.pauseAfter = r.pauseAfter
      /\ q.audioExpected = r.audioExpected /\ q.selected = r.selected /\ q.normal = r.normal
      /\ q.loop = r.loop /\ q.replay = r.replay /\ q.signal = r.signal
      BY DEF Flags, Fields, Pending
<1> HIDE DEF q
<1>5. Flags(q)
      BY <1>1, <1>2, <1>4 DEF Flags, States
<1>6. at \in None .. End
      BY Bounds
<1>7. Timed(q)
      BY <1>1, <1>3, <1>6 DEF Timed
<1>8. Cleared(q)
      BY <1>1, <1>2, <1>6 DEF Cleared
<1>9. q.order.kind = kind /\ q.order.at = at
      BY <1>1 DEF Order
<1> QED BY <1>1, <1>3, <1>4, <1>5, <1>7, <1>8, <1>9 DEF Afresh, q

LEMMA GoodIsReady ==
    ASSUME NEW p, NEW v, NEW a, Good(p, v, a)
    PROVE  Ready(p) /\ (p.videoExpected \/ p.file = "audio")
BY DEF Good, Ready, Sound, Picture

(* A seek that is not rejected gives a new order.                           *)
LEMMA SoughtAfresh ==
    ASSUME NEW p, NEW v, NEW a, Good(p, v, a), NEW at \in Nat
    PROVE  LET q == Sought(p, at) IN
           /\ q.signal = p.signal /\ q.last = p.last
           /\ \/ p.state \in {"idle", "opening", "error"} /\ q = p
              \/ /\ p.state \notin {"idle", "opening", "error"}
                 /\ Afresh(q) /\ q.state = "seeking"
<1>1. CASE p.state \in {"idle", "opening", "error"}
      BY <1>1 DEF Sought
<1>2. CASE p.state \notin {"idle", "opening", "error"}
  <2> DEFINE r == Prepared(p, FALSE, FALSE, FALSE)
             to == Least(at, End)
  <2>1. /\ Flags(r) /\ Timed(r) /\ Cleared(r) /\ r.pausedAt = None
        /\ r.signal = p.signal /\ r.last = p.last
        BY GoodIsReady, PreparedClears
  <2>2. Sought(p, at) = [Pending(r, to) EXCEPT !.order = Order("seek", to)]
        BY <1>2 DEF Sought
  <2>3. to \in 0 .. End
        BY LeastBound
  <2> HIDE DEF r, to
  <2> DEFINE q == [Pending(r, to) EXCEPT !.order = Order("seek", to)]
  <2>4. Afresh(q) /\ q.state = "seeking" /\ q.signal = r.signal /\ q.last = r.last
        BY <2>1, <2>3, PendingTimed
  <2> HIDE DEF q
  <2>5. Sought(p, at) = q
        BY <2>2 DEF q
  <2> QED BY <1>2, <2>1, <2>4, <2>5
<1> QED BY <1>1, <1>2

LEMMA EndpointAfresh ==
    ASSUME NEW p, NEW v, NEW a, Good(p, v, a)
    PROVE  LET q == EndpointRecovered(p) IN
           Afresh(q) /\ q.state = "seeking" /\ q.signal = p.signal /\ q.last = p.last
<1> DEFINE r == Prepared(p, TRUE, FALSE, TRUE)
           at == Least(Position(p), End)
<1>1. /\ Flags(r) /\ Timed(r) /\ Cleared(r) /\ r.pausedAt = None
      /\ r.signal = p.signal /\ r.last = p.last
      BY GoodIsReady, PreparedClears
<1>2. EndpointRecovered(p) = [Pending(r, at) EXCEPT !.order = Order("open", at)]
      BY DEF EndpointRecovered
<1>3. Position(p) \in Nat
      BY ClockTicks, Bounds DEF Good
<1>4. at \in 0 .. End
      BY <1>3, LeastBound
<1> HIDE DEF r, at
<1> DEFINE q == [Pending(r, at) EXCEPT !.order = Order("open", at)]
<1>5. Afresh(q) /\ q.state = "seeking" /\ q.signal = r.signal /\ q.last = r.last
      BY <1>1, <1>4, PendingTimed
<1> HIDE DEF q
<1>6. EndpointRecovered(p) = q
      BY <1>2 DEF q
<1> QED BY <1>1, <1>5, <1>6

LEMMA DeviceAfresh ==
    ASSUME NEW p, NEW v, NEW a, Good(p, v, a)
    PROVE  LET q == DeviceRecovered(p) IN
           Afresh(q) /\ q.state = "seeking" /\ q.signal = p.signal /\ q.last = p.last
<1> DEFINE r == Prepared(p, FALSE, FALSE, TRUE)
           at == Least(Position(p), End)
           q == DeviceRecovered(p)
<1>1. /\ Flags(r) /\ Timed(r) /\ Cleared(r) /\ r.pausedAt = None
      /\ r.signal = p.signal /\ r.last = p.last
      BY GoodIsReady, PreparedClears
<1>2. q = [r EXCEPT !.state = "seeking", !.order = Order("open", at)]
      BY DEF DeviceRecovered
<1>3. Position(p) \in Nat
      BY ClockTicks, Bounds DEF Good
<1>4. at \in 0 .. End
      BY <1>3, LeastBound
<1> HIDE DEF r, at, q
<1>5. /\ q.state = "seeking" /\ q.order = Order("open", at)
      /\ \A f \in Fields \ {"state", "order"} : q[f] = r[f]
      /\ DOMAIN q = Fields
      BY <1>1, <1>2 DEF Flags, Fields
<1>6. Flags(q) /\ q.signal = r.signal /\ q.last = r.last
      BY <1>1, <1>5 DEF Flags, Fields, States
<1>7. SameTimes(q, r)
      BY <1>5 DEF SameTimes, Fields
<1>8. Timed(q)
      BY <1>1, <1>7, TimesSame
<1>9. Cleared(q)
      BY <1>1, <1>5 DEF Cleared, Fields
<1>10. q.order.kind = "open" /\ q.order.at = at
      BY <1>5 DEF Order
<1> QED BY <1>1, <1>4, <1>5, <1>6, <1>8, <1>9, <1>10 DEF Afresh, q

LEMMA OpenedAfresh ==
    ASSUME NEW p, NEW v, NEW a, Good(p, v, a), NEW file \in Files, NEW start \in 0 .. End
    PROVE  LET q == Opened(p, file, start) IN
           Afresh(q) /\ q.state = "opening" /\ q.signal = FALSE /\ q.last = None
<1> DEFINE o == [p EXCEPT !.file = file]
           r == Prepared(o, TRUE, TRUE, TRUE)
           q == Opened(p, file, start)
<1>1. /\ o.file = file /\ DOMAIN o = Fields
      /\ \A f \in Fields \ {"file"} : o[f] = p[f]
      BY DEF Good, Flags, Fields
<1>2. q = [r EXCEPT !.state = "opening", !.order = Order("open", start), !.signal = FALSE,
                    !.normal = TRUE, !.last = None, !.in = None, !.out = None, !.loop = FALSE]
      BY DEF Opened
<1> HIDE DEF o
<1>3. Flags(o)
      BY <1>1 DEF Good, Flags, Fields
<1>4. SameTimes(o, p) /\ o.state = p.state
      BY <1>1 DEF SameTimes, Fields
<1>5. Timed(o)
      BY <1>4 DEF Good, Timed, SameTimes
<1>6. o.buffered = p.buffered /\ o.discard = p.discard
      BY <1>1 DEF Fields
<1>7. Ready(o)
      BY <1>3, <1>5, <1>6, GoodIsReady DEF Ready
<1>8. Flags(r) /\ Timed(r) /\ Cleared(r) /\ r.pausedAt = None
      BY <1>7, PreparedClears
<1> HIDE DEF r, q
<1>9. /\ q.state = "opening" /\ q.order = Order("open", start) /\ q.signal = FALSE
      /\ q.normal = TRUE /\ q.last = None /\ q.in = None /\ q.out = None /\ q.loop = FALSE
      /\ DOMAIN q = Fields
      /\ \A f \in Fields \ {"state", "order", "signal", "normal", "last", "in", "out", "loop"} :
            q[f] = r[f]
      BY <1>2, <1>8 DEF Flags, Fields
<1>10. Flags(q)
  <2>1. /\ q.file = r.file /\ q.started = r.started /\ q.pauseAfter = r.pauseAfter
        /\ q.settling = r.settling /\ q.landed = r.landed /\ q.replay = r.replay
        /\ q.videoExpected = r.videoExpected /\ q.videoEnded = r.videoEnded
        /\ q.audioExpected = r.audioExpected /\ q.audioEnded = r.audioEnded
        /\ q.selected = r.selected
        BY <1>9 DEF Fields
  <2> QED BY <1>8, <1>9, <2>1 DEF Flags, States
<1>11. q.pausedAt = None /\ q.vclock = r.vclock /\ q.target = r.target
      BY <1>8, <1>9 DEF Fields
<1>12. None \in Positions
      BY Bounds DEF Positions
<1>13. Timed(q)
      BY <1>8, <1>9, <1>11, <1>12 DEF Timed
<1>14. Cleared(q)
      BY <1>8, <1>9 DEF Cleared, Fields
<1>15. q.order.kind = "open" /\ q.order.at = start
      BY <1>9 DEF Order
<1> QED BY <1>9, <1>10, <1>13, <1>14, <1>15 DEF Afresh, q

-----------------------------------------------------------------------------
(* The handlers that go on with the order the workers have.                 *)

\* The fields of F may differ, the others do not.
But(q, p, F) == DOMAIN q = Fields /\ \A f \in Fields \ F : q[f] = p[f]

\* A handler either gives a new order or leaves the workers theirs.
Onward(q, p, v, a) ==
    /\ Calm(q, p)
    /\ Afresh(q) \/ (Good(q, v, a) /\ q.order = p.order)

LEMMA KeptSound ==
    ASSUME NEW p, NEW q, NEW F, But(q, p, F),
           {"aq", "buffered", "sent", "anchor", "audioEnded"} \cap F = {}
    PROVE  SameSound(q, p)
BY DEF But, Fields, SameSound

LEMMA KeptPicture ==
    ASSUME NEW p, NEW q, NEW F, But(q, p, F),
           {"vq", "discard", "videoEnded", "videoExpected", "file"} \cap F = {}
    PROVE  SamePicture(q, p)
BY DEF But, Fields, SamePicture

LEMMA KeptTimes ==
    ASSUME NEW p, NEW q, NEW F, But(q, p, F),
           {"vclock", "pausedAt", "target", "last", "in", "out"} \cap F = {}
    PROVE  SameTimes(q, p)
BY DEF But, Fields, SameTimes

\* The flags a handler sets are flags, and the others were.
FlagNames == {"started", "pauseAfter", "settling", "landed", "videoExpected", "videoEnded",
              "audioExpected", "audioEnded", "selected", "normal", "loop", "replay", "signal"}

LEMMA KeptFlags ==
    ASSUME NEW p, NEW q, NEW F, But(q, p, F), Flags(p),
           q.state \in States, "file" \notin F,
           \A f \in FlagNames \cap F : q[f] \in BOOLEAN
    PROVE  Flags(q)
<1>1. \A f \in FlagNames : p[f] \in BOOLEAN
      BY DEF Flags, FlagNames
<1>2. \A f \in FlagNames : q[f] \in BOOLEAN
      BY <1>1 DEF But, FlagNames, Fields
<1>3. q.file = p.file
      BY DEF But, Fields
<1> QED BY <1>2, <1>3 DEF Flags, FlagNames, But

(* A failure stops the workers and clears the picture.                      *)
LEMMA FailedGood ==
    ASSUME NEW p, NEW v, NEW a, Good(p, v, a)
    PROVE  LET q == Failed(p) IN
           /\ Good(q, v, a) /\ Calm(q, p) /\ Keeps(q, p)
           /\ q.order.kind = "stop"
<1> DEFINE q == Failed(p)
           F == {"state", "order", "vq", "selected", "target"}
<1>1. /\ But(q, p, F)
      /\ q.state = "error" /\ q.order.kind = "stop" /\ q.vq = <<>> /\ q.selected = FALSE
      /\ q.target = None
      BY DEF Good, Flags, Fields, Failed, But, Order
<1> HIDE DEF q
<1>2. Flags(q)
      BY <1>1, KeptFlags DEF Good, FlagNames, States
<1>3. Sound(q, a) /\ SameSound(q, p)
      BY <1>1, KeptSound, SoundSame DEF Good
<1>4. /\ q.discard = p.discard /\ q.videoEnded = p.videoEnded
      /\ q.videoExpected = p.videoExpected /\ q.file = p.file
      BY <1>1 DEF But, Fields
<1>5. Picture(q, v)
      BY <1>1, <1>4, Bounds DEF Good, Picture
<1>6. /\ q.vclock = p.vclock /\ q.pausedAt = p.pausedAt /\ q.last = p.last
      /\ q.in = p.in /\ q.out = p.out /\ q.signal = p.signal /\ q.started = p.started
      BY <1>1 DEF But, Fields
<1>7. None \in None .. End
      BY Bounds
<1>8. Timed(q)
      BY <1>1, <1>6, <1>7 DEF Good, Timed
<1> QED BY <1>1, <1>2, <1>3, <1>5, <1>6, <1>8 DEF Good, Calm, Keeps, Ticking, SameSound, q

LEMMA PauseSetGood ==
    ASSUME NEW p, NEW v, NEW a, Good(p, v, a), NEW b \in BOOLEAN
    PROVE  LET q == [p EXCEPT !.pauseAfter = b] IN
           /\ Good(q, v, a) /\ But(q, p, {"pauseAfter"}) /\ q.pauseAfter = b
<1> DEFINE q == [p EXCEPT !.pauseAfter = b]
<1>1. But(q, p, {"pauseAfter"}) /\ q.pauseAfter = b
      BY DEF Good, Flags, Fields, But
<1> HIDE DEF q
<1>2. q.state = p.state
      BY <1>1 DEF But, Fields
<1>3. Flags(q)
      BY <1>1, <1>2, KeptFlags DEF Good, Flags
<1>4. Sound(q, a) /\ Picture(q, v)
      BY <1>1, KeptSound, SoundSame, KeptPicture, PictureSame DEF Good
<1>5. Timed(q)
      BY <1>1, <1>2, KeptTimes DEF Good, Timed, SameTimes
<1> QED BY <1>1, <1>3, <1>4, <1>5 DEF Good, q

LEMMA PendingToggledOnward ==
    ASSUME NEW p, NEW v, NEW a, Good(p, v, a), SeekPending(p)
    PROVE  LET q == PendingToggled(p) IN
           /\ Onward(q, p, v, a)
           /\ Keeps(q, p) \/ (~p.pauseAfter /\ q.pauseAfter)
<1> DEFINE q == PendingToggled(p)
<1>1. CASE ~p.pauseAfter
  <2> DEFINE F == {"pauseAfter", "started"}
  <2>1. But(q, p, F) /\ q.pauseAfter = TRUE /\ q.started = FALSE
        BY <1>1 DEF PendingToggled, Good, Flags, Fields, But
  <2> HIDE DEF q
  <2>2. /\ q.state = p.state /\ q.signal = p.signal /\ q.order = p.order
        /\ q.state \in States
        BY <2>1 DEF Good, Flags, But, Fields
  <2>3. Flags(q)
        BY <2>1, <2>2, KeptFlags DEF Good, FlagNames
  <2>4. Sound(q, a) /\ Picture(q, v)
        BY <2>1, KeptSound, SoundSame, KeptPicture, PictureSame DEF Good
  <2>5. Timed(q) /\ SameTimes(q, p)
        BY <2>1, <2>2, KeptTimes DEF Good, Timed, SameTimes
  <2> QED BY <1>1, <2>1, <2>2, <2>3, <2>4, <2>5 DEF Good, Onward, Calm, SameTimes, q
<1>2. CASE p.pauseAfter
  <2> DEFINE o == [p EXCEPT !.pauseAfter = FALSE]
             at == IF OutsideRange(p, Position(p)) THEN ReplayAt(p) ELSE Position(p)
  <2>1. Good(o, v, a) /\ But(o, p, {"pauseAfter"})
        BY PauseSetGood
  <2>2. o.state = p.state /\ o.signal = p.signal /\ o.last = p.last
        BY <2>1 DEF But, Fields
  <2>3. at \in Nat
        BY ClockTicks, Bounds DEF Good, ReplayAt, Timed, Positions
  <2>4. q = Sought(o, at)
        BY <1>2 DEF PendingToggled
  <2> HIDE DEF o, at
  <2>5. Sought(o, at).signal = o.signal /\ Sought(o, at).last = o.last
        /\ Afresh(Sought(o, at)) /\ Sought(o, at).state = "seeking"
        BY <2>1, <2>2, <2>3, SoughtAfresh DEF SeekPending
  <2> HIDE DEF q
  <2> QED BY <2>2, <2>4, <2>5 DEF Onward, Calm, Keeps, q
<1> QED BY <1>1, <1>2 DEF Good, Flags

LEMMA PausedNowGood ==
    ASSUME NEW p, NEW v, NEW a, Good(p, v, a)
    PROVE  LET q == PausedNow(p) IN
           Good(q, v, a) /\ q.order = p.order /\ Calm(q, p) /\ Keeps(q, p)
<1> DEFINE q == PausedNow(p)
           F == {"state", "pausedAt", "started"}
<1>1. /\ But(q, p, F)
      /\ q.state = "paused" /\ q.pausedAt = Clock(p) /\ q.started = FALSE
      BY DEF Good, Flags, Fields, PausedNow, But
<1> HIDE DEF q
<1>2. Flags(q)
      BY <1>1, KeptFlags DEF Good, FlagNames, States
<1>3. Sound(q, a) /\ Picture(q, v)
      BY <1>1, KeptSound, SoundSame, KeptPicture, PictureSame DEF Good
<1>4. /\ q.vclock = p.vclock /\ q.last = p.last /\ q.in = p.in /\ q.out = p.out
      /\ q.target = p.target /\ q.signal = p.signal /\ q.order = p.order
      BY <1>1 DEF But, Fields
<1>5. Clock(p) \in Positions /\ (Clock(p) # None <=> Ticking(p))
      BY ClockTicks DEF Good
<1>6. Timed(q)
      BY <1>1, <1>4, <1>5 DEF Good, Timed
<1>7. Keeps(q, p)
      BY <1>1, <1>5 DEF Keeps, Ticking
<1> QED BY <1>2, <1>3, <1>4, <1>6, <1>7 DEF Good, Calm, q

LEMMA ResumedGood ==
    ASSUME NEW p, NEW v, NEW a, Good(p, v, a)
    PROVE  LET q == Resumed(p) IN
           Good(q, v, a) /\ q.order = p.order /\ Calm(q, p) /\ Keeps(q, p)
<1> DEFINE q == Resumed(p)
           F == {"pausedAt", "state", "started", "buffered", "vclock"}
<1>1. /\ But(q, p, F)
      /\ q.pausedAt = None /\ q.state \in {"playing", "priming"} /\ q.started \in BOOLEAN
      /\ \/ /\ p.anchor # None /\ q.started /\ q.buffered = p.buffered /\ q.vclock = p.vclock
         \/ /\ q.buffered = 0
            /\ q.vclock = IF p.pausedAt # None THEN p.pausedAt ELSE 0
      BY DEF Good, Flags, Fields, Resumed, But
<1> HIDE DEF q
<1>2. Flags(q)
      BY <1>1, KeptFlags DEF Good, FlagNames, States
<1>3. /\ q.aq = p.aq /\ q.sent = p.sent /\ q.anchor = p.anchor /\ q.audioEnded = p.audioEnded
      BY <1>1 DEF But, Fields
<1>4. q.buffered \in 0 .. SinkCap
      BY <1>1, Bounds DEF Good, Sound
<1>5. Sound(q, a)
      BY <1>3, <1>4 DEF Good, Sound
<1>6. Picture(q, v)
      BY <1>1, KeptPicture, PictureSame DEF Good
<1>7. /\ q.last = p.last /\ q.in = p.in /\ q.out = p.out
      /\ q.target = p.target /\ q.signal = p.signal /\ q.order = p.order
      BY <1>1 DEF But, Fields
<1>8. None \in Positions /\ 0 \in Positions /\ None # 0
      BY Bounds DEF Positions
<1>9. q.vclock \in Positions
      BY <1>1, <1>8 DEF Good, Timed
<1>10. Timed(q)
      BY <1>1, <1>7, <1>8, <1>9 DEF Good, Timed
<1>11. Keeps(q, p)
      BY <1>1, <1>3, <1>8 DEF Keeps, Ticking
<1> QED BY <1>2, <1>5, <1>6, <1>7, <1>10, <1>11 DEF Good, Calm, q

LEMMA AfreshGood ==
    ASSUME NEW q, Afresh(q), NEW v \in 0 .. Gone, v >= End \/ q.videoExpected,
           NEW a \in 0 .. AudioEnd \cup {Gone}
    PROVE  Good(q, v, a)
<1>1. Flags(q) /\ Timed(q) /\ Cleared(q)
      BY DEF Afresh
<1>2. Len(<<>>) = 0 /\ \A V : <<>> \in Seq(V)
      OBVIOUS
<1>3. Reached(a) \in Nat
      BY ReachedBound, Bounds
<1>4. Sound(q, a)
      BY <1>1, <1>2, <1>3, Bounds DEF Sound, Cleared
<1>5. Picture(q, v)
      BY <1>1, <1>2, Bounds DEF Picture, Cleared
<1> QED BY <1>1, <1>4, <1>5 DEF Good

LEMMA ShapedGood ==
    ASSUME NEW p, NEW v, NEW a, Good(p, v, a)
    PROVE  Shaped(p)
<1>1. p.aq \in Seq(0 .. AudioEnd - 1)
      BY DEF Good, Sound
<1>2. IsSequence(p.aq)
      BY <1>1 DEF IsSequence
<1>3. p.buffered \in Int /\ p.buffered <= SinkCap
      BY Bounds DEF Good, Sound
<1> QED BY <1>2, <1>3 DEF Good, Flags, Shaped

(* What Space does: only a pause that waits for the picture of a seek may   *)
(* lose the clock.                                                          *)
LEMMA ToggledOnward ==
    ASSUME NEW p, NEW v, NEW a, Good(p, v, a)
    PROVE  LET q == Toggled(p) IN
           /\ Onward(q, p, v, a)
           /\ Keeps(q, p) \/ (SeekPending(p) /\ ~p.pauseAfter /\ q.pauseAfter)
           /\ p.state \in {"idle", "opening", "error"} => q = p
           /\ p.state \notin {"idle", "opening", "error"}
                 => q.state \notin {"idle", "opening", "error"}
<1>1. ReplayAt(p) \in Nat
      BY Bounds DEF Good, ReplayAt, Timed, Positions
<1>2. p.state \in States
      BY DEF Good, Flags
<1>3. CASE SeekPending(p)
  <2>1. Toggled(p) = PendingToggled(p)
        BY <1>3 DEF Toggled, SeekPending
  <2>2. /\ Onward(PendingToggled(p), p, v, a)
        /\ Keeps(PendingToggled(p), p) \/ (~p.pauseAfter /\ PendingToggled(p).pauseAfter)
        BY <1>3, PendingToggledOnward
  <2>3. PendingToggled(p).state \in {p.state, "seeking"}
        BY <1>3, ShapedGood, PendingToggledKeeps
  <2> QED BY <1>3, <2>1, <2>2, <2>3 DEF SeekPending
<1>4. CASE ~SeekPending(p) /\ p.state \in {"playing", "draining", "priming"}
  <2>1. Toggled(p) = PausedNow(p)
        BY <1>4 DEF Toggled, SeekPending
  <2>2. PausedNow(p).state = "paused"
        BY ShapedGood, PausedNowKeeps
  <2> QED BY <1>4, <2>1, <2>2, PausedNowGood DEF Onward
<1>5. CASE p.state = "paused" /\ OutsideRange(p, Position(p))
  <2> DEFINE o == [p EXCEPT !.pauseAfter = FALSE]
  <2>1. Good(o, v, a) /\ But(o, p, {"pauseAfter"})
        BY PauseSetGood
  <2>2. o.state = p.state /\ o.signal = p.signal /\ o.last = p.last
        BY <2>1 DEF But, Fields
  <2>3. Toggled(p) = Sought(o, ReplayAt(p))
        BY <1>5 DEF Toggled, SeekPending
  <2> HIDE DEF o
  <2> QED BY <1>1, <1>5, <2>1, <2>2, <2>3, SoughtAfresh DEF Onward, Calm, Keeps
<1>6. CASE \/ p.state = "paused" /\ ~OutsideRange(p, Position(p)) /\ NothingLeft(p)
           \/ p.state = "ended"
  <2>1. Toggled(p) = Sought(p, ReplayAt(p))
        BY <1>6 DEF Toggled, SeekPending
  <2> QED BY <1>1, <1>6, <2>1, SoughtAfresh DEF Onward, Calm, Keeps
<1>7. CASE p.state = "paused" /\ ~OutsideRange(p, Position(p)) /\ ~NothingLeft(p)
  <2>1. Toggled(p) = Resumed(p)
        BY <1>7 DEF Toggled, SeekPending
  <2>2. Resumed(p).state \in {"playing", "priming"}
        BY ShapedGood, ResumedKeeps
  <2> QED BY <1>7, <2>1, <2>2, ResumedGood DEF Onward
<1>8. CASE p.state \in {"idle", "opening", "error"}
  <2>1. Toggled(p) = p
        BY <1>8 DEF Toggled, SeekPending
  <2> QED BY <1>8, <2>1 DEF Onward, Calm, Keeps
<1> QED BY <1>2, <1>3, <1>4, <1>5, <1>6, <1>7, <1>8 DEF States, SeekPending

(* A frame step of a session that plays or pauses is a seek.                *)
LEMMA SteppedOnward ==
    ASSUME NEW p, NEW v, NEW a, Good(p, v, a), NEW by \in {-1, 1}
    PROVE  LET q == Stepped(p, by) IN Onward(q, p, v, a) /\ Keeps(q, p)
<1> DEFINE q == IF p.state \in {"paused", "ended"} THEN p ELSE Toggled(p)
           o == [q EXCEPT !.pauseAfter = TRUE]
           at == IF q.target # None THEN q.target
                 ELSE IF q.last # None THEN q.last ELSE Position(q)
           to == IF at + by < 0 THEN 0 ELSE at + by
<1>1. /\ Onward(q, p, v, a)
      /\ p.state \in {"idle", "opening", "error"} => q = p
      /\ p.state \notin {"idle", "opening", "error"}
            => q.state \notin {"idle", "opening", "error"}
  <2>1. CASE p.state \in {"paused", "ended"}
        BY <2>1 DEF Onward, Calm
  <2>2. CASE p.state \notin {"paused", "ended"}
        BY <2>2, ToggledOnward
  <2> QED BY <2>1, <2>2
<1> HIDE DEF q
<1>2. PICK w, b : Good(q, w, b)
  <2>1. Gone \in 0 .. Gone /\ Gone >= End
        BY Bounds
  <2>2. Afresh(q) => Good(q, Gone, Gone)
        BY <2>1, AfreshGood
  <2> QED BY <1>1, <2>2 DEF Onward
<1>3. Good(o, w, b) /\ But(o, q, {"pauseAfter"})
      BY <1>2, PauseSetGood
<1>4. /\ o.state = q.state /\ o.signal = q.signal /\ o.last = q.last
      BY <1>3 DEF But, Fields
<1>5. at \in Nat
  <2>1. Position(q) \in 0 .. End + 1
        BY <1>2, ClockTicks DEF Good
  <2>2. q.target \in None .. End /\ q.last \in None .. End + 1
        BY <1>2 DEF Good, Timed, Positions
  <2> QED BY <2>1, <2>2, Bounds
<1>6. Stepped(p, by) = Sought(o, to)
      BY DEF Stepped, q
<1> HIDE DEF o, at
<1>7. to \in Nat
      BY <1>5
<1> HIDE DEF to
<1>8. CASE p.state \notin {"idle", "opening", "error"}
  <2>1. /\ Sought(o, to).signal = o.signal /\ Sought(o, to).last = o.last
        /\ Afresh(Sought(o, to)) /\ Sought(o, to).state = "seeking"
        BY <1>1, <1>3, <1>4, <1>7, <1>8, SoughtAfresh
  <2> QED BY <1>1, <1>4, <1>6, <2>1 DEF Onward, Calm, Keeps
<1>9. CASE p.state \in {"idle", "opening", "error"}
  <2>1. Stepped(p, by) = o /\ q = p
        BY <1>1, <1>4, <1>6, <1>9 DEF Sought
  <2>2. Good(o, v, a) /\ But(o, p, {"pauseAfter"})
        BY <2>1, PauseSetGood DEF o
  <2>3. /\ o.signal = p.signal /\ o.last = p.last /\ o.order = p.order
        /\ o.pausedAt = p.pausedAt /\ o.anchor = p.anchor /\ o.started = p.started
        /\ o.vclock = p.vclock
        BY <2>2 DEF But, Fields
  <2> QED BY <2>1, <2>2, <2>3 DEF Onward, Calm, Keeps, Ticking
<1> QED BY <1>8, <1>9

\* A handler leaves the workers the order they have.
GoesOn(q, p, v, a) == Good(q, v, a) /\ q.order = p.order /\ Calm(q, p)

(* A change of the rate drops the queued sound and both clocks.             *)
LEMMA RateGood ==
    ASSUME NEW p, NEW v, NEW a, Good(p, v, a), NEW normal \in BOOLEAN
    PROVE  LET q == RateChanged(p, normal) IN GoesOn(q, p, v, a)
<1> DEFINE q == RateChanged(p, normal)
           F == {"anchor", "sent", "normal", "vclock", "aq"}
<1>1. /\ But(q, p, F)
      /\ q.anchor = None /\ q.sent = 0 /\ q.normal = normal /\ q.vclock = None /\ q.aq = <<>>
      BY DEF Good, Flags, Fields, RateChanged, ClockReset, But
<1> HIDE DEF q
<1>2. /\ q.state = p.state /\ q.buffered = p.buffered /\ q.audioEnded = p.audioEnded
      /\ q.pausedAt = p.pausedAt /\ q.last = p.last /\ q.in = p.in /\ q.out = p.out
      /\ q.target = p.target /\ q.signal = p.signal /\ q.order = p.order
      BY <1>1 DEF But, Fields
<1>3. q.state \in States
      BY <1>2 DEF Good, Flags
<1>4. Flags(q)
      BY <1>1, <1>3, KeptFlags DEF Good, FlagNames
<1>5. Len(<<>>) = 0 /\ \A V : <<>> \in Seq(V)
      OBVIOUS
<1>6. Sound(q, a)
      BY <1>1, <1>2, <1>5, Bounds DEF Good, Sound
<1>7. Picture(q, v)
      BY <1>1, KeptPicture, PictureSame DEF Good
<1>8. None \in Positions
      BY Bounds DEF Positions
<1>9. Timed(q)
      BY <1>1, <1>2, <1>8 DEF Good, Timed
<1> QED BY <1>2, <1>4, <1>6, <1>7, <1>9 DEF Good, GoesOn, Calm, q

\* The fields of F may differ, and none of them is about sound, picture or clocks.
LEMMA FlagsChanged ==
    ASSUME NEW p, NEW q, NEW v, NEW a, NEW F, Good(p, v, a), But(q, p, F),
           F \cap {"aq", "buffered", "sent", "anchor", "audioEnded",
                   "vq", "discard", "videoEnded", "videoExpected", "file",
                   "vclock", "pausedAt", "target", "last", "in", "out", "order"} = {},
           q.state \in States, \A f \in FlagNames \cap F : q[f] \in BOOLEAN,
           p.pausedAt = None \/ q.state \in {"paused", "ended", "error"},
           q.signal => p.signal
    PROVE  GoesOn(q, p, v, a)
<1>1. Flags(q)
      BY KeptFlags DEF Good
<1>2. SameSound(q, p)
      BY KeptSound
<1>3. SamePicture(q, p)
      BY KeptPicture
<1>4. SameTimes(q, p)
      BY KeptTimes
<1>5. Sound(q, a) /\ Picture(q, v)
      BY <1>2, <1>3, SoundSame, PictureSame DEF Good
<1>6. Timed(q)
      BY <1>4, TimesSame DEF Good
<1>7. q.order = p.order
      BY DEF But, Fields
<1> QED BY <1>1, <1>4, <1>5, <1>6, <1>7 DEF Good, GoesOn, Calm, SameTimes

\* Where the session was paused before, it still is.
LEMMA PausedKept ==
    ASSUME NEW p, NEW q, Timed(p), q.state = p.state
    PROVE  p.pausedAt = None \/ q.state \in {"paused", "ended", "error"}
BY DEF Timed

LEMMA ClipGood ==
    ASSUME NEW p, NEW v, NEW a, Good(p, v, a), NEW at \in 0 .. End + 1,
           NEW q \in {InSet(p, at), OutSet(p, at), InCleared(p), OutCleared(p), LoopToggled(p)}
    PROVE  GoesOn(q, p, v, a) /\ Keeps(q, p)
<1> DEFINE F == {"in", "out", "loop", "replay"}
<1>1. /\ But(q, p, F)
      /\ q.in \in {p.in, at, None} /\ q.out \in {p.out, at, None}
      /\ q.loop \in BOOLEAN /\ q.replay \in BOOLEAN
  <2>1. DOMAIN p = Fields /\ p.loop \in BOOLEAN /\ p.replay \in BOOLEAN
        BY DEF Good, Flags
  <2>2. CASE q = InSet(p, at)
        BY <2>1, <2>2 DEF InSet, Fields, But
  <2>3. CASE q = OutSet(p, at)
        BY <2>1, <2>3 DEF OutSet, Fields, But
  <2>4. CASE q = InCleared(p)
        BY <2>1, <2>4 DEF InCleared, Fields, But
  <2>5. CASE q = OutCleared(p)
        BY <2>1, <2>5 DEF OutCleared, Fields, But
  <2>6. CASE q = LoopToggled(p)
        BY <2>1, <2>6 DEF LoopToggled, Fields, But
  <2> QED BY <2>2, <2>3, <2>4, <2>5, <2>6
<1>2. /\ q.state = p.state /\ q.pausedAt = p.pausedAt /\ q.last = p.last
      /\ q.vclock = p.vclock /\ q.target = p.target /\ q.signal = p.signal
      /\ q.order = p.order /\ q.started = p.started
      BY <1>1 DEF But, Fields
<1>3. q.state \in States
      BY <1>2 DEF Good, Flags
<1>4. Flags(q)
      BY <1>1, <1>3, KeptFlags DEF Good, FlagNames
<1>5. SameSound(q, p) /\ SamePicture(q, p)
      BY <1>1, KeptSound, KeptPicture
<1>6. Sound(q, a) /\ Picture(q, v)
      BY <1>5, SoundSame, PictureSame DEF Good
<1>7. None \in Positions /\ at \in Positions
      BY Bounds DEF Positions
<1>8. Timed(q)
      BY <1>1, <1>2, <1>7 DEF Good, Timed
<1> QED BY <1>2, <1>4, <1>5, <1>6, <1>8 DEF Good, GoesOn, Calm, Keeps, Ticking, SameSound

(* The first frame of an operation ends its opening or seeking.             *)
LEMMA PrimedGood ==
    ASSUME NEW p, NEW v, NEW a, Good(p, v, a)
    PROVE  LET q == Primed(p) IN GoesOn(q, p, v, a) /\ But(q, p, {"state"})
<1> DEFINE q == Primed(p)
<1>1. But(q, p, {"state"}) /\ q.state \in States
      /\ (q.state = p.state \/ p.state \in {"opening", "seeking"})
      BY DEF Primed, Good, Flags, Fields, But, States
<1> HIDE DEF q
<1>2. p.pausedAt = None \/ q.state \in {"paused", "ended", "error"}
      BY <1>1 DEF Good, Timed
<1>3. q.signal = p.signal
      BY <1>1 DEF But, Fields
<1>4. GoesOn(q, p, v, a)
      BY <1>1, <1>2, <1>3, FlagsChanged DEF FlagNames
<1> QED BY <1>1, <1>4 DEF q

\* The clocks are where they were.
SameClocks(q, p) ==
    /\ q.vclock = p.vclock /\ q.pausedAt = p.pausedAt
    /\ q.anchor = p.anchor /\ q.started = p.started

LEMMA SameClocksKeep ==
    ASSUME NEW p, NEW q, SameClocks(q, p)
    PROVE  Keeps(q, p)
BY DEF SameClocks, Keeps, Ticking

(* A frame the worker delivers is queued, unless it is from before the      *)
(* target.                                                                  *)
LEMMA VideoArrivedGood ==
    ASSUME NEW p, NEW frame \in 0 .. End - 1, NEW a, Good(p, frame, a), Len(p.vq) < VideoCap
    PROVE  LET q == VideoArrived(p, frame) IN
           GoesOn(q, p, frame + 1, a) /\ SameClocks(q, p)
<1>1. /\ frame + 1 \in 0 .. Gone /\ ~p.videoEnded
      BY Bounds DEF Good, Picture
<1>2. CASE Discarded(p, frame)
  <2>1. Picture(p, frame + 1)
        BY <1>1 DEF Good, Picture
  <2> QED BY <1>2, <2>1 DEF VideoArrived, Good, GoesOn, Calm, SameClocks
<1>3. CASE ~Discarded(p, frame)
  <2> DEFINE o == [p EXCEPT !.vq = Append(@, frame)]
  <2>1. But(o, p, {"vq"}) /\ o.vq = Append(p.vq, frame)
        BY DEF Good, Flags, Fields, But
  <2>2. VideoArrived(p, frame) = Primed(o)
        BY <1>3 DEF VideoArrived
  <2> HIDE DEF o
  <2>3. /\ o.discard = p.discard /\ o.videoEnded = p.videoEnded /\ o.state = p.state
        /\ o.videoExpected = p.videoExpected /\ o.file = p.file /\ o.signal = p.signal
        /\ o.order = p.order
        BY <2>1 DEF But, Fields
  <2>4. p.state \in States
        BY DEF Good, Flags
  <2>5. Flags(o)
        BY <2>1, <2>3, <2>4, KeptFlags DEF Good, FlagNames
  <2>6. SameSound(o, p) /\ SameTimes(o, p)
        BY <2>1, KeptSound, KeptTimes
  <2>7. Sound(o, a)
        BY <2>6, SoundSame DEF Good
  <2>8. Timed(o)
        BY <2>3, <2>6, PausedKept, TimesSame DEF Good
  <2>9. /\ p.vq \in Seq(0 .. End - 1) /\ p.discard \in None .. End
        /\ p.discard # None => \A i \in 1 .. Len(p.vq) : p.vq[i] >= p.discard
        /\ ~p.videoExpected => p.file = "audio"
        BY DEF Good, Picture
  <2>10. /\ o.vq \in Seq(0 .. End - 1) /\ Len(o.vq) = Len(p.vq) + 1 /\ Len(p.vq) \in Nat
         /\ \A i \in 1 .. Len(p.vq) : o.vq[i] = p.vq[i]
         /\ o.vq[Len(p.vq) + 1] = frame
        BY <2>1, <2>9
  <2>11. p.discard # None => frame >= p.discard
        BY <1>3, <2>9, Bounds DEF Discarded
  <2>12. Len(o.vq) <= VideoCap
        BY <2>10, Bounds
  <2>13. p.discard # None => \A i \in 1 .. Len(o.vq) : o.vq[i] >= p.discard
    <3> SUFFICES ASSUME p.discard # None, NEW i \in 1 .. Len(o.vq)
                 PROVE  o.vq[i] >= p.discard
        OBVIOUS
    <3>1. i \in 1 .. Len(p.vq) \/ i = Len(p.vq) + 1
          BY <2>10
    <3> QED BY <2>9, <2>10, <2>11, <3>1
  <2>14. Picture(o, frame + 1)
        BY <1>1, <2>3, <2>9, <2>10, <2>12, <2>13 DEF Picture
  <2>15. Good(o, frame + 1, a)
        BY <2>5, <2>7, <2>8, <2>14 DEF Good
  <2>16. GoesOn(Primed(o), o, frame + 1, a) /\ But(Primed(o), o, {"state"})
        BY <2>15, PrimedGood
  <2>17. SameClocks(Primed(o), p)
        BY <2>6, <2>1, <2>16 DEF SameClocks, But, Fields
  <2> QED BY <2>2, <2>3, <2>6, <2>16, <2>17 DEF GoesOn, Calm, SameTimes
<1> QED BY <1>2, <1>3

(* The end of the video track, and that of a file without one.              *)
LEMMA VideoFinishedGood ==
    ASSUME NEW p, NEW a, Good(p, End, a)
    PROVE  LET q == VideoFinished(p) IN GoesOn(q, p, Gone, a) /\ SameClocks(q, p)
<1> DEFINE q == VideoFinished(p)
           F == {"videoExpected", "videoEnded", "state"}
<1>1. /\ But(q, p, F) /\ q.videoEnded = TRUE
      /\ \/ p.file = "audio" /\ q.videoExpected = FALSE
         \/ q.videoExpected = p.videoExpected
      /\ q.state \in States
      /\ q.state = p.state \/ p.state \in {"playing", "priming"}
      BY DEF VideoFinished, Good, Flags, Fields, But, States
<1> HIDE DEF q
<1>2. /\ q.vq = p.vq /\ q.discard = p.discard /\ q.file = p.file /\ q.signal = p.signal
      /\ q.order = p.order /\ q.started = p.started
      BY <1>1 DEF But, Fields
<1>3. q.videoExpected \in BOOLEAN
      BY <1>1 DEF Good, Flags
<1>4. Flags(q)
      BY <1>1, <1>3, KeptFlags DEF FlagNames, Good
<1>5. SameSound(q, p) /\ SameTimes(q, p)
      BY <1>1, KeptSound, KeptTimes
<1>6. Sound(q, a)
      BY <1>5, SoundSame DEF Good
<1>7. p.pausedAt = None \/ q.state \in {"paused", "ended", "error"}
      BY <1>1 DEF Good, Timed
<1>8. Timed(q)
      BY <1>5, <1>7, TimesSame DEF Good
<1>9. Gone \in 0 .. Gone /\ Gone >= End
      BY Bounds
<1>10. Picture(q, Gone)
      BY <1>1, <1>2, <1>9 DEF Good, Picture
<1> QED BY <1>2, <1>4, <1>5, <1>6, <1>8, <1>10
        DEF Good, GoesOn, Calm, SameTimes, SameClocks, SameSound, q

(* The sound the worker delivers is queued the same way, and the row that   *)
(* ends where the worker has got stays one.                                 *)
LEMMA AudioArrivedGood ==
    ASSUME NEW p, NEW v, NEW frame \in 0 .. AudioEnd - 1, Good(p, v, frame),
           Len(p.aq) < AudioCap
    PROVE  LET q == AudioArrived(p, frame) IN
           GoesOn(q, p, v, frame + 1) /\ SameClocks(q, p)
<1> DEFINE a == frame + 1
<1>1. /\ frame # Gone /\ a # Gone /\ a \in 0 .. AudioEnd /\ ~p.audioEnded
      BY Bounds DEF Good, Sound
<1>2. Reached(frame) = frame /\ Reached(a) = a
      BY <1>1 DEF Reached
<1>3. /\ p.aq \in Seq(0 .. AudioEnd - 1)
      /\ \A i \in 1 .. Len(p.aq) : p.aq[i] + Len(p.aq) - i < frame
      /\ p.anchor # None => p.anchor + p.sent + Len(p.aq) <= frame
      /\ p.sent \in Nat /\ p.anchor \in None .. End
      BY <1>2 DEF Good, Sound
<1>6. frame \in Int /\ a = frame + 1
      BY Bounds
<1>7. Len(p.aq) \in Nat /\ \A i \in 1 .. Len(p.aq) : p.aq[i] \in Int
  <2> DEFINE S == 0 .. AudioEnd - 1
  <2>1. S \subseteq Int
        BY Bounds
  <2> HIDE DEF S
  <2>2. p.aq \in Seq(S)
        BY <1>3 DEF S
  <2>3. Len(p.aq) \in Nat /\ \A i \in 1 .. Len(p.aq) : p.aq[i] \in S
        BY <2>2
  <2> QED BY <2>1, <2>3
<1>8. p.anchor \in Int
      BY <1>3, Bounds
<1> HIDE DEF a
<1>4. CASE Discarded(p, frame)
  <2>1. \A i \in 1 .. Len(p.aq) : p.aq[i] + Len(p.aq) - i < a
        BY <1>3, <1>6, <1>7
  <2>2. p.anchor # None => p.anchor + p.sent + Len(p.aq) <= a
        BY <1>3, <1>6, <1>7, <1>8
  <2>3. Sound(p, a)
        BY <1>1, <1>2, <2>1, <2>2 DEF Good, Sound
  <2> QED BY <1>4, <2>3 DEF AudioArrived, Good, GoesOn, Calm, SameClocks, a
<1>5. CASE ~Discarded(p, frame)
  <2> DEFINE o == [p EXCEPT !.audioExpected = TRUE, !.aq = Append(@, frame)]
  <2>1. /\ But(o, p, {"audioExpected", "aq"})
        /\ o.aq = Append(p.aq, frame) /\ o.audioExpected = TRUE
        BY DEF Good, Flags, Fields, But
  <2>2. AudioArrived(p, frame) = Primed(o)
        BY <1>5 DEF AudioArrived
  <2> HIDE DEF o
  <2>3. /\ o.state = p.state /\ o.buffered = p.buffered /\ o.sent = p.sent
        /\ o.anchor = p.anchor /\ o.audioEnded = p.audioEnded /\ o.signal = p.signal
        /\ o.order = p.order /\ o.started = p.started
        BY <2>1 DEF But, Fields
  <2>4. p.state \in States
        BY DEF Good, Flags
  <2>5. Flags(o)
        BY <2>1, <2>3, <2>4, KeptFlags DEF Good, FlagNames
  <2>6. SamePicture(o, p) /\ SameTimes(o, p)
        BY <2>1, KeptPicture, KeptTimes
  <2>7. Picture(o, v)
        BY <2>6, PictureSame DEF Good
  <2>8. Timed(o)
        BY <2>3, <2>6, PausedKept, TimesSame DEF Good
  <2>9. /\ o.aq \in Seq(0 .. AudioEnd - 1) /\ Len(o.aq) = Len(p.aq) + 1 /\ Len(p.aq) \in Nat
        /\ \A i \in 1 .. Len(p.aq) : o.aq[i] = p.aq[i]
        /\ o.aq[Len(p.aq) + 1] = frame
        BY <1>3, <2>1
  <2>10. Len(o.aq) <= AudioCap
        BY <2>9, Bounds
  <2>11. \A i \in 1 .. Len(o.aq) : o.aq[i] + Len(o.aq) - i < a
    <3> SUFFICES ASSUME NEW i \in 1 .. Len(o.aq)
                 PROVE  o.aq[i] + Len(o.aq) - i < a
        OBVIOUS
    <3>1. CASE i \in 1 .. Len(p.aq)
      <4>1. p.aq[i] + Len(p.aq) - i < frame /\ o.aq[i] = p.aq[i] /\ p.aq[i] \in Int
            BY <1>3, <1>7, <2>9, <3>1
      <4> QED BY <1>6, <2>9, <3>1, <4>1
    <3>2. CASE i = Len(p.aq) + 1
          BY <1>6, <2>9, <3>2
    <3> QED BY <2>9, <3>1, <3>2
  <2>12. p.anchor # None => p.anchor + p.sent + Len(o.aq) <= a
        BY <1>3, <1>6, <1>8, <2>9
  <2>13. Sound(o, a)
        BY <1>1, <1>2, <2>3, <2>9, <2>10, <2>11, <2>12 DEF Good, Sound
  <2>14. Good(o, v, a)
        BY <2>5, <2>7, <2>8, <2>13 DEF Good
  <2>15. GoesOn(Primed(o), o, v, a) /\ But(Primed(o), o, {"state"})
        BY <2>14, PrimedGood
  <2>16. SameClocks(Primed(o), p)
        BY <2>3, <2>6, <2>15 DEF SameClocks, SameTimes, But, Fields
  <2> QED BY <2>2, <2>3, <2>6, <2>15, <2>16 DEF GoesOn, Calm, SameTimes, a
<1> QED BY <1>4, <1>5

LEMMA AudioFinishedGood ==
    ASSUME NEW p, NEW v, Good(p, v, AudioEnd)
    PROVE  LET q == AudioFinished(p) IN GoesOn(q, p, v, Gone) /\ SameClocks(q, p)
<1> DEFINE q == AudioFinished(p)
           F == {"audioExpected", "audioEnded"}
<1>1. But(q, p, F) /\ q.audioEnded = TRUE /\ q.audioExpected = TRUE
      BY DEF AudioFinished, Good, Flags, Fields, But
<1> HIDE DEF q
<1>2. /\ q.aq = p.aq /\ q.buffered = p.buffered /\ q.sent = p.sent /\ q.anchor = p.anchor
      /\ q.state = p.state /\ q.signal = p.signal /\ q.order = p.order
      /\ q.started = p.started
      BY <1>1 DEF But, Fields
<1>3. q.state \in States
      BY <1>2 DEF Good, Flags
<1>4. Flags(q)
      BY <1>1, <1>3, KeptFlags DEF Good, FlagNames
<1>5. SamePicture(q, p) /\ SameTimes(q, p)
      BY <1>1, KeptPicture, KeptTimes
<1>6. Picture(q, v)
      BY <1>5, PictureSame DEF Good
<1>7. Timed(q)
      BY <1>2, <1>5, PausedKept, TimesSame DEF Good
<1>8. AudioEnd # Gone /\ Gone \in 0 .. AudioEnd \cup {Gone}
      BY Bounds
<1>9. Reached(Gone) = Reached(AudioEnd)
      BY <1>8 DEF Reached
<1>10. Sound(q, Gone)
      BY <1>2, <1>8, <1>9 DEF Good, Sound
<1> QED BY <1>2, <1>4, <1>5, <1>6, <1>7, <1>10
        DEF Good, GoesOn, Calm, SameTimes, SameClocks, q

LEMMA RestOf ==
    ASSUME NEW S, NEW q \in Seq(S), NEW n \in 0 .. Len(q)
    PROVE  LET r == SubSeq(q, n + 1, Len(q)) IN
           /\ r \in Seq(S) /\ Len(r) = Len(q) - n
           /\ \A i \in 1 .. Len(q) - n : r[i] = q[i + n]
<1>1. Len(q) \in Nat /\ n \in Nat /\ n <= Len(q)
      OBVIOUS
<1>2. SubSeq(q, n + 1, Len(q)) \in Seq(S)
      BY <1>1
<1>3. Len(SubSeq(q, n + 1, Len(q))) = Len(q) - n
      BY <1>1
<1>4. \A i \in 1 .. Len(q) - n : SubSeq(q, n + 1, Len(q))[i] = q[i + n]
      BY <1>1
<1> QED BY <1>2, <1>3, <1>4

(* What is written to the sink goes on where the anchored row ends.         *)
LEMMA WrittenGood ==
    ASSUME NEW p, NEW v, NEW a, Good(p, v, a)
    PROVE  LET q == Written(p) IN GoesOn(q, p, v, a) /\ Keeps(q, p)
<1> DEFINE L == Len(p.aq)
           n == Least(L, SinkCap - p.buffered)
           q == Written(p)
<1>1. /\ p.aq \in Seq(0 .. AudioEnd - 1) /\ L <= AudioCap
      /\ p.buffered \in 0 .. SinkCap /\ p.sent \in Nat /\ p.anchor \in None .. End
      /\ p.anchor = None => p.sent = 0
      BY DEF Good, Sound
<1>2. /\ L \in Nat /\ p.anchor \in Int /\ Reached(a) \in 0 .. AudioEnd
      /\ \A i \in 1 .. L : p.aq[i] \in 0 .. AudioEnd - 1
  <2>1. Reached(a) \in 0 .. AudioEnd
        BY ReachedBound DEF Good, Sound
  <2> DEFINE S == 0 .. AudioEnd - 1
  <2> HIDE DEF S
  <2>4. p.aq \in Seq(S)
        BY <1>1 DEF S
  <2>5. Len(p.aq) \in Nat /\ \A i \in 1 .. Len(p.aq) : p.aq[i] \in S
        BY <2>4
  <2>2. L \in Nat /\ \A i \in 1 .. L : p.aq[i] \in 0 .. AudioEnd - 1
        BY <2>5 DEF S
  <2>3. p.anchor \in Int
        BY <1>1, Bounds
  <2> QED BY <2>1, <2>2, <2>3
<1>3. /\ \A i \in 1 .. L : p.aq[i] + L - i < Reached(a)
      /\ p.anchor # None => p.anchor + p.sent + L <= Reached(a)
      BY DEF Good, Sound, L
<1> HIDE DEF L
<1>4. n \in 0 .. L /\ p.buffered + n \in 0 .. SinkCap
  <2>1. p.buffered \in Nat /\ p.buffered <= SinkCap /\ SinkCap \in Nat
        BY <1>1, Bounds
  <2> QED BY <1>2, <2>1 DEF Least
<1>5. CASE n = 0
      BY <1>5 DEF Written, L, GoesOn, Calm, Keeps
<1>6. CASE n # 0
  <2> DEFINE F == {"aq", "buffered", "sent", "started", "anchor", "vclock"}
             anchor == IF p.anchor = None THEN p.aq[1] ELSE p.anchor
  <2>1. q = [p EXCEPT !.aq = SubSeq(@, n + 1, Len(@)), !.buffered = @ + n, !.sent = @ + n,
                      !.started = TRUE, !.anchor = anchor,
                      !.vclock = IF p.anchor = None THEN None ELSE @]
        BY <1>6 DEF Written, L
  <2> HIDE DEF q, n, anchor
  <2>2. /\ But(q, p, F)
        /\ q.aq = SubSeq(p.aq, n + 1, Len(p.aq)) /\ q.buffered = p.buffered + n
        /\ q.sent = p.sent + n /\ q.started = TRUE /\ q.anchor = anchor
        /\ q.vclock \in {p.vclock, None}
        BY <2>1 DEF Good, Flags, Fields, But
  <2>3. /\ q.state = p.state /\ q.audioEnded = p.audioEnded /\ q.pausedAt = p.pausedAt
        /\ q.last = p.last /\ q.in = p.in /\ q.out = p.out /\ q.target = p.target
        /\ q.signal = p.signal /\ q.order = p.order
        BY <2>2 DEF But, Fields
  <2>4. q.state \in States
        BY <2>3 DEF Good, Flags
  <2>5. Flags(q)
        BY <2>2, <2>4, KeptFlags DEF Good, FlagNames
  <2>6. Picture(q, v)
        BY <2>2, KeptPicture, PictureSame DEF Good
  <2>7. None \in Positions
        BY Bounds DEF Positions
  <2>8. Timed(q)
        BY <2>2, <2>3, <2>7 DEF Good, Timed
  <2>9. /\ q.aq \in Seq(0 .. AudioEnd - 1) /\ Len(q.aq) = L - n
        /\ \A i \in 1 .. L - n : q.aq[i] = p.aq[i + n]
    <3> DEFINE S == 0 .. AudioEnd - 1
    <3> HIDE DEF S
    <3>1. p.aq \in Seq(S) /\ n \in 0 .. Len(p.aq)
          BY <1>1, <1>4 DEF S, L
    <3>2. /\ q.aq \in Seq(S) /\ Len(q.aq) = Len(p.aq) - n
          /\ \A i \in 1 .. Len(p.aq) - n : q.aq[i] = p.aq[i + n]
          BY <2>2, <3>1, RestOf
    <3> QED BY <3>2 DEF S, L
  <2>10. Len(q.aq) <= AudioCap
        BY <1>1, <1>2, <1>4, <2>9, Bounds
  <2>11. \A i \in 1 .. Len(q.aq) : q.aq[i] + Len(q.aq) - i < Reached(a)
    <3> SUFFICES ASSUME NEW i \in 1 .. Len(q.aq)
                 PROVE  q.aq[i] + Len(q.aq) - i < Reached(a)
        OBVIOUS
    <3>1. i + n \in 1 .. L /\ i \in 1 .. L - n
          BY <1>2, <1>4, <2>9
    <3>2. /\ q.aq[i] = p.aq[i + n] /\ p.aq[i + n] \in Int
          /\ p.aq[i + n] + L - (i + n) < Reached(a)
          BY <1>2, <1>3, <2>9, <3>1, Bounds
    <3> QED BY <1>2, <1>4, <2>9, <3>1, <3>2
  <2>12. /\ anchor \in 0 .. End
         /\ anchor + p.sent + L <= Reached(a)
    <3>1. CASE p.anchor # None
      <4>1. anchor = p.anchor
            BY <3>1 DEF anchor
      <4> QED BY <1>1, <1>2, <1>3, <3>1, <4>1, Bounds
    <3>2. CASE p.anchor = None
      <4>1. 1 \in 1 .. L
            BY <1>2, <1>4, <1>6
      <4>2. p.aq[1] \in 0 .. AudioEnd - 1 /\ p.aq[1] + L - 1 < Reached(a)
            BY <1>2, <1>3, <4>1
      <4>3. anchor = p.aq[1] /\ p.sent = 0
            BY <1>1, <3>2 DEF anchor
      <4> QED BY <1>2, <4>2, <4>3, Bounds
    <3> QED BY <3>1, <3>2
  <2>13. /\ q.anchor \in None .. End /\ q.anchor # None
         /\ q.anchor + q.sent + Len(q.aq) <= Reached(a) /\ q.sent \in Nat
    <3>1. q.anchor = anchor /\ q.sent = p.sent + n /\ Len(q.aq) = L - n
          BY <2>2, <2>9
    <3>2. n \in Nat /\ L \in Nat /\ p.sent \in Nat /\ Reached(a) \in Int
          BY <1>1, <1>2, <1>4, Bounds
    <3>3. q.anchor \in None .. End /\ q.anchor # None
          BY <2>12, <3>1, Bounds
    <3> QED BY <2>12, <3>1, <3>2, <3>3, Bounds
  <2>14. Sound(q, a)
        BY <1>4, <2>2, <2>3, <2>9, <2>10, <2>11, <2>13 DEF Good, Sound
  <2>15. Keeps(q, p)
        BY <2>2, <2>13 DEF Keeps, Ticking
  <2> QED BY <2>3, <2>5, <2>6, <2>8, <2>14, <2>15 DEF Good, GoesOn, Calm, q
<1> QED BY <1>5, <1>6

\* The sink of a running session is dry, and more is to come.
Dry(p) == p.audioExpected /\ p.started /\ p.aq = <<>> /\ p.buffered = 0 /\ ~CanFinish(p)

(* The handover of a dry sink loses no clock.                               *)
LEMMA HandedOverGood ==
    ASSUME NEW p, NEW v, NEW a, Good(p, v, a)
    PROVE  LET q == HandedOver(p) IN
           /\ GoesOn(q, p, v, a) /\ Keeps(q, p)
           /\ But(q, p, {"anchor", "sent", "vclock"})
           /\ Dry(p) => q.vclock # None
           /\ ~Dry(p) => q = p
<1> DEFINE q == HandedOver(p)
<1>1. CASE ~Dry(p)
  <2>1. q = p
        BY <1>1 DEF HandedOver, Dry
  <2> QED BY <1>1, <2>1 DEF GoesOn, Calm, Keeps, But, Good, Flags
<1>2. CASE Dry(p)
  <2> DEFINE F == {"anchor", "sent", "vclock"}
  <2>1. q = [ClockReset(p) EXCEPT
                !.vclock = IF @ # None THEN @ ELSE IF Clock(p) # None THEN Clock(p) ELSE 0]
        BY <1>2 DEF HandedOver, Dry
  <2> HIDE DEF q
  <2>2. /\ But(q, p, F) /\ q.anchor = None /\ q.sent = 0
        /\ q.vclock = IF p.vclock # None THEN p.vclock
                      ELSE IF Clock(p) # None THEN Clock(p) ELSE 0
        BY <2>1 DEF ClockReset, Good, Flags, Fields, But
  <2>3. Clock(p) \in Positions
        BY ClockTicks DEF Good
  <2>4. q.vclock \in Positions /\ q.vclock # None
        BY <2>2, <2>3, Bounds DEF Good, Timed, Positions
  <2>5. /\ q.state = p.state /\ q.aq = p.aq /\ q.buffered = p.buffered
        /\ q.audioEnded = p.audioEnded /\ q.pausedAt = p.pausedAt
        /\ q.last = p.last /\ q.in = p.in /\ q.out = p.out /\ q.target = p.target
        /\ q.signal = p.signal /\ q.order = p.order
        BY <2>2 DEF But, Fields
  <2>6. q.state \in States
        BY <2>5 DEF Good, Flags
  <2>7. Flags(q)
        BY <2>2, <2>6, KeptFlags DEF Good, FlagNames
  <2>8. Picture(q, v)
        BY <2>2, KeptPicture, PictureSame DEF Good
  <2>9. Timed(q)
        BY <2>4, <2>5 DEF Good, Timed
  <2>10. Sound(q, a)
        BY <2>2, <2>5, Bounds DEF Good, Sound
  <2>11. Keeps(q, p)
        BY <2>4 DEF Keeps, Ticking
  <2> QED BY <1>2, <2>2, <2>4, <2>5, <2>7, <2>8, <2>9, <2>10, <2>11 DEF Good, GoesOn, Calm, q
<1> QED BY <1>1, <1>2

LEMMA SinkStoppedGood ==
    ASSUME NEW p, NEW v, NEW a, Good(p, v, a)
    PROVE  LET q == SinkStopped(p) IN
           /\ GoesOn(q, p, v, a) /\ But(q, p, {"started"})
           /\ \/ q = p
              \/ p.audioExpected /\ p.aq = <<>> /\ p.buffered = 0 /\ ~q.started
<1> DEFINE q == SinkStopped(p)
<1>1. /\ But(q, p, {"started"}) /\ q.started \in BOOLEAN
      /\ \/ q = p
         \/ p.audioExpected /\ p.aq = <<>> /\ p.buffered = 0 /\ ~q.started
      BY DEF SinkStopped, Good, Flags, Fields, But
<1> HIDE DEF q
<1>2. q.state = p.state /\ q.state \in States /\ q.signal = p.signal
      BY <1>1 DEF Good, Flags, But, Fields
<1>3. p.pausedAt = None \/ q.state \in {"paused", "ended", "error"}
      BY <1>2, PausedKept DEF Good
<1>4. GoesOn(q, p, v, a)
      BY <1>1, <1>2, <1>3, FlagsChanged DEF FlagNames
<1> QED BY <1>1, <1>4 DEF q

LEMMA AudioLedGood ==
    ASSUME NEW p, NEW v, NEW a, Good(p, v, a)
    PROVE  LET q == AudioLed(p) IN
           /\ GoesOn(q, p, v, a) /\ But(q, p, {"state"})
           /\ q.state = p.state \/ (p.state = "priming" /\ q.state = "playing")
<1> DEFINE q == AudioLed(p)
<1>1. /\ But(q, p, {"state"}) /\ q.state \in States
      /\ q.state = p.state \/ (p.state = "priming" /\ q.state = "playing")
      BY DEF AudioLed, Good, Flags, Fields, But, States
<1> HIDE DEF q
<1>2. q.signal = p.signal
      BY <1>1 DEF But, Fields
<1>3. p.pausedAt = None \/ q.state \in {"paused", "ended", "error"}
      BY <1>1 DEF Good, Timed
<1>4. GoesOn(q, p, v, a)
      BY <1>1, <1>2, <1>3, FlagsChanged DEF FlagNames
<1> QED BY <1>1, <1>4 DEF q

(* Submitting audio loses the clock only where playback may finish.         *)
LEMMA SubmittedGood ==
    ASSUME NEW p, NEW v, NEW a, Good(p, v, a)
    PROVE  LET q == Submitted(p) IN
           GoesOn(q, p, v, a) /\ (Keeps(q, p) \/ CanFinish(q))
<1>1. CASE SubmitSkipped(p)
      BY <1>1 DEF Submitted, GoesOn, Calm, Keeps
<1>2. CASE ~SubmitSkipped(p)
  <2> DEFINE w == Written(p)
             h == HandedOver(w)
             k == SinkStopped(h)
             q == AudioLed(k)
  <2>1. GoesOn(w, p, v, a) /\ Keeps(w, p)
        BY WrittenGood
  <2> HIDE DEF w
  <2>2. /\ GoesOn(h, w, v, a) /\ Keeps(h, w)
        /\ Dry(w) => h.vclock # None
        /\ ~Dry(w) => h = w
        /\ But(h, w, {"anchor", "sent", "vclock"})
        BY <2>1, HandedOverGood DEF GoesOn
  <2> HIDE DEF h
  <2>3. /\ GoesOn(k, h, v, a) /\ But(k, h, {"started"})
        /\ \/ k = h
           \/ h.audioExpected /\ h.aq = <<>> /\ h.buffered = 0 /\ ~k.started
        BY <2>2, SinkStoppedGood DEF GoesOn
  <2> HIDE DEF k
  <2>4. /\ GoesOn(q, k, v, a) /\ But(q, k, {"state"})
        /\ q.state = k.state \/ (k.state = "priming" /\ q.state = "playing")
        BY <2>3, AudioLedGood DEF GoesOn
  <2> HIDE DEF q
  <2>5. Submitted(p) = q
        BY <1>2 DEF Submitted, q, k, h, w
  <2>6. GoesOn(q, p, v, a)
        BY <2>1, <2>2, <2>3, <2>4, Bounds DEF GoesOn, Calm
  <2>7. /\ q.pausedAt = k.pausedAt /\ q.anchor = k.anchor /\ q.started = k.started
        /\ q.vclock = k.vclock
        BY <2>4 DEF But, Fields
  <2>8. /\ k.pausedAt = h.pausedAt /\ k.anchor = h.anchor /\ k.vclock = h.vclock
        /\ k.state = h.state
        BY <2>3 DEF But, Fields
  <2>9. w.state = p.state => Keeps(h, p)
        BY <2>1, <2>2 DEF Keeps, But, Fields
  <2>10. w.state = p.state
        BY ShapedGood, WrittenKeeps DEF w
  <2>11. CASE k = h \/ ~h.started
    <3>1. Ticking(h) => Ticking(q)
          BY <2>3, <2>7, <2>8, <2>11 DEF Ticking, But, Fields
    <3>2. h.state \in {"opening", "seeking"} => q.state = h.state
          BY <2>4, <2>8
    <3> QED BY <2>5, <2>6, <2>9, <2>10, <3>1, <3>2 DEF Keeps
  <2>12. CASE k # h /\ h.started /\ Dry(w)
    <3>1. Ticking(q)
          BY <2>2, <2>7, <2>8, <2>12 DEF Ticking
    <3> QED BY <2>5, <2>6, <3>1 DEF Keeps
  <2>13. CASE k # h /\ h.started /\ ~Dry(w)
    <3>1. h = w /\ CanFinish(h)
          BY <2>2, <2>3, <2>13 DEF Dry
    <3>2. CanFinish(q)
      <4>1. /\ k.videoEnded = h.videoEnded /\ k.vq = h.vq /\ k.audioExpected = h.audioExpected
            /\ k.audioEnded = h.audioEnded /\ k.aq = h.aq /\ k.buffered = h.buffered
            BY <2>3 DEF But, Fields
      <4>2. /\ q.videoEnded = k.videoEnded /\ q.vq = k.vq /\ q.audioExpected = k.audioExpected
            /\ q.audioEnded = k.audioEnded /\ q.aq = k.aq /\ q.buffered = k.buffered
            BY <2>4 DEF But, Fields
      <4> QED BY <2>4, <2>8, <3>1, <4>1, <4>2 DEF CanFinish
    <3> QED BY <2>5, <2>6, <3>2
  <2> QED BY <2>11, <2>12, <2>13
<1> QED BY <1>1, <1>2

(* The frame that is shown is the last that was; a pause that waited for it *)
(* takes the position of the target, and no clock is lost.                  *)
LEMMA PresentedGood ==
    ASSUME NEW p, NEW v, NEW a, Good(p, v, a), NEW frame \in 0 .. End - 1, p.pausedAt = None
    PROVE  LET q == Presented(p, frame) IN
           /\ Good(q, v, a) /\ q.order = p.order
           /\ q.signal = p.signal /\ q.last = frame /\ Keeps(q, p)
<1> DEFINE q == Presented(p, frame)
           F == {"selected", "last", "landed", "vclock", "pauseAfter", "pausedAt", "state"}
<1>1. /\ But(q, p, F)
      /\ q.selected = TRUE /\ q.last = frame /\ q.landed \in BOOLEAN /\ q.pauseAfter = FALSE
      /\ q.vclock = IF p.vclock = None /\ p.anchor = None THEN frame ELSE p.vclock
      /\ \/ q.pausedAt = p.target /\ q.state = "paused"
         \/ q.pausedAt = None /\ q.state \in {p.state, "playing"}
  <2>1. DOMAIN p = Fields /\ p.landed \in BOOLEAN /\ p.settling \in BOOLEAN
        /\ p.pauseAfter \in BOOLEAN
        BY DEF Good, Flags
  <2>2. CASE p.pauseAfter
        BY <2>1, <2>2 DEF Presented, Fields, But
  <2>3. CASE ~p.pauseAfter
        BY <2>1, <2>3 DEF Presented, Fields, But
  <2> QED BY <2>1, <2>2, <2>3
<1> HIDE DEF q
<1>2. q.state \in States
      BY <1>1 DEF Good, Flags, States
<1>3. Flags(q)
      BY <1>1, <1>2, KeptFlags DEF Good, FlagNames
<1>4. SameSound(q, p) /\ SamePicture(q, p)
      BY <1>1, KeptSound, KeptPicture
<1>5. Sound(q, a) /\ Picture(q, v)
      BY <1>4, SoundSame, PictureSame DEF Good
<1>6. /\ q.in = p.in /\ q.out = p.out /\ q.target = p.target
      /\ q.signal = p.signal /\ q.order = p.order /\ q.started = p.started
      BY <1>1 DEF But, Fields
<1>7. frame \in Positions /\ frame # None /\ None \in Positions
      BY Bounds DEF Positions
<1>8. q.pausedAt \in Positions /\ q.vclock \in Positions
      BY <1>1, <1>7, Bounds DEF Good, Timed, Positions
<1>9. Timed(q)
      BY <1>1, <1>6, <1>7, <1>8 DEF Good, Timed
<1>10. Keeps(q, p)
      BY <1>1, <1>4, <1>6, <1>7 DEF Keeps, Ticking, SameSound
<1> QED BY <1>1, <1>3, <1>5, <1>6, <1>9, <1>10 DEF Good, q

(* The out-point is a seek, or holds the position it was reached at.        *)
LEMMA RangeEndedOnward ==
    ASSUME NEW p, NEW v, NEW a, Good(p, v, a), NEW frame \in 0 .. End - 1,
           p.state \notin {"idle", "opening", "error"}
    PROVE  LET q == RangeEnded(p, frame) IN Onward(q, p, v, a) /\ Keeps(q, p)
<1>1. CASE p.loop
  <2>1. ReplayAt(p) \in Nat
        BY Bounds DEF Good, ReplayAt, Timed, Positions
  <2> QED BY <1>1, <2>1, SoughtAfresh DEF RangeEnded, Onward, Calm, Keeps
<1>2. CASE ~p.loop
  <2> DEFINE q == RangeEnded(p, frame)
             F == {"vq", "aq", "started", "vclock", "pausedAt", "state"}
  <2>1. /\ But(q, p, F)
        /\ q.vq = <<>> /\ q.aq = <<>> /\ q.started = FALSE /\ q.vclock = None
        /\ q.pausedAt = frame /\ q.state = "ended"
        BY <1>2 DEF RangeEnded, Good, Flags, Fields, But
  <2> HIDE DEF q
  <2>2. Flags(q)
        BY <2>1, KeptFlags DEF Good, FlagNames, States
  <2>3. /\ q.buffered = p.buffered /\ q.sent = p.sent /\ q.anchor = p.anchor
        /\ q.audioEnded = p.audioEnded /\ q.discard = p.discard
        /\ q.videoEnded = p.videoEnded /\ q.videoExpected = p.videoExpected
        /\ q.file = p.file /\ q.target = p.target /\ q.last = p.last /\ q.in = p.in
        /\ q.out = p.out /\ q.signal = p.signal /\ q.order = p.order
        BY <2>1 DEF But, Fields
  <2>4. Len(<<>>) = 0 /\ \A V : <<>> \in Seq(V)
        OBVIOUS
  <2>5. p.anchor # None => p.anchor + p.sent + 0 <= Reached(a)
    <3>1. Reached(a) \in Int
          BY ReachedBound, Bounds DEF Good, Sound
    <3>2. /\ Len(p.aq) \in Nat /\ p.anchor \in Int /\ p.sent \in Nat
          /\ p.anchor # None => p.anchor + p.sent + Len(p.aq) <= Reached(a)
          BY Bounds DEF Good, Sound
    <3> QED BY <3>1, <3>2
  <2>6. Sound(q, a)
        BY <2>1, <2>3, <2>4, <2>5, Bounds DEF Good, Sound
  <2>7. Picture(q, v)
        BY <2>1, <2>3, <2>4, Bounds DEF Good, Picture
  <2>8. frame \in Positions /\ frame # None /\ None \in Positions
        BY Bounds DEF Positions
  <2>9. Timed(q)
        BY <2>1, <2>3, <2>8 DEF Good, Timed
  <2> QED BY <2>1, <2>2, <2>3, <2>6, <2>7, <2>8, <2>9
          DEF Good, Onward, Calm, Keeps, Ticking, q
<1> QED BY <1>1, <1>2

LEMMA SettledGood ==
    ASSUME NEW p, NEW v, NEW a, Good(p, v, a)
    PROVE  LET q == Settled(p) IN
           /\ GoesOn(q, p, v, a) /\ SameClocks(q, p)
           /\ But(q, p, {"settling", "target"})
<1> DEFINE q == Settled(p)
           F == {"settling", "target"}
<1>1. But(q, p, F) /\ q.settling \in BOOLEAN /\ q.target \in {p.target, None}
      BY DEF Settled, Good, Flags, Fields, But
<1> HIDE DEF q
<1>2. /\ q.state = p.state /\ q.vclock = p.vclock /\ q.pausedAt = p.pausedAt
      /\ q.last = p.last /\ q.in = p.in /\ q.out = p.out /\ q.signal = p.signal
      /\ q.order = p.order /\ q.started = p.started
      BY <1>1 DEF But, Fields
<1>3. q.state \in States
      BY <1>2 DEF Good, Flags
<1>4. Flags(q)
      BY <1>1, <1>3, KeptFlags DEF Good, FlagNames
<1>5. SameSound(q, p) /\ SamePicture(q, p)
      BY <1>1, KeptSound, KeptPicture
<1>6. Sound(q, a) /\ Picture(q, v)
      BY <1>5, SoundSame, PictureSame DEF Good
<1>7. None \in None .. End
      BY Bounds
<1>8. Timed(q)
      BY <1>1, <1>2, <1>7 DEF Good, Timed
<1> QED BY <1>1, <1>2, <1>4, <1>5, <1>6, <1>8
        DEF Good, GoesOn, Calm, SameClocks, SameSound, q

(* The end of playback seeks back to the start, or gives the signal.        *)
LEMMA FinishedOnward ==
    ASSUME NEW p, NEW v, NEW a, Good(p, v, a)
    PROVE  LET q == Finished(p) IN
           \/ Onward(q, p, v, a) /\ Keeps(q, p)
           \/ /\ CanFinish(p) /\ Good(q, v, a) /\ q.order = p.order
              /\ q.last = p.last /\ SameClocks(q, p)
<1>1. CASE ~CanFinish(p)
      BY <1>1 DEF Finished, Onward, Calm, Keeps
<1>2. CASE CanFinish(p) /\ (p.replay \/ p.loop)
  <2>1. ReplayAt(p) \in Nat
        BY Bounds DEF Good, ReplayAt, Timed, Positions
  <2>2. p.state \notin {"idle", "opening", "error"}
        BY <1>2 DEF CanFinish
  <2>3. Finished(p) = Sought(p, ReplayAt(p))
        BY <1>2 DEF Finished
  <2> QED BY <2>1, <2>2, <2>3, SoughtAfresh DEF Onward, Calm, Keeps
<1>3. CASE CanFinish(p) /\ ~(p.replay \/ p.loop)
  <2> DEFINE q == Finished(p)
  <2>1. But(q, p, {"state", "signal"}) /\ q.state = "ended" /\ q.signal = TRUE
        BY <1>3 DEF Finished, Good, Flags, Fields, But
  <2> HIDE DEF q
  <2>2. Flags(q)
        BY <2>1, KeptFlags DEF Good, FlagNames, States
  <2>3. SameSound(q, p) /\ SamePicture(q, p) /\ SameTimes(q, p)
        BY <2>1, KeptSound, KeptPicture, KeptTimes
  <2>4. Sound(q, a) /\ Picture(q, v) /\ Timed(q)
        BY <2>1, <2>3, SoundSame, PictureSame, TimesSame DEF Good
  <2>5. q.order = p.order /\ q.started = p.started
        BY <2>1 DEF But, Fields
  <2> QED BY <1>3, <2>2, <2>3, <2>4, <2>5 DEF Good, SameClocks, SameSound, SameTimes, q
<1> QED BY <1>1, <1>2, <1>3

-----------------------------------------------------------------------------
(* The workers follow.                                                      *)

\* Only the order was taken.
LEMMA OrderTaken ==
    ASSUME NEW p, NEW q, NEW v, NEW a, Good(p, v, a), But(q, p, {"order"})
    PROVE  Good(q, v, a)
<1>1. q.state = p.state /\ q.state \in States
      BY DEF Good, Flags, But, Fields
<1>2. Flags(q)
      BY <1>1, KeptFlags DEF Good, FlagNames
<1>3. SameSound(q, p) /\ SamePicture(q, p) /\ SameTimes(q, p)
      BY KeptSound, KeptPicture, KeptTimes
<1>4. Sound(q, a) /\ Picture(q, v) /\ Timed(q)
      BY <1>1, <1>3, SoundSame, PictureSame, PausedKept, TimesSame DEF Good
<1> QED BY <1>2, <1>4 DEF Good

LEMMA DoGoesOn ==
    ASSUME NEW p, Good(p, video, audio), p.order = NoOrder, Do(p)
    PROVE  Good(s', video', audio') /\ But(s', p, {"order"})
<1>1. s' = [p EXCEPT !.order = NoOrder]
      BY DEF Do
<1>2. video' = video /\ audio' = audio
      BY ShapedGood, DoKeeps
<1>3. But(s', p, {"order"})
      BY <1>1 DEF Good, Flags, Fields, But
<1> QED BY <1>2, <1>3, OrderTaken

LEMMA DoAfresh ==
    ASSUME NEW p, Afresh(p), Do(p)
    PROVE  Good(s', video', audio') /\ But(s', p, {"order"})
<1>1. s' = [p EXCEPT !.order = NoOrder]
      BY DEF Do
<1>2. But(s', p, {"order"})
      BY <1>1 DEF Afresh, Flags, Fields, But
<1>3. /\ video' \in 0 .. Gone
      /\ video' >= End \/ p.videoExpected
  <2>1. CASE p.file # "audio"
    <3>1. VideoFollows(p) = 0 .. Least(p.order.at, End - 1)
          BY <2>1 DEF VideoFollows, Afresh
    <3>2. p.videoExpected
          BY <2>1 DEF Afresh, Cleared
    <3>3. Least(p.order.at, End - 1) \in Int /\ Least(p.order.at, End - 1) <= End
          BY Bounds DEF Afresh, Least
    <3> QED BY <3>1, <3>2, <3>3, Bounds DEF Do
  <2>2. CASE p.file = "audio"
    <3>1. VideoFollows(p) \subseteq {End, Gone}
          BY <2>2 DEF VideoFollows, Afresh
    <3> QED BY <3>1, Bounds DEF Do
  <2> QED BY <2>1, <2>2
<1>4. audio' \in 0 .. AudioEnd \cup {Gone}
  <2>1. AudioFollows(p) = {IF p.file = "video" THEN Gone ELSE Least(p.order.at, AudioEnd)}
        BY DEF AudioFollows, Afresh
  <2>2. Least(p.order.at, AudioEnd) \in 0 .. AudioEnd
        BY Bounds DEF Afresh, Least
  <2> QED BY <2>1, <2>2 DEF Do
<1>5. Good(p, video', audio')
      BY <1>3, <1>4, AfreshGood
<1> QED BY <1>2, <1>5, OrderTaken

LEMMA DoStopped ==
    ASSUME NEW p, Good(p, video, audio), p.order.kind = "stop", Do(p)
    PROVE  Good(s', video', audio') /\ But(s', p, {"order"})
<1>1. s' = [p EXCEPT !.order = NoOrder]
      BY DEF Do
<1>2. But(s', p, {"order"})
      BY <1>1 DEF Good, Flags, Fields, But
<1>3. video' = Gone /\ audio' = Gone
      BY DEF Do, VideoFollows, AudioFollows
<1>4. Gone \in 0 .. AudioEnd \cup {Gone} /\ Gone \in 0 .. Gone /\ Gone >= End
      BY Bounds
<1>5. Reached(Gone) = AudioEnd /\ Reached(audio) \in 0 .. AudioEnd
      BY ReachedBound DEF Reached, Good, Sound
<1>6. \A i \in 1 .. Len(p.aq) : p.aq[i] + Len(p.aq) - i < Reached(Gone)
  <2> SUFFICES ASSUME NEW i \in 1 .. Len(p.aq)
               PROVE  p.aq[i] + Len(p.aq) - i < Reached(Gone)
      OBVIOUS
  <2> DEFINE S == 0 .. AudioEnd - 1
  <2> HIDE DEF S
  <2>1. p.aq \in Seq(S)
        BY DEF Good, Sound, S
  <2>2. p.aq[i] \in S /\ Len(p.aq) \in Nat
        BY <2>1
  <2>3. p.aq[i] + Len(p.aq) - i < Reached(audio)
        BY DEF Good, Sound
  <2>4. p.aq[i] \in Int
        BY <2>2, Bounds DEF S
  <2> QED BY <1>5, <2>2, <2>3, <2>4, Bounds
<1>7. p.anchor # None => p.anchor + p.sent + Len(p.aq) <= Reached(Gone)
  <2>1. /\ Len(p.aq) \in Nat /\ p.anchor \in Int /\ p.sent \in Nat
        /\ p.anchor # None => p.anchor + p.sent + Len(p.aq) <= Reached(audio)
        BY Bounds DEF Good, Sound
  <2> QED BY <1>5, <2>1, Bounds
<1>8. Sound(p, Gone)
      BY <1>4, <1>6, <1>7 DEF Good, Sound
<1>9. Picture(p, Gone)
      BY <1>4 DEF Good, Picture
<1>10. Good(p, Gone, Gone)
      BY <1>8, <1>9 DEF Good
<1> QED BY <1>2, <1>3, <1>10, OrderTaken

-----------------------------------------------------------------------------
(* The frames that are due.                                                 *)

\* A set of positions that holds each successor of its own has no first position: a row
\* that is entered at 1 is left somewhere.
LEMMA RowEnds ==
    ASSUME NEW L \in Nat, NEW T \in SUBSET (1 .. L), 1 \in T
    PROVE  \E n \in T : n + 1 \notin T
<1> SUFFICES ASSUME \A n \in T : n + 1 \in T PROVE FALSE
    OBVIOUS
<1> DEFINE f == [n \in T |-> n + 1]
<1>1. IsFiniteSet(T)
  <2>1. IsFiniteSet(1 .. L)
        BY FS_Interval
  <2> QED BY <2>1, FS_Subset
<1>2. T \subseteq Nat
      OBVIOUS
<1>3. f \in Injection(T, T)
      BY <1>2, Z3 DEF Injection, IsInjective
<1>4. f \in Surjection(T, T)
      BY <1>1, <1>3, FS_Injection
<1>5. PICK n \in T : f[n] = 1
      BY <1>4 DEF Surjection
<1> QED BY <1>2, <1>5

LEMMA DueInQueue ==
    ASSUME NEW p, NEW v, NEW a, Good(p, v, a), ~NothingDue(p)
    PROVE  /\ Due(p) \in 1 .. Len(p.vq)
           /\ p.vq[Due(p)] \in 0 .. End - 1
<1> DEFINE S == 0 .. End - 1
<1> HIDE DEF S
<1>1. p.vq \in Seq(S)
      BY DEF Good, Picture, S
<1>2. Len(p.vq) \in Nat /\ \A n \in 1 .. Len(p.vq) : p.vq[n] \in S
      BY <1>1
<1>3. 1 \in 1 .. Len(p.vq) /\ p.vq[1] <= Schedule(p)
      BY DEF NothingDue
<1>4. Due(p) \in 1 .. Len(p.vq)
  <2>1. CASE p.anchor = None
        BY <1>3, <2>1 DEF Due
  <2>2. CASE p.anchor # None
    <3> DEFINE T == {n \in 1 .. Len(p.vq) : p.vq[n] <= Clock(p)}
    <3>1. 1 \in T
          BY <1>3, <2>2 DEF Schedule
    <3>2. PICK n \in T : n + 1 \notin T
          BY <1>2, <3>1, RowEnds
    <3>3. Clock(p) \in Int
          BY ClockTicks, Bounds DEF Good, Positions
    <3>4. n < Len(p.vq) => n + 1 \in 1 .. Len(p.vq)
          BY <1>2
    <3>5. n < Len(p.vq) => p.vq[n + 1] \in Int
          BY <1>2, <3>4, Bounds DEF S
    <3>6. n < Len(p.vq) => p.vq[n + 1] > Clock(p)
          BY <3>2, <3>3, <3>4, <3>5
    <3>7. \E m \in 1 .. Len(p.vq) :
             p.vq[m] <= Clock(p) /\ (m < Len(p.vq) => p.vq[m + 1] > Clock(p))
          BY <3>6
    <3> QED BY <2>2, <3>7 DEF Due
  <2> QED BY <2>1, <2>2
<1> QED BY <1>2, <1>4 DEF S

-----------------------------------------------------------------------------
(* The steps.                                                               *)

\* What a step keeps, and what it may never do.
PlayStands ==
    /\ Good(s', video', audio')
    /\ Clock(s) # None /\ Clock(s') = None =>
          \/ s'.state \in {"opening", "seeking"}
          \/ SeekPending(s) /\ ~s.pauseAfter /\ s'.pauseAfter
          \/ StepRate
          \/ CanFinish(s')
    /\ s'.signal /\ ~s.signal =>
          /\ s.state \in {"priming", "playing", "draining"}
          /\ video >= End /\ s.vq = <<>>
          /\ s.audioExpected => audio >= AudioEnd /\ s.aq = <<>> /\ s.buffered = 0
    /\ s'.last # s.last /\ s'.last # None /\ s.discard # None => s'.last >= s.discard

\* The state the steps start from.
Begun == Good(s, video, audio) /\ s.order = NoOrder

LEMMA CalmStands ==
    ASSUME Begun, Good(s', video', audio'), Calm(s', s),
           \/ Keeps(s', s)
           \/ SeekPending(s) /\ ~s.pauseAfter /\ s'.pauseAfter
           \/ StepRate
           \/ CanFinish(s')
    PROVE  PlayStands
<1>1. (Clock(s) # None <=> Ticking(s)) /\ (Clock(s') # None <=> Ticking(s'))
      BY ClockTicks DEF Begun, Good
<1> QED BY <1>1 DEF PlayStands, Calm, Keeps

\* A handler ran, and the workers follow.
LEMMA OnwardDone ==
    ASSUME Begun, NEW q, Onward(q, s, video, audio), Do(q)
    PROVE  Good(s', video', audio') /\ But(s', q, {"order"}) /\ Calm(s', s)
<1>1. Good(s', video', audio') /\ But(s', q, {"order"})
      BY DoAfresh, DoGoesOn DEF Onward, Begun
<1>2. s'.signal = q.signal /\ s'.last = q.last
      BY <1>1 DEF But, Fields
<1> QED BY <1>1, <1>2 DEF Onward, Calm

LEMMA OnwardStands ==
    ASSUME Begun, NEW q, Onward(q, s, video, audio), Do(q), Keeps(q, s)
    PROVE  PlayStands
<1>1. Good(s', video', audio') /\ But(s', q, {"order"}) /\ Calm(s', s)
      BY OnwardDone
<1>2. /\ s'.pausedAt = q.pausedAt /\ s'.anchor = q.anchor /\ s'.started = q.started
      /\ s'.vclock = q.vclock /\ s'.state = q.state
      BY <1>1 DEF But, Fields
<1>3. Keeps(s', s)
      BY <1>2 DEF Keeps, Ticking
<1> QED BY <1>1, <1>3, CalmStands

LEMMA OpenPlays == Begun /\ Open => PlayStands
<1> SUFFICES ASSUME Begun, Open PROVE PlayStands
    OBVIOUS
<1>1. PICK file \in Files, start \in 0 .. End - 1 : Do(Opened(s, file, start))
      BY DEF Open
<1> DEFINE q == Opened(s, file, start)
<1>2. start \in 0 .. End
      BY Bounds
<1>3. Afresh(q) /\ q.state = "opening" /\ q.signal = FALSE /\ q.last = None
      BY <1>2, OpenedAfresh DEF Begun
<1> HIDE DEF q
<1>4. Onward(q, s, video, audio) /\ Keeps(q, s)
      BY <1>3 DEF Onward, Calm, Keeps
<1> QED BY <1>1, <1>4, OnwardStands DEF q

LEMMA TogglePlays == Begun /\ TogglePause => PlayStands
<1> SUFFICES ASSUME Begun, TogglePause PROVE PlayStands
    OBVIOUS
<1> DEFINE q == Toggled(s)
<1>1. Do(q)
      BY DEF TogglePause
<1>2. /\ Onward(q, s, video, audio)
      /\ Keeps(q, s) \/ (SeekPending(s) /\ ~s.pauseAfter /\ q.pauseAfter)
      BY ToggledOnward DEF Begun
<1> HIDE DEF q
<1>3. CASE Keeps(q, s)
      BY <1>1, <1>2, <1>3, OnwardStands
<1>4. CASE SeekPending(s) /\ ~s.pauseAfter /\ q.pauseAfter
  <2>1. Good(s', video', audio') /\ But(s', q, {"order"}) /\ Calm(s', s)
        BY <1>1, <1>2, OnwardDone
  <2>2. s'.pauseAfter = q.pauseAfter
        BY <2>1 DEF But, Fields
  <2> QED BY <1>4, <2>1, <2>2, CalmStands
<1> QED BY <1>2, <1>3, <1>4

(* Seeks and scrubs set the pause flag first, and may then be rejected.     *)
LEMMA SoughtPlays ==
    ASSUME Begun, NEW b \in BOOLEAN, NEW at \in 0 .. End,
           Do(Sought([s EXCEPT !.pauseAfter = b], at))
    PROVE  PlayStands
<1> DEFINE o == [s EXCEPT !.pauseAfter = b]
           q == Sought(o, at)
<1>1. Good(o, video, audio) /\ But(o, s, {"pauseAfter"})
      BY PauseSetGood DEF Begun
<1>2. /\ o.signal = s.signal /\ o.last = s.last /\ o.order = s.order
      /\ o.pausedAt = s.pausedAt /\ o.anchor = s.anchor /\ o.started = s.started
      /\ o.vclock = s.vclock
      BY <1>1 DEF But, Fields
<1>3. Do(q)
      OBVIOUS
<1>4. at \in Nat
      BY Bounds
<1> HIDE DEF o
<1>5. /\ q.signal = o.signal /\ q.last = o.last
      /\ q = o \/ (Afresh(q) /\ q.state = "seeking")
      BY <1>1, <1>4, SoughtAfresh
<1> HIDE DEF q
<1>6. Onward(q, s, video, audio) /\ Keeps(q, s)
      BY <1>1, <1>2, <1>5 DEF Onward, Calm, Keeps, Ticking
<1> QED BY <1>3, <1>6, OnwardStands

LEMMA UserPlays == Begun /\ UserStep => PlayStands
<1> SUFFICES ASSUME Begun, UserStep PROVE PlayStands
    OBVIOUS
<1>1. CASE Open \/ TogglePause
      BY <1>1, OpenPlays, TogglePlays
<1>2. CASE Seek \/ Scrub
      BY <1>2, SoughtPlays DEF Seek, Scrub
<1>3. CASE StepFrame
  <2>1. PICK by \in {-1, 1} : Do(Stepped(s, by))
        BY <1>3 DEF StepFrame
  <2> QED BY <2>1, SteppedOnward, OnwardStands DEF Begun
<1>4. CASE StepRate
  <2>1. PICK normal \in BOOLEAN : Do(RateChanged(s, normal))
        BY <1>4 DEF StepRate
  <2>2. Onward(RateChanged(s, normal), s, video, audio)
        BY RateGood DEF Begun, GoesOn, Onward
  <2> QED BY <1>4, <2>1, <2>2, OnwardDone, CalmStands
<1>5. CASE SetClip
  <2>1. PICK q \in {InSet(s, Position(s)), OutSet(s, Position(s)), InCleared(s), OutCleared(s),
                    LoopToggled(s)} : Do(q)
        BY <1>5 DEF SetClip
  <2>2. Position(s) \in 0 .. End + 1
        BY ClockTicks DEF Begun, Good
  <2>3. GoesOn(q, s, video, audio) /\ Keeps(q, s)
        BY <2>2, ClipGood DEF Begun
  <2> QED BY <2>1, <2>3, OnwardStands DEF GoesOn, Onward
<1> QED BY <1>1, <1>2, <1>3, <1>4, <1>5 DEF UserStep

LEMMA TimePlays == Begun /\ TimePasses => PlayStands
<1> SUFFICES ASSUME Begun, TimePasses PROVE PlayStands
    OBVIOUS
<1> DEFINE F == {"vclock", "buffered"}
<1>1. /\ s' = [s EXCEPT !.vclock = IF @ \in 0 .. End THEN @ + 1 ELSE @,
                        !.buffered = IF s.started /\ @ > 0 THEN @ - 1 ELSE @]
      /\ video' = video /\ audio' = audio
      BY DEF TimePasses
<1>2. /\ But(s', s, F)
      /\ s'.vclock = IF s.vclock \in 0 .. End THEN s.vclock + 1 ELSE s.vclock
      /\ s'.buffered = IF s.started /\ s.buffered > 0 THEN s.buffered - 1 ELSE s.buffered
      BY <1>1 DEF Begun, Good, Flags, Fields, But
<1>3. /\ s'.state = s.state /\ s'.aq = s.aq /\ s'.sent = s.sent /\ s'.anchor = s.anchor
      /\ s'.audioEnded = s.audioEnded /\ s'.pausedAt = s.pausedAt /\ s'.target = s.target
      /\ s'.last = s.last /\ s'.in = s.in /\ s'.out = s.out /\ s'.signal = s.signal
      /\ s'.started = s.started
      BY <1>2 DEF But, Fields
<1>4. s'.state \in States
      BY <1>3 DEF Begun, Good, Flags
<1>5. Flags(s')
      BY <1>2, <1>4, KeptFlags DEF Begun, Good, FlagNames
<1>6. s'.buffered \in 0 .. SinkCap
      BY <1>2, Bounds DEF Begun, Good, Sound
<1>7. Sound(s', audio)
      BY <1>3, <1>6 DEF Begun, Good, Sound
<1>8. Picture(s', video)
      BY <1>2, KeptPicture, PictureSame DEF Begun, Good
<1>9. s'.vclock \in Positions /\ (s.vclock # None => s'.vclock # None)
      BY <1>2, Bounds DEF Begun, Good, Timed, Positions
<1>10. Timed(s')
      BY <1>3, <1>9 DEF Begun, Good, Timed
<1>11. Keeps(s', s) /\ Calm(s', s)
      BY <1>3, <1>9 DEF Keeps, Ticking, Calm
<1> QED BY <1>1, <1>5, <1>7, <1>8, <1>10, <1>11, CalmStands DEF Good

LEMMA StartTickPlays == Begun /\ StartTick => PlayStands
<1> SUFFICES ASSUME Begun, StartTick PROVE PlayStands
    OBVIOUS
<1> DEFINE o == [s EXCEPT !.aq = <<>>]
<1>1. Do(s) \/ Do(o)
      BY DEF StartTick
<1>2. CASE Do(s)
  <2>1. Onward(s, s, video, audio) /\ Keeps(s, s)
        BY DEF Begun, Onward, Calm, Keeps
  <2> QED BY <1>2, <2>1, OnwardStands
<1>3. CASE Do(o)
  <2>1. But(o, s, {"aq"}) /\ o.aq = <<>>
        BY DEF Begun, Good, Flags, Fields, But
  <2> HIDE DEF o
  <2>2. /\ o.state = s.state /\ o.buffered = s.buffered /\ o.sent = s.sent
        /\ o.anchor = s.anchor /\ o.audioEnded = s.audioEnded /\ o.signal = s.signal
        /\ o.order = s.order /\ o.started = s.started
        BY <2>1 DEF But, Fields
  <2>3. o.state \in States
        BY <2>2 DEF Begun, Good, Flags
  <2>4. Flags(o)
        BY <2>1, <2>3, KeptFlags DEF Begun, Good, FlagNames
  <2>5. SamePicture(o, s) /\ SameTimes(o, s)
        BY <2>1, KeptPicture, KeptTimes
  <2>6. Picture(o, video) /\ Timed(o)
        BY <2>2, <2>5, PictureSame, PausedKept, TimesSame DEF Begun, Good
  <2>7. Len(<<>>) = 0 /\ \A V : <<>> \in Seq(V)
        OBVIOUS
  <2>8. s.anchor # None => s.anchor + s.sent + 0 <= Reached(audio)
    <3>1. Reached(audio) \in Int
          BY ReachedBound, Bounds DEF Begun, Good, Sound
    <3>2. /\ Len(s.aq) \in Nat /\ s.anchor \in Int /\ s.sent \in Nat
          /\ s.anchor # None => s.anchor + s.sent + Len(s.aq) <= Reached(audio)
          BY Bounds DEF Begun, Good, Sound
    <3> QED BY <3>1, <3>2
  <2>9. Sound(o, audio)
        BY <2>1, <2>2, <2>7, <2>8, Bounds DEF Begun, Good, Sound
  <2>10. Onward(o, s, video, audio) /\ Keeps(o, s)
        BY <2>2, <2>4, <2>5, <2>6, <2>9 DEF Good, Onward, Calm, Keeps, Ticking, SameTimes
  <2> QED BY <1>3, <2>10, OnwardStands
<1> QED BY <1>1, <1>2, <1>3

LEMMA DrainAudioPlays == Begun /\ DrainAudio => PlayStands
<1> SUFFICES ASSUME Begun, DrainAudio PROVE PlayStands
    OBVIOUS
<1>1. /\ Len(s.aq) < AudioCap /\ audio # Gone /\ video' = video
      /\ s' = IF audio = AudioEnd THEN AudioFinished(s) ELSE AudioArrived(s, audio)
      /\ audio' = IF audio = AudioEnd THEN Gone ELSE audio + 1
      BY DEF DrainAudio
<1>2. audio \in 0 .. AudioEnd
      BY <1>1 DEF Begun, Good, Sound
<1>3. GoesOn(s', s, video', audio') /\ SameClocks(s', s)
  <2>1. CASE audio = AudioEnd
        BY <1>1, <2>1, AudioFinishedGood DEF Begun
  <2>2. CASE audio # AudioEnd
    <3>1. audio \in 0 .. AudioEnd - 1
          BY <1>2, <2>2, Bounds
    <3> QED BY <1>1, <2>2, <3>1, AudioArrivedGood DEF Begun
  <2> QED BY <2>1, <2>2
<1> QED BY <1>3, SameClocksKeep, CalmStands DEF GoesOn

LEMMA DrainVideoPlays == Begun /\ DrainVideo => PlayStands
<1> SUFFICES ASSUME Begun, DrainVideo PROVE PlayStands
    OBVIOUS
<1>1. /\ Len(s.vq) < VideoCap /\ video # Gone /\ audio' = audio
      /\ s' = IF video = End THEN VideoFinished(s) ELSE VideoArrived(s, video)
      /\ video' = IF video = End THEN Gone ELSE video + 1
      BY DEF DrainVideo
<1>2. video \in 0 .. End
      BY <1>1, Bounds DEF Begun, Good, Picture
<1>3. GoesOn(s', s, video', audio') /\ SameClocks(s', s)
  <2>1. CASE video = End
        BY <1>1, <2>1, VideoFinishedGood DEF Begun
  <2>2. CASE video # End
    <3>1. video \in 0 .. End - 1
          BY <1>2, <2>2, Bounds
    <3> QED BY <1>1, <2>2, <3>1, VideoArrivedGood DEF Begun
  <2> QED BY <2>1, <2>2
<1> QED BY <1>3, SameClocksKeep, CalmStands DEF GoesOn

LEMMA SubmitPlays == Begun /\ Submit => PlayStands
<1> SUFFICES ASSUME Begun, Submit PROVE PlayStands
    OBVIOUS
<1> DEFINE q == Submitted(s)
<1>1. Do(q)
      BY DEF Submit
<1>2. GoesOn(q, s, video, audio) /\ (Keeps(q, s) \/ CanFinish(q))
      BY SubmittedGood DEF Begun
<1> HIDE DEF q
<1>3. Onward(q, s, video, audio)
      BY <1>2 DEF GoesOn, Onward
<1>4. CASE Keeps(q, s)
      BY <1>1, <1>3, <1>4, OnwardStands
<1>5. CASE CanFinish(q)
  <2>1. Good(s', video', audio') /\ But(s', q, {"order"}) /\ Calm(s', s)
        BY <1>1, <1>3, OnwardDone
  <2>2. CanFinish(s')
        BY <1>5, <2>1 DEF CanFinish, But, Fields
  <2> QED BY <2>1, <2>2, CalmStands
<1> QED BY <1>2, <1>4, <1>5

(* The frames that are due leave the queue, and the last of them is shown,  *)
(* dropped, or ends the range.                                              *)
LEMMA ShowPlays == Begun /\ (s.state = "error" => s.vq = <<>>) /\ ShowFrame => PlayStands
<1> SUFFICES ASSUME Begun, s.state = "error" => s.vq = <<>>, ShowFrame PROVE PlayStands
    OBVIOUS
<1> DEFINE n     == Due(s)
           frame == s.vq[n]
           left  == [s EXCEPT !.vq = SubSeq(@, n + 1, Len(@))]
           S     == 0 .. End - 1
<1>1. n \in 1 .. Len(s.vq) /\ frame \in 0 .. End - 1
      BY DueInQueue DEF Begun, ShowFrame
<1>2. \/ Do(left)
      \/ Do(Presented(left, frame))
      \/ AtOutPoint(s, frame) /\ Do(RangeEnded(left, frame))
      BY DEF ShowFrame
<1>3. s.state \notin {"paused", "ended", "error"}
      BY <1>1 DEF ShowFrame, NothingDue
<1>4. s.pausedAt = None
      BY <1>3 DEF Begun, Good, Timed
<1>5. But(left, s, {"vq"}) /\ left.vq = SubSeq(s.vq, n + 1, Len(s.vq))
      BY DEF Begun, Good, Flags, Fields, But
<1>6. s.discard # None => frame >= s.discard
      BY <1>1 DEF Begun, Good, Picture
<1> HIDE DEF n, left, S
<1>7. Good(left, video, audio)
  <2>1. /\ left.state = s.state /\ left.discard = s.discard /\ left.videoEnded = s.videoEnded
        /\ left.videoExpected = s.videoExpected /\ left.file = s.file
        BY <1>5 DEF But, Fields
  <2>2. left.state \in States
        BY <2>1 DEF Begun, Good, Flags
  <2>3. Flags(left)
        BY <1>5, <2>2, KeptFlags DEF Begun, Good, FlagNames
  <2>4. SameSound(left, s) /\ SameTimes(left, s)
        BY <1>5, KeptSound, KeptTimes
  <2>5. Sound(left, audio) /\ Timed(left)
        BY <2>1, <2>4, SoundSame, PausedKept, TimesSame DEF Begun, Good
  <2>6. s.vq \in Seq(S) /\ n \in 0 .. Len(s.vq)
        BY <1>1 DEF Begun, Good, Picture, S
  <2>7. /\ left.vq \in Seq(S) /\ Len(left.vq) = Len(s.vq) - n
        /\ \A i \in 1 .. Len(s.vq) - n : left.vq[i] = s.vq[i + n]
    <3> DEFINE r == SubSeq(s.vq, n + 1, Len(s.vq))
    <3>1. /\ r \in Seq(S) /\ Len(r) = Len(s.vq) - n
          /\ \A i \in 1 .. Len(s.vq) - n : r[i] = s.vq[i + n]
          BY <2>6, RestOf
    <3>2. left.vq = r
          BY <1>5
    <3> HIDE DEF r
    <3> QED BY <3>1, <3>2
  <2>8. Len(s.vq) \in Nat
        BY <2>6
  <2>9. Len(left.vq) <= VideoCap
        BY <2>6, <2>7, <2>8, Bounds DEF Begun, Good, Picture
  <2>10. \A i \in 1 .. Len(left.vq) : i + n \in 1 .. Len(s.vq)
        BY <2>6, <2>7, <2>8
  <2>11. s.discard # None => \A i \in 1 .. Len(left.vq) : left.vq[i] >= s.discard
        BY <2>7, <2>10 DEF Begun, Good, Picture
  <2>12. Picture(left, video)
        BY <2>1, <2>7, <2>9, <2>11 DEF Begun, Good, Picture, S
  <2> QED BY <2>3, <2>5, <2>12 DEF Good
<1>8. /\ left.state = s.state /\ left.signal = s.signal /\ left.last = s.last
      /\ left.order = s.order /\ left.pausedAt = s.pausedAt /\ left.anchor = s.anchor
      /\ left.started = s.started /\ left.vclock = s.vclock
      BY <1>5 DEF But, Fields
<1> HIDE DEF frame
<1>9. CASE Do(left)
  <2>1. Onward(left, s, video, audio) /\ Keeps(left, s)
        BY <1>7, <1>8 DEF Onward, Calm, Keeps, Ticking
  <2> QED BY <1>9, <2>1, OnwardStands
<1>10. CASE AtOutPoint(s, frame) /\ Do(RangeEnded(left, frame))
  <2> DEFINE q == RangeEnded(left, frame)
  <2>1. left.state \notin {"idle", "opening", "error"}
        BY <1>8, <1>10 DEF AtOutPoint
  <2>2. Onward(q, left, video, audio) /\ Keeps(q, left)
        BY <1>1, <1>7, <2>1, RangeEndedOnward
  <2>3. Onward(q, s, video, audio) /\ Keeps(q, s)
        BY <1>8, <2>2 DEF Onward, Calm, Keeps, Ticking
  <2> QED BY <1>10, <2>3, OnwardStands
<1>11. CASE Do(Presented(left, frame))
  <2> DEFINE q == Presented(left, frame)
  <2>1. /\ Good(q, video, audio) /\ q.order = left.order
        /\ q.signal = left.signal /\ q.last = frame /\ Keeps(q, left)
        BY <1>1, <1>4, <1>7, <1>8, PresentedGood
  <2>2. Do(q) /\ q.order = NoOrder
        BY <1>8, <1>11, <2>1 DEF Begun
  <2> HIDE DEF q
  <2>3. Good(s', video', audio') /\ But(s', q, {"order"})
        BY <2>1, <2>2, DoGoesOn
  <2>4. /\ s'.signal = q.signal /\ s'.last = q.last /\ s'.pausedAt = q.pausedAt
        /\ s'.anchor = q.anchor /\ s'.started = q.started /\ s'.vclock = q.vclock
        /\ s'.state = q.state
        BY <2>3 DEF But, Fields
  <2>5. (Clock(s) # None <=> Ticking(s)) /\ (Clock(s') # None <=> Ticking(s'))
        BY <2>3, ClockTicks DEF Begun, Good
  <2>6. Clock(s) # None /\ Clock(s') = None => s'.state \in {"opening", "seeking"}
        BY <1>8, <2>1, <2>4, <2>5 DEF Keeps, Ticking
  <2>7. s'.signal = s.signal /\ s'.last = frame
        BY <1>8, <2>1, <2>4
  <2> QED BY <1>6, <2>3, <2>6, <2>7 DEF PlayStands
<1> QED BY <1>2, <1>9, <1>10, <1>11

(* The signal of the end is given when nothing is left of either stream.    *)
LEMMA FinishPlays == Begun /\ FinishTick => PlayStands
<1> SUFFICES ASSUME Begun, FinishTick PROVE PlayStands
    OBVIOUS
<1> DEFINE p == Settled(s)
           q == Finished(p)
<1>1. Do(q)
      BY DEF FinishTick
<1>2. GoesOn(p, s, video, audio) /\ SameClocks(p, s) /\ But(p, s, {"settling", "target"})
      BY SettledGood DEF Begun
<1> HIDE DEF p
<1>3. \/ Onward(q, p, video, audio) /\ Keeps(q, p)
      \/ /\ CanFinish(p) /\ Good(q, video, audio) /\ q.order = p.order
         /\ q.last = p.last /\ SameClocks(q, p)
      BY <1>2, FinishedOnward DEF GoesOn
<1> HIDE DEF q
<1>4. CASE Onward(q, p, video, audio) /\ Keeps(q, p)
  <2>1. Onward(q, s, video, audio) /\ Keeps(q, s)
        BY <1>2, <1>4, Bounds DEF GoesOn, Onward, Calm, SameClocks, Keeps, Ticking
  <2> QED BY <1>1, <2>1, OnwardStands
<1>5. CASE /\ CanFinish(p) /\ Good(q, video, audio) /\ q.order = p.order
           /\ q.last = p.last /\ SameClocks(q, p)
  <2>1. Good(s', video', audio') /\ But(s', q, {"order"})
        BY <1>1, <1>2, <1>5, DoGoesOn DEF GoesOn, Begun
  <2>2. /\ s'.last = q.last /\ s'.pausedAt = q.pausedAt /\ s'.anchor = q.anchor
        /\ s'.started = q.started /\ s'.vclock = q.vclock
        BY <2>1 DEF But, Fields
  <2>3. (Clock(s) # None <=> Ticking(s)) /\ (Clock(s') # None <=> Ticking(s'))
        BY <2>1, ClockTicks DEF Begun, Good
  <2>4. Clock(s) # None => Clock(s') # None
        BY <1>2, <1>5, <2>2, <2>3 DEF SameClocks, Ticking
  <2>5. p.last = s.last
        BY <1>2 DEF But, Fields
  <2>6. /\ s.videoEnded = p.videoEnded /\ s.vq = p.vq /\ s.audioExpected = p.audioExpected
        /\ s.audioEnded = p.audioEnded /\ s.aq = p.aq /\ s.buffered = p.buffered
        /\ s.state = p.state
        BY <1>2 DEF But, Fields
  <2>7. /\ s.state \in {"priming", "playing", "draining"}
        /\ video >= End /\ s.vq = <<>>
        /\ s.audioExpected => audio = Gone /\ s.aq = <<>> /\ s.buffered = 0
        BY <1>5, <2>6 DEF CanFinish, Begun, Good, Picture, Sound
  <2>8. Gone >= AudioEnd
        BY Bounds
  <2> QED BY <1>5, <2>1, <2>2, <2>4, <2>5, <2>7, <2>8 DEF PlayStands
<1> QED BY <1>3, <1>4, <1>5

LEMMA EnvironmentPlays == Begun /\ Environment => PlayStands
<1> SUFFICES ASSUME Begun, Environment PROVE PlayStands
    OBVIOUS
<1>1. CASE SwitchEndpoint
  <2> DEFINE o == IF s.state \in {"paused", "ended"} THEN [s EXCEPT !.pauseAfter = TRUE] ELSE s
             q == EndpointRecovered(o)
  <2>1. Do(q)
        BY <1>1 DEF SwitchEndpoint, EndpointSwitched
  <2>2. Good(o, video, audio) /\ o.signal = s.signal /\ o.last = s.last
    <3>1. CASE s.state \in {"paused", "ended"}
      <4>1. Good(o, video, audio) /\ But(o, s, {"pauseAfter"})
            BY <3>1, PauseSetGood DEF Begun
      <4> QED BY <4>1 DEF But, Fields
    <3>2. CASE s.state \notin {"paused", "ended"}
          BY <3>2 DEF Begun
    <3> QED BY <3>1, <3>2
  <2> HIDE DEF o
  <2>3. Afresh(q) /\ q.state = "seeking" /\ q.signal = o.signal /\ q.last = o.last
        BY <2>2, EndpointAfresh
  <2> HIDE DEF q
  <2>4. Onward(q, s, video, audio) /\ Keeps(q, s)
        BY <2>2, <2>3 DEF Onward, Calm, Keeps
  <2> QED BY <2>1, <2>4, OnwardStands
<1>2. CASE SubmitFails
  <2>1. Do(EndpointRecovered(s))
        BY <1>2 DEF SubmitFails
  <2>2. Onward(EndpointRecovered(s), s, video, audio) /\ Keeps(EndpointRecovered(s), s)
        BY EndpointAfresh DEF Begun, Onward, Calm, Keeps
  <2> QED BY <2>1, <2>2, OnwardStands
<1>3. CASE WorkerLosesDevice \/ PresentLosesDevice
  <2>1. Do(DeviceRecovered(s))
        BY <1>3 DEF WorkerLosesDevice, PresentLosesDevice
  <2>2. Onward(DeviceRecovered(s), s, video, audio) /\ Keeps(DeviceRecovered(s), s)
        BY DeviceAfresh DEF Begun, Onward, Calm, Keeps
  <2> QED BY <2>1, <2>2, OnwardStands
<1>4. CASE PlaybackFails
  <2> DEFINE q == Failed(s)
  <2>1. Do(q)
        BY <1>4 DEF PlaybackFails
  <2>2. Good(q, video, audio) /\ Calm(q, s) /\ Keeps(q, s) /\ q.order.kind = "stop"
        BY FailedGood DEF Begun
  <2> HIDE DEF q
  <2>3. Good(s', video', audio') /\ But(s', q, {"order"})
        BY <2>1, <2>2, DoStopped
  <2>4. /\ s'.signal = q.signal /\ s'.last = q.last /\ s'.pausedAt = q.pausedAt
        /\ s'.anchor = q.anchor /\ s'.started = q.started /\ s'.vclock = q.vclock
        /\ s'.state = q.state
        BY <2>3 DEF But, Fields
  <2>5. Calm(s', s) /\ Keeps(s', s)
        BY <2>2, <2>4 DEF Calm, Keeps, Ticking
  <2> QED BY <2>3, <2>5, CalmStands
<1> QED BY <1>1, <1>2, <1>3, <1>4 DEF Environment

LEMMA StillPlays == Begun /\ UNCHANGED <<s, video, audio>> => PlayStands
<1> SUFFICES ASSUME Begun, UNCHANGED <<s, video, audio>> PROVE PlayStands
    OBVIOUS
<1>1. Good(s', video', audio') /\ Calm(s', s) /\ Keeps(s', s)
      BY DEF Begun, Calm, Keeps
<1> QED BY <1>1, CalmStands

LEMMA StepPlayback == SessionInv /\ PlaybackInv /\ [Next]_vars => PlayStands
<1> SUFFICES ASSUME SessionInv, PlaybackInv, [Next]_vars PROVE PlayStands
    OBVIOUS
<1>1. Begun /\ (s.state = "error" => s.vq = <<>>)
      BY DEF SessionInv, PlaybackInv, Begun
<1>2. CASE UserStep \/ TimePasses \/ DrainAudio \/ DrainVideo \/ Environment
      BY <1>1, <1>2, UserPlays, TimePlays, DrainAudioPlays, DrainVideoPlays, EnvironmentPlays
<1>3. CASE Tick
  <2>1. CASE AudioDrained \/ VideoDrained \/ HoldPicture
        BY <1>1, <2>1, StillPlays DEF AudioDrained, VideoDrained, HoldPicture
  <2>2. CASE StartTick \/ Submit \/ ShowFrame \/ FinishTick
        BY <1>1, <2>2, StartTickPlays, SubmitPlays, ShowPlays, FinishPlays
  <2> QED BY <1>3, <2>1, <2>2 DEF Tick
<1>4. CASE UNCHANGED vars
      BY <1>1, <1>4, StillPlays DEF vars
<1> QED BY <1>2, <1>3, <1>4 DEF Next

(* The phases of the tick, and the count of what was done.                  *)
LEMMA StepCount ==
    PlaybackInv /\ [Next]_vars =>
        /\ pc' \in {"input", "audio", "video", "submit", "advance", "finish"}
        /\ commands' \in 0 .. MaxCommands
<1> SUFFICES ASSUME PlaybackInv, [Next]_vars
             PROVE  /\ pc' \in {"input", "audio", "video", "submit", "advance", "finish"}
                    /\ commands' \in 0 .. MaxCommands
    OBVIOUS
<1>1. /\ pc \in {"input", "audio", "video", "submit", "advance", "finish"}
      /\ commands \in 0 .. MaxCommands
      BY DEF PlaybackInv
<1>2. commands < MaxCommands => commands + 1 \in 0 .. MaxCommands
      BY <1>1, Bounds
<1>3. CASE UserStep
      BY <1>1, <1>2, <1>3
      DEF UserStep, Open, TogglePause, Seek, Scrub, StepFrame, StepRate, SetClip, Ask
<1>4. CASE TimePasses \/ DrainAudio \/ DrainVideo
      BY <1>1, <1>4 DEF TimePasses, DrainAudio, DrainVideo, Phase
<1>5. CASE Tick
      BY <1>1, <1>5 DEF Tick, StartTick, AudioDrained, VideoDrained, Submit, HoldPicture,
                        ShowFrame, FinishTick, Phase
<1>6. CASE Environment
      BY <1>1, <1>2, <1>6 DEF Environment, SwitchEndpoint, SubmitFails, WorkerLosesDevice,
                              PresentLosesDevice, PlaybackFails, Fault
<1>7. CASE UNCHANGED vars
      BY <1>1, <1>7 DEF vars
<1> QED BY <1>3, <1>4, <1>5, <1>6, <1>7 DEF Next

LEMMA InitPlayback == Init => PlaybackInv
<1> SUFFICES ASSUME Init PROVE PlaybackInv
    OBVIOUS
<1>1. Flags(s)
      BY DEF Init, Flags, Fields, States
<1>2. None \in Positions /\ None \in None .. End
      BY Bounds DEF Positions
<1>3. Timed(s)
      BY <1>2 DEF Init, Timed
<1>4. Len(<<>>) = 0 /\ \A V : <<>> \in Seq(V)
      OBVIOUS
<1>5. Gone \in 0 .. Gone /\ Gone >= End
      BY Bounds
<1>6. Picture(s, video)
      BY <1>2, <1>4, <1>5, Bounds DEF Init, Picture
<1>7. Sound(s, audio)
      BY <1>2, <1>4, Bounds DEF Init, Sound
<1>8. commands \in 0 .. MaxCommands
      BY Bounds DEF Init
<1> QED BY <1>1, <1>3, <1>6, <1>7, <1>8 DEF Init, Good, PlaybackInv

-----------------------------------------------------------------------------
(* The third invariant: a session that is neither over nor failed still has *)
(* everything its workers have delivered, or has made use of it.            *)

Over == {"ended", "error"}

\* Once the picture was delivered to its end, its last frame is queued, or on show.
PictureWhole(p, v) ==
    p.file # "audio" /\ p.state # "idle" /\ v >= End /\ p.discard # End =>
        IF p.vq = <<>> THEN p.selected /\ p.last = End - 1 ELSE p.vq[Len(p.vq)] = End - 1

\* The queued sound and the anchored row end exactly where the worker has got, and no
\* frame was discarded once the clock was anchored.
SoundWhole(p, a) ==
    /\ \A i \in 1 .. Len(p.aq) : p.aq[i] + Len(p.aq) - i = Reached(a) - 1
    /\ p.anchor # None => p.anchor + p.sent + Len(p.aq) = Reached(a)
    /\ p.discard # None => /\ p.anchor # None => p.anchor >= p.discard
                           /\ \A i \in 1 .. Len(p.aq) : p.aq[i] >= p.discard

Whole(p, v, a) ==
    /\ p.state = "idle" => p.vq = <<>> /\ v = Gone
    /\ ~p.normal => p.anchor = None
    /\ p.state \notin Over => PictureWhole(p, v) /\ SoundWhole(p, a)

\* What Whole speaks of.
Contents == {"file", "vq", "aq", "anchor", "sent", "discard", "selected", "last", "normal"}

(* A handler that leaves them alone neither ends nor revives a session, or  *)
(* ends it.                                                                 *)
LEMMA WholeKept ==
    ASSUME NEW p, NEW q, NEW F, NEW v, NEW a, Whole(p, v, a), But(q, p, F), Contents \cap F = {},
           q.state \notin Over => p.state \notin Over, q.state = "idle" <=> p.state = "idle"
    PROVE  Whole(q, v, a)
<1>1. /\ q.file = p.file /\ q.vq = p.vq /\ q.aq = p.aq /\ q.anchor = p.anchor
      /\ q.sent = p.sent /\ q.discard = p.discard /\ q.selected = p.selected
      /\ q.last = p.last /\ q.normal = p.normal
      BY DEF But, Fields, Contents
<1> QED BY <1>1 DEF Whole, PictureWhole, SoundWhole

LEMMA WholeOver ==
    ASSUME NEW p, NEW v, NEW a, p.state \in Over, p.normal \/ p.anchor = None
    PROVE  Whole(p, v, a)
BY DEF Whole, Over

\* A handler gives a new order, or keeps what there was.
Forth(q, v, a) == Afresh(q) \/ Whole(q, v, a)

LEMMA AfreshWhole ==
    ASSUME NEW p, Afresh(p), Do(p)
    PROVE  Whole(s', video', audio')
<1>1. Good(s', video', audio') /\ But(s', p, {"order"})
      BY DoAfresh
<1>2. /\ s'.state = p.state /\ s'.file = p.file /\ s'.vq = <<>> /\ s'.aq = <<>>
      /\ s'.anchor = None
      BY <1>1 DEF But, Fields, Afresh, Cleared
<1>3. s'.state # "idle"
      BY <1>2 DEF Afresh
<1>4. s'.file # "audio" => ~(video' >= End)
  <2> SUFFICES ASSUME p.file # "audio" PROVE ~(video' >= End)
      BY <1>2
  <2>1. VideoFollows(p) = 0 .. Least(p.order.at, End - 1)
        BY DEF VideoFollows, Afresh
  <2>2. video' \in 0 .. Least(p.order.at, End - 1)
        BY <2>1 DEF Do
  <2>3. Least(p.order.at, End - 1) \in Int /\ Least(p.order.at, End - 1) <= End - 1
        BY Bounds DEF Afresh, Least
  <2> QED BY <2>2, <2>3, Bounds
<1>5. Len(<<>>) = 0
      OBVIOUS
<1> QED BY <1>2, <1>3, <1>4, <1>5 DEF Whole, PictureWhole, SoundWhole

LEMMA WholeTaken ==
    ASSUME NEW p, Good(p, video, audio), p.order = NoOrder, Do(p), Whole(p, video, audio)
    PROVE  Whole(s', video', audio')
<1>1. But(s', p, {"order"})
      BY DoGoesOn
<1>2. video' = video /\ audio' = audio
      BY ShapedGood, DoKeeps
<1>3. s'.state = p.state
      BY <1>1 DEF But, Fields
<1> QED BY <1>1, <1>2, <1>3, WholeKept DEF Contents

LEMMA ForthDone ==
    ASSUME Begun, NEW q, Onward(q, s, video, audio), Forth(q, video, audio), Do(q)
    PROVE  Whole(s', video', audio')
<1>1. CASE Afresh(q)
      BY <1>1, AfreshWhole
<1>2. CASE ~Afresh(q)
      BY <1>2, WholeTaken DEF Onward, Forth, Begun
<1> QED BY <1>1, <1>2

-----------------------------------------------------------------------------
(* What the user asks for.                                                  *)

LEMMA SoughtForth ==
    ASSUME NEW p, NEW v, NEW a, Good(p, v, a), Whole(p, v, a), NEW at \in Nat
    PROVE  Forth(Sought(p, at), v, a)
BY SoughtAfresh DEF Forth

LEMMA PauseSetWhole ==
    ASSUME NEW p, NEW v, NEW a, Good(p, v, a), Whole(p, v, a), NEW b \in BOOLEAN
    PROVE  LET q == [p EXCEPT !.pauseAfter = b] IN Good(q, v, a) /\ Whole(q, v, a)
<1> DEFINE q == [p EXCEPT !.pauseAfter = b]
<1>1. Good(q, v, a) /\ But(q, p, {"pauseAfter"})
      BY PauseSetGood
<1> HIDE DEF q
<1>2. q.state = p.state
      BY <1>1 DEF But, Fields
<1>3. Whole(q, v, a)
      BY <1>1, <1>2, WholeKept DEF Contents
<1> QED BY <1>1, <1>3 DEF q

LEMMA PendingToggledForth ==
    ASSUME NEW p, NEW v, NEW a, Good(p, v, a), Whole(p, v, a)
    PROVE  Forth(PendingToggled(p), v, a)
<1>1. CASE ~p.pauseAfter
  <2> DEFINE q == PendingToggled(p)
  <2>1. But(q, p, {"pauseAfter", "started"}) /\ q.state = p.state
        BY <1>1 DEF PendingToggled, Good, Flags, Fields, But
  <2> HIDE DEF q
  <2>2. Whole(q, v, a)
        BY <2>1, WholeKept DEF Contents
  <2> QED BY <2>2 DEF Forth, q
<1>2. CASE p.pauseAfter
  <2> DEFINE o == [p EXCEPT !.pauseAfter = FALSE]
             at == IF OutsideRange(p, Position(p)) THEN ReplayAt(p) ELSE Position(p)
  <2>1. Good(o, v, a) /\ Whole(o, v, a)
        BY PauseSetWhole
  <2>2. at \in Nat
        BY ClockTicks, Bounds DEF Good, ReplayAt, Timed, Positions
  <2>3. PendingToggled(p) = Sought(o, at)
        BY <1>2 DEF PendingToggled
  <2> HIDE DEF o, at
  <2> QED BY <2>1, <2>2, <2>3, SoughtForth
<1> QED BY <1>1, <1>2

LEMMA PausedNowWhole ==
    ASSUME NEW p, NEW v, NEW a, Good(p, v, a), Whole(p, v, a),
           p.state \in {"playing", "draining", "priming"}
    PROVE  Whole(PausedNow(p), v, a)
<1> DEFINE q == PausedNow(p)
<1>1. But(q, p, {"state", "pausedAt", "started"}) /\ q.state = "paused"
      BY DEF Good, Flags, Fields, PausedNow, But
<1> HIDE DEF q
<1>2. Whole(q, v, a)
      BY <1>1, WholeKept DEF Contents, Over
<1> QED BY <1>2 DEF q

LEMMA ResumedWhole ==
    ASSUME NEW p, NEW v, NEW a, Good(p, v, a), Whole(p, v, a), p.state = "paused"
    PROVE  Whole(Resumed(p), v, a)
<1> DEFINE q == Resumed(p)
<1>1. /\ But(q, p, {"pausedAt", "state", "started", "buffered", "vclock"})
      /\ q.state \in {"playing", "priming"}
      BY DEF Good, Flags, Fields, Resumed, But
<1> HIDE DEF q
<1>2. Whole(q, v, a)
      BY <1>1, WholeKept DEF Contents, Over
<1> QED BY <1>2 DEF q

LEMMA ToggledForth ==
    ASSUME NEW p, NEW v, NEW a, Good(p, v, a), Whole(p, v, a)
    PROVE  Forth(Toggled(p), v, a)
<1>1. ReplayAt(p) \in Nat
      BY Bounds DEF Good, ReplayAt, Timed, Positions
<1>2. p.state \in States
      BY DEF Good, Flags
<1>3. CASE SeekPending(p)
  <2>1. Toggled(p) = PendingToggled(p)
        BY <1>3 DEF Toggled, SeekPending
  <2> QED BY <2>1, PendingToggledForth
<1>4. CASE ~SeekPending(p) /\ p.state \in {"playing", "draining", "priming"}
  <2>1. Toggled(p) = PausedNow(p)
        BY <1>4 DEF Toggled, SeekPending
  <2> QED BY <1>4, <2>1, PausedNowWhole DEF Forth
<1>5. CASE p.state = "paused" /\ OutsideRange(p, Position(p))
  <2> DEFINE o == [p EXCEPT !.pauseAfter = FALSE]
  <2>1. Good(o, v, a) /\ Whole(o, v, a)
        BY PauseSetWhole
  <2>2. Toggled(p) = Sought(o, ReplayAt(p))
        BY <1>5 DEF Toggled, SeekPending
  <2> HIDE DEF o
  <2> QED BY <1>1, <2>1, <2>2, SoughtForth
<1>6. CASE \/ p.state = "paused" /\ ~OutsideRange(p, Position(p)) /\ NothingLeft(p)
           \/ p.state = "ended"
  <2>1. Toggled(p) = Sought(p, ReplayAt(p))
        BY <1>6 DEF Toggled, SeekPending
  <2> QED BY <1>1, <2>1, SoughtForth
<1>7. CASE p.state = "paused" /\ ~OutsideRange(p, Position(p)) /\ ~NothingLeft(p)
  <2>1. Toggled(p) = Resumed(p)
        BY <1>7 DEF Toggled, SeekPending
  <2> QED BY <1>7, <2>1, ResumedWhole DEF Forth
<1>8. CASE p.state \in {"idle", "opening", "error"}
  <2>1. Toggled(p) = p
        BY <1>8 DEF Toggled, SeekPending
  <2> QED BY <2>1 DEF Forth
<1> QED BY <1>2, <1>3, <1>4, <1>5, <1>6, <1>7, <1>8 DEF States, SeekPending

LEMMA SteppedForth ==
    ASSUME NEW p, NEW v, NEW a, Good(p, v, a), Whole(p, v, a), NEW by \in {-1, 1}
    PROVE  Forth(Stepped(p, by), v, a)
<1> DEFINE q == IF p.state \in {"paused", "ended"} THEN p ELSE Toggled(p)
           o == [q EXCEPT !.pauseAfter = TRUE]
           at == IF q.target # None THEN q.target
                 ELSE IF q.last # None THEN q.last ELSE Position(q)
           to == IF at + by < 0 THEN 0 ELSE at + by
<1>1. /\ Onward(q, p, v, a)
      /\ p.state \in {"idle", "opening", "error"} => q = p
      /\ p.state \notin {"idle", "opening", "error"}
            => q.state \notin {"idle", "opening", "error"}
  <2>1. CASE p.state \in {"paused", "ended"}
        BY <2>1 DEF Onward, Calm
  <2>2. CASE p.state \notin {"paused", "ended"}
        BY <2>2, ToggledOnward
  <2> QED BY <2>1, <2>2
<1> HIDE DEF q
<1>2. PICK w, b : Good(q, w, b)
  <2>1. Gone \in 0 .. Gone /\ Gone >= End
        BY Bounds
  <2>2. Afresh(q) => Good(q, Gone, Gone)
        BY <2>1, AfreshGood
  <2> QED BY <1>1, <2>2 DEF Onward
<1>3. Good(o, w, b) /\ But(o, q, {"pauseAfter"})
      BY <1>2, PauseSetGood
<1>4. o.state = q.state
      BY <1>3 DEF But, Fields
<1>5. at \in Nat
  <2>1. Position(q) \in 0 .. End + 1
        BY <1>2, ClockTicks DEF Good
  <2>2. q.target \in None .. End /\ q.last \in None .. End + 1
        BY <1>2 DEF Good, Timed, Positions
  <2> QED BY <2>1, <2>2, Bounds
<1>6. Stepped(p, by) = Sought(o, to)
      BY DEF Stepped, q
<1> HIDE DEF at
<1>7. to \in Nat
      BY <1>5
<1> HIDE DEF to
<1>8. CASE p.state \notin {"idle", "opening", "error"}
  <2> HIDE DEF o
  <2> QED BY <1>1, <1>3, <1>4, <1>6, <1>7, <1>8, SoughtAfresh DEF Forth
<1>9. CASE p.state \in {"idle", "opening", "error"}
  <2>1. Stepped(p, by) = o /\ q = p
        BY <1>1, <1>4, <1>6, <1>9 DEF Sought
  <2>2. Whole(o, v, a)
        BY <2>1, PauseSetWhole DEF o
  <2> QED BY <2>1, <2>2 DEF Forth
<1> QED BY <1>8, <1>9

LEMMA RateWhole ==
    ASSUME NEW p, NEW v, NEW a, Good(p, v, a), Whole(p, v, a), NEW normal \in BOOLEAN
    PROVE  Whole(RateChanged(p, normal), v, a)
<1> DEFINE q == RateChanged(p, normal)
<1>1. /\ But(q, p, {"anchor", "sent", "normal", "vclock", "aq"})
      /\ q.anchor = None /\ q.aq = <<>>
      BY DEF Good, Flags, Fields, RateChanged, ClockReset, But
<1> HIDE DEF q
<1>2. /\ q.state = p.state /\ q.file = p.file /\ q.vq = p.vq /\ q.discard = p.discard
      /\ q.selected = p.selected /\ q.last = p.last
      BY <1>1 DEF But, Fields
<1>3. Len(<<>>) = 0
      OBVIOUS
<1>4. Whole(q, v, a)
      BY <1>1, <1>2, <1>3 DEF Whole, PictureWhole, SoundWhole
<1> QED BY <1>4 DEF q

LEMMA ClipWhole ==
    ASSUME NEW p, NEW v, NEW a, Good(p, v, a), Whole(p, v, a), NEW at,
           NEW q \in {InSet(p, at), OutSet(p, at), InCleared(p), OutCleared(p), LoopToggled(p)}
    PROVE  Whole(q, v, a)
<1>1. DOMAIN p = Fields
      BY DEF Good, Flags
<1>2. But(q, p, {"in", "out", "loop", "replay"})
      BY <1>1 DEF InSet, OutSet, InCleared, OutCleared, LoopToggled, Fields, But
<1>3. q.state = p.state
      BY <1>2 DEF But, Fields
<1> QED BY <1>2, <1>3, WholeKept DEF Contents

\* The state the steps start from.
BegunWhole == Begun /\ Whole(s, video, audio)

LEMMA UserWhole == BegunWhole /\ UserStep => Whole(s', video', audio')
<1> SUFFICES ASSUME BegunWhole, UserStep PROVE Whole(s', video', audio')
    OBVIOUS
<1> USE DEF BegunWhole
<1>1. CASE Open
  <2>1. PICK file \in Files, start \in 0 .. End - 1 : Do(Opened(s, file, start))
        BY <1>1 DEF Open
  <2>2. start \in 0 .. End
        BY Bounds
  <2>3. Afresh(Opened(s, file, start))
        BY <2>2, OpenedAfresh DEF Begun
  <2> QED BY <2>1, <2>3, AfreshWhole
<1>2. CASE TogglePause
  <2>1. Onward(Toggled(s), s, video, audio)
        BY ToggledOnward DEF Begun
  <2>2. Forth(Toggled(s), video, audio)
        BY ToggledForth DEF Begun
  <2> QED BY <1>2, <2>1, <2>2, ForthDone DEF TogglePause
<1>3. CASE Seek \/ Scrub
  <2>1. PICK b \in BOOLEAN, at \in 0 .. End : Do(Sought([s EXCEPT !.pauseAfter = b], at))
        BY <1>3 DEF Seek, Scrub
  <2> DEFINE o == [s EXCEPT !.pauseAfter = b]
  <2>2. Good(o, video, audio) /\ Whole(o, video, audio) /\ But(o, s, {"pauseAfter"})
        BY PauseSetWhole, PauseSetGood DEF Begun
  <2>3. o.order = NoOrder
        BY <2>2 DEF But, Fields, Begun
  <2>4. at \in Nat
        BY Bounds
  <2>5. Do(Sought(o, at))
        BY <2>1
  <2> HIDE DEF o
  <2>6. Sought(o, at) = o \/ Afresh(Sought(o, at))
        BY <2>2, <2>4, SoughtAfresh
  <2> QED BY <2>2, <2>3, <2>5, <2>6, AfreshWhole, WholeTaken
<1>4. CASE StepFrame
  <2>1. PICK by \in {-1, 1} : Do(Stepped(s, by))
        BY <1>4 DEF StepFrame
  <2>2. Onward(Stepped(s, by), s, video, audio) /\ Forth(Stepped(s, by), video, audio)
        BY SteppedOnward, SteppedForth DEF Begun
  <2> QED BY <2>1, <2>2, ForthDone
<1>5. CASE StepRate
  <2>1. PICK normal \in BOOLEAN : Do(RateChanged(s, normal))
        BY <1>5 DEF StepRate
  <2>2. Onward(RateChanged(s, normal), s, video, audio)
        BY RateGood DEF Begun, GoesOn, Onward
  <2>3. Forth(RateChanged(s, normal), video, audio)
        BY RateWhole DEF Begun, Forth
  <2> QED BY <2>1, <2>2, <2>3, ForthDone
<1>6. CASE SetClip
  <2>1. PICK q \in {InSet(s, Position(s)), OutSet(s, Position(s)), InCleared(s), OutCleared(s),
                    LoopToggled(s)} : Do(q)
        BY <1>6 DEF SetClip
  <2>2. Position(s) \in 0 .. End + 1
        BY ClockTicks DEF Begun, Good
  <2>3. Onward(q, s, video, audio)
        BY <2>2, ClipGood DEF Begun, GoesOn, Onward
  <2>4. Forth(q, video, audio)
        BY ClipWhole DEF Begun, Forth
  <2> QED BY <2>1, <2>3, <2>4, ForthDone
<1> QED BY <1>1, <1>2, <1>3, <1>4, <1>5, <1>6 DEF UserStep

-----------------------------------------------------------------------------
(* Time, and what the workers deliver.                                      *)

LEMMA TimeWhole == BegunWhole /\ TimePasses => Whole(s', video', audio')
<1> SUFFICES ASSUME BegunWhole, TimePasses PROVE Whole(s', video', audio')
    OBVIOUS
<1>1. /\ s' = [s EXCEPT !.vclock = IF @ \in 0 .. End THEN @ + 1 ELSE @,
                        !.buffered = IF s.started /\ @ > 0 THEN @ - 1 ELSE @]
      /\ video' = video /\ audio' = audio
      BY DEF TimePasses
<1>2. But(s', s, {"vclock", "buffered"}) /\ s'.state = s.state
      BY <1>1 DEF BegunWhole, Begun, Good, Flags, Fields, But
<1>3. Whole(s', video, audio)
      BY <1>2, WholeKept DEF BegunWhole, Contents
<1> QED BY <1>1, <1>3

(* Off normal speed the queued sound is thrown away, but then no clock is   *)
(* anchored in it.                                                          *)
LEMMA StartTickWhole == BegunWhole /\ StartTick => Whole(s', video', audio')
<1> SUFFICES ASSUME BegunWhole, StartTick PROVE Whole(s', video', audio')
    OBVIOUS
<1> USE DEF BegunWhole
<1> DEFINE o == [s EXCEPT !.aq = <<>>]
<1>1. Do(s) \/ (Do(o) /\ ~s.normal)
      BY DEF StartTick
<1>2. CASE Do(s)
      BY <1>2, WholeTaken DEF Begun
<1>3. CASE Do(o) /\ ~s.normal
  <2>1. But(o, s, {"aq"}) /\ o.aq = <<>>
        BY DEF Begun, Good, Flags, Fields, But
  <2>2. s' = [o EXCEPT !.order = NoOrder]
        BY <1>3 DEF Do
  <2> HIDE DEF o
  <2>3. But(s', o, {"order"})
        BY <2>1, <2>2 DEF But, Fields
  <2>4. /\ s'.state = s.state /\ s'.file = s.file /\ s'.vq = s.vq /\ s'.discard = s.discard
        /\ s'.selected = s.selected /\ s'.last = s.last /\ s'.aq = <<>>
        /\ s'.anchor = s.anchor /\ s'.normal = s.normal
        BY <2>1, <2>3 DEF But, Fields
  <2>5. o.order = NoOrder
        BY <2>1 DEF But, Fields, Begun
  <2>6. video' = video
    <3>1. VideoFollows(o) = {video}
          BY <2>5 DEF VideoFollows, NoOrder
    <3> QED BY <1>3, <3>1 DEF Do
  <2>7. s.anchor = None
        BY <1>3 DEF Whole
  <2>8. Len(<<>>) = 0
        OBVIOUS
  <2> QED BY <2>4, <2>6, <2>7, <2>8 DEF Whole, PictureWhole, SoundWhole
<1> QED BY <1>1, <1>2, <1>3

LEMMA DrainAudioWhole == BegunWhole /\ DrainAudio => Whole(s', video', audio')
<1> SUFFICES ASSUME BegunWhole, DrainAudio PROVE Whole(s', video', audio')
    OBVIOUS
<1> USE DEF BegunWhole
<1>1. /\ audio # Gone /\ video' = video
      /\ s' = IF audio = AudioEnd THEN AudioFinished(s) ELSE AudioArrived(s, audio)
      /\ audio' = IF audio = AudioEnd THEN Gone ELSE audio + 1
      BY DEF DrainAudio
<1>2. audio \in 0 .. AudioEnd
      BY <1>1 DEF Begun, Good, Sound
<1>3. CASE audio = AudioEnd
  <2>1. But(s', s, {"audioExpected", "audioEnded"})
        BY <1>1, <1>3 DEF AudioFinished, Begun, Good, Flags, Fields, But
  <2>2. s'.state = s.state
        BY <2>1 DEF But, Fields
  <2>3. Whole(s', video, audio)
        BY <2>1, <2>2, WholeKept DEF Contents
  <2>4. Reached(audio') = Reached(audio)
        BY <1>1, <1>3 DEF Reached
  <2> QED BY <1>1, <2>3, <2>4 DEF Whole, SoundWhole
<1>4. CASE audio # AudioEnd
  <2>1. audio \in 0 .. AudioEnd - 1 /\ audio' = audio + 1 /\ s' = AudioArrived(s, audio)
        BY <1>1, <1>2, <1>4, Bounds
  <2>2. Reached(audio) = audio /\ Reached(audio') = audio + 1 /\ audio \in Int
        BY <2>1, Bounds DEF Reached
  <2>3. /\ Len(s.aq) \in Nat /\ \A i \in 1 .. Len(s.aq) : s.aq[i] \in Int
        /\ s.anchor \in Int /\ s.sent \in Nat /\ s.discard \in Int
    <3> DEFINE S == 0 .. AudioEnd - 1
    <3>1. S \subseteq Int
          BY Bounds
    <3> HIDE DEF S
    <3>2. s.aq \in Seq(S)
          BY DEF Begun, Good, Sound, S
    <3>3. Len(s.aq) \in Nat /\ \A i \in 1 .. Len(s.aq) : s.aq[i] \in S
          BY <3>2
    <3>4. s.anchor \in None .. End /\ s.sent \in Nat /\ s.discard \in None .. End
          BY DEF Begun, Good, Sound, Picture
    <3>5. None .. End \subseteq Int
          BY Bounds
    <3> HIDE DEF BegunWhole
    <3> QED BY <3>1, <3>3, <3>4, <3>5
  <2>4. CASE Discarded(s, audio)
    <3>1. s' = s /\ s.discard # None /\ audio < s.discard
          BY <2>1, <2>4 DEF AudioArrived, Discarded
    <3>2. s.state \notin Over => s.anchor = None /\ Len(s.aq) = 0
      <4> SUFFICES ASSUME s.state \notin Over PROVE s.anchor = None /\ Len(s.aq) = 0
          OBVIOUS
      <4>1. SoundWhole(s, audio)
            BY DEF Whole
      <4>2. s.anchor = None
        <5> SUFFICES ASSUME s.anchor # None PROVE FALSE
            OBVIOUS
        <5>1. s.anchor + s.sent + Len(s.aq) = audio /\ s.anchor >= s.discard
              BY <2>2, <3>1, <4>1 DEF SoundWhole
        <5> QED BY <2>2, <2>3, <3>1, <5>1
      <4>3. Len(s.aq) = 0
        <5> SUFFICES ASSUME Len(s.aq) # 0 PROVE FALSE
            OBVIOUS
        <5>1. 1 \in 1 .. Len(s.aq)
              BY <2>3
        <5>2. s.aq[1] + Len(s.aq) - 1 = audio - 1 /\ s.aq[1] >= s.discard /\ s.aq[1] \in Int
              BY <2>2, <2>3, <3>1, <4>1, <5>1 DEF SoundWhole
        <5> QED BY <2>2, <2>3, <3>1, <5>1, <5>2
      <4> QED BY <4>2, <4>3
    <3> QED BY <1>1, <3>1, <3>2 DEF Whole, SoundWhole
  <2>5. CASE ~Discarded(s, audio)
    <3>1. /\ But(s', s, {"audioExpected", "aq", "state"}) /\ s'.aq = Append(s.aq, audio)
          /\ s'.state = s.state \/ (s.state \in {"opening", "seeking"} /\ s'.state = "priming")
          BY <2>1, <2>5 DEF AudioArrived, Primed, Begun, Good, Flags, Fields, But
    <3>2. /\ s'.file = s.file /\ s'.vq = s.vq /\ s'.anchor = s.anchor /\ s'.sent = s.sent
          /\ s'.discard = s.discard /\ s'.selected = s.selected /\ s'.last = s.last
          /\ s'.normal = s.normal
          BY <3>1 DEF But, Fields
    <3>3. /\ Len(s'.aq) = Len(s.aq) + 1 /\ s'.aq[Len(s.aq) + 1] = audio
          /\ \A i \in 1 .. Len(s.aq) : s'.aq[i] = s.aq[i]
      <4>1. s.aq \in Seq(0 .. AudioEnd - 1)
            BY DEF Begun, Good, Sound
      <4> QED BY <2>1, <3>1, <4>1
    <3>4. (s'.state \notin Over => s.state \notin Over) /\ (s'.state = "idle" <=> s.state = "idle")
          BY <3>1 DEF Over
    <3>5. s.state \notin Over => SoundWhole(s', audio')
      <4> SUFFICES ASSUME s.state \notin Over PROVE SoundWhole(s', audio')
          OBVIOUS
      <4>1. SoundWhole(s, audio)
            BY DEF Whole
      <4>2. \A i \in 1 .. Len(s'.aq) : i \in 1 .. Len(s.aq) \/ i = Len(s.aq) + 1
            BY <2>3, <3>3
      <4>3. \A i \in 1 .. Len(s'.aq) : s'.aq[i] + Len(s'.aq) - i = Reached(audio') - 1
        <5> SUFFICES ASSUME NEW i \in 1 .. Len(s'.aq)
                     PROVE  s'.aq[i] + Len(s'.aq) - i = Reached(audio') - 1
            OBVIOUS
        <5>1. CASE i \in 1 .. Len(s.aq)
          <6>1. s.aq[i] + Len(s.aq) - i = audio - 1 /\ s.aq[i] \in Int /\ s'.aq[i] = s.aq[i]
                BY <2>2, <2>3, <3>3, <4>1, <5>1 DEF SoundWhole
          <6>2. i \in Int /\ Len(s.aq) \in Int /\ Len(s'.aq) = Len(s.aq) + 1
                BY <2>3, <3>3, <5>1
          <6>3. audio \in Int /\ Reached(audio') = audio + 1
                BY <2>2
          <6> QED BY ONLY <6>1, <6>2, <6>3
        <5>2. CASE i = Len(s.aq) + 1
              BY <2>2, <2>3, <3>3, <5>2
        <5> QED BY <4>2, <5>1, <5>2
      <4>4. s'.anchor # None => s'.anchor + s'.sent + Len(s'.aq) = Reached(audio')
        <5>1. s.anchor # None => s.anchor + s.sent + Len(s.aq) = audio
              BY <2>2, <4>1 DEF SoundWhole
        <5> QED BY <2>2, <2>3, <3>2, <3>3, <5>1
      <4>5. s'.discard # None => /\ s'.anchor # None => s'.anchor >= s'.discard
                                 /\ \A i \in 1 .. Len(s'.aq) : s'.aq[i] >= s'.discard
        <5>1. s.discard # None => audio >= s.discard
              BY <2>2, <2>3, <2>5 DEF Discarded
        <5> QED BY <3>2, <3>3, <4>1, <4>2, <5>1 DEF SoundWhole
      <4> QED BY <4>3, <4>4, <4>5 DEF SoundWhole
    <3>6. Whole(s, video, audio)
          OBVIOUS
    <3> QED BY <1>1, <3>2, <3>4, <3>5, <3>6 DEF Whole, PictureWhole
  <2> QED BY <2>4, <2>5
<1> QED BY <1>3, <1>4

LEMMA DrainVideoWhole == BegunWhole /\ DrainVideo => Whole(s', video', audio')
<1> SUFFICES ASSUME BegunWhole, DrainVideo PROVE Whole(s', video', audio')
    OBVIOUS
<1> USE DEF BegunWhole
<1>1. /\ video # Gone /\ audio' = audio
      /\ s' = IF video = End THEN VideoFinished(s) ELSE VideoArrived(s, video)
      /\ video' = IF video = End THEN Gone ELSE video + 1
      BY DEF DrainVideo
<1>2. video \in 0 .. End /\ s.state # "idle"
      BY <1>1, Bounds DEF Begun, Good, Picture, Whole
<1>3. CASE video = End
  <2>1. /\ But(s', s, {"videoExpected", "videoEnded", "state"})
        /\ s'.state = s.state \/ (s.state \in {"playing", "priming"} /\ s'.state = "draining")
        BY <1>1, <1>3 DEF VideoFinished, Begun, Good, Flags, Fields, But
  <2>2. Whole(s', video, audio)
        BY <2>1, WholeKept DEF Contents, Over
  <2>3. s'.state # "idle" /\ video >= End
        BY <1>2, <1>3, <2>1, Bounds
  <2> QED BY <1>1, <2>2, <2>3 DEF Whole, PictureWhole
<1>4. CASE video # End
  <2>1. video \in 0 .. End - 1 /\ video' = video + 1 /\ s' = VideoArrived(s, video)
        BY <1>1, <1>2, <1>4, Bounds
  <2>2. video' >= End => video = End - 1
        BY <2>1, Bounds
  <2>3. CASE Discarded(s, video)
    <3>1. s' = s /\ video < s.discard /\ s.discard \in None .. End
          BY <2>1, <2>3 DEF VideoArrived, Discarded, Begun, Good, Picture
    <3>2. video' >= End => s.discard = End
          BY <2>1, <2>2, <3>1, Bounds
    <3> QED BY <1>1, <1>2, <3>1, <3>2 DEF Whole, PictureWhole
  <2>4. CASE ~Discarded(s, video)
    <3>1. /\ But(s', s, {"vq", "state"}) /\ s'.vq = Append(s.vq, video)
          /\ s'.state = s.state \/ (s.state \in {"opening", "seeking"} /\ s'.state = "priming")
          BY <2>1, <2>4 DEF VideoArrived, Primed, Begun, Good, Flags, Fields, But
    <3>2. /\ s'.file = s.file /\ s'.aq = s.aq /\ s'.anchor = s.anchor /\ s'.sent = s.sent
          /\ s'.discard = s.discard /\ s'.selected = s.selected /\ s'.last = s.last
          /\ s'.normal = s.normal
          BY <3>1 DEF But, Fields
    <3>3. s'.vq # <<>> /\ s'.vq[Len(s'.vq)] = video
      <4>1. s.vq \in Seq(0 .. End - 1)
            BY DEF Begun, Good, Picture
      <4> QED BY <2>1, <3>1, <4>1
    <3>4. (s'.state \notin Over => s.state \notin Over) /\ s'.state # "idle"
          BY <1>2, <3>1 DEF Over
    <3>5. PictureWhole(s', video')
          BY <2>2, <3>3 DEF PictureWhole
    <3> QED BY <1>1, <3>2, <3>4, <3>5 DEF Whole, SoundWhole
  <2> QED BY <2>3, <2>4
<1> QED BY <1>3, <1>4

-----------------------------------------------------------------------------
(* The phases of the tick.                                                  *)

(* What is written leaves the queue for the row that is anchored.           *)
LEMMA WrittenWhole ==
    ASSUME NEW p, NEW v, NEW a, Good(p, v, a), Whole(p, v, a), p.normal
    PROVE  Whole(Written(p), v, a)
<1> DEFINE L == Len(p.aq)
           n == Least(L, SinkCap - p.buffered)
           q == Written(p)
           S == 0 .. AudioEnd - 1
<1>1. /\ p.aq \in Seq(S) /\ p.buffered \in 0 .. SinkCap /\ p.sent \in Nat
      /\ p.anchor \in None .. End
      /\ p.anchor = None => p.sent = 0
      BY DEF Good, Sound
<1>2. S \subseteq Int
      BY Bounds
<1> HIDE DEF S
<1>3. /\ L \in Nat /\ \A i \in 1 .. L : p.aq[i] \in Int
  <2>1. Len(p.aq) \in Nat /\ \A i \in 1 .. Len(p.aq) : p.aq[i] \in S
        BY <1>1
  <2> QED BY <1>2, <2>1
<1> HIDE DEF L
<1>4. n \in 0 .. L
      BY <1>1, <1>3, Bounds DEF Least
<1>5. CASE n = 0
      BY <1>5 DEF Written, L
<1>6. CASE n # 0
  <2> DEFINE anchor == IF p.anchor = None THEN p.aq[1] ELSE p.anchor
             F == {"aq", "buffered", "sent", "started", "anchor", "vclock"}
  <2>1. q = [p EXCEPT !.aq = SubSeq(@, n + 1, Len(@)), !.buffered = @ + n, !.sent = @ + n,
                      !.started = TRUE, !.anchor = anchor,
                      !.vclock = IF p.anchor = None THEN None ELSE @]
        BY <1>6 DEF Written, L
  <2> HIDE DEF q, n, anchor
  <2>2. /\ But(q, p, F) /\ q.aq = SubSeq(p.aq, n + 1, Len(p.aq))
        /\ q.sent = p.sent + n /\ q.anchor = anchor
        BY <2>1 DEF Good, Flags, Fields, But
  <2>3. /\ q.state = p.state /\ q.file = p.file /\ q.vq = p.vq /\ q.discard = p.discard
        /\ q.selected = p.selected /\ q.last = p.last /\ q.normal = p.normal
        BY <2>2 DEF But, Fields
  <2>4. Len(q.aq) = L - n /\ \A i \in 1 .. L - n : q.aq[i] = p.aq[i + n]
    <3>1. n \in 0 .. Len(p.aq)
          BY <1>4 DEF L
    <3> QED BY <1>1, <2>2, <3>1, RestOf DEF L
  <2>5. \A i \in 1 .. Len(q.aq) : i + n \in 1 .. L /\ i \in 1 .. L - n
        BY <1>3, <1>4, <2>4
  <2>6. p.state \notin Over => SoundWhole(q, a)
    <3> SUFFICES ASSUME p.state \notin Over PROVE SoundWhole(q, a)
        OBVIOUS
    <3>1. /\ \A i \in 1 .. L : p.aq[i] + L - i = Reached(a) - 1
          /\ p.anchor # None => p.anchor + p.sent + L = Reached(a)
          /\ p.discard # None => /\ p.anchor # None => p.anchor >= p.discard
                                 /\ \A i \in 1 .. L : p.aq[i] >= p.discard
          BY DEF Whole, SoundWhole, L
    <3>2. 1 \in 1 .. L
          BY <1>3, <1>4, <1>6
    <3>3. Reached(a) \in Int
          BY ReachedBound, Bounds DEF Good, Sound
    <3>4. \A i \in 1 .. Len(q.aq) : q.aq[i] + Len(q.aq) - i = Reached(a) - 1
      <4> SUFFICES ASSUME NEW i \in 1 .. Len(q.aq)
                   PROVE  q.aq[i] + Len(q.aq) - i = Reached(a) - 1
          OBVIOUS
      <4>1. /\ q.aq[i] = p.aq[i + n] /\ p.aq[i + n] \in Int
            /\ p.aq[i + n] + L - (i + n) = Reached(a) - 1
            BY <1>3, <2>4, <2>5, <3>1
      <4> QED BY <1>3, <1>4, <2>4, <3>3, <4>1
    <3>5. anchor \in Int /\ anchor + p.sent + L = Reached(a)
      <4>1. CASE p.anchor # None
        <5>1. anchor = p.anchor /\ p.anchor \in Int
              BY <1>1, <4>1, Bounds DEF anchor
        <5> QED BY <3>1, <4>1, <5>1
      <4>2. CASE p.anchor = None
        <5>1. p.aq[1] \in Int /\ p.aq[1] + L - 1 = Reached(a) - 1
              BY <1>3, <3>1, <3>2
        <5>2. anchor = p.aq[1] /\ p.sent = 0
              BY <1>1, <4>2 DEF anchor
        <5>3. L \in Int /\ Reached(a) \in Int
              BY <1>3, <3>3
        <5> QED BY ONLY <5>1, <5>2, <5>3
      <4> QED BY <4>1, <4>2
    <3>6. q.anchor + q.sent + Len(q.aq) = Reached(a)
      <4>1. q.anchor = anchor /\ q.sent = p.sent + n /\ Len(q.aq) = L - n
            BY <2>2, <2>4
      <4>2. n \in Int /\ L \in Int /\ p.sent \in Int
            BY <1>1, <1>3, <1>4
      <4> QED BY ONLY <3>5, <4>1, <4>2
    <3>7. p.discard # None => /\ q.anchor >= p.discard
                              /\ \A i \in 1 .. Len(q.aq) : q.aq[i] >= p.discard
          BY <2>2, <2>4, <2>5, <3>1, <3>2 DEF anchor
    <3> QED BY <2>3, <3>4, <3>6, <3>7 DEF SoundWhole
  <2>7. Whole(q, v, a)
        BY <2>3, <2>6 DEF Whole, PictureWhole
  <2> QED BY <2>7 DEF q
<1> QED BY <1>5, <1>6

LEMMA SubmittedWhole ==
    ASSUME NEW p, NEW v, NEW a, Good(p, v, a), Whole(p, v, a)
    PROVE  Whole(Submitted(p), v, a)
<1>1. CASE SubmitSkipped(p)
      BY <1>1 DEF Submitted
<1>2. CASE ~SubmitSkipped(p)
  <2> DEFINE w == Written(p)
             h == HandedOver(w)
             k == SinkStopped(h)
             q == AudioLed(k)
  <2>1. GoesOn(w, p, v, a) /\ Whole(w, v, a)
        BY <1>2, WrittenGood, WrittenWhole DEF SubmitSkipped
  <2> HIDE DEF w
  <2>2. GoesOn(h, w, v, a) /\ But(h, w, {"anchor", "sent", "vclock"})
        BY <2>1, HandedOverGood DEF GoesOn
  <2>3. Whole(h, v, a)
    <3>1. CASE h = w
          BY <2>1, <3>1
    <3>2. CASE h # w
      <4>1. w.aq = <<>> /\ h.anchor = None
            BY <2>1, <3>2 DEF HandedOver, ClockReset, GoesOn, Good, Flags, Fields
      <4> HIDE DEF h
      <4>2. /\ h.state = w.state /\ h.file = w.file /\ h.vq = w.vq /\ h.discard = w.discard
            /\ h.selected = w.selected /\ h.last = w.last /\ h.aq = w.aq
            BY <2>2 DEF But, Fields
      <4>3. Len(<<>>) = 0
            OBVIOUS
      <4> QED BY <2>1, <4>1, <4>2, <4>3 DEF Whole, PictureWhole, SoundWhole
    <3> QED BY <3>1, <3>2
  <2> HIDE DEF h
  <2>4. GoesOn(k, h, v, a) /\ But(k, h, {"started"})
        BY <2>2, SinkStoppedGood DEF GoesOn
  <2> HIDE DEF k
  <2>5. k.state = h.state
        BY <2>4 DEF But, Fields
  <2>6. Whole(k, v, a)
        BY <2>3, <2>4, <2>5, WholeKept DEF Contents
  <2>7. /\ But(q, k, {"state"})
        /\ q.state = k.state \/ (k.state = "priming" /\ q.state = "playing")
        BY <2>4, AudioLedGood DEF GoesOn
  <2> HIDE DEF q
  <2>8. Whole(q, v, a)
        BY <2>6, <2>7, WholeKept DEF Contents, Over
  <2>9. Submitted(p) = q
        BY <1>2 DEF Submitted, q, k, h, w
  <2> QED BY <2>8, <2>9
<1> QED BY <1>1, <1>2

LEMMA SubmitWhole == BegunWhole /\ Submit => Whole(s', video', audio')
<1>1. BegunWhole => Onward(Submitted(s), s, video, audio) /\ Forth(Submitted(s), video, audio)
      BY SubmittedGood, SubmittedWhole DEF BegunWhole, Begun, GoesOn, Onward, Forth
<1> QED BY <1>1, ForthDone DEF BegunWhole, Submit

(* The last frame leaves the queue only to be shown, or for the out-point   *)
(* to end the range.                                                        *)
LEMMA ShowWhole ==
    BegunWhole /\ (s.state = "error" => s.vq = <<>>) /\ ShowFrame => Whole(s', video', audio')
<1> SUFFICES ASSUME BegunWhole, s.state = "error" => s.vq = <<>>, ShowFrame
             PROVE  Whole(s', video', audio')
    OBVIOUS
<1> USE DEF BegunWhole
<1> DEFINE n     == Due(s)
           frame == s.vq[n]
           left  == [s EXCEPT !.vq = SubSeq(@, n + 1, Len(@))]
           S     == 0 .. End - 1
<1>1. n \in 1 .. Len(s.vq) /\ frame \in 0 .. End - 1
      BY DueInQueue DEF Begun, ShowFrame
<1>2. \/ TooLate(s) /\ Do(left)
      \/ Do(Presented(left, frame))
      \/ AtOutPoint(s, frame) /\ Do(RangeEnded(left, frame))
      BY DEF ShowFrame
<1>3. s.state \notin Over /\ s.state # "idle"
  <2>1. s.vq # <<>>
        BY <1>1
  <2> QED BY <2>1 DEF ShowFrame, NothingDue, Over, Whole
<1>4. But(left, s, {"vq"}) /\ left.vq = SubSeq(s.vq, n + 1, Len(s.vq))
      BY DEF Begun, Good, Flags, Fields, But
<1>5. s.vq \in Seq(S) /\ Len(s.vq) \in Nat
      BY DEF Begun, Good, Picture
<1>6. /\ Len(left.vq) = Len(s.vq) - n /\ left.vq \in Seq(S)
      /\ \A i \in 1 .. Len(s.vq) - n : left.vq[i] = s.vq[i + n]
  <2>1. n \in 0 .. Len(s.vq)
        BY <1>1
  <2> HIDE DEF left, S, n
  <2> QED BY <1>4, <1>5, <2>1, RestOf
<1>7. /\ left.state = s.state /\ left.file = s.file /\ left.discard = s.discard
      /\ left.selected = s.selected /\ left.last = s.last /\ left.aq = s.aq
      /\ left.anchor = s.anchor /\ left.sent = s.sent /\ left.normal = s.normal
      /\ left.order = NoOrder /\ DOMAIN left = Fields
      BY <1>4 DEF But, Fields, Begun
<1>8. \/ n < Len(s.vq) /\ left.vq # <<>> /\ left.vq[Len(left.vq)] = s.vq[Len(s.vq)]
      \/ n = Len(s.vq) /\ left.vq = <<>>
  <2> HIDE DEF n, left, S
  <2>1. CASE n < Len(s.vq)
    <3>1. Len(left.vq) \in 1 .. Len(s.vq) - n /\ Len(left.vq) + n = Len(s.vq)
          BY <1>1, <1>5, <1>6, <2>1
    <3>2. left.vq[Len(left.vq)] = s.vq[Len(s.vq)]
          BY <1>6, <3>1
    <3>3. Len(left.vq) # 0
          BY <1>1, <1>5, <1>6, <2>1
    <3>4. left.vq # <<>>
          BY <3>3
    <3> QED BY <2>1, <3>2, <3>4
  <2>2. CASE n = Len(s.vq)
    <3>1. Len(left.vq) = 0
          BY <1>5, <1>6, <2>2
    <3>2. left.vq = <<>>
          BY <1>6, <3>1
    <3> QED BY <2>2, <3>2
  <2>3. n < Len(s.vq) \/ n = Len(s.vq)
        BY <1>1, <1>5
  <2> QED BY <2>1, <2>2, <2>3
<1>9. s.vq # <<>>
      BY <1>1
<1>10. SoundWhole(s, audio) /\ PictureWhole(s, video) /\ (~s.normal => s.anchor = None)
      BY <1>3 DEF Whole
<1>11. \A q : Do(q) /\ q.order = NoOrder => video' = video /\ audio' = audio
  <2> SUFFICES ASSUME NEW q, Do(q), q.order = NoOrder PROVE video' = video /\ audio' = audio
      OBVIOUS
  <2>1. VideoFollows(q) = {video} /\ AudioFollows(q) = {audio}
        BY DEF VideoFollows, AudioFollows, NoOrder
  <2> QED BY <2>1 DEF Do
<1> HIDE DEF left
<1>12. CASE TooLate(s) /\ Do(left)
  <2>1. But(s', left, {"order"})
        BY <1>7, <1>12 DEF Do, But, Fields
  <2>2. /\ s'.state = s.state /\ s'.file = s.file /\ s'.discard = s.discard
        /\ s'.aq = s.aq /\ s'.anchor = s.anchor /\ s'.sent = s.sent /\ s'.normal = s.normal
        /\ s'.vq = left.vq
        BY <1>7, <2>1 DEF But, Fields
  <2>3. n < Len(s.vq)
        BY <1>12 DEF TooLate
  <2>4. left.vq # <<>> /\ left.vq[Len(left.vq)] = s.vq[Len(s.vq)]
        BY <1>1, <1>5, <1>8, <2>3
  <2> QED BY <1>3, <1>7, <1>9, <1>10, <1>11, <1>12, <2>2, <2>4
          DEF Whole, PictureWhole, SoundWhole
<1>13. CASE Do(Presented(left, frame))
  <2> DEFINE q == Presented(left, frame)
  <2>1. /\ But(q, left, {"selected", "last", "landed", "vclock", "pauseAfter", "pausedAt", "state"})
        /\ q.selected = TRUE /\ q.last = frame
        /\ q.state \in {left.state, "playing", "paused"}
        BY <1>7 DEF Presented, Fields, But
  <2> HIDE DEF q
  <2>2. s' = [q EXCEPT !.order = NoOrder]
        BY <1>13 DEF Do, q
  <2>3. But(s', q, {"order"})
        BY <2>1, <2>2 DEF But, Fields
  <2>4. /\ s'.state \in {s.state, "playing", "paused"}
        /\ s'.file = s.file /\ s'.discard = s.discard
        /\ s'.aq = s.aq /\ s'.anchor = s.anchor /\ s'.sent = s.sent /\ s'.normal = s.normal
        /\ s'.vq = left.vq /\ s'.selected = TRUE /\ s'.last = frame
        BY <1>7, <2>1, <2>3 DEF But, Fields
  <2>5. q.order = NoOrder
        BY <1>7, <2>1 DEF But, Fields
  <2>6. video' = video /\ audio' = audio
        BY <1>11, <1>13, <2>5 DEF q
  <2>7. n = Len(s.vq) => frame = s.vq[Len(s.vq)]
        OBVIOUS
  <2>8. s'.state # "idle"
        BY <1>3, <2>4
  <2> HIDE DEF frame, n
  <2>9. PictureWhole(s', video')
        BY <1>3, <1>8, <1>9, <1>10, <2>4, <2>6, <2>7 DEF PictureWhole
  <2>10. SoundWhole(s', audio')
        BY <1>10, <2>4, <2>6 DEF SoundWhole
  <2> QED BY <1>10, <2>4, <2>8, <2>9, <2>10 DEF Whole
<1>14. CASE AtOutPoint(s, frame) /\ Do(RangeEnded(left, frame))
  <2>1. CASE left.loop
    <3>1. Good(left, video, audio)
      <4>1. /\ left.videoEnded = s.videoEnded /\ left.videoExpected = s.videoExpected
            BY <1>4 DEF But, Fields
      <4>2. left.state \in States
            BY <1>7 DEF Begun, Good, Flags
      <4>3. Flags(left)
            BY <1>4, <4>2, KeptFlags DEF Begun, Good, FlagNames
      <4>4. SameSound(left, s) /\ SameTimes(left, s)
            BY <1>4, KeptSound, KeptTimes
      <4>5. Sound(left, audio) /\ Timed(left)
            BY <1>7, <4>4, SoundSame, PausedKept, TimesSame DEF Begun, Good
      <4>6. Len(left.vq) <= VideoCap
            BY <1>1, <1>5, <1>6, Bounds DEF Begun, Good, Picture
      <4>7. \A i \in 1 .. Len(left.vq) : i + n \in 1 .. Len(s.vq) /\ i \in 1 .. Len(s.vq) - n
            BY <1>1, <1>5, <1>6
      <4>8. s.discard # None => \A i \in 1 .. Len(left.vq) : left.vq[i] >= s.discard
            BY <1>6, <4>7 DEF Begun, Good, Picture
      <4>9. Picture(left, video)
            BY <1>6, <1>7, <4>1, <4>6, <4>8 DEF Begun, Good, Picture
      <4> QED BY <4>3, <4>5, <4>9 DEF Good
    <3>2. ReplayAt(left) \in Nat
          BY <3>1, Bounds DEF Good, ReplayAt, Timed, Positions
    <3>3. left.state \notin {"idle", "opening", "error"}
          BY <1>7, <1>14 DEF AtOutPoint
    <3>4. Afresh(Sought(left, ReplayAt(left)))
          BY <3>1, <3>2, <3>3, SoughtAfresh
    <3>5. Do(Sought(left, ReplayAt(left)))
          BY <1>14, <2>1 DEF RangeEnded
    <3> QED BY <3>4, <3>5, AfreshWhole
  <2>2. CASE ~left.loop
    <3> DEFINE q == RangeEnded(left, frame)
    <3>1. q.state = "ended" /\ q.normal = left.normal /\ q.anchor = left.anchor
          /\ DOMAIN q = Fields
          BY <1>7, <2>2 DEF RangeEnded, Fields
    <3>2. s' = [q EXCEPT !.order = NoOrder]
          BY <1>14 DEF Do
    <3> HIDE DEF q
    <3>3. s'.state = "ended" /\ s'.normal = s.normal /\ s'.anchor = s.anchor
          BY <1>7, <3>1, <3>2 DEF Fields
    <3> QED BY <1>10, <3>3 DEF Whole, Over
  <2> QED BY <2>1, <2>2
<1> QED BY <1>2, <1>12, <1>13, <1>14

LEMMA FinishWhole == BegunWhole /\ FinishTick => Whole(s', video', audio')
<1> SUFFICES ASSUME BegunWhole, FinishTick PROVE Whole(s', video', audio')
    OBVIOUS
<1> USE DEF BegunWhole
<1> DEFINE p == Settled(s)
           q == Finished(p)
<1>1. Do(q)
      BY DEF FinishTick
<1>2. GoesOn(p, s, video, audio) /\ But(p, s, {"settling", "target"})
      BY SettledGood DEF Begun
<1>3. p.state = s.state /\ p.order = NoOrder
      BY <1>2 DEF But, Fields, Begun
<1> HIDE DEF p
<1>4. Whole(p, video, audio)
      BY <1>2, <1>3, WholeKept DEF Contents
<1>5. CASE ~CanFinish(p)
      BY <1>1, <1>2, <1>3, <1>4, <1>5, WholeTaken DEF Finished, GoesOn
<1>6. CASE CanFinish(p) /\ (p.replay \/ p.loop)
  <2>1. ReplayAt(p) \in Nat
        BY <1>2, Bounds DEF GoesOn, Good, ReplayAt, Timed, Positions
  <2>2. p.state \notin {"idle", "opening", "error"}
        BY <1>6 DEF CanFinish
  <2>3. Afresh(Sought(p, ReplayAt(p)))
        BY <1>2, <2>1, <2>2, SoughtAfresh DEF GoesOn
  <2> QED BY <1>1, <1>6, <2>3, AfreshWhole DEF Finished
<1>7. CASE CanFinish(p) /\ ~(p.replay \/ p.loop)
  <2>1. /\ q.state = "ended" /\ q.normal = p.normal /\ q.anchor = p.anchor /\ DOMAIN q = Fields
        BY <1>2, <1>7 DEF Finished, GoesOn, Good, Flags, Fields
  <2>2. s' = [q EXCEPT !.order = NoOrder]
        BY <1>1 DEF Do
  <2> HIDE DEF q
  <2>3. s'.state = "ended" /\ s'.normal = p.normal /\ s'.anchor = p.anchor
        BY <2>1, <2>2 DEF Fields
  <2> QED BY <1>4, <2>3 DEF Whole, Over
<1> QED BY <1>5, <1>6, <1>7

LEMMA EnvironmentWhole == BegunWhole /\ Environment => Whole(s', video', audio')
<1> SUFFICES ASSUME BegunWhole, Environment PROVE Whole(s', video', audio')
    OBVIOUS
<1> USE DEF BegunWhole
<1>1. CASE SwitchEndpoint
  <2> DEFINE o == IF s.state \in {"paused", "ended"} THEN [s EXCEPT !.pauseAfter = TRUE] ELSE s
  <2>1. Do(EndpointRecovered(o))
        BY <1>1 DEF SwitchEndpoint, EndpointSwitched
  <2>2. Good(o, video, audio)
        BY PauseSetGood DEF Begun
  <2> HIDE DEF o
  <2> QED BY <2>1, <2>2, EndpointAfresh, AfreshWhole
<1>2. CASE SubmitFails
      BY <1>2, EndpointAfresh, AfreshWhole DEF SubmitFails, Begun
<1>3. CASE WorkerLosesDevice \/ PresentLosesDevice
      BY <1>3, DeviceAfresh, AfreshWhole DEF WorkerLosesDevice, PresentLosesDevice, Begun
<1>4. CASE PlaybackFails
  <2>1. s' = [Failed(s) EXCEPT !.order = NoOrder]
        BY <1>4 DEF PlaybackFails, Do
  <2>2. s'.state = "error" /\ s'.normal = s.normal /\ s'.anchor = s.anchor
        BY <2>1 DEF Failed, Begun, Good, Flags, Fields
  <2> QED BY <2>2 DEF Whole, Over
<1> QED BY <1>1, <1>2, <1>3, <1>4 DEF Environment

LEMMA InitWhole == Init => Whole(s, video, audio)
<1>1. Len(<<>>) = 0
      OBVIOUS
<1> QED BY <1>1 DEF Init, Whole, PictureWhole, SoundWhole

LEMMA StepWhole ==
    SessionInv /\ PlaybackInv /\ Whole(s, video, audio) /\ [Next]_vars => Whole(s', video', audio')
<1> SUFFICES ASSUME SessionInv, PlaybackInv, Whole(s, video, audio), [Next]_vars
             PROVE  Whole(s', video', audio')
    OBVIOUS
<1>1. BegunWhole /\ (s.state = "error" => s.vq = <<>>)
      BY DEF SessionInv, PlaybackInv, Begun, BegunWhole
<1>2. CASE UserStep \/ TimePasses \/ DrainAudio \/ DrainVideo \/ Environment
      BY <1>1, <1>2, UserWhole, TimeWhole, DrainAudioWhole, DrainVideoWhole, EnvironmentWhole
<1>3. CASE Tick
  <2>1. CASE AudioDrained \/ VideoDrained \/ HoldPicture
        BY <2>1 DEF AudioDrained, VideoDrained, HoldPicture
  <2>2. CASE StartTick \/ Submit \/ ShowFrame \/ FinishTick
        BY <1>1, <2>2, StartTickWhole, SubmitWhole, ShowWhole, FinishWhole
  <2> QED BY <1>3, <2>1, <2>2 DEF Tick
<1>4. CASE UNCHANGED vars
      BY <1>4 DEF vars
<1> QED BY <1>2, <1>3, <1>4 DEF Next

-----------------------------------------------------------------------------
(* The theorems.                                                            *)

(* The invariant: the queues and the sink hold frames of the current        *)
(* operation only, the sound in a row that ends where the worker has got,   *)
(* the picture from the target on.                                          *)
THEOREM PlaybackInvariant == Spec => []PlaybackInv
<1>1. SessionInv /\ PlaybackInv /\ [Next]_vars => PlaybackInv'
      BY StepPlayback, StepCount DEF PlayStands, PlaybackInv
<1> QED BY <1>1, InitPlayback, SessionInvariant, PTL DEF Spec, Safety

(* Every field keeps its type, no queue and no buffer is ever over its      *)
(* capacity, and no clock leaves the media, whatever their lengths are.     *)
THEOREM SessionTypes == Spec => []TypeOK
<1>1. SessionInv /\ PlaybackInv => TypeOK
  <2> SUFFICES ASSUME SessionInv, PlaybackInv PROVE TypeOK
      OBVIOUS
  <2>1. Good(s, video, audio)
        BY DEF PlaybackInv
  <2>2. s.sent \in 0 .. AudioEnd
    <3>1. Reached(audio) \in 0 .. AudioEnd
          BY <2>1, ReachedBound DEF Good, Sound
    <3>2. /\ s.sent \in Nat /\ s.anchor \in None .. End /\ Len(s.aq) \in Nat
          /\ s.anchor = None => s.sent = 0
          /\ s.anchor # None => s.anchor + s.sent + Len(s.aq) <= Reached(audio)
          BY <2>1 DEF Good, Sound
    <3> QED BY <3>1, <3>2, Bounds
  <2>3. {s.anchor, s.vclock, s.pausedAt, s.target, s.discard, s.last, s.in, s.out}
            \subseteq Positions
    <3>1. s.anchor \in None .. End /\ s.target \in None .. End /\ s.discard \in None .. End
          BY <2>1 DEF Good, Sound, Picture, Timed
    <3>2. s.anchor \in Positions /\ s.target \in Positions /\ s.discard \in Positions
          BY <3>1, Bounds DEF Positions
    <3> QED BY <2>1, <3>2 DEF Good, Timed
  <2>4. audio \in 0 .. Gone
        BY <2>1, Bounds DEF Good, Sound
  <2>5. Flags(s) /\ video \in 0 .. Gone
        BY <2>1 DEF Good, Picture
  <2>6. /\ s.vq \in Seq(0 .. End - 1) /\ Len(s.vq) <= VideoCap
        /\ s.aq \in Seq(0 .. AudioEnd - 1) /\ Len(s.aq) <= AudioCap
        /\ s.buffered \in 0 .. SinkCap
        BY <2>1 DEF Good, Picture, Sound
  <2> QED BY <2>2, <2>3, <2>4, <2>5, <2>6 DEF TypeOK, Flags, SessionInv, PlaybackInv
<1> QED BY <1>1, SessionInvariant, PlaybackInvariant, PTL

(* The clock that shows the position is never lost while playback goes on:  *)
(* neither by the handover of a dry sink nor by a pause, a picture or a     *)
(* failure, in media of any length and with buffers of any size.            *)
THEOREM PlayheadIsKept == Spec => PlayheadKept
<1>1. SessionInv /\ PlaybackInv /\ [Next]_vars =>
        [ Clock(s) # None /\ Clock(s') = None =>
            \/ s'.state \in {"opening", "seeking"}
            \/ SeekPending(s) /\ ~s.pauseAfter /\ s'.pauseAfter
            \/ StepRate
            \/ CanFinish(s') ]_vars
      BY StepPlayback DEF PlayStands
<1> QED BY <1>1, SessionInvariant, PlaybackInvariant, PTL DEF Spec, Safety, PlayheadKept

(* A session that is neither over nor failed has everything its workers     *)
(* delivered, in its queues, in the row the clock is anchored in or on show.*)
THEOREM NothingIsLost == Spec => []Whole(s, video, audio)
<1>1. SessionInv /\ PlaybackInv /\ Whole(s, video, audio) /\ [Next]_vars
        => Whole(s, video, audio)'
      BY StepWhole
<1> QED BY <1>1, InitWhole, SessionInvariant, PlaybackInvariant, PTL DEF Spec, Safety

(* The play queue hears of the end of a file only when the picture on show  *)
(* is the last of the track and every frame of its sound since the clock    *)
(* was anchored was submitted and has left the sink: nothing was dropped on *)
(* the way, whatever pauses, underruns, late pictures and changes of speed  *)
(* there were. A sound that was not heard of yet is not waited for.         *)
THEOREM EndIsComplete == Spec => NaturalEndIsComplete
<1>1. SessionInv /\ PlaybackInv /\ Whole(s, video, audio) /\ [Next]_vars =>
        [ s'.signal /\ ~s.signal =>
            /\ video >= End /\ s.vq = <<>>
            /\ s.file # "audio" /\ s.discard # End => s.selected /\ s.last = End - 1
            /\ s.audioExpected =>
                  /\ audio >= AudioEnd /\ s.aq = <<>> /\ s.buffered = 0
                  /\ s.anchor # None => s.anchor + s.sent = AudioEnd ]_vars
  <2> SUFFICES ASSUME SessionInv, PlaybackInv, Whole(s, video, audio), [Next]_vars,
                      s'.signal, ~s.signal
               PROVE  /\ video >= End /\ s.vq = <<>>
                      /\ s.file # "audio" /\ s.discard # End => s.selected /\ s.last = End - 1
                      /\ s.audioExpected =>
                            /\ audio >= AudioEnd /\ s.aq = <<>> /\ s.buffered = 0
                            /\ s.anchor # None => s.anchor + s.sent = AudioEnd
      OBVIOUS
  <2>1. /\ s.state \in {"priming", "playing", "draining"}
        /\ video >= End /\ s.vq = <<>>
        /\ s.audioExpected => audio >= AudioEnd /\ s.aq = <<>> /\ s.buffered = 0
        BY StepPlayback DEF PlayStands
  <2>2. PictureWhole(s, video) /\ SoundWhole(s, audio)
        BY <2>1 DEF Whole, Over
  <2>3. s.file # "audio" /\ s.discard # End => s.selected /\ s.last = End - 1
        BY <2>1, <2>2 DEF PictureWhole
  <2>4. s.audioExpected /\ s.anchor # None => s.anchor + s.sent = AudioEnd
    <3> SUFFICES ASSUME s.audioExpected, s.anchor # None PROVE s.anchor + s.sent = AudioEnd
        OBVIOUS
    <3>1. Reached(audio) = AudioEnd
          BY <2>1, Bounds DEF Reached, PlaybackInv, Good, Sound
    <3>2. Len(s.aq) = 0
          BY <2>1
    <3>3. s.anchor + s.sent + 0 = AudioEnd
          BY <2>2, <3>1, <3>2 DEF SoundWhole
    <3>4. s.anchor \in Int /\ s.sent \in Int
          BY Bounds DEF PlaybackInv, Good, Sound
    <3> QED BY <3>3, <3>4
  <2> QED BY <2>1, <2>3, <2>4
<1> QED BY <1>1, SessionInvariant, PlaybackInvariant, NothingIsLost, PTL
        DEF Spec, Safety, NaturalEndIsComplete

(* After a seek no picture from before its target is shown, through any     *)
(* number of pauses, rate changes, endpoint switches and lost devices.      *)
THEOREM PicturesFromTarget == Spec => ShowsFromTarget
<1>1. SessionInv /\ PlaybackInv /\ [Next]_vars =>
        [ s'.last # s.last /\ s'.last # None /\ s.discard # None => s'.last >= s.discard ]_vars
      BY StepPlayback DEF PlayStands
<1> QED BY <1>1, SessionInvariant, PlaybackInvariant, PTL DEF Spec, Safety, ShowsFromTarget
=============================================================================
