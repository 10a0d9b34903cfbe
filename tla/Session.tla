--------------------------------- MODULE Session ---------------------------------
(***************************************************************************)
(* PlaybackSession as the UI thread runs it: the nine playback states, the *)
(* two master clocks, the audio sink, pause and resume, pending seeks,     *)
(* clip ranges, endpoint and device recovery, and the phases of tick_inner *)
(* (app/session.rs, app/clip_range.rs, app/audio_controller.rs).           *)
(*                                                                         *)
(* Handlers call one another (a frame step toggles the pause and then      *)
(* seeks), so each is a function from the session to the session, and an   *)
(* action applies the whole of it. Positions are counted in frames.        *)
(*                                                                         *)
(* The workers appear as what their current operation still delivers:      *)
(* events of superseded ones are dropped without effect, which is what     *)
(* DecodeThread is about.                                                  *)
(***************************************************************************)
EXTENDS Integers, Sequences

CONSTANTS
    Files,        \* which kinds of file are opened, a subset of FileKinds
    End,          \* duration of the media and length of its video track
    AudioEnd,     \* length of its audio track
    VideoCap,     \* capacity of the decoded video queue
    AudioCap,     \* capacity of the decoded audio queue
    SinkCap,      \* capacity of the WASAPI buffer
    LateBy,       \* VERY_LATE_VIDEO_THRESHOLD
    Commands,     \* what the user does, a subset of CommandKinds
    Faults,       \* what fails, a subset of FaultKinds
    MaxCommands   \* bound on the user's commands and on the faults

FileKinds == {"av", "video", "audio"}
CommandKinds == {"open", "toggle", "seek", "scrub", "step", "rate", "clip"}
FaultKinds == {"endpoint", "device", "run"}

ASSUME ConstantsOK ==
    /\ Files \subseteq FileKinds
    /\ Commands \subseteq CommandKinds
    /\ Faults \subseteq FaultKinds
    /\ End \in Nat \ {0}
    /\ AudioEnd \in 1 .. End
    /\ VideoCap \in Nat \ {0} /\ AudioCap \in Nat \ {0} /\ SinkCap \in Nat \ {0}
    /\ LateBy \in Nat /\ MaxCommands \in Nat

VARIABLES
    pc,         \* where tick_inner is; "input" between ticks
    s,          \* the fields of PlaybackSession
    video,      \* the next frame the video worker delivers, End for its last event
    audio,      \* the same for the audio worker and AudioEnd
    wanted,     \* history: what the user last asked for, "play", "pause" or "any"
    commands    \* history: how many commands and faults there were

vars == <<pc, s, video, audio, wanted, commands>>

None == -1
Gone == End + 1      \* a worker with nothing left to deliver
NoOrder == [kind |-> "none", at |-> 0]
Order(kind, at) == [kind |-> kind, at |-> at]

Init ==
    /\ pc = "input"
    /\ s = [state |-> "idle", file |-> "none", order |-> NoOrder,
            vq |-> <<>>, aq |-> <<>>, started |-> FALSE, buffered |-> 0,
            anchor |-> None, sent |-> 0, vclock |-> None, pausedAt |-> None,
            pauseAfter |-> FALSE, target |-> None, discard |-> None,
            settling |-> FALSE, landed |-> FALSE,
            videoExpected |-> TRUE, videoEnded |-> FALSE,
            audioExpected |-> FALSE, audioEnded |-> FALSE,
            selected |-> FALSE, last |-> None, normal |-> TRUE,
            in |-> None, out |-> None, loop |-> FALSE, replay |-> FALSE,
            signal |-> FALSE]
    /\ video = Gone /\ audio = Gone
    /\ wanted = "play" /\ commands = 0

Least(a, b) == IF a < b THEN a ELSE b

-----------------------------------------------------------------------------
(* Clocks and positions.                                                    *)

\* played_frames, which saturates.
Played(p) == IF p.sent > p.buffered THEN p.sent - p.buffered ELSE 0

\* master_clock_position
Clock(p) ==
    IF p.pausedAt # None THEN p.pausedAt
    ELSE IF p.anchor # None /\ p.started THEN p.anchor + Played(p)
    ELSE p.vclock

\* snapshot().position, also the position a recovery restarts from.
Position(p) ==
    IF p.target # None THEN p.target
    ELSE IF Clock(p) # None THEN Clock(p) ELSE 0

ClockReset(p) == [p EXCEPT !.anchor = None, !.sent = 0]

\* ClipRangeState: replay_position and resume_target.
ReplayAt(p) == IF p.in # None THEN p.in ELSE 0
OutsideRange(p, at) == (p.in # None /\ at < p.in) \/ (p.out # None /\ at >= p.out)

-----------------------------------------------------------------------------
(* Operations.                                                              *)

\* Mutant of Prepared: frames of the operation before are still queued.
PreparedKeepingFrames(p, rebuild, fresh, wipe) ==
    LET expected == fresh \/ p.videoExpected IN
    [ClockReset(p) EXCEPT
        !.aq = <<>>, !.selected = @ /\ ~wipe,
        !.vclock = None, !.pausedAt = None,
        !.discard = IF fresh THEN None ELSE @,
        !.audioEnded = FALSE, !.audioExpected = @ /\ ~fresh,
        !.videoExpected = expected, !.videoEnded = ~expected,
        !.started = FALSE,
        !.buffered = IF p.pauseAfter /\ ~rebuild THEN @ ELSE 0]

\* prepare_runtime_for_operation_inner: rebuild the sink, forget what is known of the
\* streams, wipe the surfaces. A sink that is neither rebuilt nor only paused is reset.
Prepared(p, rebuild, fresh, wipe) ==
    LET expected == fresh \/ p.videoExpected IN
    [ClockReset(p) EXCEPT
        !.vq = <<>>, !.aq = <<>>, !.selected = @ /\ ~wipe,
        !.vclock = None, !.pausedAt = None,
        !.discard = IF fresh THEN None ELSE @,
        !.audioEnded = FALSE, !.audioExpected = @ /\ ~fresh,
        !.videoExpected = expected, !.videoEnded = ~expected,
        !.started = FALSE,
        !.buffered = IF p.pauseAfter /\ ~rebuild THEN @ ELSE 0]

\* What a seek and an endpoint recovery leave pending.
Pending(p, at) ==
    [p EXCEPT !.state = "seeking", !.target = at, !.discard = at,
              !.settling = TRUE, !.landed = FALSE]

\* seek, with the execute_seek it calls.
Sought(p, at) ==
    LET to == Least(at, End) IN
    IF p.state \in {"idle", "opening", "error"} THEN p
    ELSE [Pending(Prepared(p, FALSE, FALSE, FALSE), to) EXCEPT !.order = Order("seek", to)]

\* open_at. What a seek left pending is not touched.
Opened(p, file, start) ==
    [Prepared([p EXCEPT !.file = file], TRUE, TRUE, TRUE) EXCEPT
        !.state = "opening", !.order = Order("open", start),
        !.signal = FALSE, !.normal = TRUE, !.last = None,
        !.in = None, !.out = None, !.loop = FALSE]

\* recover_audio_endpoint
EndpointRecovered(p) ==
    LET at == Least(Position(p), End) IN
    [Pending(Prepared(p, TRUE, FALSE, TRUE), at) EXCEPT !.order = Order("open", at)]

\* Mutant of EndpointSwitched: the pause is not asked for again.
EndpointSwitchedPlaying(p) == EndpointRecovered(p)

\* switch_to_new_default_endpoint
EndpointSwitched(p) ==
    EndpointRecovered(IF p.state \in {"paused", "ended"}
                      THEN [p EXCEPT !.pauseAfter = TRUE] ELSE p)

\* recover_device, when the device can be rebuilt. The discard, the pending target
\* and the pause flag are those of an earlier operation, or of none.
DeviceRecovered(p) ==
    [Prepared(p, FALSE, FALSE, TRUE) EXCEPT
        !.state = "seeking", !.order = Order("open", Least(Position(p), End))]

\* fail_playback and fail_open
Failed(p) ==
    [p EXCEPT !.state = "error", !.order = Order("stop", 0),
              !.vq = <<>>, !.selected = FALSE, !.target = None]

-----------------------------------------------------------------------------
(* What the user asks for.                                                  *)

\* toggle_pending_seek_pause
PendingToggled(p) ==
    IF ~p.pauseAfter THEN [p EXCEPT !.pauseAfter = TRUE, !.started = FALSE]
    ELSE LET at == Position(p) IN
         Sought([p EXCEPT !.pauseAfter = FALSE], IF OutsideRange(p, at) THEN ReplayAt(p) ELSE at)

\* Mutant of PausedNow: the sink plays on.
PausedPlaying(p) == [p EXCEPT !.state = "paused", !.pausedAt = Clock(p)]

PausedNow(p) == [p EXCEPT !.state = "paused", !.pausedAt = Clock(p), !.started = FALSE]

\* Both streams ended while paused.
NothingLeft(p) ==
    /\ p.videoEnded /\ p.vq = <<>>
    /\ p.audioExpected => p.audioEnded /\ p.aq = <<>>

\* An anchored sink goes on where it stopped; any other is emptied and the video
\* clock leads until audio anchors again.
Resumed(p) ==
    LET back == [p EXCEPT !.pausedAt = None,
                          !.state = IF p.selected THEN "playing" ELSE "priming"]
    IN  IF p.anchor # None THEN [back EXCEPT !.started = TRUE]
        ELSE [back EXCEPT !.started = FALSE, !.buffered = 0,
                          !.vclock = IF p.pausedAt # None THEN p.pausedAt ELSE 0]

SeekPending(p) == p.state = "seeking" \/ (p.state = "priming" /\ p.target # None)

\* toggle_pause
Toggled(p) ==
    CASE SeekPending(p)                                                  -> PendingToggled(p)
      [] p.state \in {"playing", "draining"}
            \/ (p.state = "priming" /\ p.target = None)                  -> PausedNow(p)
      [] p.state = "paused" /\ OutsideRange(p, Position(p)) ->
            Sought([p EXCEPT !.pauseAfter = FALSE], ReplayAt(p))
      [] p.state = "paused" /\ ~OutsideRange(p, Position(p)) ->
            IF NothingLeft(p) THEN Sought(p, ReplayAt(p)) ELSE Resumed(p)
      [] p.state = "ended"                                               -> Sought(p, ReplayAt(p))
      [] OTHER                                                           -> p

\* step_frame
Stepped(p, by) ==
    LET q  == IF p.state \in {"paused", "ended"} THEN p ELSE Toggled(p)
        at == IF q.target # None THEN q.target
              ELSE IF q.last # None THEN q.last ELSE Position(q)
    IN  Sought([q EXCEPT !.pauseAfter = TRUE], IF at + by < 0 THEN 0 ELSE at + by)

\* step_playback_rate and the reset to 1.0
RateChanged(p, normal) ==
    [ClockReset(p) EXCEPT !.normal = normal, !.vclock = None, !.aq = <<>>]

\* ClipRangeState: set_in_point, set_out_point, the clears and toggle_loop_or_replay.
InSet(p, at) == [p EXCEPT !.in = at, !.out = IF p.out # None /\ at >= p.out THEN None ELSE @]
OutSet(p, at) == IF at > ReplayAt(p) THEN [p EXCEPT !.out = at] ELSE p
InCleared(p) == [p EXCEPT !.in = None, !.loop = @ /\ p.out # None]
OutCleared(p) == [p EXCEPT !.out = None, !.loop = @ /\ p.in # None]
LoopToggled(p) ==
    IF p.in # None \/ p.out # None THEN [p EXCEPT !.loop = ~@] ELSE [p EXCEPT !.replay = ~@]

-----------------------------------------------------------------------------
(* What the workers of the current operation report: handle_event.          *)

Primed(p) == [p EXCEPT !.state = IF @ \in {"opening", "seeking"} THEN "priming" ELSE @]
Discarded(p, frame) == p.discard # None /\ frame < p.discard

VideoArrived(p, frame) ==
    IF Discarded(p, frame) THEN p ELSE Primed([p EXCEPT !.vq = Append(@, frame)])

VideoFinished(p) ==
    IF p.file = "audio" THEN [p EXCEPT !.videoExpected = FALSE, !.videoEnded = TRUE]
    ELSE [p EXCEPT !.videoEnded = TRUE,
                   !.state = IF @ \in {"playing", "priming"} THEN "draining" ELSE @]

AudioArrived(p, frame) ==
    IF Discarded(p, frame) THEN p
    ELSE Primed([p EXCEPT !.audioExpected = TRUE, !.aq = Append(@, frame)])

AudioFinished(p) == [p EXCEPT !.audioExpected = TRUE, !.audioEnded = TRUE]

-----------------------------------------------------------------------------
(* The phases of tick_inner.                                                *)

\* Mutant of CanFinish: only a session that saw its streams end while playing finishes.
CanFinishDraining(p) ==
    /\ p.videoEnded /\ p.vq = <<>>
    /\ p.audioExpected => p.audioEnded /\ p.aq = <<>> /\ p.buffered = 0
    /\ p.state = "draining"

\* can_finish_with_buffered
CanFinish(p) ==
    /\ p.videoEnded /\ p.vq = <<>>
    /\ p.audioExpected => p.audioEnded /\ p.aq = <<>> /\ p.buffered = 0
    /\ p.state \in {"priming", "playing", "draining"}

\* Mutant of Written: the room left in the sink is not looked at.
WrittenBlindly(p) ==
    IF p.aq = <<>> THEN p
    ELSE [p EXCEPT !.aq = <<>>, !.buffered = @ + Len(p.aq), !.sent = @ + Len(p.aq),
                   !.started = TRUE, !.anchor = IF @ = None THEN p.aq[1] ELSE @,
                   !.vclock = IF p.anchor = None THEN None ELSE @]

\* submit_due_audio, the writes: as many frames as the sink has room for.
Written(p) ==
    LET n     == Least(Len(p.aq), SinkCap - p.buffered)
        first == p.anchor = None
    IN  IF n = 0 THEN p
        ELSE [p EXCEPT !.aq = SubSeq(@, n + 1, Len(@)), !.buffered = @ + n, !.sent = @ + n,
                       !.started = TRUE,
                       !.anchor = IF first THEN p.aq[1] ELSE @,
                       !.vclock = IF first THEN None ELSE @]

\* Mutant of HandedOver: a dry sink loses its clock and nothing takes over.
HandedToNobody(p) ==
    IF p.audioExpected /\ p.started /\ p.aq = <<>> /\ p.buffered = 0 /\ ~CanFinish(p)
    THEN ClockReset(p)
    ELSE p

\* The sink ran dry: the video clock takes over at the position reached.
HandedOver(p) ==
    IF p.audioExpected /\ p.started /\ p.aq = <<>> /\ p.buffered = 0 /\ ~CanFinish(p)
    THEN [ClockReset(p) EXCEPT
             !.vclock = IF @ # None THEN @ ELSE IF Clock(p) # None THEN Clock(p) ELSE 0]
    ELSE p

\* The sink is stopped once all audio was played.
SinkStopped(p) ==
    IF /\ p.audioExpected /\ p.audioEnded /\ p.aq = <<>> /\ p.buffered = 0
       /\ p.state \in {"draining", "playing"}
    THEN [p EXCEPT !.started = FALSE] ELSE p

AudioLed(p) ==
    IF p.audioExpected /\ p.anchor # None /\ p.state = "priming"
    THEN [p EXCEPT !.state = "playing"] ELSE p

SubmitSkipped(p) == p.state \in {"paused", "ended"} \/ p.pauseAfter \/ ~p.normal

Submitted(p) ==
    IF SubmitSkipped(p) THEN p ELSE AudioLed(SinkStopped(HandedOver(Written(p))))

\* present_video_frame of a frame that was taken off the queue.
Presented(p, frame) ==
    LET shown == [p EXCEPT !.selected = TRUE, !.last = frame, !.landed = @ \/ p.settling,
                           !.vclock = IF @ = None /\ p.anchor = None THEN frame ELSE @]
    IN  IF p.pauseAfter
        THEN [shown EXCEPT !.pauseAfter = FALSE, !.pausedAt = p.target, !.state = "paused"]
        ELSE IF ~p.audioExpected \/ p.anchor # None THEN [shown EXCEPT !.state = "playing"]
        ELSE shown

AtOutPoint(p, frame) ==
    /\ p.out # None /\ frame >= p.out
    /\ p.state \in {"playing", "priming", "draining"}

\* The out-point is reached: loop, or stop there.
RangeEnded(p, frame) ==
    IF p.loop THEN Sought(p, ReplayAt(p))
    ELSE [p EXCEPT !.vq = <<>>, !.aq = <<>>, !.started = FALSE, !.vclock = None,
                   !.pausedAt = frame, !.state = "ended"]

\* The seek is settled once its picture is up and its audio is anchored.
Settled(p) ==
    IF p.settling /\ p.landed /\ (p.audioExpected => p.anchor # None)
    THEN [p EXCEPT !.settling = FALSE, !.target = None] ELSE p

\* Mutant of Finished: the end is announced while audio is still buffered.
FinishedEarly(p) ==
    IF p.videoEnded /\ p.state = "draining"
    THEN [p EXCEPT !.state = "ended", !.signal = TRUE] ELSE p

\* The end of playback: replay, or Ended with the signal for the play queue.
Finished(p) ==
    IF ~CanFinish(p) THEN p
    ELSE IF p.replay \/ p.loop THEN Sought(p, ReplayAt(p))
    ELSE [p EXCEPT !.state = "ended", !.signal = TRUE]

-----------------------------------------------------------------------------
(* Actions                                                                  *)

\* What the workers deliver once session p has given them its order: video from some
\* key frame, audio from the target. A file without a video track is reported by a
\* worker that opens it; that report is lost to a seek that comes first.
VideoFollows(p) ==
    CASE p.order.kind = "none" -> {video}
      [] p.order.kind = "stop" -> {Gone}
      [] p.order.kind \in {"open", "seek"} /\ p.file # "audio" -> 0 .. Least(p.order.at, End - 1)
      [] p.order.kind = "open" /\ p.file = "audio" -> {End}
      [] p.order.kind = "seek" /\ p.file = "audio" ->
            IF p.videoExpected THEN {End, Gone} ELSE {Gone}

AudioFollows(p) ==
    CASE p.order.kind = "none" -> {audio}
      [] p.order.kind = "stop" -> {Gone}
      [] OTHER -> {IF p.file = "video" THEN Gone ELSE Least(p.order.at, AudioEnd)}

\* The handler that turns the session into p runs, and the workers follow.
Do(p) ==
    /\ s' = [p EXCEPT !.order = NoOrder]
    /\ video' \in VideoFollows(p)
    /\ audio' \in AudioFollows(p)

Ask(kind) ==
    /\ pc = "input"
    /\ kind \in Commands
    /\ commands < MaxCommands
    /\ commands' = commands + 1
    /\ UNCHANGED pc

\* A seek that is rejected leaves its pause flag behind, and so does a stream or a range
\* that ends before the paused picture landed: what Space then means cannot be judged.
Means(w) == IF s.state \in {"idle", "opening", "error"} THEN "any" ELSE w

Open ==
    /\ Ask("open")
    /\ \E file \in Files, start \in 0 .. End - 1 : Do(Opened(s, file, start))
    /\ wanted' = IF s.pauseAfter THEN "any" ELSE "play"

TogglePause ==
    /\ Ask("toggle")
    /\ Do(Toggled(s))
    /\ wanted' = IF s.state \in {"idle", "opening", "error"} \/ wanted = "any" THEN wanted
                 ELSE IF s.pauseAfter /\ ~SeekPending(s) THEN "any"
                 ELSE IF s.state = "ended" \/ wanted = "pause" THEN "play" ELSE "pause"

Seek ==
    /\ Ask("seek")
    /\ \E at \in 0 .. End : Do(Sought([s EXCEPT !.pauseAfter = FALSE], at))
    /\ wanted' = Means("play")

\* The scrub previews of the timeline.
Scrub ==
    /\ Ask("scrub")
    /\ \E at \in 0 .. End : Do(Sought([s EXCEPT !.pauseAfter = TRUE], at))
    /\ wanted' = Means("pause")

StepFrame ==
    /\ Ask("step")
    /\ s.file # "none"
    /\ \E by \in {-1, 1} : Do(Stepped(s, by))
    /\ wanted' = Means("pause")

StepRate ==
    /\ Ask("rate")
    /\ \E normal \in IF s.normal THEN {FALSE} ELSE BOOLEAN : Do(RateChanged(s, normal))
    /\ UNCHANGED wanted

SetClip ==
    /\ Ask("clip")
    /\ \E p \in {InSet(s, Position(s)), OutSet(s, Position(s)), InCleared(s), OutCleared(s),
                 LoopToggled(s)} : Do(p)
    /\ UNCHANGED wanted

UserStep ==
    Open \/ TogglePause \/ Seek \/ Scrub \/ StepFrame \/ StepRate \/ SetClip

\* Between two ticks the video clock and the sink advance.
TimePasses ==
    /\ pc = "input"
    /\ s' = [s EXCEPT !.vclock = IF @ \in 0 .. End THEN @ + 1 ELSE @,
                      !.buffered = IF s.started /\ @ > 0 THEN @ - 1 ELSE @]
    /\ s' # s
    /\ UNCHANGED <<pc, video, audio, wanted, commands>>

\* One phase of the tick, and the next.
Phase(at, next) ==
    /\ pc = at
    /\ pc' = next
    /\ UNCHANGED <<wanted, commands>>

StartTick ==
    /\ Phase("input", IF s.state = "error" THEN "finish" ELSE "audio")
    /\ Do(IF s.normal \/ s.state = "error" THEN s ELSE [s EXCEPT !.aq = <<>>])

DrainAudio ==
    /\ Phase("audio", "audio")
    /\ Len(s.aq) < AudioCap
    /\ audio # Gone
    /\ s' = IF audio = AudioEnd THEN AudioFinished(s) ELSE AudioArrived(s, audio)
    /\ audio' = IF audio = AudioEnd THEN Gone ELSE audio + 1
    /\ UNCHANGED video

\* The queue is full or the channel is empty.
AudioDrained ==
    /\ Phase("audio", "video")
    /\ UNCHANGED <<s, video, audio>>

DrainVideo ==
    /\ Phase("video", "video")
    /\ Len(s.vq) < VideoCap
    /\ video # Gone
    /\ s' = IF video = End THEN VideoFinished(s) ELSE VideoArrived(s, video)
    /\ video' = IF video = End THEN Gone ELSE video + 1
    /\ UNCHANGED audio

VideoDrained ==
    /\ Phase("video", "submit")
    /\ UNCHANGED <<s, video, audio>>

Submit ==
    /\ Phase("submit", "advance")
    /\ Do(Submitted(s))

\* The position a frame is compared with: the audio clock, or else the video clock,
\* or else nothing and the next frame is shown at once.
Schedule(p) ==
    IF p.anchor # None THEN Clock(p) ELSE IF p.vclock # None THEN p.vclock ELSE End

\* advance_video_playback has nothing to show yet, or may not show anything.
NothingDue(p) ==
    p.state \in {"paused", "ended"} \/ ~ \E n \in 1 .. Len(p.vq) : n = 1 /\ p.vq[n] <= Schedule(p)

\* How many frames are taken off the queue: all that are due by the audio clock.
Due(p) == IF p.anchor = None THEN 1
          ELSE CHOOSE n \in 1 .. Len(p.vq) :
                   /\ p.vq[n] <= Clock(p)
                   /\ n < Len(p.vq) => p.vq[n + 1] > Clock(p)

\* The last of them is shown, unless it is very late and another frame follows.
TooLate(p) ==
    /\ p.anchor # None
    /\ Due(p) < Len(p.vq)
    /\ p.vq[Due(p)] + LateBy < Clock(p)

HoldPicture ==
    /\ NothingDue(s)
    /\ Phase("advance", "finish")
    /\ UNCHANGED <<s, video, audio>>

ShowFrame ==
    /\ ~NothingDue(s)
    /\ LET n     == Due(s)
           frame == s.vq[n]
           left  == [s EXCEPT !.vq = SubSeq(@, n + 1, Len(@))]
       IN  \/ /\ TooLate(s)
              /\ Phase("advance", "finish")
              /\ Do(left)
           \/ /\ ~TooLate(s) /\ ~AtOutPoint(s, frame)
              /\ Phase("advance", "finish")
              /\ Do(Presented(left, frame))
           \/ /\ ~TooLate(s) /\ AtOutPoint(s, frame)
              /\ Phase("advance", "input")
              /\ Do(RangeEnded(left, frame))

FinishTick ==
    /\ Phase("finish", "input")
    /\ Do(Finished(Settled(s)))

Tick ==
    \/ StartTick \/ AudioDrained \/ VideoDrained
    \/ Submit \/ HoldPicture \/ ShowFrame \/ FinishTick

\* Something outside fails, in the phase where the code learns of it.
Fault(kind, at, next) ==
    /\ kind \in Faults
    /\ pc = at
    /\ pc' = next
    /\ commands < MaxCommands
    /\ commands' = commands + 1

\* The default endpoint changed.
SwitchEndpoint ==
    /\ Fault("endpoint", "submit", "submit")
    /\ s.state \notin {"idle", "error"}
    /\ Do(EndpointSwitched(s))
    /\ wanted' = IF s.state = "ended" THEN "pause" ELSE wanted

\* A write to the sink fails. A session that failed earlier in this very tick still
\* submits what was queued, and is revived here.
SubmitFails ==
    /\ Fault("endpoint", "submit", "advance")
    /\ ~SubmitSkipped(s)
    /\ s.aq # <<>>
    /\ Do(EndpointRecovered(s))
    /\ wanted' = Means(wanted)

\* A worker reports a lost device, or Present does.
WorkerLosesDevice ==
    /\ Fault("device", "video", "video")
    /\ video # Gone
    /\ Len(s.vq) < VideoCap
    /\ Do(DeviceRecovered(s))
    /\ wanted' = "any"

PresentLosesDevice ==
    /\ Fault("device", "finish", "input")
    /\ s.file # "none"
    /\ Do(DeviceRecovered(s))
    /\ wanted' = "any"

\* The video worker fails, or a lost device cannot be rebuilt.
PlaybackFails ==
    /\ Fault("run", "video", "video")
    /\ video # Gone
    /\ Len(s.vq) < VideoCap
    /\ Do(Failed(s))
    /\ UNCHANGED wanted

Environment ==
    SwitchEndpoint \/ SubmitFails \/ WorkerLosesDevice \/ PresentLosesDevice \/ PlaybackFails

Next == UserStep \/ TimePasses \/ Tick \/ DrainAudio \/ DrainVideo \/ Environment

(* The UI loop ticks forever and time passes between ticks; a worker that  *)
(* still has something to deliver is scheduled, so that a drain that comes *)
(* round again and again with room in its queue finds it. Nobody has to    *)
(* press a key and nothing has to fail.                                    *)
Fairness ==
    /\ WF_vars(Tick)
    /\ SF_vars(TimePasses)
    /\ SF_vars(DrainAudio)
    /\ SF_vars(DrainVideo)

Safety == Init /\ [][Next]_vars
Spec == Safety /\ Fairness

-----------------------------------------------------------------------------
(* Properties *)

Positions == None .. End + 1
States == {"idle", "opening", "priming", "playing", "paused", "seeking", "draining",
           "ended", "error"}

TypeOK ==
    /\ pc \in {"input", "audio", "video", "submit", "advance", "finish"}
    /\ s.state \in States
    /\ s.file \in Files \union {"none"}
    /\ s.order = NoOrder
    /\ s.vq \in Seq(0 .. End - 1) /\ Len(s.vq) <= VideoCap
    /\ s.aq \in Seq(0 .. AudioEnd - 1) /\ Len(s.aq) <= AudioCap
    /\ s.buffered \in 0 .. SinkCap /\ s.sent \in 0 .. AudioEnd
    /\ {s.anchor, s.vclock, s.pausedAt, s.target, s.discard, s.last, s.in, s.out}
          \subseteq Positions
    /\ {s.started, s.pauseAfter, s.settling, s.landed, s.videoExpected, s.videoEnded,
        s.audioExpected, s.audioEnded, s.selected, s.normal, s.loop, s.replay, s.signal}
          \subseteq BOOLEAN
    /\ video \in 0 .. Gone /\ audio \in 0 .. Gone
    /\ wanted \in {"play", "pause", "any"}
    /\ commands \in 0 .. MaxCommands

(* The sink is stopped whenever the player is paused, or a pause is waiting *)
(* for the picture of a seek to land: no sound from a paused player,        *)
(* whatever order seeks, scrubs, steps and endpoint switches came in. There *)
(* is one way out of that: Space in a paused player that still waits, for   *)
(* the end of the video overtook the picture the pause was to land with     *)
(* (toggle_pause resumes the sink and leaves pause_after_seek).             *)
Quiet(p) == p.state = "paused" \/ (p.pauseAfter /\ p.state # "error") => ~p.started
ResumesOverPending == TogglePause /\ s.state = "paused" /\ s.pauseAfter
SilentWhenPaused == [][ Quiet(s) => Quiet(s') \/ ResumesOverPending ]_vars

(* Between two ticks the player does what was last asked of it: it never    *)
(* starts by itself after a pause, nor pauses by itself. An endpoint switch *)
(* keeps a paused or finished player from resuming (EndpointSwitch); what a *)
(* lost device or a new file leaves is not judged here.                     *)
IntentKept ==
    pc = "input" =>
        /\ s.state = "playing" => wanted # "pause"
        /\ s.state = "paused" => wanted # "play"

(* The playhead never collapses: once some clock runs, it is lost only to a *)
(* new operation, to a rate change, to the end of playback or to a pause    *)
(* that waits for the picture of a seek whose sound has begun (the underrun *)
(* handover of submit_due_audio, and the order of its steps).               *)
PlayheadKept ==
    [][ Clock(s) # None /\ Clock(s') = None =>
          \/ s'.state \in {"opening", "seeking"}
          \/ SeekPending(s) /\ ~s.pauseAfter /\ s'.pauseAfter
          \/ StepRate
          \/ CanFinish(s') ]_vars

(* When the natural end is announced to the play queue, the current         *)
(* operation has been played to the end: the picture on show is the last of *)
(* the track, unless the target lay behind every picture, and the sound was *)
(* submitted through to the end of its track and has left the sink, with the*)
(* audio clock, if it runs, standing there. A session that has heard no     *)
(* sound yet takes the file for silent: it does not wait for a sound that is*)
(* still to come (EndAwaitsSound).                                          *)
NaturalEndIsComplete ==
    [][ s'.signal /\ ~s.signal =>
          /\ video >= End /\ s.vq = <<>>
          /\ s.file # "audio" /\ s.discard # End => s.selected /\ s.last = End - 1
          /\ s.audioExpected =>
                /\ audio >= AudioEnd /\ s.aq = <<>> /\ s.buffered = 0
                /\ s.anchor # None => s.anchor + s.sent = AudioEnd ]_vars

(* No picture from before the target of a seek is shown once the seek was   *)
(* made: the discard, the queue reset and the order of a recovery together. *)
ShowsFromTarget ==
    [][ s'.last # s.last /\ s'.last # None /\ s.discard # None => s'.last >= s.discard ]_vars

(* Playback that nobody pauses ends, or leaves for another operation.       *)
EndsEventually ==
    (s.state \in {"priming", "playing", "draining"} /\ ~s.pauseAfter)
        ~> (s.state \notin {"priming", "playing", "draining"} \/ s.pauseAfter)

-----------------------------------------------------------------------------
(* What comments and documents say, and the code does otherwise.            *)

(* In Opening and Seeking "an open/seek is in flight" (is_idle_for_input,   *)
(* session.rs:777).                                                         *)
SeekIsInFlight ==
    pc = "input" /\ s.state \in {"opening", "seeking"} => video # Gone \/ audio # Gone

(* The signal says "playback just reached its natural end"                  *)
(* (session.rs:154): of a file with sound, the sound has been delivered.    *)
EndAwaitsSound ==
    [][ s'.signal /\ ~s.signal /\ s.file = "av" => audio = Gone ]_vars

(* In normal playback the position shown is the "current master-clock       *)
(* position" (ARCHITECTURE.md:560): once sound plays in a file known to     *)
(* have no picture, the target of a seek has gone "through the ordinary     *)
(* settled seek path" (session.rs:2766).                                    *)
PlayingShowsClock ==
    pc = "input" /\ s.state = "playing" /\ s.anchor # None /\ ~s.videoExpected
        => Position(s) = Clock(s)

(* Outside the clip range a scrub shows "an inspection position and must    *)
(* remain paused" (timeline_ui.rs:111): while a pause waits for the picture *)
(* of a seek, the session is not ended nor sought again by the out-point.   *)
InspectionLandsPaused ==
    [][ pc = "advance" /\ s.pauseAfter /\ s'.state # s.state => s'.state = "paused" ]_vars
================================================================================
