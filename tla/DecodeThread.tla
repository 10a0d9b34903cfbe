------------------------------- MODULE DecodeThread ------------------------------
(***************************************************************************)
(* The video decode workers and the coordinator that commands them:        *)
(*   - DecodeThreadHandle (app/decode_thread.rs): control, preference, the *)
(*     live-worker count, the retirement flag and the join handle;         *)
(*   - the worker body (PlaybackSession::spawn_decode_thread), from open   *)
(*     to run to park to exit, with DecodeSession::open and run_to_eof;    *)
(*   - the bounded event channel and send_to_ui;                           *)
(*   - the coordinator's side of it in PlaybackSession: generations and    *)
(*     operation ids, open, seek, endpoint and device recovery, failures,  *)
(*     and the stale checks of handle_event.                               *)
(*                                                                         *)
(* The mailbox of each worker is one variable with atomic operations here; *)
(* DecodeControl models it at the grain of its lock. A worker is named by  *)
(* the operation id that spawned it, so detached stragglers of earlier     *)
(* operations run beside the current worker, as they do in the program.    *)
(***************************************************************************)
EXTENDS Naturals, Sequences, FiniteSets

CONSTANTS
    Files,          \* subset of {"video", "audio"}: media with or without a video track
    Modes,          \* decode modes a fresh Auto open may select
    Faults,         \* which external failures happen, a subset of FaultKinds
    MaxOps,         \* bound on operation ids (opens, seeks and recoveries)
    FramesPerRun,   \* frames from any start position to the end of the stream
    ChannelCap,     \* capacity of the bounded event channel
    QueueCap        \* capacity of the decoded video queue

FaultKinds == {"open", "run", "device", "present", "path", "rebuild", "wedge", "fallback"}

ASSUME ConstantsOK ==
    /\ Files \subseteq {"video", "audio"}
    /\ Modes \subseteq {"hardware", "software"} /\ Modes # {}
    /\ Faults \subseteq FaultKinds
    /\ MaxOps \in Nat
    /\ FramesPerRun \in Nat \ {0}
    /\ ChannelCap \in Nat \ {0}
    /\ QueueCap \in Nat \ {0}

VARIABLES
    \* PlaybackSession
    state,              \* "live" stands for Priming, Playing, Paused, Draining and Ended
    file,               \* the kind of file current_source names
    openGen, seekGen,   \* GenerationClock
    opClock,            \* OperationClock: the newest operation id
    activeOp,           \* active_operation_id, 0 for None
    videoExpected,      \* video_stream_expected
    videoEnded,         \* video_stream_ended
    decodePreference,   \* decode_preference
    queue,              \* stamps of the frames in video_queue
    shown,              \* history: operation of the last event that was accepted
    ui,                 \* "ready", or "joining" inside teardown(true)
    device,             \* the presenter's D3D11 device, by the first operation run on it
    \* DecodeThreadHandle
    control,            \* the worker whose control channel is held, 0 for None
    preference,         \* the preference it was spawned with
    count,              \* active_worker_count
    retired,            \* the retirement flag
    join,               \* the worker whose join handle is held, 0 for None
    \* shared with the workers
    ctl,                \* per worker: its DecodeControl
    channel,            \* the event channel
    worker              \* per worker: its thread-local state

session == <<state, file, openGen, seekGen, opClock, activeOp, videoExpected,
             videoEnded, decodePreference, queue, shown>>
handle == <<control, preference, count, retired, join>>
vars == <<session, ui, device, handle, ctl, channel, worker>>

Ops == 1 .. MaxOps
NoPending == [kind |-> "none", seek |-> 0, op |-> 0]
ShutdownCommand == [kind |-> "shutdown", seek |-> 0, op |-> 0]
SeekCommand(seek, op) == [kind |-> "seek", seek |-> seek, op |-> op]
NewControl == [seq |-> 0, shutdown |-> FALSE, pending |-> NoPending]

NoEvent == [kind |-> "none", open |-> 0, seek |-> 0, op |-> 0, mode |-> "none"]
NoHold == [event |-> NoEvent, sent |-> "unborn", aborted |-> "unborn"]
Unborn == [pc |-> "unborn", open |-> 0, file |-> "video", preference |-> "auto",
           started |-> FALSE, seek |-> 0, op |-> 0, serving |-> 0,
           mode |-> "none", todo |-> 0, hold |-> NoHold]

Init ==
    /\ state = "idle" /\ file = "video"
    /\ openGen = 0 /\ seekGen = 0 /\ opClock = 0 /\ activeOp = 0
    /\ videoExpected = TRUE /\ videoEnded = FALSE
    /\ decodePreference = "auto"
    /\ queue = <<>> /\ shown = 0
    /\ ui = "ready" /\ device = 0
    /\ control = 0 /\ preference = "none" /\ count = 0 /\ retired = FALSE /\ join = 0
    /\ ctl = [w \in Ops |-> NewControl]
    /\ channel = <<>>
    /\ worker = [w \in Ops |-> Unborn]

-----------------------------------------------------------------------------
(* DecodeThreadHandle, as the coordinator calls it.                         *)

\* The worker's share of teardown: DecodeControl::send_shutdown, if a control is held.
ShutdownSent ==
    IF control = 0 THEN ctl
    ELSE [ctl EXCEPT ![control] = [seq |-> @.seq + 1, shutdown |-> TRUE,
                                   pending |-> ShutdownCommand]]

\* teardown(false) with nothing spawned after it.
TearDown ==
    /\ ctl' = ShutdownSent
    /\ control' = 0
    /\ preference' = "none"
    /\ UNCHANGED <<count, retired, join>>

\* Mutant of Respawn: the worker that is replaced is not torn down.
RespawnBeside(open, f, pref, seek, op, started) ==
    /\ ctl' = ctl
    /\ control' = op
    /\ preference' = pref
    /\ retired' = FALSE
    /\ count' = count + 1
    /\ join' = op
    /\ worker' = [worker EXCEPT ![op] =
                    [Unborn EXCEPT !.pc = "opening", !.open = open, !.file = f,
                                   !.preference = pref, !.started = started,
                                   !.seek = seek, !.op = op]]

\* teardown(false), then spawn_decode_thread: prepare_spawn, the thread, set_join.
Respawn(open, f, pref, seek, op, started) ==
    /\ ctl' = ShutdownSent
    /\ control' = op
    /\ preference' = pref
    /\ retired' = FALSE
    /\ count' = count + 1
    /\ join' = op
    /\ worker' = [worker EXCEPT ![op] =
                    [Unborn EXCEPT !.pc = "opening", !.open = open, !.file = f,
                                   !.preference = pref, !.started = started,
                                   !.seek = seek, !.op = op]]

\* How execute_seek reaches a worker, by the first of its tests that applies.
SeekDelivery ==
    IF control = 0 \/ preference # decodePreference THEN "Respawn"
    ELSE IF count > 0 THEN "InPlace"
    ELSE IF retired THEN "Retired"
    ELSE "Respawn"

-----------------------------------------------------------------------------
(* Operations of the coordinator.                                           *)

NewOperation ==
    /\ ui = "ready"
    /\ opClock < MaxOps

\* open_at, with the begin_operation it calls.
Open(f) ==
    /\ NewOperation
    /\ openGen' = openGen + 1
    /\ seekGen' = 0
    /\ opClock' = opClock + 1
    /\ activeOp' = opClock'
    /\ file' = f
    /\ decodePreference' = "auto"
    /\ videoExpected' = TRUE
    /\ videoEnded' = FALSE
    /\ queue' = <<>>
    /\ state' = "opening"
    /\ Respawn(openGen', f, "auto", 0, opClock', FALSE)
    /\ UNCHANGED <<shown, ui, device, channel>>

\* Mutant of RestartWithin: the frames already queued are kept.
RestartKeepingQueue ==
    /\ seekGen' = seekGen + 1
    /\ opClock' = opClock + 1
    /\ activeOp' = opClock'
    /\ videoEnded' = ~videoExpected
    /\ state' = "seeking"
    /\ UNCHANGED <<file, openGen, videoExpected, decodePreference, queue, shown>>

\* Mutant of RestartWithin: the end of the previous run is kept.
RestartStillEnded ==
    /\ seekGen' = seekGen + 1
    /\ opClock' = opClock + 1
    /\ activeOp' = opClock'
    /\ queue' = <<>>
    /\ state' = "seeking"
    /\ UNCHANGED <<file, openGen, videoExpected, videoEnded, decodePreference, shown>>

\* What every restart within the open file does to the session.
RestartWithin ==
    /\ seekGen' = seekGen + 1
    /\ opClock' = opClock + 1
    /\ activeOp' = opClock'
    /\ videoEnded' = ~videoExpected
    /\ queue' = <<>>
    /\ state' = "seeking"
    /\ UNCHANGED <<file, openGen, videoExpected, decodePreference, shown>>

\* seek, with the execute_seek it calls.
Seek ==
    /\ NewOperation
    /\ state \notin {"idle", "opening", "error"}
    /\ RestartWithin
    /\ \/ /\ SeekDelivery = "InPlace"
          /\ ctl' = [ctl EXCEPT ![control].seq = @ + 1,
                                ![control].pending = SeekCommand(seekGen', opClock')]
          /\ UNCHANGED <<handle, worker>>
       \/ /\ SeekDelivery = "Respawn"
          /\ Respawn(openGen, file, decodePreference, seekGen', opClock', TRUE)
       \/ /\ SeekDelivery = "Retired"
          /\ UNCHANGED <<handle, ctl, worker>>
    /\ UNCHANGED <<ui, device, channel>>

\* recover_audio_endpoint: a default-endpoint change or a failed sink write.
RecoverEndpoint ==
    /\ NewOperation
    /\ state \notin {"idle", "error"}
    /\ RestartWithin
    /\ Respawn(openGen, file, decodePreference, seekGen', opClock', TRUE)
    /\ UNCHANGED <<ui, device, channel>>

\* recover_device up to the wait inside teardown(true).
StartDeviceRecovery ==
    /\ opClock < MaxOps
    /\ ui' = "joining"
    /\ TearDown

\* Present (or the error overlay's) reports a lost device in tick_inner.
PresentLosesDevice ==
    /\ "present" \in Faults
    /\ ui = "ready"
    /\ state # "idle"
    /\ StartDeviceRecovery
    /\ UNCHANGED <<session, device, channel, worker>>

\* The join that follows the wait for the count to reach zero.
Joined == count = 0 /\ (join # 0 => worker[join].pc = "gone")

\* The deadline of that wait passes with a worker still counted.
JoinTimesOut == "wedge" \in Faults /\ count > 0

\* The rest of recover_device: the device is destroyed and rebuilt, and the
\* file reopened on the new one.
RebuildDevice ==
    /\ ui = "joining"
    /\ Joined \/ JoinTimesOut
    /\ ui' = "ready"
    /\ device' = opClock + 1
    /\ RestartWithin
    /\ Respawn(openGen, file, decodePreference, seekGen', opClock', TRUE)
    /\ UNCHANGED channel

\* fail_open and fail_playback
Fail ==
    /\ TearDown
    /\ state' = "error"
    /\ activeOp' = 0
    /\ queue' = <<>>
    /\ UNCHANGED <<file, openGen, seekGen, opClock, videoExpected, videoEnded,
                   decodePreference, shown>>

RebuildFails ==
    /\ "rebuild" \in Faults
    /\ ui = "joining"
    /\ Joined \/ JoinTimesOut
    /\ ui' = "ready"
    /\ device' \in {device, opClock + 1}
    /\ state' = "error"
    /\ activeOp' = 0
    /\ queue' = <<>>
    /\ join' = 0
    /\ UNCHANGED <<file, openGen, seekGen, opClock, videoExpected, videoEnded,
                   decodePreference, shown, control, preference, count, retired,
                   ctl, channel, worker>>

-----------------------------------------------------------------------------
(* Draining the event channel: handle_event.                                *)

\* Mutant of CurrentFrame: only the seek generation is compared.
CurrentSeek(e) == e.seek = seekGen

CurrentFrame(e) == e.open = openGen /\ e.seek = seekGen /\ e.op = activeOp

\* The stale check of each event: two of them carry no seek generation.
IsCurrent(e) ==
    IF e.kind \in {"novideo", "openfailed"}
    THEN e.open = openGen /\ e.op = activeOp
    ELSE CurrentFrame(e)

\* The drain loop of tick_inner takes the next event of the channel.
Take ==
    /\ ui = "ready"
    /\ state # "error"
    /\ Len(queue) < QueueCap
    /\ channel # <<>>
    /\ channel' = Tail(channel)

Event == Head(channel)

DropStale ==
    /\ Take
    /\ ~IsCurrent(Event)
    /\ UNCHANGED <<session, ui, device, handle, ctl, worker>>

\* VideoFrameReady
AcceptFrame ==
    /\ Take
    /\ Event.kind = "frame"
    /\ IsCurrent(Event)
    /\ queue' = Append(queue, [open |-> Event.open, seek |-> Event.seek, op |-> Event.op])
    /\ state' = IF state \in {"opening", "seeking"} THEN "live" ELSE state
    /\ shown' = Event.op
    /\ UNCHANGED <<file, openGen, seekGen, opClock, activeOp, videoExpected, videoEnded,
                   decodePreference, ui, device, handle, ctl, worker>>

\* DecodeModeSelected and PresentationPathSelected
AcceptOpened ==
    /\ Take
    /\ Event.kind = "opened"
    /\ IsCurrent(Event)
    /\ decodePreference' = IF Event.mode = "software" THEN "software" ELSE decodePreference
    /\ UNCHANGED <<state, file, openGen, seekGen, opClock, activeOp, videoExpected,
                   videoEnded, queue, shown, ui, device, handle, ctl, worker>>

\* PresentationPathSelected, when the swap chain of the path cannot be built.
AcceptPathFails ==
    /\ "path" \in Faults
    /\ Take
    /\ Event.kind = "opened"
    /\ IsCurrent(Event)
    /\ Fail
    /\ UNCHANGED <<ui, device, worker>>

\* VideoStreamEnded
AcceptEnded ==
    /\ Take
    /\ Event.kind = "ended"
    /\ IsCurrent(Event)
    /\ videoEnded' = TRUE
    /\ shown' = Event.op
    /\ UNCHANGED <<state, file, openGen, seekGen, opClock, activeOp, videoExpected,
                   decodePreference, queue, ui, device, handle, ctl, worker>>

\* NoVideoStream
AcceptNoVideo ==
    /\ Take
    /\ Event.kind = "novideo"
    /\ IsCurrent(Event)
    /\ videoExpected' = FALSE
    /\ videoEnded' = TRUE
    /\ shown' = Event.op
    /\ UNCHANGED <<state, file, openGen, seekGen, opClock, activeOp, decodePreference,
                   queue, ui, device, handle, ctl, worker>>

\* OpenFailed and PlaybackFailed
AcceptFailure ==
    /\ Take
    /\ Event.kind \in {"openfailed", "playbackfailed"}
    /\ IsCurrent(Event)
    /\ Fail
    /\ UNCHANGED <<ui, device, worker>>

\* DeviceLost
AcceptDeviceLost ==
    /\ Take
    /\ Event.kind = "devicelost"
    /\ IsCurrent(Event)
    /\ StartDeviceRecovery
    /\ UNCHANGED <<session, device, worker>>

\* present_video_frame pops the queue; a paused player does not.
Present ==
    /\ ui = "ready"
    /\ state = "live"
    /\ queue # <<>>
    /\ queue' = Tail(queue)
    /\ UNCHANGED <<state, file, openGen, seekGen, opClock, activeOp, videoExpected,
                   videoEnded, decodePreference, shown, ui, device, handle, ctl,
                   channel, worker>>

\* AudioFrameReady of the current operation, whether or not a picture will follow.
AudioLeads ==
    /\ ui = "ready"
    /\ state \in {"opening", "seeking"}
    /\ state' = "live"
    /\ UNCHANGED <<file, openGen, seekGen, opClock, activeOp, videoExpected, videoEnded,
                   decodePreference, queue, shown, ui, device, handle, ctl, channel, worker>>

Drain ==
    \/ DropStale \/ AcceptFrame \/ AcceptOpened \/ AcceptPathFails
    \/ AcceptEnded \/ AcceptNoVideo \/ AcceptFailure \/ AcceptDeviceLost

-----------------------------------------------------------------------------
(* The worker thread.                                                       *)

Cancelled(w) == ctl[w].seq # worker[w].serving \/ ctl[w].shutdown
ChannelFull == Len(channel) >= ChannelCap
Stamped(w, kind, mode) ==
    [kind |-> kind, open |-> worker[w].open, seek |-> worker[w].seek,
     op |-> worker[w].op, mode |-> mode]

\* Only the worker's own state changes.
Local(w, next) ==
    /\ worker' = [worker EXCEPT ![w] = next]
    /\ UNCHANGED <<session, ui, device, handle, ctl, channel>>

Goto(w, pc) == Local(w, [worker[w] EXCEPT !.pc = pc])

\* The worker body returns: its session and locals are gone.
Left == [Unborn EXCEPT !.pc = "exiting"]
Leave(w) == Local(w, Left)

\* w with an event in hand for send_to_ui, and where each outcome leads.
Sending(w, event, sent, aborted) ==
    [worker[w] EXCEPT !.pc = "sending",
                      !.hold = [event |-> event, sent |-> sent, aborted |-> aborted]]

\* w goes on after a send.
Resumed(w, pc) ==
    IF pc = "exiting" THEN Left ELSE [worker[w] EXCEPT !.pc = pc, !.hold = NoHold]

\* send_to_ui: try_send succeeds whenever there is room, cancelled or not.
Send(w) ==
    /\ worker[w].pc = "sending"
    /\ ~ChannelFull
    /\ channel' = Append(channel, worker[w].hold.event)
    /\ worker' = [worker EXCEPT ![w] = Resumed(w, worker[w].hold.sent)]
    /\ UNCHANGED <<session, ui, device, handle, ctl>>

\* Mutant of SendCancelled: a full channel is waited out, cancelled or not.
SendPatiently(w) ==
    /\ worker[w].pc = "sending"
    /\ Cancelled(w)
    /\ worker[w].hold.aborted = "superseded" /\ worker[w].file = "video"
    /\ Local(w, Resumed(w, worker[w].hold.aborted))

\* send_to_ui gives up once cancelled on a full channel; DecodeSession::open also
\* looks once more before it reports a video decoder.
SendCancelled(w) ==
    /\ worker[w].pc = "sending"
    /\ Cancelled(w)
    /\ \/ ChannelFull
       \/ worker[w].hold.aborted = "superseded" /\ worker[w].file = "video"
    /\ Local(w, Resumed(w, worker[w].hold.aborted))

\* DecodeSession::open finds no video stream: the path is announced, nothing else.
ProbeAudioOnly(w) ==
    /\ worker[w].pc = "opening"
    /\ worker[w].file = "audio"
    /\ Local(w, Sending(w, Stamped(w, "opened", "none"), "retire", "superseded"))

\* DecodeSession::open with a video stream, up to its progress callbacks.
ProbeVideo(w) ==
    /\ worker[w].pc = "opening"
    /\ worker[w].file = "video"
    /\ \/ /\ Cancelled(w)
          /\ Goto(w, "superseded")
       \/ /\ ~Cancelled(w)
          /\ \E mode \in (IF worker[w].preference = "auto" THEN Modes ELSE {"software"}) :
                Local(w, [Sending(w, Stamped(w, "opened", mode), "decode", "superseded")
                            EXCEPT !.mode = mode, !.todo = FramesPerRun])

\* DecodeSession::open returns an error. The interrupt callback makes it do so on a
\* shutdown; anything else is a failure of the file, the decoder or the device.
OpenInterrupted(w) ==
    /\ worker[w].pc = "opening"
    /\ ctl[w].shutdown
    /\ Leave(w)

OpenFails(w) ==
    /\ worker[w].pc = "opening"
    /\ ~ctl[w].shutdown
    /\ \E kind \in (IF "device" \in Faults THEN {"devicelost"} ELSE {})
                   \union (IF "open" \notin Faults THEN {}
                           ELSE IF worker[w].started THEN {"playbackfailed"}
                           ELSE {"openfailed"}) :
            Local(w, Sending(w, Stamped(w, kind, "none"), "exiting", "exiting"))

\* The command wait_next hands over, for the open that is retried or the next run.
Taken(w, pc) ==
    /\ worker' = [worker EXCEPT ![w].pc = pc,
                                ![w].serving = ctl[w].seq,
                                ![w].seek = ctl[w].pending.seek,
                                ![w].op = ctl[w].pending.op,
                                ![w].started = TRUE,
                                ![w].todo = FramesPerRun]
    /\ ctl' = [ctl EXCEPT ![w].pending = NoPending]
    /\ UNCHANGED <<session, ui, device, handle, channel>>

\* Mutant of Superseded: a cancelled open ends the worker, command or not.
SupersededLeaves(w) ==
    /\ worker[w].pc = "superseded"
    /\ Leave(w)

\* A cancelled open serves the command that cancelled it and reopens.
Superseded(w) ==
    /\ worker[w].pc = "superseded"
    /\ \/ /\ ctl[w].shutdown
          /\ Leave(w)
       \/ /\ ~ctl[w].shutdown
          /\ ctl[w].pending # NoPending
          /\ Taken(w, "opening")

\* VideoOpen::NoVideoStream: retire the handle, then report it unless shut down.
Retire(w) ==
    /\ worker[w].pc = "retire"
    /\ retired' = TRUE
    /\ worker' = [worker EXCEPT ![w] =
                    IF ctl[w].shutdown
                    THEN Left
                    ELSE Sending(w, Stamped(w, "novideo", "none"), "exiting", "exiting")]
    /\ UNCHANGED <<session, ui, device, control, preference, count, join, ctl, channel>>

\* run_to_eof: one frame decoded and handed to send_to_ui.
DecodeFrame(w) ==
    /\ worker[w].pc = "decode"
    /\ ~Cancelled(w)
    /\ worker[w].todo > 0
    /\ Local(w, [Sending(w, Stamped(w, "frame", "none"), "decode", "ran")
                    EXCEPT !.todo = @ - 1])

RunCancelled(w) ==
    /\ worker[w].pc = "decode"
    /\ Cancelled(w)
    /\ Goto(w, "ran")

\* run_to_eof completes and the end of the stream is announced.
RunCompletes(w) ==
    /\ worker[w].pc = "decode"
    /\ ~Cancelled(w)
    /\ worker[w].todo = 0
    /\ Local(w, Sending(w, Stamped(w, "ended", "none"), "parked", "parked"))

\* A hardware decoder that fails mid-stream is replaced and the run restarts.
HardwareFallback(w) ==
    /\ "fallback" \in Faults
    /\ worker[w].pc = "decode"
    /\ worker[w].mode = "hardware"
    /\ Local(w, [Sending(w, Stamped(w, "opened", "software"), "decode", "ran")
                    EXCEPT !.mode = "software", !.todo = FramesPerRun])

\* The failures worker_failure_event reports.
Failures ==
    (IF "device" \in Faults THEN {"devicelost"} ELSE {})
        \union (IF "run" \in Faults THEN {"playbackfailed"} ELSE {})

RunFails(w) ==
    /\ worker[w].pc = "decode"
    /\ \E kind \in Failures :
          IF ctl[w].shutdown THEN Leave(w)
          ELSE Local(w, Sending(w, Stamped(w, kind, "none"), "parked", "parked"))

AfterRun(w) ==
    /\ worker[w].pc = "ran"
    /\ IF ctl[w].shutdown THEN Leave(w) ELSE Goto(w, "parked")

\* wait_next, then session.seek.
TakeSeek(w) ==
    /\ worker[w].pc = "parked"
    /\ ~ctl[w].shutdown
    /\ ctl[w].pending # NoPending
    /\ Taken(w, "decode")

\* session.seek fails: the failure is reported and the run goes on regardless.
TakeSeekFails(w) ==
    /\ worker[w].pc = "parked"
    /\ ~ctl[w].shutdown
    /\ ctl[w].pending # NoPending
    /\ \E kind \in Failures :
        /\ worker' = [worker EXCEPT ![w] =
              [@ EXCEPT !.pc = "sending",
                        !.serving = ctl[w].seq,
                        !.seek = ctl[w].pending.seek,
                        !.op = ctl[w].pending.op,
                        !.started = TRUE,
                        !.todo = FramesPerRun,
                        !.hold = [event |-> [kind |-> kind, open |-> worker[w].open,
                                             seek |-> ctl[w].pending.seek,
                                             op |-> ctl[w].pending.op, mode |-> "none"],
                                  sent |-> "decode", aborted |-> "decode"]]]
        /\ ctl' = [ctl EXCEPT ![w].pending = NoPending]
    /\ UNCHANGED <<session, ui, device, handle, channel>>

TakeShutdown(w) ==
    /\ worker[w].pc = "parked"
    /\ ctl[w].shutdown
    /\ Leave(w)

\* The codecs are dropped, then the WorkerGuard: the count falls.
DropGuard(w) ==
    /\ worker[w].pc = "exiting"
    /\ count' = count - 1
    /\ worker' = [worker EXCEPT ![w].pc = "releasing"]
    /\ UNCHANGED <<session, ui, device, control, preference, retired, join, ctl, channel>>

\* The closure's captures go last, the device clone among them.
ReleaseDevice(w) ==
    /\ worker[w].pc = "releasing"
    /\ Goto(w, "gone")

-----------------------------------------------------------------------------
UserStep == (\E f \in Files : Open(f)) \/ Seek
Environment ==
    \/ RecoverEndpoint \/ PresentLosesDevice
    \/ \E w \in Ops : OpenFails(w) \/ HardwareFallback(w) \/ RunFails(w) \/ TakeSeekFails(w)
Coordinator == Drain \/ RebuildDevice \/ RebuildFails
WorkerStep(w) ==
    \/ Send(w) \/ SendCancelled(w)
    \/ ProbeAudioOnly(w) \/ ProbeVideo(w) \/ OpenInterrupted(w) \/ Superseded(w) \/ Retire(w)
    \/ DecodeFrame(w) \/ RunCancelled(w) \/ RunCompletes(w) \/ AfterRun(w)
    \/ TakeSeek(w) \/ TakeShutdown(w) \/ DropGuard(w) \/ ReleaseDevice(w)

Next ==
    \/ UserStep \/ Environment \/ Coordinator
    \/ Present \/ AudioLeads
    \/ \E w \in Ops : WorkerStep(w)

(* The UI thread ticks forever, so a drainable event is drained and a join  *)
(* that can return does. Every worker thread is scheduled, and its FFmpeg   *)
(* calls return (each has a deadline). Nobody has to seek, present or fail: *)
(* a paused player never presents.                                          *)
Fairness ==
    /\ WF_vars(Coordinator)
    /\ \A w \in Ops : WF_vars(WorkerStep(w))

Safety == Init /\ [][Next]_vars
Spec == Safety /\ Fairness

-----------------------------------------------------------------------------
(* Properties *)

Events == [kind : {"opened", "frame", "ended", "novideo", "openfailed",
                   "playbackfailed", "devicelost"},
           open : 1 .. MaxOps, seek : 0 .. MaxOps, op : Ops,
           mode : {"none", "hardware", "software"}]
Commands == {NoPending, ShutdownCommand}
              \union [kind : {"seek"}, seek : 1 .. MaxOps, op : Ops]
Pcs == {"unborn", "opening", "superseded", "sending", "retire", "decode", "ran",
        "parked", "exiting", "releasing", "gone"}
Workers == [pc : Pcs, open : 0 .. MaxOps, file : {"video", "audio"},
            preference : {"auto", "software"}, started : BOOLEAN,
            seek : 0 .. MaxOps, op : 0 .. MaxOps, serving : 0 .. MaxOps,
            mode : {"none", "hardware", "software"}, todo : 0 .. FramesPerRun,
            hold : [event : Events \union {NoEvent}, sent : Pcs, aborted : Pcs]]

TypeOK ==
    /\ state \in {"idle", "opening", "seeking", "live", "error"}
    /\ file \in {"video", "audio"}
    /\ openGen \in 0 .. MaxOps /\ seekGen \in 0 .. MaxOps
    /\ opClock \in 0 .. MaxOps /\ activeOp \in 0 .. MaxOps
    /\ videoExpected \in BOOLEAN /\ videoEnded \in BOOLEAN
    /\ decodePreference \in {"auto", "software"}
    /\ queue \in Seq([open : 1 .. MaxOps, seek : 0 .. MaxOps, op : Ops])
    /\ Len(queue) <= QueueCap
    /\ shown \in 0 .. MaxOps
    /\ ui \in {"ready", "joining"} /\ device \in 0 .. MaxOps
    /\ control \in 0 .. MaxOps /\ join \in 0 .. MaxOps /\ count \in 0 .. MaxOps
    /\ preference \in {"none", "auto", "software"}
    /\ retired \in BOOLEAN
    /\ ctl \in [Ops -> [seq : 0 .. MaxOps + 1, shutdown : BOOLEAN, pending : Commands]]
    /\ channel \in Seq(Events) /\ Len(channel) <= ChannelCap
    /\ worker \in [Ops -> Workers]

Live(w) == worker[w].pc \notin {"unborn", "releasing", "gone"}
Serving(w) == worker[w].pc \notin {"unborn", "exiting", "releasing", "gone"}
HoldsDevice(w) == worker[w].pc \notin {"unborn", "gone"}

(* No frame of a superseded seek, or of a file that was closed, is queued   *)
(* for presentation, however late its worker sent it (handle_event's        *)
(* is_current_frame gate together with the queue reset of every operation). *)
QueueIsCurrent ==
    \A i \in 1 .. Len(queue) :
        queue[i] = [open |-> openGen, seek |-> seekGen, op |-> activeOp]

(* Every worker but the one the handle commands has been told to shut down: *)
(* no open, recovery or failure leaves a worker decoding for nobody.        *)
SupersededAreSignalled ==
    \A w \in Ops : Live(w) /\ w # control => ctl[w].shutdown

(* Once the end of the current operation's video is accepted, no frame of   *)
(* that operation is still on its way. can_finish_playback relies on it:    *)
(* the player would report Ended with pictures still to show.               *)
EndOfStreamIsFinal ==
    videoEnded /\ videoExpected =>
        \A i \in 1 .. Len(channel) :
            channel[i].kind = "frame" => ~CurrentFrame(channel[i])

(* The "no video track" verdict that silences the video half of the player  *)
(* is always about the open file, never a late report of the previous one.  *)
AudioOnlyVerdictFits == ~videoExpected => file = "audio"

(* What the session has concluded of the video stream, that it ended or that*)
(* there is none, is true of the operation and the file at hand.           *)
VerdictsFit ==
    /\ EndOfStreamIsFinal
    /\ AudioOnlyVerdictFits

(* A command that cancelled a worker's open or run is in its mailbox, so    *)
(* the wait_next that follows a cancellation does not block.                *)
CancelledWorkerHasCommand ==
    \A w \in Ops :
        worker[w].pc = "superseded" => ctl[w].shutdown \/ ctl[w].pending # NoPending

(* Whoever stopped decoding or should, knows what comes next: a worker that*)
(* was replaced has its shutdown, one that was cancelled its command.      *)
WorkersAreTold ==
    /\ TypeOK
    /\ SupersededAreSignalled
    /\ CancelledWorkerHasCommand

(* A worker that outlives the bounded wait for it (join_worker_bounded gives *)
(* up at its deadline) decodes on the device that is gone, and stays with    *)
(* the operations of that device. Every worker was given the device of the  *)
(* day it was spawned; so whoever is commanded, or serves an operation of    *)
(* the present device, was spawned on it, no picture decoded on an earlier   *)
(* one is queued, and what such a worker still reports, its lost device      *)
(* among it, is not believed.                                                *)
OnLiveDevice ==
    /\ control # 0 => control >= device
    /\ \A w \in Ops : Serving(w) /\ worker[w].op >= device => w >= device
    /\ \A i \in 1 .. Len(queue) : queue[i].op >= device
    /\ \A i \in 1 .. Len(channel) : IsCurrent(channel[i]) => channel[i].op >= device

(* The player as a whole implements "only the newest request is served".    *)
Abstract == INSTANCE LatestRequest
    WITH requested <- opClock, served <- shown, stopped <- FALSE

ImplementsLatestRequest == Abstract!Safety

(* Workers told to leave and not gone yet. *)
ToLeave == {w \in Ops : ctl[w].shutdown /\ worker[w].pc # "gone"}

(* Workers told to shut down go away, device clones released, with the      *)
(* event channel full and nobody draining it (send_to_ui: "a stale decode   *)
(* can never block forever on a full channel").                             *)
SignalledWorkersLeave == (ToLeave # {}) ~> (ToLeave = {})

(* The newest open, seek or recovery is answered with a frame, an end of    *)
(* stream or the no-video verdict, unless the file fails: whoever asks stops *)
(* some time (MaxOps), and what was superseded needs no answer.             *)
RequestsAnswered == (shown # activeOp) ~> (shown = activeOp \/ activeOp = 0)

-----------------------------------------------------------------------------
(* What a comment or a test of the code says, and the code does otherwise.  *)

(* teardown(true) "guarantees the worker has released its D3D11 device      *)
(* clone before the caller rebuilds or destroys the shared device"          *)
(* (decode_thread.rs:9), for "every live worker (the current one plus any   *)
(* detached straggler from a rapid reopen)" (decode_thread.rs:192).         *)
ReleasedBeforeRebuild ==
    [][ device' # device => \A w \in Ops : ~HoldsDevice(w) ]_vars

(* The worker of a file without a video track will "Tell the coordinator so *)
(* it plays from the audio worker alone, then exit" (session.rs:1745), so   *)
(* such a file can reach its end.                                           *)
AudioOnlyLearned ==
    \A n \in Ops :
        (file = "audio" /\ activeOp = n) ~> (~videoExpected \/ activeOp # n)
==================================================================================
