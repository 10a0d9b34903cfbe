# FastPlay: a TLA+ model of the player

FastPlay is a Windows video player in Rust. One UI thread runs the session
coordinator (`app/session.rs`), ticked by the event loop of `main.rs`; two
decode workers, one for video and one for audio, feed it through bounded
channels and are commanded through one-slot mailboxes. The same thread owns the
window, the presenter with its swap chain, the overlays, the timeline, the play
queue and the history of recent files. Nearly everything that can go wrong lies
between these parts: work that was superseded but is still in flight, devices
and endpoints that disappear, messages handled inside other messages, a clock
that changes hands, and state that is spread over several owners who must agree.

`tla/` holds TLA+ modules of these parts, TLC configurations that check them on
small instances, and proofs that TLAPS checks, in eight modules that between them
speak of all ten modules of the code.

## Inventory

| Part | State | Operations | Interacts by | What makes it correct |
|---|---|---|---|---|
| `PlaybackSession` (`app/session.rs`) | state, generations, active operation, queues, clocks, pending seek, pause flag, clip range | `open_at`, `seek`, `scrub_seek`, `apply_command`, `tick`, the recoveries | calls handles and presenter; drains both channels | asks of the user are kept; nothing stale is believed; playback ends |
| `DecodeControl` (`playback/decode_control.rs`) | sequence, shutdown flag, pending command, condition variable | `send_seek`, `send_shutdown`, `wait_next`, polls | mutex, atomics | newest command wins; no lost wake-up |
| `DecodeThreadHandle` (`app/decode_thread.rs`) | control, preference, worker count, retirement, join handle | `prepare_spawn`, `seek_delivery`, `teardown` | shared `Arc`s with the worker | superseded workers leave; device outlives its users |
| Video worker (`spawn_decode_thread`, `ffi/ffmpeg.rs`) | operation it serves, what it holds to send | open, seek, run, park, retire, exit | mailbox, event channel, D3D11 context | every request is answered |
| Audio worker (`spawn_audio_thread`) | the same | the same, without a device | mailbox, own channel | the same |
| Video queue, registry, presenter selection | frames, surfaces with epochs, selected surface, counters | insert, evict, present, release, clear, rebuild | handles | no leak, no dangling handle, order |
| Audio controller, sink, clocks | anchor, submitted, buffered, started; video clock | submit, pause, reset, hand over | WASAPI | one master clock that never collapses; silence when paused |
| Clip range (`app/clip_range.rs`) | in, out, loop, replay | setters | called by the session | loops and stops at the right frame |
| Event loop, play queue, recent files (`main.rs`, `app/play_queue.rs`, `app/recent.rs`) | cursor, current path, bookmarks, overlay selection, file on disk | input dispatch, navigation, auto-advance, save | calls the session, takes its ended signal | queue, session and history mean the same file; bookmarks are of their file |
| Window (`ffi/dxgi.rs`, `platform/input.rs`) | rectangle, style, modes, menu, modal flags, resize request | window procedure, mode switches, menu reveal, pump | messages re-enter it; the tick takes the resize | menu and modes agree, the picture keeps its place, no resize is lost, playback survives modal loops |
| Timeline and pointer (`app/timeline_ui.rs`, window procedure) | button and gesture flags, capture; drag, origin, preview | messages, `update`, `cancel_scrub` | reads the window, calls `scrub_seek` | a drag leaves the player as it was, elsewhere; no gesture without its button |
| Presenter, swap chains, paths (`render/presenter.rs`, `render/hdr.rs`, `render/swapchain.rs`) | device, chain and its kind, path, overlays, selected picture, pending screenshot | `ensure_swapchain_for_path`, `resize`, `rebuild_device`, overlay updates, `render` | session events, DXGI | pictures go through the right chain; nothing of a lost device is drawn; errors are seen |
| Shared D3D11 context (`ffi/d3d11.rs`, `ffi/ffmpeg.rs`) | `context_lock`, mappings, bindings, processor cache, references | draw, copy, upload, capture, decoder open and close | UI thread and decode workers | video calls are alone; whatever is taken is given back |
| HDR metadata (`ffi/ffmpeg.rs`, `render/hdr.rs`) | a worker's record, its report, the chain's metadata | read, convert, report, apply | event channel | no stale, partial or misplaced metadata |
| Endpoint watch (`ffi/wasapi.rs`) | one flag | set by COM, taken by the tick | atomic | a change is not missed |
| Viewport, text and GDI drawing, export, other settings, logging, packaging | - | - | - | no shared state with the rest |

## Modules

| Module | Models | Extends or instances |
|---|---|---|
| `LatestRequest` | abstract: a cell that answers the newest of a growing number of requests | - |
| `DecodeControl` | the mailbox at the grain of its lock | implements `LatestRequest` |
| `DecodeThread` | handle, video workers, channel, and the session's part in opens, seeks and recoveries | implements `LatestRequest` |
| `SurfaceMap` | abstract: a map from fresh handles to surfaces | - |
| `Surfaces` | registry, queue, presenter selection, presentation | implements `SurfaceMap` |
| `Session` | the session as its user sees it: states, clocks, sink, pause, seeks, clip range, recoveries, phases of a tick | - |
| `Shell` | event loop, play queue, recent files and their overlay | - |
| `Window` | the window procedure, modes, menu, modal loops, resize request | - |
| `Pointer` | the hand, the message queue, button and capture, the scrub | - |
| `Screen` | presenter, swap chains, presentation path, overlays, screenshots, lost devices | - |
| `GpuContext` | the shared context, its lock, references and caches | - |
| `HdrMetadata` | metadata from the first frame to the chain | - |
| `DecodeControlProofs`, `DecodeThreadProofs`, `SurfacesProofs`, `SessionProofs`, `ShellProofs`, `WindowProofs`, `GpuContextProofs`, `ScreenProofs` | what is proved of each | the module, `TLAPS` |

The first six cut the playback core along three lines and meet in the session's
operations. `DecodeThread` keeps operations, generations and events and forgets
positions; `Surfaces` keeps handles and frames and forgets workers; `Session`
keeps positions and states and receives from the workers only what the current
operation delivers. That cut is justified by `DecodeThread`, which shows that an
event of a superseded operation changes nothing (`ImplementsLatestRequest`,
`QueueIsCurrent`); the exception it found, the lost no-video verdict, is a choice
in `Session` too (`VideoFollows`).

The other six put the core in its surroundings. `Shell` and `Pointer` drive a
session of which they keep what `main.rs` and `timeline_ui.rs` read; `Screen`
takes up what `Surfaces` leaves out, the chain and everything drawn with the
picture; `GpuContext` takes single calls where `Surfaces` and `Screen` take whole
handlers, to see what the threads do to the one context; `HdrMetadata` follows one
of the events of `DecodeThread` further, to the chain; `Window` produces the
inputs, ticks and resizes that `Shell`, `Pointer` and `Screen` assume.

### DecodeControl

One UI thread and one worker, each with a program counter. `UiLock`, `UiStore`,
`UiBump`, `UiUnlock`, `UiNotify` are the steps of `send_seek`; `UiFlag` that of
`send_shutdown` which comes without the lock. `PollSeq`, `PollShutdown` are the
worker's reads without the lock during a run; `WaitLock`, `TakeShutdown`,
`TakeCommand`, `CvWait`, `SpuriousWake` are `wait_next`. The condition variable is
a set of sleepers; a spurious wake-up may always happen.

### DecodeThread

A worker is named by the operation that spawned it, so that stragglers of earlier
operations run beside the current one. The coordinator's handlers are atomic, since
they run on one thread; the exception is `teardown(true)`, which blocks (`ui =
"joining"`, then `Joined` or `JoinTimesOut`, then `RebuildDevice`). A worker's steps
are those another thread can tell apart: the probe, each send (it may block on the
channel, and gives up when told to leave), taking a command, retiring, dropping the
guard that decrements the count, and, later, dropping the captures with the device
clone in them. `device` is the presenter's device, named by the first operation that
can run on it: a rebuild makes it the next one, so that a worker spawned earlier,
and whatever it reports, is of a device that is gone. A worker that outlives the
bounded wait (the fault `wedge`) goes on decoding there. `Drain` takes one event and
applies the handler, each with its own staleness check. States that only concern the
picture and sound are one value, `live`.

### Surfaces

`reg` is the vector of slots with its epoch and counter, `queue` the decoded
frames, `current` the selected surface. `Receive` is the frame handler (register,
insert in order, evict) behind the gate of the drain; `PresentByAudio` and
`PresentByVideo` are the two branches of `advance_video_playback` with the late
drops and look-ahead; `Seek`, `Open`, `RecoverEndpoint`, `RecoverDevice`, `Fail`,
`StopAtOutPoint` and `DeviceLostForGood` are the paths that clear.

### Session

`s` is a record of the session's fields. Handlers of the code call one another
(stepping pauses and then seeks; a toggle may replay), so each is a function
from session to session and an action applies the whole of it. Variable `pc` is
the phase of `tick_inner`: audio drain, video drain, submit, advance, finish;
user commands come between ticks, faults where the code learns of them. `video`
and `audio` are the next frame the worker of the current operation delivers.
Field names follow the code, shortened: `target` is `pending_seek_target`,
`discard` is `seek_discard_before_pts`, `pauseAfter` is `pause_after_seek`,
`anchor` and `sent` belong to the audio controller, `started` and `buffered` to
the sink, `settling` and `landed` are `pending_seek_settled` and
`seek_frame_presented_since_request`, `signal` is the ended signal. `order` is
no state of the code: it carries what a handler told the workers to the action
that applies it, and is empty between actions.

Abstractions: time and positions are counted in frames, sound in pieces as long
as a frame, the media starts at zero, its duration is known, and the sink can
always be created. Speed is normal or not. `wanted` is a history variable with
what the user last asked for; it is `any` where no document says what a command
should mean (a step while a file opens, Space while a stale pause is pending,
after a lost device).

### Shell

`queue` is `PlayQueue`, `recent` the list of `RecentFiles`, `disk` what
`recent.tsv` holds, `current` the path whose progress is saved, `selected` the
row of the Recent overlay. `pc` tells the pump, in which modal loops tick the
session (`WM_TIMER`), from the rest of a round: inputs are dispatched, the
session ticks, the ended signal is taken and the queue advances. A file has one
of two spellings of its path, which `key_for` folds. `relaunch` ends the program
and starts it on what the disk holds; `lose` is a lost device, and `delete` removes a
file behind the program's back.
`left` and `reached` are history.

### Window

`w` is the window: top, height, style and modes; `saved` is the placement kept by
fullscreen, `loop` the modal loop Windows is in, `flagged` and `timer` what the
window procedure keeps of it, `request` the resize that the tick takes. `pc` tells
the pump from the draining of the input events, and both from a file dialog, which
is a modal loop inside the draining, for which no timer is started (`ShowDialog`,
`CloseDialog`). The first picture of a file arrives in any tick, one from a modal
loop among them. A press of the caption is tracked by the window itself until the
drag threshold (`dxgi.rs:2581-2650`), through the pump as usual; the modal loop of
the system begins after it. A switch
of mode is one action with everything Windows sends in the middle of it
(`SetMenu` and `SetWindowPos` re-enter the procedure with `WM_SIZE`), because
messages are handled inside the call. Heights are counted in units of the
caption; the horizontal is like the vertical without a menu and is left out. Calls
of Windows that fail (`dxgi.rs:1017-1035`) are left out too.

### Pointer

`hand` is the user: button, Ctrl, place. What it does is posted to `queue`, with
the state it had then; `Pump` handles one message as the window procedure does,
`Update` is `TimelineUiState::update`, which reads button and place as they are
now. That difference is the point of the module. `win` has the flags of the
window state and the capture, `ui` the scrub, `session` what the scrub asks of it.
The system's move loop, entered from a caption drag, eats what was posted up to the
release that ends it. A drag of the caption starts where the cursor is when the press
is pumped, not where it was pressed. `user` is history: what was meant, whether the
user was `hasty`, acting before the last act had been served, and whether the window
`missed` the last release, made outside without the capture. Whether the duration is
known is the session's own: it may be reported while the file is still opening, and a
scrub can begin then. A drag that begins while a pause waits in a file still opening
makes the user `hasty`, for what the scrub remembers is not what was meant
(`Forgotten`).

### Screen

`p` is the presenter with the session's part in it and the worker. Every object
made of a device is `live` or `stale`. A round of the loop goes through its phases:
input, timeline, resize, drain, error, advance, subtitle, render, and the two that a
presentation adds. It takes three steps, the check of chain and device (`Render`),
the drawing with the capture (`Draw`) and the present (`Present`), and the device may
be removed before each; a screenshot asked for is taken at the check, and dropped
when any of the three fails. The worker
announces path, mode and duration, then pictures; `PresentationPathSelected`
swaps the chain when its kind changes, and a swap that fails restores or rebuilds.
A removed device shows in the next present, resize or creation. `recover_device`
reopens the file, as does any error of the presentation. Files stand for their
colour tags; `PathFor` is the decision of `render/hdr.rs` over the tags and what
`Capable` says. The display has two bits of its own, HDR switched on and the colour
space offered to the chain: a chain for HDR is made when the second is there, and
`Capable` needs both and the shader views. `Displays` are those it may start with.

### GpuContext

An operation is the sequence of its calls (`RenderVideoSurface`, `Capture`,
`ReceiveFrame`, ...); a call begins and ends, so that two may overlap. The
runtime's own critical section admits one call of the device context; calls of
the video context are only kept apart by `context_lock`. A call that fails ends
the operation, and `Unwound` is what the guards then do. `cache` is the video
processor with the address it was made for; an address may be used again. A hardware
decoder may fail to open before or after the device was handed to it, and either way
the reference is given back, before it was handed over without the lock
(`ffmpeg.rs:1970`). Opening a codec and the flush of a seek make no call of the
context and take no lock.

### HdrMetadata

A worker of each open reads side data off the first frame, reports it once under
the operation of its run, and the session applies it to the chain it has by then.
`Build` is the conversion: primaries all or none, luminances all or none, a light
level of zero is none.

## Runs

| Run | Configuration | Shows |
|---|---|---|
| `decode_control` | `DecodeControl.cfg`, 4 commands, 2 payloads | no lost command or wake-up, newest command taken, every command served, refinement |
| `decode_thread` | `DecodeThread.cfg`, 3 operations, files with and without a picture, failing opens and rebuilds, lost devices, hardware fallback | workers told, queue current, verdicts true, refinement |
| `decode_live` | `DecodeThreadLive.cfg`, 3 operations, devices lost in Present, joins that time out, chains that cannot be built | only workers of the live device serve or are believed, also past a join that times out; told workers leave, requests are answered |
| `surfaces` | `Surfaces.cfg`, queue of 2, 5 handles, 3 operations | no leak, exact counter, living device, queue sound, refinement |
| `playback` | `Session.cfg`, 3 frames of picture, 2 of sound, 4 commands or faults | intent kept, silence, playhead, an end only of what was played through, no picture before the target |
| `playback_ends` | `SessionLive.cfg`, 2 frames, 3 commands or faults | playback ends |
| `shell` | `Shell.cfg`, 3 files (one no medium), history of 2, 3 inputs or faults of twelve kinds | queue, session and current file agree; history distinct, saved, selectable; signal and bookmark of their file |
| `window` | `Window.cfg`, 4 messages of eleven kinds | menu follows the state, a size reaches the chain or is asked for, also in modal loops and at last, picture stays |
| `screen` | `Screen.cfg`, 4 kinds of file, 3 commands or faults | right path, honest screen with removals inside a presentation, a wrong chain is recovered from |
| `gpu_context` | `GpuContext.cfg`, UI thread and 2 workers, 2 back buffers | video calls alone, guards, cache and references, the lock comes back |
| `hdr_metadata` | `HdrMetadata.cfg`, 2 opens, 1 seek, all side data | metadata fits, never of an earlier file |
| `pointer` | `Pointer.cfg`, 5 places, 2 presses, 2 moves, 1 key or Ctrl | gestures served as meant, none left over |

Several invariants are conjunctions whose parts are defined, and commented, one
by one before them: `NothingLost`, `WorkersAreTold`, `VerdictsFit`,
`SurfacesKept`, `QueueSound`, `HistoryKept`, `SizeReaches`, `PictureStays`,
`RightPath`, `ScreenHonest`, `Unwinds`, `DeviceKept`, `MetadataFits`,
`GestureServed`, `NoGestureLeft`. Each module's type invariant is one of these
parts (in `Session` it stands alone).

A property of a rebuild is only as good as what it says of those who were not there
in time. `OnLiveDevice` does not ask that the join succeeded: it says that a worker
left over on a device that is gone is not commanded, serves no operation of the
present device, has no picture in the queue, and that what it still reports is not
current.

`NaturalEndIsComplete` says what was played when the end is announced: the picture on
show is the last one (unless the target lay behind all of them), and sound that was
heard of was submitted to its end and has left the sink. It says nothing of sound that
was not heard of: a session takes a file for silent until its audio worker delivers,
as the code's own comment has it (`session.rs:3125`), and does not wait (`EndAwaitsSound`
below).

### Bounds

Queues and channels have one or two slots. The code never looks at a third element
of a queue; one slot makes every send block, two make order and look-ahead visible.
Three operations are the least at which a worker can be two operations behind, a
straggler can outlive its successor, and a recovery can meet a recovery. The faults
of `DecodeThread` are split over two runs, since all of them at once are beyond a
short run: those that change what is decoded in `decode_thread`, those that block or
race in `decode_live`; `run` failures and a start in software can be added to
`Faults` and `Modes`. Three frames of picture with two of sound have a frame before,
at and after a target, and a picture that goes on after the sound. Four commands or
faults let a seek be paused, interrupted and resumed.

`Shell` needs three files, so that the cursor has a neighbour on both sides, and a
history shorter than that, so that one is evicted. `Window` has four messages: one
to reveal the menu, one to change a mode meanwhile, one to move or resize and one to
lose focus; a menu or a move that is entered and left takes two, and leaves two for
an open with its first picture or for what is asked of the loop meanwhile. `Screen`
allows two commands and a fault, or one and two (`MaxBoth`); the four kinds of file
cover each path, and the others of `FileKinds` fall under the same branches. One
slot holds the worker's events, and the worker fills it again while they are
drained. `Pointer` allows two presses, which a double click takes, and two moves: a
drag and its leaving the strip, or leaving the window and coming back. The hand acts
in the phases `pump` and `update`, since nothing between them and the next reads it;
the limit of 64 messages a pump is not reached. `GpuContext` has two workers, a
current one and a straggler, and needs a second back buffer for the address that is
used again. `HdrMetadata` needs two opens for an earlier file.

`MaxOps`, `MaxHandles`, `MaxCommands` and the other bounds cap counters that grow
for ever; where the model stops when they are used up the configuration switches
the deadlock check off and says so. `Session` and `Screen` never stop, since ticks
go on, and are checked for deadlock.

### Fairness

Weak fairness of the coordinator's drain and of each tick: the event loop calls
`tick` forever. Weak fairness of each worker's own steps: they are threads of
the operating system and every wait of theirs is modelled by a guard. In
`Session` the workers and the clocks are strongly fair, because the tick keeps
coming round and disables them in between: a worker with something to send and
a drain that finds room again and again meet, and time passes between ticks.
In `Screen` the loop, the worker and the acceptance of its events are weakly
fair: the loop runs for ever, and the system gives again what it once refused.
That a frame becomes due is strongly fair, since the clock runs while the phases
of a round come and go. In `Window` the thread of the window is weakly fair, as the
disjunction of what it does by itself (`ModalTick \/ Pumped \/ Drain`): the loop goes
round and Windows delivers the ticks of a running timer; no menu, caption or dialog
need ever be let go. In
`GpuContext` a thread goes on with the operation it is in, and one that waits
for the runtime's critical section gets in at last (strong fairness of `Enter`):
without it one thread could keep the holder of the lock out for ever.
No fairness is assumed of users, faults, spurious wake-ups or presentation where
a player may be paused. `playback_ends` leaves out files without a picture,
which need not end (below).

## Proofs

Eight modules of proofs establish the invariants of theirs for every value of the
constants, from the named assumptions on the constants alone.

*DecodeControl.* The inductive invariant relates the holder of the lock to the
two program counters, says that the stored command is the newest one issued
except between storing and taking, and ties the sequence numbers to both. It is
needed because `NoLostWakeup` alone forgets why a worker that is about to sleep
cannot be in front of a command: it holds the lock, and the shutdown flag is
raised before the lock is asked for. Proved: `NothingLost` and its parts,
`LatestWins`, and that each step is a step of `LatestRequest` or a stutter.

*DecodeThread.* What can go wrong here needs stragglers, so the invariant
(`ThreadInv`) speaks of every worker with its mailbox, not of the current one.
`Fits` says of each that its operation is of the past, that a sequence it has not
yet served has its command, and that one cancelled knows why; `HandleInv` that
every worker alive but the one the handle commands has its shutdown, and that the
count is the number of those alive; `UniqueInv` that no operation is claimed by
two of them; `ChannelInv` that nothing in the channel is of the future, and a
verdict is about its own file. None of these is inductive without the others, and
`VerdictsFit` needs one more: an end of stream is believed the moment it is
accepted, so `EndsInv` says that behind it in the channel, and with every worker
who could still take up that operation, there is no frame of it. The proof has one
lemma for each shape of a worker's step (it goes on, leaves, takes a command,
sends, fades), one for each way the coordinator tells a worker (teardown, respawn,
in place, retired) and one for taking an event; the actions are put together from
those. Proved: `WorkersAreTold`, `QueueIsCurrent`, `VerdictsFit`,
`OnLiveDevice` and the refinement of `LatestRequest`, for any number of operations
and frames, any capacities and any set of `Faults`, of which the runs take a few at a
time. `OnLiveDevice` rests on a second invariant, `DeviceInv`: whoever serves an
operation of the present device, or has the command to, was spawned on it. A rebuild
keeps it because its device is named by an operation that nobody can claim yet
(`ClaimsArePast`), every later claim because only the handle's worker is given new
commands, and that one is of the device.

*Surfaces.* The inductive invariant says that queue and selection hold distinct
handles that resolve, that what lives is exactly what they hold, that the
counter equals the number of filled slots, that stamps of queued frames are
current and so on a living device, and that the queue is ordered and within its
capacity. Counting needs that the slots are finite, order needs that insertion
finds the position from the back, and freshness of handles needs that the epoch
grows whenever the vector restarts; each is a lemma. Proved: `SurfacesKept`,
`QueueSound` and their parts, and that each step is a step of `SurfaceMap` or a
stutter.

*Session.* Of the types only what the argument needs is carried along (`Shaped`).
Before its first sound a session is silent (`NotBegun`), a failed one has an empty
queue and a worker that is gone, and `Follows` says that what was last asked is what
the player does, or what it will do once the pending seek has landed; that second
half is why `IntentKept` is not inductive. Each handler has a lemma of its own,
since actions apply several; the steps follow. A second invariant, which rests on
the first, adds what the workers deliver (`PlaybackInv`). `Sound`: each queued frame
is as many frames before the audio worker's position as there are frames from it to
the end of the queue, at least, and an anchored clock with what was sent and what is
queued does not pass that position; that is what bounds the audio clock, and
`TypeOK` alone is not inductive without it. `Picture`: the queue holds nothing from
before the discard, and a stream marked as ended was delivered. `Timed`: only a
session that is paused, ended or failed holds a position. A handler either leaves
the workers their order, and the invariant holds with their positions as they were,
or clears everything, and it holds wherever they start (`Onward`, `Afresh`). That
some frame is the last one due is where the choice of `Due` needs an argument: a
finite set with a first position cannot hold the successor of each of its own
(`RowEnds`, by counting). `NaturalEndIsComplete` needs a third, `Whole`: a session
that is neither over nor failed still has all that its workers delivered, or has
used it. `PictureWhole`: once the track was delivered its last frame ends the queue,
or is on show; `SoundWhole`: anchor, what was sent and what is queued add up to
where the worker has got, and nothing was discarded behind the anchor. Neither
follows from the guard of the end, which only looks at empty queues and a quiet
sink; a handler that cleared a queue and left the streams marked as ended would
satisfy the guard. Proved: `SilentWhenPaused`, `IntentKept`, `TypeOK`,
`PlayheadKept`, `NaturalEndIsComplete` and `ShowsFromTarget`, for media, queues and
buffers of any length.

*Shell.* Queue, session and history are three owners of "the current file", and
each alone could drift. `FileInv` says that once a file is current the session has
it open and the cursor of the queue is at it. `HistoryInv` adds to `HistoryKept`
that rows are well formed: since a path is in one row only, `update_progress` and
`touch` change one bookmark, and the proof of `BookmarkOfCurrent` reads off which.
`SessionInv` says that a latched end is never that of a file still opening, which
`SignalIsOfFile` needs of the session before the step too. The lemmas follow the
helpers (`Removed`, `Touched`, `Progressed`, the ordered queue, the tick, `open_at`);
the actions, which apply several of them in a row, are put together from those.
Proved: `QueueFollowsFile`, `HistoryKept`, `SignalIsOfFile` and
`BookmarkOfCurrent`, for any number of files and inputs.

*Window.* `Sits` says of a window between two steps that its frame is the one of its
mode (`Drawn`), that there is room for the frame, and that the menu bar follows the
modes or the reveal. The room is what `MenuFollowsState` does not say and the rest
needs: the menu bar is taken from the height and given back, and the client stays only
if the smallest height never gets in the way. `FrameInv` adds the swap chain: a
request that stands is for the client as it is, so that whoever takes it takes the
newest. Each way to place or reveal (`Placed`, `Synced`, fullscreen, frameless, fit,
half, the first picture) has a lemma that it leaves a window that sits, and what it
keeps of the client. Proved: `MenuFollowsState`, `SizeReaches` and `PictureStays`, for
screens, work areas and pictures of any size and any number of messages.

*GpuContext.* `LockInv` says that what a thread still has to do is on track: every
call that needs the lock comes after a lock it still has to take, or the thread
holds it and no unlock comes before. It is kept because every operation is a
guarded sequence and guarded sequences can be joined. `RefsInv` counts hardware
decoders as a finite set. For `Unwinds` a thread stands in one of four situations
(out, lock held, mapped, bound) and a call is a step between them; `TidyInv` says
that the calls a thread still has to do are a path from where it stands to `out`.
Paths can be joined too, so that of each operation follows from its calls; an early
end is sound since no call that can fail is made while planes are bound. Proved:
`VideoCallsAlone`, `DeviceKept` and `Unwinds`, for any finite set of workers.

*Screen.* `PlayerInv` relates what the presenter has with what the worker sent. The
chain is of the kind of its path (`ChainFits`); a mode that does not go with the file
is neither on screen nor in the queue nor still in the channel (`PictureFits`), which
`TransferDecides` needs of the channel since it only speaks of the screen; all of them
live (`Lives`). `InOrder` is why a picture finds its path and its duration known: in
front of each frame in the channel both are in the channel too or were heard, and what
a worker has still to send will be behind them, unless it raced. `Sent` says that a
worker that was superseded has nothing in the channel, so that what it sends late is
behind nothing, and how far an opening has got. Each helper of the presenter (swap,
rebuild, recovery, the reset of the surfaces, taking a frame) has a lemma that says
what of the player it keeps; handlers are put together from those. Proved:
`RightPath` and `ScreenHonest`, for channels of any capacity, any display and any
number of commands and faults.

*HdrMetadata*, proved in the second half of `ScreenProofs`, which extends both modules;
definitions they would have in common carry the prefix `Hdr` here. `HdrOrigins` says
that an operation tells its file: the worker's, the event's, the chain's. Proved:
`MetadataFits` and `NeverAnEarlierFile`, for any number of opens and seeks.

*Pointer*, proved in the second half of `WindowProofs`, which extends both modules;
here `Pointer` has the longer names (`PointerSpec`, `pointerVars`). `EndsInv` looks into
the queue: with the hand off the button, what the window owns, or a press still waiting
will make it own, has an end behind it, which for a press is a release or a move without
the button, and for the capture a release. The ends of a queue survive an append, a
tail and the jump of the move loop over what it ate, a lemma each. `ScrubInv` says that
a scrub saw its press. `CalmInv` is about a user who is not hasty: at most one thing
that is more than a move, a release or Backspace is on its way from hand to session
(`OneAtATime`), and with it no gesture and no seek, so that it meets the player at rest;
and the player does what was meant, or will when its seek has landed, or is being
scrubbed and the scrub remembers it (`Meant`). The last is why `IntentKept`, which only
speaks of rest, is not inductive. Proved: `GestureServed` and `NoGestureLeft`, for any
number of presses, moves and keys, and any number of messages waiting. The proof found
what two moves from the middle of the window had not reached: a press on the caption
and a release outside, both before the press is pumped, leave the window with the
capture until the mouse has moved past the drag threshold, since `WM_MOUSEMOVE` looks at
the button only for a press in the client area (`dxgi.rs:2609`). `NoGestureLeft` says so
with `user.missed`, and the run now starts on the caption too.

Only model-checked: liveness (`CommandServed`, `SignalledWorkersLeave`,
`RequestsAnswered`, `EndsEventually`, `LoopsServed`, `PictureReturns`,
`LockComesBack`), which is out of the prover's reach. Every safety invariant and
action property of the runs is proved.

## What the models met in the code

Some statements of comments and documents do not hold of the code as modelled.
They stand as definitions at the end of their modules, after a heading that says
so, and no run checks them; a configuration of the module that names one shows
the story.

| Definition | Says | What happens |
|---|---|---|
| `DecodeThread!ReleasedBeforeRebuild` | a teardown with join has released the device clones of every worker (`decode_thread.rs:9`, `:192`) | only the newest is joined; a straggler has dropped its guard, so the count is zero, and still holds its clone |
| `DecodeThread!AudioOnlyLearned` | a file without a picture is found to be one (`session.rs:1745`) | a seek retires with the handle, or the verdict is stale when it arrives, and nobody says so again |
| `Session!SeekIsInFlight` | in Opening and Seeking something is in flight (`session.rs:777`) | after a seek to the end both workers have nothing to deliver |
| `Session!PlayingShowsClock` | while playing the position is the clock's (`ARCHITECTURE.md:560`) | in a file without a picture the target of a seek stays pending |
| `Session!InspectionLandsPaused` | a scrub outside the clip range remains paused (`timeline_ui.rs:111`) | the out-point ends or loops it before the picture lands |
| `Session!EndAwaitsSound` | the signal says that playback reached its natural end (`session.rs:154`) | a session that has heard no sound yet takes the file for silent, and may end before the audio worker has delivered anything |
| `Shell!AdvanceFollowsEnd` | the queue moves at a natural end (`release-notes-v0.4.0.md:39`) | an end latched in a tick is taken after the inputs drained in between, a seek back among them |
| `Shell!OverlayIsCurrent` | the overlay's rows are those one selects (`README.md:176`) | an open while it is shown reorders the list and not the picture of it |
| `Shell!BookmarkIsPosition` | the position is remembered (`release-notes-v0.3.0.md:26`) | a clock reset, or a seek pending when the file is left, is saved instead |
| `Window!PlacementExact`, `RevealNotBaked`, `RevealEndsWithFocus`, `MenuOnScreen`, `FullscreenFills`, `HelpWhileHeld` | comments of `ffi/dxgi.rs` on placement, reveal, fullscreen and held keys | a reveal, a DPI change or lost focus in between |
| `Window!DialogsServed` | a modal loop keeps playback alive with the timer (`dxgi.rs:2795`) | a file dialog is shown with no timer, and a size asked for waits until it closes |
| `Screen!FirstFrameInRightChain`, `KindChangesBetweenPlaybacks` | chains change only between playbacks (`session.rs:1119`, `presenter.rs:167`) | a respawned worker announces its path again with a picture up, and a swap may fail |
| `Screen!NothingStale` | everything of the old device goes first (`presenter.rs:234`) | help, recent and idle overlays stay |
| `Screen!KeepsRunning`, `IdleRecovers` | devices are recovered (`README.md:99`) | an error before the first file, or in some overlay updates, ends the process or repeats |
| `Screen!PrimingWaitsForPicture` | files with a picture wait for it (`session.rs:1234`) | sound that comes first leaves Opening (`session.rs:1255`) |
| `GpuContext!AllSerialized` | the lock serialises all of the context (`d3d11.rs:96`) | drawings do not take it; only the video context is kept apart |
| `HdrMetadata!OfThisFile`, `ReachesDisplay` | metadata is handed to the display (`release-notes-v0.4.3.md:12`, `README.md:78`) | a report superseded by a seek is not repeated, and a chain built anew is not told |
| `Pointer!EveryClickSeeks`, `HandleAtPosition`, `OneGesture` | a click seeks (`README.md:181`), the handle is at the position, a press is one gesture | a press and release within one pump are not seen; messages and the update read different moments |

Beside these, the hazards in `PROJECT.json` list places where the code is exposed
and no document says otherwise: the worker count and the retirement flag shared with
stragglers; a Space between picture and sound of a seek near the end, after which
the pause never lands and playback never ends (`session.rs:2513`); a Space that
resumes over a pending pause (`ResumesOverPending` in `Session`); an error that
leaves the tick running; audio that runs ahead at another speed; what an open leaves
of a pending seek; a lost device that resumes a paused player; a failing open that
crosses a seek: once the sound has begun a seek goes in place to a worker that is
about to leave, its report is of the operation before, and nobody answers
(`RequestsAnswered` with `open` in `Faults`); a hasty user, whose next press is read
as part of an unfinished preview, so that a paused player resumes (`user.hasty` in
`Pointer`); and a press on the caption that is let go outside before it is pumped,
which keeps the capture (`user.missed`).

## Not modelled

Text and GDI drawing, the viewport's arithmetic, layout, clip export, the format
of settings and history files, logging and packaging, for lack of shared state
with the rest; tone mapping and shaders, which are numeric; demuxing and codecs,
which appear as outcomes; smoothing of the audio clock and real durations, for
which frames stand; a sink that cannot be created; maximised and minimised
windows; volume, view and text commands.

Of what is left the following would be worth modelling next: the audio worker's
own mailbox with its retirement, errors that send no end of stream, and its
pacing at another speed; `smooth_played` as a function, monotonic and bounded;
an abstract player which `Session` implements, and against which `Shell` and
`Pointer` could be composed.
