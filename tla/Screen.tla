--------------------------------- MODULE Screen ---------------------------------
(***************************************************************************)
(* What reaches the screen: the presenter with its device, swap chain and  *)
(* overlays, the presentation path a file is opened with, and the recovery *)
(* from a removed device, a failed resize or a picture of the wrong kind   *)
(* (render/presenter.rs, render/swapchain.rs, render/hdr.rs, ffi/dxgi.rs,  *)
(* ffi/d3d11.rs, app/overlay.rs and the parts of app/session.rs and        *)
(* ffi/ffmpeg.rs that drive them).                                         *)
(*                                                                         *)
(* One iteration of the event loop goes through the steps of pc. A handler *)
(* is a function from the player p to the player, as in Session. Objects   *)
(* made of a device are "live" or "stale", when the device is no longer    *)
(* the presenter's. Events of a superseded operation are dropped by the UI *)
(* without effect, so they leave the channel as the operation changes.     *)
(***************************************************************************)
EXTENDS Integers, Sequences, FiniteSets

CONSTANTS
    Files,        \* what is opened, a subset of FileKinds
    Commands,     \* what the user does, a subset of CommandKinds
    Faults,       \* what the system does to the player, a subset of FaultKinds
    Displays,     \* what the display may offer at the start
    Subtitles,    \* whether the files have a subtitle track
    MaxEvents,    \* capacity of the event channel
    MaxCommands,  \* bound on the commands
    MaxFaults,    \* bound on the faults
    MaxBoth       \* bound on the two together

\* The files by the colour tags of their video stream; "sound" has none.
FileKinds == {"sdr", "wide", "pq", "hlg", "odd", "vague", "clash", "sound"}
Tags(transfer, primaries, matrix) ==
    [transfer |-> transfer, primaries |-> primaries, matrix |-> matrix]
TagsOf(file) ==
    CASE file \in {"sdr", "sound"} -> Tags("bt709", "bt709", "bt709")
      [] file = "wide" -> Tags("bt709", "bt2020", "ncl")
      [] file = "pq" -> Tags("pq", "bt2020", "ncl")
      [] file = "hlg" -> Tags("hlg", "bt2020", "unspecified")
      [] file = "odd" -> Tags("pq", "bt2020", "constant")
      [] file = "vague" -> Tags("unspecified", "bt2020", "ncl")
      [] OTHER -> Tags("pq", "bt709", "bt709")
CommandKinds == {"open", "seek", "help", "recent", "volume", "timeline", "cue",
                 "shot"}

\* "active": the display is in HDR mode; "space": it takes a chain in the HDR10 colour
\* space. The system reports the two separately.
DisplayBits == {"active", "space"}
FaultKinds == {"remove", "refuse", "display", "resize", "fallback"}

ASSUME ScreenConstants ==
    /\ Files \subseteq FileKinds
    /\ Commands \subseteq CommandKinds
    /\ Faults \subseteq FaultKinds
    /\ Displays \subseteq SUBSET DisplayBits
    /\ Subtitles \in BOOLEAN
    /\ MaxEvents \in Nat \ {0}
    /\ MaxCommands \in Nat /\ MaxFaults \in Nat /\ MaxBoth \in Nat

VARIABLES
    pc,        \* where the event loop is
    p,         \* the presenter, the session's part in it and the video worker
    removed,   \* the presenter's device was removed
    refuses,   \* what cannot be created now: "device", "chain"
    display,   \* what the display of the window offers, a subset of DisplayBits
    commands,  \* bound
    faults     \* bound

vars == <<pc, p, removed, refuses, display, commands, faults>>

\* The bound on commands and faults together.
Bounded == commands + faults < MaxBoth

Overlays == {"subtitle", "timeline", "volume", "idle", "help", "recent"}
Kinds == {"sdr", "pq"}
Paths == {"sdr", "pq", "tonemap", "unsupported"}
NoChain == [kind |-> "none", age |-> "live"]
NoPicture == [mode |-> "none", age |-> "live"]

-----------------------------------------------------------------------------
(* The presentation path (render/hdr.rs).                                   *)

\* classify_color_tags: the transfer decides, HDR only with BT.2020 primaries.
Content(tags) ==
    CASE tags.transfer \in {"pq", "hlg"} /\ tags.primaries = "bt2020" -> tags.transfer
      [] tags.transfer \in {"pq", "hlg"} /\ tags.primaries # "bt2020" -> "unknown"
      [] tags.transfer = "unspecified" /\ tags.primaries = "bt2020" -> "unknown"
      [] OTHER -> "sdr"

\* select_video_presentation_path, for what the display was when the worker started.
PathFor(content, hdr) ==
    CASE content = "sdr" -> "sdr"
      [] content \in {"pq", "hlg"} -> IF hdr THEN "pq" ELSE "tonemap"
      [] OTHER -> "unsupported"

\* swapchain_kind_for_path
KindFor(path) == IF path = "pq" THEN "pq" ELSE "sdr"

\* hdr_stream_signal: whether the shader can decode the stream.
HasSignal(tags) ==
    Content(tags) \in {"pq", "hlg"} /\ tags.matrix \in {"ncl", "unspecified"}

\* The mode the worker stamps on its surfaces, as render_video reads it.
ModeFor(path) == CASE path = "sdr" -> "plain" [] path = "pq" -> "pq" [] OTHER -> "tonemapped"

\* render_video: whether a picture of this mode may be drawn into a chain of this kind.
Fits(mode, kind) == (mode = "pq") = (kind = "pq")

-----------------------------------------------------------------------------
(* The presenter (render/presenter.rs).                                     *)

\* renderer_constructor_for_path: whether a path has a chain at all.
Constructs(path) == path # "unsupported"

\* Whether a chain is made for the window: the plain one, and the HDR10 one, whose colour
\* space the display must take. dead is whether the device was removed.
MakesPlain(dead) == ~dead /\ "chain" \notin refuses
MakesHdr10(dead) == MakesPlain(dead) /\ "space" \in display

\* new_for_path
Makes(path, dead) ==
    Constructs(path) /\ IF path = "pq" THEN MakesHdr10(dead) ELSE MakesPlain(dead)

Chain(path) == [kind |-> KindFor(path), age |-> "live"]
SdrChain(dead) == IF Makes("sdr", dead) THEN Chain("sdr") ELSE NoChain

\* reset_surfaces. The help, recent and idle overlays stay.
SurfacesReset(q) ==
    [q EXCEPT !.picture = NoPicture, !.queue = <<>>,
              !.overlay = [n \in Overlays |->
                  IF n \in {"subtitle", "timeline", "volume"} THEN "none" ELSE @[n]]]

\* Mutant of Swapped: the path of the failed chain stays.
SwappedKeepingPath(q, path) ==
    IF q.chain.kind = KindFor(path) THEN [q EXCEPT !.path = path]
    ELSE [q EXCEPT !.path = path,
                   !.chain = IF Makes(path, removed) THEN Chain(path) ELSE SdrChain(removed)]

\* ensure_swapchain_for_path; SwappedOK is whether it returns Ok.
SwappedOK(q, path) == q.chain.kind = KindFor(path) \/ Makes(path, removed)
Swapped(q, path) ==
    IF q.chain.kind = KindFor(path) THEN [q EXCEPT !.path = path]
    ELSE IF Makes(path, removed) THEN [q EXCEPT !.path = path, !.chain = Chain(path)]
    ELSE [q EXCEPT !.path = "sdr", !.chain = SdrChain(removed)]

\* build_swap_chain_for_current_path. It fails when the chain is still missing.
Rebuilt(q, dead) ==
    IF Makes(q.path, dead) THEN [q EXCEPT !.chain = Chain(q.path)]
    ELSE [q EXCEPT !.path = "sdr", !.chain = SdrChain(dead)]

\* rebuild_device, up to the new device: what the old one made goes stale.
OnNewDevice(q) ==
    LET r == SurfacesReset(q) IN
    [r EXCEPT !.chain = NoChain,
              !.overlay = [n \in Overlays |-> IF @[n] = "live" THEN "stale" ELSE @[n]]]

-----------------------------------------------------------------------------
(* The session's part in it.                                                *)

NoWorker == [phase |-> "none", sent |-> 0, late |-> FALSE, hdr |-> FALSE, soft |-> FALSE]

\* supports_plane_shader_views: a texture is made to probe the shader's views with.
ShaderViews(dead) == ~dead

\* query_hdr_capabilities: without a chain no display is known. HDR needs all three bits.
Capable(q, dead) == q.chain # NoChain /\ display = DisplayBits /\ ShaderViews(dead)

\* spawn_decode_thread, with those capabilities.
Spawned(q, dead) ==
    [q EXCEPT !.worker = [NoWorker EXCEPT !.phase = "opening", !.soft = q.soft,
                              !.hdr = Capable(q, dead)],
              !.told = "none", !.raced = FALSE]

\* Mutant of Prepared: the cue is still believed to be on screen.
PreparedKeepingCue(q, wipe) ==
    LET r == IF wipe THEN SurfacesReset(q) ELSE q IN
    [r EXCEPT !.queue = <<>>, !.events = <<>>, !.overlay.subtitle = "none"]

\* prepare_runtime_for_operation_inner
Prepared(q, wipe) ==
    LET r == IF wipe THEN SurfacesReset(q) ELSE q IN
    [r EXCEPT !.queue = <<>>, !.events = <<>>, !.overlay.subtitle = "none", !.cue = FALSE]

\* begin_operation
Begun(q, state, dead) == Spawned([Prepared(q, TRUE) EXCEPT !.state = state], dead)

\* open_at
Opened(q, file) ==
    Begun([q EXCEPT !.file = file, !.known = FALSE, !.soft = FALSE], "opening", removed)

\* seek and execute_seek. The worker seeks in place unless it is gone or was started
\* with another decode preference.
Sought(q) ==
    LET r == [Prepared(q, FALSE) EXCEPT !.state = "seeking"] IN
    IF q.state \in {"idle", "opening", "error"} THEN q
    ELSE IF q.worker.phase = "retired" THEN r
    ELSE IF q.worker.phase = "none" \/ q.worker.soft # q.soft THEN Spawned(r, removed)
    ELSE [r EXCEPT !.worker.late = TRUE, !.raced = @ \/ q.told = "none" \/ ~q.known]

\* fail_open and fail_playback
Failed(q) ==
    [SurfacesReset(q) EXCEPT !.state = "error", !.worker = NoWorker, !.events = <<>>]

\* D3D11Device::create
DeviceMade == "device" \notin refuses

\* Mutant of Recovered: a failed presentation is let pass.
RecoveredNot(q) == q

\* recover_device. It does nothing before the first file; Replaced is whether the
\* presenter has a new device after it.
Replaced(q) == q.file # "none" /\ DeviceMade
Recovered(q) ==
    LET b == Rebuilt(OnNewDevice(q), FALSE) IN
    IF q.file = "none" THEN q
    ELSE IF ~DeviceMade THEN Failed([q EXCEPT !.chain = NoChain])
    ELSE IF b.chain = NoChain THEN Failed(b)
    ELSE Begun(b, "seeking", FALSE)

\* The device a recovery leaves, and one step of the loop that recovers.
Recovers ==
    /\ p' = Recovered(p)
    /\ removed' = (removed /\ ~Replaced(p))

\* A step of the loop that returns an error ends the process.
Ends == pc' = "over" /\ UNCHANGED <<p, removed>>

Init ==
    /\ pc = "input"
    /\ p = [state |-> "idle", file |-> "none", path |-> "sdr", chain |-> Chain("sdr"),
            picture |-> NoPicture, queue |-> <<>>, shown |-> FALSE, present |-> TRUE,
            overlay |-> [n \in Overlays |-> IF n = "idle" THEN "live" ELSE "none"],
            cue |-> FALSE, drawn |-> FALSE, known |-> FALSE, told |-> "none",
            soft |-> FALSE, worker |-> NoWorker, events |-> <<>>, raced |-> FALSE, shot |-> "none"]
    /\ removed = FALSE /\ refuses = {} /\ display \in Displays
    /\ commands = 0 /\ faults = 0

-----------------------------------------------------------------------------
(* One iteration of the event loop.                                         *)

Command(kind) ==
    /\ pc = "input" /\ kind \in Commands /\ commands < MaxCommands /\ Bounded
    /\ commands' = commands + 1

NoCommand == pc = "input" /\ pc' = "timeline" /\ UNCHANGED <<p, removed, commands>>

Open(file) ==
    Command("open") /\ p' = Opened(p, file) /\ UNCHANGED <<pc, removed>>

Seek == Command("seek") /\ p' = Sought(p) /\ UNCHANGED <<pc, removed>>

WithOverlay(q, name) == [q EXCEPT !.overlay[name] = "live", !.present = TRUE]

\* Whether an overlay is made: a texture, its view and its vertices of the device, which
\* a removed device refuses.
HelpMade == ~removed
RecentMade == ~removed
SubtitleMade == ~removed
IdleMade == ~removed

\* For the timeline and the message the texture of the last one is updated if it has the
\* size of the new one, whatever the device; sameSize is whether it has.
TimelineMade(q, sameSize) == ~removed \/ (sameSize /\ q.overlay.timeline = "live")
VolumeMade(q, sameSize) == ~removed \/ (sameSize /\ q.overlay.volume = "live")

Screenshot ==
    /\ Command("shot") /\ p' = [p EXCEPT !.shot = "pending", !.present = TRUE]
    /\ UNCHANGED <<pc, removed>>

\* ShowHelp: the overlay is made once and kept until the key is released.
ShowHelp ==
    /\ Command("help") /\ p.chain # NoChain
    /\ IF ~HelpMade /\ p.overlay.help = "none" THEN Ends
       ELSE /\ p' = IF p.overlay.help = "none" THEN WithOverlay(p, "help")
                    ELSE [p EXCEPT !.present = TRUE]
            /\ UNCHANGED <<pc, removed>>

\* show_recent_overlay
ShowRecent ==
    /\ Command("recent")
    /\ IF ~RecentMade THEN Ends ELSE p' = WithOverlay(p, "recent") /\ UNCHANGED <<pc, removed>>

\* clear_help_overlay, clear_recent_overlay
Hide(name) ==
    /\ Command(name) /\ name \in {"help", "recent"}
    /\ p' = [p EXCEPT !.overlay[name] = "none", !.present = TRUE]
    /\ UNCHANGED <<pc, removed>>

\* show_status_message and adjust_volume_steps, which swallow a failure.
ShowVolume ==
    /\ Command("volume") /\ p.chain # NoChain
    /\ \E sameSize \in BOOLEAN :
          p' = IF VolumeMade(p, sameSize) THEN WithOverlay(p, "volume")
               ELSE [p EXCEPT !.overlay.volume = "none"]
    /\ UNCHANGED <<pc, removed>>

\* timeline_ui.update, as far as the overlay goes: unchanged, hidden, or of a new
\* model, for which the texture of the last one is reused if it has the same size.
Timeline ==
    /\ pc = "timeline" /\ UNCHANGED commands
    /\ \/ pc' = "top" /\ UNCHANGED <<p, removed>>
       \/ /\ "timeline" \in Commands /\ p.overlay.timeline # "none"
          /\ p' = [p EXCEPT !.overlay.timeline = "none", !.present = TRUE]
          /\ pc' = "top" /\ UNCHANGED removed
       \/ /\ "timeline" \in Commands /\ p.known
          /\ \E sameSize \in BOOLEAN :
                IF ~TimelineMade(p, sameSize) THEN Ends
                ELSE p' = WithOverlay(p, "timeline") /\ pc' = "top" /\ UNCHANGED removed

\* show_error_idle_overlay, once per failure; the overlay may fail to be made.
Top ==
    /\ pc = "top" /\ UNCHANGED <<removed, commands>>
    /\ p' = IF p.state = "error" /\ p.shown
            THEN [p EXCEPT !.overlay.idle = IF IdleMade THEN "live" ELSE "none",
                           !.shown = FALSE, !.present = TRUE]
            ELSE p
    /\ pc' = IF p.state = "error" THEN "error" ELSE "drain"

\* handle_event for what the video worker sends.
Handled(q, e) ==
    LET r == [q EXCEPT !.events = Tail(@)] IN
    CASE e.kind = "path" ->
            IF SwappedOK(r, e.value)
            THEN [Swapped(r, e.value) EXCEPT !.told = e.value, !.present = TRUE]
            ELSE Failed(Swapped(r, e.value))
      [] e.kind = "mode" -> [r EXCEPT !.soft = @ \/ e.value]
      [] e.kind = "duration" -> [r EXCEPT !.known = TRUE]
      [] e.kind = "frame" ->
            [r EXCEPT !.queue = <<[mode |-> e.value, age |-> "live"]>>,
                      !.state = IF @ \in {"opening", "seeking"} THEN "playing" ELSE @]
      [] e.kind = "fail" -> Failed(r)
      [] OTHER -> r

\* The drain of the video channel, which stops at a full queue.
DrainVideo ==
    /\ pc = "drain" /\ UNCHANGED <<pc, commands>>
    /\ p.events # <<>> /\ p.queue = <<>>
    /\ IF Head(p.events).kind = "lost" THEN Recovers
       ELSE p' = Handled(p, Head(p.events)) /\ UNCHANGED removed

\* AudioFrameReady ends the opening and the seeking too, whichever worker is first.
DrainAudio ==
    /\ pc = "drain" /\ UNCHANGED <<pc, removed, commands>>
    /\ p.state \in {"opening", "seeking"}
    /\ p' = [p EXCEPT !.state = "playing"]

DrainEnds ==
    /\ pc = "drain" /\ pc' = "advance" /\ UNCHANGED <<p, removed, commands>>
    /\ p.events = <<>> \/ p.queue # <<>>

\* Whether the chain can be resized, when the driver does not refuse it.
Resizes == p.chain # NoChain /\ ~removed

\* handle_resize: a resize that fails rebuilds the chain.
Resize ==
    /\ pc \in {"advance", "error"} /\ "resize" \in Faults /\ faults < MaxFaults /\ Bounded
    /\ faults' = faults + 1 /\ UNCHANGED <<pc, removed, refuses, display, commands>>
    /\ \/ /\ Resizes
          /\ p' = [p EXCEPT !.present = TRUE,
                            !.overlay.idle = IF p.shown THEN @ ELSE "live"]
       \/ LET r == Rebuilt([p EXCEPT !.chain = NoChain], removed) IN
          p' = [r EXCEPT !.present = @ \/ r.chain # NoChain]

\* advance_video_playback: the next frame is not due yet, or it is shown.
NotDue == pc = "advance" /\ pc' = "subtitle" /\ UNCHANGED <<p, removed, commands>>
Due ==
    /\ pc = "advance" /\ p.queue # <<>> /\ pc' = "subtitle" /\ UNCHANGED <<removed, commands>>
    /\ p' = [p EXCEPT !.picture = Head(p.queue), !.queue = <<>>,
                     !.present = TRUE, !.drawn = FALSE]

\* update_subtitle_overlay, which needs the size of the viewport: the cue on screen is
\* still the one of the position, there is none any more, or another one is drawn.
Subtitle ==
    /\ pc = "subtitle" /\ UNCHANGED commands
    /\ IF ~Subtitles \/ p.file = "none" THEN pc' = "render" /\ UNCHANGED <<p, removed>>
       ELSE IF p.chain = NoChain THEN Ends
       ELSE \/ pc' = "render" /\ UNCHANGED <<p, removed>>
            \/ /\ p.cue /\ pc' = "render" /\ UNCHANGED removed
               /\ p' = [p EXCEPT !.overlay.subtitle = "none", !.cue = FALSE, !.present = TRUE]
            \/ IF ~SubtitleMade THEN Ends
               ELSE /\ p' = [WithOverlay(p, "subtitle") EXCEPT !.cue = TRUE]
                    /\ pc' = "render" /\ UNCHANGED removed

(* The presentation at the end of tick_inner (Presenter::render and           *)
(* render_with_capture). The device may be removed before, between and after *)
(* its steps.                                                                *)

\* Whether there is a chain of a device that lives: the check before anything is touched.
Presentable == p.chain # NoChain /\ ~removed

\* What the presenter remembers of a picture it is about to show.
Remembered(q) ==
    IF q.picture # NoPicture /\ q.chain # NoChain
    THEN [q EXCEPT !.shown = TRUE, !.overlay.idle = "none"] ELSE q

\* The request for a screenshot is taken; a presentation that fails drops it.
Taken(q) == [q EXCEPT !.shot = IF @ = "pending" THEN "taken" ELSE @]
Dropped(q) == [q EXCEPT !.shot = "none"]

\* A presentation that does not succeed: the device is recovered, whatever the reason.
PresentFails(q) ==
    /\ pc' = "input" /\ p' = Recovered(Dropped(q))
    /\ removed' = (removed /\ ~Replaced(q))

\* Nothing to present, or the check that begins the presentation.
Render ==
    /\ pc \in {"render", "error"} /\ UNCHANGED commands
    /\ IF ~p.present /\ p.shot # "pending" THEN pc' = "input" /\ UNCHANGED <<p, removed>>
       ELSE IF ~Presentable THEN PresentFails(Remembered(p))
       ELSE pc' = "draw" /\ p' = Taken(Remembered(p)) /\ UNCHANGED removed

\* The picture under the overlays, or the clear colour, then the capture. A picture of the
\* wrong kind is an error; on a device removed since the check the drawing may fail, and a
\* capture must.
Draws == p.picture # NoPicture => Fits(p.picture.mode, p.chain.kind)
Draw ==
    /\ pc = "draw" /\ UNCHANGED commands
    /\ \/ Draws /\ ~(removed /\ p.shot = "taken") /\ pc' = "present" /\ UNCHANGED <<p, removed>>
       \/ (~Draws \/ removed) /\ PresentFails(p)

\* Present reports a device that was lost; what was captured is saved only when it does not.
Present ==
    /\ pc = "present" /\ UNCHANGED commands
    /\ IF removed THEN PresentFails(p)
       ELSE /\ p' = [Dropped(p) EXCEPT !.present = FALSE, !.drawn = (p.picture # NoPicture)]
            /\ pc' = "input" /\ UNCHANGED removed

Loop ==
    \/ /\ UNCHANGED <<refuses, display, faults>>
       /\ \/ NoCommand \/ Seek \/ Screenshot \/ ShowHelp \/ ShowRecent \/ ShowVolume
          \/ \E file \in Files : Open(file)
          \/ \E name \in {"help", "recent"} : Hide(name)
          \/ Timeline \/ Top \/ DrainVideo \/ DrainAudio \/ DrainEnds
          \/ NotDue \/ Due \/ Subtitle \/ Render \/ Draw \/ Present
    \/ Resize

-----------------------------------------------------------------------------
(* The video worker and its channel.                                        *)

Event(kind, value) == [kind |-> kind, value |-> value]

\* What DecodeSession::open announces, in its order, and how it ends.
Announced(file, hdr) ==
    LET path == PathFor(Content(TagsOf(file)), hdr)
        decodes == path = "sdr" \/ (path # "unsupported" /\ HasSignal(TagsOf(file)))
    IN
    IF file = "sound" THEN <<Event("duration", TRUE), Event("path", "sdr"), Event("sound", TRUE)>>
    ELSE IF ~decodes THEN <<Event("path", path), Event("fail", TRUE)>>
    ELSE <<Event("path", path), Event("mode", FALSE), Event("duration", TRUE)>>

\* send_to_ui: an event of a superseded operation is dropped by the UI.
Sends(e) ==
    IF p.worker.late THEN p.events
    ELSE Append(p.events, e)

\* The event channel is bounded.
Room == Len(p.events) < MaxEvents

WorkerStep == UNCHANGED <<pc, removed, refuses, display, commands>>

\* The open goes on; it fails on a device that was removed.
OpenGoesOn ==
    LET w == p.worker
        all == Announced(p.file, w.hdr)
        e == all[w.sent + 1]
        after == CASE w.sent + 1 < Len(all) -> "opening"
                   [] e.kind = "fail" -> "none"
                   [] e.kind = "sound" -> "retired"
                   [] OTHER -> "running"
    IN
    /\ w.phase = "opening" /\ Room /\ WorkerStep /\ UNCHANGED faults
    /\ \/ p' = [p EXCEPT !.events = Sends(e), !.worker.phase = after, !.worker.sent = @ + 1]
       \/ /\ removed
          /\ p' = [p EXCEPT !.events = Sends(Event("lost", TRUE)), !.worker.phase = "none"]

\* A seek that arrives before the file is open reopens it at the target.
OpenRestarts ==
    /\ p.worker.phase = "opening" /\ p.worker.late /\ WorkerStep /\ UNCHANGED faults
    /\ p' = [p EXCEPT !.worker.late = FALSE, !.worker.sent = 0, !.raced = FALSE]

\* The worker takes the seek it was sent.
TakeSeek ==
    /\ p.worker.phase \in {"running", "parked"} /\ p.worker.late
    /\ WorkerStep /\ UNCHANGED faults
    /\ p' = [p EXCEPT !.worker.late = FALSE, !.worker.phase = "running"]

\* A frame, stamped for the path the worker chose at its open; or the device is gone.
Decode ==
    /\ p.worker.phase = "running" /\ ~p.worker.late /\ Room
    /\ WorkerStep /\ UNCHANGED faults
    /\ IF removed
       THEN p' = [p EXCEPT !.events = Sends(Event("lost", TRUE)), !.worker.phase = "parked"]
       ELSE p' = [p EXCEPT !.events =
                Sends(Event("frame", ModeFor(PathFor(Content(TagsOf(p.file)), p.worker.hdr))))]

\* The hardware decoder gives up in the middle of the stream.
FallBack ==
    /\ "fallback" \in Faults /\ faults < MaxFaults /\ Bounded /\ faults' = faults + 1
    /\ p.worker.phase = "running" /\ ~p.worker.late /\ ~p.worker.soft /\ Room /\ WorkerStep
    /\ p' = [p EXCEPT !.events = Sends(Event("mode", TRUE))]

Worker == OpenGoesOn \/ OpenRestarts \/ TakeSeek \/ Decode

-----------------------------------------------------------------------------
(* The system around the player.                                            *)

Fault(kind) ==
    /\ kind \in Faults /\ faults < MaxFaults /\ Bounded /\ faults' = faults + 1
    /\ UNCHANGED <<pc, p, commands>>

Remove == Fault("remove") /\ removed' = TRUE /\ UNCHANGED <<refuses, display>>

Refuse ==
    /\ Fault("refuse") /\ UNCHANGED <<removed, display>>
    /\ \E what \in {"device", "chain"} : refuses' = refuses \cup {what}

\* The driver is back.
Accept ==
    /\ refuses # {} /\ refuses' = {}
    /\ UNCHANGED <<pc, p, removed, display, commands, faults>>

\* The display is switched to HDR or back, or the window moves to another one.
SwitchDisplay ==
    /\ Fault("display") /\ UNCHANGED <<removed, refuses>>
    /\ display' \in SUBSET DisplayBits /\ display' # display

\* The process has ended.
Over == pc = "over" /\ UNCHANGED vars

Next ==
    \/ Loop \/ Worker \/ FallBack
    \/ Remove \/ Refuse \/ Accept \/ SwitchDisplay
    \/ Over

Outside == UNCHANGED <<refuses, display, faults>>

\* The event loop and the worker are threads of their own; a frame becomes due as the
\* clock runs; what the system refuses for lack of a resource it gives again.
Fairness ==
    /\ WF_vars(Loop) /\ SF_vars(Due /\ Outside)
    /\ WF_vars(Worker) /\ WF_vars(Accept)

Spec == Init /\ [][Next]_vars
LiveSpec == Spec /\ Fairness

-----------------------------------------------------------------------------
(* Properties.                                                              *)

Ages == {"live", "stale"}
Modes == {"plain", "tonemapped", "pq"}

TypeOK ==
    /\ pc \in {"input", "timeline", "top", "drain", "error", "advance", "subtitle",
               "render", "draw", "present", "over"}
    /\ p.state \in {"idle", "opening", "seeking", "playing", "error"}
    /\ p.file \in Files \cup {"none"}
    /\ p.path \in Paths /\ p.told \in Paths \cup {"none"}
    /\ p.chain = NoChain \/ p.chain \in [kind : Kinds, age : Ages]
    /\ p.picture = NoPicture \/ p.picture \in [mode : Modes, age : Ages]
    /\ p.queue \in Seq([mode : Modes, age : Ages]) /\ Len(p.queue) <= 1
    /\ p.overlay \in [Overlays -> Ages \cup {"none"}]
    /\ {p.shown, p.present, p.cue, p.drawn, p.known, p.soft, p.raced} \subseteq BOOLEAN
    /\ p.worker \in [phase : {"none", "opening", "running", "parked", "retired"}, sent : 0 .. 3,
                     late : BOOLEAN, hdr : BOOLEAN, soft : BOOLEAN]
    /\ Len(p.events) <= MaxEvents
    /\ p.shot \in {"none", "pending", "taken"}
    /\ removed \in BOOLEAN /\ refuses \subseteq {"device", "chain"} /\ display \subseteq DisplayBits
    /\ commands \in 0 .. MaxCommands /\ faults \in 0 .. MaxFaults

\* A chain is of the kind of the path the presenter would rebuild, through every swap,
\* fallback and restoration: presenter.rs:177-218 and 241-268.
ChainOfPath == p.chain = NoChain \/ p.chain.kind = KindFor(p.path)

\* Nothing that is drawn with the picture outlives its device: not the chain, the picture,
\* the frames behind it, the cue, the timeline or the message (presenter.rs:229-239, 467).
OnLiveDevice ==
    /\ p.chain.age = "live" /\ p.picture.age = "live"
    /\ \A i \in DOMAIN p.queue : p.queue[i].age = "live"
    /\ \A n \in {"subtitle", "timeline", "volume"} : p.overlay[n] # "stale"

\* A stream tagged PQ or HLG is never shown through the plain SDR path, and an SDR stream
\* through no other, whatever its primaries (hdr.rs:311, 376).
TransferDecides ==
    p.picture # NoPicture =>
        (p.picture.mode = "plain" <=> TagsOf(p.file).transfer \in {"bt709"})

\* A picture of this opening of the file comes after the path and the duration that go
\* with it, unless a seek superseded them on the way (ffmpeg.rs:375-380).
PathBeforePicture ==
    p.queue # <<>> /\ ~p.raced => p.told # "none" /\ p.known

\* Every picture goes its own way: announced before it, decided by its transfer function,
\* through a chain of the kind that goes with it.
RightPath ==
    /\ TypeOK
    /\ ChainOfPath
    /\ TransferDecides
    /\ PathBeforePicture

\* While the file plays, a cue that is believed to be on screen is there: the cue is only
\* drawn again when its index changes (overlay.rs:126).
CueShown ==
    pc \in {"render", "draw", "present"} /\ p.state # "error" /\ p.cue => p.overlay.subtitle = "live"

\* After an error no picture covers the idle message (session.rs:2863-2882).
ErrorIsVisible == p.state = "error" => p.picture = NoPicture /\ p.queue = <<>>

\* What the session believes to be on screen is there, made of the device that lives, and
\* nothing covers an error.
ScreenHonest ==
    /\ OnLiveDevice
    /\ CueShown
    /\ ErrorIsVisible

\* A picture selected on a chain of the wrong kind is not the end: the recovery reopens
\* the file, the path is decided again and a picture is shown, or the file fails.
PictureReturns ==
    (pc = "render" /\ p.picture # NoPicture /\ ~Fits(p.picture.mode, p.chain.kind))
        ~> (p.drawn \/ p.state = "error" \/ pc = "over")

-----------------------------------------------------------------------------
(* What comments and documents say, and the code does not do.               *)

\* "so the first frame always lands in the right chain" (session.rs:1119-1120).
FirstFrameInRightChain ==
    pc = "render" /\ p.picture # NoPicture /\ p.chain # NoChain =>
        Fits(p.picture.mode, p.chain.kind)

\* "recreating it between playbacks at file-open (never mid-playback)"
\* (presenter.rs:167-168): the chain's kind changes only with no picture up.
KindChangesBetweenPlaybacks ==
    [][p.chain # NoChain /\ p'.chain # NoChain /\ p.chain.kind # p'.chain.kind
        => p.picture = NoPicture \/ p'.picture = NoPicture]_vars

\* "Release everything tied to the old device before creating a new one"
\* (presenter.rs:234).
NothingStale == \A n \in Overlays : p.overlay[n] # "stale"

\* "device-loss and resize recovery" (README.md:99): neither ends the process.
KeepsRunning == pc # "over"

\* The same, before the first file is opened.
IdleRecovers == (removed /\ p.present) ~> (~removed \/ pc = "over")

\* "A/V files leave this to the first video frame above so priming still waits on the
\* picture" (session.rs:1234-1235).
PrimingWaitsForPicture ==
    [][p.state = "opening" /\ p'.state = "playing" /\ p.file # "sound"
        => p'.queue # <<>>]_vars
=============================================================================
