-------------------------------- MODULE Pointer --------------------------------
(***************************************************************************)
(* The mouse on the timeline: from the hand, through the window procedure  *)
(* (ffi/dxgi.rs), to the scrub of app/timeline_ui.rs and the seeks it asks *)
(* of the session. A pass of the event loop (main.rs) pumps the messages,  *)
(* handles the input they left, updates the timeline and ticks the         *)
(* session; the timeline reads button, cursor and Ctrl as they are at the  *)
(* update, the window procedure as they were when the message was posted.  *)
(***************************************************************************)
EXTENDS Integers, Sequences

CONSTANTS
    Targets,     \* the places the mouse goes to
    Keys,        \* the keys used: a subset of "space", "back", "open", "full"
    MaxPresses,  \* bound: presses of the left button
    MaxMoves,    \* bound: moves of the mouse
    MaxKeys,     \* bound: keys, and changes of Ctrl
    MaxQueue     \* bound: messages not yet pumped

ASSUME PointerConstants ==
    /\ Targets \subseteq {"video", "spot1", "spot2", "caption", "away"} /\ Targets # {}
    /\ Keys \subseteq {"space", "back", "open", "full"}
    /\ MaxPresses \in Nat /\ MaxMoves \in Nat /\ MaxKeys \in Nat /\ MaxQueue \in Nat

VARIABLES
    hand,     \* the user: button, Ctrl, cursor, where a second click would be a double click
    queue,    \* messages of the window
    inputs,   \* InputEvents the window procedure left
    phase,    \* of the event loop
    win,      \* button and gesture flags of the window's state, capture, presentation
    ui,       \* TimelineUiState
    session,  \* state, pause_after_seek, pending target or position, and whether the
              \* media_duration is known
    user      \* history: what the user means, paused or not; a click not yet served; the
              \* home of a cancelled drag; whether the user acted before the last act was served;
              \* whether the window was not told of the last release

pointerVars == <<hand, queue, inputs, phase, win, ui, session, user>>

\* The strip has two spots; an active clip range leaves the second one out.
Strip == {"spot1", "spot2"}
ClientPlaces == {"video"} \cup Strip
Places == ClientPlaces \cup {"caption", "away"}
\* The file's positions; "here" is where it starts, and its clip range too.
Positions == {"here"} \cup Strip
Nowhere == "none"
InRange(position) == position # "spot2"

PointerInit ==
    /\ \E place \in Targets :
           hand = [button |-> FALSE, ctrl |-> FALSE, at |-> place, prior |-> Nowhere,
                   presses |-> 0, moves |-> 0, keys |-> 0]
    /\ queue = <<>> /\ inputs = <<>> /\ phase = "pump"
    /\ \E frameless \in {FALSE, hand.at # "caption"} :
           win = [owned |-> FALSE, pan |-> FALSE, caption |-> FALSE, from |-> Nowhere,
                  captured |-> FALSE, borderless |-> FALSE, frameless |-> frameless]
    /\ ui = [was |-> FALSE, scrubbing |-> FALSE, wasPaused |-> FALSE, origin |-> Nowhere,
             preview |-> Nowhere]
    /\ \E paused \in BOOLEAN :
           /\ session = [state |-> IF paused THEN "paused" ELSE "playing", after |-> FALSE,
                         position |-> "here", known |-> TRUE]
           /\ user = [paused |-> paused, owed |-> Nowhere, home |-> Nowhere, hasty |-> FALSE,
                   missed |-> FALSE]

-----------------------------------------------------------------------------
(* The hand. Windows posts to this window what happens over it, and all of  *)
(* it while the window holds the capture. Between a pump and the update it  *)
(* may act as well; what it does in the other phases shows no earlier.      *)

Posted(kind) ==
    queue' = Append(queue, [kind |-> kind, at |-> hand'.at, ctrl |-> hand'.ctrl,
                            button |-> hand'.button])
Reaches == hand'.at # "away" \/ win.captured
Room == phase \in {"pump", "update"} /\ Len(queue) < MaxQueue
Idle == queue = <<>> /\ inputs = <<>> /\ ~win.owned /\ ~ui.scrubbing /\ ~ui.was
Served == Idle /\ ~hand.button /\ session.state # "seeking"

\* A press; the second one at a place may come as a double click, the third does not.
Press ==
    /\ ~hand.button /\ hand.presses < MaxPresses /\ hand.at # "away" /\ Room
    /\ \E double \in {FALSE, hand.prior = hand.at} :
           /\ hand' = [hand EXCEPT !.button = TRUE, !.presses = @ + 1,
                                   !.prior = IF double THEN Nowhere ELSE hand.at]
           /\ Posted(IF hand.at = "caption" THEN "caption" ELSE IF double THEN "dbl" ELSE "down")
    /\ LET clicks == hand.at \in Strip /\ ~hand.ctrl /\ ~win.borderless /\ session.known
                     /\ session.state # "opening"
       IN  user' = [user EXCEPT !.owed = IF clicks THEN hand.at ELSE @, !.home = Nowhere,
                                !.hasty = @ \/ ~Served]
    /\ UNCHANGED <<inputs, phase, win, ui, session>>

Release ==
    /\ hand.button /\ Room
    /\ hand' = [hand EXCEPT !.button = FALSE]
    /\ IF Reaches THEN Posted("up") ELSE UNCHANGED queue
    /\ user' = [user EXCEPT !.missed = ~Reaches]
    /\ UNCHANGED <<inputs, phase, win, ui, session>>

Move ==
    \E place \in Targets \ {hand.at} :
        /\ Room /\ hand.moves < MaxMoves
        /\ place = "caption" => ~win.frameless /\ ~win.borderless
        /\ hand' = [hand EXCEPT !.at = place, !.prior = Nowhere, !.moves = @ + 1]
        /\ IF Reaches THEN Posted("move") ELSE UNCHANGED queue
        /\ UNCHANGED <<inputs, phase, win, ui, session, user>>

Ctrl ==
    /\ hand.keys < MaxKeys /\ phase \in {"pump", "update"}
    /\ hand' = [hand EXCEPT !.ctrl = ~@, !.keys = @ + 1]
    /\ UNCHANGED <<queue, inputs, phase, win, ui, session, user>>

PressKey ==
    /\ hand.keys < MaxKeys /\ Room
    /\ hand' = [hand EXCEPT !.keys = @ + 1]
    /\ \E key \in Keys :
           /\ Posted(key)
           /\ user' = [user EXCEPT !.hasty = @ \/ (key # "back" /\ ~Served)]
    /\ UNCHANGED <<inputs, phase, win, ui, session>>

\* Another window takes the capture: WM_CAPTURECHANGED, sent and not posted.
Steal ==
    /\ win.captured /\ phase = "pump"
    /\ win' = [win EXCEPT !.owned = FALSE, !.pan = FALSE, !.caption = FALSE, !.captured = FALSE]
    /\ UNCHANGED <<hand, queue, inputs, phase, ui, session, user>>

-----------------------------------------------------------------------------
(* The window procedure. ReleaseCapture sends WM_CAPTURECHANGED, which      *)
(* drops every gesture.                                                     *)

Dropped == [win EXCEPT !.owned = FALSE, !.pan = FALSE, !.caption = FALSE, !.captured = FALSE]

\* WM_LBUTTONDOWN.
Down(m) ==
    LET held == [win EXCEPT !.owned = TRUE, !.captured = TRUE] IN
    IF m.ctrl /\ ~win.caption THEN [held EXCEPT !.pan = TRUE]
    ELSE IF win.frameless /\ ~win.borderless /\ m.at \notin Strip
    THEN [held EXCEPT !.caption = TRUE, !.from = hand.at]
    ELSE held

\* WM_LBUTTONUP.
Up == IF win.caption \/ win.owned THEN Dropped ELSE [win EXCEPT !.pan = FALSE]

\* Mutant of Moved: only a pan notices that the button is up.
MovedHolding(m) ==
    LET still == IF ~m.button THEN [win EXCEPT !.pan = FALSE] ELSE win
    IN IF still.caption /\ hand.at # still.from THEN Dropped ELSE still

\* WM_MOUSEMOVE. A button that was let go elsewhere drops the gestures; far enough from its
\* start a caption drag gives way to the system's own loop.
Moved(m) ==
    LET still == IF win.owned /\ ~m.button THEN Dropped
                 ELSE IF ~m.button THEN [win EXCEPT !.pan = FALSE] ELSE win
    IN IF still.caption /\ hand.at # still.from THEN Dropped ELSE still

\* The system's move loop: what was posted up to the release that ends it is eaten.
Drags(m) == m.kind = "move" /\ Moved(m) = Dropped /\ win.caption /\ m.button

Handle(m) ==
    CASE m.kind = "down" -> Down(m)
      [] m.kind = "up" -> Up
      [] m.kind = "move" -> Moved(m)
      [] m.kind = "dbl" -> IF win.caption THEN Dropped ELSE win
      [] m.kind = "caption" -> [win EXCEPT !.caption = TRUE, !.captured = TRUE, !.from = hand.at]
      [] OTHER -> win

IsMouse(m) == m.kind \in {"down", "up", "move", "dbl", "caption"}

\* The input a message leaves: a double click off the timeline toggles the full screen.
Leaves(m) ==
    IF ~IsMouse(m) THEN <<m.kind>>
    ELSE IF m.kind = "dbl" /\ m.at \notin Strip THEN <<"full">> ELSE <<>>

\* The drag ends at a release already posted, or at the one the hand makes in the loop.
Dragged ==
    LET rest == Tail(queue)
        Ups == {n \in DOMAIN rest : rest[n].kind = "up"}
    IN  \/ /\ \E n \in Ups : (\A k \in Ups : n <= k) /\ queue' = SubSeq(rest, n + 1, Len(rest))
           /\ hand' = hand
        \/ Ups = {} /\ queue' = <<>> /\ hand' = [hand EXCEPT !.button = FALSE]

Pump ==
    /\ phase = "pump" /\ queue # <<>>
    /\ win' = Handle(Head(queue))
    /\ inputs' = inputs \o Leaves(Head(queue))
    /\ IF Drags(Head(queue)) THEN Dragged ELSE hand' = hand /\ queue' = Tail(queue)
    /\ UNCHANGED <<phase, ui, session, user>>

QueuePumped ==
    /\ phase = "pump" /\ queue = <<>>
    /\ phase' = "input"
    /\ UNCHANGED <<hand, queue, inputs, win, ui, session, user>>

-----------------------------------------------------------------------------
(* The session, as far as the timeline sees it.                             *)

\* PlaybackSession::scrub_seek and seek: refused while a file is opening, clamped by the caller.
Sought(s, target, after) ==
    IF s.state = "opening" THEN [s EXCEPT !.after = after]
    ELSE [s EXCEPT !.state = "seeking", !.after = after, !.position = target]

\* clip_range.resume_target.
ResumeFrom(position) == IF InRange(position) THEN position ELSE "here"

\* toggle_pause and toggle_pending_seek_pause.
Toggled(s) ==
    CASE s.state = "opening" -> s
      [] s.state = "playing" -> [s EXCEPT !.state = "paused"]
      [] s.state = "paused" ->
            IF InRange(s.position) THEN [s EXCEPT !.state = "playing"]
            ELSE Sought(s, "here", FALSE)
      [] OTHER ->
            IF s.after THEN Sought(s, ResumeFrom(s.position), FALSE)
            ELSE [s EXCEPT !.after = TRUE]

\* open_at leaves pause_after_seek as it is.
OpenedAnother(s) == [s EXCEPT !.state = "opening", !.position = "here", !.known = FALSE]

-----------------------------------------------------------------------------
(* The input events.                                                        *)

\* Mutant of Cancelled: the preview and the drag go on.
CancelledStill(u) == [u EXCEPT !.origin = Nowhere]

\* What cancel_scrub leaves of the timeline's state.
Cancelled(u) == [u EXCEPT !.scrubbing = FALSE, !.origin = Nowhere, !.preview = Nowhere]

\* A drag in a file that is opening asked for a pause that no picture has served yet, and
\* that neither is_paused nor open_at tells of.
Forgotten == session.state = "opening" /\ session.after

CancelScrub ==
    /\ Head(inputs) = "back" /\ ui.scrubbing
    /\ session' = IF ui.origin = Nowhere THEN session
                  ELSE Sought(session, ui.origin, ui.wasPaused)
    /\ user' = [user EXCEPT !.home = ui.origin]
    /\ ui' = Cancelled(ui)
    /\ UNCHANGED win

Input ==
    /\ phase = "input" /\ inputs # <<>>
    /\ \/ CancelScrub
       \/ Head(inputs) = "back" /\ ~ui.scrubbing /\ UNCHANGED <<win, ui, session, user>>
       \/ /\ Head(inputs) = "space"
          /\ session' = Toggled(session)
          /\ user' = [user EXCEPT !.paused = IF session.state = "opening" THEN @ ELSE ~@,
                                  !.home = Nowhere]
          /\ UNCHANGED <<win, ui>>
       \/ /\ Head(inputs) = "open"
          /\ session' = OpenedAnother(session)
          /\ user' = [user EXCEPT !.paused = FALSE, !.owed = Nowhere, !.home = Nowhere,
                                  !.hasty = @ \/ Forgotten]
          /\ UNCHANGED <<win, ui>>
       \/ /\ Head(inputs) = "full"
          /\ win' = [win EXCEPT !.borderless = ~@]
          /\ user' = [user EXCEPT !.owed = Nowhere]
          /\ UNCHANGED <<ui, session>>
    /\ inputs' = Tail(inputs)
    /\ UNCHANGED <<hand, queue, phase>>

InputsHandled ==
    /\ phase = "input" /\ inputs = <<>>
    /\ phase' = "update"
    /\ UNCHANGED <<hand, queue, inputs, win, ui, session, user>>

-----------------------------------------------------------------------------
(* TimelineUiState::update: one of these, then the button is remembered.    *)

\* scrub_target_from_cursor looks at the column only; over the picture it is the first spot's.
Column == IF hand.at = "spot2" THEN "spot2" ELSE "spot1"
InClient == hand.at \in ClientPlaces
Known == session.known

\* The drag is over.
Over(u) == [u EXCEPT !.scrubbing = FALSE, !.origin = Nowhere, !.preview = Nowhere]

\* The duration is not known: the worker of another file has not reported it yet.
WithoutDuration ==
    /\ ~Known
    /\ ui' = [ui EXCEPT !.scrubbing = FALSE, !.preview = Nowhere, !.was = win.owned]
    /\ UNCHANGED <<session, user>>

InFullScreen ==
    /\ Known /\ win.borderless
    /\ ui' = [Over(ui) EXCEPT !.was = win.owned]
    /\ UNCHANGED <<session, user>>

\* A first press on the strip.
Begins == ~ui.was /\ win.owned /\ ~hand.ctrl

StartScrub ==
    /\ Known /\ ~win.borderless /\ Begins /\ hand.at \in Strip
    /\ ui' = [was |-> TRUE, scrubbing |-> TRUE, wasPaused |-> session.state = "paused",
              origin |-> session.position, preview |-> Column]
    /\ session' = Sought(session, Column, TRUE)
    /\ user' = [user EXCEPT !.owed = Nowhere, !.home = Nowhere, !.hasty = @ \/ Forgotten]

Drag ==
    /\ Known /\ ~win.borderless /\ ~Begins /\ ui.scrubbing /\ win.owned
    /\ LET target == IF InClient THEN Column ELSE ui.preview IN
       /\ ui' = [ui EXCEPT !.preview = target, !.was = TRUE]
       /\ session' = IF target = ui.preview THEN session ELSE Sought(session, target, TRUE)
    /\ UNCHANGED user

\* Playback goes on after the drag when it played before and the target is in the clip range.
Resumes == ~ui.wasPaused /\ ui.preview # Nowhere /\ InRange(ui.preview)

Drop ==
    /\ Known /\ ~win.borderless /\ ~Begins /\ ui.scrubbing /\ ui.was /\ ~win.owned
    /\ session' = IF Resumes THEN Sought(session, ui.preview, FALSE) ELSE session
    /\ user' = [user EXCEPT !.paused = @ \/ ~InRange(ui.preview)]
    /\ ui' = [Over(ui) EXCEPT !.was = FALSE]

NoGesture ==
    /\ Known /\ ~win.borderless
    /\ IF Begins THEN hand.at \notin Strip ELSE ~ui.scrubbing \/ (~win.owned /\ ~ui.was)
    /\ ui' = [ui EXCEPT !.was = win.owned]
    /\ UNCHANGED <<session, user>>

Update ==
    /\ phase = "update"
    /\ WithoutDuration \/ InFullScreen \/ StartScrub \/ Drag \/ Drop \/ NoGesture
    /\ phase' = "tick"
    /\ UNCHANGED <<hand, queue, inputs, win>>

\* The tick: the seek's picture, or the first one of a file, is up or not yet; the
\* duration of a file is reported before the picture or after it.
SessionTick ==
    /\ phase = "tick" /\ phase' = "pump"
    /\ \E known \in {session.known, TRUE} :
          \/ session' = [session EXCEPT !.known = known]
          \/ /\ session.state \in {"seeking", "opening"}
             /\ session' = [session EXCEPT !.state = IF session.after THEN "paused" ELSE "playing",
                                           !.after = FALSE, !.known = known]
    /\ UNCHANGED <<hand, queue, inputs, win, ui, user>>

PointerNext ==
    \/ Press \/ Release \/ Move \/ Ctrl \/ PressKey \/ Steal
    \/ Pump \/ QueuePumped \/ Input \/ InputsHandled \/ Update \/ SessionTick

PointerSpec == PointerInit /\ [][PointerNext]_pointerVars

-----------------------------------------------------------------------------
PointerTypeOK ==
    /\ hand \in [button : BOOLEAN, ctrl : BOOLEAN, at : Places, prior : Places \cup {Nowhere},
                 presses : 0..MaxPresses, moves : 0..MaxMoves, keys : 0..MaxKeys]
    /\ Len(queue) <= MaxQueue
    /\ phase \in {"pump", "input", "update", "tick"}
    /\ win \in [owned : BOOLEAN, pan : BOOLEAN, caption : BOOLEAN, from : Places \cup {Nowhere},
                captured : BOOLEAN, borderless : BOOLEAN, frameless : BOOLEAN]
    /\ ui \in [was : BOOLEAN, scrubbing : BOOLEAN, wasPaused : BOOLEAN,
               origin : Positions \cup {Nowhere}, preview : Positions \cup {Nowhere}]
    /\ session \in [state : {"opening", "playing", "paused", "seeking"}, after : BOOLEAN,
                    position : Positions, known : BOOLEAN]

\* No gesture outlives the button: once the hand has let go and the messages are pumped, the
\* window owns no press and no pan, wherever the button came up; of a press and its release
\* outside, both before the first was pumped, it learns when the mouse returns. A drag of the
\* caption and its capture end too, if the window was told of the release.
LetGo ==
    queue = <<>> /\ ~hand.button /\ hand.at # "away" =>
        ~win.owned /\ ~win.pan /\ (~user.missed => ~win.caption /\ ~win.captured)

\* A drag the timeline knows of has a press behind it: it never scrubs from a hovering mouse.
ScrubsWithButton == phase \in {"tick", "pump"} /\ ui.scrubbing => ui.was /\ Known

\* No gesture goes on without the button that began it.
NoGestureLeft ==
    /\ LetGo
    /\ ScrubsWithButton

\* Everything the user did has been served, and the seeks have landed.
AtRest == Idle /\ phase = "pump" /\ ~hand.button /\ session.state \in {"playing", "paused"}

\* Playing or paused, the player is as the user left it: the previews of a drag pause, and the
\* end of the drag gives back what was before, unless the target is outside the clip range.
\* A user who does not wait for the last act to be served is not always understood.
IntentKept == AtRest /\ ~user.hasty => (session.state = "paused" <=> user.paused)

\* Backspace gives the drag up for good: the mouse still moving with the button down seeks
\* nowhere, and the player comes to rest where the drag began.
CancelHolds == AtRest /\ ~user.hasty /\ user.home # Nowhere => session.position = user.home

\* What the hand meant is what the player does: it plays or is paused as it was left, and a
\* drag that was given up moved nothing.
GestureServed ==
    /\ PointerTypeOK
    /\ IntentKept
    /\ CancelHolds

\* A click on the strip is a seek (README.md:181), however fast.
EveryClickSeeks == AtRest => user.owed = Nowhere

\* The handle is drawn at the drag's origin or at the position: out of a drag, with the
\* playback in its normal course, at the position (ARCHITECTURE.md:555-562).
HandleAtPosition ==
    AtRest => (IF ui.origin # Nowhere THEN ui.origin ELSE session.position) = session.position

\* A press is one gesture: a scrub, a pan or a move of the window.
OneGesture == ~(ui.scrubbing /\ (win.pan \/ win.caption))
=============================================================================
