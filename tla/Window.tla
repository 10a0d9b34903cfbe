---------------------------------- MODULE Window ---------------------------------
(***************************************************************************)
(* The window (ffi/dxgi.rs): framed, frameless and fullscreen, its menu    *)
(* bar that is docked, hidden or revealed by Alt, the modal loops that     *)
(* Windows runs inside a message, and the size that the swap chain is to   *)
(* follow.                                                                 *)
(*                                                                         *)
(* Geometry is vertical: a window has a top and a height, from which the   *)
(* caption and the menu bar take one unit each; the top of the screen is   *)
(* 0. Maximised and minimised windows, and calls of Windows that fail, are *)
(* left out.                                                               *)
(*                                                                         *)
(* One round of the event loop pumps messages, drains the input events     *)
(* they left, and ticks the session. A file dialog is a modal loop of      *)
(* Windows inside the draining, and no timer is started for it.            *)
(***************************************************************************)
EXTENDS Integers, Sequences

CONSTANTS
    Screen,      \* height of the monitor
    Work,        \* height of its work area
    MinClient,   \* MIN_CLIENT_HEIGHT
    Contents,    \* heights of pictures
    Messages,    \* what Windows may send, a subset of MessageKinds
    MaxMessages  \* bound on how often

MessageKinds == {"modes", "open", "fit", "drag", "alt", "f10", "menu", "focus", "rclick",
                 "help", "dpi"}

ASSUME ConstantsOK ==
    /\ {Screen, Work, MinClient} \subseteq Nat \ {0}
    /\ MinClient + 2 <= Work /\ Work <= Screen
    /\ Contents \subseteq Nat \ {0}
    /\ Messages \subseteq MessageKinds /\ MaxMessages \in Nat

VARIABLES
    pc,       \* "pump", "drain", or "dialog": in a file dialog while draining
    w,        \* the window: its rectangle, non-client height, style and modes
    saved,    \* saved_placement, and the client height it belonged to
    loop,     \* the modal loop Windows runs: "none", "move", "menu"
    flagged,  \* in_modal_loop
    timer,    \* whether the modal tick timer runs
    focused,  \* whether the window has the focus
    events,   \* input_events
    request,  \* resize_request: a client height, or None
    chain,    \* height of the swap chain
    fresh,    \* needs_initial_resize: the height of the picture to come, or None
    held,     \* whether H is down
    help,     \* whether the help overlay is shown
    asked,    \* history: the client height last asked for, or None
    messages  \* history: how many messages there were

frame == <<w, saved, request, asked>>
modal == <<loop, flagged, timer, focused>>
vars == <<pc, frame, modal, events, chain, fresh, held, help, messages>>

None == -1
Larger(a, b) == IF a > b THEN a ELSE b
Smaller(a, b) == IF a < b THEN a ELSE b

-----------------------------------------------------------------------------
(* The rectangle                                                            *)

Caption == 1
MenuBar == 1

Client(x) == x.h - x.top
Origin(x) == x.y + x.top

\* menu_docked
Docked(x) == ~x.frameless /\ ~x.borderless /\ x.visible

\* window_chrome_size of an overlapped window
Chrome(frameless, menu) ==
    IF frameless THEN 0 ELSE Caption + (IF menu THEN MenuBar ELSE 0)

\* WM_NCCALCSIZE: a window that is frameless, fullscreen or not, is all client.
Framed(x) ==
    [x EXCEPT !.top = IF x.frameless THEN 0
                      ELSE (IF x.popup THEN 0 ELSE Caption) + (IF x.attached THEN MenuBar ELSE 0)]

\* SetWindowPos, with WM_GETMINMAXINFO.
Placed(x, y, h) ==
    Framed([x EXCEPT !.y = y,
                     !.h = IF x.popup THEN h
                           ELSE Larger(h, MinClient + Chrome(x.frameless, x.attached))])

\* Mutant of Synced: the menu takes its height from the client.
SyncedBare(x) == Framed([x EXCEPT !.attached = Docked(x) \/ x.reveal])

\* sync_app_menu: the client stays where it is, and as high.
Synced(x) ==
    LET want == Docked(x) \/ x.reveal
        bare == Framed([x EXCEPT !.attached = want])
    IN  IF want = x.attached THEN x
        ELSE Placed(bare, x.y + (Origin(x) - Origin(bare)), x.h + (Client(x) - Client(bare)))

\* set_menu_reveal
Revealed(x, reveal) == Synced([x EXCEPT !.reveal = reveal])

\* Mutant of EnteredFullscreen: the menu stays as it is.
EnteredWithMenu(x) ==
    Placed([x EXCEPT !.borderless = TRUE, !.popup = TRUE, !.reveal = FALSE], 0, Screen)

\* toggle_borderless_fullscreen
EnteredFullscreen(x) ==
    Placed([Revealed([x EXCEPT !.borderless = TRUE], FALSE) EXCEPT !.popup = TRUE], 0, Screen)

LeftFullscreen(x) ==
    Placed(Revealed([x EXCEPT !.popup = FALSE, !.borderless = FALSE], FALSE), saved.y, saved.h)

\* toggle_frameless_windowed: the client height is kept as far as the work area goes.
Reframed(x) ==
    LET frameless == ~x.frameless
        h == Smaller(Client(x) + Chrome(frameless, x.visible), Work)
    IN  Placed(Revealed([x EXCEPT !.frameless = frameless], FALSE),
               Smaller(Larger(x.y, 0), Larger(Work - h, 0)), h)

\* cycle_menu_bar_mode
Cycled(x) == Revealed([x EXCEPT !.visible = ~@], FALSE)

\* The window height for a client height, without what Alt reveals.
OuterFor(x, client) == Smaller(client + Chrome(x.frameless, Docked(x)), Work)

\* resize_for_content
SizedForContent(x, c) ==
    LET h == OuterFor(x, Smaller(Larger(c, MinClient), Work)) IN
    IF x.borderless THEN {x} ELSE {Placed(x, y, h) : y \in {(Work - h) \div 2, x.y}}

\* fit_window_to_content, where the height of the work area is what limits it.
Fitted(x) ==
    IF x.borderless THEN x ELSE Placed(x, 0, Work)

\* set_window_client_size
Halved(x, c) ==
    LET h == Larger(c, MinClient) + Chrome(x.frameless, Docked(x)) IN
    IF x.borderless THEN x ELSE Placed(x, Smaller(Larger(x.y, 0), Work - h), h)

\* The client height these three ask for.
AskedFor(x, h) == IF x.borderless THEN None ELSE h - Chrome(x.frameless, Docked(x))

-----------------------------------------------------------------------------

Init ==
    /\ pc = "pump"
    /\ \E frameless, visible \in BOOLEAN :
          LET docked == ~frameless /\ visible
              h == MinClient + 2 + Chrome(frameless, docked)
          IN  w = [y |-> 1, h |-> h, top |-> Chrome(frameless, docked), popup |-> FALSE,
                   borderless |-> FALSE, frameless |-> frameless, visible |-> visible,
                   reveal |-> FALSE, attached |-> docked]
    /\ saved = [y |-> 0, h |-> 0, client |-> 0]
    /\ loop = "none" /\ flagged = FALSE /\ timer = FALSE /\ focused = TRUE
    /\ events = <<>>
    /\ request = None /\ chain = MinClient + 2
    /\ fresh = None /\ held = FALSE /\ help = FALSE
    /\ asked = None /\ messages = 0

\* The window becomes x; a size that changes sends WM_SIZE.
Becomes(x) ==
    /\ w' = x
    /\ request' = IF w'.h # w.h \/ Client(w') # Client(w) THEN Client(w') ELSE request

\* A file dialog delivers what comes for the window, which it has disabled.
Message(kind) ==
    /\ pc \in {"pump", "dialog"} /\ kind \in Messages
    /\ messages < MaxMessages
    /\ messages' = messages + 1
    /\ UNCHANGED pc

Post(e) == events' = Append(events, e)

\* Keys reach the window outside of modal loops only.
Key(kind) == Message(kind) /\ pc = "pump" /\ focused /\ loop = "none"

-----------------------------------------------------------------------------
(* Messages                                                                 *)

\* WM_KEYDOWN of a mode or a size, and what the drop target, the dialog and the menu post.
KeyDown ==
    \E e \in {"fullscreen", "frameless", "menubar", "fit", "half", "open", "dialog"} :
        /\ \/ Key("modes") /\ e \in {"fullscreen", "frameless", "menubar"}
           \/ Key("fit") /\ e \in {"fit", "half"}
           \/ Key("open") /\ e \in {"open", "dialog"}
        /\ Post(e)
        /\ UNCHANGED <<frame, modal, chain, fresh, held, help>>

KeyDownH ==
    /\ Key("help") /\ ~held
    /\ held' = TRUE
    /\ Post("showhelp")
    /\ UNCHANGED <<frame, modal, chain, fresh, help>>

\* WM_KEYUP goes to the window that has the focus.
KeyUpH ==
    /\ Message("help") /\ held
    /\ held' = FALSE
    /\ IF focused /\ loop = "none" THEN Post("hidehelp") ELSE UNCHANGED events
    /\ UNCHANGED <<frame, modal, chain, fresh, help>>

\* WM_SYSKEYDOWN
AltDown ==
    /\ Key("alt")
    /\ Becomes(IF w.attached THEN w ELSE Revealed(w, TRUE))
    /\ UNCHANGED <<saved, asked, modal, events, chain, fresh, held, help>>

\* WM_SYSCOMMAND with SC_KEYMENU, after Alt or F10: Windows runs the menu loop if
\* there is a menu bar or a system menu.
KeyMenu ==
    /\ Key("alt") \/ Key("f10")
    /\ flagged' = TRUE /\ timer' = TRUE
    /\ loop' = IF w.attached \/ ~w.popup THEN "menu" ELSE "none"
    /\ UNCHANGED <<frame, focused, events, chain, fresh, held, help>>

\* WM_NCRBUTTONUP: only the caption has a menu.
RightClick ==
    /\ Key("rclick") /\ ~w.popup
    /\ timer' = TRUE
    /\ \E onCaption \in {FALSE, ~w.frameless} :
          IF onCaption THEN loop' = "menu" /\ flagged' = TRUE
          ELSE UNCHANGED <<loop, flagged>>
    /\ UNCHANGED <<frame, focused, events, chain, fresh, held, help>>

\* WM_EXITMENULOOP, and the WM_COMMAND of what was chosen.
ExitMenuLoop ==
    /\ Message("menu") /\ loop = "menu"
    /\ loop' = "none" /\ flagged' = FALSE /\ timer' = FALSE
    /\ Becomes(IF w.reveal THEN Revealed(w, FALSE) ELSE w)
    /\ \/ UNCHANGED events
       \/ w.attached /\ \E e \in {"fullscreen", "menubar", "fit"} : Post(e)
    /\ UNCHANGED <<saved, asked, focused, chain, fresh, held, help>>

\* Mutant of EnterSizeMove: the timer is forgotten.
EnterSizeMoveUntimed ==
    /\ Key("drag") /\ ~w.popup
    /\ loop' = "move" /\ flagged' = TRUE /\ timer' = timer
    /\ UNCHANGED <<frame, focused, events, chain, fresh, held, help>>

\* WM_ENTERSIZEMOVE, by a drag of the caption or an edge. A press of the caption is
\* tracked by the window itself, with the pump alive, until the threshold of a drag.
EnterSizeMove ==
    /\ Key("drag") /\ ~w.popup
    /\ loop' = "move" /\ flagged' = TRUE /\ timer' = TRUE
    /\ UNCHANGED <<frame, focused, events, chain, fresh, held, help>>

\* The user's hand, and WM_SIZE.
SizeMove ==
    /\ Message("drag") /\ loop = "move"
    /\ \E y \in {0, 1}, c \in Contents : Becomes(Placed(w, y, c))
    /\ asked' = None
    /\ UNCHANGED <<saved, modal, events, chain, fresh, held, help>>

ExitSizeMove ==
    /\ Message("drag") /\ loop = "move"
    /\ loop' = "none" /\ flagged' = FALSE /\ timer' = FALSE
    /\ UNCHANGED <<frame, focused, events, chain, fresh, held, help>>

\* WM_KILLFOCUS
Unfocused ==
    /\ focused' = FALSE
    /\ Becomes(IF focused /\ w.reveal /\ ~flagged THEN Revealed(w, FALSE) ELSE w)

KillFocus ==
    /\ Message("focus") /\ focused
    /\ Unfocused
    /\ UNCHANGED <<saved, asked, loop, flagged, timer, events, chain, fresh, held, help>>

SetFocus ==
    /\ Message("focus") /\ pc = "pump" /\ ~focused
    /\ focused' = TRUE
    /\ UNCHANGED <<frame, loop, flagged, timer, events, chain, fresh, held, help>>

\* WM_DPICHANGED, in every mode.
DpiChanged ==
    /\ Message("dpi")
    /\ \E c \in Contents : Becomes(Placed(w, 0, c))
    /\ asked' = None
    /\ UNCHANGED <<saved, modal, events, chain, fresh, held, help>>

-----------------------------------------------------------------------------
(* The loop                                                                 *)

\* The first picture of a file, if there is one to come, arrives in some tick: what the
\* window may be in the tick before its size is taken up.
Arriving(arrives) ==
    IF ~arrives THEN {w} ELSE SizedForContent(w, fresh)

\* Mutant of Ticked: a resize that the tick itself causes is taken for done.
TickedAndCleared ==
    \E arrives \in {FALSE, fresh # None} : \E x \in Arriving(arrives) :
        /\ w' = x
        /\ chain' = IF request # None THEN request ELSE chain
        /\ request' = None
        /\ fresh' = IF arrives THEN None ELSE fresh
        /\ asked' = IF arrives THEN AskedFor(x, OuterFor(x, Larger(fresh, MinClient))) ELSE asked
        /\ UNCHANGED saved

\* What of the session's tick is about the window: the first picture of a file, when its
\* worker has delivered it, and then the size requested so far.
Ticked ==
    \E arrives \in {FALSE, fresh # None} : \E x \in Arriving(arrives) :
        LET due == IF x.h # w.h \/ Client(x) # Client(w) THEN Client(x) ELSE request IN
        /\ w' = x
        /\ chain' = IF due # None THEN due ELSE chain
        /\ request' = None
        /\ fresh' = IF arrives THEN None ELSE fresh
        /\ asked' = IF arrives THEN AskedFor(x, OuterFor(x, Larger(fresh, MinClient))) ELSE asked
        /\ UNCHANGED saved

\* WM_TIMER, in the pump, in a modal loop or, where the timer is left on, in a dialog.
ModalTick ==
    /\ pc \in {"pump", "dialog"} /\ timer
    /\ request # None \/ fresh # None
    /\ Ticked
    /\ UNCHANGED <<pc, modal, events, held, help, messages>>

\* pump_messages returns.
Pumped ==
    /\ pc = "pump" /\ loop = "none"
    /\ pc' = "drain"
    /\ UNCHANGED <<frame, modal, events, chain, fresh, held, help, messages>>

Due(e) == pc = "drain" /\ events # <<>> /\ Head(events) = e
Handled(e) == Due(e) /\ events' = Tail(events)

ToggleBorderlessFullscreen ==
    /\ Handled("fullscreen")
    /\ IF w.borderless THEN Becomes(LeftFullscreen(w)) /\ UNCHANGED saved
       ELSE /\ Becomes(EnteredFullscreen(w))
            /\ saved' = [y |-> w.y, h |-> w.h, client |-> Client(w)]
    /\ asked' = None
    /\ UNCHANGED <<pc, modal, chain, fresh, held, help, messages>>

ToggleFramelessWindowed ==
    /\ Handled("frameless")
    /\ IF w.borderless THEN UNCHANGED <<w, request, asked>>
       ELSE Becomes(Reframed(w)) /\ asked' = None
    /\ UNCHANGED <<pc, saved, modal, chain, fresh, held, help, messages>>

CycleMenuBarMode ==
    /\ Handled("menubar")
    /\ Becomes(Cycled(w))
    /\ UNCHANGED <<pc, saved, asked, modal, chain, fresh, held, help, messages>>

FitWindow ==
    /\ Handled("fit")
    /\ Becomes(Fitted(w))
    /\ asked' = AskedFor(w, Work)
    /\ UNCHANGED <<pc, saved, modal, chain, fresh, held, help, messages>>

HalfSizeWindow ==
    /\ Handled("half")
    /\ \E c \in Contents :
          /\ Becomes(Halved(w, c))
          /\ asked' = IF w.borderless THEN None ELSE Larger(c, MinClient)
    /\ UNCHANGED <<pc, saved, modal, chain, fresh, held, help, messages>>

Open ==
    /\ Handled("open")
    /\ fresh' \in Contents
    /\ UNCHANGED <<pc, frame, modal, chain, held, help, messages>>

\* show_open_file_dialog or show_export_save_dialog: the dialog takes the focus.
ShowDialog ==
    /\ Handled("dialog")
    /\ pc' = "dialog"
    /\ Unfocused
    /\ UNCHANGED <<saved, asked, loop, flagged, timer, chain, fresh, held, help, messages>>

\* The user picks a file, or none; or has gone to another window meanwhile.
CloseDialog ==
    /\ pc = "dialog"
    /\ pc' = "drain"
    /\ focused' \in BOOLEAN
    /\ fresh' \in Contents \union {fresh}
    /\ UNCHANGED <<frame, loop, flagged, timer, events, chain, held, help, messages>>

ShowHideHelp ==
    /\ \/ Handled("showhelp") /\ help' = TRUE
       \/ Handled("hidehelp") /\ help' = FALSE
    /\ UNCHANGED <<pc, frame, modal, chain, fresh, held, messages>>

Tick ==
    /\ pc = "drain" /\ events = <<>>
    /\ pc' = "pump"
    /\ Ticked
    /\ UNCHANGED <<modal, events, held, help, messages>>

Drain ==
    \/ ToggleBorderlessFullscreen \/ ToggleFramelessWindowed \/ CycleMenuBarMode
    \/ FitWindow \/ HalfSizeWindow \/ Open \/ ShowDialog \/ ShowHideHelp \/ Tick

Next ==
    \/ KeyDown \/ KeyDownH \/ KeyUpH \/ AltDown \/ KeyMenu \/ RightClick
    \/ ExitMenuLoop \/ EnterSizeMove \/ SizeMove \/ ExitSizeMove
    \/ KillFocus \/ SetFocus \/ DpiChanged
    \/ ModalTick \/ Pumped \/ CloseDialog \/ Drain

\* The thread of the window goes on: the event loop goes round, and Windows delivers the
\* ticks of a running timer in its own loops. The user may leave a menu, a caption or a
\* dialog as it is for ever.
Fairness == WF_vars(ModalTick \/ Pumped \/ Drain)

Spec == Init /\ [][Next]_vars /\ Fairness

-----------------------------------------------------------------------------
(* Properties                                                               *)

WindowType == [y: Int, h: Int, top: 0..2, popup: BOOLEAN, borderless: BOOLEAN, frameless: BOOLEAN,
               visible: BOOLEAN, reveal: BOOLEAN, attached: BOOLEAN]

\* Variables range over their types, a window in fullscreen is a popup, and a size that
\* is awaited or wanted is that of a picture.
TypeOK ==
    /\ pc \in {"pump", "drain", "dialog"}
    /\ w \in WindowType /\ w.popup = w.borderless
    /\ saved \in [y: Int, h: Int, client: Int]
    /\ loop \in {"none", "move", "menu"}
    /\ {flagged, timer, focused, held, help} \subseteq BOOLEAN
    /\ request \in Nat \union {None} /\ chain \in Nat
    /\ fresh \in Contents \union {None}
    /\ asked \in Nat \union {None} /\ messages \in 0..MaxMessages

\* The menu bar is attached exactly when the mode docks it or Alt reveals it: no order
\* of toggles, reveals and lost focus leaves it behind or loses it
\* (sync_app_menu, and every caller of set_menu_reveal).
MenuFollowsState == w.attached <=> Docked(w) \/ w.reveal

\* A size that changed reaches the swap chain or is still asked for: requests made by a
\* tick itself, in a modal loop or in the pump are not lost between WM_SIZE,
\* take_resize_request and the tick.
ResizeReaches == request # None \/ chain = Client(w)

\* The same, in states of the types above.
SizeReaches == TypeOK /\ ResizeReaches

\* A size asked for is taken up by some tick although the user never lets go of the
\* caption, the edge or the menu: the loop of Windows has the tick timer
\* (WM_ENTERSIZEMOVE, WM_SYSCOMMAND, WM_NCRBUTTONUP, WM_ENTERMENULOOP, WM_TIMER). A file
\* dialog left open without it is the exception.
LoopsServed == request # None ~> (request = None \/ (pc = "dialog" /\ ~timer))

\* Neither showing nor hiding the menu moves or resizes the picture, unless the frame or
\* fullscreen is switched with it (sync_app_menu, window_size_preserving_client,
\* window_position_preserving_client).
ClientKept ==
    [][w'.attached # w.attached /\ ~Due("fullscreen") /\ ~Due("frameless")
           => Client(w') = Client(w) /\ Origin(w') = Origin(w)]_vars

\* Switching between framed and frameless keeps the height of the picture wherever the
\* work area has room for the frame (toggle_frameless_windowed).
ReframeKeepsClient ==
    [][w'.frameless # w.frameless /\ Client(w) \in MinClient..(Work - Caption - MenuBar)
           => Client(w') = Client(w)]_vars

\* The picture stays where and as large as it is while the frame around it changes.
PictureStays == ClientKept /\ ReframeKeepsClient

(* What the code does not keep                                              *)

\* A file dialog, too, lets the size through: it is shown with no timer
\* (show_open_file_dialog, show_export_save_dialog).
DialogsServed == request # None ~> request = None

\* "restoring it after re-docking is exact": a window that leaves fullscreen has the
\* client height it had (toggle_borderless_fullscreen).
PlacementExact ==
    [][w.borderless /\ ~w'.borderless => Client(w') = saved.client]_w

\* "fit and resize commands never bake a momentary reveal into the window size": with
\* the reveal over, the client has the height last asked for (menu_docked).
RevealNotBaked == ~w.reveal /\ ~w.borderless /\ asked # None => Client(w) = asked

\* A reveal "ends when the menu loop exits or focus leaves" (MenuReveal::Alt).
RevealEndsWithFocus == w.reveal /\ loop = "none" => focused

\* What Alt reveals can be seen (set_menu_reveal).
MenuOnScreen == w.reveal => w.y >= 0

\* "Borderless fullscreen covers the whole monitor" (toggle_borderless_fullscreen,
\* WM_DPICHANGED).
FullscreenFills == w.borderless => Origin(w) = 0 /\ Client(w) = Screen

\* The help overlay is there while H is held (command_for_key_release, WM_KILLFOCUS).
HelpWhileHeld == help /\ events = <<>> => held
=============================================================================
