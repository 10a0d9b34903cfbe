---------------------------------- MODULE Shell ----------------------------------
(***************************************************************************)
(* The program around the session: the event loop, the play queue, the     *)
(* recent files with their bookmarks and the overlay that lists them       *)
(* (main.rs, app/play_queue.rs, app/recent.rs). The event loop owns all of *)
(* it; the session knows only the file it plays.                           *)
(*                                                                         *)
(* One round of the loop pumps the window's messages, handles the inputs   *)
(* that gave, ticks the session and takes the signal of an end that it     *)
(* latched. Messages may run a modal loop (a menu, a drag of the window),  *)
(* whose timer ticks the session and nothing else.                         *)
(*                                                                         *)
(* Of the session only what this program reads is kept; Session is about   *)
(* the rest. A file is one of Names, in natural order, in one of two       *)
(* spellings that the file system does not tell apart.                     *)
(***************************************************************************)
EXTENDS Integers, Sequences, FiniteSets

CONSTANTS
    Names,        \* how many files there are
    Unplayable,   \* those whose extension is not that of a medium
    Shortest,     \* duration of the first file; each later one is one longer
    MaxRecent,    \* MAX_RECENT
    MinResume,    \* MIN_RESUME_MS
    Inputs,       \* what happens outside, a subset of InputKinds
    MaxInputs     \* bound on how often

InputKinds == {"open", "drop", "navigate", "recent", "seek", "rate", "reopen",
               "delete", "lose", "fail", "fatal", "relaunch"}

ASSUME ConstantsOK ==
    /\ Names \in Nat \ {0} /\ Unplayable \subseteq 1 .. Names
    /\ Shortest \in Nat \ {0}
    /\ MaxRecent \in Nat \ {0} /\ MinResume \in Nat
    /\ Inputs \subseteq InputKinds /\ MaxInputs \in Nat

VARIABLES
    pc,         \* "pump", "input", or "exited"
    sess,       \* what the loop sees of the session
    queue,      \* PlayQueue: its items, and the cursor counted from 1
    recent,     \* RecentFiles, newest first
    disk,       \* what recent.tsv holds
    current,    \* the file whose progress is to be saved, or NoPath
    selected,   \* the row selected in the Recent overlay; 0 when it is closed
    present,    \* which of the names exist
    reached,    \* history: where the file being played really is
    left,       \* history: the last file left with a known duration, and where
    inputs      \* history: how many inputs and faults there were

vars == <<pc, sess, queue, recent, disk, current, selected, present, reached, left, inputs>>

Paths == [name : 1 .. Names, as : {1, 2}]
NoPath == [name |-> 0, as |-> 0]

\* key_for and dedup_key
Key(p) == p.name
Playable(p) == p.name \notin Unplayable
Duration(p) == Shortest + p.name - 1

None == -1
Closed == 0
NoQueue == [items |-> <<>>, cursor |-> 1]
Fresh == [file |-> NoPath, phase |-> "idle", known |-> FALSE, start |-> 0,
          target |-> None, clock |-> None, signal |-> FALSE, shown |-> <<>>]

Init ==
    /\ pc = "pump" /\ sess = Fresh
    /\ queue = NoQueue /\ recent = <<>> /\ disk = <<>>
    /\ current = NoPath /\ selected = Closed
    /\ present = 1 .. Names
    /\ reached = 0 /\ left = [path |-> NoPath, at |-> 0] /\ inputs = 0

-----------------------------------------------------------------------------
(* RecentFiles                                                              *)

Rows(r, p) == {i \in 1 .. Len(r) : Key(r[i].path) = Key(p)}
Row(r, p) == CHOOSE i \in Rows(r, p) : \A j \in Rows(r, p) : i <= j

Capped(r) == IF Len(r) > MaxRecent THEN SubSeq(r, 1, MaxRecent) ELSE r

Removed(r, i) == SubSeq(r, 1, i - 1) \o SubSeq(r, i + 1, Len(r))

\* Mutant of Touched: two spellings of a path are two files.
TouchedBySpelling(r, p) ==
    IF \E i \in 1 .. Len(r) : r[i].path = p
    THEN <<r[Row(r, p)]>> \o Removed(r, Row(r, p))
    ELSE Capped(<<[path |-> p, at |-> 0, dur |-> 0]>> \o r)

\* touch_opened: to the front, with the bookmark and the spelling it had.
Touched(r, p) ==
    IF Rows(r, p) # {}
    THEN Capped(<<r[Row(r, p)]>> \o Removed(r, Row(r, p)))
    ELSE Capped(<<[path |-> p, at |-> 0, dur |-> 0]>> \o r)

\* update_progress
Updated(r, p, at, dur) ==
    IF Rows(r, p) = {} THEN r
    ELSE [r EXCEPT ![Row(r, p)].at = at, ![Row(r, p)].dur = IF dur > 0 THEN dur ELSE @]

\* resume_target: far enough in, and before 95% of a known duration.
ResumeAt(r, p) ==
    IF Rows(r, p) = {} THEN 0
    ELSE LET e == r[Row(r, p)] IN
         IF e.at > MinResume /\ e.dur > 0 /\ 100 * e.at < 95 * e.dur THEN e.at ELSE 0

-----------------------------------------------------------------------------
(* PlayQueue                                                                *)

Single(p) == [items |-> <<p>>, cursor |-> 1]

\* The one way to put a set of paths with different keys in natural order.
Ordered(S) ==
    {items \in [1 .. Cardinality(S) -> S] :
        \A i, j \in 1 .. Cardinality(S) : i < j => Key(items[i]) < Key(items[j])}

\* from_paths: the playable ones, of those that differ only in spelling the first.
Chosen(paths) ==
    {paths[i] : i \in {j \in 1 .. Len(paths) :
                          /\ Playable(paths[j])
                          /\ \A k \in 1 .. j - 1 : Key(paths[k]) # Key(paths[j])}}

\* from_folder: a folder does not hold two spellings of a name.
InFolder == {p \in Paths : p.as = 1 /\ p.name \in present /\ Playable(p)}

\* next_path and previous_path: where the cursor would go, or nowhere.
Candidates(by) ==
    {c \in 1 .. Len(queue.items) : c = queue.cursor + by /\ Len(queue.items) > 1}

-----------------------------------------------------------------------------
(* What the loop sees of the session: see Session for the whole.            *)

\* snapshot().position
Position(x) ==
    IF x.target # None THEN x.target ELSE IF x.clock # None THEN x.clock ELSE 0

\* Mutant of OpenedSession: an end that was not taken yet survives.
OpenedStillEnded(x, p, start) ==
    [x EXCEPT !.file = p, !.phase = "opening", !.known = FALSE, !.start = start,
              !.clock = None]

\* open_at: the latch is emptied, the pending target stays.
OpenedSession(x, p, start) ==
    [x EXCEPT !.file = p, !.phase = "opening", !.known = FALSE, !.start = start,
              !.clock = None, !.signal = FALSE]

\* A seek, which is refused while nothing is open.
SoughtSession(x, at) ==
    IF x.phase \in {"idle", "opening", "error"} THEN x
    ELSE [x EXCEPT !.phase = "seeking", !.start = at, !.target = at, !.clock = None]

\* A tick of the session: the worker tells the duration, the first picture of an
\* operation is up, the seek settles, playback goes on, ends, fails, or the device is lost.
Ticked(x) ==
    {x}
    \union {y \in {[x EXCEPT !.known = TRUE]} : x.phase = "opening"}
    \union {[x EXCEPT !.phase = "playing", !.clock = x.start, !.target = t] :
               t \in {t \in {None, x.target} : x.phase \in {"opening", "seeking"} /\ x.known}}
    \union {y \in {[x EXCEPT !.target = None]} : x.phase = "playing" /\ x.clock # None}
    \union {y \in {[x EXCEPT !.clock = IF @ = None THEN reached ELSE @ + 1]} :
               x.phase = "playing" /\ (x.clock = None \/ x.clock < Duration(x.file))}
    \union {y \in {[x EXCEPT !.phase = "ended", !.signal = TRUE]} :
               x.phase = "playing" /\ x.clock = Duration(x.file)}
    \union {y \in {[x EXCEPT !.phase = "error", !.target = None]} :
               "fail" \in Inputs /\ x.phase \notin {"idle", "error"}}
    \union {y \in {[x EXCEPT !.phase = "seeking", !.start = Position(x), !.clock = None]} :
               "lose" \in Inputs /\ x.phase \in {"playing", "ended"}}

\* Where the file is, once a picture says so.
Where(x) == IF x.clock # None THEN x.clock ELSE reached

-----------------------------------------------------------------------------
(* Opening                                                                  *)

\* save_current_progress
Progressed(x) ==
    IF current # NoPath /\ x.known
    THEN Updated(recent, current, Position(x), Duration(x.file)) ELSE recent

Leaving(x) ==
    left' = IF current # NoPath /\ x.known THEN [path |-> current, at |-> Where(x)] ELSE left

\* shutdown_and_exit: what is in memory is gone.
Gone ==
    /\ pc' = "exited" /\ sess' = Fresh
    /\ queue' = NoQueue /\ current' = NoPath /\ selected' = Closed
    /\ reached' = 0

\* Mutant of Opening: what is saved is saved under the file to be opened.
OpeningThenSaving(x, p, q, row, next) ==
    LET opened == Touched(recent, p)
        saved == IF x.known THEN Updated(opened, p, Position(x), Duration(x.file)) ELSE opened
        start == ResumeAt(saved, p)
    IN  /\ recent' = saved /\ disk' = saved
        /\ Leaving(x)
        /\ sess' = OpenedSession(x, p, start)
        /\ current' = p /\ queue' = q /\ selected' = row /\ reached' = start
        /\ pc' = next

\* open_media in session x, and the queue that comes with it. The overlay stays as it is,
\* or is closed. An open that cannot even begin ends the program.
Opening(x, p, q, row, next) ==
    LET saved == Progressed(x)
        start == ResumeAt(saved, p)
    IN  /\ recent' = Touched(saved, p) /\ disk' = Touched(saved, p)
        /\ Leaving(x)
        /\ \/ /\ sess' = OpenedSession(x, p, start)
              /\ current' = p /\ queue' = q /\ selected' = row /\ reached' = start
              /\ pc' = next
           \/ "fatal" \in Inputs /\ Gone

\* Mutant of Navigated: the cursor moves although the candidate is gone.
NavigatedBlindly(x, by, next) ==
    \E c \in Candidates(by) :
        IF queue.items[c].name \in present
        THEN Opening(x, queue.items[c], [queue EXCEPT !.cursor = c], selected, next)
        ELSE /\ queue' = [queue EXCEPT !.cursor = c] /\ sess' = x /\ pc' = next
             /\ reached' = Where(x)
             /\ UNCHANGED <<recent, disk, current, selected, left>>

\* navigate_queue, when there is a candidate and it exists.
Navigated(x, by, next) ==
    \E c \in Candidates(by) :
        /\ queue.items[c].name \in present
        /\ Opening(x, queue.items[c], [queue EXCEPT !.cursor = c], selected, next)

\* It says so otherwise and leaves everything as it was.
NowhereToGo(by) == \A c \in Candidates(by) : queue.items[c].name \notin present

-----------------------------------------------------------------------------
(* Actions                                                                  *)

Outside(kind) ==
    /\ kind \in Inputs
    /\ inputs < MaxInputs
    /\ inputs' = inputs + 1
    /\ UNCHANGED present

\* An input the Recent overlay does not swallow.
Input(kind) == pc = "input" /\ selected = 0 /\ Outside(kind)

\* The dialog, a dropped file, and a path on the command line.
OpenSingleFile ==
    /\ Input("open")
    /\ \E p \in Paths : Opening(sess, p, Single(p), selected, pc)

\* open_queue, with what was dropped; nothing happens when nothing can be played.
OpenQueue(S) ==
    \E items \in Ordered(S) :
        /\ items # <<>>
        /\ Opening(sess, items[1], [items |-> items, cursor |-> 1], selected, pc)

DropFiles ==
    /\ Input("drop")
    /\ \E p, r \in {q \in Paths : q.name \in present} : p # r /\ OpenQueue(Chosen(<<p, r>>))

DropFolder ==
    /\ Input("drop")
    /\ OpenQueue(InFolder)

NavigateQueue ==
    /\ Input("navigate")
    /\ \E by \in {-1, 1} : Navigated(sess, by, pc)

ReopenCurrent ==
    /\ Input("reopen")
    /\ sess.file # NoPath
    /\ Opening(sess, sess.file, Single(sess.file), selected, pc)

Seek ==
    /\ Input("seek")
    /\ sess.phase \notin {"idle", "opening", "error"}
    /\ \E at \in 0 .. Duration(sess.file) :
          sess' = SoughtSession(sess, at) /\ reached' = at
    /\ UNCHANGED <<pc, queue, recent, disk, current, selected, left>>

\* The clocks start again with the next picture.
StepRate ==
    /\ Input("rate")
    /\ sess' = [sess EXCEPT !.clock = None]
    /\ UNCHANGED <<pc, queue, recent, disk, current, selected, left, reached>>

Shown(r) == [i \in 1 .. Len(r) |-> r[i].path]
ShowAt(i, r) == selected' = i /\ sess' = [sess EXCEPT !.shown = Shown(r)]

Hide == selected' = Closed /\ sess' = [sess EXCEPT !.shown = <<>>]

ToggleRecentOverlay ==
    /\ Input("recent")
    /\ ShowAt(1, recent)
    /\ UNCHANGED <<pc, queue, recent, disk, current, left, reached>>

\* What the overlay does while it is open; looking about is not counted as input.
Browsing == pc = "input" /\ selected # 0 /\ UNCHANGED <<inputs, present>>

CloseOverlay ==
    /\ Browsing
    /\ Hide
    /\ UNCHANGED <<pc, queue, recent, disk, current, left, reached>>

MoveSelection ==
    /\ Browsing
    /\ \E i \in {selected - 1, selected + 1} :
          /\ i \in 1 .. Len(recent)
          /\ ShowAt(i, recent)
    /\ UNCHANGED <<pc, queue, recent, disk, current, left, reached>>

\* remove_index, save and refresh_after_remove
Forgotten(i) ==
    /\ recent' = Removed(recent, i) /\ disk' = Removed(recent, i)
    /\ IF Len(recent) = 1 THEN Hide
       ELSE ShowAt(IF i < Len(recent) THEN i ELSE i - 1, Removed(recent, i))
    /\ UNCHANGED <<pc, queue, current, left, reached>>

RemoveSelected ==
    /\ Browsing
    /\ selected <= Len(recent)
    /\ Forgotten(selected)

\* A row whose file is gone is removed instead.
Confirm ==
    /\ pc = "input" /\ selected # 0 /\ Outside("recent")
    /\ selected <= Len(recent)
    /\ LET p == recent[selected].path IN
          IF p.name \in present
          THEN Opening([sess EXCEPT !.shown = <<>>], p, Single(p), Closed, pc)
          ELSE Forgotten(selected)

\* The modal loops of the pump: their timer ticks the session and nothing else.
ModalTick ==
    /\ pc = "pump"
    /\ \E x \in Ticked(sess) \ {sess} : sess' = x /\ reached' = Where(x)
    /\ UNCHANGED <<pc, queue, recent, disk, current, selected, present, left, inputs>>

Pump ==
    /\ pc = "pump"
    /\ pc' = "input"
    /\ UNCHANGED <<sess, queue, recent, disk, current, selected, present, reached, left, inputs>>

\* The session's tick, and what follows the end of a file: the next one, if the queue has
\* one that exists.
Tick ==
    /\ pc = "input"
    /\ \E x \in Ticked(sess) :
          IF x.signal /\ ~NowhereToGo(1)
          THEN Navigated([x EXCEPT !.signal = FALSE], 1, "pump")
          ELSE /\ sess' = [x EXCEPT !.signal = FALSE]
               /\ reached' = Where(x)
               /\ pc' = "pump"
               /\ UNCHANGED <<queue, recent, disk, current, selected, left>>
    /\ UNCHANGED <<present, inputs>>

\* The window was closed during the pump, or a step of the loop failed.
Exit ==
    /\ pc = "pump" \/ (pc = "input" /\ "fatal" \in Inputs)
    /\ recent' = Progressed(sess) /\ disk' = Progressed(sess)
    /\ Leaving(sess)
    /\ Gone
    /\ UNCHANGED <<present, inputs>>

Relaunch ==
    /\ pc = "exited"
    /\ Outside("relaunch")
    /\ pc' = "pump"
    /\ recent' = Capped(disk)
    /\ UNCHANGED <<sess, queue, disk, current, selected, reached, left>>

DeleteFile ==
    /\ "delete" \in Inputs
    /\ pc = "pump" /\ inputs < MaxInputs
    /\ inputs' = inputs + 1
    /\ \E n \in present : present' = present \ {n}
    /\ UNCHANGED <<pc, sess, queue, recent, disk, current, selected, reached, left>>

Next ==
    \/ OpenSingleFile \/ DropFiles \/ DropFolder \/ NavigateQueue \/ ReopenCurrent
    \/ Seek \/ StepRate
    \/ ToggleRecentOverlay \/ CloseOverlay \/ MoveSelection \/ RemoveSelected \/ Confirm
    \/ ModalTick \/ Pump \/ Tick \/ Exit \/ Relaunch \/ DeleteFile

Spec == Init /\ [][Next]_vars

-----------------------------------------------------------------------------
(* Properties *)

Entries == [path : Paths, at : Nat, dur : Nat]

TypeOK ==
    /\ pc \in {"pump", "input", "exited"}
    /\ sess.file \in Paths \union {NoPath}
    /\ sess.phase \in {"idle", "opening", "seeking", "playing", "ended", "error"}
    /\ {sess.known, sess.signal} \subseteq BOOLEAN
    /\ sess.start \in Nat /\ {sess.target, sess.clock} \subseteq Nat \union {None}
    /\ queue.items \in Seq(Paths) /\ queue.cursor \in Nat
    /\ recent \in Seq(Entries) /\ Len(recent) <= MaxRecent
    /\ disk \in Seq(Entries)
    /\ current \in Paths \union {NoPath}
    /\ selected \in Nat /\ sess.shown \in Seq(Paths)
    /\ present \subseteq 1 .. Names
    /\ reached \in Nat /\ inputs \in 0 .. MaxInputs
    /\ left.path \in Paths \union {NoPath} /\ left.at \in Nat

(* The queue's cursor, the session and the file whose progress is to be     *)
(* saved always mean the same file, however opens, drops, navigation, auto- *)
(* advance, missing files and fatal errors follow each other ("this keeps   *)
(* queue state from drifting").                                             *)
QueueFollowsFile ==
    current # NoPath =>
        /\ sess.file = current
        /\ queue.cursor \in 1 .. Len(queue.items)
        /\ queue.items[queue.cursor] = current

(* No file is in the history twice, whatever spelling it is opened by.      *)
RecentDistinct ==
    \A i, j \in 1 .. Len(recent) : Key(recent[i].path) = Key(recent[j].path) => i = j

(* Between two steps of the loop the history on disk is the one in memory:  *)
(* a crash loses nothing but how far the current file has got since.        *)
DiskFollows == disk = recent

(* An overlay that is open has a row selected that exists, unless the       *)
(* history is empty: Enter and Delete always mean some row.                 *)
SelectionExists ==
    selected # 0 => selected = 1 \/ selected <= Len(recent)

(* The history has each file once, is on disk as it is in memory, and what *)
(* the overlay has selected is one of its rows.                            *)
HistoryKept ==
    /\ TypeOK
    /\ RecentDistinct
    /\ DiskFollows
    /\ SelectionExists

(* An end that was latched but not yet taken belongs to the file that is    *)
(* open: it "can never auto-advance the new file" (session.rs:459).         *)
SignalIsOfFile == sess.signal => sess.phase # "opening"

(* A bookmark changes only while its own file is the current one: however   *)
(* opens and ends follow each other, the progress of one file is never      *)
(* saved as that of another.                                                *)
BookmarkOfCurrent ==
    [][\A i \in 1 .. Len(recent) : \A j \in 1 .. Len(recent') :
          /\ Key(recent'[j].path) = Key(recent[i].path)
          /\ recent'[j].at # recent[i].at
          => Key(recent[i].path) = Key(current)]_vars

-----------------------------------------------------------------------------
(* What comments and documents say, and the code does otherwise.            *)

(* Auto-advance opens the next file "when a file in a multi-item queue      *)
(* reaches its natural end" (release-notes-v0.4.0.md:39): what moves the    *)
(* queue by itself is an end at which playback rests, or gets to just now.  *)
AdvanceFollowsEnd ==
    [][queue'.cursor # queue.cursor /\ inputs' = inputs /\ pc' # "exited"
       => sess.phase \in {"playing", "ended"}]_vars

(* The overlay's rows are there "to select" and "Enter to open"             *)
(* (README.md:176): the rows it shows are the rows the keys act on.         *)
OverlayIsCurrent == selected # 0 => sess.shown = Shown(recent)

(* FastPlay "remembers the last playback position for opened files"         *)
(* (release-notes-v0.3.0.md:26): the bookmark of the file left last is      *)
(* where it was left.                                                       *)
BookmarkIsPosition ==
    \A i \in 1 .. Len(recent) :
        Key(recent[i].path) = Key(left.path) => recent[i].at = left.at
================================================================================
