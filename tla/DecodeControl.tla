------------------------------ MODULE DecodeControl ------------------------------
(***************************************************************************)
(* The command mailbox between the UI thread and one persistent decode     *)
(* worker (playback/decode_control.rs), at the grain of its mutex, its two *)
(* atomics and its condition variable.                                     *)
(*                                                                         *)
(* The UI thread stores a command under the lock, bumps the sequence under *)
(* the lock, unlocks and notifies. The worker decodes while polling the    *)
(* sequence and the shutdown flag without the lock, and calls wait_next    *)
(* when its run ends or is cancelled.                                      *)
(***************************************************************************)
EXTENDS Naturals, Sequences

CONSTANTS
    Targets,      \* what a seek command carries: target, seek_gen and op_id
    NoCommand,    \* pending == None
    Shutdown,     \* DecodeCommand::Shutdown
    MaxCommands   \* bound on the commands the UI thread sends to one worker

ASSUME CommandsDiffer ==
    /\ NoCommand # Shutdown
    /\ NoCommand \notin Targets
    /\ Shutdown \notin Targets

ASSUME MaxCommandsNat == MaxCommands \in Nat

VARIABLES
    seq,        \* DecodeControl.seq
    shutdown,   \* DecodeControl.shutdown
    pending,    \* DecodeControl.pending, the slot the mutex protects
    lock,       \* who holds the mutex
    ui,         \* where the UI thread is in send_seek / send_shutdown
    worker,     \* where the worker thread is
    serving,    \* the worker's serving cell
    command,    \* the command the worker is executing, NoCommand for its spawn
    issued      \* history: every command stored in the slot, in order

control == <<seq, shutdown, pending, lock>>
vars == <<seq, shutdown, pending, lock, ui, worker, serving, command, issued>>

Commands == Targets \union {Shutdown}
LastIssued == issued[Len(issued)]

UiSteps == {"idle", "store", "flag", "bump", "unlock", "notify"}
WorkerSteps == {"decode", "poll", "ran", "wait", "holding", "asleep", "exited"}

Init ==
    /\ seq = 0
    /\ shutdown = FALSE
    /\ pending = NoCommand
    /\ lock = "free"
    /\ ui = "idle"
    /\ worker = "decode"
    /\ serving = 0
    /\ command = NoCommand
    /\ issued = <<>>

-----------------------------------------------------------------------------
(* The UI thread. DecodeThreadHandle::teardown takes the control before it  *)
(* sends the shutdown, so nothing is sent after it.                         *)

\* send_seek / send_shutdown: lock_pending()
UiLock ==
    /\ ui = "idle"
    /\ ~shutdown
    /\ Len(issued) < MaxCommands
    /\ lock = "free"
    /\ lock' = "ui"
    /\ ui' = "store"
    /\ UNCHANGED <<seq, shutdown, pending, worker, serving, command, issued>>

\* *pending = Some(command), whatever was there
UiStore(c) ==
    /\ ui = "store"
    /\ pending' = c
    /\ issued' = Append(issued, c)
    /\ ui' = IF c = Shutdown THEN "flag" ELSE "bump"
    /\ UNCHANGED <<seq, shutdown, lock, worker, serving, command>>

\* shutdown.store(true)
UiFlag ==
    /\ ui = "flag"
    /\ shutdown' = TRUE
    /\ ui' = "bump"
    /\ UNCHANGED <<seq, pending, lock, worker, serving, command, issued>>

\* seq.fetch_add(1), still under the lock
UiBump ==
    /\ ui = "bump"
    /\ seq' = seq + 1
    /\ ui' = "unlock"
    /\ UNCHANGED <<shutdown, pending, lock, worker, serving, command, issued>>

\* drop(pending)
UiUnlock ==
    /\ ui = "unlock"
    /\ lock' = "free"
    /\ ui' = "notify"
    /\ UNCHANGED <<seq, shutdown, pending, worker, serving, command, issued>>

\* Mutant of UiNotify: the sender forgets to wake the worker.
UiNotifyNobody ==
    /\ ui = "notify"
    /\ ui' = "idle"
    /\ UNCHANGED <<control, worker, serving, command, issued>>

\* cv.notify_all()
UiNotify ==
    /\ ui = "notify"
    /\ worker' = IF worker = "asleep" THEN "wait" ELSE worker
    /\ ui' = "idle"
    /\ UNCHANGED <<control, serving, command, issued>>

UiSend == (\E c \in Commands : UiStore(c)) \/ UiFlag \/ UiBump \/ UiUnlock \/ UiNotify

-----------------------------------------------------------------------------
(* The worker thread. Its cancellation predicate reads seq, then shutdown,  *)
(* each without the lock.                                                   *)

\* Mutant of PollSeq: the run only watches for a shutdown.
PollSeqDeaf ==
    /\ worker = "decode"
    /\ worker' = "poll"
    /\ UNCHANGED <<control, ui, serving, command, issued>>

PollSeq ==
    /\ worker = "decode"
    /\ worker' = IF seq # serving THEN "ran" ELSE "poll"
    /\ UNCHANGED <<control, ui, serving, command, issued>>

PollShutdown ==
    /\ worker = "poll"
    /\ worker' = IF shutdown THEN "ran" ELSE "decode"
    /\ UNCHANGED <<control, ui, serving, command, issued>>

\* run_to_eof reaches the end of the stream, or fails
RunEnds ==
    /\ worker = "decode"
    /\ worker' = "ran"
    /\ UNCHANGED <<control, ui, serving, command, issued>>

\* is_shutdown() after the run: break, or fall through to wait_next
AfterRun ==
    /\ worker = "ran"
    /\ worker' = IF shutdown THEN "exited" ELSE "wait"
    /\ UNCHANGED <<control, ui, serving, command, issued>>

\* wait_next: lock_pending(), also the re-lock of a woken cv.wait
WaitLock ==
    /\ worker = "wait"
    /\ lock = "free"
    /\ lock' = "worker"
    /\ worker' = "holding"
    /\ UNCHANGED <<seq, shutdown, pending, ui, serving, command, issued>>

TakeShutdown ==
    /\ worker = "holding"
    /\ shutdown
    /\ lock' = "free"
    /\ worker' = "exited"
    /\ UNCHANGED <<seq, shutdown, pending, ui, serving, command, issued>>

\* Mutant of TakeCommand: wait_next does not test the shutdown flag first.
TakeCommandAfterShutdown ==
    /\ worker = "holding"
    /\ pending # NoCommand
    /\ command' = pending
    /\ serving' = seq
    /\ pending' = NoCommand
    /\ lock' = "free"
    /\ worker' = "decode"
    /\ UNCHANGED <<seq, shutdown, ui, issued>>

\* Mutant of TakeCommand: the worker counts the commands it takes itself.
TakeCommandCounting ==
    /\ worker = "holding"
    /\ ~shutdown
    /\ pending # NoCommand
    /\ command' = pending
    /\ serving' = serving + 1
    /\ pending' = NoCommand
    /\ lock' = "free"
    /\ worker' = "decode"
    /\ UNCHANGED <<seq, shutdown, ui, issued>>

TakeCommand ==
    /\ worker = "holding"
    /\ ~shutdown
    /\ pending # NoCommand
    /\ command' = pending
    /\ serving' = seq
    /\ pending' = NoCommand
    /\ lock' = "free"
    /\ worker' = "decode"
    /\ UNCHANGED <<seq, shutdown, ui, issued>>

\* cv.wait releases the lock and sleeps in one step
CvWait ==
    /\ worker = "holding"
    /\ ~shutdown
    /\ pending = NoCommand
    /\ lock' = "free"
    /\ worker' = "asleep"
    /\ UNCHANGED <<seq, shutdown, pending, ui, serving, command, issued>>

SpuriousWake ==
    /\ worker = "asleep"
    /\ worker' = "wait"
    /\ UNCHANGED <<control, ui, serving, command, issued>>

WorkerStep ==
    \/ PollSeq \/ PollShutdown \/ AfterRun
    \/ WaitLock \/ TakeShutdown \/ TakeCommand \/ CvWait

Next ==
    \/ UiLock \/ UiSend
    \/ WorkerStep \/ RunEnds \/ SpuriousWake

(* The scheduler runs both threads: a send that began completes, and the   *)
(* worker keeps polling and waiting. Nobody has to send anything, a run    *)
(* need not end by itself and no wake-up need be spurious.                 *)
Fairness == WF_vars(UiSend) /\ WF_vars(WorkerStep)

Safety == Init /\ [][Next]_vars
Spec == Safety /\ Fairness

-----------------------------------------------------------------------------
(* Properties *)

TypeOK ==
    /\ seq \in 0 .. MaxCommands
    /\ shutdown \in BOOLEAN
    /\ pending \in Commands \union {NoCommand}
    /\ lock \in {"free", "ui", "worker"}
    /\ ui \in UiSteps
    /\ worker \in WorkerSteps
    /\ serving \in 0 .. MaxCommands
    /\ command \in Targets \union {NoCommand}
    /\ issued \in Seq(Commands)

(* Whenever the worker's cancellation predicate can see a newer sequence,  *)
(* the command behind it is in the slot (or still protected by the sender's *)
(* lock). The workers rely on it: a cancelled open calls wait_next assuming *)
(* it "never blocks when one is queued" (session.rs:1726).                  *)
PendingWhenBehind ==
    seq # serving => pending # NoCommand

(* The worker never sleeps on the condition variable with a command or a   *)
(* shutdown behind it, unless the sender still has its notify to come      *)
(* (decode_control.rs: wait_next tests both under the lock before cv.wait). *)
NoLostWakeup ==
    worker = "asleep" /\ (pending # NoCommand \/ shutdown)
        => ui \in {"flag", "bump", "unlock", "notify"}

(* Between the two threads nothing is lost: a newer sequence has its       *)
(* command in the slot, and no worker sleeps over a command or a shutdown. *)
NothingLost ==
    /\ TypeOK
    /\ PendingWhenBehind
    /\ NoLostWakeup

(* Only the newest command is ever taken, together with exactly its own    *)
(* sequence: "Bump the sequence under the lock so wait_next always reads a *)
(* sequence consistent with the command it takes" (decode_control.rs:77).  *)
LatestWins ==
    [][ serving' # serving =>
            /\ serving' = Len(issued)
            /\ command' = LastIssued ]_vars

(* A command that was sent is taken, superseded by a newer one that is, or *)
(* the worker leaves on the shutdown: rapid scrubbing cannot wedge it.     *)
CommandServed ==
    \A n \in 1 .. MaxCommands :
        (seq >= n) ~> (serving >= n \/ worker = "exited")

(* The mailbox implements "only the newest request is served".             *)
Abstract == INSTANCE LatestRequest
    WITH requested <- seq, served <- serving, stopped <- shutdown

ImplementsLatestRequest == Abstract!Spec
==================================================================================
