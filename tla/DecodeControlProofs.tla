--------------------------- MODULE DecodeControlProofs ---------------------------
(***************************************************************************)
(* What is proved of DecodeControl, for every set of targets and every     *)
(* number of commands: its invariants, that only the newest command is     *)
(* ever taken, and that its steps implement LatestRequest.                 *)
(***************************************************************************)
EXTENDS DecodeControl, TLAPS

-----------------------------------------------------------------------------
(* The inductive invariant, in named parts.                                 *)

\* The mutex is held exactly in the critical sections.
LockInv ==
    /\ lock = "ui" <=> ui \in {"store", "flag", "bump", "unlock"}
    /\ lock = "worker" <=> worker = "holding"

\* A command is stored just before its sequence number is published.
SequenceInv ==
    /\ Len(issued) = IF ui \in {"flag", "bump"} THEN seq + 1 ELSE seq
    /\ Len(issued) <= MaxCommands
    /\ ui = "store" => Len(issued) < MaxCommands
    /\ serving <= seq

\* What the slot holds is the newest command, and nobody has taken it.
SlotInv ==
    /\ pending # NoCommand =>
          /\ Len(issued) > 0
          /\ pending = LastIssued
          /\ serving < Len(issued)
    /\ ui \in {"flag", "bump"} => pending # NoCommand
    /\ PendingWhenBehind

\* The flag and the shutdown command in the slot go together, except while the
\* sender is between the two.
ShutdownInv ==
    /\ shutdown => pending = Shutdown
    /\ pending = Shutdown => shutdown \/ ui = "flag"
    /\ ui = "store" => ~shutdown
    /\ ui = "flag" => pending = Shutdown /\ ~shutdown

MailboxInv ==
    /\ TypeOK
    /\ LockInv
    /\ SequenceInv
    /\ SlotInv
    /\ ShutdownInv
    /\ NoLostWakeup

-----------------------------------------------------------------------------
(* Appending keeps what was there and puts the new command last.            *)
LEMMA AppendLast ==
    ASSUME NEW S, NEW s \in Seq(S), NEW c \in S
    PROVE  /\ Append(s, c) \in Seq(S)
           /\ Len(Append(s, c)) = Len(s) + 1
           /\ Append(s, c)[Len(Append(s, c))] = c
OBVIOUS

(* The mailbox starts empty, unlocked and with nothing sent.                *)
LEMMA InitMailbox == Init => MailboxInv
<1> SUFFICES ASSUME Init PROVE MailboxInv
    OBVIOUS
<1> USE DEF Init
<1>1. Len(issued) = 0 /\ issued \in Seq(Commands)
      OBVIOUS
<1>2. TypeOK
      <2>1. seq \in 0 .. MaxCommands /\ serving \in 0 .. MaxCommands
            BY MaxCommandsNat
      <2>2. /\ shutdown \in BOOLEAN
            /\ pending \in Commands \union {NoCommand}
            /\ command \in Targets \union {NoCommand}
            OBVIOUS
      <2>3. lock \in {"free", "ui", "worker"} /\ ui \in UiSteps /\ worker \in WorkerSteps
            BY DEF UiSteps, WorkerSteps
      <2> QED
          BY <1>1, <2>1, <2>2, <2>3 DEF TypeOK
<1>3. LockInv /\ NoLostWakeup
      BY DEF LockInv, NoLostWakeup
<1>4. SequenceInv
      BY <1>1, MaxCommandsNat DEF SequenceInv
<1>5. SlotInv
      BY DEF SlotInv, PendingWhenBehind
<1>6. ShutdownInv
      BY CommandsDiffer DEF ShutdownInv
<1> QED
    BY <1>2, <1>3, <1>4, <1>5, <1>6 DEF MailboxInv

(* Every step of either thread keeps the mailbox consistent.                *)
LEMMA StepMailbox == MailboxInv /\ [Next]_vars => MailboxInv'
<1> SUFFICES ASSUME MailboxInv, [Next]_vars PROVE MailboxInv'
    OBVIOUS
<1> USE CommandsDiffer, MaxCommandsNat
    DEF MailboxInv, TypeOK, LockInv, SequenceInv, SlotInv, ShutdownInv,
        NoLostWakeup, PendingWhenBehind, LastIssued, Commands, UiSteps, WorkerSteps,
        control
<1>1. CASE UiLock
      BY <1>1 DEF UiLock
<1>2. ASSUME NEW c \in Commands, UiStore(c) PROVE MailboxInv'
      <2>1. /\ issued' \in Seq(Commands)
            /\ Len(issued') = Len(issued) + 1
            /\ issued'[Len(issued')] = c
            BY <1>2, AppendLast DEF UiStore
      <2> QED BY <1>2, <2>1 DEF UiStore
<1>3. CASE UiFlag
      BY <1>3 DEF UiFlag
<1>4. CASE UiBump
      BY <1>4 DEF UiBump
<1>5. CASE UiUnlock
      BY <1>5 DEF UiUnlock
<1>6. CASE UiNotify
      BY <1>6 DEF UiNotify
<1>7. CASE PollSeq \/ PollShutdown \/ AfterRun \/ RunEnds
      BY <1>7 DEF PollSeq, PollShutdown, AfterRun, RunEnds
<1>8. CASE WaitLock
      BY <1>8 DEF WaitLock
<1>9. CASE TakeShutdown
      BY <1>9 DEF TakeShutdown
<1>10. CASE TakeCommand
      BY <1>10 DEF TakeCommand
<1>11. CASE CvWait
      BY <1>11 DEF CvWait
<1>12. CASE SpuriousWake
      BY <1>12 DEF SpuriousWake
<1>13. CASE UNCHANGED vars
      BY <1>13 DEF vars
<1> QED
    BY <1>1, <1>2, <1>3, <1>4, <1>5, <1>6, <1>7, <1>8, <1>9, <1>10, <1>11, <1>12, <1>13
       DEF Next, UiSend, WorkerStep

(* The invariant holds throughout, with or without fairness.                *)
THEOREM MailboxInvariant == Safety => []MailboxInv
BY InitMailbox, StepMailbox, PTL DEF Safety

(* Every variable keeps its type; in particular the worker never executes a *)
(* shutdown as if it were a seek.                                           *)
THEOREM TypeCorrect == Safety => []TypeOK
BY MailboxInvariant, PTL DEF MailboxInv

(* A worker that sees a newer sequence finds the command behind it: the     *)
(* wait_next of a cancelled open does not block.                            *)
THEOREM BehindHasPending == Safety => []PendingWhenBehind
BY MailboxInvariant, PTL DEF MailboxInv, SlotInv

(* No wake-up is lost: the worker never sleeps over a command or a shutdown *)
(* whose notify has already been sent.                                      *)
THEOREM WakeupsReachWorker == Safety => []NoLostWakeup
BY MailboxInvariant, PTL DEF MailboxInv

(* Nothing is lost between the two threads, for any number of commands.     *)
THEOREM NothingIsLost == Safety => []NothingLost
BY TypeCorrect, BehindHasPending, WakeupsReachWorker, PTL DEF NothingLost

(* Only the newest command is taken, with its own sequence number.          *)
THEOREM OnlyLatestTaken == Safety => LatestWins
<1>1. ASSUME MailboxInv, [Next]_vars
      PROVE  [serving' # serving => serving' = Len(issued) /\ command' = LastIssued]_vars
      <2> USE <1>1 DEF MailboxInv
      <2>1. CASE TakeCommand
            BY <2>1 DEF TakeCommand, LockInv, SequenceInv, SlotInv
      <2>2. CASE UNCHANGED serving
            BY <2>2
      <2> QED
          BY <2>1, <2>2
             DEF Next, UiSend, WorkerStep, vars, UiLock, UiStore, UiFlag, UiBump, UiUnlock,
                 UiNotify, PollSeq, PollShutdown, AfterRun, RunEnds, WaitLock, TakeShutdown,
                 CvWait, SpuriousWake
<1> QED
    BY <1>1, MailboxInvariant, PTL DEF Safety, LatestWins

(* Each step of the mailbox is a request, a service of the newest request,  *)
(* a stop, or invisible.                                                    *)
THEOREM MailboxImplements == Safety => Abstract!Safety
<1>1. Init => Abstract!Init
      BY DEF Init, Abstract!Init
<1>2. ASSUME MailboxInv, [Next]_vars PROVE [Abstract!Next]_(Abstract!vars)
      <2> USE <1>2 DEF MailboxInv, Abstract!Next, Abstract!vars
      <2>1. CASE UiBump
            BY <2>1 DEF UiBump, Abstract!Request
      <2>2. CASE UiFlag
            BY <2>2 DEF UiFlag, Abstract!Stop
      <2>3. CASE TakeCommand
            BY <2>3 DEF TakeCommand, Abstract!Serve, LockInv, SequenceInv, SlotInv, TypeOK
      <2>4. CASE UNCHANGED <<seq, serving, shutdown>>
            BY <2>4
      <2> QED
          BY <2>1, <2>2, <2>3, <2>4
             DEF Next, UiSend, WorkerStep, vars, control, UiLock, UiStore, UiUnlock,
                 UiNotify, PollSeq, PollShutdown, AfterRun, RunEnds, WaitLock,
                 TakeShutdown, CvWait, SpuriousWake
<1> QED
    BY <1>1, <1>2, MailboxInvariant, PTL DEF Safety, Abstract!Safety
==================================================================================
