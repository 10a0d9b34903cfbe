---------------------------- MODULE DecodeThreadProofs ----------------------------
(***************************************************************************)
(* What is proved of DecodeThread, for any number of operations, frames    *)
(* and slots and any mixture of faults: every worker is told what it has   *)
(* to know, nothing superseded is queued or believed, a worker that outlives*)
(* its device serves no other, and the player serves its newest request.   *)
(***************************************************************************)
EXTENDS DecodeThread, FiniteSetTheorems, SequenceTheorems, TLAPS

-----------------------------------------------------------------------------
(* The inductive invariant, in named parts. What concerns one worker r and  *)
(* its mailbox c is stated of the two as values: clock, gen and f are then  *)
(* the operation clock, the open generation and the open file.              *)

\* The session's variables, and how the clocks relate.
ClockInv ==
    /\ state \in {"idle", "opening", "seeking", "live", "error"}
    /\ file \in {"video", "audio"}
    /\ opClock \in 0 .. MaxOps /\ openGen \in 0 .. opClock /\ seekGen \in 0 .. opClock
    /\ activeOp \in {0, opClock} /\ shown \in 0 .. opClock
    /\ decodePreference \in {"auto", "software"}
    /\ ui \in {"ready", "joining"} /\ device \in 0 .. MaxOps
    /\ preference \in {"none", "auto", "software"}
    /\ ui = "joining" => opClock < MaxOps
    /\ openGen = 0 => state = "idle" /\ ui = "ready"

FlagsInv ==
    /\ videoExpected \in BOOLEAN /\ videoEnded \in BOOLEAN /\ retired \in BOOLEAN
    /\ ~videoExpected => file = "audio"

QueueInv ==
    /\ queue \in Seq([open : 1 .. MaxOps, seek : 0 .. MaxOps, op : Ops])
    /\ Len(queue) <= QueueCap
    /\ QueueIsCurrent

\* Nothing in the channel is of the future, and a verdict is about its own file.
ChannelInv ==
    /\ channel \in Seq(Events) /\ Len(channel) <= ChannelCap
    /\ \A i \in 1 .. Len(channel) :
          /\ channel[i].open <= openGen /\ channel[i].op <= opClock
          /\ channel[i].kind = "novideo" /\ channel[i].open = openGen => file = "audio"

Active == {"opening", "superseded", "sending", "retire", "decode", "ran", "parked"}
Resting == {"unborn", "releasing", "gone"}
Controls == [seq : Nat, shutdown : BOOLEAN, pending : Commands]

\* What a worker holds to send is its own, and it knows where to go on.
Sends(r) ==
    /\ r.hold.event \in Events /\ r.hold.event.open = r.open /\ r.hold.event.op = r.op
    /\ r.hold.sent \in {"decode", "retire", "parked", "exiting"}
    /\ r.hold.aborted \in {"decode", "superseded", "ran", "parked", "exiting"}
    /\ r.hold.sent = "retire" \/ r.hold.event.kind = "novideo" => r.file = "audio"
    /\ r.hold.event.kind = "ended" => r.hold.sent = "parked" /\ r.hold.aborted = "parked"

\* A worker at work, with its mailbox.
Serves(r, c, clock, gen, f) ==
    /\ r.open \in 1 .. gen /\ r.op \in 1 .. clock
    /\ r.open = gen => r.file = f
    /\ c.seq # r.serving => c.pending # NoPending
    /\ c.pending.kind = "seek" => r.op < c.pending.op
    /\ r.pc = "retire" => r.file = "audio"
    /\ r.pc = "sending" => Sends(r)

\* A worker with its mailbox.
Fits(w, r, c, clock, gen, f) ==
    /\ r \in Workers /\ c \in Controls
    /\ c.seq <= clock + 1 /\ (~c.shutdown => c.seq <= clock)
    /\ c.pending.kind = "shutdown" => c.shutdown
    /\ c.pending.kind = "seek" => c.pending.op <= clock
    /\ w > clock => r = Unborn /\ c = NewControl
    /\ r.pc = "superseded" => c.shutdown \/ c.pending # NoPending
    /\ r.pc \in Active => Serves(r, c, clock, gen, f)

WorkersInv ==
    /\ worker \in [Ops -> Workers] /\ ctl \in [Ops -> Controls]
    /\ \A w \in Ops : Fits(w, worker[w], ctl[w], opClock, openGen, file)

Alive(r) == r.pc \notin Resting
LiveWorkers == {w \in Ops : Alive(worker[w])}

\* The handle commands at most one worker, and counts them all.
HandleInv ==
    /\ control \in 0 .. opClock /\ join \in 0 .. opClock
    /\ control # 0 => ~ctl[control].shutdown
    /\ \A w \in Ops : Alive(worker[w]) /\ w # control => ctl[w].shutdown
    /\ count = Cardinality(LiveWorkers)

\* An operation is served by one worker at most.
Claims(r, c, n) ==
    \/ r.pc \in Active /\ r.op = n
    \/ c.pending.kind = "seek" /\ c.pending.op = n
UniqueInv ==
    \A v, w, n \in Ops :
        Claims(worker[v], ctl[v], n) /\ Claims(worker[w], ctl[w], n) => v = w

\* What may still lead to a frame of the operation a worker serves.
Producing(r) ==
    \/ r.pc \in {"opening", "decode"}
    \/ r.pc = "sending"
         /\ (r.hold.sent = "decode" \/ r.hold.aborted = "decode" \/ r.hold.event.kind = "frame")
Produces(r, c, n) ==
    \/ c.pending.kind = "seek" /\ c.pending.op = n
    \/ Producing(r) /\ r.op = n

\* Behind the end of an operation's stream come no more frames of it: not in the channel,
\* and not from any worker.
EndsInv ==
    \A i \in 1 .. Len(channel) : channel[i].kind = "ended" =>
        /\ \A j \in (i + 1) .. Len(channel) :
              channel[j].kind = "frame" => channel[j].op # channel[i].op
        /\ \A w \in Ops : ~Produces(worker[w], ctl[w], channel[i].op)

\* Nor once the end is accepted.
Finished(n) ==
    /\ \A i \in 1 .. Len(channel) : channel[i].kind = "frame" => channel[i].op # n
    /\ \A w \in Ops : ~Produces(worker[w], ctl[w], n)
EndedInv == videoEnded /\ videoExpected /\ activeOp # 0 => Finished(activeOp)

ThreadInv ==
    /\ ClockInv /\ FlagsInv /\ QueueInv /\ ChannelInv
    /\ WorkersInv /\ HandleInv /\ UniqueInv
    /\ EndsInv /\ EndedInv

-----------------------------------------------------------------------------
(* The initial state.                                                       *)

\* Nothing is open, nobody is at work and nothing waits: the invariant holds.
LEMMA InitThread == Init => ThreadInv
<1> SUFFICES ASSUME Init PROVE ThreadInv
    OBVIOUS
<1>0. MaxOps \in Nat /\ FramesPerRun \in Nat /\ QueueCap \in Nat /\ ChannelCap \in Nat
      BY ConstantsOK DEF ConstantsOK
<1>1. ClockInv /\ FlagsInv
      <2>1. /\ state = "idle" /\ file = "video" /\ ui = "ready" /\ device = 0
            /\ openGen = 0 /\ seekGen = 0 /\ opClock = 0 /\ activeOp = 0 /\ shown = 0
            /\ videoExpected = TRUE /\ videoEnded = FALSE /\ retired = FALSE
            /\ decodePreference = "auto" /\ preference = "none"
            BY DEF Init
      <2>2. /\ opClock \in 0 .. MaxOps /\ openGen \in 0 .. opClock /\ seekGen \in 0 .. opClock
            /\ activeOp \in {0, opClock} /\ shown \in 0 .. opClock
            BY <2>1, <1>0
      <2>3. /\ videoExpected \in BOOLEAN /\ videoEnded \in BOOLEAN /\ retired \in BOOLEAN
            /\ ~videoExpected => file = "audio"
            BY <2>1
      <2>4. ui = "joining" => opClock < MaxOps
            BY <2>1
      <2> QED
          BY <2>1, <2>2, <2>3, <2>4 DEF ClockInv, FlagsInv
<1>1a. QueueInv
      <2>1. queue = <<>> /\ Len(queue) = 0
            BY DEF Init
      <2> QED
          BY <2>1, <1>0 DEF QueueInv, QueueIsCurrent
<1>2. ChannelInv
      <2>1. channel = <<>> /\ Len(channel) = 0
            BY DEF Init
      <2> QED
          BY <2>1, <1>0 DEF ChannelInv
<1>3. Unborn \in Workers
      BY <1>0 DEF Unborn, NoHold, NoEvent, Workers, Pcs
<1>4. NewControl \in Controls /\ NewControl.pending.kind = "none" /\ NewControl.seq = 0
      BY DEF NewControl, Controls, Commands, NoPending
<1>5. Unborn.pc = "unborn"
      BY DEF Unborn
<1>6. \A w \in Ops : worker[w] = Unborn /\ ctl[w] = NewControl
      BY DEF Init
<1>7. WorkersInv
      <2>1. worker \in [Ops -> Workers] /\ ctl \in [Ops -> Controls]
            BY <1>3, <1>4 DEF Init
      <2>2. ASSUME NEW w \in Ops
            PROVE Fits(w, worker[w], ctl[w], opClock, openGen, file)
            BY <1>3, <1>4, <1>5, <1>6 DEF Fits, Active, Init
      <2> QED
          BY <2>1, <2>2 DEF WorkersInv
<1>8. LiveWorkers = {}
      BY <1>5, <1>6 DEF LiveWorkers, Alive, Resting
<1>9. HandleInv
      BY <1>5, <1>6, <1>8, FS_EmptySet DEF Init, HandleInv, Alive, Resting
<1>10. UniqueInv
      BY <1>4, <1>5, <1>6 DEF UniqueInv, Claims, Active
<1>11. EndsInv /\ EndedInv
      BY DEF Init, EndsInv, EndedInv
<1> QED
    BY <1>1, <1>1a, <1>2, <1>7, <1>9, <1>10, <1>11 DEF ThreadInv

-----------------------------------------------------------------------------
(* One worker moves: what it takes for the invariant to survive.            *)

\* What the assumption on the constants says of each bound.
LEMMA Numbers ==
    /\ MaxOps \in Nat /\ FramesPerRun \in Nat \ {0}
    /\ ChannelCap \in Nat \ {0} /\ QueueCap \in Nat \ {0}
BY ConstantsOK DEF ConstantsOK

\* What the pieces of a worker's step leave alone.
SessionStays == UNCHANGED <<session, ui, device, preference>> /\ retired' \in BOOLEAN

\* What leaves the session alone keeps its parts of the invariant.
LEMMA SessionStaysSound ==
    ASSUME ClockInv, FlagsInv, QueueInv, SessionStays
    PROVE  ClockInv' /\ FlagsInv' /\ QueueInv'
<1>1. ClockInv'
      BY DEF ClockInv, SessionStays, session
<1>2. FlagsInv'
      BY Zenon DEF FlagsInv, SessionStays, session
<1>3. QueueInv'
      BY DEF QueueInv, QueueIsCurrent, SessionStays, session
<1> QED
    BY <1>1, <1>2, <1>3

\* A worker of an operation still to come is unborn, so one that is at work fits for good.
LEMMA StaysAtWork ==
    ASSUME NEW w \in Ops, NEW q, NEW r \in Workers, NEW c,
           NEW clock, NEW gen, NEW f,
           Fits(w, q, c, clock, gen, f), q.pc \in Active, r.pc \in Active,
           r.open = q.open, r.file = q.file, r.op = q.op, r.serving = q.serving,
           r.pc = "superseded" => c.shutdown \/ c.pending # NoPending,
           r.pc = "retire" => r.file = "audio",
           r.pc = "sending" => Sends(r)
    PROVE  Fits(w, r, c, clock, gen, f)
<1>1. ~(w > clock)
      BY DEF Fits, Active, Unborn
<1>2. Serves(r, c, clock, gen, f)
      BY DEF Fits, Serves
<1> QED
    BY <1>1, <1>2 DEF Fits

LEMMA LeftIsWorker == Left \in Workers /\ Left.pc = "exiting" /\ Unborn \in Workers
<1>1. Unborn \in Workers
      BY Numbers DEF Unborn, NoHold, NoEvent, Workers, Pcs
<1> QED
    BY <1>1 DEF Left, Workers, Pcs, Unborn

\* So does one that is not at work, once it was.
LEMMA RestsWell ==
    ASSUME NEW w \in Ops, NEW q, NEW r \in Workers, NEW c,
           NEW clock, NEW gen, NEW f,
           Fits(w, q, c, clock, gen, f), q # Unborn,
           r.pc \notin Active
    PROVE  Fits(w, r, c, clock, gen, f)
BY DEF Fits, Active

\* The parts about the workers, as one of them moves to r and its mailbox to c.
LEMMA WorkerMoves ==
    ASSUME ClockInv, WorkersInv, HandleInv, UniqueInv,
           NEW w \in Ops, NEW r, NEW c,
           worker' = [worker EXCEPT ![w] = r], ctl' = [ctl EXCEPT ![w] = c],
           Fits(w, r, c, opClock, openGen, file),
           Alive(r) = Alive(worker[w]), c.shutdown = ctl[w].shutdown,
           \A n \in Ops : Claims(r, c, n) => Claims(worker[w], ctl[w], n),
           UNCHANGED <<opClock, openGen, file, control, join, count>>
    PROVE  WorkersInv' /\ HandleInv' /\ UniqueInv'
<1>1. r \in Workers /\ c \in Controls
      BY DEF Fits
<1>2. /\ \A v \in Ops : v # w => worker'[v] = worker[v] /\ ctl'[v] = ctl[v]
      /\ worker'[w] = r /\ ctl'[w] = c
      BY DEF WorkersInv
<1>3. WorkersInv'
      <2>1. worker' \in [Ops -> Workers] /\ ctl' \in [Ops -> Controls]
            BY <1>1 DEF WorkersInv
      <2>2. ASSUME NEW v \in Ops
            PROVE  Fits(v, worker'[v], ctl'[v], opClock', openGen', file')
            BY <1>2 DEF WorkersInv
      <2> QED
          BY <2>1, <2>2 DEF WorkersInv
<1>4. HandleInv'
      <2>1. \A v \in Ops : Alive(worker'[v]) = Alive(worker[v])
            BY <1>2
      <2>2. \A v \in Ops : ctl'[v].shutdown = ctl[v].shutdown
            BY <1>2
      <2>3. LiveWorkers' = LiveWorkers
            BY <2>1 DEF LiveWorkers
      <2>4. control # 0 => control \in Ops
            BY Numbers DEF ClockInv, HandleInv, Ops
      <2>5. control' # 0 => ~ctl'[control'].shutdown
            BY <2>2, <2>4 DEF HandleInv
      <2> QED
          BY <2>1, <2>2, <2>3, <2>5 DEF HandleInv
<1>5. UniqueInv'
      <2>1. \A v, n \in Ops : Claims(worker'[v], ctl'[v], n) => Claims(worker[v], ctl[v], n)
            BY <1>2
      <2> QED
          BY <2>1 DEF UniqueInv
<1> QED
    BY <1>3, <1>4, <1>5

\* The parts about the channel, if nobody produces what was not produced before.
LEMMA ChannelStays ==
    ASSUME ChannelInv, EndsInv, EndedInv,
           NEW w \in Ops, NEW r, NEW c,
           \A v \in Ops : v # w => worker'[v] = worker[v] /\ ctl'[v] = ctl[v],
           worker'[w] = r, ctl'[w] = c,
           \A n : Produces(r, c, n) => Produces(worker[w], ctl[w], n),
           UNCHANGED <<session, channel>>
    PROVE  ChannelInv' /\ EndsInv' /\ EndedInv'
<1>1. ChannelInv'
      BY DEF ChannelInv, session
<1>2. \A v \in Ops : \A n : Produces(worker'[v], ctl'[v], n) => Produces(worker[v], ctl[v], n)
      BY DEF EndsInv
<1>3. EndsInv'
      BY <1>2 DEF EndsInv
<1>4. EndedInv'
      BY <1>2 DEF EndedInv, Finished, session
<1> QED
    BY <1>1, <1>3, <1>4

-----------------------------------------------------------------------------
(* The shapes a worker's step has: it goes on, leaves, sends or takes.      *)

\* A worker at work goes on with its own operation.
LEMMA WorkerGoesOn ==
    ASSUME ThreadInv, NEW w \in Ops, NEW r \in Workers,
           worker[w].pc \in Active, r.pc \in Active,
           r.open = worker[w].open, r.file = worker[w].file, r.op = worker[w].op,
           r.serving = worker[w].serving,
           r.pc = "superseded" => ctl[w].shutdown \/ ctl[w].pending # NoPending,
           r.pc = "retire" => r.file = "audio",
           r.pc = "sending" => Sends(r),
           Producing(r) => Producing(worker[w]),
           worker' = [worker EXCEPT ![w] = r],
           UNCHANGED <<session, ui, device, control, preference, count, join, ctl, channel>>,
           retired' \in BOOLEAN
    PROVE  ThreadInv'
<1> USE DEF ThreadInv
<1>1. Fits(w, worker[w], ctl[w], opClock, openGen, file)
      BY DEF WorkersInv
<1>2. Fits(w, r, ctl[w], opClock, openGen, file)
      BY <1>1, StaysAtWork
<1>3. ctl' = [ctl EXCEPT ![w] = ctl[w]]
      BY DEF WorkersInv
<1>4. Alive(r) = Alive(worker[w])
      BY DEF Alive, Active, Resting
<1>5. \A n : Claims(r, ctl[w], n) => Claims(worker[w], ctl[w], n)
      BY DEF Claims
<1>6. \A n : Produces(r, ctl[w], n) => Produces(worker[w], ctl[w], n)
      BY DEF Produces
<1>7. WorkersInv' /\ HandleInv' /\ UniqueInv'
      BY <1>2, <1>3, <1>4, <1>5, WorkerMoves DEF session
<1>8. /\ \A v \in Ops : v # w => worker'[v] = worker[v] /\ ctl'[v] = ctl[v]
      /\ worker'[w] = r /\ ctl'[w] = ctl[w]
      BY DEF WorkersInv
<1>9. ChannelInv' /\ EndsInv' /\ EndedInv'
      BY <1>6, <1>8, ChannelStays
<1>10. ClockInv' /\ FlagsInv' /\ QueueInv'
      BY SessionStaysSound DEF SessionStays
<1> QED
    BY <1>7, <1>9, <1>10

\* The body of a worker returns.
LEMMA WorkerLeaves ==
    ASSUME ThreadInv, NEW w \in Ops, worker[w].pc \in Active,
           worker' = [worker EXCEPT ![w] = Left],
           UNCHANGED <<session, ui, device, control, preference, count, join, ctl, channel>>,
           retired' \in BOOLEAN
    PROVE  ThreadInv'
<1> USE DEF ThreadInv
<1>1. Fits(w, worker[w], ctl[w], opClock, openGen, file)
      BY DEF WorkersInv
<1>0. Left \in Workers /\ Left.pc = "exiting" /\ worker[w] # Unborn
      BY LeftIsWorker DEF Unborn, Active
<1>2. Fits(w, Left, ctl[w], opClock, openGen, file)
      BY <1>0, <1>1, RestsWell DEF Active
<1>3. ctl' = [ctl EXCEPT ![w] = ctl[w]]
      BY DEF WorkersInv
<1>4. Alive(Left) = Alive(worker[w])
      BY <1>0 DEF Alive, Active, Resting
<1>5. \A n : Claims(Left, ctl[w], n) => Claims(worker[w], ctl[w], n)
      BY <1>0 DEF Claims, Active
<1>6. \A n : Produces(Left, ctl[w], n) => Produces(worker[w], ctl[w], n)
      BY <1>0 DEF Produces, Producing
<1>7. WorkersInv' /\ HandleInv' /\ UniqueInv'
      BY <1>2, <1>3, <1>4, <1>5, WorkerMoves DEF session
<1>8. /\ \A v \in Ops : v # w => worker'[v] = worker[v] /\ ctl'[v] = ctl[v]
      /\ worker'[w] = Left /\ ctl'[w] = ctl[w]
      BY DEF WorkersInv
<1>9. ChannelInv' /\ EndsInv' /\ EndedInv'
      BY <1>6, <1>8, ChannelStays
<1>10. ClockInv' /\ FlagsInv' /\ QueueInv'
      BY SessionStaysSound DEF SessionStays
<1> QED
    BY <1>7, <1>9, <1>10

\* It takes the seek that waits in its mailbox.
LEMMA WorkerTakes ==
    ASSUME ThreadInv, NEW w \in Ops, NEW r \in Workers,
           worker[w].pc \in Active, ~ctl[w].shutdown, ctl[w].pending # NoPending,
           r.pc \in {"opening", "decode", "sending"},
           r.open = worker[w].open, r.file = worker[w].file, r.op = ctl[w].pending.op,
           r.serving = ctl[w].seq,
           r.pc = "sending" => Sends(r),
           worker' = [worker EXCEPT ![w] = r],
           ctl' = [ctl EXCEPT ![w].pending = NoPending],
           UNCHANGED <<session, ui, device, handle, channel>>
    PROVE  ThreadInv'
<1> USE DEF ThreadInv
<1> DEFINE c == [ctl[w] EXCEPT !.pending = NoPending]
<1>1. Fits(w, worker[w], ctl[w], opClock, openGen, file) /\ ctl \in [Ops -> Controls]
      BY DEF WorkersInv
<1>2. /\ ctl[w].pending.kind = "seek" /\ ctl[w].pending.op \in Ops
      /\ ctl[w].pending.op <= opClock /\ ~(w > opClock)
      BY <1>1 DEF Fits, Controls, Commands, ShutdownCommand, Active, Unborn
<1>3. /\ c \in Controls /\ c.pending = NoPending /\ c.pending.kind = "none"
      /\ c.seq = ctl[w].seq /\ c.shutdown = ctl[w].shutdown
      BY <1>1 DEF Controls, Commands, NoPending
<1>4. Serves(r, c, opClock, openGen, file)
      BY <1>1, <1>2, <1>3 DEF Fits, Serves, Ops
<1>5. Fits(w, r, c, opClock, openGen, file)
      BY <1>1, <1>2, <1>3, <1>4 DEF Fits, Active
<1>6. ctl' = [ctl EXCEPT ![w] = c]
      BY <1>1
<1>7. Alive(r) = Alive(worker[w])
      BY DEF Alive, Active, Resting
<1>8. \A n : Claims(r, c, n) => Claims(worker[w], ctl[w], n)
      BY <1>2, <1>3 DEF Claims
<1>9. \A n : Produces(r, c, n) => Produces(worker[w], ctl[w], n)
      BY <1>2, <1>3 DEF Produces
<1>10. WorkersInv' /\ HandleInv' /\ UniqueInv'
      <2> HIDE DEF c
      <2> QED
          BY <1>3, <1>5, <1>6, <1>7, <1>8, WorkerMoves DEF session, handle
<1>11. /\ \A v \in Ops : v # w => worker'[v] = worker[v] /\ ctl'[v] = ctl[v]
       /\ worker'[w] = r /\ ctl'[w] = c
      <2> HIDE DEF c
      <2> QED
          BY <1>1, <1>6 DEF WorkersInv
<1>12. ChannelInv' /\ EndsInv' /\ EndedInv'
      <2> HIDE DEF c
      <2> QED
          BY <1>9, <1>11, ChannelStays
<1>13. ClockInv' /\ FlagsInv' /\ QueueInv'
      BY SessionStaysSound DEF SessionStays, handle, FlagsInv
<1> QED
    BY <1>10, <1>12, <1>13

\* The event it holds goes into the channel.
LEMMA WorkerSends ==
    ASSUME ThreadInv, NEW w \in Ops, NEW r,
           worker[w].pc = "sending", Len(channel) < ChannelCap,
           channel' = Append(channel, worker[w].hold.event),
           worker' = [worker EXCEPT ![w] = r],
           Fits(w, r, ctl[w], opClock, openGen, file), Alive(r),
           \A n : Claims(r, ctl[w], n) => Claims(worker[w], ctl[w], n),
           \A n : Produces(r, ctl[w], n) => Produces(worker[w], ctl[w], n),
           worker[w].hold.event.kind = "ended" => ~Producing(r),
           UNCHANGED <<session, ui, device, handle, ctl>>
    PROVE  ThreadInv'
<1> USE DEF ThreadInv
<1> DEFINE e == worker[w].hold.event
           L == Len(channel)
<1>1. /\ Fits(w, worker[w], ctl[w], opClock, openGen, file)
      /\ worker \in [Ops -> Workers] /\ ctl \in [Ops -> Controls]
      BY DEF WorkersInv
<1>2. /\ Serves(worker[w], ctl[w], opClock, openGen, file) /\ Sends(worker[w])
      BY <1>1 DEF Fits, Active, Serves
<1>3. /\ e \in Events /\ e.open = worker[w].open /\ e.op = worker[w].op
      /\ e.open \in 1 .. openGen /\ e.op \in 1 .. opClock /\ e.op \in Ops
      /\ e.kind = "novideo" /\ e.open = openGen => file = "audio"
      BY <1>2, Numbers DEF Serves, Sends, Events
<1>4. /\ L \in Nat /\ channel' \in Seq(Events) /\ Len(channel') = L + 1
      /\ \A i \in 1 .. L : channel'[i] = channel[i]
      /\ channel'[L + 1] = e
      BY <1>3, AppendProperties DEF ChannelInv
<1>5. WorkersInv' /\ HandleInv' /\ UniqueInv'
      <2>1. ctl' = [ctl EXCEPT ![w] = ctl[w]]
            BY <1>1
      <2>2. Alive(r) = Alive(worker[w])
            BY DEF Alive, Resting
      <2> QED
          BY <2>1, <2>2, WorkerMoves DEF session, handle
<1>6. /\ \A v \in Ops : v # w => worker'[v] = worker[v]
      /\ worker'[w] = r /\ ctl' = ctl
      BY <1>1
<1>7. ChannelInv'
      <2>1. Len(channel') <= ChannelCap
            BY <1>4, Numbers
      <2>2. ASSUME NEW i \in 1 .. Len(channel')
            PROVE  /\ channel'[i].open <= openGen' /\ channel'[i].op <= opClock'
                   /\ channel'[i].kind = "novideo" /\ channel'[i].open = openGen'
                        => file' = "audio"
            <3>1. openGen' = openGen /\ opClock' = opClock /\ file' = file
                  BY DEF session
            <3>2. CASE i = L + 1
                  BY <1>3, <1>4, <3>1, <3>2 DEF ClockInv
            <3>3. CASE i # L + 1
                  <4>1. i \in 1 .. L /\ channel'[i] = channel[i]
                        BY <1>4, <3>3
                  <4> QED
                      BY <4>1, <3>1 DEF ChannelInv
            <3> QED
                BY <3>2, <3>3
      <2> QED
          BY <1>4, <2>1, <2>2 DEF ChannelInv
<1>8. \A v \in Ops : \A n : Produces(worker'[v], ctl'[v], n) => Produces(worker[v], ctl[v], n)
      BY <1>6
<1>9. e.kind = "frame" => Produces(worker[w], ctl[w], e.op)
      BY <1>3 DEF Produces, Producing
<1>10. ASSUME e.kind = "ended", NEW v \in Ops, Produces(worker'[v], ctl'[v], e.op)
       PROVE  FALSE
       <2>1. CASE v = w
             BY <1>2, <1>3, <1>6, <1>10, <2>1 DEF Produces, Serves, Ops
       <2>2. CASE v # w
             <3>1. Produces(worker[v], ctl[v], e.op)
                   BY <1>8, <1>10
             <3>2. Claims(worker[v], ctl[v], e.op)
                   BY <3>1 DEF Produces, Producing, Claims, Active
             <3>3. Claims(worker[w], ctl[w], e.op)
                   BY <1>3 DEF Claims, Active
             <3> QED
                 BY <1>3, <3>2, <3>3, <2>2 DEF UniqueInv
       <2> QED
           BY <2>1, <2>2
<1>11. EndsInv'
       <2> SUFFICES ASSUME NEW i \in 1 .. Len(channel'), channel'[i].kind = "ended"
                    PROVE  /\ \A j \in (i + 1) .. Len(channel') :
                                channel'[j].kind = "frame" => channel'[j].op # channel'[i].op
                           /\ \A v \in Ops : ~Produces(worker'[v], ctl'[v], channel'[i].op)
           BY DEF EndsInv
       <2>1. CASE i = L + 1
             <3>1. channel'[i] = e
                   BY <1>4, <2>1
             <3>2. (i + 1) .. Len(channel') = {}
                   BY <1>4, <2>1
             <3> QED
                 BY <3>1, <3>2, <1>10
       <2>2. CASE i # L + 1
             <3>1. i \in 1 .. L /\ channel'[i] = channel[i]
                   BY <1>4, <2>2
             <3>2. /\ \A j \in (i + 1) .. L :
                        channel[j].kind = "frame" => channel[j].op # channel[i].op
                   /\ \A v \in Ops : ~Produces(worker[v], ctl[v], channel[i].op)
                   BY <3>1 DEF EndsInv
             <3>3. ASSUME NEW j \in (i + 1) .. Len(channel'), channel'[j].kind = "frame"
                   PROVE  channel'[j].op # channel'[i].op
                   <4>1. CASE j = L + 1
                         BY <1>4, <1>9, <3>1, <3>2, <3>3, <4>1
                   <4>2. CASE j # L + 1
                         BY <1>4, <3>1, <3>2, <3>3, <4>2
                   <4> QED
                       BY <4>1, <4>2
             <3> QED
                 BY <1>8, <3>1, <3>2, <3>3
       <2> QED
           BY <2>1, <2>2
<1>12. EndedInv'
       <2> SUFFICES ASSUME videoEnded, videoExpected, activeOp # 0, Finished(activeOp)
                    PROVE  Finished(activeOp)'
           BY DEF EndedInv, session
       <2>1. activeOp' = activeOp
             BY DEF session
       <2>2. ASSUME NEW i \in 1 .. Len(channel'), channel'[i].kind = "frame"
             PROVE  channel'[i].op # activeOp
             <3>1. CASE i = L + 1
                   BY <1>4, <1>9, <2>2, <3>1 DEF Finished
             <3>2. CASE i # L + 1
                   BY <1>4, <2>2, <3>2 DEF Finished
             <3> QED
                 BY <3>1, <3>2
       <2> QED
           BY <1>8, <2>1, <2>2 DEF Finished
<1>13. ClockInv' /\ FlagsInv' /\ QueueInv'
       BY SessionStaysSound DEF SessionStays, handle, FlagsInv
<1> QED
    BY <1>5, <1>7, <1>11, <1>12, <1>13

\* The workers alive can be counted: there are at most as many as operations.
LEMMA FewWorkers == IsFiniteSet(LiveWorkers) /\ Cardinality(LiveWorkers) <= MaxOps
<1>1. IsFiniteSet(1 .. MaxOps) /\ Cardinality(1 .. MaxOps) = MaxOps
      BY FS_Interval, Numbers
<1>2. LiveWorkers \subseteq 1 .. MaxOps
      BY DEF LiveWorkers, Ops
<1> QED
    BY <1>1, <1>2, FS_Subset

\* A worker that holds no more of the invariant than the count moves on towards its end.
LEMMA WorkerFades ==
    ASSUME ThreadInv, NEW w \in Ops, NEW r \in Workers,
           worker[w] # Unborn, worker[w].pc \notin Active, r.pc \notin Active,
           worker' = [worker EXCEPT ![w] = r],
           UNCHANGED <<session, ui, device, control, preference, retired, join, ctl, channel>>,
           \/ Alive(r) = Alive(worker[w]) /\ count' = count
           \/ Alive(worker[w]) /\ ~Alive(r) /\ count' = count - 1
    PROVE  ThreadInv'
<1> USE DEF ThreadInv
<1>1. /\ Fits(w, worker[w], ctl[w], opClock, openGen, file)
      /\ worker \in [Ops -> Workers] /\ ctl \in [Ops -> Controls]
      BY DEF WorkersInv
<1>2. Fits(w, r, ctl[w], opClock, openGen, file)
      BY <1>1, RestsWell
<1>3. /\ \A v \in Ops : v # w => worker'[v] = worker[v] /\ ctl'[v] = ctl[v]
      /\ worker'[w] = r /\ ctl'[w] = ctl[w]
      BY <1>1
<1>4. WorkersInv'
      <2>1. worker' \in [Ops -> Workers] /\ ctl' \in [Ops -> Controls]
            BY <1>1
      <2>2. ASSUME NEW v \in Ops
            PROVE  Fits(v, worker'[v], ctl'[v], opClock', openGen', file')
            BY <1>2, <1>3 DEF WorkersInv, session
      <2> QED
          BY <2>1, <2>2 DEF WorkersInv
<1>5. UniqueInv'
      <2>1. \A v, n \in Ops : Claims(worker'[v], ctl'[v], n) => Claims(worker[v], ctl[v], n)
            BY <1>3 DEF Claims
      <2> QED
          BY <2>1 DEF UniqueInv
<1>6. \A n : Produces(r, ctl[w], n) => Produces(worker[w], ctl[w], n)
      BY DEF Produces, Producing, Active
<1>7. ChannelInv' /\ EndsInv' /\ EndedInv'
      BY <1>3, <1>6, ChannelStays
<1>8. ClockInv' /\ FlagsInv' /\ QueueInv'
      BY SessionStaysSound DEF SessionStays, FlagsInv
<1>9. HandleInv'
      <2>1. \A v \in Ops : Alive(worker'[v]) => Alive(worker[v])
            BY <1>3
      <2>2. count' = Cardinality(LiveWorkers')
            <3>1. CASE Alive(r) = Alive(worker[w]) /\ count' = count
                  <4>1. LiveWorkers' = LiveWorkers
                        BY <1>3, <3>1 DEF LiveWorkers
                  <4> QED
                      BY <3>1, <4>1 DEF HandleInv
            <3>2. CASE Alive(worker[w]) /\ ~Alive(r) /\ count' = count - 1
                  <4>1. LiveWorkers' = LiveWorkers \ {w} /\ w \in LiveWorkers
                        BY <1>3, <3>2 DEF LiveWorkers
                  <4>2. IsFiniteSet(LiveWorkers)
                        BY FewWorkers
                  <4>3. Cardinality(LiveWorkers') = Cardinality(LiveWorkers) - 1
                        BY <4>1, <4>2, FS_RemoveElement
                  <4> QED
                      BY <3>2, <4>3 DEF HandleInv
            <3> QED
                BY <3>1, <3>2
      <2>3. opClock' = opClock /\ ctl' = ctl
            BY DEF session
      <2> QED
          BY <2>1, <2>2, <2>3 DEF HandleInv
<1> QED
    BY <1>4, <1>5, <1>7, <1>8, <1>9

-----------------------------------------------------------------------------
(* The actions of a worker.                                                 *)

\* What is known of a worker at work.
LEMMA AtWork ==
    ASSUME WorkersInv, ClockInv, NEW w \in Ops, worker[w].pc \in Active
    PROVE  /\ worker[w] \in Workers /\ ctl[w] \in Controls
           /\ Fits(w, worker[w], ctl[w], opClock, openGen, file)
           /\ Serves(worker[w], ctl[w], opClock, openGen, file)
           /\ worker[w].open \in 1 .. MaxOps /\ worker[w].op \in Ops
           /\ worker[w].seek \in 0 .. MaxOps
<1>1. Fits(w, worker[w], ctl[w], opClock, openGen, file)
      BY DEF WorkersInv
<1>2. Serves(worker[w], ctl[w], opClock, openGen, file)
      BY <1>1 DEF Fits
<1>3. worker[w].open \in 1 .. MaxOps /\ worker[w].op \in Ops
      BY <1>2, Numbers DEF Serves, ClockInv, Ops
<1>4. worker[w] \in Workers /\ worker[w].seek \in 0 .. MaxOps
      BY <1>1 DEF Fits, Workers
<1> QED
    BY <1>1, <1>2, <1>3, <1>4 DEF Fits

EventKinds == {"opened", "frame", "ended", "novideo", "openfailed", "playbackfailed", "devicelost"}

\* An event a worker makes is an event of its own operation.
LEMMA StampedEvent ==
    ASSUME NEW w \in Ops, worker[w].open \in 1 .. MaxOps, worker[w].op \in Ops,
           worker[w].seek \in 0 .. MaxOps,
           NEW kind \in EventKinds, NEW mode \in {"none", "hardware", "software"}
    PROVE  /\ Stamped(w, kind, mode) \in Events
           /\ Stamped(w, kind, mode).open = worker[w].open
           /\ Stamped(w, kind, mode).op = worker[w].op
           /\ Stamped(w, kind, mode).kind = kind
BY DEF Stamped, Events, EventKinds

\* What a worker may have in hand.
Holds == [event : Events \union {NoEvent}, sent : Pcs, aborted : Pcs]

\* The worker q, at pc and with h in hand.
Placed(q, pc, h) == [q EXCEPT !.pc = pc, !.hold = h]

\* It is a worker, and nothing else of it changes.
LEMMA PlacedWorker ==
    ASSUME NEW q \in Workers, NEW pc \in Pcs, NEW h \in Holds
    PROVE  /\ Placed(q, pc, h) \in Workers
           /\ Placed(q, pc, h).pc = pc /\ Placed(q, pc, h).hold = h
           /\ Placed(q, pc, h).open = q.open /\ Placed(q, pc, h).file = q.file
           /\ Placed(q, pc, h).op = q.op /\ Placed(q, pc, h).serving = q.serving
<1>1. Placed(q, pc, h) \in Workers
      BY DEF Placed, Workers, Holds
<1>2. Placed(q, pc, h).pc = pc /\ Placed(q, pc, h).hold = h
      BY DEF Placed, Workers
<1>3. /\ Placed(q, pc, h).open = q.open /\ Placed(q, pc, h).file = q.file
      /\ Placed(q, pc, h).op = q.op /\ Placed(q, pc, h).serving = q.serving
      BY DEF Placed, Workers
<1> QED
    BY <1>1, <1>2, <1>3

\* A worker that takes an event to send is still a worker, with its operation.
LEMMA SendingWorker ==
    ASSUME NEW w \in Ops, worker[w] \in Workers,
           NEW e \in Events, NEW sent \in Pcs, NEW aborted \in Pcs
    PROVE  /\ Sending(w, e, sent, aborted) \in Workers
           /\ Sending(w, e, sent, aborted).pc = "sending"
           /\ Sending(w, e, sent, aborted).open = worker[w].open
           /\ Sending(w, e, sent, aborted).file = worker[w].file
           /\ Sending(w, e, sent, aborted).op = worker[w].op
           /\ Sending(w, e, sent, aborted).serving = worker[w].serving
           /\ Sending(w, e, sent, aborted).hold.event = e
           /\ Sending(w, e, sent, aborted).hold.sent = sent
           /\ Sending(w, e, sent, aborted).hold.aborted = aborted
<1> DEFINE h == [event |-> e, sent |-> sent, aborted |-> aborted]
<1>1. h \in Holds /\ h.event = e /\ h.sent = sent /\ h.aborted = aborted
      BY DEF Holds
<1>2. Sending(w, e, sent, aborted) = Placed(worker[w], "sending", h)
      BY DEF Sending, Placed
<1>3. "sending" \in Pcs
      BY DEF Pcs
<1> HIDE DEF h
<1> QED
    BY <1>1, <1>2, <1>3, PlacedWorker

\* Resumed: to go on, or to leave.
LEMMA ResumedWorker ==
    ASSUME NEW w \in Ops, worker[w] \in Workers, NEW pc \in Pcs, pc # "exiting"
    PROVE  /\ Resumed(w, pc) \in Workers /\ Resumed(w, pc).pc = pc
           /\ Resumed(w, pc).open = worker[w].open /\ Resumed(w, pc).file = worker[w].file
           /\ Resumed(w, pc).op = worker[w].op
           /\ Resumed(w, pc).serving = worker[w].serving
<1>1. NoHold \in Holds
      BY DEF NoHold, Holds, Pcs
<1>2. Resumed(w, pc) = Placed(worker[w], pc, NoHold)
      BY DEF Resumed, Placed
<1> QED
    BY <1>1, <1>2, PlacedWorker

\* A worker that only goes somewhere else keeps its operation.
LEMMA GoneTo ==
    ASSUME NEW w \in Ops, worker[w] \in Workers, NEW pc \in Pcs
    PROVE  LET r == [worker[w] EXCEPT !.pc = pc] IN
           /\ r \in Workers /\ r.pc = pc
           /\ r.open = worker[w].open /\ r.file = worker[w].file
           /\ r.op = worker[w].op /\ r.serving = worker[w].serving
BY DEF Workers

\* A cancelled worker has a command, for as long as it is at work.
LEMMA CancelledIsTold ==
    ASSUME ThreadInv, NEW w \in Ops, worker[w].pc \in Active, Cancelled(w)
    PROVE  ctl[w].shutdown \/ ctl[w].pending # NoPending
BY AtWork DEF ThreadInv, Cancelled, Serves

\* send_to_ui succeeds: the event is in the channel, the worker goes on.
LEMMA SendSound ==
    ASSUME ThreadInv, NEW w \in Ops, Send(w)
    PROVE  ThreadInv'
<1> DEFINE q == worker[w]
           r == Resumed(w, q.hold.sent)
<1>1. /\ q \in Workers /\ Sends(q)
      /\ Fits(w, q, ctl[w], opClock, openGen, file)
      BY AtWork DEF ThreadInv, Send, Active, Serves
<1>2. Len(channel) < ChannelCap
      BY Numbers DEF Send, ChannelFull, ThreadInv, ChannelInv
<1>3. CASE q.hold.sent = "exiting"
      <2>1. r = Left /\ Left \in Workers /\ Left.pc = "exiting" /\ q # Unborn
            BY <1>3, LeftIsWorker DEF Resumed, Send, Unborn
      <2>2. Fits(w, Left, ctl[w], opClock, openGen, file)
            BY <1>1, <2>1, RestsWell DEF Active
      <2>3. /\ Alive(Left) /\ ~Producing(Left)
            /\ \A n : Claims(Left, ctl[w], n) => Claims(q, ctl[w], n)
            /\ \A n : Produces(Left, ctl[w], n) => Produces(q, ctl[w], n)
            BY <2>1 DEF Alive, Resting, Producing, Claims, Produces, Active
      <2> QED
          BY <1>2, <2>1, <2>2, <2>3, WorkerSends DEF Send
<1>4. CASE q.hold.sent # "exiting"
      <2>1. q.hold.sent \in {"decode", "retire", "parked"}
            BY <1>1, <1>4 DEF Sends
      <2>2. /\ r \in Workers /\ r.pc = q.hold.sent /\ r.open = q.open /\ r.file = q.file
            /\ r.op = q.op /\ r.serving = q.serving
            BY <1>1, <2>1, ResumedWorker DEF Pcs
      <2> HIDE DEF r
      <2>3. r.pc \in Active /\ q.pc \in Active /\ r.pc # "superseded" /\ r.pc # "sending"
            BY <2>1, <2>2 DEF Active, Send
      <2>4. r.pc = "retire" => r.file = "audio"
            BY <1>1, <2>2 DEF Sends
      <2>5. Fits(w, r, ctl[w], opClock, openGen, file)
            BY <1>1, <2>2, <2>3, <2>4, StaysAtWork
      <2>6. /\ Alive(r)
            /\ \A n : Claims(r, ctl[w], n) => Claims(q, ctl[w], n)
            BY <2>2, <2>3 DEF Alive, Resting, Claims, Active
      <2>7. Producing(r) => Producing(q)
            BY <2>1, <2>2 DEF Producing, Send
      <2>8. \A n : Produces(r, ctl[w], n) => Produces(q, ctl[w], n)
            BY <2>2, <2>7 DEF Produces
      <2>9. q.hold.event.kind = "ended" => ~Producing(r)
            BY <1>1, <2>2 DEF Sends, Producing
      <2> QED
          BY <1>2, <2>5, <2>6, <2>8, <2>9, WorkerSends DEF Send, r
<1> QED
    BY <1>3, <1>4

\* send_to_ui gives up: the event is dropped, for the worker was told of something newer.
LEMMA SendCancelledSound ==
    ASSUME ThreadInv, NEW w \in Ops, SendCancelled(w)
    PROVE  ThreadInv'
<1> DEFINE q == worker[w]
           r == Resumed(w, q.hold.aborted)
<1>0. q.pc \in Active
      BY DEF SendCancelled, Active
<1>1. q \in Workers /\ Sends(q)
      BY <1>0, AtWork DEF ThreadInv, SendCancelled, Serves
<1>2. ctl[w].shutdown \/ ctl[w].pending # NoPending
      BY <1>0, CancelledIsTold DEF SendCancelled
<1>3. CASE q.hold.aborted = "exiting"
      <2>1. r = Left
            BY <1>3 DEF Resumed
      <2> QED
          BY <1>0, <2>1, WorkerLeaves DEF SendCancelled, Local, handle, ThreadInv, FlagsInv
<1>4. CASE q.hold.aborted # "exiting"
      <2>1. q.hold.aborted \in {"decode", "superseded", "ran", "parked"}
            BY <1>1, <1>4 DEF Sends
      <2>2. /\ r \in Workers /\ r.pc = q.hold.aborted /\ r.open = q.open /\ r.file = q.file
            /\ r.op = q.op /\ r.serving = q.serving
            BY <1>1, <2>1, ResumedWorker DEF Pcs
      <2>3. worker' = [worker EXCEPT ![w] = r] /\ UNCHANGED <<session, ui, device, handle, ctl, channel>>
            BY DEF SendCancelled, Local
      <2> HIDE DEF r
      <2>4. r.pc \in Active /\ r.pc # "retire" /\ r.pc # "sending"
            BY <2>1, <2>2 DEF Active
      <2>5. Producing(r) => Producing(q)
            BY <2>1, <2>2 DEF Producing, SendCancelled
      <2> QED
          BY <1>0, <1>2, <2>2, <2>3, <2>4, <2>5, WorkerGoesOn DEF handle, ThreadInv, FlagsInv
<1> QED
    BY <1>3, <1>4

\* The actions that only pick something to send: r does, apart from its decoder.
Likewise(r, s) ==
    /\ r \in Workers /\ r.pc = s.pc /\ r.open = s.open /\ r.file = s.file
    /\ r.op = s.op /\ r.serving = s.serving /\ r.hold = s.hold

\* What a worker may have in hand, and where it goes on once the event is sent or dropped.
Picks(w, kind, mode, sent, aborted) ==
    /\ worker[w].pc \in Active /\ kind \in EventKinds
    /\ mode \in {"none", "hardware", "software"}
    /\ sent \in {"decode", "retire", "parked", "exiting"}
    /\ aborted \in {"decode", "superseded", "ran", "parked", "exiting"}
    /\ (sent = "retire" \/ kind = "novideo") => worker[w].file = "audio"
    /\ kind = "ended" => sent = "parked" /\ aborted = "parked"
    /\ (sent = "decode" \/ aborted = "decode" \/ kind = "frame") => Producing(worker[w])

\* Nothing moves but the worker, and what its exit may set.
Moves(w, r) ==
    /\ worker' = [worker EXCEPT ![w] = r]
    /\ UNCHANGED <<session, ui, device, control, preference, count, join, ctl, channel>>
    /\ retired' \in BOOLEAN

\* The worker with an event of its own in hand is well formed.
LEMMA PicksUp ==
    ASSUME ThreadInv, NEW w \in Ops, NEW kind, NEW mode, NEW sent, NEW aborted,
           Picks(w, kind, mode, sent, aborted)
    PROVE  Sending(w, Stamped(w, kind, mode), sent, aborted) \in Workers
<1>1. sent \in Pcs /\ aborted \in Pcs
      BY DEF Picks, Pcs
<1>2. worker[w] \in Workers /\ kind \in EventKinds /\ mode \in {"none", "hardware", "software"}
      BY AtWork DEF ThreadInv, Picks
<1>3. worker[w].open \in 1 .. MaxOps /\ worker[w].op \in Ops /\ worker[w].seek \in 0 .. MaxOps
      BY AtWork DEF ThreadInv, Picks
<1>4. Stamped(w, kind, mode) \in Events
      BY <1>2, <1>3, StampedEvent
<1> QED
    BY <1>1, <1>2, <1>4, SendingWorker

\* A worker that takes up an event of its own, and moves nothing else, keeps the invariant.
LEMMA LocalSendSound ==
    ASSUME ThreadInv, NEW w \in Ops, NEW kind, NEW mode, NEW sent, NEW aborted,
           Picks(w, kind, mode, sent, aborted),
           NEW r, Likewise(r, Sending(w, Stamped(w, kind, mode), sent, aborted)),
           Moves(w, r)
    PROVE  ThreadInv'
<1> USE DEF Picks, Moves
<1> DEFINE e == Stamped(w, kind, mode)
           s == Sending(w, e, sent, aborted)
<1>1. e \in Events /\ worker[w] \in Workers
      BY AtWork, StampedEvent DEF ThreadInv
<1>2. sent \in Pcs /\ aborted \in Pcs
      BY DEF Pcs
<1>3. /\ s \in Workers /\ s.pc = "sending"
      /\ s.open = worker[w].open /\ s.file = worker[w].file
      /\ s.op = worker[w].op /\ s.serving = worker[w].serving
      /\ s.hold.event = e /\ s.hold.sent = sent /\ s.hold.aborted = aborted
      <2> HIDE DEF e
      <2> QED
          BY <1>1, <1>2, SendingWorker
<1>4. /\ r \in Workers /\ r.pc = s.pc /\ r.open = s.open /\ r.file = s.file
      /\ r.op = s.op /\ r.serving = s.serving /\ r.hold = s.hold
      BY DEF Likewise
<1> HIDE DEF s
<1>5. e.open = worker[w].open /\ e.op = worker[w].op /\ e.kind = kind
      BY AtWork, StampedEvent DEF ThreadInv
<1> HIDE DEF e
<1>6. Sends(r)
      BY <1>1, <1>3, <1>4, <1>5 DEF Sends
<1>7. Producing(r) => Producing(worker[w])
      BY <1>3, <1>4, <1>5 DEF Producing
<1> QED
    BY <1>3, <1>4, <1>6, <1>7, WorkerGoesOn DEF Active

\* The same for a worker that changes nothing of itself but what it has in hand.
LEMMA OwnSendSound ==
    ASSUME ThreadInv, NEW w \in Ops, NEW kind, NEW mode, NEW sent, NEW aborted,
           Picks(w, kind, mode, sent, aborted),
           Moves(w, Sending(w, Stamped(w, kind, mode), sent, aborted))
    PROVE  ThreadInv'
<1> DEFINE s == Sending(w, Stamped(w, kind, mode), sent, aborted)
<1>1. s \in Workers
      BY PicksUp
<1>2. Moves(w, s)
      OBVIOUS
<1> HIDE DEF s
<1>3. Likewise(s, s)
      BY <1>1 DEF Likewise
<1> QED
    BY <1>2, <1>3, LocalSendSound DEF s

\* A step that is the worker's own moves nothing else.
LEMMA LocalMoves ==
    ASSUME ThreadInv, NEW w \in Ops, NEW r, Local(w, r)
    PROVE  Moves(w, r)
BY DEF Local, handle, Moves, ThreadInv, FlagsInv

\* The command that is taken is a seek, of an operation that was made.
LEMMA TakenCommand ==
    ASSUME ClockInv, NEW w \in Ops, NEW q,
           Fits(w, q, ctl[w], opClock, openGen, file),
           ~ctl[w].shutdown, ctl[w].pending # NoPending
    PROVE  /\ ctl[w].pending.kind = "seek" /\ ctl[w].seq \in 0 .. MaxOps
           /\ ctl[w].pending.seek \in 1 .. MaxOps /\ ctl[w].pending.op \in Ops
           /\ ctl[w].pending.op \in 0 .. MaxOps /\ ctl[w].pending.seek \in 0 .. MaxOps
<1>1. /\ ctl[w].pending \in Commands /\ ctl[w].seq \in Nat /\ ctl[w].seq <= opClock
      /\ ctl[w].pending.kind = "shutdown" => ctl[w].shutdown
      BY DEF Fits, Controls
<1>2. ctl[w].pending \in [kind : {"seek"}, seek : 1 .. MaxOps, op : Ops]
      BY <1>1 DEF Commands, ShutdownCommand
<1> QED
    BY <1>1, <1>2, Numbers DEF ClockInv, Ops

\* The steps of an open: with or without a picture, interrupted, or failed.
LEMMA OpenSteps ==
    ASSUME ThreadInv, NEW w \in Ops,
           \/ ProbeAudioOnly(w) \/ ProbeVideo(w) \/ OpenInterrupted(w) \/ OpenFails(w)
    PROVE  ThreadInv'
<1>0. /\ worker[w].pc = "opening" /\ worker[w].pc \in Active /\ Producing(worker[w])
      /\ retired \in BOOLEAN /\ worker[w] \in Workers
      /\ worker[w].todo \in 0 .. FramesPerRun
      <2>1. worker[w].pc = "opening"
            BY DEF ProbeAudioOnly, ProbeVideo, OpenInterrupted, OpenFails
      <2>2. worker[w].pc \in Active /\ Producing(worker[w]) /\ retired \in BOOLEAN
            BY <2>1 DEF Active, Producing, ThreadInv, FlagsInv
      <2>3. worker[w] \in Workers
            BY <2>2, AtWork DEF ThreadInv
      <2> QED
          BY <2>1, <2>2, <2>3 DEF Workers
<1>1. ASSUME ProbeAudioOnly(w) PROVE ThreadInv'
      <2>1. /\ worker[w].file = "audio"
            /\ Local(w, Sending(w, Stamped(w, "opened", "none"), "retire", "superseded"))
            BY <1>1 DEF ProbeAudioOnly
      <2>2. Moves(w, Sending(w, Stamped(w, "opened", "none"), "retire", "superseded"))
            BY <2>1, LocalMoves
      <2>3. Picks(w, "opened", "none", "retire", "superseded")
            BY <1>0, <2>1 DEF Picks, EventKinds
      <2> QED
          BY <2>2, <2>3, OwnSendSound
<1>2. ASSUME ProbeVideo(w) PROVE ThreadInv'
      <2>1. CASE Cancelled(w) /\ Goto(w, "superseded")
            <3> DEFINE r == [worker[w] EXCEPT !.pc = "superseded"]
            <3>1. /\ r \in Workers /\ r.pc = "superseded"
                  /\ r.open = worker[w].open /\ r.file = worker[w].file
                  /\ r.op = worker[w].op /\ r.serving = worker[w].serving
                  BY <1>0 DEF Workers, Pcs
            <3>2. /\ worker' = [worker EXCEPT ![w] = r]
                  /\ UNCHANGED <<session, ui, device, handle, ctl, channel>>
                  BY <2>1 DEF Goto, Local
            <3>3. ctl[w].shutdown \/ ctl[w].pending # NoPending
                  BY <1>0, <2>1, CancelledIsTold
            <3> HIDE DEF r
            <3>4. r.pc \in Active /\ ~Producing(r)
                  BY <3>1 DEF Active, Producing
            <3>5. /\ UNCHANGED <<session, ui, device, control, preference, count, join, ctl, channel>>
                  /\ retired' \in BOOLEAN
                  BY <1>0, <3>2 DEF handle
            <3>6. worker' = [worker EXCEPT ![w] = r]
                  BY <3>2
            <3> QED
                BY <1>0, <3>1, <3>3, <3>4, <3>5, <3>6, WorkerGoesOn
      <2>2. CASE \E mode \in (IF worker[w].preference = "auto" THEN Modes ELSE {"software"}) :
                    Local(w, [Sending(w, Stamped(w, "opened", mode), "decode", "superseded")
                                EXCEPT !.mode = mode, !.todo = FramesPerRun])
            <3>1. PICK mode \in {"none", "hardware", "software"} :
                    Local(w, [Sending(w, Stamped(w, "opened", mode), "decode", "superseded")
                                EXCEPT !.mode = mode, !.todo = FramesPerRun])
                  BY <2>2, ConstantsOK DEF ConstantsOK
            <3> DEFINE s == Sending(w, Stamped(w, "opened", mode), "decode", "superseded")
                       r == [s EXCEPT !.mode = mode, !.todo = FramesPerRun]
            <3>1a. Picks(w, "opened", mode, "decode", "superseded")
                  BY <1>0, <3>1 DEF Picks, EventKinds
            <3>2. s \in Workers
                  BY <3>1a, PicksUp
            <3>3. Likewise(r, s)
                  <4>1. FramesPerRun \in 0 .. FramesPerRun
                        BY Numbers
                  <4> HIDE DEF s
                  <4>2. r \in Workers
                        BY <3>1, <3>2, <4>1 DEF Workers
                  <4>3. /\ r.pc = s.pc /\ r.open = s.open /\ r.file = s.file
                        /\ r.op = s.op /\ r.serving = s.serving /\ r.hold = s.hold
                        BY <3>2 DEF Workers
                  <4> HIDE DEF r
                  <4> QED
                      BY <4>2, <4>3 DEF Likewise
            <3>4. Local(w, r)
                  BY <3>1
            <3> HIDE DEF r
            <3>5. Moves(w, r)
                  BY <3>4, LocalMoves
            <3> QED
                BY <3>1a, <3>3, <3>5, LocalSendSound DEF s
      <2> QED
          BY <1>2, <2>1, <2>2 DEF ProbeVideo
<1>3. ASSUME OpenInterrupted(w) PROVE ThreadInv'
      BY <1>0, <1>3, WorkerLeaves DEF OpenInterrupted, Leave, Local, handle
<1>4. ASSUME OpenFails(w) PROVE ThreadInv'
      <2>1. PICK kind \in {"devicelost", "playbackfailed", "openfailed"} :
                Local(w, Sending(w, Stamped(w, kind, "none"), "exiting", "exiting"))
            BY <1>4 DEF OpenFails
      <2>2. Moves(w, Sending(w, Stamped(w, kind, "none"), "exiting", "exiting"))
            BY <2>1, LocalMoves
      <2>3. kind \in EventKinds /\ kind \notin {"novideo", "ended", "frame"}
            BY <2>1 DEF EventKinds
      <2>4. Picks(w, kind, "none", "exiting", "exiting")
            BY <1>0, <2>3 DEF Picks
      <2> QED
          BY <2>2, <2>4, OwnSendSound
<1> QED
    BY <1>1, <1>2, <1>3, <1>4

\* A seek is taken from the mailbox, to reopen the file or to go on with it.
LEMMA TakenSound ==
    ASSUME ThreadInv, NEW w \in Ops, worker[w].pc \in Active,
           ~ctl[w].shutdown, ctl[w].pending # NoPending,
           NEW pc \in {"opening", "decode"}, Taken(w, pc)
    PROVE  ThreadInv'
<1> DEFINE r == [worker[w] EXCEPT !.pc = pc, !.serving = ctl[w].seq,
                                  !.seek = ctl[w].pending.seek, !.op = ctl[w].pending.op,
                                  !.started = TRUE, !.todo = FramesPerRun]
<1>1. /\ worker[w] \in Workers /\ ctl[w] \in Controls
      /\ Fits(w, worker[w], ctl[w], opClock, openGen, file)
      BY AtWork DEF ThreadInv
<1>2. /\ ctl[w].seq \in 0 .. MaxOps
      /\ ctl[w].pending.seek \in 0 .. MaxOps /\ ctl[w].pending.op \in 0 .. MaxOps
      BY <1>1, TakenCommand DEF ThreadInv
<1>3. FramesPerRun \in 0 .. FramesPerRun /\ pc \in Pcs
      BY Numbers DEF Pcs
<1>4. /\ r \in Workers /\ r.pc = pc /\ r.open = worker[w].open /\ r.file = worker[w].file
      /\ r.op = ctl[w].pending.op /\ r.serving = ctl[w].seq
      BY <1>1, <1>2, <1>3 DEF Workers
<1>5. worker' = [worker EXCEPT ![w] = r]
      BY DEF Taken, ThreadInv, WorkersInv
<1> HIDE DEF r
<1> QED
    BY <1>4, <1>5, WorkerTakes DEF Taken

\* An open that was superseded waits for its command; one without a picture retires.
LEMMA OpenEnds ==
    ASSUME ThreadInv, NEW w \in Ops, Superseded(w) \/ Retire(w)
    PROVE  ThreadInv'
<1>0. worker[w].pc \in Active /\ retired \in BOOLEAN
      BY DEF Superseded, Retire, Active, ThreadInv, FlagsInv
<1>1. ASSUME Superseded(w) PROVE ThreadInv'
      <2>1. CASE ctl[w].shutdown /\ Leave(w)
            BY <1>0, <2>1, WorkerLeaves DEF Leave, Local, handle
      <2>2. CASE ~ctl[w].shutdown /\ ctl[w].pending # NoPending /\ Taken(w, "opening")
            BY <1>0, <2>2, TakenSound
      <2> QED
          BY <1>1, <2>1, <2>2 DEF Superseded
<1>2. ASSUME Retire(w) PROVE ThreadInv'
      <2>1. CASE ctl[w].shutdown
            <3>1. worker' = [worker EXCEPT ![w] = Left] /\ retired' \in BOOLEAN
                  BY <1>2, <2>1 DEF Retire
            <3> QED
                BY <1>0, <1>2, <3>1, WorkerLeaves DEF Retire
      <2>2. CASE ~ctl[w].shutdown
            <3>1. Moves(w, Sending(w, Stamped(w, "novideo", "none"), "exiting", "exiting"))
                  BY <1>2, <2>2 DEF Retire, Moves
            <3>2. worker[w].file = "audio"
                  BY <1>0, <1>2, AtWork DEF ThreadInv, Retire, Serves
            <3>3. Picks(w, "novideo", "none", "exiting", "exiting")
                  BY <1>0, <3>2 DEF Picks, EventKinds
            <3> QED
                BY <3>1, <3>3, OwnSendSound
      <2> QED
          BY <2>1, <2>2
<1> QED
    BY <1>1, <1>2

\* The steps of a run: a frame, the end, the fallback to software, a failure.
LEMMA RunSteps ==
    ASSUME ThreadInv, NEW w \in Ops,
           \/ DecodeFrame(w) \/ RunCompletes(w) \/ HardwareFallback(w) \/ RunFails(w)
    PROVE  ThreadInv'
<1>0. /\ worker[w].pc = "decode" /\ worker[w].pc \in Active /\ Producing(worker[w])
      /\ retired \in BOOLEAN /\ worker[w].todo \in 0 .. FramesPerRun
      <2>1. worker[w].pc = "decode"
            BY DEF DecodeFrame, RunCompletes, HardwareFallback, RunFails
      <2>2. worker[w].pc \in Active /\ Producing(worker[w]) /\ retired \in BOOLEAN
            BY <2>1 DEF Active, Producing, ThreadInv, FlagsInv
      <2>3. worker[w] \in Workers
            BY <2>2, AtWork DEF ThreadInv
      <2> QED
          BY <2>1, <2>2, <2>3 DEF Workers
<1>1. ASSUME DecodeFrame(w) PROVE ThreadInv'
      <2> DEFINE s == Sending(w, Stamped(w, "frame", "none"), "decode", "ran")
                 r == [s EXCEPT !.todo = @ - 1]
      <2>1. worker[w].todo > 0 /\ Local(w, r)
            BY <1>1 DEF DecodeFrame
      <2>1a. Picks(w, "frame", "none", "decode", "ran")
            BY <1>0 DEF Picks, EventKinds
      <2>2. s \in Workers
            BY <2>1a, PicksUp
      <2>3. s.todo = worker[w].todo
            BY <1>0, AtWork DEF ThreadInv, Sending, Workers
      <2>4. s.todo - 1 \in 0 .. FramesPerRun
            BY <1>0, <2>1, <2>3, Numbers
      <2>5. Likewise(r, s)
            <3> HIDE DEF s
            <3>1. r \in Workers
                  BY <2>2, <2>4 DEF Workers
            <3>2. /\ r.pc = s.pc /\ r.open = s.open /\ r.file = s.file
                  /\ r.op = s.op /\ r.serving = s.serving /\ r.hold = s.hold
                  BY <2>2 DEF Workers
            <3> HIDE DEF r
            <3> QED
                BY <3>1, <3>2 DEF Likewise
      <2> HIDE DEF r
      <2>6. Moves(w, r)
            BY <2>1, LocalMoves
      <2> QED
          BY <2>1a, <2>5, <2>6, LocalSendSound DEF s
<1>2. ASSUME RunCompletes(w) PROVE ThreadInv'
      <2>1. Local(w, Sending(w, Stamped(w, "ended", "none"), "parked", "parked"))
            BY <1>2 DEF RunCompletes
      <2>2. Moves(w, Sending(w, Stamped(w, "ended", "none"), "parked", "parked"))
            BY <2>1, LocalMoves
      <2>3. Picks(w, "ended", "none", "parked", "parked")
            BY <1>0 DEF Picks, EventKinds
      <2> QED
          BY <2>2, <2>3, OwnSendSound
<1>3. ASSUME HardwareFallback(w) PROVE ThreadInv'
      <2> DEFINE s == Sending(w, Stamped(w, "opened", "software"), "decode", "ran")
                 r == [s EXCEPT !.mode = "software", !.todo = FramesPerRun]
      <2>1. Local(w, r)
            BY <1>3 DEF HardwareFallback
      <2>1a. Picks(w, "opened", "software", "decode", "ran")
            BY <1>0 DEF Picks, EventKinds
      <2>2. s \in Workers
            BY <2>1a, PicksUp
      <2>3. FramesPerRun \in 0 .. FramesPerRun
            BY Numbers
      <2>4. Likewise(r, s)
            <3> HIDE DEF s
            <3>1. r \in Workers
                  BY <2>2, <2>3 DEF Workers
            <3>2. /\ r.pc = s.pc /\ r.open = s.open /\ r.file = s.file
                  /\ r.op = s.op /\ r.serving = s.serving /\ r.hold = s.hold
                  BY <2>2 DEF Workers
            <3> HIDE DEF r
            <3> QED
                BY <3>1, <3>2 DEF Likewise
      <2> HIDE DEF r
      <2>5. Moves(w, r)
            BY <2>1, LocalMoves
      <2> QED
          BY <2>1a, <2>4, <2>5, LocalSendSound DEF s
<1>4. ASSUME RunFails(w) PROVE ThreadInv'
      <2>1. CASE ctl[w].shutdown
            <3>1. Leave(w)
                  BY <1>4, <2>1 DEF RunFails
            <3> QED
                BY <1>0, <3>1, WorkerLeaves DEF Leave, Local, handle
      <2>2. CASE ~ctl[w].shutdown
            <3>1. PICK kind \in Failures : Local(w, Sending(w, Stamped(w, kind, "none"),
                                                            "parked", "parked"))
                  BY <1>4, <2>2 DEF RunFails
            <3>2. Moves(w, Sending(w, Stamped(w, kind, "none"), "parked", "parked"))
                  BY <3>1, LocalMoves
            <3>3. kind \in EventKinds /\ kind \notin {"novideo", "ended", "frame"}
                  BY <3>1 DEF Failures, EventKinds
            <3>4. Picks(w, kind, "none", "parked", "parked")
                  BY <1>0, <3>3 DEF Picks
            <3> QED
                BY <3>2, <3>4, OwnSendSound
      <2> QED
          BY <2>1, <2>2
<1> QED
    BY <1>1, <1>2, <1>3, <1>4

\* Going somewhere else with nothing in hand.
LEMMA GotoSound ==
    ASSUME ThreadInv, NEW w \in Ops, worker[w].pc \in Active,
           NEW pc \in {"ran", "parked"}, Goto(w, pc)
    PROVE  ThreadInv'
<1> DEFINE r == [worker[w] EXCEPT !.pc = pc]
<1>1. worker[w] \in Workers
      BY AtWork DEF ThreadInv
<1>2. /\ r \in Workers /\ r.pc = pc /\ r.open = worker[w].open /\ r.file = worker[w].file
      /\ r.op = worker[w].op /\ r.serving = worker[w].serving
      BY <1>1 DEF Workers, Pcs
<1>3. worker' = [worker EXCEPT ![w] = r] /\ UNCHANGED <<session, ui, device, handle, ctl, channel>>
      BY DEF Goto, Local
<1> HIDE DEF r
<1>4. r.pc \in Active /\ ~Producing(r)
      BY <1>2 DEF Active, Producing
<1> QED
    BY <1>2, <1>3, <1>4, WorkerGoesOn DEF handle, ThreadInv, FlagsInv

\* The steps between two runs: cancelled, parked, commanded.
LEMMA ParkSteps ==
    ASSUME ThreadInv, NEW w \in Ops,
           \/ RunCancelled(w) \/ AfterRun(w) \/ TakeSeek(w) \/ TakeSeekFails(w) \/ TakeShutdown(w)
    PROVE  ThreadInv'
<1>0. worker[w].pc \in Active /\ retired \in BOOLEAN
      BY DEF RunCancelled, AfterRun, TakeSeek, TakeSeekFails, TakeShutdown, Active,
             ThreadInv, FlagsInv
<1>1. ASSUME RunCancelled(w) PROVE ThreadInv'
      BY <1>0, <1>1, GotoSound DEF RunCancelled
<1>2. ASSUME AfterRun(w) PROVE ThreadInv'
      <2>1. Leave(w) \/ Goto(w, "parked")
            BY <1>2 DEF AfterRun
      <2>2. CASE Leave(w)
            BY <1>0, <2>2, WorkerLeaves DEF Leave, Local, handle
      <2>3. CASE Goto(w, "parked")
            BY <1>0, <2>3, GotoSound
      <2> QED
          BY <2>1, <2>2, <2>3
<1>3. ASSUME TakeSeek(w) PROVE ThreadInv'
      BY <1>0, <1>3, TakenSound DEF TakeSeek
<1>4. ASSUME TakeShutdown(w) PROVE ThreadInv'
      BY <1>0, <1>4, WorkerLeaves DEF TakeShutdown, Leave, Local, handle
<1>5. ASSUME TakeSeekFails(w) PROVE ThreadInv'
      <2>1. PICK kind \in Failures :
                worker' = [worker EXCEPT ![w] =
                  [@ EXCEPT !.pc = "sending", !.serving = ctl[w].seq,
                            !.seek = ctl[w].pending.seek, !.op = ctl[w].pending.op,
                            !.started = TRUE, !.todo = FramesPerRun,
                            !.hold = [event |-> [kind |-> kind, open |-> worker[w].open,
                                                 seek |-> ctl[w].pending.seek,
                                                 op |-> ctl[w].pending.op, mode |-> "none"],
                                      sent |-> "decode", aborted |-> "decode"]]]
            BY <1>5 DEF TakeSeekFails
      <2> DEFINE q == worker[w]
                 e == [kind |-> kind, open |-> q.open, seek |-> ctl[w].pending.seek,
                       op |-> ctl[w].pending.op, mode |-> "none"]
                 h == [event |-> e, sent |-> "decode", aborted |-> "decode"]
                 r == [q EXCEPT !.pc = "sending", !.serving = ctl[w].seq,
                                !.seek = ctl[w].pending.seek, !.op = ctl[w].pending.op,
                                !.started = TRUE, !.todo = FramesPerRun, !.hold = h]
      <2>2. /\ q \in Workers /\ ctl[w] \in Controls /\ q.open \in 1 .. MaxOps
            /\ Fits(w, q, ctl[w], opClock, openGen, file)
            BY <1>0, AtWork DEF ThreadInv
      <2>3. /\ ~ctl[w].shutdown /\ ctl[w].pending # NoPending
            /\ ctl' = [ctl EXCEPT ![w].pending = NoPending]
            /\ UNCHANGED <<session, ui, device, handle, channel>>
            BY <1>5 DEF TakeSeekFails
      <2>4. /\ ctl[w].seq \in 0 .. MaxOps /\ ctl[w].pending.seek \in 0 .. MaxOps
            /\ ctl[w].pending.op \in Ops /\ ctl[w].pending.op \in 0 .. MaxOps
            BY <2>2, <2>3, TakenCommand DEF ThreadInv
      <2>5. kind \in EventKinds /\ kind \notin {"novideo", "ended", "frame"}
            BY <2>1 DEF Failures, EventKinds
      <2>6. /\ e \in Events /\ e.open = q.open /\ e.op = ctl[w].pending.op /\ e.kind = kind
            BY <2>2, <2>4, <2>5 DEF Events, EventKinds
      <2>7. worker' = [worker EXCEPT ![w] = r]
            BY <2>1 DEF ThreadInv, WorkersInv
      <2> HIDE DEF e
      <2>8. h \in Holds /\ h.event = e /\ h.sent = "decode" /\ h.aborted = "decode"
            BY <2>6 DEF Holds, Pcs
      <2>9. FramesPerRun \in 0 .. FramesPerRun /\ "sending" \in Pcs
            BY Numbers DEF Pcs
      <2> HIDE DEF h
      <2>10. /\ r \in Workers /\ r.pc = "sending" /\ r.open = q.open /\ r.file = q.file
             /\ r.op = ctl[w].pending.op /\ r.serving = ctl[w].seq /\ r.hold = h
             BY <2>2, <2>4, <2>8, <2>9 DEF Workers, Holds
      <2> HIDE DEF r
      <2>11. Sends(r)
             BY <2>5, <2>6, <2>8, <2>10 DEF Sends
      <2> QED
          BY <1>0, <2>3, <2>7, <2>10, <2>11, WorkerTakes
<1> QED
    BY <1>1, <1>2, <1>3, <1>4, <1>5

\* A worker on its way out drops the guard of the count, and then its device clone.
LEMMA ExitSteps ==
    ASSUME ThreadInv, NEW w \in Ops, DropGuard(w) \/ ReleaseDevice(w)
    PROVE  ThreadInv'
<1>1. /\ worker[w] \in Workers /\ worker[w].pc \in {"exiting", "releasing"}
      /\ worker[w] # Unborn
      BY DEF ThreadInv, WorkersInv, DropGuard, ReleaseDevice, Unborn
<1>2. ASSUME DropGuard(w) PROVE ThreadInv'
      <2> DEFINE r == [worker[w] EXCEPT !.pc = "releasing"]
      <2>1. r \in Workers /\ r.pc = "releasing"
            BY <1>1 DEF Workers, Pcs
      <2>2. worker' = [worker EXCEPT ![w] = r] /\ count' = count - 1
            BY <1>2 DEF DropGuard
      <2> HIDE DEF r
      <2>3. r.pc \notin Active /\ worker[w].pc \notin Active /\ Alive(worker[w]) /\ ~Alive(r)
            BY <1>2, <2>1 DEF Active, Alive, Resting, DropGuard
      <2> QED
          BY <1>1, <1>2, <2>1, <2>2, <2>3, WorkerFades DEF DropGuard
<1>3. ASSUME ReleaseDevice(w) PROVE ThreadInv'
      <2> DEFINE r == [worker[w] EXCEPT !.pc = "gone"]
      <2>1. r \in Workers /\ r.pc = "gone"
            BY <1>1 DEF Workers, Pcs
      <2>2. /\ worker' = [worker EXCEPT ![w] = r]
            /\ UNCHANGED <<session, ui, device, handle, ctl, channel>>
            BY <1>3 DEF ReleaseDevice, Goto, Local
      <2> HIDE DEF r
      <2>3. /\ r.pc \notin Active /\ worker[w].pc \notin Active
            /\ ~Alive(worker[w]) /\ ~Alive(r)
            BY <1>3, <2>1 DEF Active, Alive, Resting, ReleaseDevice
      <2>4. Alive(r) = Alive(worker[w])
            BY <2>3 DEF Alive
      <2>5. UNCHANGED <<control, preference, retired, join, count>>
            BY <2>2 DEF handle
      <2> QED
          BY <1>1, <2>1, <2>2, <2>3, <2>4, <2>5, WorkerFades
<1> QED
    BY <1>2, <1>3

\* Every step of a worker keeps the invariant.
LEMMA WorkerStepSound ==
    ASSUME ThreadInv, NEW w \in Ops,
           \/ WorkerStep(w) \/ OpenFails(w) \/ HardwareFallback(w) \/ RunFails(w)
           \/ TakeSeekFails(w)
    PROVE  ThreadInv'
BY SendSound, SendCancelledSound, OpenSteps, OpenEnds, RunSteps, ParkSteps, ExitSteps
   DEF WorkerStep

-----------------------------------------------------------------------------
(* The coordinator's hold on the workers.                                   *)

\* What teardown leaves in the mailboxes.
LEMMA Signalled ==
    ASSUME ThreadInv
    PROVE  /\ ShutdownSent \in [Ops -> Controls]
           /\ \A w \in Ops :
                /\ Fits(w, worker[w], ShutdownSent[w], opClock, openGen, file)
                /\ \A n : Claims(worker[w], ShutdownSent[w], n) => Claims(worker[w], ctl[w], n)
                /\ \A n : Produces(worker[w], ShutdownSent[w], n) => Produces(worker[w], ctl[w], n)
                /\ Alive(worker[w]) => ShutdownSent[w].shutdown
                /\ w > opClock => ShutdownSent[w] = ctl[w]
<1> USE DEF ThreadInv
<1>1. ctl \in [Ops -> Controls] /\ worker \in [Ops -> Workers] /\ opClock \in Nat
      BY Numbers DEF WorkersInv, ClockInv
<1>2. \A w \in Ops : Fits(w, worker[w], ctl[w], opClock, openGen, file)
      BY DEF WorkersInv
<1>3. CASE control = 0
      <2>1. ShutdownSent = ctl
            BY <1>3 DEF ShutdownSent
      <2>2. \A w \in Ops : w # control
            BY <1>3, Numbers DEF Ops
      <2> QED
          BY <1>1, <1>2, <2>1, <2>2 DEF HandleInv
<1>4. CASE control # 0
      <2> DEFINE c == [seq |-> ctl[control].seq + 1, shutdown |-> TRUE, pending |-> ShutdownCommand]
      <2>1. control \in Ops /\ control <= opClock /\ ~ctl[control].shutdown
            BY <1>4, Numbers DEF HandleInv, ClockInv, Ops
      <2>2. ShutdownSent = [ctl EXCEPT ![control] = c]
            BY <1>1, <1>4, <2>1 DEF ShutdownSent
      <2>3. /\ c \in Controls /\ c.shutdown /\ c.pending # NoPending
            /\ c.pending.kind = "shutdown" /\ c.seq <= opClock + 1
            BY <1>1, <1>2, <2>1 DEF Controls, Commands, ShutdownCommand, NoPending, Fits
      <2> HIDE DEF c
      <2>4. ShutdownSent \in [Ops -> Controls]
            BY <1>1, <2>1, <2>2, <2>3
      <2>5. Fits(control, worker[control], c, opClock, openGen, file)
            <3>1. Fits(control, worker[control], ctl[control], opClock, openGen, file)
                  BY <1>2, <2>1
            <3>2. ~(control > opClock)
                  BY <1>1, <2>1 DEF Ops
            <3>3. worker[control].pc \in Active => Serves(worker[control], c, opClock, openGen, file)
                  BY <2>3, <3>1 DEF Fits, Serves
            <3> QED
                BY <2>3, <3>1, <3>2, <3>3 DEF Fits
      <2>6. ASSUME NEW w \in Ops
            PROVE  /\ Fits(w, worker[w], ShutdownSent[w], opClock, openGen, file)
                   /\ \A n : Claims(worker[w], ShutdownSent[w], n) => Claims(worker[w], ctl[w], n)
                   /\ \A n : Produces(worker[w], ShutdownSent[w], n)
                                => Produces(worker[w], ctl[w], n)
                   /\ Alive(worker[w]) => ShutdownSent[w].shutdown
                   /\ w > opClock => ShutdownSent[w] = ctl[w]
            <3>1. CASE w = control
                  <4>1. ShutdownSent[w] = c /\ ~(w > opClock)
                        BY <1>1, <2>1, <2>2, <3>1 DEF Ops
                  <4> QED
                      BY <2>3, <2>5, <3>1, <4>1 DEF Claims, Produces
            <3>2. CASE w # control
                  <4>1. ShutdownSent[w] = ctl[w]
                        BY <1>1, <2>1, <2>2, <3>2
                  <4> QED
                      BY <1>2, <3>2, <4>1 DEF HandleInv
            <3> QED
                BY <3>1, <3>2
      <2> QED
          BY <2>4, <2>6
<1> QED
    BY <1>3, <1>4

\* An operation begins: the clock moves on, and with it the generation of the file if it is
\* another one. Who fits goes on fitting, the worker of that operation aside.
LEMMA FitsLater ==
    ASSUME NEW clock \in Nat, NEW gen \in Nat, NEW f, NEW gen2, NEW f2,
           (gen2 = gen /\ f2 = f) \/ gen2 = gen + 1,
           NEW w \in Ops, w # clock + 1, NEW r, NEW c, Fits(w, r, c, clock, gen, f)
    PROVE  Fits(w, r, c, clock + 1, gen2, f2)
<1>1. w \in Nat
      BY Numbers DEF Ops
<1>2. w > clock + 1 => w > clock
      BY <1>1
<1>3. c \in Controls /\ c.seq \in Nat /\ c.pending \in Commands
      BY DEF Fits, Controls
<1>4. c.pending.kind = "seek" => c.pending.op \in Nat
      BY <1>3, Numbers DEF Commands, NoPending, ShutdownCommand, Ops
<1>5. ASSUME r.pc \in Active PROVE Serves(r, c, clock + 1, gen2, f2)
      <2>1. Serves(r, c, clock, gen, f)
            BY <1>5 DEF Fits
      <2>2. r.open \in 1 .. gen2 /\ r.op \in 1 .. clock + 1
            BY <2>1 DEF Serves
      <2>3. r.open = gen2 => r.file = f2
            BY <2>1 DEF Serves
      <2> QED
          BY <2>1, <2>2, <2>3 DEF Serves
<1> QED
    BY <1>2, <1>3, <1>4, <1>5 DEF Fits

\* The channel is not touched by that.
LEMMA ChannelLater ==
    ASSUME ClockInv, ChannelInv, UNCHANGED channel, opClock' = opClock + 1,
           (openGen' = openGen /\ file' = file) \/ openGen' = openGen + 1
    PROVE  /\ ChannelInv'
           /\ \A i \in 1 .. Len(channel) : channel[i].op # opClock'
<1>1. opClock \in Nat /\ openGen \in Nat
      BY Numbers DEF ClockInv
<1>2. ASSUME NEW i \in 1 .. Len(channel)
      PROVE  /\ channel[i].open <= openGen' /\ channel[i].op <= opClock'
             /\ channel[i].kind = "novideo" /\ channel[i].open = openGen' => file' = "audio"
             /\ channel[i].op # opClock'
      <2>1. channel[i] \in Events
            BY ElementOfSeq DEF ChannelInv
      <2>2. channel[i].open \in Nat /\ channel[i].op \in Nat
            BY <2>1, Numbers DEF Events, Ops
      <2> QED
          BY <1>1, <2>2 DEF ChannelInv
<1> QED
    BY <1>2 DEF ChannelInv

\* A worker is torn down, one is spawned for the operation that begins.
LEMMA RespawnSound ==
    ASSUME ThreadInv, NEW pref \in {"auto", "software"}, NEW started \in BOOLEAN,
           opClock < MaxOps, opClock' = opClock + 1, UNCHANGED channel,
           (openGen' = openGen /\ file' = file) \/ openGen' = openGen + 1,
           openGen' \in 1 .. opClock', seekGen' \in 0 .. opClock', file' \in {"video", "audio"},
           ~(videoEnded' /\ videoExpected'),
           Respawn(openGen', file', pref, seekGen', opClock', started)
    PROVE  /\ ChannelInv' /\ WorkersInv' /\ HandleInv' /\ UniqueInv' /\ EndsInv' /\ EndedInv'
           /\ preference' \in {"none", "auto", "software"} /\ retired' \in BOOLEAN
<1> USE DEF ThreadInv
<1> DEFINE op == opClock'
           T == ShutdownSent
           b == [Unborn EXCEPT !.pc = "opening", !.open = openGen', !.file = file',
                               !.preference = pref, !.started = started,
                               !.seek = seekGen', !.op = opClock']
<1>1. /\ opClock \in Nat /\ openGen \in Nat /\ op \in Ops /\ op > opClock /\ op <= MaxOps
      /\ openGen' \in 0 .. MaxOps /\ seekGen' \in 0 .. MaxOps /\ op \in 0 .. MaxOps
      BY Numbers DEF ClockInv, Ops
<1>2. /\ b \in Workers /\ b.pc = "opening" /\ b.open = openGen' /\ b.file = file'
      /\ b.op = op /\ b.serving = 0
      <2>1. Unborn \in Workers /\ Unborn.serving = 0 /\ "opening" \in Pcs
            BY LeftIsWorker DEF Unborn, Pcs
      <2> DEFINE f == file'
                 o == openGen'
                 k == seekGen'
                 n == opClock'
      <2>2. /\ o \in 0 .. MaxOps /\ f \in {"video", "audio"} /\ k \in 0 .. MaxOps
            /\ n \in 0 .. MaxOps
            BY <1>1
      <2> HIDE DEF f, o, k, n
      <2> DEFINE x == [Unborn EXCEPT !.pc = "opening", !.open = o, !.file = f,
                                     !.preference = pref, !.started = started,
                                     !.seek = k, !.op = n]
      <2>3. x \in Workers
            BY <2>1, <2>2 DEF Workers
      <2>4. x.pc = "opening" /\ x.open = o /\ x.file = f /\ x.op = n /\ x.serving = 0
            BY <2>1 DEF Workers
      <2>5. x = b
            BY DEF f, o, k, n
      <2> HIDE DEF b, x
      <2> QED
          BY <2>3, <2>4, <2>5 DEF f, o, n
<1>3. /\ worker' = [worker EXCEPT ![op] = b] /\ ctl' = T /\ control' = op
      /\ count' = count + 1 /\ join' = op /\ preference' = pref /\ retired' = FALSE
      BY DEF Respawn
<1> HIDE DEF b, T
<1>4. /\ T \in [Ops -> Controls] /\ worker \in [Ops -> Workers]
      /\ \A w \in Ops :
            /\ Fits(w, worker[w], T[w], opClock, openGen, file)
            /\ \A n : Claims(worker[w], T[w], n) => Claims(worker[w], ctl[w], n)
            /\ \A n : Produces(worker[w], T[w], n) => Produces(worker[w], ctl[w], n)
            /\ Alive(worker[w]) => T[w].shutdown
      BY Signalled DEF T, WorkersInv
<1>5. worker[op] = Unborn /\ T[op] = NewControl
      BY <1>1, <1>4 DEF Fits
<1>6. /\ NewControl \in Controls /\ NewControl.seq = 0 /\ ~NewControl.shutdown
      /\ NewControl.pending = NoPending /\ NoPending.kind = "none"
      BY DEF NewControl, NoPending, Controls, Commands
<1>7. /\ worker'[op] = b /\ \A w \in Ops : w # op => worker'[w] = worker[w]
      /\ worker' \in [Ops -> Workers]
      BY <1>1, <1>2, <1>3, <1>4
<1>8. WorkersInv'
      <2>1. ASSUME NEW w \in Ops
            PROVE  Fits(w, worker'[w], ctl'[w], opClock', openGen', file')
            <3>1. CASE w = op
                  <4>1. Serves(b, NewControl, opClock', openGen', file')
                        BY <1>1, <1>2, <1>6 DEF Serves
                  <4>2. Fits(op, b, NewControl, opClock', openGen', file')
                        BY <1>1, <1>2, <1>6, <4>1 DEF Fits
                  <4> QED
                      BY <1>3, <1>5, <1>7, <3>1, <4>2
            <3>2. CASE w # op
                  <4>1. Fits(w, worker[w], T[w], opClock, openGen, file)
                        BY <1>4
                  <4>2. Fits(w, worker[w], T[w], opClock + 1, openGen', file')
                        BY <1>1, <3>2, <4>1, FitsLater
                  <4> QED
                      BY <1>3, <1>7, <3>2, <4>2
            <3> QED
                BY <3>1, <3>2
      <2> QED
          BY <1>3, <1>4, <1>7, <2>1 DEF WorkersInv
<1>9. \A w \in Ops : ~Claims(worker[w], ctl[w], op)
      <2>1. ASSUME NEW w \in Ops, Claims(worker[w], ctl[w], op) PROVE FALSE
            <3>1. Fits(w, worker[w], ctl[w], opClock, openGen, file)
                  BY DEF WorkersInv
            <3> QED
                BY <1>1, <2>1, <3>1 DEF Claims, Fits, Serves
      <2> QED
          BY <2>1
<1>10. UniqueInv'
       <2>1. \A v \in Ops : v # op =>
                /\ ~Claims(worker'[v], ctl'[v], op)
                /\ \A n \in Ops : Claims(worker'[v], ctl'[v], n) => Claims(worker[v], ctl[v], n)
             BY <1>3, <1>4, <1>7, <1>9
       <2>2. \A n \in Ops : Claims(worker'[op], ctl'[op], n) => n = op
             BY <1>2, <1>3, <1>5, <1>6, <1>7 DEF Claims
       <2> QED
           BY <2>1, <2>2 DEF UniqueInv
<1>11. ChannelInv' /\ \A i \in 1 .. Len(channel) : channel[i].op # op
       BY ChannelLater
<1>12. EndsInv'
       <2>1. ASSUME NEW i \in 1 .. Len(channel), channel[i].kind = "ended", NEW w \in Ops,
                    Produces(worker'[w], ctl'[w], channel[i].op)
             PROVE  FALSE
             <3>1. CASE w = op
                   BY <1>2, <1>3, <1>5, <1>6, <1>7, <1>11, <2>1, <3>1 DEF Produces
             <3>2. CASE w # op
                   <4>1. Produces(worker[w], ctl[w], channel[i].op)
                         BY <1>3, <1>4, <1>7, <2>1, <3>2
                   <4> QED
                       BY <2>1, <4>1 DEF EndsInv
             <3> QED
                 BY <3>1, <3>2
       <2> QED
           BY <2>1 DEF EndsInv
<1>13. EndedInv'
       BY DEF EndedInv
<1>14. HandleInv'
       <2>1. Alive(b) /\ ~Alive(worker[op])
             BY <1>2, <1>5 DEF Alive, Resting, Unborn
       <2>2. LiveWorkers' = LiveWorkers \cup {op} /\ op \notin LiveWorkers
             BY <1>1, <1>7, <2>1 DEF LiveWorkers
       <2>3. Cardinality(LiveWorkers') = Cardinality(LiveWorkers) + 1
             BY <2>2, FewWorkers, FS_AddElement
       <2>4. count' = Cardinality(LiveWorkers')
             BY <1>3, <2>3 DEF HandleInv
       <2>5. ~ctl'[control'].shutdown
             BY <1>3, <1>5, <1>6
       <2>6. \A w \in Ops : Alive(worker'[w]) /\ w # control' => ctl'[w].shutdown
             BY <1>3, <1>4, <1>7
       <2>7. control' \in 0 .. opClock' /\ join' \in 0 .. opClock'
             BY <1>1, <1>3
       <2> QED
           BY <2>4, <2>5, <2>6, <2>7 DEF HandleInv
<1> QED
    BY <1>3, <1>8, <1>10, <1>11, <1>12, <1>13, <1>14

\* It is torn down with nothing in its place.
LEMMA TearDownSound ==
    ASSUME ThreadInv, TearDown,
           UNCHANGED <<opClock, openGen, file, worker>>
    PROVE  /\ WorkersInv' /\ HandleInv' /\ UniqueInv'
           /\ \A w \in Ops : \A n : Produces(worker'[w], ctl'[w], n)
                                      => Produces(worker[w], ctl[w], n)
<1> USE DEF ThreadInv
<1> DEFINE T == ShutdownSent
<1>1. ctl' = T /\ control' = 0 /\ UNCHANGED <<count, retired, join>>
      BY DEF TearDown
<1>2. /\ T \in [Ops -> Controls] /\ worker \in [Ops -> Workers]
      /\ \A w \in Ops :
            /\ Fits(w, worker[w], T[w], opClock, openGen, file)
            /\ \A n : Claims(worker[w], T[w], n) => Claims(worker[w], ctl[w], n)
            /\ \A n : Produces(worker[w], T[w], n) => Produces(worker[w], ctl[w], n)
            /\ Alive(worker[w]) => T[w].shutdown
      BY Signalled DEF WorkersInv
<1> HIDE DEF T
<1>3. WorkersInv'
      BY <1>1, <1>2 DEF WorkersInv
<1>4. UniqueInv'
      <2>1. \A v, n \in Ops : Claims(worker'[v], ctl'[v], n) => Claims(worker[v], ctl[v], n)
            BY <1>1, <1>2
      <2> QED
          BY <2>1 DEF UniqueInv
<1>5. HandleInv'
      <2>1. LiveWorkers' = LiveWorkers
            BY DEF LiveWorkers
      <2>2. 0 \in 0 .. opClock
            BY Numbers DEF ClockInv
      <2> QED
          BY <1>1, <1>2, <2>1, <2>2 DEF HandleInv
<1> QED
    BY <1>1, <1>2, <1>3, <1>4, <1>5

-----------------------------------------------------------------------------
(* The operations of the coordinator.                                       *)

\* What a restart within the file does to the session's own part.
LEMMA RestartSound ==
    ASSUME ThreadInv, RestartWithin, opClock < MaxOps, openGen # 0,
           ui' = "ready", device' \in 0 .. MaxOps, preference' \in {"none", "auto", "software"},
           retired' \in BOOLEAN
    PROVE  /\ ClockInv' /\ FlagsInv' /\ QueueInv'
           /\ opClock' = opClock + 1 /\ openGen' = openGen /\ file' = file
           /\ openGen' \in 1 .. opClock' /\ seekGen' \in 0 .. opClock' /\ file' \in {"video", "audio"}
           /\ ~(videoEnded' /\ videoExpected')
<1> USE DEF ThreadInv
<1>1. /\ seekGen' = seekGen + 1 /\ opClock' = opClock + 1 /\ activeOp' = opClock'
      /\ openGen' = openGen /\ file' = file /\ state' = "seeking" /\ queue' = <<>>
      /\ shown' = shown /\ decodePreference' = decodePreference
      BY DEF RestartWithin
<1>2. /\ videoExpected' = videoExpected /\ videoEnded' = ~videoExpected
      BY DEF RestartWithin
<1>3. ClockInv'
      BY <1>1, Numbers DEF ClockInv
<1>4. FlagsInv' /\ ~(videoEnded' /\ videoExpected')
      <2>1. videoExpected \in BOOLEAN /\ (~videoExpected => file = "audio")
            BY DEF FlagsInv
      <2> QED
          BY <1>1, <1>2, <2>1, Zenon DEF FlagsInv
<1>5. QueueInv'
      BY <1>1, Numbers DEF QueueInv, QueueIsCurrent
<1>6. openGen' \in 1 .. opClock' /\ seekGen' \in 0 .. opClock' /\ file' \in {"video", "audio"}
      BY <1>1, Numbers DEF ClockInv
<1> QED
    BY <1>1, <1>3, <1>4, <1>5, <1>6

\* Opening a file keeps it: a teardown, a new generation and a new worker.
LEMMA OpenSound ==
    ASSUME ThreadInv, NEW f \in Files, Open(f)
    PROVE  ThreadInv'
<1> USE DEF ThreadInv
<1>1. /\ ui = "ready" /\ opClock < MaxOps /\ openGen' = openGen + 1 /\ seekGen' = 0
      /\ opClock' = opClock + 1 /\ activeOp' = opClock' /\ file' = f
      /\ decodePreference' = "auto" /\ queue' = <<>> /\ state' = "opening"
      /\ UNCHANGED <<shown, ui, device, channel>>
      BY DEF Open, NewOperation
<1>2. videoExpected' = TRUE /\ videoEnded' = FALSE
      BY DEF Open
<1>3. Respawn(openGen', file', "auto", seekGen', opClock', FALSE)
      BY DEF Open, Respawn
<1>4. /\ openGen' \in 1 .. opClock' /\ seekGen' \in 0 .. opClock'
      /\ file' \in {"video", "audio"}
      BY <1>1, Numbers, ConstantsOK DEF ClockInv, ConstantsOK
<1>5. ~(videoEnded' /\ videoExpected')
      BY <1>2
<1>6. /\ ChannelInv' /\ WorkersInv' /\ HandleInv' /\ UniqueInv' /\ EndsInv' /\ EndedInv'
      /\ preference' \in {"none", "auto", "software"} /\ retired' \in BOOLEAN
      BY <1>1, <1>3, <1>4, <1>5, RespawnSound
<1>7. ClockInv'
      BY <1>1, <1>4, <1>6, Numbers DEF ClockInv
<1>8. FlagsInv'
      BY <1>2, <1>6 DEF FlagsInv
<1>9. QueueInv'
      BY <1>1, Numbers DEF QueueInv, QueueIsCurrent
<1> QED
    BY <1>6, <1>7, <1>8, <1>9

\* A restart that replaces the worker.
LEMMA RestartRespawnSound ==
    ASSUME ThreadInv, RestartWithin, opClock < MaxOps, openGen # 0,
           ui' = "ready", device' \in 0 .. MaxOps, UNCHANGED channel,
           Respawn(openGen, file, decodePreference, seekGen', opClock', TRUE)
    PROVE  ThreadInv'
<1> USE DEF ThreadInv
<1>1. decodePreference \in {"auto", "software"}
      BY DEF ClockInv
<1>2. preference' \in {"none", "auto", "software"} /\ retired' \in BOOLEAN
      BY <1>1 DEF Respawn
<1>3. /\ ClockInv' /\ FlagsInv' /\ QueueInv'
      /\ opClock' = opClock + 1 /\ openGen' = openGen /\ file' = file
      /\ openGen' \in 1 .. opClock' /\ seekGen' \in 0 .. opClock' /\ file' \in {"video", "audio"}
      /\ ~(videoEnded' /\ videoExpected')
      BY <1>2, RestartSound
<1>4. Respawn(openGen', file', decodePreference, seekGen', opClock', TRUE)
      BY <1>3
<1> QED
    BY <1>1, <1>3, <1>4, RespawnSound

\* A restart that the worker is sent as a command.
LEMMA SeekInPlaceSound ==
    ASSUME ThreadInv, RestartWithin, opClock < MaxOps, openGen # 0, control # 0,
           ctl' = [ctl EXCEPT ![control].seq = @ + 1,
                              ![control].pending = SeekCommand(seekGen', opClock')],
           UNCHANGED <<ui, device, channel, handle, worker>>, ui = "ready"
    PROVE  ThreadInv'
<1> USE DEF ThreadInv
<1>1. /\ ClockInv' /\ FlagsInv' /\ QueueInv'
      /\ opClock' = opClock + 1 /\ openGen' = openGen /\ file' = file
      /\ openGen' \in 1 .. opClock' /\ seekGen' \in 0 .. opClock' /\ file' \in {"video", "audio"}
      /\ ~(videoEnded' /\ videoExpected')
      <2>1. device \in 0 .. MaxOps /\ preference \in {"none", "auto", "software"}
            BY DEF ClockInv
      <2>2. retired \in BOOLEAN
            BY DEF FlagsInv
      <2> QED
          BY <2>1, <2>2, RestartSound DEF handle
<1>2. seekGen' = seekGen + 1
      BY DEF RestartWithin
<1> DEFINE op == opClock'
           k == SeekCommand(seekGen', op)
           c == [ctl[control] EXCEPT !.seq = @ + 1, !.pending = k]
<1>3. /\ opClock \in Nat /\ op \in Nat /\ op <= MaxOps /\ op \in Ops /\ control \in Ops
      /\ control \in Nat
      /\ control <= opClock /\ seekGen' \in 1 .. MaxOps
      BY <1>1, <1>2, Numbers DEF ClockInv, Ops, HandleInv
<1>4. ctl \in [Ops -> Controls] /\ worker \in [Ops -> Workers]
      BY DEF WorkersInv
<1>5. /\ k \in Commands /\ k.kind = "seek" /\ k.op = op /\ k # NoPending
      BY <1>3 DEF SeekCommand, Commands, NoPending
<1> HIDE DEF k
<1>6. /\ c \in Controls /\ c.seq = ctl[control].seq + 1 /\ c.pending = k
      /\ c.shutdown = ctl[control].shutdown /\ ~c.shutdown
      <2>1. ctl[control] \in Controls /\ ctl[control].seq + 1 \in Nat
            BY <1>3, <1>4 DEF Controls
      <2>2. ~ctl[control].shutdown
            BY DEF HandleInv
      <2>3. /\ c \in Controls /\ c.seq = ctl[control].seq + 1 /\ c.pending = k
            BY <1>5, <2>1 DEF Controls
      <2>4. c.shutdown = ctl[control].shutdown
            BY <2>1 DEF Controls
      <2> HIDE DEF c
      <2> QED
          BY <2>2, <2>3, <2>4
<1>7. ctl' = [ctl EXCEPT ![control] = c]
      BY <1>3, <1>4 DEF k
<1> HIDE DEF c
<1>8. /\ ctl' \in [Ops -> Controls] /\ ctl'[control] = c
      /\ \A w \in Ops : w # control => ctl'[w] = ctl[w]
      BY <1>3, <1>4, <1>6, <1>7
<1>9. WorkersInv'
      <2>1. ASSUME NEW w \in Ops
            PROVE  Fits(w, worker'[w], ctl'[w], opClock', openGen', file')
            <3>1. /\ Fits(w, worker[w], ctl[w], opClock, openGen, file)
                  /\ worker'[w] = worker[w]
                  BY DEF WorkersInv
            <3>2. CASE w = control
                  <4>1. Fits(control, worker[control], ctl[control], opClock, openGen, file)
                        BY <3>1, <3>2
                  <4>2. ctl[control].seq <= opClock
                        BY <1>6, <4>1 DEF Fits
                  <4>3. worker[control].pc \in Active
                           => Serves(worker[control], c, opClock', openGen', file')
                        BY <1>1, <1>3, <1>5, <1>6, <4>1 DEF Fits, Serves
                  <4>4. worker[control] \in Workers /\ ctl[control].seq \in Nat
                        BY <4>1 DEF Fits, Controls
                  <4>5. Fits(control, worker[control], c, opClock', openGen', file')
                        <5>1. /\ ~(control > opClock') /\ c.seq <= opClock' /\ c.seq <= opClock' + 1
                              /\ k.op <= opClock'
                              BY <1>1, <1>3, <1>5, <1>6, <4>2, <4>4
                        <5> QED
                            BY <1>5, <1>6, <4>3, <4>4, <5>1 DEF Fits
                  <4> QED
                      BY <1>8, <3>1, <3>2, <4>5
            <3>3. CASE w # control
                  <4>0. openGen \in Nat
                        BY <1>1 DEF ClockInv
                  <4>1. CASE w = op
                        <5>1. worker[w] = Unborn /\ ctl[w] = NewControl
                              BY <1>1, <1>3, <3>1, <4>1 DEF Fits
                        <5>2. /\ NewControl \in Controls /\ NewControl.seq = 0
                              /\ ~NewControl.shutdown
                              /\ NewControl.pending = NoPending /\ NoPending.kind = "none"
                              BY DEF NewControl, NoPending, Controls, Commands
                        <5>3. Unborn \in Workers /\ Unborn.pc = "unborn"
                              BY LeftIsWorker DEF Unborn
                        <5>4. ~(w > opClock') /\ 0 <= opClock' + 1 /\ 0 <= opClock'
                              BY <1>3, <4>1
                        <5>5. Fits(w, Unborn, NewControl, opClock', openGen', file')
                              BY <5>2, <5>3, <5>4 DEF Fits, Active
                        <5> QED
                            BY <1>8, <3>1, <3>3, <5>1, <5>5
                  <4>2. CASE w # op
                        <5>1. Fits(w, worker[w], ctl[w], opClock + 1, openGen', file')
                              BY <1>1, <1>3, <3>1, <4>0, <4>2, FitsLater
                        <5> QED
                            BY <1>1, <1>8, <3>1, <3>3, <5>1
                  <4> QED
                      BY <4>1, <4>2
            <3> QED
                BY <3>2, <3>3
      <2> QED
          BY <1>4, <1>8, <2>1 DEF WorkersInv
<1>10. \A w \in Ops : ~Claims(worker[w], ctl[w], op)
       <2>1. ASSUME NEW w \in Ops, Claims(worker[w], ctl[w], op) PROVE FALSE
             <3>1. Fits(w, worker[w], ctl[w], opClock, openGen, file)
                   BY DEF WorkersInv
             <3> QED
                 BY <1>1, <1>3, <2>1, <3>1 DEF Claims, Fits, Serves
       <2> QED
           BY <2>1
<1>11. \A w \in Ops : \A n : Claims(worker'[w], ctl'[w], n)
                               => Claims(worker[w], ctl[w], n) \/ (w = control /\ n = op)
       <2>1. ASSUME NEW w \in Ops, NEW n, Claims(worker'[w], ctl'[w], n)
             PROVE  Claims(worker[w], ctl[w], n) \/ (w = control /\ n = op)
             BY <1>5, <1>6, <1>8, <2>1 DEF Claims
       <2> QED
           BY <2>1
<1>12. \A w \in Ops : \A n : Produces(worker'[w], ctl'[w], n)
                               => Produces(worker[w], ctl[w], n) \/ n = op
       <2>1. ASSUME NEW w \in Ops, NEW n, Produces(worker'[w], ctl'[w], n)
             PROVE  Produces(worker[w], ctl[w], n) \/ n = op
             <3>1. worker'[w] = worker[w]
                   BY <1>5
             <3>2. CASE w # control
                   BY <1>8, <2>1, <3>1, <3>2
             <3>3. CASE w = control
                   <4>1. CASE Producing(worker'[w]) /\ worker'[w].op = n
                         BY <3>1, <4>1 DEF Produces
                   <4>2. CASE ctl'[w].pending.kind = "seek" /\ ctl'[w].pending.op = n
                         BY <1>5, <1>6, <1>8, <3>3, <4>2
                   <4> QED
                       BY <2>1, <4>1, <4>2 DEF Produces
             <3> QED
                 BY <3>2, <3>3
       <2> QED
           BY <2>1
<1>13. UniqueInv'
       BY <1>10, <1>11 DEF UniqueInv
<1>14. ChannelInv' /\ \A i \in 1 .. Len(channel) : channel[i].op # op
       BY <1>1, ChannelLater
<1>15. EndsInv'
       BY <1>12, <1>14 DEF EndsInv
<1>16. EndedInv'
       BY <1>1 DEF EndedInv
<1>17. HandleInv'
       <2>1. \A w \in Ops : ctl'[w].shutdown = ctl[w].shutdown
             BY <1>6, <1>8
       <2>2. LiveWorkers' = LiveWorkers /\ UNCHANGED <<control, join, count>>
             BY DEF LiveWorkers, handle
       <2>3. control \in 0 .. opClock' /\ join \in 0 .. opClock'
             BY <1>1, <1>3 DEF HandleInv
       <2>4. ~ctl'[control].shutdown
             BY <1>6, <1>8
       <2> QED
           BY <2>1, <2>2, <2>3, <2>4 DEF HandleInv
<1> QED
    BY <1>1, <1>9, <1>13, <1>14, <1>15, <1>16, <1>17

-----------------------------------------------------------------------------
(* Draining the channel.                                                    *)

\* The event at the head of the channel, and what is left behind it.
LEMMA Taking ==
    ASSUME ThreadInv, Take
    PROVE  /\ Event \in Events /\ Event = channel[1] /\ 1 \in 1 .. Len(channel)
           /\ Event.open <= openGen /\ Event.op <= opClock
           /\ Event.open \in 1 .. MaxOps /\ Event.op \in Ops /\ Event.seek \in 0 .. MaxOps
           /\ Event.kind = "novideo" /\ Event.open = openGen => file = "audio"
           /\ channel' \in Seq(Events) /\ Len(channel') = Len(channel) - 1 /\ Len(channel) \in Nat
           /\ \A i \in 1 .. Len(channel') :
                 i + 1 \in 1 .. Len(channel) /\ channel'[i] = channel[i + 1]
<1> USE DEF ThreadInv
<1>1. channel \in Seq(Events) /\ channel # <<>> /\ channel' = Tail(channel)
      BY DEF Take, ChannelInv
<1>2. /\ Head(channel) \in Events /\ Head(channel) = channel[1]
      /\ Len(channel) \in Nat /\ Len(channel) >= 1
      /\ Tail(channel) \in Seq(Events) /\ Len(Tail(channel)) = Len(channel) - 1
      /\ \A i \in 1 .. Len(Tail(channel)) : Tail(channel)[i] = channel[i + 1]
      BY <1>1, HeadTailProperties
<1>3. 1 \in 1 .. Len(channel)
      BY <1>2
<1>4. /\ Event \in Events /\ Event = channel[1]
      BY <1>2 DEF Event
<1>5. /\ Event.open <= openGen /\ Event.op <= opClock
      /\ Event.kind = "novideo" /\ Event.open = openGen => file = "audio"
      BY <1>3, <1>4 DEF ChannelInv
<1>6. /\ Event.open \in 1 .. MaxOps /\ Event.op \in Ops /\ Event.seek \in 0 .. MaxOps
      BY <1>4 DEF Events
<1>7. \A i \in 1 .. Len(channel') : i + 1 \in 1 .. Len(channel) /\ channel'[i] = channel[i + 1]
      BY <1>1, <1>2
<1> QED
    BY <1>1, <1>2, <1>3, <1>4, <1>5, <1>6, <1>7

\* The channel keeps what the invariant says of it when an event is taken.
LEMMA TakeSound ==
    ASSUME ThreadInv, Take, UNCHANGED <<openGen, opClock, file>>,
           \A w \in Ops : \A n : Produces(worker'[w], ctl'[w], n)
                                   => Produces(worker[w], ctl[w], n)
    PROVE  /\ ChannelInv' /\ EndsInv'
           /\ \A n : Finished(n) => Finished(n)'
<1> USE DEF ThreadInv
<1>1. /\ channel' \in Seq(Events) /\ Len(channel') = Len(channel) - 1 /\ Len(channel) \in Nat
      /\ \A i \in 1 .. Len(channel') :
            i + 1 \in 1 .. Len(channel) /\ channel'[i] = channel[i + 1]
      BY Taking
<1>2. ChannelInv'
      <2>1. Len(channel') <= ChannelCap
            BY <1>1, Numbers DEF ChannelInv
      <2>2. ASSUME NEW i \in 1 .. Len(channel')
            PROVE  /\ channel'[i].open <= openGen' /\ channel'[i].op <= opClock'
                   /\ channel'[i].kind = "novideo" /\ channel'[i].open = openGen'
                        => file' = "audio"
            BY <1>1 DEF ChannelInv
      <2> QED
          BY <1>1, <2>1, <2>2 DEF ChannelInv
<1>3. EndsInv'
      <2> SUFFICES ASSUME NEW i \in 1 .. Len(channel'), channel'[i].kind = "ended"
                   PROVE  /\ \A j \in (i + 1) .. Len(channel') :
                               channel'[j].kind = "frame" => channel'[j].op # channel'[i].op
                          /\ \A v \in Ops : ~Produces(worker'[v], ctl'[v], channel'[i].op)
          BY DEF EndsInv
      <2>1. i + 1 \in 1 .. Len(channel) /\ channel'[i] = channel[i + 1]
            BY <1>1
      <2>2. /\ \A j \in ((i + 1) + 1) .. Len(channel) :
                 channel[j].kind = "frame" => channel[j].op # channel[i + 1].op
            /\ \A v \in Ops : ~Produces(worker[v], ctl[v], channel[i + 1].op)
            BY <2>1 DEF EndsInv
      <2>3. ASSUME NEW j \in (i + 1) .. Len(channel'), channel'[j].kind = "frame"
            PROVE  channel'[j].op # channel'[i].op
            <3>1. j \in 1 .. Len(channel') /\ j + 1 \in ((i + 1) + 1) .. Len(channel)
                  BY <1>1
            <3>2. channel'[j] = channel[j + 1]
                  BY <1>1, <3>1
            <3> QED
                BY <2>1, <2>2, <2>3, <3>1, <3>2
      <2> QED
          BY <2>1, <2>2, <2>3
<1>4. ASSUME NEW n, Finished(n) PROVE Finished(n)'
      BY <1>1, <1>4 DEF Finished
<1> QED
    BY <1>2, <1>3, <1>4

\* Events that leave the workers and the handle alone.
LEMMA AcceptSound ==
    ASSUME ThreadInv, Take, UNCHANGED <<openGen, seekGen, opClock, activeOp, file>>,
           UNCHANGED <<ui, device, handle, ctl, worker>>,
           decodePreference' \in {"auto", "software"}, shown' \in 0 .. opClock,
           state' \in {"idle", "opening", "seeking", "live", "error"}, openGen = 0 => state' = state,
           FlagsInv', QueueInv',
           videoEnded' /\ videoExpected' /\ activeOp # 0 => Finished(activeOp)
    PROVE  ThreadInv'
<1> USE DEF ThreadInv
<1>1. ChannelInv' /\ EndsInv' /\ (\A n : Finished(n) => Finished(n)')
      BY TakeSound
<1>2. EndedInv'
      BY <1>1 DEF EndedInv, Finished
<1>3. ClockInv'
      BY DEF ClockInv, handle
<1>4. WorkersInv' /\ UniqueInv'
      BY DEF WorkersInv, UniqueInv
<1>5. HandleInv'
      BY DEF HandleInv, LiveWorkers, handle
<1> QED
    BY <1>1, <1>2, <1>3, <1>4, <1>5

\* A restart that nobody is told of: the worker has retired.
LEMMA SeekRetiredSound ==
    ASSUME ThreadInv, RestartWithin, opClock < MaxOps, openGen # 0,
           UNCHANGED <<ui, device, channel, handle, ctl, worker>>, ui = "ready"
    PROVE  ThreadInv'
<1> USE DEF ThreadInv
<1>1. /\ ClockInv' /\ FlagsInv' /\ QueueInv'
      /\ opClock' = opClock + 1 /\ openGen' = openGen /\ file' = file
      /\ ~(videoEnded' /\ videoExpected')
      <2>1. device \in 0 .. MaxOps /\ preference \in {"none", "auto", "software"}
            BY DEF ClockInv
      <2>2. retired \in BOOLEAN
            BY DEF FlagsInv
      <2> QED
          BY <2>1, <2>2, RestartSound DEF handle
<1>2. opClock \in Nat /\ openGen \in Nat /\ opClock + 1 \in Ops
      BY Numbers DEF ClockInv, Ops
<1>3. WorkersInv'
      <2>1. ASSUME NEW w \in Ops
            PROVE  Fits(w, worker[w], ctl[w], opClock + 1, openGen, file)
            <3>1. Fits(w, worker[w], ctl[w], opClock, openGen, file)
                  BY DEF WorkersInv
            <3>2. CASE w = opClock + 1
                  <4>1. worker[w] = Unborn /\ ctl[w] = NewControl
                        BY <1>2, <3>1, <3>2 DEF Fits
                  <4>2. /\ NewControl \in Controls /\ NewControl.seq = 0 /\ ~NewControl.shutdown
                        /\ NewControl.pending = NoPending /\ NoPending.kind = "none"
                        BY DEF NewControl, NoPending, Controls, Commands
                  <4>3. Unborn \in Workers /\ Unborn.pc = "unborn"
                        BY LeftIsWorker DEF Unborn
                  <4>4. ~(w > opClock + 1) /\ 0 <= (opClock + 1) + 1 /\ 0 <= opClock + 1
                        BY <1>2, <3>2
                  <4> QED
                      BY <4>1, <4>2, <4>3, <4>4 DEF Fits, Active
            <3>3. CASE w # opClock + 1
                  BY <1>2, <3>1, <3>3, FitsLater
            <3> QED
                BY <3>2, <3>3
      <2> QED
          BY <1>1, <2>1 DEF WorkersInv
<1>4. UniqueInv'
      BY DEF UniqueInv
<1>5. ChannelInv'
      BY <1>1, ChannelLater
<1>6. EndsInv' /\ EndedInv'
      BY <1>1 DEF EndsInv, EndedInv
<1>7. HandleInv'
      <2>1. control \in 0 .. opClock' /\ join \in 0 .. opClock'
            BY <1>1, <1>2 DEF HandleInv
      <2> QED
          BY <2>1 DEF HandleInv, LiveWorkers, handle
<1> QED
    BY <1>1, <1>3, <1>4, <1>5, <1>6, <1>7

\* Accepting an event, or dropping a stale one, keeps it.
LEMMA DrainSound ==
    ASSUME ThreadInv,
           DropStale \/ AcceptFrame \/ AcceptOpened \/ AcceptEnded \/ AcceptNoVideo
    PROVE  ThreadInv'
<1> USE DEF ThreadInv
<1>0. /\ Take /\ decodePreference \in {"auto", "software"} /\ shown \in 0 .. opClock
      /\ state \in {"idle", "opening", "seeking", "live", "error"}
      /\ opClock \in Nat /\ openGen \in Nat
      BY Numbers DEF DropStale, AcceptFrame, AcceptOpened, AcceptEnded, AcceptNoVideo, ClockInv
<1>1. /\ Event \in Events /\ Event = channel[1] /\ 1 \in 1 .. Len(channel)
      /\ Event.open <= openGen /\ Event.op <= opClock
      /\ Event.open \in 1 .. MaxOps /\ Event.op \in Ops /\ Event.seek \in 0 .. MaxOps
      /\ Event.kind = "novideo" /\ Event.open = openGen => file = "audio"
      BY <1>0, Taking
<1>2. Event.op \in 0 .. opClock /\ openGen # 0
      BY <1>0, <1>1, Numbers DEF Ops
<1>3. videoEnded /\ videoExpected /\ activeOp # 0 => Finished(activeOp)
      BY DEF EndedInv
<1>4. CASE DropStale
      <2>1. UNCHANGED <<session, ui, device, handle, ctl, worker>>
            BY <1>4 DEF DropStale
      <2>2. FlagsInv'
            BY <2>1, Zenon DEF FlagsInv, session, handle
      <2>3. QueueInv'
            BY <2>1 DEF QueueInv, QueueIsCurrent, session
      <2> QED
          BY <1>0, <1>3, <2>1, <2>2, <2>3, AcceptSound DEF session
<1>5. CASE AcceptFrame
      <2>1. /\ Event.kind = "frame" /\ IsCurrent(Event) /\ shown' = Event.op
            /\ queue' = Append(queue, [open |-> Event.open, seek |-> Event.seek, op |-> Event.op])
            /\ state' = IF state \in {"opening", "seeking"} THEN "live" ELSE state
            /\ UNCHANGED <<file, openGen, seekGen, opClock, activeOp, videoExpected, videoEnded,
                           decodePreference, ui, device, handle, ctl, worker>>
            BY <1>5 DEF AcceptFrame
      <2>2. FlagsInv'
            BY <2>1, Zenon DEF FlagsInv, handle
      <2>3. QueueInv'
            <3> DEFINE q == [open |-> Event.open, seek |-> Event.seek, op |-> Event.op]
                       S == [open : 1 .. MaxOps, seek : 0 .. MaxOps, op : Ops]
            <3>1. q \in S
                  BY <1>1
            <3>2. Event.open = openGen /\ Event.seek = seekGen /\ Event.op = activeOp
                  BY <2>1 DEF IsCurrent, CurrentFrame
            <3>3. q = [open |-> openGen, seek |-> seekGen, op |-> activeOp]
                  BY <3>2
            <3> HIDE DEF q
            <3>4. queue \in Seq(S) /\ Len(queue) < QueueCap /\ queue' = Append(queue, q)
                  BY <1>0, <2>1 DEF QueueInv, Take, q
            <3> HIDE DEF S
            <3>5. /\ queue' \in Seq(S) /\ Len(queue') = Len(queue) + 1 /\ Len(queue) \in Nat
                  /\ \A i \in 1 .. Len(queue) : queue'[i] = queue[i]
                  /\ queue'[Len(queue) + 1] = q
                  BY <3>1, <3>4, AppendProperties
            <3>6. ASSUME NEW i \in 1 .. Len(queue')
                  PROVE  queue'[i] = [open |-> openGen', seek |-> seekGen', op |-> activeOp']
                  <4>1. CASE i = Len(queue) + 1
                        BY <2>1, <3>3, <3>5, <4>1
                  <4>2. CASE i # Len(queue) + 1
                        <5>1. i \in 1 .. Len(queue)
                              BY <3>5, <4>2
                        <5> QED
                            BY <2>1, <3>5, <5>1 DEF QueueInv, QueueIsCurrent
                  <4> QED
                      BY <4>1, <4>2
            <3>7. Len(queue') <= QueueCap
                  BY <3>4, <3>5, Numbers
            <3> QED
                BY <3>5, <3>6, <3>7 DEF QueueInv, QueueIsCurrent, S
      <2>4. /\ decodePreference' \in {"auto", "software"} /\ shown' \in 0 .. opClock
            /\ state' \in {"idle", "opening", "seeking", "live", "error"}
            BY <1>0, <1>2, <2>1
      <2>5. videoEnded' /\ videoExpected' /\ activeOp # 0 => Finished(activeOp)
            BY <1>3, <2>1, Zenon
      <2> QED
          BY <1>0, <1>2, <2>1, <2>2, <2>3, <2>4, <2>5, AcceptSound
<1>6. CASE AcceptOpened
      <2>1. /\ decodePreference' = IF Event.mode = "software" THEN "software" ELSE decodePreference
            /\ UNCHANGED <<state, file, openGen, seekGen, opClock, activeOp, videoExpected,
                           videoEnded, queue, shown, ui, device, handle, ctl, worker>>
            BY <1>6 DEF AcceptOpened
      <2>2. FlagsInv'
            BY <2>1, Zenon DEF FlagsInv, handle
      <2>3. QueueInv'
            BY <2>1 DEF QueueInv, QueueIsCurrent
      <2>4. /\ decodePreference' \in {"auto", "software"} /\ shown' \in 0 .. opClock
            /\ state' \in {"idle", "opening", "seeking", "live", "error"} /\ state' = state
            BY <1>0, <2>1
      <2>5. videoEnded' /\ videoExpected' /\ activeOp # 0 => Finished(activeOp)
            BY <1>3, <2>1, Zenon
      <2> QED
          BY <1>0, <2>1, <2>2, <2>3, <2>4, <2>5, AcceptSound
<1>7. CASE AcceptEnded
      <2>1. /\ Event.kind = "ended" /\ IsCurrent(Event) /\ shown' = Event.op
            /\ UNCHANGED <<state, file, openGen, seekGen, opClock, activeOp,
                           decodePreference, queue, ui, device, handle, ctl, worker>>
            BY <1>7 DEF AcceptEnded
      <2>2. FlagsInv'
            BY <1>7, Zenon DEF AcceptEnded, FlagsInv, handle
      <2>3. QueueInv'
            BY <2>1 DEF QueueInv, QueueIsCurrent
      <2>4. Finished(activeOp)
            <3>1. Event.op = activeOp /\ channel[1].kind = "ended" /\ channel[1].op = activeOp
                  BY <1>1, <2>1 DEF IsCurrent, CurrentFrame
            <3>2. /\ \A j \in (1 + 1) .. Len(channel) :
                        channel[j].kind = "frame" => channel[j].op # activeOp
                  /\ \A v \in Ops : ~Produces(worker[v], ctl[v], activeOp)
                  BY <1>1, <3>1 DEF EndsInv
            <3>3. ASSUME NEW j \in 1 .. Len(channel), channel[j].kind = "frame"
                  PROVE  channel[j].op # activeOp
                  <4>1. j # 1
                        BY <3>1, <3>3
                  <4>2. j \in (1 + 1) .. Len(channel)
                        BY <4>1
                  <4> QED
                      BY <3>2, <3>3, <4>2
            <3> QED
                BY <3>2, <3>3 DEF Finished
      <2>5. decodePreference' \in {"auto", "software"} /\ shown' \in 0 .. opClock /\ state' = state
            BY <1>0, <1>2, <2>1
      <2> QED
          BY <1>0, <2>1, <2>2, <2>3, <2>4, <2>5, AcceptSound
<1>8. CASE AcceptNoVideo
      <2>1. /\ Event.kind = "novideo" /\ IsCurrent(Event) /\ shown' = Event.op
            /\ UNCHANGED <<state, file, openGen, seekGen, opClock, activeOp,
                           decodePreference, queue, ui, device, handle, ctl, worker>>
            BY <1>8 DEF AcceptNoVideo
      <2>2. file = "audio"
            BY <1>1, <2>1 DEF IsCurrent
      <2>3. FlagsInv' /\ ~videoExpected'
            <3>1. videoExpected' = FALSE /\ videoEnded' = TRUE /\ retired' = retired /\ file' = file
                  BY <1>8 DEF AcceptNoVideo, handle
            <3> QED
                BY <2>2, <3>1, Zenon DEF FlagsInv
      <2>4. QueueInv'
            BY <2>1 DEF QueueInv, QueueIsCurrent
      <2>5. decodePreference' \in {"auto", "software"} /\ shown' \in 0 .. opClock /\ state' = state
            BY <1>0, <1>2, <2>1
      <2> QED
          BY <1>0, <2>1, <2>3, <2>4, <2>5, AcceptSound
<1> QED
    BY <1>4, <1>5, <1>6, <1>7, <1>8

\* A failure that is accepted, and a device that is lost: the worker is told to leave.
LEMMA FailSound ==
    ASSUME ThreadInv, AcceptPathFails \/ AcceptFailure
    PROVE  ThreadInv'
<1> USE DEF ThreadInv
<1>1. /\ Take /\ IsCurrent(Event) /\ Fail /\ UNCHANGED <<ui, device, worker>>
      BY DEF AcceptPathFails, AcceptFailure
<1>2. /\ TearDown /\ state' = "error" /\ activeOp' = 0 /\ queue' = <<>>
      /\ UNCHANGED <<file, openGen, seekGen, opClock, videoExpected, videoEnded,
                     decodePreference, shown>>
      BY <1>1 DEF Fail
<1>3. /\ WorkersInv' /\ HandleInv' /\ UniqueInv'
      /\ \A w \in Ops : \A n : Produces(worker'[w], ctl'[w], n) => Produces(worker[w], ctl[w], n)
      BY <1>1, <1>2, TearDownSound
<1>4. ChannelInv' /\ EndsInv'
      BY <1>1, <1>2, <1>3, TakeSound
<1>5. EndedInv'
      BY <1>2 DEF EndedInv
<1>6. openGen # 0
      <2>1. Event.open <= openGen /\ Event.open \in 1 .. MaxOps
            BY <1>1, Taking
      <2> QED
          BY <2>1, Numbers
<1>7. ClockInv'
      BY <1>1, <1>2, <1>6 DEF ClockInv, TearDown
<1>8. FlagsInv'
      BY <1>2, Zenon DEF FlagsInv, TearDown
<1>9. QueueInv'
      BY <1>2, Numbers DEF QueueInv, QueueIsCurrent
<1> QED
    BY <1>3, <1>4, <1>5, <1>7, <1>8, <1>9

\* Losing the device keeps it: the worker is told to leave and joined.
LEMMA LossSound ==
    ASSUME ThreadInv, AcceptDeviceLost \/ PresentLosesDevice
    PROVE  ThreadInv'
<1> USE DEF ThreadInv
<1>1. /\ TearDown /\ opClock < MaxOps /\ ui' = "joining"
      /\ UNCHANGED <<session, device, worker>>
      BY DEF AcceptDeviceLost, PresentLosesDevice, StartDeviceRecovery
<1>2. UNCHANGED <<state, file, openGen, seekGen, opClock, activeOp, videoExpected, videoEnded,
                  decodePreference, queue, shown>>
      BY <1>1 DEF session
<1>3. /\ WorkersInv' /\ HandleInv' /\ UniqueInv'
      /\ \A w \in Ops : \A n : Produces(worker'[w], ctl'[w], n) => Produces(worker[w], ctl[w], n)
      BY <1>1, <1>2, TearDownSound
<1>4. openGen # 0 /\ ChannelInv' /\ EndsInv' /\ \A n : Finished(n) => Finished(n)'
      <2>1. CASE AcceptDeviceLost
            <3>1. Take
                  BY <2>1 DEF AcceptDeviceLost
            <3>2. Event.open <= openGen /\ Event.open \in 1 .. MaxOps
                  BY <3>1, Taking
            <3> QED
                BY <1>2, <1>3, <3>1, <3>2, TakeSound, Numbers
      <2>2. CASE PresentLosesDevice
            <3>1. state # "idle" /\ channel' = channel
                  BY <2>2 DEF PresentLosesDevice
            <3>2. openGen # 0
                  BY <3>1 DEF ClockInv
            <3>3. ChannelInv'
                  BY <1>2, <3>1 DEF ChannelInv
            <3>4. EndsInv'
                  BY <1>3, <3>1 DEF EndsInv
            <3>5. \A n : Finished(n) => Finished(n)'
                  BY <1>3, <3>1 DEF Finished
            <3> QED
                BY <3>2, <3>3, <3>4, <3>5
      <2> QED
          BY <2>1, <2>2
<1>5. EndedInv'
      BY <1>2, <1>4 DEF EndedInv, Finished
<1>6. ClockInv'
      BY <1>1, <1>2, <1>4 DEF ClockInv, TearDown
<1>7. FlagsInv'
      BY <1>1, <1>2, Zenon DEF FlagsInv, TearDown
<1>8. QueueInv'
      BY <1>2 DEF QueueInv, QueueIsCurrent
<1> QED
    BY <1>3, <1>4, <1>5, <1>6, <1>7, <1>8

\* A seek or a recovery keeps it, whichever way the worker is told.
LEMMA RequestSound ==
    ASSUME ThreadInv, Seek \/ RecoverEndpoint \/ RebuildDevice
    PROVE  ThreadInv'
<1> USE DEF ThreadInv
<1>1. CASE Seek
      <2>1. /\ opClock < MaxOps /\ ui = "ready" /\ openGen # 0 /\ RestartWithin
            /\ UNCHANGED <<ui, device, channel>> /\ device \in 0 .. MaxOps
            BY <1>1 DEF Seek, NewOperation, ClockInv
      <2>2. CASE /\ SeekDelivery = "InPlace"
                 /\ ctl' = [ctl EXCEPT ![control].seq = @ + 1,
                                       ![control].pending = SeekCommand(seekGen', opClock')]
                 /\ UNCHANGED <<handle, worker>>
            <3>1. control = 0 => SeekDelivery = "Respawn"
                  BY DEF SeekDelivery
            <3> QED
                BY <2>1, <2>2, <3>1, SeekInPlaceSound
      <2>3. CASE Respawn(openGen, file, decodePreference, seekGen', opClock', TRUE)
            BY <2>1, <2>3, RestartRespawnSound
      <2>4. CASE SeekDelivery = "Retired" /\ UNCHANGED <<handle, ctl, worker>>
            BY <2>1, <2>4, SeekRetiredSound
      <2> QED
          BY <1>1, <2>2, <2>3, <2>4 DEF Seek
<1>2. CASE RecoverEndpoint
      <2>1. /\ opClock < MaxOps /\ ui = "ready" /\ openGen # 0 /\ RestartWithin
            /\ UNCHANGED <<ui, device, channel>> /\ device \in 0 .. MaxOps
            /\ Respawn(openGen, file, decodePreference, seekGen', opClock', TRUE)
            BY <1>2 DEF RecoverEndpoint, NewOperation, ClockInv
      <2> QED
          BY <2>1, RestartRespawnSound
<1>3. CASE RebuildDevice
      <2>1. /\ opClock < MaxOps /\ ui' = "ready" /\ openGen # 0 /\ RestartWithin
            /\ UNCHANGED channel /\ device' \in 0 .. MaxOps
            /\ Respawn(openGen, file, decodePreference, seekGen', opClock', TRUE)
            <3>1. opClock \in Nat /\ opClock < MaxOps /\ openGen # 0
                  BY <1>3, Numbers DEF RebuildDevice, ClockInv
            <3>2. device' = opClock + 1
                  BY <1>3 DEF RebuildDevice
            <3>3. device' \in 0 .. MaxOps
                  BY <3>1, <3>2, Numbers
            <3> QED
                BY <1>3, <3>1, <3>3 DEF RebuildDevice
      <2> QED
          BY <2>1, RestartRespawnSound
<1> QED
    BY <1>1, <1>2, <1>3

\* A rebuild that fails keeps it: the session is in error.
LEMMA RebuildFailsSound ==
    ASSUME ThreadInv, RebuildFails
    PROVE  ThreadInv'
<1> USE DEF ThreadInv
<1>1. /\ ui = "joining" /\ ui' = "ready" /\ device' \in {device, opClock + 1} /\ state' = "error"
      /\ activeOp' = 0 /\ queue' = <<>> /\ join' = 0
      /\ UNCHANGED <<file, openGen, seekGen, opClock, videoExpected, videoEnded,
                     decodePreference, shown, control, preference, count, retired,
                     ctl, channel, worker>>
      BY DEF RebuildFails
<1>2. ClockInv'
      <2>1. device' \in 0 .. MaxOps
            BY <1>1, Numbers DEF ClockInv
      <2> QED
          BY <1>1, <2>1 DEF ClockInv
<1>3. FlagsInv'
      BY <1>1, Zenon DEF FlagsInv
<1>4. QueueInv'
      BY <1>1, Numbers DEF QueueInv, QueueIsCurrent
<1>5. ChannelInv' /\ EndsInv' /\ EndedInv'
      BY <1>1 DEF ChannelInv, EndsInv, EndedInv
<1>6. WorkersInv' /\ UniqueInv'
      BY <1>1 DEF WorkersInv, UniqueInv
<1>7. HandleInv'
      <2>1. 0 \in 0 .. opClock
            BY Numbers DEF ClockInv
      <2> QED
          BY <1>1, <2>1 DEF HandleInv, LiveWorkers
<1> QED
    BY <1>2, <1>3, <1>4, <1>5, <1>6, <1>7

\* Presenting keeps it, and so does doing nothing.
LEMMA PlaybackSound ==
    ASSUME ThreadInv, Present \/ AudioLeads \/ UNCHANGED vars
    PROVE  ThreadInv'
<1> USE DEF ThreadInv
<1>1. /\ UNCHANGED <<file, openGen, seekGen, opClock, activeOp, videoExpected, videoEnded,
                     decodePreference, shown, ui, device, handle, ctl, channel, worker>>
      /\ state' = state \/ (state' = "live" /\ state # "idle")
      BY DEF Present, AudioLeads, vars, session
<1>2. ClockInv'
      BY <1>1 DEF ClockInv, handle
<1>3. FlagsInv'
      BY <1>1, Zenon DEF FlagsInv, handle
<1>4. QueueInv'
      <2>1. CASE Present
            <3> DEFINE S == [open : 1 .. MaxOps, seek : 0 .. MaxOps, op : Ops]
            <3>1. queue \in Seq(S) /\ queue # <<>> /\ queue' = Tail(queue)
                  BY <2>1 DEF Present, QueueInv
            <3> HIDE DEF S
            <3>2. /\ Len(queue) \in Nat /\ queue' \in Seq(S) /\ Len(queue') = Len(queue) - 1
                  /\ \A i \in 1 .. Len(queue') : queue'[i] = queue[i + 1]
                  BY <3>1, HeadTailProperties
            <3>3. \A i \in 1 .. Len(queue') : i + 1 \in 1 .. Len(queue)
                  BY <3>2
            <3>4. Len(queue') <= QueueCap
                  BY <3>2, Numbers DEF QueueInv
            <3> QED
                BY <1>1, <3>2, <3>3, <3>4 DEF QueueInv, QueueIsCurrent, S
      <2>2. CASE AudioLeads \/ UNCHANGED vars
            BY <1>1, <2>2 DEF QueueInv, QueueIsCurrent, AudioLeads, vars, session
      <2> QED
          BY <2>1, <2>2
<1>5. ChannelInv' /\ EndsInv' /\ EndedInv'
      BY <1>1 DEF ChannelInv, EndsInv, EndedInv, Finished
<1>6. WorkersInv' /\ UniqueInv'
      BY <1>1 DEF WorkersInv, UniqueInv
<1>7. HandleInv'
      BY <1>1 DEF HandleInv, LiveWorkers, handle
<1> QED
    BY <1>2, <1>3, <1>4, <1>5, <1>6, <1>7

-----------------------------------------------------------------------------
(* The theorems.                                                            *)

\* The invariant is inductive.
LEMMA NextThread == ThreadInv /\ [Next]_vars => ThreadInv'
<1> SUFFICES ASSUME ThreadInv, [Next]_vars PROVE ThreadInv'
    OBVIOUS
<1>1. CASE UserStep
      BY <1>1, OpenSound, RequestSound DEF UserStep
<1>2. CASE Environment
      BY <1>2, RequestSound, LossSound, WorkerStepSound DEF Environment
<1>3. CASE Coordinator
      BY <1>3, DrainSound, FailSound, LossSound, RequestSound, RebuildFailsSound
         DEF Coordinator, Drain
<1>4. CASE Present \/ AudioLeads \/ UNCHANGED vars
      BY <1>4, PlaybackSound
<1>5. CASE \E w \in Ops : WorkerStep(w)
      BY <1>5, WorkerStepSound
<1> QED
    BY <1>1, <1>2, <1>3, <1>4, <1>5 DEF Next

(* The inductive invariant holds in every state: what is true of each worker *)
(* and its mailbox, of the channel and of the handle, whatever the bounds.  *)
THEOREM ThreadInvariant == Safety => []ThreadInv
BY InitThread, NextThread, PTL DEF Safety

\* The invariant includes type correctness.
LEMMA ThreadTypes == ThreadInv => TypeOK
<1> SUFFICES ASSUME ThreadInv PROVE TypeOK
    OBVIOUS
<1> USE DEF ThreadInv
<1>1. /\ openGen \in 0 .. MaxOps /\ seekGen \in 0 .. MaxOps
      /\ opClock \in 0 .. MaxOps /\ activeOp \in 0 .. MaxOps
      /\ shown \in 0 .. MaxOps /\ control \in 0 .. MaxOps /\ join \in 0 .. MaxOps
      BY Numbers DEF ClockInv, HandleInv
<1>2. count \in 0 .. MaxOps
      <2>1. count \in Nat /\ count <= MaxOps
            BY FewWorkers, FS_CardinalityType DEF HandleInv
      <2> QED
          BY <2>1, Numbers
<1>3. ctl \in [Ops -> [seq : 0 .. MaxOps + 1, shutdown : BOOLEAN, pending : Commands]]
      <2>1. ctl \in [Ops -> Controls]
            BY DEF WorkersInv
      <2>2. ASSUME NEW w \in Ops
            PROVE  ctl[w] \in [seq : 0 .. MaxOps + 1, shutdown : BOOLEAN, pending : Commands]
            <3>1. ctl[w] \in Controls /\ ctl[w].seq <= opClock + 1
                  BY DEF WorkersInv, Fits
            <3>2. ctl[w].seq \in 0 .. MaxOps + 1
                  BY <1>1, <3>1, Numbers DEF Controls
            <3> QED
                BY <3>1, <3>2 DEF Controls
      <2> QED
          BY <2>1, <2>2
<1>4. videoExpected \in BOOLEAN /\ videoEnded \in BOOLEAN /\ retired \in BOOLEAN
      BY DEF FlagsInv
<1>5. /\ state \in {"idle", "opening", "seeking", "live", "error"} /\ file \in {"video", "audio"}
      /\ decodePreference \in {"auto", "software"}
      /\ ui \in {"ready", "joining"} /\ device \in 0 .. MaxOps
      /\ preference \in {"none", "auto", "software"}
      BY DEF ClockInv
<1>6. /\ queue \in Seq([open : 1 .. MaxOps, seek : 0 .. MaxOps, op : Ops])
      /\ Len(queue) <= QueueCap
      /\ channel \in Seq(Events) /\ Len(channel) <= ChannelCap
      BY DEF QueueInv, ChannelInv
<1>7. worker \in [Ops -> Workers]
      BY DEF WorkersInv
<1> QED
    BY <1>1, <1>2, <1>3, <1>4, <1>5, <1>6, <1>7 DEF TypeOK

(* Whatever is opened, sought, lost or failed, every worker but the one the *)
(* handle commands has its shutdown, and a cancelled one its next command.  *)
THEOREM WorkersAlwaysTold == Safety => []WorkersAreTold
<1>1. ThreadInv => WorkersAreTold
      <2> SUFFICES ASSUME ThreadInv PROVE WorkersAreTold
          OBVIOUS
      <2>1. SupersededAreSignalled
            BY DEF ThreadInv, HandleInv, SupersededAreSignalled, Live, Alive, Resting
      <2>2. CancelledWorkerHasCommand
            BY DEF ThreadInv, WorkersInv, Fits, CancelledWorkerHasCommand
      <2> QED
          BY ThreadTypes, <2>1, <2>2 DEF WorkersAreTold
<1> QED
    BY <1>1, ThreadInvariant, PTL

(* No frame of a superseded seek or of a closed file waits to be presented. *)
THEOREM QueueAlwaysCurrent == Safety => []QueueIsCurrent
<1>1. ThreadInv => QueueIsCurrent
      BY DEF ThreadInv, QueueInv
<1> QED
    BY <1>1, ThreadInvariant, PTL

(* What the session concludes of the video stream, its end or its absence,  *)
(* is true of the operation and the file at hand.                           *)
THEOREM VerdictsAlwaysFit == Safety => []VerdictsFit
<1>1. ThreadInv => VerdictsFit
      <2> SUFFICES ASSUME ThreadInv PROVE VerdictsFit
          OBVIOUS
      <2>1. AudioOnlyVerdictFits
            BY DEF ThreadInv, FlagsInv, AudioOnlyVerdictFits
      <2>2. EndOfStreamIsFinal
            <3> SUFFICES ASSUME videoEnded, videoExpected,
                                NEW i \in 1 .. Len(channel), channel[i].kind = "frame"
                         PROVE  ~CurrentFrame(channel[i])
                BY DEF EndOfStreamIsFinal
            <3>1. channel[i].op \in Ops
                  <4>1. channel[i] \in Events
                        BY ElementOfSeq DEF ThreadInv, ChannelInv
                  <4> QED
                      BY <4>1 DEF Events
            <3>2. channel[i].op # 0
                  BY <3>1, Numbers DEF Ops
            <3>3. activeOp # 0 => channel[i].op # activeOp
                  BY DEF ThreadInv, EndedInv, Finished
            <3> QED
                BY <3>2, <3>3 DEF CurrentFrame
      <2> QED
          BY <2>1, <2>2 DEF VerdictsFit
<1> QED
    BY <1>1, ThreadInvariant, PTL

\* The workers have no hand in the session or the device.
LEMMA WorkersKeepSession ==
    ASSUME NEW w \in Ops,
           \/ WorkerStep(w) \/ OpenFails(w) \/ HardwareFallback(w) \/ RunFails(w)
           \/ TakeSeekFails(w)
    PROVE  UNCHANGED session /\ UNCHANGED device /\ UNCHANGED ui
<1>1. CASE Send(w) \/ Retire(w) \/ DropGuard(w) \/ Superseded(w) \/ TakeSeek(w) \/ TakeSeekFails(w)
      BY <1>1 DEF Send, Retire, DropGuard, Superseded, TakeSeek, TakeSeekFails, Taken, Leave, Local
<1>2. CASE SendCancelled(w) \/ OpenInterrupted(w) \/ RunCancelled(w) \/ AfterRun(w)
           \/ TakeShutdown(w) \/ ReleaseDevice(w) \/ ProbeAudioOnly(w) \/ ProbeVideo(w)
      BY <1>2 DEF SendCancelled, OpenInterrupted, RunCancelled, AfterRun, TakeShutdown,
         ReleaseDevice, ProbeAudioOnly, ProbeVideo, Goto, Leave, Local
<1>3. CASE DecodeFrame(w) \/ RunCompletes(w) \/ OpenFails(w) \/ HardwareFallback(w) \/ RunFails(w)
      BY <1>3 DEF DecodeFrame, RunCompletes, OpenFails, HardwareFallback, RunFails, Leave, Local
<1> QED
    BY <1>1, <1>2, <1>3 DEF WorkerStep

\* A worker that goes on has the operation it had.
Carries(w, r) == r.pc \in Active => worker[w].pc \in Active /\ r.op = worker[w].op

\* Whatever a worker does, it serves what it served or what it was sent, and nothing new
\* is sent to anybody.
LEMMA WorkersKeepClaims ==
    ASSUME ThreadInv, NEW w \in Ops,
           \/ WorkerStep(w) \/ OpenFails(w) \/ HardwareFallback(w) \/ RunFails(w)
           \/ TakeSeekFails(w)
    PROVE  /\ control' = control
           /\ \A v, n \in Ops : Claims(worker'[v], ctl'[v], n) => Claims(worker[v], ctl[v], n)
<1> DEFINE Own(r) == /\ control' = control /\ ctl' = ctl
                     /\ worker' = [worker EXCEPT ![w] = r] /\ Carries(w, r)
           Goal == /\ control' = control
                   /\ \A v, n \in Ops :
                         Claims(worker'[v], ctl'[v], n) => Claims(worker[v], ctl[v], n)
<1>1. /\ worker \in [Ops -> Workers] /\ ctl \in [Ops -> Controls] /\ worker[w] \in Workers
      /\ ctl[w] \in Controls
      BY DEF ThreadInv, WorkersInv
<1>2. ASSUME NEW r, Own(r) PROVE Goal
      <2>1. \A n : Claims(r, ctl[w], n) => Claims(worker[w], ctl[w], n)
            BY <1>2 DEF Claims, Carries
      <2> QED
          BY <1>1, <1>2, <2>1
<1>3. Left.pc \notin Active
      BY DEF Left, Unborn, Active
<1>4. ASSUME Leave(w) PROVE Goal
      BY <1>2, <1>3, <1>4 DEF Leave, Local, Carries, handle
<1>5. ASSUME NEW pc \in Pcs, worker[w].pc \in Active \/ pc \notin Active, Goto(w, pc) PROVE Goal
      <2> DEFINE r == [worker[w] EXCEPT !.pc = pc]
      <2>1. r.pc = pc /\ r.op = worker[w].op
            BY <1>1 DEF Workers
      <2>2. Own(r)
            BY <1>5, <2>1 DEF Goto, Local, Carries, handle
      <2> QED
          BY <1>2, <2>2
<1>6. ASSUME NEW r, worker[w].pc \in Active, Local(w, r), r.op = worker[w].op PROVE Goal
      <2>1. Own(r)
            BY <1>6 DEF Local, Carries, handle
      <2> QED
          BY <1>2, <2>1
<1>6a. ASSUME NEW e, NEW sent, NEW aborted, NEW mode, NEW todo
       PROVE  LET s == Sending(w, e, sent, aborted) IN
              /\ s.op = worker[w].op
              /\ [s EXCEPT !.todo = todo].op = worker[w].op
              /\ [s EXCEPT !.mode = mode, !.todo = todo].op = worker[w].op
       BY <1>1 DEF Sending, Workers
<1>7. ASSUME NEW pc \in Pcs, worker[w].pc \in Active, worker' = [worker EXCEPT ![w] = Resumed(w, pc)],
             UNCHANGED <<ctl, control>>
      PROVE  Goal
      <2>1. Carries(w, Resumed(w, pc))
            <3>1. CASE pc = "exiting"
                  BY <1>3, <3>1 DEF Resumed, Carries
            <3>2. CASE pc # "exiting"
                  BY <1>1, <1>7, <3>2, ResumedWorker DEF Carries
            <3> QED
                BY <3>1, <3>2
      <2> QED
          BY <1>2, <1>7, <2>1
<1>8. ASSUME NEW r, worker' = [worker EXCEPT ![w] = r], control' = control,
             ctl' = [ctl EXCEPT ![w].pending = NoPending],
             ctl[w].pending # NoPending, ~ctl[w].shutdown, r.op = ctl[w].pending.op
      PROVE  Goal
      <2>1. ctl[w].pending.kind = "seek"
            BY <1>8, TakenCommand DEF ThreadInv, WorkersInv
      <2>2. ctl'[w].pending.kind = "none"
            BY <1>1, <1>8 DEF Controls, NoPending
      <2>3. \A n : Claims(r, ctl'[w], n) => Claims(worker[w], ctl[w], n)
            BY <1>8, <2>1, <2>2 DEF Claims
      <2> QED
          BY <1>1, <1>8, <2>3
<1>9. ASSUME NEW pc, Taken(w, pc), ctl[w].pending # NoPending, ~ctl[w].shutdown PROVE Goal
      <2> DEFINE r == [worker[w] EXCEPT !.pc = pc, !.serving = ctl[w].seq,
                                        !.seek = ctl[w].pending.seek, !.op = ctl[w].pending.op,
                                        !.started = TRUE, !.todo = FramesPerRun]
      <2>1. r.op = ctl[w].pending.op
            BY <1>1 DEF Workers
      <2>2. /\ worker' = [worker EXCEPT ![w] = r] /\ control' = control
            /\ ctl' = [ctl EXCEPT ![w].pending = NoPending]
            BY <1>1, <1>9 DEF Taken, handle, Workers
      <2> QED
          BY <1>8, <1>9, <2>1, <2>2
<1>10. /\ {"superseded", "ran", "parked", "releasing", "gone"} \subseteq Pcs
       /\ "releasing" \notin Active /\ "gone" \notin Active
       BY DEF Pcs, Active
<1>11. CASE Send(w) \/ SendCancelled(w)
       <2>1. worker[w].pc \in Active /\ worker[w].hold.sent \in Pcs /\ worker[w].hold.aborted \in Pcs
             BY <1>1, <1>11 DEF Send, SendCancelled, Active, Workers
       <2> QED
           BY <1>7, <1>11, <2>1 DEF Send, SendCancelled, Local, handle
<1>12. CASE ProbeAudioOnly(w) \/ OpenFails(w) \/ RunCompletes(w)
       <2>1. worker[w].pc \in Active
             BY <1>12 DEF ProbeAudioOnly, OpenFails, RunCompletes, Active
       <2>2. \E e, sent, aborted : Local(w, Sending(w, e, sent, aborted))
             BY <1>12 DEF ProbeAudioOnly, OpenFails, RunCompletes
       <2> QED
           BY <1>6, <1>6a, <2>1, <2>2
<1>13. CASE ProbeVideo(w)
       <2>1. worker[w].pc \in Active
             BY <1>13 DEF ProbeVideo, Active
       <2>2. CASE Goto(w, "superseded")
             BY <1>5, <1>10, <2>1, <2>2
       <2>3. CASE \E mode \in (IF worker[w].preference = "auto" THEN Modes ELSE {"software"}) :
                     Local(w, [Sending(w, Stamped(w, "opened", mode), "decode", "superseded")
                                 EXCEPT !.mode = mode, !.todo = FramesPerRun])
             <3>1. PICK mode :
                     Local(w, [Sending(w, Stamped(w, "opened", mode), "decode", "superseded")
                                 EXCEPT !.mode = mode, !.todo = FramesPerRun])
                   BY <2>3
             <3> DEFINE s == Sending(w, Stamped(w, "opened", mode), "decode", "superseded")
                        r == [s EXCEPT !.mode = mode, !.todo = FramesPerRun]
             <3>2. Local(w, r)
                   BY <3>1
             <3>3. r.op = worker[w].op
                   BY <1>6a
             <3> HIDE DEF r
             <3> QED
                 BY <1>6, <2>1, <3>2, <3>3
       <2> QED
           BY <1>13, <2>2, <2>3 DEF ProbeVideo
<1>14. CASE OpenInterrupted(w) \/ TakeShutdown(w)
       BY <1>4, <1>14 DEF OpenInterrupted, TakeShutdown
<1>15. CASE Superseded(w) \/ TakeSeek(w)
       BY <1>4, <1>9, <1>15 DEF Superseded, TakeSeek
<1>16. CASE Retire(w)
       <2>1. worker[w].pc \in Active /\ control' = control /\ ctl' = ctl
             BY <1>16 DEF Retire, Active
       <2> DEFINE s == Sending(w, Stamped(w, "novideo", "none"), "exiting", "exiting")
       <2>2. s.op = worker[w].op
             BY <1>1 DEF Sending, Workers
       <2>3. Own(Left) \/ Own(s)
             BY <1>3, <1>16, <2>1, <2>2 DEF Retire, Carries
       <2> QED
           BY <1>2, <2>3
<1>17. CASE DecodeFrame(w)
       <2> DEFINE s == Sending(w, Stamped(w, "frame", "none"), "decode", "ran")
                  r == [s EXCEPT !.todo = s.todo - 1]
       <2>1. worker[w].pc \in Active /\ Local(w, r)
             BY <1>17 DEF DecodeFrame, Active
       <2>2. r.op = worker[w].op
             BY <1>6a
       <2> HIDE DEF r
       <2> QED
           BY <1>6, <2>1, <2>2
<1>18. CASE HardwareFallback(w)
       <2> DEFINE s == Sending(w, Stamped(w, "opened", "software"), "decode", "ran")
                  r == [s EXCEPT !.mode = "software", !.todo = FramesPerRun]
       <2>1. worker[w].pc \in Active /\ Local(w, r)
             BY <1>18 DEF HardwareFallback, Active
       <2>2. r.op = worker[w].op
             BY <1>6a
       <2> HIDE DEF r
       <2> QED
           BY <1>6, <2>1, <2>2
<1>19. CASE RunFails(w)
       <2>1. worker[w].pc \in Active
             BY <1>19 DEF RunFails, Active
       <2>2. Leave(w) \/ \E e, sent, aborted : Local(w, Sending(w, e, sent, aborted))
             BY <1>19 DEF RunFails
       <2> QED
           BY <1>4, <1>6, <1>6a, <2>1, <2>2
<1>20. CASE RunCancelled(w) \/ AfterRun(w)
       BY <1>4, <1>5, <1>10, <1>20 DEF RunCancelled, AfterRun, Active
<1>21. CASE TakeSeekFails(w)
       <2>1. PICK kind \in Failures :
               worker' = [worker EXCEPT ![w] =
                 [@ EXCEPT !.pc = "sending", !.serving = ctl[w].seq,
                           !.seek = ctl[w].pending.seek, !.op = ctl[w].pending.op,
                           !.started = TRUE, !.todo = FramesPerRun,
                           !.hold = [event |-> [kind |-> kind, open |-> worker[w].open,
                                                seek |-> ctl[w].pending.seek,
                                                op |-> ctl[w].pending.op, mode |-> "none"],
                                     sent |-> "decode", aborted |-> "decode"]]]
             BY <1>21 DEF TakeSeekFails
       <2> DEFINE h == [event |-> [kind |-> kind, open |-> worker[w].open,
                                   seek |-> ctl[w].pending.seek,
                                   op |-> ctl[w].pending.op, mode |-> "none"],
                        sent |-> "decode", aborted |-> "decode"]
                  r == [worker[w] EXCEPT !.pc = "sending", !.serving = ctl[w].seq,
                           !.seek = ctl[w].pending.seek, !.op = ctl[w].pending.op,
                           !.started = TRUE, !.todo = FramesPerRun, !.hold = h]
       <2>2. r.op = ctl[w].pending.op
             <3> HIDE DEF h
             <3> QED
                 BY <1>1 DEF Workers
       <2>3. worker' = [worker EXCEPT ![w] = r]
             BY <1>1, <2>1
       <2> HIDE DEF r
       <2> QED
           BY <1>8, <1>21, <2>2, <2>3 DEF TakeSeekFails, handle
<1>22. CASE DropGuard(w)
       <2> DEFINE r == [worker[w] EXCEPT !.pc = "releasing"]
       <2>1. r.pc = "releasing"
             BY <1>1 DEF Workers
       <2>2. Own(r)
             BY <1>1, <1>10, <1>22, <2>1 DEF DropGuard, Carries
       <2> QED
           BY <1>2, <2>2
<1>23. CASE ReleaseDevice(w)
       BY <1>5, <1>10, <1>23 DEF ReleaseDevice
<1> QED
    BY <1>11, <1>12, <1>13, <1>14, <1>15, <1>16, <1>17, <1>18, <1>19, <1>20, <1>21, <1>22, <1>23
       DEF WorkerStep

\* Who serves an operation of the present device was spawned on it, or will be.
DeviceInv ==
    /\ device \in 0 .. opClock + 1
    /\ control # 0 => control >= device
    /\ activeOp # 0 => activeOp >= device
    /\ ui = "joining" => control = 0
    /\ \A w, n \in Ops : Claims(worker[w], ctl[w], n) /\ n >= device => w >= device

\* What serves an operation serves one that was made.
LEMMA ClaimsArePast ==
    ASSUME ThreadInv, NEW w \in Ops, NEW n \in Ops, Claims(worker[w], ctl[w], n)
    PROVE  n <= opClock
<1>1. Fits(w, worker[w], ctl[w], opClock, openGen, file)
      BY DEF ThreadInv, WorkersInv
<1>2. CASE worker[w].pc \in Active /\ worker[w].op = n
      BY <1>1, <1>2, Numbers DEF Fits, Serves, ThreadInv, ClockInv
<1>3. CASE ctl[w].pending.kind = "seek" /\ ctl[w].pending.op = n
      BY <1>1, <1>3 DEF Fits
<1> QED
    BY <1>2, <1>3 DEF Claims

\* The first states, and every step, keep to the device.
LEMMA InitDevice == Init => DeviceInv
<1> SUFFICES ASSUME Init PROVE DeviceInv
    OBVIOUS
<1>1. device = 0 /\ opClock = 0 /\ control = 0 /\ activeOp = 0 /\ ui = "ready"
      BY DEF Init
<1>2. \A w \in Ops : w >= 0
      BY Numbers DEF Ops
<1> QED
    BY <1>1, <1>2 DEF DeviceInv

\* Whatever tells a worker to leave leaves nobody new to serve anything.
LEMMA ShutdownKeepsClaims ==
    ASSUME ThreadInv
    PROVE  \A w, n \in Ops : Claims(worker[w], ShutdownSent[w], n) => Claims(worker[w], ctl[w], n)
BY Signalled DEF ThreadInv

LEMMA NextDevice == ThreadInv /\ DeviceInv /\ [Next]_vars => DeviceInv'
<1> SUFFICES ASSUME ThreadInv, DeviceInv, [Next]_vars PROVE DeviceInv'
    OBVIOUS
<1> USE DEF ThreadInv
<1> DEFINE Fewer == \A w, n \in Ops : Claims(worker'[w], ctl'[w], n) => Claims(worker[w], ctl[w], n)
<1>0. opClock \in Nat /\ device \in Nat /\ device <= opClock + 1 /\ control \in Nat /\ activeOp \in Nat
      /\ control \in 0 .. opClock /\ (activeOp # 0 => activeOp = opClock) /\ Ops \subseteq Nat
      BY Numbers DEF ClockInv, HandleInv, DeviceInv, Ops
<1>1. ASSUME Fewer, opClock' = opClock, device' = device, control' \in {0, control},
             activeOp' \in {0, activeOp}, ui' = "joining" => ui = "joining" \/ control' = 0
      PROVE  DeviceInv'
      BY <1>0, <1>1 DEF DeviceInv
<1>2. ASSUME NEW f, NEW pref, NEW seek, NEW started, NEW open,
             Respawn(open, f, pref, seek, opClock', started),
             opClock' = opClock + 1, opClock < MaxOps, activeOp' = opClock',
             device' \in {device, opClock + 1}, ui' = "ready"
      PROVE  DeviceInv'
      <2>1. opClock' \in Ops
            BY <1>0, <1>2, Numbers DEF Ops
      <2>2. /\ ctl' = ShutdownSent /\ control' = opClock'
            /\ \A w \in Ops : w # opClock' => worker'[w] = worker[w]
            BY <1>2 DEF Respawn, WorkersInv
      <2>3. ASSUME NEW w \in Ops, NEW n \in Ops, Claims(worker'[w], ctl'[w], n), n >= device'
            PROVE  w >= device'
            <3>1. CASE w = opClock'
                  BY <1>0, <1>2, <3>1
            <3>2. CASE w # opClock'
                  <4>1. Claims(worker[w], ctl[w], n)
                        BY <2>2, <2>3, <3>2, ShutdownKeepsClaims
                  <4>2. n <= opClock
                        BY <4>1, ClaimsArePast
                  <4>3. device' = device
                        BY <1>0, <1>2, <2>3, <4>2
                  <4> QED
                      BY <2>3, <4>1, <4>3 DEF DeviceInv
            <3> QED
                BY <3>1, <3>2
      <2> QED
          BY <1>0, <1>2, <2>2, <2>3 DEF DeviceInv
<1>3. CASE UNCHANGED vars \/ Present \/ AudioLeads
      <2>1. UNCHANGED <<opClock, device, control, activeOp, worker, ctl, ui>>
            BY <1>3 DEF vars, session, handle, Present, AudioLeads
      <2> QED
          BY <1>1, <2>1
<1>4. CASE \E w \in Ops : \/ WorkerStep(w) \/ OpenFails(w) \/ HardwareFallback(w) \/ RunFails(w)
                          \/ TakeSeekFails(w)
      <2>1. Fewer /\ control' = control
            BY <1>4, WorkersKeepClaims
      <2>2. UNCHANGED <<opClock, device, activeOp, ui>>
            BY <1>4, WorkersKeepSession DEF session
      <2> QED
          BY <1>1, <2>1, <2>2
<1>5. CASE Drain
      <2>1. CASE DropStale \/ AcceptFrame \/ AcceptOpened \/ AcceptEnded \/ AcceptNoVideo
            <3>1. UNCHANGED <<opClock, device, control, activeOp, worker, ctl, ui>>
                  BY <2>1 DEF DropStale, AcceptFrame, AcceptOpened, AcceptEnded, AcceptNoVideo,
                     session, handle
            <3> QED
                BY <1>1, <3>1
      <2>2. CASE AcceptPathFails \/ AcceptFailure
            <3>1. /\ ctl' = ShutdownSent /\ control' = 0 /\ activeOp' = 0
                  /\ UNCHANGED <<opClock, device, worker, ui>>
                  BY <2>2 DEF AcceptPathFails, AcceptFailure, Fail, TearDown
            <3> QED
                BY <1>1, <3>1, ShutdownKeepsClaims
      <2>3. CASE AcceptDeviceLost
            <3>1. /\ ctl' = ShutdownSent /\ control' = 0
                  /\ UNCHANGED <<opClock, device, activeOp, worker>>
                  BY <2>3 DEF AcceptDeviceLost, StartDeviceRecovery, TearDown, session
            <3> QED
                BY <1>1, <3>1, ShutdownKeepsClaims
      <2> QED
          BY <1>5, <2>1, <2>2, <2>3 DEF Drain
<1>6. CASE PresentLosesDevice
      <2>1. ctl' = ShutdownSent /\ worker' = worker /\ control' = 0
            /\ opClock' = opClock /\ device' = device /\ activeOp' = activeOp
            BY <1>6 DEF PresentLosesDevice, StartDeviceRecovery, TearDown, session
      <2> QED
          BY <1>1, <2>1, ShutdownKeepsClaims
<1>7. CASE \E f \in Files : Open(f)
      <2>1. PICK f \in Files : Open(f)
            BY <1>7
      <2>2. /\ opClock' = opClock + 1 /\ opClock < MaxOps /\ activeOp' = opClock' /\ device' = device
            /\ ui' = "ready"
            /\ Respawn(openGen', f, "auto", 0, opClock', FALSE)
            BY <2>1 DEF Open, NewOperation
      <2> QED
          BY <1>2, <2>2
<1>8. CASE RecoverEndpoint \/ RebuildDevice
      <2>1. /\ opClock' = opClock + 1 /\ activeOp' = opClock' /\ device' \in {device, opClock + 1}
            /\ ui' = "ready"
            /\ Respawn(openGen, file, decodePreference, seekGen', opClock', TRUE)
            BY <1>8 DEF RecoverEndpoint, RebuildDevice, RestartWithin, NewOperation
      <2>2. opClock < MaxOps
            BY <1>8 DEF RecoverEndpoint, RebuildDevice, NewOperation, ClockInv
      <2> QED
          BY <1>2, <2>1, <2>2
<1>9. CASE Seek
      <2>1. /\ opClock' = opClock + 1 /\ opClock < MaxOps /\ activeOp' = opClock' /\ device' = device
            /\ ui' = "ready"
            BY <1>9 DEF Seek, RestartWithin, NewOperation
      <2>2. CASE Respawn(openGen, file, decodePreference, seekGen', opClock', TRUE)
            BY <1>2, <2>1, <2>2
      <2>3. CASE UNCHANGED <<handle, ctl, worker>>
            <3>1. UNCHANGED <<control, ctl, worker>>
                  BY <2>3 DEF handle
            <3> QED
                BY <1>0, <2>1, <3>1 DEF DeviceInv
      <2>4. CASE /\ SeekDelivery = "InPlace"
                 /\ ctl' = [ctl EXCEPT ![control].seq = @ + 1,
                                       ![control].pending = SeekCommand(seekGen', opClock')]
                 /\ UNCHANGED <<handle, worker>>
            <3>1. control # 0 /\ control' = control /\ worker' = worker /\ control >= device
                  BY <2>4 DEF SeekDelivery, handle, DeviceInv
            <3>2. \A w \in Ops : w # control => ctl'[w] = ctl[w]
                  BY <2>4 DEF WorkersInv
            <3>3. \A w, n \in Ops : w # control /\ Claims(worker'[w], ctl'[w], n)
                                      => Claims(worker[w], ctl[w], n)
                  BY <3>1, <3>2
            <3> QED
                BY <1>0, <2>1, <3>1, <3>3 DEF DeviceInv
      <2> QED
          BY <1>9, <2>2, <2>3, <2>4 DEF Seek
<1>10. CASE RebuildFails
       <2>1. /\ opClock' = opClock /\ device' \in {device, opClock + 1} /\ activeOp' = 0
             /\ UNCHANGED <<control, ctl, worker>>
             BY <1>10 DEF RebuildFails
       <2>2. control = 0 /\ ui' = "ready"
             BY <1>10 DEF RebuildFails, DeviceInv
       <2>3. ASSUME NEW w \in Ops, NEW n \in Ops, Claims(worker[w], ctl[w], n), n >= device'
             PROVE  w >= device'
             BY <1>0, <2>1, <2>3, ClaimsArePast DEF DeviceInv
       <2> QED
           BY <1>0, <2>1, <2>2, <2>3 DEF DeviceInv
<1> QED
    BY <1>3, <1>4, <1>5, <1>6, <1>7, <1>8, <1>9, <1>10 DEF Next, UserStep, Environment, Coordinator

(* A worker that outlives the wait for it stays with the operations of its  *)
(* device: nobody serves an operation of the present device, nothing is     *)
(* queued and nothing is believed that is not of the present one.           *)
THEOREM AlwaysOnLiveDevice == Safety => []OnLiveDevice
<1>1. ThreadInv /\ DeviceInv => OnLiveDevice
      <2> SUFFICES ASSUME ThreadInv, DeviceInv PROVE OnLiveDevice
          OBVIOUS
      <2> USE DEF ThreadInv
      <2>1. ASSUME NEW w \in Ops, Serving(w), worker[w].op >= device PROVE w >= device
            <3>1. worker[w].pc \in Active /\ worker[w] \in Workers
                  BY <2>1 DEF Serving, WorkersInv, Workers, Pcs, Active
            <3>2. worker[w].op \in Ops
                  BY <3>1, AtWork
            <3> QED
                BY <2>1, <3>1, <3>2 DEF DeviceInv, Claims
      <2>2. \A i \in 1 .. Len(queue) : queue[i].op = activeOp /\ queue[i].op \in Ops
            <3>1. \A i \in 1 .. Len(queue) : queue[i].op = activeOp
                  BY DEF QueueInv, QueueIsCurrent
            <3>2. ASSUME NEW i \in 1 .. Len(queue) PROVE queue[i].op \in Ops
                  <4>1. queue[i] \in [open : 1 .. MaxOps, seek : 0 .. MaxOps, op : Ops]
                        BY ElementOfSeq DEF QueueInv
                  <4> QED
                      BY <4>1
            <3> QED
                BY <3>1, <3>2
      <2>3. ASSUME NEW i \in 1 .. Len(channel) PROVE channel[i].op \in Ops
            <3>1. channel[i] \in Events
                  BY ElementOfSeq DEF ChannelInv
            <3> QED
                BY <3>1 DEF Events
      <2>4. 0 \notin Ops
            BY Numbers DEF Ops
      <2>5. \A i \in 1 .. Len(channel) :
               IsCurrent(channel[i]) => channel[i].op = activeOp
            BY DEF IsCurrent, CurrentFrame
      <2> QED
          BY <2>1, <2>2, <2>3, <2>4, <2>5 DEF DeviceInv, OnLiveDevice
<1> QED
    BY <1>1, ThreadInvariant, InitDevice, NextDevice, PTL DEF Safety

(* The player implements "only the newest request is served": requests are  *)
(* the operations, and the one served is that of the last accepted event.   *)
THEOREM ThreadServesLatest == Safety => ImplementsLatestRequest
<1>1. Init => Abstract!Init
      BY DEF Init, Abstract!Init
<1>2. ThreadInv /\ [Next]_vars => [Abstract!Next]_(Abstract!vars)
      <2> SUFFICES ASSUME ThreadInv, [Next]_vars PROVE [Abstract!Next]_(Abstract!vars)
          OBVIOUS
      <2>1. \/ UNCHANGED <<opClock, shown>>
            \/ opClock' = opClock + 1 /\ shown' = shown
            \/ Take /\ IsCurrent(Event) /\ shown' = Event.op /\ opClock' = opClock
            <3>1. CASE UserStep \/ RecoverEndpoint \/ RebuildDevice
                  BY <3>1 DEF UserStep, Open, Seek, RecoverEndpoint, RebuildDevice, RestartWithin
            <3>2. CASE PresentLosesDevice \/ RebuildFails \/ Present \/ AudioLeads \/ UNCHANGED vars
                  BY <3>2 DEF PresentLosesDevice, RebuildFails, Present, AudioLeads, vars, session
            <3>3. CASE Drain
                  BY <3>3 DEF Drain, DropStale, AcceptFrame, AcceptOpened, AcceptPathFails,
                     AcceptEnded, AcceptNoVideo, AcceptFailure, AcceptDeviceLost, Fail, session
            <3>4. CASE UNCHANGED session
                  BY <3>4 DEF session
            <3> QED
                BY <3>1, <3>2, <3>3, <3>4, WorkersKeepSession DEF Next, Environment, Coordinator
      <2>2. CASE Take /\ IsCurrent(Event) /\ shown' = Event.op /\ opClock' = opClock
            <3>1. Event.op \in Ops /\ Event.op = activeOp
                  BY <2>2, Taking DEF IsCurrent, CurrentFrame
            <3>2. Event.op = opClock /\ shown \in 0 .. opClock /\ opClock \in Nat
                  BY <3>1, Numbers DEF ThreadInv, ClockInv, Ops
            <3>3. shown < opClock \/ shown = opClock
                  BY <3>2
            <3> QED
                BY <2>2, <3>2, <3>3 DEF Abstract!Next, Abstract!Serve, Abstract!vars
      <2>3. CASE opClock' = opClock + 1 /\ shown' = shown
            BY <2>3 DEF Abstract!Next, Abstract!Request, Abstract!vars
      <2>4. CASE UNCHANGED <<opClock, shown>>
            BY <2>4 DEF Abstract!vars
      <2> QED
          BY <2>1, <2>2, <2>3, <2>4
<1> QED
    BY <1>1, <1>2, ThreadInvariant, PTL DEF Safety, ImplementsLatestRequest, Abstract!Safety
=============================================================================
