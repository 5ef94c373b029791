-------------------------- MODULE TurnClockProofs --------------------------
(***************************************************************************)
(* Proofs about TurnClock, for every set of players, every length of a     *)
(* turn and of a hold, and every number and kind of faults.                *)
(*                                                                         *)
(* The invariant has three layers: what the state looks like whatever      *)
(* happens (Shape), what the queue knows of the turns while no operation   *)
(* is torn (QueueFits), and what a stop leaves behind (the rest).          *)
(***************************************************************************)
EXTENDS TurnClock, TLAPS

InLock == op.pc # "free"

\* nobody is on turn, and nobody is being put on turn
Still == ~ Live /\ ~ InLock

\* the sweep of the last outage is over
SweptUp == link.phase # "down" /\ link.gen \notin sweeps

-----------------------------------------------------------------------------
(* What holds whatever happens.                                            *)

\* a snapshot with a turn exactly in the betting, and a deadline only with a turn
Fits(s) ==
  /\ s \in Snapshot
  /\ s.phase = "BETTING" <=> s.turn # Nobody
  /\ s.turn = Nobody => s.left = NoDeadline

\* what the holder of the lock is about to write
OpFits ==
  /\ op.pc = "free" <=> op.kind = "none"
  /\ Fits(op.next)
  /\ InLock => snap.epoch < MaxEpoch /\ op.next.epoch = snap.epoch + 1
  /\ op.pc = "arm" => op.next.turn # Nobody
  /\ op.pc = "write" /\ op.next.turn # Nobody => op.next.left = Turn

\* a job of the queue belongs to a player, and the one in the worker stays there
JobsNamed == \A e \in Epochs : jobs[e] = NoJob \/ jobs[e].user \in Players

WorkerHolds == worker.pc # "idle" => jobs[worker.epoch] # NoJob /\ worker.epoch <= snap.epoch

\* a sweep belongs to an outage that happened, the last one's to the recovery
SweepsKnown ==
  /\ link.gen <= faults.count
  /\ \A g \in sweeps : g <= link.gen
  /\ link.phase # "recovering" => link.gen \notin sweeps

\* the line is only down while Redis is up, and the tournament is SYNCING then
LineKnown == line.down => Up /\ syncing

Shape == TypeOK /\ OpFits /\ JobsNamed /\ WorkerHolds /\ SweepsKnown /\ LineKnown

-----------------------------------------------------------------------------
(* What the queue knows of the turns, while nothing is torn.               *)

QueueFits ==
  /\ \A e \in Epochs : jobs[e] # NoJob =>
       e <= snap.epoch \/ (op.pc = "write" /\ e = op.next.epoch)
  /\ jobs[snap.epoch] # NoJob =>
       /\ jobs[snap.epoch].user = snap.turn
       /\ 0 <= snap.left /\ snap.left <= jobs[snap.epoch].wait
  /\ op.pc = "write" =>
       jobs[op.next.epoch] =
         IF op.next.turn = Nobody THEN NoJob ELSE [user |-> op.next.turn, wait |-> Turn]
  /\ worker.pc # "idle" /\ worker.epoch = snap.epoch => snap.left = 0

-----------------------------------------------------------------------------
(* What a stop leaves behind.                                              *)

\* no command of the dealer waits while the table is being stopped
DealerQuiet == ~ Up \/ line.down => dealer = "none"

\* behind the sweep the table stands still
SweptIsStill ==
  /\ link.phase = "recovering" /\ SweptUp => Still
  /\ line.down /\ ~ line.sweep => Still

\* a job in the worker since before an outage is not the clock of a live turn
OldCall ==
  worker.pc = "call" /\ worker.gen # link.gen /\ Up /\ worker.epoch = snap.epoch => ~ Live

\* a turn that a stop hit does not run on behind the stop
StopHolds ==
  /\ stop = "server" /\ SweptUp => Still
  /\ stop = "line" /\ ~ (line.down /\ line.sweep) => Still

\* what runs during an outage was hit by it
OutageHit == ~ Up /\ ~ Still => stop = "server"

ClockInv ==
  /\ Shape
  /\ Without({"torn"}) => QueueFits
  /\ Without({"late"}) => DealerQuiet /\ OutageHit
  /\ Without({"sweep"}) => StopHolds
  /\ Without({"sweep", "late"}) => SweptIsStill /\ OldCall
  /\ TurnHasClock

-----------------------------------------------------------------------------
(* The snapshots the operations make.                                      *)

\* a record of the fields of a snapshot is one
LEMMA SnapshotMade ==
  ASSUME NEW a \in {"WAITING", "BETTING", "SHOWDOWN", "HAND_END"}, NEW b \in Epochs,
         NEW c \in Players \union {Nobody}, NEW d \in NoDeadline .. Turn, NEW f \in BOOLEAN
  PROVE  [phase |-> a, epoch |-> b, turn |-> c, left |-> d, resume |-> f] \in Snapshot
  BY DEF Snapshot

\* and every snapshot is the record of its fields
LEMMA SnapshotFields ==
  ASSUME NEW s \in Snapshot
  PROVE  /\ s.phase \in {"WAITING", "BETTING", "SHOWDOWN", "HAND_END"}
         /\ s.epoch \in Epochs /\ s.turn \in Players \union {Nobody}
         /\ s.left \in NoDeadline .. Turn /\ s.resume \in BOOLEAN
         /\ s = [phase |-> s.phase, epoch |-> s.epoch, turn |-> s.turn, left |-> s.left,
                 resume |-> s.resume]
  BY DEF Snapshot

LEMMA EmptyFits == Fits(Empty) /\ Empty.resume = FALSE /\ Empty.turn = Nobody /\ Empty.epoch = 0
  <1>1. 0 \in Epochs /\ NoDeadline \in NoDeadline .. Turn
    BY BoundsAssumption, TicksAssumption DEF Epochs, NoDeadline
  <1>2. Empty \in Snapshot
    BY <1>1, SnapshotMade DEF Empty
  <1> QED
    BY <1>2 DEF Empty, Fits

\* a change of the phase outside of the betting
LEMMA PhaseFits ==
  ASSUME NEW s, Fits(s), s.phase # "BETTING", NEW ph \in {"WAITING", "SHOWDOWN", "HAND_END"}
  PROVE  LET t == [s EXCEPT !.phase = ph]
         IN  /\ Fits(t) /\ t.phase = ph /\ t.epoch = s.epoch /\ t.turn = s.turn
             /\ t.left = s.left /\ t.resume = s.resume
  <1> DEFINE t == [phase |-> ph, epoch |-> s.epoch, turn |-> s.turn, left |-> s.left,
                   resume |-> s.resume]
  <1>1. s \in Snapshot
    BY DEF Fits
  <1>2. t \in Snapshot
    BY <1>1, SnapshotFields, SnapshotMade
  <1>3. [s EXCEPT !.phase = ph] = t
    BY <1>1 DEF Snapshot
  <1> QED
    BY <1>2, <1>3 DEF Fits

LEMMA ResumeFits ==
  ASSUME NEW s, Fits(s), NEW r \in BOOLEAN
  PROVE  LET t == [s EXCEPT !.resume = r]
         IN  /\ Fits(t) /\ t.phase = s.phase /\ t.epoch = s.epoch /\ t.turn = s.turn
             /\ t.left = s.left /\ t.resume = r
  <1> DEFINE t == [phase |-> s.phase, epoch |-> s.epoch, turn |-> s.turn, left |-> s.left,
                   resume |-> r]
  <1>1. s \in Snapshot
    BY DEF Fits
  <1>2. t \in Snapshot
    BY <1>1, SnapshotFields, SnapshotMade
  <1>3. [s EXCEPT !.resume = r] = t
    BY <1>1 DEF Snapshot
  <1> QED
    BY <1>2, <1>3 DEF Fits

LEMMA NoDeadlineIn == NoDeadline \in NoDeadline .. Turn
  BY TicksAssumption DEF NoDeadline

\* the turn moves from one player to another
LEMMA MoveFits ==
  ASSUME NEW s \in Snapshot, NEW q \in Players \union {Nobody}
  PROVE  LET t == [s EXCEPT !.turn = q]
         IN  t \in Snapshot /\ t.phase = s.phase /\ t.turn = q
  <1> DEFINE t == [phase |-> s.phase, epoch |-> s.epoch, turn |-> q, left |-> s.left,
                   resume |-> s.resume]
  <1>1. t \in Snapshot
    BY SnapshotFields, SnapshotMade
  <1>2. [s EXCEPT !.turn = q] = t
    BY DEF Snapshot
  <1> QED
    BY <1>1, <1>2

\* the hand gets another phase with it; then the turn gets its number, and no
\* deadline yet
LEMMA TurnFits ==
  ASSUME NEW s \in Snapshot, NEW ph \in {"BETTING", "SHOWDOWN"}
  PROVE  LET t == [s EXCEPT !.phase = ph]
         IN  t \in Snapshot /\ t.phase = ph /\ t.turn = s.turn
  <1> DEFINE t == [phase |-> ph, epoch |-> s.epoch, turn |-> s.turn, left |-> s.left,
                   resume |-> s.resume]
  <1>1. t \in Snapshot
    BY SnapshotFields, SnapshotMade
  <1>2. [s EXCEPT !.phase = ph] = t
    BY DEF Snapshot
  <1> QED
    BY <1>1, <1>2

LEMMA NumberFits ==
  ASSUME NEW s \in Snapshot, NEW e \in Epochs, s.phase = "BETTING" <=> s.turn # Nobody
  PROVE  LET t == [s EXCEPT !.epoch = e, !.left = NoDeadline]
         IN  /\ Fits(t) /\ t.phase = s.phase /\ t.epoch = e /\ t.turn = s.turn
             /\ t.left = NoDeadline /\ t.resume = s.resume
  <1> DEFINE u == [phase |-> s.phase, epoch |-> e, turn |-> s.turn, left |-> s.left,
                   resume |-> s.resume]
  <1> DEFINE t == [phase |-> s.phase, epoch |-> e, turn |-> s.turn, left |-> NoDeadline,
                   resume |-> s.resume]
  <1>1. t \in Snapshot
    BY SnapshotFields, SnapshotMade, NoDeadlineIn
  <1>2. [s EXCEPT !.epoch = e, !.left = NoDeadline]
          = [[s EXCEPT !.epoch = e] EXCEPT !.left = NoDeadline]
    BY DEF Snapshot
  <1>3. [s EXCEPT !.epoch = e] = u
    BY DEF Snapshot
  <1>4. [u EXCEPT !.left = NoDeadline] = t
    OBVIOUS
  <1> QED
    BY <1>1, <1>2, <1>3, <1>4 DEF Fits

\* the deadline of a turn
LEMMA LeftFits ==
  ASSUME NEW s, Fits(s), NEW n \in NoDeadline .. Turn, s.turn = Nobody => n = NoDeadline
  PROVE  LET t == [s EXCEPT !.left = n]
         IN  /\ Fits(t) /\ t.phase = s.phase /\ t.epoch = s.epoch /\ t.turn = s.turn
             /\ t.left = n /\ t.resume = s.resume
  <1> DEFINE t == [phase |-> s.phase, epoch |-> s.epoch, turn |-> s.turn, left |-> n,
                   resume |-> s.resume]
  <1>1. s \in Snapshot
    BY DEF Fits
  <1>2. t \in Snapshot
    BY <1>1, SnapshotFields, SnapshotMade
  <1>3. [s EXCEPT !.left = n] = t
    BY <1>1 DEF Snapshot
  <1> QED
    BY <1>2, <1>3 DEF Fits

\* a stop keeps the turn and takes its deadline and its epoch
LEMMA PausedFits ==
  ASSUME NEW s, Fits(s), s.epoch < MaxEpoch
  PROVE  /\ Fits(Paused(s)) /\ Paused(s).phase = s.phase /\ Paused(s).epoch = s.epoch + 1
         /\ Paused(s).turn = s.turn /\ Paused(s).left = NoDeadline /\ Paused(s).resume
  <1> DEFINE u == [s EXCEPT !.epoch = s.epoch + 1, !.left = NoDeadline]
  <1>1. s \in Snapshot /\ s.epoch + 1 \in Epochs
    BY SnapshotFields, BoundsAssumption DEF Epochs, Fits
  <1>2. /\ Fits(u) /\ u.phase = s.phase /\ u.epoch = s.epoch + 1
        /\ u.turn = s.turn /\ u.left = NoDeadline
    BY <1>1, NumberFits DEF Fits
  <1>3. Paused(s) = [u EXCEPT !.resume = TRUE]
    BY DEF Paused
  <1> HIDE DEF u
  <1>4. LET t == [u EXCEPT !.resume = TRUE]
        IN  /\ Fits(t) /\ t.phase = u.phase /\ t.epoch = u.epoch /\ t.turn = u.turn
            /\ t.left = u.left /\ t.resume = TRUE
    BY <1>2, ResumeFits
  <1> QED
    BY <1>2, <1>3, <1>4

-----------------------------------------------------------------------------
(* What taking the lock does.                                              *)

Kinds == {"deal", "act", "expired", "timeOut", "remove", "resume"}

OpTyped ==
  op \in [kind : {"none", "deal", "act", "expired", "timeOut", "remove", "resume"},
          pc : {"free", "arm", "write"}, next : Snapshot]

\* an operation that passed its checks and asked for a turn
Began(kind) ==
  /\ snap.epoch < MaxEpoch
  /\ OpTyped'
  /\ op'.kind = kind /\ Fits(op'.next)
  /\ op'.next.epoch = snap.epoch + 1 /\ op'.next.left = NoDeadline
  /\ op'.pc = IF op'.next.turn = Nobody THEN "write" ELSE "arm"
  /\ stop' = "no"

LEMMA ScheduleBegins ==
  ASSUME Fits(snap), NEW kind \in Kinds, NEW next \in Snapshot,
         next.phase = "BETTING" <=> next.turn # Nobody, Schedule(kind, next)
  PROVE  Began(kind)
  <1> DEFINE n == [next EXCEPT !.epoch = snap.epoch + 1, !.left = NoDeadline]
  <1>1. snap.epoch + 1 \in Epochs /\ snap.epoch < MaxEpoch
    BY SnapshotFields, BoundsAssumption DEF Epochs, Fits, Schedule
  <1>2. /\ Fits(n) /\ n.turn = next.turn /\ n.epoch = snap.epoch + 1
        /\ n.left = NoDeadline
    BY <1>1, NumberFits
  <1>3. /\ op' = [kind |-> kind, pc |-> IF next.turn = Nobody THEN "write" ELSE "arm",
                  next |-> n]
        /\ stop' = "no"
    BY DEF Schedule
  <1> HIDE DEF n
  <1>4. n \in Snapshot
    BY <1>2 DEF Fits
  <1>5. OpTyped'
    BY <1>3, <1>4 DEF OpTyped, Kinds
  <1> QED
    BY <1>1, <1>2, <1>3, <1>5 DEF Began

\* the turn after an action: at a player, or nowhere and the hand at its showdown
LEMMA AfterFits ==
  ASSUME Fits(snap), snap.turn # Nobody, NEW p, NEW next \in After(p)
  PROVE  next \in Snapshot /\ (next.phase = "BETTING" <=> next.turn # Nobody)
  <1>1. snap \in Snapshot /\ snap.phase = "BETTING"
    BY DEF Fits
  <1>2. CASE next \in {[snap EXCEPT !.turn = q] : q \in Players}
    <2>1. PICK q \in Players : next = [snap EXCEPT !.turn = q]
      BY <1>2
    <2> QED
      BY <1>1, <2>1, MoveFits, NobodyAssumption
  <1>3. CASE next = [snap EXCEPT !.turn = Nobody, !.phase = "SHOWDOWN"]
    <2> DEFINE u == [snap EXCEPT !.turn = Nobody]
    <2>1. next = [u EXCEPT !.phase = "SHOWDOWN"]
      BY <1>3
    <2>2. u \in Snapshot /\ u.turn = Nobody
      BY <1>1, MoveFits
    <2> HIDE DEF u
    <2> QED
      BY <2>1, <2>2, TurnFits
  <1> QED
    BY <1>2, <1>3 DEF After

\* a button that takes the lock
LEMMA PressBegins ==
  ASSUME Fits(snap), NEW p \in Players, HandlePress(p)
  PROVE  \/ UNCHANGED <<jobs, op, stop, faults>>
         \/ /\ MayAct(p) /\ RemoveTimeoutJob(snap.epoch)
            /\ Began(IF snap.left = 0 THEN "expired" ELSE "act")
  <1> SUFFICES ASSUME MayAct(p), ~ UNCHANGED <<jobs, op, stop, faults>>
               PROVE  /\ RemoveTimeoutJob(snap.epoch)
                      /\ Began(IF snap.left = 0 THEN "expired" ELSE "act")
    BY DEF HandlePress, Refused
  <1> DEFINE kind == IF snap.left = 0 THEN "expired" ELSE "act"
  <1>1. PICK next \in After(p) : Begin(kind, next)
    BY DEF HandlePress, Refused
  <1>2. snap.turn # Nobody
    BY NobodyAssumption DEF MayAct
  <1>3. kind \in Kinds
    BY DEF Kinds
  <1> HIDE DEF kind
  <1>4. Began(kind)
    BY <1>1, <1>2, <1>3, AfterFits, ScheduleBegins DEF Begin
  <1> QED
    BY <1>1, <1>4 DEF Begin, kind

\* a command of the dealer that takes the lock
LEMMA DealerBegins ==
  ASSUME Fits(snap), HandleDealer
  PROVE  \/ UNCHANGED <<jobs, op, stop, faults>>
         \/ /\ dealer # "none" /\ RemoveTimeoutJob(snap.epoch)
            /\ \E kind \in {"deal", "remove", "resume"} : Began(kind)
  <1> USE DEF Begin, Kinds
  <1>1. snap \in Snapshot
    BY DEF Fits
  <1>2. CASE dealer = "deal" /\ StartPreFlop
    <2>1. CASE snap.phase = "WAITING"
      <3>1. PICK p \in Players \union {Nobody} :
              Begin("deal", [snap EXCEPT !.turn = p,
                               !.phase = IF p = Nobody THEN "SHOWDOWN" ELSE "BETTING"])
        BY <1>2, <2>1 DEF StartPreFlop
      <3>2. PICK ph \in {"BETTING", "SHOWDOWN"} :
              ph = IF p = Nobody THEN "SHOWDOWN" ELSE "BETTING"
        OBVIOUS
      <3> DEFINE next == [snap EXCEPT !.turn = p, !.phase = ph]
      <3>3. next \in Snapshot /\ next.phase = ph /\ next.turn = p
        <4> DEFINE u == [snap EXCEPT !.turn = p]
        <4>1. next = [u EXCEPT !.phase = ph]
          OBVIOUS
        <4>2. u \in Snapshot /\ u.turn = p
          BY <1>1, MoveFits
        <4> HIDE DEF u, next
        <4> QED
          BY <4>1, <4>2, TurnFits
      <3> HIDE DEF next
      <3>4. Began("deal")
        BY <3>1, <3>2, <3>3, ScheduleBegins DEF next
      <3> QED
        BY <1>2, <3>1, <3>4
    <2> QED
      BY <1>2, <2>1 DEF StartPreFlop, Refused
  <1>3. CASE dealer = "remove" /\ HandleDealerAction
    <2>1. CASE Live
      <3>1. PICK next \in After(snap.turn) : Begin("remove", next)
        BY <1>3, <2>1 DEF HandleDealerAction
      <3>2. snap.turn # Nobody
        BY <2>1 DEF Live, Fits
      <3>3. Began("remove")
        BY <3>1, <3>2, AfterFits, ScheduleBegins
      <3> QED
        BY <1>3, <3>1, <3>3
    <2> QED
      BY <1>3, <2>1 DEF HandleDealerAction, Refused
  <1>4. CASE dealer = "resume" /\ ResumeTable
    <2>1. CASE snap.resume
      <3> DEFINE next == [snap EXCEPT !.resume = FALSE]
      <3>1. Begin("resume", next)
        BY <1>4, <2>1 DEF ResumeTable
      <3>2. Fits(next)
        BY ResumeFits
      <3> HIDE DEF next
      <3>3. Began("resume")
        BY <3>1, <3>2, ScheduleBegins DEF Fits
      <3> QED
        BY <1>4, <3>1, <3>3
    <2> QED
      BY <1>4, <2>1 DEF ResumeTable, Refused
  <1> QED
    BY <1>2, <1>3, <1>4 DEF HandleDealer, Refused

\* a job that takes the lock
LEMMA FireBegins ==
  ASSUME Fits(snap), JobsNamed, WorkerHolds, worker.epoch \in Epochs, Fire
  PROVE  \/ ~ MayFire(worker.epoch) /\ UNCHANGED <<op, stop>> /\ jobs' = Dropped(worker.epoch)
         \/ /\ MayFire(worker.epoch) /\ Began("timeOut")
            /\ jobs' = Dropped(worker.epoch) \/ UNCHANGED jobs
  <1> SUFFICES ASSUME MayFire(worker.epoch)
               PROVE  Began("timeOut") /\ (jobs' = Dropped(worker.epoch) \/ UNCHANGED jobs)
    BY DEF Fire
  <1>1. /\ \E next \in After(snap.turn) : Schedule("timeOut", next)
        /\ jobs' = Dropped(worker.epoch) \/ UNCHANGED jobs
    BY DEF Fire
  <1>2. PICK next \in After(snap.turn) : Schedule("timeOut", next)
    BY <1>1
  <1>3. snap.turn # Nobody
    <2>1. jobs[worker.epoch] # NoJob
      BY DEF WorkerHolds, Fire
    <2>2. jobs[worker.epoch].user \in Players
      BY <2>1 DEF JobsNamed
    <2> QED
      BY <2>2, NobodyAssumption DEF MayFire, Stale
  <1>4. Began("timeOut")
    BY <1>2, <1>3, AfterFits, ScheduleBegins DEF Kinds
  <1> QED
    BY <1>1, <1>4

-----------------------------------------------------------------------------
(* Shape, a part of the state at a time.                                   *)

JobsTyped == jobs \in [Epochs -> [user : Players \union {Nobody}, wait : 0 .. Turn]]

WorkerTyped == worker \in [pc : {"idle", "confirm", "call"}, epoch : Epochs, gen : 0 .. MaxFaults]

FlagsTyped ==
  /\ press \in [Players -> NoPress .. MaxFaults]
  /\ dealer \in {"none", "deal", "remove", "resume"}
  /\ link \in [phase : {"up", "down", "recovering"}, gen : 0 .. MaxFaults]
  /\ sweeps \subseteq 0 .. MaxFaults
  /\ line \in [down : BOOLEAN, sweep : BOOLEAN]
  /\ syncing \in BOOLEAN /\ settling \in {"no", "asking", "closing"}
  /\ stop \in {"no", "line", "server"}
  /\ faults \in [count : 0 .. MaxFaults, kinds : SUBSET Faults]

LEMMA ShapeParts ==
  Shape <=> /\ Fits(snap) /\ JobsTyped /\ JobsNamed /\ OpTyped /\ OpFits
            /\ WorkerTyped /\ WorkerHolds /\ FlagsTyped /\ SweepsKnown /\ LineKnown
  BY DEF Shape, TypeOK, Fits, JobsTyped, OpTyped, WorkerTyped, FlagsTyped

\* the end of a hand changes no turn
HandMoves == ResolveWinners \/ RebuyInterrupted \/ FinishHand

LEMMA HandMovesSnap ==
  ASSUME Fits(snap), HandMoves
  PROVE  /\ Fits(snap') /\ ~ Live' /\ snap'.epoch = snap.epoch /\ snap'.turn = snap.turn
         /\ snap'.left = snap.left
         /\ op.pc = "free" /\ UNCHANGED <<jobs, op, worker>>
  <1>1. CASE ResolveWinners
    BY <1>1, PhaseFits DEF ResolveWinners, LockFree, Live
  <1>2. CASE RebuyInterrupted
    BY <1>2, ResumeFits DEF RebuyInterrupted, LockFree, Live
  <1>3. CASE FinishHand
    BY <1>3, PhaseFits DEF FinishHand, LockFree, Live
  <1> QED
    BY <1>1, <1>2, <1>3 DEF HandMoves

\* pauseTable stops the table with nobody in the lock, or does nothing
Stops ==
  /\ op.pc = "free" /\ Reachable /\ ~ snap.resume /\ snap.turn # Nobody
  /\ snap.epoch < MaxEpoch /\ snap' = Paused(snap)

LEMMA PauseStops ==
  ASSUME NEW guard \in BOOLEAN, PauseTable(guard)
  PROVE  \/ UNCHANGED <<snap, faults>> /\ op.pc = "free" /\ Reachable
              /\ (guard => snap.resume \/ snap.turn = Nobody)
         \/ guard /\ Stops /\ UNCHANGED faults
         \/ UNCHANGED <<snap, faults>> /\ ~ Reachable
         \/ UNCHANGED snap /\ Fault("sweep")
  BY DEF PauseTable, Stops, LockFree

\* the steps that touch neither the snapshot, nor the queue, the lock or the worker
Elsewhere == UNCHANGED <<snap, jobs, op, worker>>

LEMMA StepKinds ==
  ASSUME [Next]_vars
  PROVE  \/ Elsewhere
         \/ Add \/ Write \/ Abandon \/ HandMoves \/ Restart \/ Tick
         \/ Silent \/ Confirm \/ Fire \/ LockTimeout \/ HandleDealer
         \/ \E p \in Players : HandlePress(p)
         \/ \E e \in Epochs : Pick(e)
         \/ Stops /\ UNCHANGED <<jobs, op, worker>>
  <1> USE DEF Elsewhere
  <1>1. ASSUME NEW p \in Players, PlayerSends(p) PROVE Elsewhere
    BY <1>1 DEF PlayerSends
  <1>2. ASSUME NEW what \in {"deal", "remove", "resume"}, DealerSends(what) PROVE Elsewhere
    BY <1>2 DEF DealerSends
  <1>3. CASE RebuyDone \/ CheckpointFailed
    BY <1>3 DEF RebuyDone, CheckpointFailed
  <1>4. CASE Outage \/ Reconnect \/ MarkRecovered
    BY <1>4 DEF Outage, Reconnect, MarkRecovered
  <1>5. ASSUME NEW g \in 0 .. MaxFaults, Sweep(g)
        PROVE  Elsewhere \/ (Stops /\ UNCHANGED <<jobs, op, worker>>)
    BY <1>5, PauseStops DEF Sweep
  <1>6. CASE LineDown \/ CompleteSync
    BY <1>6 DEF LineDown, CompleteSync
  <1>7. CASE SweepLine
    BY <1>7, PauseStops DEF SweepLine
  <1>8. CASE UNCHANGED vars
    BY <1>8 DEF vars
  <1> QED
    BY <1>1, <1>2, <1>3, <1>4, <1>5, <1>6, <1>7, <1>8 DEF Next, HandMoves

LEMMA SnapStep == ASSUME Shape, [Next]_vars PROVE Fits(snap')
  <1> USE ShapeParts
  <1>1. CASE UNCHANGED snap
    BY <1>1
  <1>2. CASE Write
    BY <1>2 DEF Write, OpFits
  <1>3. CASE HandMoves
    BY <1>3, HandMovesSnap
  <1>4. CASE Stops
    BY <1>4, PausedFits DEF Stops
  <1>5. CASE Restart
    BY <1>5, PausedFits, EmptyFits DEF Restart
  <1>6. CASE Tick
    <2>1. Less(snap.left) \in NoDeadline .. Turn
      BY SnapshotFields, TicksAssumption DEF Fits, Less, NoDeadline
    <2>2. snap.turn = Nobody => Less(snap.left) = NoDeadline
      BY DEF Fits, Less, NoDeadline
    <2> QED
      BY <1>6, <2>1, <2>2, LeftFits DEF Tick
  <1>7. Add \/ Abandon \/ Silent \/ Confirm \/ Fire \/ LockTimeout \/ HandleDealer => UNCHANGED snap
    BY DEF Add, Abandon, Silent, Confirm, Fire, LockTimeout, HandleDealer
  <1>8. \A p \in Players : HandlePress(p) => UNCHANGED snap
    BY DEF HandlePress
  <1>9. \A e \in Epochs : Pick(e) => UNCHANGED snap
    BY DEF Pick
  <1> QED
    BY <1>1, <1>2, <1>3, <1>4, <1>5, <1>6, <1>7, <1>8, <1>9, StepKinds DEF Elsewhere

\* the queue of a function of epochs
JobSet == [user : Players \union {Nobody}, wait : 0 .. Turn]

JobNamed(j) == j \in JobSet /\ (j = NoJob \/ j.user \in Players)

LEMMA NoJobNamed == JobNamed(NoJob) /\ NoJob.user = Nobody /\ NoJob.wait = 0
  BY TicksAssumption DEF JobNamed, NoJob, JobSet

LEMMA JobsAreNamed ==
  JobsTyped /\ JobsNamed <=> DOMAIN jobs = Epochs /\ jobs = [e \in Epochs |-> jobs[e]]
                               /\ \A e \in Epochs : JobNamed(jobs[e])
  BY DEF JobsTyped, JobsNamed, JobNamed, JobSet

\* removing a job
LEMMA DropJob ==
  ASSUME JobsTyped, JobsNamed, NEW e \in Epochs
  PROVE  /\ Dropped(e) \in [Epochs -> JobSet] /\ Dropped(e)[e] = NoJob
         /\ \A x \in Epochs : x # e => Dropped(e)[x] = jobs[x]
         /\ \A x \in Epochs : JobNamed(Dropped(e)[x])
  <1>1. Dropped(e) = [x \in Epochs |-> IF x = e THEN NoJob ELSE jobs[x]]
    BY DEF Dropped, JobsTyped
  <1>2. \A x \in Epochs : JobNamed(jobs[x])
    BY JobsAreNamed
  <1> QED
    BY <1>1, <1>2, NoJobNamed DEF JobNamed

\* what the queue of an operation that takes the lock loses
LEMMA RemoveJob ==
  ASSUME JobsTyped, JobsNamed, NEW e \in Epochs, RemoveTimeoutJob(e)
  PROVE  /\ jobs' = jobs \/ (jobs' = Dropped(e) /\ (worker.pc = "idle" \/ worker.epoch # e))
         /\ faults' = faults \/ Fault("torn")
  BY DEF RemoveTimeoutJob, Fault, Faulty

LEMMA JobsStep == ASSUME Shape, [Next]_vars PROVE JobsTyped' /\ JobsNamed'
  <1> USE ShapeParts
  <1> DEFINE Good == jobs' \in [Epochs -> JobSet] /\ \A x \in Epochs : JobNamed(jobs'[x])
  <1> SUFFICES Good
    BY DEF JobsTyped, JobsNamed, JobSet, JobNamed
  <1>1. ASSUME UNCHANGED jobs PROVE Good
    BY <1>1, JobsAreNamed DEF JobSet, JobsTyped
  <1>2. ASSUME NEW e \in Epochs, jobs' = Dropped(e) PROVE Good
    BY <1>2, DropJob
  <1>3. snap.epoch \in Epochs /\ worker.epoch \in Epochs /\ op.next.epoch \in Epochs
    BY SnapshotFields DEF Fits, WorkerTyped, OpFits
  <1> HIDE DEF Good
  <1>4. CASE Add
    <2> DEFINE j == [user |-> op.next.turn, wait |-> Turn]
    <2>1. op.next.turn \in Players
      BY <1>4, SnapshotFields DEF Add, OpFits, Fits
    <2>2. JobNamed(j)
      BY <2>1, TicksAssumption DEF JobNamed, JobSet
    <2>3. jobs' = [jobs EXCEPT ![op.next.epoch] = IF @ = NoJob THEN j ELSE @]
      BY <1>4 DEF Add
    <2> HIDE DEF j
    <2>4. jobs' = [x \in Epochs |-> IF x = op.next.epoch /\ jobs[x] = NoJob THEN j ELSE jobs[x]]
      BY <1>3, <2>3 DEF JobsTyped
    <2> QED
      BY <2>2, <2>4, JobsAreNamed DEF Good, JobNamed
  <1>5. CASE Silent
    <2> DEFINE w == worker.epoch
               j == [user |-> jobs[w].user, wait |-> Hold]
    <2>1. jobs[w] # NoJob /\ JobNamed(jobs[w])
      BY <1>3, <1>5, JobsAreNamed DEF Silent, WorkerHolds
    <2>2. JobNamed(j)
      BY <2>1, TicksAssumption DEF JobNamed, JobSet
    <2>3. jobs' = [jobs EXCEPT ![w].wait = Hold]
      BY <1>5 DEF Silent
    <2>4. [jobs[w] EXCEPT !.wait = Hold] = j
      BY <2>1 DEF JobNamed, JobSet
    <2>5. jobs' = [x \in Epochs |-> IF x = w THEN j ELSE jobs[x]]
      BY <1>3, <2>3, <2>4 DEF JobsTyped
    <2> HIDE DEF j, w
    <2> QED
      BY <2>2, <2>5, JobsAreNamed DEF Good, JobNamed
  <1>6. CASE Tick
    <2> DEFINE j(x) == [jobs[x] EXCEPT !.wait = Less(@)]
    <2>1. ASSUME NEW x \in Epochs PROVE JobNamed(j(x))
      <3>1. JobNamed(jobs[x])
        BY JobsAreNamed
      <3>2. Less(jobs[x].wait) \in 0 .. Turn /\ (jobs[x].wait = 0 => Less(jobs[x].wait) = 0)
        BY <3>1, TicksAssumption DEF Less, JobNamed, JobSet
      <3>3. j(x) = [user |-> jobs[x].user, wait |-> Less(jobs[x].wait)]
        BY <3>1 DEF JobNamed, JobSet
      <3>4. CASE jobs[x] = NoJob
        BY <3>2, <3>3, <3>4, NoJobNamed DEF NoJob
      <3>5. CASE jobs[x].user \in Players
        BY <3>2, <3>3, <3>5 DEF JobNamed, JobSet
      <3> QED
        BY <3>1, <3>4, <3>5 DEF JobNamed
    <2>2. jobs' = [x \in Epochs |-> j(x)]
      BY <1>6 DEF Tick
    <2> HIDE DEF j
    <2> QED
      BY <2>1, <2>2 DEF Good, JobNamed
  <1>7. CASE Restart
    <2>1. CASE jobs' = [e \in Epochs |-> NoJob]
      BY <2>1, NoJobNamed DEF Good, JobNamed
    <2> QED
      BY <1>7, <1>1, <2>1 DEF Restart
  <1>8. CASE Confirm
    BY <1>1, <1>2, <1>3, <1>8 DEF Confirm
  <1>9. CASE Fire
    BY <1>1, <1>2, <1>3, <1>9, FireBegins
  <1>10. CASE LockTimeout
    BY <1>2, <1>3, <1>10 DEF LockTimeout
  <1>11. CASE HandleDealer
    BY <1>1, <1>2, <1>3, <1>11, DealerBegins, RemoveJob
  <1>12. ASSUME NEW p \in Players, HandlePress(p) PROVE Good
    BY <1>1, <1>2, <1>3, <1>12, PressBegins, RemoveJob
  <1>13. ASSUME NEW e \in Epochs, Pick(e) PROVE Good
    BY <1>1, <1>2, <1>13 DEF Pick
  <1>14. Write \/ Abandon \/ HandMoves => UNCHANGED jobs
    BY DEF Write, Abandon, HandMoves, ResolveWinners, RebuyInterrupted, FinishHand
  <1> QED
    BY <1>1, <1>4, <1>5, <1>6, <1>7, <1>8, <1>9, <1>10, <1>11, <1>12, <1>13, <1>14, StepKinds
       DEF Elsewhere

\* the lock is free, or its holder writes what belongs behind the snapshot
LEMMA FreeFits == ASSUME op' = Free PROVE OpTyped' /\ OpFits'
  BY EmptyFits DEF Free, OpTyped, OpFits, InLock, Fits

LEMMA BegunFits ==
  ASSUME NEW kind \in Kinds, Began(kind), UNCHANGED snap
  PROVE  OpTyped' /\ OpFits'
  BY DEF Began, OpFits, InLock, Kinds

LEMMA OpStep == ASSUME Shape, [Next]_vars PROVE OpTyped' /\ OpFits'
  <1> USE ShapeParts
  <1>1. ASSUME UNCHANGED <<op, snap>> PROVE OpTyped' /\ OpFits'
    BY <1>1 DEF OpTyped, OpFits, InLock
  <1>2. ASSUME UNCHANGED op, op.pc = "free" PROVE OpTyped' /\ OpFits'
    BY <1>2 DEF OpTyped, OpFits, InLock
  <1>3. CASE Add
    <2> DEFINE s == op.next
    <2>1. op' = [op EXCEPT !.pc = "write", !.next.left = Turn] /\ op.pc = "arm" /\ UNCHANGED snap
      BY <1>3 DEF Add
    <2>2. Fits(s) /\ s.turn # Nobody /\ Turn \in NoDeadline .. Turn
      BY <2>1, TicksAssumption DEF OpFits, NoDeadline
    <2>3. LET t == [s EXCEPT !.left = Turn]
          IN  /\ Fits(t) /\ t.phase = s.phase /\ t.epoch = s.epoch /\ t.turn = s.turn
              /\ t.left = Turn /\ t.resume = s.resume
      BY <2>2, LeftFits
    <2>4. PICK t \in Snapshot : /\ t = [s EXCEPT !.left = Turn] /\ Fits(t)
                                /\ t.epoch = s.epoch /\ t.turn = s.turn /\ t.left = Turn
      BY <2>3 DEF Fits
    <2>5. op' = [kind |-> op.kind, pc |-> "write", next |-> t]
      BY <2>1, <2>4 DEF OpTyped
    <2>6. OpTyped'
      BY <2>5 DEF OpTyped
    <2>7. /\ op'.kind # "none" /\ op'.pc = "write" /\ Fits(op'.next)
          /\ op'.next.epoch = snap.epoch + 1 /\ snap.epoch < MaxEpoch /\ op'.next.left = Turn
      BY <2>1, <2>4, <2>5 DEF OpFits, InLock
    <2> QED
      BY <2>1, <2>6, <2>7 DEF OpFits, InLock
  <1>4. CASE Write \/ Abandon \/ Restart
    BY <1>4, FreeFits DEF Write, Abandon, Restart
  <1>5. CASE HandMoves
    BY <1>2, <1>5, HandMovesSnap
  <1>6. CASE Stops /\ UNCHANGED op
    BY <1>2, <1>6 DEF Stops
  <1>7. CASE Tick
    BY <1>2, <1>7 DEF Tick
  <1>8. CASE Fire
    <2>1. worker.epoch \in Epochs /\ UNCHANGED snap
      BY <1>8 DEF WorkerTyped, Fire
    <2> QED
      BY <1>1, <1>8, <2>1, FireBegins, BegunFits DEF Kinds
  <1>9. CASE HandleDealer
    <2>1. UNCHANGED snap
      BY <1>9 DEF HandleDealer
    <2> QED
      BY <1>1, <1>9, <2>1, DealerBegins, BegunFits DEF Kinds
  <1>10. ASSUME NEW p \in Players, HandlePress(p) PROVE OpTyped' /\ OpFits'
    <2>1. UNCHANGED snap
      BY <1>10 DEF HandlePress
    <2> DEFINE kind == IF snap.left = 0 THEN "expired" ELSE "act"
    <2>2. kind \in Kinds
      BY DEF Kinds
    <2>3. UNCHANGED op \/ Began(kind)
      BY <1>10, PressBegins
    <2> HIDE DEF kind
    <2> QED
      BY <1>1, <2>1, <2>2, <2>3, BegunFits
  <1>11. Silent \/ Confirm \/ LockTimeout => UNCHANGED <<op, snap>>
    BY DEF Silent, Confirm, LockTimeout
  <1>12. \A e \in Epochs : Pick(e) => UNCHANGED <<op, snap>>
    BY DEF Pick
  <1> QED
    BY <1>1, <1>3, <1>4, <1>5, <1>6, <1>7, <1>8, <1>9, <1>10, <1>11, <1>12, StepKinds
       DEF Elsewhere

\* the worker's job goes on with the generation it found, or ends
LEMMA ConfirmCalls ==
  ASSUME Shape, Confirm
  PROVE  \/ Up /\ worker' = [pc |-> "call", epoch |-> worker.epoch, gen |-> link.gen]
         \/ ~ Up /\ worker' = Idle
  <1>1. CASE Up
    <2>1. worker' = [worker EXCEPT !.pc = "call", !.gen = link.gen]
      BY <1>1 DEF Confirm
    <2>2. worker' = [pc |-> "call", epoch |-> worker.epoch, gen |-> link.gen]
      BY <2>1, ShapeParts DEF WorkerTyped
    <2> QED
      BY <1>1, <2>2
  <1> QED
    BY <1>1 DEF Confirm

LEMMA WorkerStep == ASSUME Shape, [Next]_vars PROVE WorkerTyped' /\ WorkerHolds'
  <1> USE ShapeParts
  <1>0. /\ snap.epoch \in Epochs /\ worker.epoch \in Epochs /\ op.next.epoch \in Epochs
        /\ link.gen \in 0 .. MaxFaults /\ snap.epoch \in Nat /\ worker.epoch \in Nat
    BY SnapshotFields, BoundsAssumption DEF Fits, WorkerTyped, OpFits, FlagsTyped, Epochs
  <1> DEFINE Goal == WorkerTyped' /\ WorkerHolds'
             Kept == worker.pc # "idle" => jobs'[worker.epoch] # NoJob
  <1> SUFFICES Goal
    OBVIOUS
  <1>h. worker.pc # "idle" => jobs[worker.epoch] # NoJob /\ worker.epoch <= snap.epoch
    BY DEF WorkerHolds
  <1>1. ASSUME UNCHANGED worker, Kept, snap'.epoch \in Nat, snap'.epoch >= snap.epoch PROVE Goal
    <2>1. WorkerTyped'
      BY <1>1 DEF WorkerTyped
    <2>2. worker'.pc = worker.pc /\ worker'.epoch = worker.epoch
      BY <1>1
    <2>3. worker.pc # "idle" => worker.epoch <= snap'.epoch
      BY <1>0, <1>1, <1>h
    <2> QED
      BY <1>1, <2>1, <2>2, <2>3 DEF WorkerHolds
  <1>2. ASSUME worker' = Idle PROVE Goal
    BY <1>2, BoundsAssumption DEF WorkerTyped, WorkerHolds, Idle, Epochs
  <1>3. UNCHANGED jobs => Kept
    BY DEF WorkerHolds
  <1>4. RemoveTimeoutJob(snap.epoch) => Kept
    <2>1. jobs' = jobs \/ (jobs' = Dropped(snap.epoch) /\ (worker.pc = "idle" \/ worker.epoch # snap.epoch))
            => Kept
      BY <1>0, <1>h, DropJob
    <2> QED
      BY <1>0, <2>1, RemoveJob
  <1> HIDE DEF Goal, Kept
  <1>5. CASE Add
    <2>1. /\ jobs' = [jobs EXCEPT ![op.next.epoch] =
                        IF @ = NoJob THEN [user |-> op.next.turn, wait |-> Turn] ELSE @]
          /\ UNCHANGED <<worker, snap>>
      BY <1>5 DEF Add
    <2>2. Kept
      <3>1. ASSUME NEW x \in Epochs, jobs[x] # NoJob PROVE jobs'[x] # NoJob
        BY <1>0, <2>1, <3>1 DEF JobsTyped
      <3> QED
        BY <1>0, <1>h, <3>1 DEF Kept
    <2> QED
      BY <1>0, <1>1, <2>1, <2>2
  <1>6. CASE Write
    <2>1. snap'.epoch = snap.epoch + 1 /\ UNCHANGED <<jobs, worker>>
      BY <1>6 DEF Write, OpFits, InLock
    <2> QED
      BY <1>0, <1>1, <1>3, <2>1
  <1>7. CASE Abandon
    BY <1>0, <1>1, <1>3, <1>7 DEF Abandon
  <1>8. CASE HandMoves
    BY <1>0, <1>1, <1>3, <1>8, HandMovesSnap
  <1>9. CASE Stops /\ UNCHANGED <<jobs, op, worker>>
    <2>1. snap'.epoch = snap.epoch + 1
      BY <1>9, PausedFits DEF Stops
    <2> QED
      BY <1>0, <1>1, <1>3, <1>9, <2>1
  <1>10. CASE Tick
    <2>1. snap'.epoch = snap.epoch
      BY <1>10 DEF Tick, Fits, Snapshot
    <2>2. jobs' = [e \in Epochs |-> [jobs[e] EXCEPT !.wait = Less(@)]] /\ UNCHANGED worker
      BY <1>10 DEF Tick
    <2>3. Kept
      <3> SUFFICES ASSUME worker.pc # "idle" PROVE jobs'[worker.epoch] # NoJob
        BY DEF Kept
      <3>1. JobNamed(jobs[worker.epoch]) /\ jobs[worker.epoch] # NoJob
        BY <1>0, JobsAreNamed DEF WorkerHolds
      <3>2. jobs'[worker.epoch].user \in Players
        BY <1>0, <2>2, <3>1 DEF JobNamed, JobSet
      <3> QED
        BY <3>2, NoJobNamed, NobodyAssumption
    <2> QED
      BY <1>0, <1>1, <2>1, <2>2, <2>3
  <1>11. CASE Confirm
    <2>1. CASE Up
      <3>1. UNCHANGED <<jobs, snap>>
        BY <1>11, <2>1 DEF Confirm
      <3>2. worker' = [pc |-> "call", epoch |-> worker.epoch, gen |-> link.gen]
        BY <1>11, <2>1, ConfirmCalls
      <3>3. WorkerTyped'
        BY <1>0, <3>2 DEF WorkerTyped
      <3>4. worker.pc # "idle"
        BY <1>11 DEF Confirm
      <3>5. WorkerHolds'
        BY <3>1, <3>2, <3>4 DEF WorkerHolds
      <3> QED
        BY <3>3, <3>5 DEF Goal
    <2> QED
      BY <1>2, <1>11, <2>1 DEF Confirm
  <1>12. ASSUME NEW e \in Epochs, Pick(e) PROVE Goal
    <2>1. CASE Stale(e)
      BY <1>0, <1>1, <1>12, <2>1 DEF Pick, Kept
    <2>2. CASE ~ Stale(e)
      <3>1. /\ worker' = [Idle EXCEPT !.pc = "confirm", !.epoch = e]
            /\ UNCHANGED <<jobs, snap>> /\ jobs[e] # NoJob /\ e = snap.epoch
        BY <1>12, <2>2 DEF Pick, Stale
      <3>2. worker' = [pc |-> "confirm", epoch |-> e, gen |-> 0]
        BY <3>1 DEF Idle
      <3>3. WorkerTyped'
        BY <3>2, BoundsAssumption DEF WorkerTyped
      <3>4. WorkerHolds'
        BY <1>0, <3>1, <3>2 DEF WorkerHolds
      <3> QED
        BY <3>3, <3>4 DEF Goal
    <2> QED
      BY <2>1, <2>2
  <1>13. CASE HandleDealer
    BY <1>0, <1>1, <1>3, <1>4, <1>13, DealerBegins DEF HandleDealer
  <1>14. ASSUME NEW p \in Players, HandlePress(p) PROVE Goal
    <2>1. UNCHANGED jobs \/ RemoveTimeoutJob(snap.epoch)
      BY <1>14, PressBegins
    <2>2. UNCHANGED <<worker, snap>>
      BY <1>14 DEF HandlePress
    <2> QED
      BY <1>0, <1>1, <1>3, <1>4, <2>1, <2>2
  <1>15. Silent \/ Fire \/ LockTimeout \/ Restart => worker' = Idle
    BY DEF Silent, Fire, LockTimeout, Restart
  <1> QED
    BY <1>0, <1>1, <1>2, <1>3, <1>5, <1>6, <1>7, <1>8, <1>9, <1>10, <1>11, <1>12, <1>13,
       <1>14, <1>15, StepKinds DEF Elsewhere, Goal

\* what fails is counted, and remembered by its kind
LEMMA FaultsStep ==
  ASSUME [Next]_vars
  PROVE  UNCHANGED faults \/ \E kinds \in SUBSET Faults : Faulty(kinds)
  <1> USE DEF Fault, Faulty
  <1>1. Add \/ Write \/ Silent \/ Confirm \/ Fire => UNCHANGED faults
    BY DEF Add, Write, Silent, Confirm, Fire
  <1>2. ResolveWinners \/ RebuyInterrupted \/ RebuyDone \/ CheckpointFailed \/ FinishHand
          => UNCHANGED faults
    BY DEF ResolveWinners, RebuyInterrupted, RebuyDone, CheckpointFailed, FinishHand
  <1>3. Reconnect \/ MarkRecovered \/ CompleteSync \/ Tick => UNCHANGED faults
    BY DEF Reconnect, MarkRecovered, CompleteSync, Tick
  <1>4. /\ \A p \in Players : PlayerSends(p) => UNCHANGED faults
        /\ \A e \in Epochs : Pick(e) => UNCHANGED faults
        /\ \A what \in {"deal", "remove", "resume"} : DealerSends(what) => UNCHANGED faults
    BY DEF PlayerSends, Pick, DealerSends
  <1> DEFINE Goal == UNCHANGED faults \/ \E kinds \in SUBSET Faults : Faulty(kinds)
  <1>5. ASSUME NEW kind, Fault(kind) PROVE Goal
    BY <1>5
  <1>6. ASSUME NEW e, RemoveTimeoutJob(e) PROVE Goal
    BY <1>5, <1>6 DEF RemoveTimeoutJob
  <1>7. ASSUME NEW guard, PauseTable(guard) PROVE Goal
    BY <1>5, <1>7 DEF PauseTable
  <1>8. Abandon \/ LockTimeout => Goal
    BY <1>5 DEF Abandon, LockTimeout
  <1>9. HandleDealer => Goal
    BY <1>6 DEF HandleDealer, StartPreFlop, HandleDealerAction, ResumeTable, Begin, Refused
  <1>10. \A p \in Players : HandlePress(p) => Goal
    BY <1>6 DEF HandlePress, Begin, Refused
  <1>11. Outage \/ LineDown \/ Restart => Goal
    BY DEF Outage, LineDown, Restart
  <1>12. SweepLine => Goal
    BY <1>7 DEF SweepLine
  <1>13. \A g \in 0 .. MaxFaults : Sweep(g) => Goal
    BY <1>7 DEF Sweep
  <1>14. UNCHANGED vars => UNCHANGED faults
    BY DEF vars
  <1> HIDE DEF Goal, Faulty
  <1> QED
    BY <1>1, <1>2, <1>3, <1>4, <1>8, <1>9, <1>10, <1>11, <1>12, <1>13, <1>14 DEF Next, Goal

FaultsTyped == faults \in [count : 0 .. MaxFaults, kinds : SUBSET Faults]

LEMMA FaultsGrow ==
  ASSUME FaultsTyped, [Next]_vars
  PROVE  /\ FaultsTyped' /\ faults.count <= faults'.count
         /\ \A kinds : Without(kinds)' => Without(kinds)
  <1>1. CASE UNCHANGED faults
    BY <1>1, BoundsAssumption DEF FaultsTyped, Without
  <1>2. ASSUME NEW kinds \in SUBSET Faults, Faulty(kinds)
        PROVE  /\ FaultsTyped' /\ faults.count <= faults'.count
               /\ \A k : Without(k)' => Without(k)
    BY <1>2, BoundsAssumption DEF FaultsTyped, Faulty, Without
  <1> QED
    BY <1>1, <1>2, FaultsStep

\* what happens to Redis and to the sweeps
LEMMA LinkStep ==
  ASSUME [Next]_vars
  PROVE  \/ UNCHANGED <<link, sweeps>>
         \/ Outage \/ Reconnect \/ MarkRecovered \/ Restart
         \/ \E g \in 0 .. MaxFaults : Sweep(g)
  <1> DEFINE Goal == UNCHANGED <<link, sweeps>>
  <1>1. Add \/ Write \/ Abandon \/ Silent \/ Confirm \/ Fire \/ LockTimeout => Goal
    BY DEF Add, Write, Abandon, Silent, Confirm, Fire, LockTimeout
  <1>2. ResolveWinners \/ RebuyInterrupted \/ RebuyDone \/ CheckpointFailed \/ FinishHand => Goal
    BY DEF ResolveWinners, RebuyInterrupted, RebuyDone, CheckpointFailed, FinishHand
  <1>3. LineDown \/ SweepLine \/ CompleteSync \/ Tick \/ HandleDealer => Goal
    BY DEF LineDown, SweepLine, CompleteSync, Tick, HandleDealer
  <1>4. /\ \A p \in Players : PlayerSends(p) \/ HandlePress(p) => Goal
        /\ \A e \in Epochs : Pick(e) => Goal
        /\ \A what \in {"deal", "remove", "resume"} : DealerSends(what) => Goal
    BY DEF PlayerSends, HandlePress, Pick, DealerSends
  <1>5. UNCHANGED vars => Goal
    BY DEF vars
  <1> HIDE DEF Goal
  <1>6. \/ Goal \/ Outage \/ Reconnect \/ MarkRecovered \/ Restart
        \/ \E g \in 0 .. MaxFaults : Sweep(g)
    BY <1>1, <1>2, <1>3, <1>4, <1>5 DEF Next
  <1> QED
    BY <1>6 DEF Goal

LinkTyped ==
  /\ link \in [phase : {"up", "down", "recovering"}, gen : 0 .. MaxFaults]
  /\ sweeps \subseteq 0 .. MaxFaults

LEMMA LinkFits ==
  ASSUME LinkTyped, FaultsTyped, SweepsKnown, [Next]_vars
  PROVE  LinkTyped' /\ SweepsKnown'
  <1>0. link.gen \in Nat /\ link.gen <= MaxFaults /\ faults.count \in Nat /\ MaxFaults \in Nat
    BY BoundsAssumption DEF LinkTyped, FaultsTyped
  <1>1. FaultsTyped' /\ faults.count <= faults'.count /\ faults'.count \in Nat
    BY FaultsGrow, BoundsAssumption DEF FaultsTyped
  <1>2. CASE UNCHANGED <<link, sweeps>>
    BY <1>0, <1>1, <1>2 DEF LinkTyped, SweepsKnown
  <1>3. CASE Outage
    <2>1. /\ link' = [phase |-> "down", gen |-> link.gen + 1] /\ UNCHANGED sweeps
          /\ faults'.count = faults.count + 1 /\ faults.count < MaxFaults
      BY <1>3 DEF Outage, Faulty
    <2>2. link.gen + 1 \in 0 .. MaxFaults
      BY <1>0, <2>1 DEF SweepsKnown
    <2>3. LinkTyped'
      BY <2>1, <2>2 DEF LinkTyped
    <2>4. \A g \in sweeps : g \in Nat /\ g <= link.gen
      BY DEF SweepsKnown, LinkTyped
    <2> QED
      BY <1>0, <2>1, <2>3, <2>4 DEF SweepsKnown
  <1>4. CASE Reconnect
    <2>1. /\ link' = [phase |-> "recovering", gen |-> link.gen] /\ UNCHANGED faults
          /\ sweeps' = sweeps \union {link.gen}
      BY <1>4 DEF Reconnect, LinkTyped
    <2>2. LinkTyped'
      BY <2>1 DEF LinkTyped
    <2>3. \A g \in sweeps' : g <= link'.gen
      BY <1>0, <2>1 DEF SweepsKnown
    <2> QED
      BY <1>0, <2>1, <2>2, <2>3 DEF SweepsKnown
  <1>5. CASE MarkRecovered
    <2>1. /\ link' = [phase |-> "up", gen |-> link.gen] /\ UNCHANGED faults
          /\ link.gen \notin sweeps /\ UNCHANGED sweeps
      BY <1>5 DEF MarkRecovered, LinkTyped
    <2> QED
      BY <1>0, <2>1 DEF SweepsKnown, LinkTyped
  <1>6. CASE Restart
    <2>1. link' = [phase |-> "up", gen |-> 0] /\ sweeps' = {}
      BY <1>6 DEF Restart
    <2> QED
      BY <1>0, <1>1, <2>1 DEF SweepsKnown, LinkTyped
  <1>7. ASSUME NEW g \in 0 .. MaxFaults, Sweep(g) PROVE LinkTyped' /\ SweepsKnown'
    <2>1. sweeps' = sweeps \ {g} /\ UNCHANGED link
      BY <1>7 DEF Sweep
    <2> QED
      BY <1>0, <1>1, <2>1 DEF SweepsKnown, LinkTyped
  <1> QED
    BY <1>2, <1>3, <1>4, <1>5, <1>6, <1>7, LinkStep

\* the numbers the proofs reckon with
LEMMA ClockNumbers ==
  ASSUME Shape
  PROVE  /\ snap.epoch \in Nat /\ snap.epoch \in Epochs /\ snap.left \in NoDeadline .. Turn
         /\ worker.epoch \in Nat /\ worker.epoch \in Epochs
         /\ op.next.epoch \in Nat /\ op.next.epoch \in Epochs
         /\ \A e \in Epochs : e \in Nat /\ JobNamed(jobs[e])
  <1>1. /\ snap.epoch \in Epochs /\ worker.epoch \in Epochs /\ op.next.epoch \in Epochs
        /\ snap.left \in NoDeadline .. Turn
    BY ShapeParts, SnapshotFields DEF Fits, WorkerTyped, OpFits
  <1>2. \A e \in Epochs : e \in Nat
    BY BoundsAssumption DEF Epochs
  <1> QED
    BY <1>1, <1>2, ShapeParts, JobsAreNamed

\* who takes the lock: somebody while Redis is up, or the dealer
Taken ==
  /\ op.pc = "free" /\ op'.pc # "free" /\ stop' = "no" /\ UNCHANGED <<snap, line, link, sweeps>>
  /\ \/ Up /\ Live
     \/ dealer # "none" /\ HandleDealer

LEMMA BeganTakes == ASSUME NEW kind, Began(kind) PROVE op'.pc # "free" /\ stop' = "no"
  BY DEF Began

LEMMA PressTakes ==
  ASSUME Shape, NEW p \in Players, HandlePress(p)
  PROVE  UNCHANGED <<jobs, op, stop, faults>> \/ (Taken /\ Live)
  <1>1. UNCHANGED <<snap, line, link, sweeps>> /\ op.pc = "free"
    BY DEF HandlePress, LockFree
  <1> QED
    BY <1>1, ShapeParts, PressBegins, BeganTakes DEF Taken, MayAct

LEMMA DealerTakes ==
  ASSUME Shape, HandleDealer
  PROVE  UNCHANGED <<jobs, op, stop, faults>> \/ Taken
  <1>1. UNCHANGED <<snap, line, link, sweeps>> /\ op.pc = "free"
    BY DEF HandleDealer, LockFree
  <1> QED
    BY <1>1, ShapeParts, DealerBegins, BeganTakes DEF Taken

\* the clock only times out a player on turn, in an epoch that is his
LEMMA FireTakes ==
  ASSUME Shape, Fire
  PROVE  \/ ~ MayFire(worker.epoch) /\ UNCHANGED <<op, stop>> /\ jobs' = Dropped(worker.epoch)
         \/ MayFire(worker.epoch) /\ Taken /\ Live
  <1>1. UNCHANGED <<snap, line, link, sweeps>> /\ op.pc = "free" /\ worker.pc # "idle"
    BY DEF Fire, LockFree
  <1>2. MayFire(worker.epoch) => Live /\ Up
    <2>1. JobNamed(jobs[worker.epoch]) /\ jobs[worker.epoch] # NoJob
      BY <1>1, ClockNumbers, ShapeParts DEF WorkerHolds
    <2> QED
      BY <2>1, ShapeParts, NobodyAssumption DEF JobNamed, MayFire, Stale, Fits, Live
  <1> QED
    BY <1>1, <1>2, ShapeParts, FireBegins, BeganTakes DEF Taken, WorkerTyped

\* why a turn was stopped
LEMMA StopWhy ==
  ASSUME Shape, [Next]_vars
  PROVE  UNCHANGED stop \/ Taken \/ Outage \/ LineDown \/ Restart
  <1>1. Add \/ Write \/ Abandon \/ Silent \/ Confirm \/ LockTimeout \/ Tick => UNCHANGED stop
    BY DEF Add, Write, Abandon, Silent, Confirm, LockTimeout, Tick
  <1>2. ResolveWinners \/ RebuyInterrupted \/ RebuyDone \/ CheckpointFailed \/ FinishHand
          => UNCHANGED stop
    BY DEF ResolveWinners, RebuyInterrupted, RebuyDone, CheckpointFailed, FinishHand
  <1>3. Reconnect \/ MarkRecovered \/ SweepLine \/ CompleteSync => UNCHANGED stop
    BY DEF Reconnect, MarkRecovered, SweepLine, CompleteSync
  <1>4. /\ \A p \in Players : PlayerSends(p) => UNCHANGED stop
        /\ \A e \in Epochs : Pick(e) => UNCHANGED stop
        /\ \A what \in {"deal", "remove", "resume"} : DealerSends(what) => UNCHANGED stop
        /\ \A g \in 0 .. MaxFaults : Sweep(g) => UNCHANGED stop
    BY DEF PlayerSends, Pick, DealerSends, Sweep
  <1>5. /\ HandleDealer => UNCHANGED stop \/ Taken
        /\ Fire => UNCHANGED stop \/ Taken
        /\ \A p \in Players : HandlePress(p) => UNCHANGED stop \/ Taken
    BY DealerTakes, FireTakes, PressTakes
  <1>6. UNCHANGED vars => UNCHANGED stop
    BY DEF vars
  <1> QED
    BY <1>1, <1>2, <1>3, <1>4, <1>5, <1>6 DEF Next

\* the line, the tournament's status, and why a turn was stopped
PlainTyped ==
  /\ press \in [Players -> NoPress .. MaxFaults]
  /\ dealer \in {"none", "deal", "remove", "resume"}
  /\ line \in [down : BOOLEAN, sweep : BOOLEAN]
  /\ syncing \in BOOLEAN /\ settling \in {"no", "asking", "closing"}
  /\ stop \in {"no", "line", "server"}

LEMMA FlagsParts == FlagsTyped <=> PlainTyped /\ LinkTyped /\ FaultsTyped
  BY DEF FlagsTyped, PlainTyped, LinkTyped, FaultsTyped

LEMMA LineStep ==
  ASSUME [Next]_vars
  PROVE  \/ UNCHANGED <<line, syncing>>
         \/ Outage \/ LineDown \/ SweepLine \/ CompleteSync \/ Restart
         \/ UNCHANGED line /\ Reconnect
  <1> DEFINE Goal == UNCHANGED <<line, syncing>>
  <1>1. Add \/ Write \/ Abandon \/ Silent \/ Confirm \/ Fire \/ LockTimeout => Goal
    BY DEF Add, Write, Abandon, Silent, Confirm, Fire, LockTimeout
  <1>2. ResolveWinners \/ RebuyInterrupted \/ RebuyDone \/ CheckpointFailed \/ FinishHand => Goal
    BY DEF ResolveWinners, RebuyInterrupted, RebuyDone, CheckpointFailed, FinishHand
  <1>3. MarkRecovered \/ Tick \/ HandleDealer => Goal
    BY DEF MarkRecovered, Tick, HandleDealer
  <1>4. /\ \A p \in Players : PlayerSends(p) \/ HandlePress(p) => Goal
        /\ \A e \in Epochs : Pick(e) => Goal
        /\ \A what \in {"deal", "remove", "resume"} : DealerSends(what) => Goal
        /\ \A g \in 0 .. MaxFaults : Sweep(g) => Goal
    BY DEF PlayerSends, HandlePress, Pick, DealerSends, Sweep
  <1>5. UNCHANGED vars => Goal
    BY DEF vars
  <1>6. Reconnect => UNCHANGED line
    BY DEF Reconnect
  <1> HIDE DEF Goal
  <1>7. \/ Goal \/ Outage \/ LineDown \/ SweepLine \/ CompleteSync \/ Restart
        \/ UNCHANGED line /\ Reconnect
    BY <1>1, <1>2, <1>3, <1>4, <1>5, <1>6 DEF Next
  <1> QED
    BY <1>7 DEF Goal

LEMMA LineFits ==
  ASSUME LinkTyped, line \in [down : BOOLEAN, sweep : BOOLEAN], syncing \in BOOLEAN, LineKnown,
         [Next]_vars
  PROVE  /\ line' \in [down : BOOLEAN, sweep : BOOLEAN] /\ syncing' \in BOOLEAN /\ LineKnown'
  <1> USE DEF Up
  <1>1. CASE UNCHANGED <<line, syncing>>
    <2>1. link.phase = "up" => link'.phase = "up" \/ Outage
      <3>1. Reconnect => link.phase # "up"
        BY DEF Reconnect
      <3>2. MarkRecovered \/ Restart => link'.phase = "up"
        BY DEF MarkRecovered, Restart, LinkTyped
      <3>3. \A g \in 0 .. MaxFaults : Sweep(g) => UNCHANGED link
        BY DEF Sweep
      <3> QED
        BY <3>1, <3>2, <3>3, LinkStep
    <2>2. CASE Outage
      BY <1>1, <2>2 DEF Outage, LineKnown
    <2> QED
      BY <1>1, <2>1, <2>2 DEF LineKnown
  <1>2. CASE Outage
    BY <1>2 DEF Outage, LineKnown
  <1>3. CASE LineDown
    BY <1>3 DEF LineDown, LineKnown
  <1>4. CASE SweepLine
    BY <1>4 DEF SweepLine, LineKnown
  <1>5. CASE CompleteSync
    BY <1>5 DEF CompleteSync, LineKnown
  <1>6. CASE Restart
    BY <1>6 DEF Restart, LineKnown
  <1>7. CASE UNCHANGED line /\ Reconnect
    BY <1>7 DEF Reconnect, LineKnown
  <1> QED
    BY <1>1, <1>2, <1>3, <1>4, <1>5, <1>6, <1>7, LineStep

LEMMA PlainStep == ASSUME Shape, [Next]_vars PROVE PlainTyped'
  <1> USE ShapeParts, FlagsParts
  <1>1. press' \in [Players -> NoPress .. MaxFaults]
    <2> DEFINE Goal == press' \in [Players -> NoPress .. MaxFaults]
    <2>0. press \in [Players -> NoPress .. MaxFaults] /\ link.gen \in NoPress .. MaxFaults
          /\ NoPress \in NoPress .. MaxFaults
      BY BoundsAssumption DEF PlainTyped, LinkTyped, NoPress
    <2>1. UNCHANGED press => Goal
      BY <2>0
    <2>2. Add \/ Write \/ Abandon \/ Silent \/ Confirm \/ Fire \/ LockTimeout \/ Tick \/ HandleDealer
            => UNCHANGED press
      BY DEF Add, Write, Abandon, Silent, Confirm, Fire, LockTimeout, Tick, HandleDealer
    <2>3. ResolveWinners \/ RebuyInterrupted \/ RebuyDone \/ CheckpointFailed \/ FinishHand
            => UNCHANGED press
      BY DEF ResolveWinners, RebuyInterrupted, RebuyDone, CheckpointFailed, FinishHand
    <2>4. Outage \/ Reconnect \/ MarkRecovered \/ LineDown \/ SweepLine \/ CompleteSync
            => UNCHANGED press
      BY DEF Outage, Reconnect, MarkRecovered, LineDown, SweepLine, CompleteSync
    <2>5. /\ \A e \in Epochs : Pick(e) => UNCHANGED press
          /\ \A what \in {"deal", "remove", "resume"} : DealerSends(what) => UNCHANGED press
          /\ \A g \in 0 .. MaxFaults : Sweep(g) => UNCHANGED press
      BY DEF Pick, DealerSends, Sweep
    <2>6. \A p \in Players : PlayerSends(p) \/ HandlePress(p) => Goal
      BY <2>0 DEF PlayerSends, HandlePress
    <2>7. Restart => Goal
      BY <2>0 DEF Restart
    <2>8. UNCHANGED vars => UNCHANGED press
      BY DEF vars
    <2> HIDE DEF Goal
    <2>9. Goal
      BY <2>1, <2>2, <2>3, <2>4, <2>5, <2>6, <2>7, <2>8 DEF Next
    <2> QED
      BY <2>9 DEF Goal
  <1>2. dealer' \in {"none", "deal", "remove", "resume"} /\ settling' \in {"no", "asking", "closing"}
    <2> DEFINE Goal == /\ dealer' \in {"none", "deal", "remove", "resume"}
                       /\ settling' \in {"no", "asking", "closing"}
    <2>1. UNCHANGED <<dealer, settling>> => Goal
      BY DEF PlainTyped
    <2>2. Add \/ Write \/ Abandon \/ Silent \/ Confirm \/ Fire \/ LockTimeout \/ Tick
            => UNCHANGED <<dealer, settling>>
      BY DEF Add, Write, Abandon, Silent, Confirm, Fire, LockTimeout, Tick
    <2>3. ResolveWinners \/ RebuyInterrupted \/ RebuyDone \/ CheckpointFailed \/ FinishHand => Goal
      BY DEF ResolveWinners, RebuyInterrupted, RebuyDone, CheckpointFailed, FinishHand, PlainTyped
    <2>4. Outage \/ Reconnect \/ MarkRecovered \/ LineDown \/ SweepLine \/ CompleteSync
            => UNCHANGED <<dealer, settling>>
      BY DEF Outage, Reconnect, MarkRecovered, LineDown, SweepLine, CompleteSync
    <2>5. /\ \A e \in Epochs : Pick(e) => UNCHANGED <<dealer, settling>>
          /\ \A p \in Players : PlayerSends(p) \/ HandlePress(p) => UNCHANGED <<dealer, settling>>
          /\ \A g \in 0 .. MaxFaults : Sweep(g) => UNCHANGED <<dealer, settling>>
      BY DEF Pick, PlayerSends, HandlePress, Sweep
    <2>6. \A what \in {"deal", "remove", "resume"} : DealerSends(what) => Goal
      BY DEF DealerSends, PlainTyped
    <2>7. HandleDealer \/ Restart => Goal
      BY DEF HandleDealer, Restart, PlainTyped
    <2>8. UNCHANGED vars => UNCHANGED <<dealer, settling>>
      BY DEF vars
    <2> HIDE DEF Goal
    <2>9. Goal
      BY <2>1, <2>2, <2>3, <2>4, <2>5, <2>6, <2>7, <2>8 DEF Next
    <2> QED
      BY <2>9 DEF Goal
  <1>3. stop' \in {"no", "line", "server"}
    BY StopWhy DEF PlainTyped, Taken, Outage, LineDown, Restart, Stopped
  <1>4. line' \in [down : BOOLEAN, sweep : BOOLEAN] /\ syncing' \in BOOLEAN
    BY LineFits DEF PlainTyped
  <1> QED
    BY <1>1, <1>2, <1>3, <1>4 DEF PlainTyped

LEMMA ShapeStep == ASSUME Shape, [Next]_vars PROVE Shape'
  <1>1. LinkTyped /\ FaultsTyped /\ SweepsKnown /\ LineKnown /\ PlainTyped
    BY ShapeParts, FlagsParts
  <1>2. FlagsTyped'
    BY <1>1, PlainStep, LinkFits, FaultsGrow DEF FlagsTyped, PlainTyped, LinkTyped, FaultsTyped
  <1>3. SweepsKnown' /\ LineKnown'
    BY <1>1, LinkFits, LineFits DEF PlainTyped
  <1>4. TypeOK'
    BY <1>2, SnapStep, JobsStep, OpStep, WorkerStep
       DEF TypeOK, Fits, JobsTyped, OpTyped, WorkerTyped, FlagsTyped
  <1> QED
    BY <1>3, <1>4, JobsStep, OpStep, WorkerStep DEF Shape

LEMMA ShapeInit == Init => Shape
  <1> SUFFICES ASSUME Init PROVE Shape
    OBVIOUS
  <1>1. Fits(snap)
    BY EmptyFits DEF Init
  <1>2. OpTyped /\ OpFits
    BY EmptyFits DEF Init, Free, OpTyped, OpFits, InLock, Fits
  <1>3. JobsTyped /\ JobsNamed
    BY NoJobNamed DEF Init, JobsTyped, JobsNamed, JobNamed, JobSet
  <1>4. WorkerTyped /\ WorkerHolds
    BY BoundsAssumption DEF Init, Idle, WorkerTyped, WorkerHolds, Epochs
  <1>5. PlainTyped
    <2>1. NoPress \in NoPress .. MaxFaults
      BY BoundsAssumption DEF NoPress
    <2> QED
      BY <2>1 DEF Init, PlainTyped
  <1>6. LinkTyped /\ SweepsKnown /\ LineKnown /\ FaultsTyped
    BY BoundsAssumption DEF Init, LinkTyped, SweepsKnown, LineKnown, FaultsTyped
  <1> QED
    BY <1>1, <1>2, <1>3, <1>4, <1>5, <1>6, ShapeParts, FlagsParts

\* The clock's state is always well formed: an operation in the lock writes the
\* snapshot behind the one it read, a job belongs to a player, the job in the
\* worker stays in the queue, and a sweep belongs to an outage that happened.
THEOREM ShapeInvariant == Spec => []Shape
  BY ShapeInit, ShapeStep, PTL DEF Spec

\* The type invariant of the turn clock (scheduleTurnTimeout, handleAction, the
\* job processor and pauseTable keep the state well formed).
THEOREM TypeCorrect == Spec => []TypeOK
  <1>1. Shape => TypeOK
    BY DEF Shape
  <1> QED
    BY <1>1, ShapeInvariant, PTL

-----------------------------------------------------------------------------
(* The queue fits the turns while nothing is torn.                         *)

LEMMA FaultShows ==
  ASSUME NEW kinds, NEW kind \in kinds, NEW more, kind \in more, Faulty(more)
  PROVE  ~ Without(kinds)'
  BY DEF Faulty, Without

\* steps that only lose jobs, and end or keep the worker's call
LEMMA QueueShrinks ==
  ASSUME Shape, QueueFits, UNCHANGED snap,
         \A e \in Epochs : jobs'[e] = jobs[e] \/ jobs'[e] = NoJob,
         worker'.pc = "idle" \/ (worker.pc # "idle" /\ worker'.epoch = worker.epoch),
         \/ UNCHANGED op /\ (op.pc = "write" => jobs'[op.next.epoch] = jobs[op.next.epoch])
         \/ op.pc = "free" /\ \E kind \in Kinds : Began(kind)
  PROVE  QueueFits'
  <1> USE ClockNumbers
  <1>1. CASE UNCHANGED op /\ (op.pc = "write" => jobs'[op.next.epoch] = jobs[op.next.epoch])
    <2>1. \A e \in Epochs : jobs'[e] # NoJob => jobs'[e] = jobs[e]
      OBVIOUS
    <2>2. \A e \in Epochs : jobs'[e] # NoJob =>
            e <= snap'.epoch \/ (op'.pc = "write" /\ e = op'.next.epoch)
      BY <1>1, <2>1 DEF QueueFits
    <2>3. jobs'[snap'.epoch] # NoJob =>
            /\ jobs'[snap'.epoch].user = snap'.turn
            /\ 0 <= snap'.left /\ snap'.left <= jobs'[snap'.epoch].wait
      BY <2>1 DEF QueueFits
    <2>4. op'.pc = "write" =>
            jobs'[op'.next.epoch] = IF op'.next.turn = Nobody THEN NoJob
                                    ELSE [user |-> op'.next.turn, wait |-> Turn]
      BY <1>1 DEF QueueFits
    <2>5. worker'.pc # "idle" /\ worker'.epoch = snap'.epoch => snap'.left = 0
      BY DEF QueueFits
    <2> QED
      BY <2>2, <2>3, <2>4, <2>5 DEF QueueFits
  <1>2. CASE op.pc = "free" /\ \E kind \in Kinds : Began(kind)
    <2>0. /\ op'.next.epoch = snap.epoch + 1 /\ op'.next.epoch \in Epochs
          /\ op'.pc = "write" => op'.next.turn = Nobody
      BY <1>2, BoundsAssumption DEF Began, Epochs
    <2>1. \A e \in Epochs : jobs'[e] # NoJob => jobs'[e] = jobs[e]
      OBVIOUS
    <2>2. \A e \in Epochs : jobs'[e] # NoJob => e <= snap'.epoch
      BY <1>2, <2>1 DEF QueueFits
    <2>3. jobs'[snap'.epoch] # NoJob =>
            /\ jobs'[snap'.epoch].user = snap'.turn
            /\ 0 <= snap'.left /\ snap'.left <= jobs'[snap'.epoch].wait
      BY <2>1 DEF QueueFits
    <2>4. jobs'[op'.next.epoch] = NoJob
      BY <2>0, <2>2
    <2>5. worker'.pc # "idle" /\ worker'.epoch = snap'.epoch => snap'.left = 0
      BY DEF QueueFits
    <2> QED
      BY <2>0, <2>2, <2>3, <2>4, <2>5 DEF QueueFits
  <1> QED
    BY <1>1, <1>2

\* a stop, or a restart that finds the snapshot: no job has the new epoch
LEMMA QueueOfAStop ==
  ASSUME Shape, QueueFits, op.pc # "write", op'.pc = "free", UNCHANGED jobs,
         worker'.pc = "idle" \/ worker' = worker,
         snap'.epoch = snap.epoch + 1, snap'.epoch \in Epochs
  PROVE  QueueFits'
  <1> USE ClockNumbers
  <1>1. \A e \in Epochs : jobs[e] # NoJob => e <= snap.epoch
    BY DEF QueueFits
  <1>2. \A e \in Epochs : e > snap.epoch => jobs[e] = NoJob
    BY <1>1
  <1>3. jobs'[snap'.epoch] = NoJob
    BY <1>2
  <1>4. worker'.pc # "idle" => worker'.epoch <= snap.epoch
    BY ShapeParts DEF WorkerHolds
  <1> QED
    BY <1>1, <1>3, <1>4 DEF QueueFits

LEMMA QueueStep ==
  ASSUME Shape, Shape', [Next]_vars, Without({"torn"}) => QueueFits, Without({"torn"})'
  PROVE  QueueFits'
  <1> USE ClockNumbers
  <1>0. QueueFits /\ FaultsTyped
    BY FaultsGrow, ShapeParts, FlagsParts
  <1>t. /\ ~ Fault("torn")
        /\ \A kinds : "torn" \in kinds => ~ Faulty(kinds)
    BY FaultShows DEF Fault
  <1>p. JobsTyped /\ JobsNamed /\ WorkerHolds /\ OpFits /\ Fits(snap)
    BY ShapeParts
  <1>d. \A e \in Epochs : \A x \in Epochs : Dropped(e)[x] = jobs[x] \/ (x = e /\ Dropped(e)[x] = NoJob)
    BY <1>p, DropJob
  <1>1. CASE Elsewhere
    BY <1>0, <1>1 DEF Elsewhere, QueueFits
  <1>2. CASE Add
    <2> DEFINE j == [user |-> op.next.turn, wait |-> Turn]
    <2>1. /\ op.pc = "arm" /\ op.next.turn # Nobody /\ op.next.epoch = snap.epoch + 1
          /\ UNCHANGED <<snap, worker>>
      BY <1>2, <1>p DEF Add, OpFits, InLock
    <2>2. jobs[op.next.epoch] = NoJob
      BY <1>0, <2>1 DEF QueueFits
    <2>3. jobs' = [x \in Epochs |-> IF x = op.next.epoch THEN j ELSE jobs[x]]
      BY <1>2, <1>p, <2>2 DEF Add, JobsTyped
    <2>4. op'.pc = "write" /\ op'.next.epoch = op.next.epoch /\ op'.next.turn = op.next.turn
      <3>1. op' = [op EXCEPT !.pc = "write", !.next.left = Turn]
        BY <1>2 DEF Add
      <3>2. op.next \in Snapshot /\ OpTyped
        BY <1>p, ShapeParts DEF OpFits, Fits
      <3>3. op' = [[op EXCEPT !.pc = "write"] EXCEPT !.next = [op.next EXCEPT !.left = Turn]]
        BY <3>1, <3>2 DEF OpTyped
      <3>4. op' = [kind |-> op.kind, pc |-> "write", next |-> [op.next EXCEPT !.left = Turn]]
        BY <3>1, <3>2 DEF OpTyped
      <3>5. [op.next EXCEPT !.left = Turn].epoch = op.next.epoch
            /\ [op.next EXCEPT !.left = Turn].turn = op.next.turn
        BY <3>2 DEF Snapshot
      <3> QED
        BY <3>4, <3>5
    <2> HIDE DEF j
    <2>5. \A e \in Epochs : jobs'[e] # NoJob => e <= snap.epoch \/ e = op.next.epoch
      BY <1>0, <2>1, <2>3 DEF QueueFits
    <2>6. jobs'[snap.epoch] = jobs[snap.epoch]
      BY <2>1, <2>3
    <2>7. jobs'[op.next.epoch] = [user |-> op.next.turn, wait |-> Turn]
      BY <2>3 DEF j
    <2> QED
      BY <1>0, <2>1, <2>4, <2>5, <2>6, <2>7 DEF QueueFits
  <1>3. CASE Write
    <2>1. /\ snap' = op.next /\ op.pc = "write" /\ op'.pc = "free" /\ UNCHANGED <<jobs, worker>>
          /\ op.next.epoch = snap.epoch + 1
          /\ op.next.turn # Nobody => op.next.left = Turn
      BY <1>3, <1>p DEF Write, OpFits, InLock, Free
    <2>2. jobs[op.next.epoch] # NoJob =>
            /\ jobs[op.next.epoch].user = op.next.turn
            /\ 0 <= op.next.left /\ op.next.left <= jobs[op.next.epoch].wait
      BY <1>0, <2>1, TicksAssumption DEF QueueFits
    <2>3. worker.pc # "idle" => worker.epoch <= snap.epoch
      BY <1>p DEF WorkerHolds
    <2> QED
      BY <1>0, <2>1, <2>2, <2>3 DEF QueueFits
  <1>4. CASE Abandon
    <2>1. op.pc # "write" /\ op'.pc = "free" /\ UNCHANGED <<snap, jobs, worker>>
      BY <1>4, <1>t DEF Abandon, Free
    <2> QED
      BY <1>0, <2>1 DEF QueueFits
  <1>5. CASE HandMoves
    <2>1. /\ snap'.epoch = snap.epoch /\ snap'.turn = snap.turn /\ snap'.left = snap.left
          /\ op.pc = "free" /\ UNCHANGED <<jobs, op, worker>>
      BY <1>5, <1>p, HandMovesSnap
    <2> QED
      BY <1>0, <2>1 DEF QueueFits
  <1>6. CASE Stops /\ UNCHANGED <<jobs, op, worker>>
    <2>1. snap'.epoch = snap.epoch + 1 /\ snap'.epoch \in Epochs /\ op.pc = "free"
      BY <1>6, <1>p, PausedFits, SnapshotFields DEF Stops, Fits
    <2> QED
      BY <1>0, <1>6, <2>1, QueueOfAStop
  <1>7. CASE Restart
    <2>1. op.pc # "write" /\ op'.pc = "free" /\ worker'.pc = "idle" /\ snap.epoch < MaxEpoch
      BY <1>7, <1>t DEF Restart, Caught, Free, Idle
    <2>2. CASE jobs' = [e \in Epochs |-> NoJob] /\ snap' = Empty
      <3>1. snap'.epoch \in Epochs
        BY <2>2, EmptyFits, BoundsAssumption DEF Epochs
      <3>2. \A e \in Epochs : jobs'[e] = NoJob
        BY <2>2
      <3> QED
        BY <2>1, <3>1, <3>2 DEF QueueFits
    <2>3. CASE UNCHANGED <<jobs, snap>>
      BY <1>0, <2>1, <2>3 DEF QueueFits
    <2>4. CASE UNCHANGED jobs /\ snap' = Paused(snap)
      <3>1. snap'.epoch = snap.epoch + 1 /\ snap'.epoch \in Epochs
        BY <1>p, <2>1, <2>4, PausedFits, SnapshotFields DEF Fits
      <3> QED
        BY <1>0, <2>1, <2>4, <3>1, QueueOfAStop
    <2> QED
      BY <1>7, <2>2, <2>3, <2>4 DEF Restart
  <1>8. CASE Tick
    <2>1. op.pc = "free" /\ UNCHANGED <<op, worker>>
          /\ snap' = [snap EXCEPT !.left = Less(@)]
      BY <1>8 DEF Tick
    <2>2. snap'.epoch = snap.epoch /\ snap'.turn = snap.turn /\ snap'.left = Less(snap.left)
      BY <2>1, <1>p DEF Fits, Snapshot
    <2>3. \A x \in Epochs : jobs'[x].user = jobs[x].user /\ jobs'[x].wait = Less(jobs[x].wait)
                            /\ (jobs'[x] # NoJob => jobs[x] # NoJob)
      <3>1. jobs' = [x \in Epochs |-> [jobs[x] EXCEPT !.wait = Less(@)]]
        BY <1>8 DEF Tick
      <3> SUFFICES ASSUME NEW x \in Epochs
                   PROVE  /\ jobs'[x].user = jobs[x].user /\ jobs'[x].wait = Less(jobs[x].wait)
                          /\ jobs'[x] # NoJob => jobs[x] # NoJob
        OBVIOUS
      <3>2. JobNamed(jobs[x])
        OBVIOUS
      <3>3. jobs'[x] = [user |-> jobs[x].user, wait |-> Less(jobs[x].wait)]
        BY <3>1, <3>2 DEF JobNamed, JobSet
      <3> QED
        BY <3>3 DEF NoJob, Less
    <2>4. \A x \in Epochs : jobs[x].wait \in Nat
      BY TicksAssumption DEF JobNamed, JobSet
    <2>5. jobs'[snap'.epoch] # NoJob =>
            /\ jobs'[snap'.epoch].user = snap'.turn
            /\ 0 <= snap'.left /\ snap'.left <= jobs'[snap'.epoch].wait
      <3> DEFINE w == jobs[snap.epoch].wait
      <3>1. jobs'[snap.epoch] # NoJob => jobs[snap.epoch].user = snap.turn
              /\ 0 <= snap.left /\ snap.left <= w
        BY <1>0, <2>3 DEF QueueFits
      <3>2. w \in Nat /\ snap.left \in Int
        BY <2>4 DEF NoDeadline
      <3>3. jobs'[snap.epoch].user = jobs[snap.epoch].user /\ jobs'[snap.epoch].wait = Less(w)
        BY <2>3
      <3> HIDE DEF w
      <3>4. 0 <= snap.left /\ snap.left <= w => 0 <= Less(snap.left) /\ Less(snap.left) <= Less(w)
        BY <3>2 DEF Less
      <3> QED
        BY <2>2, <3>1, <3>3, <3>4
    <2>6. worker'.pc # "idle" /\ worker'.epoch = snap'.epoch => snap'.left = 0
      BY <1>0, <2>1, <2>2 DEF QueueFits, Less
    <2>7. \A e \in Epochs : jobs'[e] # NoJob => e <= snap'.epoch
      BY <1>0, <2>1, <2>2, <2>3 DEF QueueFits
    <2> QED
      BY <2>1, <2>5, <2>6, <2>7 DEF QueueFits
  <1>9. CASE Silent
    <2> DEFINE w == worker.epoch
    <2>1. /\ jobs' = [jobs EXCEPT ![w].wait = Hold] /\ worker'.pc = "idle"
          /\ worker.pc # "idle" /\ UNCHANGED <<snap, op>>
      BY <1>9 DEF Silent, Idle
    <2>2. jobs[w] # NoJob /\ w <= snap.epoch
      BY <1>p, <2>1 DEF WorkerHolds
    <2>3. /\ \A x \in Epochs : x # w => jobs'[x] = jobs[x]
          /\ jobs'[w] = [user |-> jobs[w].user, wait |-> Hold]
      <3>1. JobNamed(jobs[w])
        OBVIOUS
      <3>2. [jobs[w] EXCEPT !.wait = Hold] = [user |-> jobs[w].user, wait |-> Hold]
        BY <3>1 DEF JobNamed, JobSet
      <3> QED
        BY <1>p, <2>1, <3>2 DEF JobsTyped
    <2>4. op.pc = "write" => op.next.epoch # w
      BY <1>p, <2>2 DEF OpFits, InLock
    <2>5. w = snap.epoch => snap.left = 0 /\ jobs[w].user = snap.turn
      BY <1>0, <2>1, <2>2 DEF QueueFits
    <2>6. 0 <= Hold
      BY TicksAssumption
    <2>7. jobs'[snap.epoch] # NoJob =>
            /\ jobs'[snap.epoch].user = snap.turn
            /\ 0 <= snap.left /\ snap.left <= jobs'[snap.epoch].wait
      <3>1. CASE w = snap.epoch
        BY <2>3, <2>5, <2>6, <3>1
      <3>2. CASE w # snap.epoch
        BY <1>0, <2>3, <3>2 DEF QueueFits
      <3> QED
        BY <3>1, <3>2
    <2>8. \A e \in Epochs : jobs'[e] # NoJob => jobs[e] # NoJob
      BY <2>2, <2>3
    <2>9. op.pc = "write" => jobs'[op.next.epoch] = jobs[op.next.epoch]
      BY <2>3, <2>4
    <2> HIDE DEF w
    <2> QED
      BY <1>0, <2>1, <2>7, <2>8, <2>9 DEF QueueFits
  <1>w. worker.pc # "idle" /\ op.pc = "write" =>
          Dropped(worker.epoch)[op.next.epoch] = jobs[op.next.epoch]
    <2>1. worker.pc # "idle" /\ op.pc = "write" => worker.epoch # op.next.epoch
      BY <1>p DEF OpFits, InLock, WorkerHolds
    <2> QED
      BY <1>d, <2>1
  <1>10. CASE Confirm
    <2>1. /\ UNCHANGED <<snap, op>> /\ worker.pc # "idle"
          /\ UNCHANGED jobs \/ jobs' = Dropped(worker.epoch)
      BY <1>10 DEF Confirm
    <2>2. worker'.pc = "idle" \/ worker'.epoch = worker.epoch
      BY <1>10, ConfirmCalls DEF Idle
    <2> QED
      BY <1>0, <1>d, <1>w, <2>1, <2>2, QueueShrinks
  <1>11. CASE Fire
    <2>1. /\ UNCHANGED snap /\ worker'.pc = "idle" /\ worker.pc # "idle" /\ op.pc = "free"
          /\ UNCHANGED jobs \/ jobs' = Dropped(worker.epoch)
      BY <1>11 DEF Fire, Idle, LockFree
    <2>2. UNCHANGED op \/ \E kind \in Kinds : Began(kind)
      BY <1>11, <1>p, FireBegins DEF Kinds
    <2> QED
      BY <1>0, <1>d, <2>1, <2>2, QueueShrinks
  <1>12. CASE LockTimeout
    <2>1. /\ UNCHANGED <<snap, op>> /\ worker'.pc = "idle" /\ worker.pc # "idle"
          /\ jobs' = Dropped(worker.epoch)
      BY <1>12 DEF LockTimeout, Idle
    <2> QED
      BY <1>0, <1>d, <1>w, <2>1, QueueShrinks
  <1>r. RemoveTimeoutJob(snap.epoch) => \A e \in Epochs : jobs'[e] = jobs[e] \/ jobs'[e] = NoJob
    BY <1>p, <1>d, RemoveJob
  <1>13. CASE HandleDealer
    <2>1. UNCHANGED <<snap, worker>> /\ op.pc = "free"
      BY <1>13 DEF HandleDealer, LockFree
    <2>2. \/ UNCHANGED <<jobs, op>>
          \/ RemoveTimeoutJob(snap.epoch) /\ \E kind \in Kinds : Began(kind)
      BY <1>13, <1>p, DealerBegins DEF Kinds
    <2> QED
      BY <1>0, <1>r, <2>1, <2>2, QueueShrinks
  <1>14. ASSUME NEW p \in Players, HandlePress(p) PROVE QueueFits'
    <2>1. UNCHANGED <<snap, worker>> /\ op.pc = "free"
      BY <1>14 DEF HandlePress, LockFree
    <2>2. \/ UNCHANGED <<jobs, op>>
          \/ RemoveTimeoutJob(snap.epoch) /\ \E kind \in Kinds : Began(kind)
      <3> DEFINE kind == IF snap.left = 0 THEN "expired" ELSE "act"
      <3>1. kind \in Kinds
        BY DEF Kinds
      <3>2. UNCHANGED <<jobs, op>> \/ (RemoveTimeoutJob(snap.epoch) /\ Began(kind))
        BY <1>14, <1>p, PressBegins
      <3> QED
        BY <3>1, <3>2
    <2> QED
      BY <1>0, <1>r, <2>1, <2>2, QueueShrinks
  <1>15. ASSUME NEW e \in Epochs, Pick(e) PROVE QueueFits'
    <2>1. UNCHANGED <<snap, op>> /\ jobs[e] # NoJob /\ jobs[e].wait = 0 /\ worker.pc = "idle"
      BY <1>15 DEF Pick
    <2>2. CASE Stale(e)
      <3>1. jobs' = Dropped(e) /\ UNCHANGED worker
        BY <1>15, <2>2 DEF Pick
      <3>2. op.pc = "write" => op.next.epoch # e
        BY <1>0, <2>1, TicksAssumption DEF QueueFits
      <3> QED
        BY <1>0, <1>d, <2>1, <3>1, <3>2, QueueShrinks
    <2>3. CASE ~ Stale(e)
      <3>1. e = snap.epoch /\ worker'.epoch = e /\ UNCHANGED jobs
        BY <1>15, <2>3 DEF Pick, Stale, Idle
      <3>2. snap.left = 0
        BY <1>0, <2>1, <3>1 DEF QueueFits, NoDeadline
      <3> QED
        BY <1>0, <2>1, <3>1, <3>2 DEF QueueFits
    <2> QED
      BY <2>2, <2>3
  <1> QED
    BY <1>1, <1>2, <1>3, <1>4, <1>5, <1>6, <1>7, <1>8, <1>9, <1>10, <1>11, <1>12, <1>13,
       <1>14, <1>15, StepKinds

-----------------------------------------------------------------------------
(* What a stop leaves behind.                                              *)

\* a turn runs on, or an operation writes a new one
LEMMA LiveStep ==
  ASSUME Shape, [Next]_vars, Live'
  PROVE  Write \/ (Live /\ snap'.epoch = snap.epoch /\ snap'.turn = snap.turn)
  <1> USE ShapeParts
  <1> DEFINE Goal == Live /\ snap'.epoch = snap.epoch /\ snap'.turn = snap.turn
  <1>1. UNCHANGED snap => Goal
    BY DEF Live
  <1>2. ~ HandMoves
    BY HandMovesSnap
  <1>3. ~ Stops
    BY PausedFits DEF Stops, Live
  <1>4. ~ Restart
    <2> SUFFICES ASSUME Restart PROVE FALSE
      OBVIOUS
    <2>1. snap.turn = Nobody => snap.phase # "BETTING"
      BY DEF Fits
    <2> QED
      BY <2>1, PausedFits DEF Restart, Live, Empty
  <1>5. Tick => Goal
    BY DEF Tick, Fits, Snapshot, Live
  <1>6. Add \/ Abandon \/ Silent \/ Confirm \/ Fire \/ LockTimeout \/ HandleDealer => UNCHANGED snap
    BY DEF Add, Abandon, Silent, Confirm, Fire, LockTimeout, HandleDealer
  <1>7. \A p \in Players : HandlePress(p) => UNCHANGED snap
    BY DEF HandlePress
  <1>8. \A e \in Epochs : Pick(e) => UNCHANGED snap
    BY DEF Pick
  <1> HIDE DEF Goal
  <1>9. Write \/ Goal
    BY <1>1, <1>2, <1>3, <1>4, <1>5, <1>6, <1>7, <1>8, StepKinds DEF Elsewhere
  <1> QED
    BY <1>9 DEF Goal

\* the lock is taken by Taken only
LEMMA LockStep ==
  ASSUME Shape, [Next]_vars, op.pc = "free"
  PROVE  op'.pc = "free" \/ Taken
  <1>1. Elsewhere \/ Restart \/ Tick \/ Silent \/ Confirm \/ LockTimeout => op'.pc = "free"
    BY DEF Elsewhere, Restart, Tick, Silent, Confirm, LockTimeout, Free
  <1>2. ~ Add /\ ~ Write /\ ~ Abandon
    BY DEF Add, Write, Abandon
  <1>3. HandMoves => op'.pc = "free"
    BY HandMovesSnap, ShapeParts
  <1>4. \A e \in Epochs : Pick(e) => op'.pc = "free"
    BY DEF Pick
  <1>5. \A p \in Players : HandlePress(p) => op'.pc = "free" \/ Taken
    BY PressTakes
  <1> QED
    BY <1>1, <1>2, <1>3, <1>4, <1>5, StepKinds, DealerTakes, FireTakes DEF Stops

\* only the dealer gets a table going that stands still
LEMMA StillStep ==
  ASSUME Shape, [Next]_vars, Still
  PROVE  Still' \/ (dealer # "none" /\ HandleDealer /\ Taken)
  <1>1. ~ Live'
    BY LiveStep DEF Still, InLock, Write
  <1> QED
    BY <1>1, LockStep DEF Still, InLock, Taken

LEMMA RestartStill == ASSUME Shape, Restart PROVE Still'
  <1>1. [Next]_vars
    BY DEF Next
  <1>2. ~ Live'
    BY <1>1, LiveStep, ShapeParts, EmptyFits, PausedFits DEF Restart, Write, Live, Fits
  <1> QED
    BY <1>2 DEF Restart, Still, InLock, Free

\* a sweep that reaches the table leaves it still
LEMMA SweptStill ==
  ASSUME Shape, PauseTable(TRUE), Reachable, ~ Fault("sweep"), UNCHANGED op
  PROVE  Still'
  <1>1. op.pc = "free" /\ (Stops \/ (UNCHANGED snap /\ (snap.resume \/ snap.turn = Nobody)))
    BY PauseStops DEF Stops
  <1>2. Stops => snap'.resume
    BY ShapeParts, PausedFits DEF Stops
  <1>3. snap.turn = Nobody => snap.phase # "BETTING"
    BY ShapeParts DEF Fits
  <1> QED
    BY <1>1, <1>2, <1>3 DEF Still, InLock, Live

LEMMA StepFaults ==
  ASSUME Shape, [Next]_vars
  PROVE  \A kinds : Without(kinds)' => Without(kinds)
  BY FaultsGrow, ShapeParts, FlagsParts

\* a command of the dealer does not outlive the begin of a stop unseen
LEMMA QuietStep ==
  ASSUME Shape, [Next]_vars, DealerQuiet, Without({"late"})'
  PROVE  DealerQuiet'
  <1>1. CASE Outage \/ LineDown
    <2>1. \A k : "late" \in k => ~ Faulty(k)
      BY FaultShows
    <2>2. dealer = "none" /\ UNCHANGED dealer
      BY <1>1, <2>1 DEF Outage, LineDown, Caught
    <2> QED
      BY <2>2 DEF DealerQuiet
  <1>2. CASE Restart
    BY <1>2 DEF Restart, DealerQuiet
  <1>3. ASSUME NEW what \in {"deal", "remove", "resume"}, DealerSends(what) PROVE DealerQuiet'
    <2>1. Up' /\ ~ line'.down
      BY <1>3, ShapeParts DEF DealerSends, LineKnown, Up
    <2> QED
      BY <2>1 DEF DealerQuiet
  <1>4. CASE HandleDealer
    BY <1>4 DEF HandleDealer, DealerQuiet
  <1>5. CASE UNCHANGED dealer /\ ~ Outage /\ ~ LineDown /\ ~ Restart
    <2>1. Up => Up'
      <3>1. MarkRecovered => link'.phase = "up"
        BY ShapeParts, FlagsParts DEF MarkRecovered, LinkTyped
      <3>2. \A g \in 0 .. MaxFaults : Sweep(g) => UNCHANGED link
        BY DEF Sweep
      <3>3. Reconnect => ~ Up
        BY DEF Reconnect, Up
      <3> QED
        BY <1>5, <3>1, <3>2, <3>3, LinkStep DEF Up
    <2>2. line'.down => line.down
      BY <1>5, LineStep, ShapeParts, FlagsParts DEF SweepLine, CompleteSync, PlainTyped
    <2> QED
      BY <1>5, <2>1, <2>2 DEF DealerQuiet
  <1>6. Add \/ Write \/ Abandon \/ Silent \/ Confirm \/ Fire \/ LockTimeout \/ Tick => UNCHANGED dealer
    BY DEF Add, Write, Abandon, Silent, Confirm, Fire, LockTimeout, Tick
  <1>7. ResolveWinners \/ RebuyInterrupted \/ RebuyDone \/ CheckpointFailed \/ FinishHand
          => UNCHANGED dealer
    BY DEF ResolveWinners, RebuyInterrupted, RebuyDone, CheckpointFailed, FinishHand
  <1>8. Reconnect \/ MarkRecovered \/ SweepLine \/ CompleteSync => UNCHANGED dealer
    BY DEF Reconnect, MarkRecovered, SweepLine, CompleteSync
  <1>9. /\ \A e \in Epochs : Pick(e) => UNCHANGED dealer
        /\ \A p \in Players : PlayerSends(p) \/ HandlePress(p) => UNCHANGED dealer
        /\ \A g \in 0 .. MaxFaults : Sweep(g) => UNCHANGED dealer
    BY DEF Pick, PlayerSends, HandlePress, Sweep
  <1>10. UNCHANGED vars => UNCHANGED dealer
    BY DEF vars
  <1> QED
    BY <1>1, <1>2, <1>3, <1>4, <1>5, <1>6, <1>7, <1>8, <1>9, <1>10 DEF Next

\* Redis is lost only by an outage, and regained behind the sweep or by a restart
LEMMA UpStep ==
  ASSUME Shape, [Next]_vars
  PROVE  /\ Up /\ ~ Up' => Outage
         /\ ~ Up /\ Up' => Restart \/ (MarkRecovered /\ link.phase = "recovering" /\ SweptUp)
         /\ Up /\ Up' => UNCHANGED link \/ Restart
  <1>1. MarkRecovered => link.phase = "recovering" /\ SweptUp
    BY DEF MarkRecovered, SweptUp
  <1>2. \A g \in 0 .. MaxFaults : Sweep(g) => UNCHANGED link
    BY DEF Sweep
  <1>3. Reconnect => ~ Up /\ ~ Up'
    BY ShapeParts, FlagsParts DEF Reconnect, Up, LinkTyped
  <1>4. (Outage => ~ Up') /\ (Restart => Up')
    BY DEF Outage, Restart, Up
  <1>5. UNCHANGED link => (Up <=> Up')
    BY DEF Up
  <1>6. link.phase = "recovering" => ~ Up
    BY DEF Up
  <1> QED
    BY <1>1, <1>2, <1>3, <1>4, <1>5, <1>6, LinkStep

\* what an outage hits is marked by it
LEMMA HitStep ==
  ASSUME Shape, [Next]_vars, DealerQuiet, OutageHit
  PROVE  OutageHit'
  <1> SUFFICES ASSUME ~ Up', ~ Still' PROVE stop' = "server"
    BY DEF OutageHit
  <1>1. CASE Outage
    <2>1. UNCHANGED <<snap, op>> /\ Stopped("server")
      BY <1>1 DEF Outage
    <2>2. Live \/ op.pc # "free"
      BY <2>1 DEF Still, InLock, Live
    <2> QED
      BY <2>1, <2>2 DEF Stopped
  <1>2. CASE ~ Outage
    <2>1. ~ Up
      BY <1>2, UpStep
    <2>2. dealer = "none" /\ ~ Taken
      BY <2>1 DEF DealerQuiet, Taken
    <2>3. ~ Still
      BY <2>2, StillStep
    <2>4. stop = "server"
      BY <2>1, <2>3 DEF OutageHit
    <2>5. ~ Restart /\ ~ LineDown
      BY <2>1, RestartStill DEF LineDown
    <2> QED
      BY <1>2, <2>2, <2>4, <2>5, StopWhy
  <1> QED
    BY <1>1, <1>2

\* behind the sweep of the last outage the table stands still, unless the dealer
\* gets it going
LEMMA SweptUpStep ==
  ASSUME Shape, [Next]_vars, Without({"sweep"})', SweptUp', ~ SweptUp
  PROVE  Still'
  <1> USE ShapeParts, FlagsParts
  <1>1. CASE UNCHANGED <<link, sweeps>>
    BY <1>1 DEF SweptUp
  <1>2. ~ Outage
    BY DEF Outage, SweptUp
  <1>3. ~ Reconnect
    BY DEF Reconnect, SweptUp, LinkTyped
  <1>4. ~ MarkRecovered
    BY DEF MarkRecovered, SweptUp
  <1>5. CASE Restart
    BY <1>5, RestartStill
  <1>6. ASSUME NEW g \in 0 .. MaxFaults, Sweep(g) PROVE Still'
    <2>1. UNCHANGED <<link, op>> /\ sweeps' = sweeps \ {g} /\ PauseTable(g = link.gen) /\ g \in sweeps
      BY <1>6 DEF Sweep
    <2>2. link.phase # "down" /\ g = link.gen
      BY <2>1 DEF SweptUp
    <2>3. PauseTable(TRUE)
      BY <2>1, <2>2
    <2>4. ~ Fault("sweep")
      BY FaultShows DEF Fault
    <2> QED
      BY <2>1, <2>2, <2>3, <2>4, SweptStill DEF Reachable
  <1> QED
    BY <1>1, <1>2, <1>3, <1>4, <1>5, <1>6, LinkStep

\* the line of the hall: behind its sweep the table stands still
LEMMA LineSweptStep ==
  ASSUME Shape, [Next]_vars, Without({"sweep"})', ~ (line'.down /\ line'.sweep)
  PROVE  Still' \/ ~ (line.down /\ line.sweep) \/ Outage
  <1> USE ShapeParts, FlagsParts
  <1> SUFFICES ASSUME line.down, line.sweep, ~ Outage PROVE Still'
    OBVIOUS
  <1>1. ~ UNCHANGED <<line, syncing>> /\ ~ UNCHANGED line
    OBVIOUS
  <1>2. ~ LineDown /\ ~ CompleteSync
    BY DEF LineDown, CompleteSync
  <1>3. CASE Restart
    BY <1>3, RestartStill
  <1>4. CASE SweepLine
    <2>1. PauseTable(TRUE) /\ UNCHANGED op /\ Reachable
      BY <1>4 DEF SweepLine, LineKnown, Up, Reachable
    <2>2. ~ Fault("sweep")
      BY FaultShows DEF Fault
    <2> QED
      BY <2>1, <2>2, SweptStill
  <1> QED
    BY <1>1, <1>2, <1>3, <1>4, LineStep

LEMMA StopStep ==
  ASSUME Shape, [Next]_vars, StopHolds, Without({"sweep"})'
  PROVE  StopHolds'
  <1> USE ShapeParts, FlagsParts
  <1>t. stop' # "no" => ~ Taken
    BY DEF Taken
  <1>1. ASSUME stop' = "server", SweptUp' PROVE Still'
    <2>1. CASE ~ SweptUp
      BY <2>1, <1>1, SweptUpStep
    <2>2. CASE SweptUp /\ stop = "server"
      BY <1>1, <1>t, <2>2, StillStep DEF StopHolds
    <2>3. CASE stop # "server"
      <3>1. Outage \/ LineDown \/ Restart
        BY <1>1, <1>t, <2>3, StopWhy
      <3>2. ~ Outage
        BY <1>1 DEF Outage, SweptUp
      <3>3. ~ LineDown
        BY <1>1, <2>3 DEF LineDown, Stopped
      <3> QED
        BY <3>1, <3>2, <3>3, RestartStill
    <2> QED
      BY <2>1, <2>2, <2>3
  <1>2. ASSUME stop' = "line", ~ (line'.down /\ line'.sweep) PROVE Still'
    <2>1. CASE Outage
      <3>1. Stopped("server") /\ UNCHANGED <<snap, op>>
        BY <2>1 DEF Outage
      <3> QED
        BY <1>2, <3>1 DEF Stopped, Still, InLock, Live
    <2>2. CASE ~ Outage /\ line.down /\ line.sweep
      BY <1>2, <2>2, LineSweptStep
    <2>3. CASE ~ Outage /\ ~ (line.down /\ line.sweep)
      <3>1. CASE stop = "line"
        BY <1>2, <1>t, <2>3, <3>1, StillStep DEF StopHolds
      <3>2. CASE stop # "line"
        <4>1. LineDown \/ Restart
          BY <1>2, <1>t, <2>3, <3>2, StopWhy
        <4>2. ~ LineDown
          BY <1>2 DEF LineDown
        <4> QED
          BY <4>1, <4>2, RestartStill
      <3> QED
        BY <3>1, <3>2
    <2> QED
      BY <2>1, <2>2, <2>3
  <1> QED
    BY <1>1, <1>2 DEF StopHolds

LEMMA SweptStep ==
  ASSUME Shape, [Next]_vars, DealerQuiet, SweptIsStill, Without({"sweep"})'
  PROVE  SweptIsStill'
  <1> USE ShapeParts, FlagsParts
  <1>1. ASSUME link'.phase = "recovering", SweptUp' PROVE Still'
    <2>1. CASE ~ SweptUp
      BY <1>1, <2>1, SweptUpStep
    <2>2. CASE SweptUp
      <3>1. ~ Up'
        BY <1>1 DEF Up
      <3>2. ~ Outage
        BY <1>1 DEF Outage
      <3>3. ~ Up
        BY <3>1, <3>2, UpStep
      <3>4. link.phase = "recovering"
        BY <2>2, <3>3 DEF SweptUp, LinkTyped, Up
      <3>5. Still /\ dealer = "none"
        BY <2>2, <3>3, <3>4 DEF SweptIsStill, DealerQuiet
      <3> QED
        BY <3>5, StillStep
    <2> QED
      BY <2>1, <2>2
  <1>2. ASSUME line'.down, ~ line'.sweep PROVE Still'
    <2>0. line \in [down : BOOLEAN, sweep : BOOLEAN]
      BY DEF PlainTyped
    <2>1. ~ Outage
      BY <1>2, <2>0 DEF Outage
    <2>2. CASE line.down /\ line.sweep
      BY <1>2, <2>1, <2>2, LineSweptStep
    <2>3. CASE line.down /\ ~ line.sweep
      BY <2>3, StillStep DEF SweptIsStill, DealerQuiet
    <2>4. CASE ~ line.down
      <3>1. ~ LineDown /\ ~ CompleteSync
        BY <1>2, <2>0 DEF LineDown, CompleteSync
      <3>2. ~ SweepLine
        BY <1>2, <2>0, <2>4 DEF SweepLine
      <3>3. line' # line
        BY <1>2, <2>4
      <3> QED
        BY <2>1, <3>1, <3>2, <3>3, LineStep, RestartStill
    <2> QED
      BY <2>2, <2>3, <2>4
  <1> QED
    BY <1>1, <1>2 DEF SweptIsStill

\* the worker's call is as old as its generation
LEMMA OldCallStep ==
  ASSUME Shape, [Next]_vars, SweptIsStill, OldCall
  PROVE  OldCall'
  <1> USE ShapeParts, FlagsParts, ClockNumbers
  <1> SUFFICES ASSUME worker'.pc = "call", worker'.gen # link'.gen, Up',
                      worker'.epoch = snap'.epoch, Live'
               PROVE  FALSE
    BY DEF OldCall
  <1>1. ~ Restart /\ ~ Silent /\ ~ Fire /\ ~ LockTimeout
    BY DEF Restart, Silent, Fire, LockTimeout, Idle
  <1>2. ~ Confirm
    <2>1. Confirm => UNCHANGED link
      BY DEF Confirm
    <2> QED
      BY <2>1, ConfirmCalls DEF Idle
  <1>3. UNCHANGED worker
    <2>1. ASSUME NEW e \in Epochs, Pick(e), worker' # worker PROVE FALSE
      <3>1. worker' = [Idle EXCEPT !.pc = "confirm", !.epoch = e]
        BY <2>1 DEF Pick
      <3>2. worker' = [pc |-> "confirm", epoch |-> e, gen |-> 0]
        BY <3>1 DEF Idle
      <3> QED
        BY <3>2
    <2>2. Add \/ Write \/ Abandon \/ Tick \/ HandleDealer => UNCHANGED worker
      BY DEF Add, Write, Abandon, Tick, HandleDealer
    <2>3. \A p \in Players : HandlePress(p) => UNCHANGED worker
      BY DEF HandlePress
    <2> QED
      BY <1>1, <1>2, <2>1, <2>2, <2>3, HandMovesSnap, StepKinds DEF Elsewhere
  <1>4. ~ Write
    <2>1. Write => snap'.epoch = snap.epoch + 1
      BY DEF Write, OpFits, InLock
    <2>2. worker.epoch <= snap.epoch
      BY <1>3 DEF WorkerHolds
    <2> QED
      BY <1>3, <2>1, <2>2
  <1>5. Live /\ worker.epoch = snap.epoch
    BY <1>3, <1>4, LiveStep
  <1>6. ~ Up
    BY <1>1, <1>3, <1>5, UpStep DEF OldCall
  <1>7. link.phase = "recovering" /\ SweptUp
    BY <1>1, <1>6, UpStep
  <1> QED
    BY <1>5, <1>7 DEF SweptIsStill, Still

\* the job of a running turn is lost only with one of the faults TurnHasClock names
LEMMA HasClockStep ==
  ASSUME Shape, [Next]_vars, QueueFits, OutageHit, DealerQuiet, SweptIsStill, OldCall, TurnHasClock
  PROVE  TurnHasClock'
  <1> USE ShapeParts, FlagsParts, ClockNumbers
  <1> DEFINE Named == {"torn", "lock", "sweep", "late"}
  <1> SUFFICES ASSUME Without(Named)', Live', op'.pc = "free", Up', ~ line'.sweep
               PROVE  jobs'[snap'.epoch].user = snap'.turn
    BY DEF TurnHasClock
  <1>f. /\ ~ Fault("torn") /\ ~ Fault("lock") /\ ~ Fault("sweep")
        /\ Without(Named)
    BY FaultShows, StepFaults DEF Fault
  <1>r. ~ Restart
    BY RestartStill DEF Still
  <1>1. CASE Write
    <2>1. /\ snap' = op.next /\ UNCHANGED jobs /\ op.pc = "write" /\ op.next.turn # Nobody
      BY <1>1 DEF Write, Live, OpFits, Fits
    <2> QED
      BY <2>1 DEF QueueFits
  <1>2. CASE ~ Write
    <2>1. Live /\ snap'.epoch = snap.epoch /\ snap'.turn = snap.turn
      BY <1>2, LiveStep
    <2>2. Up
      <3> SUFFICES ASSUME ~ Up PROVE FALSE
        OBVIOUS
      <3>1. link.phase = "recovering" /\ SweptUp
        BY <1>r, UpStep
      <3> QED
        BY <2>1, <3>1 DEF SweptIsStill, Still
    <2>3. UNCHANGED link
      BY <1>r, <2>2, UpStep
    <2>4. ~ line.sweep
      <3> SUFFICES ASSUME line.sweep PROVE FALSE
        OBVIOUS
      <3>0. line \in [down : BOOLEAN, sweep : BOOLEAN]
        BY DEF PlainTyped
      <3>1. ~ LineDown /\ ~ CompleteSync
        BY DEF LineDown, CompleteSync
      <3>2. ~ Outage
        BY <2>3, <3>0 DEF Outage
      <3>3. SweepLine
        BY <1>r, <3>1, <3>2, LineStep
      <3>4. Still'
        BY <1>f, <2>2, <3>3, SweptStill DEF SweepLine, Up, Reachable
      <3> QED
        BY <3>4 DEF Still
    <2>5. op.pc = "free"
      <3>1. ~ Abandon
        BY <1>f, <2>2 DEF Abandon, Up, Reachable
      <3>2. op' # op => Abandon \/ op.pc = "free"
        <4>1. Add => op'.pc = "write"
          <5>1. ASSUME Add PROVE op' = [[op EXCEPT !.pc = "write"]
                                          EXCEPT !.next = [op.next EXCEPT !.left = Turn]]
            BY <5>1 DEF Add, OpTyped
          <5> QED
            BY <5>1 DEF OpTyped
        <4>2. /\ Elsewhere \/ HandMoves \/ Tick \/ Silent \/ Confirm \/ LockTimeout => UNCHANGED op
              /\ \A e \in Epochs : Pick(e) => UNCHANGED op
          BY HandMovesSnap DEF Elsewhere, Tick, Silent, Confirm, LockTimeout, Pick
        <4>3. /\ Fire \/ HandleDealer => op.pc = "free"
              /\ \A p \in Players : HandlePress(p) => op.pc = "free"
          BY DEF Fire, HandleDealer, HandlePress, LockFree
        <4> QED
          BY <1>2, <1>r, <4>1, <4>2, <4>3, StepKinds
      <3> QED
        BY <3>1, <3>2
    <2>6. jobs[snap.epoch].user = snap.turn
      BY <1>f, <2>1, <2>2, <2>4, <2>5 DEF TurnHasClock
    <2>7. ~ Taken
      BY DEF Taken
    <2> SUFFICES jobs'[snap.epoch].user = jobs[snap.epoch].user
      BY <2>1, <2>6
    <2>8. Elsewhere \/ HandMoves \/ Abandon => UNCHANGED jobs
      BY HandMovesSnap DEF Elsewhere, Abandon
    <2>9. ~ Add
      BY <2>5 DEF Add
    <2>10. /\ HandleDealer => UNCHANGED jobs
           /\ \A p \in Players : HandlePress(p) => UNCHANGED jobs
      BY <2>7, DealerTakes, PressTakes
    <2>11. CASE Tick
      <3>1. jobs' = [x \in Epochs |-> [jobs[x] EXCEPT !.wait = Less(@)]]
        BY <2>11 DEF Tick
      <3>2. JobNamed(jobs[snap.epoch])
        OBVIOUS
      <3> QED
        BY <3>1, <3>2 DEF JobNamed, JobSet
    <2>12. CASE Silent
      <3>1. jobs' = [jobs EXCEPT ![worker.epoch].wait = Hold]
        BY <2>12 DEF Silent
      <3>2. JobNamed(jobs[snap.epoch])
        OBVIOUS
      <3> QED
        BY <3>1, <3>2 DEF JobNamed, JobSet, JobsTyped
    <2>13. Confirm => UNCHANGED jobs
      BY <2>2 DEF Confirm
    <2>14. ~ LockTimeout
      BY <1>f DEF LockTimeout
    <2>15. CASE Fire
      <3>1. ~ MayFire(worker.epoch) /\ jobs' = Dropped(worker.epoch)
        BY <2>7, <2>15, FireTakes
      <3>2. CASE worker.epoch # snap.epoch
        BY <3>1, <3>2, DropJob
      <3>3. CASE worker.epoch = snap.epoch
        <4>1. ~ line.down
          BY <2>1, <2>4 DEF SweptIsStill, Still
        <4>2. ~ Stale(worker.epoch) /\ ~ snap.resume
          BY <2>1, <2>6, <3>3 DEF Stale, Live
        <4>3. worker.gen # link.gen
          BY <2>2, <3>1, <4>1, <4>2 DEF MayFire
        <4>4. worker.pc = "call"
          BY <2>15 DEF Fire
        <4> QED
          BY <2>1, <2>2, <3>3, <4>3, <4>4 DEF OldCall
      <3> QED
        BY <3>2, <3>3
    <2>16. ASSUME NEW e \in Epochs, Pick(e) PROVE jobs'[snap.epoch] = jobs[snap.epoch]
      <3>1. CASE e = snap.epoch
        BY <2>6, <2>16, <3>1 DEF Pick, Stale
      <3>2. CASE e # snap.epoch
        BY <2>16, <3>2, DropJob DEF Pick
      <3> QED
        BY <3>1, <3>2
    <2>17. Stops /\ UNCHANGED <<jobs, op, worker>> => UNCHANGED jobs
      OBVIOUS
    <2> QED
      BY <1>2, <1>r, <2>8, <2>9, <2>10, <2>11, <2>12, <2>13, <2>14, <2>15, <2>16, <2>17, StepKinds
  <1> QED
    BY <1>1, <1>2

-----------------------------------------------------------------------------
(* The invariant, and what follows from it.                                *)

LEMMA WithoutFewer ==
  ASSUME NEW kinds, NEW fewer, fewer \subseteq kinds, Without(kinds)
  PROVE  Without(fewer)
  BY DEF Without

LEMMA ClockInit == Init => ClockInv
  <1> SUFFICES ASSUME Init PROVE ClockInv
    OBVIOUS
  <1>1. Shape
    BY ShapeInit
  <1>2. /\ \A e \in Epochs : jobs[e] = NoJob
        /\ op.pc = "free" /\ worker.pc = "idle" /\ dealer = "none" /\ stop = "no"
        /\ ~ Live /\ Up /\ ~ line.down
    BY DEF Init, Free, Idle, Live, Empty, Up
  <1>3. QueueFits
    BY <1>1, <1>2, ClockNumbers DEF QueueFits
  <1> QED
    BY <1>1, <1>2, <1>3
       DEF ClockInv, DealerQuiet, OutageHit, StopHolds, SweptIsStill, OldCall, TurnHasClock,
           Still, InLock, Up

LEMMA ClockStep == ClockInv /\ [Next]_vars => ClockInv'
  <1> SUFFICES ASSUME ClockInv, [Next]_vars PROVE ClockInv'
    OBVIOUS
  <1>1. Shape /\ Shape'
    BY ShapeStep DEF ClockInv
  <1>2. \A kinds : Without(kinds)' => Without(kinds)
    BY <1>1, StepFaults
  <1>3. Without({"torn"})' => QueueFits'
    BY <1>1, QueueStep DEF ClockInv
  <1>4. Without({"late"})' => DealerQuiet' /\ OutageHit'
    BY <1>1, <1>2, QuietStep, HitStep DEF ClockInv
  <1>5. Without({"sweep"})' => StopHolds'
    BY <1>1, <1>2, StopStep DEF ClockInv
  <1>6. Without({"sweep", "late"})' => SweptIsStill' /\ OldCall'
    <2> SUFFICES ASSUME Without({"sweep", "late"})' PROVE SweptIsStill' /\ OldCall'
      OBVIOUS
    <2>1. Without({"sweep"})' /\ Without({"late"}) /\ Without({"sweep", "late"})
      BY <1>2 DEF Without
    <2> QED
      BY <1>1, <2>1, SweptStep, OldCallStep DEF ClockInv
  <1>7. TurnHasClock'
    <2> DEFINE Named == {"torn", "lock", "sweep", "late"}
    <2>1. CASE Without(Named)'
      <3>1. Without(Named)
        BY <1>2, <2>1
      <3>2. Without({"torn"}) /\ Without({"late"}) /\ Without({"sweep", "late"})
        BY <3>1, WithoutFewer
      <3> QED
        BY <1>1, <3>2, HasClockStep DEF ClockInv
    <2>2. CASE ~ Without(Named)'
      BY <2>2 DEF TurnHasClock
    <2> QED
      BY <2>1, <2>2
  <1> QED
    BY <1>1, <1>3, <1>4, <1>5, <1>6, <1>7 DEF ClockInv

\* Snapshot, queue, worker and stops fit together in every reachable state: the
\* inductive invariant behind the results below.
THEOREM ClockInvariant == Spec => []ClockInv
  BY ClockInit, ClockStep, PTL DEF Spec

\* No table is left without a timer: a turn that runs has the job of its epoch, for
\* the player on turn, in the queue (scheduleTurnTimeout in the lock, the job
\* processor, and the sweeps of pauseTable), for any number of outages, dead lines
\* and restarts, while nothing of the kinds the property names fails.
THEOREM EveryTurnHasItsClock == Spec => []TurnHasClock
  <1>1. ClockInv => TurnHasClock
    BY DEF ClockInv
  <1> QED
    BY <1>1, ClockInvariant, PTL

\* a step into a time-out is the processor's, and one into a late button a player's
LEMMA KindStep ==
  ASSUME Shape, [Next]_vars
  PROVE  /\ op'.kind = "timeOut" /\ op.kind # "timeOut" => Fire /\ MayFire(worker.epoch)
         /\ op'.kind = "expired" /\ op.kind # "expired" => \E p \in Players : MayAct(p)
  <1> USE ShapeParts
  <1>1. Write \/ Abandon \/ Restart => op'.kind = "none"
    BY DEF Write, Abandon, Restart, Free
  <1>2. Add => op'.kind = op.kind
    <2>1. ASSUME Add PROVE op' = [[op EXCEPT !.pc = "write"]
                                    EXCEPT !.next = [op.next EXCEPT !.left = Turn]]
      BY <2>1 DEF Add, OpTyped
    <2> QED
      BY <2>1 DEF OpTyped
  <1>3. HandleDealer => op'.kind = op.kind \/ op'.kind \in {"deal", "remove", "resume"}
    BY DealerBegins DEF Began
  <1>4. Fire => op'.kind = op.kind \/ (MayFire(worker.epoch) /\ op'.kind = "timeOut")
    BY FireBegins DEF Began, WorkerTyped
  <1>5. ASSUME NEW p \in Players, HandlePress(p)
        PROVE  op'.kind = op.kind \/ (MayAct(p) /\ op'.kind \in {"act", "expired"})
    BY <1>5, PressBegins DEF Began
  <1>6. Elsewhere \/ HandMoves \/ Tick \/ Silent \/ Confirm \/ LockTimeout => UNCHANGED op
    BY HandMovesSnap DEF Elsewhere, Tick, Silent, Confirm, LockTimeout
  <1>7. \A e \in Epochs : Pick(e) => UNCHANGED op
    BY DEF Pick
  <1> QED
    BY <1>1, <1>2, <1>3, <1>4, <1>5, <1>6, <1>7, StepKinds

\* The clock times nobody out before his deadline, whatever stale, held or
\* redelivered jobs the queue contains: the deadline of the snapshot is over when
\* the TIME_OUT of a job passes the checks of handleAction.
THEOREM NobodyTimedOutEarly == Spec => NeverEarly
  <1>1. ASSUME ClockInv, [Next]_vars, Without({"torn"}), op'.kind = "timeOut", op.kind # "timeOut"
        PROVE  snap.left = 0
    <2>1. Fire /\ MayFire(worker.epoch)
      BY <1>1, KindStep DEF ClockInv
    <2>2. worker.pc # "idle" /\ worker.epoch = snap.epoch
      BY <2>1 DEF Fire, MayFire, Stale
    <2> QED
      BY <1>1, <2>2 DEF ClockInv, QueueFits
  <1>2. ClockInv /\ [Next]_vars
          => [Without({"torn"}) /\ op'.kind = "timeOut" /\ op.kind # "timeOut" => snap.left = 0]_vars
    BY <1>1
  <1> QED
    BY <1>2, ClockInvariant, PTL DEF Spec, NeverEarly

\* A stop costs nobody his hand: while a table is stopped by an outage, a restart
\* or the dead line of the hall, no surviving job times the player on turn out, and
\* after an outage or a restart no late button does (T94, T97, T121).
THEOREM AStopFoldsNobody == Spec => NobodyFoldedByAStop
  <1> DEFINE A == Without({"sweep"}) =>
                    /\ op'.kind = "timeOut" /\ op.kind # "timeOut" => stop = "no"
                    /\ op'.kind = "expired" /\ op.kind # "expired" => stop # "server"
  <1>1. ASSUME ClockInv, [Next]_vars, Without({"sweep"}) PROVE A
    <2>1. Shape /\ StopHolds
      BY <1>1 DEF ClockInv
    <2>2. Up => SweptUp
      BY <2>1, ShapeParts DEF Up, SweptUp, SweepsKnown
    <2>3. Up /\ Live => stop # "server"
      BY <2>1, <2>2 DEF StopHolds, Still
    <2>4. Fire /\ MayFire(worker.epoch) => Up /\ Live /\ ~ line.down
      BY <2>1, FireTakes DEF MayFire
    <2>5. Fire /\ MayFire(worker.epoch) => stop # "line"
      BY <2>1, <2>4 DEF StopHolds, Still
    <2>6. stop \in {"no", "line", "server"}
      BY <2>1, ShapeParts, FlagsParts DEF PlainTyped
    <2>7. \A p \in Players : MayAct(p) => Up /\ Live
      BY DEF MayAct
    <2> QED
      BY <1>1, <2>1, <2>3, <2>4, <2>5, <2>6, <2>7, KindStep
  <1>2. ClockInv /\ [Next]_vars => [A]_vars
    BY <1>1
  <1> QED
    BY <1>2, ClockInvariant, PTL DEF Spec, NobodyFoldedByAStop

\* A sweep of an outage stops only a turn that the outage caught: the generation is
\* compared in the lock, so a table the dealer resumed since is left alone
\* (recoverFromOutage, pauseTable).
THEOREM StoppedOnce == Spec => StoppedOnceByAnOutage
  <1> DEFINE A == /\ Without({"late"})
                  /\ sweeps' # sweeps /\ faults' = faults
                  /\ ~ snap.resume /\ snap'.resume
                  => stop = "server"
  <1>1. ASSUME ClockInv, [Next]_vars, Without({"late"}), sweeps' # sweeps, faults' = faults,
               ~ snap.resume, snap'.resume
        PROVE  stop = "server"
    <2>1. Shape /\ OutageHit
      BY <1>1 DEF ClockInv
    <2>2. ~ Outage /\ ~ Reconnect /\ ~ MarkRecovered
      BY <1>1 DEF Outage, Reconnect, MarkRecovered
    <2>3. ~ Restart
      BY <1>1, <2>1, ShapeParts, FlagsParts DEF Restart, Faulty, FaultsTyped
    <2>4. PICK g \in 0 .. MaxFaults : Sweep(g)
      BY <1>1, <2>2, <2>3, LinkStep
    <2>5. g \in sweeps /\ PauseTable(g = link.gen)
      BY <2>4 DEF Sweep
    <2>6. Stops /\ g = link.gen
      BY <1>1, <2>5, PauseStops
    <2>7. ~ Up
      BY <2>1, <2>5, <2>6, ShapeParts DEF SweepsKnown, Up
    <2>8. Live
      BY <2>1, <2>6, ShapeParts DEF Stops, Live, Fits
    <2> QED
      BY <2>1, <2>7, <2>8 DEF OutageHit, Still
  <1>2. ClockInv /\ [Next]_vars => [A]_vars
    BY <1>1
  <1> QED
    BY <1>2, ClockInvariant, PTL DEF Spec, StoppedOnceByAnOutage

=============================================================================
