----------------------------- MODULE TurnClock -----------------------------
(***************************************************************************)
(* The turn clock of one table: PlaysyncService.handleAction and           *)
(* scheduleTurnTimeout, the job processor, the dealer's commands that arm  *)
(* or stop the clock, and what stops a table (RecoveryService.pauseTable:  *)
(* Redis outage, dead line of the hall, restart of the server).            *)
(*                                                                         *)
(* A turn has three timers that must agree: the epoch and the deadline in  *)
(* the snapshot, and a delayed job in the queue whose id is the epoch.     *)
(* The queue is written inside the table lock but not with the snapshot:   *)
(* `op' is the holder of the lock between its steps.  Time is counted down *)
(* (0: passed), so the model needs no bound on it.  Which turn follows     *)
(* which is TableHand's; here the turn goes to anybody.                    *)
(***************************************************************************)
EXTENDS Integers

CONSTANTS
  Players,
  Nobody,       \* currentTurnSeatIndex = -1
  Turn,         \* TURN_TIMEOUT_MS, in ticks
  Hold,         \* TIMEOUT_HOLD_MS, in ticks
  MaxEpoch,     \* bound: timer epochs
  MaxFaults,    \* bound: faults that happen
  Faults        \* the kinds of faults that can happen

\* torn: an operation stops between its two writes, or does not remove the old
\* job; lock: the table lock is not obtained; sweep: pauseTable fails; late: a
\* command of the dealer is still waiting for the lock when the table is stopped
FaultKinds == {"outage", "line", "restart", "torn", "lock", "sweep", "late"}

ASSUME NobodyAssumption == Nobody \notin Players
ASSUME TicksAssumption  == Turn \in Nat \ {0} /\ Hold \in 1 .. Turn
ASSUME BoundsAssumption == /\ MaxEpoch \in Nat /\ MaxFaults \in Nat
                           /\ Faults \subseteq FaultKinds

VARIABLES
  snap,      \* Redis: the clock's part of the snapshot
  jobs,      \* Redis: the queue, by the epoch in the job id
  op,        \* the holder of the table lock
  worker,    \* the job in TimeoutProcessor.process
  press,     \* player actions waiting for the lock, with their outage generation
  dealer,    \* the dealer's command waiting for the lock
  link,      \* RedisOutage
  sweeps,    \* outage sweeps that have not reached the table, by generation
  line,      \* LinePause and its sweep
  syncing,   \* database: tournament status SYNCING
  settling,  \* resolveWinners behind the split: no, asking for rebuys, or closing the hand
  stop,      \* why the running turn was stopped, if it was
  faults     \* how many faults have happened, and of which kinds

vars == <<snap, jobs, op, worker, press, dealer, link, sweeps, line, syncing,
          settling, stop, faults>>

Epochs     == 0 .. MaxEpoch
NoDeadline == -1
NoPress    == -1
NoJob      == [user |-> Nobody, wait |-> 0]

Snapshot == [phase : {"WAITING", "BETTING", "SHOWDOWN", "HAND_END"}, epoch : Epochs,
             turn : Players \union {Nobody}, left : NoDeadline .. Turn, resume : BOOLEAN]

Empty == [phase |-> "WAITING", epoch |-> 0, turn |-> Nobody, left |-> NoDeadline,
          resume |-> FALSE]

Free == [kind |-> "none", pc |-> "free", next |-> Empty]
Idle == [pc |-> "idle", epoch |-> 0, gen |-> 0]

TypeOK ==
  /\ snap \in Snapshot
  /\ snap.phase = "BETTING" <=> snap.turn # Nobody
  /\ snap.turn = Nobody => snap.left = NoDeadline
  /\ jobs \in [Epochs -> [user : Players \union {Nobody}, wait : 0 .. Turn]]
  /\ op \in [kind : {"none", "deal", "act", "expired", "timeOut", "remove", "resume"},
             pc : {"free", "arm", "write"}, next : Snapshot]
  /\ worker \in [pc : {"idle", "confirm", "call"}, epoch : Epochs, gen : 0 .. MaxFaults]
  /\ press \in [Players -> NoPress .. MaxFaults]
  /\ dealer \in {"none", "deal", "remove", "resume"}
  /\ link \in [phase : {"up", "down", "recovering"}, gen : 0 .. MaxFaults]
  /\ sweeps \subseteq 0 .. MaxFaults
  /\ line \in [down : BOOLEAN, sweep : BOOLEAN]
  /\ syncing \in BOOLEAN /\ settling \in {"no", "asking", "closing"}
  /\ stop \in {"no", "line", "server"}
  /\ faults \in [count : 0 .. MaxFaults, kinds : SUBSET Faults]

Init ==
  /\ snap = Empty
  /\ jobs = [e \in Epochs |-> NoJob]
  /\ op = Free /\ worker = Idle
  /\ press = [p \in Players |-> NoPress] /\ dealer = "none"
  /\ link = [phase |-> "up", gen |-> 0] /\ sweeps = {}
  /\ line = [down |-> FALSE, sweep |-> FALSE]
  /\ syncing = FALSE /\ settling = "no"
  /\ stop = "no" /\ faults = [count |-> 0, kinds |-> {}]

Up        == link.phase = "up"
Reachable == link.phase # "down"
LockFree  == op.pc = "free" /\ Reachable
Live      == snap.phase = "BETTING" /\ ~ snap.resume

\* one fault of one or more kinds
Faulty(kinds) ==
  /\ kinds \subseteq Faults /\ faults.count < MaxFaults
  /\ faults' = [count |-> faults.count + 1, kinds |-> faults.kinds \union kinds]

Fault(kind) == Faulty({kind})

-----------------------------------------------------------------------------
(* scheduleTurnTimeout, in the lock of the caller: the job of the old epoch *)
(* is removed, the new one added, and only then the snapshot is written.    *)

\* the seats a finished action may leave the turn with
After(p) == {[snap EXCEPT !.turn = q] : q \in Players}
              \union {[snap EXCEPT !.turn = Nobody, !.phase = "SHOWDOWN"]}

Dropped(e) == [jobs EXCEPT ![e] = NoJob]

\* a job that is being processed cannot be removed, and a failed removal is
\* swallowed
RemoveTimeoutJob(e) ==
  \/ /\ jobs' = IF worker.pc # "idle" /\ worker.epoch = e THEN jobs ELSE Dropped(e)
     /\ UNCHANGED faults
  \/ UNCHANGED jobs /\ Fault("torn")

\* the operation `kind' has the lock, has passed its checks and schedules
Schedule(kind, next) ==
  /\ snap.epoch < MaxEpoch
  /\ op' = [kind |-> kind, pc |-> IF next.turn = Nobody THEN "write" ELSE "arm",
            next |-> [next EXCEPT !.epoch = snap.epoch + 1, !.left = NoDeadline]]
  /\ stop' = "no"

Begin(kind, next) == Schedule(kind, next) /\ RemoveTimeoutJob(snap.epoch)

\* a queue ignores an id it already has
Add ==
  /\ op.pc = "arm" /\ Reachable
  /\ op' = [op EXCEPT !.pc = "write", !.next.left = Turn]
  /\ jobs' = [jobs EXCEPT ![op.next.epoch] =
                IF @ = NoJob THEN [user |-> op.next.turn, wait |-> Turn] ELSE @]
  /\ UNCHANGED <<snap, worker, press, dealer, link, sweeps, line, syncing, settling, stop, faults>>

\* mutateSnapshot writes and releases the lock
Write ==
  /\ op.pc = "write" /\ Reachable
  /\ snap' = op.next
  /\ op' = Free
  /\ UNCHANGED <<jobs, worker, press, dealer, link, sweeps, line, syncing, settling, stop, faults>>

\* the operation throws: nothing is written
Abandon ==
  /\ \/ op.pc = "arm" /\ ~ Reachable /\ UNCHANGED faults
     \/ op.pc \in {"arm", "write"} /\ Fault("torn")
  /\ op' = Free
  /\ UNCHANGED <<snap, jobs, worker, press, dealer, link, sweeps, line, syncing, settling, stop>>

-----------------------------------------------------------------------------
(* The players.                                                            *)

PlayerSends(p) ==
  /\ Up /\ snap.phase = "BETTING"
  /\ press[p] = NoPress
  /\ press' = [press EXCEPT ![p] = link.gen]
  /\ UNCHANGED <<snap, jobs, op, worker, dealer, link, sweeps, line, syncing, settling, stop, faults>>

\* mutant: the generation is not compared
MayActAcrossOutage(p) == snap.turn = p /\ Live

Refused == UNCHANGED <<jobs, op, stop, faults>>

\* no outage since the action was sent, his turn, the table not stopped
MayAct(p) ==
  /\ Up /\ link.gen = press[p]
  /\ snap.turn = p /\ Live

\* handleAction for a button: after the deadline it is a TIME_OUT; the rules of
\* the game may refuse it
HandlePress(p) ==
  /\ press[p] # NoPress
  /\ LockFree
  /\ press' = [press EXCEPT ![p] = NoPress]
  /\ IF MayAct(p)
     THEN \/ \E next \in After(p) : Begin(IF snap.left = 0 THEN "expired" ELSE "act", next)
          \/ snap.left # 0 /\ Refused
     ELSE Refused
  /\ UNCHANGED <<snap, worker, dealer, link, sweeps, line, syncing, settling>>

-----------------------------------------------------------------------------
(* The job.                                                                *)

Stale(e) == jobs[e].user # snap.turn \/ e # snap.epoch

\* process looks at the snapshot without the lock; a stale job completes
Pick(e) ==
  /\ worker.pc = "idle" /\ Reachable
  /\ jobs[e] # NoJob /\ jobs[e].wait = 0
  /\ IF Stale(e) THEN jobs' = Dropped(e) /\ UNCHANGED worker
     ELSE worker' = [Idle EXCEPT !.pc = "confirm", !.epoch = e] /\ UNCHANGED jobs
  /\ UNCHANGED <<snap, op, press, dealer, link, sweeps, line, syncing, settling, stop, faults>>

\* the dealer of the table does not answer the ping: ask again later
Silent ==
  /\ worker.pc = "confirm" /\ Reachable
  /\ jobs' = [jobs EXCEPT ![worker.epoch].wait = Hold]
  /\ worker' = Idle
  /\ UNCHANGED <<snap, op, press, dealer, link, sweeps, line, syncing, settling, stop, faults>>

\* he answers: handleAction is called, which throws when Redis is not up, and a
\* job that throws is removed
Confirm ==
  /\ worker.pc = "confirm" /\ Reachable
  /\ IF Up THEN worker' = [worker EXCEPT !.pc = "call", !.gen = link.gen] /\ UNCHANGED jobs
     ELSE worker' = Idle /\ jobs' = Dropped(worker.epoch)
  /\ UNCHANGED <<snap, op, press, dealer, link, sweeps, line, syncing, settling, stop, faults>>

\* mutant: the epoch is not compared
MayFireAnyEpoch(e) ==
  /\ Up /\ link.gen = worker.gen
  /\ jobs[e].user = snap.turn
  /\ ~ line.down /\ ~ snap.resume

\* mutant: the line is not looked at
MayFireLineDown(e) ==
  /\ Up /\ link.gen = worker.gen
  /\ ~ Stale(e) /\ ~ snap.resume

\* the checks of handleAction for a TIME_OUT, in the lock
MayFire(e) ==
  /\ Up /\ link.gen = worker.gen
  /\ ~ Stale(e)
  /\ ~ line.down
  /\ ~ snap.resume

\* the TIME_OUT of a job; it may be delivered once more
Fire ==
  /\ worker.pc = "call" /\ LockFree
  /\ worker' = Idle
  /\ LET e == worker.epoch
     IN  IF MayFire(e)
         THEN /\ \E next \in After(snap.turn) : Schedule("timeOut", next)
              /\ jobs' = Dropped(e) \/ UNCHANGED jobs
         ELSE jobs' = Dropped(e) /\ UNCHANGED <<op, stop>>
  /\ UNCHANGED <<snap, press, dealer, link, sweeps, line, syncing, settling, faults>>

\* the lock is not obtained within five seconds: the job fails and is removed
LockTimeout ==
  /\ worker.pc = "call" /\ Fault("lock")
  /\ jobs' = Dropped(worker.epoch)
  /\ worker' = Idle
  /\ UNCHANGED <<snap, op, press, dealer, link, sweeps, line, syncing, settling, stop>>

-----------------------------------------------------------------------------
(* The dealer.                                                             *)

\* runDealerAction: not in an outage and not while the tournament is SYNCING
DealerSends(what) ==
  /\ Up /\ ~ syncing
  /\ dealer = "none"
  /\ dealer' = what
  /\ UNCHANGED <<snap, jobs, op, worker, press, link, sweeps, line, syncing, settling, stop, faults>>

\* startPreFlop does not look at resumePending; blinds may put everybody all-in
StartPreFlop ==
  IF snap.phase = "WAITING"
  THEN \E p \in Players \union {Nobody} :
         Begin("deal", [snap EXCEPT !.turn = p,
                          !.phase = IF p = Nobody THEN "SHOWDOWN" ELSE "BETTING"])
  ELSE Refused

\* handleDealerAction: anybody may be folded, the turn may stay where it is
HandleDealerAction ==
  IF Live THEN \E next \in After(snap.turn) : Begin("remove", next) ELSE Refused

\* mutant: resuming starts no clock
ResumeWithoutClock ==
  IF snap.resume /\ snap.epoch < MaxEpoch
  THEN /\ op' = [kind |-> "resume", pc |-> "write", next |-> [snap EXCEPT !.resume = FALSE]]
       /\ stop' = "no" /\ UNCHANGED <<jobs, faults>>
  ELSE Refused

ResumeTable == IF snap.resume THEN Begin("resume", [snap EXCEPT !.resume = FALSE]) ELSE Refused

HandleDealer ==
  /\ LockFree
  /\ \/ dealer = "deal"   /\ StartPreFlop
     \/ dealer = "remove" /\ HandleDealerAction
     \/ dealer = "resume" /\ ResumeTable
     \/ Refused      \* a break, a final table, a player who is not there
  /\ dealer' = "none"
  /\ UNCHANGED <<snap, worker, press, link, sweeps, line, syncing, settling>>

\* the hand ends, with or without busted players to ask
ResolveWinners ==
  /\ LockFree /\ Up /\ ~ syncing /\ settling = "no"
  /\ snap.phase = "SHOWDOWN"
  /\ snap' = [snap EXCEPT !.phase = "HAND_END"]
  /\ settling' \in {"asking", "closing"}
  /\ UNCHANGED <<jobs, op, worker, press, dealer, link, sweeps, line, syncing, stop, faults>>

\* markRebuyInterrupted: a database failure or a dead line stops the table
RebuyInterrupted ==
  /\ LockFree /\ Up /\ settling = "asking"
  /\ snap' = [snap EXCEPT !.resume = TRUE]
  /\ UNCHANGED <<jobs, op, worker, press, dealer, link, sweeps, line, syncing, settling, stop, faults>>

RebuyDone ==
  /\ settling = "asking" /\ ~ snap.resume
  /\ settling' = "closing"
  /\ UNCHANGED <<snap, jobs, op, worker, press, dealer, link, sweeps, line, syncing, stop, faults>>

\* the checkpoint fails: the hand stays at its end
CheckpointFailed ==
  /\ settling = "closing"
  /\ settling' = "no"
  /\ UNCHANGED <<snap, jobs, op, worker, press, dealer, link, sweeps, line, syncing, stop, faults>>

\* finishHand, from resolveWinners or from the dealer's retryCheckpoint
FinishHand ==
  /\ LockFree
  /\ snap.phase = "HAND_END"
  /\ settling = "closing" \/ (settling = "no" /\ Up /\ ~ syncing)
  /\ snap' = [snap EXCEPT !.phase = "WAITING"]
  /\ settling' = "no"
  /\ UNCHANGED <<jobs, op, worker, press, dealer, link, sweeps, line, syncing, stop, faults>>

-----------------------------------------------------------------------------
(* What stops a table.                                                     *)

\* pauseTable: a higher epoch makes the queued job stale, no deadline makes no
\* late button a TIME_OUT
Paused(s) == [s EXCEPT !.epoch = @ + 1, !.left = NoDeadline, !.resume = TRUE]

\* a sweep leaves a stopped table, and one without a turn, alone; an error is
\* logged and the sweep goes on
PauseTable(guard) ==
  \/ /\ LockFree /\ snap.epoch < MaxEpoch
     /\ snap' = IF guard /\ ~ snap.resume /\ snap.turn # Nobody THEN Paused(snap) ELSE snap
     /\ UNCHANGED faults
  \/ ~ Reachable /\ UNCHANGED <<snap, faults>>
  \/ Fault("sweep") /\ UNCHANGED snap

\* what goes wrong with it: a command of the dealer still waits for the lock, an
\* operation has its job in the queue and its snapshot not written
Caught(kinds) ==
  {kind \in kinds : (kind = "late" /\ dealer # "none") \/ (kind = "torn" /\ op.pc = "write")}

Stopped(why) == stop' = IF Live \/ op.pc # "free" THEN why ELSE stop

\* RedisOutage.onLost and RecoveryService.onRedisDown
Outage ==
  /\ Reachable /\ Faulty({"outage"} \union Caught({"late", "torn"}))
  /\ link' = [phase |-> "down", gen |-> link.gen + 1]
  /\ line' = [line EXCEPT !.down = FALSE]
  /\ syncing' = TRUE
  /\ Stopped("server")
  /\ UNCHANGED <<snap, jobs, op, worker, press, dealer, sweeps, settling>>

\* the start of recoverFromOutage
Reconnect ==
  /\ link.phase = "down"
  /\ link' = [link EXCEPT !.phase = "recovering"]
  /\ sweeps' = sweeps \union {link.gen}
  /\ syncing' = TRUE
  /\ UNCHANGED <<snap, jobs, op, worker, press, dealer, line, settling, stop, faults>>

\* mutant: an old sweep still stops the table
SweepAnyGeneration(g) ==
  /\ g \in sweeps
  /\ PauseTable(TRUE)
  /\ sweeps' = sweeps \ {g}
  /\ UNCHANGED <<jobs, op, worker, press, dealer, link, line, syncing, settling, stop>>

\* a sweep overtaken by the next outage stops nothing any more
Sweep(g) ==
  /\ g \in sweeps
  /\ PauseTable(g = link.gen)
  /\ sweeps' = sweeps \ {g}
  /\ UNCHANGED <<jobs, op, worker, press, dealer, link, line, syncing, settling, stop>>

MarkRecovered ==
  /\ link.phase = "recovering" /\ link.gen \notin sweeps
  /\ link' = [link EXCEPT !.phase = "up"]
  /\ UNCHANGED <<snap, jobs, op, worker, press, dealer, sweeps, line, syncing, settling, stop, faults>>

\* pauseForLineOutage: no dealer of the tournament answers any more
LineDown ==
  /\ Up /\ ~ syncing /\ ~ line.sweep /\ Faulty({"line"} \union Caught({"late"}))
  /\ syncing' = TRUE
  /\ line' = [down |-> TRUE, sweep |-> TRUE]
  /\ Stopped("line")
  /\ UNCHANGED <<snap, jobs, op, worker, press, dealer, link, sweeps, settling>>

SweepLine ==
  /\ line.sweep
  /\ PauseTable(TRUE)
  /\ line' = [line EXCEPT !.sweep = FALSE]
  /\ UNCHANGED <<jobs, op, worker, press, dealer, link, sweeps, syncing, settling, stop>>

\* completeSync, behind the sweep in the queue of the tournament (a recount that
\* is overtaken by an outage between its awaits is not modelled)
CompleteSync ==
  /\ syncing /\ Up /\ ~ line.sweep
  /\ syncing' = FALSE
  /\ line' = [line EXCEPT !.down = FALSE]
  /\ UNCHANGED <<snap, jobs, op, worker, press, dealer, link, sweeps, settling, stop, faults>>

\* the boot stops every table with a turn before the worker and the requests
\* start; Redis may have lost everything
Restart ==
  /\ Faulty({"restart"} \union Caught({"torn"}))
  /\ snap.epoch < MaxEpoch
  /\ \/ /\ snap' = IF snap.turn = Nobody THEN snap ELSE Paused(snap)
        /\ UNCHANGED jobs
     \/ snap' = Empty /\ jobs' = [e \in Epochs |-> NoJob]
  /\ op' = Free /\ worker' = Idle
  /\ press' = [p \in Players |-> NoPress] /\ dealer' = "none"
  /\ link' = [phase |-> "up", gen |-> 0] /\ sweeps' = {}
  /\ line' = [down |-> FALSE, sweep |-> FALSE]
  /\ syncing' = TRUE /\ settling' = "no"
  /\ Stopped("server")

\* one tick of every clock; a timer that is due does not wait for its reader, and
\* an operation (its lock: five seconds) takes less than a tick
Less(n) == IF n > 0 THEN n - 1 ELSE n

Tick ==
  /\ op.pc = "free"
  /\ jobs' = [e \in Epochs |-> [jobs[e] EXCEPT !.wait = Less(@)]]
  /\ snap' = [snap EXCEPT !.left = Less(@)]
  /\ UNCHANGED <<op, worker, press, dealer, link, sweeps, line, syncing, settling, stop, faults>>

-----------------------------------------------------------------------------
Next ==
  \/ Add \/ Write \/ Abandon
  \/ \E p \in Players : PlayerSends(p) \/ HandlePress(p)
  \/ \E e \in Epochs : Pick(e)
  \/ Silent \/ Confirm \/ Fire \/ LockTimeout
  \/ \E what \in {"deal", "remove", "resume"} : DealerSends(what)
  \/ HandleDealer
  \/ ResolveWinners \/ RebuyInterrupted \/ RebuyDone \/ CheckpointFailed \/ FinishHand
  \/ Outage \/ Reconnect \/ MarkRecovered
  \/ \E g \in 0 .. MaxFaults : Sweep(g)
  \/ LineDown \/ SweepLine \/ CompleteSync \/ Restart
  \/ Tick

\* time passes and the server works; the tablet of the dealer answers every so
\* often; people owe nothing
Fairness ==
  /\ WF_vars(Add) /\ WF_vars(Write) /\ WF_vars(Abandon /\ UNCHANGED faults)
  /\ \A p \in Players : WF_vars(HandlePress(p))
  /\ \A e \in Epochs : WF_vars(Pick(e))
  /\ SF_vars(Confirm) /\ WF_vars(Fire) /\ WF_vars(HandleDealer)
  /\ WF_vars(Reconnect) /\ WF_vars(MarkRecovered)
  /\ \A g \in 0 .. MaxFaults : WF_vars(Sweep(g))
  /\ WF_vars(SweepLine) /\ WF_vars(Tick)

Spec == Init /\ [][Next]_vars /\ Fairness

-----------------------------------------------------------------------------
(* Properties.                                                             *)

\* What each property cannot promise is named in it: the kinds of faults after
\* which it no longer holds.
Without(kinds) == faults.kinds \intersect kinds = {}

\* A turn that runs always has a job that will end it: the job of its epoch, for
\* the player on turn.  No table is left without a timer (scheduleTurnTimeout),
\* except while it is being stopped.  A job that is lost with its lock, a sweep
\* that fails, a snapshot that is not written behind its job, and a dealer's
\* command that outlives a stop break it until the next turn.
TurnHasClock ==
  /\ Without({"torn", "lock", "sweep", "late"})
  /\ Live /\ op.pc = "free" /\ Up /\ ~ line.sweep
  => jobs[snap.epoch].user = snap.turn

\* The clock times nobody out before his deadline, whatever stale, held or
\* redelivered jobs the queue contains; a job whose snapshot was never written
\* keeps its id from the next one.
NeverEarly ==
  [][Without({"torn"}) /\ op'.kind = "timeOut" /\ op.kind # "timeOut" => snap.left = 0]_vars

\* A stop costs nobody his hand: after an outage or a restart hit a running turn,
\* neither a surviving job nor a late button times the player out until the
\* dealer resumed the table; after the line of the hall died, no job does (T94,
\* T97, T121).
NobodyFoldedByAStop ==
  [][Without({"sweep"}) =>
       /\ op'.kind = "timeOut" /\ op.kind # "timeOut" => stop = "no"
       /\ op'.kind = "expired" /\ op.kind # "expired" => stop # "server"]_vars

\* A table the dealer resumed is not stopped again by the outage that stopped it:
\* a sweep that still runs when the next outage is over only stops turns that an
\* outage caught (pauseTable: the generation is compared in the lock).  A restart,
\* which clears the sweeps too, is a fault of its own and may stop the table again.
StoppedOnceByAnOutage ==
  [][/\ Without({"late"})
     /\ sweeps' # sweeps /\ faults' = faults
     /\ ~ snap.resume /\ snap'.resume
     => stop = "server"]_vars

\* A player who does nothing holds the table up for a bounded time: every turn
\* ends, by himself, by the clock, or because the table was stopped for the
\* dealer.
TurnEnds ==
  \A e \in 0 .. MaxEpoch - 1 :
    Live /\ snap.epoch = e ~> snap.epoch # e \/ ~ Live
=============================================================================
