------------------------------ MODULE Syncing ------------------------------
(* One tournament that stops and goes on again (SYNCING): Redis is lost and *)
(* found, the venue's line goes dead, the server restarts; the tournament   *)
(* goes on when every device is back or the store says so.                  *)
(*                                                                          *)
(* Status and pausedAt are in the database, the tables in Redis, the        *)
(* sockets and the job queue of the tournament in the process.  Each await  *)
(* of a job is a step of its own.  A turn is only running or stopped here;  *)
(* TurnClock has its deadline and its jobs.                                 *)
EXTENDS Naturals, Sequences

CONSTANTS
  Tables,     \* tables with people on them; the dealer of a table is named by it
  Phones,     \* the phones of the people
  MaxTime,    \* bound: instants of the clock
  MaxMoves,   \* bound: things that the devices, the dealers and the store do
  MaxLosses,  \* bound: losses of Redis
  MaxFaults   \* bound: faults that happen

ASSUME DevicesAssumption == Tables # {} /\ Tables \intersect Phones = {}
ASSUME BoundAssumption   == {MaxTime, MaxMoves, MaxLosses, MaxFaults} \subseteq Nat /\ MaxTime > 0

VARIABLES
  now,
  tour,       \* database: status and pausedAt (pausedMs is the sum of what is counted)
  running,    \* Redis: the tables whose turn is not stopped (no resumePending)
  wiped,      \* Redis came back without its data
  outage,     \* RedisOutage
  marks,      \* writes of onRedisDown on their way to the database
  sweeps,     \* recoverFromOutage, by the generation it began in
  after,      \* afterOutage of the gateway is still to look
  sock,       \* the socket of each device
  aliveAt,    \* last pong of a dealer's dead socket
  line,       \* what the process remembers of the dealers and of the line
  queue,      \* SyncQueue: the jobs that wait
  task,       \* the job under way
  forcedTill, \* what the last release counted into pausedMs, if it was by force
  caught,     \* tables whose running turn a loss of Redis caught, not stopped since
  moves,
  faults

vars == <<now, tour, running, wiped, outage, marks, sweeps, after, sock, aliveAt, line,
          queue, task, forcedTill, caught, moves, faults>>

store  == <<tour, forcedTill>>
turns  == <<running, wiped, caught>>
server == <<outage, marks, sweeps, after>>
people == <<sock, aliveAt, line>>
jobs   == <<queue, task>>

Devices == Tables \union Phones
Times   == 1 .. MaxTime
Never   == 0            \* no instant: null, undefined

Idle   == [kind |-> "none", pc |-> "idle", gen |-> 0, pausedAt |-> Never,
           until |-> Never, rest |-> {}]
Jobs   == {"recount", "force", "pause"}
NoSweep == [pc |-> "idle", since |-> Never, rest |-> {}]
NoLine  == [lastDealerSeenAt |-> Never, forcedAt |-> Never, down |-> FALSE, grace |-> FALSE]

\* What is remembered of the faults.  sweep: the sweep could not reach the
\* database; race: a release that began before a loss of Redis landed in it;
\* late: a write of SYNCING landed after its outage; hidden: the last
\* dealer's socket went before it was let in
FaultKinds == {"sweep", "race", "late", "hidden"}

TypeOK ==
  /\ now \in Times
  /\ tour \in [status : {"ONGOING", "SYNCING"}, pausedAt : {Never} \union Times]
  /\ running \subseteq Tables /\ caught \subseteq Tables
  /\ wiped \in BOOLEAN /\ after \in BOOLEAN
  /\ outage \in [phase : {"up", "down", "recovering"}, generation : 0 .. MaxLosses,
                 downSince : {Never} \union Times]
  /\ marks \subseteq Times
  /\ sweeps \in [1 .. MaxLosses -> [pc : {"idle", "mark", "find", "stop", "end"},
                                    since : {Never} \union Times, rest : SUBSET Tables]]
  /\ sock \in [Devices -> {"gone", "joining", "in", "silent"}]
  /\ aliveAt \in [Tables -> {Never} \union Times]
  /\ line \in [lastDealerSeenAt : {Never} \union Times, forcedAt : {Never} \union Times,
               down : BOOLEAN, grace : BOOLEAN]
  /\ queue \in Seq(Jobs)
  /\ task \in [kind : Jobs \union {"none"},
               pc : {"idle", "load", "release", "mark", "down", "stop"},
               gen : 0 .. MaxLosses, pausedAt : {Never} \union Times,
               until : {Never} \union Times, rest : SUBSET Tables]
  /\ forcedTill \in {Never} \union Times
  /\ moves \in 0 .. MaxMoves
  /\ faults \in [count : 0 .. MaxFaults, kinds : SUBSET FaultKinds]

\* The tournament runs, every device is there.
Init ==
  /\ now = 1
  /\ tour = [status |-> "ONGOING", pausedAt |-> Never]
  /\ running = Tables /\ caught = {} /\ wiped = FALSE
  /\ outage = [phase |-> "up", generation |-> 0, downSince |-> Never]
  /\ marks = {} /\ sweeps = [g \in 1 .. MaxLosses |-> NoSweep] /\ after = FALSE
  /\ sock = [d \in Devices |-> "in"]
  /\ aliveAt = [t \in Tables |-> Never]
  /\ line = NoLine
  /\ queue = <<>> /\ task = Idle
  /\ forcedTill = Never
  /\ moves = 0
  /\ faults = [count |-> 0, kinds |-> {}]

Ongoing == tour.status = "ONGOING"
Syncing == tour.status = "SYNCING"
IsUp    == outage.phase = "up"

Without(kinds) == faults.kinds \intersect kinds = {}

Fault(kinds) ==
  /\ faults.count < MaxFaults
  /\ faults' = [count |-> faults.count + 1, kinds |-> faults.kinds \union kinds]

\* What happens by its timing alone is remembered, and is no fault.
Remember(kinds) == faults' = [faults EXCEPT !.kinds = @ \union kinds]

When(condition, kinds) == IF condition THEN kinds ELSE {}

\* UPDATE Tournament SET SYNCING, pausedAt WHERE ONGOING
MarkSyncing(at) ==
  tour' = IF Ongoing THEN [status |-> "SYNCING", pausedAt |-> at] ELSE tour

\* The same of an outage: a write of one that is over comes late, a fault.
MarkOutage(since) ==
  /\ MarkSyncing(since)
  /\ IF Ongoing /\ since # outage.downSince THEN Fault({"late"}) ELSE UNCHANGED faults

\* planPause on one table, in its lock.
StopTable(t) == running' = running \ {t} /\ caught' = caught \ {t}

Tick ==
  /\ now < MaxTime
  /\ now' = now + 1
  /\ UNCHANGED <<store, turns, server, people, jobs, faults>>

-----------------------------------------------------------------------------
(* The queue of the tournament: one job at a time, in the order they came.  *)

\* recountLater: one recount waits for everybody; enqueue: one check waits
\* (pausePending).
Waits(job, q) == \E i \in 1 .. Len(q) : q[i] = job

Enqueued(q, job) == IF Waits(job, q) THEN q ELSE Append(q, job)

\* A dealer's socket that is open, or that the server still thinks open.
HasDealer(s) == \E t \in Tables : s[t] # "gone"

\* syncProgress: every seated table has its dealer and every seat its phone.
Done == \A d \in Devices : sock[d] \in {"in", "silent"} \/ (d \in Tables /\ sock[d] = "joining")

\* What a socket's end adds to the queue: pauseIfNoDealer at once, then reportSync.
AfterLeaving(s) ==
  queue' = Enqueued(IF HasDealer(s) THEN queue ELSE Enqueued(queue, "pause"), "recount")

Take(job) == task = Idle /\ queue # <<>> /\ Head(queue) = job /\ queue' = Tail(queue)
Begin(job, pc) == [Idle EXCEPT !.kind = job, !.pc = pc, !.gen = outage.generation]

At(pc) == task.pc = pc
Then(pc) == task' = [task EXCEPT !.pc = pc]
Stop == task' = Idle
\* Mutant: the recount does not ask isUp.
MeasureAnyway(job) ==
  /\ Take(job)
  /\ task' = IF Syncing /\ (job = "force" \/ (Done /\ ~ wiped))
               THEN Begin(job, "load") ELSE Idle
  /\ UNCHANGED <<now, store, turns, server, people, faults>>

\* recount and forceSync ask isUp and the status and read the seats (measureSync),
\* one step here: completeSync reads the status again.  A recount with devices
\* missing does not release, nor one that finds no seats where there are tables.
Measure(job) ==
  /\ Take(job)
  /\ task' = IF IsUp /\ Syncing /\ (job = "force" \/ (Done /\ ~ wiped))
               THEN Begin(job, "load") ELSE Idle
  /\ UNCHANGED <<now, store, turns, server, people, faults>>

\* completeSync reads, and counts the pause up to this instant.
Load ==
  /\ At("load")
  /\ task' = IF Syncing
               THEN [task EXCEPT !.pc = "release", !.pausedAt = tour.pausedAt, !.until = now]
               ELSE Idle
  /\ UNCHANGED <<now, store, turns, server, people, queue, faults>>

\* Mutant: completeSync forgets linePause.
ReleaseKeepsLine ==
  /\ At("release")
  /\ IF tour = [status |-> "SYNCING", pausedAt |-> task.pausedAt]
       THEN /\ tour' = [status |-> "ONGOING", pausedAt |-> Never]
            /\ forcedTill' = IF task.kind = "force" THEN task.until ELSE Never
            /\ line' = [line EXCEPT !.forcedAt = IF task.kind = "force" THEN now ELSE @]
            /\ Remember(When(task.gen # outage.generation, {"race"}))
       ELSE UNCHANGED <<store, line, faults>>
  /\ Stop
  /\ UNCHANGED <<now, turns, server, sock, aliveAt, queue>>

\* completeSync writes, if it is still the pause that was read, and forgets the line;
\* forceSync notes when.
Release ==
  /\ At("release")
  /\ IF tour = [status |-> "SYNCING", pausedAt |-> task.pausedAt]
       THEN /\ tour' = [status |-> "ONGOING", pausedAt |-> Never]
            /\ forcedTill' = IF task.kind = "force" THEN task.until ELSE Never
            /\ line' = [line EXCEPT !.down = FALSE,
                          !.forcedAt = IF task.kind = "force" THEN now ELSE @]
            /\ Remember(When(task.gen # outage.generation, {"race"}))
       ELSE UNCHANGED <<store, line, faults>>
  /\ Stop
  /\ UNCHANGED <<now, turns, server, sock, aliveAt, queue>>

\* Mutant: whatever was released by force.
StartPauseAgain ==
  LET seenAt == IF line.lastDealerSeenAt = Never THEN now ELSE line.lastDealerSeenAt
  IN /\ Take("pause")
     /\ task' = IF IsUp /\ ~ HasDealer(sock)
                  THEN [Begin("pause", "mark") EXCEPT !.pausedAt = seenAt] ELSE Idle
     /\ UNCHANGED <<now, store, turns, server, people, faults>>

\* pauseIfNoDealer looks again in the queue.  Nobody has answered since the store
\* went on by force: it stays so.
StartPause ==
  LET seenAt == IF line.lastDealerSeenAt = Never THEN now ELSE line.lastDealerSeenAt
  IN /\ Take("pause")
     /\ task' = IF IsUp /\ ~ HasDealer(sock) /\ seenAt > line.forcedAt
                  THEN [Begin("pause", "mark") EXCEPT !.pausedAt = seenAt] ELSE Idle
     /\ UNCHANGED <<now, store, turns, server, people, faults>>

\* pauseForLineOutage: only a running tournament, then linePause, then the tables.
PauseMark ==
  /\ At("mark")
  /\ MarkSyncing(task.pausedAt)
  /\ IF Ongoing THEN Then("down") ELSE Stop
  /\ UNCHANGED <<now, forcedTill, turns, server, people, queue, faults>>

PauseDown ==
  /\ At("down")
  /\ line' = [line EXCEPT !.down = TRUE]
  /\ task' = [task EXCEPT !.pc = "stop", !.rest = Tables]
  /\ UNCHANGED <<now, store, turns, server, sock, aliveAt, queue, faults>>

PauseStop(t) ==
  /\ At("stop") /\ t \in task.rest
  /\ task' = IF task.rest = {t} THEN Idle ELSE [task EXCEPT !.rest = @ \ {t}]
  /\ IF outage.phase # "down" THEN StopTable(t) ELSE UNCHANGED <<running, caught>>
  /\ UNCHANGED <<now, store, wiped, server, people, queue, faults>>

ForceSync ==
  /\ ~ Waits("force", queue)
  /\ queue' = Append(queue, "force")
  /\ UNCHANGED <<now, store, turns, server, people, task, faults>>

-----------------------------------------------------------------------------
(* Sockets.                                                                 *)

\* handleConnection: a dealer is in tableSessions before he is let in; the ticket
\* is in Redis.  A phone is counted once its seat is read.
Connect(d) ==
  /\ sock[d] = "gone" /\ outage.phase # "down"
  /\ sock' = [sock EXCEPT ![d] = IF d \in Tables THEN "joining" ELSE "in"]
  /\ queue' = IF d \in Tables THEN queue ELSE Enqueued(queue, "recount")
  /\ UNCHANGED <<now, store, turns, server, aliveAt, line, task, faults>>

LetIn(t) ==
  /\ sock[t] = "joining" /\ outage.phase # "down"
  /\ sock' = [sock EXCEPT ![t] = "in"]
  /\ queue' = Enqueued(queue, "recount")
  /\ UNCHANGED <<now, store, turns, server, aliveAt, line, task, faults>>

\* closeIfStale refuses him, or he leaves before it: nobody looks whether a dealer
\* is left (wasTableDealer is not set).
NotLetIn(t) ==
  /\ sock[t] = "joining"
  /\ sock' = [sock EXCEPT ![t] = "gone"]
  /\ IF HasDealer(sock') THEN UNCHANGED faults ELSE Fault({"hidden"})
  /\ queue' = Enqueued(queue, "recount")
  /\ UNCHANGED <<now, store, turns, server, aliveAt, line, task>>

\* A socket that closed by itself has dealerGoneGraceMs; so has a dealer whose
\* snapshot could not be read after he was let in.
Leave(d) ==
  /\ \/ sock[d] = "in"
     \/ sock[d] = "joining" /\ outage.phase = "down"
  /\ sock' = [sock EXCEPT ![d] = "gone"]
  /\ line' = IF d \in Tables
               THEN [line EXCEPT !.lastDealerSeenAt = now, !.grace = @ \/ ~ HasDealer(sock')]
               ELSE line
  /\ queue' = Enqueued(queue, "recount")
  /\ UNCHANGED <<now, store, turns, server, aliveAt, task, faults>>

\* Mutant: the check is merged with whatever waits, a recount too.
GraceOverMerged ==
  /\ line.grace
  /\ line' = [line EXCEPT !.grace = FALSE]
  /\ queue' = IF HasDealer(sock) \/ queue # <<>> THEN queue ELSE Append(queue, "pause")
  /\ UNCHANGED <<now, store, turns, server, sock, aliveAt, task, faults>>

GraceOver ==
  /\ line.grace
  /\ line' = [line EXCEPT !.grace = FALSE]
  /\ queue' = IF HasDealer(sock) THEN queue ELSE Enqueued(queue, "pause")
  /\ UNCHANGED <<now, store, turns, server, sock, aliveAt, task, faults>>

\* The line of the venue goes dead: the sockets stay open.
GoSilent(d) ==
  /\ sock[d] = "in"
  /\ sock' = [sock EXCEPT ![d] = "silent"]
  /\ aliveAt' = IF d \in Tables THEN [aliveAt EXCEPT ![d] = now] ELSE aliveAt
  /\ UNCHANGED <<now, store, turns, server, line, jobs, faults>>

\* sweepSockets ends those that have not answered, all before it looks.
SweepSockets(D) ==
  LET dealers == D \intersect Tables
      seen    == {line.lastDealerSeenAt} \union {aliveAt[t] : t \in dealers}
  IN /\ D # {} /\ \A d \in D : sock[d] = "silent"
     /\ sock' = [d \in Devices |-> IF d \in D THEN "gone" ELSE sock[d]]
     /\ aliveAt' = [t \in Tables |-> IF t \in D THEN Never ELSE aliveAt[t]]
     /\ \E last \in seen :
          /\ \A at \in seen : at <= last
          /\ line' = [line EXCEPT !.lastDealerSeenAt = last]
     /\ IF dealers = {} THEN queue' = Enqueued(queue, "recount") ELSE AfterLeaving(sock')
     /\ UNCHANGED <<now, store, turns, server, task, faults>>

\* DEALER_SESSION_REVOKED: a new OTP ends every dealer's socket.
Revoke ==
  /\ \E t \in Tables : sock[t] \in {"in", "silent"}
  /\ sock' = [d \in Devices |-> IF d \in Tables THEN "gone" ELSE sock[d]]
  /\ aliveAt' = [t \in Tables |-> Never]
  /\ line' = [line EXCEPT !.lastDealerSeenAt = now]
  /\ AfterLeaving(sock')
  /\ UNCHANGED <<now, store, turns, server, task, faults>>

\* RESUME of the dealer, whatever the tournament's status.
ResumeTable(t) ==
  /\ IsUp /\ ~ wiped /\ sock[t] = "in" /\ t \notin running
  /\ running' = running \union {t}
  /\ UNCHANGED <<now, store, wiped, caught, server, people, jobs, faults>>

-----------------------------------------------------------------------------
(* Redis is lost and found.                                                 *)

LoseRedis ==
  /\ outage.phase # "down" /\ outage.generation < MaxLosses
  /\ outage' = [phase |-> "down", generation |-> outage.generation + 1,
                downSince |-> IF outage.downSince = Never THEN now ELSE outage.downSince]
  /\ line' = [line EXCEPT !.down = FALSE]
  /\ marks' = marks \union {outage'.downSince}
  /\ caught' = running
  /\ UNCHANGED <<now, store, running, wiped, sweeps, after, sock, aliveAt, jobs, faults>>

\* The write of onRedisDown lands, or fails and is left to the recovery.
MarkDown(since) ==
  /\ since \in marks
  /\ marks' = marks \ {since}
  /\ MarkOutage(since)
  /\ UNCHANGED <<now, forcedTill, turns, outage, sweeps, after, people, jobs>>

MarkFails(since) ==
  /\ since \in marks
  /\ marks' = marks \ {since}
  /\ Fault({})
  /\ UNCHANGED <<now, store, turns, outage, sweeps, after, people, jobs>>

\* Redis is back, with its data or (a fault) without.
RedisReady ==
  /\ outage.phase = "down"
  /\ outage' = [outage EXCEPT !.phase = "recovering"]
  /\ sweeps' = [sweeps EXCEPT ![outage.generation] =
                  [NoSweep EXCEPT !.pc = "mark", !.since = outage.downSince]]
  /\ \/ UNCHANGED <<turns, faults>>
     \/ wiped' = TRUE /\ running' = {} /\ caught' = {} /\ Fault({})
  /\ UNCHANGED <<now, store, marks, after, people, jobs>>

SweepAt(g, pc) == sweeps[g].pc = pc

SweepMark(g) ==
  /\ SweepAt(g, "mark")
  /\ \/ MarkOutage(sweeps[g].since)
        /\ sweeps' = [sweeps EXCEPT ![g].pc = "find"]
     \/ Fault({"sweep"}) /\ UNCHANGED tour
        /\ sweeps' = [sweeps EXCEPT ![g].pc = "end"]
  /\ UNCHANGED <<now, forcedTill, turns, outage, marks, after, people, jobs>>

SweepFind(g) ==
  /\ SweepAt(g, "find")
  /\ sweeps' = [sweeps EXCEPT ![g] =
                  IF Syncing THEN [@ EXCEPT !.pc = "stop", !.rest = Tables]
                             ELSE [@ EXCEPT !.pc = "end"]]
  /\ UNCHANGED <<now, store, turns, outage, marks, after, people, jobs, faults>>

\* A table is stopped only in the generation the sweep began in.
SweepStop(g, t) ==
  /\ SweepAt(g, "stop") /\ t \in sweeps[g].rest
  /\ sweeps' = [sweeps EXCEPT ![g].rest = @ \ {t},
                              ![g].pc = IF sweeps[g].rest = {t} THEN "end" ELSE "stop"]
  /\ IF outage.generation = g THEN StopTable(t) ELSE UNCHANGED <<running, caught>>
  /\ UNCHANGED <<now, store, wiped, outage, marks, after, people, jobs, faults>>

\* markRecovered, unless Redis was lost again.
SweepEnd(g) ==
  /\ SweepAt(g, "end")
  /\ sweeps' = [sweeps EXCEPT ![g] = NoSweep]
  /\ IF outage.generation = g
       THEN outage' = [outage EXCEPT !.phase = "up", !.downSince = Never] /\ after' = TRUE
       ELSE UNCHANGED <<outage, after>>
  /\ UNCHANGED <<now, store, turns, marks, people, jobs, faults>>

\* Mutant: the devices are told, and nobody counts again.
AfterOutageUncounted ==
  /\ after
  /\ after' = FALSE
  /\ UNCHANGED <<now, store, turns, outage, marks, sweeps, people, jobs, faults>>

AfterOutage ==
  /\ after
  /\ after' = FALSE
  /\ queue' = IF Syncing THEN Enqueued(queue, "recount") ELSE queue
  /\ UNCHANGED <<now, store, turns, outage, marks, sweeps, people, task, faults>>

\* The process ends; recoverAll has stopped everything before a socket is let in.
\* The pause began with the last heartbeat.
Restart(beat) ==
  /\ beat \in Times \intersect {now - 1, now}
  /\ MarkSyncing(beat)
  /\ running' = {} /\ caught' = {} /\ wiped' = FALSE
  /\ outage' = [outage EXCEPT !.phase = "up", !.downSince = Never]
  /\ marks' = {} /\ sweeps' = [g \in 1 .. MaxLosses |-> NoSweep] /\ after' = FALSE
  /\ sock' = [d \in Devices |-> "gone"] /\ aliveAt' = [t \in Tables |-> Never]
  /\ line' = NoLine
  /\ queue' = <<>> /\ task' = Idle
  /\ forcedTill' = Never
  /\ UNCHANGED <<now, faults>>

Job ==
  /\ UNCHANGED moves
  /\ \/ \E job \in {"recount", "force"} : Measure(job)
     \/ Load \/ Release
     \/ StartPause \/ PauseMark \/ PauseDown \/ \E t \in Tables : PauseStop(t)

Recovery ==
  /\ UNCHANGED moves
  /\ \/ \E since \in marks : MarkDown(since) \/ MarkFails(since)
     \/ \E g \in 1 .. MaxLosses :
          SweepMark(g) \/ SweepFind(g) \/ SweepEnd(g) \/ \E t \in Tables : SweepStop(g, t)
     \/ AfterOutage

Sockets ==
  /\ UNCHANGED moves
  /\ \/ GraceOver
     \/ \E t \in Tables : LetIn(t)
     \/ \E D \in SUBSET Devices : SweepSockets(D)

Move ==
  /\ moves < MaxMoves /\ moves' = moves + 1
  /\ \/ \E d \in Devices : Connect(d) \/ Leave(d) \/ GoSilent(d)
     \/ \E t \in Tables : NotLetIn(t) \/ ResumeTable(t)
     \/ ForceSync \/ Revoke

Outside ==
  /\ UNCHANGED moves
  /\ Tick \/ LoseRedis \/ RedisReady \/ \E beat \in Times : Restart(beat)

Next == Job \/ Recovery \/ Sockets \/ Move \/ Outside

\* The jobs and the recovery go on, timers fire, and a dead socket is swept at the
\* latest two rounds later.  Nothing makes a device come back, the store force, or
\* Redis return.
Fairness == WF_vars(Job) /\ WF_vars(Recovery) /\ WF_vars(Sockets)

Spec == Init /\ [][Next]_vars /\ Fairness

-----------------------------------------------------------------------------
(* Properties.                                                              *)

\* recoverFromOutage, recount: when a loss of Redis is over, no turn goes on that the
\* loss caught running - unless the sweep could not reach the database, or a release
\* that had begun before the loss landed between the sweep's write and its read (the
\* recount asks isUp only when it begins).
CaughtAreStopped == Without({"sweep", "race"}) /\ IsUp => caught = {}

\* pauseForLineOutage, completeSync, onRedisDown: linePause, under which no timeout
\* folds anybody, never outlives the pause it is about.
LineDownIsPaused == line.down => Syncing

\* forceSync, pauseIfNoDealer: what a release by force counted into pausedMs is not
\* counted again, whatever sockets die afterwards.  (A release by the recount has no
\* such guard.)
ForcedCountedOnce ==
  Syncing /\ Without({"late", "race"}) => tour.pausedAt >= forcedTill

NoDealer == \A t \in Tables : sock[t] = "gone"

\* pauseIfNoDealer: a tournament that no dealer comes back to is stopped, unless the
\* store went on without them - or the last dealer's absence was hidden by a socket
\* that was then not let in, or a release landed in an outage.
UnwatchedIsPaused ==
  <>[](NoDealer /\ IsUp)
    => []<>(Syncing \/ line.lastDealerSeenAt <= line.forcedAt
            \/ ~ Without({"hidden", "race", "sweep"}))

\* recount, reportSync, afterOutage: once every device is back and stays, and Redis
\* with its data, the tournament goes on.
SyncEnds ==
  <>[](IsUp /\ ~ wiped /\ \A d \in Devices : sock[d] = "in")
    => []<>(Ongoing \/ ~ Without({"late"}))
=============================================================================
