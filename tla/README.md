# Playsync V2: specifications

Playsync V2 runs offline Texas Hold'em tournaments. The cards are real and lie on
a table in front of a dealer; the chips are digital. This directory holds a formal
model of the parts of the system in which a mistake costs a player chips, money or
his place: TLA+ modules, the TLC configurations that check them on small instances,
and TLAPS proofs of what holds for every instance. All source paths are relative to
the repository; `backend/...` abbreviates `src/backend/src/...`.

## 1. The system

| component | state it keeps | operations | hard because |
|---|---|---|---|
| hand engine (`game-engine/`) | one `TableState`: seats, stacks, bets, contributions, pot, side pots, turn, phase | `startPreFlop`, `act`, `resolveWinner`, `applyRebuy`, `initTable` | the order of actions is free within a hand: dealer folds and kicks out of turn, short all-ins, odd chips |
| dealer (`dealer/`) | in memory per table: `rebuyInFlight`, `checkpointInFlight`, `resumeWaiters` | deal, fold/kick, declare winners, retry the checkpoint, resume | a hand ends in five stages with awaits between them, up to minutes long, and commands of one table overlap |
| player sync (`playsync/`) | tournament rows, participations, user points (Postgres) | player action, rebuy, elimination, checkpoint of stacks | two stores are written one after the other, retried and reverted |
| turn clock (`playsync/turn-clock`, `timeout.processor`) | BullMQ jobs, `timerEpoch`, `actionDeadline` in the snapshot | arm, expire, pause, resume | a job that fires late acts for the wrong turn |
| Redis access (`redis/`) | the table snapshot, seat bitmaps, user contexts, dashboards; `RedisOutage` (phase, generation) | `mutateSnapshot` under a table lock, outage detection | the lock expires; the connection is lost between two writes |
| recovery (`recovery/`) | heartbeats, `pausedAt`, status `SYNCING` | boot recovery, recovery after an outage, rebuilding a table | everything in memory is gone; what is in Redis may be |
| tournament life cycle (`store/session/`) | tournament status, tables, prize pool | start, complete, cancel, abort, chop, seat release | four doors close a tournament; payments and eliminations race them |
| entry, payment (`entry/`, `payment/`) | seats, participations, entry fees | join, take a seat | database, snapshot and bitmap are claimed one after the other |
| gateway (`ws/`) | sockets, presence, one job queue per tournament (`SyncQueue`), `lastDealerSeenAt`, `forcedAt` | dispatch of actions, fan-out, count of devices, pause and release of a tournament | dealer commands are not serialised per table; a job decides on what it read several awaits ago |
| seat tablet (`frontend/src/lib/use-table-socket.ts`, `app/(terminal)/table/`) | in the browser: the socket and its retries, the last snapshot, the rebuy question, why the seat was left | connect, retry, answer, return to the waiting page | it is behind the server, and the connection may be dead before either side knows; it draws an elimination before the server knows of it |
| prizes, settlement (`playsync/prize`, `store/session/settlement`) | none | pure arithmetic | rounding, ties, intervals of ranks |

How they interact. The snapshot in Redis is the truth while a hand is played; every
change goes through `mutateSnapshot`, which takes the table lock, reads, lets the
caller change the state, and writes. Postgres is the truth between hands: at
`HAND_END` the stacks of the table are checkpointed in one transaction, then
`finishHand` moves to `WAITING`. Player actions, dealer commands and expired jobs
are calls that each do one or several of these atomic steps, with awaits in
between; dialogues (the rebuy prompt) are events between the dealer's command and
the gateway. An outage of Redis raises a generation; code that waited across it
compares generations before it goes on.

What makes each part correct:

- engine: chips are conserved, the pot is what was paid in, the turn is on somebody
  who can act, a round ends only after everybody acted, pots pay no more than was
  bought, a hand can always be ended;
- end of the hand: chips appear only for money and money only for chips, the
  database gets only stacks of a hand boundary, nobody is eliminated before his
  prompt had an outcome, counters follow statuses, the dealer always has a way on;
- turn clock: a job acts only for the turn it was armed for, a stopped table loses
  no time, a live turn always has a job or a stopped table;
- table lock: two calls never lose each other's change while they keep within the
  lease;
- entry: a seat somebody has in the database is his in the snapshot, shown as taken,
  and dealt to nobody else; of two phones with one person's tokens the newer counts;
- gateway and recovery: whatever Redis, the line or the server do, a turn that was
  caught is stopped, time is taken off the tournament's clock once, and the tournament
  goes on when everybody is back;
- seat tablet: whom the server waits for can answer, who is in the game sees the table, and
  a tablet comes back by itself or says that it will not;
- life cycle: what was collected is what goes out as prizes, refunds and the
  store's share, and a closed tournament is not written to.

Not in the models: the other pages of the web client, routing, authentication, metrics, load tools,
CRUD of stores and users (`PROJECT.json` lists each with its reason).

## 2. Modules

| module | models | variables |
|---|---|---|
| `ChipSums` | `Array.reduce` over the seats, as a recursive function | none |
| `TableEngine` | `game-engine/table-engine.ts`, every method as an operator on a table state | none (constant `N`, the seats) |
| `TableHand` | one table over any number of hands: the engine calls the server makes | `table` (the snapshot), `issued` (chips bought) |
| `HandEnd` | the end of a hand: `resolveWinners` to `finishHand`, rebuys, eliminations, checkpoint, outage, restart | `snap`, `kicked` (Redis); `db` (Postgres); `link` (`RedisOutage`); `cmd`, `ask`, `memory` (the process); `faults`, `gifts`, `answered`, `overlapped` (bookkeeping) |
| `TurnClock` | the clock of a turn at one table, and what stops the table | `snap` (the clock's part of the snapshot), `jobs` (the queue); `syncing` (Postgres); `link`, `line`, `settling` (the process); `op`, `worker`, `press`, `dealer`, `sweeps` (calls under way); `stop`, `faults` (bookkeeping) |
| `Settlement` | `playsync/prize.ts`, `payout-table.ts`, `store/session/settlement.ts`: pure functions of money | none (constant `M`, the players) |
| `TournamentBook` | what `docs/domain/money.md` promises: collected = prizes + refunds + the store's share, closed once | `collected`, `prizes`, `returned`, `closed`, `fresh` (until when it is promised) |
| `TournamentLedger` | the money of one tournament, from creation to the door that closes it; implements `TournamentBook` | `t`, `part`, `points`, `paid`, `share` (Postgres); `level`, `hand` (the play); `join`, `asked`, `kick`, `winner`, `chop`, `complete` (calls under way); `given`, `grewLate`, `stale` (bookkeeping) |
| `AtomicSnapshot` | what `mutateSnapshot` promises its callers: one step per call, or none | `snap`, `result` |
| `SnapshotLock` | `withTableLock` and `mutateSnapshot`: lease, token, waiting, crash; implements `AtomicSnapshot` until a lease runs out | `snap`, `owner`, `lease` (Redis); `pc`, `local`, `patience`, `result` (the calls); `late`, `writer` (bookkeeping) |
| `SeatEntry` | one table's seats: `enterSeat` and `claimSeat`, `releaseSeats`, the elimination at the end of a hand, tokens and the sockets opened with them, loss of Redis, boot | `rows`, `status`, `newest` (Postgres); `snap`, `bits`, `context`, `lock` (Redis); `phone`, `release`, `hand`, `deferred` (calls under way); `hurt`, `faults` (bookkeeping) |
| `Syncing` | one tournament that stops and goes on: outage, dead line, restart, recount, release by force | `tour` (Postgres); `running`, `wiped` (Redis); `outage`, `marks`, `sweeps`, `after` (recovery); `sock`, `aliveAt`, `line`, `queue`, `task` (gateway); `now`, `moves`, `forcedTill`, `caught`, `faults` (bookkeeping) |
| `SeatTablet` | one seat's tablet and the rebuy question: socket hook, page, gateway and the dialogue at the end of the hand | `table` (the snapshot); `ask`, `round` (the command); `redis` (`RedisOutage`); `prompt`, `wire` (gateway); `current` (Postgres); `down`, `up` (frames and answers on their way); `hook`, `page` (browser); `faults`, `slips` (bookkeeping) |
| `MCTableHand`, `MCHandEnd`, `MCTurnClock`, `MCTournamentLedger`, `MCSnapshotLock`, `MCSeatEntry`, `MCSeatTablet`, `MCSyncing` | model values, blind levels, payout tables and symmetry for TLC | |
| `ChipSumsProofs`, `TableHandProofs`, `HandEndProofs`, `RedisAccessProofs` (of `SnapshotLock` and `Syncing`), `SeatEntryProofs`, `SeatTabletProofs`, `TournamentLedgerProofs`, `TurnClockProofs` | proofs | |

`TableHand`, `HandEnd`, `TurnClock` and `SeatEntry` treat a `mutateSnapshot`, or the part of
one between two writes to other stores, as a step of its own. `SnapshotLock` is why they may, and
says when they may not: a change that waits for Redis or Postgres longer than the lease.

`TableEngine` names a player by the seat he sits in and turns the boolean fields of
`TablePlayer` into sets of seats. `sidePots` is a set of records; where the pots are
paid the model goes over the levels themselves (`LevelSeats`), so two layers with
the same amount and the same players are not merged. A method that throws has a
predicate for the cases in which it does not (`CanDo`, `CanRaise`, `CanStart`,
`CanResolve`). `Total` is a recursive function, not a `RECURSIVE` operator, so its
laws can be proved. The dealer's ranking is a function from seats to tiers (0: not
named), which covers every list of lists he can send.

`TableHand` composes the engine with the calls that reach it: seats filled and
emptied (`claimSeat`, `releaseSeats`), `startPreFlop`, `handleAction`,
`handleDealerAction`, stage 1 of `resolveWinners`, the chips of `processRebuy`,
`finishHand`. Each is one atomic step because each is one `mutateSnapshot`.

`HandEnd` follows the commands between their awaits. The hand itself is reduced to
what its end depends on: some players (`inHand`) push their whole stack, a chip
standing for a starting stack and a point for an entry fee, and one of them wins.
`cmd[c]` is a call of `resolveWinners` or `retryCheckpoint` and its program
counter; `ask[c][p]` is the dialogue of `processRebuy` with player `p`; `memory` is
the three maps of `DealerService` for this table. A step that has nothing left to
remember drops its locals (`MoveOn`). A Redis call made while the link is down
does not return until it is back (ioredis queues it) or throws (`Throw`); a
database call that fails inside `retryAsync` consumes one of `MaxTries`. `Restart`
clears everything in memory, with the snapshot surviving or lost and rebuilt. The commit of a
payment may be lost on its way back (the last case of `Pay`), and a revert may fail: `gifts` counts the chips
that are then too many or too few, on the table and, after a checkpoint, in the database. A
command that begins beside another one is kept out by the flags or it is not; `overlapped`
remembers that a retry was let in beside a command in one of the stages that set no flag
(`Unflagged`).

`TurnClock` is about one number kept in three places: `timerEpoch` and
`actionDeadline` in the snapshot, and a delayed job whose id is
`${tableId}-${timerEpoch}`. `scheduleTurnTimeout` writes the queue while its caller
holds the table lock, and the snapshot follows later; `op` is the holder of the lock
between these writes (`Begin` removes the old job, `Add` adds the new one, `Write`
saves and releases). Whose turn comes next is `TableHand`'s affair: here it is anybody
(`After`). `Pick`, `Silent`, `Confirm`, `Fire` and `LockTimeout` are the processor with
the ping of the dealer and the call of `handleAction`; `press` and `dealer` are
commands that passed the gateway and wait for the lock. What stops a table is an
outage (`Outage`, `Reconnect`, `Sweep`, `MarkRecovered`), a dead line of the hall
(`LineDown`, `SweepLine`, `CompleteSync`), a restart, or a rebuy round cut off
(`RebuyInterrupted`). Time is counted down, so that it needs no bound. Each fault that happens is
remembered by its kind: `outage`, `line`, `restart`, `torn` (an operation stops between add
and write), `lock` (five seconds without the lock), `sweep` (`pauseTable` fails), `late` (a
command of the dealer outlives the stop). All of them happen in `turn_clock`, and a
property that does not survive one says so (`Without({...})`): from then on it promises
nothing, and in every behaviour without that kind it holds.

`TournamentLedger` takes the database transactions as steps when they lock the row of
the tournament before they read it, and splits the calls that read first: `joinSession`
(its fee), the kick (its guard), `tournamentFinished` (totals before the lock),
`chopSession` (no lock at all) and `completeSession` (its gate). Such a reading lies in a
variable of the call until the call writes, and anything may happen in between: nothing waits
for a reading that the code does not wait for. Five kinds of calls write what they computed
without noticing that it holds no more: a join (`fee`), a `kick`, a first prize (`winner`), a
`chop`, and the end of `completeSession` (`complete`). `stale` remembers which of them have.
`t.total` is `totalBuyinAmount`; `paid` and `share` add up the
rows of `PointTransaction`, so that prizes paid and prizes recorded can differ. Players
are numbers because the code orders them where nothing else tells them apart.
`grewLate` remembers that the field grew after a place that may be paid had been given:
then two people can end with the same paid place, a case of its own (below). `MaxCalls` bounds
the calls under way at the moment when another one gets behind its checks (a call of
`tournamentFinished` comes whenever somebody is eliminated), `Elsewhere` the players who also
pay into other tournaments.

`SnapshotLock` has the snapshot as the set of calls whose change it contains, so that a lost
change is a missing element. `Acquire` is `SET NX PX`; `LeaseTick` lets the key disappear under a
call that is still at work (`late`); `ReleaseTableLock` is the script that compares the token;
`Fn` writes, opts out or throws; `Crash` ends every call and leaves the key.

`SeatEntry` keeps a seat four times, as the code does, and takes the writes one by one. An
entry of a phone is a program counter with what it has read: `FindSeat`, `FindTable`,
`CreateRow` (the transaction with its two unique constraints), `OwnSeat` and `WriteSeat` (the
lock), `MirrorContext` and `MirrorBit` (behind it), `BumpVersion` and `RevokeTokens` (the
token), then the socket: `AssertIdentityCurrent`, `AddToMap`, `CloseIfStale`. `releaseSeats` and
the two eliminations of a hand hold the lock throughout, with the steps that reach the database
apart from the ones that reach Redis. `hurt` are the seats a fault has hit since their owner last
entered: a property about them would say that faults have no effect.

`Syncing` takes each await of a job of `SyncQueue` as a step: `task` is the job under way with
what it read, `queue` the jobs that wait. `recount` and `forceSync` begin with `Measure`
(which folds the readings of `measureSync` into one) and go on with `Load` and `Release`, the
two halves of `completeSync`; `pauseIfNoDealer` is `StartPause`, `PauseMark`, `PauseDown`,
`PauseStop`. An outage raises the generation; `sweeps[g]` is the run of `recoverFromOutage` that
began in generation `g`, so that runs overlap. A dealer's socket is `joining` between its entry
in `tableSessions` and its admission, and `silent` when the line is dead and nobody has noticed.
A turn is running or stopped; its deadline is `TurnClock`'s. The reason shown with a stopped
table, and pauses of zero length, are left out.

`SeatTablet` has the page behind the server: `down` are the frames the gateway has sent and the
browser has not read, `up` the answers on their way; `Cut` loses both, and neither side knows
until the watchdog's 25 seconds (`Silence`). `hook` is the state of `useTableSocket`, with every
way to end (`gaveUp`, `revoked`, `over`: closed with 1000, `dead`: an exception nobody catches,
`left`: the page is gone); `page` is what `SeatGameClient` keeps. `wire` is the gateway's side:
`knocking` until `handleConnection` has admitted the socket, `room` until it was greeted. A
deadline is the number of its round, because it is only compared with another round's. `ask`
follows `askRebuys` for this player; of the other players of the round it is left that they may
be interrupted or throw. A round whose table is stopped ends in `held` and goes on by `Resume`;
one that threw, or was running at a restart, leaves `HAND_END` and `FinishHand` is the dealer's
retry. A snapshot tells this page three things (`View`). `slips` remembers two things the code
lets happen: `crossed`, a question to the page and an answer from it were under way at the same
time (`Crosses`), and `rebuilt`, a restart without Redis rebuilt the table from the database.

Mutants, operators named in the comment above them, stand before the definition
they change. They take part in no specification.

## 3. Runs

All runs have `CHECK_DEADLOCK FALSE`: a table with one player left, one nobody sits down at,
a tournament nobody comes back to, or a lock nobody asks for again rightly stands still.

| run | instance | shows |
|---|---|---|
| `hand` | 3 seats, stack 3, 9 chips; levels 1/2 without ante and 5/10 with ante 1 | `PotIsContributions`, `TurnOwnerCanAct`, `ShowdownResolvable`, `ChipsLostOnlyUnclaimed`, `EverybodyActs`, `ReopenedByFullRaise`, `WinningsCapped`, `HandReachesShowdown` |
| `hand_end` | 3 players, 1 command, 1 point each, 2 faults, 2 tries | `MoneyForChips`, `LedgerHoldsChips`, `AskedBeforeEliminated` |
| `hand_end_overlap` | 3 players, 2 commands, no points, 2 faults, 2 tries | `ActiveCounted`, `WayOut`, `LiveHandKept`, `CheckpointAtBoundary` |
| `hand_end_rest` | 2 players, 1 command, 1 point, 1 fault | `CommandsRest` |
| `turn_clock` | 2 players, 4 epochs, 2 ticks a turn, 1 tick of hold, 2 faults of all seven kinds | `TurnHasClock`, `NeverEarly`, `NobodyFoldedByAStop`, `StoppedOnceByAnOutage` |
| `turn_clock_ends` | 4 epochs, 1 fault: outage, dead line or restart | `TurnEnds` |
| `ledger` | 3 players, one of whom can pay twice and also pays elsewhere; fees 4 and 8, rake 10 %, one paid place up to 2 entries and two from 3 on; 2 tables, 2 stacks, 2 calls of `tournamentFinished` and one other at a time | `PrizeOnce`, `PointsNotNegative`, `CancelOwesAll`, `BooksBalance`, `BookKept` (the refinement of `TournamentBook`) |
| `snapshot_lock` | 3 calls, a lease of 2 ticks, patience of 2 ticks, crashes | `OverwritesOnlyLate`, `MutationsAtomic` (the refinement of `AtomicSnapshot`) |
| `seat_entry` | 3 people, 2 seats, 2 phones, 1 fault | `SeatedIsShown`, `OneDevice`, `OwnerKept`, `DealtHaveSeats` |
| `seat_tablet` | 1 retry, 2 rounds, 3 frames behind, 2 faults | `CanAnswer`, `PageFitsSeat`, `TabletReturns` |
| `seat_entry_finished` | the same without a fault; a violation is expected | `FinishedNeverDealt` |
| `syncing` | 2 tables, 1 phone, 2 instants, 3 things people do, 1 loss of Redis, 1 fault | `CaughtAreStopped`, `LineDownIsPaused`, `ForcedCountedOnce`, `UnwatchedIsPaused`, `SyncEnds` |

Every module has its type invariant (`LTypeOK` in `SnapshotLock`, whose names have an L where
`Syncing` has the same). All of them are proved (section 4; in `SnapshotLock`, `SeatEntry` and
`Syncing` as part of the inductive invariant).

Why the bounds are enough. Three seats are the fewest with a button, two blinds
that differ from it, a side pot and a folded contributor; heads-up is reached when
one busts or leaves. Stacks of 3 big-blind halves allow a blind that is all-in, a
raise below the minimum, a full raise and a re-raise; with unequal stacks after the
first hand three side-pot levels occur. A hand is dealt at either level; at the high
one every stack is short of the blind or of the ante. 9 chips let each seat be filled
once. The proofs lift `TypeOK`, the pot, the turn and the matched
rounds to every `N`, every blind level and every stack. In `hand_end` three players
give a winner and two rebuys that end differently in the same round; two faults
allow a fault during the recovery from the first; two tries are a retry and a
failure of the last one. Two commands with rebuys have too many states for TLC:
`hand_end_overlap` gives the players no points, so prompts end as `skipped`, and
still has the flags, the eliminations, the checkpoints and finishes of both
commands in every order; three players let a second hand start while the slower
command is still about. The properties about money and prompts are checked with one command
and proved for any number; 22 million states of two players with points, two commands and a
fault, and 92 million without one, were searched by hand, without the end and without a
violation. In `TurnClock` four epochs are a deal, an action, a stop and
a resume; two players make "the same player again" differ from "the next one"; two
ticks distinguish a job that is due, held (one tick) and armed; two faults are an
outage during the sweep of the one before. In `ledger` three players give a tie for
two places, a kick that would cost a paid place and a payout table that changes with the
third entry or the rebuy; 8 is twice 4, so that a changed fee can also add up by
chance, and the sums do not all divide by the percentages, so rounding shows. One call besides
those of `tournamentFinished` meets every step of the others; that more of them overlap was
searched by hand (two at a time, 10 million states without the end and without a violation), and so
were fees 4 and 5, and all players paying elsewhere (3.4 and 11.9 million states, complete). They
are too slow to keep.
In `snapshot_lock` three calls are a late one, the one that got the lock after it and one
that waits; the proofs need no bound. In `seat_entry` two phones let one person enter twice
or two people want one seat while a third has the other seat; two phones and a release with an elimination
reach every order of the four writes. An instance with three seats and one phone, in which the
race below and a second elimination leave chips without a row, passes too; the proofs need
no bound. In `syncing` two tables tell a dealer who is
back from all of them, the phone makes "everybody" more than the dealers, two instants tell
a pause from the one before it, and three things people do are a leave, a return and one
release by force or revocation on top of what the outage, the line and the restart do. Two losses of
Redis, whose sweeps overlap, are too many states together with the rest; the three safety
properties are proved for any number of them.
In `seat_tablet` one retry tells "tries again" from "gave up"; two rounds let an answer, a
question or a mark of the first meet the second; three frames are a snapshot, the question and
one more; two faults are a cut and an outage, or either twice.

Fairness. In `TableHand` only the turn clock moves by itself (`scheduleTurnTimeout`
arms a job for every turn), so only `TimeOut` is fair. In `HandEnd` the server's
steps are fair, a prompt has its 15 second timer, a query ends, and Redis
reconnects; no person is. `CommandsRest` excludes a dealer who resumes the table
for ever, each time into another failing round. In `TurnClock` the server's steps and
time are fair. `Confirm` is strongly fair: a job asks again every two seconds, so a
tablet that answers every so often is asked at such a moment. The gateway stops a
tournament whose dealers all stay away; a single tablet that never answers again
holds its table, which the code accepts (T130). In `Syncing` the jobs of the queue go on,
the recovery goes on, and timers fire and dead sockets are swept; nothing makes a device come
back, the store force, a query succeed or Redis return. `SyncEnds` and `UnwatchedIsPaused`
therefore start from devices that are there, or away, for good. In `SeatTablet` timers, requests,
frames, the watchdog and the gateway's greeting are fair: each ends, with a success or an error.
Nobody need press a button, and the table need not go on. `TabletReturns` excludes somebody who
loads the page again for ever. `SnapshotLock` and
`SeatEntry` state safety only.

What the properties except. In `Syncing`: `sweep` (the sweep after an outage could not reach
the database and logs it), `race` (a release that asked whether Redis is up before a loss and
landed after it: it may come between the sweep's two queries), `late` (a write of `SYNCING` that
a retry brought after its outage was over), `hidden` (the last dealer's socket ended between its
entry in `tableSessions` and its admission; `handleDisconnect` then does not look whether a
dealer is left). In `SeatEntry`: `torn` (a release broke off behind its transaction), `late` (a
mirror of an entry that its release overtook sets the context of a seat that is gone), `raced` (an
entry got a row for somebody eliminated since it asked: the disagreement below). In
`TournamentLedger`: what `stale` remembers, for `CancelOwesAll` the kind `fee`, for `BooksBalance`
`kick`, `winner` and `chop`, for `BookKept` `winner`, `chop` and `complete`; and `grewLate` in
`BooksBalance`. In `HandEnd`: `overlapped` in the four properties of the money and the prompts,
and the counts in `gifts`. In `SeatTablet`: `crossed` and `rebuilt` in `PageFitsSeat`, the state
`dead` in `TabletReturns`, and the banner of a stopped table in `CanAnswer`. Each of these happens in
the model as it does in the code and the model goes on from there; the property promises nothing
afterwards, or counts what is missing. Each is needed: with any one taken out TLC finds the property
violated, in the run or in the instance named below, where it says what then happens. In
`SnapshotLock`: a late call. It may also write back a snapshot without the change of a call that kept within its lease, after that call has ended, and the next call in time goes on
from there; that is why `OverwritesOnlyLate` blames whoever wrote last and does not say that a
punctual change stays. An outage that begins while the server boots is not modelled, nor a
loss of data in the middle of a sweep; boot is one step, because no socket is admitted before
it ends.

### Disagreements between the code and what it says of itself

`seat_entry_finished` (a run of its own). `enterSeat` reads the participation, finds it
`PLAYING`, and reads the seat row afterwards (`entry.service.ts:54`, `:80`). When
`eliminatePlayer` commits between the two, there is no row; `claimSeat` creates a new one and
does not look at the status again, writes the player into the snapshot, and the next
`startPreFlop` deals him in. The design of the entry
(`docs/superpowers/specs/2026-07-29-seat-on-enter-design.md:119`) says that whoever is
finished gets a 409 and does not sit down again. With three seats there is more: the second
elimination of the hand (`finishHand` repeats it, and its `deleteMany` does not look at the
status) deletes the new row again, `initTable` clears only the seat whose stack is 0, and
the player stays in the snapshot with chips and without a row, dealt in hand after hand.
`DealtHaveSeats` therefore excepts him, and nobody else.

More show when an exception is taken out of a property, or an instance above is changed, as said;
they have no run of their own.

- `hand` with the invariant `SidePotsCoverPot`: without an ante, the dealer folds both
  blinds before anybody else has paid. Nobody left in the hand has contributed, so
  `calculateSidePots` makes no layer and `resolveWinner` sets the pot to 0: the blinds
  vanish. The comment on `calculateSidePots` says no combination of contributions leaves a
  chip outside the pots. `ChipsLostOnlyUnclaimed` says that no other step loses a chip.
- `hand_end_overlap` without `~ overlapped` in `CheckpointAtBoundary`, no fault needed:
  `resolveWinners` starts its checkpoint without looking at `checkpointInFlight`. A retry
  admitted before it is still at it; the first to end clears the flag and finishes the hand,
  and the other saves the stacks of the next one. `docs/domain/hand.md:107-109` says a table
  has one loop. The same gap lets a retry in between stage 1 and the moment `rebuyInFlight` is
  set, and it eliminates players who were not asked yet (`AskedBeforeEliminated`); two players
  with a point each and two commands are enough, and the sums of `MoneyForChips` and
  `LedgerHoldsChips` go wrong too.
- `hand_end` without `gifts.table` in `MoneyForChips`: the payment of a rebuy is retried
  after any error. If the commit succeeded and its answer was lost, the player pays twice,
  or pays and loses the chips. The comment at `playsync.service.ts:827` says a failed
  attempt leaves nothing.
- `hand_end` with the property `RedealtToEverybody`: eliminations are committed before the
  stacks. A restart in between that also loses Redis deals the hand again from the old
  stacks, without the players it eliminated. The comment on `rebuildTable`
  (`recovery.service.ts:623-625`) says the next hand starts with the right people.
- `turn_clock` without `late` among the exceptions of `TurnHasClock`: a deal admitted just
  before the line of the hall dies starts behind the sweep. A dealer is back before the sync
  is complete, the job fires, `handleAction` drops it because the line is down, and no pause
  comes any more. The comment at `playsync.service.ts:190-191` says it comes soon.
- The same without `torn`: an operation fails after `queue.add` and before the snapshot is
  written. The next one computes the same epoch, its add is ignored, and the turn runs on
  the clock of the abandoned attempt; `NeverEarly` fails too. The comment at
  `playsync.service.ts:287` says an add never collides.
- The same without `lock`: a `TIME_OUT` that does not get the table lock within five
  seconds throws; its job is removed and the turn has no timer. `docs/domain.md:125` relies
  on the timeout to keep the hand moving.
- `turn_clock` with the invariant `snap.resume => snap.left = NoDeadline`: `resumePending`,
  set when a rebuy round is cut off, survives a restart, `retryCheckpoint` and
  `startPreFlop`; the next hand has a deadline on a stopped table. The comment at
  `types.ts:79` says it has none.
- `ledger` with one paid place (`PayoutTable <- WinnerTakesAll`), without `winner` in
  `BooksBalance`: `tournamentFinished` reads the pool, a `joinSession` commits, then the
  transaction closes registration and pays the winner from the old pool. The new fee belongs to
  nobody and `completeSession` refuses for good. The comment at `playsync.service.ts:706-709` says
  closing registration in that transaction prevents this. `BookKept` without `winner` fails
  likewise in the run itself, with an abort in between.
- The same exception of `BookKept` covers a first prize that nothing overtook, but a door had
  closed before: `tournamentFinished` looks at no status (`playsync.service.ts:679-727`), and an
  `eliminatePlayer` that is repeated (`:566-575` looks at none either) calls it again.
  One fee of 10, `StartPoints` 10 each, one call of `tournamentFinished` and payouts
  `<<50, 50>>`, from three entries `<<33, 67>>`: a restart loses the first call, a third player
  joins and takes second place once more, the two second prizes and the rake happen to be all that
  was collected, `completeSession` closes, and the first prize of the finished tournament is paid
  afterwards, in 21 steps.
- `ledger` without `kick` in `BooksBalance`: the guard of a kick is read before the table's lock
  (`dealer.service.ts:387-394`); a bust, somebody sitting down or a rebuy meanwhile lets the kick
  remove a player from a paid place, whose prize nobody gets. `docs/domain.md:127-129` says nobody
  is kicked among the paid places.
- `ledger` without `chop` in `BooksBalance` or in `BookKept`: an elimination between the readings
  of a chop and its prizes leaves a share unpaid; an abort in between makes the chop pay after
  the refund; with more places paid (three players, payouts `<<50, 30, 20>>`), a no-show who sits
  down in between stays live, with no stack in the chop and no place.
- `ledger` without `fee` in `CancelOwesAll`: `updateSession` changes the fee between the check and
  the transaction of a join, which pays the old fee; from then on `cancelSession` refuses.
- `ledger` without `complete` in `BookKept`: a no-show sits down after the winner was paid and
  busts between the gate and the transaction of `completeSession`; second place is paid twice,
  and the store's share no longer is what is left.
- `ledger` without the condition `~grewLate` in `BooksBalance`: somebody joins, sits down or
  rebuys after a place was given that may be paid. That place is then given again, or the
  new fee belongs to no place (a join admitted before the level closed registration
  commits after the chop: the column is still open). `completeSession` refuses; only the
  abort is left. The design note
  `docs/superpowers/specs/2026-08-21-t59-simultaneous-bust-design.md:55` says places given
  while registration is open are never among the paid ones.
- `syncing` without `race` among the exceptions of `CaughtAreStopped`: the recount asks
  whether Redis is up when it begins and not when it releases; a release that lands between
  the two queries of the sweep leaves the tables of that outage running on their old deadlines.
- `syncing` without `hidden` in `UnwatchedIsPaused`: the last dealer's socket is refused by
  `closeIfStale`, and the tournament runs on with nobody at its tables.
- `ForcedCountedOnce` is about the release by force, which `forcedAt` guards. A release by
  the recount has no such guard: sockets it counted that were already dead are ended later,
  and the pause that follows begins at their last sign of life, before the release.

- `seat_tablet` with `MaxFaults = 1`, `MaxFrames = 2` and the property `OutReturns`: a tablet
  that is not connected when its player is eliminated, or when the tournament is closed, finds
  no seat when it comes back. `assertTableAccess` refuses it with 1008, which the hook takes for
  a failure: it retries until it gives up, then asks somebody to press, and is refused again.
  `docs/superpowers/specs/2026-07-27-frontend-screens-design.md:165` says that elimination and
  the end lead back to the waiting screen by themselves.
- `seat_tablet` with only `rebuilt` excepted in `PageFitsSeat`: a question is sent to the room
  while the socket is being greeted and comes a second time with the greeting, or an old popup is
  answered while the next question is on its way. The second popup stays when the round is over:
  `renderGame` with chips and without a mark lowers only `sawRebuyPromptRef`, with the comment
  that the question ended in a rebuy (`SeatGameClient.tsx:143`), and `RebuyOverlay` covers the
  felt and cannot be put away. If the old popup was declined, the page leaves for the waiting
  screen while the player, who accepted or was asked again, has chips.
- `seat_tablet` with only `crossed` excepted: a table rebuilt from the last checkpoint gives the
  chips back, and the popup stays.
- `seat_tablet` without `dead` in `TabletReturns`: `await res.json()` of a good ticket
  (`use-table-socket.ts:181`) is outside the `try` that the comment above it asks for
  (`:151-152`); when the body breaks off, no attempt is planned, and nothing says so.
- The same without `~ table.resume` in `CanAnswer`: the server restarts while the table waits
  for the dealer, the dealer ends the hand and deals the next, `resumePending` stays set, and
  the next question is hidden behind "wait for the dealer" while its fifteen seconds run.

## 4. Proofs

Checked by TLAPS for every value of the constants that satisfies the named assumptions:
every `N >= 2`, set of blind levels, starting stack and bound for `TableHand`
(`SeatsAssumption`, `BlindAssumption`, `StackAssumption`); every set of calls, lease and
patience for `SnapshotLock` (`LockAssumption`); every set of tables and phones and every
bound for `Syncing` (`DevicesAssumption`, `BoundAssumption`); all people, seats and phones and
any number of faults for `SeatEntry` (`NobodyAssumption`, `HolderAssumption`: a phone is none of
the lock's other holders; `BoundAssumption`); all players, fees, points, stacks and every
payout table whose percentages add up to 100 for `TournamentLedger` (`PlayersAssumption`,
`MoneyAssumption`, `TableAssumption`; `parsePayouts` refuses any other table when a tournament
is created or changed); all players, any length of a turn and of a hold
that is no longer, any number of epochs and faults and any kinds of faults for `TurnClock`
(`NobodyAssumption`, `TicksAssumption`, `BoundsAssumption`); all players, points, attempts and
faults, and any number of dealer commands at once, for `HandEnd` (`PlayersAssumption`,
`CmdsAssumption`, `BoundsAssumption`). For `SeatTablet` every number of attempts, rounds, frames and
faults is covered. No theorem assumes that something the code allows does not happen: where one
does harm, the property names it, in the words of section 3, and the theorem is about that
property. The one hypothesis in a statement is that there is a payout table (`BooksClose`).

| theorem | statement |
|---|---|
| `Invariance` | `TableHand`: `Spec => []IInv` |
| `TypeCorrect` | `Spec => []TypeOK` |
| `PotIsExact` | `Spec => []PotIsContributions` |
| `TurnIsLive` | `Spec => []TurnOwnerCanAct` |
| `RoundsAreMatched` | `Spec => []EarlierRoundsMatched` |
| `PotsAreClaimed` | `Spec => [](IInv /\ PotsKept(table))` |
| `AlwaysResolvable` | `Spec => []ShowdownResolvable` |
| `ChipsAreConserved` | `Spec => ChipsLostOnlyUnclaimed` |
| `RoundsEndComplete` | `Spec => EverybodyActs` |
| `OnlyFullRaisesReopen` | `Spec => ReopenedByFullRaise` |
| `WinningsAreCapped` | `Spec => WinningsCapped` |
| `PotsCoverTheHand` | `Spec => []` (at a showdown with a contender, the side pots sum to the pot) |
| `LockInvariance` | `SnapshotLock`: `LSpec => []LockInv`, types included |
| `PunctualAlone` | `LSpec => []InTimeAlone` |
| `PunctualKept` | `LSpec => []OverwritesOnlyLate` |
| `LockImplementsAtomic` | `LSpec => MutationsAtomic` |
| `SyncInvariance` | `Syncing`: `Spec => []SyncInv` |
| `LinePaused` | `Spec => []LineDownIsPaused` |
| `ForcedOnce` | `Spec => []ForcedCountedOnce` |
| `OutageStopsCaught` | `Spec => []CaughtAreStopped` |
| `SeatInvariance` | `SeatEntry`: `Spec => []IInv`, types included |
| `SeatsAreShown` | `Spec => []SeatedIsShown` |
| `LastEntryWins` | `Spec => []OneDevice` |
| `OwnersStay` | `Spec => OwnerKept` |
| `DealtOwnSeats` | `Spec => DealtHaveSeats` |
| `LedgerInvariance` | `TournamentLedger`: `Spec => []LedgerInv`, types included |
| `LedgerTyped` | `Spec => []TypeOK` |
| `OnePrizeEach` | `Spec => []PrizeOnce` |
| `NeverOverdrawn` | `Spec => []PointsNotNegative` |
| `CancelReturnsAll` | `Spec => []CancelOwesAll` |
| `SplitByRatioExact` | `Sum(SplitByRatio(amount, weight, index)) = amount`, for different `index` and some weight |
| `BooksInvariance` | `Spec => []BooksInv` |
| `RowsKeepTheBook` | `Spec => BookKept` |
| `BooksClose` | `PayoutTable # <<>> => (Spec => []BooksBalance)` |
| `ClockInvariant` | `TurnClock`: `Spec => []ClockInv`, types included |
| `TypeCorrect` | `Spec => []TypeOK` |
| `EveryTurnHasItsClock` | `Spec => []TurnHasClock` |
| `NobodyTimedOutEarly` | `Spec => NeverEarly` |
| `AStopFoldsNobody` | `Spec => NobodyFoldedByAStop` |
| `StoppedOnce` | `Spec => StoppedOnceByAnOutage` |
| `TypeCorrect` | `HandEnd`: `Spec => []TypeOK` |
| `FlagsAreHeld` | `Spec => [](Shape /\ FlagsHeld)` |
| `ActiveIsCounted` | `Spec => []ActiveCounted` |
| `AlwaysAWayOut` | `Spec => []WayOut` |
| `HandIsKept` | `Spec => LiveHandKept` |
| `RoundsHold` | `Spec => [](~ overlapped => Rounds)` |
| `NobodyEliminatedUnasked` | `Spec => AskedBeforeEliminated` |
| `BooksHold` | `Spec => [](~ overlapped => Books)` |
| `ChipsAreBought` | `Spec => []MoneyForChips` |
| `LedgerHolds` | `Spec => []LedgerHoldsChips` |
| `CheckpointSavesAll` | `Spec => CheckpointAtBoundary` |
| `TabletInvariance` | `SeatTablet`: `Spec => []TabletInv`, types included |
| `TabletTypes` | `Spec => []TypeOK` |
| `QuestionAnswerable` | `Spec => []CanAnswer` |
| `SeatOnScreen` | `Spec => []PageFitsSeat` |

`TableHand`. `TurnOwnerCanAct` is not inductive: when the player on turn acts, the
turn goes to the next player clockwise who can act, and the round ends only if
*everybody* has acted. That the next one still has something to do needs a fact
about the order: going clockwise from the turn, all who still owe an action come
before all who do not (`OwingFirst`). A raise makes everybody owe, a call, check or
fold moves the turn past the one who is done; a new round starts with nobody done.
An all-in below the minimum is the delicate case: it lifts the bet, so those who had
acted owe a call again, without their flag being reset. The invariant also needs
that nobody is above the current bet, that those not all-in have chips and that
earlier rounds are matched (`RoundOpen`); the pot needs that a bet is part of its
contribution and that empty seats hold nothing. `ChipSumsProofs` proves the laws of `Total`
(a sum is a number, changes by what one entry changes, is the sum of the sums, and a sum over two
indices does not depend on their order) by induction over sets of numbers; `TableHandProofs` first
says what each engine operator returns and then has one lemma per action of `TableHand`.

The chips of a resolved hand. What a player pays into the layers up to a level is its
contribution capped at that level, by induction over the levels (`LayersAddUp`); added up over the
players first and over the layers afterwards, the side pots are the contributions (`PotsCoverAll`),
provided there is a layer at all: with `Contenders` empty there is none, which is the disagreement
of section 3. A pot with winners is divided completely: the odd chips go to the winners in their
order clockwise, and the places of that order are 0, 1, 2, ... without a gap (`OddOnesCount`,
`SplitPotAll`). So resolving moves chips and loses none, if every pot has a winner, which
`CanResolve` checks, and somebody is left, which the refund could spoil only by taking back all that
was in the pot (`RefundKeepsContenders`). That winners can be named needs `PotsKept`, the
second part of the invariant: the side pots of a showdown are for those in the hand, and stay so
when a newcomer sits down. The two properties of a betting round follow from what an action does to
the marks (`ActionEffect`) and the three ways on after it (`AdvanceWays`).

`SnapshotLock`. A call that holds the lock and is not late is the owner of the key, and the
key has a lease (that is `PunctualAlone`: there is one owner). Between its reading and its
writing the snapshot is what it read, or somebody late wrote it. A late call can write at
any moment, but never becomes punctual again, so the blame sticks until the next writer. For
the refinement: while nobody has been late, whoever is between reading and writing has the
current snapshot, so `WriteSnapshot` is `Mutate`, and `Fn`, `GiveUp` and `Crash` are `Leave`
or stutter.

`Syncing`. `SyncInv` is `Shapes` (the shapes of the records) with three parts. `LineSafe`:
the mark is down only while the tournament is paused, and it stays paused while a pause is
being set up, because a job is alone in its queue. `ForceSafe`: a release is noted no earlier
than what it counted; a pause that is about to be written begins after the last release
by force; an outage began no earlier than what was counted before it; a job of this
generation that is about to release does so while Redis is up, or is remembered as a race.
`StopSafe`: while an outage is not over, its sweep still has to write or find the
tournament, or the caught tables are among those it still has to stop; when it is through,
none are left; a sweep of an older generation cannot end the outage.

`SeatEntry`. `IInv` says what each of the four places of a seat waits for. The occupant is
the owner, or an entry of his is still before its write; the context points to the seat, or
the entry is before that, or its mirror is put off; and so on (`SeatKept`). What makes it
inductive is the lock: what a release or an elimination is about to clear belongs to nobody,
or to an entry that has not had the lock yet and will set everything right (`Clearing`), and
only the owner of the row gets to the write (`LockHeld`). A mirror behind the lock is of a
seat still held, or it is remembered as late (`MirrorsOfSeats`). An old socket lives only
while the event that closes it is under way (`OldSockets`), because the last look of
`closeIfStale` comes after the socket can be found. Whoever is eliminated has no row unless
he raced (`RowsPlay`), so an occupant without a row is one whom this hand's end or this
release is about to clear (`OccupantsOwn`). `SeatEntryProofs` first says what becomes of a
phone in any step (`PhonesFollow`), then keeps each part with the ones before it.

`TournamentLedger`. `LedgerInv` adds two facts to the types. Who is not out has no prize
(`PrizesBooked`), so the one time that `awardPrize` does not pass somebody over it writes row
and history from nothing. Whoever is about to join has no row, and whoever a call is about has
one (`Apart`), so that a join never overwrites a prize. Points stay at or above none because
`paymentPoint` compares in the statement that takes the money, and because everything
`Settlement` computes is a natural number: `SharesFit` shows by induction that the shares rounded
down fit into the pool as the percentages fit into 100, so the rest that goes to first place is
not negative. For `CancelOwesAll` nothing is asked, given away or dealt before the start
(`QuietBefore`), so only joins move money there; a join that pays another fee than the present one
is remembered as it does so, and so the sum holds until then without a word about fees read
before.

The refinement of `TournamentBook` needs what the doors rely on (`BooksInv`). While the
tournament is open its `total` is what the history collected and nothing is returned (`OpenBook`);
nobody is out before the start (`NobodyOutBefore`), so a cancellation has no prizes to deduct. Then
each kind of step has its lemma: one that moves no money (`LookingIdle`, `IdleKept`), a payment, an
award, and each door. `abortSession` pays out what is left to the unit because of
`SplitByRatioExact`: the rests of the division add up to a multiple of the total weight that is
less than the number of players (`RestFits`), and as many players have fewer others ahead of them
(`RankCount`), so that each odd unit finds one of them. The three calls that pay from an older
reading, `WinnerAward`, `ChopAward` and `Complete`, either pay what is right now, and that is a
step of the book, or are remembered in `stale`, and then the book promises no more.

That the books close (`BooksBalance`) is a statement about who is out at which place, by kicks, in
hands, as the winner or by a deal, in whatever order. `BalanceInv` has three parts. `SeatedKnown`:
`given` is a number, and who is about to be kicked has sat down. `InPlay`: while places are still to
be given, `active` on the row is the number of those who are live, the best place given leaves no
gap behind them, and what has been paid is exactly the prizes of the places behind them
(`PrizesTo`). `Decided`: after first place nobody is live and, if at least as many sat down as
places are paid, the pool is given away. All of it is for a field that did not grow late and for
kicks, first prizes and deals that were written from a reading that still held (`Fair`), and what is
unfair stays so (`UnfairKept`, `StaleStays`, `FairBefore`). What a call has read needs no
invariant: at the moment it writes, `Stale` has compared it, and from there on one of the two holds.
The arithmetic comes first. The prizes of all the places are the pool, because
first place gets what rounding leaves (`PrizesAddUp`). What `splitBustedRanks` gives those who
bust in one hand is together the prizes of the interval of places they take, ties and odd units
included (`SplitBustedExact`); and `calculateChop` gives away all that is left (`ChopExact`). The
last needs that no odd unit goes to somebody without chips, who has no place in the deal
(`WeightlessGetNothing`). Then there is a lemma per action. The
hypothesis `PayoutTable # <<>>` is what `parsePayoutTable` and `startablePayoutTable`
(`payout-table.ts:134`, `:166`) refuse to start without; without a table nobody has a prize and the
pool stays.

`TurnClock`. Every part of `ClockInv` names the kinds of faults after which it is lost, because
a fault breaks some of them and the theorems promise the others all the same. `QueueFits` (lost
when an operation is torn) says what the queue knows: no job has an epoch of the future, except
the one that the holder of the lock has just armed and not yet written to the snapshot; the job
of the present epoch is for the player on turn and has at least as long to wait as the deadline;
and who is in the worker with the present epoch came when the deadline had passed. That last
line is `NobodyTimedOutEarly`: the job of a torn operation keeps an id which the next turn then
takes. What a stop leaves behind comes in the order of its causes. A turn runs on during an
outage only if it is remembered as hit by it (`OutageHit`), and no command of the dealer waits
for the lock meanwhile (`DealerQuiet`; a command that arrives late is the fault that breaks
it). Once the sweep has passed, the table stands still until it is resumed (`StopHolds`,
`SweptIsStill`), so a job that waited in the worker through the outage does not find its turn
live (`OldCall`). From all of them follows `TurnHasClock`, which is inductive only with them.
`TurnClockProofs` first says for each variable which actions touch it (`SnapStep`, `JobsStep`,
`LinkStep`, `LineStep`, `StopWhy`), and derives the rest from these lemmas, so that no part
needs a proof over all the actions of its own. The proof of `StoppedOnce` found that the
property was too strong: after two outages, with the first one's sweep still under way, a
restart clears that sweep in the same step in which it stops the table the dealer has resumed.
Nothing is wrong with the code there (a restart stops the tables in any case), and three faults
are one more than the run had; the property now speaks of steps that are no fault themselves.

`HandEnd`. For any number of commands: `Shape` is the types with two counts, `activePlayers`
(`eliminatePlayer` subtracts a player in the transaction that changes his status, so only once)
and the generations of the process, of which there are no more than faults. `FlagsHeld` says
that each flag in memory belongs to a command that has yet to pass the `finally` which clears it;
`WayOut` follows, since no command is under way there. That one command at a time is under way
is not assumed but follows, as long as `overlapped` is false (`OneAtATime`): a command under way
keeps the table at `HAND_END`, which keeps a second `resolveWinners` out; in a round its flag is
set, at the checkpoint the other one, and these keep a retry out (`Covered`); at the remaining
stages nothing does, and a retry that begins there is remembered. So whoever acts is alone
(`ActsAlone`). Then a round of rebuys is closed (`Rounds`): a dialogue belongs to the round that
started it, who is marked as kicked is out, and whoever is broke without an answer is among those
the command asks (`AskedFits`): that is what makes `askRebuys` ask before `applyEliminations`. Doing
this proof showed that the model's `answered` kept its old members in a table rebuilt after a
restart, which made `AskedBeforeEliminated` vacuous there; the restart now sets it per branch.
The money needs `Books`: pot and hand are empty between hands (`HandFits`); whoever is
asked has no chips, and whoever has chips and has not paid has one start stack (`DialogueFits`),
so a revert never takes chips somebody won; the checkpoint holds what is on the table, and once
it has finished the database does (`SavedFits`). `MoneyForChips` and `LedgerHoldsChips` are
inductive only together with these: a checkpoint carries the first over into the second, a
restart, which rebuilds the table from the database, the second into the first; `gifts` goes along
with both. Sums over the
players are proved by induction over the subsets of a finite set, with a set in place of the
predicate that the library's theorem asks for (`SubsetInduction`).

`SeatTablet`. The server, the wire and the page learn of each other by frames, so what the page
shows says little: the invariant `TabletInv` says what it will show when it has read the frames
on their way. `ViewFits`: a greeted page comes to show the mark and the banner of the table as
it is now, by the last snapshot on its way or, without one, already. `OutageTold`: the banner of
an outage is gone by then if Redis is back. `AskFits`: who is waited for has a seat, his mark is
of this round, and the question is remembered for the round and the connection to Redis.
`Reached` is what `CanAnswer` rests on: a question waited for is on its way, on the page, or
answered; a prompt read before its snapshot would be hidden, and what rules that out is that
`handleConnection` sends the snapshot first and the remembered question behind it.
`SeatShown`: while he has his seat nothing sends him away, because a seat that is lost does not
come back (`SeatLost`). `SeatTabletProofs` first proves what a frame at the end of a queue and
the reading of the first one change in each of these (`ComesToMore`, `ComesToLess` and so on);
each part then splits into the actions that leave it alone and the few that do not.
`PageFitsSeat` needs four more facts (`PaidInv`): one answer at a time, with no question next to
it; whoever is asked has no chips; an answer that was yes leaves the page where it is; and from
the yes that the server has read to the next loss of chips nothing asks him. They hold while
`slips` is empty: the first ends with a question that crosses an answer, the last with a table
rebuilt from the database, when chips come without a yes.

Model-checked only: the liveness properties (`HandReachesShowdown`, `CommandsRest`,
`TurnEnds`, `UnwatchedIsPaused`, `SyncEnds`, `TabletReturns`), which are out of the prover's
reach, and the run whose violation is expected. Every invariant and every action property of the
passing runs is the conclusion of a theorem. That the exceptions in the properties are needed
is TLC's word alone: a violated instance each.

## 5. Not modelled, and what comes next

- The other pages of the web client (`frontend/`): what the server relies on is modelled at the
  server, which accepts any order of messages; what the dealer's and the store's pages show is a
  function of the last answer. The buttons offered to the dealer are the guards of the
  environment in `HandEnd` and `TurnClock`. Of the tablet, the actions of a hand are left out:
  they change nothing on the page until the next snapshot.
- Controllers, authentication, devices, stores, users, metrics, adapters, contract, load
  tools: requests without a protocol of several steps, or no state (`PROJECT.json` lists
  each with its reason).
- Payments: charging points and one-time passwords are single rows.
- What the doors of a tournament clean up in Redis and tell the clients, the dashboard and
  the texts shown to the hall.

Worth doing next: what a new entry does to the places already given while registration is open
(`grewLate`), as a property of its own.
