------------------------------ MODULE HandEnd ------------------------------
(***************************************************************************)
(* The end of a hand at one table: DealerService.resolveWinners with its   *)
(* five stages, retryCheckpoint, resumeTable and finishHand, the rebuy     *)
(* dialogues of PlaysyncService.processRebuy, eliminatePlayer and          *)
(* checkpointTableToDb, interleaved with Redis outages, database failures  *)
(* and restarts of the server.                                             *)
(*                                                                         *)
(* Redis holds the snapshot, the database stacks, points and statuses; the *)
(* server keeps the commands in progress, their dialogues and three maps   *)
(* keyed by table in memory.  A step is what happens between two awaits: a *)
(* mutateSnapshot (locked), a database transaction, an unlocked read.  The *)
(* hand itself is TableHand's; here some players push all their chips into *)
(* the pot and one of them wins it.                                        *)
(***************************************************************************)
EXTENDS Integers, FiniteSets, FiniteSetsExt

CONSTANTS
  Players,      \* the participants who start at the table
  Cmds,         \* dealer commands that can be under way at once
  NoCmd,        \* no resumeWaiters entry
  Points,       \* points a participant has when the tournament starts
  MaxTries,     \* attempts of checkpointTableToDb (DB_SYNC_RETRY_ATTEMPTS)
  MaxFaults     \* bound: outages, restarts and failed reverts

\* one chip stands for startStack, one point for entryFee
ASSUME PlayersAssumption == Players # {} /\ IsFiniteSet(Players)
ASSUME CmdsAssumption    == NoCmd \notin Cmds /\ IsFiniteSet(Cmds)
ASSUME BoundsAssumption  == Points \in Nat /\ MaxFaults \in Nat /\ MaxTries \in Nat \ {0}

VARIABLES
  snap,         \* Redis: the table snapshot
  kicked,       \* Redis: players whose user context says KICKED
  db,           \* database: participations, users and the tournament row
  link,         \* RedisOutage: phase and generation
  cmd,          \* the dealer commands in progress
  ask,          \* the rebuy dialogues of each command
  memory,       \* rebuyInFlight, checkpointInFlight, resumeWaiters of the table
  faults,       \* outages, restarts and failed reverts so far
  gifts,        \* what faults left on the table and in the DB: rebuy chips
                \* without a payment, less payments without their chips
  answered,     \* who got a final rebuy outcome for this hand, or forfeited it:
                \* registration closed, the command threw, the server restarted
  overlapped    \* a retry was let in beside a command that no flag covered

vars == <<snap, kicked, db, link, cmd, ask, memory, faults, gifts, answered, overlapped>>

Busy == {"settled", "opening", "asking", "holding", "held", "unmark",
         "eliminate", "load", "save", "finish"}
\* mutant: a database failure counts as a refusal
NotDeferred == {"interrupted", "dealerSilent"}
Interrupted == {"interrupted", "deferred", "dealerSilent"}
Outcomes == {"interrupted", "deferred", "dealerSilent", "skipped", "declined",
             "applied", "threw"}
Undoing  == {"undoInterrupted", "undoDeferred", "undoSkipped"}
Dialogue == {"none", "reading", "waiting", "accepted", "paying"} \union Undoing \union Outcomes

IdleCmd == [pc |-> "idle", asked |-> {}, open |-> FALSE, gen |-> 0, tries |-> 0,
            stack |-> [p \in Players |-> 0], seated |-> {}]
Sum(f)  == MapThenSumSet(LAMBDA p : f[p], Players)

Up   == link.phase = "up"
Down == link.phase = "down"

Broke(s)    == {p \in s.seated : s.stack[p] = 0}
Playing     == {p \in Players : db.status[p] = "PLAYING"}
Contenders  == snap.inHand \ kicked     \* in play: who may win the pot

TypeOK ==
  /\ snap \in [phase : {"WAITING", "BETTING", "SHOWDOWN", "HAND_END"}, seated : SUBSET Players,
               inHand : SUBSET Players, stack : [Players -> Nat], pot : Nat, resume : BOOLEAN]
  /\ kicked \subseteq Players
  /\ db \in [stack : [Players -> Nat], points : [Players -> Nat],
             buyIns : [Players -> Nat], active : Nat, open : BOOLEAN,
             status : [Players -> {"PLAYING", "ELIMINATED", "AWARDED"}]]
  /\ link \in [phase : {"up", "down", "recovering"}, gen : 0 .. MaxFaults]
  /\ cmd \in [Cmds -> [pc : Busy \union {"idle"}, asked : SUBSET Players,
                       open : BOOLEAN, gen : 0 .. MaxFaults, tries : 0 .. MaxTries,
                       stack : [Players -> Nat], seated : SUBSET Players]]
  /\ ask \in [Cmds -> [Players -> Dialogue]]
  /\ memory \in [rebuy : BOOLEAN, checkpoint : BOOLEAN, waiter : Cmds \union {NoCmd}]
  /\ faults \in 0 .. MaxFaults
  /\ gifts \in [table : Int, db : Int]
  /\ answered \subseteq Players
  /\ overlapped \in BOOLEAN

Init ==
  /\ snap = [phase |-> "WAITING", seated |-> Players, inHand |-> {}, pot |-> 0, resume |-> FALSE,
             stack |-> [p \in Players |-> 1]]
  /\ kicked = {}
  /\ db = [stack  |-> [p \in Players |-> 1], points |-> [p \in Players |-> Points],
           buyIns |-> [p \in Players |-> 1], status |-> [p \in Players |-> "PLAYING"],
           active |-> Cardinality(Players), open |-> TRUE]
  /\ link = [phase |-> "up", gen |-> 0]
  /\ cmd = [c \in Cmds |-> IdleCmd]
  /\ ask = [c \in Cmds |-> [p \in Players |-> "none"]]
  /\ memory = [rebuy |-> FALSE, checkpoint |-> FALSE, waiter |-> NoCmd]
  /\ faults = 0
  /\ gifts = [table |-> 0, db |-> 0]
  /\ answered = {}
  /\ overlapped = FALSE

-----------------------------------------------------------------------------
(* The hand, abstractly.                                                   *)

\* startPreFlop does not look at resumePending; blinds may put everybody all-in
Start(S) ==
  /\ ~ Down
  /\ snap.phase = "WAITING"
  /\ S \subseteq snap.seated \ Broke(snap) /\ Cardinality(S) >= 2
  /\ \E phase \in {"BETTING", "SHOWDOWN"} :
       snap' = [snap EXCEPT !.phase = phase, !.inHand = S,
                            !.pot   = MapThenSumSet(LAMBDA p : snap.stack[p], S),
                            !.stack = [p \in Players |-> IF p \in S THEN 0 ELSE @[p]]]
  /\ UNCHANGED <<kicked, db, link, cmd, ask, memory, faults, gifts, answered, overlapped>>

\* the betting; a stopped table takes no action
Bet ==
  /\ ~ Down
  /\ snap.phase = "BETTING" /\ ~ snap.resume
  /\ snap' = [snap EXCEPT !.phase = "SHOWDOWN"]
  /\ UNCHANGED <<kicked, db, link, cmd, ask, memory, faults, gifts, answered, overlapped>>

\* handleDealerAction KICK: the participation ends at once, the chips stay on
\* the table; not in the prize zone (one place is paid here)
Kick(p) ==
  /\ ~ Down
  /\ snap.phase = "BETTING" /\ ~ snap.resume
  /\ p \in snap.seated /\ Contenders \ {p} # {}
  /\ db.active > 1
  /\ db' = IF p \in Playing
           THEN [db EXCEPT !.status[p] = "ELIMINATED", !.active = @ - 1]
           ELSE db
  /\ kicked' = kicked \union {p}
  /\ UNCHANGED <<snap, link, cmd, ask, memory, faults, gifts, answered, overlapped>>

\* the registration level passes
CloseRegistration ==
  /\ db.open
  /\ db' = [db EXCEPT !.open = FALSE]
  /\ UNCHANGED <<snap, kicked, link, cmd, ask, memory, faults, gifts, answered, overlapped>>

-----------------------------------------------------------------------------
(* resolveWinners, stage 1: the pot.                                       *)

To(c, pc)     == cmd' = [cmd EXCEPT ![c].pc = pc]
\* the same, when nothing of the command's own is read any more
MoveOn(c, pc) == cmd' = [cmd EXCEPT ![c] = [IdleCmd EXCEPT !.pc = pc]]

ResolveWinners(c, winner) ==
  /\ cmd[c].pc = "idle"
  /\ ~ Down
  /\ snap.phase = "SHOWDOWN"
  /\ winner \in Contenders
  /\ snap' = [snap EXCEPT !.phase = "HAND_END", !.pot = 0, !.inHand = {},
                          !.stack[winner] = @ + snap.pot]
  /\ cmd' = [cmd EXCEPT ![c] = [IdleCmd EXCEPT !.pc = "settled", !.open = db.open,
                                               !.asked = Broke(snap')]]
  /\ answered' = IF db.open THEN answered ELSE Players
  /\ UNCHANGED <<kicked, db, link, ask, memory, faults, gifts, overlapped>>

\* the user contexts are read; the kicked are not asked
FilterKicked(c) ==
  /\ cmd[c].pc = "settled"
  /\ ~ Down
  /\ LET asked == cmd[c].asked \ kicked
     IN  IF cmd[c].open /\ asked # {}
         THEN /\ cmd' = [cmd EXCEPT ![c].pc = "opening", ![c].asked = asked,
                                    ![c].gen = link.gen]
              /\ memory' = [memory EXCEPT !.rebuy = TRUE]
         ELSE /\ MoveOn(c, "eliminate")
              /\ UNCHANGED memory
  /\ UNCHANGED <<snap, kicked, db, link, ask, faults, gifts, answered, overlapped>>

-----------------------------------------------------------------------------
(* Stage 2: the rebuy rounds of askRebuys.                                 *)

\* markRebuyPending, then all dialogues at once; Redis away: nobody is asked
OpenRound(c) ==
  /\ cmd[c].pc = "opening"
  /\ ask' = [ask EXCEPT ![c] = [p \in Players |->
               IF p \notin cmd[c].asked THEN "none"
               ELSE IF Down THEN "interrupted" ELSE "reading"]]
  /\ cmd' = [cmd EXCEPT ![c].pc = "asking", ![c].open = FALSE]
  /\ UNCHANGED <<snap, kicked, db, link, memory, faults, gifts, answered, overlapped>>

Say(c, p, what) == ask' = [ask EXCEPT ![c][p] = what]

SameGeneration(c) == Up /\ link.gen = cmd[c].gen

\* the points are read (or the database fails), the popup goes out
ReadPoints(c, p) ==
  /\ ask[c][p] = "reading"
  /\ \/ Say(c, p, "deferred")
     \/ Say(c, p, IF db.points[p] = 0 THEN "skipped"
                  ELSE IF SameGeneration(c) THEN "waiting" ELSE "interrupted")
  /\ UNCHANGED <<snap, kicked, db, link, cmd, memory, faults, gifts, answered, overlapped>>

\* the player answers, the 15 seconds pass, or the line of the hall is dead
Answer(c, p) ==
  /\ ask[c][p] = "waiting"
  /\ \E what \in {"accepted", "declined", "dealerSilent"} : Say(c, p, what)
  /\ UNCHANGED <<snap, kicked, db, link, cmd, memory, faults, gifts, answered, overlapped>>

\* processRebuy, 1: the chips, in the lock; a write whose acknowledgement is
\* lost may or may not have landed
ApplyChips(c, p) ==
  /\ ask[c][p] = "accepted"
  /\ IF ~ SameGeneration(c) THEN Say(c, p, "interrupted") /\ UNCHANGED snap
     ELSE IF p \notin snap.seated THEN Say(c, p, "skipped") /\ UNCHANGED snap
     ELSE \/ /\ Say(c, p, "paying") \/ Say(c, p, "undoInterrupted")
             /\ snap' = [snap EXCEPT !.stack[p] = @ + 1]
          \/ /\ Say(c, p, "undoInterrupted") \/ Say(c, p, "threw")
             /\ UNCHANGED snap
  /\ UNCHANGED <<kicked, db, link, cmd, memory, faults, gifts, answered, overlapped>>

\* mutant: the participation's stack is left to the checkpoint
PaidNoStack(p) == [db EXCEPT !.points[p] = @ - 1, !.buyIns[p] = @ + 1]

\* executeRebuyTransaction
Paid(p) == [db EXCEPT !.points[p] = @ - 1, !.buyIns[p] = @ + 1, !.stack[p] = @ + 1]

\* mutant: a refused payment leaves the chips on the table
PayNoRevert(c, p) ==
  /\ ask[c][p] = "paying"
  /\ \/ db.points[p] > 0 /\ db' = Paid(p) /\ Say(c, p, "applied")
     \/ UNCHANGED db /\ (Say(c, p, "skipped") \/ Say(c, p, "undoDeferred"))
  /\ UNCHANGED <<snap, kicked, link, cmd, memory, faults, gifts, answered, overlapped>>

\* processRebuy, 2: the money; refused, or failed for all retries.  A commit may
\* be reported as failed: the payment is tried again, or the chips taken back
Pay(c, p) ==
  /\ ask[c][p] = "paying"
  /\ \/ /\ db.points[p] > 0 /\ db' = Paid(p)
        /\ Say(c, p, "applied")
        /\ UNCHANGED gifts
     \/ /\ Say(c, p, "undoSkipped") \/ Say(c, p, "undoDeferred")
        /\ UNCHANGED <<db, gifts>>
     \/ /\ db.points[p] > 0 /\ db' = Paid(p)
        /\ UNCHANGED ask \/ Say(c, p, "undoDeferred")
        /\ gifts' = [gifts EXCEPT !.table = @ - 1]
  /\ UNCHANGED <<snap, kicked, link, cmd, memory, faults, answered, overlapped>>

\* revertRebuy: takes the chips back if they are there; a second failure leaves
\* them on the table
Landed(p) == p \in snap.seated /\ snap.stack[p] >= 1

RevertRebuy(c, p) ==
  /\ ask[c][p] \in Undoing
  /\ ask[c][p] = "undoInterrupted" => Up
  /\ Say(c, p, CASE ask[c][p] = "undoInterrupted" -> "interrupted"
                 [] ask[c][p] = "undoDeferred"    -> "deferred"
                 [] OTHER                         -> "skipped")
  /\ \/ /\ ~ Down
        /\ snap' = IF Landed(p) THEN [snap EXCEPT !.stack[p] = @ - 1] ELSE snap
        /\ UNCHANGED gifts
        /\ UNCHANGED faults
     \/ /\ \/ Down /\ UNCHANGED faults
           \/ faults < MaxFaults /\ faults' = faults + 1
        /\ gifts' = IF Landed(p) THEN [gifts EXCEPT !.table = @ + 1] ELSE gifts
        /\ UNCHANGED snap
  /\ UNCHANGED <<kicked, db, link, cmd, memory, answered, overlapped>>

\* allSettled: throw, go on, or stop the table until the dealer resumes it
CloseRound(c) ==
  /\ cmd[c].pc = "asking"
  /\ \A p \in cmd[c].asked : ask[c][p] \in Outcomes
  /\ LET said(S) == {p \in cmd[c].asked : ask[c][p] \in S}
         leave   == [memory EXCEPT !.rebuy = FALSE, !.waiter = NoCmd]
     IN  /\ answered' = IF said({"threw"}) # {} THEN Players
                        ELSE answered \union said({"skipped", "declined", "applied"})
         /\ \/ /\ said({"threw"}) # {}
               /\ cmd' = [cmd EXCEPT ![c] = IdleCmd]
               /\ memory' = leave
            \/ /\ said({"threw"} \union Interrupted) = {}
               /\ MoveOn(c, "unmark")
               /\ memory' = leave
            \/ /\ said({"threw"}) = {} /\ said(Interrupted) # {}
               /\ cmd' = [cmd EXCEPT ![c].pc = "holding", ![c].asked = said(Interrupted)]
               /\ memory' = [memory EXCEPT !.waiter = c]
  /\ ask' = [ask EXCEPT ![c] = [p \in Players |-> "none"]]
  /\ UNCHANGED <<snap, kicked, db, link, faults, gifts, overlapped>>

\* holdForDealer: once Redis is back the table is marked stopped
Hold(c) ==
  /\ cmd[c].pc = "holding"
  /\ Up
  /\ snap' = [snap EXCEPT !.resume = TRUE]
  /\ To(c, "held")
  /\ UNCHANGED <<kicked, db, link, ask, memory, faults, gifts, answered, overlapped>>

\* resumeTable: the dealer goes on and releases the waiter
ResumeTable ==
  /\ ~ Down
  /\ snap.resume
  /\ snap' = [snap EXCEPT !.resume = FALSE]
  /\ memory' = [memory EXCEPT !.waiter = NoCmd]
  /\ UNCHANGED <<kicked, db, link, cmd, ask, faults, gifts, answered, overlapped>>

\* released: who was interrupted and is still broke is asked again
Wake(c) ==
  /\ cmd[c].pc = "held"
  /\ memory.waiter # c
  /\ ~ Down
  /\ LET again == cmd[c].asked \intersect Broke(snap)
     IN  IF again # {}
         THEN /\ cmd' = [cmd EXCEPT ![c].pc = "opening", ![c].asked = again,
                                    ![c].gen = link.gen]
              /\ UNCHANGED memory
         ELSE /\ MoveOn(c, "unmark")
              /\ memory' = [memory EXCEPT !.rebuy = FALSE, !.waiter = NoCmd]
  /\ UNCHANGED <<snap, kicked, db, link, ask, faults, gifts, answered, overlapped>>

\* the finally block: the snapshot's rebuyPending is cleared
Unmark(c) ==
  /\ cmd[c].pc = "unmark"
  /\ ~ Down
  /\ MoveOn(c, "eliminate")
  /\ UNCHANGED <<snap, kicked, db, link, ask, memory, faults, gifts, answered, overlapped>>

-----------------------------------------------------------------------------
(* Stage 3: eliminations.                                                  *)

\* mutant: those already eliminated are subtracted again
EliminateAgain(B) ==
  [db EXCEPT !.status = [p \in Players |-> IF p \in B THEN "ELIMINATED" ELSE @[p]],
             !.active = IF @ > Cardinality(B) THEN @ - Cardinality(B) ELSE 0]

\* eliminatePlayer in the database, with tournamentFinished when one is left
EliminatePlayer(B) ==
  LET pending == B \intersect Playing
      left    == Playing \ pending
      active  == db.active - Cardinality(pending)
  IN  IF B = {} THEN db
      ELSE [db EXCEPT
              !.status = [p \in Players |-> IF p \in pending THEN "ELIMINATED"
                                            ELSE IF active <= 1 /\ p \in left
                                            THEN "AWARDED" ELSE @[p]],
              !.active = active,
              !.open   = @ /\ active > 1]

\* in the lock: those still without chips; a failure before or after the commit
\* ends the command
Eliminate(c) ==
  /\ cmd[c].pc = "eliminate"
  /\ ~ Down
  /\ db' = EliminatePlayer(Broke(snap))
  /\ \/ /\ kicked' = kicked \ Broke(snap)
        /\ MoveOn(c, "load")
        /\ memory' = [memory EXCEPT !.checkpoint = TRUE]
     \/ /\ cmd' = [cmd EXCEPT ![c] = IdleCmd]
        /\ UNCHANGED <<kicked, memory>>
  /\ UNCHANGED <<snap, link, ask, faults, gifts, answered, overlapped>>

-----------------------------------------------------------------------------
(* Stages 4 and 5: the checkpoint and the next hand.                       *)

\* mutant: the attempts are not counted
FailedForever(c) ==
  /\ MoveOn(c, "load")
  /\ UNCHANGED memory

\* one attempt failed: back off, or give up and leave HAND_END to the dealer
Failed(c) ==
  IF cmd[c].tries + 1 < MaxTries
  THEN /\ cmd' = [cmd EXCEPT ![c] = [IdleCmd EXCEPT !.pc = "load",
                                                   !.tries = cmd[c].tries + 1]]
       /\ UNCHANGED memory
  ELSE /\ cmd' = [cmd EXCEPT ![c] = IdleCmd]
       /\ memory' = [memory EXCEPT !.checkpoint = FALSE]

\* an attempt reads the snapshot of that moment, without the lock ...
LoadSnapshot(c) ==
  /\ cmd[c].pc = "load"
  /\ IF Down THEN Failed(c)
     ELSE /\ cmd' = [cmd EXCEPT ![c].pc = "save", ![c].stack = snap.stack,
                                ![c].seated = snap.seated]
          /\ UNCHANGED memory
  /\ UNCHANGED <<snap, kicked, db, link, ask, faults, gifts, answered, overlapped>>

\* ... and writes the stacks in one transaction (syncTableInventoryToDb)
SaveStacks(c) ==
  /\ cmd[c].pc = "save"
  /\ \/ /\ db' = [db EXCEPT !.stack = [p \in Players |->
                    IF p \in cmd[c].seated THEN cmd[c].stack[p] ELSE @[p]]]
        /\ MoveOn(c, "finish")
        /\ memory' = [memory EXCEPT !.checkpoint = FALSE]
        /\ gifts' = [gifts EXCEPT !.db = gifts.table]
     \/ Failed(c) /\ UNCHANGED <<db, gifts>>
  /\ UNCHANGED <<snap, kicked, link, ask, faults, answered, overlapped>>

\* mutant: the phase is not looked at again
FinishAnyPhase(c) ==
  /\ cmd[c].pc = "finish"
  /\ ~ Down
  /\ cmd' = [cmd EXCEPT ![c] = IdleCmd]
  /\ snap' = [snap EXCEPT !.phase = "WAITING", !.pot = 0, !.inHand = {},
                          !.seated = @ \ Broke(snap)]
  /\ UNCHANGED <<kicked, db, link, ask, memory, faults, gifts, answered, overlapped>>

\* in the lock: nothing if the hand has moved on, else the busted are
\* eliminated (again) and their seats emptied
FinishHand(c) ==
  /\ cmd[c].pc = "finish"
  /\ ~ Down
  /\ cmd' = [cmd EXCEPT ![c] = IdleCmd]
  /\ IF snap.phase # "HAND_END" THEN UNCHANGED <<snap, kicked, db, answered>>
     ELSE /\ db' = EliminatePlayer(Broke(snap))
          /\ \/ /\ kicked' = kicked \ Broke(snap)
                /\ snap' = [snap EXCEPT !.phase = "WAITING", !.seated = @ \ Broke(snap)]
                /\ answered' = {}
             \/ UNCHANGED <<snap, kicked, answered>>      \* Redis fails after the commit
  /\ UNCHANGED <<link, ask, memory, faults, gifts, overlapped>>

\* where a command is under way and neither flag of the table is set
Unflagged(c) == \E d \in Cmds \ {c} : cmd[d].pc \in {"settled", "unmark", "eliminate", "finish"}

\* mutant: a checkpoint under way does not keep a second one out
RetryAnyTime(c) ==
  /\ cmd[c].pc = "idle"
  /\ ~ Down
  /\ snap.phase = "HAND_END"
  /\ ~ memory.rebuy
  /\ cmd' = [cmd EXCEPT ![c] = [IdleCmd EXCEPT !.pc = "save", !.stack = snap.stack,
                                               !.seated = snap.seated]]
  /\ memory' = [memory EXCEPT !.checkpoint = TRUE]
  /\ overlapped' = (overlapped \/ Unflagged(c))
  /\ UNCHANGED <<snap, kicked, db, link, ask, faults, gifts, answered>>

\* retryCheckpoint: phase and flags are looked at, and the first attempt reads
\* the snapshot, before anything sent later gets its answer
RetryCheckpoint(c) ==
  /\ cmd[c].pc = "idle"
  /\ ~ Down
  /\ snap.phase = "HAND_END"
  /\ ~ memory.rebuy /\ ~ memory.checkpoint
  /\ cmd' = [cmd EXCEPT ![c] = [IdleCmd EXCEPT !.pc = "save", !.stack = snap.stack,
                                               !.seated = snap.seated]]
  /\ memory' = [memory EXCEPT !.checkpoint = TRUE]
  /\ overlapped' = (overlapped \/ Unflagged(c))
  /\ UNCHANGED <<snap, kicked, db, link, ask, faults, gifts, answered>>

\* mutant: no finally block
ThrowKeepsFlag(c) ==
  /\ cmd[c].pc \in {"settled", "opening", "holding", "unmark", "eliminate", "finish"}
  /\ cmd[c].pc \in {"opening", "holding"} => Up
  /\ cmd' = [cmd EXCEPT ![c] = IdleCmd]
  /\ answered' = Players
  /\ UNCHANGED <<snap, kicked, db, link, ask, memory, faults, gifts, overlapped>>

\* a Redis call outside checkpoint and dialogues throws, or the table lock is
\* not obtained: the command ends, the finally blocks run
Throw(c) ==
  /\ cmd[c].pc \in {"settled", "opening", "holding", "held", "unmark", "eliminate", "finish"}
  /\ cmd[c].pc \in {"opening", "holding"} => Up
  /\ cmd[c].pc = "held" => memory.waiter # c
  /\ cmd' = [cmd EXCEPT ![c] = IdleCmd]
  /\ memory' = IF cmd[c].pc \in {"opening", "holding", "held"}
               THEN [memory EXCEPT !.rebuy = FALSE, !.waiter = NoCmd] ELSE memory
  /\ answered' = Players
  /\ UNCHANGED <<snap, kicked, db, link, ask, faults, gifts, overlapped>>

-----------------------------------------------------------------------------
(* Faults.                                                                 *)

\* RedisOutage.onLost: a new generation, the open prompts end
Outage ==
  /\ faults < MaxFaults /\ faults' = faults + 1
  /\ ~ Down
  /\ link' = [phase |-> "down", gen |-> link.gen + 1]
  /\ ask' = [c \in Cmds |-> [p \in Players |->
               IF ask[c][p] = "waiting" THEN "interrupted" ELSE ask[c][p]]]
  /\ UNCHANGED <<snap, kicked, db, cmd, memory, gifts, answered, overlapped>>

Reconnect ==
  /\ Down
  /\ link' = [link EXCEPT !.phase = "recovering"]
  /\ UNCHANGED <<snap, kicked, db, cmd, ask, memory, faults, gifts, answered, overlapped>>

\* recoverFromOutage: a hand with somebody on turn is stopped for the dealer,
\* a table in SHOWDOWN or HAND_END is not (planPause)
Recovered ==
  /\ link.phase = "recovering"
  /\ link' = [link EXCEPT !.phase = "up"]
  /\ snap' = IF snap.phase = "BETTING" THEN [snap EXCEPT !.resume = TRUE] ELSE snap
  /\ UNCHANGED <<kicked, db, cmd, ask, memory, faults, gifts, answered, overlapped>>

\* rebuy chips in the snapshot whose money has not moved
Unpaid == {x \in Cmds \X Players : \/ ask[x[1]][x[2]] = "paying"
                                   \/ ask[x[1]][x[2]] \in Undoing /\ Landed(x[2])}

\* rebuildTable: seats of live participations, stacks of the last checkpoint
Rebuilt ==
  LET seated == snap.seated \intersect Playing
  IN  [phase |-> "WAITING", seated |-> seated, inHand |-> {}, pot |-> 0, resume |-> FALSE,
       stack |-> [p \in Players |-> IF p \in seated THEN db.stack[p] ELSE 0]]

\* the server restarts: everything in memory is gone; the snapshot survives in
\* Redis, or is lost with it and rebuilt from the database
Restart ==
  /\ faults < MaxFaults /\ faults' = faults + 1
  /\ link' = [phase |-> "up", gen |-> 0]
  /\ cmd' = [c \in Cmds |-> IdleCmd]
  /\ ask' = [c \in Cmds |-> [p \in Players |-> "none"]]
  /\ memory' = [rebuy |-> FALSE, checkpoint |-> FALSE, waiter |-> NoCmd]
  /\ \/ /\ snap' = IF snap.phase = "BETTING" THEN [snap EXCEPT !.resume = TRUE] ELSE snap
        /\ gifts' = [gifts EXCEPT !.table = @ + Cardinality(Unpaid)]
        /\ answered' = IF snap.phase = "HAND_END" THEN Players ELSE {}
        /\ UNCHANGED kicked
     \/ /\ snap' = Rebuilt
        /\ gifts' = [gifts EXCEPT !.table = gifts.db]
        /\ answered' = {}
        /\ kicked' = {}
  /\ UNCHANGED <<db, overlapped>>

-----------------------------------------------------------------------------
Hall ==
  \/ \E S \in SUBSET Players : Start(S)
  \/ Bet
  \/ \E p \in Players : Kick(p)
  \/ CloseRegistration

Dealer(c) ==
  \/ \E winner \in Players : ResolveWinners(c, winner)
  \/ RetryCheckpoint(c)

Step(c) ==
  \/ FilterKicked(c) \/ OpenRound(c) \/ CloseRound(c) \/ Hold(c) \/ Wake(c) \/ Unmark(c)
  \/ Eliminate(c) \/ LoadSnapshot(c) \/ SaveStacks(c) \/ FinishHand(c)

Talk(c, p) ==
  ReadPoints(c, p) \/ Answer(c, p) \/ ApplyChips(c, p) \/ Pay(c, p) \/ RevertRebuy(c, p)

Next ==
  \/ Hall
  \/ \E c \in Cmds : Dealer(c) \/ Step(c) \/ Throw(c)
  \/ ResumeTable
  \/ \E c \in Cmds, p \in Players : Talk(c, p)
  \/ Outage \/ Reconnect \/ Recovered \/ Restart

\* the server's own steps are never left undone; people owe nothing, but a
\* prompt has its timer, and Redis reconnects
Fairness ==
  /\ \A c \in Cmds : WF_vars(Step(c))
  /\ \A c \in Cmds, p \in Players : WF_vars(Talk(c, p))
  /\ WF_vars(Reconnect) /\ WF_vars(Recovered)

Spec == Init /\ [][Next]_vars /\ Fairness

-----------------------------------------------------------------------------
(* Properties.                                                             *)

\* The order snapshot, database, display of processRebuy (T100): every chip on
\* the table was bought and every payment is on the table, except a rebuy that is
\* between its two writes and what a second fault left behind: chips that could
\* not be taken back (the log line of revertRebuy), a payment committed but
\* reported as failed, which is paid once more or loses its chips.  An unseated
\* player's chips are those the database has.  Not once a retry of the dealer was
\* let in beside a command that no flag covered.
MoneyForChips ==
  ~ overlapped =>
  Sum([p \in Players |-> IF p \in snap.seated THEN snap.stack[p] ELSE db.stack[p]])
    + snap.pot = Sum(db.buyIns) + gifts.table + Cardinality(Unpaid)

\* What a table rebuilt from the database starts with: the stacks of the
\* database always hold every chip that was paid for, whatever hand or rebuy is
\* under way (syncTableInventoryToDb, executeRebuyTransaction), but for what a
\* checkpoint found on the table, too much or too little after a second fault.
\* Not once a retry of the dealer overlapped a command that no flag covered: its
\* loop may write the stacks of a moment that is over.
LedgerHoldsChips == ~ overlapped => Sum(db.stack) = Sum(db.buyIns) + gifts.db

\* While registration is open a player without chips is not eliminated before
\* his rebuy prompt had an outcome: an outage in the window decides nothing
\* (T100), a database failure is no refusal (T118).  A command that throws and a
\* restart forfeit the prompt (eliminateBusted), a kicked player gets none.  A
\* retry let in before the flag of the rebuys is set reaches finishHand's own
\* eliminations while the prompts are open: that is the one exception.
AskedBeforeEliminated ==
  [][\A p \in Players :
       db.status[p] = "PLAYING" /\ db'.status[p] = "ELIMINATED"
         => p \in answered \union kicked' \/ overlapped]_vars

\* checkpointInFlight keeps a second checkpoint loop of a table out, so no old
\* loop writes the stacks of the next hand: whoever saves, the database gets
\* stacks with every chip that was paid for in them, never those of a hand in
\* play.  The flag is set only with the first attempt, and gone before
\* finishHand: a retry of the dealer before or after it is let in beside the
\* command under way, and then two loops do run (docs/domain/hand.md claims one).
CheckpointAtBoundary ==
  [][\A c \in Cmds : cmd[c].pc = "save" /\ cmd'[c].pc = "finish" /\ ~ overlapped
       => Sum([p \in Players |-> IF p \in cmd[c].seated THEN cmd[c].stack[p]
                                 ELSE db.stack[p]])
            = Sum(db.buyIns) + gifts.table]_vars

\* finishHand looks at the phase again in the lock (T62): a hand in play ends
\* with its winners, never by initTable wiping its pot.
LiveHandKept ==
  [][snap.phase \in {"BETTING", "SHOWDOWN"} => snap'.phase # "WAITING" \/ faults' # faults]_vars

\* eliminatePlayer may come twice for the same players, after a failure between
\* commit and Redis, from stage 3 and finishHand, or from two commands: the
\* counter follows the statuses.  The champion is not subtracted.
ActiveCounted ==
  db.active = Cardinality({p \in Players : db.status[p] # "ELIMINATED"})

\* No dead end: when a table stands in HAND_END and no command is running, the
\* retry of the dealer is let through, whatever was thrown or cut off before.
WayOut ==
  snap.phase = "HAND_END" /\ (\A c \in Cmds : cmd[c].pc = "idle")
    => ~ memory.rebuy /\ ~ memory.checkpoint /\ memory.waiter = NoCmd

\* When Redis was lost and the hand is dealt again (rebuildTable), nobody who
\* was in it has been eliminated by it.
RedealtToEverybody ==
  [][snap.phase # "WAITING" /\ snap' = Rebuilt /\ faults' # faults
     => \A p \in snap.seated \ kicked :
          db.status[p] = "ELIMINATED" => db.stack[p] = 0]_vars

\* Every command comes to rest, finished or waiting for the dealer to resume the
\* table, unless the dealer resumes it for ever: rounds, retries and outages do
\* not keep it going on its own.
CommandsRest ==
  <>[][~ ResumeTable]_vars => \A c \in Cmds : cmd[c].pc # "idle"
    ~> cmd[c].pc = "idle" \/ (cmd[c].pc = "held" /\ memory.waiter = c)
=============================================================================
