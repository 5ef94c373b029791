----------------------------- MODULE TableHand -----------------------------
(***************************************************************************)
(* One table from hand to hand.  The state is the table snapshot; every    *)
(* action is one mutateSnapshot of the server around one engine call:      *)
(* DealerService.startPreFlop, resolveWinners (stage 1) and finishHand,    *)
(* PlaysyncService.handleAction and processRebuy (the chips), and the      *)
(* seats that EntryService.claimSeat fills and SessionService.releaseSeats *)
(* empties.  Deadlines, pauses, the database and the failure paths of      *)
(* these calls belong to TurnClock and HandEnd: here the snapshot's chips  *)
(* and turns are followed through complete hands.                          *)
(***************************************************************************)
EXTENDS TableEngine

CONSTANTS
  BlindLevels,   \* blind levels a hand can start at: [sb, ante]
  StartStack,    \* chips of a buy-in and of a rebuy
  MaxIssued      \* bound: no more than this many chips are ever put on the table

ASSUME BlindAssumption == \A level \in BlindLevels :
         level.sb \in Nat /\ level.sb > 0 /\ level.ante \in Nat
ASSUME StackAssumption == StartStack \in Nat /\ StartStack > 0

VARIABLES
  table,    \* the snapshot (TableState)
  issued    \* chips brought to the table minus chips taken away from it

vars == <<table, issued>>

Init ==
  /\ table = EmptyTable
  /\ issued = 0

-----------------------------------------------------------------------------
(* Seats.                                                                  *)

\* a participant with chips takes a free seat; in the middle of a hand it
\* sits out until the next one
SitDown(i) ==
  /\ i \notin table.seated
  /\ issued + StartStack <= MaxIssued
  /\ table' = [table EXCEPT
                 !.seated         = @ \union {i},
                 !.stack[i]       = StartStack,
                 !.bet[i]         = 0,
                 !.contributed[i] = 0,
                 !.folded  = IF table.phase # "WAITING" THEN @ \union {i} ELSE @ \ {i},
                 !.checked = @ \ {i},
                 !.allIn   = @ \ {i}]
  /\ issued' = issued + StartStack

\* the store releases a seat, between hands only; the player keeps the chips
StandUp(i) ==
  /\ table.phase = "WAITING"
  /\ i \in table.seated
  /\ table' = [table EXCEPT !.seated = @ \ {i}, !.stack[i] = 0]
  /\ issued' = issued - table.stack[i]

-----------------------------------------------------------------------------
(* The hand.                                                               *)

StartHand(level) ==
  /\ table.phase = "WAITING"
  /\ CanStart(table)
  /\ table' = startPreFlop([table EXCEPT !.smallBlind = level.sb], level.ante)
  /\ UNCHANGED issued

Act(i, action, amount) ==
  /\ CanDo(table, i, action, amount)
  /\ table' = act(table, i, action, amount)
  /\ UNCHANGED issued

\* raises worth distinguishing: anything above the whole stack is an all-in
RaiseAmounts(i) == 1 .. Greater(table.bet[i] + table.stack[i], table.currentBet + 1)

TimeOut(i)       == Act(i, "TIME_OUT", 0)
PlayerActs(i)    == \/ \E action \in {"FOLD", "CHECK", "CALL"} : Act(i, action, 0)
                    \/ \E amount \in RaiseAmounts(i) : Act(i, "RAISE", amount)
DealerRemoves(i) == \E action \in DealerActions : Act(i, action, 0)

Resolve(rank) ==
  /\ CanResolve(table, rank)
  /\ table' = resolveWinner(table, rank)
  /\ UNCHANGED issued

Rebuy(i) ==
  /\ table.phase = "HAND_END"
  /\ i \in table.seated /\ table.stack[i] = 0
  /\ issued + StartStack <= MaxIssued
  /\ table' = applyRebuy(table, i, StartStack)
  /\ issued' = issued + StartStack

FinishHand ==
  /\ table.phase = "HAND_END"
  /\ table' = initTable(table)
  /\ UNCHANGED issued

Next ==
  \/ \E i \in Seats : SitDown(i) \/ StandUp(i)
  \/ \E level \in BlindLevels : StartHand(level)
  \/ \E i \in Seats : TimeOut(i) \/ PlayerActs(i) \/ DealerRemoves(i)
  \/ \E rank \in [Seats -> 0 .. N] : Resolve(rank)
  \/ \E i \in Seats : Rebuy(i)
  \/ FinishHand

\* the only step the server takes by itself is the turn clock's: a 30 second
\* job is armed for every turn
Fairness == WF_vars(\E i \in Seats : TimeOut(i))

Spec == Init /\ [][Next]_vars /\ Fairness

-----------------------------------------------------------------------------
(* Properties.                                                             *)

TypeOK ==
  /\ table \in TableState
  /\ issued \in Int

HandRunning == table.phase \in Betting \union {"SHOWDOWN"}

\* No engine call creates or destroys chips: antes capped by short stacks,
\* refunds of uncalled bets, odd chips of split pots and the seats initTable
\* empties all add up.  The only step that can change the sum of stacks and pot
\* against the chips issued is the resolution of a showdown in which nobody is
\* left who has paid anything (see SidePotsCoverPot; an ante excludes that).
ChipsLostOnlyUnclaimed ==
  [][ \/ Contenders(table) = {} /\ table.phase = "SHOWDOWN"
      \/ Total(table'.stack, N) + table'.pot - issued'
           = Total(table.stack, N) + table.pot - issued ]_vars

\* While a hand runs the pot is what the players at the table put in, and a
\* player's bet is part of its contribution: the refund and the side pots, which
\* are computed from the contributions, always speak about the real pot.
PotIsContributions ==
  HandRunning => /\ table.pot = Total(table.contributed, N)
                 /\ \A i \in Seats : table.bet[i] <= table.contributed[i]

\* The comment on calculateSidePots: sum(sidePots) === pot holds structurally, no
\* combination of contributions leaves a chip outside the pots.
SidePotsCoverPot ==
  table.phase = "SHOWDOWN" =>
    Total([k \in Seats |-> IF k \in LevelSeats(table)
                           THEN PotAmount(table, table.contributed[k])
                           ELSE 0], N) = table.pot

\* While betting is open there is a player on turn who can act and still has
\* something to do, and outside it nobody holds the turn of a live hand: a
\* table can never wait for a folded, all-in or already settled player
\* (findNextActiveSeat, the two ways out of a betting round in act).
Settled(s, i) == i \in s.checked /\ s.bet[i] = s.currentBet

TurnOwnerCanAct ==
  /\ table.phase \in Betting => /\ table.turn \in CanAct(table)
                                /\ ~ Settled(table, table.turn)
  /\ table.phase = "SHOWDOWN" => table.turn = NoTurn

\* Whoever is still in has paid the same in every finished betting round, and
\* a player who is all-in never paid more than those who are not
\* (shouldGoToNextPhase closes a round only on matched bets).
PaidBefore(s, i) == s.contributed[i] - s.bet[i]

RoundsMatched(s) ==
  \A i \in InHand(s), j \in InHand(s) \ s.allIn :
    IF i \in s.allIn THEN PaidBefore(s, i) <= PaidBefore(s, j)
    ELSE PaidBefore(s, i) = PaidBefore(s, j)

EarlierRoundsMatched == table.phase \in Betting => RoundsMatched(table)

\* The dealer can always end the hand: at showdown every side pot has somebody
\* left in the hand who may win it, so naming all of them passes the
\* unclaimed-pot check of resolveWinner.
ShowdownResolvable ==
  table.phase = "SHOWDOWN" =>
    /\ \A p \in table.sidePots : p.eligible # {} /\ p.eligible \subseteq InHand(table)
    /\ CanResolve(table, [i \in Seats |-> IF i \in table.folded THEN 0 ELSE 1])

\* A betting round ends only after everybody who can still act has acted in it:
\* the big blind keeps its option, and a raise gives the others their turn back
\* (hasChecked, resetChecked, shouldGoToNextPhase).
EverybodyActs ==
  [][ table.phase \in Betting /\ table'.phase \in Betting
      /\ table'.phase # table.phase
      => \A i \in InHand(table') \ table'.allIn : i = table.turn \/ i \in table.checked ]_vars

\* Within a betting round a player who has acted may raise again only after a
\* full raise: an all-in below the minimum does not reopen the betting
\* (handleRaise, resetChecked).
ReopenedByFullRaise ==
  [][ table.phase \in Betting /\ table'.phase = table.phase
      /\ (\E i \in InHand(table') \ table'.allIn : i \in table.checked \ table'.checked)
      => table'.currentBet - table.currentBet >= minRaiseSize(table) ]_vars

\* The pots pay nobody more than their own contribution bought: a player below
\* the top layer wins at most its own contribution from each other player, and
\* a folded one gets back its uncalled chips and no more (refundUncalledBets,
\* calculateSidePots, splitPot).
WinningsCapped ==
  [][ table.phase = "SHOWDOWN" /\ table'.phase = "HAND_END"
      => \A i \in table.seated :
           LET gain  == table'.stack[i] - table.stack[i]
               share == [j \in Seats |-> Lesser(table.contributed[i],
                                                table.contributed[j])]
           IN  /\ i \in table.folded => gain = Uncalled(table, i)
               /\ (\E j \in Contenders(table) \ {i} :
                     table.contributed[j] > table.contributed[i])
                    => i \in table.folded \/ gain <= Total(share, N) ]_vars

\* Left to the turn clock alone, every hand reaches its showdown.
HandReachesShowdown == table.phase \in Betting ~> table.phase = "SHOWDOWN"

-----------------------------------------------------------------------------
(* The inductive invariant.                                                *)

\* an empty seat has no chips and no part in the pot
EmptySeatsClear(s) ==
  \A i \in Seats \ s.seated : s.stack[i] = 0 /\ s.bet[i] = 0 /\ s.contributed[i] = 0

\* between hands
CleanTable(s) ==
  /\ s.folded = {} /\ s.checked = {} /\ s.allIn = {}
  /\ \A i \in Seats : s.bet[i] = 0 /\ s.contributed[i] = 0
  /\ \A i \in s.seated : s.stack[i] > 0
  /\ s.pot = 0

\* while a hand runs
PotExact(s) ==
  /\ s.pot = Total(s.contributed, N)
  /\ \A i \in Seats : s.bet[i] <= s.contributed[i]

\* within a betting round: nobody is above the bet, whoever is not all-in has
\* chips behind
RoundOpen(s) ==
  /\ \A i \in Seats : s.bet[i] <= s.currentBet
  /\ \A i \in InHand(s) \ s.allIn : s.stack[i] > 0
  /\ RoundsMatched(s)

\* going clockwise from `from', everybody who has something left to do comes
\* before everybody who has not: the turn need never skip a player
OwingFirst(s, from, S) ==
  \A i, j \in S : Settled(s, i) /\ ~ Settled(s, j)
                    => Clockwise(from, j) < Clockwise(from, i)

TurnRuns(s) ==
  /\ s.turn \in CanAct(s)
  /\ ~ Settled(s, s.turn)
  /\ OwingFirst(s, s.turn, CanAct(s))

TableInv(s) ==
  /\ EmptySeatsClear(s)
  /\ s.phase = "WAITING" => CleanTable(s)
  /\ s.phase \in Betting => PotExact(s) /\ RoundOpen(s) /\ TurnRuns(s)
  /\ s.phase = "SHOWDOWN" => PotExact(s) /\ s.turn = NoTurn

\* Everybody with something left to do is ahead of everybody who has not: with
\* it TurnOwnerCanAct, PotIsContributions and EarlierRoundsMatched are preserved
\* by every step (act, startPreFlop, nextPhase, the seats filled in mid-hand).
IInv == TypeOK /\ TableInv(table)
=============================================================================
