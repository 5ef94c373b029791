---------------------------- MODULE TableEngine ----------------------------
(***************************************************************************)
(* The hand engine: src/backend/src/game-engine/table-engine.ts.           *)
(*                                                                         *)
(* The class holds one TableState and mutates it; here every method is an  *)
(* operator from a table state to a table state, with a predicate of its   *)
(* own for the conditions under which the method throws.  The seats of the *)
(* players array are 0 .. N-1; a player is named by the seat it sits in,   *)
(* and the boolean fields of TablePlayer are the sets of the seats that    *)
(* have them.  lastRaiseSize = undefined is 0.                             *)
(***************************************************************************)
EXTENDS ChipSums

CONSTANT N            \* players.length (9 in createEmptyTableState)

ASSUME SeatsAssumption == N \in Nat /\ N >= 2

Seats  == 0 .. N - 1
NoTurn == -1          \* currentTurnSeatIndex when nobody is to act

Betting == {"PRE_FLOP", "FLOP", "TURN", "RIVER"}
Phase   == Betting \union {"WAITING", "SHOWDOWN", "HAND_END"}

SidePot == [amount : Nat, eligible : SUBSET Seats]

TableState ==
  [phase       : Phase,
   seated      : SUBSET Seats,
   stack       : [Seats -> Nat],
   bet         : [Seats -> Nat],
   contributed : [Seats -> Nat],
   folded      : SUBSET Seats,
   checked     : SUBSET Seats,
   allIn       : SUBSET Seats,
   button      : Seats,
   turn        : Seats \union {NoTurn},
   pot         : Nat,
   sidePots    : SUBSET SidePot,
   currentBet  : Nat,
   lastRaise   : Nat,
   smallBlind  : Nat]

\* createEmptyTableState
EmptyTable ==
  [phase |-> "WAITING", seated |-> {}, folded |-> {}, checked |-> {},
   allIn |-> {}, button |-> 0, turn |-> NoTurn, pot |-> 0, sidePots |-> {},
   currentBet |-> 0, lastRaise |-> 0, smallBlind |-> 100,
   stack       |-> [i \in Seats |-> 0],
   bet         |-> [i \in Seats |-> 0],
   contributed |-> [i \in Seats |-> 0]]

AtMostOne(S) == \A i, j \in S : i = j

-----------------------------------------------------------------------------
(* Who is in the hand, and who is next.                                    *)

InHand(s)  == s.seated \ s.folded
CanAct(s)  == {i \in InHand(s) \ s.allIn : s.stack[i] > 0}

SeatAfter(i) == IF i = N - 1 THEN 0 ELSE i + 1

\* how many seats clockwise from `from' to `to'
Clockwise(from, to) == IF to >= from THEN to - from ELSE to - from + N

\* mutant: an all-in player is not skipped
findNextUnfoldedSeat(s, start) ==
  IF InHand(s) = {} THEN NoTurn
  ELSE CHOOSE i \in InHand(s) :
         \A j \in InHand(s) : Clockwise(start, i) <= Clockwise(start, j)

findNextActiveSeat(s, start) ==
  IF CanAct(s) = {} THEN NoTurn
  ELSE CHOOSE i \in CanAct(s) :
         \A j \in CanAct(s) : Clockwise(start, i) <= Clockwise(start, j)

minRaiseSize(s) == IF s.lastRaise = 0 THEN 2 * s.smallBlind ELSE s.lastRaise

-----------------------------------------------------------------------------
(* Chips into the pot.                                                     *)

executeBet(s, i, amount) ==
  LET actual == Lesser(s.stack[i], amount)
  IN  [s EXCEPT !.stack[i]       = @ - actual,
                !.bet[i]         = @ + actual,
                !.contributed[i] = @ + actual,
                !.pot            = @ + actual,
                !.allIn = IF s.stack[i] - actual <= 0 THEN @ \union {i} ELSE @]

\* the antes of all unfolded players at once: the seats do not interfere, and
\* the bet the ante left behind is zeroed
payAnte(s, ante) ==
  LET paid == [i \in Seats |->
                 IF i \in InHand(s) THEN Lesser(s.stack[i], ante) ELSE 0]
  IN  [s EXCEPT
         !.stack       = [i \in Seats |-> s.stack[i] - paid[i]],
         !.contributed = [i \in Seats |-> s.contributed[i] + paid[i]],
         !.bet         = [i \in Seats |->
                            IF i \in InHand(s) THEN 0 ELSE s.bet[i]],
         !.pot         = @ + Total(paid, N),
         !.allIn       = @ \union {i \in InHand(s) : s.stack[i] <= ante}]

payBlind(s, sb, bb, amount) ==
  executeBet(executeBet(s, sb, amount), bb, 2 * amount)

-----------------------------------------------------------------------------
(* Side pots: one layer per distinct contribution of an unfolded player.   *)

Contributors(s) == {i \in s.seated : s.contributed[i] > 0}
Contenders(s)   == Contributors(s) \ s.folded
Levels(s)       == {s.contributed[i] : i \in Contenders(s)}

IsTopLevel(s, level) == \A other \in Levels(s) : other <= level

\* the layer below, 0 under the lowest
LevelBelow(s, level) ==
  LET lower == {l \in Levels(s) : l < level}
  IN  IF lower = {} THEN 0 ELSE CHOOSE l \in lower : \A m \in lower : m <= l

\* the top layer takes whatever folded players put in above it
PotAmount(s, level) ==
  Total([i \in Seats |->
           IF i \in Contributors(s)
           THEN LET capped == IF IsTopLevel(s, level) THEN s.contributed[i]
                              ELSE Lesser(s.contributed[i], level)
                IN  Greater(0, capped - LevelBelow(s, level))
           ELSE 0], N)

\* mutant: folded contributors stay eligible
PotEligibleFolded(s, level) == {i \in Contributors(s) : s.contributed[i] >= level}

PotEligible(s, level) == {i \in Contenders(s) : s.contributed[i] >= level}

calculateSidePots(s) ==
  [s EXCEPT !.sidePots = {[amount   |-> PotAmount(s, level),
                           eligible |-> PotEligible(s, level)]
                            : level \in Levels(s)}]

-----------------------------------------------------------------------------
(* When the betting is over.                                               *)

shouldGoToShowdown(s) ==
  LET notAllIn == InHand(s) \ s.allIn
  IN  \/ AtMostOne(InHand(s))
      \/ /\ AtMostOne(notAllIn)
         /\ \A i \in notAllIn : s.bet[i] = s.currentBet

IsAllMatched(s)     == \A i \in InHand(s) : s.bet[i] = s.currentBet \/ i \in s.allIn
HasEveryoneActed(s) == InHand(s) \ s.allIn \subseteq s.checked

\* mutant: matched bets are enough
matchedOnly(s, nextTurn) == IsAllMatched(s)

shouldGoToNextPhase(s, nextTurn) ==
  IsAllMatched(s) /\ (HasEveryoneActed(s) \/ nextTurn = NoTurn)

PhaseAfter(phase) ==
  CASE phase = "PRE_FLOP" -> "FLOP"
    [] phase = "FLOP"     -> "TURN"
    [] phase = "TURN"     -> "RIVER"
    [] OTHER              -> "SHOWDOWN"

ToShowdown(s) ==
  [calculateSidePots(s) EXCEPT !.phase = "SHOWDOWN", !.turn = NoTurn]

\* bets are zeroed after the side pots were computed, so findNextActiveSeat
\* sees the seats as the last action left them
nextPhase(s) ==
  LET after == PhaseAfter(s.phase)
  IN  [calculateSidePots(s) EXCEPT
         !.phase      = after,
         !.bet        = [i \in Seats |-> 0],
         !.checked    = {},
         !.currentBet = 0,
         !.lastRaise  = 2 * s.smallBlind,
         !.turn       = IF after = "SHOWDOWN" THEN NoTurn
                        ELSE findNextActiveSeat(s, SeatAfter(s.button))]

-----------------------------------------------------------------------------
(* One action of one player.                                               *)

handleCall(s, i) ==
  [executeBet(s, i, s.currentBet - s.bet[i]) EXCEPT !.checked = @ \union {i}]

\* a raise to `amount'; FALSE where handleRaise throws
CanRaise(s, i, amount) ==
  /\ amount > 0
  /\ i \notin s.checked
  /\ amount > s.currentBet
  /\ amount - s.bet[i] > 0
  /\ \/ amount - s.bet[i] >= s.stack[i]
     \/ amount - s.currentBet >= minRaiseSize(s)

\* mutant: every raise reopens the betting
handleRaiseReopens(s, i, amount) ==
  LET paid == executeBet(s, i, Lesser(amount - s.bet[i], s.stack[i]))
  IN  IF paid.bet[i] <= s.currentBet
      THEN [paid EXCEPT !.checked = @ \union {i}]
      ELSE [paid EXCEPT !.currentBet = paid.bet[i],
                        !.lastRaise  = paid.bet[i] - s.currentBet,
                        !.checked    = (@ \ (InHand(paid) \ paid.allIn)) \union {i}]

\* an all-in below the minimum raise lifts the bet but reopens nothing
handleRaise(s, i, amount) ==
  LET paid      == executeBet(s, i, Lesser(amount - s.bet[i], s.stack[i]))
      raiseSize == paid.bet[i] - s.currentBet
      full      == raiseSize >= minRaiseSize(s)
  IN  IF raiseSize <= 0
      THEN [paid EXCEPT !.checked = @ \union {i}]
      ELSE [paid EXCEPT
              !.currentBet = paid.bet[i],
              !.lastRaise  = IF full THEN raiseSize ELSE @,
              !.checked    = (IF full THEN @ \ (InHand(paid) \ paid.allIn) ELSE @)
                             \union {i}]

\* mutant: the clock checks for a player who faces a bet
timeOutChecks(s, i) == IF i \in s.allIn THEN s ELSE [s EXCEPT !.checked = @ \union {i}]

\* the clock's own action: fold when facing a bet, check otherwise
timeOut(s, i) ==
  IF i \in s.allIn THEN s
  ELSE IF s.bet[i] < s.currentBet THEN [s EXCEPT !.folded = @ \union {i}]
  ELSE [s EXCEPT !.checked = @ \union {i}]

DealerActions == {"DEALER_FOLD", "DEALER_KICK"}
PlayerActions == {"FOLD", "TIME_OUT", "CHECK", "CALL", "RAISE"}

\* act() neither throws nor returns false
CanDo(s, i, action, amount) ==
  /\ i \in s.seated
  /\ s.phase \in Betting
  /\ action \notin DealerActions => s.turn = i
  /\ action \notin DealerActions /\ i \notin s.folded =>
       /\ action = "CHECK" => s.bet[i] >= s.currentBet
       /\ action = "RAISE" => CanRaise(s, i, amount)

applyAction(s, i, action, amount) ==
  IF action \in DealerActions THEN [s EXCEPT !.folded = @ \union {i}]
  ELSE IF i \in s.folded THEN s
  ELSE CASE action = "FOLD"     -> [s EXCEPT !.folded = @ \union {i}]
         [] action = "TIME_OUT" -> timeOut(s, i)
         [] action = "CHECK"    -> [s EXCEPT !.checked = @ \union {i}]
         [] action = "CALL"     -> handleCall(s, i)
         [] OTHER               -> handleRaise(s, i, amount)

\* what follows every applied action; i is the seat that acted
advance(s, i) ==
  LET nextTurn == IF s.turn = i THEN findNextActiveSeat(s, SeatAfter(i)) ELSE s.turn
  IN  IF shouldGoToShowdown(s) THEN ToShowdown(s)
      ELSE IF shouldGoToNextPhase(s, nextTurn) THEN nextPhase(s)
      ELSE [s EXCEPT !.turn = nextTurn]

act(s, i, action, amount) == advance(applyAction(s, i, action, amount), i)

-----------------------------------------------------------------------------
(* The start of a hand.                                                    *)

CanStart(s) == ~ AtMostOne({i \in InHand(s) : s.stack[i] > 0})

startPreFlop(s, ante) ==
  LET button  == findNextActiveSeat(s, SeatAfter(s.button))
      headsUp == \E i, j \in InHand(s) :
                   {k \in InHand(s) : s.stack[k] > 0} = {i, j}
      sb      == IF headsUp THEN button ELSE findNextActiveSeat(s, SeatAfter(button))
      bb      == findNextActiveSeat(s, SeatAfter(sb))
      anted   == IF ante > 0 THEN payAnte(s, ante) ELSE s
      posted  == payBlind(anted, sb, bb, s.smallBlind)
      opened  == [posted EXCEPT
                    !.button     = button,
                    !.currentBet = 2 * s.smallBlind,
                    !.lastRaise  = 2 * s.smallBlind,
                    !.turn       = findNextActiveSeat(posted, SeatAfter(bb)),
                    !.phase      = "PRE_FLOP"]
  IN  IF shouldGoToShowdown(opened) THEN ToShowdown(opened) ELSE opened

-----------------------------------------------------------------------------
(* The end of a hand.                                                      *)

\* what the biggest contributor put in above everybody else
Uncalled(s, i) ==
  LET others == {s.contributed[j] : j \in Contributors(s) \ {i}} \union {0}
  IN  IF i \in Contributors(s) /\ \A c \in others : c < s.contributed[i]
      THEN s.contributed[i] - (CHOOSE c \in others : \A d \in others : d <= c)
      ELSE 0

\* mutant: a folded player's uncalled chips stay in the pot
refundUnfolded(s) ==
  LET refund == [i \in Seats |-> IF i \in s.folded THEN 0 ELSE Uncalled(s, i)]
  IN  [s EXCEPT !.stack       = [i \in Seats |-> s.stack[i] + refund[i]],
                !.contributed = [i \in Seats |-> s.contributed[i] - refund[i]],
                !.pot         = @ - Total(refund, N)]

refundUncalledBets(s) ==
  LET refund == [i \in Seats |-> Uncalled(s, i)]
  IN  [s EXCEPT !.stack       = [i \in Seats |-> s.stack[i] + refund[i]],
                !.contributed = [i \in Seats |-> s.contributed[i] - refund[i]],
                !.pot         = @ - Total(refund, N)]

\* rank[i] is the tier the dealer put i in, 0 when not named: the first tier
\* with somebody eligible takes the pot
PotWinners(rank, eligible) ==
  {i \in eligible : /\ rank[i] > 0
                    /\ \A j \in eligible : rank[j] > 0 => rank[i] <= rank[j]}

\* how many of the winners sit between the button and i: the odd chips go
\* clockwise from the button's left
OddChipOrder(s, winners, i) ==
  LET first == SeatAfter(s.button)
  IN  Total([j \in Seats |->
               IF j \in winners /\ Clockwise(first, j) < Clockwise(first, i)
               THEN 1 ELSE 0], N)

\* mutant: the odd chips are dropped
splitPotFloor(s, amount, winners, i) ==
  IF i \notin winners THEN 0
  ELSE amount \div Total([j \in Seats |-> IF j \in winners THEN 1 ELSE 0], N)

splitPot(s, amount, winners, i) ==
  LET count == Total([j \in Seats |-> IF j \in winners THEN 1 ELSE 0], N)
  IN  IF i \notin winners THEN 0
      ELSE amount \div count
           + (IF OddChipOrder(s, winners, i) < amount % count THEN 1 ELSE 0)

\* one seat stands for each layer, the first one that reaches it exactly
LevelSeats(s) ==
  {i \in Contenders(s) :
     \A j \in Contenders(s) : s.contributed[j] = s.contributed[i] => i <= j}

Winnings(s, rank, i) ==
  Total([k \in Seats |->
           IF k \in LevelSeats(s)
           THEN LET level == s.contributed[k]
                IN  splitPot(s, PotAmount(s, level),
                             PotWinners(rank, PotEligible(s, level)), i)
           ELSE 0], N)

\* resolveWinner throws unless every pot has a winner
CanResolve(s, rank) ==
  LET refunded == refundUncalledBets(s)
  IN  /\ s.phase = "SHOWDOWN"
      /\ \A level \in Levels(refunded) :
           PotWinners(rank, PotEligible(refunded, level)) # {}

resolveWinner(s, rank) ==
  LET refunded == refundUncalledBets(s)
  IN  [refunded EXCEPT
         !.stack    = [i \in Seats |-> @[i] + Winnings(refunded, rank, i)],
         !.pot      = 0,
         !.sidePots = {},
         !.phase    = "HAND_END",
         !.folded   = {},
         !.checked  = {},
         !.allIn    = {}]

applyRebuy(s, i, amount) ==
  [s EXCEPT !.stack[i] = @ + amount,
            !.bet[i]   = 0,
            !.folded   = @ \ {i},
            !.allIn    = @ \ {i}]

\* mutant: the contributions of the last hand stay
initTableKeepsContributions(s) ==
  [s EXCEPT !.seated = {i \in @ : s.stack[i] > 0}, !.bet = [i \in Seats |-> 0],
            !.folded = {}, !.checked = {}, !.allIn = {}, !.pot = 0,
            !.currentBet = 0, !.lastRaise = 0, !.sidePots = {}, !.phase = "WAITING"]

\* seats without chips are emptied, the others start clean; the turn and the
\* button stay as they are
initTable(s) ==
  [s EXCEPT !.seated      = {i \in @ : s.stack[i] > 0},
            !.bet         = [i \in Seats |-> 0],
            !.contributed = [i \in Seats |-> 0],
            !.folded      = {},
            !.checked     = {},
            !.allIn       = {},
            !.pot         = 0,
            !.currentBet  = 0,
            !.lastRaise   = 0,
            !.sidePots    = {},
            !.phase       = "WAITING"]
=============================================================================
