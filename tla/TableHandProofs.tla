-------------------------- MODULE TableHandProofs --------------------------
(***************************************************************************)
(* TableHand for every number of seats, every set of blind levels and      *)
(* every stack: the snapshot keeps its type, the pot is what the players   *)
(* put in, the turn is always with somebody who owes an action, no step    *)
(* creates or loses a chip, and a showdown can always be resolved.         *)
(*                                                                         *)
(* IInv is inductive.  Its heart is OwingFirst: clockwise from the player  *)
(* on turn, everybody who still owes something comes before everybody who  *)
(* does not.  An action settles the player on turn and advance() moves on  *)
(* clockwise, so the first seat it finds owes something or nobody does,    *)
(* and then the round closes.                                              *)
(*                                                                         *)
(* The first part is about the operators of TableEngine: each maps table   *)
(* states to table states, and the seat findNextActiveSeat returns is the  *)
(* first one clockwise that can act.  The last part follows the chips      *)
(* through a showdown (the layers of the side pots are the contributions,  *)
(* and a pot's shares, odd chips included, are the pot) and proves the     *)
(* action properties.                                                      *)
(***************************************************************************)
EXTENDS TableHand, ChipSumsProofs

\* A bounded non-empty set of naturals has a greatest element.
LEMMA GreatestNumber ==
  ASSUME NEW T, T \subseteq Nat, T # {}, NEW b \in Nat, \A k \in T : k <= b
  PROVE  \E m \in T : \A k \in T : k <= m
<1> DEFINE D == {b - k : k \in T}
<1>1. D \subseteq Nat /\ D # {}
  <2>1. \A k \in T : b - k \in Nat
    OBVIOUS
  <2>2. PICK k \in T : TRUE
    OBVIOUS
  <2>3. b - k \in D
    OBVIOUS
  <2>. QED
    BY <2>1, <2>3
<1>2. PICK d \in D : \A e \in D : ~ (e < d)
  BY <1>1, LeastNumber
<1>3. PICK m \in T : d = b - m
  OBVIOUS
<1>4. ASSUME NEW k \in T
      PROVE  k <= m
  <2>1. b - k \in D
    OBVIOUS
  <2>2. ~ (b - k < b - m)
    BY <2>1, <1>2, <1>3
  <2>3. k \in Nat /\ m \in Nat
    OBVIOUS
  <2>. HIDE DEF D
  <2>. QED
    BY <2>2, <2>3
<1>. QED
  BY <1>4

-----------------------------------------------------------------------------
(* Seats around the table.                                                 *)

LEMMA SeatAfterType ==
  ASSUME NEW i \in Seats
  PROVE  SeatAfter(i) \in Seats
BY SeatsAssumption DEF SeatAfter, Seats

LEMMA ClockwiseRange ==
  ASSUME NEW i \in Seats, NEW j \in Seats
  PROVE  Clockwise(i, j) \in 0 .. N - 1
BY SeatsAssumption DEF Clockwise, Seats

\* Every non-empty set of seats has a first one clockwise from any seat.
LEMMA FirstClockwise ==
  ASSUME NEW S, S \subseteq Seats, S # {}, NEW start \in Seats
  PROVE  \E i \in S : \A j \in S : Clockwise(start, i) <= Clockwise(start, j)
<1> DEFINE D == {Clockwise(start, i) : i \in S}
<1>1. D \subseteq Nat /\ D # {}
  BY ClockwiseRange
<1>2. PICK d \in D : \A e \in D : ~ (e < d)
  BY <1>1, LeastNumber
<1>3. PICK i \in S : d = Clockwise(start, i)
  OBVIOUS
<1>4. ASSUME NEW j \in S
      PROVE  Clockwise(start, i) <= Clockwise(start, j)
  <2>1. Clockwise(start, j) \in D
    OBVIOUS
  <2>2. ~ (Clockwise(start, j) < Clockwise(start, i))
    BY <1>2, <1>3, <2>1
  <2>3. Clockwise(start, i) \in Int /\ Clockwise(start, j) \in Int
    BY ClockwiseRange
  <2>. QED
    BY <2>2, <2>3
<1>. QED
  BY <1>4

\* findNextActiveSeat: -1 when nobody can act, otherwise the first who can.
LEMMA NextActiveSeat ==
  ASSUME NEW s \in TableState, NEW start \in Seats
  PROVE  LET next == findNextActiveSeat(s, start)
         IN  /\ CanAct(s) = {} => next = NoTurn
             /\ CanAct(s) # {} =>
                  /\ next \in CanAct(s)
                  /\ \A j \in CanAct(s) : Clockwise(start, next) <= Clockwise(start, j)
             /\ next \in Seats \union {NoTurn}
<1>1. CanAct(s) \subseteq Seats
  BY DEF CanAct, InHand, TableState
<1>2. CASE CanAct(s) = {}
  BY <1>2 DEF findNextActiveSeat
<1>3. CASE CanAct(s) # {}
  <2>1. \E i \in CanAct(s) :
          \A j \in CanAct(s) : Clockwise(start, i) <= Clockwise(start, j)
    BY <1>1, <1>3, FirstClockwise
  <2> DEFINE next == CHOOSE i \in CanAct(s) :
               \A j \in CanAct(s) : Clockwise(start, i) <= Clockwise(start, j)
  <2>2. /\ next \in CanAct(s)
        /\ \A j \in CanAct(s) : Clockwise(start, next) <= Clockwise(start, j)
    BY <2>1
  <2>3. findNextActiveSeat(s, start) = next
    BY <1>3 DEF findNextActiveSeat
  <2> HIDE DEF next
  <2>. QED
    BY <1>1, <1>3, <2>2, <2>3
<1>. QED
  BY <1>2, <1>3

-----------------------------------------------------------------------------
(* Chips into the pot.                                                     *)

\* Fields neither bets nor antes touch.
OnlyChipsMoved(s, t) ==
  /\ t.phase = s.phase /\ t.seated = s.seated /\ t.folded = s.folded
  /\ t.checked = s.checked /\ t.button = s.button /\ t.turn = s.turn
  /\ t.sidePots = s.sidePots /\ t.currentBet = s.currentBet
  /\ t.lastRaise = s.lastRaise /\ t.smallBlind = s.smallBlind

\* What a bet of `actual' chips does to every field.
BetEffect(s, t, i, actual) ==
  /\ actual \in Nat /\ actual <= s.stack[i]
  /\ \A j \in Seats :
       /\ t.stack[j] = IF j = i THEN s.stack[i] - actual ELSE s.stack[j]
       /\ t.bet[j] = IF j = i THEN s.bet[i] + actual ELSE s.bet[j]
       /\ t.contributed[j] = IF j = i THEN s.contributed[i] + actual
                             ELSE s.contributed[j]
  /\ t.pot = s.pot + actual
  /\ t.allIn = IF s.stack[i] = actual THEN s.allIn \union {i} ELSE s.allIn
  /\ OnlyChipsMoved(s, t)

LEMMA ExecuteBetEffect ==
  ASSUME NEW s \in TableState, NEW i \in Seats, NEW amount \in Nat
  PROVE  /\ executeBet(s, i, amount) \in TableState
         /\ BetEffect(s, executeBet(s, i, amount), i, Lesser(s.stack[i], amount))
<1> DEFINE actual == Lesser(s.stack[i], amount)
           stack       == [s.stack EXCEPT ![i] = @ - actual]
           bet         == [s.bet EXCEPT ![i] = @ + actual]
           contributed == [s.contributed EXCEPT ![i] = @ + actual]
           pot         == s.pot + actual
           allIn       == IF s.stack[i] - actual <= 0 THEN s.allIn \union {i} ELSE s.allIn
           t           == executeBet(s, i, amount)
<1>1. actual \in Nat /\ s.stack[i] - actual \in Nat /\ actual <= s.stack[i]
  BY DEF Lesser, TableState
<1>2. /\ stack \in [Seats -> Nat]
      /\ bet \in [Seats -> Nat]
      /\ contributed \in [Seats -> Nat]
      /\ pot \in Nat
      /\ allIn \in SUBSET Seats
  BY <1>1 DEF TableState
<1>3. t = [s EXCEPT !.stack = stack, !.bet = bet, !.contributed = contributed,
                    !.pot = pot, !.allIn = allIn]
  BY DEF executeBet
<1>4. /\ t.stack = stack /\ t.bet = bet /\ t.contributed = contributed
      /\ t.pot = pot /\ t.allIn = allIn
  <2> HIDE DEF stack, bet, contributed, pot, allIn, actual, t
  <2>. QED
    BY <1>3 DEF TableState
<1>5. /\ t \in TableState
      /\ OnlyChipsMoved(s, t)
  <2> HIDE DEF stack, bet, contributed, pot, allIn, actual, t
  <2>. QED
    BY <1>2, <1>3 DEF TableState, OnlyChipsMoved
<1>6. \A j \in Seats :
        /\ stack[j] = IF j = i THEN s.stack[i] - actual ELSE s.stack[j]
        /\ bet[j] = IF j = i THEN s.bet[i] + actual ELSE s.bet[j]
        /\ contributed[j] = IF j = i THEN s.contributed[i] + actual ELSE s.contributed[j]
  BY <1>1 DEF TableState
<1>7. allIn = IF s.stack[i] = actual THEN s.allIn \union {i} ELSE s.allIn
  BY <1>1 DEF TableState
<1> HIDE DEF stack, bet, contributed, allIn, actual, t
<1>8. /\ actual \in Nat /\ actual <= s.stack[i]
      /\ \A j \in Seats :
           /\ t.stack[j] = IF j = i THEN s.stack[i] - actual ELSE s.stack[j]
           /\ t.bet[j] = IF j = i THEN s.bet[i] + actual ELSE s.bet[j]
           /\ t.contributed[j] = IF j = i THEN s.contributed[i] + actual
                                 ELSE s.contributed[j]
      /\ t.pot = s.pot + actual
      /\ t.allIn = IF s.stack[i] = actual THEN s.allIn \union {i} ELSE s.allIn
  BY <1>1, <1>4, <1>6, <1>7
<1>. QED
  BY <1>5, <1>8 DEF actual, t, BetEffect

\* What antes do to every field; paid[i] is what seat i puts in.
AnteEffect(s, t, ante, paid) ==
  /\ \A i \in Seats :
       /\ paid[i] = IF i \in InHand(s) THEN Lesser(s.stack[i], ante) ELSE 0
       /\ paid[i] \in Nat /\ paid[i] <= s.stack[i]
       /\ t.stack[i] = s.stack[i] - paid[i]
       /\ t.contributed[i] = s.contributed[i] + paid[i]
       /\ t.bet[i] = IF i \in InHand(s) THEN 0 ELSE s.bet[i]
  /\ t.pot = s.pot + Total(paid, N)
  /\ t.allIn = s.allIn \union {i \in InHand(s) : s.stack[i] <= ante}
  /\ OnlyChipsMoved(s, t)

LEMMA PayAnteEffect ==
  ASSUME NEW s \in TableState, NEW ante \in Nat
  PROVE  /\ payAnte(s, ante) \in TableState
         /\ \E paid \in [Seats -> Nat] : AnteEffect(s, payAnte(s, ante), ante, paid)
<1> DEFINE paid(i) == IF i \in InHand(s) THEN Lesser(s.stack[i], ante) ELSE 0
           paids       == [i \in Seats |-> paid(i)]
           stack       == [i \in Seats |-> s.stack[i] - paids[i]]
           contributed == [i \in Seats |-> s.contributed[i] + paids[i]]
           bet         == [i \in Seats |-> IF i \in InHand(s) THEN 0 ELSE s.bet[i]]
           pot         == s.pot + Total(paids, N)
           allIn       == s.allIn \union {i \in InHand(s) : s.stack[i] <= ante}
           t           == payAnte(s, ante)
<1>1. \A i \in Seats : paid(i) \in Nat /\ paid(i) <= s.stack[i] /\ paids[i] = paid(i)
  BY DEF Lesser, TableState
<1>2. Total(paids, N) \in Nat
  BY <1>1, TotalNat, SeatsAssumption DEF Seats
<1>3. /\ stack \in [Seats -> Nat]
      /\ contributed \in [Seats -> Nat]
      /\ bet \in [Seats -> Nat]
  BY <1>1 DEF TableState
<1>4. pot \in Nat /\ allIn \in SUBSET Seats
  BY <1>2 DEF InHand, TableState
<1>5. t = [s EXCEPT !.stack = stack, !.contributed = contributed, !.bet = bet,
                    !.pot = pot, !.allIn = allIn]
  BY DEF payAnte
<1>6. \A i \in Seats : /\ stack[i] = s.stack[i] - paid(i)
                        /\ contributed[i] = s.contributed[i] + paid(i)
                        /\ bet[i] = IF i \in InHand(s) THEN 0 ELSE s.bet[i]
  BY <1>1
<1>7. /\ t.stack = stack /\ t.bet = bet /\ t.contributed = contributed
      /\ t.pot = pot /\ t.allIn = allIn
  <2> HIDE DEF paids, stack, contributed, bet, pot, allIn, t
  <2>. QED
    BY <1>5 DEF TableState
<1>8. /\ t \in TableState
      /\ OnlyChipsMoved(s, t)
  <2> HIDE DEF paids, stack, contributed, bet, pot, allIn, t
  <2>. QED
    BY <1>3, <1>4, <1>5 DEF TableState, OnlyChipsMoved
<1> HIDE DEF stack, bet, contributed, allIn, t
<1>9. \A i \in Seats : /\ t.stack[i] = s.stack[i] - paids[i]
                        /\ t.contributed[i] = s.contributed[i] + paids[i]
                        /\ t.bet[i] = IF i \in InHand(s) THEN 0 ELSE s.bet[i]
  BY <1>1, <1>6, <1>7
<1>10. t.allIn = s.allIn \union {i \in InHand(s) : s.stack[i] <= ante}
  BY <1>7 DEF allIn
<1>11. t.pot = s.pot + Total(paids, N)
  BY <1>7
<1>12. paids \in [Seats -> Nat]
  BY <1>1
<1>13. \A i \in Seats : /\ paids[i] = paid(i)
                         /\ paids[i] \in Nat /\ paids[i] <= s.stack[i]
  BY <1>1
<1> HIDE DEF paids
<1>14. AnteEffect(s, t, ante, paids)
  BY <1>8, <1>9, <1>10, <1>11, <1>13 DEF AnteEffect
<1>. QED
  BY <1>8, <1>12, <1>14 DEF t

-----------------------------------------------------------------------------
(* Side pots.                                                              *)

LEMMA LevelsAreChips ==
  ASSUME NEW s \in TableState
  PROVE  Levels(s) \subseteq Nat
BY DEF Levels, Contenders, Contributors, TableState

LEMMA LevelBelowType ==
  ASSUME NEW s \in TableState, NEW level \in Nat
  PROVE  /\ LevelBelow(s, level) \in Nat
         /\ LevelBelow(s, level) \in Levels(s) \union {0}
         /\ LevelBelow(s, level) <= level
         /\ \A m \in Levels(s) : m < level => m <= LevelBelow(s, level)
<1> DEFINE lower == {l \in Levels(s) : l < level}
<1>1. lower \subseteq Nat /\ \A k \in lower : k <= level
  BY LevelsAreChips
<1>2. CASE lower = {}
  <2>1. LevelBelow(s, level) = 0
    BY <1>2 DEF LevelBelow
  <2>. QED
    BY <1>2, <2>1
<1>3. CASE lower # {}
  <2> DEFINE top == CHOOSE l \in lower : \A m \in lower : m <= l
  <2>1. \E l \in lower : \A m \in lower : m <= l
    BY <1>1, <1>3, GreatestNumber
  <2>2. top \in lower /\ \A m \in lower : m <= top
    BY <2>1
  <2>3. LevelBelow(s, level) = top
    BY <1>3 DEF LevelBelow
  <2> HIDE DEF top
  <2>. QED
    BY <1>1, <2>2, <2>3
<1>. QED
  BY <1>2, <1>3

LEMMA PotAmountType ==
  ASSUME NEW s \in TableState, NEW level \in Nat
  PROVE  PotAmount(s, level) \in Nat
<1> DEFINE share(i) ==
       IF i \in Contributors(s)
       THEN LET capped == IF IsTopLevel(s, level) THEN s.contributed[i]
                          ELSE Lesser(s.contributed[i], level)
            IN  Greater(0, capped - LevelBelow(s, level))
       ELSE 0
       shares == [i \in Seats |-> share(i)]
<1>1. ASSUME NEW i \in Seats
      PROVE  share(i) \in Nat
  BY LevelBelowType DEF Lesser, Greater, TableState
<1>2. PotAmount(s, level) = Total(shares, N)
  BY DEF PotAmount
<1>3. \A i \in 0 .. N - 1 : shares[i] \in Nat
  BY <1>1 DEF Seats
<1> HIDE DEF shares
<1>. QED
  BY <1>2, <1>3, TotalNat, SeatsAssumption

LEMMA CalculateSidePotsType ==
  ASSUME NEW s \in TableState
  PROVE  calculateSidePots(s) \in TableState
<1> DEFINE pots == {[amount |-> PotAmount(s, level), eligible |-> PotEligible(s, level)]
                      : level \in Levels(s)}
<1>1. ASSUME NEW level \in Levels(s)
      PROVE  [amount |-> PotAmount(s, level), eligible |-> PotEligible(s, level)] \in SidePot
  <2>1. PotEligible(s, level) \in SUBSET Seats
    BY DEF PotEligible, Contenders, Contributors, TableState
  <2>2. PotAmount(s, level) \in Nat
    BY LevelsAreChips, PotAmountType
  <2>. QED
    BY <2>1, <2>2 DEF SidePot
<1>2. pots \in SUBSET SidePot
  BY <1>1
<1>3. calculateSidePots(s) = [s EXCEPT !.sidePots = pots]
  BY DEF calculateSidePots
<1> HIDE DEF pots
<1>. QED
  BY <1>2, <1>3 DEF TableState

-----------------------------------------------------------------------------
(* The end of a hand.                                                      *)

\* Nobody is refunded more than it put in.
LEMMA UncalledRange ==
  ASSUME NEW s \in TableState, NEW i \in Seats
  PROVE  /\ Uncalled(s, i) \in Nat
         /\ Uncalled(s, i) <= s.contributed[i]
         /\ i \notin s.seated => Uncalled(s, i) = 0
<1> DEFINE others == {s.contributed[j] : j \in Contributors(s) \ {i}} \union {0}
           biggest == i \in Contributors(s) /\ \A c \in others : c < s.contributed[i]
           second == CHOOSE c \in others : \A d \in others : d <= c
<1>1. s.contributed[i] \in Nat /\ s.seated \subseteq Seats
      /\ \A j \in Seats : s.contributed[j] \in Nat
  BY DEF TableState
<1>2. CASE biggest
  <2>1. others \subseteq Nat /\ others # {} /\ \A c \in others : c <= s.contributed[i]
    BY <1>1, <1>2 DEF Contributors
  <2>2. \E c \in others : \A d \in others : d <= c
    BY <1>1, <2>1, GreatestNumber
  <2>3. second \in others
    BY <2>2
  <2>4. Uncalled(s, i) = s.contributed[i] - second
    BY <1>2 DEF Uncalled
  <2> HIDE DEF second, others
  <2>5. second \in Nat /\ second <= s.contributed[i]
    BY <2>1, <2>3
  <2>. QED
    BY <1>1, <1>2, <2>4, <2>5 DEF Contributors
<1>3. CASE ~ biggest
  <2>1. Uncalled(s, i) = 0
    BY <1>3 DEF Uncalled
  <2>. QED
    BY <1>1, <2>1
<1>. QED
  BY <1>2, <1>3

\* What the refund does to every field.
RefundEffect(s, t, refund) ==
  /\ \A i \in Seats : /\ refund[i] = Uncalled(s, i)
                       /\ refund[i] \in Nat /\ refund[i] <= s.contributed[i]
                       /\ t.stack[i] = s.stack[i] + refund[i]
                       /\ t.contributed[i] = s.contributed[i] - refund[i]
                       /\ t.bet[i] = s.bet[i]
  /\ t.pot = s.pot - Total(refund, N)
  /\ t.allIn = s.allIn
  /\ OnlyChipsMoved(s, t)

LEMMA RefundLemma ==
  ASSUME NEW s \in TableState, s.pot = Total(s.contributed, N)
  PROVE  /\ refundUncalledBets(s) \in TableState
         /\ \E refund \in [Seats -> Nat] : RefundEffect(s, refundUncalledBets(s), refund)
         /\ refundUncalledBets(s).pot = Total(refundUncalledBets(s).contributed, N)
<1> DEFINE refund == [i \in Seats |-> Uncalled(s, i)]
           stack  == [i \in Seats |-> s.stack[i] + refund[i]]
           contributed == [i \in Seats |-> s.contributed[i] - refund[i]]
           pot    == s.pot - Total(refund, N)
           t      == refundUncalledBets(s)
<1>1. \A i \in Seats : /\ refund[i] = Uncalled(s, i)
                        /\ refund[i] \in Nat /\ refund[i] <= s.contributed[i]
  BY UncalledRange
<1>2. refund \in [Seats -> Nat]
  BY <1>1
<1>3. t = [s EXCEPT !.stack = stack, !.contributed = contributed, !.pot = pot]
  BY DEF refundUncalledBets
<1> HIDE DEF refund
<1>4. /\ \A i \in Seats : s.stack[i] \in Nat /\ s.contributed[i] \in Nat
      /\ N \in Nat
  BY SeatsAssumption DEF TableState
<1>5. /\ \A i \in Seats : stack[i] = s.stack[i] + refund[i]
      /\ \A i \in Seats : contributed[i] = s.contributed[i] - refund[i]
      /\ stack \in [Seats -> Nat] /\ contributed \in [Seats -> Nat]
  BY <1>1, <1>4
<1> HIDE DEF stack, contributed
<1>6. pot = Total(contributed, N) /\ pot \in Nat
  <2>1. \A i \in 0 .. N - 1 : contributed[i] \in Int /\ refund[i] \in Int
                              /\ s.contributed[i] = contributed[i] + refund[i]
    BY <1>1, <1>4, <1>5 DEF Seats
  <2>2. Total(s.contributed, N) = Total(contributed, N) + Total(refund, N)
    BY <1>4, <2>1, TotalPlus
  <2>3. Total(contributed, N) \in Nat /\ Total(refund, N) \in Nat
    BY <1>1, <1>4, <1>5, TotalNat DEF Seats
  <2>. QED
    BY <2>2, <2>3
<1> HIDE DEF pot, t
<1>7. /\ t \in TableState
      /\ t.stack = stack /\ t.contributed = contributed /\ t.pot = pot
      /\ t.bet = s.bet /\ t.allIn = s.allIn
      /\ OnlyChipsMoved(s, t)
  BY <1>3, <1>5, <1>6 DEF TableState, OnlyChipsMoved
<1>8. RefundEffect(s, t, refund)
  BY <1>1, <1>5, <1>7 DEF RefundEffect, pot
<1>. QED
  BY <1>2, <1>6, <1>7, <1>8 DEF t

\* The shares of a pot are natural numbers, and only winners have one.
LEMMA SplitPotType ==
  ASSUME NEW s \in TableState, NEW amount \in Nat, NEW winners \in SUBSET Seats,
         NEW i \in Seats
  PROVE  /\ splitPot(s, amount, winners, i) \in Nat
         /\ i \notin winners => splitPot(s, amount, winners, i) = 0
<1> DEFINE one   == [j \in Seats |-> IF j \in winners THEN 1 ELSE 0]
           count == Total(one, N)
           odd   == IF OddChipOrder(s, winners, i) < amount % count THEN 1 ELSE 0
<1>1. CASE i \notin winners
  BY <1>1 DEF splitPot
<1>2. CASE i \in winners
  <2>1. /\ \A j \in 0 .. N - 1 : one[j] \in Nat
        /\ i \in 0 .. N - 1 /\ one[i] = 1 /\ N \in Nat
    BY <1>2, SeatsAssumption DEF Seats
  <2> HIDE DEF one
  <2>2. count \in Nat /\ count >= 1
    BY <2>1, TotalNat, TotalMember
  <2>3. amount \div count \in Nat
    BY <2>2, Division
  <2>4. splitPot(s, amount, winners, i) = (amount \div count) + odd
    BY <1>2 DEF splitPot, one
  <2>5. odd \in {0, 1}
    OBVIOUS
  <2> HIDE DEF count, odd
  <2>. QED
    BY <1>2, <2>3, <2>4, <2>5
<1>. QED
  BY <1>1, <1>2

\* So are a seat's winnings; an empty seat has none.
LEMMA WinningsType ==
  ASSUME NEW s \in TableState, NEW rank, NEW i \in Seats
  PROVE  /\ Winnings(s, rank, i) \in Nat
         /\ i \notin s.seated => Winnings(s, rank, i) = 0
<1> DEFINE share(k) == splitPot(s, PotAmount(s, s.contributed[k]),
                                PotWinners(rank, PotEligible(s, s.contributed[k])), i)
           shares == [k \in Seats |-> IF k \in LevelSeats(s) THEN share(k) ELSE 0]
<1>1. ASSUME NEW k \in Seats
      PROVE  share(k) \in Nat /\ (i \notin s.seated => share(k) = 0)
  <2>1. s.contributed[k] \in Nat
    BY DEF TableState
  <2>2. PotAmount(s, s.contributed[k]) \in Nat
    BY <2>1, PotAmountType
  <2>3. PotWinners(rank, PotEligible(s, s.contributed[k])) \in SUBSET s.seated
    BY DEF PotWinners, PotEligible, Contenders, Contributors
  <2>4. s.seated \subseteq Seats
    BY DEF TableState
  <2>. QED
    BY <2>2, <2>3, <2>4, SplitPotType
<1>2. Winnings(s, rank, i) = Total(shares, N)
  BY DEF Winnings
<1>3. /\ \A k \in 0 .. N - 1 : shares[k] \in Nat
      /\ i \notin s.seated => \A k \in 0 .. N - 1 : shares[k] = 0
  BY <1>1 DEF Seats
<1> HIDE DEF shares
<1>. QED
  BY <1>2, <1>3, TotalNat, TotalZero, SeatsAssumption

-----------------------------------------------------------------------------
(* The table between two calls, and in the middle of one.                  *)

\* What an action of seat i leaves behind, before advance() moves the turn.
MidAct(s, i) ==
  /\ s \in TableState
  /\ s.phase \in Betting
  /\ EmptySeatsClear(s)
  /\ PotExact(s)
  /\ RoundOpen(s)
  /\ IF s.turn = i
     THEN /\ i \in CanAct(s) => Settled(s, i)
          /\ OwingFirst(s, i, CanAct(s) \ {i})
     ELSE TurnRuns(s)

\* A seat in the middle of a betting round, about to act.
ToAct(s, i) ==
  /\ s \in TableState
  /\ s.phase \in Betting
  /\ EmptySeatsClear(s)
  /\ PotExact(s)
  /\ RoundOpen(s)
  /\ TurnRuns(s)
  /\ i \in s.seated

-----------------------------------------------------------------------------
(* The actions, one by one.                                                *)

LEMMA FoldMid ==
  ASSUME NEW s, NEW i, ToAct(s, i)
  PROVE  MidAct([s EXCEPT !.folded = @ \union {i}], i)
<1> DEFINE t == [s EXCEPT !.folded = @ \union {i}]
<1>1. s \in TableState /\ i \in Seats
  BY DEF ToAct, TableState
<1>2. t \in TableState
  BY <1>1 DEF TableState
<1>3. /\ t.folded = s.folded \union {i}
      /\ t.phase = s.phase /\ t.seated = s.seated /\ t.stack = s.stack
      /\ t.bet = s.bet /\ t.contributed = s.contributed /\ t.checked = s.checked
      /\ t.allIn = s.allIn /\ t.turn = s.turn /\ t.pot = s.pot
      /\ t.currentBet = s.currentBet
  BY <1>1 DEF TableState
<1> HIDE DEF t
<1>4. EmptySeatsClear(t) /\ PotExact(t) /\ t.phase \in Betting
  BY <1>3 DEF ToAct, EmptySeatsClear, PotExact
<1>5. InHand(t) = InHand(s) \ {i} /\ CanAct(t) = CanAct(s) \ {i}
  BY <1>3 DEF InHand, CanAct
<1>6. RoundOpen(t)
  BY <1>3, <1>5 DEF ToAct, RoundOpen, RoundsMatched, PaidBefore
<1>7. \A j : Settled(t, j) <=> Settled(s, j)
  BY <1>3 DEF Settled
<1>8. OwingFirst(t, s.turn, CanAct(t))
  BY <1>5, <1>7 DEF ToAct, TurnRuns, OwingFirst
<1>9. CASE t.turn = i
  <2>1. CanAct(t) \ {i} = CanAct(t) /\ i \notin CanAct(t)
    BY <1>5
  <2>. QED
    BY <1>2, <1>3, <1>4, <1>6, <1>8, <1>9, <2>1 DEF MidAct, t
<1>10. CASE t.turn # i
  <2>1. TurnRuns(t)
    BY <1>3, <1>5, <1>7, <1>8, <1>10 DEF ToAct, TurnRuns
  <2>. QED
    BY <1>2, <1>4, <1>6, <1>10, <2>1 DEF MidAct, t
<1>. QED
  BY <1>9, <1>10

LEMMA CheckMid ==
  ASSUME NEW s, NEW i, ToAct(s, i), s.turn = i, s.bet[i] >= s.currentBet
  PROVE  MidAct([s EXCEPT !.checked = @ \union {i}], i)
<1> DEFINE t == [s EXCEPT !.checked = @ \union {i}]
<1>1. s \in TableState /\ i \in Seats
  BY DEF ToAct, TableState
<1>2. t \in TableState
  BY <1>1 DEF TableState
<1>3. /\ t.checked = s.checked \union {i}
      /\ t.phase = s.phase /\ t.seated = s.seated /\ t.stack = s.stack
      /\ t.bet = s.bet /\ t.contributed = s.contributed /\ t.folded = s.folded
      /\ t.allIn = s.allIn /\ t.turn = s.turn /\ t.pot = s.pot
      /\ t.currentBet = s.currentBet
  BY <1>1 DEF TableState
<1> HIDE DEF t
<1>4. EmptySeatsClear(t) /\ PotExact(t) /\ t.phase \in Betting
  BY <1>3 DEF ToAct, EmptySeatsClear, PotExact
<1>5. InHand(t) = InHand(s) /\ CanAct(t) = CanAct(s)
  BY <1>3 DEF InHand, CanAct
<1>6. RoundOpen(t)
  BY <1>3, <1>5 DEF ToAct, RoundOpen, RoundsMatched, PaidBefore
<1>7. Settled(t, i)
  <2>1. s.bet[i] <= s.currentBet
    BY <1>1 DEF ToAct, RoundOpen
  <2>2. s.bet[i] \in Nat /\ s.currentBet \in Nat
    BY <1>1 DEF TableState
  <2>. QED
    BY <1>3, <2>1, <2>2 DEF Settled
<1>8. \A j : j # i => (Settled(t, j) <=> Settled(s, j))
  BY <1>3 DEF Settled
<1>9. OwingFirst(t, i, CanAct(t) \ {i})
  BY <1>5, <1>8 DEF ToAct, TurnRuns, OwingFirst
<1>. QED
  BY <1>2, <1>3, <1>4, <1>6, <1>7, <1>9 DEF MidAct, t

LEMMA TimeOutMid ==
  ASSUME NEW s, NEW i, ToAct(s, i), s.turn = i
  PROVE  MidAct(timeOut(s, i), i)
<1>1. s \in TableState /\ i \in Seats /\ i \notin s.allIn
  BY DEF ToAct, TableState, TurnRuns, CanAct
<1>2. CASE s.bet[i] < s.currentBet
  BY <1>1, <1>2, FoldMid DEF timeOut
<1>3. CASE s.bet[i] >= s.currentBet
  <2>1. timeOut(s, i) = [s EXCEPT !.checked = @ \union {i}]
    BY <1>1, <1>3 DEF timeOut, TableState
  <2>. QED
    BY <1>3, <2>1, CheckMid
<1>. QED
  BY <1>1, <1>2, <1>3 DEF TableState

\* A bet goes into the pot.
LEMMA BetPot ==
  ASSUME NEW s \in TableState, NEW i \in Seats, NEW t, NEW actual,
         BetEffect(s, t, i, actual), s.pot = Total(s.contributed, N)
  PROVE  t.pot = Total(t.contributed, N)
<1>1. \A j \in 0 .. N - 1 : s.contributed[j] \in Int
  <2>1. \A j \in Seats : s.contributed[j] \in Nat
    BY DEF TableState
  <2>. QED
    BY <2>1 DEF Seats
<1>2. \A j \in 0 .. N - 1 : t.contributed[j] = IF j = i THEN s.contributed[j] + actual
                                              ELSE s.contributed[j]
  BY DEF Seats, BetEffect
<1>3. N \in Nat /\ i \in 0 .. N - 1 /\ actual \in Int
  BY SeatsAssumption DEF Seats, BetEffect
<1>4. Total(t.contributed, N) = Total(s.contributed, N) + actual
  BY <1>1, <1>2, <1>3, TotalUpdate
<1>. QED
  BY <1>4 DEF BetEffect

\* A bet of the player on turn keeps everything but the bound on bets.
LEMMA BetKeeps ==
  ASSUME NEW s, NEW i, ToAct(s, i), s.turn = i, NEW amount \in Nat
  PROVE  LET t == executeBet(s, i, amount)
         IN  /\ EmptySeatsClear(t)
             /\ PotExact(t)
             /\ RoundsMatched(t)
             /\ \A j \in InHand(t) \ t.allIn : t.stack[j] > 0
             /\ InHand(t) = InHand(s)
             /\ CanAct(t) \ {i} = CanAct(s) \ {i}
             /\ i \in CanAct(t) <=> i \notin t.allIn
<1> DEFINE t == executeBet(s, i, amount)
           actual == Lesser(s.stack[i], amount)
<1>1. s \in TableState /\ i \in Seats /\ i \in s.seated /\ i \in CanAct(s)
  BY DEF ToAct, TableState, TurnRuns
<1>2. t \in TableState /\ BetEffect(s, t, i, actual)
  BY <1>1, ExecuteBetEffect
<1>3. /\ actual \in Nat /\ actual <= s.stack[i]
      /\ \A j \in Seats :
           /\ t.stack[j] = IF j = i THEN s.stack[i] - actual ELSE s.stack[j]
           /\ t.bet[j] = IF j = i THEN s.bet[i] + actual ELSE s.bet[j]
           /\ t.contributed[j] = IF j = i THEN s.contributed[i] + actual
                                 ELSE s.contributed[j]
      /\ t.pot = s.pot + actual
      /\ t.allIn = IF s.stack[i] = actual THEN s.allIn \union {i} ELSE s.allIn
      /\ t.seated = s.seated /\ t.folded = s.folded
  BY <1>2 DEF BetEffect, OnlyChipsMoved
<1> HIDE DEF t, actual
<1>4. /\ s.seated \subseteq Seats
      /\ \A j \in Seats : s.stack[j] \in Nat /\ s.bet[j] \in Nat /\ s.contributed[j] \in Nat
  BY <1>1 DEF TableState
<1>5. EmptySeatsClear(t)
  BY <1>1, <1>3 DEF ToAct, EmptySeatsClear
<1>6. PotExact(t)
  <2>1. t.pot = Total(t.contributed, N)
    BY <1>1, <1>2, BetPot DEF ToAct, PotExact
  <2>2. \A j \in Seats : t.bet[j] <= t.contributed[j]
    BY <1>3, <1>4 DEF ToAct, PotExact
  <2>. QED
    BY <1>3, <2>1, <2>2 DEF ToAct, PotExact
<1>7. InHand(t) = InHand(s)
  BY <1>3 DEF InHand
<1>8. i \notin s.allIn
  BY <1>1 DEF CanAct
<1>9. \A j \in Seats : PaidBefore(t, j) = PaidBefore(s, j)
  BY <1>3, <1>4 DEF PaidBefore
<1>10. RoundsMatched(t)
  <2>1. InHand(s) \subseteq Seats /\ i \in InHand(s)
    BY <1>1, <1>4 DEF InHand, CanAct
  <2>2. \A j \in InHand(s), k \in InHand(s) \ s.allIn :
           IF j \in s.allIn THEN PaidBefore(s, j) <= PaidBefore(s, k)
           ELSE PaidBefore(s, j) = PaidBefore(s, k)
    BY DEF ToAct, RoundOpen, RoundsMatched
  <2>3. \A j \in Seats : PaidBefore(s, j) \in Int
    BY <1>4 DEF PaidBefore
  <2>4. ASSUME NEW j \in InHand(t), NEW k \in InHand(t) \ t.allIn
        PROVE  IF j \in t.allIn THEN PaidBefore(t, j) <= PaidBefore(t, k)
               ELSE PaidBefore(t, j) = PaidBefore(t, k)
    <3>1. k \notin s.allIn /\ j \in Seats /\ k \in Seats /\ j \in InHand(s) /\ k \in InHand(s)
      BY <1>3, <1>7, <2>1
    <3>2. j \notin t.allIn => j \notin s.allIn
      BY <1>3
    <3>3. PaidBefore(t, j) = PaidBefore(s, j) /\ PaidBefore(t, k) = PaidBefore(s, k)
      BY <1>9, <3>1
    <3>. QED
      BY <2>2, <2>3, <3>1, <3>2, <3>3
  <2>. QED
    BY <2>4 DEF RoundsMatched
<1>11. ASSUME NEW j \in InHand(t) \ t.allIn
       PROVE  t.stack[j] > 0
  <2>1. j \in Seats /\ j \in InHand(s)
    BY <1>4, <1>7 DEF InHand
  <2>2. CASE j = i
    <3>1. s.stack[i] # actual
      BY <1>3, <2>2
    <3>. QED
      BY <1>1, <1>3, <1>4, <2>2, <3>1
  <2>3. CASE j # i
    <3>1. s.stack[j] > 0
      BY <1>3, <2>1 DEF ToAct, RoundOpen
    <3>. QED
      BY <1>3, <2>1, <2>3, <3>1
  <2>. QED
    BY <2>2, <2>3
<1>12. CanAct(t) \ {i} = CanAct(s) \ {i}
  BY <1>3, <1>4, <1>7 DEF CanAct, InHand
<1>13. i \in CanAct(t) <=> i \notin t.allIn
  BY <1>1, <1>7, <1>11 DEF CanAct
<1>. QED
  BY <1>5, <1>6, <1>7, <1>10, <1>11, <1>12, <1>13 DEF t

LEMMA CallMid ==
  ASSUME NEW s, NEW i, ToAct(s, i), s.turn = i
  PROVE  MidAct(handleCall(s, i), i)
<1> DEFINE amount == s.currentBet - s.bet[i]
           actual == Lesser(s.stack[i], amount)
           u == executeBet(s, i, amount)
           t == [u EXCEPT !.checked = @ \union {i}]
<1>1. s \in TableState /\ i \in Seats
  BY DEF ToAct, TableState
<1>2. amount \in Nat
  BY <1>1 DEF ToAct, RoundOpen, TableState
<1>3. u \in TableState /\ BetEffect(s, u, i, actual)
  BY <1>1, <1>2, ExecuteBetEffect
<1>4. /\ EmptySeatsClear(u) /\ PotExact(u) /\ RoundsMatched(u)
      /\ \A j \in InHand(u) \ u.allIn : u.stack[j] > 0
      /\ CanAct(u) \ {i} = CanAct(s) \ {i}
      /\ i \in CanAct(u) <=> i \notin u.allIn
  BY <1>2, BetKeeps
<1>5. handleCall(s, i) = t
  BY DEF handleCall
<1> HIDE DEF u
<1>6. t \in TableState
  BY <1>1, <1>3 DEF TableState
<1>7. /\ t.checked = u.checked \union {i}
      /\ t.phase = u.phase /\ t.seated = u.seated /\ t.stack = u.stack
      /\ t.bet = u.bet /\ t.contributed = u.contributed /\ t.folded = u.folded
      /\ t.allIn = u.allIn /\ t.turn = u.turn /\ t.pot = u.pot
      /\ t.currentBet = u.currentBet
  BY <1>3 DEF TableState
<1> HIDE DEF t
<1>8. /\ u.phase = s.phase /\ u.turn = s.turn /\ u.currentBet = s.currentBet
      /\ u.checked = s.checked
      /\ \A j \in Seats : u.bet[j] = IF j = i THEN s.bet[i] + actual ELSE s.bet[j]
      /\ u.allIn = IF s.stack[i] = actual THEN s.allIn \union {i} ELSE s.allIn
  BY <1>3 DEF BetEffect, OnlyChipsMoved
<1>9. EmptySeatsClear(t) /\ PotExact(t) /\ t.phase \in Betting /\ t.turn = i
  BY <1>4, <1>7, <1>8 DEF ToAct, EmptySeatsClear, PotExact
<1>10. InHand(t) = InHand(u) /\ CanAct(t) = CanAct(u)
  BY <1>7 DEF InHand, CanAct
<1>11. actual <= amount /\ actual \in Nat /\ (i \notin u.allIn => actual = amount)
  <2>1. s.stack[i] \in Nat
    BY <1>1 DEF TableState
  <2>. QED
    BY <1>2, <1>8, <2>1 DEF Lesser
<1>12. RoundOpen(t)
  <2>1. \A j \in Seats : t.bet[j] <= t.currentBet
    <3>1. s.bet[i] \in Nat /\ s.currentBet \in Nat
      BY <1>1 DEF TableState
    <3>. QED
      BY <1>7, <1>8, <1>11, <3>1 DEF ToAct, RoundOpen
  <2>2. RoundsMatched(t)
    BY <1>4, <1>7, <1>10 DEF RoundsMatched, PaidBefore
  <2>. QED
    BY <1>4, <1>7, <1>10, <2>1, <2>2 DEF RoundOpen
<1>13. i \in CanAct(t) => Settled(t, i)
  <2>1. s.bet[i] \in Nat /\ s.currentBet \in Nat
    BY <1>1 DEF TableState
  <2>2. ASSUME i \in CanAct(t)
        PROVE  u.bet[i] = s.currentBet
    BY <1>1, <1>4, <1>8, <1>10, <1>11, <2>1, <2>2
  <2>. QED
    BY <1>7, <1>8, <2>2 DEF Settled
<1>14. OwingFirst(t, i, CanAct(t) \ {i})
  <2>1. CanAct(t) \ {i} \subseteq CanAct(s) /\ CanAct(s) \subseteq Seats
    BY <1>1, <1>4, <1>10 DEF CanAct, InHand, TableState
  <2>2. \A j \in Seats \ {i} : Settled(t, j) <=> Settled(s, j)
    BY <1>7, <1>8 DEF Settled
  <2>. QED
    BY <2>1, <2>2 DEF ToAct, TurnRuns, OwingFirst
<1>15. MidAct(t, i)
  BY <1>6, <1>9, <1>12, <1>13, <1>14 DEF MidAct
<1>. QED
  BY <1>5, <1>15

LEMMA RaiseMid ==
  ASSUME NEW s, NEW i, ToAct(s, i), s.turn = i, NEW amount \in Nat,
         CanRaise(s, i, amount)
  PROVE  MidAct(handleRaise(s, i, amount), i)
<1> DEFINE chips  == Lesser(amount - s.bet[i], s.stack[i])
           actual == Lesser(s.stack[i], chips)
           u      == executeBet(s, i, chips)
           size   == u.bet[i] - s.currentBet
           full   == size >= minRaiseSize(s)
           t      == handleRaise(s, i, amount)
<1>1. s \in TableState /\ i \in Seats /\ s.stack[i] \in Nat
      /\ s.bet[i] \in Nat /\ s.currentBet \in Nat
  BY DEF ToAct, TableState
<1>2. chips \in Nat /\ actual = chips
  BY <1>1 DEF CanRaise, Lesser
<1>3. u \in TableState /\ BetEffect(s, u, i, actual)
  BY <1>1, <1>2, ExecuteBetEffect
<1>4. /\ EmptySeatsClear(u) /\ PotExact(u) /\ RoundsMatched(u)
      /\ \A j \in InHand(u) \ u.allIn : u.stack[j] > 0
      /\ CanAct(u) \ {i} = CanAct(s) \ {i}
      /\ i \in CanAct(u) <=> i \notin u.allIn
  BY <1>2, BetKeeps
<1>5. /\ u.phase = s.phase /\ u.turn = s.turn /\ u.currentBet = s.currentBet
      /\ u.checked = s.checked
      /\ \A j \in Seats : u.bet[j] = IF j = i THEN s.bet[i] + actual ELSE s.bet[j]
      /\ u.allIn = IF s.stack[i] = actual THEN s.allIn \union {i} ELSE s.allIn
  BY <1>3 DEF BetEffect, OnlyChipsMoved
<1>6. CASE size <= 0
  <2>1. t = [u EXCEPT !.checked = @ \union {i}]
    BY <1>6 DEF handleRaise
  <2>2. size \in Int
    BY <1>1, <1>2, <1>5
  \* short of the bet: the raiser is all-in
  <2>3. i \in u.allIn /\ u.bet[i] <= s.currentBet
    BY <1>1, <1>2, <1>5, <1>6, <2>2 DEF CanRaise, Lesser
  <2> HIDE DEF u, t, actual, chips
  <2>4. /\ t \in TableState
        /\ t.checked = u.checked \union {i}
        /\ t.phase = u.phase /\ t.seated = u.seated /\ t.stack = u.stack
        /\ t.bet = u.bet /\ t.contributed = u.contributed /\ t.folded = u.folded
        /\ t.allIn = u.allIn /\ t.turn = u.turn /\ t.pot = u.pot
        /\ t.currentBet = u.currentBet
    BY <1>1, <1>3, <2>1 DEF TableState
  <2>5. InHand(t) = InHand(u) /\ CanAct(t) = CanAct(u)
    BY <2>4 DEF InHand, CanAct
  <2>6. EmptySeatsClear(t) /\ PotExact(t) /\ t.phase \in Betting /\ t.turn = i
    BY <1>4, <1>5, <2>4 DEF ToAct, EmptySeatsClear, PotExact
  <2>7. RoundOpen(t)
    <3>1. RoundsMatched(t)
      BY <1>4, <2>4, <2>5 DEF RoundsMatched, PaidBefore
    <3>2. \A j \in Seats : t.bet[j] <= t.currentBet
      BY <1>5, <2>3, <2>4 DEF ToAct, RoundOpen
    <3>. QED
      BY <1>4, <2>4, <2>5, <3>1, <3>2 DEF RoundOpen
  <2>8. OwingFirst(t, i, CanAct(t) \ {i})
    <3>1. CanAct(t) \ {i} \subseteq CanAct(s) /\ CanAct(s) \subseteq Seats
      BY <1>1, <1>4, <2>5 DEF CanAct, InHand, TableState
    <3>2. \A j \in Seats \ {i} : Settled(t, j) <=> Settled(s, j)
      BY <1>5, <2>4 DEF Settled
    <3>. QED
      BY <3>1, <3>2 DEF ToAct, TurnRuns, OwingFirst
  <2>9. i \notin CanAct(t)
    BY <1>4, <2>3, <2>5
  <2>. QED
    BY <2>4, <2>6, <2>7, <2>8, <2>9 DEF MidAct, t
<1>7. CASE size > 0
  <2>1. t = [u EXCEPT
               !.currentBet = u.bet[i],
               !.lastRaise  = IF full THEN size ELSE @,
               !.checked    = (IF full THEN @ \ (InHand(u) \ u.allIn) ELSE @)
                              \union {i}]
    <3>1. ~ (size <= 0)
      BY <1>1, <1>2, <1>5, <1>7
    <3>. QED
      BY <3>1 DEF handleRaise
  <2>2. size \in Nat /\ u.bet[i] \in Nat /\ u.bet[i] > s.currentBet
    BY <1>1, <1>2, <1>5, <1>7
  <2> DEFINE lastRaise == IF full THEN size ELSE u.lastRaise
             checked   == (IF full THEN u.checked \ (InHand(u) \ u.allIn) ELSE u.checked)
                          \union {i}
             bet       == u.bet[i]
  <2>3. lastRaise \in Nat /\ checked \in SUBSET Seats /\ i \in checked
    BY <1>1, <1>3, <2>2 DEF TableState
  <2>4. t = [u EXCEPT !.currentBet = bet, !.lastRaise = lastRaise, !.checked = checked]
    BY <2>1
  <2>5. bet \in Nat
    BY <2>2
  <2> HIDE DEF u, t, actual, chips, lastRaise, checked, bet
  <2>6. /\ t \in TableState
        /\ t.checked = checked
        /\ t.phase = u.phase /\ t.seated = u.seated /\ t.stack = u.stack
        /\ t.bet = u.bet /\ t.contributed = u.contributed /\ t.folded = u.folded
        /\ t.allIn = u.allIn /\ t.turn = u.turn /\ t.pot = u.pot
        /\ t.currentBet = bet
    BY <1>3, <2>3, <2>4, <2>5 DEF TableState
  <2>7. InHand(t) = InHand(u) /\ CanAct(t) = CanAct(u)
    BY <2>6 DEF InHand, CanAct
  <2>8. EmptySeatsClear(t) /\ PotExact(t) /\ t.phase \in Betting /\ t.turn = i
    BY <1>4, <1>5, <2>6 DEF ToAct, EmptySeatsClear, PotExact
  <2>9. \A j \in Seats \ {i} : t.bet[j] < t.currentBet
    <3>1. \A j \in Seats : s.bet[j] <= s.currentBet /\ s.bet[j] \in Nat
      BY <1>1 DEF ToAct, RoundOpen, TableState
    <3>. QED
      BY <1>1, <1>5, <2>2, <2>6, <3>1 DEF bet
  <2>10. t.bet[i] = t.currentBet /\ Settled(t, i)
    BY <2>3, <2>6 DEF Settled, bet
  <2>11. RoundOpen(t)
    <3>1. RoundsMatched(t)
      BY <1>4, <2>6, <2>7 DEF RoundsMatched, PaidBefore
    <3>2. \A j \in Seats : t.bet[j] <= t.currentBet
      <4>1. \A j \in Seats : t.bet[j] \in Nat /\ t.currentBet \in Nat
        BY <2>6 DEF TableState
      <4>. QED
        BY <2>9, <2>10, <4>1
    <3>. QED
      BY <1>4, <2>6, <2>7, <3>1, <3>2 DEF RoundOpen
  <2>12. OwingFirst(t, i, CanAct(t) \ {i})
    <3>1. CanAct(t) \subseteq Seats
      BY <2>6 DEF CanAct, InHand, TableState
    <3>2. \A j \in Seats \ {i} : ~ Settled(t, j)
      <4>1. \A j \in Seats : t.bet[j] \in Nat /\ t.currentBet \in Nat
        BY <2>6 DEF TableState
      <4>. QED
        BY <2>9, <4>1 DEF Settled
    <3>. QED
      BY <3>1, <3>2 DEF OwingFirst
  <2>. QED
    BY <2>6, <2>8, <2>10, <2>11, <2>12 DEF MidAct, t
<1>. QED
  <2>1. size \in Int
    BY <1>1, <1>2, <1>5
  <2>. QED
    BY <1>6, <1>7, <2>1

LEMMA ApplyMid ==
  ASSUME NEW s, NEW i, ToAct(s, i), NEW action \in DealerActions \union PlayerActions,
         NEW amount \in Nat, CanDo(s, i, action, amount)
  PROVE  MidAct(applyAction(s, i, action, amount), i)
<1>1. CASE action \in DealerActions
  BY <1>1, FoldMid DEF applyAction
<1>2. CASE action \in PlayerActions
  <2>1. action \notin DealerActions /\ s.turn = i
    BY <1>2 DEF CanDo, DealerActions, PlayerActions
  <2>2. i \notin s.folded
    BY <2>1 DEF ToAct, TurnRuns, CanAct, InHand
  <2>3. CASE action = "FOLD"
    <3>1. applyAction(s, i, action, amount) = [s EXCEPT !.folded = @ \union {i}]
      BY <2>1, <2>2, <2>3 DEF applyAction
    <3>. QED
      BY <3>1, FoldMid
  <2>4. CASE action = "TIME_OUT"
    <3>1. applyAction(s, i, action, amount) = timeOut(s, i)
      BY <2>1, <2>2, <2>4 DEF applyAction
    <3>. QED
      BY <2>1, <3>1, TimeOutMid
  <2>5. CASE action = "CHECK"
    <3>1. applyAction(s, i, action, amount) = [s EXCEPT !.checked = @ \union {i}]
      BY <2>1, <2>2, <2>5 DEF applyAction
    <3>2. s.bet[i] >= s.currentBet
      BY <2>1, <2>2, <2>5 DEF CanDo
    <3>. QED
      BY <2>1, <3>1, <3>2, CheckMid
  <2>6. CASE action = "CALL"
    <3>1. applyAction(s, i, action, amount) = handleCall(s, i)
      BY <2>1, <2>2, <2>6 DEF applyAction
    <3>. QED
      BY <2>1, <3>1, CallMid
  <2>7. CASE action = "RAISE"
    <3>1. applyAction(s, i, action, amount) = handleRaise(s, i, amount)
      BY <2>1, <2>2, <2>7 DEF applyAction
    <3>2. CanRaise(s, i, amount)
      BY <2>1, <2>2, <2>7 DEF CanDo
    <3>. QED
      BY <2>1, <3>1, <3>2, RaiseMid
  <2>. QED
    BY <1>2, <2>3, <2>4, <2>5, <2>6, <2>7 DEF PlayerActions
<1>. QED
  BY <1>1, <1>2

-----------------------------------------------------------------------------
(* Moving on: the next player, the next phase or the showdown.             *)

LEMMA ToShowdownInv ==
  ASSUME NEW s \in TableState, EmptySeatsClear(s), PotExact(s)
  PROVE  ToShowdown(s) \in TableState /\ TableInv(ToShowdown(s))
<1> DEFINE u == calculateSidePots(s)
           t == ToShowdown(s)
<1>1. u \in TableState /\ s \in TableState
  BY CalculateSidePotsType
<1>2. /\ u.seated = s.seated /\ u.stack = s.stack /\ u.bet = s.bet
      /\ u.contributed = s.contributed /\ u.pot = s.pot
  BY DEF calculateSidePots, TableState
<1>3. t = [u EXCEPT !.phase = "SHOWDOWN", !.turn = NoTurn]
  BY DEF ToShowdown
<1> HIDE DEF u, t
<1>4. /\ t \in TableState
      /\ t.seated = s.seated /\ t.stack = s.stack /\ t.bet = s.bet
      /\ t.contributed = s.contributed /\ t.pot = s.pot
      /\ t.phase = "SHOWDOWN" /\ t.turn = NoTurn
  BY <1>1, <1>2, <1>3 DEF TableState, Phase
<1>5. TableInv(t)
  BY <1>4 DEF TableInv, EmptySeatsClear, PotExact, Betting
<1>. QED
  BY <1>4, <1>5 DEF t

\* No showdown yet: somebody can act, and if the bets are matched at least two.
LEMMA StillBetting ==
  ASSUME NEW s \in TableState, RoundOpen(s), ~ shouldGoToShowdown(s)
  PROVE  /\ CanAct(s) = InHand(s) \ s.allIn
         /\ CanAct(s) # {}
         /\ IsAllMatched(s) => \E i, j \in CanAct(s) : i # j
<1>1. CanAct(s) = InHand(s) \ s.allIn
  BY DEF RoundOpen, CanAct
<1>2. \/ \E i, j \in CanAct(s) : i # j
      \/ \E i \in CanAct(s) : s.bet[i] # s.currentBet
  BY <1>1 DEF shouldGoToShowdown, AtMostOne
<1>. QED
  BY <1>1, <1>2 DEF IsAllMatched

LEMMA NextPhaseInv ==
  ASSUME NEW s \in TableState, s.phase \in Betting,
         EmptySeatsClear(s), PotExact(s), RoundOpen(s),
         ~ shouldGoToShowdown(s), IsAllMatched(s)
  PROVE  nextPhase(s) \in TableState /\ TableInv(nextPhase(s))
<1> DEFINE u == calculateSidePots(s)
           t == nextPhase(s)
           after == PhaseAfter(s.phase)
           noBet == [i \in Seats |-> 0]
           least == 2 * s.smallBlind
           next == findNextActiveSeat(s, SeatAfter(s.button))
           turn == IF after = "SHOWDOWN" THEN NoTurn ELSE next
<1>1. u \in TableState
  BY CalculateSidePotsType
<1>2. /\ u.seated = s.seated /\ u.stack = s.stack /\ u.folded = s.folded
      /\ u.contributed = s.contributed /\ u.pot = s.pot /\ u.allIn = s.allIn
  BY DEF calculateSidePots, TableState
<1>3. after \in (Betting \ {"PRE_FLOP"}) \union {"SHOWDOWN"} /\ after \in Phase
  BY DEF PhaseAfter, Betting, Phase
<1>4. noBet \in [Seats -> Nat] /\ least \in Nat /\ s.button \in Seats
  BY DEF TableState
<1>5. next \in CanAct(s)
  BY <1>4, SeatAfterType, NextActiveSeat, StillBetting
<1>6. turn \in Seats \union {NoTurn}
  BY <1>5 DEF CanAct, InHand, TableState
<1>7. t = [u EXCEPT !.phase = after, !.bet = noBet, !.checked = {}, !.currentBet = 0,
                    !.lastRaise = least, !.turn = turn]
  BY DEF nextPhase
<1> HIDE DEF u, t, after, noBet, least, turn
<1>8. /\ t \in TableState
      /\ t.phase = after /\ t.bet = noBet /\ t.checked = {} /\ t.currentBet = 0
      /\ t.turn = turn
      /\ t.seated = s.seated /\ t.stack = s.stack /\ t.folded = s.folded
      /\ t.contributed = s.contributed /\ t.pot = s.pot /\ t.allIn = s.allIn
  BY <1>1, <1>2, <1>3, <1>4, <1>6, <1>7 DEF TableState
<1>9. \A i \in Seats : t.bet[i] = 0
  BY <1>8 DEF noBet
<1>10. EmptySeatsClear(t)
  BY <1>8, <1>9 DEF EmptySeatsClear
<1>11. PotExact(t)
  <2>1. \A i \in Seats : t.contributed[i] \in Nat
    BY <1>8 DEF TableState
  <2>. QED
    BY <1>8, <1>9, <2>1 DEF PotExact
<1>12. InHand(t) = InHand(s) /\ CanAct(t) = CanAct(s) /\ InHand(s) \subseteq Seats
  BY <1>8 DEF InHand, CanAct, TableState
<1>13. RoundOpen(t)
  <2>1. \A i \in Seats : /\ s.contributed[i] \in Nat /\ s.bet[i] \in Nat
                          /\ s.bet[i] <= s.currentBet
        /\ s.currentBet \in Nat
    BY DEF RoundOpen, TableState
  <2>2. \A i \in InHand(s) \ s.allIn : s.bet[i] = s.currentBet
    BY DEF IsAllMatched
  <2>3. \A i \in Seats : PaidBefore(t, i) = s.contributed[i]
    BY <1>8, <1>9, <2>1 DEF PaidBefore
  <2>4. \A i \in InHand(s), j \in InHand(s) \ s.allIn :
           IF i \in s.allIn THEN s.contributed[i] - s.bet[i] <= s.contributed[j] - s.bet[j]
           ELSE s.contributed[i] - s.bet[i] = s.contributed[j] - s.bet[j]
    BY DEF RoundOpen, RoundsMatched, PaidBefore
  <2>5. \A i \in InHand(s), j \in InHand(s) \ s.allIn :
           IF i \in s.allIn THEN s.contributed[i] <= s.contributed[j]
           ELSE s.contributed[i] = s.contributed[j]
    BY <1>12, <2>1, <2>2, <2>4
  <2>6. RoundsMatched(t)
    BY <1>8, <1>12, <2>3, <2>5 DEF RoundsMatched
  <2>7. \A i \in InHand(t) \ t.allIn : t.stack[i] > 0
    BY <1>8, <1>12 DEF RoundOpen
  <2>. QED
    BY <1>8, <1>9, <2>6, <2>7 DEF RoundOpen
<1>14. CASE after = "SHOWDOWN"
  BY <1>8, <1>10, <1>11, <1>14 DEF TableInv, Betting, turn, t
<1>15. CASE after \in Betting
  <2>1. t.turn = next
    BY <1>8, <1>15 DEF Betting, turn
  <2>2. \A i : ~ Settled(t, i)
    BY <1>8 DEF Settled
  <2>3. TurnRuns(t)
    BY <1>5, <1>12, <2>1, <2>2 DEF TurnRuns, OwingFirst
  <2>. QED
    BY <1>8, <1>10, <1>11, <1>13, <1>15, <2>3 DEF TableInv, Betting, t
<1>. QED
  BY <1>3, <1>14, <1>15

-----------------------------------------------------------------------------

\* Clockwise distances from the next seat on, measured from seat i.
LEMMA ClockwiseShift ==
  ASSUME NEW i \in Seats, NEW n \in Seats, NEW j \in Seats, i # n,
         j # i, Clockwise(SeatAfter(i), n) <= Clockwise(SeatAfter(i), j)
  PROVE  /\ Clockwise(n, j) = Clockwise(i, j) - Clockwise(i, n)
         /\ Clockwise(n, j) < Clockwise(n, i)
         /\ n # j => Clockwise(i, n) < Clockwise(i, j)
BY SeatsAssumption DEF Clockwise, SeatAfter, Seats

\* The turn goes on to somebody who owes an action, or the round is over.
LEMMA TurnMovesOn ==
  ASSUME NEW s \in TableState, NEW i \in Seats, RoundOpen(s),
         i \in CanAct(s) => Settled(s, i),
         OwingFirst(s, i, CanAct(s) \ {i}),
         ~ shouldGoToShowdown(s),
         ~ (IsAllMatched(s) /\ HasEveryoneActed(s)),
         NEW n, n = findNextActiveSeat(s, SeatAfter(i))
  PROVE  /\ n \in CanAct(s)
         /\ ~ Settled(s, n)
         /\ OwingFirst(s, n, CanAct(s))
<1>1. CanAct(s) = InHand(s) \ s.allIn /\ CanAct(s) # {} /\ CanAct(s) \subseteq Seats
  BY StillBetting DEF InHand, TableState
<1>2. /\ n \in CanAct(s)
      /\ \A j \in CanAct(s) : Clockwise(SeatAfter(i), n) <= Clockwise(SeatAfter(i), j)
  BY <1>1, SeatAfterType, NextActiveSeat
<1>3. PICK k \in CanAct(s) : ~ Settled(s, k)
  BY <1>1 DEF IsAllMatched, HasEveryoneActed, Settled
<1>4. k # i
  BY <1>3
<1>5. n # i
  <2>1. SUFFICES ASSUME n = i PROVE FALSE
    OBVIOUS
  <2>2. Clockwise(SeatAfter(i), i) <= Clockwise(SeatAfter(i), k)
    BY <1>2, <2>1
  <2>3. k \in Seats
    BY <1>1
  <2>. QED
    BY <1>4, <2>2, <2>3, SeatsAssumption DEF Clockwise, SeatAfter, Seats
<1>6. \A j \in CanAct(s) \ {i} :
        /\ Clockwise(n, j) = Clockwise(i, j) - Clockwise(i, n)
        /\ Clockwise(n, j) < Clockwise(n, i)
        /\ n # j => Clockwise(i, n) < Clockwise(i, j)
  BY <1>1, <1>2, <1>5, ClockwiseShift
<1>7. \A j, m \in Seats : Clockwise(j, m) \in Int
  BY ClockwiseRange
<1>8. ~ Settled(s, n)
  <2>1. SUFFICES ASSUME Settled(s, n) PROVE FALSE
    OBVIOUS
  <2>2. Clockwise(i, k) < Clockwise(i, n)
    BY <1>2, <1>3, <1>4, <1>5, <2>1 DEF OwingFirst
  <2>3. k # n
    BY <1>3, <2>1
  <2>4. Clockwise(i, n) < Clockwise(i, k)
    BY <1>3, <1>4, <1>6, <2>3
  <2>. QED
    BY <1>1, <1>2, <1>7, <2>2, <2>4
<1>9. ASSUME NEW j \in CanAct(s), NEW m \in CanAct(s), Settled(s, j), ~ Settled(s, m)
      PROVE  Clockwise(n, m) < Clockwise(n, j)
  <2>1. m # i
    BY <1>9
  <2>2. CASE j = i
    BY <1>6, <2>1, <2>2
  <2>3. CASE j # i
    <3>1. Clockwise(i, m) < Clockwise(i, j)
      BY <1>9, <2>1, <2>3 DEF OwingFirst
    <3>2. /\ Clockwise(n, j) = Clockwise(i, j) - Clockwise(i, n)
          /\ Clockwise(n, m) = Clockwise(i, m) - Clockwise(i, n)
      BY <1>6, <2>1, <2>3
    <3>. QED
      BY <1>1, <1>2, <1>7, <3>1, <3>2
  <2>. QED
    BY <2>2, <2>3
<1>. QED
  BY <1>2, <1>8, <1>9 DEF OwingFirst

LEMMA AdvanceInv ==
  ASSUME NEW s, NEW i \in Seats, MidAct(s, i)
  PROVE  advance(s, i) \in TableState /\ TableInv(advance(s, i))
<1> DEFINE n == IF s.turn = i THEN findNextActiveSeat(s, SeatAfter(i)) ELSE s.turn
<1>1. /\ s \in TableState /\ s.phase \in Betting
      /\ EmptySeatsClear(s) /\ PotExact(s) /\ RoundOpen(s)
  BY DEF MidAct
<1>2. CASE shouldGoToShowdown(s)
  BY <1>1, <1>2, ToShowdownInv DEF advance
<1>3. CASE ~ shouldGoToShowdown(s) /\ shouldGoToNextPhase(s, n)
  <2>1. advance(s, i) = nextPhase(s)
    BY <1>3 DEF advance
  <2>2. IsAllMatched(s)
    BY <1>3 DEF shouldGoToNextPhase
  <2>. QED
    BY <1>1, <1>3, <2>1, <2>2, NextPhaseInv
<1>4. CASE ~ shouldGoToShowdown(s) /\ ~ shouldGoToNextPhase(s, n)
  <2> DEFINE t == [s EXCEPT !.turn = n]
  <2>1. advance(s, i) = t
    BY <1>4 DEF advance
  <2>2. /\ n \in CanAct(s)
        /\ ~ Settled(s, n)
        /\ OwingFirst(s, n, CanAct(s))
    <3>1. CASE s.turn = i
      <4>1. ~ (IsAllMatched(s) /\ HasEveryoneActed(s))
        BY <1>4 DEF shouldGoToNextPhase
      <4>2. /\ i \in CanAct(s) => Settled(s, i)
            /\ OwingFirst(s, i, CanAct(s) \ {i})
        BY <3>1 DEF MidAct
      <4>3. n = findNextActiveSeat(s, SeatAfter(i))
        BY <3>1
      <4> HIDE DEF n
      <4>. QED
        BY <1>1, <1>4, <4>1, <4>2, <4>3, TurnMovesOn
    <3>2. CASE s.turn # i
      BY <3>2 DEF MidAct, TurnRuns
    <3>. QED
      BY <3>1, <3>2
  <2>3. n \in Seats
    BY <1>1, <2>2 DEF CanAct, InHand, TableState
  <2> HIDE DEF n, t
  <2>4. /\ t \in TableState
        /\ t.turn = n
        /\ t.phase = s.phase /\ t.seated = s.seated /\ t.stack = s.stack
        /\ t.bet = s.bet /\ t.contributed = s.contributed /\ t.folded = s.folded
        /\ t.checked = s.checked /\ t.allIn = s.allIn /\ t.pot = s.pot
        /\ t.currentBet = s.currentBet
    BY <1>1, <2>3 DEF TableState, t
  <2>5. InHand(t) = InHand(s) /\ CanAct(t) = CanAct(s)
    BY <2>4 DEF InHand, CanAct
  <2>6. EmptySeatsClear(t) /\ PotExact(t)
    BY <1>1, <2>4 DEF EmptySeatsClear, PotExact
  <2>7. RoundOpen(t)
    BY <1>1, <2>4, <2>5 DEF RoundOpen, RoundsMatched, PaidBefore
  <2>8. TurnRuns(t)
    BY <2>2, <2>4, <2>5 DEF TurnRuns, OwingFirst, Settled
  <2>9. TableInv(t)
    BY <1>1, <2>4, <2>6, <2>7, <2>8 DEF TableInv, Betting
  <2>. QED
    BY <2>1, <2>4, <2>9
<1>. QED
  BY <1>2, <1>3, <1>4

-----------------------------------------------------------------------------
(* The start of a hand.                                                    *)

\* A table t whose blinds and antes are posted, s being the table before: nobody
\* bets more than the big blind, and whoever has no chips left is all-in.
Posted(s, t) ==
  /\ t \in TableState
  /\ t.phase = s.phase /\ t.seated = s.seated /\ t.folded = {}
  /\ t.checked = {} /\ t.smallBlind = s.smallBlind
  /\ EmptySeatsClear(t)
  /\ PotExact(t)
  /\ \A i \in Seats : t.bet[i] <= 2 * s.smallBlind
  /\ \A i \in InHand(t) \ t.allIn : t.stack[i] > 0
  /\ RoundsMatched(t)

\* Posting the blinds and antes of a clean table; the two blinds sit apart.
LEMMA PostedBlinds ==
  ASSUME NEW s \in TableState, CleanTable(s), EmptySeatsClear(s),
         NEW ante \in Nat, NEW sb \in Seats, NEW bb \in Seats, sb # bb,
         sb \in s.seated, bb \in s.seated,
         NEW a, a = (IF ante > 0 THEN payAnte(s, ante) ELSE s),
         NEW t, t = payBlind(a, sb, bb, s.smallBlind)
  PROVE  Posted(s, t)
<1>1. /\ s.seated \subseteq Seats /\ InHand(s) = s.seated /\ s.smallBlind \in Nat
      /\ \A i \in Seats : s.stack[i] \in Nat /\ s.bet[i] = 0 /\ s.contributed[i] = 0
      /\ s.pot = 0 /\ s.allIn = {} /\ s.folded = {} /\ s.checked = {}
  BY DEF CleanTable, InHand, TableState
\* after the antes
<1>2. PICK paid \in [Seats -> Nat] :
        /\ a \in TableState
        /\ OnlyChipsMoved(s, a)
        /\ \A i \in Seats :
             /\ paid[i] <= s.stack[i]
             /\ i \notin s.seated => paid[i] = 0
             /\ i \in s.seated => paid[i] = Lesser(s.stack[i], ante)
             /\ a.stack[i] = s.stack[i] - paid[i]
             /\ a.contributed[i] = paid[i]
             /\ a.bet[i] = 0
        /\ a.pot = Total(paid, N)
        /\ a.allIn = {i \in s.seated : s.stack[i] <= ante}
  <2>1. CASE ante > 0
    <3>1. a = payAnte(s, ante)
      BY <2>1
    <3>2. PICK paid \in [Seats -> Nat] : AnteEffect(s, a, ante, paid)
      BY <3>1, PayAnteEffect
    <3>3. a \in TableState
      BY <3>1, PayAnteEffect
    <3>4. Total(paid, N) \in Nat
      BY TotalNat, SeatsAssumption DEF Seats
    <3>. QED
      BY <1>1, <3>2, <3>3, <3>4 DEF AnteEffect
  <2>2. CASE ante = 0
    <3> DEFINE paid == [i \in Seats |-> 0]
    <3>1. a = s
      BY <2>2
    <3>2. paid \in [Seats -> Nat] /\ \A i \in Seats : paid[i] = 0
      OBVIOUS
    <3>3. Total(paid, N) = 0
      BY <3>2, TotalZero, SeatsAssumption DEF Seats
    <3> HIDE DEF paid
    <3>4. {i \in s.seated : s.stack[i] <= ante} = {}
      BY <1>1, <2>2 DEF CleanTable
    <3>5. \A i \in s.seated : Lesser(s.stack[i], ante) = 0
      BY <1>1, <2>2 DEF Lesser
    <3>6. OnlyChipsMoved(s, a)
      BY <3>1 DEF OnlyChipsMoved
    <3>. QED
      BY <1>1, <3>1, <3>2, <3>3, <3>4, <3>5, <3>6
  <2>. QED
    BY <2>1, <2>2
\* after the small blind
<1> DEFINE x == Lesser(a.stack[sb], s.smallBlind)
           b == executeBet(a, sb, s.smallBlind)
           y == Lesser(b.stack[bb], 2 * s.smallBlind)
<1>3. b \in TableState /\ BetEffect(a, b, sb, x)
  BY <1>1, <1>2, ExecuteBetEffect
<1>4. t = executeBet(b, bb, 2 * s.smallBlind)
  BY DEF payBlind
<1>5. 2 * s.smallBlind \in Nat
  BY <1>1
<1>6. t \in TableState /\ BetEffect(b, t, bb, y)
  BY <1>3, <1>4, <1>5, ExecuteBetEffect
<1>7. x <= s.smallBlind /\ y <= 2 * s.smallBlind
  <2>1. a.stack[sb] \in Nat /\ b.stack[bb] \in Nat
    BY <1>2, <1>3 DEF TableState
  <2>. QED
    BY <1>1, <2>1 DEF Lesser
<1> HIDE DEF x, b, y
<1>8. /\ t.phase = s.phase /\ t.seated = s.seated /\ t.folded = {}
      /\ t.checked = {} /\ t.smallBlind = s.smallBlind
  BY <1>1, <1>2, <1>3, <1>6 DEF BetEffect, OnlyChipsMoved
<1>9. x \in Nat /\ y \in Nat /\ x <= a.stack[sb] /\ y <= b.stack[bb]
  BY <1>3, <1>6 DEF BetEffect
\* what each seat has in front of it
<1>10. \A i \in Seats :
         /\ t.bet[i] = IF i = sb THEN x ELSE IF i = bb THEN y ELSE 0
         /\ t.contributed[i] = paid[i] + t.bet[i]
         /\ t.stack[i] = s.stack[i] - paid[i] - t.bet[i]
  <2>1. ASSUME NEW i \in Seats
        PROVE  /\ a.bet[i] = 0 /\ a.contributed[i] = paid[i]
               /\ a.stack[i] = s.stack[i] - paid[i]
               /\ paid[i] \in Nat /\ s.stack[i] \in Nat
    BY <1>1, <1>2
  <2>2. ASSUME NEW i \in Seats
        PROVE  /\ b.bet[i] = IF i = sb THEN x ELSE 0
               /\ b.contributed[i] = IF i = sb THEN paid[i] + x ELSE paid[i]
               /\ b.stack[i] = IF i = sb THEN s.stack[i] - paid[i] - x
                              ELSE s.stack[i] - paid[i]
    <3>1. /\ b.stack[i] = IF i = sb THEN a.stack[sb] - x ELSE a.stack[i]
          /\ b.bet[i] = IF i = sb THEN a.bet[sb] + x ELSE a.bet[i]
          /\ b.contributed[i] = IF i = sb THEN a.contributed[sb] + x ELSE a.contributed[i]
      BY <1>3 DEF BetEffect
    <3>2. CASE i = sb
      BY <1>9, <2>1, <3>1, <3>2
    <3>3. CASE i # sb
      BY <2>1, <3>1, <3>3
    <3>. QED
      BY <3>2, <3>3
  <2>3. ASSUME NEW i \in Seats
        PROVE  /\ t.bet[i] = IF i = sb THEN x ELSE IF i = bb THEN y ELSE 0
               /\ t.contributed[i] = paid[i] + t.bet[i]
               /\ t.stack[i] = s.stack[i] - paid[i] - t.bet[i]
    <3>1. /\ t.stack[i] = IF i = bb THEN b.stack[bb] - y ELSE b.stack[i]
          /\ t.bet[i] = IF i = bb THEN b.bet[bb] + y ELSE b.bet[i]
          /\ t.contributed[i] = IF i = bb THEN b.contributed[bb] + y ELSE b.contributed[i]
      BY <1>6 DEF BetEffect
    <3>2. CASE i = bb
      BY <1>9, <2>1, <2>2, <3>1, <3>2
    <3>3. CASE i = sb
      BY <1>9, <2>1, <2>2, <3>1, <3>3
    <3>4. CASE i # sb /\ i # bb
      BY <2>1, <2>2, <3>1, <3>4
    <3>. QED
      BY <3>2, <3>3, <3>4
  <2>. QED
    BY <2>3
<1>11. \A i \in Seats : t.bet[i] <= 2 * s.smallBlind /\ t.bet[i] \in Nat
  BY <1>1, <1>7, <1>9, <1>10
<1>12. EmptySeatsClear(t)
  BY <1>1, <1>2, <1>8, <1>10 DEF EmptySeatsClear
<1>13. PotExact(t)
  <2>1. a.pot = Total(a.contributed, N)
    <3>1. \A j \in 0 .. N - 1 : paid[j] = a.contributed[j]
      BY <1>2 DEF Seats
    <3>2. Total(paid, N) = Total(a.contributed, N)
      BY <3>1, TotalSame, SeatsAssumption
    <3>. QED
      BY <1>2, <3>2
  <2>2. b.pot = Total(b.contributed, N)
    BY <1>2, <1>3, <2>1, BetPot
  <2>3. t.pot = Total(t.contributed, N)
    BY <1>3, <1>6, <2>2, BetPot
  <2>4. \A j \in Seats : paid[j] \in Nat
    OBVIOUS
  <2>. QED
    BY <2>4, <1>10, <1>11, <2>3 DEF PotExact
\* whoever has no chips left is all-in
<1>14. ASSUME NEW i \in InHand(t) \ t.allIn
       PROVE  /\ i \in Seats /\ t.stack[i] > 0 /\ s.stack[i] > ante
  <2>1. i \in s.seated /\ i \in Seats
    BY <1>1, <1>8 DEF InHand
  <2>2. a.allIn \subseteq b.allIn /\ b.allIn \subseteq t.allIn
    BY <1>3, <1>6 DEF BetEffect
  <2>3. s.stack[i] > ante
    BY <1>1, <1>2, <2>1, <2>2
  <2>4. paid[i] = ante
    BY <1>1, <1>2, <2>1, <2>3 DEF Lesser
  <2>5. t.stack[i] \in Nat
    BY <1>6, <2>1 DEF TableState
  <2>6. t.stack[i] # 0
    <3>1. SUFFICES ASSUME t.stack[i] = 0 PROVE FALSE
      OBVIOUS
    <3>2. a.stack[i] = s.stack[i] - ante
      BY <1>2, <2>1, <2>4
    <3>3. CASE i = bb
      <4>1. /\ t.stack[bb] = b.stack[bb] - y
            /\ t.allIn = IF b.stack[bb] = y THEN b.allIn \union {bb} ELSE b.allIn
        BY <1>6 DEF BetEffect
      <4>2. b.stack[bb] \in Nat
        BY <1>3 DEF TableState
      <4>3. b.stack[bb] = y
        BY <1>9, <3>1, <3>3, <4>1, <4>2
      <4>. QED
        BY <3>3, <4>1, <4>3
    <3>4. CASE i = sb
      <4>1. a.stack[i] = x
        <5>1. t.bet[i] = x
          BY <1>10, <3>4
        <5>2. t.stack[i] = s.stack[i] - ante - x
          BY <1>10, <2>1, <2>4, <5>1
        <5>3. s.stack[i] \in Nat /\ x \in Nat
          BY <1>1, <1>9, <2>1
        <5>. QED
          BY <3>1, <3>2, <5>2, <5>3
      <4>2. i \in b.allIn
        BY <1>3, <3>4, <4>1 DEF BetEffect
      <4>. QED
        BY <2>2, <4>2
    <3>5. CASE i # bb /\ i # sb
      <4>1. t.bet[i] = 0 /\ t.stack[i] = s.stack[i] - ante - 0
        BY <1>10, <2>1, <2>4, <3>5
      <4>2. s.stack[i] \in Nat
        BY <1>1, <2>1
      <4>. QED
        BY <2>3, <3>1, <4>1, <4>2
    <3>. QED
      BY <3>3, <3>4, <3>5
  <2>. QED
    BY <2>1, <2>3, <2>5, <2>6
<1>15. RoundsMatched(t)
  <2>1. InHand(t) \subseteq s.seated
    BY <1>8 DEF InHand
  <2>2. \A i \in Seats : PaidBefore(t, i) = paid[i]
    BY <1>10, <1>11 DEF PaidBefore
  <2>3. \A i \in InHand(t) : paid[i] \in Nat /\ paid[i] <= ante
    BY <1>1, <1>2, <2>1 DEF Lesser
  <2>4. \A i \in InHand(t) \ t.allIn : paid[i] = ante
    BY <1>1, <1>2, <1>14, <2>1 DEF Lesser
  <2>. QED
    BY <1>1, <2>1, <2>2, <2>3, <2>4 DEF RoundsMatched
<1>. QED
  BY <1>6, <1>8, <1>11, <1>12, <1>13, <1>14, <1>15 DEF Posted

\* The seat after a player who is not alone belongs to somebody else.
LEMMA NextIsOther ==
  ASSUME NEW s \in TableState, NEW i \in Seats, NEW j \in CanAct(s), j # i
  PROVE  /\ findNextActiveSeat(s, SeatAfter(i)) \in CanAct(s)
         /\ findNextActiveSeat(s, SeatAfter(i)) # i
<1> DEFINE n == findNextActiveSeat(s, SeatAfter(i))
<1>1. CanAct(s) \subseteq Seats /\ SeatAfter(i) \in Seats /\ CanAct(s) # {}
  BY SeatAfterType DEF CanAct, InHand, TableState
<1>2. n \in CanAct(s) /\ Clockwise(SeatAfter(i), n) <= Clockwise(SeatAfter(i), j)
  BY <1>1, NextActiveSeat
<1> HIDE DEF n
<1>3. n # i
  <2>1. SUFFICES ASSUME n = i PROVE FALSE
    OBVIOUS
  <2>2. Clockwise(SeatAfter(i), i) <= Clockwise(SeatAfter(i), j)
    BY <1>2, <2>1
  <2>3. j \in Seats
    BY <1>1
  <2>. QED
    BY <2>2, <2>3, SeatsAssumption DEF Clockwise, SeatAfter, Seats
<1>. QED
  BY <1>2, <1>3 DEF n

LEMMA StartInv ==
  ASSUME NEW s \in TableState, CleanTable(s), EmptySeatsClear(s), CanStart(s),
         NEW ante \in Nat
  PROVE  startPreFlop(s, ante) \in TableState /\ TableInv(startPreFlop(s, ante))
<1> DEFINE button  == findNextActiveSeat(s, SeatAfter(s.button))
           headsUp == \E i, j \in InHand(s) :
                        {k \in InHand(s) : s.stack[k] > 0} = {i, j}
           sb      == IF headsUp THEN button ELSE findNextActiveSeat(s, SeatAfter(button))
           bb      == findNextActiveSeat(s, SeatAfter(sb))
           anted   == IF ante > 0 THEN payAnte(s, ante) ELSE s
           posted  == payBlind(anted, sb, bb, s.smallBlind)
           utg     == findNextActiveSeat(posted, SeatAfter(bb))
           big     == 2 * s.smallBlind
           opened  == [posted EXCEPT !.button = button, !.currentBet = big,
                                     !.lastRaise = big, !.turn = utg, !.phase = "PRE_FLOP"]
<1>1. CanAct(s) = {i \in InHand(s) : s.stack[i] > 0} /\ CanAct(s) \subseteq s.seated
      /\ s.seated \subseteq Seats /\ s.button \in Seats /\ big \in Nat
  BY DEF CleanTable, CanAct, InHand, TableState
<1>2. PICK p, q \in CanAct(s) : p # q
  BY <1>1 DEF CanStart, AtMostOne
<1>3. \A i \in Seats : /\ findNextActiveSeat(s, SeatAfter(i)) \in CanAct(s)
                        /\ findNextActiveSeat(s, SeatAfter(i)) # i
  BY <1>2, NextIsOther
<1>4. button \in CanAct(s) /\ button \in Seats
  BY <1>1, <1>3
<1>5. sb \in CanAct(s) /\ sb \in Seats
  BY <1>1, <1>3, <1>4
<1>6. bb \in CanAct(s) /\ bb \in Seats /\ bb # sb
  BY <1>1, <1>3, <1>5
<1>7. startPreFlop(s, ante) = IF shouldGoToShowdown(opened) THEN ToShowdown(opened)
                              ELSE opened
  BY DEF startPreFlop
<1> HIDE DEF button, sb, bb, headsUp, anted, posted
<1>8. Posted(s, posted)
  <2>1. anted = IF ante > 0 THEN payAnte(s, ante) ELSE s
    BY DEF anted
  <2>2. posted = payBlind(anted, sb, bb, s.smallBlind)
    BY DEF posted
  <2>3. sb \in s.seated /\ bb \in s.seated
    BY <1>1, <1>5, <1>6
  <2>. QED
    BY <1>5, <1>6, <2>1, <2>2, <2>3, PostedBlinds
<1> USE <1>8 DEF Posted
<1>9. utg \in Seats \union {NoTurn}
  BY <1>6, <1>8, SeatAfterType, NextActiveSeat
<1> HIDE DEF utg, big, opened
<1>10. /\ opened \in TableState
       /\ opened.button = button /\ opened.currentBet = big /\ opened.lastRaise = big
       /\ opened.turn = utg /\ opened.phase = "PRE_FLOP"
       /\ opened.seated = posted.seated /\ opened.stack = posted.stack
       /\ opened.bet = posted.bet /\ opened.contributed = posted.contributed
       /\ opened.folded = posted.folded /\ opened.checked = posted.checked
       /\ opened.allIn = posted.allIn /\ opened.pot = posted.pot
  BY <1>1, <1>4, <1>8, <1>9 DEF TableState, Phase, Betting, opened
<1>11. EmptySeatsClear(opened) /\ PotExact(opened)
  BY <1>8, <1>10 DEF EmptySeatsClear, PotExact
<1>12. InHand(opened) = InHand(posted) /\ CanAct(opened) = CanAct(posted)
  BY <1>10 DEF InHand, CanAct
<1>13. RoundOpen(opened)
  BY <1>8, <1>10, <1>12 DEF RoundOpen, RoundsMatched, PaidBefore, big
<1>14. CASE shouldGoToShowdown(opened)
  BY <1>7, <1>10, <1>11, <1>14, ToShowdownInv
<1>15. CASE ~ shouldGoToShowdown(opened)
  <2>1. CanAct(posted) # {}
    BY <1>10, <1>12, <1>13, <1>15, StillBetting
  <2>2. utg \in CanAct(posted)
    BY <1>6, <1>8, <2>1, SeatAfterType, NextActiveSeat DEF utg
  <2>3. \A i : ~ Settled(opened, i)
    BY <1>8, <1>10 DEF Settled
  <2>4. TurnRuns(opened)
    BY <1>10, <1>12, <2>2, <2>3 DEF TurnRuns, OwingFirst
  <2>5. TableInv(opened)
    BY <1>10, <1>11, <1>13, <2>4 DEF TableInv
  <2>. QED
    BY <1>7, <1>10, <1>15, <2>5
<1>. QED
  BY <1>14, <1>15

-----------------------------------------------------------------------------
(* Seats filled and emptied.                                               *)

LEMMA InitInv ==
  ASSUME Init
  PROVE  IInv
<1>1. EmptyTable \in TableState
  BY SeatsAssumption DEF EmptyTable, TableState, Seats, Phase
<1>2. TableInv(EmptyTable)
  BY DEF EmptyTable, TableInv, EmptySeatsClear, CleanTable, Betting
<1>. QED
  BY <1>1, <1>2 DEF Init, IInv, TypeOK

Filled(s, i) ==
  [s EXCEPT !.seated         = @ \union {i},
            !.stack[i]       = StartStack,
            !.bet[i]         = 0,
            !.contributed[i] = 0,
            !.folded  = IF s.phase # "WAITING" THEN @ \union {i} ELSE @ \ {i},
            !.checked = @ \ {i},
            !.allIn   = @ \ {i}]

Emptied(s, i) == [s EXCEPT !.seated = @ \ {i}, !.stack[i] = 0]

LEMMA SitDownInv ==
  ASSUME NEW s \in TableState, TableInv(s), NEW i \in Seats, i \notin s.seated
  PROVE  Filled(s, i) \in TableState /\ TableInv(Filled(s, i))
<1> DEFINE seated == s.seated \union {i}
           stack  == [s.stack EXCEPT ![i] = StartStack]
           bet    == [s.bet EXCEPT ![i] = 0]
           contributed == [s.contributed EXCEPT ![i] = 0]
           folded  == IF s.phase # "WAITING" THEN s.folded \union {i} ELSE s.folded \ {i}
           checked == s.checked \ {i}
           allIn   == s.allIn \ {i}
           u == [s EXCEPT !.seated = seated, !.stack = stack, !.bet = bet,
                          !.contributed = contributed]
           t == [u EXCEPT !.folded = folded, !.checked = checked, !.allIn = allIn]
<1>1. Filled(s, i) = t
  BY DEF Filled
<1>2. /\ seated \in SUBSET Seats /\ folded \in SUBSET Seats
      /\ checked \in SUBSET Seats /\ allIn \in SUBSET Seats
      /\ stack \in [Seats -> Nat] /\ bet \in [Seats -> Nat]
      /\ contributed \in [Seats -> Nat]
  BY StackAssumption DEF TableState
\* an empty seat has no chips in the hand
<1>3. bet = s.bet /\ contributed = s.contributed
  <2>1. s.bet[i] = 0 /\ s.contributed[i] = 0
    BY DEF TableInv, EmptySeatsClear
  <2>2. s.bet \in [Seats -> Nat] /\ s.contributed \in [Seats -> Nat]
    BY DEF TableState
  <2>. QED
    BY <2>1, <2>2
<1>4. \A j \in Seats : stack[j] = IF j = i THEN StartStack ELSE s.stack[j]
  BY DEF TableState
<1> HIDE DEF seated, stack, bet, contributed, folded, checked, allIn, u, t
<1>5. /\ t \in TableState
      /\ t.seated = seated /\ t.stack = stack /\ t.bet = s.bet
      /\ t.contributed = s.contributed /\ t.folded = folded
      /\ t.checked = checked /\ t.allIn = allIn
      /\ t.phase = s.phase /\ t.turn = s.turn /\ t.pot = s.pot
      /\ t.currentBet = s.currentBet
  <2>1. /\ u \in TableState
        /\ u.seated = seated /\ u.stack = stack /\ u.bet = bet
        /\ u.contributed = contributed
        /\ u.phase = s.phase /\ u.turn = s.turn /\ u.pot = s.pot
        /\ u.currentBet = s.currentBet
    BY <1>2 DEF TableState, u
  <2>2. /\ t \in TableState
        /\ t.seated = u.seated /\ t.stack = u.stack /\ t.bet = u.bet
        /\ t.contributed = u.contributed /\ t.folded = folded
        /\ t.checked = checked /\ t.allIn = allIn
        /\ t.phase = u.phase /\ t.turn = u.turn /\ t.pot = u.pot
        /\ t.currentBet = u.currentBet
    BY <1>2, <2>1 DEF TableState, t
  <2>. QED
    BY <1>3, <2>1, <2>2
<1>6. EmptySeatsClear(t)
  BY <1>4, <1>5 DEF TableInv, EmptySeatsClear, seated
<1>7. CASE s.phase = "WAITING"
  <2>1. CleanTable(s)
    BY <1>7 DEF TableInv
  <2>2. folded = {} /\ checked = {} /\ allIn = {}
    BY <1>7, <2>1 DEF CleanTable, folded, checked, allIn
  <2>3. \A j \in seated : stack[j] > 0
    BY <1>4, <2>1, StackAssumption DEF CleanTable, seated, TableState
  <2>4. CleanTable(t)
    BY <1>5, <2>1, <2>2, <2>3 DEF CleanTable
  <2>5. TableInv(t)
    BY <1>5, <1>6, <1>7, <2>4 DEF TableInv, Betting
  <2>. QED
    BY <1>1, <1>5, <2>5
<1>8. CASE s.phase # "WAITING"
  <2>1. InHand(t) = InHand(s)
    BY <1>5, <1>8 DEF InHand, seated, folded
  <2>2. i \notin InHand(s) /\ InHand(s) \subseteq Seats
    BY DEF InHand, TableState
  <2>3. InHand(t) \ t.allIn = InHand(s) \ s.allIn
    BY <1>5, <2>1, <2>2 DEF allIn
  <2>4. CanAct(t) = CanAct(s)
    BY <1>4, <1>5, <2>2, <2>3 DEF CanAct
  <2>5. PotExact(s) => PotExact(t)
    BY <1>5 DEF PotExact
  <2>6. RoundOpen(s) => RoundOpen(t)
    <3>1. RoundsMatched(s) => RoundsMatched(t)
      <4>1. \A j \in InHand(s) : j \in t.allIn <=> j \in s.allIn
        BY <1>5, <2>2 DEF allIn
      <4>. QED
        BY <1>5, <2>1, <2>3, <4>1 DEF RoundsMatched, PaidBefore
    <3>. QED
      BY <1>4, <1>5, <2>2, <2>3, <3>1 DEF RoundOpen
  <2>7. \A j \in CanAct(s) : Settled(t, j) <=> Settled(s, j)
    BY <1>5, <2>2 DEF Settled, CanAct, checked
  <2>8. TurnRuns(s) => TurnRuns(t)
    BY <1>5, <2>4, <2>7 DEF TurnRuns, OwingFirst
  <2>9. TableInv(t)
    BY <1>5, <1>6, <1>8, <2>5, <2>6, <2>8 DEF TableInv
  <2>. QED
    BY <1>1, <1>5, <2>9
<1>. QED
  BY <1>7, <1>8

LEMMA StandUpInv ==
  ASSUME NEW s \in TableState, TableInv(s), NEW i \in s.seated, s.phase = "WAITING"
  PROVE  Emptied(s, i) \in TableState /\ TableInv(Emptied(s, i))
<1> DEFINE seated == s.seated \ {i}
           stack  == [s.stack EXCEPT ![i] = 0]
           t      == Emptied(s, i)
<1>1. t = [s EXCEPT !.seated = seated, !.stack = stack]
  BY DEF Emptied
<1>2. seated \in SUBSET Seats /\ stack \in [Seats -> Nat] /\ i \in Seats
  BY DEF TableState
<1>3. \A j \in Seats : stack[j] = IF j = i THEN 0 ELSE s.stack[j]
  BY DEF TableState
<1> HIDE DEF seated, stack, t
<1>4. /\ t \in TableState
      /\ t.seated = seated /\ t.stack = stack /\ t.bet = s.bet
      /\ t.contributed = s.contributed /\ t.folded = s.folded
      /\ t.checked = s.checked /\ t.allIn = s.allIn
      /\ t.phase = s.phase /\ t.pot = s.pot
  BY <1>1, <1>2 DEF TableState
<1>5. CleanTable(s) /\ EmptySeatsClear(s)
  BY DEF TableInv
<1>6. EmptySeatsClear(t)
  BY <1>3, <1>4, <1>5 DEF EmptySeatsClear, CleanTable, seated
<1>7. CleanTable(t)
  <2>1. \A j \in seated : stack[j] > 0
    BY <1>2, <1>3, <1>5 DEF CleanTable, seated
  <2>. QED
    BY <1>4, <1>5, <2>1 DEF CleanTable
<1>. QED
  BY <1>4, <1>6, <1>7 DEF TableInv, Betting, t

-----------------------------------------------------------------------------
(* The end of a hand.                                                      *)

LEMMA ResolveInv ==
  ASSUME NEW s \in TableState, TableInv(s), s.phase = "SHOWDOWN", NEW rank
  PROVE  resolveWinner(s, rank) \in TableState /\ TableInv(resolveWinner(s, rank))
<1> DEFINE u == refundUncalledBets(s)
           stack == [i \in Seats |-> u.stack[i] + Winnings(u, rank, i)]
           t == resolveWinner(s, rank)
<1>1. s.pot = Total(s.contributed, N) /\ EmptySeatsClear(s)
  BY DEF TableInv, PotExact
<1>2. u \in TableState
  BY <1>1, RefundLemma
<1>3. PICK refund \in [Seats -> Nat] : RefundEffect(s, u, refund)
  BY <1>1, RefundLemma
<1>4. t = [u EXCEPT !.stack = stack, !.pot = 0, !.sidePots = {}, !.phase = "HAND_END",
                    !.folded = {}, !.checked = {}, !.allIn = {}]
  <2>1. [i \in Seats |-> u.stack[i] + Winnings(u, rank, i)] = stack
    OBVIOUS
  <2>. QED
    BY DEF resolveWinner
<1> HIDE DEF u
<1>5. \A i \in Seats : u.stack[i] \in Nat /\ Winnings(u, rank, i) \in Nat
                       /\ (i \notin u.seated => Winnings(u, rank, i) = 0)
  BY <1>2, WinningsType DEF TableState
<1>6. stack \in [Seats -> Nat]
  BY <1>5
<1>7. \A i \in Seats : stack[i] = u.stack[i] + Winnings(u, rank, i)
  OBVIOUS
<1> HIDE DEF stack, t
<1>8. /\ t \in TableState
      /\ t.stack = stack /\ t.phase = "HAND_END" /\ t.seated = u.seated
      /\ t.bet = u.bet /\ t.contributed = u.contributed
  <2> DEFINE v == [u EXCEPT !.stack = stack, !.pot = 0, !.sidePots = {},
                            !.phase = "HAND_END"]
  <2>1. t = [v EXCEPT !.folded = {}, !.checked = {}, !.allIn = {}]
    BY <1>4
  <2> HIDE DEF v
  <2>2. /\ v \in TableState
        /\ v.stack = stack /\ v.phase = "HAND_END" /\ v.seated = u.seated
        /\ v.bet = u.bet /\ v.contributed = u.contributed
    BY <1>2, <1>6 DEF TableState, Phase, v
  <2>. QED
    BY <2>1, <2>2 DEF TableState
<1>9. EmptySeatsClear(t)
  <2>1. ASSUME NEW i \in Seats \ t.seated
        PROVE  t.stack[i] = 0 /\ t.bet[i] = 0 /\ t.contributed[i] = 0
    <3>1. i \in Seats /\ i \notin s.seated /\ i \notin u.seated
      BY <1>3, <1>8 DEF RefundEffect, OnlyChipsMoved
    <3>2. refund[i] = 0
      BY <1>3, <3>1, UncalledRange DEF RefundEffect
    <3>3. s.stack[i] = 0 /\ s.bet[i] = 0 /\ s.contributed[i] = 0
      BY <1>1, <3>1 DEF EmptySeatsClear
    <3>4. u.stack[i] = 0 /\ u.bet[i] = 0 /\ u.contributed[i] = 0
      BY <1>3, <3>1, <3>2, <3>3 DEF RefundEffect
    <3>. QED
      BY <1>5, <1>7, <1>8, <3>1, <3>4
  <2>. QED
    BY <2>1 DEF EmptySeatsClear
<1>10. TableInv(t)
  BY <1>8, <1>9 DEF TableInv, Betting
<1>. QED
  BY <1>8, <1>10 DEF t

LEMMA RebuyInv ==
  ASSUME NEW s \in TableState, TableInv(s), s.phase = "HAND_END", NEW i \in s.seated
  PROVE  /\ applyRebuy(s, i, StartStack) \in TableState
         /\ TableInv(applyRebuy(s, i, StartStack))
<1> DEFINE stack  == [s.stack EXCEPT ![i] = @ + StartStack]
           bet    == [s.bet EXCEPT ![i] = 0]
           folded == s.folded \ {i}
           allIn  == s.allIn \ {i}
           t      == applyRebuy(s, i, StartStack)
<1>1. t = [s EXCEPT !.stack = stack, !.bet = bet, !.folded = folded, !.allIn = allIn]
  BY DEF applyRebuy
<1>2. /\ stack \in [Seats -> Nat] /\ bet \in [Seats -> Nat]
      /\ folded \in SUBSET Seats /\ allIn \in SUBSET Seats
      /\ i \in Seats
  BY StackAssumption DEF TableState
<1>3. \A j \in Seats \ {i} : stack[j] = s.stack[j] /\ bet[j] = s.bet[j]
  BY DEF TableState
<1> HIDE DEF stack, bet, folded, allIn, t
<1>4. /\ t \in TableState
      /\ t.stack = stack /\ t.bet = bet /\ t.seated = s.seated
      /\ t.contributed = s.contributed /\ t.phase = s.phase
  BY <1>1, <1>2 DEF TableState
<1>5. TableInv(t)
  BY <1>3, <1>4 DEF TableInv, EmptySeatsClear, Betting
<1>. QED
  BY <1>4, <1>5 DEF t

LEMMA FinishInv ==
  ASSUME NEW s \in TableState, TableInv(s)
  PROVE  initTable(s) \in TableState /\ TableInv(initTable(s))
<1> DEFINE seated == {i \in s.seated : s.stack[i] > 0}
           none   == [i \in Seats |-> 0]
           u == [s EXCEPT !.seated = seated, !.bet = none, !.contributed = none,
                          !.folded = {}, !.checked = {}, !.allIn = {}]
           t == [u EXCEPT !.pot = 0, !.currentBet = 0, !.lastRaise = 0,
                          !.sidePots = {}, !.phase = "WAITING"]
<1>1. initTable(s) = t
  BY DEF initTable
<1>2. /\ seated \in SUBSET Seats /\ none \in [Seats -> Nat]
      /\ \A i \in Seats : none[i] = 0
      /\ \A i \in seated : s.stack[i] > 0
      /\ \A i \in Seats \ seated : s.stack[i] = 0
  BY DEF TableState, TableInv, EmptySeatsClear
<1> HIDE DEF seated, none, u, t
<1>3. /\ u \in TableState
      /\ u.seated = seated /\ u.bet = none /\ u.contributed = none
      /\ u.folded = {} /\ u.checked = {} /\ u.allIn = {} /\ u.stack = s.stack
  BY <1>2 DEF TableState, u
<1>4. /\ t \in TableState
      /\ t.seated = u.seated /\ t.bet = u.bet /\ t.contributed = u.contributed
      /\ t.folded = u.folded /\ t.checked = u.checked /\ t.allIn = u.allIn
      /\ t.stack = u.stack /\ t.pot = 0 /\ t.phase = "WAITING"
  BY <1>3 DEF TableState, Phase, t
<1>5. EmptySeatsClear(t) /\ CleanTable(t)
  BY <1>2, <1>3, <1>4 DEF EmptySeatsClear, CleanTable
<1>6. TableInv(t)
  BY <1>4, <1>5 DEF TableInv, Betting
<1>. QED
  BY <1>1, <1>4, <1>6

-----------------------------------------------------------------------------
(* The theorems.                                                           *)

LEMMA ActInv ==
  ASSUME NEW s \in TableState, TableInv(s), NEW i \in Seats,
         NEW action \in DealerActions \union PlayerActions, NEW amount \in Nat,
         CanDo(s, i, action, amount)
  PROVE  /\ act(s, i, action, amount) \in TableState
         /\ TableInv(act(s, i, action, amount))
<1>1. ToAct(s, i)
  BY DEF CanDo, TableInv, ToAct
<1>2. MidAct(applyAction(s, i, action, amount), i)
  BY <1>1, ApplyMid
<1>. QED
  BY <1>2, AdvanceInv DEF act

LEMMA StartHandInv ==
  ASSUME NEW s \in TableState, TableInv(s), s.phase = "WAITING", CanStart(s),
         NEW level \in BlindLevels
  PROVE  LET t == startPreFlop([s EXCEPT !.smallBlind = level.sb], level.ante)
         IN  t \in TableState /\ TableInv(t)
<1> DEFINE sb == level.sb
           u  == [s EXCEPT !.smallBlind = sb]
<1>1. sb \in Nat /\ level.ante \in Nat
  BY BlindAssumption
<1> HIDE DEF sb
<1>2. /\ u \in TableState
      /\ u.seated = s.seated /\ u.stack = s.stack /\ u.bet = s.bet
      /\ u.contributed = s.contributed /\ u.folded = s.folded
      /\ u.checked = s.checked /\ u.allIn = s.allIn /\ u.pot = s.pot
  BY <1>1 DEF TableState
<1> HIDE DEF u
<1>3. CleanTable(u) /\ EmptySeatsClear(u)
  BY <1>2 DEF TableInv, CleanTable, EmptySeatsClear
<1>4. CanStart(u)
  BY <1>2 DEF CanStart, InHand
<1>5. startPreFlop(u, level.ante) \in TableState /\ TableInv(startPreFlop(u, level.ante))
  BY <1>1, <1>2, <1>3, <1>4, StartInv
<1>. QED
  BY <1>5 DEF u, sb

\* Every step of every hand keeps the inductive invariant.
LEMMA NextInv ==
  ASSUME IInv, [Next]_vars
  PROVE  IInv'
<1>1. table \in TableState /\ TableInv(table) /\ issued \in Int
  BY DEF IInv, TypeOK
<1>2. SUFFICES table' \in TableState /\ TableInv(table') /\ issued' \in Int
  BY DEF IInv, TypeOK, TableInv, EmptySeatsClear, CleanTable, PotExact, RoundOpen,
         RoundsMatched, PaidBefore, TurnRuns, OwingFirst, Settled, InHand, CanAct
<1>3. ASSUME NEW i \in Seats, SitDown(i)
      PROVE  table' \in TableState /\ TableInv(table') /\ issued' \in Int
  <2>1. table' = Filled(table, i) /\ i \notin table.seated
        /\ issued' = issued + StartStack
    BY <1>3 DEF SitDown, Filled
  <2>2. Filled(table, i) \in TableState /\ TableInv(Filled(table, i))
    BY <1>1, <2>1, SitDownInv
  <2>. QED
    BY <1>1, <2>1, <2>2, StackAssumption
<1>4. ASSUME NEW i \in Seats, StandUp(i)
      PROVE  table' \in TableState /\ TableInv(table') /\ issued' \in Int
  <2>1. table.stack[i] \in Nat
    BY <1>1 DEF TableState
  <2>2. table' = Emptied(table, i) /\ i \in table.seated /\ table.phase = "WAITING"
        /\ issued' = issued - table.stack[i]
    BY <1>4 DEF StandUp, Emptied
  <2>3. Emptied(table, i) \in TableState /\ TableInv(Emptied(table, i))
    BY <1>1, <2>2, StandUpInv
  <2>. QED
    BY <1>1, <2>1, <2>2, <2>3
<1>5. ASSUME NEW level \in BlindLevels, StartHand(level)
      PROVE  table' \in TableState /\ TableInv(table') /\ issued' \in Int
  BY <1>1, <1>5, StartHandInv DEF StartHand
<1>6. ASSUME NEW i \in Seats, TimeOut(i) \/ PlayerActs(i) \/ DealerRemoves(i)
      PROVE  table' \in TableState /\ TableInv(table') /\ issued' \in Int
  <2>1. PICK action \in DealerActions \union PlayerActions, amount \in Nat :
          Act(i, action, amount)
    <3>1. \A amount \in RaiseAmounts(i) : amount \in Nat
      BY DEF RaiseAmounts
    <3>. QED
      BY <1>6, <3>1 DEF TimeOut, PlayerActs, DealerRemoves, DealerActions, PlayerActions
  <2>. QED
    BY <1>1, <2>1, ActInv DEF Act
<1>7. ASSUME NEW rank \in [Seats -> 0 .. N], Resolve(rank)
      PROVE  table' \in TableState /\ TableInv(table') /\ issued' \in Int
  BY <1>1, <1>7, ResolveInv DEF Resolve, CanResolve
<1>8. ASSUME NEW i \in Seats, Rebuy(i)
      PROVE  table' \in TableState /\ TableInv(table') /\ issued' \in Int
  BY <1>1, <1>8, RebuyInv, StackAssumption DEF Rebuy
<1>9. CASE FinishHand
  BY <1>1, <1>9, FinishInv DEF FinishHand
<1>10. CASE UNCHANGED vars
  BY <1>1, <1>10 DEF vars
<1>. QED
  BY <1>3, <1>4, <1>5, <1>6, <1>7, <1>8, <1>9, <1>10 DEF Next

\* The inductive invariant holds in every reachable state of a table: the clock
\* and the players can never be left waiting for a seat that owes nothing.
THEOREM Invariance == Spec => []IInv
<1>1. Init => IInv
  BY InitInv
<1>2. IInv /\ [Next]_vars => IInv'
  BY NextInv
<1>. QED
  BY <1>1, <1>2, PTL DEF Spec

\* Every engine call maps snapshots to snapshots (chips stay natural numbers,
\* the turn is a seat or -1) for any number of seats, any blinds, any stacks.
THEOREM TypeCorrect == Spec => []TypeOK
<1>1. IInv => TypeOK
  BY DEF IInv
<1>. QED
  BY <1>1, Invariance, PTL

\* While betting is open the player on turn can act and still owes an action;
\* at showdown nobody is on turn (findNextActiveSeat, act, startPreFlop).
THEOREM TurnIsLive == Spec => []TurnOwnerCanAct
<1>1. IInv => TurnOwnerCanAct
  BY DEF IInv, TableInv, TurnOwnerCanAct, TurnRuns
<1>. QED
  BY <1>1, Invariance, PTL

\* The pot is the sum of the contributions while a hand runs, so refunds and
\* side pots, which are computed from the contributions, divide the real pot.
THEOREM PotIsExact == Spec => []PotIsContributions
<1>1. IInv => PotIsContributions
  BY DEF IInv, TableInv, PotIsContributions, HandRunning, PotExact
<1>. QED
  BY <1>1, Invariance, PTL

\* Everybody still in has paid the same in each finished betting round, and an
\* all-in player no more (shouldGoToNextPhase, payAnte, handleRaise).
THEOREM RoundsAreMatched == Spec => []EarlierRoundsMatched
<1>1. IInv => EarlierRoundsMatched
  BY DEF IInv, TableInv, EarlierRoundsMatched, RoundOpen
<1>. QED
  BY <1>1, Invariance, PTL

-----------------------------------------------------------------------------
(* The odd chips of a split pot.                                           *)

One(S)   == [j \in Seats |-> IF j \in S THEN 1 ELSE 0]
Count(S) == Total(One(S), N)

\* those of S before seat i, clockwise from `first'
Ahead(S, first, i) == {j \in S : Clockwise(first, j) < Clockwise(first, i)}

\* An odd chip for everybody with fewer than r of S ahead of him.
OddOnes(S, first, r) ==
  [i \in Seats |-> IF i \in S /\ Count(Ahead(S, first, i)) < r THEN 1 ELSE 0]

\* Nobody counts for nothing.
LEMMA CountEmpty ==
  ASSUME NEW S \in SUBSET Seats
  PROVE  /\ Count(S) \in Nat
         /\ Count(S) = 0 <=> S = {}
<1>1. /\ N \in Nat
      /\ \A j \in 0 .. N - 1 : One(S)[j] = IF j \in S THEN 1 ELSE 0
      /\ S \subseteq 0 .. N - 1
  BY SeatsAssumption DEF One, Seats
<1>2. Total(One(S), N) \in Nat
  BY <1>1, TotalNat
<1>3. S = {} => Total(One(S), N) = 0
  BY <1>1, TotalZero
<1>4. ASSUME NEW i \in S PROVE Total(One(S), N) >= 1
  <2>1. i \in 0 .. N - 1 /\ One(S)[i] = 1 /\ \A j \in 0 .. N - 1 : One(S)[j] \in Nat
    BY <1>1
  <2> QED
    BY <1>1, <1>2, <2>1, TotalMember
<1> QED
  BY <1>2, <1>3, <1>4 DEF Count

\* Without one of its members a set counts one less.
LEMMA CountWithout ==
  ASSUME NEW S \in SUBSET Seats, NEW m \in S
  PROVE  Count(S) = Count(S \ {m}) + 1
<1>1. N \in Nat /\ m \in 0 .. N - 1
  BY SeatsAssumption DEF Seats
<1> DEFINE f == One(S \ {m})
           g == One(S)
<1>2. /\ \A j \in 0 .. N - 1 : f[j] \in Int
      /\ \A j \in 0 .. N - 1 : g[j] = IF j = m THEN f[j] + 1 ELSE f[j]
  BY DEF One, Seats
<1>3. 1 \in Int
  OBVIOUS
<1> HIDE DEF f, g
<1>4. Total(g, N) = Total(f, N) + 1
  BY <1>1, <1>2, <1>3, TotalUpdate
<1> QED
  BY <1>4 DEF Count, f, g

\* Nobody is as far from a seat as somebody else.
LEMMA ClockwiseInjective ==
  ASSUME NEW i \in Seats, NEW j \in Seats, NEW k \in Seats,
         Clockwise(i, j) = Clockwise(i, k)
  PROVE  j = k
BY SeatsAssumption DEF Clockwise, Seats

\* The last one clockwise.
LEMMA LastClockwise ==
  ASSUME NEW S \in SUBSET Seats, S # {}, NEW start \in Seats
  PROVE  \E m \in S : \A j \in S \ {m} : Clockwise(start, j) < Clockwise(start, m)
<1> DEFINE D == {Clockwise(start, i) : i \in S}
<1>1. D \subseteq Nat /\ D # {} /\ N \in Nat /\ \A d \in D : d <= N
  BY ClockwiseRange, SeatsAssumption
<1> HIDE DEF D
<1>2. PICK d \in D : \A e \in D : e <= d
  BY <1>1, GreatestNumber
<1>3. PICK m \in S : d = Clockwise(start, m)
  BY DEF D
<1>4. ASSUME NEW j \in S \ {m} PROVE Clockwise(start, j) < Clockwise(start, m)
  <2>1. Clockwise(start, j) <= Clockwise(start, m)
    BY <1>2, <1>3 DEF D
  <2>2. Clockwise(start, j) # Clockwise(start, m)
    BY ClockwiseInjective
  <2>3. Clockwise(start, j) \in Int /\ Clockwise(start, m) \in Int
    BY ClockwiseRange
  <2> QED
    BY <2>1, <2>2, <2>3
<1> QED
  BY <1>4

\* r odd chips go to r winners, if there are so many.
LEMMA OddOnesCount ==
  ASSUME NEW first \in Seats, NEW r \in Nat
  PROVE  \A S \in SUBSET Seats : Total(OddOnes(S, first, r), N) = Lesser(r, Count(S))
<1> DEFINE T == {c \in Nat : \A S \in SUBSET Seats :
                   Count(S) = c => Total(OddOnes(S, first, r), N) = Lesser(r, c)}
<1>0. N \in Nat
  BY SeatsAssumption
<1>1. 0 \in T
  <2>1. SUFFICES ASSUME NEW S \in SUBSET Seats, Count(S) = 0
                 PROVE  Total(OddOnes(S, first, r), N) = Lesser(r, 0)
    OBVIOUS
  <2>2. S = {}
    BY <2>1, CountEmpty
  <2>3. \A i \in 0 .. N - 1 : OddOnes(S, first, r)[i] = 0
    BY <2>2 DEF OddOnes, Seats
  <2> QED
    BY <1>0, <2>3, TotalZero DEF Lesser
<1>2. ASSUME NEW c \in Nat, c \in T
      PROVE  c + 1 \in T
  <2>1. SUFFICES ASSUME NEW S \in SUBSET Seats, Count(S) = c + 1
                 PROVE  Total(OddOnes(S, first, r), N) = Lesser(r, c + 1)
    OBVIOUS
  <2>2. S # {}
    BY <2>1, CountEmpty
  <2>3. PICK m \in S : \A j \in S \ {m} : Clockwise(first, j) < Clockwise(first, m)
    BY <2>2, LastClockwise
  <2> DEFINE R == S \ {m}
  <2>4. R \in SUBSET Seats /\ Count(R) \in Nat /\ Count(R) = c
    BY <2>1, CountWithout, CountEmpty
  <2>5. Total(OddOnes(R, first, r), N) = Lesser(r, c)
    BY <1>2, <2>4
  <2>6. \A i, j \in Seats : Clockwise(first, i) \in Int
    BY ClockwiseRange
  <2>7. Ahead(S, first, m) = R
    BY <2>3, <2>6 DEF Ahead
  <2>8. \A i \in R : Ahead(S, first, i) = Ahead(R, first, i)
    BY <2>3, <2>6 DEF Ahead
  <2> DEFINE d == IF c < r THEN 1 ELSE 0
             f == OddOnes(R, first, r)
             g == OddOnes(S, first, r)
  <2>9. /\ \A i \in 0 .. N - 1 : f[i] \in Int
        /\ \A i \in 0 .. N - 1 : g[i] = IF i = m THEN f[i] + d ELSE f[i]
    BY <2>4, <2>7, <2>8 DEF OddOnes, Seats
  <2>10. m \in 0 .. N - 1 /\ d \in Int
    BY DEF Seats
  <2>11. Total(g, N) = Total(f, N) + d
    <3> HIDE DEF R, d, f, g
    <3> QED
      BY <1>0, <2>9, <2>10, TotalUpdate
  <2> QED
    BY <2>5, <2>11 DEF Lesser
<1>3. Nat \subseteq T
  <2> HIDE DEF T
  <2> QED
    BY <1>1, <1>2, InductionOnSet
<1> QED
  BY <1>3, CountEmpty

\* A pot with winners is divided among them without a chip left over.
LEMMA SplitPotAll ==
  ASSUME NEW s \in TableState, NEW amount \in Nat, NEW winners \in SUBSET Seats, winners # {},
         NEW g, \A i \in Seats : g[i] = splitPot(s, amount, winners, i)
  PROVE  Total(g, N) = amount
<1> DEFINE first == SeatAfter(s.button)
           count == Count(winners)
           share == amount \div count
           r     == amount % count
           even  == [i \in Seats |-> IF i \in winners THEN share ELSE 0]
           odd   == OddOnes(winners, first, r)
<1>1. first \in Seats /\ N \in Nat
  BY SeatAfterType, SeatsAssumption DEF TableState
<1>2. count \in Nat /\ count > 0
  BY CountEmpty
<1>3. share \in Nat /\ r \in Nat /\ r <= count /\ amount = count * share + r
  <2> HIDE DEF count
  <2> QED
    BY <1>2, Division
<1>4. Total(odd, N) = r
  <2>1. Total(odd, N) = Lesser(r, count)
    BY <1>1, <1>3, OddOnesCount
  <2> HIDE DEF r, count, odd
  <2> QED
    BY <1>3, <2>1 DEF Lesser
<1>5. \A i \in Seats : OddChipOrder(s, winners, i) = Count(Ahead(winners, first, i))
  <2>1. SUFFICES ASSUME NEW i \in Seats
                 PROVE  OddChipOrder(s, winners, i) = Count(Ahead(winners, first, i))
    OBVIOUS
  <2>2. [j \in Seats |-> IF j \in winners /\ Clockwise(first, j) < Clockwise(first, i)
                         THEN 1 ELSE 0] = One(Ahead(winners, first, i))
    BY DEF One, Ahead
  <2> QED
    BY <2>2 DEF OddChipOrder, Count
<1>6. \A i \in Seats : splitPot(s, amount, winners, i)
                         = IF i \notin winners THEN 0
                           ELSE share + (IF OddChipOrder(s, winners, i) < r THEN 1 ELSE 0)
  BY DEF splitPot, Count, One
<1>7. \A i \in 0 .. N - 1 : even[i] \in Int /\ odd[i] \in Int /\ g[i] = even[i] + odd[i]
  <2> HIDE DEF first, share, r
  <2> QED
    BY <1>3, <1>5, <1>6 DEF OddOnes, Seats
<1>8. Total(g, N) = Total(even, N) + Total(odd, N)
  <2> HIDE DEF even, odd
  <2> QED
    BY <1>1, <1>7, TotalPlus
<1>9. Total(even, N) = count * share
  <2> HIDE DEF share
  <2>1. \A m \in Nat : m <= N => Total(even, m) = Total(One(winners), m) * share
    <3> DEFINE T == {m \in Nat : m <= N =>
                       /\ Total(even, m) = Total(One(winners), m) * share
                       /\ Total(One(winners), m) \in Int}
    <3>1. 0 \in T
      BY <1>3, TotalEmpty
    <3>2. ASSUME NEW m \in Nat, m \in T, m + 1 <= N
          PROVE  m + 1 \in T
      <4>1. m \in Seats
        BY <1>1, <3>2 DEF Seats
      <4>2. Total(even, m + 1) = Total(even, m) + even[m]
        BY TotalStep
      <4>3. Total(One(winners), m + 1) = Total(One(winners), m) + One(winners)[m]
        BY TotalStep
      <4>4. One(winners)[m] = (IF m \in winners THEN 1 ELSE 0)
            /\ even[m] = (IF m \in winners THEN share ELSE 0)
        BY <4>1 DEF One
      <4> HIDE DEF even
      <4>5. /\ Total(even, m) = Total(One(winners), m) * share
            /\ Total(One(winners), m) \in Int
        BY <1>1, <3>2
      <4>6. CASE m \in winners
        <5>1. (Total(One(winners), m) + 1) * share = Total(One(winners), m) * share + share
          BY <1>3, <4>5
        <5> QED
          BY <4>2, <4>3, <4>4, <4>5, <4>6, <5>1
      <4>7. CASE m \notin winners
        BY <1>3, <4>2, <4>3, <4>4, <4>5, <4>7
      <4> QED
        BY <4>6, <4>7
    <3>3. \A m \in Nat : m \in T => m + 1 \in T
      <4>1. \A m \in Nat : ~ (m + 1 <= N) => m + 1 \in T
        OBVIOUS
      <4> HIDE DEF T
      <4> QED
        BY <3>2, <4>1
    <3>4. Nat \subseteq T
      <4> HIDE DEF T
      <4> QED
        BY <3>1, <3>3, InductionOnSet
    <3> QED
      BY <3>4
  <2> HIDE DEF even
  <2> QED
    BY <1>1, <2>1 DEF Count
<1> HIDE DEF even, odd, share, r, count
<1> QED
  BY <1>3, <1>4, <1>8, <1>9

-----------------------------------------------------------------------------
(* The layers of the pot.                                                  *)

\* what a contribution of c chips puts into the layer of a level
Layer(s, c, level) ==
  Greater(0, (IF IsTopLevel(s, level) THEN c ELSE Lesser(c, level)) - LevelBelow(s, level))

\* what it puts into the layers up to a level, one seat standing for each
LayersUpTo(s, c, level) ==
  [k \in Seats |-> IF k \in LevelSeats(s) /\ s.contributed[k] <= level
                   THEN Layer(s, c, s.contributed[k]) ELSE 0]

\* A seat's part in a layer is a number of chips.
LEMMA LayerType ==
  ASSUME NEW s \in TableState, NEW c \in Nat, NEW level \in Nat
  PROVE  Layer(s, c, level) \in Nat
BY LevelBelowType DEF Layer, Greater, Lesser

\* Each level has one seat.
LEMMA SeatOfLevel ==
  ASSUME NEW s \in TableState, NEW level \in Levels(s)
  PROVE  \E k \in LevelSeats(s) : \A j \in LevelSeats(s) : s.contributed[j] = level <=> j = k
<1> DEFINE D == {i \in Contenders(s) : s.contributed[i] = level}
<1>1. D \subseteq Nat /\ D # {} /\ LevelSeats(s) \subseteq Nat
  BY SeatsAssumption
  DEF Levels, LevelSeats, Contenders, Contributors, TableState, Seats
<1>2. PICK k \in D : \A j \in D : ~ (j < k)
  BY <1>1, LeastNumber
<1>3. k \in LevelSeats(s)
  BY <1>1, <1>2 DEF LevelSeats
<1>4. ASSUME NEW j \in LevelSeats(s), s.contributed[j] = level PROVE j = k
  <2>1. j <= k /\ k <= j
    BY <1>2, <1>3, <1>4 DEF LevelSeats
  <2> QED
    BY <1>1, <1>3, <2>1
<1> QED
  BY <1>2, <1>3, <1>4

\* Up to a level lie the chips of a contribution that fit under it, and under the top all of them.
LEMMA LayersAddUp ==
  ASSUME NEW s \in TableState, NEW c \in Nat
  PROVE  \A level \in Levels(s) :
           Total(LayersUpTo(s, c, level), N)
             = IF IsTopLevel(s, level) THEN c ELSE Lesser(c, level)
<1> DEFINE Fits(level) == IF IsTopLevel(s, level) THEN c ELSE Lesser(c, level)
           T == {n \in Nat : \A level \in Levels(s) :
                   level <= n => Total(LayersUpTo(s, c, level), N) = Fits(level)}
<1>0. /\ N \in Nat /\ Levels(s) \subseteq Nat /\ LevelSeats(s) \subseteq Seats
      /\ \A k \in Seats : s.contributed[k] \in Nat
      /\ \A k \in LevelSeats(s) : s.contributed[k] \in Levels(s)
      /\ \A level \in Levels(s) : level > 0
  BY SeatsAssumption, LevelsAreChips
  DEF LevelSeats, Levels, Contenders, Contributors, TableState
<1>1. ASSUME NEW level \in Levels(s),
             \A m \in Levels(s) : m < level => Total(LayersUpTo(s, c, m), N) = Fits(m)
      PROVE  Total(LayersUpTo(s, c, level), N) = Fits(level)
  <2> DEFINE b == LevelBelow(s, level)
             f == LayersUpTo(s, c, b)
             g == LayersUpTo(s, c, level)
             d == Layer(s, c, level)
  <2>1. /\ level \in Nat /\ b \in Nat /\ b \in Levels(s) \union {0} /\ b <= level
        /\ \A m \in Levels(s) : m < level => m <= b
    BY <1>0, LevelBelowType
  <2>2. b < level
    BY <1>0, <2>1 DEF LevelBelow
  <2>3. Total(f, N) = Lesser(c, b)
    <3>1. CASE b \in Levels(s)
      <4>1. ~ IsTopLevel(s, b)
        BY <2>1, <2>2 DEF IsTopLevel
      <4> HIDE DEF b, f
      <4>2. Total(LayersUpTo(s, c, b), N) = Lesser(c, b)
        BY <1>1, <2>2, <3>1, <4>1
      <4> QED
        BY <4>2 DEF f
    <3>2. CASE b \notin Levels(s)
      <4>1. b = 0
        BY <2>1, <3>2
      <4> HIDE DEF b
      <4>2. \A k \in 0 .. N - 1 : f[k] = 0
        <5>1. \A k \in LevelSeats(s) : ~ (s.contributed[k] <= 0)
          BY <1>0
        <5> QED
          BY <4>1, <5>1 DEF LayersUpTo, Seats
      <4> HIDE DEF f
      <4>3. Total(f, N) = 0
        BY <1>0, <4>2, TotalZero
      <4> QED
        BY <4>1, <4>3 DEF Lesser
    <3> QED
      BY <3>1, <3>2
  <2>4. PICK k \in LevelSeats(s) :
               \A j \in LevelSeats(s) : s.contributed[j] = level <=> j = k
    BY SeatOfLevel
  <2>5. d \in Nat
    BY <2>1, LayerType
  <2>6. \A j \in LevelSeats(s) :
           s.contributed[j] <= level <=> s.contributed[j] <= b \/ j = k
    <3> HIDE DEF b
    <3> QED
      BY <1>0, <2>1, <2>2, <2>4
  <2>7. ~ (s.contributed[k] <= b)
    <3> HIDE DEF b
    <3> QED
      BY <2>1, <2>2, <2>4
  <2>8. \A j \in Seats : /\ f[j] \in Int
                         /\ g[j] = IF j = k THEN f[j] + d ELSE f[j]
    <3>1. SUFFICES ASSUME NEW j \in Seats
                   PROVE  f[j] \in Int /\ g[j] = IF j = k THEN f[j] + d ELSE f[j]
      OBVIOUS
    <3>2. /\ f[j] = IF j \in LevelSeats(s) /\ s.contributed[j] <= b
                    THEN Layer(s, c, s.contributed[j]) ELSE 0
          /\ g[j] = IF j \in LevelSeats(s) /\ s.contributed[j] <= level
                    THEN Layer(s, c, s.contributed[j]) ELSE 0
      BY DEF LayersUpTo
    <3>3. Layer(s, c, s.contributed[j]) \in Nat
      BY <1>0, LayerType
    <3>4. j = k => Layer(s, c, s.contributed[j]) = d
      BY <2>4
    <3> HIDE DEF f, g, d, b
    <3> QED
      BY <2>4, <2>5, <2>6, <2>7, <3>2, <3>3, <3>4
  <2>9. Total(g, N) = Total(f, N) + d
    <3>1. /\ \A j \in 0 .. N - 1 : f[j] \in Int
          /\ \A j \in 0 .. N - 1 : g[j] = IF j = k THEN f[j] + d ELSE f[j]
      <4> HIDE DEF f, g, d
      <4> QED
        BY <2>8 DEF Seats
    <3>2. k \in 0 .. N - 1
      BY <1>0, <2>4 DEF Seats
    <3>3. d \in Int
      <4> HIDE DEF d
      <4> QED
        BY <2>5
    <3>4. N \in Nat
      BY <1>0
    <3> HIDE DEF f, g, d
    <3> QED
      BY <3>1, <3>2, <3>3, <3>4, TotalUpdate
  <2>10. Lesser(c, b) + d = Fits(level)
    <3> HIDE DEF b
    <3>1. d = Greater(0, Fits(level) - b)
      BY DEF Layer, b
    <3> HIDE DEF d
    <3> QED
      BY <2>1, <2>2, <3>1 DEF Lesser, Greater
  <2> HIDE DEF f, g, d, b, Fits
  <2> QED
    BY <2>3, <2>9, <2>10 DEF g
<1>2. 0 \in T
  BY <1>0
<1>3. ASSUME NEW n \in Nat, n \in T
      PROVE  n + 1 \in T
  <2>1. SUFFICES ASSUME NEW level \in Levels(s), level <= n + 1
                 PROVE  Total(LayersUpTo(s, c, level), N) = Fits(level)
    OBVIOUS
  <2>2. \A m \in Levels(s) : m < level => Total(LayersUpTo(s, c, m), N) = Fits(m)
    <3>1. \A m \in Levels(s) : m < level => m <= n
      BY <1>0, <2>1
    <3> QED
      BY <1>3, <3>1
  <2> HIDE DEF Fits
  <2> QED
    BY <1>1, <2>2
<1>4. Nat \subseteq T
  <2> HIDE DEF T
  <2> QED
    BY <1>2, <1>3, InductionOnSet
<1>5. ASSUME NEW level \in Levels(s)
      PROVE  Total(LayersUpTo(s, c, level), N) = Fits(level)
  <2>1. level \in Nat /\ level \in T /\ level <= level
    BY <1>0, <1>4
  <2> HIDE DEF Fits
  <2> QED
    BY <2>1
<1> QED
  BY <1>5

\* the pots, one seat standing for each, up to a level
PotsUpTo(s, level) ==
  [k \in Seats |-> IF k \in LevelSeats(s) /\ s.contributed[k] <= level
                   THEN PotAmount(s, s.contributed[k]) ELSE 0]

Pots(s) == [k \in Seats |-> IF k \in LevelSeats(s) THEN PotAmount(s, s.contributed[k]) ELSE 0]

\* what of each contribution lies up to a level
Under(s, level) ==
  [i \in Seats |-> IF IsTopLevel(s, level) THEN s.contributed[i]
                   ELSE Lesser(s.contributed[i], level)]

\* who is not at the table has paid nothing
OnlySeatedPaid(s) == \A i \in Seats \ s.seated : s.contributed[i] = 0

\* The pots up to a level hold what every contribution has there.
LEMMA PotsAddUp ==
  ASSUME NEW s \in TableState, OnlySeatedPaid(s), NEW level \in Levels(s)
  PROVE  Total(PotsUpTo(s, level), N) = Total(Under(s, level), N)
<1> DEFINE f == [i \in 0 .. N - 1 |-> LayersUpTo(s, s.contributed[i], level)]
           column == [k \in 0 .. N - 1 |-> [i \in 0 .. N - 1 |-> f[i][k]]]
           rows == Under(s, level)
           columns == PotsUpTo(s, level)
<1>0. /\ N \in Nat /\ Seats = 0 .. N - 1
      /\ \A i \in Seats : s.contributed[i] \in Nat
      /\ Levels(s) \subseteq Nat /\ LevelSeats(s) \subseteq Seats
      /\ \A k \in LevelSeats(s) : s.contributed[k] \in Levels(s)
  BY SeatsAssumption, LevelsAreChips
  DEF Seats, LevelSeats, Levels, Contenders, Contributors, TableState
<1>1. \A i, k \in 0 .. N - 1 : f[i][k] \in Int
  <2>1. SUFFICES ASSUME NEW i \in Seats, NEW k \in Seats
                 PROVE  LayersUpTo(s, s.contributed[i], level)[k] \in Int
    BY <1>0
  <2>2. Layer(s, s.contributed[i], s.contributed[k]) \in Nat
    BY <1>0, LayerType
  <2> QED
    BY <2>2 DEF LayersUpTo
<1>2. \A i, k \in 0 .. N - 1 : column[k][i] = f[i][k]
  OBVIOUS
<1>3. \A i \in 0 .. N - 1 : rows[i] = Total(f[i], N)
  <2>1. SUFFICES ASSUME NEW i \in Seats
                 PROVE  rows[i] = Total(LayersUpTo(s, s.contributed[i], level), N)
    BY <1>0
  <2>2. Total(LayersUpTo(s, s.contributed[i], level), N)
          = IF IsTopLevel(s, level) THEN s.contributed[i] ELSE Lesser(s.contributed[i], level)
    BY <1>0, LayersAddUp
  <2> QED
    BY <2>2 DEF Under
<1>4. \A k \in 0 .. N - 1 : columns[k] = Total(column[k], N)
  <2>1. SUFFICES ASSUME NEW k \in Seats
                 PROVE  columns[k] = Total(column[k], N)
    BY <1>0
  <2>2. \A i \in 0 .. N - 1 :
          column[k][i] = IF k \in LevelSeats(s) /\ s.contributed[k] <= level
                         THEN Layer(s, s.contributed[i], s.contributed[k]) ELSE 0
    BY <1>0 DEF LayersUpTo
  <2> DEFINE col == column[k]
  <2>3. CASE k \in LevelSeats(s) /\ s.contributed[k] <= level
    <3> DEFINE share == [i \in Seats |->
                 IF i \in Contributors(s)
                 THEN LET capped == IF IsTopLevel(s, s.contributed[k]) THEN s.contributed[i]
                                    ELSE Lesser(s.contributed[i], s.contributed[k])
                      IN  Greater(0, capped - LevelBelow(s, s.contributed[k]))
                 ELSE 0]
    <3>1. columns[k] = Total(share, N)
      BY <2>3 DEF PotsUpTo, PotAmount
    <3>2. ASSUME NEW i \in 0 .. N - 1 PROVE share[i] = col[i]
      <4>0. i \in Seats
        BY <1>0
      <4>1. col[i] = Layer(s, s.contributed[i], s.contributed[k])
        BY <2>2, <2>3
      <4>2. CASE i \in Contributors(s)
        BY <4>0, <4>1, <4>2 DEF Layer
      <4>3. CASE i \notin Contributors(s)
        <5>1. s.contributed[i] = 0
          BY <1>0, <4>0, <4>3 DEF Contributors, OnlySeatedPaid
        <5>2. LevelBelow(s, s.contributed[k]) \in Nat /\ s.contributed[k] \in Nat
          BY <1>0, LevelBelowType
        <5>3. Layer(s, s.contributed[i], s.contributed[k]) = 0
          BY <5>1, <5>2 DEF Layer, Greater, Lesser
        <5>4. share[i] = 0
          BY <4>0, <4>3
        <5> HIDE DEF share, col
        <5> QED
          BY <4>1, <5>3, <5>4
      <4> HIDE DEF share, col
      <4> QED
        BY <4>2, <4>3
    <3> HIDE DEF share, col
    <3>3. Total(share, N) = Total(col, N)
      BY <1>0, <3>2, TotalSame
    <3> QED
      BY <3>1, <3>3 DEF col
  <2>4. CASE ~ (k \in LevelSeats(s) /\ s.contributed[k] <= level)
    <3>1. columns[k] = 0
      BY <2>4 DEF PotsUpTo
    <3>2. \A i \in 0 .. N - 1 : col[i] = 0
      BY <2>2, <2>4
    <3> HIDE DEF col
    <3>3. Total(col, N) = 0
      BY <1>0, <3>2, TotalZero
    <3> QED
      BY <3>1, <3>3 DEF col
  <2> QED
    BY <2>3, <2>4
<1> HIDE DEF f, column, rows, columns
<1>5. Crossed(f, column, rows, columns, N)
  BY <1>1, <1>2, <1>3, <1>4 DEF Crossed
<1>6. Total(rows, N) = Total(columns, N)
  BY <1>0, <1>5, TotalSwap
<1> QED
  BY <1>6 DEF rows, columns

\* If somebody is left who has paid, no chip lies outside the pots.
LEMMA PotsCoverAll ==
  ASSUME NEW s \in TableState, OnlySeatedPaid(s), Contenders(s) # {}
  PROVE  Total(Pots(s), N) = Total(s.contributed, N)
<1>a. Contenders(s) \subseteq Seats
  BY DEF Contenders, Contributors, TableState
<1>0. /\ N \in Nat /\ Seats = 0 .. N - 1
      /\ \A i \in Seats : s.contributed[i] \in Nat
      /\ Levels(s) \subseteq Nat /\ Levels(s) # {}
      /\ \A k \in LevelSeats(s) : s.contributed[k] \in Levels(s)
      /\ \A level \in Levels(s) : \E i \in Seats : level = s.contributed[i]
  <2>1. N \in Nat /\ Seats = 0 .. N - 1 /\ \A i \in Seats : s.contributed[i] \in Nat
    BY SeatsAssumption DEF Seats, TableState
  <2>2. Levels(s) \subseteq Nat
    BY LevelsAreChips
  <2> QED
    BY <1>a, <2>1, <2>2 DEF LevelSeats, Levels
<1>1. Total(s.contributed, N) \in Nat
  BY <1>0, TotalNat
<1>2. \A level \in Levels(s) : level <= Total(s.contributed, N)
  <2>1. \A i \in 0 .. N - 1 : s.contributed[i] <= Total(s.contributed, N)
    <3> DEFINE c == s.contributed
    <3>1. \A i \in 0 .. N - 1 : c[i] \in Nat
      BY <1>0
    <3> HIDE DEF c
    <3>2. \A i \in 0 .. N - 1 : c[i] <= Total(c, N)
      BY <1>0, <3>1, TotalMember
    <3> QED
      BY <3>2 DEF c
  <2> QED
    BY <1>0, <2>1
<1>3. PICK top \in Levels(s) : \A level \in Levels(s) : level <= top
  BY <1>0, <1>1, <1>2, GreatestNumber
<1>4. IsTopLevel(s, top)
  BY <1>3 DEF IsTopLevel
<1>5. Total(PotsUpTo(s, top), N) = Total(Under(s, top), N)
  BY PotsAddUp
<1>6. PotsUpTo(s, top) = Pots(s)
  BY <1>0, <1>3 DEF PotsUpTo, Pots
<1>7. \A i \in 0 .. N - 1 : Under(s, top)[i] = s.contributed[i]
  BY <1>0, <1>4 DEF Under
<1>8. Total(Under(s, top), N) = Total(s.contributed, N)
  BY <1>0, <1>7, TotalSame
<1> QED
  BY <1>5, <1>6, <1>8

-----------------------------------------------------------------------------
(* Who gets the pots.                                                      *)

\* the winnings of all seats
AllWinnings(s, rank) == [i \in Seats |-> Winnings(s, rank, i)]

WinnersOf(s, rank, k) == PotWinners(rank, PotEligible(s, s.contributed[k]))

\* what seat i gets of the pot that seat k stands for
ShareOf(s, rank, i, k) ==
  IF k \in LevelSeats(s)
  THEN splitPot(s, PotAmount(s, s.contributed[k]), WinnersOf(s, rank, k), i)
  ELSE 0

\* A share of a pot is a number of chips.
LEMMA ShareType ==
  ASSUME NEW s \in TableState, NEW rank, NEW i \in Seats, NEW k \in Seats
  PROVE  /\ WinnersOf(s, rank, k) \in SUBSET Seats
         /\ PotAmount(s, s.contributed[k]) \in Nat
         /\ ShareOf(s, rank, i, k) \in Nat
         /\ i \notin WinnersOf(s, rank, k) => ShareOf(s, rank, i, k) = 0
<1>1. PotAmount(s, s.contributed[k]) \in Nat
  BY PotAmountType DEF TableState
<1>2. WinnersOf(s, rank, k) \in SUBSET Seats
  BY DEF WinnersOf, PotWinners, PotEligible, Contenders, Contributors, TableState
<1> QED
  BY <1>1, <1>2, SplitPotType DEF ShareOf

\* Winnings is the sum of the shares of all the pots.
LEMMA WinningsAreShares ==
  ASSUME NEW s \in TableState, NEW rank, NEW i \in Seats
  PROVE  Winnings(s, rank, i) = Total([k \in Seats |-> ShareOf(s, rank, i, k)], N)
BY DEF Winnings, ShareOf, WinnersOf

\* If every pot has a winner, the winnings are the pots.
LEMMA WinningsAddUp ==
  ASSUME NEW s \in TableState, NEW rank,
         \A level \in Levels(s) : PotWinners(rank, PotEligible(s, level)) # {}
  PROVE  Total(AllWinnings(s, rank), N) = Total(Pots(s), N)
<1> DEFINE f == [i \in 0 .. N - 1 |-> [k \in Seats |-> ShareOf(s, rank, i, k)]]
           column == [k \in 0 .. N - 1 |-> [i \in 0 .. N - 1 |-> f[i][k]]]
           rows == AllWinnings(s, rank)
           columns == Pots(s)
<1>0. /\ N \in Nat /\ Seats = 0 .. N - 1
      /\ \A k \in LevelSeats(s) : s.contributed[k] \in Levels(s)
  BY SeatsAssumption DEF Seats, LevelSeats, Levels
<1>1. \A i, k \in 0 .. N - 1 : f[i][k] \in Int
  BY <1>0, ShareType
<1>2. \A i, k \in 0 .. N - 1 : column[k][i] = f[i][k]
  OBVIOUS
<1>3. \A i \in 0 .. N - 1 : rows[i] = Total(f[i], N)
  BY <1>0, WinningsAreShares DEF AllWinnings
<1>4. \A k \in 0 .. N - 1 : columns[k] = Total(column[k], N)
  <2>1. SUFFICES ASSUME NEW k \in Seats
                 PROVE  columns[k] = Total(column[k], N)
    BY <1>0
  <2> DEFINE col == column[k]
  <2>2. \A i \in Seats : col[i] = ShareOf(s, rank, i, k)
    BY <1>0
  <2>3. CASE k \in LevelSeats(s)
    <3> DEFINE amount == PotAmount(s, s.contributed[k])
               winners == WinnersOf(s, rank, k)
    <3>1. winners # {} /\ winners \in SUBSET Seats /\ amount \in Nat
      BY <1>0, <2>3, ShareType DEF WinnersOf
    <3>2. \A i \in Seats : col[i] = splitPot(s, amount, winners, i)
      BY <2>2, <2>3 DEF ShareOf
    <3>3. columns[k] = amount
      BY <2>3 DEF Pots
    <3> HIDE DEF col, amount, winners
    <3>4. Total(col, N) = amount
      BY <3>1, <3>2, SplitPotAll
    <3> QED
      BY <3>3, <3>4 DEF col
  <2>4. CASE k \notin LevelSeats(s)
    <3>1. columns[k] = 0
      BY <2>4 DEF Pots
    <3>2. \A i \in 0 .. N - 1 : col[i] = 0
      BY <1>0, <2>2, <2>4 DEF ShareOf
    <3> HIDE DEF col
    <3>3. Total(col, N) = 0
      BY <1>0, <3>2, TotalZero
    <3> QED
      BY <3>1, <3>3 DEF col
  <2> QED
    BY <2>3, <2>4
<1> HIDE DEF f, column, rows, columns
<1>5. Crossed(f, column, rows, columns, N)
  BY <1>1, <1>2, <1>3, <1>4 DEF Crossed
<1>6. Total(rows, N) = Total(columns, N)
  BY <1>0, <1>5, TotalSwap
<1> QED
  BY <1>6 DEF rows, columns

\* A share is no more than the pot.
LEMMA ShareAtMost ==
  ASSUME NEW s \in TableState, NEW rank, NEW i \in Seats, NEW k \in LevelSeats(s)
  PROVE  ShareOf(s, rank, i, k) <= PotAmount(s, s.contributed[k])
<1> DEFINE amount == PotAmount(s, s.contributed[k])
           winners == WinnersOf(s, rank, k)
           g == [j \in Seats |-> splitPot(s, amount, winners, j)]
<1>0. k \in Seats /\ N \in Nat /\ Seats = 0 .. N - 1
  BY SeatsAssumption DEF LevelSeats, Contenders, Contributors, TableState, Seats
<1>1. winners \in SUBSET Seats /\ amount \in Nat
  BY <1>0, ShareType
<1>2. \A j \in Seats : g[j] = splitPot(s, amount, winners, j)
  OBVIOUS
<1>3. ShareOf(s, rank, i, k) = g[i]
  BY DEF ShareOf
<1>4. \A j \in Seats : g[j] \in Nat
  BY <1>1, SplitPotType
<1>5. CASE i \notin winners
  BY <1>0, <1>1, <1>5, ShareType
<1>6. CASE i \in winners
  <2>1. winners # {}
    BY <1>6
  <2> HIDE DEF g, winners, amount
  <2>2. Total(g, N) = amount
    BY <1>1, <1>2, <2>1, SplitPotAll
  <2>3. \A j \in 0 .. N - 1 : g[j] \in Nat
    BY <1>0, <1>4
  <2>4. i \in 0 .. N - 1
    BY <1>0
  <2>5. g[i] <= Total(g, N)
    BY <1>0, <2>3, <2>4, TotalMember
  <2> QED
    BY <1>3, <2>2, <2>5 DEF amount
<1> QED
  BY <1>5, <1>6

\* Whoever is still in wins at most what the contributions have up to his own.
LEMMA WinningsUnder ==
  ASSUME NEW s \in TableState, OnlySeatedPaid(s), NEW rank, NEW i \in Contenders(s)
  PROVE  Winnings(s, rank, i) <= Total(Under(s, s.contributed[i]), N)
<1> DEFINE level == s.contributed[i]
           f == [k \in Seats |-> ShareOf(s, rank, i, k)]
           g == PotsUpTo(s, level)
<1>0. /\ N \in Nat /\ Seats = 0 .. N - 1 /\ i \in Seats /\ level \in Levels(s)
      /\ \A k \in Seats : s.contributed[k] \in Nat
  BY SeatsAssumption DEF Seats, Levels, Contenders, Contributors, TableState
<1>1. \A k \in 0 .. N - 1 : f[k] \in Int /\ g[k] \in Int /\ f[k] <= g[k]
  <2>1. SUFFICES ASSUME NEW k \in Seats
                 PROVE  f[k] \in Int /\ g[k] \in Int /\ f[k] <= g[k]
    BY <1>0
  <2>2. /\ ShareOf(s, rank, i, k) \in Nat
        /\ PotAmount(s, s.contributed[k]) \in Nat
        /\ i \notin WinnersOf(s, rank, k) => ShareOf(s, rank, i, k) = 0
    BY <1>0, ShareType
  <2>3. CASE k \in LevelSeats(s) /\ s.contributed[k] <= level
    BY <1>0, <2>2, <2>3, ShareAtMost DEF PotsUpTo
  <2>4. CASE k \in LevelSeats(s) /\ ~ (s.contributed[k] <= level)
    <3>1. i \notin WinnersOf(s, rank, k)
      BY <1>0, <2>4 DEF WinnersOf, PotWinners, PotEligible
    <3> QED
      BY <2>2, <2>4, <3>1 DEF PotsUpTo
  <2>5. CASE k \notin LevelSeats(s)
    BY <2>5 DEF PotsUpTo, ShareOf
  <2> QED
    BY <2>3, <2>4, <2>5
<1>2. Winnings(s, rank, i) = Total(f, N)
  BY <1>0, WinningsAreShares
<1>3. Total(g, N) = Total(Under(s, level), N)
  BY <1>0, PotsAddUp
<1>4. Total(f, N) <= Total(g, N)
  <2> HIDE DEF f, g
  <2> QED
    BY <1>0, <1>1, TotalAtMost
<1> QED
  BY <1>2, <1>3, <1>4

-----------------------------------------------------------------------------
(* No chip is created or lost.                                             *)

Chips(s) == Total(s.stack, N) + s.pot

\* What a type-correct table says of its stacks, in the form the laws of Total ask for.
LEMMA StackTotal ==
  ASSUME NEW s \in TableState
  PROVE  /\ N \in Nat /\ Seats = 0 .. N - 1
         /\ \A i \in 0 .. N - 1 : s.stack[i] \in Int
         /\ Total(s.stack, N) \in Nat /\ s.pot \in Nat
<1>1. /\ N \in Nat /\ Seats = 0 .. N - 1 /\ s.pot \in Nat
      /\ \A i \in 0 .. N - 1 : s.stack[i] \in Nat
  BY SeatsAssumption DEF Seats, TableState
<1> QED
  BY <1>1, TotalNat

\* A bet goes from the stack into the pot.
LEMMA BetMovesChips ==
  ASSUME NEW s \in TableState, NEW i \in Seats, NEW t, NEW actual, BetEffect(s, t, i, actual)
  PROVE  Chips(t) = Chips(s)
<1> DEFINE f == s.stack
           g == t.stack
           d == 0 - actual
<1>1. /\ \A j \in 0 .. N - 1 : f[j] \in Int
      /\ \A j \in 0 .. N - 1 : g[j] = IF j = i THEN f[j] + d ELSE f[j]
  BY StackTotal DEF BetEffect
<1>2. N \in Nat /\ i \in 0 .. N - 1
  BY StackTotal
<1>3. d \in Int /\ actual \in Nat
  BY DEF BetEffect
<1>4. Total(g, N) = Total(f, N) + d
  <2> HIDE DEF f, g, d
  <2> QED
    BY <1>1, <1>2, <1>3, TotalUpdate
<1> QED
  BY <1>3, <1>4, StackTotal DEF Chips, BetEffect

\* So do the antes.
LEMMA AnteMovesChips ==
  ASSUME NEW s \in TableState, NEW t \in TableState, NEW ante, NEW paid, AnteEffect(s, t, ante, paid)
  PROVE  Chips(t) = Chips(s)
<1> DEFINE f == t.stack
           g == paid
           h == s.stack
<1>1. \A i \in 0 .. N - 1 : f[i] \in Int /\ g[i] \in Int /\ h[i] = f[i] + g[i]
  BY StackTotal DEF AnteEffect
<1>2. N \in Nat
  BY StackTotal
<1>3. Total(h, N) = Total(f, N) + Total(g, N)
  <2> HIDE DEF f, g, h
  <2> QED
    BY <1>1, <1>2, TotalPlus
<1>4. Total(g, N) \in Int
  <2> HIDE DEF f, g, h
  <2> QED
    BY <1>1, <1>2, TotalInt
<1> QED
  BY <1>3, <1>4, StackTotal DEF Chips, AnteEffect

\* An action moves chips from the stack into the pot at most.
LEMMA ActionKeepsChips ==
  ASSUME NEW s, NEW i, ToAct(s, i), NEW action \in DealerActions \union PlayerActions,
         NEW amount \in Nat, CanDo(s, i, action, amount)
  PROVE  Chips(applyAction(s, i, action, amount)) = Chips(s)
<1>0. s \in TableState /\ i \in Seats /\ s.currentBet \in Nat /\ s.bet[i] \in Nat
      /\ s.stack[i] \in Nat /\ s.bet[i] <= s.currentBet
  BY DEF ToAct, TableState, RoundOpen
<1>1. Chips([s EXCEPT !.folded = @ \union {i}]) = Chips(s)
  BY <1>0 DEF Chips, TableState
<1>2. Chips([s EXCEPT !.checked = @ \union {i}]) = Chips(s)
  BY <1>0 DEF Chips, TableState
<1>3. CASE action \in DealerActions
  BY <1>1, <1>3 DEF applyAction
<1>4. CASE action \notin DealerActions /\ i \in s.folded
  BY <1>4 DEF applyAction
<1>5. CASE action \notin DealerActions /\ i \notin s.folded
  <2>1. CASE action = "FOLD"
    BY <1>1, <1>5, <2>1 DEF applyAction
  <2>2. CASE action = "TIME_OUT"
    BY <1>1, <1>2, <1>5, <2>2 DEF applyAction, timeOut
  <2>3. CASE action = "CHECK"
    BY <1>2, <1>5, <2>3 DEF applyAction
  <2>4. CASE action = "CALL"
    <3> DEFINE u == executeBet(s, i, s.currentBet - s.bet[i])
    <3>1. applyAction(s, i, action, amount) = [u EXCEPT !.checked = @ \union {i}]
      BY <1>5, <2>4 DEF applyAction, handleCall
    <3>2. s.currentBet - s.bet[i] \in Nat
      BY <1>0
    <3>3. u \in TableState /\ Chips(u) = Chips(s)
      BY <1>0, <3>2, ExecuteBetEffect, BetMovesChips
    <3> HIDE DEF u
    <3> QED
      BY <3>1, <3>3 DEF Chips, TableState
  <2>5. CASE action = "RAISE"
    <3> DEFINE chips == Lesser(amount - s.bet[i], s.stack[i])
               u == executeBet(s, i, chips)
               t == applyAction(s, i, action, amount)
    <3>1. CanRaise(s, i, amount)
      BY <1>5, <2>5 DEF CanDo
    <3>2. chips \in Nat
      BY <1>0, <3>1 DEF CanRaise, Lesser
    <3>3. u \in TableState /\ Chips(u) = Chips(s)
      BY <1>0, <3>2, ExecuteBetEffect, BetMovesChips
    <3>4. t = handleRaise(s, i, amount)
      BY <1>5, <2>5 DEF applyAction
    <3>5. t.stack = u.stack /\ t.pot = u.pot
      <4>1. \/ t = [u EXCEPT !.checked = @ \union {i}]
            \/ \E bet, raise, checked : t = [u EXCEPT !.currentBet = bet, !.lastRaise = raise,
                                                      !.checked = checked]
        BY <3>4 DEF handleRaise
      <4> HIDE DEF u, t
      <4> QED
        BY <3>3, <4>1 DEF TableState
    <3> HIDE DEF u, t
    <3> QED
      BY <3>3, <3>5 DEF Chips, t
  <2> QED
    BY <1>5, <2>1, <2>2, <2>3, <2>4, <2>5 DEF PlayerActions
<1> QED
  BY <1>3, <1>4, <1>5

\* Closing a round moves none.
LEMMA SidePotsKeepChips ==
  ASSUME NEW s \in TableState
  PROVE  /\ calculateSidePots(s).stack = s.stack
         /\ calculateSidePots(s).pot = s.pot
BY DEF calculateSidePots, TableState

\* Going to the showdown computes the pots and moves no chip.
LEMMA ShowdownKeepsChips ==
  ASSUME NEW s \in TableState PROVE Chips(ToShowdown(s)) = Chips(s)
<1> DEFINE u == calculateSidePots(s)
           t == ToShowdown(s)
<1>1. u \in TableState /\ u.stack = s.stack /\ u.pot = s.pot
  BY CalculateSidePotsType, SidePotsKeepChips
<1>2. t = [u EXCEPT !.phase = "SHOWDOWN", !.turn = NoTurn]
  BY DEF ToShowdown
<1> HIDE DEF u, t
<1>3. t.stack = u.stack /\ t.pot = u.pot
  BY <1>1, <1>2 DEF TableState
<1> QED
  BY <1>1, <1>3 DEF Chips, t

\* Whatever follows an action (next seat, next phase, showdown), no chip moves.
LEMMA AdvanceKeepsChips ==
  ASSUME NEW s \in TableState, NEW i
  PROVE  Chips(advance(s, i)) = Chips(s)
<1> DEFINE n == IF s.turn = i THEN findNextActiveSeat(s, SeatAfter(i)) ELSE s.turn
           u == calculateSidePots(s)
<1>1. CASE shouldGoToShowdown(s)
  BY <1>1, ShowdownKeepsChips DEF advance
<1>2. CASE ~ shouldGoToShowdown(s) /\ shouldGoToNextPhase(s, n)
  <2> DEFINE t == nextPhase(s)
  <2>1. advance(s, i) = t
    BY <1>2 DEF advance
  <2>2. u \in TableState /\ u.stack = s.stack /\ u.pot = s.pot
    BY CalculateSidePotsType, SidePotsKeepChips
  <2>3. \E phase, bet, raise, turn :
          t = [u EXCEPT !.phase = phase, !.bet = bet, !.checked = {}, !.currentBet = 0,
                        !.lastRaise = raise, !.turn = turn]
    BY DEF nextPhase
  <2> HIDE DEF u, t
  <2>4. t.stack = u.stack /\ t.pot = u.pot
    BY <2>2, <2>3 DEF TableState
  <2> QED
    BY <2>1, <2>2, <2>4 DEF Chips
<1>3. CASE ~ shouldGoToShowdown(s) /\ ~ shouldGoToNextPhase(s, n)
  <2>1. advance(s, i) = [s EXCEPT !.turn = n]
    BY <1>3 DEF advance
  <2> HIDE DEF n
  <2> QED
    BY <2>1 DEF Chips, TableState
<1> QED
  BY <1>1, <1>2, <1>3

\* What startPreFlop opens the betting with, or goes to the showdown with.
LEMMA StartOpens ==
  ASSUME NEW s \in TableState, CleanTable(s), CanStart(s), NEW ante \in Nat
  PROVE  \E opened \in TableState :
           /\ opened.phase = "PRE_FLOP"
           /\ Chips(opened) = Chips(s)
           /\ startPreFlop(s, ante) \in {opened, ToShowdown(opened)}
<1> DEFINE button  == findNextActiveSeat(s, SeatAfter(s.button))
           headsUp == \E i, j \in InHand(s) :
                        {k \in InHand(s) : s.stack[k] > 0} = {i, j}
           sb      == IF headsUp THEN button ELSE findNextActiveSeat(s, SeatAfter(button))
           bb      == findNextActiveSeat(s, SeatAfter(sb))
           anted   == IF ante > 0 THEN payAnte(s, ante) ELSE s
           small   == executeBet(anted, sb, s.smallBlind)
           posted  == payBlind(anted, sb, bb, s.smallBlind)
           utg     == findNextActiveSeat(posted, SeatAfter(bb))
           big     == 2 * s.smallBlind
           opened  == [posted EXCEPT !.button = button, !.currentBet = big,
                                     !.lastRaise = big, !.turn = utg, !.phase = "PRE_FLOP"]
<1>1. CanAct(s) = {i \in InHand(s) : s.stack[i] > 0} /\ CanAct(s) \subseteq Seats
      /\ s.button \in Seats /\ big \in Nat /\ s.smallBlind \in Nat
  BY DEF CleanTable, CanAct, InHand, TableState
<1>2. PICK p, q \in CanAct(s) : p # q
  BY <1>1 DEF CanStart, AtMostOne
<1>3. \A i \in Seats : findNextActiveSeat(s, SeatAfter(i)) \in CanAct(s)
  BY <1>2, NextIsOther
<1>4. button \in Seats
  BY <1>1, <1>3
<1>5. sb \in Seats
  BY <1>1, <1>3, <1>4
<1>6. bb \in Seats
  BY <1>1, <1>3, <1>5
<1>7. startPreFlop(s, ante) = IF shouldGoToShowdown(opened) THEN ToShowdown(opened)
                              ELSE opened
  BY DEF startPreFlop
<1>8. posted = executeBet(small, bb, big)
  BY DEF payBlind
<1> HIDE DEF button, sb, bb, headsUp
<1>9. anted \in TableState /\ Chips(anted) = Chips(s)
  <2>1. CASE ante > 0
    <3>1. PICK paid \in [Seats -> Nat] : AnteEffect(s, payAnte(s, ante), ante, paid)
      BY PayAnteEffect
    <3> QED
      BY <2>1, <3>1, PayAnteEffect, AnteMovesChips
  <2>2. CASE ~ (ante > 0)
    BY <2>2
  <2> QED
    BY <2>1, <2>2
<1> HIDE DEF anted
<1>10. small \in TableState /\ Chips(small) = Chips(anted)
  BY <1>1, <1>5, <1>9, ExecuteBetEffect, BetMovesChips
<1> HIDE DEF small, posted, big
<1>11. posted \in TableState /\ Chips(posted) = Chips(small)
  BY <1>1, <1>6, <1>8, <1>10, ExecuteBetEffect, BetMovesChips
<1>12. utg \in Seats \union {NoTurn}
  BY <1>6, <1>11, SeatAfterType, NextActiveSeat
<1> HIDE DEF utg
<1>13. opened \in TableState /\ opened.stack = posted.stack /\ opened.pot = posted.pot
       /\ opened.phase = "PRE_FLOP"
  BY <1>1, <1>4, <1>11, <1>12 DEF TableState, Phase, Betting
<1> HIDE DEF opened
<1>14. Chips(opened) = Chips(s)
  BY <1>9, <1>10, <1>11, <1>13 DEF Chips
<1> QED
  BY <1>7, <1>13, <1>14

-----------------------------------------------------------------------------
(* The showdown.                                                           *)

\* Only who put in more than everybody else gets chips back, and what he put in becomes what
\* the next one put in.
LEMMA UncalledExact ==
  ASSUME NEW s \in TableState, NEW i \in Seats, Uncalled(s, i) > 0
  PROVE  /\ i \in Contributors(s)
         /\ \A j \in Contributors(s) \ {i} : /\ s.contributed[j] < s.contributed[i]
                                             /\ s.contributed[j] <= s.contributed[i] - Uncalled(s, i)
         /\ \/ s.contributed[i] - Uncalled(s, i) = 0
            \/ \E j \in Contributors(s) \ {i} :
                 s.contributed[j] = s.contributed[i] - Uncalled(s, i)
<1> DEFINE others == {s.contributed[j] : j \in Contributors(s) \ {i}} \union {0}
           biggest == i \in Contributors(s) /\ \A c \in others : c < s.contributed[i]
           second == CHOOSE c \in others : \A d \in others : d <= c
<1>1. s.contributed[i] \in Nat /\ Contributors(s) \subseteq Seats
      /\ \A j \in Seats : s.contributed[j] \in Nat
  BY DEF TableState, Contributors
<1>2. biggest
  BY DEF Uncalled
<1>3. others \subseteq Nat /\ others # {} /\ \A c \in others : c <= s.contributed[i]
  <2>1. others \subseteq Nat
    BY <1>1
  <2>2. 0 \in others
    OBVIOUS
  <2> HIDE DEF others
  <2> QED
    BY <1>1, <1>2, <2>1, <2>2
<1>4. \E c \in others : \A d \in others : d <= c
  BY <1>1, <1>3, GreatestNumber
<1>5. second \in others /\ \A d \in others : d <= second
  BY <1>4
<1>6. Uncalled(s, i) = s.contributed[i] - second
  BY <1>2 DEF Uncalled
<1> HIDE DEF second
<1>7. s.contributed[i] - Uncalled(s, i) = second
  BY <1>1, <1>3, <1>5, <1>6
<1> QED
  BY <1>1, <1>2, <1>5, <1>7

\* Whoever is left over the others keeps what the next one put in; with nobody else in the pot
\* it is empty after the refund.
LEMMA RefundKeepsContenders ==
  ASSUME NEW s \in TableState, NEW u \in TableState, NEW refund, RefundEffect(s, u, refund),
         OnlySeatedPaid(s), Contenders(s) # {}, Contenders(u) = {}
  PROVE  Total(u.contributed, N) = 0
<1>1. PICK i \in Contenders(s) : TRUE
  OBVIOUS
<1>2. /\ i \in Seats /\ i \in s.seated /\ i \notin s.folded /\ s.contributed[i] > 0
      /\ u.seated = s.seated /\ u.folded = s.folded
      /\ \A j \in Seats : s.contributed[j] \in Nat /\ u.contributed[j] \in Nat
  BY DEF Contenders, Contributors, TableState, RefundEffect, OnlyChipsMoved
<1>3. u.contributed[i] = 0
  BY <1>2 DEF Contenders, Contributors
<1>4. /\ \A j \in Seats : /\ u.contributed[j] = s.contributed[j] - Uncalled(s, j)
                          /\ Uncalled(s, j) \in Nat
  BY DEF RefundEffect
<1>5. Uncalled(s, i) > 0
  BY <1>2, <1>3, <1>4
<1>6. \A j \in Contributors(s) \ {i} : s.contributed[j] <= 0
  BY <1>2, <1>3, <1>4, <1>5, UncalledExact
<1>7. \A j \in Seats \ {i} : s.contributed[j] = 0
  BY <1>2, <1>6 DEF Contributors, OnlySeatedPaid
<1>8. \A j \in 0 .. N - 1 : u.contributed[j] = 0
  <2>1. \A j \in Seats : u.contributed[j] = 0
    BY <1>2, <1>3, <1>4, <1>7
  <2> QED
    BY <2>1, StackTotal
<1> QED
  BY <1>8, TotalZero, StackTotal

\* What resolveWinner does to the stacks.
LEMMA ResolvedStacks ==
  ASSUME NEW s \in TableState, TableInv(s), s.phase = "SHOWDOWN", NEW rank
  PROVE  \E u \in TableState, refund \in [Seats -> Nat] :
           /\ u = refundUncalledBets(s)
           /\ RefundEffect(s, u, refund)
           /\ OnlySeatedPaid(s) /\ OnlySeatedPaid(u)
           /\ u.pot = Total(u.contributed, N)
           /\ resolveWinner(s, rank).pot = 0
           /\ \A i \in Seats : /\ Winnings(u, rank, i) \in Nat
                               /\ resolveWinner(s, rank).stack[i]
                                    = s.stack[i] + refund[i] + Winnings(u, rank, i)
<1> DEFINE u == refundUncalledBets(s)
           stack == [i \in Seats |-> u.stack[i] + Winnings(u, rank, i)]
           t == resolveWinner(s, rank)
<1>1. s.pot = Total(s.contributed, N) /\ EmptySeatsClear(s)
  BY DEF TableInv, PotExact
<1>2. u \in TableState /\ u.pot = Total(u.contributed, N)
  BY <1>1, RefundLemma
<1>3. PICK refund \in [Seats -> Nat] : RefundEffect(s, u, refund)
  BY <1>1, RefundLemma
<1>4. t = [u EXCEPT !.stack = stack, !.pot = 0, !.sidePots = {}, !.phase = "HAND_END",
                    !.folded = {}, !.checked = {}, !.allIn = {}]
  <2>1. [i \in Seats |-> u.stack[i] + Winnings(u, rank, i)] = stack
    OBVIOUS
  <2>. QED
    BY DEF resolveWinner
<1> HIDE DEF u
<1>5. \A i \in Seats : Winnings(u, rank, i) \in Nat
  BY <1>2, WinningsType
<1>6. \A i \in Seats : stack[i] = s.stack[i] + refund[i] + Winnings(u, rank, i)
  BY <1>3 DEF RefundEffect
<1> HIDE DEF stack, t
<1>7. t.stack = stack /\ t.pot = 0
  BY <1>2, <1>4 DEF TableState
<1>8. OnlySeatedPaid(s)
  BY <1>1 DEF EmptySeatsClear, OnlySeatedPaid
<1>9. OnlySeatedPaid(u)
  <2>1. \A i \in Seats \ u.seated : /\ s.contributed[i] = 0 /\ Uncalled(s, i) = 0
                                    /\ u.contributed[i] = s.contributed[i] - Uncalled(s, i)
    BY <1>3, <1>8, UncalledRange DEF RefundEffect, OnlyChipsMoved, OnlySeatedPaid
  <2> QED
    BY <2>1 DEF OnlySeatedPaid
<1> QED
  BY <1>2, <1>3, <1>5, <1>6, <1>7, <1>8, <1>9 DEF u, t

\* The showdown pays out the pot, if somebody is left who has paid.
LEMMA ResolveKeepsChips ==
  ASSUME NEW s \in TableState, TableInv(s), NEW rank, CanResolve(s, rank), Contenders(s) # {}
  PROVE  Chips(resolveWinner(s, rank)) = Chips(s)
<1>0. s.phase = "SHOWDOWN" /\ s.pot = Total(s.contributed, N)
  BY DEF CanResolve, TableInv, PotExact
<1> DEFINE t == resolveWinner(s, rank)
<1>1. PICK u \in TableState, refund \in [Seats -> Nat] :
           /\ u = refundUncalledBets(s)
           /\ RefundEffect(s, u, refund)
           /\ OnlySeatedPaid(s) /\ OnlySeatedPaid(u)
           /\ u.pot = Total(u.contributed, N)
           /\ t.pot = 0
           /\ \A i \in Seats : /\ Winnings(u, rank, i) \in Nat
                               /\ t.stack[i] = s.stack[i] + refund[i] + Winnings(u, rank, i)
  BY <1>0, ResolvedStacks
<1> HIDE DEF t
<1>2. N \in Nat /\ Seats = 0 .. N - 1 /\ \A i \in Seats : s.stack[i] \in Nat
  BY StackTotal DEF TableState
<1> DEFINE f == s.stack
           g == u.stack
           h == t.stack
           won == AllWinnings(u, rank)
<1>3. \A i \in 0 .. N - 1 : /\ f[i] \in Int /\ refund[i] \in Int /\ g[i] = f[i] + refund[i]
                            /\ g[i] \in Int /\ won[i] \in Int /\ h[i] = g[i] + won[i]
  <2>1. SUFFICES ASSUME NEW i \in Seats
                 PROVE  /\ f[i] \in Int /\ refund[i] \in Int /\ g[i] = f[i] + refund[i]
                        /\ g[i] \in Int /\ won[i] \in Int /\ h[i] = g[i] + won[i]
    BY <1>2
  <2>2. g[i] = f[i] + refund[i] /\ refund[i] \in Nat
    BY <1>1 DEF RefundEffect
  <2>3. won[i] = Winnings(u, rank, i) /\ won[i] \in Nat
    BY <1>1 DEF AllWinnings
  <2>4. h[i] = s.stack[i] + refund[i] + Winnings(u, rank, i)
    BY <1>1
  <2> HIDE DEF won, h, g
  <2> QED
    BY <1>2, <2>2, <2>3, <2>4
<1>4. \A level \in Levels(u) : PotWinners(rank, PotEligible(u, level)) # {}
  BY <1>1 DEF CanResolve
<1>5. Total(won, N) = Total(Pots(u), N)
  BY <1>4, WinningsAddUp
<1>6. Total(Pots(u), N) = u.pot
  <2>1. CASE Contenders(u) # {}
    BY <1>1, <2>1, PotsCoverAll
  <2>2. CASE Contenders(u) = {}
    <3>1. Total(u.contributed, N) = 0
      BY <1>1, <2>2, RefundKeepsContenders
    <3>2. \A k \in 0 .. N - 1 : Pots(u)[k] = 0
      BY <1>2, <2>2 DEF Pots, LevelSeats
    <3>3. Total(Pots(u), N) = 0
      BY <1>2, <3>2, TotalZero
    <3> QED
      BY <1>1, <3>1, <3>3
  <2> QED
    BY <2>1, <2>2
<1> HIDE DEF f, g, h, won
<1>7. Total(g, N) = Total(f, N) + Total(refund, N)
  BY <1>2, <1>3, TotalPlus
<1>8. Total(h, N) = Total(g, N) + Total(won, N)
  BY <1>2, <1>3, TotalPlus
<1>9. Total(f, N) \in Int /\ Total(refund, N) \in Int /\ Total(won, N) \in Int
      /\ s.pot \in Nat /\ u.pot \in Nat
  BY <1>2, <1>3, TotalInt DEF TableState
<1>10. u.pot = s.pot - Total(refund, N) /\ t.pot = 0
  BY <1>1 DEF RefundEffect
<1>11. Total(h, N) + t.pot = Total(f, N) + s.pot
  BY <1>5, <1>6, <1>7, <1>8, <1>9, <1>10
<1> QED
  BY <1>11 DEF Chips, f, h, t

\* Whoever is below the top wins no more than his own contribution from each of the others.
LEMMA ResolveCaps ==
  ASSUME NEW s \in TableState, TableInv(s), NEW rank, CanResolve(s, rank), NEW i \in s.seated,
         NEW gain, gain = resolveWinner(s, rank).stack[i] - s.stack[i],
         NEW share, share = [j \in Seats |-> Lesser(s.contributed[i], s.contributed[j])]
  PROVE  /\ i \in s.folded => gain = Uncalled(s, i)
         /\ (\E j \in Contenders(s) \ {i} : s.contributed[j] > s.contributed[i])
               => i \in s.folded \/ gain <= Total(share, N)
<1>0. s.phase = "SHOWDOWN"
  BY DEF CanResolve
<1> DEFINE t == resolveWinner(s, rank)
<1>1. PICK u \in TableState, refund \in [Seats -> Nat] :
           /\ u = refundUncalledBets(s)
           /\ RefundEffect(s, u, refund)
           /\ OnlySeatedPaid(s) /\ OnlySeatedPaid(u)
           /\ u.pot = Total(u.contributed, N)
           /\ t.pot = 0
           /\ \A k \in Seats : /\ Winnings(u, rank, k) \in Nat
                               /\ t.stack[k] = s.stack[k] + refund[k] + Winnings(u, rank, k)
  BY <1>0, ResolvedStacks
<1>2. /\ i \in Seats /\ N \in Nat /\ Seats = 0 .. N - 1
      /\ \A k \in Seats : s.contributed[k] \in Nat /\ u.contributed[k] \in Nat /\ s.stack[k] \in Nat
      /\ u.seated = s.seated /\ u.folded = s.folded
      /\ \A k \in Seats : /\ refund[k] = Uncalled(s, k) /\ refund[k] \in Nat
                          /\ u.contributed[k] = s.contributed[k] - refund[k]
  BY <1>1, StackTotal DEF TableState, RefundEffect, OnlyChipsMoved
<1>3. gain = refund[i] + Winnings(u, rank, i)
  BY <1>1, <1>2
<1> HIDE DEF t
<1>4. i \notin Contenders(u) => Winnings(u, rank, i) = 0
  <2>1. SUFFICES ASSUME i \notin Contenders(u) PROVE Winnings(u, rank, i) = 0
    OBVIOUS
  <2> DEFINE f == [k \in Seats |-> ShareOf(u, rank, i, k)]
  <2>2. \A k \in 0 .. N - 1 : f[k] = 0
    <3>1. \A k \in Seats : i \notin WinnersOf(u, rank, k)
      BY <2>1 DEF WinnersOf, PotWinners, PotEligible
    <3> QED
      BY <1>2, <3>1, ShareType
  <2>3. Winnings(u, rank, i) = Total(f, N)
    BY <1>2, WinningsAreShares
  <2> HIDE DEF f
  <2> QED
    BY <1>2, <2>2, <2>3, TotalZero
<1>5. ASSUME i \in s.folded
      PROVE  gain = Uncalled(s, i)
  <2>1. i \notin Contenders(u)
    BY <1>2, <1>5 DEF Contenders
  <2> QED
    BY <1>2, <1>3, <1>4, <2>1
<1>6. ASSUME NEW j \in Contenders(s) \ {i}, s.contributed[j] > s.contributed[i],
             i \notin s.folded
      PROVE  gain <= Total(share, N)
  <2>1. j \in Seats /\ j \in Contributors(s) /\ j \in s.seated /\ j \notin s.folded
    BY <1>2 DEF Contenders, Contributors, TableState
  <2>2. refund[i] = 0
    <3>1. ~ (Uncalled(s, i) > 0)
      BY <1>2, <1>6, <2>1, UncalledExact
    <3> QED
      BY <1>2, <3>1
  <2>3. \A k \in 0 .. N - 1 : share[k] \in Nat
    BY <1>2 DEF Lesser
  <2>4. Total(share, N) \in Nat
    BY <1>2, <2>3, TotalNat
  <2>5. CASE i \notin Contenders(u)
    BY <1>3, <1>4, <2>2, <2>4, <2>5
  <2>6. CASE i \in Contenders(u)
    <3> DEFINE under == Under(u, u.contributed[i])
    <3>1. Winnings(u, rank, i) <= Total(under, N)
      BY <1>1, <2>6, WinningsUnder
    <3>2. u.contributed[i] = s.contributed[i]
      BY <1>2, <2>2
    <3>3. ASSUME IsTopLevel(u, u.contributed[i]), NEW k \in Seats
          PROVE  u.contributed[k] <= s.contributed[i]
      <4>1. u.contributed[j] <= s.contributed[i]
        <5>1. CASE u.contributed[j] > 0
          <6>1. u.contributed[j] \in Levels(u)
            BY <1>2, <2>1, <5>1 DEF Levels, Contenders, Contributors
          <6> QED
            BY <3>2, <3>3, <6>1 DEF IsTopLevel
        <5>2. CASE ~ (u.contributed[j] > 0)
          BY <1>2, <2>1, <5>2
        <5> QED
          BY <5>1, <5>2
      <4>2. Uncalled(s, j) > 0
        BY <1>2, <1>6, <2>1, <4>1
      <4>3. \A m \in Contributors(s) \ {j} : s.contributed[m] <= u.contributed[j]
        <5>1. \A m \in Contributors(s) \ {j} : s.contributed[m] <= s.contributed[j] - Uncalled(s, j)
          BY <2>1, <4>2, UncalledExact
        <5>2. u.contributed[j] = s.contributed[j] - Uncalled(s, j)
          BY <1>2, <2>1
        <5> QED
          BY <5>1, <5>2
      <4>4. CASE k = j
        BY <4>1, <4>4
      <4>5. CASE k # j /\ k \in Contributors(s)
        <5>1. s.contributed[k] <= u.contributed[j]
          BY <4>3, <4>5
        <5>2. u.contributed[k] <= s.contributed[k]
          BY <1>2
        <5> QED
          BY <1>2, <2>1, <4>1, <5>1, <5>2
      <4>6. CASE k \notin Contributors(s)
        <5>1. s.contributed[k] = 0
          BY <1>1, <1>2, <4>6 DEF Contributors, OnlySeatedPaid
        <5> QED
          BY <1>2, <5>1
      <4> QED
        BY <4>4, <4>5, <4>6
    <3>4. ASSUME NEW k \in 0 .. N - 1
          PROVE  under[k] \in Int /\ share[k] \in Int /\ under[k] <= share[k]
      <4>1. k \in Seats
        BY <1>2
      <4>2. under[k] = IF IsTopLevel(u, u.contributed[i]) THEN u.contributed[k]
                       ELSE Lesser(u.contributed[k], s.contributed[i])
        BY <3>2, <4>1 DEF Under
      <4>3. share[k] = Lesser(s.contributed[i], s.contributed[k])
        BY <4>1
      <4>4. u.contributed[k] <= s.contributed[k]
        BY <1>2, <4>1
      <4> HIDE DEF under
      <4>5. CASE IsTopLevel(u, u.contributed[i])
        BY <1>2, <3>3, <4>1, <4>2, <4>3, <4>4, <4>5 DEF Lesser
      <4>6. CASE ~ IsTopLevel(u, u.contributed[i])
        BY <1>2, <4>1, <4>2, <4>3, <4>4, <4>6 DEF Lesser
      <4> QED
        BY <4>5, <4>6
    <3> HIDE DEF under
    <3>5. Total(under, N) <= Total(share, N)
      BY <1>2, <3>4, TotalAtMost
    <3>6. Total(under, N) \in Int
      BY <1>2, <3>4, TotalInt
    <3> QED
      BY <1>1, <1>2, <1>3, <2>2, <2>4, <3>1, <3>5, <3>6
  <2> QED
    BY <2>5, <2>6
<1> QED
  BY <1>5, <1>6

-----------------------------------------------------------------------------
(* What an action and the moving on leave as it was.                       *)

\* An action touches the marks of those who have acted only for the player on turn, and takes
\* somebody else's away only with a full raise.
ActionEffect(s, t) ==
  /\ t.phase = s.phase
  /\ t.checked \subseteq s.checked \union {s.turn}
  /\ (\E j : j \in s.checked \ t.checked)
       => t.currentBet - s.currentBet >= minRaiseSize(s)

\* Each of the actions of applyAction has that effect on the marks.
LEMMA ActionLeaves ==
  ASSUME NEW s, NEW i, ToAct(s, i), NEW action \in DealerActions \union PlayerActions,
         NEW amount \in Nat, CanDo(s, i, action, amount)
  PROVE  ActionEffect(s, applyAction(s, i, action, amount))
<1>0. s \in TableState /\ i \in Seats /\ s.currentBet \in Nat /\ s.bet[i] \in Nat
      /\ s.stack[i] \in Nat /\ s.bet[i] <= s.currentBet
  BY DEF ToAct, TableState, RoundOpen
<1>1. ActionEffect(s, [s EXCEPT !.folded = @ \union {i}])
  BY <1>0 DEF ActionEffect, TableState
<1>2. s.turn = i => ActionEffect(s, [s EXCEPT !.checked = @ \union {i}])
  BY <1>0 DEF ActionEffect, TableState
<1>3. CASE action \in DealerActions
  BY <1>1, <1>3 DEF applyAction
<1>4. CASE action \notin DealerActions /\ i \in s.folded
  BY <1>4 DEF applyAction, ActionEffect
<1>5. CASE action \notin DealerActions /\ i \notin s.folded
  <2>0. s.turn = i
    BY <1>5 DEF CanDo
  <2>1. CASE action = "FOLD"
    BY <1>1, <1>5, <2>1 DEF applyAction
  <2>2. CASE action = "TIME_OUT"
    <3>1. ActionEffect(s, s)
      BY DEF ActionEffect
    <3> QED
      BY <1>1, <1>2, <1>5, <2>0, <2>2, <3>1 DEF applyAction, timeOut
  <2>3. CASE action = "CHECK"
    BY <1>2, <1>5, <2>0, <2>3 DEF applyAction
  <2>4. CASE action = "CALL"
    <3> DEFINE u == executeBet(s, i, s.currentBet - s.bet[i])
               t == applyAction(s, i, action, amount)
    <3>1. t = [u EXCEPT !.checked = @ \union {i}]
      BY <1>5, <2>4 DEF applyAction, handleCall
    <3>2. s.currentBet - s.bet[i] \in Nat
      BY <1>0
    <3>3. u \in TableState /\ OnlyChipsMoved(s, u)
      BY <1>0, <3>2, ExecuteBetEffect DEF BetEffect
    <3> HIDE DEF u, t
    <3>4. t.phase = u.phase /\ t.checked = u.checked \union {i}
      BY <3>1, <3>3 DEF TableState
    <3> QED
      BY <2>0, <3>3, <3>4 DEF OnlyChipsMoved, ActionEffect, t
  <2>5. CASE action = "RAISE"
    <3> DEFINE chips == Lesser(amount - s.bet[i], s.stack[i])
               u == executeBet(s, i, chips)
               size == u.bet[i] - s.currentBet
               full == size >= minRaiseSize(s)
               checked == (IF full THEN u.checked \ (InHand(u) \ u.allIn) ELSE u.checked)
                          \union {i}
               raise == IF full THEN size ELSE u.lastRaise
               bet == u.bet[i]
               t == applyAction(s, i, action, amount)
    <3>1. CanRaise(s, i, amount)
      BY <1>5, <2>5 DEF CanDo
    <3>2. chips \in Nat
      BY <1>0, <3>1 DEF CanRaise, Lesser
    <3>3. u \in TableState /\ OnlyChipsMoved(s, u)
      BY <1>0, <3>2, ExecuteBetEffect DEF BetEffect
    <3>4. t = handleRaise(s, i, amount)
      BY <1>5, <2>5 DEF applyAction
    <3>5. CASE size <= 0
      <4>1. t = [u EXCEPT !.checked = @ \union {i}]
        BY <3>4, <3>5 DEF handleRaise
      <4> HIDE DEF u, t
      <4>2. t.phase = u.phase /\ t.checked = u.checked \union {i}
        BY <3>3, <4>1 DEF TableState
      <4> QED
        BY <2>0, <3>3, <4>2 DEF OnlyChipsMoved, ActionEffect, t
    <3>6. CASE ~ (size <= 0)
      <4>1. t = [u EXCEPT !.currentBet = bet, !.lastRaise = raise, !.checked = checked]
        BY <3>4, <3>6 DEF handleRaise
      <4> HIDE DEF u, t, checked, bet, raise
      <4>2. t.phase = u.phase /\ t.checked = checked /\ t.currentBet = bet
        BY <3>3, <4>1 DEF TableState
      <4>3. checked \subseteq u.checked \union {i} /\ (~ full => u.checked \subseteq checked)
        BY DEF checked
      <4>4. full <=> bet - s.currentBet >= minRaiseSize(s)
        BY DEF bet
      <4> HIDE DEF full
      <4> QED
        BY <2>0, <3>3, <4>2, <4>3, <4>4 DEF OnlyChipsMoved, ActionEffect, t
    <3> QED
      BY <3>5, <3>6
  <2> QED
    BY <1>5, <2>1, <2>2, <2>3, <2>4, <2>5 DEF PlayerActions
<1> QED
  BY <1>3, <1>4, <1>5

\* The seats and the marks of those who are out or all-in.
SamePlayers(s, t) ==
  t.seated = s.seated /\ t.folded = s.folded /\ t.allIn = s.allIn

\* The side pots of a table are for those who are still in.
PotsClaimed(s) == \A p \in s.sidePots : p.eligible # {} /\ p.eligible \subseteq InHand(s)

\* calculateSidePots gives every pot somebody in the hand, and nobody else.
LEMMA SidePotsClaimed ==
  ASSUME NEW s \in TableState
  PROVE  /\ SamePlayers(s, calculateSidePots(s))
         /\ PotsClaimed(calculateSidePots(s))
<1> DEFINE pots == {[amount |-> PotAmount(s, level), eligible |-> PotEligible(s, level)]
                      : level \in Levels(s)}
           t == calculateSidePots(s)
<1>1. t = [s EXCEPT !.sidePots = pots]
  BY DEF calculateSidePots
<1>2. \A p \in pots : p.eligible # {} /\ p.eligible \subseteq InHand(s)
  <2>1. SUFFICES ASSUME NEW level \in Levels(s)
                 PROVE  PotEligible(s, level) # {} /\ PotEligible(s, level) \subseteq InHand(s)
    OBVIOUS
  <2>2. PICK i \in Contenders(s) : level = s.contributed[i]
    BY DEF Levels
  <2>3. Contenders(s) \subseteq Seats /\ \A k \in Seats : s.contributed[k] \in Nat
    BY DEF Contenders, Contributors, TableState
  <2>4. i \in PotEligible(s, level)
    BY <2>2, <2>3 DEF PotEligible
  <2> QED
    BY <2>4 DEF PotEligible, Contenders, Contributors, InHand
<1> HIDE DEF pots, t
<1>3. SamePlayers(s, t) /\ t.sidePots = pots
  BY <1>1 DEF SamePlayers, TableState
<1>4. InHand(t) = InHand(s)
  BY <1>3 DEF SamePlayers, InHand
<1> QED
  BY <1>2, <1>3, <1>4 DEF PotsClaimed, t

\* A hand that goes to the showdown arrives there with claimed pots.
LEMMA ToShowdownPots ==
  ASSUME NEW s \in TableState
  PROVE  ToShowdown(s).phase = "SHOWDOWN" /\ PotsClaimed(ToShowdown(s))
<1> DEFINE u == calculateSidePots(s)
           t == ToShowdown(s)
<1>1. u \in TableState /\ PotsClaimed(u)
  BY CalculateSidePotsType, SidePotsClaimed
<1>2. t = [u EXCEPT !.phase = "SHOWDOWN", !.turn = NoTurn]
  BY DEF ToShowdown
<1> HIDE DEF u, t
<1>3. t.phase = "SHOWDOWN" /\ t.sidePots = u.sidePots /\ SamePlayers(u, t)
  BY <1>1, <1>2 DEF TableState, SamePlayers
<1> QED
  BY <1>1, <1>3 DEF PotsClaimed, SamePlayers, InHand, t

\* So does one that gets there through the river; the players stay as they were.
LEMMA NextPhasePots ==
  ASSUME NEW s \in TableState
  PROVE  LET t == nextPhase(s)
         IN  t.phase = PhaseAfter(s.phase) /\ SamePlayers(s, t) /\ PotsClaimed(t)
<1> DEFINE u == calculateSidePots(s)
           t == nextPhase(s)
           after == PhaseAfter(s.phase)
           noBet == [i \in Seats |-> 0]
           least == 2 * s.smallBlind
           turn == IF after = "SHOWDOWN" THEN NoTurn
                   ELSE findNextActiveSeat(s, SeatAfter(s.button))
<1>1. u \in TableState /\ PotsClaimed(u) /\ SamePlayers(s, u)
  BY CalculateSidePotsType, SidePotsClaimed
<1>2. t = [u EXCEPT !.phase = after, !.bet = noBet, !.checked = {}, !.currentBet = 0,
                    !.lastRaise = least, !.turn = turn]
  BY DEF nextPhase
<1> HIDE DEF u, t, after, noBet, least, turn
<1>3. t.phase = after /\ t.sidePots = u.sidePots /\ SamePlayers(u, t)
  BY <1>1, <1>2 DEF TableState, SamePlayers
<1> QED
  BY <1>1, <1>3 DEF PotsClaimed, SamePlayers, InHand, t, after

\* nextPhase never stays, and never ends the hand by itself.
LEMMA PhaseAfterMoves ==
  ASSUME NEW phase \in Betting
  PROVE  PhaseAfter(phase) # phase /\ PhaseAfter(phase) # "HAND_END"
BY DEF PhaseAfter, Betting

\* The ways on after an action.
LEMMA AdvanceWays ==
  ASSUME NEW s, NEW i \in Seats, MidAct(s, i)
  PROVE  LET t == advance(s, i)
         IN  \/ t.phase = "SHOWDOWN" /\ PotsClaimed(t)
             \/ /\ t.phase = PhaseAfter(s.phase) /\ PotsClaimed(t) /\ SamePlayers(s, t)
                /\ HasEveryoneActed(s)
             \/ /\ t.phase = s.phase /\ SamePlayers(s, t)
                /\ t.checked = s.checked /\ t.currentBet = s.currentBet
<1> DEFINE n == IF s.turn = i THEN findNextActiveSeat(s, SeatAfter(i)) ELSE s.turn
           t == advance(s, i)
<1>1. s \in TableState /\ RoundOpen(s) /\ CanAct(s) \subseteq Seats
  BY DEF MidAct, CanAct, InHand, TableState
<1>2. CASE shouldGoToShowdown(s)
  BY <1>1, <1>2, ToShowdownPots DEF advance
<1>3. CASE ~ shouldGoToShowdown(s) /\ shouldGoToNextPhase(s, n)
  <2>1. advance(s, i) = nextPhase(s)
    BY <1>3 DEF advance
  <2>2. HasEveryoneActed(s)
    <3>1. SUFFICES ASSUME n = NoTurn PROVE HasEveryoneActed(s)
      BY <1>3 DEF shouldGoToNextPhase
    <3>2. NoTurn \notin Seats
      BY SeatsAssumption DEF NoTurn, Seats
    <3>3. s.turn = i
      BY <1>1, <3>1, <3>2 DEF MidAct, TurnRuns
    <3>4. findNextActiveSeat(s, SeatAfter(i)) = NoTurn
      BY <3>1, <3>3
    <3>5. CanAct(s) = {}
      BY <1>1, <3>2, <3>4, SeatAfterType, NextActiveSeat
    <3>6. InHand(s) \ s.allIn = {}
      BY <1>1, <3>5 DEF RoundOpen, CanAct
    <3> QED
      BY <3>6 DEF HasEveryoneActed
  <2> QED
    BY <1>1, <2>1, <2>2, NextPhasePots
<1>4. CASE ~ shouldGoToShowdown(s) /\ ~ shouldGoToNextPhase(s, n)
  <2>1. t = [s EXCEPT !.turn = n]
    BY <1>4 DEF advance
  <2> HIDE DEF n, t
  <2>2. /\ t.phase = s.phase /\ SamePlayers(s, t)
        /\ t.checked = s.checked /\ t.currentBet = s.currentBet
    BY <1>1, <2>1 DEF TableState, SamePlayers
  <2> QED
    BY <2>2 DEF t
<1> QED
  BY <1>2, <1>3, <1>4

-----------------------------------------------------------------------------
(* The pots of a showdown, and the end of a hand.                          *)

\* At the showdown every pot has somebody in the hand, after it there is no pot.
PotsKept(s) ==
  /\ s.phase = "SHOWDOWN" => PotsClaimed(s)
  /\ s.phase = "HAND_END" => s.pot = 0

\* What claimSeat, releaseSeats, processRebuy, finishHand and resolveWinner leave in the fields
\* the step properties are about.
LEMMA SitDownFields ==
  ASSUME NEW s \in TableState, NEW i \in Seats
  PROVE  LET t == Filled(s, i)
         IN  /\ t.phase = s.phase /\ t.pot = s.pot /\ t.sidePots = s.sidePots
             /\ t.seated = s.seated \union {i}
             /\ s.phase # "WAITING" => t.folded = s.folded \union {i}
             /\ t.checked = s.checked \ {i}
             /\ \A j \in Seats : t.stack[j] = IF j = i THEN StartStack ELSE s.stack[j]
BY DEF Filled, TableState

\* A released seat loses its chips and no other seat does.
LEMMA StandUpFields ==
  ASSUME NEW s \in TableState, NEW i \in Seats
  PROVE  LET t == Emptied(s, i)
         IN  /\ t.phase = s.phase /\ t.pot = s.pot
             /\ \A j \in Seats : t.stack[j] = IF j = i THEN 0 ELSE s.stack[j]
BY DEF Emptied, TableState

\* A rebuy adds the chips of one buy-in to one seat.
LEMMA RebuyFields ==
  ASSUME NEW s \in TableState, NEW i \in Seats
  PROVE  LET t == applyRebuy(s, i, StartStack)
         IN  /\ t.phase = s.phase /\ t.pot = s.pot
             /\ \A j \in Seats : t.stack[j] = IF j = i THEN s.stack[i] + StartStack ELSE s.stack[j]
BY DEF applyRebuy, TableState

\* initTable leaves the stacks as they are.
LEMMA FinishFields ==
  ASSUME NEW s \in TableState
  PROVE  initTable(s).phase = "WAITING" /\ initTable(s).pot = 0 /\ initTable(s).stack = s.stack
<1> DEFINE seated == {i \in s.seated : s.stack[i] > 0}
           none   == [i \in Seats |-> 0]
           t == initTable(s)
<1>1. t = [s EXCEPT !.seated = seated, !.bet = none, !.contributed = none, !.folded = {},
                    !.checked = {}, !.allIn = {}, !.pot = 0, !.currentBet = 0,
                    !.lastRaise = 0, !.sidePots = {}, !.phase = "WAITING"]
  BY DEF initTable
<1> HIDE DEF seated, none, t
<1>2. t.phase = "WAITING" /\ t.pot = 0 /\ t.stack = s.stack
  BY <1>1 DEF TableState
<1> QED
  BY <1>2 DEF t

\* A resolved hand is over and its pot empty.
LEMMA ResolveFields ==
  ASSUME NEW s \in TableState, TableInv(s), NEW rank, CanResolve(s, rank)
  PROVE  resolveWinner(s, rank).phase = "HAND_END" /\ resolveWinner(s, rank).pot = 0
<1>1. s.phase = "SHOWDOWN" /\ s.pot = Total(s.contributed, N)
  BY DEF CanResolve, TableInv, PotExact
<1> DEFINE u == refundUncalledBets(s)
           stack == [i \in Seats |-> u.stack[i] + Winnings(u, rank, i)]
           t == resolveWinner(s, rank)
<1>2. u \in TableState
  BY <1>1, RefundLemma
<1>3. t = [u EXCEPT !.stack = stack, !.pot = 0, !.sidePots = {}, !.phase = "HAND_END",
                    !.folded = {}, !.checked = {}, !.allIn = {}]
  <2>1. [i \in Seats |-> u.stack[i] + Winnings(u, rank, i)] = stack
    OBVIOUS
  <2>. QED
    BY DEF resolveWinner
<1> HIDE DEF u, stack, t
<1>4. t.phase = "HAND_END" /\ t.pot = 0
  BY <1>2, <1>3 DEF TableState
<1> QED
  BY <1>4 DEF t

\* What an action of somebody at the table is.
LEMMA ActsAre ==
  ASSUME NEW i, TimeOut(i) \/ PlayerActs(i) \/ DealerRemoves(i)
  PROVE  \E action \in DealerActions \union PlayerActions, amount \in Nat : Act(i, action, amount)
<1>1. \A amount \in RaiseAmounts(i) : amount \in Nat
  BY DEF RaiseAmounts
<1> QED
  BY <1>1 DEF TimeOut, PlayerActs, DealerRemoves, DealerActions, PlayerActions

\* The table after an action, between applyAction and advance.
LEMMA ActMiddle ==
  ASSUME IInv, NEW i \in Seats, NEW action \in DealerActions \union PlayerActions,
         NEW amount \in Nat, Act(i, action, amount)
  PROVE  \E mid : /\ MidAct(mid, i) /\ mid \in TableState
                  /\ ActionEffect(table, mid)
                  /\ Chips(mid) = Chips(table)
                  /\ table' = advance(mid, i)
                  /\ table.phase \in Betting /\ table'.phase # "HAND_END"
<1> DEFINE mid == applyAction(table, i, action, amount)
<1>1. CanDo(table, i, action, amount) /\ table' = advance(mid, i)
  BY DEF Act, act
<1>2. ToAct(table, i)
  BY <1>1 DEF IInv, TypeOK, CanDo, TableInv, ToAct
<1>3. MidAct(mid, i) /\ ActionEffect(table, mid) /\ Chips(mid) = Chips(table)
  BY <1>1, <1>2, ApplyMid, ActionLeaves, ActionKeepsChips
<1>4. table.phase \in Betting /\ mid \in TableState
  BY <1>2, <1>3 DEF ToAct, MidAct
<1> HIDE DEF mid
<1>5. table'.phase # "HAND_END"
  <2>1. mid.phase \in Betting
    BY <1>3 DEF MidAct
  <2>2. "HAND_END" \notin Betting
    BY DEF Betting
  <2> QED
    BY <1>1, <1>3, <2>1, <2>2, AdvanceWays, PhaseAfterMoves
<1> QED
  BY <1>1, <1>3, <1>4, <1>5

\* The table a hand starts with.
LEMMA StartsAre ==
  ASSUME IInv, NEW level \in BlindLevels, StartHand(level)
  PROVE  \E opened \in TableState :
           /\ opened.phase = "PRE_FLOP"
           /\ Chips(opened) = Chips(table)
           /\ table' \in {opened, ToShowdown(opened)}
<1> DEFINE sb == level.sb
           u  == [table EXCEPT !.smallBlind = sb]
<1>1. sb \in Nat /\ level.ante \in Nat /\ table \in TableState /\ table.phase = "WAITING"
      /\ CanStart(table)
  BY BlindAssumption DEF IInv, TypeOK, StartHand
<1>2. table' = startPreFlop(u, level.ante)
  BY DEF StartHand
<1> HIDE DEF sb
<1>3. /\ u \in TableState
      /\ u.seated = table.seated /\ u.stack = table.stack /\ u.bet = table.bet
      /\ u.contributed = table.contributed /\ u.folded = table.folded
      /\ u.checked = table.checked /\ u.allIn = table.allIn /\ u.pot = table.pot
  BY <1>1 DEF TableState
<1> HIDE DEF u
<1>4. CleanTable(u) /\ CanStart(u) /\ Chips(u) = Chips(table)
  BY <1>1, <1>3 DEF IInv, TableInv, CleanTable, CanStart, InHand, Chips
<1>5. PICK opened \in TableState : /\ opened.phase = "PRE_FLOP"
                                   /\ Chips(opened) = Chips(u)
                                   /\ table' \in {opened, ToShowdown(opened)}
  BY <1>1, <1>2, <1>3, <1>4, StartOpens
<1> QED
  BY <1>4, <1>5

\* Every step keeps the pots of the showdown to those in the hand.
LEMMA PotsStep == ASSUME IInv, PotsKept(table), [Next]_vars PROVE PotsKept(table')
<1>0. table \in TableState /\ TableInv(table)
  BY DEF IInv, TypeOK
<1>1. ASSUME NEW i \in Seats, SitDown(i) PROVE PotsKept(table')
  <2>1. table' = Filled(table, i) /\ i \notin table.seated
    BY <1>1 DEF SitDown, Filled
  <2> DEFINE t == Filled(table, i)
  <2>2. /\ t.phase = table.phase /\ t.pot = table.pot /\ t.sidePots = table.sidePots
        /\ t.seated = table.seated \union {i}
        /\ table.phase # "WAITING" => t.folded = table.folded \union {i}
    BY <1>0, SitDownFields
  <2> HIDE DEF t
  <2>3. table.phase # "WAITING" => InHand(t) = InHand(table)
    BY <2>1, <2>2 DEF InHand
  <2>4. PotsKept(t)
    BY <2>2, <2>3 DEF PotsKept, PotsClaimed
  <2> QED
    BY <2>1, <2>4 DEF t
<1>2. ASSUME NEW i \in Seats, StandUp(i) PROVE PotsKept(table')
  <2>1. table' = Emptied(table, i) /\ table.phase = "WAITING"
    BY <1>2 DEF StandUp, Emptied
  <2>2. Emptied(table, i).phase = "WAITING"
    BY <1>0, <2>1, StandUpFields
  <2> QED
    BY <2>1, <2>2 DEF PotsKept
<1>3. ASSUME NEW level \in BlindLevels, StartHand(level) PROVE PotsKept(table')
  BY <1>3, StartsAre, ToShowdownPots DEF PotsKept
<1>4. ASSUME NEW i \in Seats, TimeOut(i) \/ PlayerActs(i) \/ DealerRemoves(i)
      PROVE  PotsKept(table')
  <2>1. PICK action \in DealerActions \union PlayerActions, amount \in Nat :
               Act(i, action, amount)
    BY <1>4, ActsAre
  <2>2. PICK mid : /\ MidAct(mid, i) /\ ActionEffect(table, mid)
                   /\ table' = advance(mid, i)
                   /\ table.phase \in Betting /\ table'.phase # "HAND_END"
    BY <2>1, ActMiddle
  <2>3. mid.phase # "SHOWDOWN"
    BY <2>2 DEF MidAct, Betting
  <2>4. table'.phase = "SHOWDOWN" => PotsClaimed(table')
    BY <2>2, <2>3, AdvanceWays
  <2> QED
    BY <2>2, <2>4 DEF PotsKept
<1>5. ASSUME NEW rank \in [Seats -> 0 .. N], Resolve(rank) PROVE PotsKept(table')
  BY <1>0, <1>5, ResolveFields DEF Resolve, PotsKept
<1>6. ASSUME NEW i \in Seats, Rebuy(i) PROVE PotsKept(table')
  BY <1>0, <1>6, RebuyFields DEF Rebuy, PotsKept
<1>7. CASE FinishHand
  BY <1>0, <1>7, FinishFields DEF FinishHand, PotsKept
<1>8. CASE UNCHANGED vars
  BY <1>8 DEF vars, PotsKept, PotsClaimed, InHand
<1> QED
  BY <1>1, <1>2, <1>3, <1>4, <1>5, <1>6, <1>7, <1>8 DEF Next

\* The pots of a showdown are for those in the hand, and a hand that is over has no pot.
THEOREM PotsAreClaimed == Spec => [](IInv /\ PotsKept(table))
<1>1. Init => IInv /\ PotsKept(table)
  BY InitInv DEF Init, EmptyTable, PotsKept
<1>2. IInv /\ PotsKept(table) /\ [Next]_vars => IInv' /\ PotsKept(table)'
  BY NextInv, PotsStep
<1> QED
  BY <1>1, <1>2, PTL DEF Spec

\* At the showdown the dealer can name winners: every pot has a player in the hand, and naming all
\* of them passes the check of resolveWinner.
THEOREM AlwaysResolvable == Spec => []ShowdownResolvable
<1>1. ASSUME IInv, PotsKept(table) PROVE ShowdownResolvable
  <2> DEFINE rank == [i \in Seats |-> IF i \in table.folded THEN 0 ELSE 1]
             u == refundUncalledBets(table)
  <2>1. SUFFICES ASSUME table.phase = "SHOWDOWN"
                 PROVE  PotsClaimed(table) /\ CanResolve(table, rank)
    BY DEF ShowdownResolvable, PotsClaimed
  <2>2. PotsClaimed(table)
    BY <1>1, <2>1 DEF PotsKept
  <2>3. table \in TableState /\ table.pot = Total(table.contributed, N)
    BY <1>1, <2>1 DEF IInv, TypeOK, TableInv, PotExact
  <2>4. u \in TableState /\ u.folded = table.folded
    BY <2>3, RefundLemma DEF RefundEffect, OnlyChipsMoved
  <2> HIDE DEF u
  <2>5. ASSUME NEW level \in Levels(u)
        PROVE  PotWinners(rank, PotEligible(u, level)) # {}
    <3>1. PICK i \in Contenders(u) : level = u.contributed[i]
      BY DEF Levels
    <3>2. /\ Contenders(u) \subseteq Seats /\ Contenders(u) \cap u.folded = {}
          /\ \A k \in Seats : u.contributed[k] \in Nat
      BY <2>4 DEF Contenders, Contributors, TableState
    <3>3. i \in PotEligible(u, level) /\ PotEligible(u, level) \subseteq Contenders(u)
      BY <3>1, <3>2 DEF PotEligible
    <3>4. \A j \in Contenders(u) : rank[j] = 1
      BY <2>4, <3>2
    <3> HIDE DEF rank
    <3>5. i \in PotWinners(rank, PotEligible(u, level))
      BY <3>3, <3>4 DEF PotWinners
    <3> QED
      BY <3>5
  <2> HIDE DEF rank
  <2>6. CanResolve(table, rank)
    BY <2>1, <2>5 DEF CanResolve, u
  <2> QED
    BY <2>2, <2>6
<1> QED
  BY <1>1, PotsAreClaimed, PTL

-----------------------------------------------------------------------------
(* What a step may never do.                                               *)

\* A stack that changes by d changes the chips at the table by d.
LEMMA StackMovesChips ==
  ASSUME NEW s \in TableState, NEW t, NEW i \in Seats, NEW d \in Int,
         t.pot = s.pot,
         \A j \in Seats : t.stack[j] = IF j = i THEN s.stack[i] + d ELSE s.stack[j]
  PROVE  Chips(t) = Chips(s) + d
<1> DEFINE f == s.stack
           g == t.stack
<1>1. N \in Nat /\ Seats = 0 .. N - 1 /\ Total(f, N) \in Nat /\ s.pot \in Nat
      /\ \A j \in 0 .. N - 1 : f[j] \in Int
  BY StackTotal
<1>2. \A j \in 0 .. N - 1 : g[j] = IF j = i THEN f[j] + d ELSE f[j]
  BY <1>1
<1>3. N \in Nat
  BY <1>1
<1>4. i \in 0 .. N - 1
  BY <1>1
<1> HIDE DEF f, g
<1>5. Total(g, N) = Total(f, N) + d
  BY <1>1, <1>2, <1>3, <1>4, TotalUpdate
<1>6. Chips(t) = Total(g, N) + s.pot /\ Chips(s) = Total(f, N) + s.pot
  BY DEF Chips, f, g
<1> QED
  BY <1>1, <1>5, <1>6

\* Chips and chips issued move together.
ChipsBalance ==
  \/ Contenders(table) = {} /\ table.phase = "SHOWDOWN"
  \/ Chips(table') - issued' = Chips(table) - issued

\* Every step keeps the balance, the exception apart.
LEMMA ChipsStep == ASSUME IInv, PotsKept(table), [Next]_vars PROVE ChipsBalance
<1>0. table \in TableState /\ TableInv(table) /\ issued \in Int
  BY DEF IInv, TypeOK
<1>a. Chips(table) \in Int
  BY <1>0, StackTotal DEF Chips
<1>1. ASSUME NEW i \in Seats, SitDown(i) PROVE ChipsBalance
  <2>1. table' = Filled(table, i) /\ issued' = issued + StartStack /\ table.stack[i] = 0
    BY <1>0, <1>1 DEF SitDown, Filled, TableInv, EmptySeatsClear
  <2>2. Chips(Filled(table, i)) = Chips(table) + StartStack
    BY <1>0, <2>1, SitDownFields, StackMovesChips, StackAssumption
  <2> QED
    BY <1>0, <1>a, <2>1, <2>2, StackAssumption DEF ChipsBalance
<1>2. ASSUME NEW i \in Seats, StandUp(i) PROVE ChipsBalance
  <2> DEFINE d == 0 - table.stack[i]
  <2>1. table' = Emptied(table, i) /\ issued' = issued + d /\ table.stack[i] \in Nat
    BY <1>0, <1>2 DEF StandUp, Emptied, TableState
  <2>2. Emptied(table, i).pot = table.pot
        /\ \A j \in Seats : Emptied(table, i).stack[j]
                              = IF j = i THEN table.stack[i] + d ELSE table.stack[j]
    BY <1>0, <2>1, StandUpFields
  <2>3. d \in Int
    BY <2>1
  <2> HIDE DEF d
  <2>4. Chips(Emptied(table, i)) = Chips(table) + d
    BY <1>0, <2>2, <2>3, StackMovesChips
  <2> QED
    BY <1>0, <1>a, <2>1, <2>3, <2>4 DEF ChipsBalance
<1>3. ASSUME NEW level \in BlindLevels, StartHand(level) PROVE ChipsBalance
  BY <1>3, StartsAre, ShowdownKeepsChips DEF StartHand, ChipsBalance
<1>4. ASSUME NEW i \in Seats, TimeOut(i) \/ PlayerActs(i) \/ DealerRemoves(i)
      PROVE  ChipsBalance
  <2>1. PICK action \in DealerActions \union PlayerActions, amount \in Nat :
               Act(i, action, amount)
    BY <1>4, ActsAre
  <2>2. PICK mid : /\ mid \in TableState /\ Chips(mid) = Chips(table)
                   /\ table' = advance(mid, i)
    BY <2>1, ActMiddle
  <2>3. Chips(advance(mid, i)) = Chips(table)
    BY <2>2, AdvanceKeepsChips
  <2> QED
    BY <2>1, <2>2, <2>3 DEF Act, ChipsBalance
<1>5. ASSUME NEW rank \in [Seats -> 0 .. N], Resolve(rank) PROVE ChipsBalance
  <2>1. table' = resolveWinner(table, rank) /\ CanResolve(table, rank)
        /\ issued' = issued /\ table.phase = "SHOWDOWN"
    BY <1>5 DEF Resolve, CanResolve
  <2>2. CASE Contenders(table) # {}
    <3>1. Chips(resolveWinner(table, rank)) = Chips(table)
      BY <1>0, <2>1, <2>2, ResolveKeepsChips
    <3> QED
      BY <2>1, <3>1 DEF ChipsBalance
  <2> QED
    BY <2>1, <2>2 DEF ChipsBalance
<1>6. ASSUME NEW i \in Seats, Rebuy(i) PROVE ChipsBalance
  <2>1. table' = applyRebuy(table, i, StartStack) /\ issued' = issued + StartStack
    BY <1>6 DEF Rebuy
  <2>2. Chips(applyRebuy(table, i, StartStack)) = Chips(table) + StartStack
    BY <1>0, RebuyFields, StackMovesChips, StackAssumption
  <2> QED
    BY <1>0, <1>a, <2>1, <2>2, StackAssumption DEF ChipsBalance
<1>7. CASE FinishHand
  <2>1. table' = initTable(table) /\ issued' = issued /\ table.pot = 0
    BY <1>7 DEF FinishHand, PotsKept
  <2>2. Chips(initTable(table)) = Chips(table)
    BY <1>0, <2>1, FinishFields DEF Chips
  <2> QED
    BY <2>1, <2>2 DEF ChipsBalance
<1>8. CASE UNCHANGED vars
  BY <1>8 DEF vars, ChipsBalance, Chips
<1> QED
  BY <1>1, <1>2, <1>3, <1>4, <1>5, <1>6, <1>7, <1>8 DEF Next

\* No step creates or destroys chips, for any number of seats, blinds and stacks: bets, antes,
\* uncalled chips, side pots with their odd chips, rebuys, released and emptied seats all add up.
\* The one exception is the resolution of a showdown in which nobody is left who has paid.
THEOREM ChipsAreConserved == Spec => ChipsLostOnlyUnclaimed
<1>1. ASSUME IInv, PotsKept(table), [Next]_vars
      PROVE  \/ Contenders(table) = {} /\ table.phase = "SHOWDOWN"
             \/ Total(table'.stack, N) + table'.pot - issued'
                  = Total(table.stack, N) + table.pot - issued
  <2>1. ChipsBalance
    BY <1>1, ChipsStep
  <2>2. table \in TableState /\ table' \in TableState /\ issued \in Int /\ issued' \in Int
    BY <1>1, NextInv DEF IInv, TypeOK
  <2>3. /\ Total(table.stack, N) \in Nat /\ table.pot \in Nat
        /\ Total(table'.stack, N) \in Nat /\ table'.pot \in Nat
    BY <2>2, StackTotal
  <2> QED
    BY <2>1, <2>2, <2>3 DEF ChipsBalance, Chips
<1>2. IInv /\ PotsKept(table) /\ [Next]_vars
        => [ \/ Contenders(table) = {} /\ table.phase = "SHOWDOWN"
             \/ Total(table'.stack, N) + table'.pot - issued'
                  = Total(table.stack, N) + table.pot - issued ]_vars
  BY <1>1
<1> QED
  BY <1>2, PotsAreClaimed, PTL DEF Spec, ChipsLostOnlyUnclaimed

\* The only step that ends a betting round or takes a mark away is an action; seats are filled
\* with folded players.
RoundMoves ==
  \/ table'.phase \notin Betting \/ table.phase \notin Betting
  \/ table'.phase = table.phase /\ InHand(table') \cap (table.checked \ table'.checked) = {}
  \/ \E i \in Seats : \E mid : /\ MidAct(mid, i) /\ ActionEffect(table, mid)
                                /\ table' = advance(mid, i)

\* Every step is one of those.
LEMMA RoundStep == ASSUME IInv, [Next]_vars PROVE RoundMoves
<1>0. table \in TableState /\ TableInv(table)
  BY DEF IInv, TypeOK
<1>1. ASSUME NEW i \in Seats, SitDown(i), table.phase \in Betting PROVE RoundMoves
  <2>1. table' = Filled(table, i) /\ table.phase # "WAITING"
    BY <1>1 DEF SitDown, Filled, Betting
  <2> DEFINE t == Filled(table, i)
  <2>2. t.phase = table.phase /\ t.folded = table.folded \union {i}
        /\ t.checked = table.checked \ {i}
    BY <1>0, <2>1, SitDownFields
  <2> HIDE DEF t
  <2>3. InHand(t) \cap (table.checked \ t.checked) = {}
    BY <2>2 DEF InHand
  <2> QED
    BY <2>1, <2>2, <2>3 DEF RoundMoves, t
<1>2. ASSUME NEW i \in Seats, TimeOut(i) \/ PlayerActs(i) \/ DealerRemoves(i)
      PROVE  RoundMoves
  <2>1. PICK action \in DealerActions \union PlayerActions, amount \in Nat :
               Act(i, action, amount)
    BY <1>2, ActsAre
  <2>2. \E mid : MidAct(mid, i) /\ ActionEffect(table, mid) /\ table' = advance(mid, i)
    BY <2>1, ActMiddle
  <2> QED
    BY <2>2 DEF RoundMoves
<1>3. CASE UNCHANGED vars
  <2>1. table' = table
    BY <1>3 DEF vars
  <2>2. table'.phase = table.phase /\ table.checked \ table'.checked = {}
    BY <2>1
  <2> QED
    BY <2>2 DEF RoundMoves
<1>4. ASSUME table.phase \notin Betting PROVE RoundMoves
  BY <1>4 DEF RoundMoves
<1>5. "WAITING" \notin Betting /\ "SHOWDOWN" \notin Betting /\ "HAND_END" \notin Betting
  BY DEF Betting
<1>6. ASSUME table.phase \in Betting
      PROVE  /\ \A i \in Seats : ~ StandUp(i) /\ ~ Rebuy(i)
             /\ \A level \in BlindLevels : ~ StartHand(level)
             /\ \A rank \in [Seats -> 0 .. N] : ~ Resolve(rank)
             /\ ~ FinishHand
  BY <1>5, <1>6 DEF StandUp, StartHand, Resolve, CanResolve, Rebuy, FinishHand
<1> QED
  <2>1. CASE table.phase \in Betting /\ Next
    BY <1>1, <1>2, <1>6, <2>1 DEF Next
  <2> QED
    BY <1>3, <1>4, <2>1

\* A betting round ends only after everybody who can still act has acted in it, or acts now: the
\* big blind keeps its option, and a full raise gives the others their turn back.
THEOREM RoundsEndComplete == Spec => EverybodyActs
<1>1. ASSUME IInv, RoundMoves, table.phase \in Betting, table'.phase \in Betting,
             table'.phase # table.phase, NEW i \in InHand(table') \ table'.allIn
      PROVE  i = table.turn \/ i \in table.checked
  <2>1. PICK a, mid : /\ a \in Seats /\ MidAct(mid, a) /\ ActionEffect(table, mid)
                      /\ table' = advance(mid, a)
    BY <1>1 DEF RoundMoves
  <2>2. table'.phase # "SHOWDOWN" /\ mid.phase = table.phase
    BY <1>1, <2>1 DEF Betting, ActionEffect
  <2>3. SamePlayers(mid, table') /\ HasEveryoneActed(mid)
    BY <1>1, <2>1, <2>2, AdvanceWays
  <2>4. i \in InHand(mid) \ mid.allIn
    BY <1>1, <2>3 DEF SamePlayers, InHand
  <2> QED
    BY <2>1, <2>3, <2>4 DEF HasEveryoneActed, ActionEffect
<1>2. IInv /\ [Next]_vars
        => [ table.phase \in Betting /\ table'.phase \in Betting
             /\ table'.phase # table.phase
             => \A i \in InHand(table') \ table'.allIn :
                  i = table.turn \/ i \in table.checked ]_vars
  BY <1>1, RoundStep
<1> QED
  BY <1>2, Invariance, PTL DEF Spec, EverybodyActs

\* Within a betting round nobody who has acted gets another turn but by a full raise: neither an
\* all-in below the minimum nor the dealer's fold or a newcomer reopens the betting (handleRaise).
THEOREM OnlyFullRaisesReopen == Spec => ReopenedByFullRaise
<1>1. ASSUME IInv, RoundMoves, table.phase \in Betting, table'.phase = table.phase,
             NEW i \in InHand(table') \ table'.allIn, i \in table.checked \ table'.checked
      PROVE  table'.currentBet - table.currentBet >= minRaiseSize(table)
  <2>1. PICK a, mid : /\ a \in Seats /\ MidAct(mid, a) /\ ActionEffect(table, mid)
                      /\ table' = advance(mid, a)
    BY <1>1 DEF RoundMoves
  <2>2. table'.phase # "SHOWDOWN" /\ mid.phase = table.phase
    BY <1>1, <2>1 DEF Betting, ActionEffect
  <2>3. PhaseAfter(mid.phase) # mid.phase
    BY <1>1, <2>2, PhaseAfterMoves
  <2>4. table'.checked = mid.checked /\ table'.currentBet = mid.currentBet
    BY <1>1, <2>1, <2>2, <2>3, AdvanceWays
  <2> QED
    BY <1>1, <2>1, <2>4 DEF ActionEffect
<1>2. IInv /\ [Next]_vars
        => [ table.phase \in Betting /\ table'.phase = table.phase
             /\ (\E i \in InHand(table') \ table'.allIn : i \in table.checked \ table'.checked)
             => table'.currentBet - table.currentBet >= minRaiseSize(table) ]_vars
  BY <1>1, RoundStep
<1> QED
  BY <1>2, Invariance, PTL DEF Spec, ReopenedByFullRaise

\* The only step from a showdown to the end of the hand is resolveWinner.
LEMMA ResolutionStep ==
  ASSUME IInv, [Next]_vars, table.phase = "SHOWDOWN", table'.phase = "HAND_END"
  PROVE  \E rank : CanResolve(table, rank) /\ table' = resolveWinner(table, rank)
<1>0. table \in TableState
  BY DEF IInv, TypeOK
<1>1. ASSUME NEW i \in Seats, SitDown(i) PROVE FALSE
  <2>1. table' = Filled(table, i)
    BY <1>1 DEF SitDown, Filled
  <2> QED
    BY <1>0, <2>1, SitDownFields
<1>2. ASSUME NEW i \in Seats, TimeOut(i) \/ PlayerActs(i) \/ DealerRemoves(i)
      PROVE  FALSE
  BY <1>2, ActsAre, ActMiddle
<1>3. ASSUME NEW rank \in [Seats -> 0 .. N], Resolve(rank)
      PROVE  CanResolve(table, rank) /\ table' = resolveWinner(table, rank)
  BY <1>3 DEF Resolve
<1>4. CASE UNCHANGED vars
  BY <1>4 DEF vars
<1>5. ~ (\E i \in Seats : SitDown(i) \/ StandUp(i))
  BY <1>1 DEF StandUp
<1>6. ~ (\E level \in BlindLevels : StartHand(level)) /\ ~ (\E i \in Seats : Rebuy(i))
      /\ ~ FinishHand
  BY DEF StartHand, Rebuy, FinishHand
<1> QED
  BY <1>2, <1>3, <1>4, <1>5, <1>6 DEF Next

\* resolveWinner pays nobody more than their own contribution bought, whatever the ranking: a
\* folded player gets back its uncalled chips alone, a short one at most as much from each of the
\* others as it put in itself (refundUncalledBets, calculateSidePots, splitPot).
THEOREM WinningsAreCapped == Spec => WinningsCapped
<1> DEFINE capped ==
      table.phase = "SHOWDOWN" /\ table'.phase = "HAND_END"
      => \A i \in table.seated :
           LET gain  == table'.stack[i] - table.stack[i]
               share == [j \in Seats |-> Lesser(table.contributed[i],
                                                table.contributed[j])]
           IN  /\ i \in table.folded => gain = Uncalled(table, i)
               /\ (\E j \in Contenders(table) \ {i} :
                     table.contributed[j] > table.contributed[i])
                    => i \in table.folded \/ gain <= Total(share, N)
<1>1. ASSUME IInv, [Next]_vars PROVE capped
  <2>1. SUFFICES ASSUME table.phase = "SHOWDOWN", table'.phase = "HAND_END",
                        NEW i \in table.seated, NEW gain, NEW share,
                        gain = table'.stack[i] - table.stack[i],
                        share = [j \in Seats |-> Lesser(table.contributed[i],
                                                        table.contributed[j])]
                 PROVE  /\ i \in table.folded => gain = Uncalled(table, i)
                        /\ (\E j \in Contenders(table) \ {i} :
                              table.contributed[j] > table.contributed[i])
                             => i \in table.folded \/ gain <= Total(share, N)
    OBVIOUS
  <2>2. table \in TableState /\ TableInv(table)
    BY <1>1 DEF IInv, TypeOK
  <2>3. PICK rank : CanResolve(table, rank) /\ table' = resolveWinner(table, rank)
    BY <1>1, <2>1, ResolutionStep
  <2>4. gain = resolveWinner(table, rank).stack[i] - table.stack[i]
    BY <2>1, <2>3
  <2> QED
    BY <2>1, <2>2, <2>3, <2>4, ResolveCaps
<1>2. IInv /\ [Next]_vars => [capped]_vars
  BY <1>1
<1> QED
  BY <1>2, Invariance, PTL DEF Spec, WinningsCapped

\* The comment on calculateSidePots, as far as it goes: as long as somebody is left at the showdown
\* who has paid anything, the side pots add up to the pot.
THEOREM PotsCoverTheHand ==
  Spec => [](table.phase = "SHOWDOWN" /\ Contenders(table) # {}
               => Total([k \in Seats |-> IF k \in LevelSeats(table)
                                         THEN PotAmount(table, table.contributed[k])
                                         ELSE 0], N) = table.pot)
<1>1. ASSUME IInv, table.phase = "SHOWDOWN", Contenders(table) # {}
      PROVE  Total(Pots(table), N) = table.pot
  <2>1. table \in TableState /\ OnlySeatedPaid(table) /\ table.pot = Total(table.contributed, N)
    BY <1>1 DEF IInv, TypeOK, TableInv, EmptySeatsClear, OnlySeatedPaid, PotExact
  <2> QED
    BY <1>1, <2>1, PotsCoverAll
<1>2. IInv => (table.phase = "SHOWDOWN" /\ Contenders(table) # {}
                 => Total([k \in Seats |-> IF k \in LevelSeats(table)
                                           THEN PotAmount(table, table.contributed[k])
                                           ELSE 0], N) = table.pot)
  BY <1>1 DEF Pots
<1> QED
  BY <1>2, Invariance, PTL
=============================================================================
