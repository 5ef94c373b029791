----------------------- MODULE TournamentLedgerProofs -----------------------
(***************************************************************************)
(* TournamentLedger for any number of players and any fees, rake, payout   *)
(* table, points and stacks, and whichever calls overlap: a player's       *)
(* prizes in the history are the one on his row, and nobody has fewer      *)
(* points than none.  The exceptions of the other theorems are remembered  *)
(* in stale, and StaleStays and FairBefore carry them through a step: what *)
(* was collected before the start is what a cancellation gives back, until *)
(* a join pays a fee it read too early; the rows keep the book of          *)
(* TournamentBook, until somebody writes from an outdated reading or       *)
(* behind a door; and the prizes of a tournament that is over add up to    *)
(* its pool, until a kick, a first prize or a deal is written from one.    *)
(***************************************************************************)
EXTENDS TournamentLedger, ChipSumsProofs, FiniteSetTheorems, FunctionTheorems,
        SequenceTheorems

-----------------------------------------------------------------------------
(* What the arithmetic of Settlement returns *)

\* Percentages that add up to 100: what parsePayouts lets through.
Whole(payouts) ==
  payouts \in Seq(1 .. 100) /\ Total(Percents(payouts), Len(payouts)) = 100

LEMMA PercentNat == \A x \in 1 .. 100 : x \in Nat
OBVIOUS

\* The shares rounded down fit into the pool, as the percentages into 100.
LEMMA SharesFit ==
  ASSUME NEW pool \in Nat, NEW n \in Nat, NEW f, NEW g,
         \A i \in 0 .. n - 1 : g[i] \in Nat,
         \A i \in 0 .. n - 1 : f[i] \in Nat /\ 100 * f[i] <= pool * g[i]
  PROVE  /\ Total(f, n) \in Nat /\ Total(g, n) \in Nat
         /\ 100 * Total(f, n) <= pool * Total(g, n)
<1> DEFINE T == {k \in Nat : k <= n => /\ Total(f, k) \in Nat /\ Total(g, k) \in Nat
                                       /\ 100 * Total(f, k) <= pool * Total(g, k)}
<1>1. 0 \in T
  BY TotalEmpty
<1>2. ASSUME NEW k \in Nat, k \in T, k + 1 <= n
      PROVE  k + 1 \in T
  <2>1. Total(f, k + 1) = Total(f, k) + f[k] /\ Total(g, k + 1) = Total(g, k) + g[k]
    BY TotalStep
  <2>2. /\ f[k] \in Nat /\ g[k] \in Nat /\ 100 * f[k] <= pool * g[k]
        /\ Total(f, k) \in Nat /\ Total(g, k) \in Nat
        /\ 100 * Total(f, k) <= pool * Total(g, k)
    BY <1>2
  <2>3. pool * (Total(g, k) + g[k]) = pool * Total(g, k) + pool * g[k]
    BY <2>2
  <2>4. 100 * (Total(f, k) + f[k]) <= pool * Total(g, k) + pool * g[k]
    <3> DEFINE a == pool * Total(g, k)
               b == pool * g[k]
    <3>1. a \in Int /\ b \in Int
      BY <2>2
    <3>2. 100 * Total(f, k) <= a /\ 100 * f[k] <= b
      BY <2>2
    <3> HIDE DEF a, b
    <3>3. 100 * (Total(f, k) + f[k]) <= a + b
      BY <3>1, <3>2, <2>2
    <3> QED BY <3>3 DEF a, b
  <2> QED BY <1>2, <2>1, <2>2, <2>3, <2>4
<1>3. \A k \in Nat : k \in T => k + 1 \in T
  <2> TAKE k \in Nat
  <2>1. CASE k + 1 <= n
    BY <2>1, <1>2
  <2>2. CASE ~(k + 1 <= n)
    BY <2>2
  <2> QED BY <2>1, <2>2
<1>4. Nat \subseteq T
  <2> HIDE DEF T
  <2> QED BY <1>1, <1>3, InductionOnSet
<1> QED BY <1>4

\* The rest that goes to the first place is not negative.
LEMMA PrizeForNat ==
  ASSUME NEW pool \in Nat, NEW payouts, payouts = <<>> \/ Whole(payouts), NEW place
  PROVE  PrizeFor(pool, payouts, place) \in Nat
<1>1. CASE place \notin DOMAIN payouts
  BY <1>1 DEF PrizeFor
<1>2. CASE place \in DOMAIN payouts
  <2> DEFINE n == Len(payouts)
             cut(p) == (pool * payouts[p]) \div 100
             f == [i \in 0 .. n - 1 |-> IF i = 0 THEN 0 ELSE cut(i + 1)]
  <2>1. /\ Whole(payouts) /\ payouts \in Seq(1 .. 100) /\ n \in Nat
        /\ DOMAIN payouts = 1 .. n
        /\ \A p \in 1 .. n : payouts[p] \in 1 .. 100
    <3>1. Whole(payouts)
      BY <1>2
    <3>2. payouts \in Seq(1 .. 100)
      BY <3>1 DEF Whole
    <3> HIDE DEF n
    <3>3. DOMAIN payouts = 1 .. Len(payouts) /\ Len(payouts) \in Nat
      BY <3>2
    <3> QED BY <3>1, <3>2, <3>3, ElementOfSeq DEF n
  <2>2. \A p \in 1 .. n : cut(p) \in Nat /\ 100 * cut(p) <= pool * payouts[p]
    <3> TAKE p \in 1 .. n
    <3>1. payouts[p] \in Nat
      <4>1. payouts[p] \in 1 .. 100
        BY <2>1
      <4> QED BY <4>1, PercentNat
    <3>2. pool * payouts[p] \in Nat
      BY <3>1
    <3> HIDE DEF n
    <3> QED BY <3>2, Division
  <2>3. \A i \in 0 .. n - 1 : /\ Percents(payouts)[i] = payouts[i + 1]
                              /\ Percents(payouts)[i] \in Nat
    <3> TAKE i \in 0 .. n - 1
    <3>1. i + 1 \in 1 .. n
      BY <2>1
    <3>2. payouts[i + 1] \in 1 .. 100
      BY <2>1, <3>1
    <3>3. payouts[i + 1] \in Nat
      BY <3>2, PercentNat
    <3> QED BY <3>3 DEF Percents
  <2>4. \A i \in 0 .. n - 1 : f[i] \in Nat /\ 100 * f[i] <= pool * Percents(payouts)[i]
    <3> TAKE i \in 0 .. n - 1
    <3>1. i + 1 \in 1 .. n
      BY <2>1
    <3>2. CASE i = 0
      <4>1. pool * Percents(payouts)[i] \in Nat
        BY <2>3
      <4> QED BY <3>2, <4>1
    <3>3. CASE i # 0
      BY <3>1, <3>3, <2>2, <2>3
    <3> QED BY <3>2, <3>3
  <2>5. Total(f, n) \in Nat /\ 100 * Total(f, n) <= pool * 100
    <3> HIDE DEF f, n, cut
    <3>1. 100 * Total(f, n) <= pool * Total(Percents(payouts), n) /\ Total(f, n) \in Nat
      BY <2>1, <2>3, <2>4, SharesFit
    <3>2. Total(Percents(payouts), n) = 100
      BY <2>1 DEF Whole, n
    <3> QED BY <3>1, <3>2
  <2>6. pool - Total(f, n) \in Nat
    <3> HIDE DEF f, n
    <3> QED BY <2>5
  <2>7. CalculatePrizes(pool, payouts)
          = [p \in DOMAIN payouts |-> IF p = 1 THEN pool - Total(f, n) ELSE cut(p)]
    BY DEF CalculatePrizes
  <2>8. CalculatePrizes(pool, payouts)[place] \in Nat
    <3> HIDE DEF f, n, cut
    <3> QED BY <1>2, <2>1, <2>2, <2>6, <2>7
  <2> QED BY <1>2, <2>8 DEF PrizeFor
<1> QED BY <1>1, <1>2

\* The rake is no more than the total.
LEMMA PoolNat ==
  ASSUME NEW total \in Nat
  PROVE  PrizePoolOf(total, Rake) \in Nat /\ RakeOf(total, Rake) \in Nat
<1>1. Rake \in Nat /\ Rake <= 100
  BY MoneyAssumption
<1> DEFINE a == total * Rake
<1>2. a \in Nat /\ a <= 100 * total
  BY <1>1
<1>3. (a \div 100) \in Nat /\ a \div 100 <= total
  <2> HIDE DEF a
  <2> QED BY <1>2
<1> QED BY <1>3 DEF PrizePoolOf, RakeOf

\* The tier that holds is one of the table's.
LEMMA TierIs ==
  ASSUME NEW entries, PayoutTable # <<>>
  PROVE  \E i \in DOMAIN PayoutTable : /\ PayoutsFor(entries, PayoutTable) = PayoutTable[i].payouts
                                       /\ Whole(PayoutTable[i].payouts)
<1> DEFINE reached == {i \in DOMAIN PayoutTable :
                         \A j \in 1 .. i : PayoutTable[j].minEntries <= entries}
<1>1. \A i \in DOMAIN PayoutTable : Whole(PayoutTable[i].payouts)
  <2> TAKE i \in DOMAIN PayoutTable
  <2>1. PayoutTable[i] \in [minEntries : Nat, payouts : Seq(1 .. 100)]
    <3> DEFINE Tier == [minEntries : Nat, payouts : Seq(1 .. 100)]
    <3>1. PayoutTable \in Seq(Tier)
      BY TableAssumption
    <3> HIDE DEF Tier
    <3>2. DOMAIN PayoutTable = 1 .. Len(PayoutTable)
      BY <3>1
    <3>3. PayoutTable[i] \in Tier
      BY <3>1, <3>2, ElementOfSeq
    <3> QED BY <3>3 DEF Tier
  <2>2. PayoutTable[i].payouts \in Seq(1 .. 100)
    BY <2>1
  <2> QED BY <2>2, TableAssumption DEF Whole
<1>2. CASE reached = {}
  <2>1. 1 \in DOMAIN PayoutTable
    BY TableAssumption
  <2>2. PayoutsFor(entries, PayoutTable) = PayoutTable[1].payouts
    BY <1>2 DEF PayoutsFor
  <2> HIDE DEF reached
  <2> QED BY <1>1, <2>1, <2>2
<1>3. CASE reached # {}
  <2> DEFINE n == Len(PayoutTable)
             above == {k \in Nat : \E j \in reached : k = n - j}
  <2>1. n \in Nat /\ DOMAIN PayoutTable = 1 .. n
    BY TableAssumption
  <2>2. above # {} /\ above \subseteq Nat
    <3>1. PICK j \in reached : TRUE
      BY <1>3
    <3>2. j \in 1 .. n
      BY <2>1
    <3> HIDE DEF n
    <3>3. n - j \in Nat
      BY <3>2, <2>1
    <3> QED BY <3>1, <3>3
  <2>3. PICK least \in above : \A k \in above : ~ (k < least)
    <3> HIDE DEF above
    <3> QED BY <2>2, LeastNumber
  <2>4. PICK i \in reached : least = n - i
    OBVIOUS
  <2>5. \A j \in reached : j <= i
    <3> TAKE j \in reached
    <3>1. j \in 1 .. n /\ i \in 1 .. n
      BY <2>1
    <3>2. n - j \in above
      <4> HIDE DEF n, reached
      <4> QED BY <2>1, <3>1
    <3>3. ~ (n - j < n - i)
      BY <2>3, <2>4, <3>2
    <3> HIDE DEF n
    <3> QED BY <2>1, <3>1, <3>3
  <2>6. (CHOOSE k \in reached : \A j \in reached : j <= k) \in DOMAIN PayoutTable
    <3>1. (CHOOSE k \in reached : \A j \in reached : j <= k) \in reached
      <4> HIDE DEF reached
      <4> QED BY <2>5
    <3> QED BY <3>1
  <2>7. PayoutsFor(entries, PayoutTable)
          = PayoutTable[CHOOSE k \in reached : \A j \in reached : j <= k].payouts
    BY <1>3 DEF PayoutsFor
  <2> HIDE DEF reached
  <2> QED BY <1>1, <2>6, <2>7
<1> QED BY <1>2, <1>3

\* Its percentages add up, if there is one.
LEMMA TierWhole ==
  ASSUME NEW entries
  PROVE  PayoutsFor(entries, PayoutTable) = <<>> \/ Whole(PayoutsFor(entries, PayoutTable))
<1>1. CASE PayoutTable = <<>>
  BY <1>1 DEF PayoutsFor
<1>2. CASE PayoutTable # <<>>
  <2>1. PICK i \in DOMAIN PayoutTable :
               /\ PayoutsFor(entries, PayoutTable) = PayoutTable[i].payouts
               /\ Whole(PayoutTable[i].payouts)
    BY <1>2, TierIs
  <2> QED BY <2>1
<1> QED BY <1>1, <1>2

-----------------------------------------------------------------------------
(* Who gets how much *)

\* What awardPrize is called with.
AwardsTo(who) == [who -> [place : Int, amount : Nat]]

\* Whoever bust in one hand gets places and prizes, none negative.
LEMMA SplitBustedAwards ==
  ASSUME NEW busted \in SUBSET Players, NEW start, NEW last \in Int, NEW pool \in Nat,
         NEW payouts, payouts = <<>> \/ Whole(payouts)
  PROVE  SplitBustedRanks(busted, start, last, pool, payouts) \in AwardsTo(busted)
<1> DEFINE better(p) == {q \in busted : start[q] > start[p]}
           tied(p)   == {q \in busted : start[q] = start[p]}
           place(p)  == last - Cardinality(busted) + 1 + Cardinality(better(p))
           f(p)      == [i \in 0 .. Cardinality(tied(p)) - 1 |->
                           PrizeFor(pool, payouts, place(p) + i)]
           pot(p)    == Total(f(p), Cardinality(tied(p)))
           each(p)   == pot(p) \div Cardinality(tied(p))
           odd(p)    == Cardinality({q \in tied(p) : q < p}) < pot(p) % Cardinality(tied(p))
<1>1. IsFiniteSet(Players)
  BY PlayersAssumption, FS_Interval DEF Players
<1>2. IsFiniteSet(busted) /\ Cardinality(busted) \in Nat
  BY <1>1, FS_Subset, FS_CardinalityType
<1>3. \A p \in busted : Cardinality(better(p)) \in Nat
  <2> TAKE p \in busted
  <2>1. better(p) \subseteq busted
    OBVIOUS
  <2> QED BY <1>2, <2>1, FS_Subset, FS_CardinalityType
<1>4. \A p \in busted : Cardinality(tied(p)) \in Nat /\ Cardinality(tied(p)) > 0
  <2> TAKE p \in busted
  <2>1. tied(p) \subseteq busted /\ p \in tied(p)
    OBVIOUS
  <2>2. IsFiniteSet(tied(p)) /\ tied(p) # {}
    BY <1>2, <2>1, FS_Subset
  <2> HIDE DEF tied
  <2>3. Cardinality(tied(p)) \in Nat /\ Cardinality(tied(p)) # 0
    BY <2>2, FS_CardinalityType, FS_EmptySet
  <2> QED BY <2>3
<1>5. \A p \in busted : each(p) \in Nat
  <2> TAKE p \in busted
  <2>1. Cardinality(tied(p)) \in Nat /\ Cardinality(tied(p)) > 0
    BY <1>4
  <2>2. \A i \in 0 .. Cardinality(tied(p)) - 1 : f(p)[i] \in Nat
    BY PrizeForNat
  <2>3. pot(p) \in Nat
    <3> HIDE DEF f, tied
    <3> QED BY <2>1, <2>2, TotalNat
  <2> HIDE DEF pot, tied
  <2> QED BY <2>1, <2>3, Division
<1>6. \A p \in busted : place(p) \in Int
  <2> HIDE DEF better
  <2> QED BY <1>2, <1>3
<1>7. SplitBustedRanks(busted, start, last, pool, payouts)
        = [p \in busted |-> [place |-> place(p), amount |-> each(p) + IF odd(p) THEN 1 ELSE 0]]
  BY DEF SplitBustedRanks
<1>8. \A p \in busted : each(p) + (IF odd(p) THEN 1 ELSE 0) \in Nat
  <2> HIDE DEF each, odd
  <2> QED BY <1>5
<1> HIDE DEF place, each, odd
<1> QED BY <1>6, <1>7, <1>8 DEF AwardsTo

\* A division by ratio gives nobody less than nothing.
LEMMA SplitByRatioNat ==
  ASSUME NEW amount \in Nat, NEW weight \in [Players -> Nat], NEW index
  PROVE  SplitByRatio(amount, weight, index) \in [Players -> Nat]
<1> DEFINE total == Sum(weight)
           floor == [p \in Players |-> (amount * weight[p]) \div total]
<1>1. total \in Nat
  BY PlayersAssumption, TotalNat DEF Sum, Players
<1>2. CASE total <= 0 \/ amount <= 0
  BY <1>2 DEF SplitByRatio
<1>3. CASE total > 0 /\ amount > 0
  <2>1. \A p \in Players : floor[p] \in Nat
    <3> TAKE p \in Players
    <3>1. weight[p] \in Nat
      OBVIOUS
    <3>2. amount * weight[p] \in Nat
      BY <3>1
    <3> HIDE DEF total
    <3> QED BY <1>1, <1>3, <3>2, Division
  <2> HIDE DEF total, floor
  <2>2. \A p \in Players : \A b \in BOOLEAN : floor[p] + (IF b THEN 1 ELSE 0) \in Nat
    BY <2>1
  <2> DEFINE remainder == [p \in Players |-> (amount * weight[p]) % total]
             ahead(p)  == {q \in Players : \/ remainder[q] > remainder[p]
                                           \/ /\ remainder[q] = remainder[p]
                                              /\ index[q] < index[p]}
             fit(p)    == Cardinality(ahead(p)) < amount - Sum(floor)
  <2>3. SplitByRatio(amount, weight, index)
          = [p \in Players |-> floor[p] + IF fit(p) THEN 1 ELSE 0]
    <3>1. ~ (total <= 0 \/ amount <= 0)
      BY <1>1, <1>3
    <3> QED BY <3>1 DEF SplitByRatio, total, floor
  <2>4. \A p \in Players : fit(p) \in BOOLEAN
    OBVIOUS
  <2> HIDE DEF fit
  <2> QED BY <2>2, <2>3, <2>4
<1> QED BY <1>1, <1>2, <1>3

\* A deal divides by chips.
LEMMA ChopAwards ==
  ASSUME NEW alive \in SUBSET Players, NEW stack \in [alive -> Stacks], NEW left \in Nat
  PROVE  CalculateChop(alive, stack, left) \in AwardsTo(alive)
<1> DEFINE weight   == [p \in Players |-> IF p \in alive THEN stack[p] ELSE 0]
           ahead(p) == {q \in Players : \/ weight[q] > weight[p]
                                        \/ weight[q] = weight[p] /\ q < p}
           index    == [p \in Players |-> Cardinality(ahead(p))]
           shares   == SplitByRatio(left, weight, index)
<1>1. weight \in [Players -> Nat]
  <2>1. Stacks \subseteq Nat
    BY MoneyAssumption
  <2> QED BY <2>1
<1>2. shares \in [Players -> Nat]
  <2> HIDE DEF weight, index
  <2> QED BY <1>1, SplitByRatioNat
<1>3. \A p \in Players : index[p] \in Nat
  <2> TAKE p \in Players
  <2>1. ahead(p) \subseteq Players
    OBVIOUS
  <2>2. IsFiniteSet(Players)
    BY PlayersAssumption, FS_Interval DEF Players
  <2>3. Cardinality(ahead(p)) \in Nat
    <3> HIDE DEF ahead
    <3> QED BY <2>1, <2>2, FS_Subset, FS_CardinalityType
  <2> QED BY <2>3
<1>4. CalculateChop(alive, stack, left)
        = [p \in alive |-> [place |-> 1 + index[p], amount |-> shares[p]]]
  BY DEF CalculateChop
<1> HIDE DEF index, shares
<1> QED BY <1>2, <1>3, <1>4 DEF AwardsTo

-----------------------------------------------------------------------------
(* A division by ratio gives away exactly the amount                       *)

\* A number for everybody in a set adds up to that number for each of its members.
LEMMA MarkedTotal ==
  ASSUME NEW n \in Nat, NEW D \in SUBSET (0 .. n - 1), NEW c \in Nat, NEW g,
         \A i \in 0 .. n - 1 : g[i] = IF i \in D THEN c ELSE 0
  PROVE  Cardinality(D) \in Nat /\ Total(g, n) = Cardinality(D) * c
<1> DEFINE upTo(k) == D \cap (0 .. k - 1)
           T == {k \in Nat : k <= n => Total(g, k) = Cardinality(upTo(k)) * c}
<1>1. \A k \in Nat : IsFiniteSet(upTo(k)) /\ Cardinality(upTo(k)) \in Nat
  <2> TAKE k \in Nat
  <2>1. IsFiniteSet(0 .. k - 1) /\ upTo(k) \in SUBSET (0 .. k - 1)
    BY FS_Interval
  <2> HIDE DEF upTo
  <2> QED BY <2>1, FS_Subset, FS_CardinalityType
<1>2. 0 \in T
  <2>1. upTo(0) = {}
    OBVIOUS
  <2>2. Cardinality(upTo(0)) = 0
    BY <2>1, FS_EmptySet
  <2> HIDE DEF upTo
  <2> QED BY <2>2, TotalEmpty
<1>3. ASSUME NEW k \in Nat, k \in T, k + 1 <= n
      PROVE  k + 1 \in T
  <2> DEFINE a == Cardinality(upTo(k))
             b == Cardinality(upTo(k + 1))
  <2>1. k \in 0 .. n - 1
    BY <1>3
  <2>2. Total(g, k + 1) = Total(g, k) + g[k]
    BY TotalStep
  <2>3. Total(g, k) = a * c /\ a \in Nat
    <3>1. a \in Nat
      BY <1>1
    <3> HIDE DEF upTo
    <3>2. k <= n
      BY <1>3
    <3>3. Total(g, k) = Cardinality(upTo(k)) * c
      BY <1>3, <3>2
    <3> QED BY <3>1, <3>3
  <2>4. CASE k \in D
    <3>1. upTo(k + 1) = upTo(k) \union {k} /\ k \notin upTo(k)
      BY <2>4
    <3> DEFINE u == upTo(k)
    <3>2. IsFiniteSet(u)
      BY <1>1
    <3>3. Cardinality(u \union {k}) = Cardinality(u) + 1
      <4> HIDE DEF u
      <4> SUFFICES k \notin u
        BY <3>2, FS_AddElement
      <4> QED BY <3>1 DEF u
    <3>4. b = a + 1
      BY <3>1, <3>3
    <3>5. g[k] = c
      BY <2>1, <2>4
    <3> HIDE DEF a, b, upTo
    <3>6. (a + 1) * c = a * c + c
      BY <2>3
    <3> QED BY <1>3, <2>2, <2>3, <3>4, <3>5, <3>6 DEF b
  <2>5. CASE k \notin D
    <3>1. upTo(k + 1) = upTo(k)
      BY <2>5
    <3>2. g[k] = 0 /\ b = a
      BY <2>1, <2>5, <3>1
    <3> HIDE DEF a, b, upTo
    <3>3. a * c \in Nat
      BY <2>3
    <3> QED BY <1>3, <2>2, <2>3, <3>2, <3>3 DEF b
  <2> QED BY <2>4, <2>5
<1>4. \A k \in Nat : k \in T => k + 1 \in T
  <2> TAKE k \in Nat
  <2>1. CASE k + 1 <= n
    BY <1>3, <2>1
  <2>2. CASE ~ (k + 1 <= n)
    BY <2>2
  <2> QED BY <2>1, <2>2
<1>5. n \in T
  <2> HIDE DEF T
  <2> QED BY <1>2, <1>4, InductionOnSet
<1>6. upTo(n) = D
  OBVIOUS
<1> HIDE DEF upTo
<1> QED BY <1>1, <1>5, <1>6

\* A sum of multiples is the multiple of the sum.
LEMMA TotalTimes ==
  ASSUME NEW n \in Nat, NEW f, NEW g, NEW c \in Int,
         \A i \in 0 .. n - 1 : f[i] \in Int,
         \A i \in 0 .. n - 1 : g[i] = c * f[i]
  PROVE  Total(f, n) \in Int /\ Total(g, n) = c * Total(f, n)
<1> DEFINE T == {k \in Nat : k <= n => Total(f, k) \in Int /\ Total(g, k) = c * Total(f, k)}
<1>1. 0 \in T
  BY TotalEmpty
<1>2. ASSUME NEW k \in Nat, k \in T, k + 1 <= n
      PROVE  k + 1 \in T
  <2> DEFINE x == Total(f, k)
             y == f[k]
  <2>1. Total(f, k + 1) = x + y /\ Total(g, k + 1) = Total(g, k) + g[k]
    BY TotalStep
  <2>2. x \in Int /\ y \in Int /\ Total(g, k) = c * x /\ g[k] = c * y
    BY <1>2
  <2> HIDE DEF x, y
  <2>3. c * (x + y) = c * x + c * y
    BY <2>2
  <2> QED BY <1>2, <2>1, <2>2, <2>3
<1>3. \A k \in Nat : k \in T => k + 1 \in T
  <2> TAKE k \in Nat
  <2>1. CASE k + 1 <= n
    BY <1>2, <2>1
  <2>2. CASE ~ (k + 1 <= n)
    BY <2>2
  <2> QED BY <2>1, <2>2
<1> HIDE DEF T
<1>4. n \in T
  BY <1>1, <1>3, InductionOnSet
<1> QED BY <1>4 DEF T

\* ahead[p] are those before p in a strict order of all
Ranked(n, ahead) ==
  /\ ahead \in [0 .. n - 1 -> SUBSET (0 .. n - 1)]
  /\ \A p \in 0 .. n - 1 : p \notin ahead[p]
  /\ \A p, q \in 0 .. n - 1 : p # q => p \in ahead[q] \/ q \in ahead[p]
  /\ \A p, q \in 0 .. n - 1 : p \in ahead[q] => ahead[p] \subseteq ahead[q]

\* In a strict order there are k who have fewer than k ahead of them.
LEMMA RankCount ==
  ASSUME NEW n \in Nat, NEW ahead, Ranked(n, ahead), NEW k \in 0 .. n
  PROVE  Cardinality({p \in 0 .. n - 1 : Cardinality(ahead[p]) < k}) = k
<1> DEFINE S == 0 .. n - 1
           r == [p \in S |-> Cardinality(ahead[p])]
           D == {p \in S : Cardinality(ahead[p]) < k}
           K == 0 .. k - 1
<1>1. IsFiniteSet(S) /\ Cardinality(S) = n /\ IsFiniteSet(K) /\ Cardinality(K) = k
  BY FS_Interval
<1>2. \A p \in S : IsFiniteSet(ahead[p]) /\ r[p] \in S
  <2> TAKE p \in S
  <2>1. ahead[p] \subseteq S \ {p}
    BY DEF Ranked
  <2>2. IsFiniteSet(S \ {p}) /\ Cardinality(S \ {p}) = n - 1
    <3> HIDE DEF S
    <3> QED BY <1>1, FS_RemoveElement
  <2> HIDE DEF S
  <2>3. IsFiniteSet(ahead[p]) /\ Cardinality(ahead[p]) <= n - 1 /\ Cardinality(ahead[p]) \in Nat
    BY <2>1, <2>2, FS_Subset, FS_CardinalityType
  <2> QED BY <2>3 DEF S
<1>3. \A p, q \in S : p \in ahead[q] => r[p] < r[q]
  <2> TAKE p, q \in S
  <2>1. SUFFICES ASSUME p \in ahead[q] PROVE r[p] < r[q]
    OBVIOUS
  <2>2. ahead[p] \in SUBSET (ahead[q]) /\ ahead[p] # ahead[q]
    BY <2>1 DEF Ranked
  <2>3. Cardinality(ahead[p]) <= Cardinality(ahead[q])
        /\ Cardinality(ahead[p]) # Cardinality(ahead[q])
    BY <1>2, <2>2, FS_Subset
  <2>4. r[p] \in S /\ r[q] \in S
    BY <1>2
  <2> QED BY <2>3, <2>4
<1>4. \A p, q \in S : r[p] = r[q] => p = q
  <2> TAKE p, q \in S
  <2>1. r[p] \in Int /\ r[q] \in Int
    BY <1>2
  <2>2. p # q => r[p] < r[q] \/ r[q] < r[p]
    BY <1>3 DEF Ranked
  <2> HIDE DEF r
  <2> QED BY <2>1, <2>2
<1>5. r \in Injection(S, S)
  <2>1. r \in [S -> S]
    BY <1>2
  <2> HIDE DEF r
  <2> QED BY <1>4, <2>1, Fun_IsInj
<1>6. r \in Surjection(S, S)
  <2> HIDE DEF r, S
  <2> QED BY <1>1, <1>5, FS_Injection
<1> DEFINE f == [p \in D |-> r[p]]
<1>7. f \in [D -> K]
  <2>1. \A p \in D : r[p] \in S /\ r[p] < k
    BY <1>2
  <2> HIDE DEF r, D
  <2> QED BY <2>1
<1>8. f \in Injection(D, K)
  <2>1. \A p, q \in D : f[p] = f[q] => p = q
    BY <1>4
  <2> HIDE DEF f, D, K
  <2> QED BY <1>7, <2>1, Fun_IsInj
<1>9. \A m \in K : \E p \in D : f[p] = m
  <2> TAKE m \in K
  <2>1. m \in S
    OBVIOUS
  <2>2. PICK p \in S : r[p] = m
    <3> HIDE DEF r
    <3> QED BY <1>6, <2>1 DEF Surjection
  <2> QED BY <2>2
<1>10. f \in Bijection(D, K)
  <2> HIDE DEF f, D, K
  <2> QED BY <1>7, <1>8, <1>9 DEF Bijection, Surjection
<1>11. Cardinality(D) = Cardinality(K)
  <2>1. IsFiniteSet(D)
    <3>1. D \subseteq S
      OBVIOUS
    <3> HIDE DEF D, S
    <3> QED BY <1>1, <3>1, FS_Subset
  <2> HIDE DEF f, D, K
  <2> QED BY <1>10, <2>1, FS_Bijection DEF ExistsBijection
<1> QED BY <1>1, <1>11

\* A factor that is positive can be taken away from both sides.
LEMMA Smaller ==
  ASSUME NEW a \in Nat, a > 0, NEW x \in Int, NEW y \in Int, a * x < a * y
  PROVE  x < y
<1>1. SUFFICES ASSUME x >= y PROVE FALSE
  OBVIOUS
<1> DEFINE d == x - y
<1>2. d \in Nat /\ x = y + d
  BY <1>1
<1> HIDE DEF d
<1>3. a * d >= 0 /\ a * (y + d) = a * y + a * d /\ a * y \in Int
  BY <1>2
<1> QED BY <1>2, <1>3

\* Who loses something when the shares are rounded down.
Losing(remainder) == {p \in Players : remainder[p] > 0}

\* What is left after rounding down is at most one unit for each of them.
LEMMA RestFits ==
  ASSUME NEW amount \in Nat, NEW total \in Nat, total > 0, NEW weight \in [Players -> Nat],
         Sum(weight) = total,
         NEW floor, NEW remainder,
         \A p \in Players : floor[p] = (amount * weight[p]) \div total,
         \A p \in Players : remainder[p] = (amount * weight[p]) % total
  PROVE  /\ Sum(floor) \in Nat /\ \A p \in Players : floor[p] \in Nat /\ remainder[p] \in Nat
         /\ amount - Sum(floor) \in 0 .. M
         /\ amount - Sum(floor) <= Cardinality(Losing(remainder))
<1>0. M \in Nat /\ M > 0 /\ Players = 0 .. M - 1
  BY PlayersAssumption DEF Players
<1> DEFINE whole == [p \in Players |-> amount * weight[p]]
           cut   == [p \in Players |-> total * floor[p]]
<1>1. \A p \in Players : /\ floor[p] \in Nat /\ remainder[p] \in 0 .. total - 1
                         /\ amount * weight[p] = total * floor[p] + remainder[p]
  <2> TAKE p \in Players
  <2>1. weight[p] \in Nat
    OBVIOUS
  <2>2. amount * weight[p] \in Nat
    BY <2>1
  <2> QED BY <2>2, Division
<1>2. Total(whole, M) = amount * total /\ Total(weight, M) \in Int
  <2>1. \A i \in 0 .. M - 1 : weight[i] \in Int
    BY <1>0
  <2>2. \A i \in 0 .. M - 1 : whole[i] = amount * weight[i]
    BY <1>0
  <2>3. M \in Nat
    BY <1>0
  <2>4. amount \in Int
    OBVIOUS
  <2> HIDE DEF whole
  <2>5. Total(weight, M) \in Int /\ Total(whole, M) = amount * Total(weight, M)
    BY <2>1, <2>2, <2>3, <2>4, TotalTimes
  <2>6. Total(weight, M) = total
    BY DEF Sum
  <2> QED BY <2>5, <2>6
<1>3. Total(cut, M) = total * Sum(floor)
  <2>1. \A i \in 0 .. M - 1 : floor[i] \in Int
    BY <1>0, <1>1
  <2>2. \A i \in 0 .. M - 1 : cut[i] = total * floor[i]
    BY <1>0
  <2>3. M \in Nat
    BY <1>0
  <2>4. total \in Int
    OBVIOUS
  <2> HIDE DEF cut
  <2>5. Total(cut, M) = total * Total(floor, M)
    BY <2>1, <2>2, <2>3, <2>4, TotalTimes
  <2> QED BY <2>5 DEF Sum
<1>4. Total(whole, M) = Total(cut, M) + Total(remainder, M)
  <2>1. \A i \in 0 .. M - 1 : cut[i] \in Int /\ remainder[i] \in Int
                              /\ whole[i] = cut[i] + remainder[i]
    <3> TAKE i \in 0 .. M - 1
    <3>1. i \in Players
      BY <1>0
    <3>2. floor[i] \in Nat /\ remainder[i] \in 0 .. total - 1
          /\ amount * weight[i] = total * floor[i] + remainder[i]
      BY <1>1, <3>1
    <3>3. cut[i] = total * floor[i] /\ whole[i] = amount * weight[i]
      BY <3>1
    <3>4. total * floor[i] \in Int
      BY <3>2
    <3> HIDE DEF whole, cut
    <3> QED BY <3>2, <3>3, <3>4
  <2> HIDE DEF whole, cut
  <2> QED BY <1>0, <2>1, TotalPlus
<1>5. Sum(floor) \in Nat /\ Total(remainder, M) \in Nat
  BY <1>0, <1>1, TotalNat DEF Sum
<1> DEFINE E     == Losing(remainder)
           count == Cardinality(E)
<1>6. count \in 0 .. M /\ Total(remainder, M) <= count * total
  <2> DEFINE most == [p \in Players |-> IF p \in E THEN total ELSE 0]
  <2>1. \A i \in 0 .. M - 1 : remainder[i] \in Int /\ most[i] \in Int /\ remainder[i] <= most[i]
    BY <1>0, <1>1 DEF Losing
  <2>2. \A i \in 0 .. M - 1 : most[i] = IF i \in E THEN total ELSE 0
    BY <1>0
  <2>3. Total(remainder, M) <= Total(most, M)
    <3> HIDE DEF most
    <3> QED BY <1>0, <2>1, TotalAtMost
  <2>4. E \in SUBSET (0 .. M - 1)
    BY <1>0 DEF Losing
  <2>5. M \in Nat
    BY <1>0
  <2>6. count \in Nat /\ Total(most, M) = count * total
    <3>1. total \in Nat
      OBVIOUS
    <3> HIDE DEF E, most
    <3>2. Total(most, M) = Cardinality(E) * total
      BY ONLY <2>2, <2>4, <2>5, <3>1, MarkedTotal
    <3>3. Cardinality(E) \in Nat
      BY ONLY <2>2, <2>4, <2>5, <3>1, MarkedTotal
    <3> QED BY <3>2, <3>3
  <2>7. count <= M
    <3>1. IsFiniteSet(0 .. M - 1) /\ Cardinality(0 .. M - 1) = M
      BY <1>0, FS_Interval
    <3> HIDE DEF E
    <3> QED BY <2>4, <3>1, FS_Subset
  <2> HIDE DEF count, most
  <2> QED BY <2>3, <2>5, <2>6, <2>7
<1> DEFINE left == amount - Sum(floor)
           rest == Total(remainder, M)
<1>7. left \in Int /\ rest \in Nat /\ total * left = rest
  <2> DEFINE s == Sum(floor)
  <2>1. s \in Nat
    BY <1>5
  <2>2. amount * total = total * s + rest
    BY <1>2, <1>3, <1>4
  <2>3. rest \in Nat
    BY <1>5
  <2> HIDE DEF s, rest
  <2>4. total * (amount - s) = amount * total - total * s
    BY <2>1
  <2>5. amount * total \in Int /\ total * s \in Int
    BY <2>1
  <2> QED BY <2>1, <2>2, <2>3, <2>4, <2>5 DEF s
<1>8. left >= 0
  <2> HIDE DEF left, rest
  <2>1. total * (0 - 1) = 0 - total /\ total * left > 0 - total
    BY <1>7
  <2>2. 0 - 1 < left
    <3> DEFINE m == 0 - 1
    <3>1. m \in Int /\ total * m < total * left
      BY <2>1
    <3> HIDE DEF m
    <3>2. m < left
      BY <1>7, <3>1, Smaller
    <3> QED BY <3>2 DEF m
  <2> QED BY <1>7, <2>2
<1>9. left <= count
  <2>1. rest <= count * total
    BY <1>6
  <2> HIDE DEF left, rest, count
  <2>2. total * (count + 1) = count * total + total /\ count * total \in Int
    BY <1>6
  <2> DEFINE x == count * total
             y == count + 1
  <2>3. y \in Int
    BY <1>6
  <2>4. total * left < total * y
    <3>1. x \in Int /\ rest <= x /\ rest \in Nat /\ total * y = x + total
      BY <1>7, <2>1, <2>2
    <3> HIDE DEF x, y
    <3> QED BY <1>7, <3>1
  <2>5. left < y
    <3> HIDE DEF y
    <3> QED BY <1>7, <2>3, <2>4, Smaller
  <2> QED BY <1>6, <1>7, <2>5
<1>10. left \in 0 .. M
  <2> HIDE DEF left, count
  <2> QED BY <1>0, <1>6, <1>7, <1>8, <1>9
<1> QED BY <1>1, <1>5, <1>9, <1>10

\* A division by ratio gives away exactly the amount: the units that do not divide go,
\* one each, to those with the largest remainders.
LEMMA SplitByRatioExact ==
  ASSUME NEW amount \in Nat, NEW weight \in [Players -> Nat], Sum(weight) > 0,
         NEW index \in [Players -> Int],
         \A p, q \in Players : index[p] = index[q] => p = q
  PROVE  Sum(SplitByRatio(amount, weight, index)) = amount
<1>0. M \in Nat /\ M > 0 /\ Players = 0 .. M - 1
  BY PlayersAssumption DEF Players
<1> DEFINE total == Sum(weight)
           floor == [p \in Players |-> (amount * weight[p]) \div total]
           remainder == [p \in Players |-> (amount * weight[p]) % total]
           ahead == [p \in Players |-> {q \in Players : \/ remainder[q] > remainder[p]
                                                        \/ /\ remainder[q] = remainder[p]
                                                           /\ index[q] < index[p]}]
           left  == amount - Sum(floor)
           D     == {p \in Players : Cardinality(ahead[p]) < left}
           one   == [p \in Players |-> IF p \in D THEN 1 ELSE 0]
           split == SplitByRatio(amount, weight, index)
<1>1. total \in Nat /\ total > 0
  BY <1>0, TotalNat DEF Sum
<1>2. CASE amount = 0
  <2>1. \A i \in 0 .. M - 1 : split[i] = 0
    BY <1>0, <1>2 DEF SplitByRatio
  <2> HIDE DEF split
  <2> QED BY <1>0, <1>2, <2>1, TotalZero DEF Sum, split
<1>3. CASE amount > 0
  <2>1. /\ Sum(floor) \in Nat /\ left \in 0 .. M
        /\ \A p \in Players : floor[p] \in Nat /\ remainder[p] \in Nat
    <3>1. \A p \in Players : floor[p] = (amount * weight[p]) \div total
      OBVIOUS
    <3>2. \A p \in Players : remainder[p] = (amount * weight[p]) % total
      OBVIOUS
    <3>3. Sum(weight) = total
      OBVIOUS
    <3>4. total \in Nat
      BY <1>1
    <3>5. total > 0
      BY <1>1
    <3> HIDE DEF total, floor, remainder
    <3>6. /\ Sum(floor) \in Nat /\ \A p \in Players : floor[p] \in Nat /\ remainder[p] \in Nat
          /\ amount - Sum(floor) \in 0 .. M
          /\ amount - Sum(floor) <= Cardinality(Losing(remainder))
      BY ONLY <3>1, <3>2, <3>3, <3>4, <3>5, amount \in Nat, weight \in [Players -> Nat],
              RestFits
    <3> QED BY <3>6
  <2>2. Ranked(M, ahead)
    <3>1. \A p \in Players : remainder[p] \in Nat /\ index[p] \in Int
      BY <2>1
    <3>2. \A p, q \in Players : q \in ahead[p] <=> \/ remainder[q] > remainder[p]
                                                  \/ /\ remainder[q] = remainder[p]
                                                     /\ index[q] < index[p]
      OBVIOUS
    <3>3. ahead \in [Players -> SUBSET Players]
      OBVIOUS
    <3> HIDE DEF remainder, ahead
    <3>4. \A p \in Players : p \notin ahead[p]
      BY <3>1, <3>2
    <3>5. \A p, q \in Players : p # q => p \in ahead[q] \/ q \in ahead[p]
      BY <3>1, <3>2
    <3>6. \A p, q \in Players : p \in ahead[q] => ahead[p] \subseteq ahead[q]
      <4> SUFFICES ASSUME NEW p \in Players, NEW q \in Players, p \in ahead[q],
                          NEW x \in ahead[p]
                   PROVE  x \in ahead[q]
        OBVIOUS
      <4>1. x \in Players
        BY <3>3
      <4> QED BY <3>1, <3>2, <4>1
    <3> QED BY <1>0, <3>3, <3>4, <3>5, <3>6 DEF Ranked
  <2>3. Cardinality(D) = left
    <3>1. Cardinality({p \in 0 .. M - 1 : Cardinality(ahead[p]) < left}) = left
      <4> HIDE DEF ahead, left
      <4> QED BY <1>0, <2>1, <2>2, RankCount
    <3> QED BY <1>0, <3>1
  <2>4. split = [p \in Players |-> floor[p] + IF Cardinality(ahead[p]) < left THEN 1 ELSE 0]
    <3>1. ~ (Sum(weight) <= 0 \/ amount <= 0)
      BY <1>1, <1>3
    <3> QED BY <3>1 DEF SplitByRatio
  <2>5. \A i \in 0 .. M - 1 : /\ floor[i] \in Int /\ one[i] \in Int
                              /\ split[i] = floor[i] + one[i]
    <3> HIDE DEF floor, ahead, left, split
    <3> QED BY <1>0, <2>1, <2>4
  <2>6. Sum(split) = Sum(floor) + Total(one, M)
    <3> HIDE DEF floor, one, split
    <3> QED BY <1>0, <2>5, TotalPlus DEF Sum
  <2>7. Total(one, M) = left
    <3>1. D \in SUBSET (0 .. M - 1) /\ \A i \in 0 .. M - 1 : one[i] = IF i \in D THEN 1 ELSE 0
      BY <1>0
    <3>2. left * 1 = left
      BY <2>1
    <3> DEFINE c == 1
    <3>a. c \in Nat
      OBVIOUS
    <3>b. M \in Nat
      BY <1>0
    <3>c. D \in SUBSET (0 .. M - 1)
      BY <3>1
    <3>d. \A i \in 0 .. M - 1 : one[i] = IF i \in D THEN c ELSE 0
      BY <3>1
    <3> HIDE DEF D, one, c
    <3>e. Total(one, M) = Cardinality(D) * c
      BY <3>a, <3>b, <3>c, <3>d, MarkedTotal
    <3>3. Total(one, M) = Cardinality(D) * 1
      BY <3>e DEF c
    <3> HIDE DEF left
    <3> QED BY <2>3, <3>2, <3>3
  <2> DEFINE s == Sum(floor)
             u == Sum(split)
             v == Total(one, M)
  <2>8. u = s + v /\ v = amount - s /\ s \in Nat
    BY <2>1, <2>6, <2>7
  <2> HIDE DEF s, u, v
  <2>9. u = amount
    BY <2>8
  <2> QED BY <2>9 DEF u
<1> QED BY <1>2, <1>3

-----------------------------------------------------------------------------
(* The invariant of the rows *)

\* What the history says is on the row, and only whoever is out has a prize.
PrizesBooked ==
  /\ PrizeOnce
  /\ \A p \in Players : part[p].status \notin Finished => part[p].prize = 0

\* Whoever is about to join has no row yet; whoever a call is about has one.
Outside(p) == part[p].status = "NONE"
Apart ==
  /\ \A p \in Players : join[p] # NoSum => Outside(p)
  /\ \A p \in asked : ~Outside(p)
  /\ kick # Nobody => ~Outside(kick)
  /\ \A i \in Finishing : winner[i].pc = "read" => ~Outside(winner[i].player)
  /\ chop.pc \in {"alive", "totals"} => \A p \in chop.alive : ~Outside(p)

LedgerInv == RowsTyped /\ CallsTyped /\ PrizesBooked /\ Apart

\* The fees are numbers.
LEMMA FeesNat == Fees \subseteq Nat
BY MoneyAssumption

\* The doors and the start leave the row a row.
LEMMA StatusFits ==
  ASSUME NEW r \in TournamentRow
  PROVE  /\ [r EXCEPT !.status = "ONGOING", !.started = TRUE] \in TournamentRow
         /\ [r EXCEPT !.status = "FINISHED", !.tables = 0] \in TournamentRow
         /\ [r EXCEPT !.status = "CANCELLED", !.total = 0, !.active = 0, !.tables = 0]
               \in TournamentRow
<1>1. [r EXCEPT !.status = "ONGOING", !.started = TRUE] \in TournamentRow
  <2>1. [r EXCEPT !.status = "ONGOING"] \in TournamentRow
    BY DEF TournamentRow
  <2> QED BY <2>1 DEF TournamentRow
<1>2. [r EXCEPT !.status = "CANCELLED", !.total = 0, !.active = 0, !.tables = 0]
        \in TournamentRow
  BY 0 \in Nat, 0 \in Int DEF TournamentRow
<1>3. [r EXCEPT !.status = "FINISHED", !.tables = 0] \in TournamentRow
  <2>1. \A q \in TournamentRow : [q EXCEPT !.tables = 0] \in TournamentRow
    BY 0 \in Int DEF TournamentRow
  <2>2. [r EXCEPT !.status = "FINISHED"] \in TournamentRow
    BY DEF TournamentRow
  <2>3. [r EXCEPT !.status = "FINISHED", !.tables = 0]
          = [[r EXCEPT !.status = "FINISHED"] EXCEPT !.tables = 0]
    OBVIOUS
  <2> QED BY <2>1, <2>2, <2>3
<1> QED BY <1>1, <1>2, <1>3

\* The empty tournament.
LEMMA LedgerInit == Init => LedgerInv
<1> SUFFICES ASSUME Init PROVE LedgerInv
  OBVIOUS
<1>1. RowsTyped
  BY MoneyAssumption DEF Init, RowsTyped, TournamentRow, Row
<1>2. CallsTyped
  BY DEF Init, CallsTyped, NoneFinishing, NoCall, FinishingCalls, ChopCalls
<1>3. PrizesBooked
  BY DEF Init, PrizesBooked, PrizeOnce
<1>4. Apart
  BY DEF Init, Apart, NoneFinishing, NoCall
<1> QED BY <1>1, <1>2, <1>3, <1>4 DEF LedgerInv

\* awardPrize writes amount, row and history together, and only for whoever is not out.
LEMMA AwardKept ==
  ASSUME LedgerInv, NEW who \in SUBSET Players, NEW awards \in AwardsTo(who),
         AwardPrize(awards)
  PROVE  /\ part' \in [Players -> Row]
         /\ points' \in [Players -> Nat]
         /\ paid' \in [Players -> [buyIn : Nat, prize : Nat, refund : Nat]]
         /\ PrizesBooked'
<1> DEFINE due == Awardable(awards)
           amount(p) == IF p \in due THEN awards[p].amount ELSE 0
<1>1. \A p \in due : /\ p \in Players /\ awards[p].amount \in Nat /\ awards[p].place \in Int
                     /\ part[p].status \notin Finished
  BY DEF Awardable, AwardsTo
<1>2. \A p \in Players : amount(p) \in Nat
  <2> HIDE DEF due
  <2> QED BY <1>1
<1>3. /\ points' = [p \in Players |-> points[p] + amount(p)]
      /\ paid' = [p \in Players |-> [paid[p] EXCEPT !.prize = @ + amount(p)]]
      /\ part' = [p \in Players |->
                    IF p \notin due THEN part[p]
                    ELSE [part[p] EXCEPT
                            !.place  = awards[p].place,
                            !.prize  = awards[p].amount,
                            !.status = IF awards[p].amount > 0 THEN "AWARDED" ELSE "ELIMINATED"]]
  BY DEF AwardPrize
<1>4. \A p \in Players : /\ part[p] \in Row /\ points[p] \in Nat
                         /\ paid[p] \in [buyIn : Nat, prize : Nat, refund : Nat]
                         /\ paid[p].prize = part[p].prize
                         /\ part[p].status \notin Finished => part[p].prize = 0
  BY DEF LedgerInv, RowsTyped, TournamentRow, PrizesBooked, PrizeOnce
<1> HIDE DEF amount
<1>5. points' \in [Players -> Nat]
  <2>1. \A p \in Players : points[p] + amount(p) \in Nat
    BY <1>2, <1>4
  <2> QED BY <1>3, <2>1
<1>6. paid' \in [Players -> [buyIn : Nat, prize : Nat, refund : Nat]]
  <2>1. ASSUME NEW p \in Players
        PROVE  [paid[p] EXCEPT !.prize = @ + amount(p)]
                 \in [buyIn : Nat, prize : Nat, refund : Nat]
    <3>1. paid[p].prize + amount(p) \in Nat
      BY <1>2, <1>4
    <3> QED BY <1>4, <3>1
  <2> QED BY <1>3, <2>1
<1> HIDE DEF due
<1>7. ASSUME NEW p \in due
      PROVE  /\ part'[p] \in Row /\ part'[p].status \in Finished
             /\ part'[p].prize = awards[p].amount
  <2>1. p \in Players /\ part[p] \in Row
    BY <1>1, <1>4
  <2>2. part'[p] = [part[p] EXCEPT
                      !.place  = awards[p].place,
                      !.prize  = awards[p].amount,
                      !.status = IF awards[p].amount > 0 THEN "AWARDED" ELSE "ELIMINATED"]
    BY <1>3, <2>1
  <2> QED BY <1>1, <2>1, <2>2 DEF Row, Finished
<1>8. \A p \in Players \ due : part'[p] = part[p]
  BY <1>3
<1>9. part' \in [Players -> Row]
  <2>1. \A p \in Players : part'[p] \in Row
    BY <1>4, <1>7, <1>8
  <2>2. DOMAIN part' = Players /\ part' = [p \in Players |-> part'[p]]
    BY <1>3
  <2> QED BY <2>1, <2>2
<1>10. ASSUME NEW p \in Players
       PROVE  /\ paid'[p].prize = part'[p].prize
              /\ part'[p].status \notin Finished => part'[p].prize = 0
  <2>1. paid'[p].prize = paid[p].prize + amount(p)
    <3>1. paid'[p] = [paid[p] EXCEPT !.prize = @ + amount(p)]
      BY <1>3
    <3> QED BY <3>1, <1>4
  <2>2. CASE p \in due
    <3>1. paid[p].prize = 0
      BY <1>1, <1>4, <2>2
    <3>2. amount(p) = awards[p].amount /\ awards[p].amount \in Nat
      BY <1>1, <2>2 DEF amount
    <3> QED BY <1>7, <2>1, <2>2, <3>1, <3>2
  <2>3. CASE p \notin due
    <3>1. amount(p) = 0 /\ paid[p].prize \in Nat
      BY <1>4, <2>3 DEF amount
    <3>2. part'[p] = part[p]
      BY <1>8, <2>3
    <3>3. paid'[p].prize = paid[p].prize
      BY <2>1, <3>1
    <3> QED BY <1>4, <3>2, <3>3
  <2> QED BY <2>2, <2>3
<1> QED BY <1>5, <1>6, <1>9, <1>10 DEF PrizesBooked, PrizeOnce

\* What everybody claims when the tournament is broken off, and what he gets of it.
LEMMA AbortRefunds ==
  ASSUME NEW seats \in [Players -> Row], NEW fee \in Nat, NEW total \in Nat
  PROVE  CalculateAbortSettlement(seats, fee, total).refunds \in [Players -> Nat]
<1> DEFINE prizes    == [p \in Players |-> seats[p].prize]
           available == Greater(0, total - Sum(prizes))
           claims    == [p \in Players |-> Claim(seats[p], fee)]
<1>1. ASSUME NEW seat \in Row PROVE Claim(seat, fee) \in Nat
  <2>1. fee * seat.buyIns \in Nat /\ Percent(seat.status) \in Nat /\ seat.prize \in Nat
    BY DEF Row, Percent
  <2>2. fee * seat.buyIns * Percent(seat.status) \in Nat
    BY <2>1
  <2>3. (fee * seat.buyIns * Percent(seat.status)) \div 100 \in Nat
    BY <2>2, Division
  <2> QED BY <2>1, <2>3 DEF Claim, Greater
<1>2. claims \in [Players -> Nat]
  BY <1>1
<1>3. Sum(prizes) \in Nat
  <2>1. \A i \in 0 .. M - 1 : prizes[i] \in Nat
    BY DEF Players, Row
  <2> HIDE DEF prizes
  <2> QED BY <2>1, PlayersAssumption, TotalNat DEF Sum
<1>4. available \in Nat
  <2> HIDE DEF prizes
  <2> QED BY <1>3 DEF Greater
<1> HIDE DEF available, claims
<1>5. \A index : SplitByRatio(available, claims, index) \in [Players -> Nat]
  BY <1>2, <1>4, SplitByRatioNat
<1>6. CalculateAbortSettlement(seats, fee, total)
        = IF Sum(claims) <= available
          THEN [refunds |-> claims, storeAmount |-> available - Sum(claims)]
          ELSE [refunds |-> SplitByRatio(available, claims, [p \in Players |-> p]),
                storeAmount |-> 0]
  BY DEF CalculateAbortSettlement, available, claims
<1> QED BY <1>2, <1>5, <1>6

\* A refund leaves the prizes alone.
LEMMA RefundKept ==
  ASSUME LedgerInv, NEW amounts \in [Players -> Nat], Refund(amounts), UNCHANGED part
  PROVE  /\ points' \in [Players -> Nat]
         /\ paid' \in [Players -> [buyIn : Nat, prize : Nat, refund : Nat]]
         /\ PrizesBooked'
<1>1. \A p \in Players : points[p] + amounts[p] \in Nat /\ paid[p].refund + amounts[p] \in Nat
  BY DEF LedgerInv, RowsTyped, TournamentRow
<1>2. points' \in [Players -> Nat]
  BY <1>1 DEF Refund
<1>3. paid' \in [Players -> [buyIn : Nat, prize : Nat, refund : Nat]]
  BY <1>1 DEF Refund, LedgerInv, RowsTyped, TournamentRow
<1>4. \A p \in Players : paid'[p].prize = paid[p].prize
  BY DEF Refund, LedgerInv, RowsTyped, TournamentRow
<1> QED BY <1>2, <1>3, <1>4 DEF LedgerInv, PrizesBooked, PrizeOnce

-----------------------------------------------------------------------------
(* The steps *)

\* Whatever is read when prizes are computed is a pool and a tier.
LEMMA PrizesRead ==
  ASSUME RowsTyped
  PROVE  Pool \in Nat /\ (Payouts = <<>> \/ Whole(Payouts))
<1>1. t.total \in Nat
  BY DEF RowsTyped, TournamentRow
<1> QED BY <1>1, PoolNat, TierWhole DEF Pool, Payouts

\* Steps that touch neither points, history nor participation: the row of the
\* tournament and the calls that only look.
LEMMA LookingKept ==
  ASSUME LedgerInv,
         \/ CreateTable \/ DeleteTable \/ StartSession \/ LevelUp \/ CloseRegistration
         \/ BeginHand \/ EndHand \/ Restart \/ CompleteCheck \/ Complete \/ EliminateAgain
         \/ \E fee \in Fees : UpdateSession(fee)
         \/ \E p \in Players : JoinCheck(p) \/ AskRebuy(p) \/ KickCheck(p)
         \/ \E i \in Finishing : NoWinner(i) \/ \E p \in Players : WinnerRead(i, p)
         \/ ChopCheck \/ ChopAlive \/ ChopTotals
  PROVE  LedgerInv'
<1>1. UNCHANGED <<part, points, paid>>
  BY DEF CreateTable, DeleteTable, StartSession, LevelUp, CloseRegistration, BeginHand,
     EndHand, Restart, CompleteCheck, Complete, EliminateAgain, UpdateSession, JoinCheck,
     AskRebuy, KickCheck, NoWinner, WinnerRead, ChopCheck, ChopAlive, ChopTotals, rows
<1>2. PrizesBooked'
  BY <1>1 DEF LedgerInv, PrizesBooked, PrizeOnce
<1>3. RowsTyped'
  <2> DEFINE Fits == t' \in TournamentRow
  <2>0. t \in TournamentRow /\ (StartSession => Fits) /\ (Complete => Fits)
    <3>1. t \in TournamentRow
      BY DEF LedgerInv, RowsTyped
    <3>2. StartSession => t' = [t EXCEPT !.status = "ONGOING", !.started = TRUE]
      BY DEF StartSession
    <3>3. Complete => UNCHANGED t \/ t' = [t EXCEPT !.status = "FINISHED", !.tables = 0]
      BY DEF Complete
    <3> QED BY <3>1, <3>2, <3>3, StatusFits
  <2> USE DEF LedgerInv, RowsTyped, TournamentRow
  <2>1. CASE CreateTable \/ DeleteTable
    <3>1. Fits
      BY <2>1 DEF CreateTable, DeleteTable
    <3> QED BY <1>1, <3>1
  <2>2. CASE StartSession
    BY <1>1, <2>0, <2>2
  <2>3. CASE CloseRegistration
    <3>1. Fits
      BY <2>3 DEF CloseRegistration
    <3> QED BY <1>1, <3>1
  <2>4. CASE Complete
    BY <1>1, <2>0, <2>4
  <2>5. CASE \E fee \in Fees : UpdateSession(fee)
    <3>1. Fits
      BY <2>5 DEF UpdateSession
    <3> QED BY <1>1, <3>1
  <2>6. CASE UNCHANGED t
    BY <1>1, <2>6
  <2> QED BY <2>1, <2>2, <2>3, <2>4, <2>5, <2>6
        DEF LevelUp, BeginHand, EndHand, Restart, CompleteCheck, EliminateAgain, JoinCheck,
        AskRebuy, KickCheck, NoWinner, WinnerRead, ChopCheck, ChopAlive, ChopTotals, rows
<1>4. /\ join' \in [Players -> Fees \union {NoSum}]
      /\ asked' \subseteq Players
      /\ kick' \in Players \union {Nobody}
  BY DEF LedgerInv, RowsTyped, TournamentRow, CallsTyped, CreateTable, DeleteTable,
     StartSession, LevelUp, CloseRegistration, BeginHand, EndHand, Restart, CompleteCheck, Complete,
     EliminateAgain, UpdateSession, JoinCheck, AskRebuy, KickCheck, NoWinner, WinnerRead,
     ChopCheck, ChopAlive, ChopTotals, calls
<1>5. winner' \in [Finishing -> FinishingCalls]
  <2>1. CASE \E i \in Finishing : \E p \in Players : WinnerRead(i, p)
    <3>1. PrizeFor(Pool, Payouts, 1) \in Nat
      BY PrizesRead, PrizeForNat DEF LedgerInv
    <3> QED BY <2>1, <3>1 DEF WinnerRead, LedgerInv, CallsTyped, FinishingCalls
  <2>2. CASE UNCHANGED winner \/ \E i \in Finishing : NoWinner(i)
    BY <2>2 DEF NoWinner, LedgerInv, CallsTyped, FinishingCalls
  <2>3. CASE EliminateAgain
    BY <2>3 DEF EliminateAgain, Finish, LedgerInv, CallsTyped, FinishingCalls
  <2>4. CASE Restart
    BY <2>4 DEF Restart, NoneFinishing, FinishingCalls
  <2> QED BY <2>1, <2>2, <2>3, <2>4
        DEF CreateTable, DeleteTable, StartSession, LevelUp, CloseRegistration, BeginHand,
        EndHand, CompleteCheck, Complete, UpdateSession, JoinCheck, AskRebuy, KickCheck,
        ChopCheck, ChopAlive, ChopTotals, calls
<1>6. chop' \in ChopCalls
  <2>1. CASE ChopAlive
    BY <2>1 DEF ChopAlive, ChopCalls, LiveNow
  <2>2. CASE ChopTotals
    <3>1. chop.alive \in SUBSET Players
      BY <2>2 DEF ChopTotals, LedgerInv, CallsTyped, ChopCalls, NoCall
    <3>2. PaidOut \in Nat
      <4> DEFINE prizes == [p \in Players |-> part[p].prize]
      <4>1. \A i \in 0 .. M - 1 : prizes[i] \in Nat
        BY DEF LedgerInv, RowsTyped, TournamentRow, Row, Players
      <4> HIDE DEF prizes
      <4>2. Total(prizes, M) \in Nat
        BY <4>1, PlayersAssumption, TotalNat
      <4> QED BY <4>2 DEF PaidOut, Sum, prizes
    <3>3. Greater(0, Pool - PaidOut) \in Nat
      BY <3>2, PrizesRead DEF Greater, LedgerInv
    <3> QED BY <2>2, <3>1, <3>3 DEF ChopTotals, ChopCalls
  <2>3. CASE ChopCheck \/ Restart
    BY <2>3 DEF ChopCheck, Restart, ChopCalls
  <2>4. CASE UNCHANGED chop
    BY <2>4 DEF LedgerInv, CallsTyped
  <2> QED BY <2>1, <2>2, <2>3, <2>4
        DEF CreateTable, DeleteTable, StartSession, LevelUp, CloseRegistration, BeginHand,
        EndHand, CompleteCheck, Complete, EliminateAgain, UpdateSession, JoinCheck,
        AskRebuy, KickCheck, NoWinner, WinnerRead, calls
<1>7. Apart'
  <2> USE DEF LedgerInv, CallsTyped, Apart, Outside
  <2>1. CASE \E p \in Players : JoinCheck(p)
    BY <1>1, <2>1 DEF JoinCheck
  <2>2. CASE \E p \in Players : AskRebuy(p) \/ KickCheck(p)
    BY <1>1, <2>2 DEF AskRebuy, KickCheck
  <2>3. CASE \E i \in Finishing : \E p \in Players : WinnerRead(i, p)
    <3>1. \A p \in LiveNow : ~Outside(p)
      BY DEF LiveNow, Live
    <3> QED BY <1>1, <2>3, <3>1 DEF WinnerRead
  <2>4. CASE EliminateAgain \/ \E i \in Finishing : NoWinner(i)
    BY <1>1, <2>4 DEF EliminateAgain, NoWinner, Finish, NoCall
  <2>5. CASE Restart
    BY <1>1, <2>5 DEF Restart, NoneFinishing, NoCall
  <2>6. CASE ChopAlive
    <3>1. \A p \in LiveNow : ~Outside(p)
      BY DEF LiveNow, Live
    <3> QED BY <1>1, <2>6, <3>1 DEF ChopAlive, NoCall
  <2>7. CASE ChopCheck \/ ChopTotals
    BY <1>1, <2>7 DEF ChopCheck, ChopTotals
  <2>8. CASE EndHand
    BY <1>1, <2>8 DEF EndHand
  <2>9. CASE UNCHANGED <<join, asked, kick, winner, chop>>
    BY <1>1, <2>9
  <2> QED BY <2>1, <2>2, <2>3, <2>4, <2>5, <2>6, <2>7, <2>8, <2>9
        DEF CreateTable, DeleteTable, StartSession, LevelUp, CloseRegistration, BeginHand,
        CompleteCheck, Complete, UpdateSession, calls
<1> QED BY <1>2, <1>3, <1>4, <1>5, <1>6, <1>7 DEF LedgerInv, CallsTyped

\* Paying: the statement that takes the points compares them (paymentPoint).
LEMMA PayingKept ==
  ASSUME LedgerInv, NEW p \in Players,
         Join(p) \/ Rebuy(p) \/ \E fee \in Fees : PayElsewhere(p, fee)
  PROVE  LedgerInv'
<1> USE FeesNat
<1>1. /\ part \in [Players -> Row] /\ points \in [Players -> Nat]
      /\ paid \in [Players -> [buyIn : Nat, prize : Nat, refund : Nat]]
      /\ t.fee \in Nat /\ t.total \in Nat
  BY DEF LedgerInv, RowsTyped, TournamentRow
<1>2. ASSUME NEW amount \in Nat, points[p] >= amount
      PROVE  /\ [points EXCEPT ![p] = @ - amount] \in [Players -> Nat]
             /\ [paid EXCEPT ![p].buyIn = @ + amount]
                  \in [Players -> [buyIn : Nat, prize : Nat, refund : Nat]]
             /\ \A q \in Players : [paid EXCEPT ![p].buyIn = @ + amount][q].prize = paid[q].prize
             /\ t.total + amount \in Nat
  <2>1. points[p] - amount \in Nat
    BY <1>1, <1>2
  <2>2. paid[p].buyIn + amount \in Nat
    BY <1>1
  <2> QED BY <1>1, <2>1, <2>2
<1>3. CASE Join(p)
  <2>1. /\ join[p] \in Nat /\ part[p].status = "NONE" /\ part[p].prize = 0
        /\ join' = [join EXCEPT ![p] = NoSum]
        /\ UNCHANGED <<asked, kick, winner, chop>>
    BY <1>3 DEF Join, LedgerInv, CallsTyped, Apart, Outside, PrizesBooked, Finished
  <2>2. CallsTyped'
    BY <2>1 DEF LedgerInv, CallsTyped
  <2>3. CASE UNCHANGED <<points, paid, part, t>>
    <3>1. RowsTyped' /\ PrizesBooked'
      BY <2>3 DEF LedgerInv, RowsTyped, TournamentRow, PrizesBooked, PrizeOnce
    <3>2. Apart'
      BY <2>1, <2>3 DEF LedgerInv, CallsTyped, Apart, Outside
    <3> QED BY <2>2, <3>1, <3>2 DEF LedgerInv
  <2>4. CASE /\ points[p] >= join[p]
             /\ points' = [points EXCEPT ![p] = @ - join[p]]
             /\ paid'   = [paid EXCEPT ![p].buyIn = @ + join[p]]
             /\ part'   = [part EXCEPT ![p].status = "WAITING", ![p].buyIns = 1]
             /\ t'      = [t EXCEPT !.total = @ + join[p]]
    <3>1. part' \in [Players -> Row]
      BY <1>1, <2>4 DEF Row
    <3>2. t' \in TournamentRow
      BY <1>2, <2>1, <2>4 DEF LedgerInv, RowsTyped, TournamentRow
    <3>3. RowsTyped'
      BY <1>2, <2>1, <2>4, <3>1, <3>2 DEF RowsTyped, TournamentRow
    <3>4. \A q \in Players : /\ part'[q].prize = part[q].prize
                             /\ part'[q].status = IF q = p THEN "WAITING" ELSE part[q].status
      BY <1>1, <2>4 DEF Row
    <3>5. \A q \in Players : paid'[q].prize = paid[q].prize
      BY <1>2, <2>1, <2>4
    <3>6. PrizesBooked'
      BY <2>1, <3>4, <3>5 DEF LedgerInv, PrizesBooked, PrizeOnce
    <3>7. \A q \in Players : Outside(q)' <=> Outside(q) /\ q # p
      BY <2>1, <3>4 DEF Outside
    <3>8. Apart'
      <4> HIDE DEF Outside
      <4> QED BY <2>1, <3>7 DEF LedgerInv, CallsTyped, FinishingCalls, ChopCalls, NoCall, Apart
    <3> QED BY <2>2, <3>3, <3>6, <3>8 DEF LedgerInv
  <2> QED BY <1>3, <2>3, <2>4 DEF Join, CanPay
<1>4. CASE Rebuy(p)
  <2>1. /\ points[p] >= t.fee
        /\ points' = [points EXCEPT ![p] = @ - t.fee]
        /\ paid'   = [paid EXCEPT ![p].buyIn = @ + t.fee]
        /\ part'   = [part EXCEPT ![p].buyIns = @ + 1]
        /\ t'      = [t EXCEPT !.total = @ + t.fee]
        /\ asked'  = asked \ {p}
        /\ UNCHANGED <<join, kick, winner, chop>>
    BY <1>4 DEF Rebuy, CanPay
  <2>2. part' \in [Players -> Row]
    <3>1. part[p].buyIns + 1 \in Nat
      BY <1>1 DEF Row
    <3> QED BY <1>1, <2>1, <3>1 DEF Row
  <2>3. t' \in TournamentRow
    BY <1>1, <1>2, <2>1 DEF LedgerInv, RowsTyped, TournamentRow
  <2>4. RowsTyped'
    BY <1>1, <1>2, <2>1, <2>2, <2>3 DEF RowsTyped, TournamentRow
  <2>5. \A q \in Players : part'[q].prize = part[q].prize /\ part'[q].status = part[q].status
    BY <1>1, <2>1 DEF Row
  <2>6. \A q \in Players : paid'[q].prize = paid[q].prize
    BY <1>1, <1>2, <2>1
  <2>7. PrizesBooked'
    BY <2>5, <2>6 DEF LedgerInv, PrizesBooked, PrizeOnce
  <2>8. \A q \in Players : Outside(q)' <=> Outside(q)
    BY <2>5 DEF Outside
  <2>9. Apart'
    BY <2>1, <2>8 DEF LedgerInv, CallsTyped, FinishingCalls, ChopCalls, NoCall, Apart
  <2>10. CallsTyped'
    BY <2>1 DEF LedgerInv, CallsTyped
  <2> QED BY <2>4, <2>7, <2>9, <2>10 DEF LedgerInv
<1>5. CASE \E fee \in Fees : PayElsewhere(p, fee)
  <2>1. points' \in [Players -> Nat] /\ UNCHANGED <<t, part, paid, calls>>
    <3>1. PICK fee \in Fees : PayElsewhere(p, fee)
      BY <1>5
    <3>2. [points EXCEPT ![p] = @ - fee] \in [Players -> Nat]
      BY <1>2, <3>1 DEF PayElsewhere, CanPay
    <3> QED BY <3>1, <3>2 DEF PayElsewhere
  <2> QED BY <2>1 DEF LedgerInv, RowsTyped, TournamentRow, CallsTyped, PrizesBooked,
                      PrizeOnce, Apart, Outside, calls
<1> QED BY <1>3, <1>4, <1>5

\* The count of those still in may become any number.
LEMMA CountsKept ==
  ASSUME RowsTyped
  PROVE  t.active \in Int /\ \A n \in Int : [t EXCEPT !.active = n] \in TournamentRow
BY DEF RowsTyped, TournamentRow

\* Seats: a status among those with a row becomes another one.
LEMMA SeatingKept ==
  ASSUME LedgerInv, NEW p \in Players, Sit(p) \/ Release(p)
  PROVE  LedgerInv'
<1>1. /\ ~Outside(p) /\ part[p].status \notin Finished
      /\ \E status \in Live : part' = [part EXCEPT ![p].status = status]
      /\ UNCHANGED <<points, paid, calls>>
  BY DEF Sit, Release, Outside, Finished, Live
<1>2. PICK status \in Live : part' = [part EXCEPT ![p].status = status]
  BY <1>1
<1>3. part \in [Players -> Row] /\ part' \in [Players -> Row]
  BY <1>2 DEF LedgerInv, RowsTyped, TournamentRow, Row
<1>4. \A q \in Players : /\ part'[q].prize = part[q].prize
                         /\ part'[q].status = IF q = p THEN status ELSE part[q].status
  BY <1>2, <1>3 DEF Row
<1>5. RowsTyped'
  <2>1. UNCHANGED t \/ t' = [t EXCEPT !.active = t.active + 1]
    BY DEF Sit, Release
  <2>2. t.active + 1 \in Int
    BY CountsKept DEF LedgerInv
  <2> QED BY <1>1, <1>3, <2>1, <2>2, CountsKept DEF LedgerInv, RowsTyped, TournamentRow
<1>6. PrizesBooked'
  BY <1>1, <1>4 DEF LedgerInv, PrizesBooked, PrizeOnce
<1>7. \A q \in Players : Outside(q)' <=> Outside(q)
  BY <1>1, <1>4 DEF Outside, Live
<1>8. CallsTyped' /\ Apart'
  <2> HIDE DEF Outside
  <2> QED BY <1>1, <1>7 DEF LedgerInv, CallsTyped, FinishingCalls, ChopCalls, NoCall, Apart,
                            calls
<1> QED BY <1>5, <1>6, <1>8 DEF LedgerInv

\* awardPrize for somebody with a row: nobody comes in or leaves.
LEMMA AwardApart ==
  ASSUME LedgerInv, NEW who \in SUBSET Players, NEW awards \in AwardsTo(who),
         AwardPrize(awards), \A p \in who : ~Outside(p)
  PROVE  \A p \in Players : Outside(p)' <=> Outside(p)
<1> TAKE p \in Players
<1>1. part \in [Players -> Row]
  BY DEF LedgerInv, RowsTyped, TournamentRow
<1>2. CASE p \in Awardable(awards)
  <2>1. p \in who
    BY <1>2 DEF Awardable, AwardsTo
  <2>2. part'[p].status \in Finished
    BY <1>1, <1>2 DEF AwardPrize, Row, Finished
  <2> QED BY <2>1, <2>2 DEF Outside, Finished
<1>3. CASE p \notin Awardable(awards)
  BY <1>3 DEF AwardPrize, Outside
<1> QED BY <1>2, <1>3

\* The end of a hand: places and prizes, and perhaps a call that looks for the winner.
LEMMA EliminateKept ==
  ASSUME LedgerInv, NEW busted \in SUBSET Players, NEW start \in [busted -> Stacks],
         Eliminate(busted, start)
  PROVE  LedgerInv'
<1> DEFINE awards == SplitBustedRanks(busted, start, t.active, Pool, Payouts)
<1>1. AwardPrize(awards)
  BY DEF Eliminate
<1>2. awards \in AwardsTo(busted)
  <2>1. t.active \in Int /\ Pool \in Nat /\ (Payouts = <<>> \/ Whole(Payouts))
    BY PrizesRead DEF LedgerInv, RowsTyped, TournamentRow
  <2> QED BY <2>1, SplitBustedAwards
<1>3. \A p \in busted : ~Outside(p)
  BY DEF Eliminate, Outside
<1> HIDE DEF awards
<1>4. \A p \in Players : Outside(p)' <=> Outside(p)
  BY <1>1, <1>2, <1>3, AwardApart
<1>5. Cardinality(busted) \in Nat
  <2>1. IsFiniteSet(Players)
    BY PlayersAssumption, FS_Interval DEF Players
  <2> QED BY <2>1, FS_Subset, FS_CardinalityType
<1>6. RowsTyped' /\ PrizesBooked'
  <2>1. t' = [t EXCEPT !.active = t.active - Cardinality(busted)]
    BY DEF Eliminate
  <2>2. t.active - Cardinality(busted) \in Int
    BY <1>5, CountsKept DEF LedgerInv
  <2> QED BY <1>1, <1>2, <2>1, <2>2, AwardKept, CountsKept
          DEF LedgerInv, RowsTyped, TournamentRow
<1>7. /\ asked' \subseteq asked
      /\ UNCHANGED <<join, kick, chop>>
      /\ \/ UNCHANGED winner
         \/ \E i \in Finishing : winner' = [winner EXCEPT ![i] = [pc |-> "due"]]
  BY DEF Eliminate, Finish
<1>8. CallsTyped'
  BY <1>7 DEF LedgerInv, CallsTyped, FinishingCalls
<1>9. Apart'
  BY <1>4, <1>7 DEF LedgerInv, CallsTyped, FinishingCalls, ChopCalls, NoCall, Apart
<1> QED BY <1>6, <1>8, <1>9 DEF LedgerInv

\* First place.
LEMMA WinnerKept ==
  ASSUME LedgerInv, NEW i \in Finishing, WinnerAward(i)
  PROVE  LedgerInv'
<1> DEFINE who == {winner[i].player}
           awards == [p \in who |-> [place |-> 1, amount |-> winner[i].amount]]
<1>1. AwardPrize(awards)
  BY DEF WinnerAward, FirstPrize
<1>2. winner[i].pc = "read" /\ winner[i].player \in Players /\ winner[i].amount \in Nat
  BY DEF WinnerAward, LedgerInv, CallsTyped, FinishingCalls, NoCall
<1>3. awards \in AwardsTo(who) /\ who \in SUBSET Players
  BY <1>2 DEF AwardsTo
<1>4. \A p \in who : ~Outside(p)
  BY <1>2 DEF LedgerInv, Apart
<1> HIDE DEF who, awards
<1>5. \A p \in Players : Outside(p)' <=> Outside(p)
  BY <1>1, <1>3, <1>4, AwardApart
<1>6. RowsTyped' /\ PrizesBooked'
  <2>1. t' = [t EXCEPT !.open = FALSE]
    BY DEF WinnerAward
  <2>2. t' \in TournamentRow
    BY <2>1 DEF LedgerInv, RowsTyped, TournamentRow
  <2> QED BY <1>1, <1>3, <2>2, AwardKept DEF RowsTyped, TournamentRow
<1>7. winner' = [winner EXCEPT ![i] = NoCall] /\ UNCHANGED <<join, asked, kick, chop>>
  BY DEF WinnerAward
<1>8. CallsTyped'
  BY <1>7 DEF LedgerInv, CallsTyped, FinishingCalls
<1>9. Apart'
  BY <1>5, <1>7 DEF LedgerInv, CallsTyped, FinishingCalls, ChopCalls, NoCall, Apart
<1> QED BY <1>6, <1>8, <1>9 DEF LedgerInv

\* The deal.
LEMMA ChopKept ==
  ASSUME LedgerInv, NEW stack \in [chop.alive -> Stacks], ChopAward(stack)
  PROVE  LedgerInv'
<1> DEFINE awards == CalculateChop(chop.alive, stack, chop.left)
<1>1. AwardPrize(awards)
  BY DEF ChopAward
<1>2. chop.pc = "totals" /\ chop.alive \in SUBSET Players /\ chop.left \in Nat
  BY DEF ChopAward, LedgerInv, CallsTyped, ChopCalls, NoCall
<1>3. awards \in AwardsTo(chop.alive)
  BY <1>2, ChopAwards
<1>4. \A p \in chop.alive : ~Outside(p)
  BY <1>2 DEF LedgerInv, Apart
<1> HIDE DEF awards
<1>5. \A p \in Players : Outside(p)' <=> Outside(p)
  BY <1>1, <1>2, <1>3, <1>4, AwardApart
<1>6. RowsTyped' /\ PrizesBooked'
  <2>1. UNCHANGED t
    BY DEF ChopAward
  <2> QED BY <1>1, <1>2, <1>3, <2>1, AwardKept DEF LedgerInv, RowsTyped, TournamentRow
<1>7. chop' = NoCall /\ UNCHANGED <<join, asked, kick, winner>>
  BY DEF ChopAward
<1>8. CallsTyped'
  BY <1>7 DEF LedgerInv, CallsTyped, ChopCalls
<1>9. Apart'
  BY <1>5, <1>7 DEF LedgerInv, CallsTyped, FinishingCalls, NoCall, Apart
<1> QED BY <1>6, <1>8, <1>9 DEF LedgerInv

\* A kick takes nobody's prize: he had none.
LEMMA KickKept ==
  ASSUME LedgerInv, Kick
  PROVE  LedgerInv'
<1>1. /\ kick \in Players /\ ~Outside(kick) /\ kick' = Nobody
      /\ UNCHANGED <<points, paid, join, asked, winner, chop>>
  BY DEF Kick, LedgerInv, CallsTyped, Apart
<1>2. CASE UNCHANGED <<part, t>>
  BY <1>1, <1>2 DEF LedgerInv, RowsTyped, CallsTyped, PrizesBooked, PrizeOnce, Apart, Outside
<1>3. CASE /\ part[kick].status \notin Finished
           /\ part' = [part EXCEPT ![kick].status = "ELIMINATED"]
           /\ t' = [t EXCEPT !.active = @ - 1]
  <2>1. part \in [Players -> Row] /\ part' \in [Players -> Row]
    BY <1>3 DEF LedgerInv, RowsTyped, Row, Finished
  <2>2. \A q \in Players :
          /\ part'[q].prize = part[q].prize
          /\ part'[q].status = IF q = kick THEN "ELIMINATED" ELSE part[q].status
    BY <1>3, <2>1 DEF Row
  <2>3. RowsTyped'
    <3>1. t' = [t EXCEPT !.active = t.active - 1]
      BY <1>3
    <3>2. t.active \in Int /\ \A n \in Int : [t EXCEPT !.active = n] \in TournamentRow
      BY CountsKept DEF LedgerInv
    <3>3. t.active - 1 \in Int
      BY <3>2
    <3> QED BY <1>1, <2>1, <3>1, <3>2, <3>3 DEF LedgerInv, RowsTyped
  <2>4. PrizesBooked'
    BY <1>1, <2>2 DEF LedgerInv, PrizesBooked, PrizeOnce, Finished
  <2>5. \A q \in Players : Outside(q)' <=> Outside(q)
    BY <1>1, <2>2 DEF Outside
  <2>6. CallsTyped' /\ Apart'
    <3> HIDE DEF Outside
    <3> QED BY <1>1, <2>5 DEF LedgerInv, CallsTyped, FinishingCalls, ChopCalls, NoCall, Apart
  <2> QED BY <2>3, <2>4, <2>6 DEF LedgerInv
<1> QED BY <1>2, <1>3 DEF Kick

\* Breaking off and cancelling refund, and leave the participations as they are.
LEMMA ClosingKept ==
  ASSUME LedgerInv, Abort \/ Cancel
  PROVE  LedgerInv'
<1>1. t.fee \in Nat /\ t.total \in Nat /\ part \in [Players -> Row]
  BY FeesNat DEF LedgerInv, RowsTyped, TournamentRow
<1>2. PICK amounts \in [Players -> Nat] : Refund(amounts)
  <2>1. CASE Abort
    <3>1. CalculateAbortSettlement(part, t.fee, t.total).refunds \in [Players -> Nat]
      BY <1>1, AbortRefunds
    <3>2. Refund(CalculateAbortSettlement(part, t.fee, t.total).refunds)
      BY <2>1 DEF Abort
    <3> QED BY <3>1, <3>2
  <2>2. CASE Cancel
    <3> DEFINE fees == [p \in Players |-> IF p \in Joined THEN t.fee ELSE 0]
    <3>1. fees \in [Players -> Nat]
      BY <1>1
    <3>2. Refund(fees)
      BY <2>2 DEF Cancel
    <3> QED BY <3>1, <3>2
  <2> QED BY <2>1, <2>2
<1>3. UNCHANGED <<part, calls>>
  BY DEF Abort, Cancel
<1>4. t' \in TournamentRow
  <2>1. t' = [t EXCEPT !.status = "CANCELLED", !.total = 0, !.active = 0, !.tables = 0]
    BY DEF Abort, Cancel
  <2> QED BY <2>1, StatusFits DEF LedgerInv, RowsTyped
<1>5. RowsTyped' /\ PrizesBooked'
  BY <1>2, <1>3, <1>4, RefundKept DEF LedgerInv, RowsTyped
<1>6. CallsTyped' /\ Apart'
  BY <1>3 DEF LedgerInv, CallsTyped, Apart, Outside, calls
<1> QED BY <1>5, <1>6 DEF LedgerInv

\* Every step keeps the invariant.
LEMMA LedgerKept == LedgerInv /\ [Next]_vars => LedgerInv'
<1> SUFFICES ASSUME LedgerInv, [Next]_vars PROVE LedgerInv'
  OBVIOUS
<1>1. CASE UNCHANGED vars
  BY <1>1 DEF LedgerInv, RowsTyped, CallsTyped, PrizesBooked, PrizeOnce, Apart, Outside,
     vars, rows, calls
<1>2. CASE Next
  BY <1>2, LookingKept, PayingKept, SeatingKept, EliminateKept, WinnerKept, ChopKept,
     KickKept, ClosingKept DEF Next
<1> QED BY <1>1, <1>2

\* The invariant holds in every reachable state, whichever calls overlap.
THEOREM LedgerInvariance == Spec => []LedgerInv
<1>1. Init => LedgerInv
  BY LedgerInit
<1>2. LedgerInv /\ [Next]_vars => LedgerInv'
  BY LedgerKept
<1> QED BY <1>1, <1>2, PTL DEF Spec

\* Types: points, sums and prizes are never negative, nor what a call has computed.
THEOREM LedgerTyped == Spec => []TypeOK
<1>1. LedgerInv => TypeOK
  BY DEF LedgerInv, TypeOK
<1> QED BY <1>1, LedgerInvariance, PTL

\* The prizes of a player in the history are the one on his row (awardPrize).
THEOREM OnePrizeEach == Spec => []PrizeOnce
<1>1. LedgerInv => PrizeOnce
  BY DEF LedgerInv, PrizesBooked
<1> QED BY <1>1, LedgerInvariance, PTL

\* Nobody spends points he does not have (paymentPoint), and no prize or refund takes
\* any away (calculatePrizes, settlement.ts).
THEOREM NeverOverdrawn == Spec => []PointsNotNegative
<1>1. LedgerInv => PointsNotNegative
  BY DEF LedgerInv, RowsTyped, PointsNotNegative
<1> QED BY <1>1, LedgerInvariance, PTL

-----------------------------------------------------------------------------
(* What a cancellation gives back *)

\* Before the start no hand is played and nobody is out, asked or rewarded; and unless
\* a join has paid an older fee, the fees of those who joined are all that was collected.
QuietBefore ==
  ~t.started => /\ hand = FALSE /\ asked = {} /\ kick = Nobody
                /\ winner = NoneFinishing /\ chop = NoCall
CancelInv == QuietBefore /\ CancelOwesAll

\* What has once been written from an outdated reading is remembered.
LEMMA StaleStays == [Next]_vars => stale \subseteq stale'
<1>1. ASSUME NEW kind, NEW holds, Stale(kind, holds)
      PROVE  stale \subseteq stale'
  BY <1>1 DEF Stale
<1>2. CASE \/ \E p \in Players : Join(p)
           \/ Kick \/ Complete
           \/ \E i \in Finishing : WinnerAward(i)
           \/ chop.pc = "totals" /\ \E stack \in [chop.alive -> Stacks] : ChopAward(stack)
  BY <1>1, <1>2 DEF Join, Kick, Complete, WinnerAward, ChopAward, ghost
<1>3. CASE UNCHANGED stale
  BY <1>3
<1>4. CASE UNCHANGED vars
  BY <1>4 DEF vars, ghost
<1> QED BY <1>2, <1>3, <1>4
        DEF Next, CreateTable, DeleteTable, StartSession, LevelUp, CloseRegistration,
        BeginHand, EndHand, Restart, UpdateSession, JoinCheck, Sit, Release, AskRebuy,
        Rebuy, KickCheck, WinnerRead, NoWinner, PayElsewhere, Eliminate, EliminateAgain,
        CompleteCheck, Abort, Cancel, ChopCheck, ChopAlive, ChopTotals, ghost

\* Before the start, what can happen and leaves the tournament open and not started.
Quiet == UNCHANGED <<hand, asked, kick, winner, chop>>
Still == t'.started = t.started /\ t'.total = t.total /\ t'.fee = t.fee /\ t'.status = t.status
LEMMA BeforeStart ==
  ASSUME LedgerInv, QuietBefore, ~t.started, Next, ~t'.started
  PROVE  /\ Quiet
         /\ \/ Closed'
            \/ /\ ~Closed
               /\ \/ \E fee \in Fees : UpdateSession(fee)
                  \/ \E p \in Players : Join(p)
                  \/ Still /\ Joined' = Joined
<1>1. t \in TournamentRow /\ part \in [Players -> Row]
  BY DEF LedgerInv, RowsTyped
<1>2. hand = FALSE /\ asked = {} /\ kick = Nobody /\ winner = NoneFinishing /\ chop = NoCall
  BY DEF QuietBefore
<1>3. CASE \/ \E fee \in Fees : UpdateSession(fee)
           \/ \E p \in Players : Join(p)
  <2>1. Quiet
    BY <1>3 DEF UpdateSession, Join, calls, Quiet
  <2>2. ~Closed \/ Closed'
    <3>1. CASE \E fee \in Fees : UpdateSession(fee)
      BY <3>1 DEF UpdateSession
    <3>2. CASE \E p \in Players : Join(p)
      BY <3>2 DEF Join, Closed
    <3> QED BY <1>3, <3>1, <3>2
  <2> QED BY <1>3, <2>1, <2>2
<1>4. CASE CreateTable \/ DeleteTable \/ CloseRegistration
  <2>1. UNCHANGED <<part, hand, calls>>
    BY <1>4 DEF CreateTable, DeleteTable, CloseRegistration
  <2>2. Still
    BY <1>1, <1>4 DEF CreateTable, DeleteTable, CloseRegistration, Still, TournamentRow
  <2> QED BY <2>1, <2>2 DEF Still, Quiet, Closed, Joined, calls
<1>5. CASE StartSession
  <2>1. t' = [t EXCEPT !.status = "ONGOING", !.started = TRUE]
    BY <1>5 DEF StartSession
  <2>2. t'.started
    BY <1>1, <2>1 DEF TournamentRow
  <2> QED BY <2>2
<1>6. CASE \E p \in Players : Sit(p) \/ Release(p)
  <2>1. PICK p \in Players : Sit(p) \/ Release(p)
    BY <1>6
  <2>2. /\ ~Closed /\ part[p].status # "NONE"
        /\ \E status \in Live : part' = [part EXCEPT ![p].status = status]
        /\ UNCHANGED <<hand, calls>>
    BY <2>1 DEF Sit, Release, Live
  <2>3. Joined' = Joined
    BY <1>1, <2>2 DEF Joined, Live, Row
  <2>4. Still
    <3>1. UNCHANGED t \/ t' = [t EXCEPT !.active = @ + 1]
      BY <2>1 DEF Sit, Release
    <3> QED BY <1>1, <3>1 DEF Still, TournamentRow
  <2> QED BY <2>2, <2>3, <2>4 DEF Quiet, calls
<1>7. CASE Restart
  <2>1. Quiet
    BY <1>2, <1>7 DEF Restart, Quiet, NoneFinishing
  <2>2. UNCHANGED <<t, part>>
    BY <1>7 DEF Restart, rows
  <2> QED BY <2>1, <2>2 DEF Still, Closed, Joined
<1>8. CASE \/ \E p \in Players : JoinCheck(p)
           \/ \E p \in Players : \E fee \in Fees : PayElsewhere(p, fee)
           \/ CompleteCheck
  BY <1>8 DEF JoinCheck, PayElsewhere, CompleteCheck, rows, calls, Quiet, Still, Closed, Joined
<1>9. CASE Complete
  <2>1. UNCHANGED <<part, hand, asked, kick, winner, chop>>
    BY <1>9 DEF Complete
  <2>2. UNCHANGED t \/ t' = [t EXCEPT !.status = "FINISHED", !.tables = 0]
    BY <1>9 DEF Complete
  <2>3. UNCHANGED t \/ Closed'
    BY <1>1, <2>2 DEF TournamentRow, Closed
  <2> QED BY <2>1, <2>3 DEF Quiet, Still, Closed, Joined
<1>10. CASE Abort \/ Cancel
  <2>1. /\ t' = [t EXCEPT !.status = "CANCELLED", !.total = 0, !.active = 0, !.tables = 0]
        /\ UNCHANGED <<hand, calls>>
    BY <1>10 DEF Abort, Cancel
  <2>2. Closed'
    BY <1>1, <2>1 DEF TournamentRow, Closed
  <2> QED BY <2>1, <2>2 DEF Quiet, calls
<1>11. CASE \/ LevelUp \/ BeginHand \/ EndHand \/ EliminateAgain \/ ChopCheck
            \/ \E p \in Players : AskRebuy(p) \/ Rebuy(p) \/ KickCheck(p)
            \/ \E busted \in SUBSET Players : \E start \in [busted -> Stacks] :
                 Eliminate(busted, start)
  BY <1>2, <1>11 DEF LevelUp, BeginHand, EndHand, EliminateAgain, ChopCheck, AskRebuy,
     Rebuy, KickCheck, Eliminate
<1>12. CASE \E i \in Finishing : \/ NoWinner(i) \/ WinnerAward(i)
                                 \/ \E p \in Players : WinnerRead(i, p)
  BY <1>2, <1>12 DEF NoWinner, WinnerAward, WinnerRead, NoneFinishing, NoCall
<1>13. CASE \/ ChopAlive \/ ChopTotals
            \/ chop.pc = "totals" /\ \E stack \in [chop.alive -> Stacks] : ChopAward(stack)
  BY <1>2, <1>13 DEF ChopAlive, ChopTotals, NoCall
<1>14. CASE Kick
  BY <1>2, <1>14 DEF Kick
<1> QED BY <1>3, <1>4, <1>5, <1>6, <1>7, <1>8, <1>9, <1>10, <1>11, <1>12, <1>13, <1>14
        DEF Next

\* Who joins adds his fee.
LEMMA JoinOwes ==
  ASSUME LedgerInv, Fresh({"fee"})', Cardinality(Joined) * t.fee = t.total,
         NEW p \in Players, Join(p)
  PROVE  (Cardinality(Joined) * t.fee = t.total)'
<1>1. t \in TournamentRow /\ part \in [Players -> Row] /\ t.fee \in Nat /\ t.total \in Nat
  BY FeesNat DEF LedgerInv, RowsTyped, TournamentRow
<1>2. part[p].status = "NONE"
  BY DEF Join, LedgerInv, Apart, Outside
<1>3. CASE UNCHANGED <<t, part>>
  BY <1>3 DEF Joined
<1>4. CASE /\ part' = [part EXCEPT ![p].status = "WAITING", ![p].buyIns = 1]
           /\ t' = [t EXCEPT !.total = @ + join[p]]
           /\ Stale("fee", join[p] = t.fee)
  <2>0. join[p] = t.fee
    BY <1>4 DEF Stale, Fresh
  <2>1. t'.fee = t.fee /\ t'.total = t.total + t.fee
    BY <1>1, <1>4, <2>0 DEF TournamentRow
  <2>2. \A q \in Players : part'[q].status = IF q = p THEN "WAITING" ELSE part[q].status
    BY <1>1, <1>4 DEF Row
  <2>3. Joined' = Joined \union {p} /\ p \notin Joined
    BY <1>2, <2>2 DEF Joined
  <2>4. IsFiniteSet(Players) /\ Joined \subseteq Players
    BY PlayersAssumption, FS_Interval DEF Players, Joined
  <2>5. IsFiniteSet(Joined) /\ Cardinality(Joined) \in Nat
    BY <2>4, FS_Subset, FS_CardinalityType
  <2>6. Cardinality(Joined') = Cardinality(Joined) + 1
    <3> DEFINE before == Joined
    <3>1. Cardinality(before \union {p}) = Cardinality(before) + 1
      <4>1. IsFiniteSet(before) /\ p \notin before
        BY <2>3, <2>5
      <4> HIDE DEF before
      <4> QED BY <4>1, FS_AddElement
    <3> QED BY <2>3, <3>1
  <2> DEFINE c == Cardinality(Joined)
             f == t.fee
             after == Cardinality(Joined')
  <2>7. c \in Nat /\ f \in Nat /\ after = c + 1
    BY <1>1, <2>5, <2>6
  <2>8. (c + 1) * f = c * f + f
    <3> HIDE DEF c, f
    <3> QED BY <2>7
  <2>9. after * t'.fee = t'.total
    BY <2>1, <2>7, <2>8
  <2> QED BY <2>9
<1> QED BY <1>3, <1>4 DEF Join

\* The fee changes only while nothing has been collected, so that nobody has joined.
LEMMA FeeChangeOwes ==
  ASSUME LedgerInv, Cardinality(Joined) * t.fee = t.total,
         NEW fee \in Fees, UpdateSession(fee)
  PROVE  (Cardinality(Joined) * t.fee = t.total)'
<1>1. /\ t \in TournamentRow /\ t.fee \in Nat \ {0} /\ t.total \in Nat /\ fee \in Nat
  BY MoneyAssumption DEF LedgerInv, RowsTyped, TournamentRow
<1>2. t'.fee = fee /\ t'.total = t.total /\ t.total = 0 /\ Joined' = Joined
  BY <1>1 DEF UpdateSession, TournamentRow, Joined
<1>3. Cardinality(Joined) \in Nat
  <2>1. IsFiniteSet(Players) /\ Joined \subseteq Players
    BY PlayersAssumption, FS_Interval DEF Players, Joined
  <2> QED BY <2>1, FS_Subset, FS_CardinalityType
<1> DEFINE c == Cardinality(Joined)
           f == t.fee
<1>4. c = 0
  <2>1. c \in Nat /\ f \in Nat \ {0} /\ c * f = 0
    BY <1>1, <1>2, <1>3
  <2> HIDE DEF c, f
  <2> QED BY <2>1
<1>5. 0 * fee = 0
  BY <1>1
<1> QED BY <1>2, <1>4, <1>5

\* A tournament never goes back before its start.
LEMMA StartedStays ==
  ASSUME LedgerInv, Next, t.started
  PROVE  t'.started
<1>1. t \in TournamentRow
  BY DEF LedgerInv, RowsTyped
<1>2. CASE \/ CreateTable \/ DeleteTable \/ StartSession \/ CloseRegistration
           \/ \E fee \in Fees : UpdateSession(fee)
  BY <1>1, <1>2 DEF TournamentRow, CreateTable, DeleteTable, StartSession,
     CloseRegistration, UpdateSession
<1>3. CASE \E p \in Players : Join(p) \/ Sit(p) \/ Release(p) \/ Rebuy(p)
  BY <1>1, <1>3 DEF TournamentRow, Join, Sit, Release, Rebuy
<1>4. CASE \/ \E busted \in SUBSET Players : \E start \in [busted -> Stacks] :
                Eliminate(busted, start)
           \/ \E i \in Finishing : WinnerAward(i)
  BY <1>1, <1>4 DEF TournamentRow, Eliminate, WinnerAward
<1>5. CASE Kick \/ Complete
  BY <1>1, <1>5 DEF TournamentRow, Kick, Complete
<1>6. CASE Abort \/ Cancel
  BY <1>1, <1>6 DEF TournamentRow, Abort, Cancel
<1>7. CASE UNCHANGED t
  BY <1>7
<1> QED BY <1>2, <1>3, <1>4, <1>5, <1>6, <1>7
        DEF Next, LevelUp, BeginHand, EndHand, JoinCheck, AskRebuy, KickCheck, WinnerRead,
        NoWinner, PayElsewhere, EliminateAgain, CompleteCheck, ChopCheck, ChopAlive,
        ChopTotals, ChopAward, Restart, rows

\* Every step keeps what a cancellation needs.
LEMMA CancelKept == LedgerInv /\ CancelInv /\ [Next]_vars => CancelInv'
<1> SUFFICES ASSUME LedgerInv, CancelInv, [Next]_vars PROVE CancelInv'
  OBVIOUS
<1>1. CASE UNCHANGED vars
  BY <1>1 DEF CancelInv, QuietBefore, CancelOwesAll, Fresh, Closed, Joined, vars, rows,
     calls, ghost
<1>2. CASE Next
  <2>1. CASE t'.started
    BY <2>1 DEF CancelInv, QuietBefore, CancelOwesAll
  <2>2. CASE ~t'.started
    <3>1. ~t.started
      BY <1>2, <2>2, StartedStays
    <3>2. QuietBefore'
      BY <1>2, <2>2, <3>1, BeforeStart DEF CancelInv, QuietBefore, Quiet
    <3>3. CASE Closed' \/ ~Fresh({"fee"})'
      BY <3>2, <3>3 DEF CancelInv, CancelOwesAll
    <3>4. CASE ~Closed' /\ ~Closed /\ Fresh({"fee"})'
      <4>1. Cardinality(Joined) * t.fee = t.total
        BY <3>1, <3>4, StaleStays DEF CancelInv, CancelOwesAll, Fresh
      <4>2. CASE \E fee \in Fees : UpdateSession(fee)
        <5>1. (Cardinality(Joined) * t.fee = t.total)'
          BY <4>1, <4>2, FeeChangeOwes
        <5> QED BY <3>2, <5>1 DEF CancelInv, CancelOwesAll
      <4>3. CASE \E p \in Players : Join(p)
        <5>1. (Cardinality(Joined) * t.fee = t.total)'
          BY <3>4, <4>1, <4>3, JoinOwes
        <5> QED BY <3>2, <5>1 DEF CancelInv, CancelOwesAll
      <4>4. CASE Still /\ Joined' = Joined
        BY <3>2, <4>1, <4>4 DEF Still, CancelInv, CancelOwesAll
      <4> QED BY <1>2, <2>2, <3>1, <3>4, <4>2, <4>3, <4>4, BeforeStart DEF CancelInv
    <3> QED BY <1>2, <2>2, <3>1, <3>3, <3>4, BeforeStart DEF CancelInv
  <2> QED BY <2>1, <2>2
<1> QED BY <1>1, <1>2

\* A tournament that has not started can be cancelled with everybody's fee given back
\* (cancelSession), unless a join has paid a fee that updateSession changed after
\* joinSession had read it.
THEOREM CancelReturnsAll == Spec => []CancelOwesAll
<1>1. Init => LedgerInv /\ CancelInv
  <2>1. Init => QuietBefore
    BY DEF Init, QuietBefore
  <2>2. Init => CancelOwesAll
    <3>1. SUFFICES ASSUME Init PROVE Cardinality(Joined) * t.fee = t.total
      BY DEF CancelOwesAll
    <3>2. Joined = {} /\ t.fee \in Nat /\ t.total = 0
      <4>1. PICK fee \in Fees : t = [status |-> "PENDING", started |-> FALSE, open |-> TRUE,
                                     fee |-> fee, total |-> 0, active |-> 0, tables |-> 1]
        BY <3>1 DEF Init
      <4>2. t.fee \in Nat /\ t.total = 0
        BY <4>1, FeesNat
      <4>3. Joined = {}
        BY <3>1 DEF Init, Joined
      <4> QED BY <4>2, <4>3
    <3> QED BY <3>2, FS_EmptySet
  <2> QED BY <2>1, <2>2, LedgerInit DEF CancelInv
<1>2. LedgerInv /\ CancelInv /\ [Next]_vars => (LedgerInv /\ CancelInv)'
  BY LedgerKept, CancelKept
<1>3. LedgerInv /\ CancelInv => CancelOwesAll
  BY DEF CancelInv
<1> QED BY <1>1, <1>2, <1>3, PTL DEF Spec

-----------------------------------------------------------------------------
(* What the rows keep of the book *)

Collected == Sum([p \in Players |-> paid[p].buyIn])
Prizes    == Sum([p \in Players |-> paid[p].prize])
Refunded  == Sum([p \in Players |-> paid[p].refund])

\* While the tournament is open its row knows what was collected, and nothing has been
\* given back.
OpenBook ==
  ~Closed => /\ t.total = Collected /\ share = 0
             /\ \A p \in Players : paid[p].refund = 0

\* Nobody is out before the start.
NobodyOutBefore == ~t.started => \A p \in Players : part[p].status \notin Finished

BooksInv == LedgerInv /\ QuietBefore /\ OpenBook /\ NobodyOutBefore

\* Nobody has paid from an outdated reading: the book promises nothing otherwise.
Orderly == Fresh({"winner", "chop", "complete"})

\* The sums of the history are numbers, and the prizes are those on the rows.
LEMMA SumsRead ==
  ASSUME LedgerInv
  PROVE  /\ Collected \in Nat /\ Prizes \in Nat /\ Refunded \in Nat
         /\ PaidOut = Prizes
<1>0. M \in Nat /\ Players = 0 .. M - 1
  BY PlayersAssumption DEF Players
<1>1. \A p \in Players : /\ paid[p].buyIn \in Nat /\ paid[p].prize \in Nat
                         /\ paid[p].refund \in Nat /\ paid[p].prize = part[p].prize
  BY DEF LedgerInv, RowsTyped, PrizesBooked, PrizeOnce
<1> DEFINE f == [p \in Players |-> paid[p].buyIn]
           g == [p \in Players |-> paid[p].prize]
           h == [p \in Players |-> paid[p].refund]
<1>2. \A i \in 0 .. M - 1 : f[i] \in Nat /\ g[i] \in Nat /\ h[i] \in Nat
  BY <1>0, <1>1
<1>3. g = [p \in Players |-> part[p].prize]
  BY <1>1
<1>4. Collected = Sum(f) /\ Prizes = Sum(g) /\ Refunded = Sum(h) /\ PaidOut = Sum(g)
  BY <1>3 DEF Collected, Prizes, Refunded, PaidOut
<1> HIDE DEF f, g, h
<1> QED BY <1>0, <1>2, <1>4, TotalNat DEF Sum

\* awardPrize adds to the prizes and to nothing else, and nothing if all are passed over.
LEMMA AwardAdds ==
  ASSUME LedgerInv, NEW who \in SUBSET Players, NEW awards \in AwardsTo(who),
         AwardPrize(awards)
  PROVE  /\ Prizes' \in Nat /\ Prizes <= Prizes' /\ PaidOut' = Prizes'
         /\ Collected' = Collected /\ Refunded' = Refunded
         /\ \A p \in Players : paid'[p].refund = paid[p].refund
         /\ Awardable(awards) = {} => Prizes' = Prizes
<1>0. M \in Nat /\ Players = 0 .. M - 1
  BY PlayersAssumption DEF Players
<1> DEFINE gain == [p \in Players |-> IF p \in Awardable(awards) THEN awards[p].amount ELSE 0]
           before == [p \in Players |-> paid[p].prize]
           after  == [p \in Players |-> paid'[p].prize]
<1>1. \A p \in Players : p \in Awardable(awards) => p \in who /\ awards[p].amount \in Nat
  BY DEF Awardable, AwardsTo
<1>2. \A p \in Players : gain[p] \in Nat
  BY <1>1
<1>3. \A p \in Players : /\ paid[p] \in [buyIn : Nat, prize : Nat, refund : Nat]
                         /\ paid'[p] = [paid[p] EXCEPT !.prize = @ + gain[p]]
  BY DEF AwardPrize, LedgerInv, RowsTyped
<1>4. \A p \in Players : /\ paid'[p].buyIn = paid[p].buyIn
                         /\ paid'[p].refund = paid[p].refund
                         /\ paid'[p].prize = paid[p].prize + gain[p]
                         /\ paid[p].prize \in Nat
  <2> HIDE DEF gain
  <2> QED BY <1>2, <1>3
<1>5. Collected' = Collected
  <2>1. [p \in Players |-> paid'[p].buyIn] = [p \in Players |-> paid[p].buyIn]
    BY <1>4
  <2> QED BY <2>1 DEF Collected
<1>6. Refunded' = Refunded
  <2>1. [p \in Players |-> paid'[p].refund] = [p \in Players |-> paid[p].refund]
    BY <1>4
  <2> QED BY <2>1 DEF Refunded
<1>7. PaidOut' = Prizes'
  <2>1. \A p \in Players : paid'[p].prize = part'[p].prize
    BY AwardKept DEF PrizesBooked, PrizeOnce
  <2>2. after = [p \in Players |-> part'[p].prize]
    BY <2>1
  <2> QED BY <2>2 DEF PaidOut, Prizes
<1>8. Prizes = Sum(before) /\ Prizes' = Sum(after)
  BY DEF Prizes
<1>9. \A i \in 0 .. M - 1 : /\ before[i] \in Int /\ gain[i] \in Int
                            /\ after[i] = before[i] + gain[i]
  <2>1. \A i \in 0 .. M - 1 : gain[i] \in Int
    BY <1>0, <1>2
  <2> HIDE DEF gain
  <2> QED BY <1>0, <1>4, <2>1
<1>10. \A i \in 0 .. M - 1 : gain[i] \in Nat
  BY <1>0, <1>2
<1>11. Awardable(awards) = {} => \A i \in 0 .. M - 1 : gain[i] = 0
  BY <1>0, <1>1
<1>12. Prizes \in Nat
  BY SumsRead
<1> HIDE DEF gain, before, after
<1>13. Total(after, M) = Total(before, M) + Total(gain, M) /\ Total(gain, M) \in Nat
  BY <1>0, <1>9, <1>10, TotalPlus, TotalNat
<1>14. Awardable(awards) = {} => Total(gain, M) = 0
  BY <1>0, <1>11, TotalZero
<1>15. Prizes' = Prizes + Total(gain, M)
  BY <1>8, <1>13 DEF Sum
<1> QED BY <1>4, <1>5, <1>6, <1>7, <1>12, <1>13, <1>14, <1>15

\* Nobody is out before the start, whatever is done.
LEMMA NobodyOutKept ==
  ASSUME LedgerInv, QuietBefore, NobodyOutBefore, [Next]_vars
  PROVE  QuietBefore' /\ NobodyOutBefore'
<1>1. CASE UNCHANGED vars
  BY <1>1 DEF vars, rows, calls, QuietBefore, NobodyOutBefore
<1>2. CASE Next /\ t'.started
  BY <1>2 DEF QuietBefore, NobodyOutBefore
<1>3. CASE Next /\ ~t'.started
  <2>1. ~t.started
    BY <1>3, StartedStays
  <2>2. QuietBefore'
    BY <1>3, <2>1, BeforeStart DEF QuietBefore, Quiet
  <2>3. /\ hand = FALSE /\ asked = {} /\ kick = Nobody /\ chop = NoCall
        /\ \A i \in Finishing : winner[i] = NoCall
    BY <2>1 DEF QuietBefore, NoneFinishing
  <2>4. \A p \in Players : part[p] \in Row /\ part[p].status \notin Finished
    BY <2>1 DEF NobodyOutBefore, LedgerInv, RowsTyped
  <2>5. part \in [Players -> Row]
    BY DEF LedgerInv, RowsTyped
  <2>6. \A p \in Players : part'[p].status \notin Finished
    <3>1. CASE UNCHANGED part
      BY <2>4, <3>1
    <3>2. CASE \E p \in Players : Join(p) \/ Sit(p) \/ Release(p)
      <4>1. PICK p \in Players : Join(p) \/ Sit(p) \/ Release(p)
        BY <3>2
      <4>2. CASE Join(p)
        <5>1. UNCHANGED part \/ part' = [part EXCEPT ![p].status = "WAITING", ![p].buyIns = 1]
          BY <4>2 DEF Join
        <5> QED BY <2>4, <2>5, <5>1 DEF Finished, Row
      <4>3. CASE Sit(p) \/ Release(p)
        <5>1. \E status \in Live : part' = [part EXCEPT ![p].status = status]
          BY <4>3 DEF Sit, Release, Live
        <5> QED BY <2>4, <2>5, <5>1 DEF Finished, Live, Row
      <4> QED BY <4>1, <4>2, <4>3
    <3>3. CASE \/ \E p \in Players : Rebuy(p)
               \/ \E busted \in SUBSET Players : \E start \in [busted -> Stacks] :
                    Eliminate(busted, start)
      BY <2>3, <3>3 DEF Rebuy, Eliminate
    <3>4. CASE Kick
      BY <2>3, <3>4 DEF Kick
    <3>5. CASE \E i \in Finishing : WinnerAward(i)
      BY <2>3, <3>5 DEF WinnerAward, NoCall
    <3>6. CASE chop.pc = "totals"
      BY <2>3, <3>6 DEF NoCall
    <3> QED BY <1>3, <3>1, <3>2, <3>3, <3>4, <3>5, <3>6
            DEF Next, CreateTable, DeleteTable, StartSession, LevelUp, CloseRegistration,
            BeginHand, EndHand, Restart, UpdateSession, JoinCheck, AskRebuy, KickCheck,
            WinnerRead, PayElsewhere, EliminateAgain, NoWinner, CompleteCheck, Complete,
            Abort, Cancel, ChopCheck, ChopAlive, ChopTotals, rows
  <2> QED BY <2>2, <2>6 DEF NobodyOutBefore
<1> QED BY <1>1, <1>2, <1>3

-----------------------------------------------------------------------------
(* Steps that move no money *)

\* Nothing the book is about changes.
Idle == /\ UNCHANGED <<paid, share>>
        /\ t'.total = t.total
        /\ Closed' <=> Closed

\* Such steps leave the book as it is.
LEMMA IdleBooked ==
  ASSUME BooksInv, Idle
  PROVE  OpenBook' /\ (Orderly /\ Orderly' => UNCHANGED Book!book)
<1>1. Collected' = Collected /\ Prizes' = Prizes /\ Refunded' = Refunded
  BY DEF Idle, Collected, Prizes, Refunded
<1>2. OpenBook'
  BY <1>1 DEF BooksInv, OpenBook, Idle
<1>3. Closed' = Closed /\ Refunded' + share' = Refunded + share
  BY <1>1 DEF Idle, Closed
<1>4. Orderly /\ Orderly' => UNCHANGED Book!book
  BY <1>1, <1>3 DEF Book!book, Orderly, Fresh, Collected, Prizes, Refunded
<1> QED BY <1>2, <1>4

\* Every step but a payment, an award and a door.
LEMMA LookingIdle ==
  ASSUME LedgerInv,
         \/ CreateTable \/ DeleteTable \/ StartSession \/ LevelUp \/ CloseRegistration
         \/ BeginHand \/ EndHand \/ Restart \/ CompleteCheck \/ EliminateAgain \/ Kick
         \/ \E fee \in Fees : UpdateSession(fee)
         \/ \E p \in Players : JoinCheck(p) \/ Sit(p) \/ Release(p) \/ AskRebuy(p)
                               \/ KickCheck(p) \/ \E fee \in Fees : PayElsewhere(p, fee)
         \/ \E i \in Finishing : NoWinner(i) \/ \E p \in Players : WinnerRead(i, p)
         \/ ChopCheck \/ ChopAlive \/ ChopTotals
  PROVE  Idle
<1>0. t \in TournamentRow
  BY DEF LedgerInv, RowsTyped
<1>1. UNCHANGED <<paid, share>>
  BY DEF CreateTable, DeleteTable, StartSession, LevelUp, CloseRegistration, BeginHand,
     EndHand, Restart, CompleteCheck, EliminateAgain, Kick, UpdateSession, JoinCheck, Sit,
     Release, AskRebuy, KickCheck, PayElsewhere, NoWinner, WinnerRead, ChopCheck, ChopAlive,
     ChopTotals, rows
<1> DEFINE SameRow == t'.total = t.total /\ (Closed' <=> Closed)
<1>2. SameRow
  <2>1. CASE CreateTable \/ DeleteTable \/ CloseRegistration
    BY <1>0, <2>1 DEF CreateTable, DeleteTable, CloseRegistration, TournamentRow, Closed
  <2>2. CASE StartSession
    <3>1. t' = [t EXCEPT !.status = "ONGOING", !.started = TRUE] /\ t.status = "PENDING"
      BY <2>2 DEF StartSession
    <3>2. t'.status = "ONGOING" /\ t'.total = t.total
      BY <1>0, <3>1 DEF TournamentRow
    <3> QED BY <3>1, <3>2 DEF Closed
  <2>3. CASE Kick \/ \E p \in Players : Sit(p)
    <3>1. \/ UNCHANGED t \/ t' = [t EXCEPT !.active = @ - 1]
          \/ t' = [t EXCEPT !.active = @ + 1]
      BY <2>3 DEF Kick, Sit
    <3> QED BY <1>0, <3>1 DEF TournamentRow, Closed
  <2>4. CASE \E fee \in Fees : UpdateSession(fee)
    BY <1>0, <2>4 DEF UpdateSession, TournamentRow, Closed
  <2>5. CASE UNCHANGED t
    BY <2>5 DEF Closed
  <2> QED BY <2>1, <2>2, <2>3, <2>4, <2>5
          DEF LevelUp, BeginHand, EndHand, Restart, CompleteCheck, EliminateAgain, JoinCheck,
          Release, AskRebuy, KickCheck, PayElsewhere, NoWinner, WinnerRead, ChopCheck,
          ChopAlive, ChopTotals, rows
<1> HIDE DEF SameRow
<1>3. t'.total = t.total /\ (Closed' <=> Closed)
  BY <1>2 DEF SameRow
<1> QED BY <1>1, <1>3 DEF Idle

-----------------------------------------------------------------------------
(* Steps that move money *)

\* A payment, of an entry or of a rebuy.
Pays(p, amount) ==
  /\ ~Closed
  /\ paid' = [paid EXCEPT ![p].buyIn = @ + amount]
  /\ t' = [t EXCEPT !.total = @ + amount]
  /\ UNCHANGED share

\* A payment is collected, and the row of the tournament counts it.
LEMMA PayingBooked ==
  ASSUME BooksInv, NEW p \in Players, NEW amount \in Nat \ {0}, Pays(p, amount)
  PROVE  OpenBook' /\ (Orderly /\ Orderly' => Book!Collect)
<1>0. M \in Nat /\ Players = 0 .. M - 1
  BY PlayersAssumption DEF Players
<1>1. /\ LedgerInv /\ t \in TournamentRow /\ t.total \in Nat
      /\ paid \in [Players -> [buyIn : Nat, prize : Nat, refund : Nat]]
  BY DEF BooksInv, LedgerInv, RowsTyped, TournamentRow
<1>2. t'.total = t.total + amount /\ ~Closed'
  BY <1>1 DEF Pays, TournamentRow, Closed
<1>3. \A q \in Players : /\ paid'[q].prize = paid[q].prize /\ paid'[q].refund = paid[q].refund
                         /\ paid'[q].buyIn = IF q = p THEN paid[q].buyIn + amount
                                                      ELSE paid[q].buyIn
                         /\ paid[q].buyIn \in Nat
  BY <1>1 DEF Pays
<1>4. Prizes' = Prizes /\ Refunded' = Refunded
  <2>1. [q \in Players |-> paid'[q].prize] = [q \in Players |-> paid[q].prize]
    BY <1>3
  <2>2. [q \in Players |-> paid'[q].refund] = [q \in Players |-> paid[q].refund]
    BY <1>3
  <2> QED BY <2>1, <2>2 DEF Prizes, Refunded
<1>5. Collected' = Collected + amount
  <2> DEFINE f == [q \in Players |-> paid[q].buyIn]
             g == [q \in Players |-> paid'[q].buyIn]
  <2>1. \A i \in 0 .. M - 1 : f[i] \in Int
    BY <1>0, <1>3
  <2>2. \A i \in 0 .. M - 1 : g[i] = IF i = p THEN f[i] + amount ELSE f[i]
    BY <1>0, <1>3
  <2>3. M \in Nat /\ p \in 0 .. M - 1 /\ amount \in Int
    BY <1>0
  <2>4. Collected = Sum(f) /\ Collected' = Sum(g)
    BY DEF Collected
  <2> HIDE DEF f, g
  <2>5. Total(g, M) = Total(f, M) + amount
    BY <2>1, <2>2, <2>3, TotalUpdate
  <2> QED BY <2>4, <2>5 DEF Sum
<1>6. t.total = Collected /\ share = 0 /\ \A q \in Players : paid[q].refund = 0
  BY DEF Pays, BooksInv, OpenBook
<1>7. OpenBook'
  BY <1>2, <1>3, <1>5, <1>6 DEF OpenBook, Pays
<1>8. Collected' > Collected
  <2>1. Collected \in Nat
    BY <1>1, SumsRead
  <2> QED BY <1>5, <2>1
<1>9. ASSUME Orderly, Orderly'
      PROVE  Book!Collect
  <2>1. Closed' = Closed
    BY <1>2 DEF Pays, Closed
  <2>2. ~Closed /\ Refunded' + share' = Refunded + share
    BY <1>4 DEF Pays
  <2> QED BY <1>4, <1>8, <1>9, <2>1, <2>2
          DEF Book!Collect, Orderly, Fresh, Collected, Prizes, Refunded
<1> QED BY <1>7, <1>9

\* joinSession and executeRebuyTransaction pay, or nothing happens.
LEMMA JoinPays ==
  ASSUME LedgerInv, NEW p \in Players, Join(p) \/ Rebuy(p)
  PROVE  Idle \/ \E amount \in Nat \ {0} : Pays(p, amount)
<1>0. /\ t.fee \in Fees /\ join \in [Players -> Fees \union {NoSum}]
      /\ Fees \subseteq Nat \ {0}
  BY MoneyAssumption DEF LedgerInv, RowsTyped, CallsTyped, TournamentRow
<1>1. CASE Rebuy(p)
  <2>1. Pays(p, t.fee)
    BY <1>1 DEF Rebuy, Pays
  <2> QED BY <1>0, <2>1
<1>2. CASE Join(p) /\ UNCHANGED <<points, paid, part, t, ghost>>
  BY <1>2 DEF Join, Idle, Closed
<1>3. CASE /\ Join(p) /\ ~Closed
           /\ paid' = [paid EXCEPT ![p].buyIn = @ + join[p]]
           /\ t' = [t EXCEPT !.total = @ + join[p]]
  <2>1. join[p] \in Nat \ {0}
    BY <1>0, <1>3 DEF Join
  <2>2. Pays(p, join[p])
    BY <1>3 DEF Join, Pays
  <2> QED BY <2>1, <2>2
<1>4. Join(p) => \/ UNCHANGED <<points, paid, part, t, ghost>>
                 \/ /\ ~Closed
                    /\ paid' = [paid EXCEPT ![p].buyIn = @ + join[p]]
                    /\ t' = [t EXCEPT !.total = @ + join[p]]
  BY DEF Join
<1> QED BY <1>1, <1>2, <1>3, <1>4

\* awardPrize, in a step that leaves the door as it is.
Awards(who, awards) ==
  /\ AwardPrize(awards)
  /\ t'.total = t.total /\ t'.status = t.status
  /\ UNCHANGED share

\* An award adds to the prizes, or the book stays as it is.
LEMMA AwardBooked ==
  ASSUME BooksInv, NEW who \in SUBSET Players, NEW awards \in AwardsTo(who),
         Awards(who, awards)
  PROVE  /\ OpenBook'
         /\ Orderly /\ Orderly' /\ (~Closed \/ Awardable(awards) = {})
              => UNCHANGED Book!book \/ Book!Award
<1>0. LedgerInv /\ AwardPrize(awards)
  BY DEF BooksInv, Awards
<1>1. /\ Prizes' \in Nat /\ Prizes <= Prizes'
      /\ Collected' = Collected /\ Refunded' = Refunded
      /\ \A p \in Players : paid'[p].refund = paid[p].refund
      /\ Awardable(awards) = {} => Prizes' = Prizes
  BY <1>0, AwardAdds
<1>2. Prizes \in Nat
  BY <1>0, SumsRead
<1>3. Closed' = Closed /\ Refunded' + share' = Refunded + share
  BY <1>1 DEF Awards, Closed
<1>4. OpenBook'
  BY <1>1, <1>3 DEF Awards, BooksInv, OpenBook
<1>5. ASSUME Orderly, Orderly', Prizes' = Prizes
      PROVE  UNCHANGED Book!book
  BY <1>1, <1>3, <1>5 DEF Book!book, Orderly, Fresh, Collected, Prizes, Refunded
<1>6. ASSUME Orderly, Orderly', ~Closed, Prizes' # Prizes
      PROVE  Book!Award
  <2>1. Prizes' > Prizes
    BY <1>1, <1>2, <1>6
  <2> QED BY <1>1, <1>3, <1>6, <2>1
          DEF Book!Award, Orderly, Fresh, Collected, Prizes, Refunded
<1> QED BY <1>1, <1>4, <1>5, <1>6

\* The end of a hand, first prize and a deal pay only while the tournament is open, unless
\* they come too late for what they have read.
LEMMA AwardingBooked ==
  ASSUME BooksInv,
         \/ \E busted \in SUBSET Players : \E start \in [busted -> Stacks] :
              Eliminate(busted, start)
         \/ \E i \in Finishing : WinnerAward(i)
         \/ \E stack \in [chop.alive -> Stacks] : ChopAward(stack)
  PROVE  /\ OpenBook'
         /\ Orderly /\ Orderly' => UNCHANGED Book!book \/ Book!Award
<1>0. /\ LedgerInv /\ t \in TournamentRow /\ winner \in [Finishing -> FinishingCalls]
      /\ chop \in ChopCalls /\ t.active \in Int
  BY DEF BooksInv, LedgerInv, RowsTyped, CallsTyped, TournamentRow
<1> SUFFICES \E who \in SUBSET Players : \E awards \in AwardsTo(who) :
               /\ Awards(who, awards)
               /\ Orderly' => ~Closed \/ Awardable(awards) = {}
  BY AwardBooked
<1>1. CASE \E busted \in SUBSET Players : \E start \in [busted -> Stacks] :
             Eliminate(busted, start)
  <2>1. PICK busted \in SUBSET Players : \E start \in [busted -> Stacks] :
               Eliminate(busted, start)
    BY <1>1
  <2>2. PICK start \in [busted -> Stacks] : Eliminate(busted, start)
    BY <2>1
  <2> DEFINE awards == SplitBustedRanks(busted, start, t.active, Pool, Payouts)
  <2>3. awards \in AwardsTo(busted)
    BY <1>0, PrizesRead, SplitBustedAwards DEF LedgerInv
  <2>4. /\ AwardPrize(awards) /\ ~Closed /\ UNCHANGED share
        /\ t' = [t EXCEPT !.active = @ - Cardinality(busted)]
    BY <2>2 DEF Eliminate
  <2>5. t'.total = t.total /\ t'.status = t.status
    BY <1>0, <2>4 DEF TournamentRow
  <2> HIDE DEF awards
  <2>6. Awards(busted, awards)
    BY <2>4, <2>5 DEF Awards
  <2> QED BY <2>3, <2>4, <2>6
<1>2. CASE \E i \in Finishing : WinnerAward(i)
  <2>1. PICK i \in Finishing : WinnerAward(i)
    BY <1>2
  <2> DEFINE who == {winner[i].player}
             awards == FirstPrize(i)
  <2>2. /\ AwardPrize(awards) /\ t' = [t EXCEPT !.open = FALSE] /\ UNCHANGED share
        /\ Stale("winner", \/ Awardable(awards) = {}
                           \/ /\ ~Closed /\ LiveNow = {winner[i].player}
                              /\ winner[i].amount = PrizeFor(Pool, Payouts, 1))
    BY <2>1 DEF WinnerAward
  <2>3. who \in SUBSET Players /\ awards \in AwardsTo(who)
    <3>1. winner[i].player \in Players /\ winner[i].amount \in Nat
      BY <1>0, <2>1 DEF WinnerAward, FinishingCalls, NoCall
    <3> QED BY <3>1 DEF AwardsTo, FirstPrize
  <2>4. t'.total = t.total /\ t'.status = t.status
    BY <1>0, <2>2 DEF TournamentRow
  <2> HIDE DEF who, awards
  <2>5. Orderly' => ~Closed \/ Awardable(awards) = {}
    BY <2>2 DEF Stale, Orderly, Fresh
  <2>6. Awards(who, awards)
    BY <2>2, <2>4 DEF Awards
  <2> QED BY <2>3, <2>5, <2>6
<1>3. CASE \E stack \in [chop.alive -> Stacks] : ChopAward(stack)
  <2>1. PICK stack \in [chop.alive -> Stacks] : ChopAward(stack)
    BY <1>3
  <2> DEFINE awards == CalculateChop(chop.alive, stack, chop.left)
  <2>2. /\ AwardPrize(awards) /\ UNCHANGED <<t, share>>
        /\ Stale("chop", \/ Awardable(awards) = {}
                         \/ /\ ~Closed /\ chop.alive = LiveNow
                            /\ chop.left = Greater(0, Pool - PaidOut))
    BY <2>1 DEF ChopAward
  <2>3. chop.alive \in SUBSET Players /\ awards \in AwardsTo(chop.alive)
    <3>1. chop.alive \in SUBSET Players /\ chop.left \in Nat
      BY <1>0, <2>1 DEF ChopAward, ChopCalls, NoCall
    <3> QED BY <3>1, ChopAwards
  <2> HIDE DEF awards
  <2>4. Orderly' => ~Closed \/ Awardable(awards) = {}
    BY <2>2 DEF Stale, Orderly, Fresh
  <2>5. Awards(chop.alive, awards)
    BY <2>2 DEF Awards
  <2> QED BY <2>3, <2>4, <2>5
<1> QED BY <1>1, <1>2, <1>3

-----------------------------------------------------------------------------
(* The doors *)

\* Until a door closes nothing has been given back: what is given back then is all.
LEMMA RefundsGiven ==
  ASSUME LedgerInv, ~Closed, OpenBook, NEW amounts \in [Players -> Nat], Refund(amounts)
  PROVE  /\ Refunded' = Sum(amounts) /\ Sum(amounts) \in Nat
         /\ Collected' = Collected /\ Prizes' = Prizes
<1>0. M \in Nat /\ Players = 0 .. M - 1
  BY PlayersAssumption DEF Players
<1>1. \A p \in Players : /\ paid'[p].refund = amounts[p]
                         /\ paid'[p].buyIn = paid[p].buyIn /\ paid'[p].prize = paid[p].prize
  <2> TAKE p \in Players
  <2>1. paid[p] \in [buyIn : Nat, prize : Nat, refund : Nat] /\ paid[p].refund = 0
    BY DEF LedgerInv, RowsTyped, OpenBook
  <2>2. paid'[p] = [paid[p] EXCEPT !.refund = @ + amounts[p]]
    BY DEF Refund
  <2>3. 0 + amounts[p] = amounts[p]
    OBVIOUS
  <2> QED BY <2>1, <2>2, <2>3
<1>2. Refunded' = Sum(amounts)
  <2>1. [p \in Players |-> paid'[p].refund] = amounts
    BY <1>1
  <2> QED BY <2>1 DEF Refunded
<1>3. Collected' = Collected
  <2>1. [p \in Players |-> paid'[p].buyIn] = [p \in Players |-> paid[p].buyIn]
    BY <1>1
  <2> QED BY <2>1 DEF Collected
<1>4. Prizes' = Prizes
  <2>1. [p \in Players |-> paid'[p].prize] = [p \in Players |-> paid[p].prize]
    BY <1>1
  <2> QED BY <2>1 DEF Prizes
<1>5. Sum(amounts) \in Nat
  BY <1>0, TotalNat DEF Sum
<1> QED BY <1>2, <1>3, <1>4, <1>5

\* What is left of the book is what the doors look at.
LEMMA LeftIs ==
  ASSUME BooksInv, ~Closed
  PROVE  /\ Book!Left = Greater(0, t.total - PaidOut) /\ Refunded + share = 0
         /\ t.total \in Nat /\ PaidOut \in Nat /\ Collected = t.total /\ Prizes = PaidOut
<1>1. Collected \in Nat /\ Prizes \in Nat /\ PaidOut = Prizes
  BY SumsRead DEF BooksInv
<1>2. t.total = Collected /\ share = 0 /\ \A p \in Players : paid[p].refund = 0
  BY DEF BooksInv, OpenBook
<1>3. Refunded = 0
  <2> DEFINE f == [p \in Players |-> paid[p].refund]
  <2>1. M \in Nat /\ \A i \in 0 .. M - 1 : f[i] = 0
    BY <1>2, PlayersAssumption DEF Players
  <2>2. Refunded = Sum(f)
    BY DEF Refunded
  <2> HIDE DEF f
  <2> QED BY <2>1, <2>2, TotalZero DEF Sum
<1>4. Book!Left = IF Prizes <= Collected THEN Collected - Prizes ELSE 0
  BY DEF Book!Left, Prizes, Collected
<1>5. Book!Left = Greater(0, t.total - PaidOut)
  BY <1>1, <1>2, <1>4 DEF Greater
<1> QED BY <1>1, <1>2, <1>3, <1>5

\* completeSession closes with the sums it compared, unless the prizes are no longer the
\* ones it compared with, or does nothing.
LEMMA CompleteBooked ==
  ASSUME BooksInv, Complete
  PROVE  OpenBook' /\ (Orderly /\ Orderly' => UNCHANGED Book!book \/ Book!Close)
<1>0. LedgerInv /\ t \in TournamentRow
  BY DEF BooksInv, LedgerInv, RowsTyped
<1>1. CASE UNCHANGED <<t, share>>
  <2>1. Idle
    BY <1>1 DEF Complete, Idle, Closed
  <2> QED BY <2>1, IdleBooked
<1>2. CASE /\ ~Closed /\ t.total = complete
           /\ t' = [t EXCEPT !.status = "FINISHED", !.tables = 0]
           /\ share' = share + RakeOf(complete, Rake)
           /\ Stale("complete", Balanced)
  <2>1. t'.status = "FINISHED"
    BY <1>0, <1>2 DEF TournamentRow
  <2>2. Closed' = TRUE /\ UNCHANGED paid
    BY <2>1 DEF Closed, Complete
  <2>3. OpenBook'
    BY <2>2 DEF OpenBook
  <2>4. /\ Book!Left = Greater(0, t.total - PaidOut) /\ Refunded + share = 0
        /\ t.total \in Nat /\ PaidOut \in Nat
    BY <1>2, LeftIs
  <2>5. RakeOf(t.total, Rake) \in Nat
    BY <2>4, PoolNat
  <2>6. ASSUME Orderly, Orderly'
        PROVE  Book!Close
    <3>1. t.total - PaidOut - RakeOf(t.total, Rake) = 0
      BY <1>2, <2>6 DEF Stale, Balanced, CompleteBlocked, Orderly, Fresh
    <3>2. share = 0 /\ Refunded' = Refunded /\ Refunded \in Nat
      BY <1>0, <1>2, <2>2, SumsRead DEF BooksInv, OpenBook, Refunded
    <3>3. share' = RakeOf(t.total, Rake)
      BY <1>2, <2>5, <3>2
    <3>4. Refunded' + share' = Book!Left
      BY <2>4, <2>5, <3>1, <3>2, <3>3 DEF Greater
    <3>5. Collected' = Collected /\ Prizes' = Prizes
      BY <2>2 DEF Collected, Prizes
    <3> QED BY <1>2, <2>2, <2>6, <3>4, <3>5
            DEF Book!Close, Orderly, Fresh, Collected, Prizes, Refunded
  <2> QED BY <2>3, <2>6
<1> QED BY <1>1, <1>2 DEF Complete

\* abortSession pays out what is left, and not a unit more: whether the claims fit in
\* or not.
LEMMA AbortBooked ==
  ASSUME BooksInv, Abort
  PROVE  OpenBook' /\ (Orderly /\ Orderly' => Book!Close)
<1>0. /\ LedgerInv /\ t \in TournamentRow /\ part \in [Players -> Row] /\ t.fee \in Nat
      /\ ~Closed /\ OpenBook
  BY FeesNat DEF BooksInv, LedgerInv, RowsTyped, TournamentRow, Abort
<1> DEFINE settlement == CalculateAbortSettlement(part, t.fee, t.total)
           refunds == settlement.refunds
           store == settlement.storeAmount
           available == Greater(0, t.total - PaidOut)
           claims == [p \in Players |-> Claim(part[p], t.fee)]
<1>1. Refund(refunds) /\ share' = share + store
  BY DEF Abort
<1>2. t'.status = "CANCELLED"
  BY <1>0 DEF Abort, TournamentRow
<1>3. OpenBook' /\ Closed' = TRUE
  BY <1>2 DEF OpenBook, Closed
<1>4. /\ Book!Left = available /\ share = 0 /\ t.total \in Nat /\ PaidOut \in Nat
  BY <1>0, LeftIs DEF OpenBook
<1>5. available \in Nat
  BY <1>4 DEF Greater
<1>6. refunds \in [Players -> Nat]
  BY <1>0, <1>4, AbortRefunds
<1>7. /\ Refunded' = Sum(refunds) /\ Sum(refunds) \in Nat
      /\ Collected' = Collected /\ Prizes' = Prizes
  <2> HIDE DEF refunds
  <2> QED BY <1>0, <1>1, <1>6, RefundsGiven
<1>8. settlement = IF Sum(claims) <= available
                   THEN [refunds |-> claims, storeAmount |-> available - Sum(claims)]
                   ELSE [refunds |-> SplitByRatio(available, claims, [p \in Players |-> p]),
                         storeAmount |-> 0]
  BY DEF CalculateAbortSettlement, PaidOut
<1>9. claims \in [Players -> Nat] /\ Sum(claims) \in Nat
  <2>1. \A p \in Players : Claim(part[p], t.fee) \in Nat
    <3> TAKE p \in Players
    <3>1. /\ t.fee * part[p].buyIns \in Nat /\ Percent(part[p].status) \in Nat
          /\ part[p].prize \in Nat
      BY <1>0 DEF Row, Percent
    <3>2. (t.fee * part[p].buyIns * Percent(part[p].status)) \div 100 \in Nat
      <4>1. t.fee * part[p].buyIns * Percent(part[p].status) \in Nat
        BY <3>1
      <4> QED BY <4>1, Division
    <3> QED BY <3>1, <3>2 DEF Claim, Greater
  <2>2. claims \in [Players -> Nat]
    BY <2>1
  <2>3. M \in Nat /\ Players = 0 .. M - 1
    BY PlayersAssumption DEF Players
  <2> HIDE DEF claims
  <2> QED BY <2>2, <2>3, TotalNat DEF Sum
<1>10. Sum(refunds) + store = available
  <2>1. CASE Sum(claims) <= available
    <3>1. refunds = claims /\ store = available - Sum(claims)
      BY <1>8, <2>1
    <3> HIDE DEF refunds, store, claims, available
    <3> QED BY <1>5, <1>9, <3>1
  <2>2. CASE ~ (Sum(claims) <= available)
    <3> DEFINE index == [p \in Players |-> p]
    <3>1. refunds = SplitByRatio(available, claims, index) /\ store = 0
      BY <1>8, <2>2
    <3>2. index \in [Players -> Int] /\ \A p, q \in Players : index[p] = index[q] => p = q
      BY PlayersAssumption DEF Players
    <3> HIDE DEF refunds, store, claims, available, index
    <3>3. Sum(claims) > 0
      BY <1>5, <1>9, <2>2
    <3>4. Sum(SplitByRatio(available, claims, index)) = available
      BY <1>5, <1>9, <3>2, <3>3, SplitByRatioExact
    <3> QED BY <1>5, <3>1, <3>4
  <2> QED BY <2>1, <2>2
<1> HIDE DEF refunds, store, available
<1>11. store \in Int
  BY <1>5, <1>8, <1>9 DEF store, settlement
<1>12. Refunded' + share' = Book!Left
  BY <1>1, <1>4, <1>7, <1>10, <1>11
<1>13. ASSUME Orderly, Orderly'
       PROVE  Book!Close
  BY <1>0, <1>3, <1>7, <1>12, <1>13
     DEF Book!Close, Orderly, Fresh, Collected, Prizes, Refunded
<1> QED BY <1>3, <1>13

\* cancelSession gives back what everybody paid, and that is all there is.
LEMMA CancelBooked ==
  ASSUME BooksInv, Cancel
  PROVE  OpenBook' /\ (Orderly /\ Orderly' => Book!Close)
<1>0. /\ LedgerInv /\ t \in TournamentRow /\ part \in [Players -> Row] /\ t.fee \in Nat
      /\ ~Closed /\ ~t.started /\ OpenBook /\ M \in Nat /\ Players = 0 .. M - 1
  BY FeesNat, PlayersAssumption
     DEF BooksInv, LedgerInv, RowsTyped, TournamentRow, Cancel, Players
<1> DEFINE fee == t.fee
           who == Joined
           fees == [p \in Players |-> IF p \in who THEN fee ELSE 0]
<1>1. Refund(fees) /\ UNCHANGED share /\ Cardinality(who) * fee = t.total
  BY DEF Cancel
<1>2. t'.status = "CANCELLED"
  BY <1>0 DEF Cancel, TournamentRow
<1>3. OpenBook' /\ Closed' = TRUE
  BY <1>2 DEF OpenBook, Closed
<1>4. /\ Book!Left = Greater(0, t.total - PaidOut) /\ share = 0 /\ t.total \in Nat
  BY <1>0, LeftIs DEF OpenBook
<1>5. PaidOut = 0
  <2> DEFINE f == [p \in Players |-> part[p].prize]
  <2>1. \A i \in 0 .. M - 1 : f[i] = 0
    BY <1>0 DEF BooksInv, NobodyOutBefore, LedgerInv, PrizesBooked
  <2>2. PaidOut = Sum(f)
    BY DEF PaidOut
  <2> HIDE DEF f
  <2> QED BY <1>0, <2>1, <2>2, TotalZero DEF Sum
<1>6. Sum(fees) = t.total
  <2>1. who \in SUBSET (0 .. M - 1)
    BY <1>0 DEF Joined
  <2>2. \A i \in 0 .. M - 1 : fees[i] = IF i \in who THEN fee ELSE 0
    BY <1>0
  <2>3. M \in Nat
    BY <1>0
  <2>4. fee \in Nat
    BY <1>0
  <2> HIDE DEF who, fees, fee
  <2>5. Total(fees, M) = Cardinality(who) * fee
    BY <2>1, <2>2, <2>3, <2>4, MarkedTotal
  <2> QED BY <1>1, <2>5 DEF Sum
<1>7. fees \in [Players -> Nat]
  BY <1>0
<1> HIDE DEF fees
<1>8. Refunded' = Sum(fees) /\ Collected' = Collected /\ Prizes' = Prizes
  BY <1>0, <1>1, <1>7, RefundsGiven
<1>9. Refunded' + share' = Book!Left
  <2>1. Greater(0, t.total - 0) = t.total
    BY <1>4 DEF Greater
  <2> QED BY <1>1, <1>4, <1>5, <1>6, <1>8, <2>1
<1>10. ASSUME Orderly, Orderly'
       PROVE  Book!Close
  BY <1>0, <1>3, <1>8, <1>9, <1>10
     DEF Book!Close, Orderly, Fresh, Collected, Prizes, Refunded
<1> QED BY <1>3, <1>10

\* Every step keeps the invariant, and is a step of the book or none while nobody has paid
\* from an outdated reading.
LEMMA StepIsBooked ==
  ASSUME BooksInv, [Next]_vars
  PROVE  BooksInv' /\ (Orderly /\ Orderly' => UNCHANGED Book!book \/ Book!Next)
<1> DEFINE Moves == \/ UNCHANGED Book!book
                    \/ Book!Collect \/ Book!Award \/ Book!Close
<1>0. LedgerInv
  BY DEF BooksInv
<1>1. LedgerInv' /\ QuietBefore' /\ NobodyOutBefore'
  BY LedgerKept, NobodyOutKept DEF BooksInv
<1> SUFFICES OpenBook' /\ (Orderly /\ Orderly' => Moves)
  BY <1>1 DEF BooksInv, Book!Next, Orderly
<1>2. CASE UNCHANGED vars
  <2>1. Idle
    BY <1>2 DEF vars, rows, Idle, Closed
  <2> QED BY <2>1, IdleBooked
<1>3. CASE \/ CreateTable \/ DeleteTable \/ StartSession \/ LevelUp \/ CloseRegistration
           \/ BeginHand \/ EndHand \/ Restart \/ CompleteCheck \/ EliminateAgain \/ Kick
           \/ \E fee \in Fees : UpdateSession(fee)
           \/ \E p \in Players : JoinCheck(p) \/ Sit(p) \/ Release(p) \/ AskRebuy(p)
                                 \/ KickCheck(p) \/ \E fee \in Fees : PayElsewhere(p, fee)
           \/ \E i \in Finishing : NoWinner(i) \/ \E p \in Players : WinnerRead(i, p)
           \/ ChopCheck \/ ChopAlive \/ ChopTotals
  <2>1. Idle
    BY <1>0, <1>3, LookingIdle
  <2> QED BY <2>1, IdleBooked
<1>4. CASE \E p \in Players : Join(p) \/ Rebuy(p)
  <2>1. PICK p \in Players : Join(p) \/ Rebuy(p)
    BY <1>4
  <2>2. CASE Idle
    BY <2>2, IdleBooked
  <2>3. CASE \E amount \in Nat \ {0} : Pays(p, amount)
    BY <2>3, PayingBooked
  <2> QED BY <1>0, <2>1, <2>2, <2>3, JoinPays
<1>5. CASE \/ \E busted \in SUBSET Players : \E start \in [busted -> Stacks] :
                Eliminate(busted, start)
           \/ \E i \in Finishing : WinnerAward(i)
           \/ \E stack \in [chop.alive -> Stacks] : ChopAward(stack)
  BY <1>5, AwardingBooked
<1>6. CASE Complete
  BY <1>6, CompleteBooked
<1>7. CASE Abort
  BY <1>7, AbortBooked
<1>8. CASE Cancel
  BY <1>8, CancelBooked
<1> HIDE DEF Moves
<1> QED BY <1>2, <1>3, <1>4, <1>5, <1>6, <1>7, <1>8 DEF Next

\* The empty tournament keeps an empty book.
LEMMA BooksInit == Init => BooksInv /\ Book!Init
<1> SUFFICES ASSUME Init PROVE BooksInv /\ Book!Init
  OBVIOUS
<1>1. /\ \A p \in Players : paid[p] = [buyIn |-> 0, prize |-> 0, refund |-> 0]
      /\ t.total = 0 /\ ~Closed /\ share = 0
  BY DEF Init, Closed
<1>2. Collected = 0 /\ Prizes = 0 /\ Refunded = 0
  <2> DEFINE f == [p \in Players |-> paid[p].buyIn]
             g == [p \in Players |-> paid[p].prize]
             h == [p \in Players |-> paid[p].refund]
  <2>1. /\ \A i \in 0 .. M - 1 : f[i] = 0
        /\ \A i \in 0 .. M - 1 : g[i] = 0
        /\ \A i \in 0 .. M - 1 : h[i] = 0
        /\ M \in Nat
    BY <1>1, PlayersAssumption DEF Players
  <2>2. Collected = Sum(f) /\ Prizes = Sum(g) /\ Refunded = Sum(h)
    BY DEF Collected, Prizes, Refunded
  <2> HIDE DEF f, g, h
  <2> QED BY <2>1, <2>2, TotalZero DEF Sum
<1>3. OpenBook
  BY <1>1, <1>2 DEF OpenBook
<1>4. QuietBefore /\ NobodyOutBefore
  BY DEF Init, QuietBefore, NobodyOutBefore, Finished
<1>5. Refunded + share = 0
  BY <1>1, <1>2
<1>6. Closed = FALSE
  BY <1>1 DEF Closed
<1>7. Orderly = TRUE
  BY DEF Init, Orderly, Fresh
<1>8. Book!Init
  BY <1>2, <1>5, <1>6, <1>7 DEF Book!Init, Orderly, Collected, Prizes, Refunded
<1> QED BY <1>3, <1>4, <1>8, LedgerInit DEF BooksInv

\* The row of an open tournament knows what was collected, whatever is under way.
THEOREM BooksInvariance == Spec => []BooksInv
<1>1. Init => BooksInv
  BY BooksInit
<1>2. BooksInv /\ [Next]_vars => BooksInv'
  BY StepIsBooked
<1> QED BY <1>1, <1>2, PTL DEF Spec

\* The rows keep the book of docs/domain/money.md, until a first prize, a deal or
\* completeSession is written from a reading that holds no more, or behind a door.
THEOREM RowsKeepTheBook == Spec => BookKept
<1>1. Init => Book!Init
  BY BooksInit
<1>2. BooksInv /\ [Next]_vars => [Book!Next]_(Book!book)
  <2> SUFFICES ASSUME BooksInv, [Next]_vars PROVE Book!Next \/ UNCHANGED Book!book
    OBVIOUS
  <2>1. CASE Orderly'
    <3>1. Orderly
      BY <2>1, StaleStays DEF Orderly, Fresh
    <3> QED BY <2>1, <3>1, StepIsBooked
  <2>2. CASE ~Orderly'
    BY <2>2 DEF Book!Next, Book!Spoilt, Orderly
  <2> QED BY <2>1, <2>2
<1> QED BY <1>1, <1>2, BooksInvariance, PTL DEF Spec, BookKept, Book!Spec

-----------------------------------------------------------------------------
(* The prizes of the places                                                *)

\* What the first n places get together.
PrizesUpTo(pool, payouts, n) == Total([i \in Nat |-> PrizeFor(pool, payouts, i + 1)], n)

\* One place more.
LEMMA PrizesStep ==
  ASSUME NEW pool, NEW payouts, NEW n \in Nat
  PROVE  PrizesUpTo(pool, payouts, n + 1)
           = PrizesUpTo(pool, payouts, n) + PrizeFor(pool, payouts, n + 1)
<1> DEFINE g == [i \in Nat |-> PrizeFor(pool, payouts, i + 1)]
<1>1. Total(g, n + 1) = Total(g, n) + g[n]
  BY TotalStep
<1> QED BY <1>1 DEF PrizesUpTo

\* The prizes are numbers.
LEMMA PrizesNat ==
  ASSUME NEW pool \in Nat, NEW payouts, payouts = <<>> \/ Whole(payouts), NEW n \in Nat
  PROVE  PrizesUpTo(pool, payouts, n) \in Nat
<1> DEFINE g == [i \in Nat |-> PrizeFor(pool, payouts, i + 1)]
<1>1. \A i \in 0 .. n - 1 : g[i] \in Nat
  BY PrizeForNat
<1> HIDE DEF g
<1>2. Total(g, n) \in Nat
  BY <1>1, TotalNat
<1> QED BY <1>2 DEF PrizesUpTo, g

\* The percentages of a tier are those of places.
LEMMA WholeShape ==
  ASSUME NEW payouts, Whole(payouts)
  PROVE  /\ Len(payouts) \in Nat /\ Len(payouts) > 0 /\ DOMAIN payouts = 1 .. Len(payouts)
         /\ \A p \in 1 .. Len(payouts) : payouts[p] \in Nat
<1>1. payouts \in Seq(1 .. 100) /\ Total(Percents(payouts), Len(payouts)) = 100
  BY DEF Whole
<1>2. Len(payouts) \in Nat /\ DOMAIN payouts = 1 .. Len(payouts)
  BY <1>1
<1>3. Len(payouts) # 0
  <2>1. SUFFICES ASSUME Len(payouts) = 0 PROVE FALSE
    OBVIOUS
  <2>2. Total(Percents(payouts), 0) = 0
    BY TotalEmpty
  <2> QED BY <1>1, <2>1, <2>2
<1>4. \A p \in 1 .. Len(payouts) : payouts[p] \in Nat
  <2> TAKE p \in 1 .. Len(payouts)
  <2>1. payouts[p] \in 1 .. 100
    BY <1>1, ElementOfSeq
  <2> QED BY <2>1, PercentNat
<1> QED BY <1>2, <1>3, <1>4

\* calculatePrizes gives the pool away, all of it: what is rounded down goes to first place.
LEMMA PrizesAddUp ==
  ASSUME NEW pool \in Nat, NEW payouts, Whole(payouts)
  PROVE  PrizesUpTo(pool, payouts, Len(payouts)) = pool
<1> DEFINE n == Len(payouts)
           cut(p) == (pool * payouts[p]) \div 100
           f == [i \in 0 .. n - 1 |-> IF i = 0 THEN 0 ELSE cut(i + 1)]
           g == [i \in Nat |-> PrizeFor(pool, payouts, i + 1)]
<1>1. n \in Nat /\ n > 0 /\ DOMAIN payouts = 1 .. n /\ \A p \in 1 .. n : payouts[p] \in Nat
  BY WholeShape
<1>2. \A p \in 1 .. n : cut(p) \in Nat
  <2> TAKE p \in 1 .. n
  <2>1. payouts[p] \in Nat
    BY <1>1
  <2>2. pool * payouts[p] \in Nat
    BY <2>1
  <2> HIDE DEF n
  <2> QED BY <2>2, Division
<1>3. \A i \in 0 .. n - 1 : f[i] \in Int
  <2> TAKE i \in 0 .. n - 1
  <2>1. i + 1 \in 1 .. n
    BY <1>1
  <2> HIDE DEF cut, n
  <2> QED BY <1>2, <2>1
<1> DEFINE d == pool - Total(f, n)
<1>4. Total(f, n) \in Int
  <2> HIDE DEF f, n
  <2> QED BY <1>1, <1>3, TotalInt
<1>5. \A i \in 0 .. n - 1 : g[i] = IF i = 0 THEN f[i] + d ELSE f[i]
  <2> TAKE i \in 0 .. n - 1
  <2>1. i + 1 \in 1 .. n /\ i + 1 \in DOMAIN payouts
    BY <1>1
  <2>2. CalculatePrizes(pool, payouts)
          = [p \in DOMAIN payouts |-> IF p = 1 THEN pool - Total(f, n) ELSE cut(p)]
    BY DEF CalculatePrizes
  <2>3. g[i] = CalculatePrizes(pool, payouts)[i + 1]
    BY <2>1 DEF PrizeFor
  <2>4. g[i] = IF i + 1 = 1 THEN d ELSE cut(i + 1)
    <3> HIDE DEF f, cut, n
    <3> QED BY <2>1, <2>2, <2>3
  <2>5. f[i] = IF i = 0 THEN 0 ELSE cut(i + 1)
    OBVIOUS
  <2>6. d \in Int
    <3> HIDE DEF f, n
    <3> QED BY <1>4
  <2> HIDE DEF f, cut, n, g, d
  <2> QED BY <2>4, <2>5, <2>6
<1>6. Total(g, n) = Total(f, n) + d
  <2>1. d \in Int
    <3> HIDE DEF f, n
    <3> QED BY <1>4
  <2>2. 0 \in 0 .. n - 1
    BY <1>1
  <2> HIDE DEF f, g, n, d
  <2> QED BY <1>1, <1>3, <1>5, <2>1, <2>2, TotalUpdate
<1>7. Total(g, n) = pool
  <2> HIDE DEF f, g, n
  <2> QED BY <1>4, <1>6
<1> QED BY <1>7 DEF PrizesUpTo

\* Nobody is paid behind the last paid place.
LEMMA PrizesBeyond ==
  ASSUME NEW pool \in Nat, NEW payouts, Whole(payouts), NEW n \in Nat, n >= Len(payouts)
  PROVE  PrizesUpTo(pool, payouts, n) = pool
<1> DEFINE most == Len(payouts)
           T == {k \in Nat : PrizesUpTo(pool, payouts, most + k) = pool}
<1>1. most \in Nat /\ DOMAIN payouts = 1 .. most
  BY WholeShape
<1>2. 0 \in T
  <2>1. most + 0 = most
    BY <1>1
  <2>2. PrizesUpTo(pool, payouts, most) = pool
    BY PrizesAddUp
  <2> HIDE DEF most
  <2> QED BY <2>1, <2>2
<1>3. ASSUME NEW k \in Nat, k \in T PROVE k + 1 \in T
  <2>1. PrizesUpTo(pool, payouts, most + k) = pool
    BY <1>3
  <2>2. most + k \in Nat /\ most + (k + 1) = (most + k) + 1 /\ (most + k) + 1 \notin 1 .. most
    BY <1>1
  <2>3. PrizeFor(pool, payouts, (most + k) + 1) = 0
    BY <1>1, <2>2 DEF PrizeFor
  <2> HIDE DEF most
  <2>4. PrizesUpTo(pool, payouts, (most + k) + 1) = pool + 0
    BY <2>1, <2>2, <2>3, PrizesStep
  <2> QED BY <2>2, <2>4
<1>4. n - most \in T
  <2>1. n - most \in Nat
    BY <1>1
  <2> HIDE DEF T
  <2> QED BY <1>2, <1>3, <2>1, InductionOnSet
<1>5. most + (n - most) = n
  BY <1>1
<1> HIDE DEF most
<1> QED BY <1>4, <1>5

\* Fewer places get no more.
LEMMA PrizesGrow ==
  ASSUME NEW pool \in Nat, NEW payouts, Whole(payouts), NEW n \in Nat
  PROVE  PrizesUpTo(pool, payouts, n) <= pool
<1> DEFINE T == {k \in Nat : PrizesUpTo(pool, payouts, n) <= PrizesUpTo(pool, payouts, n + k)}
<1>0. \A k \in Nat : PrizesUpTo(pool, payouts, n + k) \in Nat
  BY PrizesNat
<1>1. 0 \in T
  <2>1. n + 0 = n
    OBVIOUS
  <2> QED BY <1>0, <2>1
<1>2. ASSUME NEW k \in Nat, k \in T PROVE k + 1 \in T
  <2>1. PrizesUpTo(pool, payouts, (n + k) + 1)
          = PrizesUpTo(pool, payouts, n + k) + PrizeFor(pool, payouts, (n + k) + 1)
    BY PrizesStep
  <2>2. PrizeFor(pool, payouts, (n + k) + 1) \in Nat
    BY PrizeForNat
  <2>3. PrizesUpTo(pool, payouts, n + k) \in Nat
    BY <1>0
  <2>4. PrizesUpTo(pool, payouts, n) \in Nat
    BY PrizesNat
  <2>5. n + (k + 1) = (n + k) + 1
    OBVIOUS
  <2> QED BY <1>2, <2>1, <2>2, <2>3, <2>4, <2>5
<1>3. Len(payouts) \in T
  <2>1. Len(payouts) \in Nat
    BY WholeShape
  <2> HIDE DEF T
  <2> QED BY <1>1, <1>2, <2>1, InductionOnSet
<1>4. PrizesUpTo(pool, payouts, n + Len(payouts)) = pool
  <2>1. Len(payouts) \in Nat
    BY WholeShape
  <2> QED BY <2>1, PrizesBeyond
<1> QED BY <1>3, <1>4

\* What c places behind the first s get together.
LEMMA PrizesBetween ==
  ASSUME NEW pool \in Nat, NEW payouts, payouts = <<>> \/ Whole(payouts),
         NEW s \in Nat, NEW c \in Nat,
         NEW f, \A i \in 0 .. c - 1 : f[i] = PrizeFor(pool, payouts, s + 1 + i)
  PROVE  Total(f, c) = PrizesUpTo(pool, payouts, s + c) - PrizesUpTo(pool, payouts, s)
<1> DEFINE P(k) == PrizesUpTo(pool, payouts, k)
           T == {k \in Nat : k <= c => Total(f, k) = P(s + k) - P(s)}
<1>0. \A k \in Nat : P(k) \in Nat
  BY PrizesNat
<1>1. 0 \in T
  <2>1. s + 0 = s /\ Total(f, 0) = 0
    BY TotalEmpty
  <2> HIDE DEF P
  <2> QED BY <1>0, <2>1
<1>2. ASSUME NEW k \in Nat, k \in T, k + 1 <= c PROVE k + 1 \in T
  <2>1. Total(f, k) = P(s + k) - P(s)
    BY <1>2
  <2>2. Total(f, k + 1) = Total(f, k) + f[k]
    BY TotalStep
  <2>3. f[k] = PrizeFor(pool, payouts, s + 1 + k) /\ s + 1 + k = (s + k) + 1
        /\ s + (k + 1) = (s + k) + 1 /\ s + k \in Nat
    BY <1>2
  <2>4. P((s + k) + 1) = P(s + k) + PrizeFor(pool, payouts, (s + k) + 1)
    BY <2>3, PrizesStep
  <2>5. PrizeFor(pool, payouts, (s + k) + 1) \in Nat /\ P(s + k) \in Nat /\ P(s) \in Nat
    BY <1>0, <2>3, PrizeForNat
  <2> HIDE DEF P
  <2> QED BY <2>1, <2>2, <2>3, <2>4, <2>5
<1>3. \A k \in Nat : k \in T => k + 1 \in T
  <2> TAKE k \in Nat
  <2>1. CASE k + 1 <= c
    BY <1>2, <2>1
  <2>2. CASE ~ (k + 1 <= c)
    BY <2>2
  <2> QED BY <2>1, <2>2
<1>4. c \in T
  <2> HIDE DEF T
  <2> QED BY <1>1, <1>3, InductionOnSet
<1> QED BY <1>4

-----------------------------------------------------------------------------
(* The places and prizes of those who bust in one hand *)

\* How sets of players are counted.
LEMMA PlayersCounted ==
  ASSUME NEW n \in Nat, NEW D \in SUBSET (0 .. n - 1)
  PROVE  /\ IsFiniteSet(D) /\ Cardinality(D) \in Nat
         /\ Cardinality(D) = 0 <=> D = {}
         /\ \A E \in SUBSET D : IsFiniteSet(E) /\ Cardinality(E) \in Nat
                                /\ Cardinality(E) <= Cardinality(D)
<1>1. IsFiniteSet(0 .. n - 1)
  BY FS_Interval
<1>2. IsFiniteSet(D)
  BY <1>1, FS_Subset
<1>3. \A E \in SUBSET D : IsFiniteSet(E) /\ Cardinality(E) <= Cardinality(D)
  BY <1>2, FS_Subset
<1>4. \A E : IsFiniteSet(E) => Cardinality(E) \in Nat
  BY FS_CardinalityType
<1> QED BY <1>2, <1>3, <1>4, FS_EmptySet

\* Two sets apart count together.
LEMMA CountsApart ==
  ASSUME NEW D, NEW E, IsFiniteSet(D), IsFiniteSet(E), D \cap E = {}
  PROVE  Cardinality(D \union E) = Cardinality(D) + Cardinality(E)
<1>1. Cardinality(D \union E) = Cardinality(D) + Cardinality(E) - Cardinality(D \cap E)
  BY FS_Union
<1>2. Cardinality(D) \in Nat /\ Cardinality(E) \in Nat
  BY FS_CardinalityType
<1>3. Cardinality(D \cap E) = 0
  BY FS_EmptySet
<1> HIDE DEF IsFiniteSet
<1> QED BY <1>1, <1>2, <1>3

\* Among equals by number there are k with fewer than k of them in front.
LEMMA RankWithin ==
  ASSUME NEW n \in Nat, NEW D \in SUBSET (0 .. n - 1), NEW k \in 0 .. Cardinality(D)
  PROVE  Cardinality({p \in D : Cardinality({q \in D : q < p}) < k}) = k
<1> DEFINE S == 0 .. n - 1
           before(p) == {q \in D : q < p}
           ahead == [p \in S |-> IF p \in D THEN before(p)
                                 ELSE D \union {q \in S \ D : q < p}]
<1>1. \A p, q \in S : q \in ahead[p]
          <=> \/ p \in D /\ q \in D /\ q < p
              \/ p \notin D /\ q \in D
              \/ p \notin D /\ q \notin D /\ q < p
  OBVIOUS
<1>2. ahead \in [S -> SUBSET S]
  OBVIOUS
<1>3. \A p \in S : p \in Int
  OBVIOUS
<1>4. Ranked(n, ahead)
  <2> HIDE DEF ahead, before
  <2>1. \A p \in S : p \notin ahead[p]
    BY <1>1, <1>3
  <2>2. \A p, q \in S : p # q => p \in ahead[q] \/ q \in ahead[p]
    BY <1>1, <1>3
  <2>3. \A p, q \in S : p \in ahead[q] => ahead[p] \subseteq ahead[q]
    <3> SUFFICES ASSUME NEW p \in S, NEW q \in S, p \in ahead[q], NEW x \in ahead[p]
                 PROVE  x \in ahead[q]
      OBVIOUS
    <3>1. x \in S
      BY <1>2
    <3> HIDE DEF S
    <3> QED BY <1>1, <1>3, <3>1
  <2> QED BY <1>2, <2>1, <2>2, <2>3 DEF Ranked
<1>5. Cardinality(D) \in Nat /\ Cardinality(D) <= n /\ k \in 0 .. n
  <2>1. Cardinality(S) = n
    BY FS_Interval
  <2>2. S \in SUBSET (0 .. n - 1)
    OBVIOUS
  <2>3. Cardinality(D) <= Cardinality(S) /\ Cardinality(D) \in Nat
    BY <2>2, PlayersCounted
  <2> QED BY <2>1, <2>3
<1>6. Cardinality({p \in S : Cardinality(ahead[p]) < k}) = k
  <2> HIDE DEF ahead
  <2> QED BY <1>4, <1>5, RankCount
<1>7. {p \in S : Cardinality(ahead[p]) < k} = {p \in D : Cardinality(before(p)) < k}
  <2>1. ASSUME NEW p \in S, p \notin D PROVE ~ (Cardinality(ahead[p]) < k)
    <3>1. D \subseteq ahead[p] /\ ahead[p] \in SUBSET (0 .. n - 1)
      BY <2>1
    <3> HIDE DEF ahead
    <3>2. Cardinality(D) <= Cardinality(ahead[p]) /\ Cardinality(ahead[p]) \in Nat
      BY <3>1, PlayersCounted
    <3> QED BY <1>5, <3>2
  <2>2. \A p \in D : p \in S /\ ahead[p] = before(p)
    OBVIOUS
  <2> HIDE DEF ahead, before, S
  <2> QED BY <2>1, <2>2
<1> QED BY <1>6, <1>7

\* What those of D who divide a pot equally get of it: the first ones a unit more.
EqualShare(D, pot, i) ==
  IF i \in D
  THEN (pot \div Cardinality(D))
         + IF Cardinality({q \in D : q < i}) < pot % Cardinality(D) THEN 1 ELSE 0
  ELSE 0

\* Shares rounded down and a unit each to the first ones: a pot of equals is given away.
LEMMA TiedShare ==
  ASSUME NEW n \in Nat, NEW D \in SUBSET (0 .. n - 1), D # {}, NEW pot \in Nat, NEW g,
         \A i \in 0 .. n - 1 : g[i] = EqualShare(D, pot, i)
  PROVE  Total(g, n) = pot
<1> DEFINE c    == Cardinality(D)
           each == pot \div c
           rest == pot % c
           E    == {i \in D : Cardinality({q \in D : q < i}) < rest}
           same == [i \in 0 .. n - 1 |-> IF i \in D THEN each ELSE 0]
           one  == 1
           odd  == [i \in 0 .. n - 1 |-> IF i \in E THEN one ELSE 0]
<1>1. c \in Nat /\ c > 0
  <2>1. c \in Nat /\ c # 0
    BY PlayersCounted
  <2> HIDE DEF c
  <2> QED BY <2>1
<1>2. each \in Nat /\ rest \in 0 .. c - 1 /\ pot = c * each + rest
  <2> HIDE DEF c
  <2> QED BY <1>1, Division
<1>3. Cardinality(E) = rest
  <2>1. rest \in 0 .. Cardinality(D)
    <3> HIDE DEF rest
    <3> QED BY <1>1, <1>2
  <2> HIDE DEF rest
  <2> QED BY <2>1, RankWithin
<1>4. Total(same, n) = c * each
  <2>1. \A i \in 0 .. n - 1 : same[i] = IF i \in D THEN each ELSE 0
    OBVIOUS
  <2> HIDE DEF each, same
  <2> QED BY <1>2, <2>1, MarkedTotal
<1>5. Total(odd, n) = Cardinality(E) * one
  <2>1. \A i \in 0 .. n - 1 : odd[i] = IF i \in E THEN one ELSE 0
    OBVIOUS
  <2>2. E \in SUBSET (0 .. n - 1) /\ one \in Nat
    OBVIOUS
  <2> HIDE DEF E, odd, one
  <2> QED BY <2>1, <2>2, MarkedTotal
<1>6. \A i \in 0 .. n - 1 : same[i] \in Int /\ odd[i] \in Int /\ g[i] = same[i] + odd[i]
  <2> TAKE i \in 0 .. n - 1
  <2>1. same[i] = IF i \in D THEN each ELSE 0
    OBVIOUS
  <2>2. odd[i] = IF i \in E THEN 1 ELSE 0
    OBVIOUS
  <2>3. i \in E <=> i \in D /\ Cardinality({q \in D : q < i}) < rest
    OBVIOUS
  <2>4. g[i] = IF i \in D
               THEN each + IF Cardinality({q \in D : q < i}) < rest THEN 1 ELSE 0
               ELSE 0
    BY DEF EqualShare
  <2> HIDE DEF each, rest, same, odd, E
  <2> QED BY <1>2, <2>1, <2>2, <2>3, <2>4
<1>7. Total(g, n) = Total(same, n) + Total(odd, n)
  <2> HIDE DEF same, odd
  <2> QED BY <1>6, TotalPlus
<1>8. Total(odd, n) = rest
  <2> HIDE DEF E, odd, rest
  <2> QED BY <1>2, <1>3, <1>5 DEF one
<1> HIDE DEF same, odd, c, each, rest
<1> QED BY <1>1, <1>2, <1>4, <1>7, <1>8

\* Those who bust with fewer chips than others take the places behind theirs, and equal
\* stacks share the prizes of the places between: all together get the prizes of the
\* places they take.
LEMMA SplitBustedExact ==
  ASSUME NEW busted \in SUBSET Players, NEW start \in [busted -> Nat], NEW last \in Nat,
         Cardinality(busted) <= last,
         NEW pool \in Nat, NEW payouts, payouts = <<>> \/ Whole(payouts),
         NEW g, \A i \in Players :
           g[i] = IF i \in busted
                  THEN SplitBustedRanks(busted, start, last, pool, payouts)[i].amount
                  ELSE 0
  PROVE  Sum(g) = PrizesUpTo(pool, payouts, last)
                    - PrizesUpTo(pool, payouts, last - Cardinality(busted))
<1> DEFINE c        == Cardinality(busted)
           base     == last - c
           P(k)     == PrizesUpTo(pool, payouts, k)
           with(v)  == {q \in busted : start[q] = v}
           above(v) == {q \in busted : start[q] >= v}
           low(v)   == [i \in 0 .. M - 1 |-> IF i \in busted /\ start[i] < v THEN g[i] ELSE 0]
           only(v)  == [i \in 0 .. M - 1 |-> IF i \in with(v) THEN g[i] ELSE 0]
           T        == {v \in Nat : Total(low(v), M) = P(last) - P(base + Cardinality(above(v)))}
<1>1. M \in Nat /\ Players = 0 .. M - 1 /\ busted \in SUBSET (0 .. M - 1)
  BY PlayersAssumption DEF Players
<1>2. c \in Nat /\ base \in Nat
  <2>1. c \in Nat /\ c <= last
    BY <1>1, PlayersCounted
  <2> HIDE DEF c
  <2> QED BY <2>1
<1>3. \A k \in Nat : P(k) \in Nat
  BY PrizesNat
<1>4. \A v \in Nat : /\ IsFiniteSet(with(v)) /\ Cardinality(with(v)) \in Nat
                     /\ IsFiniteSet(above(v)) /\ Cardinality(above(v)) \in Nat
                     /\ with(v) # {} => Cardinality(with(v)) > 0
  <2> TAKE v \in Nat
  <2>1. with(v) \in SUBSET (0 .. M - 1) /\ above(v) \in SUBSET (0 .. M - 1)
    BY <1>1
  <2> HIDE DEF with, above
  <2>2. /\ IsFiniteSet(with(v)) /\ Cardinality(with(v)) \in Nat
        /\ Cardinality(with(v)) = 0 <=> with(v) = {}
    BY <1>1, <2>1, PlayersCounted
  <2>3. IsFiniteSet(above(v)) /\ Cardinality(above(v)) \in Nat
    BY <1>1, <2>1, PlayersCounted
  <2> QED BY <2>2, <2>3
<1>5. \A v \in Nat : Cardinality(above(v)) = Cardinality(above(v + 1)) + Cardinality(with(v))
  <2> TAKE v \in Nat
  <2>1. above(v) = above(v + 1) \union with(v) /\ above(v + 1) \cap with(v) = {}
    OBVIOUS
  <2>2. IsFiniteSet(with(v)) /\ IsFiniteSet(above(v + 1))
    <3>1. v + 1 \in Nat
      OBVIOUS
    <3> HIDE DEF with, above
    <3> QED BY <1>4, <3>1
  <2> HIDE DEF above, with
  <2> QED BY <2>1, <2>2, CountsApart
<1>6. \A p \in busted : g[p] \in Nat
  <2> TAKE p \in busted
  <2>1. SplitBustedRanks(busted, start, last, pool, payouts) \in AwardsTo(busted)
    BY SplitBustedAwards
  <2>2. SplitBustedRanks(busted, start, last, pool, payouts)[p].amount \in Nat
    BY <2>1 DEF AwardsTo
  <2> QED BY <2>2
<1>7. \A v \in Nat :
        Total(only(v), M) = P(base + Cardinality(above(v))) - P(base + Cardinality(above(v + 1)))
  <2> TAKE v \in Nat
  <2> DEFINE s == base + Cardinality(above(v + 1))
             w == Cardinality(with(v))
  <2>0. /\ v + 1 \in Nat /\ Cardinality(above(v + 1)) \in Nat /\ w \in Nat
        /\ Cardinality(above(v)) = Cardinality(above(v + 1)) + w
    <3>1. v + 1 \in Nat
      OBVIOUS
    <3> HIDE DEF with, above
    <3> QED BY <1>4, <1>5, <3>1
  <2>1. base + Cardinality(above(v)) = s + w /\ s \in Nat /\ w \in Nat
    <3> HIDE DEF above, with, base, w
    <3> QED BY <1>2, <2>0
  <2>2. CASE with(v) = {}
    <3>1. \A i \in 0 .. M - 1 : only(v)[i] = 0
      BY <2>2
    <3>2. Total(only(v), M) = 0
      <4> HIDE DEF only
      <4> QED BY <1>1, <3>1, TotalZero
    <3>3. w = 0
      BY <2>2, FS_EmptySet
    <3> HIDE DEF s, w, only, P
    <3>4. s + w = s
      BY <2>1, <3>3
    <3> QED BY <1>3, <2>1, <3>2, <3>4 DEF s
  <2>3. CASE with(v) # {}
    <3> DEFINE f   == [i \in 0 .. w - 1 |-> PrizeFor(pool, payouts, s + 1 + i)]
               pot == Total(f, w)
    <3>1. pot = P(s + w) - P(s)
      <4>1. \A i \in 0 .. w - 1 : f[i] = PrizeFor(pool, payouts, s + 1 + i)
        OBVIOUS
      <4>2. s \in Nat
        BY <2>1
      <4>3. w \in Nat
        BY <2>1
      <4> HIDE DEF f, s, w
      <4>4. payouts = <<>> \/ Whole(payouts)
        OBVIOUS
      <4>5. Total(f, w) = PrizesUpTo(pool, payouts, s + w) - PrizesUpTo(pool, payouts, s)
        BY ONLY <4>1, <4>2, <4>3, <4>4, pool \in Nat, PrizesBetween
      <4> QED BY <4>5
    <3>2. pot \in Nat
      <4>1. \A i \in 0 .. w - 1 : f[i] \in Nat
        BY PrizeForNat
      <4> HIDE DEF f, w
      <4> QED BY <2>1, <4>1, TotalNat
    <3>3. ASSUME NEW p \in with(v)
          PROVE  g[p] = (pot \div w)
                          + IF Cardinality({q \in with(v) : q < p}) < pot % w THEN 1 ELSE 0
      <4>1. p \in busted /\ start[p] = v
        OBVIOUS
      <4>2. {q \in busted : start[q] > start[p]} = above(v + 1)
            /\ {q \in busted : start[q] = start[p]} = with(v)
        BY <4>1
      <4>3. last - Cardinality(busted) + 1 + Cardinality(above(v + 1)) = s + 1
        <5> HIDE DEF above
        <5> QED BY <1>2, <2>0
      <4> DEFINE R == SplitBustedRanks(busted, start, last, pool, payouts)
      <4>4. R[p].amount = (pot \div w)
                          + IF Cardinality({q \in with(v) : q < p}) < pot % w THEN 1 ELSE 0
        <5> DEFINE better(x) == {q \in busted : start[q] > start[x]}
                   tied(x)   == {q \in busted : start[q] = start[x]}
                   place(x)  == last - Cardinality(busted) + 1 + Cardinality(better(x))
                   h(x)      == [i \in 0 .. Cardinality(tied(x)) - 1 |->
                                   PrizeFor(pool, payouts, place(x) + i)]
                   gets(x)  == Total(h(x), Cardinality(tied(x)))
                   odd(x)    == Cardinality({q \in tied(x) : q < x})
                                  < gets(x) % Cardinality(tied(x))
                   amount(x) == (gets(x) \div Cardinality(tied(x))) + IF odd(x) THEN 1 ELSE 0
        <5>1. R = [x \in busted |-> [place |-> place(x), amount |-> amount(x)]]
          BY DEF SplitBustedRanks
        <5>2. R[p].amount = amount(p)
          <6> HIDE DEF R, place, amount
          <6> QED BY <4>1, <5>1
        <5>3. tied(p) = with(v) /\ better(p) = above(v + 1)
          BY <4>2
        <5>4. place(p) = s + 1
          <6> HIDE DEF better, above, s
          <6> QED BY <4>3, <5>3
        <5>5. h(p) = f
          <6> HIDE DEF tied, with, place, s
          <6> QED BY <5>3, <5>4 DEF w
        <5>6. gets(p) = pot
          <6> HIDE DEF tied, with, h, f
          <6> QED BY <5>3, <5>5
        <5> HIDE DEF tied, with, gets, pot
        <5> QED BY <5>2, <5>3, <5>6
      <4>5. g[p] = R[p].amount
        BY <4>1
      <4> HIDE DEF R, pot, w, with
      <4> QED BY <4>4, <4>5
    <3> DEFINE D == with(v)
               o == only(v)
    <3>4. \A i \in 0 .. M - 1 : o[i] = EqualShare(D, pot, i)
      <4> TAKE i \in 0 .. M - 1
      <4>1. o[i] = IF i \in D THEN g[i] ELSE 0
        OBVIOUS
      <4>2. i \in D => g[i] = (pot \div w)
                          + IF Cardinality({q \in D : q < i}) < pot % w THEN 1 ELSE 0
        <5> HIDE DEF pot, w, with
        <5> QED BY <3>3
      <4> HIDE DEF o, pot, with
      <4> QED BY <4>1, <4>2 DEF EqualShare
    <3>5. D \in SUBSET (0 .. M - 1)
      BY <1>1
    <3>6. D # {}
      BY <2>3
    <3>7. M \in Nat
      BY <1>1
    <3>8. Total(o, M) = pot
      <4> HIDE DEF o, D, pot
      <4> QED BY ONLY <3>2, <3>4, <3>5, <3>6, <3>7, TiedShare
    <3> HIDE DEF s, w, only, P, pot
    <3> QED BY <2>1, <3>1, <3>8 DEF s
  <2> QED BY <2>2, <2>3
<1>8. 0 \in T
  <2>1. \A i \in 0 .. M - 1 : low(0)[i] = 0
    OBVIOUS
  <2>2. Total(low(0), M) = 0
    <3> HIDE DEF low
    <3> QED BY <1>1, <2>1, TotalZero
  <2>3. above(0) = busted
    OBVIOUS
  <2>4. base + Cardinality(above(0)) = last
    <3>1. Cardinality(above(0)) = c
      BY <2>3
    <3>2. base + c = last
      <4> HIDE DEF c
      <4> QED BY <1>2
    <3> QED BY <3>1, <3>2
  <2> HIDE DEF P, low, above, base
  <2> QED BY <1>3, <2>2, <2>4
<1>9. ASSUME NEW v \in Nat, v \in T PROVE v + 1 \in T
  <2>1. \A i \in 0 .. M - 1 : /\ low(v)[i] \in Int /\ only(v)[i] \in Int
                              /\ low(v + 1)[i] = low(v)[i] + only(v)[i]
    <3> TAKE i \in 0 .. M - 1
    <3>1. i \in busted => g[i] \in Nat /\ start[i] \in Nat
      BY <1>6
    <3>2. low(v)[i] = IF i \in busted /\ start[i] < v THEN g[i] ELSE 0
      OBVIOUS
    <3>3. low(v + 1)[i] = IF i \in busted /\ start[i] < v + 1 THEN g[i] ELSE 0
      OBVIOUS
    <3>4. only(v)[i] = IF i \in busted /\ start[i] = v THEN g[i] ELSE 0
      OBVIOUS
    <3> HIDE DEF low, only
    <3> QED BY <3>1, <3>2, <3>3, <3>4
  <2>2. Total(low(v + 1), M) = Total(low(v), M) + Total(only(v), M)
    <3> HIDE DEF low, only
    <3> QED BY <1>1, <2>1, TotalPlus
  <2>3. Total(low(v), M) = P(last) - P(base + Cardinality(above(v)))
    BY <1>9
  <2>4. Total(only(v), M)
          = P(base + Cardinality(above(v))) - P(base + Cardinality(above(v + 1)))
    BY <1>7
  <2>5. /\ base + Cardinality(above(v)) \in Nat
        /\ base + Cardinality(above(v + 1)) \in Nat
    <3>1. v + 1 \in Nat
      OBVIOUS
    <3>2. Cardinality(above(v)) \in Nat /\ Cardinality(above(v + 1)) \in Nat
      <4> HIDE DEF above, with
      <4> QED BY <1>4, <3>1
    <3> HIDE DEF base, above
    <3> QED BY <1>2, <3>2
  <2>6. P(last) \in Nat /\ P(base + Cardinality(above(v))) \in Nat
        /\ P(base + Cardinality(above(v + 1))) \in Nat
    BY <1>3, <2>5
  <2> HIDE DEF P, low, only, above, base
  <2> QED BY <2>2, <2>3, <2>4, <2>6
<1> DEFINE stacks == [i \in 0 .. M - 1 |-> IF i \in busted THEN start[i] ELSE 0]
           top    == Total(stacks, M) + 1
<1>10. top \in Nat /\ \A p \in busted : start[p] < top
  <2>1. \A i \in 0 .. M - 1 : stacks[i] \in Nat
    OBVIOUS
  <2>2. \A p \in busted : p \in 0 .. M - 1 /\ stacks[p] = start[p] /\ start[p] \in Nat
    BY <1>1
  <2> HIDE DEF stacks
  <2>3. Total(stacks, M) \in Nat
    BY <1>1, <2>1, TotalNat
  <2>4. \A p \in busted : stacks[p] <= Total(stacks, M)
    BY <1>1, <2>1, <2>2, TotalMember
  <2> QED BY <2>2, <2>3, <2>4
<1>11. top \in T
  <2> HIDE DEF T, top
  <2>1. \A k \in Nat : k \in T => k + 1 \in T
    BY <1>9
  <2> QED BY <1>8, <1>10, <2>1, InductionOnSet
<1>12. Total(low(top), M) = Sum(g)
  <2>1. \A i \in 0 .. M - 1 : low(top)[i] = g[i]
    <3> HIDE DEF top
    <3> QED BY <1>1, <1>10
  <2> HIDE DEF low, top
  <2> QED BY <1>1, <2>1, TotalSame DEF Sum
<1>13. Cardinality(above(top)) = 0
  <2>1. above(top) = {}
    <3> HIDE DEF top
    <3> QED BY <1>10
  <2> QED BY <2>1, FS_EmptySet
<1>14. base + Cardinality(above(top)) = base
  <2> HIDE DEF base, top, above
  <2> QED BY <1>2, <1>13
<1>15. Total(low(top), M) = P(last) - P(base + Cardinality(above(top)))
  BY <1>11
<1> QED BY <1>12, <1>14, <1>15

-----------------------------------------------------------------------------
(* What a deal gives away *)

\* Whoever has no chips gets no share: all who lose by rounding are ahead of him.
LEMMA WeightlessGetNothing ==
  ASSUME NEW amount \in Nat, NEW weight \in [Players -> Nat], NEW index,
         NEW p \in Players, weight[p] = 0
  PROVE  SplitByRatio(amount, weight, index)[p] = 0
<1> DEFINE total == Sum(weight)
           floor == [q \in Players |-> (amount * weight[q]) \div total]
           remainder == [q \in Players |-> (amount * weight[q]) % total]
           ahead(x) == {q \in Players : \/ remainder[q] > remainder[x]
                                        \/ /\ remainder[q] = remainder[x]
                                           /\ index[q] < index[x]}
           left == amount - Sum(floor)
<1>0. M \in Nat /\ M > 0 /\ Players = 0 .. M - 1
  BY PlayersAssumption DEF Players
<1>1. total \in Nat
  BY <1>0, TotalNat DEF Sum
<1>2. CASE total <= 0 \/ amount <= 0
  BY <1>2 DEF SplitByRatio
<1>3. CASE ~ (total <= 0 \/ amount <= 0)
  <2>1. total > 0
    BY <1>1, <1>3
  <2>2. SplitByRatio(amount, weight, index)
          = [q \in Players |-> floor[q] + IF Cardinality(ahead(q)) < left THEN 1 ELSE 0]
    BY <1>3 DEF SplitByRatio
  <2>3. floor[p] = 0 /\ remainder[p] = 0
    <3>1. amount * weight[p] = 0
      OBVIOUS
    <3>2. floor[p] = 0 \div total /\ remainder[p] = 0 % total
      BY <3>1
    <3>3. 0 \div total \in Nat /\ 0 % total \in 0 .. total - 1
          /\ 0 = total * (0 \div total) + (0 % total)
      BY <1>1, <2>1, Division
    <3> DEFINE a == 0 \div total
               b == 0 % total
    <3>4. a \in Nat /\ b \in 0 .. total - 1 /\ 0 = total * a + b
      BY <3>3
    <3> HIDE DEF a, b, total
    <3>5. total * a \in Nat
      BY <1>1, <3>4
    <3>6. b = 0 /\ total * a = 0
      BY <1>1, <3>4, <3>5
    <3>7. a = 0
      BY <1>1, <2>1, <3>4, <3>6
    <3> QED BY <3>2, <3>6, <3>7 DEF a, b
  <2>4. \A q \in Players : floor[q] = (amount * weight[q]) \div total
    OBVIOUS
  <2>5. \A q \in Players : remainder[q] = (amount * weight[q]) % total
    OBVIOUS
  <2>6. left \in Int /\ left <= Cardinality(Losing(remainder))
    <3>1. total \in Nat
      BY <1>1
    <3>2. Sum(weight) = total
      OBVIOUS
    <3> HIDE DEF total, floor, remainder
    <3>3. /\ Sum(floor) \in Nat /\ \A q \in Players : floor[q] \in Nat /\ remainder[q] \in Nat
          /\ amount - Sum(floor) \in 0 .. M
          /\ amount - Sum(floor) <= Cardinality(Losing(remainder))
      BY ONLY <2>1, <2>4, <2>5, <3>1, <3>2, amount \in Nat, weight \in [Players -> Nat],
              RestFits
    <3> QED BY <3>3
  <2>7. Losing(remainder) \subseteq ahead(p)
    <3>1. \A q \in Players : remainder[q] > 0 => remainder[q] > remainder[p]
      BY <2>3
    <3> HIDE DEF remainder
    <3> QED BY <3>1 DEF Losing
  <2>8. ahead(p) \in SUBSET (0 .. M - 1)
    BY <1>0
  <2>9. Cardinality(Losing(remainder)) <= Cardinality(ahead(p))
        /\ Cardinality(ahead(p)) \in Nat /\ Cardinality(Losing(remainder)) \in Nat
    <3> HIDE DEF ahead, remainder
    <3> QED BY <1>0, <2>7, <2>8, PlayersCounted
  <2>10. ~ (Cardinality(ahead(p)) < left)
    <3> HIDE DEF left, ahead, remainder
    <3> QED BY <2>6, <2>9
  <2> HIDE DEF floor, ahead, left
  <2> QED BY <2>2, <2>3, <2>10
<1> QED BY <1>2, <1>3

\* A deal gives away exactly what is left of the pool.
LEMMA ChopExact ==
  ASSUME NEW alive \in SUBSET Players, alive # {}, NEW stack \in [alive -> Stacks],
         NEW left \in Nat,
         NEW g, \A i \in Players :
           g[i] = IF i \in alive THEN CalculateChop(alive, stack, left)[i].amount ELSE 0
  PROVE  Sum(g) = left
<1> DEFINE weight == [p \in Players |-> IF p \in alive THEN stack[p] ELSE 0]
           ahead  == [p \in Players |-> {q \in Players : \/ weight[q] > weight[p]
                                                         \/ weight[q] = weight[p] /\ q < p}]
           index  == [p \in Players |-> Cardinality(ahead[p])]
           shares == SplitByRatio(left, weight, index)
<1>0. M \in Nat /\ M > 0 /\ Players = 0 .. M - 1
  BY PlayersAssumption DEF Players
<1>1. weight \in [Players -> Nat] /\ \A p \in alive : weight[p] > 0
  <2>1. Stacks \subseteq Nat \ {0}
    BY MoneyAssumption
  <2>2. \A p \in alive : stack[p] \in Nat /\ stack[p] > 0
    <3> TAKE p \in alive
    <3>1. stack[p] \in Stacks
      OBVIOUS
    <3>2. stack[p] \in Nat \ {0}
      BY <2>1, <3>1
    <3> QED BY <3>2
  <2> QED BY <2>2
<1>2. Sum(weight) > 0
  <2>1. PICK p \in alive : TRUE
    OBVIOUS
  <2>2. p \in 0 .. M - 1 /\ weight[p] > 0
    BY <1>0, <1>1
  <2>3. \A i \in 0 .. M - 1 : weight[i] \in Nat
    BY <1>0, <1>1
  <2> HIDE DEF weight
  <2>4. weight[p] <= Total(weight, M) /\ Total(weight, M) \in Nat
    BY <1>0, <2>2, <2>3, TotalMember, TotalNat
  <2> QED BY <2>2, <2>3, <2>4 DEF Sum
<1>3. \A p \in Players : IsFiniteSet(ahead[p]) /\ Cardinality(ahead[p]) \in Nat
  <2> TAKE p \in Players
  <2>1. ahead[p] \in SUBSET (0 .. M - 1)
    BY <1>0
  <2> HIDE DEF ahead
  <2> QED BY <1>0, <2>1, PlayersCounted
<1>4. \A p, q \in Players : q \in ahead[p] => Cardinality(ahead[q]) < Cardinality(ahead[p])
  <2> SUFFICES ASSUME NEW p \in Players, NEW q \in Players, q \in ahead[p]
               PROVE  Cardinality(ahead[q]) < Cardinality(ahead[p])
    OBVIOUS
  <2>1. \A x \in Players : weight[x] \in Nat /\ x \in Int
    BY <1>0, <1>1
  <2>2. \A x, y \in Players : y \in ahead[x] <=> \/ weight[y] > weight[x]
                                                 \/ weight[y] = weight[x] /\ y < x
    OBVIOUS
  <2>3. \A x \in Players : ahead[x] \subseteq Players
    OBVIOUS
  <2> HIDE DEF ahead, weight
  <2>4. ahead[q] \union {q} \subseteq ahead[p] /\ q \notin ahead[q]
    <3>1. ASSUME NEW x \in ahead[q] PROVE x \in ahead[p]
      <4>1. x \in Players
        BY <2>3
      <4> QED BY <2>1, <2>2, <4>1
    <3>2. q \notin ahead[q]
      BY <2>1, <2>2
    <3> QED BY <3>1, <3>2
  <2>5. Cardinality(ahead[q] \union {q}) = Cardinality(ahead[q]) + 1
    BY <1>3, <2>4, FS_AddElement
  <2>6. Cardinality(ahead[q] \union {q}) <= Cardinality(ahead[p])
    BY <1>3, <2>4, FS_Subset
  <2>7. Cardinality(ahead[q]) \in Nat /\ Cardinality(ahead[p]) \in Nat
    BY <1>3
  <2> QED BY <2>5, <2>6, <2>7
<1>5. index \in [Players -> Int]
  <2> HIDE DEF ahead
  <2> QED BY <1>3
<1>6. \A p, q \in Players : index[p] = index[q] => p = q
  <2> SUFFICES ASSUME NEW p \in Players, NEW q \in Players, p # q
               PROVE  index[p] # index[q]
    OBVIOUS
  <2>1. p \in ahead[q] \/ q \in ahead[p]
    <3>1. weight[p] \in Nat /\ weight[q] \in Nat /\ p \in Int /\ q \in Int
      BY <1>0, <1>1
    <3>2. p \in ahead[q] <=> \/ weight[p] > weight[q]
                             \/ weight[p] = weight[q] /\ p < q
      OBVIOUS
    <3>3. q \in ahead[p] <=> \/ weight[q] > weight[p]
                             \/ weight[q] = weight[p] /\ q < p
      OBVIOUS
    <3> HIDE DEF ahead, weight
    <3> QED BY <3>1, <3>2, <3>3
  <2>2. index[p] = Cardinality(ahead[p]) /\ index[q] = Cardinality(ahead[q])
    OBVIOUS
  <2> HIDE DEF ahead, index
  <2>3. Cardinality(ahead[p]) \in Nat /\ Cardinality(ahead[q]) \in Nat
    BY <1>3
  <2>4. Cardinality(ahead[p]) # Cardinality(ahead[q])
    BY <1>4, <2>1, <2>3
  <2> QED BY <2>2, <2>4
<1>7. Sum(shares) = left
  <2>1. weight \in [Players -> Nat]
    BY <1>1
  <2> HIDE DEF weight, index
  <2> QED BY ONLY <1>2, <1>5, <1>6, <2>1, left \in Nat, SplitByRatioExact DEF shares
<1>8. \A p \in Players : p \notin alive => shares[p] = 0
  <2> SUFFICES ASSUME NEW p \in Players, p \notin alive PROVE shares[p] = 0
    OBVIOUS
  <2>1. weight \in [Players -> Nat]
    BY <1>1
  <2>2. weight[p] = 0
    OBVIOUS
  <2> HIDE DEF weight, index
  <2> QED BY <2>1, <2>2, WeightlessGetNothing
<1>9. CalculateChop(alive, stack, left)
        = [p \in alive |-> [place |-> 1 + index[p], amount |-> shares[p]]]
  <2> DEFINE before(p) == {q \in Players : \/ weight[q] > weight[p]
                                           \/ weight[q] = weight[p] /\ q < p}
             order     == [p \in Players |-> Cardinality(before(p))]
  <2>1. CalculateChop(alive, stack, left)
          = [p \in alive |-> [place |-> 1 + order[p],
                              amount |-> SplitByRatio(left, weight, order)[p]]]
    BY DEF CalculateChop
  <2>2. order = index
    OBVIOUS
  <2> HIDE DEF order, index, weight
  <2> QED BY <2>1, <2>2
<1>10. \A i \in 0 .. M - 1 : g[i] = shares[i]
  <2> TAKE i \in 0 .. M - 1
  <2>1. i \in Players
    BY <1>0
  <2>2. i \in alive => CalculateChop(alive, stack, left)[i].amount = shares[i]
    <3> HIDE DEF shares, index
    <3> QED BY <1>9
  <2> HIDE DEF shares
  <2> QED BY <1>8, <2>1, <2>2
<1>11. Sum(g) = Sum(shares)
  <2> HIDE DEF shares
  <2> QED BY <1>0, <1>10, TotalSame DEF Sum
<1> QED BY <1>7, <1>11


-----------------------------------------------------------------------------
(* The places that may be paid *)

\* A table has a longest list of places, and the one that holds is no longer.
LEMMA MostPlacesBound ==
  ASSUME PayoutTable # <<>>
  PROVE  /\ MostPlaces \in Nat
         /\ \A entries : /\ Whole(PayoutsFor(entries, PayoutTable))
                         /\ Len(PayoutsFor(entries, PayoutTable)) <= MostPlaces
<1> DEFINE size(i) == Len(PayoutTable[i].payouts)
           lists   == {size(i) : i \in DOMAIN PayoutTable}
           n       == Len(PayoutTable)
           f       == [i \in 0 .. n - 1 |-> size(i + 1)]
           bounds  == {b \in Nat : \A j \in lists : j <= b}
<1>1. n \in Nat /\ n > 0 /\ DOMAIN PayoutTable = 1 .. n
  BY TableAssumption
<1>2. \A i \in 1 .. n : size(i) \in Nat
  <2> TAKE i \in 1 .. n
  <2>1. PayoutTable[i] \in [minEntries : Nat, payouts : Seq(1 .. 100)]
    <3> DEFINE Tier == [minEntries : Nat, payouts : Seq(1 .. 100)]
    <3>1. PayoutTable \in Seq(Tier)
      BY TableAssumption
    <3> HIDE DEF Tier
    <3>2. PayoutTable[i] \in Tier
      BY <3>1, ElementOfSeq
    <3> QED BY <3>2 DEF Tier
  <2>2. PayoutTable[i].payouts \in Seq(1 .. 100)
    BY <2>1
  <2> QED BY <2>2
<1>3. lists # {} /\ \A j \in lists : j \in Nat
  <2> HIDE DEF size, n
  <2>1. 1 \in 1 .. n
    BY <1>1
  <2> QED BY <1>1, <1>2, <2>1
<1>4. bounds # {} /\ bounds \subseteq Nat
  <2> HIDE DEF size, n
  <2>1. \A i \in 0 .. n - 1 : f[i] \in Nat
    BY <1>1, <1>2
  <2>2. Total(f, n) \in Nat
    <3> HIDE DEF f
    <3> QED BY <1>1, <2>1, TotalNat
  <2>3. \A i \in 1 .. n : size(i) <= Total(f, n)
    <3> TAKE i \in 1 .. n
    <3>1. i - 1 \in 0 .. n - 1 /\ f[i - 1] = size(i)
      BY <1>1
    <3>2. f[i - 1] <= Total(f, n)
      <4> HIDE DEF f
      <4> QED BY <1>1, <2>1, <3>1, TotalMember
    <3> QED BY <3>1, <3>2
  <2> HIDE DEF f
  <2>4. Total(f, n) \in bounds
    BY <1>1, <2>2, <2>3
  <2> QED BY <2>4
<1>5. PICK most \in bounds : \A b \in bounds : ~ (b < most)
  <2> HIDE DEF bounds
  <2> QED BY <1>4, LeastNumber
<1>6. most \in lists
  <2> SUFFICES ASSUME most \notin lists PROVE FALSE
    OBVIOUS
  <2>1. most \in Nat /\ \A j \in lists : j <= most
    OBVIOUS
  <2> HIDE DEF lists
  <2>2. \A j \in lists : j <= most - 1 /\ most - 1 \in Nat
    <3> TAKE j \in lists
    <3>1. j \in Nat /\ j <= most /\ j # most
      BY <1>3, <2>1
    <3> QED BY <2>1, <3>1
  <2>3. most - 1 \in bounds
    BY <1>3, <2>2
  <2> HIDE DEF bounds
  <2>4. most - 1 < most
    BY <2>1
  <2> QED BY <1>5, <2>3, <2>4
<1>7. MostPlaces \in lists /\ \A j \in lists : j <= MostPlaces
  <2>1. MostPlaces = IF lists = {} THEN 0 ELSE CHOOSE k \in lists : \A j \in lists : j <= k
    BY DEF MostPlaces
  <2>2. \A j \in lists : j <= most
    OBVIOUS
  <2> HIDE DEF lists, bounds
  <2> QED BY <1>3, <1>6, <2>1, <2>2
<1>8. ASSUME NEW entries
      PROVE  /\ Whole(PayoutsFor(entries, PayoutTable))
             /\ Len(PayoutsFor(entries, PayoutTable)) \in lists
  <2>1. PICK i \in DOMAIN PayoutTable :
               /\ PayoutsFor(entries, PayoutTable) = PayoutTable[i].payouts
               /\ Whole(PayoutTable[i].payouts)
    BY TierIs
  <2>2. Len(PayoutsFor(entries, PayoutTable)) = size(i)
    BY <2>1
  <2> QED BY <2>1, <2>2
<1> HIDE DEF lists
<1> QED BY <1>3, <1>7, <1>8

\* The pool and the places of an open tournament with a payout table.
LEMMA PlacesRead ==
  ASSUME RowsTyped, PayoutTable # <<>>
  PROVE  /\ Pool \in Nat /\ Whole(Payouts)
         /\ Len(Payouts) \in Nat /\ 1 <= Len(Payouts)
         /\ MostPlaces \in Nat /\ Len(Payouts) <= MostPlaces
<1>1. Pool \in Nat
  BY PrizesRead
<1>2. Whole(Payouts) /\ Len(Payouts) <= MostPlaces /\ MostPlaces \in Nat
  BY MostPlacesBound DEF Payouts
<1>3. Len(Payouts) \in Nat /\ Len(Payouts) > 0
  BY <1>2, WholeShape
<1> QED BY <1>1, <1>2, <1>3

-----------------------------------------------------------------------------
(* The books balance once first place is given *)

\* An open tournament whose field has not grown too late, and where no kick, first prize
\* or deal was written from a reading that held no more.
Fair        == Fresh({"kick", "winner", "chop"}) /\ ~Closed /\ ~grewLate
SomebodyOut == \E p \in Players : part[p].status \in Finished
PrizesTo(n) == PrizesUpTo(Pool, Payouts, n)

\* Whoever is to be kicked has sat down.
SeatedKnown ==
  /\ given \in Int /\ grewLate \in BOOLEAN
  /\ kick # Nobody => kick \in SeatedEver

\* Before first place is given the row counts who is live, and the places behind them
\* have their prizes, whoever took them and whenever.
InPlay ==
  Fair /\ given > 1 =>
    /\ t.active = Cardinality(LiveNow)
    /\ PaidOut = PrizesTo(Cardinality(SeatedEver)) - PrizesTo(t.active)
    /\ SomebodyOut => t.active >= given - 1
    /\ ~WinnerPaid

\* Afterwards nobody is left and the pool is given away.
Decided ==
  Fair /\ given <= 1 =>
    /\ given = 1 /\ LiveNow = {}
    /\ Cardinality(SeatedEver) >= Len(Payouts) => PaidOut = Pool

BalanceInv == SeatedKnown /\ InPlay /\ Decided

\* What was written from an old reading stays written.
LEMMA FairBefore ==
  ASSUME stale \subseteq stale', Fair', Closed => Closed', grewLate => grewLate'
  PROVE  Fair
BY DEF Fair, Fresh

\* Everybody is live, out, or has not sat down yet.
LEMMA FieldCounted ==
  ASSUME RowsTyped
  PROVE  /\ LiveNow \subseteq SeatedEver /\ SeatedEver \subseteq Players
         /\ LiveNow \in SUBSET (0 .. M - 1) /\ SeatedEver \in SUBSET (0 .. M - 1)
         /\ IsFiniteSet(LiveNow) /\ Cardinality(LiveNow) \in Nat
         /\ IsFiniteSet(SeatedEver) /\ Cardinality(SeatedEver) \in Nat
         /\ Cardinality(LiveNow) <= Cardinality(SeatedEver)
         /\ \A p \in SeatedEver : p \in LiveNow \/ part[p].status \in Finished
         /\ ~SomebodyOut => SeatedEver = LiveNow
<1>0. M \in Nat /\ Players = 0 .. M - 1
  BY PlayersAssumption DEF Players
<1>1. \A p \in Players :
        part[p].status \in {"NONE", "WAITING"} \union Live \union Finished
  BY DEF RowsTyped, Row
<1>2. LiveNow \subseteq SeatedEver /\ SeatedEver \subseteq Players
  BY DEF LiveNow, SeatedEver, Live
<1>3. \A p \in SeatedEver : p \in LiveNow \/ part[p].status \in Finished
  BY <1>1 DEF LiveNow, SeatedEver
<1>4. SeatedEver \in SUBSET (0 .. M - 1) /\ LiveNow \in SUBSET SeatedEver
  BY <1>0, <1>2
<1>5. /\ IsFiniteSet(SeatedEver) /\ Cardinality(SeatedEver) \in Nat
      /\ IsFiniteSet(LiveNow) /\ Cardinality(LiveNow) \in Nat
      /\ Cardinality(LiveNow) <= Cardinality(SeatedEver)
  BY <1>0, <1>4, PlayersCounted
<1>6. ~SomebodyOut => SeatedEver = LiveNow
  BY <1>2, <1>3 DEF SomebodyOut
<1> QED BY <1>2, <1>3, <1>4, <1>5, <1>6

\* The prizes of a number of places, while the tournament is open.
LEMMA PrizesRange ==
  ASSUME RowsTyped, PayoutTable # <<>>
  PROVE  /\ \A n \in Nat : /\ PrizesTo(n) \in Nat /\ PrizesTo(n) <= Pool
                           /\ n >= Len(Payouts) => PrizesTo(n) = Pool
         /\ PrizesTo(1) = PrizeFor(Pool, Payouts, 1)
<1>1. Pool \in Nat /\ Whole(Payouts)
  BY PlacesRead
<1> DEFINE pool == Pool
           list == Payouts
<1>2. pool \in Nat /\ Whole(list)
  BY <1>1
<1> HIDE DEF pool, list
<1>3. \A n \in Nat : PrizesUpTo(pool, list, n) \in Nat
  BY <1>2, PrizesNat
<1>4. \A n \in Nat : PrizesUpTo(pool, list, n) <= pool
  BY <1>2, PrizesGrow
<1>5. \A n \in Nat : n >= Len(list) => PrizesUpTo(pool, list, n) = pool
  BY <1>2, PrizesBeyond
<1>6. PrizesUpTo(pool, list, 1) = PrizeFor(pool, list, 1)
  <2>1. PrizesUpTo(pool, list, 0 + 1) = PrizesUpTo(pool, list, 0) + PrizeFor(pool, list, 0 + 1)
    BY PrizesStep
  <2>2. PrizesUpTo(pool, list, 0) = 0
    BY TotalEmpty DEF PrizesUpTo
  <2>3. PrizeFor(pool, list, 1) \in Nat
    BY <1>2, PrizeForNat
  <2>4. 0 + 1 = 1
    OBVIOUS
  <2> QED BY <2>1, <2>2, <2>3, <2>4
<1> QED BY <1>3, <1>4, <1>5, <1>6 DEF PrizesTo, pool, list

\* What awardPrize gives to each who is not out.
Gains(awards) ==
  [p \in Players |-> IF p \in Awardable(awards) THEN awards[p].amount ELSE 0]

\* ... is added to what was paid out, and whoever gets his place is out.
LEMMA AwardGives ==
  ASSUME LedgerInv, NEW who \in SUBSET Players, NEW awards \in AwardsTo(who),
         AwardPrize(awards)
  PROVE  /\ PaidOut \in Nat /\ PaidOut' = PaidOut + Sum(Gains(awards))
         /\ \A p \in Awardable(awards) :
              part'[p].status \in Finished /\ part'[p].place = awards[p].place
         /\ \A p \in Players \ Awardable(awards) : part'[p] = part[p]
         /\ Awardable(awards) = {p \in who : part[p].status \notin Finished}
<1>0. M \in Nat /\ Players = 0 .. M - 1
  BY PlayersAssumption DEF Players
<1> DEFINE due    == Awardable(awards)
           gain   == Gains(awards)
           before == [p \in Players |-> part[p].prize]
           after  == [p \in Players |-> part'[p].prize]
<1>1. due = {p \in who : part[p].status \notin Finished}
  BY DEF Awardable, AwardsTo
<1>2. part' = [p \in Players |->
                 IF p \notin due THEN part[p]
                 ELSE [part[p] EXCEPT
                         !.place  = awards[p].place,
                         !.prize  = awards[p].amount,
                         !.status = IF awards[p].amount > 0 THEN "AWARDED" ELSE "ELIMINATED"]]
  BY DEF AwardPrize
<1>3. \A p \in due : /\ p \in Players /\ awards[p] \in [place : Int, amount : Nat]
                     /\ part[p].prize = 0 /\ part[p] \in Row
  BY <1>1 DEF AwardsTo, LedgerInv, PrizesBooked, RowsTyped
<1>4. \A p \in Players : before[p] = part[p].prize /\ before[p] \in Nat
                         /\ after[p] = part'[p].prize
  BY DEF LedgerInv, RowsTyped, Row
<1>5. \A p \in Players : gain[p] = IF p \in due THEN awards[p].amount ELSE 0
  BY DEF Gains
<1> HIDE DEF due
<1>6. ASSUME NEW p \in due
      PROVE  /\ part'[p].status \in Finished /\ part'[p].place = awards[p].place
             /\ part'[p].prize = awards[p].amount
  <2>1. p \in Players /\ part[p] \in Row
    BY <1>3
  <2>2. part'[p] = [part[p] EXCEPT
                      !.place  = awards[p].place,
                      !.prize  = awards[p].amount,
                      !.status = IF awards[p].amount > 0 THEN "AWARDED" ELSE "ELIMINATED"]
    BY <1>2, <2>1
  <2> QED BY <2>1, <2>2 DEF Row, Finished
<1>7. \A p \in Players \ due : part'[p] = part[p]
  BY <1>2
<1>8. \A i \in 0 .. M - 1 : before[i] \in Int /\ gain[i] \in Int
                            /\ after[i] = before[i] + gain[i]
  <2> TAKE i \in 0 .. M - 1
  <2>1. i \in Players
    BY <1>0
  <2> HIDE DEF before, after, gain
  <2>2. CASE i \in due
    <3>1. before[i] = 0 /\ gain[i] = awards[i].amount /\ awards[i].amount \in Nat
      BY <1>3, <1>4, <1>5, <2>1, <2>2
    <3>2. after[i] = awards[i].amount
      BY <1>4, <1>6, <2>1, <2>2
    <3> QED BY <3>1, <3>2
  <2>3. CASE i \notin due
    <3>1. gain[i] = 0 /\ after[i] = before[i] /\ before[i] \in Nat
      BY <1>4, <1>5, <1>7, <2>1, <2>3
    <3> QED BY <3>1
  <2> QED BY <2>2, <2>3
<1>9. PaidOut = Sum(before) /\ PaidOut' = Sum(after)
  BY DEF PaidOut
<1>10. PaidOut \in Nat
  <2> HIDE DEF before
  <2> QED BY <1>0, <1>4, <1>9, TotalNat DEF Sum
<1>11. Sum(after) = Sum(before) + Sum(gain)
  <2> HIDE DEF before, after, gain
  <2> QED BY <1>0, <1>8, TotalPlus DEF Sum
<1>12. PaidOut' = PaidOut + Sum(gain)
  BY <1>9, <1>11
<1> QED BY <1>1, <1>6, <1>7, <1>10, <1>12 DEF due

\* A step that gives no place and moves nobody in or out of play: calls under way may
\* go on or end, and the tournament may close.
Quietly ==
  /\ Closed => Closed'
  /\ UNCHANGED <<given, grewLate>>
  /\ t'.active = t.active /\ Pool' = Pool /\ Payouts' = Payouts
  /\ LiveNow' = LiveNow /\ SeatedEver' = SeatedEver /\ PaidOut' = PaidOut
  /\ SomebodyOut' <=> SomebodyOut
  /\ WinnerPaid' <=> WinnerPaid
  /\ kick' = kick \/ kick' = Nobody \/ kick' \in SeatedEver

\* Such a step leaves the balance as it is.
LEMMA QuietKept ==
  ASSUME BalanceInv, stale \subseteq stale', Quietly
  PROVE  BalanceInv'
<1>1. \A n : PrizesTo(n)' = PrizesTo(n)
  BY DEF Quietly, PrizesTo
<1>2. Fair' => Fair
  BY FairBefore DEF Quietly
<1>3. SeatedKnown'
  BY DEF Quietly, BalanceInv, SeatedKnown
<1>4. InPlay'
  <2> SUFFICES ASSUME Fair', given' > 1
               PROVE  /\ t'.active = Cardinality(LiveNow')
                      /\ PaidOut' = PrizesTo(Cardinality(SeatedEver))' - PrizesTo(t.active)'
                      /\ SomebodyOut' => t'.active >= given' - 1
                      /\ ~WinnerPaid'
    BY DEF InPlay
  <2> QED BY <1>1, <1>2 DEF Quietly, BalanceInv, InPlay, PrizesTo
<1>5. Decided'
  <2> SUFFICES ASSUME Fair', given' <= 1
               PROVE  /\ given' = 1 /\ LiveNow' = {}
                      /\ Cardinality(SeatedEver') >= Len(Payouts') => PaidOut' = Pool'
    BY DEF Decided
  <2> QED BY <1>2 DEF Quietly, BalanceInv, Decided
<1> QED BY <1>3, <1>4, <1>5 DEF BalanceInv

\* Behind a closed door, once the field grew too late, and after a late writing, nothing
\* is claimed.
LEMMA UnfairKept ==
  ASSUME SeatedKnown', ~Fair'
  PROVE  BalanceInv'
BY DEF BalanceInv, InPlay, Decided

\* What the rows of the people say is the same if nobody enters or leaves the play.
LEMMA SamePeople ==
  ASSUME LedgerInv,
         \/ UNCHANGED part
         \/ \E p \in Players : \E s \in Live : /\ part[p].status \in Live
                                               /\ part' = [part EXCEPT ![p].status = s]
  PROVE  /\ LiveNow' = LiveNow /\ SeatedEver' = SeatedEver /\ PaidOut' = PaidOut
         /\ SomebodyOut' <=> SomebodyOut
         /\ WinnerPaid' <=> WinnerPaid
<1>1. CASE UNCHANGED part
  BY <1>1 DEF LiveNow, SeatedEver, PaidOut, SomebodyOut, WinnerPaid
<1>2. ASSUME NEW p \in Players, NEW s \in Live, part[p].status \in Live,
             part' = [part EXCEPT ![p].status = s]
      PROVE  /\ LiveNow' = LiveNow /\ SeatedEver' = SeatedEver /\ PaidOut' = PaidOut
             /\ SomebodyOut' <=> SomebodyOut
             /\ WinnerPaid' <=> WinnerPaid
  <2>1. part \in [Players -> Row]
    BY DEF LedgerInv, RowsTyped
  <2>2. \A q \in Players : /\ part'[q].prize = part[q].prize /\ part'[q].place = part[q].place
                           /\ q # p => part'[q].status = part[q].status
    BY <1>2, <2>1 DEF Row
  <2>3. part'[p].status \in Live /\ part[p].status \in Live
    BY <1>2, <2>1 DEF Row
  <2>4. PaidOut' = PaidOut
    BY <2>2 DEF PaidOut
  <2>5. \A q \in Players : part'[q].status \in Live <=> part[q].status \in Live
    BY <2>2, <2>3
  <2>6. \A q \in Players : part'[q].status \in Finished <=> part[q].status \in Finished
    BY <2>2, <2>3 DEF Live, Finished
  <2>7. \A q \in Players :
          part'[q].status \in {"NONE", "WAITING"} <=> part[q].status \in {"NONE", "WAITING"}
    BY <2>2, <2>3 DEF Live
  <2> QED BY <2>2, <2>4, <2>5, <2>6, <2>7 DEF LiveNow, SeatedEver, SomebodyOut, WinnerPaid
<1> QED BY <1>1, <1>2

\* Only the books of a tournament without entries may change their fee.
LEMMA SamePlaces ==
  ASSUME LedgerInv, t'.total = t.total, t'.fee = t.fee \/ t.total <= 0
  PROVE  Pool' = Pool /\ Payouts' = Payouts
<1>1. Pool' = Pool
  BY DEF Pool
<1>2. EntryCountOf(t'.total, t'.fee) = EntryCountOf(t.total, t.fee)
  <2>1. CASE t.total <= 0
    BY <2>1 DEF EntryCountOf
  <2>2. CASE t'.fee = t.fee
    BY <2>2
  <2> QED BY <2>1, <2>2
<1> QED BY <1>1, <1>2 DEF Payouts

\* The steps that give no place.
LEMMA LookingQuiet ==
  ASSUME LedgerInv,
         \/ CreateTable \/ DeleteTable \/ StartSession \/ LevelUp \/ CloseRegistration
         \/ BeginHand \/ EndHand \/ Restart \/ CompleteCheck \/ Complete
         \/ EliminateAgain \/ ChopCheck \/ ChopAlive \/ ChopTotals
         \/ \E fee \in Fees : UpdateSession(fee)
         \/ \E p \in Players : JoinCheck(p) \/ Release(p) \/ AskRebuy(p) \/ KickCheck(p)
                               \/ \E fee \in Fees : PayElsewhere(p, fee)
         \/ \E i \in Finishing : NoWinner(i) \/ \E p \in Players : WinnerRead(i, p)
         \/ UNCHANGED vars
  PROVE  Quietly
<1>0. t \in TournamentRow
  BY DEF LedgerInv, RowsTyped
<1>1. UNCHANGED <<given, grewLate>>
  BY DEF CreateTable, DeleteTable, StartSession, LevelUp, CloseRegistration, BeginHand,
     EndHand, Restart, CompleteCheck, Complete, UpdateSession, JoinCheck, Release, AskRebuy,
     PayElsewhere, NoWinner, ChopCheck, EliminateAgain, ChopAlive, ChopTotals, KickCheck,
     WinnerRead, ghost, vars
<1> DEFINE SameRow == /\ t'.active = t.active /\ t'.total = t.total
                      /\ Closed => Closed'
                      /\ t'.fee = t.fee \/ t.total <= 0
<1>2. SameRow
  <2>1. CASE CreateTable \/ DeleteTable \/ CloseRegistration
    BY <1>0, <2>1 DEF CreateTable, DeleteTable, CloseRegistration, TournamentRow, Closed
  <2>2. CASE StartSession
    <3>1. t' = [t EXCEPT !.status = "ONGOING", !.started = TRUE] /\ t.status = "PENDING"
      BY <2>2 DEF StartSession
    <3>2. t'.total = t.total /\ t'.active = t.active /\ t'.fee = t.fee
      BY <1>0, <3>1 DEF TournamentRow
    <3> QED BY <3>1, <3>2 DEF Closed
  <2>3. CASE Complete
    <3>1. UNCHANGED t \/ t' = [t EXCEPT !.status = "FINISHED", !.tables = 0]
      BY <2>3 DEF Complete
    <3> QED BY <1>0, <3>1 DEF TournamentRow, Closed
  <2>4. CASE \E fee \in Fees : UpdateSession(fee)
    BY <1>0, <2>4 DEF UpdateSession, TournamentRow, Closed
  <2>5. CASE UNCHANGED t
    BY <2>5 DEF Closed
  <2> QED BY <2>1, <2>2, <2>3, <2>4, <2>5
          DEF LevelUp, BeginHand, EndHand, Restart, CompleteCheck, JoinCheck, Release,
          AskRebuy, PayElsewhere, NoWinner, ChopCheck, EliminateAgain, ChopAlive, ChopTotals,
          KickCheck, WinnerRead, rows, vars
<1>3. \/ UNCHANGED part
      \/ \E p \in Players : \E s \in Live : /\ part[p].status \in Live
                                            /\ part' = [part EXCEPT ![p].status = s]
  <2>1. CASE \E p \in Players : Release(p)
    BY <2>1 DEF Release, Live
  <2> QED BY <2>1
          DEF CreateTable, DeleteTable, StartSession, LevelUp, CloseRegistration, BeginHand,
          EndHand, Restart, CompleteCheck, Complete, UpdateSession, JoinCheck, AskRebuy,
          PayElsewhere, NoWinner, ChopCheck, EliminateAgain, ChopAlive, ChopTotals, KickCheck,
          WinnerRead, rows, vars
<1>4. kick' = kick \/ kick' = Nobody \/ kick' \in SeatedEver
  <2>1. CASE \E p \in Players : KickCheck(p)
    BY <2>1 DEF KickCheck, SeatedEver
  <2> QED BY <2>1
          DEF CreateTable, DeleteTable, StartSession, LevelUp, CloseRegistration, BeginHand,
          EndHand, Restart, CompleteCheck, Complete, UpdateSession, JoinCheck, Release,
          AskRebuy, PayElsewhere, NoWinner, ChopCheck, EliminateAgain, ChopAlive, ChopTotals,
          WinnerRead, calls, vars
<1>5. /\ t'.active = t.active
      /\ Closed => Closed'
      /\ Pool' = Pool /\ Payouts' = Payouts
  BY <1>2, SamePlaces
<1> QED BY <1>1, <1>3, <1>4, <1>5, SamePeople DEF Quietly

\* The doors that close it whatever the books say.
LEMMA ClosingKeeps ==
  ASSUME LedgerInv, BalanceInv, Abort \/ Cancel
  PROVE  BalanceInv'
<1>1. Closed'
  <2>1. t' = [t EXCEPT !.status = "CANCELLED", !.total = 0, !.active = 0, !.tables = 0]
    BY DEF Abort, Cancel
  <2>2. t \in TournamentRow
    BY DEF LedgerInv, RowsTyped
  <2> QED BY <2>1, <2>2 DEF TournamentRow, Closed
<1>2. UNCHANGED <<part, kick, given, grewLate>>
  BY DEF Abort, Cancel, calls, ghost
<1>3. SeatedKnown'
  BY <1>2 DEF BalanceInv, SeatedKnown, SeatedEver
<1> QED BY <1>1, <1>3, UnfairKept DEF Fair

\* The field grows while the pool may still change: nobody has a paid place yet, so that
\* nothing has been given, whatever the pool comes to.
LEMMA GrowingPlay ==
  ASSUME LedgerInv, BalanceInv, PayoutTable # <<>>, Grow, Fair, Fair',
         t' \in TournamentRow,
         NEW d \in {0, 1},
         t'.active = t.active + d,
         Cardinality(LiveNow') = Cardinality(LiveNow) + d,
         Cardinality(SeatedEver') = Cardinality(SeatedEver) + d,
         PaidOut' = PaidOut, SomebodyOut' <=> SomebodyOut, WinnerPaid' <=> WinnerPaid
  PROVE  InPlay' /\ given > 1 /\ given' = given /\ given' \in Int /\ grewLate' \in BOOLEAN
<1> DEFINE field == Cardinality(SeatedEver)
           live  == Cardinality(LiveNow)
           pool  == Pool'
           list  == Payouts'
<1>1. /\ MostPlaces \in Nat /\ Len(Payouts) <= MostPlaces /\ 1 <= Len(Payouts)
      /\ Len(Payouts) \in Nat /\ Pool \in Nat
  BY PlacesRead DEF LedgerInv
<1>2. given \in Int /\ given' = given /\ given > MostPlaces /\ grewLate' \in BOOLEAN
  <2>1. given \in Int /\ given' = given /\ grewLate' = (grewLate \/ given <= MostPlaces)
    BY DEF BalanceInv, SeatedKnown, Grow
  <2>2. ~grewLate'
    BY DEF Fair
  <2>3. ~(given <= MostPlaces)
    BY <2>1, <2>2
  <2>4. grewLate' \in BOOLEAN
    BY <2>1
  <2> QED BY <1>1, <2>1, <2>3, <2>4
<1>3. given > 1
  BY <1>1, <1>2
<1>4. /\ t.active = live
      /\ PaidOut = PrizesTo(field) - PrizesTo(live)
      /\ SomebodyOut => t.active >= given - 1
      /\ ~WinnerPaid
  BY <1>3 DEF BalanceInv, InPlay
<1>5. pool \in Nat /\ Whole(list) /\ Len(list) \in Nat /\ Len(list) <= MostPlaces
  <2>1. pool \in Nat
    <3>1. t'.total \in Nat
      BY DEF TournamentRow
    <3> QED BY <3>1, PoolNat DEF Pool
  <2>2. Whole(list) /\ Len(list) <= MostPlaces
    BY MostPlacesBound DEF Payouts
  <2>3. Len(list) \in Nat
    <3> HIDE DEF list
    <3> QED BY <2>2, WholeShape
  <2> QED BY <2>1, <2>2, <2>3
<1>6. /\ field \in Nat /\ live \in Nat /\ live <= field
      /\ ~SomebodyOut => field = live
  BY FieldCounted DEF LedgerInv
<1>7. field + d \in Nat /\ live + d \in Nat
  <2> HIDE DEF field, live
  <2> QED BY <1>6
<1> DEFINE before == PrizesTo(field) - PrizesTo(live)
           after  == PrizesUpTo(pool, list, field + d) - PrizesUpTo(pool, list, live + d)
<1>8. before = 0 /\ after = 0
  <2>1. /\ PrizesUpTo(pool, list, field + d) \in Nat
        /\ PrizesTo(field) \in Nat
    <3>1. PrizesTo(field) \in Nat
      <4> HIDE DEF field
      <4> QED BY <1>6, PrizesRange DEF LedgerInv
    <3> HIDE DEF pool, list, field
    <3> QED BY <1>5, <1>7, <3>1, PrizesNat
  <2>2. CASE ~SomebodyOut
    <3> HIDE DEF field, live, pool, list
    <3> QED BY <1>6, <2>1, <2>2
  <2>3. CASE SomebodyOut
    <3>1. live >= MostPlaces
      <4> HIDE DEF field, live, pool, list
      <4> QED BY <1>1, <1>2, <1>4, <1>6, <2>3
    <3>2. live >= Len(Payouts) /\ field >= Len(Payouts)
      <4> HIDE DEF field, live, pool, list
      <4> QED BY <1>1, <1>6, <3>1
    <3>3. live + d >= Len(list) /\ field + d >= Len(list)
      <4> HIDE DEF field, live, pool, list
      <4> QED BY <1>1, <1>5, <1>6, <3>1
    <3>4. PrizesTo(field) = Pool /\ PrizesTo(live) = Pool
      <4> HIDE DEF field, live, pool, list
      <4> QED BY <1>6, <3>2, PrizesRange DEF LedgerInv
    <3>5. /\ PrizesUpTo(pool, list, field + d) = pool
          /\ PrizesUpTo(pool, list, live + d) = pool
      <4> HIDE DEF field, live, pool, list
      <4> QED BY <1>5, <1>7, <3>3, PrizesBeyond
    <3> HIDE DEF field, live, pool, list
    <3> QED BY <1>1, <1>5, <3>4, <3>5
  <2> QED BY <2>2, <2>3
<1>9. InPlay'
  <2> SUFFICES ASSUME Fair', given' > 1
               PROVE  /\ t'.active = Cardinality(LiveNow')
                      /\ PaidOut' = PrizesUpTo(Pool', Payouts', Cardinality(SeatedEver'))
                                      - PrizesUpTo(Pool', Payouts', t'.active)
                      /\ SomebodyOut' => t'.active >= given' - 1
                      /\ ~WinnerPaid'
    BY DEF InPlay, PrizesTo
  <2>1. t'.active = live + d /\ Cardinality(LiveNow') = live + d
        /\ Cardinality(SeatedEver') = field + d
    BY <1>4
  <2>2. PaidOut' = after
    <3> HIDE DEF before, after
    <3>1. PaidOut = before
      BY <1>4 DEF before
    <3> QED BY <1>8, <3>1
  <2>3. SomebodyOut' => t'.active >= given' - 1
    <3> HIDE DEF live
    <3> QED BY <1>2, <1>4, <1>6, <2>1
  <2> HIDE DEF field, live
  <2> QED BY <1>4, <2>1, <2>2, <2>3
<1> QED BY <1>2, <1>3, <1>9

\* An entry, and a rebuy.
LEMMA PayingKeeps ==
  ASSUME LedgerInv, LedgerInv', BalanceInv, PayoutTable # <<>>, stale \subseteq stale',
         NEW p \in Players, Join(p) \/ Rebuy(p)
  PROVE  BalanceInv'
<1>0. part \in [Players -> Row] /\ t \in TournamentRow /\ t' \in TournamentRow
      /\ join \in [Players -> Fees \union {NoSum}]
  BY DEF LedgerInv, RowsTyped, CallsTyped
<1>1. CASE Quietly
  BY <1>1, QuietKept
<1> DEFINE amount == IF Join(p) THEN join[p] ELSE t.fee
<1>2. \/ Quietly
      \/ /\ Grow /\ ~Closed /\ kick' = kick
         /\ \E sum \in Nat : t' = [t EXCEPT !.total = @ + sum]
         /\ \A q \in Players \ {p} : part'[q] = part[q]
         /\ part'[p].prize = part[p].prize /\ part'[p].place = part[p].place
         /\ \/ part'[p].status = part[p].status
            \/ part[p].status = "NONE" /\ part'[p].status = "WAITING"
  <2>1. CASE Rebuy(p)
    <3>1. t' = [t EXCEPT !.total = @ + t.fee] /\ t.fee \in Nat
      BY <1>0, <2>1, FeesNat DEF Rebuy, TournamentRow
    <3>2. part' = [part EXCEPT ![p].buyIns = @ + 1]
      BY <2>1 DEF Rebuy
    <3>3. /\ \A q \in Players \ {p} : part'[q] = part[q]
          /\ part'[p].prize = part[p].prize /\ part'[p].place = part[p].place
          /\ part'[p].status = part[p].status
      BY <1>0, <3>2 DEF Row
    <3> QED BY <2>1, <3>1, <3>3 DEF Rebuy
  <2>2. CASE Join(p) /\ ~(CanPay(p, join[p]) /\ ~Closed /\ t.open)
    <3>1. UNCHANGED <<t, part, given, grewLate, kick>>
      BY <2>2 DEF Join, ghost
    <3>2. Closed' <=> Closed
      BY <3>1 DEF Closed
    <3>3. Pool' = Pool /\ Payouts' = Payouts
      BY <3>1 DEF Pool, Payouts
    <3> QED BY <3>1, <3>2, <3>3, SamePeople DEF Quietly
  <2>3. CASE Join(p) /\ CanPay(p, join[p]) /\ ~Closed /\ t.open
    <3>1. /\ t' = [t EXCEPT !.total = @ + join[p]] /\ join[p] # NoSum
          /\ part' = [part EXCEPT ![p].status = "WAITING", ![p].buyIns = 1]
          /\ Grow /\ kick' = kick
      BY <2>3 DEF Join
    <3>2. join[p] \in Nat
      BY <1>0, <3>1, FeesNat
    <3>3. part[p].status = "NONE"
      BY <3>1 DEF LedgerInv, Apart, Outside
    <3>4. /\ \A q \in Players \ {p} : part'[q] = part[q]
          /\ part'[p].prize = part[p].prize /\ part'[p].place = part[p].place
          /\ part'[p].status = "WAITING"
      BY <1>0, <3>1 DEF Row
    <3> QED BY <2>3, <3>1, <3>2, <3>3, <3>4
  <2> QED BY <2>1, <2>2, <2>3
<1>3. CASE /\ Grow /\ ~Closed /\ kick' = kick
           /\ \E sum \in Nat : t' = [t EXCEPT !.total = @ + sum]
           /\ \A q \in Players \ {p} : part'[q] = part[q]
           /\ part'[p].prize = part[p].prize /\ part'[p].place = part[p].place
           /\ \/ part'[p].status = part[p].status
              \/ part[p].status = "NONE" /\ part'[p].status = "WAITING"
  <2>2. /\ LiveNow' = LiveNow /\ SeatedEver' = SeatedEver
        /\ SomebodyOut' <=> SomebodyOut
        /\ WinnerPaid' <=> WinnerPaid
    <3>1. \A q \in Players :
            /\ part'[q].place = part[q].place
            /\ \/ part'[q].status = part[q].status
               \/ part[q].status = "NONE" /\ part'[q].status = "WAITING"
      BY <1>3
    <3> QED BY <3>1 DEF LiveNow, SeatedEver, SomebodyOut, WinnerPaid, Live, Finished
  <2>3. PaidOut' = PaidOut
    <3>1. \A q \in Players : part'[q].prize = part[q].prize
      BY <1>3
    <3> QED BY <3>1 DEF PaidOut
  <2>4. SeatedKnown'
    BY <1>3, <2>2 DEF BalanceInv, SeatedKnown, Grow
  <2>5. CASE ~Fair'
    BY <2>4, <2>5, UnfairKept
  <2>6. CASE Fair'
    <3>1. t'.active = t.active /\ (Closed' <=> Closed)
      BY <1>0, <1>3 DEF TournamentRow, Closed
    <3>2. Fair
      <4>1. grewLate => grewLate'
        BY <1>3 DEF Grow
      <4> QED BY <2>6, <3>1, <4>1, FairBefore
    <3>3. /\ Cardinality(LiveNow) \in Nat /\ Cardinality(SeatedEver) \in Nat /\ t.active \in Int
      BY <1>0, FieldCounted DEF LedgerInv, TournamentRow
    <3> DEFINE d == 0
    <3>4. d \in {0, 1}
      OBVIOUS
    <3>5. t'.active = t.active + d
      BY <3>1, <3>3
    <3>6. Cardinality(LiveNow') = Cardinality(LiveNow) + d
      BY <2>2, <3>3
    <3>7. Cardinality(SeatedEver') = Cardinality(SeatedEver) + d
      BY <2>2, <3>3
    <3>8. Grow
      BY <1>3
    <3>9. t' \in TournamentRow
      BY <1>0
    <3> HIDE DEF d
    <3>10. InPlay' /\ given' = given /\ given > 1 /\ given' \in Int
      BY <2>2, <2>3, <2>6, <3>2, <3>4, <3>5, <3>6, <3>7, <3>8, <3>9, GrowingPlay
    <3>11. Decided'
      BY <3>10 DEF Decided
    <3> QED BY <2>4, <3>10, <3>11 DEF BalanceInv
  <2> QED BY <2>5, <2>6
<1> QED BY <1>1, <1>2, <1>3

\* A seat, the first one and the next ones.
LEMMA SittingKeeps ==
  ASSUME LedgerInv, LedgerInv', BalanceInv, PayoutTable # <<>>, stale \subseteq stale',
         NEW p \in Players, Sit(p)
  PROVE  BalanceInv'
<1>0. part \in [Players -> Row] /\ t \in TournamentRow /\ t' \in TournamentRow
  BY DEF LedgerInv, RowsTyped
<1>1. CASE part[p].status = "RELEASED"
  <2>1. /\ UNCHANGED <<t, given, grewLate, kick>>
        /\ part' = [part EXCEPT ![p].status = "PLAYING"]
    BY <1>1 DEF Sit, calls, ghost
  <2>2. \E s \in Live : part[p].status \in Live /\ part' = [part EXCEPT ![p].status = s]
    BY <1>1, <2>1 DEF Live
  <2>3. Closed' <=> Closed
    BY <2>1 DEF Closed
  <2>4. Pool' = Pool /\ Payouts' = Payouts
    BY <2>1 DEF Pool, Payouts
  <2>5. Quietly
    BY <2>1, <2>2, <2>3, <2>4, SamePeople DEF Quietly
  <2> QED BY <2>5, QuietKept
<1>2. CASE part[p].status = "WAITING"
  <2>1. /\ Grow /\ ~Closed /\ kick' = kick
        /\ t' = [t EXCEPT !.active = @ + 1]
        /\ part' = [part EXCEPT ![p].status = "PLAYING"]
    BY <1>2 DEF Sit, calls
  <2>3. \A q \in Players :
          /\ part'[q].prize = part[q].prize /\ part'[q].place = part[q].place
          /\ q # p => part'[q].status = part[q].status
          /\ q = p => part'[q].status = "PLAYING"
    BY <1>0, <2>1 DEF Row
  <2>4. /\ LiveNow' = LiveNow \union {p} /\ p \notin LiveNow
        /\ SeatedEver' = SeatedEver \union {p} /\ p \notin SeatedEver
        /\ SomebodyOut' <=> SomebodyOut
        /\ WinnerPaid' <=> WinnerPaid
    BY <1>2, <2>3 DEF LiveNow, SeatedEver, SomebodyOut, WinnerPaid, Live, Finished
  <2>5. PaidOut' = PaidOut
    BY <2>3 DEF PaidOut
  <2>6. SeatedKnown'
    BY <2>1, <2>4 DEF BalanceInv, SeatedKnown, Grow
  <2>7. CASE ~Fair'
    BY <2>6, <2>7, UnfairKept
  <2>8. CASE Fair'
    <3>1. t'.active = t.active + 1 /\ t'.total = t.total /\ t'.fee = t.fee
          /\ t.active \in Int /\ (Closed' <=> Closed)
      BY <1>0, <2>1 DEF TournamentRow, Closed
    <3>2. Fair
      <4>1. grewLate => grewLate'
        BY <2>1 DEF Grow
      <4> QED BY <2>8, <3>1, <4>1, FairBefore
    <3>3. /\ IsFiniteSet(LiveNow) /\ IsFiniteSet(SeatedEver)
      BY FieldCounted DEF LedgerInv
    <3>4. Pool' = Pool /\ Payouts' = Payouts
      BY <3>1 DEF Pool, Payouts
    <3> DEFINE d == 1
    <3>5. d \in {0, 1}
      OBVIOUS
    <3>6. t'.active = t.active + d
      BY <3>1
    <3>7. Cardinality(LiveNow') = Cardinality(LiveNow) + d
      BY <2>4, <3>3, FS_AddElement
    <3>8. Cardinality(SeatedEver') = Cardinality(SeatedEver) + d
      BY <2>4, <3>3, FS_AddElement
    <3>9. Grow
      BY <2>1
    <3>10. t' \in TournamentRow
      BY <1>0
    <3> HIDE DEF d
    <3>11. InPlay' /\ given' = given /\ given > 1 /\ given' \in Int
      BY <2>4, <2>5, <2>8, <3>2, <3>5, <3>6, <3>7, <3>8, <3>9, <3>10, GrowingPlay
    <3>12. Decided'
      BY <3>11 DEF Decided
    <3> QED BY <2>6, <3>11, <3>12 DEF BalanceInv
  <2> QED BY <2>7, <2>8
<1>3. part[p].status = "WAITING" \/ part[p].status = "RELEASED"
  BY DEF Sit
<1> QED BY <1>1, <1>2, <1>3

\* A kick behind the paid places.
LEMMA KickKeeps ==
  ASSUME LedgerInv, BalanceInv, PayoutTable # <<>>, stale \subseteq stale', Kick
  PROVE  BalanceInv'
<1>0. /\ part \in [Players -> Row] /\ t \in TournamentRow /\ t.active \in Int
      /\ kick \in Players \union {Nobody} /\ kick # Nobody /\ kick' = Nobody
  BY DEF LedgerInv, RowsTyped, CallsTyped, TournamentRow, Kick
<1>1. CASE ~(hand /\ ~Closed /\ part[kick].status \notin Finished)
  <2>1. UNCHANGED <<part, t, given, grewLate>>
    BY <1>1 DEF Kick, ghost
  <2>2. Closed' <=> Closed
    BY <2>1 DEF Closed
  <2>3. Pool' = Pool /\ Payouts' = Payouts
    BY <2>1 DEF Pool, Payouts
  <2>4. Quietly
    BY <1>0, <2>1, <2>2, <2>3, SamePeople DEF Quietly
  <2> QED BY <2>4, QuietKept
<1>2. CASE hand /\ ~Closed /\ part[kick].status \notin Finished
  <2>1. /\ part' = [part EXCEPT ![kick].status = "ELIMINATED"]
        /\ t' = [t EXCEPT !.active = @ - 1]
        /\ given' = Lesser(given, t.active) /\ grewLate' = grewLate
        /\ Stale("kick", MayKick)
    BY <1>2 DEF Kick, Give
  <2>3. kick \in LiveNow /\ kick \in SeatedEver /\ kick \in Players
    <3>1. kick \in SeatedEver
      BY <1>0 DEF BalanceInv, SeatedKnown
    <3> QED BY <1>2, <3>1, FieldCounted DEF LedgerInv
  <2>4. \A q \in Players :
          /\ part'[q].prize = part[q].prize /\ part'[q].place = part[q].place
          /\ q # kick => part'[q].status = part[q].status
          /\ q = kick => part'[q].status = "ELIMINATED"
    BY <1>0, <2>1 DEF Row
  <2>5. /\ LiveNow' = LiveNow \ {kick} /\ SeatedEver' = SeatedEver
        /\ WinnerPaid' <=> WinnerPaid
    BY <2>3, <2>4 DEF LiveNow, SeatedEver, WinnerPaid, Live
  <2>6. PaidOut' = PaidOut
    BY <2>4 DEF PaidOut
  <2>7. t'.active = t.active - 1 /\ t'.total = t.total /\ t'.fee = t.fee /\ (Closed' <=> Closed)
    BY <1>0, <2>1 DEF TournamentRow, Closed
  <2>8. Pool' = Pool /\ Payouts' = Payouts
    BY <2>7 DEF Pool, Payouts
  <2>9. SeatedKnown'
    BY <1>0, <2>1, <2>5 DEF BalanceInv, SeatedKnown, Lesser
  <2>10. CASE ~Fair'
    BY <2>9, <2>10, UnfairKept
  <2>11. CASE Fair'
    <3>1. Fair
      BY <2>1, <2>7, <2>11, FairBefore
    <3> DEFINE holds == MayKick
    <3>0. t.active > Len(Payouts)
      <4>1. Stale("kick", holds) /\ "kick" \notin stale'
        BY <2>1, <2>11 DEF Fair, Fresh
      <4> HIDE DEF holds
      <4>2. holds
        BY <4>1 DEF Stale
      <4> QED BY <4>2 DEF holds, MayKick
    <3>2. given \in Int /\ given > 1
      BY <2>3, <3>1 DEF BalanceInv, SeatedKnown, Decided
    <3> DEFINE field == Cardinality(SeatedEver)
               live  == Cardinality(LiveNow)
    <3>3. /\ t.active = live /\ PaidOut = PrizesTo(field) - PrizesTo(live) /\ ~WinnerPaid
          /\ t.active > Len(Payouts)
      BY <3>0, <3>1, <3>2 DEF BalanceInv, InPlay
    <3>4. Len(Payouts) \in Nat /\ 1 <= Len(Payouts)
      BY PlacesRead DEF LedgerInv
    <3>5. IsFiniteSet(LiveNow) /\ live \in Nat
      BY FieldCounted DEF LedgerInv
    <3>6. Cardinality(LiveNow') = live - 1
      BY <2>3, <2>5, <3>5, FS_RemoveElement
    <3>7. PrizesTo(live) = Pool /\ PrizesTo(live - 1) = Pool
      <4>1. live - 1 \in Nat /\ live >= Len(Payouts) /\ live - 1 >= Len(Payouts)
        <5> HIDE DEF live
        <5> QED BY <3>3, <3>4, <3>5
      <4> HIDE DEF live
      <4> QED BY <3>5, <4>1, PrizesRange DEF LedgerInv
    <3> HIDE DEF field, live
    <3>8. given' > 1 /\ given' <= t.active
      BY <2>1, <3>2, <3>3, <3>4, <3>5 DEF Lesser
    <3>9. InPlay'
      <4> SUFFICES ASSUME Fair', given' > 1
                   PROVE  /\ t'.active = Cardinality(LiveNow')
                          /\ PaidOut' = PrizesUpTo(Pool', Payouts', Cardinality(SeatedEver'))
                                          - PrizesUpTo(Pool', Payouts', t'.active)
                          /\ SomebodyOut' => t'.active >= given' - 1
                          /\ ~WinnerPaid'
        BY DEF InPlay, PrizesTo
      <4>1. t'.active = live - 1
        BY <2>7, <3>3
      <4>2. PaidOut' = PrizesTo(field) - PrizesTo(live - 1)
        BY <2>6, <3>3, <3>7
      <4>3. given' \in Int /\ t'.active >= given' - 1
        BY <1>0, <2>1, <2>7, <3>2, <3>8 DEF Lesser
      <4> QED BY <2>5, <2>8, <3>3, <3>6, <4>1, <4>2, <4>3 DEF PrizesTo, field
    <3>10. Decided'
      <4>1. given' \in Int
        BY <1>0, <2>1, <3>2 DEF Lesser
      <4> QED BY <3>8, <4>1 DEF Decided
    <3> QED BY <2>9, <3>9, <3>10 DEF BalanceInv
  <2> QED BY <2>10, <2>11
<1> QED BY <1>1, <1>2

\* Those who bust in one hand take the last places there are, with their prizes, and
\* somebody else stays.
LEMMA EliminateKeeps ==
  ASSUME LedgerInv, BalanceInv, PayoutTable # <<>>, stale \subseteq stale',
         NEW busted \in SUBSET Players, NEW start \in [busted -> Stacks],
         Eliminate(busted, start)
  PROVE  BalanceInv'
<1> DEFINE awards == SplitBustedRanks(busted, start, t.active, Pool, Payouts)
           c      == Cardinality(busted)
           live   == Cardinality(LiveNow)
           field  == Cardinality(SeatedEver)
<1>1. /\ ~Closed /\ busted # {} /\ \A p \in busted : part[p].status = "PLAYING"
      /\ AtTable \ busted # {}
      /\ AwardPrize(awards)
      /\ t' = [t EXCEPT !.active = @ - c]
      /\ given' = Lesser(given, t.active - c + 1) /\ grewLate' = grewLate
      /\ kick' = kick
  BY DEF Eliminate, Give
<1>2. /\ part \in [Players -> Row] /\ t \in TournamentRow /\ t.active \in Int
      /\ Pool \in Nat /\ Whole(Payouts) /\ Len(Payouts) \in Nat
  BY PlacesRead DEF LedgerInv, RowsTyped, TournamentRow
<1>4. awards \in AwardsTo(busted)
  BY <1>2, SplitBustedAwards
<1>5. Awardable(awards) = busted
  <2>1. Awardable(awards) = {p \in busted : part[p].status \notin Finished}
    <3> HIDE DEF awards
    <3> QED BY <1>1, <1>4, AwardGives
  <2> QED BY <1>1, <2>1 DEF Finished
<1>6. /\ PaidOut \in Nat /\ PaidOut' = PaidOut + Sum(Gains(awards))
      /\ \A p \in busted : part'[p].status \in Finished /\ part'[p].place = awards[p].place
      /\ \A p \in Players \ busted : part'[p] = part[p]
  <2> HIDE DEF awards
  <2> QED BY <1>1, <1>4, <1>5, AwardGives
<1>7. /\ LiveNow' = LiveNow \ busted /\ SeatedEver' = SeatedEver /\ busted \subseteq LiveNow
  BY <1>1, <1>6 DEF LiveNow, SeatedEver, Live, Finished
<1>8. t'.active = t.active - c /\ t'.total = t.total /\ t'.fee = t.fee /\ (Closed' <=> Closed)
  <2> HIDE DEF c
  <2> QED BY <1>1, <1>2 DEF TournamentRow, Closed
<1>9. Pool' = Pool /\ Payouts' = Payouts
  BY <1>8 DEF Pool, Payouts
<1>12. IsFiniteSet(LiveNow) /\ live \in Nat /\ field \in Nat
       /\ IsFiniteSet(busted) /\ c \in Nat
  <2>1. LiveNow \in SUBSET (0 .. M - 1) /\ M \in Nat
    BY FieldCounted, PlayersAssumption DEF LedgerInv
  <2>2. IsFiniteSet(busted) /\ c \in Nat
    BY <1>7, <2>1, PlayersCounted
  <2> QED BY <2>2, FieldCounted DEF LedgerInv
<1>13. given \in Int /\ given' \in Int
  <2>1. given \in Int
    BY DEF BalanceInv, SeatedKnown
  <2> HIDE DEF c
  <2> QED BY <1>1, <1>2, <1>12, <2>1 DEF Lesser
<1>14. SeatedKnown'
  BY <1>1, <1>7, <1>13 DEF BalanceInv, SeatedKnown
<1>15. CASE ~Fair'
  BY <1>14, <1>15, UnfairKept
<1>16. CASE Fair'
  <2>1. Fair
    BY <1>1, <1>8, <1>16, FairBefore
  <2>2. given > 1
    <3>1. LiveNow # {}
      BY <1>1, <1>7
    <3> QED BY <1>13, <2>1, <3>1 DEF BalanceInv, Decided
  <2>3. /\ t.active = live /\ PaidOut = PrizesTo(field) - PrizesTo(live) /\ ~WinnerPaid
    BY <2>1, <2>2 DEF BalanceInv, InPlay
  <2>4. c + 1 <= live /\ c > 0
    <3>1. PICK q \in AtTable \ busted : TRUE
      BY <1>1
    <3>2. q \in LiveNow
      BY <2>3, <3>1 DEF AtTable, WinnerPaid, LiveNow, Live
    <3>3. busted \union {q} \in SUBSET LiveNow /\ q \notin busted
      BY <1>7, <3>1, <3>2
    <3>4. Cardinality(busted \union {q}) = c + 1
      BY <1>12, <3>3, FS_AddElement
    <3>5. Cardinality(busted \union {q}) <= live
      BY <1>12, <3>3, FS_Subset
    <3>6. c # 0
      BY <1>1, <1>12, FS_EmptySet
    <3> HIDE DEF c, live
    <3> QED BY <1>12, <3>4, <3>5, <3>6
  <2>5. Cardinality(LiveNow') = live - c
    <3>1. LiveNow = LiveNow' \union busted /\ LiveNow' \cap busted = {}
          /\ LiveNow' \in SUBSET LiveNow
      BY <1>7
    <3>2. IsFiniteSet(LiveNow')
      BY <1>12, <3>1, FS_Subset
    <3>3. live = Cardinality(LiveNow') + c
      BY <1>12, <3>1, <3>2, CountsApart
    <3>4. Cardinality(LiveNow') \in Nat
      BY <3>2, FS_CardinalityType
    <3> HIDE DEF c, live
    <3> QED BY <1>12, <3>3, <3>4
  <2>6. Sum(Gains(awards)) = PrizesTo(live) - PrizesTo(live - c)
    <3>1. start \in [busted -> Nat]
      <4>1. Stacks \subseteq Nat
        BY MoneyAssumption
      <4> QED BY <4>1
    <3>2. \A i \in Players :
            Gains(awards)[i]
              = IF i \in busted
                THEN SplitBustedRanks(busted, start, live, Pool, Payouts)[i].amount
                ELSE 0
      <4>1. awards = SplitBustedRanks(busted, start, live, Pool, Payouts)
        BY <2>3
      <4> HIDE DEF awards
      <4>2. \A i \in Players : Gains(awards)[i] = IF i \in busted THEN awards[i].amount ELSE 0
        BY <1>5 DEF Gains
      <4> QED BY <4>1, <4>2
    <3> DEFINE gains == Gains(awards)
               pool  == Pool
               list  == Payouts
    <3>3. \A i \in Players :
            gains[i] = IF i \in busted
                       THEN SplitBustedRanks(busted, start, live, pool, list)[i].amount
                       ELSE 0
      BY <3>2
    <3>4. live \in Nat /\ Cardinality(busted) <= live
      <4>1. c <= live
        <5> HIDE DEF c, live
        <5> QED BY <1>12, <2>4
      <4> QED BY <1>12, <4>1
    <3>5. pool \in Nat
      BY <1>2
    <3>6. list = <<>> \/ Whole(list)
      BY <1>2
    <3> HIDE DEF gains, pool, list, live
    <3>7. Sum(gains) = PrizesUpTo(pool, list, live)
                         - PrizesUpTo(pool, list, live - Cardinality(busted))
      BY ONLY <3>1, <3>3, <3>4, <3>5, <3>6, busted \in SUBSET Players, SplitBustedExact
    <3> QED BY <3>7 DEF PrizesTo, gains, pool, list
  <2>7. PrizesTo(live) \in Nat /\ PrizesTo(live - c) \in Nat /\ PrizesTo(field) \in Nat
    <3>1. live - c \in Nat
      <4> HIDE DEF c, live
      <4> QED BY <1>12, <2>4
    <3> HIDE DEF c, live, field
    <3> QED BY <1>12, <3>1, PrizesRange DEF LedgerInv
  <2>8. given' > 1 /\ given' - 1 <= live - c
    <3> HIDE DEF c, live
    <3> QED BY <1>1, <1>12, <1>13, <2>2, <2>3, <2>4 DEF Lesser
  <2>9. ~WinnerPaid'
    <3>1. \A p \in busted : awards[p].place # 1
      <4> DEFINE better(p) == {q \in busted : start[q] > start[p]}
      <4>1. \A p \in busted :
              awards[p].place = t.active - Cardinality(busted) + 1 + Cardinality(better(p))
        BY DEF SplitBustedRanks
      <4>2. \A p \in busted : Cardinality(better(p)) \in Nat
        <5> TAKE p \in busted
        <5>1. better(p) \in SUBSET busted
          OBVIOUS
        <5> HIDE DEF better
        <5> QED BY <1>12, <5>1, FS_Subset, FS_CardinalityType
      <4> TAKE p \in busted
      <4>3. awards[p].place = t.active - c + 1 + Cardinality(better(p))
        BY <4>1
      <4>4. Cardinality(better(p)) \in Nat
        BY <4>2
      <4> HIDE DEF awards, better, c, live
      <4> QED BY <1>12, <2>3, <2>4, <4>3, <4>4
    <3> HIDE DEF awards
    <3> QED BY <1>6, <2>3, <3>1 DEF WinnerPaid
  <2>10. InPlay'
    <3> SUFFICES ASSUME Fair', given' > 1
                 PROVE  /\ t'.active = Cardinality(LiveNow')
                        /\ PaidOut' = PrizesUpTo(Pool', Payouts', Cardinality(SeatedEver'))
                                        - PrizesUpTo(Pool', Payouts', t'.active)
                        /\ SomebodyOut' => t'.active >= given' - 1
                        /\ ~WinnerPaid'
      BY DEF InPlay, PrizesTo
    <3>1. t'.active = live - c
      BY <1>8, <2>3
    <3>2. PaidOut' = PrizesTo(field) - PrizesTo(live - c)
      <4> HIDE DEF awards, c, live, field
      <4> QED BY <1>6, <2>3, <2>6, <2>7
    <3>3. SomebodyOut' => t'.active >= given' - 1
      <4> HIDE DEF c, live
      <4> QED BY <1>12, <1>13, <2>8, <3>1
    <3> HIDE DEF c, live, awards
    <3> QED BY <1>7, <1>9, <2>5, <2>9, <3>1, <3>2, <3>3 DEF PrizesTo
  <2>12. Decided'
    BY <1>13, <2>8 DEF Decided
  <2> QED BY <1>14, <2>10, <2>12 DEF BalanceInv
<1> QED BY <1>15, <1>16

\* The last one left takes first place and its prize; whoever finds him after that
\* passes him over.
LEMMA WinnerKeeps ==
  ASSUME LedgerInv, BalanceInv, PayoutTable # <<>>, stale \subseteq stale',
         NEW i \in Finishing, WinnerAward(i)
  PROVE  BalanceInv'
<1> DEFINE who    == {winner[i].player}
           awards == FirstPrize(i)
           field  == Cardinality(SeatedEver)
           holds  == /\ ~Closed /\ LiveNow = {winner[i].player}
                     /\ winner[i].amount = PrizeFor(Pool, Payouts, 1)
<1>1. /\ winner[i].pc = "read"
      /\ AwardPrize(awards)
      /\ t' = [t EXCEPT !.open = FALSE]
      /\ given' = IF Awardable(awards) = {} THEN given ELSE Lesser(given, 1)
      /\ grewLate' = grewLate /\ kick' = kick
      /\ Stale("winner", Awardable(awards) = {} \/ holds)
  BY DEF WinnerAward, GiveFirst
<1>2. /\ part \in [Players -> Row] /\ t \in TournamentRow
      /\ winner \in [Finishing -> FinishingCalls]
      /\ winner[i].player \in Players /\ winner[i].amount \in Nat
  <2>1. /\ part \in [Players -> Row] /\ t \in TournamentRow
        /\ winner \in [Finishing -> FinishingCalls]
    BY DEF LedgerInv, RowsTyped, CallsTyped
  <2>2. winner[i] \in FinishingCalls
    BY <2>1
  <2>3. winner[i].player \in Players /\ winner[i].amount \in Nat
    <3> DEFINE call == winner[i]
    <3>1. call \in FinishingCalls /\ call.pc = "read"
      BY <1>1, <2>2
    <3> HIDE DEF call
    <3>2. call.player \in Players /\ call.amount \in Nat
      BY <3>1 DEF FinishingCalls, NoCall
    <3> QED BY <3>2 DEF call
  <2> QED BY <2>1, <2>3
<1>3. awards \in AwardsTo(who) /\ who \in SUBSET Players
  BY <1>2 DEF AwardsTo, FirstPrize
<1>5. /\ PaidOut \in Nat /\ PaidOut' = PaidOut + Sum(Gains(awards))
      /\ \A p \in Awardable(awards) : part'[p].status \in Finished
      /\ \A p \in Players \ Awardable(awards) : part'[p] = part[p]
      /\ Awardable(awards) = {p \in who : part[p].status \notin Finished}
  <2> HIDE DEF who, awards
  <2> QED BY <1>1, <1>3, AwardGives
<1>7. SeatedEver \subseteq SeatedEver' /\ LiveNow' = LiveNow \ Awardable(awards)
  <2> HIDE DEF awards, who
  <2> QED BY <1>5 DEF SeatedEver, LiveNow, Live, Finished
<1>8. t'.active = t.active /\ t'.total = t.total /\ t'.fee = t.fee /\ (Closed' <=> Closed)
  BY <1>1, <1>2 DEF TournamentRow, Closed
<1>9. Pool' = Pool /\ Payouts' = Payouts
  BY <1>8 DEF Pool, Payouts
<1>10. CASE Awardable(awards) = {}
  <2> HIDE DEF awards, who, holds
  <2>1. UNCHANGED <<given, grewLate, kick>>
    BY <1>1, <1>10
  <2>2. \A p \in Players : part'[p] = part[p]
    BY <1>5, <1>10
  <2>3. /\ LiveNow' = LiveNow /\ SeatedEver' = SeatedEver /\ PaidOut' = PaidOut
        /\ SomebodyOut' <=> SomebodyOut
        /\ WinnerPaid' <=> WinnerPaid
    BY <2>2 DEF LiveNow, SeatedEver, PaidOut, SomebodyOut, WinnerPaid
  <2>4. Quietly
    BY <1>8, <1>9, <2>1, <2>3 DEF Quietly
  <2> QED BY <2>4, QuietKept
<1>11. ASSUME Awardable(awards) # {} PROVE given \in Int /\ given' \in Int /\ given' <= 1
  <2>1. given \in Int
    BY DEF BalanceInv, SeatedKnown
  <2> HIDE DEF awards, who, holds
  <2>2. given' = Lesser(given, 1)
    BY <1>1, <1>11
  <2> QED BY <2>1, <2>2 DEF Lesser
<1>12. ASSUME Awardable(awards) # {} PROVE SeatedKnown'
  <2> HIDE DEF awards, who, holds
  <2> QED BY <1>1, <1>7, <1>11, <1>12 DEF BalanceInv, SeatedKnown
<1>13. CASE Awardable(awards) # {} /\ ~Fair'
  <2> HIDE DEF awards, who, holds
  <2> QED BY <1>12, <1>13, UnfairKept
<1>14. CASE Awardable(awards) # {} /\ Fair'
  <2>1. Fair
    BY <1>1, <1>8, <1>14, FairBefore
  <2>2. InPlay'
    BY <1>11, <1>14 DEF InPlay
  <2>4. holds
    <3>1. Stale("winner", Awardable(awards) = {} \/ holds) /\ "winner" \notin stale'
      BY <1>1, <1>14 DEF Fair, Fresh
    <3> HIDE DEF awards, holds
    <3> QED BY <1>14, <3>1 DEF Stale
  <2>5. CASE given <= 1
    <3>1. LiveNow = {}
      BY <2>1, <2>5 DEF BalanceInv, Decided
    <3> QED BY <2>4, <3>1
  <2>3. CASE given > 1
    <3>1. /\ LiveNow = {winner[i].player} /\ winner[i].amount = PrizeFor(Pool, Payouts, 1)
          /\ t.active = Cardinality(LiveNow)
          /\ PaidOut = PrizesTo(field) - PrizesTo(t.active)
      BY <2>1, <2>3, <2>4 DEF BalanceInv, InPlay
    <3>2. t.active = 1
      BY <3>1, FS_Singleton
    <3>3. PrizesTo(1) = winner[i].amount
      BY <3>1, PrizesRange DEF LedgerInv
    <3>4. Awardable(awards) = who
      <4>1. winner[i].player \in LiveNow
        BY <3>1
      <4>2. part[winner[i].player].status \notin Finished
        BY <4>1 DEF LiveNow, Live, Finished
      <4> QED BY <1>5, <4>2
    <3>5. Sum(Gains(awards)) = winner[i].amount
      <4> DEFINE g      == Gains(awards)
                 D      == who
                 amount == winner[i].amount
      <4>1. \A j \in 0 .. M - 1 : g[j] = IF j \in D THEN amount ELSE 0
        BY <3>4 DEF Gains, Players, FirstPrize
      <4>2. D \in SUBSET (0 .. M - 1) /\ Cardinality(D) = 1
        BY <1>2, FS_Singleton DEF Players
      <4>3. amount \in Nat
        BY <1>2
      <4>4. M \in Nat
        BY PlayersAssumption
      <4>5. D \in SUBSET (0 .. M - 1)
        BY <4>2
      <4> HIDE DEF g, D, amount
      <4>6. Total(g, M) = Cardinality(D) * amount
        BY ONLY <4>1, <4>3, <4>4, <4>5, MarkedTotal
      <4>7. Total(g, M) = amount
        BY <4>2, <4>3, <4>6
      <4> QED BY <4>7 DEF Sum, g, amount
    <3>6. field \in Nat
      BY FieldCounted DEF LedgerInv
    <3>7. /\ PrizesTo(field) \in Nat
          /\ field >= Len(Payouts) => PrizesTo(field) = Pool
      <4> HIDE DEF field
      <4> QED BY <3>6, PrizesRange DEF LedgerInv
    <3>8. PaidOut' = PrizesTo(field)
      <4> DEFINE paidOut == PaidOut'
                 gained  == Sum(Gains(awards))
                 first   == winner[i].amount
                 all     == PrizesTo(field)
                 before  == PaidOut
      <4>1. paidOut = before + gained /\ before = all - first /\ gained = first
            /\ first \in Nat /\ all \in Nat
        BY <1>2, <1>5, <3>1, <3>2, <3>3, <3>5, <3>7
      <4> HIDE DEF paidOut, gained, first, all, before
      <4>2. paidOut = all
        BY <4>1
      <4> QED BY <4>2 DEF paidOut, all
    <3>9. LiveNow' = {}
      BY <1>7, <3>1, <3>4
    <3>10. SeatedEver' = SeatedEver
      <4>1. Awardable(awards) \subseteq LiveNow
        BY <3>1, <3>4
      <4> HIDE DEF awards, who
      <4> QED BY <1>5, <4>1 DEF SeatedEver, LiveNow, Live, Finished
    <3>11. given' = 1
      <4> HIDE DEF awards, who, holds
      <4>1. given' = Lesser(given, 1)
        BY <1>1, <1>14
      <4> QED BY <1>11, <1>14, <2>3, <4>1 DEF Lesser
    <3>12. Decided'
      <4> SUFFICES /\ given' = 1 /\ LiveNow' = {}
                   /\ Cardinality(SeatedEver') >= Len(Payouts') => PaidOut' = Pool'
        BY DEF Decided
      <4> HIDE DEF awards, who
      <4> QED BY <1>9, <3>7, <3>8, <3>9, <3>10, <3>11
    <3> QED BY <1>12, <1>14, <2>2, <3>12 DEF BalanceInv
  <2>6. given > 1 \/ given <= 1
    BY <1>11, <1>14
  <2> QED BY <2>3, <2>5, <2>6
<1> QED BY <1>10, <1>13, <1>14

\* A deal gives everybody who is live his place, and all that is left.
LEMMA ChopKeeps ==
  ASSUME LedgerInv, BalanceInv, PayoutTable # <<>>, stale \subseteq stale',
         NEW stack \in [chop.alive -> Stacks], ChopAward(stack)
  PROVE  BalanceInv'
<1> DEFINE alive  == chop.alive
           awards == CalculateChop(alive, stack, chop.left)
           field  == Cardinality(SeatedEver)
           holds  == ~Closed /\ alive = LiveNow /\ chop.left = Greater(0, Pool - PaidOut)
<1>1. /\ chop.pc = "totals" /\ AwardPrize(awards)
      /\ given' = IF Awardable(awards) = {} THEN given ELSE Lesser(given, 1)
      /\ grewLate' = grewLate
      /\ Stale("chop", Awardable(awards) = {} \/ holds)
      /\ UNCHANGED <<t, kick>>
  BY DEF ChopAward, GiveFirst
<1>2. alive \in SUBSET Players /\ chop.left \in Nat
  BY <1>1 DEF LedgerInv, CallsTyped, ChopCalls, NoCall
<1>3. awards \in AwardsTo(alive)
  BY <1>2, ChopAwards
<1>5. /\ PaidOut \in Nat /\ PaidOut' = PaidOut + Sum(Gains(awards))
      /\ \A p \in Awardable(awards) : part'[p].status \in Finished
      /\ \A p \in Players \ Awardable(awards) : part'[p] = part[p]
      /\ Awardable(awards) = {p \in alive : part[p].status \notin Finished}
  <2> HIDE DEF alive, awards
  <2> QED BY <1>1, <1>2, <1>3, AwardGives
<1>6. SeatedEver \subseteq SeatedEver'
  <2> HIDE DEF awards
  <2> QED BY <1>5 DEF SeatedEver, Finished
<1>7. (Closed' <=> Closed) /\ Pool' = Pool /\ Payouts' = Payouts
  BY <1>1 DEF Closed, Pool, Payouts
<1>8. CASE Awardable(awards) = {}
  <2> HIDE DEF alive, awards, holds
  <2>1. UNCHANGED <<given, grewLate, kick, t>>
    BY <1>1, <1>8
  <2>2. \A p \in Players : part'[p] = part[p]
    BY <1>5, <1>8
  <2>3. /\ LiveNow' = LiveNow /\ SeatedEver' = SeatedEver /\ PaidOut' = PaidOut
        /\ SomebodyOut' <=> SomebodyOut
        /\ WinnerPaid' <=> WinnerPaid
    BY <2>2 DEF LiveNow, SeatedEver, PaidOut, SomebodyOut, WinnerPaid
  <2>4. Quietly
    BY <1>7, <2>1, <2>3 DEF Quietly
  <2> QED BY <2>4, QuietKept
<1>9. ASSUME Awardable(awards) # {}
      PROVE  given \in Int /\ given' \in Int /\ given' <= 1 /\ (given > 1 => given' = 1)
  <2>1. given \in Int
    BY DEF BalanceInv, SeatedKnown
  <2> HIDE DEF alive, awards, holds
  <2>2. given' = Lesser(given, 1)
    BY <1>1, <1>9
  <2> QED BY <2>1, <2>2 DEF Lesser
<1>10. ASSUME Awardable(awards) # {} PROVE SeatedKnown'
  <2> HIDE DEF alive, awards, holds
  <2> QED BY <1>1, <1>6, <1>9, <1>10 DEF BalanceInv, SeatedKnown
<1>11. CASE Awardable(awards) # {} /\ ~Fair'
  <2> HIDE DEF alive, awards, holds
  <2> QED BY <1>10, <1>11, UnfairKept
<1>12. CASE Awardable(awards) # {} /\ Fair'
  <2>1. Fair
    BY <1>1, <1>7, <1>12, FairBefore
  <2>2. holds
    <3>1. Stale("chop", Awardable(awards) = {} \/ holds) /\ "chop" \notin stale'
      BY <1>1, <1>12 DEF Fair, Fresh
    <3> HIDE DEF alive, awards, holds
    <3> QED BY <1>12, <3>1 DEF Stale
  <2>3. given > 1 /\ given' = 1
    <3>1. LiveNow # {}
      <4>1. Awardable(awards) \subseteq alive
        <5> HIDE DEF alive, awards
        <5> QED BY <1>5
      <4> HIDE DEF awards
      <4> QED BY <1>12, <2>2, <4>1
    <3> HIDE DEF alive, awards, holds
    <3> QED BY <1>9, <1>12, <2>1, <3>1 DEF BalanceInv, Decided
  <2>4. alive = LiveNow /\ chop.left = Pool - PaidOut
    <3>1. PaidOut = PrizesTo(field) - PrizesTo(Cardinality(LiveNow))
      BY <2>1, <2>3 DEF BalanceInv, InPlay
    <3>2. field \in Nat /\ Cardinality(LiveNow) \in Nat /\ Pool \in Nat
      BY FieldCounted, PlacesRead DEF LedgerInv
    <3>3. \A n \in Nat : PrizesTo(n) \in Nat /\ PrizesTo(n) <= Pool
      BY PrizesRange DEF LedgerInv
    <3>4. Greater(0, Pool - PaidOut) = Pool - PaidOut
      <4> DEFINE all  == PrizesTo(field)
                 best == PrizesTo(Cardinality(LiveNow))
      <4>1. all \in Nat /\ all <= Pool /\ best \in Nat /\ PaidOut = all - best
        <5> HIDE DEF field
        <5> QED BY <3>1, <3>2, <3>3
      <4> HIDE DEF all, best
      <4> QED BY <3>2, <4>1 DEF Greater
    <3> QED BY <2>2, <3>4
  <2>5. Awardable(awards) = alive
    <3>1. \A p \in alive : part[p].status \notin Finished
      BY <2>4 DEF LiveNow, Live, Finished
    <3> HIDE DEF alive, awards
    <3> QED BY <1>5, <3>1
  <2>6. alive # {}
    <3> HIDE DEF alive, awards
    <3> QED BY <1>12, <2>5
  <2>7. Sum(Gains(awards)) = chop.left
    <3> DEFINE g    == Gains(awards)
               left == chop.left
    <3>1. \A i \in Players :
            g[i] = IF i \in alive THEN CalculateChop(alive, stack, left)[i].amount ELSE 0
      <4>1. awards = CalculateChop(alive, stack, left)
        OBVIOUS
      <4> HIDE DEF alive, awards, left
      <4> QED BY <2>5, <4>1 DEF Gains
    <3>2. stack \in [alive -> Stacks]
      OBVIOUS
    <3>3. left \in Nat
      BY <1>2
    <3>4. alive \in SUBSET Players
      BY <1>2
    <3> HIDE DEF g, left, alive
    <3>5. Sum(g) = left
      BY ONLY <2>6, <3>1, <3>2, <3>3, <3>4, ChopExact
    <3> QED BY <3>5 DEF g, left
  <2>8. PaidOut' = Pool
    <3>1. Pool \in Nat
      BY PlacesRead DEF LedgerInv
    <3> DEFINE left == chop.left
               gained == Sum(Gains(awards))
    <3>2. PaidOut' = PaidOut + gained /\ gained = left /\ left = Pool - PaidOut
      BY <1>5, <2>4, <2>7
    <3> HIDE DEF left, gained
    <3> QED BY <1>5, <3>1, <3>2
  <2>9. LiveNow' = {}
    <3> HIDE DEF awards
    <3> QED BY <1>5, <2>4, <2>5 DEF LiveNow, Live, Finished
  <2>10. Decided'
    <3> HIDE DEF alive, awards, holds
    <3> QED BY <1>7, <2>3, <2>8, <2>9 DEF Decided
  <2>11. InPlay'
    <3> HIDE DEF alive, awards, holds
    <3> QED BY <2>3 DEF InPlay
  <2> HIDE DEF alive, awards, holds
  <2> QED BY <1>10, <1>12, <2>10, <2>11 DEF BalanceInv
<1> QED BY <1>8, <1>11, <1>12

\* Nobody has sat down at first.
LEMMA BalanceInit == PayoutTable # <<>> /\ Init => BalanceInv
<1> SUFFICES ASSUME PayoutTable # <<>>, Init PROVE BalanceInv
  OBVIOUS
<1>1. LiveNow = {} /\ SeatedEver = {} /\ ~SomebodyOut /\ ~WinnerPaid
  BY DEF Init, LiveNow, SeatedEver, SomebodyOut, WinnerPaid, Live, Finished
<1>2. PaidOut = 0
  <2> DEFINE prizes == [p \in Players |-> part[p].prize]
  <2>1. \A i \in 0 .. M - 1 : prizes[i] = 0
    BY DEF Init, Players
  <2> HIDE DEF prizes
  <2>2. Total(prizes, M) = 0
    BY <2>1, PlayersAssumption, TotalZero
  <2> QED BY <2>2 DEF PaidOut, Sum, prizes
<1>3. RowsTyped
  BY LedgerInit DEF LedgerInv
<1>4. given = M + 1 /\ given > 1 /\ given \in Int /\ grewLate = FALSE /\ t.active = 0
      /\ kick = Nobody
  BY PlayersAssumption DEF Init
<1>5. Cardinality(LiveNow) = 0 /\ Cardinality(SeatedEver) = 0
  BY <1>1, FS_EmptySet
<1>6. PrizesTo(0) \in Nat
  BY <1>3, PrizesRange
<1>7. SeatedKnown
  BY <1>4 DEF SeatedKnown
<1>8. InPlay
  BY <1>1, <1>2, <1>4, <1>5, <1>6 DEF InPlay
<1>9. Decided
  BY <1>4 DEF Decided
<1> QED BY <1>7, <1>8, <1>9 DEF BalanceInv

\* Every step keeps the balance.
LEMMA BalanceKept ==
  ASSUME PayoutTable # <<>>, LedgerInv, LedgerInv', BalanceInv, [Next]_vars
  PROVE  BalanceInv'
<1>0. stale \subseteq stale'
  BY StaleStays
<1>1. CASE \/ CreateTable \/ DeleteTable \/ StartSession \/ LevelUp \/ CloseRegistration
           \/ BeginHand \/ EndHand \/ Restart \/ CompleteCheck \/ Complete
           \/ EliminateAgain \/ ChopCheck \/ ChopAlive \/ ChopTotals
           \/ \E fee \in Fees : UpdateSession(fee)
           \/ \E p \in Players : JoinCheck(p) \/ Release(p) \/ AskRebuy(p) \/ KickCheck(p)
                                 \/ \E fee \in Fees : PayElsewhere(p, fee)
           \/ \E i \in Finishing : NoWinner(i) \/ \E p \in Players : WinnerRead(i, p)
           \/ UNCHANGED vars
  BY <1>0, <1>1, LookingQuiet, QuietKept
<1>2. ASSUME NEW p \in Players, Join(p) \/ Rebuy(p) PROVE BalanceInv'
  BY <1>0, <1>2, PayingKeeps
<1>3. ASSUME NEW p \in Players, Sit(p) PROVE BalanceInv'
  BY <1>0, <1>3, SittingKeeps
<1>4. ASSUME NEW busted \in SUBSET Players, NEW start \in [busted -> Stacks],
             Eliminate(busted, start)
      PROVE  BalanceInv'
  BY <1>0, <1>4, EliminateKeeps
<1>5. CASE Kick
  BY <1>0, <1>5, KickKeeps
<1>6. ASSUME NEW i \in Finishing, WinnerAward(i) PROVE BalanceInv'
  BY <1>0, <1>6, WinnerKeeps
<1>7. CASE Abort \/ Cancel
  BY <1>7, ClosingKeeps
<1>8. ASSUME NEW stack \in [chop.alive -> Stacks], ChopAward(stack) PROVE BalanceInv'
  BY <1>0, <1>8, ChopKeeps
<1>9. CASE Next
  BY <1>1, <1>2, <1>3, <1>4, <1>5, <1>6, <1>7, <1>8, <1>9 DEF Next
<1> QED BY <1>1, <1>9

\* The balance gives what completeSession compares.
LEMMA BalanceCloses ==
  ASSUME PayoutTable # <<>>, LedgerInv, BalanceInv
  PROVE  BooksBalance
<1> SUFFICES ASSUME Fresh({"kick", "winner", "chop"}), ~Closed, WinnerPaid, ~grewLate,
                    Cardinality(SeatedEver) >= Len(Payouts)
             PROVE  ~CompleteBlocked(t.total, PaidOut, RakeOf(t.total, Rake))
  BY DEF BooksBalance
<1>1. Fair /\ given \in Int
  BY DEF Fair, BalanceInv, SeatedKnown
<1>2. given <= 1
  BY <1>1 DEF BalanceInv, InPlay
<1>3. PaidOut = Pool
  BY <1>1, <1>2 DEF BalanceInv, Decided
<1>4. t.total \in Nat
  BY DEF LedgerInv, RowsTyped, TournamentRow
<1>5. RakeOf(t.total, Rake) \in Nat
  BY <1>4, PoolNat
<1>6. t.total - (t.total - RakeOf(t.total, Rake)) - RakeOf(t.total, Rake) = 0
  <2> DEFINE total == t.total
             rake  == RakeOf(t.total, Rake)
  <2>1. total \in Nat /\ rake \in Nat
    BY <1>4, <1>5
  <2> HIDE DEF total, rake
  <2>2. total - (total - rake) - rake = 0
    BY <2>1
  <2> QED BY <2>2 DEF total, rake
<1> QED BY <1>3, <1>6 DEF CompleteBlocked, Pool, PrizePoolOf

\* Whoever is out, in whatever order, by kicks, in hands and by a deal: once first place
\* is given, prizes and rake are all that was collected (calculatePrizes,
\* splitBustedRanks, calculateChop, completeBlocker), whatever is under way, until a kick,
\* a first prize or a deal is written from a reading that holds no more.  The table has a
\* tier: parsePayoutTable lets no empty one through.
THEOREM BooksClose == PayoutTable # <<>> => (Spec => []BooksBalance)
<1> SUFFICES ASSUME PayoutTable # <<>> PROVE Spec => []BooksBalance
  OBVIOUS
<1>1. Init => LedgerInv /\ BalanceInv
  BY LedgerInit, BalanceInit
<1>2. LedgerInv /\ BalanceInv /\ [Next]_vars => (LedgerInv /\ BalanceInv)'
  BY LedgerKept, BalanceKept
<1>3. LedgerInv /\ BalanceInv => BooksBalance
  BY BalanceCloses
<1> QED BY <1>1, <1>2, <1>3, PTL DEF Spec

=============================================================================
