----------------------------- MODULE Settlement -----------------------------
(***************************************************************************)
(* The arithmetic of a tournament's money: playsync/prize.ts,              *)
(* playsync/payout-table.ts and store/session/settlement.ts, pure          *)
(* functions that say who gets how much; TournamentLedger moves it.        *)
(*                                                                         *)
(* Players are the numbers 0 .. M - 1.  The number stands for everything   *)
(* the code orders people by when nothing else tells them apart (seat      *)
(* index, time of joining).  A payout is the sequence of percentages of    *)
(* places 1, 2, ...; a payout table a sequence of tiers, each with the     *)
(* number of entries from which it holds.                                  *)
(***************************************************************************)
EXTENDS Integers, FiniteSets, Sequences, ChipSums

CONSTANT M

ASSUME PlayersAssumption == M \in Nat \ {0}

Players == 0 .. M - 1

Sum(f) == Total(f, M)

\* What a status says of a participant (player-status.ts)
Finished == {"ELIMINATED", "AWARDED"}
Live     == {"PLAYING", "RELEASED"}

-----------------------------------------------------------------------------
(* The pool and the places *)

\* The store's share, rounded down once over everything collected
RakeOf(total, percent) ==
  IF percent <= 0 \/ total <= 0 THEN 0 ELSE (total * percent) \div 100

PrizePoolOf(total, percent) == total - RakeOf(total, percent)

EntryCountOf(total, fee) ==
  IF fee <= 0 \/ total <= 0 THEN 0 ELSE total \div fee

\* The last tier before the first one that asks for more entries
PayoutsFor(entries, table) ==
  LET reached == {i \in DOMAIN table : \A j \in 1 .. i : table[j].minEntries <= entries}
  IN  IF table = <<>> THEN <<>>
      ELSE IF reached = {} THEN table[1].payouts
      ELSE table[CHOOSE i \in reached : \A j \in reached : j <= i].payouts

\* Every place but the first is rounded down; the first gets the rest
CalculatePrizes(pool, payouts) ==
  LET share(p) == (pool * payouts[p]) \div 100
      rest     == Total([i \in 0 .. Len(payouts) - 1 |-> IF i = 0 THEN 0 ELSE share(i + 1)],
                        Len(payouts))
  IN  [p \in DOMAIN payouts |-> IF p = 1 THEN pool - rest ELSE share(p)]

PrizeFor(pool, payouts, place) ==
  IF place \in DOMAIN payouts THEN CalculatePrizes(pool, payouts)[place] ELSE 0

\* Who bust in one hand: the bigger stack at its start takes the better place;
\* equal stacks share the prizes of the places they take together, and the units
\* that do not divide go to the lower seats
SplitBustedRanks(busted, start, lastPlace, pool, payouts) ==
  LET better(p) == {q \in busted : start[q] > start[p]}
      tied(p)   == {q \in busted : start[q] = start[p]}
      place(p)  == lastPlace - Cardinality(busted) + 1 + Cardinality(better(p))
      pot(p)    == Total([i \in 0 .. Cardinality(tied(p)) - 1 |->
                            PrizeFor(pool, payouts, place(p) + i)], Cardinality(tied(p)))
      each(p)   == pot(p) \div Cardinality(tied(p))
      odd(p)    == Cardinality({q \in tied(p) : q < p})
                     < pot(p) % Cardinality(tied(p))
  IN  [p \in busted |-> [place |-> place(p), amount |-> each(p) + IF odd(p) THEN 1 ELSE 0]]

-----------------------------------------------------------------------------
(* Dividing by ratio *)

\* Shares rounded down; what is left goes, a unit each, to the largest remainders
\* and among equal ones to the first by index.  (The code compares the remainders
\* as floating point numbers: equal ones may then be told apart by rounding.)
SplitByRatio(amount, weight, index) ==
  LET total     == Sum(weight)
      floor     == [p \in Players |-> (amount * weight[p]) \div total]
      remainder == [p \in Players |-> (amount * weight[p]) % total]
      ahead(p)  == {q \in Players : \/ remainder[q] > remainder[p]
                                    \/ remainder[q] = remainder[p] /\ index[q] < index[p]}
      left      == amount - Sum(floor)
  IN  IF total <= 0 \/ amount <= 0 THEN [p \in Players |-> 0]
      ELSE [p \in Players |-> floor[p] + IF Cardinality(ahead(p)) < left THEN 1 ELSE 0]

Percent(status) == IF status \in Finished THEN 50 ELSE 100

\* What a participant claims when the tournament is broken off: all he paid, or half
\* of it if he is out, less the prize he has
Claim(seat, fee) ==
  Greater(0, (fee * seat.buyIns * Percent(seat.status)) \div 100 - seat.prize)

\* The claims are paid from what is left; the store gets the rest, and if it does
\* not suffice the claims are scaled down
CalculateAbortSettlement(part, fee, total) ==
  LET available == Greater(0, total - Sum([p \in Players |-> part[p].prize]))
      claims    == [p \in Players |-> Claim(part[p], fee)]
      wanted    == Sum(claims)
  IN  IF wanted <= available
      THEN [refunds |-> claims, storeAmount |-> available - wanted]
      ELSE [refunds |-> SplitByRatio(available, claims, [p \in Players |-> p]),
            storeAmount |-> 0]

\* A deal: places by chips, what is left of the pool by the ratio of chips
CalculateChop(alive, stack, remaining) ==
  LET weight == [p \in Players |-> IF p \in alive THEN stack[p] ELSE 0]
      ahead(p) == {q \in Players : \/ weight[q] > weight[p]
                                   \/ weight[q] = weight[p] /\ q < p}
      index  == [p \in Players |-> Cardinality(ahead(p))]
      shares == SplitByRatio(remaining, weight, index)
  IN  [p \in alive |-> [place |-> 1 + index[p], amount |-> shares[p]]]

\* The store may close only when the books balance
CompleteBlocked(total, paidPrize, rake) == total - paidPrize - rake # 0
=============================================================================
