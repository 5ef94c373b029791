-------------------------- MODULE TournamentLedger --------------------------
(***************************************************************************)
(* The money of one tournament, on the rows of the database: joining       *)
(* (PaymentService), taking a seat, rebuys, eliminations and prizes        *)
(* (PlaysyncService), kicks (DealerService), and the four doors that close *)
(* it (SessionService: complete, cancel, abort, chop).                     *)
(*                                                                         *)
(* A database transaction that locks the tournament's row before it reads  *)
(* is one step.  What a call reads before that is kept in a variable of    *)
(* its own until the call writes.  Five calls write what they computed     *)
(* from an older reading, and nothing notices if it holds no more; a       *)
(* history variable, stale, remembers which ones have.                     *)
(*                                                                         *)
(* Everybody plays at one table; the other tables that are counted are     *)
(* empty.  Not here: how a rebuy is asked for and retried (HandEnd), the   *)
(* mirrors in Redis, SYNCING (an open tournament like ONGOING).            *)
(***************************************************************************)
EXTENDS Settlement

CONSTANTS
  Fees,          \* entryFee
  Rake,          \* rakePercent
  PayoutTable,
  Stacks,        \* chips people have, as far as prizes depend on them
  StartPoints,   \* points each player has at first
  MinPlayers,    \* minPlayersToStart
  MaxTables,     \* bound
  MaxBuyIns,     \* bound: entry and rebuys of one person
  Finishing,     \* bound: names for the calls of tournamentFinished under way
  MaxCalls,      \* bound: calls under way when another one gets behind its checks
  Elsewhere      \* bound: players who also pay into other tournaments

ASSUME MoneyAssumption == /\ Fees \subseteq Nat \ {0} /\ Fees # {}
                          /\ Rake \in 0 .. 100 /\ StartPoints \in [Players -> Nat]
                          /\ Stacks \subseteq Nat \ {0}
\* parsePayouts: the percentages of a tier add up to 100
Percents(payouts) == [i \in 0 .. Len(payouts) - 1 |-> payouts[i + 1]]
ASSUME TableAssumption ==
  /\ PayoutTable \in Seq([minEntries : Nat, payouts : Seq(1 .. 100)])
  /\ \A i \in DOMAIN PayoutTable :
       LET payouts == PayoutTable[i].payouts IN Total(Percents(payouts), Len(payouts)) = 100
ASSUME BoundsAssumption == /\ MinPlayers \in Nat
                           /\ MaxTables \in Nat \ {0} /\ MaxBuyIns \in Nat \ {0}
                           /\ MaxCalls \in Nat /\ Elsewhere \subseteq Players

VARIABLES
  t,         \* the row of the tournament
  part,      \* TournamentParticipation
  points,    \* User.points
  paid,      \* PointTransaction: what each player paid and got, by type
  share,     \* PointTransaction: what the store's owner got
  level,     \* the blind level is below rebuyUntil
  hand,      \* a hand is being played
  join,      \* joinSession behind its checks: the fee it read
  asked,     \* players with a rebuy prompt or a payment under way
  kick,      \* handleDealerAction behind its checks: whom
  winner,    \* the calls of tournamentFinished under way
  chop,      \* chopSession
  complete,  \* completeSession behind its checks: the sum it compared with
  given,     \* the best place given away so far
  grewLate,  \* the field grew after a place had been given away that may be paid
  stale      \* which of the five calls have written from a reading that held no more

rows  == <<t, part, points, paid, share>>
calls == <<join, asked, kick, winner, chop, complete>>
ghost == <<given, grewLate, stale>>
vars  == <<rows, level, hand, calls, ghost>>

Nobody == -1
NoSum  == -1
NoCall == [pc |-> "none"]
NoneFinishing == [i \in Finishing |-> NoCall]

-----------------------------------------------------------------------------
(* Readings *)

Closed   == t.status \in {"FINISHED", "CANCELLED"}
Joined   == {p \in Players : part[p].status # "NONE"}
LiveNow  == {p \in Players : part[p].status \in Live}
PaidOut  == Sum([p \in Players |-> part[p].prize])
Pool     == PrizePoolOf(t.total, Rake)
Payouts  == PayoutsFor(EntryCountOf(t.total, t.fee), PayoutTable)
WinnerPaid == \E p \in Players : part[p].place = 1

\* isRegistrationOpenLive: the column, and once started also the blind level
RegistrationOpen == t.open /\ (t.started => level)
FinalTable       == ~RegistrationOpen /\ t.tables = 1

\* The longest list of paid places of the table
MostPlaces == LET n == {Len(PayoutTable[i].payouts) : i \in DOMAIN PayoutTable}
              IN  IF n = {} THEN 0 ELSE CHOOSE k \in n : \A j \in n : j <= k

Give(place) == given' = Lesser(given, place)
Grow        == /\ grewLate' = (grewLate \/ given <= MostPlaces)
               /\ given' = given

\* A call of this kind writes what it computed; does what it read still hold?
Stale(kind, holds) == stale' = IF holds THEN stale ELSE stale \union {kind}
Fresh(kinds)       == stale \cap kinds = {}

\* The calls under way, and the bound on them
UnderWay == Cardinality({p \in Players : join[p] # NoSum})
          + Cardinality({i \in Finishing : winner[i].pc # "none"})
          + Cardinality({call \in {<<"kick", kick = Nobody>>, <<"chop", chop.pc = "none">>,
                                   <<"complete", complete = NoSum>>} : ~call[2]})
Room == UnderWay < MaxCalls

-----------------------------------------------------------------------------
Init ==
  /\ \E fee \in Fees :
       t = [status |-> "PENDING", started |-> FALSE, open |-> TRUE, fee |-> fee,
            total |-> 0, active |-> 0, tables |-> 1]
  /\ part = [p \in Players |-> [status |-> "NONE", buyIns |-> 0, prize |-> 0, place |-> 0]]
  /\ points = StartPoints
  /\ paid = [p \in Players |-> [buyIn |-> 0, prize |-> 0, refund |-> 0]]
  /\ share = 0
  /\ level = TRUE /\ hand = FALSE
  /\ join = [p \in Players |-> NoSum] /\ asked = {} /\ kick = Nobody
  /\ winner = NoneFinishing /\ chop = NoCall /\ complete = NoSum
  /\ given = M + 1 /\ grewLate = FALSE /\ stale = {}

-----------------------------------------------------------------------------
(* Before and around the play *)

CreateTable ==
  /\ ~Closed /\ t.tables < MaxTables
  /\ t' = [t EXCEPT !.tables = @ + 1]
  /\ UNCHANGED <<part, points, paid, share, level, hand, calls, ghost>>

\* deleteTable: an empty one, never the last
DeleteTable ==
  /\ ~Closed /\ t.tables > 1
  /\ t' = [t EXCEPT !.tables = @ - 1]
  /\ UNCHANGED <<part, points, paid, share, level, hand, calls, ghost>>

\* Mutant: the fee may change as long as the tournament has not started
UpdateSessionBeforeStart(fee) ==
  /\ ~Closed /\ ~t.started /\ fee # t.fee
  /\ t' = [t EXCEPT !.fee = fee]
  /\ UNCHANGED <<part, points, paid, share, level, hand, calls, ghost>>

\* updateSession: the fee may change while nothing has been collected
UpdateSession(fee) ==
  /\ ~Closed /\ fee # t.fee
  /\ t.total <= 0
  /\ t' = [t EXCEPT !.fee = fee]
  /\ UNCHANGED <<part, points, paid, share, level, hand, calls, ghost>>

\* startSession: the status is checked again by the update that starts it
StartSession ==
  /\ t.status = "PENDING"
  /\ Cardinality(Joined) >= MinPlayers
  /\ t' = [t EXCEPT !.status = "ONGOING", !.started = TRUE]
  /\ UNCHANGED <<part, points, paid, share, level, hand, calls, ghost>>

\* The blinds reach rebuyUntil
LevelUp ==
  /\ t.started /\ level
  /\ level' = FALSE
  /\ UNCHANGED <<rows, hand, calls, ghost>>

\* closeRegistration, by whoever looks and finds it closed
CloseRegistration ==
  /\ t.open /\ ~RegistrationOpen
  /\ t' = [t EXCEPT !.open = FALSE]
  /\ UNCHANGED <<part, points, paid, share, level, hand, calls, ghost>>

\* joinSession, outside its transaction.  (Somebody who has joined is turned away by
\* the unique key in the transaction, with nothing changed.)
JoinCheck(p) ==
  /\ ~Closed /\ RegistrationOpen
  /\ part[p].status = "NONE" /\ join[p] = NoSum
  /\ points[p] >= t.fee /\ Room
  /\ join' = [join EXCEPT ![p] = t.fee]
  /\ UNCHANGED <<rows, level, hand, asked, kick, winner, chop, complete, ghost>>

\* Mutant: the money is taken on the word of the check outside the transaction
CanPayAsChecked(p, amount) == TRUE

\* paymentPoint: the balance is compared by the statement that takes the money
CanPay(p, amount) == points[p] >= amount

\* joinSession, its transaction: all or nothing
Join(p) ==
  /\ join[p] # NoSum
  /\ join' = [join EXCEPT ![p] = NoSum]
  /\ IF CanPay(p, join[p]) /\ ~Closed /\ t.open
     THEN /\ points' = [points EXCEPT ![p] = @ - join[p]]
          /\ paid'   = [paid EXCEPT ![p].buyIn = @ + join[p]]
          /\ part'   = [part EXCEPT ![p].status = "WAITING", ![p].buyIns = 1]
          /\ t'      = [t EXCEPT !.total = @ + join[p]]
          /\ Grow
          /\ Stale("fee", join[p] = t.fee)
     ELSE UNCHANGED <<points, paid, part, t, ghost>>
  /\ UNCHANGED <<share, level, hand, asked, kick, winner, chop, complete>>

\* The same player pays into another tournament
PayElsewhere(p, fee) ==
  /\ p \in Elsewhere /\ CanPay(p, fee)
  /\ points' = [points EXCEPT ![p] = @ - fee]
  /\ UNCHANGED <<t, part, paid, share, level, hand, calls, ghost>>

\* claimSeat: the first seating counts him, the next ones do not.  (A closed
\* tournament has no tables left.)
Sit(p) ==
  /\ ~Closed
  /\ \/ /\ part[p].status = "WAITING"
        /\ t' = [t EXCEPT !.active = @ + 1]
        /\ Grow /\ UNCHANGED stale
     \/ /\ part[p].status = "RELEASED"
        /\ UNCHANGED <<t, ghost>>
  /\ part' = [part EXCEPT ![p].status = "PLAYING"]
  /\ UNCHANGED <<points, paid, share, level, hand, calls>>

\* releaseSeats, between hands
Release(p) ==
  /\ ~Closed /\ ~hand
  /\ part[p].status = "PLAYING"
  /\ part' = [part EXCEPT ![p].status = "RELEASED"]
  /\ UNCHANGED <<t, points, paid, share, level, hand, calls, ghost>>

\* People with chips at a table: who plays, and who has won already
AtTable == {p \in Players : part[p].status = "PLAYING" \/ part[p].place = 1}

BeginHand ==
  /\ t.started /\ ~Closed /\ ~hand
  /\ Cardinality(AtTable) >= 2
  /\ hand' = TRUE
  /\ UNCHANGED <<rows, level, calls, ghost>>

EndHand ==
  /\ hand
  /\ hand' = FALSE
  /\ asked' = {}
  /\ UNCHANGED <<rows, level, join, kick, winner, chop, complete, ghost>>

-----------------------------------------------------------------------------
(* The end of a hand *)

\* A prompt is sent only while registration is open
AskRebuy(p) ==
  /\ hand /\ RegistrationOpen
  /\ part[p].status = "PLAYING" /\ p \notin asked
  /\ part[p].buyIns < MaxBuyIns /\ CanPay(p, t.fee)
  /\ asked' = asked \union {p}
  /\ UNCHANGED <<rows, level, hand, join, kick, winner, chop, complete, ghost>>

\* executeRebuyTransaction, perhaps after registration has closed
Rebuy(p) ==
  /\ p \in asked
  /\ CanPay(p, t.fee) /\ ~Closed
  /\ points' = [points EXCEPT ![p] = @ - t.fee]
  /\ paid'   = [paid EXCEPT ![p].buyIn = @ + t.fee]
  /\ part'   = [part EXCEPT ![p].buyIns = @ + 1]
  /\ t'      = [t EXCEPT !.total = @ + t.fee]
  /\ asked'  = asked \ {p}
  /\ Grow
  /\ UNCHANGED <<share, level, hand, join, kick, winner, chop, complete, stale>>

\* Mutant: nobody is passed over
AwardableAll(awards) == DOMAIN awards

\* awardPrize: whoever is finished already is passed over
Awardable(awards) == {p \in DOMAIN awards : part[p].status \notin Finished}
AwardPrize(awards) ==
  /\ part' = [p \in Players |->
                IF p \notin Awardable(awards) THEN part[p]
                ELSE [part[p] EXCEPT
                        !.place  = awards[p].place,
                        !.prize  = awards[p].amount,
                        !.status = IF awards[p].amount > 0 THEN "AWARDED" ELSE "ELIMINATED"]]
  /\ points' = [p \in Players |->
                  points[p] + IF p \in Awardable(awards) THEN awards[p].amount ELSE 0]
  /\ paid' = [p \in Players |->
                [paid[p] EXCEPT !.prize =
                   @ + IF p \in Awardable(awards) THEN awards[p].amount ELSE 0]]

\* First place goes to somebody of these, unless all of them are passed over
GiveFirst(awards) == given' = IF Awardable(awards) = {} THEN given ELSE Lesser(given, 1)

\* The last one left is looked for
Finish(remaining) ==
  IF remaining > 1 THEN winner' = winner
  ELSE \E i \in Finishing :
         /\ winner[i].pc = "none"
         /\ winner' = [winner EXCEPT ![i] = [pc |-> "due"]]

\* eliminatePlayer for the players of one table who lost their chips to somebody in
\* one hand.  The update of the row gives their interval of places.
Eliminate(busted, start) ==
  /\ hand /\ ~Closed
  /\ busted # {} /\ \A p \in busted : part[p].status = "PLAYING"
  /\ AtTable \ busted # {}
  /\ AwardPrize(SplitBustedRanks(busted, start, t.active, Pool, Payouts))
  /\ t' = [t EXCEPT !.active = @ - Cardinality(busted)]
  /\ Give(t.active - Cardinality(busted) + 1)
  /\ Finish(t.active - Cardinality(busted))
  /\ asked' = asked \ busted
  /\ UNCHANGED <<share, level, hand, join, kick, chop, complete, grewLate, stale>>

\* eliminatePlayer again, for players who are out already: by a retry after the commit,
\* or by a second command of the dealer for the same hand
EliminateAgain ==
  /\ hand
  /\ \E p \in Players : part[p].status \in Finished
  /\ t.active <= 1
  /\ Finish(t.active)
  /\ UNCHANGED <<rows, level, hand, join, asked, kick, chop, complete, ghost>>

\* tournamentFinished: the winner is somebody who is live, the prize comes from the
\* totals read by the first statement of the transaction
WinnerRead(i, p) ==
  /\ winner[i].pc = "due"
  /\ p \in LiveNow
  /\ winner' = [winner EXCEPT ![i] =
                  [pc |-> "read", player |-> p, amount |-> PrizeFor(Pool, Payouts, 1)]]
  /\ UNCHANGED <<rows, level, hand, join, asked, kick, chop, complete, ghost>>

NoWinner(i) ==
  /\ winner[i].pc = "due" /\ LiveNow = {}
  /\ winner' = [winner EXCEPT ![i] = NoCall]
  /\ UNCHANGED <<rows, level, hand, join, asked, kick, chop, complete, ghost>>

\* ... and then, whatever the tournament's status is by now
FirstPrize(i) == [p \in {winner[i].player} |-> [place |-> 1, amount |-> winner[i].amount]]
WinnerAward(i) ==
  /\ winner[i].pc = "read"
  /\ AwardPrize(FirstPrize(i))
  /\ t' = [t EXCEPT !.open = FALSE]
  /\ winner' = [winner EXCEPT ![i] = NoCall]
  /\ GiveFirst(FirstPrize(i))
  /\ Stale("winner", \/ Awardable(FirstPrize(i)) = {}
                     \/ /\ ~Closed /\ LiveNow = {winner[i].player}
                        /\ winner[i].amount = PrizeFor(Pool, Payouts, 1))
  /\ UNCHANGED <<share, level, hand, join, asked, kick, chop, complete, grewLate>>

\* Mutant: only the final table is looked at
MayKickAmongPaid == ~FinalTable

\* handleDealerAction KICK, what it looks at before it has the table's lock: neither
\* at the final table nor among the paid places
MayKick == ~FinalTable /\ t.active > Len(Payouts)
KickCheck(p) ==
  /\ hand /\ ~Closed /\ kick = Nobody
  /\ part[p].status = "PLAYING"
  /\ MayKick /\ Room
  /\ kick' = p
  /\ UNCHANGED <<rows, level, hand, join, asked, winner, chop, complete, ghost>>

\* ... and its transaction under the lock: he takes no place, only the count changes
Kick ==
  /\ kick # Nobody
  /\ kick' = Nobody
  /\ IF hand /\ ~Closed /\ part[kick].status \notin Finished
     THEN /\ part' = [part EXCEPT ![kick].status = "ELIMINATED"]
          /\ t' = [t EXCEPT !.active = @ - 1]
          /\ Give(t.active)
          /\ Stale("kick", MayKick)
          /\ UNCHANGED grewLate
     ELSE UNCHANGED <<part, t, ghost>>
  /\ UNCHANGED <<points, paid, share, level, hand, join, asked, winner, chop, complete>>

-----------------------------------------------------------------------------
(* The doors *)

\* completeSession, outside its transaction: the books must balance
CompleteCheck ==
  /\ ~Closed /\ complete = NoSum
  /\ ~CompleteBlocked(t.total, PaidOut, RakeOf(t.total, Rake)) /\ Room
  /\ complete' = t.total
  /\ UNCHANGED <<rows, level, hand, join, asked, kick, winner, chop, ghost>>

Balanced == ~CompleteBlocked(complete, PaidOut, RakeOf(complete, Rake))

\* Mutant: the transaction does not look at the status again
CompleteClosed ==
  /\ complete # NoSum
  /\ complete' = NoSum
  /\ t.total = complete \/ Closed
  /\ t' = [t EXCEPT !.status = "FINISHED", !.tables = 0]
  /\ share' = share + RakeOf(complete, Rake)
  /\ Stale("complete", Balanced)
  /\ UNCHANGED <<part, points, paid, level, hand, join, asked, kick, winner, chop, given, grewLate>>

\* ... and inside: only if the sum is still the one it compared with
Complete ==
  /\ complete # NoSum
  /\ complete' = NoSum
  /\ IF ~Closed /\ t.total = complete
     THEN /\ t' = [t EXCEPT !.status = "FINISHED", !.tables = 0]
          /\ share' = share + RakeOf(complete, Rake)
          /\ Stale("complete", Balanced)
     ELSE UNCHANGED <<t, share, stale>>
  /\ UNCHANGED <<part, points, paid, level, hand, join, asked, kick, winner, chop, given, grewLate>>

Refund(amounts) ==
  /\ points' = [p \in Players |-> points[p] + amounts[p]]
  /\ paid'   = [p \in Players |-> [paid[p] EXCEPT !.refund = @ + amounts[p]]]

\* abortSession: under the lock of the row, whatever the books say
Abort ==
  /\ ~Closed /\ t.started
  /\ LET settlement == CalculateAbortSettlement(part, t.fee, t.total)
     IN  Refund(settlement.refunds) /\ share' = share + settlement.storeAmount
  /\ t' = [t EXCEPT !.status = "CANCELLED", !.total = 0, !.active = 0, !.tables = 0]
  /\ UNCHANGED <<part, level, hand, calls, ghost>>

\* cancelSession: before the start, if the entry fees add up
Cancel ==
  /\ ~Closed /\ ~t.started
  /\ Cardinality(Joined) * t.fee = t.total
  /\ Refund([p \in Players |-> IF p \in Joined THEN t.fee ELSE 0])
  /\ t' = [t EXCEPT !.status = "CANCELLED", !.total = 0, !.active = 0, !.tables = 0]
  /\ UNCHANGED <<part, share, level, hand, calls, ghost>>

\* chopSession, outside its transaction (chopBlocker)
ChopCheck ==
  /\ chop.pc = "none" /\ ~Closed
  /\ t.started /\ FinalTable /\ ~hand /\ Room
  /\ chop' = [pc |-> "checked"]
  /\ UNCHANGED <<rows, level, hand, join, asked, kick, winner, complete, ghost>>

\* ... and inside, without the lock of the tournament's row: who is live,
ChopAlive ==
  /\ chop.pc = "checked"
  /\ chop' = IF Cardinality(LiveNow) < 2 THEN NoCall
             ELSE [pc |-> "alive", alive |-> LiveNow]
  /\ UNCHANGED <<rows, level, hand, join, asked, kick, winner, complete, ghost>>

\* what is left of the pool,
ChopTotals ==
  /\ chop.pc = "alive"
  /\ chop' = [pc |-> "totals", alive |-> chop.alive, left |-> Greater(0, Pool - PaidOut)]
  /\ UNCHANGED <<rows, level, hand, join, asked, kick, winner, complete, ghost>>

\* and the prizes, by the stacks of the last checkpoint.  It ends with a call of
\* completeSession.
ChopAward(stack) ==
  LET awards == CalculateChop(chop.alive, stack, chop.left)
  IN  /\ chop.pc = "totals"
      /\ AwardPrize(awards)
      /\ chop' = NoCall
      /\ GiveFirst(awards)
      /\ Stale("chop", \/ Awardable(awards) = {}
                       \/ /\ ~Closed /\ chop.alive = LiveNow
                          /\ chop.left = Greater(0, Pool - PaidOut))
      /\ UNCHANGED <<t, share, level, hand, join, asked, kick, winner, complete, grewLate>>

\* The server restarts: every call under way is lost
Restart ==
  /\ join' = [p \in Players |-> NoSum] /\ asked' = {} /\ kick' = Nobody
  /\ winner' = NoneFinishing /\ chop' = NoCall /\ complete' = NoSum
  /\ UNCHANGED <<rows, level, hand, ghost>>

-----------------------------------------------------------------------------
Next ==
  \/ CreateTable \/ DeleteTable \/ StartSession \/ LevelUp \/ CloseRegistration
  \/ BeginHand \/ EndHand \/ Restart
  \/ \E fee \in Fees : UpdateSession(fee)
  \/ \E p \in Players :
       \/ JoinCheck(p) \/ Join(p) \/ Sit(p) \/ Release(p)
       \/ AskRebuy(p) \/ Rebuy(p) \/ KickCheck(p)
       \/ \E i \in Finishing : WinnerRead(i, p)
       \/ \E fee \in Fees : PayElsewhere(p, fee)
  \/ \E busted \in SUBSET Players : \E start \in [busted -> Stacks] : Eliminate(busted, start)
  \/ EliminateAgain \/ Kick
  \/ \E i \in Finishing : NoWinner(i) \/ WinnerAward(i)
  \/ CompleteCheck \/ Complete \/ Abort \/ Cancel
  \/ ChopCheck \/ ChopAlive \/ ChopTotals
  \/ chop.pc = "totals" /\ \E stack \in [chop.alive -> Stacks] : ChopAward(stack)

Spec == Init /\ [][Next]_vars

-----------------------------------------------------------------------------
(* Properties *)

\* A participation and the row of the tournament
Row == [status : {"NONE", "WAITING"} \union Live \union Finished,
        buyIns : Nat, prize : Nat, place : Int]

TournamentRow == [status : {"PENDING", "ONGOING", "FINISHED", "CANCELLED"},
                  started : BOOLEAN, open : BOOLEAN, fee : Fees, total : Nat,
                  active : Int, tables : Int]

\* What the database holds, and what the calls under way have read
RowsTyped ==
  /\ t \in TournamentRow
  /\ part \in [Players -> Row]
  /\ points \in [Players -> Nat]
  /\ paid \in [Players -> [buyIn : Nat, prize : Nat, refund : Nat]]

FinishingCalls == {NoCall, [pc |-> "due"]}
                    \union [pc : {"read"}, player : Players, amount : Nat]
ChopCalls      == {NoCall, [pc |-> "checked"]}
                    \union [pc : {"alive"}, alive : SUBSET Players]
                    \union [pc : {"totals"}, alive : SUBSET Players, left : Nat]

CallsTyped ==
  /\ join \in [Players -> Fees \union {NoSum}]
  /\ asked \subseteq Players
  /\ kick \in Players \union {Nobody}
  /\ winner \in [Finishing -> FinishingCalls]
  /\ chop \in ChopCalls

TypeOK == RowsTyped /\ CallsTyped

\* Whatever is retried or overlaps, a player's prizes in the transaction history are
\* the one prize on his participation row (awardPrize's where clause).
PrizeOnce == \A p \in Players : paid[p].prize = part[p].prize

\* The balance is compared outside the transaction and the player may pay into another
\* tournament in between: still nobody spends points he does not have (paymentPoint).
PointsNotNegative == \A p \in Players : points[p] >= 0

\* Until it starts a tournament can be cancelled: the entry fees to be returned add up
\* to what was collected (cancelSession refuses otherwise, and no other door is open) -
\* unless somebody has joined for a fee that updateSession had changed meanwhile
\* (joinSession reads it before its transaction).
CancelOwesAll ==
  Fresh({"fee"}) /\ ~Closed /\ ~t.started => Cardinality(Joined) * t.fee = t.total

\* Once first place is given, prizes and rake are all that was collected, so that
\* completeSession can close: unless the field grew after a place that may be paid,
\* fewer people sat down than places are paid, or a kick, a first prize or a deal was
\* written from a reading that held no more.  The code keeps none of these away: what
\* handleDealerAction, tournamentFinished and chopSession read is not locked.
SeatedEver   == {p \in Players : part[p].status \notin {"NONE", "WAITING"}}
BooksBalance ==
  Fresh({"kick", "winner", "chop"}) /\ ~Closed /\ WinnerPaid
    /\ ~grewLate /\ Cardinality(SeatedEver) >= Len(Payouts)
    => ~CompleteBlocked(t.total, PaidOut, RakeOf(t.total, Rake))

\* The rows keep the book that docs/domain/money.md describes - nothing comes in or goes
\* out behind a closed door, one door closes, and it pays out exactly what is left -
\* until a first prize, a deal or completeSession is written from a reading that holds
\* no more, or behind a door (tournamentFinished and chopSession look at no status when
\* they write).
Book == INSTANCE TournamentBook WITH
          collected <- Sum([p \in Players |-> paid[p].buyIn]),
          prizes    <- Sum([p \in Players |-> paid[p].prize]),
          returned  <- Sum([p \in Players |-> paid[p].refund]) + share,
          closed    <- Closed,
          fresh     <- Fresh({"winner", "chop", "complete"})
BookKept == Book!Spec
=============================================================================
