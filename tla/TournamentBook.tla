--------------------------- MODULE TournamentBook ---------------------------
(***************************************************************************)
(* What docs/domain/money.md promises of a tournament's money, whichever   *)
(* of its four doors closes it: money comes in and prizes go out only      *)
(* while it is open, one door closes it, and that door pays out, as        *)
(* refunds and as the store's share, exactly what is left.                 *)
(*                                                                         *)
(* It promises this without a condition.  What keeps it is the code that   *)
(* compares before it pays, so here it is promised as long as nobody has   *)
(* paid from a comparison that was out of date.                            *)
(***************************************************************************)
EXTENDS Integers

VARIABLES
  collected,   \* entry fees and rebuys
  prizes,      \* prizes paid
  returned,    \* refunds and the store's share
  closed,
  fresh        \* nobody has paid from an outdated reading

book == <<collected, prizes, returned, closed, fresh>>

\* What is left; prizes are never taken back
Left == IF prizes <= collected THEN collected - prizes ELSE 0

Init == collected = 0 /\ prizes = 0 /\ returned = 0 /\ closed = FALSE /\ fresh = TRUE

Collect ==
  /\ ~closed
  /\ collected' > collected
  /\ UNCHANGED <<prizes, returned, closed, fresh>>

Award ==
  /\ ~closed
  /\ prizes' > prizes
  /\ UNCHANGED <<collected, returned, closed, fresh>>

Close ==
  /\ ~closed
  /\ returned' = Left
  /\ closed' = TRUE
  /\ UNCHANGED <<collected, prizes, fresh>>

\* From here on nothing is promised
Spoilt == ~fresh'

Next == \/ fresh /\ (Collect \/ Award \/ Close)
        \/ Spoilt

Spec == Init /\ [][Next]_book
=============================================================================
