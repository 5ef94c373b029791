------------------------- MODULE MCTournamentLedger -------------------------
(* Instances of TournamentLedger for TLC: the first place alone is paid up *)
(* to two entries, two places from the third on.  At the lower fee one     *)
(* player can pay twice, at the higher one the others cannot pay at all.   *)
EXTENDS TournamentLedger, TLC

MCPayoutTable == << [minEntries |-> 0, payouts |-> <<100>>],
                    [minEntries |-> 3, payouts |-> <<70, 30>>] >>

WinnerTakesAll == << [minEntries |-> 0, payouts |-> <<100>>] >>

MCStartPoints == [p \in Players |-> IF p = 0 THEN 8 ELSE 4]

Symmetry == Permutations(Finishing)

=============================================================================
