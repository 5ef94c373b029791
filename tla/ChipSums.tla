------------------------------ MODULE ChipSums ------------------------------
(***************************************************************************)
(* Sums of chips over the seats of a table.  The engine adds up stacks,    *)
(* contributions and pot layers with Array.reduce over the players array;  *)
(* Total is that reduction, written as a recursive function over an index  *)
(* range so that its laws can be proved for every number of seats          *)
(* (ChipSumsProofs).                                                       *)
(***************************************************************************)
EXTENDS Integers

\* f[0] + f[1] + ... + f[n - 1]
Total(f, n) ==
  LET sum[k \in 0 .. n] == IF k = 0 THEN 0 ELSE sum[k - 1] + f[k - 1]
  IN  sum[n]

Lesser(a, b)  == IF a <= b THEN a ELSE b
Greater(a, b) == IF a >= b THEN a ELSE b
=============================================================================
