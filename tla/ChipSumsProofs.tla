--------------------------- MODULE ChipSumsProofs ---------------------------
(***************************************************************************)
(* Laws of Total for every index range: it unfolds one seat at a time,     *)
(* depends on the values in its range only, stays in the type of its       *)
(* terms, adds pointwise, and follows an update of one seat.  Induction is *)
(* done on sets of naturals through the least number of their complement.  *)
(***************************************************************************)
EXTENDS ChipSums, TLAPS, NaturalsInduction, WellFoundedInduction

\* Every non-empty set of naturals has a least element.
LEMMA LeastNumber ==
  ASSUME NEW T, T \subseteq Nat, T # {}
  PROVE  \E m \in T : \A k \in T : ~ (k < m)
<1>1. PICK m \in T : \A k \in T : ~ (<<k, m>> \in OpToRel(<, Nat))
  BY WFMin, NatLessThanWellFounded
<1>2. ASSUME NEW k \in T, k < m
      PROVE  FALSE
  <2>1. <<k, m>> \in {ss \in Nat \X Nat : ss[1] < ss[2]}
    BY <1>2
  <2>2. <<k, m>> \in OpToRel(<, Nat)
    BY <2>1 DEF OpToRel
  <2>. QED
    BY <1>1, <2>2
<1>. QED
  BY <1>1, <1>2

\* Induction, for a set in place of a predicate.
LEMMA InductionOnSet ==
  ASSUME NEW T, 0 \in T, \A k \in Nat : k \in T => k + 1 \in T
  PROVE  Nat \subseteq T
<1> DEFINE Rest == {k \in Nat : k \notin T}
<1>1. SUFFICES ASSUME Rest # {}
               PROVE  FALSE
  OBVIOUS
<1>2. PICK m \in Rest : \A k \in Rest : ~ (k < m)
  BY <1>1, LeastNumber
<1>3. m \in Nat /\ m \notin T /\ m # 0
  OBVIOUS
<1>4. m - 1 \in Nat /\ m - 1 < m /\ (m - 1) + 1 = m
  BY <1>3
<1>5. m - 1 \in T
  BY <1>2, <1>4
<1>. QED
  BY <1>3, <1>4, <1>5

-----------------------------------------------------------------------------

\* The local function of Total, named.
Sums(g, f, n) ==
  g = [k \in 0 .. n |-> IF k = 0 THEN 0 ELSE g[k - 1] + f[k - 1]]

LEMMA SumsExist ==
  ASSUME NEW f
  PROVE  \A n \in Nat : \E g : Sums(g, f, n)
<1> DEFINE T == {n \in Nat : \E g : Sums(g, f, n)}
<1>1. 0 \in T
  <2>1. Sums([k \in 0 .. 0 |-> 0], f, 0)
    BY DEF Sums
  <2>. QED
    BY <2>1
<1>2. ASSUME NEW n \in Nat, n \in T
      PROVE  n + 1 \in T
  <2>1. PICK g : Sums(g, f, n)
    BY <1>2
  <2> DEFINE h == [k \in 0 .. n + 1 |-> IF k = n + 1 THEN g[n] + f[n] ELSE g[k]]
  <2>2. ASSUME NEW k \in 0 .. n + 1
        PROVE  h[k] = IF k = 0 THEN 0 ELSE h[k - 1] + f[k - 1]
    <3>1. CASE k = n + 1
      BY <3>1
    <3>2. CASE k # n + 1
      <4>1. k \in 0 .. n
        BY <3>2
      <4>2. g[k] = IF k = 0 THEN 0 ELSE g[k - 1] + f[k - 1]
        BY <2>1, <4>1 DEF Sums
      <4>. QED
        BY <4>1, <4>2
    <3>. QED
      BY <3>1, <3>2
  <2>3. h = [k \in 0 .. n + 1 |-> IF k = 0 THEN 0 ELSE h[k - 1] + f[k - 1]]
    BY <2>2
  <2>4. Sums(h, f, n + 1)
    BY <2>3 DEF Sums
  <2>. QED
    BY <2>4
<1> HIDE DEF T
<1>3. Nat \subseteq T
  BY <1>1, <1>2, InductionOnSet
<1>. QED
  BY <1>3 DEF T

\* Two such functions agree wherever both are defined.
LEMMA SumsAgree ==
  ASSUME NEW f, NEW m \in Nat, NEW n \in Nat, m <= n,
         NEW g, NEW h, Sums(g, f, m), Sums(h, f, n)
  PROVE  g[m] = h[m]
<1> DEFINE T == {k \in Nat : k <= m => g[k] = h[k]}
<1>1. 0 \in T
  BY DEF Sums
<1>2. ASSUME NEW k \in Nat, k \in T
      PROVE  k + 1 \in T
  <2>1. SUFFICES ASSUME k + 1 <= m
                 PROVE  g[k + 1] = h[k + 1]
    OBVIOUS
  <2>2. g[k] = h[k] /\ k + 1 \in 0 .. m /\ k + 1 \in 0 .. n /\ (k + 1) - 1 = k
    BY <1>2, <2>1
  <2>3. g[k + 1] = g[k] + f[k]
    BY <2>2 DEF Sums
  <2>4. h[k + 1] = h[k] + f[k]
    BY <2>2 DEF Sums
  <2>. QED
    BY <2>2, <2>3, <2>4
<1> HIDE DEF T
<1>3. Nat \subseteq T
  BY <1>1, <1>2, InductionOnSet
<1>. QED
  BY <1>3 DEF T

LEMMA TotalIsSums ==
  ASSUME NEW f, NEW n \in Nat
  PROVE  \E g : Sums(g, f, n) /\ Total(f, n) = g[n]
<1>1. PICK g : Sums(g, f, n)
  BY SumsExist
<1>. QED
  BY <1>1 DEF Total, Sums

LEMMA TotalEmpty ==
  ASSUME NEW f
  PROVE  Total(f, 0) = 0
<1>1. PICK g : Sums(g, f, 0) /\ Total(f, 0) = g[0]
  BY TotalIsSums
<1>. QED
  BY <1>1 DEF Sums

LEMMA TotalStep ==
  ASSUME NEW f, NEW n \in Nat
  PROVE  Total(f, n + 1) = Total(f, n) + f[n]
<1>1. PICK g : Sums(g, f, n) /\ Total(f, n) = g[n]
  BY TotalIsSums
<1>2. PICK h : Sums(h, f, n + 1) /\ Total(f, n + 1) = h[n + 1]
  BY TotalIsSums
<1>3. g[n] = h[n]
  BY <1>1, <1>2, SumsAgree
<1>4. h[n + 1] = h[n] + f[n]
  <2>1. n + 1 \in 0 .. n + 1 /\ (n + 1) - 1 = n
    OBVIOUS
  <2>. QED
    BY <1>2, <2>1 DEF Sums
<1>. QED
  BY <1>1, <1>2, <1>3, <1>4

-----------------------------------------------------------------------------

\* A sum of naturals is a natural.
LEMMA TotalNat ==
  ASSUME NEW n \in Nat, NEW f, \A i \in 0 .. n - 1 : f[i] \in Nat
  PROVE  Total(f, n) \in Nat
<1> DEFINE T == {k \in Nat : k <= n => Total(f, k) \in Nat}
<1>1. 0 \in T
  BY TotalEmpty
<1>2. ASSUME NEW k \in Nat, k \in T
      PROVE  k + 1 \in T
  <2>1. SUFFICES ASSUME k + 1 <= n
                 PROVE  Total(f, k + 1) \in Nat
    OBVIOUS
  <2>2. k \in 0 .. n - 1 /\ Total(f, k) \in Nat
    BY <1>2, <2>1
  <2>. QED
    BY <2>2, TotalStep
<1> HIDE DEF T
<1>3. Nat \subseteq T
  BY <1>1, <1>2, InductionOnSet
<1>. QED
  BY <1>3 DEF T

\* A sum of integers is an integer.
LEMMA TotalInt ==
  ASSUME NEW n \in Nat, NEW f, \A i \in 0 .. n - 1 : f[i] \in Int
  PROVE  Total(f, n) \in Int
<1> DEFINE T == {k \in Nat : k <= n => Total(f, k) \in Int}
<1>1. 0 \in T
  BY TotalEmpty
<1>2. ASSUME NEW k \in Nat, k \in T
      PROVE  k + 1 \in T
  <2>1. SUFFICES ASSUME k + 1 <= n
                 PROVE  Total(f, k + 1) \in Int
    OBVIOUS
  <2>2. k \in 0 .. n - 1 /\ Total(f, k) \in Int
    BY <1>2, <2>1
  <2>. QED
    BY <2>2, TotalStep
<1> HIDE DEF T
<1>3. Nat \subseteq T
  BY <1>1, <1>2, InductionOnSet
<1>. QED
  BY <1>3 DEF T

\* Only the values in the range count.
LEMMA TotalSame ==
  ASSUME NEW n \in Nat, NEW f, NEW g, \A i \in 0 .. n - 1 : f[i] = g[i]
  PROVE  Total(f, n) = Total(g, n)
<1> DEFINE T == {k \in Nat : k <= n => Total(f, k) = Total(g, k)}
<1>1. 0 \in T
  BY TotalEmpty
<1>2. ASSUME NEW k \in Nat, k \in T
      PROVE  k + 1 \in T
  <2>1. SUFFICES ASSUME k + 1 <= n
                 PROVE  Total(f, k + 1) = Total(g, k + 1)
    OBVIOUS
  <2>2. k \in 0 .. n - 1 /\ Total(f, k) = Total(g, k)
    BY <1>2, <2>1
  <2>. QED
    BY <2>2, TotalStep
<1> HIDE DEF T
<1>3. Nat \subseteq T
  BY <1>1, <1>2, InductionOnSet
<1>. QED
  BY <1>3 DEF T

\* Nothing adds up to nothing.
LEMMA TotalZero ==
  ASSUME NEW n \in Nat, NEW f, \A i \in 0 .. n - 1 : f[i] = 0
  PROVE  Total(f, n) = 0
<1> DEFINE T == {k \in Nat : k <= n => Total(f, k) = 0}
<1>1. 0 \in T
  BY TotalEmpty
<1>2. ASSUME NEW k \in Nat, k \in T
      PROVE  k + 1 \in T
  <2>1. SUFFICES ASSUME k + 1 <= n
                 PROVE  Total(f, k + 1) = 0
    OBVIOUS
  <2>2. k \in 0 .. n - 1 /\ Total(f, k) = 0
    BY <1>2, <2>1
  <2>. QED
    BY <2>2, TotalStep
<1> HIDE DEF T
<1>3. Nat \subseteq T
  BY <1>1, <1>2, InductionOnSet
<1>. QED
  BY <1>3 DEF T

\* Totals of functions that add up pointwise add up.
LEMMA TotalPlus ==
  ASSUME NEW n \in Nat, NEW f, NEW g, NEW h,
         \A i \in 0 .. n - 1 : f[i] \in Int /\ g[i] \in Int /\ h[i] = f[i] + g[i]
  PROVE  Total(h, n) = Total(f, n) + Total(g, n)
<1> DEFINE T == {k \in Nat : k <= n =>
                   /\ Total(h, k) = Total(f, k) + Total(g, k)
                   /\ Total(f, k) \in Int /\ Total(g, k) \in Int}
<1>1. 0 \in T
  BY TotalEmpty
<1>2. ASSUME NEW k \in Nat, k \in T, k + 1 <= n
      PROVE  k + 1 \in T
  <2>1. k \in 0 .. n - 1
    BY <1>2
  <2>2. /\ Total(h, k + 1) = Total(h, k) + h[k]
        /\ Total(f, k + 1) = Total(f, k) + f[k]
        /\ Total(g, k + 1) = Total(g, k) + g[k]
    BY TotalStep
  <2>3. /\ Total(h, k) = Total(f, k) + Total(g, k)
        /\ Total(f, k) \in Int /\ Total(g, k) \in Int
    BY <1>2
  <2>4. f[k] \in Int /\ g[k] \in Int /\ h[k] = f[k] + g[k]
    BY <2>1
  <2>. QED
    BY <2>2, <2>3, <2>4
<1>3. \A k \in Nat : k \in T => k + 1 \in T
  BY <1>2
<1> HIDE DEF T
<1>4. Nat \subseteq T
  BY <1>1, <1>3, InductionOnSet
<1>. QED
  BY <1>4 DEF T

\* Changing one seat by d changes the total by d.
LEMMA TotalUpdate ==
  ASSUME NEW n \in Nat, NEW f, NEW g, NEW j \in 0 .. n - 1, NEW d \in Int,
         \A i \in 0 .. n - 1 : f[i] \in Int,
         \A i \in 0 .. n - 1 : g[i] = IF i = j THEN f[i] + d ELSE f[i]
  PROVE  Total(g, n) = Total(f, n) + d
<1> DEFINE T == {k \in Nat : k <= n =>
                   /\ Total(g, k) = IF j < k THEN Total(f, k) + d ELSE Total(f, k)
                   /\ Total(f, k) \in Int}
<1>1. 0 \in T
  BY TotalEmpty
<1>2. ASSUME NEW k \in Nat, k \in T, k + 1 <= n
      PROVE  k + 1 \in T
  <2>1. k \in 0 .. n - 1
    BY <1>2
  <2>2. /\ Total(f, k + 1) = Total(f, k) + f[k]
        /\ Total(g, k + 1) = Total(g, k) + g[k]
    BY TotalStep
  <2>3. /\ Total(g, k) = IF j < k THEN Total(f, k) + d ELSE Total(f, k)
        /\ Total(f, k) \in Int
    BY <1>2
  <2>4. f[k] \in Int /\ g[k] = IF k = j THEN f[k] + d ELSE f[k]
    BY <2>1
  <2>5. Total(f, k + 1) \in Int
    BY <2>2, <2>3, <2>4
  <2>6. Total(g, k + 1) = IF j < k + 1 THEN Total(f, k + 1) + d ELSE Total(f, k + 1)
    <3>1. CASE k = j
      BY <2>2, <2>3, <2>4, <3>1
    <3>2. CASE k # j
      BY <2>2, <2>3, <2>4, <3>2
    <3>. QED
      BY <3>1, <3>2
  <2>. QED
    BY <2>5, <2>6
<1>3. \A k \in Nat : k \in T => k + 1 \in T
  BY <1>2
<1> HIDE DEF T
<1>4. Nat \subseteq T
  BY <1>1, <1>3, InductionOnSet
<1>. QED
  BY <1>4 DEF T

\* One summand is at most the sum, when none is negative.
LEMMA TotalMember ==
  ASSUME NEW n \in Nat, NEW f, \A i \in 0 .. n - 1 : f[i] \in Nat, NEW j \in 0 .. n - 1
  PROVE  f[j] <= Total(f, n)
<1> DEFINE T == {k \in Nat : k <= n => /\ Total(f, k) \in Nat
                                       /\ j < k => f[j] <= Total(f, k)}
<1>1. 0 \in T
  BY TotalEmpty
<1>2. ASSUME NEW k \in Nat, k \in T, k + 1 <= n
      PROVE  k + 1 \in T
  <2>1. k \in 0 .. n - 1
    BY <1>2
  <2>2. Total(f, k + 1) = Total(f, k) + f[k]
    BY TotalStep
  <2>3. Total(f, k) \in Nat /\ (j < k => f[j] <= Total(f, k))
    BY <1>2
  <2>4. f[k] \in Nat /\ f[j] \in Nat
    BY <2>1
  <2>. QED
    BY <2>2, <2>3, <2>4
<1>3. \A k \in Nat : k \in T => k + 1 \in T
  BY <1>2
<1> HIDE DEF T
<1>4. Nat \subseteq T
  BY <1>1, <1>3, InductionOnSet
<1>. QED
  BY <1>4 DEF T

\* Dividing chips among at least one player.
LEMMA Division ==
  ASSUME NEW a \in Nat, NEW b \in Nat, b > 0
  PROVE  a \div b \in Nat /\ a % b \in 0 .. b - 1 /\ a = b * (a \div b) + (a % b)
OBVIOUS

\* rows are the sums of the rows of f, columns those of its columns
Crossed(f, column, rows, columns, n) ==
  /\ \A i, k \in 0 .. n - 1 : f[i][k] \in Int
  /\ \A i, k \in 0 .. n - 1 : column[k][i] = f[i][k]
  /\ \A i \in 0 .. n - 1 : rows[i] = Total(f[i], n)
  /\ \A k \in 0 .. n - 1 : columns[k] = Total(column[k], n)

\* A sum over two indices does not depend on which of them is added up first.
LEMMA TotalSwap ==
  ASSUME NEW n \in Nat, NEW f, NEW column, NEW rows, NEW columns,
         Crossed(f, column, rows, columns, n)
  PROVE  Total(rows, n) = Total(columns, n)
<1> USE DEF Crossed
<1> DEFINE below(m) == [k \in 0 .. n - 1 |-> Total(column[k], m)]
           T == {m \in Nat : m <= n => Total(rows, m) = Total(below(m), n)}
<1>1. 0 \in T
  <2>1. \A k \in 0 .. n - 1 : below(0)[k] = 0
    BY TotalEmpty
  <2> HIDE DEF below
  <2>2. Total(below(0), n) = 0
    BY <2>1, TotalZero
  <2> QED
    BY <2>2, TotalEmpty
<1>2. ASSUME NEW m \in Nat, m \in T, m + 1 <= n
      PROVE  m + 1 \in T
  <2>1. m \in 0 .. n - 1
    BY <1>2
  <2>2. Total(rows, m + 1) = Total(rows, m) + Total(f[m], n)
    BY <2>1, TotalStep
  <2>3. \A k \in 0 .. n - 1 :
          f[m][k] \in Int /\ below(m)[k] \in Int /\ below(m + 1)[k] = below(m)[k] + f[m][k]
    <3>1. SUFFICES ASSUME NEW k \in 0 .. n - 1
                   PROVE  /\ Total(column[k], m) \in Int
                          /\ Total(column[k], m + 1) = Total(column[k], m) + f[m][k]
      BY <2>1
    <3>2. \A i \in 0 .. m - 1 : column[k][i] \in Int
      BY <2>1
    <3> QED
      BY <2>1, <3>2, TotalStep, TotalInt
  <2> HIDE DEF below
  <2>4. Total(below(m + 1), n) = Total(below(m), n) + Total(f[m], n)
    BY <2>3, TotalPlus
  <2> QED
    BY <1>2, <2>2, <2>4
<1>3. n \in T
  <2> HIDE DEF T
  <2>1. \A m \in Nat : m \in T => m + 1 \in T
    <3>1. \A m \in Nat : ~ (m + 1 <= n) => m + 1 \in T
      BY DEF T
    <3> QED
      BY <1>2, <3>1
  <2> QED
    BY <1>1, <2>1, InductionOnSet
<1>4. \A k \in 0 .. n - 1 : below(n)[k] = columns[k]
  OBVIOUS
<1> HIDE DEF below
<1>5. Total(below(n), n) = Total(columns, n)
  BY <1>4, TotalSame
<1> QED
  BY <1>3, <1>5

\* Smaller terms have a smaller sum.
LEMMA TotalAtMost ==
  ASSUME NEW n \in Nat, NEW f, NEW g,
         \A i \in 0 .. n - 1 : f[i] \in Int /\ g[i] \in Int /\ f[i] <= g[i]
  PROVE  Total(f, n) <= Total(g, n)
<1> DEFINE rest == [i \in 0 .. n - 1 |-> g[i] - f[i]]
<1>1. \A i \in 0 .. n - 1 : /\ rest[i] \in Nat /\ rest[i] \in Int
                            /\ f[i] \in Int /\ g[i] = f[i] + rest[i]
  OBVIOUS
<1> HIDE DEF rest
<1>2. Total(g, n) = Total(f, n) + Total(rest, n)
  BY <1>1, TotalPlus
<1> QED
  BY <1>1, <1>2, TotalNat, TotalInt
=============================================================================
