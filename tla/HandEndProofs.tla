--------------------------- MODULE HandEndProofs ---------------------------
(***************************************************************************)
(* Proofs about HandEnd, for every set of players, every number of points, *)
(* attempts and faults.                                                    *)
(*                                                                         *)
(* Any number of dealer commands.  Until a retry of the dealer is let in    *)
(* beside a command that no flag covers, the two flags and the phase leave *)
(* one command at a time under way: what it leaves between its awaits, who *)
(* is still to be asked and what the chips add up to rest on that.         *)
(***************************************************************************)
EXTENDS HandEnd, TLAPS, FiniteSetTheorems

-----------------------------------------------------------------------------
(* Sums over finite sets.                                                  *)

\* Induction over the subsets of a finite set, for a set in place of a predicate.
LEMMA SubsetInduction ==
  ASSUME NEW S, IsFiniteSet(S), NEW W,
         \A T \in SUBSET S : (\A U \in SUBSET T : U # T => U \in W) => T \in W
  PROVE  SUBSET S \subseteq W
<1> DEFINE Rest == {T \in SUBSET S : T \notin W}
<1>1. SUFFICES ASSUME Rest # {}
               PROVE  FALSE
  OBVIOUS
<1>2. IsWellFoundedOn(StrictSubsetOrdering(S), SUBSET S)
  BY FS_StrictSubsetOrderingWellFounded, FS_FiniteSubsetsOfFinite
<1>0. Rest \subseteq SUBSET S /\ Rest # {}
  BY <1>1
<1> HIDE DEF Rest
<1>3. PICK T \in Rest : \A U \in Rest : ~ (<<U, T>> \in StrictSubsetOrdering(S))
  BY <1>0, <1>2, WFMin
<1> USE DEF Rest
<1>4. ASSUME NEW U \in SUBSET T, U # T
      PROVE  U \in W
  <2>1. U \in SUBSET S /\ T \in SUBSET S
    BY <1>4
  <2>2. <<U, T>> \in StrictSubsetOrdering(S)
    BY <2>1, <1>4 DEF StrictSubsetOrdering
  <2> QED
    BY <1>3, <2>1, <2>2
<1> QED
  BY <1>3, <1>4

\* what the fold takes next
One(s) == CHOOSE x \in s : TRUE

\* The local function of MapThenSumSet over S, named.
Folds(g, f, S) ==
  g = [s \in SUBSET S |-> IF s = {} THEN 0 ELSE f[One(s)] + g[s \ {One(s)}]]

SumOver(f, S) == MapThenSumSet(LAMBDA p : f[p], S)

\* The element that is taken is one of the set.
LEMMA OneIn == ASSUME NEW s, s # {} PROVE One(s) \in s
BY DEF One

\* Two such functions agree wherever both are defined.
LEMMA FoldsAgree ==
  ASSUME NEW f, NEW S, NEW T, IsFiniteSet(S), S \subseteq T,
         NEW g, NEW h, Folds(g, f, S), Folds(h, f, T)
  PROVE  \A u \in SUBSET S : g[u] = h[u]
<1> DEFINE W == {u \in SUBSET S : g[u] = h[u]}
<1>1. ASSUME NEW u \in SUBSET S, \A v \in SUBSET u : v # u => v \in W
      PROVE  u \in W
  <2>1. CASE u = {}
    BY <2>1 DEF Folds
  <2>2. CASE u # {}
    <3>1. One(u) \in u
      BY <2>2, OneIn
    <3>2. g[u \ {One(u)}] = h[u \ {One(u)}]
      BY <1>1, <3>1
    <3>3. g[u] = f[One(u)] + g[u \ {One(u)}]
      BY <2>2 DEF Folds
    <3>4. h[u] = f[One(u)] + h[u \ {One(u)}]
      <4>1. u \in SUBSET T
        OBVIOUS
      <4> QED
        BY <2>2, <4>1 DEF Folds
    <3> QED
      BY <3>2, <3>3, <3>4
  <2> QED
    BY <2>1, <2>2
<1> HIDE DEF W
<1>2. SUBSET S \subseteq W
  BY <1>1, SubsetInduction
<1> QED
  BY <1>2 DEF W

\* There is such a function for every finite set.
LEMMA FoldsExist ==
  ASSUME NEW f, NEW S, IsFiniteSet(S)
  PROVE  \E g : Folds(g, f, S)
<1> DEFINE W == {T \in SUBSET S : \E g : Folds(g, f, T)}
<1>1. ASSUME NEW T \in SUBSET S, \A U \in SUBSET T : U # T => U \in W
      PROVE  T \in W
  <2> DEFINE at(s) == IF s = {} THEN 0
                      ELSE f[One(s)] + (CHOOSE g : Folds(g, f, s \ {One(s)}))[s \ {One(s)}]
             h == [s \in SUBSET T |-> at(s)]
  <2>1. ASSUME NEW s \in SUBSET T, s # {}
        PROVE  h[s] = f[One(s)] + h[s \ {One(s)}]
    <3> DEFINE v == s \ {One(s)}
               G == CHOOSE g : Folds(g, f, v)
    <3>1. One(s) \in s /\ v \in SUBSET T /\ v # T
      BY <2>1, OneIn
    <3>2. Folds(G, f, v)
      BY <1>1, <3>1
    <3>3. h[s] = f[One(s)] + G[v]
      BY <2>1
    <3>4. h[v] = G[v]
      <4>1. CASE v = {}
        <5>1. G[v] = 0
          BY <3>2, <4>1 DEF Folds
        <5>2. h[v] = 0
          BY <3>1, <4>1
        <5> QED
          BY <5>1, <5>2
      <4>2. CASE v # {}
        <5> DEFINE w == v \ {One(v)}
                   H == CHOOSE g : Folds(g, f, w)
        <5>1. One(v) \in v /\ w \in SUBSET T /\ w # T /\ w \subseteq v
          BY <3>1, <4>2, OneIn
        <5>2. Folds(H, f, w)
          BY <1>1, <5>1
        <5>3. h[v] = f[One(v)] + H[w]
          BY <3>1, <4>2
        <5>4. G[v] = f[One(v)] + G[w]
          BY <3>2, <4>2 DEF Folds
        <5>5. IsFiniteSet(w)
          BY <5>1, FS_Subset
        <5> HIDE DEF w, H, G
        <5>6. H[w] = G[w]
          BY <5>1, <5>2, <5>5, <3>2, FoldsAgree
        <5> QED
          BY <5>3, <5>4, <5>6
      <4> QED
        BY <4>1, <4>2
    <3> QED
      BY <3>3, <3>4
  <2>2. T # {} \/ T = {}
    OBVIOUS
  <2>3. h[{}] = 0
    OBVIOUS
  <2>4. h = [s \in SUBSET T |-> h[s]]
    OBVIOUS
  <2> HIDE DEF h
  <2>5. h = [s \in SUBSET T |-> IF s = {} THEN 0 ELSE f[One(s)] + h[s \ {One(s)}]]
    BY <2>1, <2>3, <2>4
  <2> QED
    BY <2>5 DEF Folds
<1> HIDE DEF W
<1>2. SUBSET S \subseteq W
  BY <1>1, SubsetInduction
<1>3. S \in W
  BY <1>2
<1> QED
  BY <1>3 DEF W

\* The sum is the value of such a function.
LEMMA SumIsFold ==
  ASSUME NEW f, NEW S, IsFiniteSet(S)
  PROVE  \E g : Folds(g, f, S) /\ SumOver(f, S) = g[S]
<1> DEFINE P(g) == g = [s \in SUBSET S |->
                          IF s = {} THEN 0
                          ELSE f[CHOOSE x \in s : TRUE] + g[s \ {CHOOSE x \in s : TRUE}]]
<1>1. SumOver(f, S) = (CHOOSE g : P(g))[S]
  BY DEF SumOver, MapThenSumSet, MapThenFoldSet
<1>2. \E g : P(g)
  <2>1. PICK g : Folds(g, f, S)
    BY FoldsExist
  <2>2. P(g)
    BY <2>1 DEF Folds, One
  <2> QED
    BY <2>2
<1>3. P(CHOOSE g : P(g))
  BY <1>2
<1> QED
  BY <1>1, <1>3 DEF Folds, One

\* The sum over nothing is 0.
LEMMA SumNothing == ASSUME NEW f PROVE SumOver(f, {}) = 0
<1>1. PICK g : Folds(g, f, {}) /\ SumOver(f, {}) = g[{}]
  BY SumIsFold, FS_EmptySet
<1> QED
  BY <1>1 DEF Folds

\* A sum takes up one element and goes on with the rest.
LEMMA SumNext ==
  ASSUME NEW f, NEW S, IsFiniteSet(S), S # {}
  PROVE  SumOver(f, S) = f[One(S)] + SumOver(f, S \ {One(S)})
<1> DEFINE v == S \ {One(S)}
<1>1. IsFiniteSet(v) /\ v \subseteq S
  BY FS_Subset
<1>2. PICK g : Folds(g, f, S) /\ SumOver(f, S) = g[S]
  BY SumIsFold
<1>3. PICK h : Folds(h, f, v) /\ SumOver(f, v) = h[v]
  BY SumIsFold, <1>1
<1>4. g[S] = f[One(S)] + g[v]
  BY <1>2 DEF Folds
<1> HIDE DEF v
<1>5. h[v] = g[v]
  <2>1. \A u \in SUBSET v : h[u] = g[u]
    BY <1>1, <1>2, <1>3, FoldsAgree
  <2> QED
    BY <2>1
<1> QED
  BY <1>2, <1>3, <1>4, <1>5 DEF v

\* A sum of integers is an integer, one of naturals a natural.
LEMMA SumTyped ==
  ASSUME NEW f, NEW S, IsFiniteSet(S), NEW D, D \in {Int, Nat}, \A p \in S : f[p] \in D
  PROVE  SumOver(f, S) \in D
<1> DEFINE W == {T \in SUBSET S : SumOver(f, T) \in D}
<1>1. ASSUME NEW T \in SUBSET S, \A U \in SUBSET T : U # T => U \in W
      PROVE  T \in W
  <2>1. CASE T = {}
    BY <2>1, SumNothing
  <2>2. CASE T # {}
    <3>1. One(T) \in T /\ IsFiniteSet(T)
      BY <2>2, OneIn, FS_Subset
    <3>2. SumOver(f, T \ {One(T)}) \in D /\ f[One(T)] \in D
      BY <1>1, <3>1
    <3>3. SumOver(f, T) = f[One(T)] + SumOver(f, T \ {One(T)})
      BY <2>2, <3>1, SumNext
    <3> QED
      BY <3>2, <3>3
  <2> QED
    BY <2>1, <2>2
<1> HIDE DEF W
<1>2. SUBSET S \subseteq W
  BY <1>1, SubsetInduction
<1> QED
  BY <1>2 DEF W

\* Whichever is taken first.
LEMMA SumTakes ==
  ASSUME NEW f, NEW S, IsFiniteSet(S), \A p \in S : f[p] \in Int, NEW x \in S
  PROVE  SumOver(f, S) = f[x] + SumOver(f, S \ {x})
<1> DEFINE W == {T \in SUBSET S : \A y \in T : SumOver(f, T) = f[y] + SumOver(f, T \ {y})}
<1>1. ASSUME NEW T \in SUBSET S, \A U \in SUBSET T : U # T => U \in W
      PROVE  T \in W
  <2>1. ASSUME NEW y \in T
        PROVE  SumOver(f, T) = f[y] + SumOver(f, T \ {y})
    <3> DEFINE c == One(T)
               Both == T \ {c, y}
    <3>1. c \in T /\ IsFiniteSet(T)
      BY OneIn, FS_Subset
    <3>2. SumOver(f, T) = f[c] + SumOver(f, T \ {c})
      BY SumNext, <3>1
    <3>3. CASE y = c
      BY <3>2, <3>3
    <3>4. CASE y # c
      <4> HIDE DEF c
      <4>1. T \ {c} \in W /\ T \ {y} \in W
        BY <1>1, <3>1
      <4>2. SumOver(f, T \ {c}) = f[y] + SumOver(f, (T \ {c}) \ {y})
        BY <4>1, <3>4
      <4>3. SumOver(f, T \ {y}) = f[c] + SumOver(f, (T \ {y}) \ {c})
        BY <4>1, <3>4, <3>1
      <4>4. (T \ {c}) \ {y} = Both /\ (T \ {y}) \ {c} = Both
        OBVIOUS
      <4>5. SumOver(f, Both) \in Int /\ f[c] \in Int /\ f[y] \in Int
        <5>1. IsFiniteSet(Both) /\ \A p \in Both : f[p] \in Int
          BY FS_Subset
        <5>2. SumOver(f, Both) \in Int
          BY <5>1, SumTyped
        <5> QED
          BY <5>2, <3>1
      <4> HIDE DEF Both
      <4> QED
        BY <3>2, <4>2, <4>3, <4>4, <4>5
    <3> QED
      BY <3>3, <3>4
  <2> QED
    BY <2>1
<1> HIDE DEF W
<1>2. SUBSET S \subseteq W
  BY <1>1, SubsetInduction
<1> QED
  BY <1>2 DEF W

\* Sums of functions that add up pointwise add up.
LEMMA SumPlus ==
  ASSUME NEW S, IsFiniteSet(S), NEW f, NEW g, NEW h,
         \A p \in S : f[p] \in Int /\ g[p] \in Int /\ h[p] = f[p] + g[p]
  PROVE  SumOver(h, S) = SumOver(f, S) + SumOver(g, S)
<1> DEFINE W == {T \in SUBSET S : SumOver(h, T) = SumOver(f, T) + SumOver(g, T)}
<1>1. ASSUME NEW T \in SUBSET S, \A U \in SUBSET T : U # T => U \in W
      PROVE  T \in W
  <2>1. CASE T = {}
    BY <2>1, SumNothing
  <2>2. CASE T # {}
    <3> DEFINE x == One(T)
               v == T \ {x}
    <3>1. x \in T /\ IsFiniteSet(T) /\ IsFiniteSet(v)
      BY <2>2, OneIn, FS_Subset
    <3>2. SumOver(h, v) = SumOver(f, v) + SumOver(g, v)
      BY <1>1, <3>1
    <3>3. /\ SumOver(h, T) = h[x] + SumOver(h, v)
          /\ SumOver(f, T) = f[x] + SumOver(f, v)
          /\ SumOver(g, T) = g[x] + SumOver(g, v)
      BY <2>2, <3>1, SumNext
    <3>4. SumOver(f, v) \in Int /\ SumOver(g, v) \in Int
      BY <3>1, SumTyped
    <3>5. f[x] \in Int /\ g[x] \in Int /\ h[x] = f[x] + g[x]
      BY <3>1
    <3> HIDE DEF x, v
    <3>6. SumOver(h, T) = SumOver(f, T) + SumOver(g, T)
      BY <3>2, <3>3, <3>4, <3>5
    <3> QED
      BY <3>6
  <2> QED
    BY <2>1, <2>2
<1> HIDE DEF W
<1>2. SUBSET S \subseteq W
  BY <1>1, SubsetInduction
<1> QED
  BY <1>2 DEF W

\* Nothing adds up to nothing.
LEMMA SumZero ==
  ASSUME NEW f, NEW S, IsFiniteSet(S), \A p \in S : f[p] = 0
  PROVE  SumOver(f, S) = 0
<1> DEFINE W == {T \in SUBSET S : SumOver(f, T) = 0}
<1>1. ASSUME NEW T \in SUBSET S, \A U \in SUBSET T : U # T => U \in W
      PROVE  T \in W
  <2>1. CASE T = {}
    BY <2>1, SumNothing
  <2>2. CASE T # {}
    <3>1. One(T) \in T /\ IsFiniteSet(T)
      BY <2>2, OneIn, FS_Subset
    <3>2. SumOver(f, T \ {One(T)}) = 0 /\ f[One(T)] = 0
      BY <1>1, <3>1
    <3> QED
      BY <2>2, <3>1, <3>2, SumNext
  <2> QED
    BY <2>1, <2>2
<1> HIDE DEF W
<1>2. SUBSET S \subseteq W
  BY <1>1, SubsetInduction
<1> QED
  BY <1>2 DEF W

\* Only the values on the set count.
LEMMA SumSame ==
  ASSUME NEW S, IsFiniteSet(S), NEW f, NEW g, \A p \in S : g[p] = f[p] /\ f[p] \in Int
  PROVE  SumOver(g, S) = SumOver(f, S)
<1> DEFINE z == [p \in S |-> 0]
<1>1. \A p \in S : f[p] \in Int /\ z[p] \in Int /\ g[p] = f[p] + z[p]
  OBVIOUS
<1>2. SumOver(z, S) = 0
  BY SumZero
<1>3. SumOver(f, S) \in Int
  BY SumTyped
<1> HIDE DEF z
<1>4. SumOver(g, S) = SumOver(f, S) + SumOver(z, S)
  BY <1>1, SumPlus
<1> QED
  BY <1>2, <1>3, <1>4

\* Changing one value by d changes the sum by d.
LEMMA SumChange ==
  ASSUME NEW S, IsFiniteSet(S), NEW x \in S, NEW d \in Int, NEW f, NEW g,
         \A p \in S : f[p] \in Int /\ g[p] = IF p = x THEN f[p] + d ELSE f[p]
  PROVE  SumOver(g, S) = SumOver(f, S) + d
<1> DEFINE v == S \ {x}
<1>1. IsFiniteSet(v) /\ v \subseteq S
  BY FS_Subset
<1>2. \A p \in S : g[p] \in Int
  OBVIOUS
<1>3. SumOver(f, S) = f[x] + SumOver(f, v)
  BY SumTakes
<1>4. SumOver(g, S) = g[x] + SumOver(g, v)
  BY <1>2, SumTakes
<1>5. SumOver(g, v) = SumOver(f, v)
  BY <1>1, SumSame
<1>6. SumOver(f, v) \in Int
  BY <1>1, SumTyped
<1> QED
  BY <1>3, <1>4, <1>5, <1>6

\* A sum over part of a set is the sum over the set of what is in that part.
LEMMA SumPart ==
  ASSUME NEW S, IsFiniteSet(S), NEW T \in SUBSET S, NEW f, NEW g,
         \A p \in S : f[p] \in Int /\ g[p] = IF p \in T THEN f[p] ELSE 0
  PROVE  SumOver(g, S) = SumOver(f, T)
<1> DEFINE W == {U \in SUBSET S : SumOver(g, U) = SumOver(f, U \intersect T)}
<1>1. ASSUME NEW U \in SUBSET S, \A V \in SUBSET U : V # U => V \in W
      PROVE  U \in W
  <2>1. CASE U = {}
    BY <2>1, SumNothing
  <2>2. CASE U # {}
    <3> DEFINE x == One(U)
               v == U \ {x}
    <3>1. x \in U /\ IsFiniteSet(U) /\ IsFiniteSet(U \intersect T)
      BY <2>2, OneIn, FS_Subset
    <3>2. SumOver(g, v) = SumOver(f, v \intersect T)
      BY <1>1, <3>1
    <3>3. SumOver(g, U) = g[x] + SumOver(g, v)
      BY <2>2, <3>1, SumNext
    <3>4. SumOver(g, v) \in Int
      <4>1. IsFiniteSet(v) /\ \A p \in v : g[p] \in Int
        BY <3>1, FS_Subset
      <4> QED
        BY <4>1, SumTyped
    <3>5. CASE x \in T
      <4>1. SumOver(f, U \intersect T) = f[x] + SumOver(f, (U \intersect T) \ {x})
        BY <3>1, <3>5, SumTakes
      <4>2. (U \intersect T) \ {x} = v \intersect T
        OBVIOUS
      <4>3. g[x] = f[x]
        BY <3>1, <3>5
      <4> QED
        BY <3>2, <3>3, <4>1, <4>2, <4>3
    <3>6. CASE x \notin T
      <4>1. U \intersect T = v \intersect T /\ g[x] = 0
        BY <3>1, <3>6
      <4> HIDE DEF x, v
      <4>2. SumOver(g, U) = SumOver(g, v)
        BY <3>3, <3>4, <4>1
      <4> QED
        BY <3>2, <4>1, <4>2
    <3> QED
      BY <3>5, <3>6
  <2> QED
    BY <2>1, <2>2
<1> HIDE DEF W
<1>2. SUBSET S \subseteq W
  BY <1>1, SubsetInduction
<1>3. S \intersect T = T /\ S \in W
  BY <1>2
<1> QED
  BY <1>3 DEF W
-----------------------------------------------------------------------------
(* What the variables hold.                                                *)

Snapshot == [phase : {"WAITING", "BETTING", "SHOWDOWN", "HAND_END"}, seated : SUBSET Players,
             inHand : SUBSET Players, stack : [Players -> Nat], pot : Nat, resume : BOOLEAN]
Database == [stack : [Players -> Nat], points : [Players -> Nat],
             buyIns : [Players -> Nat], active : Nat, open : BOOLEAN,
             status : [Players -> {"PLAYING", "ELIMINATED", "AWARDED"}]]
Link     == [phase : {"up", "down", "recovering"}, gen : 0 .. MaxFaults]
Pcs      == Busy \union {"idle"}
Command  == [pc : Pcs, asked : SUBSET Players, open : BOOLEAN, gen : 0 .. MaxFaults,
             tries : 0 .. MaxTries, stack : [Players -> Nat], seated : SUBSET Players]
Flags    == [rebuy : BOOLEAN, checkpoint : BOOLEAN, waiter : Cmds \union {NoCmd}]
Gifts    == [table : Int, db : Int]

\* every outage of a process is a fault of its own
GensFit == link.gen <= faults

Remaining == {p \in Players : db.status[p] # "ELIMINATED"}

\* The types, with what they need: a generation per fault, and the counter of
\* active players that eliminatePlayer subtracts from.
Shape == TypeOK /\ GensFit /\ ActiveCounted

\* The types of the state, variable by variable.
LEMMA ShapeParts ==
  Shape <=> /\ snap \in Snapshot /\ kicked \subseteq Players /\ db \in Database
            /\ link \in Link /\ cmd \in [Cmds -> Command] /\ ask \in [Cmds -> [Players -> Dialogue]]
            /\ memory \in Flags /\ faults \in 0 .. MaxFaults /\ gifts \in Gifts
            /\ answered \subseteq Players /\ overlapped \in BOOLEAN /\ GensFit /\ ActiveCounted
BY DEF Shape, TypeOK, Snapshot, Database, Link, Pcs, Command, Flags, Gifts

\* What is assumed of the constants, where the provers need it.
LEMMA Bounds ==
  /\ Points \in Nat /\ MaxFaults \in Nat /\ MaxTries \in Nat /\ MaxTries # 0
  /\ IsFiniteSet(Players) /\ IsFiniteSet(Cmds) /\ NoCmd \notin Cmds
BY PlayersAssumption, CmdsAssumption, BoundsAssumption

-----------------------------------------------------------------------------
(* The snapshots the actions make.                                         *)

\* A record of the fields of a snapshot is one.
LEMMA SnapshotMade ==
  ASSUME NEW phase \in {"WAITING", "BETTING", "SHOWDOWN", "HAND_END"}, NEW seated \in SUBSET Players,
         NEW inHand \in SUBSET Players, NEW st \in [Players -> Nat], NEW pot \in Nat,
         NEW resume \in BOOLEAN
  PROVE  [phase |-> phase, seated |-> seated, inHand |-> inHand, resume |-> resume,
          pot |-> pot, stack |-> st] \in Snapshot
BY DEF Snapshot

\* The betting ends, and nothing else changes.
LEMMA PhaseSnapshot ==
  ASSUME NEW s \in Snapshot, NEW q, q = [s EXCEPT !.phase = "SHOWDOWN"]
  PROVE  /\ q \in Snapshot /\ q.phase = "SHOWDOWN" /\ q.inHand = s.inHand /\ q.pot = s.pot
         /\ q.seated = s.seated /\ q.resume = s.resume /\ q.stack = s.stack
BY DEF Snapshot

\* A table is stopped or goes on, and nothing else changes.
LEMMA ResumeSnapshot ==
  ASSUME NEW s \in Snapshot, NEW q, NEW b \in BOOLEAN, q = [s EXCEPT !.resume = b]
  PROVE  /\ q \in Snapshot /\ q.phase = s.phase /\ q.inHand = s.inHand /\ q.pot = s.pot
         /\ q.seated = s.seated /\ q.resume = b /\ q.stack = s.stack
BY DEF Snapshot

\* What the fields of a snapshot hold.
LEMMA SnapshotFields ==
  ASSUME NEW s \in Snapshot
  PROVE  /\ s.phase \in {"WAITING", "BETTING", "SHOWDOWN", "HAND_END"}
         /\ s.seated \subseteq Players /\ s.inHand \subseteq Players
         /\ s.stack \in [Players -> Nat] /\ (\A p \in Players : s.stack[p] \in Nat)
         /\ s.pot \in Nat /\ s.resume \in BOOLEAN
         /\ \A p : p \in Broke(s) <=> p \in s.seated /\ s.stack[p] = 0
BY DEF Snapshot, Broke

-----------------------------------------------------------------------------
(* The commands the actions make.                                          *)

\* What the fields of a command hold.
LEMMA CommandFields ==
  ASSUME NEW r \in Command
  PROVE  /\ r.pc \in Pcs /\ r.asked \subseteq Players /\ r.open \in BOOLEAN
         /\ r.gen \in 0 .. MaxFaults /\ r.tries \in 0 .. MaxTries
         /\ r.stack \in [Players -> Nat] /\ r.seated \subseteq Players
BY DEF Command

\* The command that has not begun is one.
LEMMA IdleCommand == IdleCmd \in Command /\ IdleCmd.pc = "idle"
BY Bounds DEF IdleCmd, Command, Pcs

\* A record of the fields of a command is one.
LEMMA CommandMade ==
  ASSUME NEW pc \in Pcs, NEW A \in SUBSET Players, NEW b \in BOOLEAN, NEW t \in 0 .. MaxTries,
         NEW none \in [Players -> Nat]
  PROVE  [pc |-> pc, asked |-> A, open |-> b, gen |-> 0, tries |-> t,
          stack |-> none, seated |-> {}] \in Command
BY Bounds DEF Command

\* A command that keeps nothing of its own but its place.
LEMMA MovedCommand ==
  ASSUME NEW pc \in Pcs
  PROVE  LET q == [IdleCmd EXCEPT !.pc = pc]
         IN  q \in Command /\ q.pc = pc /\ q.asked = {} /\ q.open = FALSE
<1> DEFINE none == [p \in Players |-> 0]
           r == [pc |-> pc, asked |-> {}, open |-> FALSE, gen |-> 0, tries |-> 0,
                 stack |-> none, seated |-> {}]
<1>0. ASSUME NEW q, q = [IdleCmd EXCEPT !.pc = pc]
      PROVE  q = r
  BY <1>0 DEF IdleCmd
<1>1. [IdleCmd EXCEPT !.pc = pc] = r
  BY <1>0
<1>2. none \in [Players -> Nat] /\ 0 \in 0 .. MaxTries
  BY Bounds
<1> HIDE DEF none
<1>3. r \in Command
  BY <1>2, CommandMade
<1> QED
  BY <1>1, <1>3

\* A command that moves on with all it has.
LEMMA StageCommand ==
  ASSUME NEW r \in Command, NEW q, NEW pc \in Pcs, q = [r EXCEPT !.pc = pc]
  PROVE  q \in Command /\ q.pc = pc /\ q.asked = r.asked /\ q.open = r.open
         /\ q.stack = r.stack /\ q.seated = r.seated
BY DEF Command

\* A command that has settled the pot.
LEMMA SettledCommand ==
  ASSUME NEW A \in SUBSET Players, NEW b \in BOOLEAN
  PROVE  LET q == [IdleCmd EXCEPT !.pc = "settled", !.open = b, !.asked = A]
         IN  q \in Command /\ q.pc = "settled" /\ q.asked = A /\ q.open = b
<1> DEFINE none == [p \in Players |-> 0]
           r == [pc |-> "settled", asked |-> A, open |-> b, gen |-> 0, tries |-> 0,
                 stack |-> none, seated |-> {}]
<1>0. ASSUME NEW q, q = [IdleCmd EXCEPT !.pc = "settled", !.open = b, !.asked = A]
      PROVE  q = r
  BY <1>0 DEF IdleCmd
<1>1. [IdleCmd EXCEPT !.pc = "settled", !.open = b, !.asked = A] = r
  BY <1>0
<1>2. none \in [Players -> Nat] /\ 0 \in 0 .. MaxTries /\ "settled" \in Pcs
  BY Bounds DEF Pcs, Busy
<1> HIDE DEF none
<1>3. r \in Command
  BY <1>2, CommandMade
<1> QED
  BY <1>1, <1>3

\* A command that has opened a round of rebuys.
LEMMA OpenedCommand ==
  ASSUME NEW r \in Command
  PROVE  LET q == [r EXCEPT !.pc = "asking", !.open = FALSE]
         IN  q \in Command /\ q.pc = "asking" /\ q.asked = r.asked
<1>1. ASSUME NEW q, q = [r EXCEPT !.pc = "asking", !.open = FALSE]
      PROVE  q \in Command /\ q.pc = "asking" /\ q.asked = r.asked
  BY <1>1 DEF Command, Pcs, Busy
<1> QED
  BY <1>1

\* A command that tries its checkpoint again.
LEMMA RetriedCommand ==
  ASSUME NEW t \in 0 .. MaxTries
  PROVE  LET q == [IdleCmd EXCEPT !.pc = "load", !.tries = t]
         IN  q \in Command /\ q.pc = "load"
<1> DEFINE none == [p \in Players |-> 0]
           r == [pc |-> "load", asked |-> {}, open |-> FALSE, gen |-> 0, tries |-> t,
                 stack |-> none, seated |-> {}]
<1>0. ASSUME NEW q, q = [IdleCmd EXCEPT !.pc = "load", !.tries = t]
      PROVE  q = r
  BY <1>0 DEF IdleCmd
<1>1. [IdleCmd EXCEPT !.pc = "load", !.tries = t] = r
  BY <1>0
<1>2. none \in [Players -> Nat] /\ "load" \in Pcs
  BY DEF Pcs, Busy
<1> HIDE DEF none
<1>3. r \in Command
  BY <1>2, CommandMade
<1> QED
  BY <1>1, <1>3

\* One command changes, the others stay.
LEMMA CommandSet ==
  ASSUME cmd \in [Cmds -> Command], NEW c \in Cmds, NEW r \in Command, NEW new,
         new = [cmd EXCEPT ![c] = r]
  PROVE  new \in [Cmds -> Command] /\ new[c] = r /\ \A d \in Cmds : d # c => new[d] = cmd[d]
OBVIOUS

-----------------------------------------------------------------------------
(* What an action leaves of the commands.                                  *)

\* no command but c moves
Only(c) == cmd' \in [Cmds -> Command] /\ \A d \in Cmds : d # c => cmd'[d] = cmd[d]

\* A command is replaced.
LEMMA BecomesOnly ==
  ASSUME Shape, NEW c \in Cmds, NEW r \in Command, cmd' = [cmd EXCEPT ![c] = r]
  PROVE  Only(c) /\ cmd'[c] = r
BY ShapeParts DEF Only

\* A command goes to its next stage.
LEMMA MoveOnOnly ==
  ASSUME Shape, NEW c \in Cmds, NEW pc \in Pcs, MoveOn(c, pc)
  PROVE  Only(c) /\ cmd'[c].pc = pc /\ cmd'[c].asked = {} /\ cmd'[c].open = FALSE
<1> DEFINE q == [IdleCmd EXCEPT !.pc = pc]
<1>1. q \in Command /\ q.pc = pc /\ q.asked = {} /\ q.open = FALSE
  BY MovedCommand
<1>2. cmd' = [cmd EXCEPT ![c] = q]
  BY DEF MoveOn
<1> HIDE DEF q
<1> QED
  BY <1>1, <1>2, BecomesOnly

\* A command ends.
LEMMA EndOnly ==
  ASSUME Shape, NEW c \in Cmds, cmd' = [cmd EXCEPT ![c] = IdleCmd]
  PROVE  Only(c) /\ cmd'[c] = IdleCmd /\ cmd'[c].pc = "idle"
BY IdleCommand, BecomesOnly

\* resolveWinners remembers the broke and whether registration was open.
LEMMA ResolveOnly ==
  ASSUME Shape, NEW c \in Cmds, NEW w \in Players, ResolveWinners(c, w), snap' \in Snapshot
  PROVE  Only(c) /\ cmd'[c].pc = "settled" /\ cmd'[c].open = db.open
         /\ cmd'[c].asked = Broke(snap')
<1> DEFINE A == Broke(snap')
           q == [IdleCmd EXCEPT !.pc = "settled", !.open = db.open, !.asked = A]
<1>1. A \in SUBSET Players
  BY SnapshotFields DEF Broke, Snapshot
<1>2. db.open \in BOOLEAN
  BY ShapeParts DEF Database
<1>3. cmd' = [cmd EXCEPT ![c] = q]
  BY DEF ResolveWinners
<1> HIDE DEF A
<1>4. q \in Command /\ q.pc = "settled" /\ q.asked = A /\ q.open = db.open
  BY <1>1, <1>2, SettledCommand
<1> HIDE DEF q
<1>5. Only(c) /\ cmd'[c] = q
  BY <1>3, <1>4, BecomesOnly
<1> QED
  BY <1>4, <1>5 DEF A

\* the two ways into a round of questions
LEMMA AskOnly ==
  ASSUME Shape, NEW c \in Cmds, NEW A \in SUBSET Players,
         cmd' = [cmd EXCEPT ![c].pc = "opening", ![c].asked = A, ![c].gen = link.gen]
  PROVE  Only(c) /\ cmd'[c].pc = "opening" /\ cmd'[c].asked = A
<1>1. cmd \in [Cmds -> Command] /\ link.gen \in 0 .. MaxFaults
  BY ShapeParts DEF Link
<1>2. cmd[c] \in Command
  BY <1>1
<1>3. /\ cmd' = [d \in Cmds |-> IF d = c THEN cmd'[c] ELSE cmd[d]]
      /\ cmd'[c] = [cmd[c] EXCEPT !.pc = "opening", !.asked = A, !.gen = link.gen]
  BY <1>1
<1>4. cmd'[c] \in Command /\ cmd'[c].pc = "opening" /\ cmd'[c].asked = A
  <2>1. ASSUME NEW r \in Command, NEW q, NEW g \in 0 .. MaxFaults,
               r = cmd[c], q = cmd'[c], g = link.gen
        PROVE  q \in Command /\ q.pc = "opening" /\ q.asked = A
    <3>1. q = [r EXCEPT !.pc = "opening", !.asked = A, !.gen = g]
      BY <1>3, <2>1
    <3> QED
      BY <3>1 DEF Command, Pcs, Busy
  <2> QED
    BY <1>1, <1>2, <2>1
<1> QED
  BY <1>1, <1>3, <1>4 DEF Only

\* The round is open for those the command asks.
LEMMA OpenOnly ==
  ASSUME Shape, NEW c \in Cmds, OpenRound(c)
  PROVE  Only(c) /\ cmd'[c].pc = "asking" /\ cmd'[c].asked = cmd[c].asked
<1>1. cmd \in [Cmds -> Command]
  BY ShapeParts
<1>2. cmd[c] \in Command
  BY <1>1
<1>3. /\ cmd' = [d \in Cmds |-> IF d = c THEN cmd'[c] ELSE cmd[d]]
      /\ cmd'[c] = [cmd[c] EXCEPT !.pc = "asking", !.open = FALSE]
  BY <1>1 DEF OpenRound
<1>4. cmd'[c] \in Command /\ cmd'[c].pc = "asking" /\ cmd'[c].asked = cmd[c].asked
  BY <1>2, <1>3, OpenedCommand
<1> QED
  BY <1>1, <1>3, <1>4 DEF Only

\* The command will wait for the dealer, for those who were interrupted.
LEMMA HoldingOnly ==
  ASSUME Shape, NEW c \in Cmds, NEW A \in SUBSET Players,
         cmd' = [cmd EXCEPT ![c].pc = "holding", ![c].asked = A]
  PROVE  Only(c) /\ cmd'[c].pc = "holding" /\ cmd'[c].asked = A
<1>1. cmd \in [Cmds -> Command]
  BY ShapeParts
<1>2. cmd[c] \in Command
  BY <1>1
<1>3. /\ cmd' = [d \in Cmds |-> IF d = c THEN cmd'[c] ELSE cmd[d]]
      /\ cmd'[c] = [cmd[c] EXCEPT !.pc = "holding", !.asked = A]
  BY <1>1
<1>4. cmd'[c] \in Command /\ cmd'[c].pc = "holding" /\ cmd'[c].asked = A
  <2>1. ASSUME NEW r \in Command, NEW q, r = cmd[c], q = cmd'[c]
        PROVE  q \in Command /\ q.pc = "holding" /\ q.asked = A
    <3>1. q = [r EXCEPT !.pc = "holding", !.asked = A]
      BY <1>3, <2>1
    <3> QED
      BY <3>1 DEF Command, Pcs, Busy
  <2> QED
    BY <1>1, <1>2, <2>1
<1> QED
  BY <1>1, <1>3, <1>4 DEF Only

\* The command waits for the dealer.
LEMMA HeldOnly ==
  ASSUME Shape, NEW c \in Cmds, Hold(c)
  PROVE  Only(c) /\ cmd'[c].pc = "held" /\ cmd'[c].asked = cmd[c].asked
<1>1. cmd \in [Cmds -> Command] /\ "held" \in Pcs
  BY ShapeParts DEF Pcs, Busy
<1>2. cmd[c] \in Command
  BY <1>1
<1>3. /\ cmd' = [d \in Cmds |-> IF d = c THEN cmd'[c] ELSE cmd[d]]
      /\ cmd'[c] = [cmd[c] EXCEPT !.pc = "held"]
  BY <1>1 DEF Hold, To
<1>4. cmd'[c] \in Command /\ cmd'[c].pc = "held" /\ cmd'[c].asked = cmd[c].asked
  BY <1>1, <1>2, <1>3, StageCommand
<1> QED
  BY <1>1, <1>3, <1>4 DEF Only

\* a failed attempt backs off, or is the last
LEMMA FailedOnly ==
  ASSUME Shape, NEW c \in Cmds, Failed(c)
  PROVE  /\ Only(c)
         /\ \/ cmd'[c].pc = "load" /\ UNCHANGED memory
            \/ cmd'[c].pc = "idle" /\ memory' = [memory EXCEPT !.checkpoint = FALSE]
<1>1. CASE cmd[c].tries + 1 < MaxTries
  <2> DEFINE t == cmd[c].tries + 1
             q == [IdleCmd EXCEPT !.pc = "load", !.tries = t]
  <2>1. cmd[c] \in Command
    BY ShapeParts
  <2>2. cmd[c].tries \in 0 .. MaxTries
    BY <2>1, CommandFields
  <2>3. t \in 0 .. MaxTries
    BY <1>1, <2>2, Bounds
  <2>4. cmd' = [cmd EXCEPT ![c] = q] /\ UNCHANGED memory
    BY <1>1 DEF Failed
  <2> HIDE DEF t
  <2>5. q \in Command /\ q.pc = "load"
    BY <2>3, RetriedCommand
  <2> HIDE DEF q
  <2> QED
    BY <2>4, <2>5, BecomesOnly
<1>2. CASE ~ (cmd[c].tries + 1 < MaxTries)
  BY <1>2, EndOnly DEF Failed
<1> QED
  BY <1>1, <1>2

\* an attempt has read the snapshot
LEMMA LoadedOnly ==
  ASSUME Shape, NEW c \in Cmds,
         cmd' = [cmd EXCEPT ![c].pc = "save", ![c].stack = snap.stack, ![c].seated = snap.seated]
  PROVE  Only(c) /\ cmd'[c].pc = "save" /\ cmd'[c].stack = snap.stack
         /\ cmd'[c].seated = snap.seated
<1>1. cmd \in [Cmds -> Command] /\ snap.stack \in [Players -> Nat] /\ snap.seated \in SUBSET Players
  BY ShapeParts, SnapshotFields
<1>2. cmd[c] \in Command
  BY <1>1
<1>3. /\ cmd' = [d \in Cmds |-> IF d = c THEN cmd'[c] ELSE cmd[d]]
      /\ cmd'[c] = [cmd[c] EXCEPT !.pc = "save", !.stack = snap.stack, !.seated = snap.seated]
  BY <1>1
<1>4. /\ cmd'[c] \in Command /\ cmd'[c].pc = "save" /\ cmd'[c].stack = snap.stack
      /\ cmd'[c].seated = snap.seated
  <2>1. ASSUME NEW r \in Command, NEW q, NEW st \in [Players -> Nat], NEW se \in SUBSET Players,
               r = cmd[c], q = cmd'[c], st = snap.stack, se = snap.seated
        PROVE  q \in Command /\ q.pc = "save" /\ q.stack = st /\ q.seated = se
    <3>1. q = [r EXCEPT !.pc = "save", !.stack = st, !.seated = se]
      BY <1>3, <2>1
    <3> QED
      BY <3>1 DEF Command, Pcs, Busy
  <2> QED
    BY <1>1, <1>2, <2>1
<1> QED
  BY <1>1, <1>3, <1>4 DEF Only

\* retryCheckpoint has read the snapshot.
LEMMA RetryOnly ==
  ASSUME Shape, NEW c \in Cmds, RetryCheckpoint(c)
  PROVE  Only(c) /\ cmd'[c].pc = "save" /\ cmd'[c].stack = snap.stack
         /\ cmd'[c].seated = snap.seated
<1>1. snap.stack \in [Players -> Nat] /\ snap.seated \in SUBSET Players
  BY ShapeParts, SnapshotFields
<1> DEFINE new == [IdleCmd EXCEPT !.pc = "save", !.stack = snap.stack, !.seated = snap.seated]
<1>2. new \in Command /\ new.pc = "save" /\ new.stack = snap.stack /\ new.seated = snap.seated
  <2>1. ASSUME NEW r \in Command, NEW q, NEW st \in [Players -> Nat], NEW se \in SUBSET Players,
               r = IdleCmd, q = new, st = snap.stack, se = snap.seated
        PROVE  q \in Command /\ q.pc = "save" /\ q.stack = st /\ q.seated = se
    <3>1. q = [r EXCEPT !.pc = "save", !.stack = st, !.seated = se]
      BY <2>1
    <3> QED
      BY <3>1 DEF Command, Pcs, Busy
  <2> HIDE DEF new
  <2> QED
    BY <1>1, <2>1, IdleCommand
<1>3. cmd' = [cmd EXCEPT ![c] = new]
  BY DEF RetryCheckpoint
<1> HIDE DEF new
<1>4. Only(c) /\ cmd'[c] = new
  BY <1>2, <1>3, BecomesOnly
<1> QED
  BY <1>2, <1>4

-----------------------------------------------------------------------------
(* What an action leaves of the snapshot.                                  *)

\* The stacks of those in the hand go into the pot.
LEMMA StartMakes ==
  ASSUME Shape, NEW S \in SUBSET Players, Start(S)
  PROVE  /\ snap' \in Snapshot /\ snap'.phase \in {"BETTING", "SHOWDOWN"}
         /\ snap'.inHand = S /\ S \subseteq snap.seated /\ snap'.pot = SumOver(snap.stack, S)
         /\ snap'.seated = snap.seated
         /\ \A p \in Players : snap'.stack[p] = IF p \in S THEN 0 ELSE snap.stack[p]
<1> DEFINE pot == SumOver(snap.stack, S)
<1>1. snap \in Snapshot /\ snap.stack \in [Players -> Nat]
  BY ShapeParts, SnapshotFields
<1>2. S \in SUBSET snap.seated
  BY DEF Start
<1>3. IsFiniteSet(S) /\ \A p \in S : snap.stack[p] \in Nat
  BY <1>1, Bounds, FS_Subset
<1>4. pot \in Nat
  BY <1>3, SumTyped
<1>5. PICK phase \in {"BETTING", "SHOWDOWN"} :
        snap' = [snap EXCEPT !.phase = phase, !.inHand = S, !.pot = pot,
                             !.stack = [p \in Players |-> IF p \in S THEN 0 ELSE @[p]]]
  BY DEF Start, SumOver
<1> HIDE DEF pot
<1> DEFINE st == [p \in Players |-> IF p \in S THEN 0 ELSE snap.stack[p]]
           t  == [phase |-> phase, seated |-> snap.seated, inHand |-> S, resume |-> snap.resume,
                  pot |-> pot, stack |-> st]
<1>6. snap' = t
  BY <1>1, <1>5 DEF Snapshot
<1>7. st \in [Players -> Nat] /\ \A p \in Players : st[p] = IF p \in S THEN 0 ELSE snap.stack[p]
  BY <1>1, SnapshotFields
<1>8. /\ S \in SUBSET Players /\ snap.seated \in SUBSET Players /\ snap.resume \in BOOLEAN
      /\ phase \in {"WAITING", "BETTING", "SHOWDOWN", "HAND_END"}
  BY <1>1, SnapshotFields
<1> HIDE DEF st
<1>9. t \in Snapshot
  BY <1>4, <1>7, <1>8, SnapshotMade
<1> QED
  BY <1>2, <1>6, <1>7, <1>9 DEF pot

\* The winner takes the pot.
LEMMA ResolveMakes ==
  ASSUME Shape, NEW c \in Cmds, NEW w \in Players, ResolveWinners(c, w)
  PROVE  /\ snap' \in Snapshot /\ snap'.phase = "HAND_END" /\ snap'.inHand = {} /\ snap'.pot = 0
         /\ snap'.seated = snap.seated /\ w \in snap.inHand
         /\ \A p \in Players :
              snap'.stack[p] = IF p = w THEN snap.stack[p] + snap.pot ELSE snap.stack[p]
<1>1. snap \in Snapshot
  BY ShapeParts
<1>2. snap' = [snap EXCEPT !.phase = "HAND_END", !.pot = 0, !.inHand = {},
                           !.stack[w] = @ + snap.pot]
  BY DEF ResolveWinners
<1>3. w \in snap.inHand
  BY DEF ResolveWinners, Contenders
<1> DEFINE st == [snap.stack EXCEPT ![w] = @ + snap.pot]
           t  == [phase |-> "HAND_END", seated |-> snap.seated, inHand |-> {},
                  resume |-> snap.resume, pot |-> 0, stack |-> st]
<1>4. snap' = t
  BY <1>1, <1>2 DEF Snapshot
<1>5. /\ st \in [Players -> Nat]
      /\ \A p \in Players : st[p] = IF p = w THEN snap.stack[p] + snap.pot ELSE snap.stack[p]
  BY <1>1, SnapshotFields
<1>6. snap.seated \in SUBSET Players /\ {} \in SUBSET Players /\ snap.resume \in BOOLEAN
  BY <1>1, SnapshotFields
<1> HIDE DEF st
<1>7. t \in Snapshot
  BY <1>5, <1>6, SnapshotMade
<1> QED
  BY <1>3, <1>4, <1>5, <1>7

\* a rebuy's chips are on the table, or they are not
LEMMA ApplyMakes ==
  ASSUME Shape, NEW c \in Cmds, NEW p \in Players, ApplyChips(c, p)
  PROVE  \/ UNCHANGED snap
         \/ /\ snap' \in Snapshot /\ snap'.phase = snap.phase /\ snap'.inHand = snap.inHand
            /\ snap'.pot = snap.pot /\ snap'.seated = snap.seated /\ p \in snap.seated
            /\ \A r \in Players :
                 snap'.stack[r] = IF r = p THEN snap.stack[r] + 1 ELSE snap.stack[r]
<1>1. SUFFICES ASSUME ~ UNCHANGED snap
               PROVE  /\ snap' \in Snapshot /\ snap'.phase = snap.phase
                      /\ snap'.inHand = snap.inHand
                      /\ snap'.pot = snap.pot /\ snap'.seated = snap.seated /\ p \in snap.seated
                      /\ \A r \in Players :
                           snap'.stack[r] = IF r = p THEN snap.stack[r] + 1 ELSE snap.stack[r]
  OBVIOUS
<1>2. snap' = [snap EXCEPT !.stack[p] = @ + 1]
  BY <1>1 DEF ApplyChips
<1>5. p \in snap.seated
  BY <1>1 DEF ApplyChips
<1>3. snap \in Snapshot
  BY ShapeParts
<1>4. snap.stack[p] + 1 \in Nat /\ 1 \in Int
  BY <1>3, SnapshotFields
<1> DEFINE st == [snap.stack EXCEPT ![p] = @ + 1]
           t  == [phase |-> snap.phase, seated |-> snap.seated, inHand |-> snap.inHand,
                  resume |-> snap.resume, pot |-> snap.pot, stack |-> st]
<1>7. snap' = t
  BY <1>2, <1>3, <1>4 DEF Snapshot
<1>8. /\ st \in [Players -> Nat]
      /\ \A r \in Players : st[r] = IF r = p THEN snap.stack[r] + 1 ELSE snap.stack[r]
  BY <1>3, <1>4, SnapshotFields
<1>9. /\ snap.seated \in SUBSET Players /\ snap.inHand \in SUBSET Players
      /\ snap.resume \in BOOLEAN /\ snap.pot \in Nat
      /\ snap.phase \in {"WAITING", "BETTING", "SHOWDOWN", "HAND_END"}
  BY <1>3, SnapshotFields
<1> HIDE DEF st
<1>10. t \in Snapshot
  BY <1>8, <1>9, SnapshotMade
<1> QED
  BY <1>5, <1>7, <1>8, <1>10

\* the chips are taken back, or left
LEMMA RevertMakes ==
  ASSUME Shape, NEW c \in Cmds, NEW p \in Players, RevertRebuy(c, p)
  PROVE  \/ UNCHANGED snap
         \/ /\ snap' \in Snapshot /\ snap'.phase = snap.phase /\ snap'.inHand = snap.inHand
            /\ snap'.pot = snap.pot /\ snap'.seated = snap.seated /\ Landed(p)
            /\ UNCHANGED gifts
            /\ \A r \in Players :
                 snap'.stack[r] = IF r = p THEN snap.stack[r] + (-1) ELSE snap.stack[r]
<1>1. SUFFICES ASSUME ~ UNCHANGED snap
               PROVE  /\ snap' \in Snapshot /\ snap'.phase = snap.phase
                      /\ snap'.inHand = snap.inHand
                      /\ snap'.pot = snap.pot /\ snap'.seated = snap.seated /\ Landed(p)
                      /\ UNCHANGED gifts
                      /\ \A r \in Players :
                           snap'.stack[r] = IF r = p THEN snap.stack[r] + (-1) ELSE snap.stack[r]
  OBVIOUS
<1>2. snap' = [snap EXCEPT !.stack[p] = @ - 1]
  BY <1>1 DEF RevertRebuy
<1>6. Landed(p) /\ UNCHANGED gifts
  BY <1>1 DEF RevertRebuy
<1>3. snap \in Snapshot
  BY ShapeParts
<1>4. snap.stack[p] \in Nat /\ snap.stack[p] >= 1
  BY <1>6, <1>3, SnapshotFields DEF Landed
<1>5. snap.stack[p] + (-1) \in Nat /\ -1 \in Int
  BY <1>4
<1> DEFINE st == [snap.stack EXCEPT ![p] = @ + (-1)]
           t  == [phase |-> snap.phase, seated |-> snap.seated, inHand |-> snap.inHand,
                  resume |-> snap.resume, pot |-> snap.pot, stack |-> st]
<1>7. snap' = t
  BY <1>2, <1>3, <1>4 DEF Snapshot
<1>8. /\ st \in [Players -> Nat]
      /\ \A r \in Players : st[r] = IF r = p THEN snap.stack[r] + (-1) ELSE snap.stack[r]
  BY <1>3, <1>4, SnapshotFields
<1>9. /\ snap.seated \in SUBSET Players /\ snap.inHand \in SUBSET Players
      /\ snap.resume \in BOOLEAN /\ snap.pot \in Nat
      /\ snap.phase \in {"WAITING", "BETTING", "SHOWDOWN", "HAND_END"}
  BY <1>3, SnapshotFields
<1> HIDE DEF st
<1>10. t \in Snapshot
  BY <1>8, <1>9, SnapshotMade
<1> QED
  BY <1>6, <1>7, <1>8, <1>10

\* finishHand empties the seats of the broke at the end of a hand, or does nothing.
LEMMA FinishMakes ==
  ASSUME Shape, NEW c \in Cmds, FinishHand(c)
  PROVE  \/ UNCHANGED snap
         \/ /\ snap' \in Snapshot /\ snap.phase = "HAND_END" /\ snap'.phase = "WAITING"
            /\ snap'.inHand = snap.inHand /\ snap'.pot = snap.pot
            /\ snap'.seated = snap.seated \ Broke(snap) /\ snap'.stack = snap.stack
<1>1. SUFFICES ASSUME ~ UNCHANGED snap
               PROVE  /\ snap' \in Snapshot /\ snap.phase = "HAND_END" /\ snap'.phase = "WAITING"
                      /\ snap'.inHand = snap.inHand /\ snap'.pot = snap.pot
                      /\ snap'.seated = snap.seated \ Broke(snap) /\ snap'.stack = snap.stack
  OBVIOUS
<1> DEFINE B == Broke(snap)
<1>2. snap' = [snap EXCEPT !.phase = "WAITING", !.seated = @ \ B] /\ snap.phase = "HAND_END"
  BY <1>1 DEF FinishHand
<1>3. snap \in Snapshot
  BY ShapeParts
<1> HIDE DEF B
<1>4. /\ snap' \in Snapshot /\ snap'.phase = "WAITING" /\ snap'.inHand = snap.inHand
      /\ snap'.pot = snap.pot /\ snap'.seated = snap.seated \ B /\ snap'.stack = snap.stack
  BY <1>2, <1>3 DEF Snapshot
<1> QED
  BY <1>2, <1>4 DEF B

\* the server restarts on the snapshot it finds, or on the one it makes
LEMMA RebuiltMade ==
  ASSUME Shape, NEW q, q = Rebuilt
  PROVE  /\ q \in Snapshot /\ q.phase = "WAITING" /\ q.inHand = {} /\ q.pot = 0
         /\ q.seated = snap.seated \intersect Playing
         /\ \A p \in Players : q.stack[p] = IF p \in q.seated THEN db.stack[p] ELSE 0
<1> DEFINE seated == snap.seated \intersect Playing
           st == [p \in Players |-> IF p \in seated THEN db.stack[p] ELSE 0]
           r == [phase |-> "WAITING", seated |-> seated, inHand |-> {}, resume |-> FALSE,
                 pot |-> 0, stack |-> st]
<1>1. q = r
  BY DEF Rebuilt
<1>2. snap \in Snapshot /\ db \in Database
  BY ShapeParts
<1>3. snap.seated \in SUBSET Players /\ db.stack \in [Players -> Nat]
  BY <1>2, SnapshotFields DEF Database
<1>4. st \in [Players -> Nat] /\ seated \in SUBSET Players
      /\ \A p \in Players : st[p] = IF p \in seated THEN db.stack[p] ELSE 0
  BY <1>3
<1> HIDE DEF st, seated
<1>5. r \in Snapshot
  BY <1>4, SnapshotMade
<1>6. q.seated = seated /\ q.stack = st /\ q.phase = "WAITING" /\ q.inHand = {} /\ q.pot = 0
  BY <1>1
<1> QED
  BY <1>1, <1>4, <1>5, <1>6 DEF seated

\* A hand with somebody on turn is stopped, and nothing else changes.
LEMMA StopsMakes ==
  ASSUME Shape, snap' = IF snap.phase = "BETTING" THEN [snap EXCEPT !.resume = TRUE] ELSE snap
  PROVE  /\ snap' \in Snapshot /\ snap'.phase = snap.phase /\ snap'.inHand = snap.inHand
         /\ snap'.pot = snap.pot /\ snap'.seated = snap.seated /\ snap'.stack = snap.stack
<1>1. snap \in Snapshot
  BY ShapeParts
<1> QED
  BY <1>1, ResumeSnapshot

\* The snapshot survives a restart, or is rebuilt from the database.
LEMMA RestartMakes ==
  ASSUME Shape, Restart
  PROVE  /\ snap' \in Snapshot
         /\ \/ snap' = Rebuilt /\ kicked' = {}
            \/ /\ snap'.phase = snap.phase /\ snap'.inHand = snap.inHand
               /\ snap'.pot = snap.pot /\ snap'.seated = snap.seated /\ snap'.stack = snap.stack
               /\ UNCHANGED kicked
<1>1. CASE snap' = Rebuilt /\ kicked' = {}
  BY <1>1, RebuiltMade
<1>2. CASE /\ snap' = IF snap.phase = "BETTING" THEN [snap EXCEPT !.resume = TRUE] ELSE snap
           /\ UNCHANGED kicked
  BY <1>2, StopsMakes
<1> QED
  BY <1>1, <1>2 DEF Restart

\* a table is stopped or goes on
LEMMA HoldMakes ==
  ASSUME Shape, NEW b \in BOOLEAN, snap' = [snap EXCEPT !.resume = b]
  PROVE  /\ snap' \in Snapshot /\ snap'.phase = snap.phase /\ snap'.inHand = snap.inHand
         /\ snap'.pot = snap.pot /\ snap'.seated = snap.seated /\ snap'.stack = snap.stack
BY ShapeParts, ResumeSnapshot

\* The betting ends.
LEMMA BetMakes ==
  ASSUME Shape, Bet
  PROVE  /\ snap' \in Snapshot /\ snap.phase = "BETTING" /\ snap'.phase = "SHOWDOWN"
         /\ snap'.inHand = snap.inHand
         /\ snap'.pot = snap.pot /\ snap'.seated = snap.seated /\ snap'.stack = snap.stack
BY ShapeParts, PhaseSnapshot DEF Bet

\* Every step leaves a snapshot.
LEMMA SnapStep == ASSUME Shape, [Next]_vars PROVE snap' \in Snapshot
<1> USE ShapeParts
<1>1. ASSUME Hall PROVE snap' \in Snapshot
  <2>1. ASSUME NEW S \in SUBSET Players, Start(S) PROVE snap' \in Snapshot
    BY <2>1, StartMakes
  <2>2. CASE Bet
    BY <2>2, BetMakes
  <2>3. CASE (\E p \in Players : Kick(p)) \/ CloseRegistration
    BY <2>3 DEF Kick, CloseRegistration
  <2> QED
    BY <1>1, <2>1, <2>2, <2>3 DEF Hall
<1>2. ASSUME NEW c \in Cmds, Dealer(c) \/ Step(c) \/ Throw(c) PROVE snap' \in Snapshot
  <2>1. ASSUME NEW w \in Players, ResolveWinners(c, w) PROVE snap' \in Snapshot
    BY <2>1, ResolveMakes
  <2>2. CASE Hold(c)
    BY <2>2, HoldMakes DEF Hold
  <2>3. CASE FinishHand(c)
    BY <2>3, FinishMakes
  <2>4. CASE UNCHANGED snap
    BY <2>4
  <2> QED
    BY <1>2, <2>1, <2>2, <2>3, <2>4
    DEF Dealer, Step, Throw, RetryCheckpoint, FilterKicked, OpenRound, CloseRound, Wake, Unmark,
        Eliminate, LoadSnapshot, SaveStacks
<1>3. ASSUME ResumeTable PROVE snap' \in Snapshot
  BY <1>3, HoldMakes DEF ResumeTable
<1>4. ASSUME NEW c \in Cmds, NEW p \in Players, Talk(c, p) PROVE snap' \in Snapshot
  <2>1. CASE ApplyChips(c, p)
    BY <2>1, ApplyMakes
  <2>2. CASE RevertRebuy(c, p)
    BY <2>2, RevertMakes
  <2>3. CASE UNCHANGED snap
    BY <2>3
  <2> QED
    BY <1>4, <2>1, <2>2, <2>3 DEF Talk, ReadPoints, Answer, Pay
<1>5. ASSUME Outage \/ Reconnect PROVE snap' \in Snapshot
  BY <1>5 DEF Outage, Reconnect
<1>6. ASSUME Recovered PROVE snap' \in Snapshot
  BY <1>6, StopsMakes DEF Recovered
<1>7. ASSUME Restart PROVE snap' \in Snapshot
  BY <1>7, RestartMakes
<1>8. ASSUME UNCHANGED vars PROVE snap' \in Snapshot
  BY <1>8 DEF vars
<1> QED
  BY <1>1, <1>2, <1>3, <1>4, <1>5, <1>6, <1>7, <1>8 DEF Next

-----------------------------------------------------------------------------
(* What an action leaves of the database.                                  *)

\* A record of the fields of the database is one.
LEMMA DatabaseMade ==
  ASSUME NEW stack \in [Players -> Nat], NEW points \in [Players -> Nat],
         NEW buyIns \in [Players -> Nat], NEW active \in Nat, NEW open \in BOOLEAN,
         NEW status \in [Players -> {"PLAYING", "ELIMINATED", "AWARDED"}]
  PROVE  [stack |-> stack, points |-> points, buyIns |-> buyIns, status |-> status,
          active |-> active, open |-> open] \in Database
BY DEF Database

\* What the fields of the database hold.
LEMMA DatabaseFields ==
  ASSUME NEW d \in Database
  PROVE  /\ d.stack \in [Players -> Nat] /\ d.points \in [Players -> Nat]
         /\ d.buyIns \in [Players -> Nat] /\ d.active \in Nat /\ d.open \in BOOLEAN
         /\ d.status \in [Players -> {"PLAYING", "ELIMINATED", "AWARDED"}]
         /\ \A p \in Players : d.stack[p] \in Nat /\ d.points[p] \in Nat /\ d.buyIns[p] \in Nat
BY DEF Database

\* who counts in a database d
Counted(d) == {p \in Players : d.status[p] # "ELIMINATED"}

\* players who are out are subtracted from the counter once
LEMMA CountedDrops ==
  ASSUME Shape, NEW out, out \subseteq Remaining
  PROVE  /\ db.active - Cardinality(out) \in Nat
         /\ db.active - Cardinality(out) = Cardinality(Remaining \ out)
<1>1. db.active = Cardinality(Remaining)
  BY ShapeParts DEF ActiveCounted, Remaining
<1>2. IsFiniteSet(Remaining) /\ Remaining \subseteq Players
  BY Bounds, FS_Subset DEF Remaining
<1>3. out \intersect Remaining = out /\ IsFiniteSet(out)
  BY <1>2, FS_Subset
<1>4. Cardinality(Remaining \ out) = Cardinality(Remaining) - Cardinality(Remaining \intersect out)
  BY <1>2, FS_Difference
<1>5. Remaining \intersect out = out
  BY <1>3
<1>6. Cardinality(Remaining \ out) = db.active - Cardinality(out)
  BY <1>1, <1>4, <1>5
<1>7. IsFiniteSet(Remaining \ out)
  BY <1>2, FS_Difference
<1>8. Cardinality(Remaining \ out) \in Nat
  BY <1>7, FS_CardinalityType
<1> QED
  BY <1>6, <1>8

\* the player is out, and nobody else changes
LEMMA KickMakes ==
  ASSUME Shape, NEW p \in Players, Kick(p)
  PROVE  /\ db' \in Database /\ db'.stack = db.stack /\ db'.buyIns = db.buyIns
         /\ db'.active = Cardinality(Counted(db'))
         /\ \A r \in Players : db'.status[r] = IF r = p /\ p \in Playing THEN "ELIMINATED"
                                               ELSE db.status[r]
<1> USE ShapeParts
<1>1. db \in Database /\ db.active = Cardinality(Counted(db))
  BY DEF ActiveCounted, Counted
<1>2. CASE p \notin Playing
  <2>1. db' = db
    BY <1>2 DEF Kick
  <2> QED
    BY <1>1, <1>2, <2>1
<1>3. CASE p \in Playing
  <2>1. {p} \subseteq Remaining /\ Cardinality({p}) = 1
    BY <1>3, FS_Singleton DEF Remaining, Playing
  <2>2. db.active - 1 \in Nat /\ db.active - 1 = Cardinality(Remaining \ {p})
    BY <2>1, CountedDrops
  <2>3. db' = [db EXCEPT !.status[p] = "ELIMINATED", !.active = @ - 1]
    BY <1>3 DEF Kick
  <2> DEFINE st == [db.status EXCEPT ![p] = "ELIMINATED"]
             n  == db.active - 1
             t  == [stack |-> db.stack, points |-> db.points, buyIns |-> db.buyIns,
                    status |-> st, active |-> n, open |-> db.open]
  <2>4. db' = t
    BY <1>1, <2>3 DEF Database
  <2>5. /\ st \in [Players -> {"PLAYING", "ELIMINATED", "AWARDED"}]
        /\ \A r \in Players : st[r] = IF r = p THEN "ELIMINATED" ELSE db.status[r]
    BY <1>1, DatabaseFields
  <2>6. Remaining \ {p} = {r \in Players : st[r] # "ELIMINATED"}
    BY <2>5 DEF Remaining
  <2>7. n \in Nat /\ n = Cardinality(Remaining \ {p})
    BY <2>2
  <2> HIDE DEF st, n
  <2>8. t \in Database
    BY <1>1, <2>5, <2>7, DatabaseFields, DatabaseMade
  <2>9. Counted(t) = Remaining \ {p}
    BY <2>6 DEF Counted
  <2>10. t.stack = db.stack /\ t.buyIns = db.buyIns /\ t.active = n /\ t.status = st
    OBVIOUS
  <2>11. db' \in Database /\ db'.stack = db.stack /\ db'.buyIns = db.buyIns
         /\ db'.active = Cardinality(Counted(db'))
    BY <2>4, <2>7, <2>8, <2>9, <2>10
  <2> QED
    BY <1>3, <2>4, <2>5, <2>10, <2>11
<1> QED
  BY <1>2, <1>3

\* eliminatePlayer, in the database
LEMMA EliminateMakes ==
  ASSUME Shape, NEW B, NEW q, q = EliminatePlayer(B)
  PROVE  /\ q \in Database /\ q.stack = db.stack /\ q.buyIns = db.buyIns
         /\ q.active = Cardinality(Counted(q))
         /\ \A p \in Players : /\ q.status[p] = "PLAYING" => p \in Playing \ B
                               /\ p \in Playing /\ q.status[p] = "ELIMINATED" => p \in B
                               /\ db.status[p] # "PLAYING" => q.status[p] = db.status[p]
<1> USE ShapeParts
<1>1. db \in Database /\ db.active = Cardinality(Counted(db))
  BY DEF ActiveCounted, Counted
<1>2. CASE B = {}
  <2>1. q = db
    BY <1>2 DEF EliminatePlayer
  <2> QED
    BY <1>1, <1>2, <2>1 DEF Playing
<1>3. CASE B # {}
  <2> DEFINE pending == B \intersect Playing
             left == Playing \ pending
             n == db.active - Cardinality(pending)
             st == [p \in Players |-> IF p \in pending THEN "ELIMINATED"
                                      ELSE IF n <= 1 /\ p \in left THEN "AWARDED"
                                      ELSE db.status[p]]
             open == db.open /\ n > 1
             t  == [stack |-> db.stack, points |-> db.points, buyIns |-> db.buyIns,
                    status |-> st, active |-> n, open |-> open]
  <2>1. pending \subseteq Remaining /\ pending \subseteq Playing
    BY DEF Remaining, Playing
  <2>2. n \in Nat /\ n = Cardinality(Remaining \ pending)
    BY <2>1, CountedDrops
  <2>3. q = [db EXCEPT
              !.status = [p \in Players |-> IF p \in pending THEN "ELIMINATED"
                                            ELSE IF n <= 1 /\ p \in left
                                            THEN "AWARDED" ELSE @[p]],
              !.active = n,
              !.open   = @ /\ n > 1]
    BY <1>3 DEF EliminatePlayer
  <2>4. /\ st \in [Players -> {"PLAYING", "ELIMINATED", "AWARDED"}]
        /\ \A p \in Players : st[p] = IF p \in pending THEN "ELIMINATED"
                                      ELSE IF n <= 1 /\ p \in left THEN "AWARDED"
                                      ELSE db.status[p]
    BY <1>1, DatabaseFields
  <2>5. open \in BOOLEAN
    OBVIOUS
  <2>6. \A p \in Players : p \in Playing <=> db.status[p] = "PLAYING"
    BY DEF Playing
  <2> HIDE DEF n, pending
  <2>7. q = t
    BY <1>1, <2>3 DEF Database
  <2>8. Remaining \ pending = {p \in Players : st[p] # "ELIMINATED"}
    BY <2>1, <2>4, <2>6 DEF Remaining
  <2>9. \A p \in Players : /\ st[p] = "PLAYING" => p \in Playing \ B
                           /\ p \in Playing /\ st[p] = "ELIMINATED" => p \in B
                           /\ db.status[p] # "PLAYING" => st[p] = db.status[p]
    BY <2>1, <2>4, <2>6 DEF pending
  <2> HIDE DEF st, open
  <2>10. t \in Database
    BY <1>1, <2>2, <2>4, <2>5, DatabaseFields, DatabaseMade
  <2>11. Counted(t) = Remaining \ pending
    BY <2>8 DEF Counted
  <2>12. t.stack = db.stack /\ t.buyIns = db.buyIns /\ t.active = n /\ t.status = st
    OBVIOUS
  <2>13. q \in Database /\ q.stack = db.stack /\ q.buyIns = db.buyIns
         /\ q.active = Cardinality(Counted(q))
    BY <2>2, <2>7, <2>10, <2>11, <2>12
  <2> QED
    BY <2>7, <2>9, <2>12, <2>13
<1> QED
  BY <1>2, <1>3

\* executeRebuyTransaction
LEMMA PayMakes ==
  ASSUME Shape, NEW c \in Cmds, NEW p \in Players, Pay(c, p)
  PROVE  \/ UNCHANGED db
         \/ /\ db' \in Database /\ db'.status = db.status /\ db'.active = db.active
            /\ db'.open = db.open
            /\ \A r \in Players :
                 /\ db'.stack[r] = IF r = p THEN db.stack[r] + 1 ELSE db.stack[r]
                 /\ db'.buyIns[r] = IF r = p THEN db.buyIns[r] + 1 ELSE db.buyIns[r]
<1>1. SUFFICES ASSUME ~ UNCHANGED db
               PROVE  /\ db' \in Database /\ db'.status = db.status /\ db'.active = db.active
                      /\ db'.open = db.open
                      /\ \A r \in Players :
                           /\ db'.stack[r] = IF r = p THEN db.stack[r] + 1 ELSE db.stack[r]
                           /\ db'.buyIns[r] = IF r = p THEN db.buyIns[r] + 1 ELSE db.buyIns[r]
  OBVIOUS
<1>2. db' = [db EXCEPT !.points[p] = @ - 1, !.buyIns[p] = @ + 1, !.stack[p] = @ + 1]
  BY <1>1 DEF Pay, Paid
<1>3. db.points[p] > 0
  BY <1>1 DEF Pay
<1>4. db \in Database
  BY ShapeParts
<1>5. db.points[p] - 1 \in Nat
  BY <1>3, <1>4, DatabaseFields
<1> DEFINE ps == [db.points EXCEPT ![p] = @ - 1]
           bs == [db.buyIns EXCEPT ![p] = @ + 1]
           st == [db.stack EXCEPT ![p] = @ + 1]
           t  == [stack |-> st, points |-> ps, buyIns |-> bs,
                  status |-> db.status, active |-> db.active, open |-> db.open]
<1>6. db' = t
  BY <1>2, <1>4 DEF Database
<1>7. ps \in [Players -> Nat]
  BY <1>4, <1>5, DatabaseFields
<1>8. /\ st \in [Players -> Nat]
      /\ \A r \in Players : st[r] = IF r = p THEN db.stack[r] + 1 ELSE db.stack[r]
  BY <1>4, DatabaseFields
<1>9. /\ bs \in [Players -> Nat]
      /\ \A r \in Players : bs[r] = IF r = p THEN db.buyIns[r] + 1 ELSE db.buyIns[r]
  BY <1>4, DatabaseFields
<1> HIDE DEF ps, bs, st
<1>10. t \in Database
  BY <1>4, <1>7, <1>8, <1>9, DatabaseFields, DatabaseMade
<1> QED
  BY <1>6, <1>8, <1>9, <1>10

\* syncTableInventoryToDb
LEMMA SaveMakes ==
  ASSUME Shape, NEW c \in Cmds, SaveStacks(c)
  PROVE  \/ UNCHANGED <<db, gifts>> /\ Failed(c)
         \/ /\ db' \in Database /\ db'.status = db.status /\ db'.active = db.active
            /\ db'.open = db.open /\ db'.buyIns = db.buyIns
            /\ \A p \in Players :
                 db'.stack[p] = IF p \in cmd[c].seated THEN cmd[c].stack[p] ELSE db.stack[p]
            /\ MoveOn(c, "finish") /\ memory' = [memory EXCEPT !.checkpoint = FALSE]
            /\ gifts' = [gifts EXCEPT !.db = gifts.table]
<1>1. CASE UNCHANGED <<db, gifts>> /\ Failed(c)
  BY <1>1
<1> DEFINE A == cmd[c].seated
           saved == cmd[c].stack
<1>2. CASE /\ db' = [db EXCEPT !.stack = [p \in Players |->
                       IF p \in A THEN saved[p] ELSE @[p]]]
           /\ MoveOn(c, "finish")
           /\ memory' = [memory EXCEPT !.checkpoint = FALSE]
           /\ gifts' = [gifts EXCEPT !.db = gifts.table]
  <2>1. db \in Database /\ cmd[c] \in Command
    BY ShapeParts
  <2>2. saved \in [Players -> Nat]
    BY <2>1, CommandFields
  <2> DEFINE st == [p \in Players |-> IF p \in A THEN saved[p] ELSE db.stack[p]]
             t  == [stack |-> st, points |-> db.points, buyIns |-> db.buyIns,
                    status |-> db.status, active |-> db.active, open |-> db.open]
  <2>3. db' = [db EXCEPT !.stack = [p \in Players |-> IF p \in A THEN saved[p] ELSE @[p]]]
    BY <1>2
  <2> HIDE DEF A, saved
  <2>4. db' = t
    BY <2>1, <2>3 DEF Database
  <2>5. /\ st \in [Players -> Nat]
        /\ \A p \in Players : st[p] = IF p \in A THEN saved[p] ELSE db.stack[p]
    BY <2>1, <2>2, DatabaseFields
  <2> HIDE DEF st
  <2>6. t \in Database
    BY <2>1, <2>5, DatabaseFields, DatabaseMade
  <2>7. /\ t.stack = st /\ t.status = db.status /\ t.active = db.active /\ t.open = db.open
        /\ t.buyIns = db.buyIns
    OBVIOUS
  <2>8. \A p \in Players : db'.stack[p] = IF p \in A THEN saved[p] ELSE db.stack[p]
    BY <2>4, <2>5, <2>7
  <2>9. /\ MoveOn(c, "finish") /\ memory' = [memory EXCEPT !.checkpoint = FALSE]
        /\ gifts' = [gifts EXCEPT !.db = gifts.table]
    BY <1>2
  <2> QED
    BY <2>4, <2>6, <2>7, <2>8, <2>9 DEF A, saved
<1> QED
  BY <1>1, <1>2 DEF SaveStacks

\* The end of the registration touches no participation.
LEMMA CloseMakes ==
  ASSUME Shape, CloseRegistration
  PROVE  /\ db' \in Database /\ db'.status = db.status /\ db'.active = db.active
         /\ db'.stack = db.stack /\ db'.buyIns = db.buyIns
<1>1. db \in Database /\ db' = [db EXCEPT !.open = FALSE]
  BY ShapeParts DEF CloseRegistration
<1> QED
  BY <1>1 DEF Database

\* finishHand eliminates the broke, or leaves the database alone.
LEMMA FinishDb ==
  ASSUME Shape, NEW c \in Cmds, FinishHand(c)
  PROVE  UNCHANGED db \/ db' = EliminatePlayer(Broke(snap))
BY DEF FinishHand

\* Every step leaves a database whose counter is right: eliminatePlayer subtracts each player once,
\* however often it comes.
LEMMA DbStep ==
  ASSUME Shape, [Next]_vars
  PROVE  db' \in Database /\ db'.active = Cardinality(Counted(db'))
<1> DEFINE Fine == db' \in Database /\ db'.active = Cardinality(Counted(db'))
<1>1. db \in Database /\ db.active = Cardinality(Counted(db))
  BY ShapeParts DEF ActiveCounted, Counted
<1>2. ASSUME UNCHANGED db PROVE Fine
  BY <1>1, <1>2
<1>3. ASSUME db'.status = db.status, db'.active = db.active, db' \in Database PROVE Fine
  BY <1>1, <1>3 DEF Counted
<1>4. ASSUME NEW B, db' = EliminatePlayer(B) PROVE Fine
  BY <1>4, EliminateMakes
<1> HIDE DEF Fine
<1> SUFFICES Fine
  BY DEF Fine
<1>5. CASE Hall
  BY <1>2, <1>3, <1>5, KickMakes, CloseMakes DEF Hall, Start, Bet, Fine
<1>6. ASSUME NEW c \in Cmds, Dealer(c) \/ Step(c) \/ Throw(c) PROVE Fine
  <2>1. CASE Eliminate(c)
    BY <1>4, <2>1 DEF Eliminate
  <2>2. CASE SaveStacks(c)
    BY <1>2, <1>3, <2>2, SaveMakes
  <2>3. CASE FinishHand(c)
    BY <1>2, <1>4, <2>3, FinishDb
  <2>4. CASE UNCHANGED db
    BY <1>2, <2>4
  <2> QED
    BY <1>6, <2>1, <2>2, <2>3, <2>4
    DEF Dealer, Step, Throw, ResolveWinners, RetryCheckpoint, FilterKicked, OpenRound, CloseRound,
        Hold, Wake, Unmark, LoadSnapshot
<1>7. ASSUME NEW c \in Cmds, NEW p \in Players, Talk(c, p) PROVE Fine
  BY <1>2, <1>3, <1>7, PayMakes DEF Talk, ReadPoints, Answer, ApplyChips, RevertRebuy
<1>8. CASE ResumeTable \/ Outage \/ Reconnect \/ Recovered \/ Restart
  <2>1. UNCHANGED db
    BY <1>8 DEF ResumeTable, Outage, Reconnect, Recovered, Restart
  <2> QED
    BY <1>2, <2>1
<1>9. CASE UNCHANGED vars
  BY <1>2, <1>9 DEF vars
<1> QED
  BY <1>5, <1>6, <1>7, <1>8, <1>9 DEF Next

-----------------------------------------------------------------------------
(* The commands, the dialogues and the flags.                              *)

\* what a step of command c does to the commands and the flags
LEMMA StepOnly ==
  ASSUME Shape, NEW c \in Cmds, Dealer(c) \/ Step(c) \/ Throw(c)
  PROVE  Only(c)
<1> USE DEF Pcs, Busy
<1>1. ASSUME NEW w \in Players, ResolveWinners(c, w) PROVE Only(c)
  BY <1>1, ResolveMakes, ResolveOnly
<1>2. CASE RetryCheckpoint(c)
  BY <1>2, RetryOnly
<1>3. CASE FilterKicked(c)
  <2> DEFINE A == cmd[c].asked \ kicked
  <2>1. A \in SUBSET Players
    BY ShapeParts, CommandFields
  <2>2. \/ cmd' = [cmd EXCEPT ![c].pc = "opening", ![c].asked = A, ![c].gen = link.gen]
        \/ MoveOn(c, "eliminate")
    BY <1>3 DEF FilterKicked
  <2> HIDE DEF A
  <2> QED
    BY <2>1, <2>2, AskOnly, MoveOnOnly
<1>4. CASE OpenRound(c)
  BY <1>4, OpenOnly
<1>5. CASE CloseRound(c)
  <2> DEFINE A == {p \in cmd[c].asked : ask[c][p] \in Interrupted}
  <2>1. A \in SUBSET Players
    BY ShapeParts, CommandFields
  <2>2. \/ cmd' = [cmd EXCEPT ![c] = IdleCmd]
        \/ MoveOn(c, "unmark")
        \/ cmd' = [cmd EXCEPT ![c].pc = "holding", ![c].asked = A]
    BY <1>5 DEF CloseRound
  <2> HIDE DEF A
  <2> QED
    BY <2>1, <2>2, EndOnly, MoveOnOnly, HoldingOnly
<1>6. CASE Hold(c)
  BY <1>6, HeldOnly
<1>7. CASE Wake(c)
  <2> DEFINE A == cmd[c].asked \intersect Broke(snap)
  <2>1. A \in SUBSET Players
    BY ShapeParts, CommandFields
  <2>2. \/ cmd' = [cmd EXCEPT ![c].pc = "opening", ![c].asked = A, ![c].gen = link.gen]
        \/ MoveOn(c, "unmark")
    BY <1>7 DEF Wake
  <2> HIDE DEF A
  <2> QED
    BY <2>1, <2>2, AskOnly, MoveOnOnly
<1>8. CASE Unmark(c)
  BY <1>8, MoveOnOnly DEF Unmark
<1>9. CASE Eliminate(c)
  BY <1>9, MoveOnOnly, EndOnly DEF Eliminate
<1>10. CASE LoadSnapshot(c)
  BY <1>10, FailedOnly, LoadedOnly DEF LoadSnapshot
<1>11. CASE SaveStacks(c)
  BY <1>11, SaveMakes, FailedOnly, MoveOnOnly
<1>12. CASE FinishHand(c)
  BY <1>12, EndOnly DEF FinishHand
<1>13. CASE Throw(c)
  BY <1>13, EndOnly DEF Throw
<1> QED
  BY <1>1, <1>2, <1>3, <1>4, <1>5, <1>6, <1>7, <1>8, <1>9, <1>10, <1>11, <1>12, <1>13
  DEF Dealer, Step

\* Every step leaves commands.
LEMMA CmdStep == ASSUME Shape, [Next]_vars PROVE cmd' \in [Cmds -> Command]
<1>1. cmd \in [Cmds -> Command] /\ [c \in Cmds |-> IdleCmd] \in [Cmds -> Command]
  BY ShapeParts, IdleCommand
<1>2. CASE UNCHANGED cmd
  BY <1>1, <1>2
<1>3. ASSUME NEW c \in Cmds, Dealer(c) \/ Step(c) \/ Throw(c) PROVE cmd' \in [Cmds -> Command]
  BY <1>3, StepOnly DEF Only
<1>4. CASE Restart
  BY <1>1, <1>4 DEF Restart
<1> QED
  BY <1>2, <1>3, <1>4
  DEF Next, vars, Hall, Start, Bet, Kick, CloseRegistration, ResumeTable, Talk, ReadPoints, Answer,
      ApplyChips, Pay, RevertRebuy, Outage, Reconnect, Recovered

\* One dialogue changes, the others stay.
LEMMA Saying ==
  ASSUME Shape, NEW c \in Cmds, NEW p \in Players, NEW what \in Dialogue, Say(c, p, what)
  PROVE  /\ ask' \in [Cmds -> [Players -> Dialogue]] /\ ask'[c][p] = what
         /\ \A d \in Cmds, r \in Players : (d # c \/ r # p) => ask'[d][r] = ask[d][r]
BY ShapeParts DEF Say

\* a dialogue takes a step of its own
LEMMA TalkSays ==
  ASSUME Shape, NEW c \in Cmds, NEW p \in Players, Talk(c, p)
  PROVE  UNCHANGED ask \/ \E what \in Dialogue \ {"none"} : Say(c, p, what)
<1> USE DEF Dialogue, Outcomes, Undoing
<1>1. CASE ReadPoints(c, p)
  BY <1>1 DEF ReadPoints
<1>2. CASE Answer(c, p)
  BY <1>2 DEF Answer
<1>3. CASE ApplyChips(c, p)
  BY <1>3 DEF ApplyChips
<1>4. CASE Pay(c, p)
  BY <1>4 DEF Pay
<1>5. CASE RevertRebuy(c, p)
  <2> DEFINE what == CASE ask[c][p] = "undoInterrupted" -> "interrupted"
                       [] ask[c][p] = "undoDeferred"    -> "deferred"
                       [] OTHER                         -> "skipped"
  <2>1. what \in Dialogue \ {"none"}
    OBVIOUS
  <2>2. Say(c, p, what)
    BY <1>5 DEF RevertRebuy
  <2> HIDE DEF what
  <2> QED
    BY <2>1, <2>2
<1> QED
  BY <1>1, <1>2, <1>3, <1>4, <1>5 DEF Talk

\* Every step leaves dialogues.
LEMMA AskStep == ASSUME Shape, [Next]_vars PROVE ask' \in [Cmds -> [Players -> Dialogue]]
<1>1. ask \in [Cmds -> [Players -> Dialogue]]
  BY ShapeParts
<1>2. CASE UNCHANGED ask
  BY <1>1, <1>2
<1>3. ASSUME NEW c \in Cmds, OpenRound(c) PROVE ask' \in [Cmds -> [Players -> Dialogue]]
  BY <1>1, <1>3 DEF OpenRound, Dialogue, Outcomes
<1>4. ASSUME NEW c \in Cmds, CloseRound(c) PROVE ask' \in [Cmds -> [Players -> Dialogue]]
  BY <1>1, <1>4 DEF CloseRound, Dialogue
<1>5. ASSUME NEW c \in Cmds, NEW p \in Players, Talk(c, p)
      PROVE  ask' \in [Cmds -> [Players -> Dialogue]]
  BY <1>1, <1>5, TalkSays, Saying
<1>6. CASE Outage
  BY <1>1, <1>6 DEF Outage, Dialogue, Outcomes
<1>7. CASE Restart
  BY <1>7 DEF Restart, Dialogue
<1> QED
  BY <1>2, <1>3, <1>4, <1>5, <1>6, <1>7
  DEF Next, vars, Hall, Start, Bet, Kick, CloseRegistration, ResumeTable, Reconnect, Recovered,
      Dealer, Step, Throw, ResolveWinners, RetryCheckpoint, FilterKicked, Hold, Wake, Unmark,
      Eliminate, LoadSnapshot, SaveStacks, FinishHand

\* the flags the actions set
LEMMA FlagFields ==
  ASSUME Shape
  PROVE  memory.rebuy \in BOOLEAN /\ memory.checkpoint \in BOOLEAN
         /\ memory.waiter \in Cmds \union {NoCmd}
BY ShapeParts DEF Flags

\* The finally block of askRebuys clears its flag and its waiter.
LEMMA LeaveFlags ==
  ASSUME Shape, memory' = [memory EXCEPT !.rebuy = FALSE, !.waiter = NoCmd]
  PROVE  memory' \in Flags /\ memory'.rebuy = FALSE /\ memory'.waiter = NoCmd
         /\ memory'.checkpoint = memory.checkpoint
BY ShapeParts DEF Flags

\* A round of rebuys sets its flag.
LEMMA RebuyFlags ==
  ASSUME Shape, memory' = [memory EXCEPT !.rebuy = TRUE]
  PROVE  memory' \in Flags /\ memory'.waiter = memory.waiter
         /\ memory'.checkpoint = memory.checkpoint
BY ShapeParts DEF Flags

\* The waiter is set or removed.
LEMMA WaiterFlags ==
  ASSUME Shape, NEW w \in Cmds \union {NoCmd}, memory' = [memory EXCEPT !.waiter = w]
  PROVE  memory' \in Flags /\ memory'.waiter = w /\ memory'.rebuy = memory.rebuy
         /\ memory'.checkpoint = memory.checkpoint
BY ShapeParts DEF Flags

\* The checkpoint loop sets or clears its flag.
LEMMA CheckpointFlags ==
  ASSUME Shape, NEW b \in BOOLEAN, memory' = [memory EXCEPT !.checkpoint = b]
  PROVE  memory' \in Flags /\ memory'.checkpoint = b /\ memory'.rebuy = memory.rebuy
         /\ memory'.waiter = memory.waiter
BY ShapeParts DEF Flags

\* Every step leaves flags.
LEMMA MemoryStep == ASSUME Shape, [Next]_vars PROVE memory' \in Flags
<1>1. CASE UNCHANGED memory
  BY <1>1, ShapeParts
<1>2. ASSUME NEW c \in Cmds, Dealer(c) \/ Step(c) \/ Throw(c) PROVE memory' \in Flags
  <2>1. CASE \/ UNCHANGED memory
             \/ memory' = [memory EXCEPT !.rebuy = FALSE, !.waiter = NoCmd]
             \/ memory' = [memory EXCEPT !.rebuy = TRUE]
             \/ memory' = [memory EXCEPT !.waiter = c]
             \/ \E b \in BOOLEAN : memory' = [memory EXCEPT !.checkpoint = b]
    BY <1>1, <2>1, LeaveFlags, RebuyFlags, WaiterFlags, CheckpointFlags
  <2>2. CASE RetryCheckpoint(c) \/ Eliminate(c) \/ LoadSnapshot(c) \/ SaveStacks(c)
    BY <2>1, <2>2 DEF RetryCheckpoint, Eliminate, LoadSnapshot, SaveStacks, Failed
  <2>3. CASE FilterKicked(c) \/ Wake(c) \/ Throw(c)
    BY <2>1, <2>3 DEF FilterKicked, Wake, Throw
  <2>4. CASE CloseRound(c)
    BY <2>1, <2>4 DEF CloseRound
  <2>5. CASE UNCHANGED memory
    BY <1>1, <2>5
  <2> QED
    BY <1>2, <2>2, <2>3, <2>4, <2>5
    DEF Dealer, Step, ResolveWinners, OpenRound, Hold, Unmark, FinishHand
<1>3. CASE ResumeTable
  BY <1>3, WaiterFlags DEF ResumeTable
<1>4. CASE Restart
  BY <1>4 DEF Restart, Flags
<1> QED
  BY <1>1, <1>2, <1>3, <1>4
  DEF Next, vars, Hall, Start, Bet, Kick, CloseRegistration, Reconnect, Recovered, Outage, Talk,
      ReadPoints, Answer, ApplyChips, Pay, RevertRebuy

-----------------------------------------------------------------------------
(* Type correctness.                                                       *)

\* Every step leaves players in the sets of players.
LEMMA SetsStep ==
  ASSUME Shape, [Next]_vars
  PROVE  kicked' \subseteq Players /\ answered' \subseteq Players
<1>1. kicked \subseteq Players /\ answered \subseteq Players /\ cmd \in [Cmds -> Command]
  BY ShapeParts
<1>2. kicked' \subseteq Players
  BY <1>1
  DEF Next, vars, Hall, Start, Bet, Kick, CloseRegistration, Dealer, Step, Throw, ResolveWinners,
      RetryCheckpoint, FilterKicked, OpenRound, CloseRound, Hold, Wake, Unmark, Eliminate,
      LoadSnapshot, SaveStacks, FinishHand, ResumeTable, Talk, ReadPoints, Answer, ApplyChips, Pay,
      RevertRebuy, Outage, Reconnect, Recovered, Restart
<1>3. ASSUME NEW c \in Cmds, CloseRound(c) PROVE answered' \subseteq Players
  <2>1. cmd[c].asked \subseteq Players
    BY <1>1, CommandFields
  <2> QED
    BY <1>1, <1>3, <2>1 DEF CloseRound
<1>4. answered' \subseteq Players
  BY <1>1, <1>3
  DEF Next, vars, Hall, Start, Bet, Kick, CloseRegistration, Dealer, Step, Throw, ResolveWinners,
      RetryCheckpoint, FilterKicked, OpenRound, Hold, Wake, Unmark, Eliminate,
      LoadSnapshot, SaveStacks, FinishHand, ResumeTable, Talk, ReadPoints, Answer, ApplyChips, Pay,
      RevertRebuy, Outage, Reconnect, Recovered, Restart
<1> QED
  BY <1>2, <1>4

\* Every step leaves a flag for the history.
LEMMA HistoryStep == ASSUME Shape, [Next]_vars PROVE overlapped' \in BOOLEAN
<1>1. overlapped \in BOOLEAN
  BY ShapeParts
<1>2. UNCHANGED overlapped \/ \E c \in Cmds : overlapped' = (overlapped \/ Unflagged(c))
  BY DEF Next, vars, Hall, Start, Bet, Kick, CloseRegistration, Dealer, Step, Throw, ResolveWinners,
         RetryCheckpoint, FilterKicked, OpenRound, CloseRound, Hold, Wake, Unmark, Eliminate,
         LoadSnapshot, SaveStacks, FinishHand, ResumeTable, Talk, ReadPoints, Answer, ApplyChips,
         Pay, RevertRebuy, Outage, Reconnect, Recovered, Restart
<1> QED
  BY <1>1, <1>2

\* Every outage is a fault, so the generations stay below their bound.
LEMMA FaultsStep ==
  ASSUME Shape, [Next]_vars
  PROVE  link' \in Link /\ faults' \in 0 .. MaxFaults /\ GensFit'
<1> DEFINE Fine == link' \in Link /\ faults' \in 0 .. MaxFaults /\ link'.gen <= faults'
<1>0. SUFFICES Fine
  BY DEF GensFit
<1>1. link \in Link /\ faults \in 0 .. MaxFaults /\ link.gen <= faults /\ MaxFaults \in Nat
  BY ShapeParts, Bounds DEF GensFit
<1>2. link.gen \in 0 .. MaxFaults /\ link.phase \in {"up", "down", "recovering"}
  BY <1>1 DEF Link
<1>3. CASE UNCHANGED link /\ (UNCHANGED faults \/ (faults < MaxFaults /\ faults' = faults + 1))
  BY <1>1, <1>2, <1>3
<1>4. CASE Outage
  <2>1. /\ faults < MaxFaults /\ faults' = faults + 1
        /\ link' = [phase |-> "down", gen |-> link.gen + 1]
    BY <1>4 DEF Outage
  <2> QED
    BY <1>1, <1>2, <2>1 DEF Link
<1>5. CASE Reconnect \/ Recovered
  <2>1. UNCHANGED faults /\ \E ph \in {"up", "recovering"} : link' = [link EXCEPT !.phase = ph]
    BY <1>5 DEF Reconnect, Recovered
  <2> QED
    BY <1>1, <2>1 DEF Link
<1>6. CASE Restart
  <2>1. faults < MaxFaults /\ faults' = faults + 1 /\ link' = [phase |-> "up", gen |-> 0]
    BY <1>6 DEF Restart
  <2> QED
    BY <1>1, <2>1 DEF Link
<1> HIDE DEF Fine
<1>9. ASSUME NEW c \in Cmds, NEW p \in Players, RevertRebuy(c, p) PROVE Fine
  <2>1. UNCHANGED link /\ (UNCHANGED faults \/ (faults < MaxFaults /\ faults' = faults + 1))
    BY <1>9 DEF RevertRebuy
  <2> QED
    BY <1>3, <2>1
<1>10. CASE UNCHANGED <<link, faults>>
  BY <1>3, <1>10
<1>7. CASE Next
  BY <1>4, <1>5, <1>6, <1>7, <1>9, <1>10
  DEF Next, Hall, Start, Bet, Kick, CloseRegistration, Dealer, Step, Throw, ResolveWinners,
      RetryCheckpoint, FilterKicked, OpenRound, CloseRound, Hold, Wake, Unmark, Eliminate,
      LoadSnapshot, SaveStacks, FinishHand, ResumeTable, Talk, ReadPoints, Answer, ApplyChips, Pay
<1>8. CASE UNCHANGED vars
  BY <1>3, <1>8 DEF vars
<1> QED
  BY <1>7, <1>8

\* What is owed can be counted.
LEMMA UnpaidCounted == IsFiniteSet(Unpaid) /\ Cardinality(Unpaid) \in Nat
<1>1. IsFiniteSet(Cmds \X Players)
  BY Bounds, FS_Product
<1>2. Unpaid \subseteq Cmds \X Players
  BY DEF Unpaid
<1> QED
  BY <1>1, <1>2, FS_Subset, FS_CardinalityType

\* Every step leaves a count of gifts.
LEMMA GiftsStep == ASSUME Shape, [Next]_vars PROVE gifts' \in Gifts
<1>1. gifts \in Gifts
  BY ShapeParts
<1>2. gifts.table \in Int /\ gifts.db \in Int
  BY <1>1 DEF Gifts
<1>3. CASE UNCHANGED gifts
  BY <1>1, <1>3
<1>4. CASE \E n \in Int : gifts' = [gifts EXCEPT !.table = n] \/ gifts' = [gifts EXCEPT !.db = n]
  BY <1>1, <1>4 DEF Gifts
<1>5. ASSUME NEW c \in Cmds, SaveStacks(c) PROVE gifts' \in Gifts
  <2>1. UNCHANGED gifts \/ gifts' = [gifts EXCEPT !.db = gifts.table]
    BY <1>5 DEF SaveStacks
  <2> QED
    BY <1>2, <1>3, <1>4, <2>1
<1>6. ASSUME NEW c \in Cmds, NEW p \in Players, Pay(c, p) \/ RevertRebuy(c, p) PROVE gifts' \in Gifts
  <2>1. \/ UNCHANGED gifts
        \/ gifts' = [gifts EXCEPT !.table = gifts.table + 1]
        \/ gifts' = [gifts EXCEPT !.table = gifts.table - 1]
    BY <1>6 DEF Pay, RevertRebuy
  <2>2. gifts.table + 1 \in Int /\ gifts.table - 1 \in Int
    BY <1>2
  <2> QED
    BY <1>3, <1>4, <2>1, <2>2
<1>7. CASE Restart
  <2> DEFINE n == gifts.table + Cardinality(Unpaid)
  <2>1. gifts' = [gifts EXCEPT !.table = n] \/ gifts' = [gifts EXCEPT !.table = gifts.db]
    BY <1>7 DEF Restart
  <2>2. n \in Int
    BY <1>2, UnpaidCounted
  <2> HIDE DEF n
  <2> QED
    BY <1>2, <1>4, <2>1, <2>2
<1> QED
  BY <1>3, <1>5, <1>6, <1>7
  DEF Next, vars, Hall, Start, Bet, Kick, CloseRegistration, Dealer, Step, Throw, ResolveWinners,
      RetryCheckpoint, FilterKicked, OpenRound, CloseRound, Hold, Wake, Unmark, Eliminate,
      LoadSnapshot, FinishHand, ResumeTable, Talk, ReadPoints, Answer, ApplyChips,
      Outage, Reconnect, Recovered

\* Every step keeps the types and the counter.
LEMMA ShapeStep == ASSUME Shape, [Next]_vars PROVE Shape'
<1>1. db' \in Database /\ ActiveCounted'
  BY DbStep DEF Counted, ActiveCounted
<1>2. /\ snap' \in Snapshot /\ kicked' \subseteq Players /\ link' \in Link
      /\ cmd' \in [Cmds -> Command] /\ ask' \in [Cmds -> [Players -> Dialogue]]
      /\ memory' \in Flags /\ faults' \in 0 .. MaxFaults /\ gifts' \in Gifts
      /\ answered' \subseteq Players /\ overlapped' \in BOOLEAN /\ GensFit'
  BY SnapStep, SetsStep, HistoryStep, FaultsStep, CmdStep, AskStep, MemoryStep, GiftsStep
<1> QED
  BY <1>1, <1>2
  DEF Shape, TypeOK, Snapshot, Database, Link, Pcs, Command, Flags, Gifts

\* The state at the start has them.
LEMMA ShapeInit == Init => Shape
<1> SUFFICES ASSUME Init PROVE Shape
  OBVIOUS
<1>1. snap \in Snapshot
  BY DEF Init, Snapshot
<1>2. Cardinality(Players) \in Nat
  BY Bounds, FS_CardinalityType
<1>3. db \in Database
  BY <1>2, Bounds DEF Init, Database
<1>4. cmd \in [Cmds -> Command] /\ ask \in [Cmds -> [Players -> Dialogue]]
  BY IdleCommand DEF Init, Dialogue
<1>5. /\ memory \in Flags /\ link \in Link /\ faults \in 0 .. MaxFaults /\ gifts \in Gifts
      /\ kicked \subseteq Players /\ answered \subseteq Players /\ link.gen <= faults
  BY Bounds DEF Init, Flags, Link, Gifts
<1>6. Counted(db) = Players
  BY DEF Init, Counted
<1>7. ActiveCounted
  BY <1>6 DEF Init, ActiveCounted, Counted
<1>8. overlapped \in BOOLEAN
  BY DEF Init
<1> QED
  BY <1>1, <1>3, <1>4, <1>5, <1>7, <1>8, ShapeParts DEF GensFit

\* The types hold in every state, for any number of commands, players and faults.
THEOREM ShapeHolds == Spec => []Shape
<1>1. Init => Shape
  BY ShapeInit
<1>2. Shape /\ [Next]_vars => Shape'
  BY ShapeStep
<1> QED
  BY <1>1, <1>2, PTL DEF Spec

\* Every variable keeps its type: a rebuy that is reverted never makes a stack negative
\* (revertRebuy), no attempt is counted beyond the last, no outage beyond the bound.
THEOREM TypeCorrect == Spec => []TypeOK
<1>1. Shape => TypeOK
  BY DEF Shape
<1> QED
  BY <1>1, ShapeHolds, PTL

\* activePlayers is the number of participations that are not eliminated, whatever fails between
\* the commit of eliminatePlayer and Redis, and however many commands eliminate the same players.
THEOREM ActiveIsCounted == Spec => []ActiveCounted
<1>1. Shape => ActiveCounted
  BY DEF Shape
<1> QED
  BY <1>1, ShapeHolds, PTL

-----------------------------------------------------------------------------
(* The three maps in memory belong to a command that is under way.         *)

InRound == {"opening", "asking", "holding", "held"}

FlagsHeld ==
  /\ memory.rebuy => \E c \in Cmds : cmd[c].pc \in InRound
  /\ memory.checkpoint => \E c \in Cmds : cmd[c].pc \in {"load", "save"}
  /\ memory.waiter # NoCmd => cmd[memory.waiter].pc \in {"holding", "held"}

\* a step of c keeps the flags, if it clears those c held and lets go
LEMMA FlagsKept ==
  ASSUME Shape, memory' \in Flags, FlagsHeld, NEW c \in Cmds, Only(c),
         memory'.rebuy => cmd'[c].pc \in InRound \/ (memory.rebuy /\ cmd[c].pc \notin InRound),
         memory'.checkpoint => \/ cmd'[c].pc \in {"load", "save"}
                               \/ memory.checkpoint /\ cmd[c].pc \notin {"load", "save"},
         \/ memory'.waiter = NoCmd
         \/ memory'.waiter = c /\ cmd'[c].pc \in {"holding", "held"}
         \/ memory'.waiter = memory.waiter /\ memory.waiter # c
  PROVE  FlagsHeld'
<1>1. memory'.rebuy => \E d \in Cmds : cmd'[d].pc \in InRound
  BY DEF FlagsHeld, Only
<1>2. memory'.checkpoint => \E d \in Cmds : cmd'[d].pc \in {"load", "save"}
  BY DEF FlagsHeld, Only
<1>3. memory'.waiter # NoCmd => cmd'[memory'.waiter].pc \in {"holding", "held"}
  BY DEF FlagsHeld, Only, Flags
<1> QED
  BY <1>1, <1>2, <1>3 DEF FlagsHeld

\* A step of a command keeps the flags, stage by stage.
LEMMA FlagsInStep ==
  ASSUME Shape, FlagsHeld, NEW c \in Cmds, Dealer(c) \/ Step(c) \/ Throw(c), memory' \in Flags
  PROVE  FlagsHeld'
<1> USE DEF InRound, Pcs, Busy
<1>0. Only(c) /\ memory.rebuy \in BOOLEAN /\ memory.checkpoint \in BOOLEAN
  BY StepOnly, FlagFields
<1>w. memory.waiter = c => cmd[c].pc \in {"holding", "held"}
  BY Bounds DEF FlagsHeld
<1>1. ASSUME NEW w \in Players, ResolveWinners(c, w) PROVE FlagsHeld'
  <2>1. cmd'[c].pc = "settled" /\ cmd[c].pc = "idle" /\ UNCHANGED memory
    BY <1>1, ResolveMakes, ResolveOnly DEF ResolveWinners
  <2> QED
    BY <1>0, <1>w, <2>1, FlagsKept
<1>2. CASE RetryCheckpoint(c)
  <2>1. cmd'[c].pc = "save" /\ cmd[c].pc = "idle"
    BY <1>2, RetryOnly DEF RetryCheckpoint
  <2>2. memory'.checkpoint = TRUE /\ memory'.rebuy = memory.rebuy /\ memory'.waiter = memory.waiter
    BY <1>2, CheckpointFlags DEF RetryCheckpoint
  <2> QED
    BY <1>0, <1>w, <2>1, <2>2, FlagsKept
<1>3. CASE FilterKicked(c)
  <2> DEFINE A == cmd[c].asked \ kicked
  <2>1. A \in SUBSET Players /\ cmd[c].pc = "settled"
    BY <1>3, ShapeParts, CommandFields DEF FilterKicked
  <2>2. \/ /\ cmd' = [cmd EXCEPT ![c].pc = "opening", ![c].asked = A, ![c].gen = link.gen]
           /\ memory' = [memory EXCEPT !.rebuy = TRUE]
        \/ MoveOn(c, "eliminate") /\ UNCHANGED memory
    BY <1>3 DEF FilterKicked
  <2> HIDE DEF A
  <2>3. CASE MoveOn(c, "eliminate") /\ UNCHANGED memory
    <3>1. cmd'[c].pc = "eliminate"
      BY <2>3, MoveOnOnly
    <3> QED
      BY <1>0, <1>w, <2>1, <2>3, <3>1, FlagsKept
  <2>4. CASE /\ cmd' = [cmd EXCEPT ![c].pc = "opening", ![c].asked = A, ![c].gen = link.gen]
             /\ memory' = [memory EXCEPT !.rebuy = TRUE]
    <3>1. cmd'[c].pc = "opening"
      BY <2>1, <2>4, AskOnly
    <3>2. memory'.checkpoint = memory.checkpoint /\ memory'.waiter = memory.waiter
      BY <2>4, RebuyFlags
    <3> QED
      BY <1>0, <1>w, <2>1, <3>1, <3>2, FlagsKept
  <2> QED
    BY <2>2, <2>3, <2>4
<1>4. CASE OpenRound(c)
  <2>1. cmd'[c].pc = "asking" /\ cmd[c].pc = "opening" /\ UNCHANGED memory
    BY <1>4, OpenOnly DEF OpenRound
  <2> QED
    BY <1>0, <1>w, <2>1, FlagsKept
<1>5. CASE CloseRound(c)
  <2> DEFINE A == {p \in cmd[c].asked : ask[c][p] \in Interrupted}
  <2>1. A \in SUBSET Players /\ cmd[c].pc = "asking"
    BY <1>5, ShapeParts, CommandFields DEF CloseRound
  <2>2. \/ memory' = [memory EXCEPT !.rebuy = FALSE, !.waiter = NoCmd]
        \/ /\ cmd' = [cmd EXCEPT ![c].pc = "holding", ![c].asked = A]
           /\ memory' = [memory EXCEPT !.waiter = c]
    BY <1>5 DEF CloseRound
  <2> HIDE DEF A
  <2>3. CASE memory' = [memory EXCEPT !.rebuy = FALSE, !.waiter = NoCmd]
    <3>1. memory'.rebuy = FALSE /\ memory'.waiter = NoCmd /\ memory'.checkpoint = memory.checkpoint
      BY <2>3, LeaveFlags
    <3> QED
      BY <1>0, <2>1, <3>1, FlagsKept
  <2>4. CASE /\ cmd' = [cmd EXCEPT ![c].pc = "holding", ![c].asked = A]
             /\ memory' = [memory EXCEPT !.waiter = c]
    <3>1. cmd'[c].pc = "holding"
      BY <2>1, <2>4, HoldingOnly
    <3>2. memory'.waiter = c /\ memory'.checkpoint = memory.checkpoint
      BY <2>4, WaiterFlags
    <3> QED
      BY <1>0, <2>1, <3>1, <3>2, FlagsKept
  <2> QED
    BY <2>2, <2>3, <2>4
<1>6. CASE Hold(c)
  <2>1. cmd'[c].pc = "held" /\ cmd[c].pc = "holding" /\ UNCHANGED memory
    BY <1>6, HeldOnly DEF Hold
  <2> QED
    BY <1>0, <2>1, FlagsKept
<1>7. CASE Wake(c)
  <2> DEFINE A == cmd[c].asked \intersect Broke(snap)
  <2>1. A \in SUBSET Players /\ cmd[c].pc = "held" /\ memory.waiter # c
    BY <1>7, ShapeParts, CommandFields DEF Wake
  <2>2. \/ /\ cmd' = [cmd EXCEPT ![c].pc = "opening", ![c].asked = A, ![c].gen = link.gen]
           /\ UNCHANGED memory
        \/ memory' = [memory EXCEPT !.rebuy = FALSE, !.waiter = NoCmd]
    BY <1>7 DEF Wake
  <2> HIDE DEF A
  <2>3. CASE memory' = [memory EXCEPT !.rebuy = FALSE, !.waiter = NoCmd]
    <3>1. memory'.rebuy = FALSE /\ memory'.waiter = NoCmd /\ memory'.checkpoint = memory.checkpoint
      BY <2>3, LeaveFlags
    <3> QED
      BY <1>0, <2>1, <3>1, FlagsKept
  <2>4. CASE /\ cmd' = [cmd EXCEPT ![c].pc = "opening", ![c].asked = A, ![c].gen = link.gen]
             /\ UNCHANGED memory
    <3>1. cmd'[c].pc = "opening"
      BY <2>1, <2>4, AskOnly
    <3> QED
      BY <1>0, <2>1, <2>4, <3>1, FlagsKept
  <2> QED
    BY <2>2, <2>3, <2>4
<1>8. CASE Unmark(c)
  <2>1. cmd'[c].pc = "eliminate" /\ cmd[c].pc = "unmark" /\ UNCHANGED memory
    BY <1>8, MoveOnOnly DEF Unmark
  <2> QED
    BY <1>0, <1>w, <2>1, FlagsKept
<1>9. CASE Eliminate(c)
  <2>1. cmd[c].pc = "eliminate"
    BY <1>9 DEF Eliminate
  <2>2. CASE MoveOn(c, "load") /\ memory' = [memory EXCEPT !.checkpoint = TRUE]
    <3>1. cmd'[c].pc = "load" /\ memory'.waiter = memory.waiter /\ memory'.rebuy = memory.rebuy
      BY <2>2, MoveOnOnly, CheckpointFlags
    <3> QED
      BY <1>0, <1>w, <2>1, <3>1, FlagsKept
  <2>3. CASE UNCHANGED memory
    BY <1>0, <1>w, <2>1, <2>3, FlagsKept
  <2> QED
    BY <1>9, <2>2, <2>3 DEF Eliminate
<1>f. ASSUME cmd[c].pc \in {"load", "save"}, Failed(c) PROVE FlagsHeld'
  <2>1. \/ cmd'[c].pc = "load" /\ UNCHANGED memory
        \/ cmd'[c].pc = "idle" /\ memory' = [memory EXCEPT !.checkpoint = FALSE]
    BY <1>f, FailedOnly
  <2>2. CASE cmd'[c].pc = "load" /\ UNCHANGED memory
    BY <1>0, <1>w, <1>f, <2>2, FlagsKept
  <2>3. CASE memory' = [memory EXCEPT !.checkpoint = FALSE]
    <3>1. memory'.checkpoint = FALSE /\ memory'.rebuy = memory.rebuy
          /\ memory'.waiter = memory.waiter
      BY <2>3, CheckpointFlags
    <3> QED
      BY <1>0, <1>w, <1>f, <3>1, FlagsKept
  <2> QED
    BY <2>1, <2>2, <2>3
<1>10. CASE LoadSnapshot(c)
  <2>1. cmd[c].pc = "load"
    BY <1>10 DEF LoadSnapshot
  <2>2. CASE /\ cmd' = [cmd EXCEPT ![c].pc = "save", ![c].stack = snap.stack,
                                   ![c].seated = snap.seated]
             /\ UNCHANGED memory
    <3>1. cmd'[c].pc = "save"
      BY <2>2, LoadedOnly
    <3> QED
      BY <1>0, <1>w, <2>1, <2>2, <3>1, FlagsKept
  <2> QED
    BY <1>10, <1>f, <2>1, <2>2 DEF LoadSnapshot
<1>11. CASE SaveStacks(c)
  <2>1. cmd[c].pc = "save"
    BY <1>11 DEF SaveStacks
  <2>2. CASE memory' = [memory EXCEPT !.checkpoint = FALSE]
    <3>1. memory'.checkpoint = FALSE /\ memory'.rebuy = memory.rebuy
          /\ memory'.waiter = memory.waiter
      BY <2>2, CheckpointFlags
    <3> QED
      BY <1>0, <1>w, <2>1, <3>1, FlagsKept
  <2> QED
    BY <1>11, <1>f, <2>1, <2>2, SaveMakes
<1>12. CASE FinishHand(c)
  <2>1. cmd[c].pc = "finish" /\ UNCHANGED memory
    BY <1>12 DEF FinishHand
  <2> QED
    BY <1>0, <1>w, <2>1, FlagsKept
<1>13. CASE Throw(c)
  <2>1. CASE cmd[c].pc \in {"opening", "holding", "held"}
    <3>1. memory' = [memory EXCEPT !.rebuy = FALSE, !.waiter = NoCmd]
      BY <1>13, <2>1 DEF Throw
    <3>2. memory'.rebuy = FALSE /\ memory'.waiter = NoCmd /\ memory'.checkpoint = memory.checkpoint
      BY <3>1, LeaveFlags
    <3> QED
      BY <1>0, <2>1, <3>2, FlagsKept
  <2>2. CASE cmd[c].pc \notin {"opening", "holding", "held"}
    <3>1. UNCHANGED memory /\ cmd[c].pc \in {"settled", "unmark", "eliminate", "finish"}
      BY <1>13, <2>2 DEF Throw
    <3> QED
      BY <1>0, <1>w, <3>1, FlagsKept
  <2> QED
    BY <2>1, <2>2
<1> QED
  BY <1>1, <1>2, <1>3, <1>4, <1>5, <1>6, <1>7, <1>8, <1>9, <1>10, <1>11, <1>12, <1>13
  DEF Dealer, Step

\* Every step keeps the flags.
LEMMA FlagsStep == ASSUME Shape, FlagsHeld, [Next]_vars PROVE FlagsHeld'
<1>1. memory' \in Flags
  BY MemoryStep
<1>2. CASE UNCHANGED <<cmd, memory>>
  BY <1>2 DEF FlagsHeld
<1>3. ASSUME NEW c \in Cmds, Dealer(c) \/ Step(c) \/ Throw(c) PROVE FlagsHeld'
  BY <1>1, <1>3, FlagsInStep
<1>4. CASE ResumeTable
  <2>1. UNCHANGED cmd /\ memory'.waiter = NoCmd /\ memory'.rebuy = memory.rebuy
        /\ memory'.checkpoint = memory.checkpoint
    BY <1>4, WaiterFlags DEF ResumeTable
  <2> QED
    BY <2>1 DEF FlagsHeld
<1>5. CASE Restart
  BY <1>5 DEF Restart, FlagsHeld
<1> QED
  BY <1>2, <1>3, <1>4, <1>5
  DEF Next, vars, Hall, Start, Bet, Kick, CloseRegistration, Reconnect, Recovered, Outage, Talk,
      ReadPoints, Answer, ApplyChips, Pay, RevertRebuy

\* Whoever set a flag is still under way: rebuyInFlight and resumeWaiters by a round of askRebuys,
\* checkpointInFlight by a checkpoint loop.
THEOREM FlagsAreHeld == Spec => [](Shape /\ FlagsHeld)
<1>1. Init => Shape /\ FlagsHeld
  BY ShapeInit DEF Init, FlagsHeld
<1>2. Shape /\ FlagsHeld /\ [Next]_vars => (Shape /\ FlagsHeld)'
  BY ShapeStep, FlagsStep
<1> QED
  BY <1>1, <1>2, PTL DEF Spec

\* When no command is under way at the end of a hand, no flag turns the dealer's retryCheckpoint
\* away: the finally blocks have cleared them whatever was thrown.  For any number of commands.
THEOREM AlwaysAWayOut == Spec => []WayOut
<1>1. Shape /\ FlagsHeld => WayOut
  BY FlagFields DEF FlagsHeld, WayOut, InRound
<1> QED
  BY <1>1, FlagsAreHeld, PTL

-----------------------------------------------------------------------------
(* A hand in play is not wiped.                                            *)

\* Only a restart takes a hand in play to WAITING.
LEMMA HandKeptByStep ==
  ASSUME Shape, [Next]_vars
  PROVE  snap.phase \in {"BETTING", "SHOWDOWN"} => snap'.phase # "WAITING" \/ faults' # faults
<1> SUFFICES ASSUME snap.phase \in {"BETTING", "SHOWDOWN"}, faults' = faults
             PROVE  snap'.phase # "WAITING"
  OBVIOUS
<1>1. CASE Hall
  <2>1. ASSUME NEW S \in SUBSET Players, Start(S) PROVE FALSE
    BY <2>1 DEF Start
  <2> QED
    BY <1>1, <2>1, BetMakes DEF Hall, Kick, CloseRegistration
<1>2. ASSUME NEW c \in Cmds, Dealer(c) \/ Step(c) \/ Throw(c) PROVE snap'.phase # "WAITING"
  <2>1. ASSUME NEW w \in Players, ResolveWinners(c, w) PROVE snap'.phase # "WAITING"
    BY <2>1, ResolveMakes
  <2>2. CASE Hold(c)
    BY <2>2, HoldMakes DEF Hold
  <2>3. CASE FinishHand(c)
    BY <2>3, FinishMakes
  <2> QED
    BY <1>2, <2>1, <2>2, <2>3
    DEF Dealer, Step, Throw, RetryCheckpoint, FilterKicked, OpenRound, CloseRound, Wake, Unmark,
        Eliminate, LoadSnapshot, SaveStacks
<1>3. CASE ResumeTable
  BY <1>3, HoldMakes DEF ResumeTable
<1>4. ASSUME NEW c \in Cmds, NEW p \in Players, Talk(c, p) PROVE snap'.phase # "WAITING"
  BY <1>4, ApplyMakes, RevertMakes DEF Talk, ReadPoints, Answer, Pay
<1>5. CASE Outage \/ Reconnect
  BY <1>5 DEF Outage, Reconnect
<1>6. CASE Recovered
  BY <1>6, StopsMakes DEF Recovered
<1>7. CASE Restart
  <2>1. faults' = faults + 1 /\ faults \in 0 .. MaxFaults
    BY <1>7, ShapeParts DEF Restart
  <2>2. faults' # faults
    BY <2>1, Bounds
  <2> QED
    BY <2>2
<1>8. CASE UNCHANGED vars
  BY <1>8 DEF vars
<1> QED
  BY <1>1, <1>2, <1>3, <1>4, <1>5, <1>6, <1>7, <1>8 DEF Next

\* finishHand and initTable never wipe a hand in play: for any number of commands, whatever came
\* between the reading of the phase and the lock.
THEOREM HandIsKept == Spec => LiveHandKept
<1>1. Shape /\ [Next]_vars
        => [snap.phase \in {"BETTING", "SHOWDOWN"} => snap'.phase # "WAITING" \/ faults' # faults]_vars
  BY HandKeptByStep
<1> QED
  BY <1>1, ShapeHolds, PTL DEF Spec, LiveHandKept

-----------------------------------------------------------------------------
(* Who is still to be asked.                                               *)

\* a dialogue belongs to a round that is open, and to a player it asks
AskingFits ==
  \A c \in Cmds, p \in Players :
    ask[c][p] # "none" => cmd[c].pc = "asking" /\ p \in cmd[c].asked

\* A step of a dialogue needs one, and moves no command.
LEMMA TalkTalks ==
  ASSUME NEW c \in Cmds, NEW p \in Players, Talk(c, p)
  PROVE  ask[c][p] # "none" /\ UNCHANGED cmd
<1> USE DEF Undoing
<1>1. CASE ReadPoints(c, p) \/ Answer(c, p) \/ ApplyChips(c, p)
  BY <1>1 DEF ReadPoints, Answer, ApplyChips
<1>2. CASE Pay(c, p)
  BY <1>2 DEF Pay
<1>3. CASE RevertRebuy(c, p)
  BY <1>3 DEF RevertRebuy
<1> QED
  BY <1>1, <1>2, <1>3 DEF Talk

\* Every step keeps the dialogues with the round they belong to.
LEMMA AskingStep == ASSUME Shape, AskingFits, [Next]_vars PROVE AskingFits'
<1>1. ask \in [Cmds -> [Players -> Dialogue]] /\ cmd \in [Cmds -> Command]
  BY ShapeParts
<1>2. CASE UNCHANGED <<cmd, ask>>
  BY <1>2 DEF AskingFits
<1>3. ASSUME NEW c \in Cmds, Dealer(c) \/ Step(c) \/ Throw(c) PROVE AskingFits'
  <2>1. Only(c)
    BY <1>3, StepOnly
  <2>2. CASE OpenRound(c)
    <3>1. cmd'[c].pc = "asking" /\ cmd'[c].asked = cmd[c].asked
      BY <2>2, OpenOnly
    <3>2. \A p \in Players : ask'[c][p] # "none" => p \in cmd[c].asked
      BY <1>1, <2>2 DEF OpenRound
    <3>3. \A d \in Cmds : d # c => ask'[d] = ask[d]
      BY <1>1, <2>2 DEF OpenRound
    <3> QED
      BY <2>1, <3>1, <3>2, <3>3 DEF AskingFits, Only
  <2>3. CASE CloseRound(c)
    <3>1. \A p \in Players : ask'[c][p] = "none"
      BY <1>1, <2>3 DEF CloseRound
    <3>2. \A d \in Cmds : d # c => ask'[d] = ask[d]
      BY <1>1, <2>3 DEF CloseRound
    <3> QED
      BY <2>1, <3>1, <3>2 DEF AskingFits, Only
  <2>4. CASE cmd[c].pc # "asking" /\ UNCHANGED ask
    BY <2>1, <2>4 DEF AskingFits, Only
  <2> QED
    BY <1>3, <2>2, <2>3, <2>4
    DEF Dealer, Step, Throw, ResolveWinners, RetryCheckpoint, FilterKicked, Hold, Wake, Unmark,
        Eliminate, LoadSnapshot, SaveStacks, FinishHand
<1>4. ASSUME NEW c \in Cmds, NEW p \in Players, Talk(c, p) PROVE AskingFits'
  BY <1>4, TalkTalks, TalkSays, Saying DEF AskingFits
<1>5. CASE Outage
  <2>1. UNCHANGED cmd
    BY <1>5 DEF Outage
  <2>2. \A c \in Cmds, p \in Players : ask'[c][p] # "none" => ask[c][p] # "none"
    BY <1>5 DEF Outage
  <2> QED
    BY <2>1, <2>2 DEF AskingFits
<1>6. CASE Restart
  BY <1>6 DEF Restart, AskingFits
<1> QED
  BY <1>2, <1>3, <1>4, <1>5, <1>6
  DEF Next, vars, Hall, Start, Bet, Kick, CloseRegistration, ResumeTable, Reconnect, Recovered

\* a kick ends the participation, and nothing begins one again
KickedAreOut == \A p \in kicked : db.status[p] # "PLAYING"

\* Every step keeps the kicked out.
LEMMA KickedStep == ASSUME Shape, KickedAreOut, [Next]_vars PROVE KickedAreOut'
<1>1. kicked \subseteq Players /\ db \in Database
  BY ShapeParts
<1>2. CASE UNCHANGED <<kicked, db>>
  BY <1>2 DEF KickedAreOut
<1>3. CASE UNCHANGED kicked /\ db'.status = db.status
  BY <1>3 DEF KickedAreOut
<1>4. ASSUME NEW B, db' = EliminatePlayer(B), kicked' \subseteq kicked PROVE KickedAreOut'
  BY <1>1, <1>4, EliminateMakes DEF KickedAreOut
<1>5. ASSUME NEW p \in Players, Kick(p) PROVE KickedAreOut'
  <2>1. kicked' = kicked \union {p}
    BY <1>5 DEF Kick
  <2> QED
    BY <1>1, <1>5, <2>1, KickMakes DEF KickedAreOut, Playing
<1>6. CASE Hall
  BY <1>2, <1>3, <1>5, <1>6, CloseMakes DEF Hall, Start, Bet, CloseRegistration
<1>7. ASSUME NEW c \in Cmds, Dealer(c) \/ Step(c) \/ Throw(c) PROVE KickedAreOut'
  <2>1. CASE Eliminate(c)
    BY <1>4, <2>1 DEF Eliminate
  <2>2. CASE SaveStacks(c)
    <3>1. UNCHANGED kicked
      BY <2>2 DEF SaveStacks
    <3> QED
      BY <1>3, <2>2, <3>1, SaveMakes
  <2>3. CASE FinishHand(c)
    <3>1. UNCHANGED kicked \/ kicked' = kicked \ Broke(snap)
      BY <2>3 DEF FinishHand
    <3>2. kicked' \subseteq kicked
      BY <3>1
    <3>3. CASE UNCHANGED db
      BY <3>2, <3>3 DEF KickedAreOut
    <3> QED
      BY <1>4, <2>3, <3>2, <3>3, FinishDb
  <2>4. CASE UNCHANGED <<kicked, db>>
    BY <1>2, <2>4
  <2> QED
    BY <1>7, <2>1, <2>2, <2>3, <2>4
    DEF Dealer, Step, Throw, ResolveWinners, RetryCheckpoint, FilterKicked, OpenRound, CloseRound,
        Hold, Wake, Unmark, LoadSnapshot
<1>8. ASSUME NEW c \in Cmds, NEW p \in Players, Talk(c, p) PROVE KickedAreOut'
  <2>1. UNCHANGED kicked
    BY <1>8 DEF Talk, ReadPoints, Answer, ApplyChips, Pay, RevertRebuy
  <2>2. db'.status = db.status
    BY <1>8, PayMakes DEF Talk, ReadPoints, Answer, ApplyChips, RevertRebuy
  <2> QED
    BY <1>3, <2>1, <2>2
<1>9. CASE Restart
  BY <1>2, <1>9 DEF Restart, KickedAreOut
<1> QED
  BY <1>2, <1>6, <1>7, <1>8, <1>9 DEF Next, vars, ResumeTable, Outage, Reconnect, Recovered

-----------------------------------------------------------------------------
(* One dealer command at a time, until a retry overlaps.                   *)

\* a command is under way only between a hand and the next
BusyAtEnd == \A c \in Cmds : cmd[c].pc # "idle" => snap.phase = "HAND_END"

\* one at a time, and whatever it does in a round or a checkpoint its flag is set
Alone   == \A c, d \in Cmds : cmd[c].pc # "idle" /\ cmd[d].pc # "idle" => c = d
Covered ==
  \A c \in Cmds : /\ cmd[c].pc \in InRound => memory.rebuy
                  /\ cmd[c].pc \in {"load", "save"} => memory.checkpoint

OneAtATime == Shape /\ BusyAtEnd /\ Alone /\ Covered

\* nobody but c is under way
Lone(c) == \A d \in Cmds : d # c => cmd[d].pc = "idle"

\* A command that goes on is the only one; one that begins finds none, for the phase or for the
\* flags, unless it overlaps.
LEMMA ActsAlone ==
  ASSUME OneAtATime, NEW c \in Cmds, Dealer(c) \/ Step(c) \/ Throw(c), ~ overlapped'
  PROVE  Lone(c)
<1>0. Shape /\ BusyAtEnd /\ Alone /\ Covered /\ cmd \in [Cmds -> Command]
  BY ShapeParts DEF OneAtATime
<1>1. CASE cmd[c].pc # "idle"
  BY <1>0, <1>1 DEF Alone, Lone
<1>2. ASSUME NEW w \in Players, ResolveWinners(c, w) PROVE Lone(c)
  BY <1>0, <1>2 DEF ResolveWinners, BusyAtEnd, Lone
<1>3. CASE RetryCheckpoint(c)
  <2>1. ~ Unflagged(c) /\ ~ memory.rebuy /\ ~ memory.checkpoint
    BY <1>3 DEF RetryCheckpoint
  <2>2. \A d \in Cmds : cmd[d].pc \in Pcs
    BY <1>0, CommandFields
  <2>3. \A d \in Cmds : cmd[d].pc \notin InRound /\ cmd[d].pc \notin {"load", "save"}
    BY <1>0, <2>1 DEF Covered
  <2>4. \A d \in Cmds : d # c => cmd[d].pc \notin {"settled", "unmark", "eliminate", "finish"}
    BY <2>1 DEF Unflagged
  <2> QED
    BY <2>2, <2>3, <2>4 DEF InRound, Pcs, Busy, Lone
<1> QED
  BY <1>1, <1>2, <1>3
  DEF Dealer, Step, Throw, FilterKicked, OpenRound, CloseRound, Hold, Wake, Unmark, Eliminate,
      LoadSnapshot, SaveStacks, FinishHand

\* A dialogue is the only command's.
LEMMA TalksAlone ==
  ASSUME Alone, AskingFits, NEW c \in Cmds, NEW p \in Players, ask[c][p] # "none"
  PROVE  Lone(c) /\ cmd[c].pc = "asking"
<1>1. cmd[c].pc = "asking"
  BY DEF AskingFits
<1> QED
  BY <1>1 DEF Alone, Lone

\* A step of a lone command keeps it between the hands.
LEMMA BusyInStep ==
  ASSUME Shape, BusyAtEnd, NEW c \in Cmds, Lone(c), Dealer(c) \/ Step(c) \/ Throw(c)
  PROVE  BusyAtEnd'
<1>1. \A d \in Cmds : d # c => cmd'[d].pc = "idle"
  BY StepOnly DEF Only, Lone
<1>2. CASE snap'.phase = "HAND_END"
  BY <1>2 DEF BusyAtEnd
<1>3. CASE cmd'[c].pc = "idle"
  BY <1>1, <1>3 DEF BusyAtEnd
<1>4. ASSUME NEW w \in Players, ResolveWinners(c, w) PROVE BusyAtEnd'
  BY <1>2, <1>4, ResolveMakes
<1>5. CASE RetryCheckpoint(c)
  BY <1>2, <1>5 DEF RetryCheckpoint
<1>6. CASE Hold(c)
  <2>1. cmd[c].pc = "holding"
    BY <1>6 DEF Hold
  <2> QED
    BY <1>2, <1>6, <2>1, HoldMakes DEF Hold, BusyAtEnd
<1>7. CASE FinishHand(c)
  <2>1. cmd' = [cmd EXCEPT ![c] = IdleCmd]
    BY <1>7 DEF FinishHand
  <2> QED
    BY <1>3, <2>1, EndOnly
<1>8. CASE UNCHANGED snap /\ cmd[c].pc # "idle"
  BY <1>2, <1>8 DEF BusyAtEnd
<1> QED
  BY <1>4, <1>5, <1>6, <1>7, <1>8
  DEF Dealer, Step, Throw, FilterKicked, OpenRound, CloseRound, Wake, Unmark,
      Eliminate, LoadSnapshot, SaveStacks

\* A step of a lone command leaves its flags set, stage by stage.
LEMMA CoveredInStep ==
  ASSUME Shape, Covered, NEW c \in Cmds, Lone(c), Dealer(c) \/ Step(c) \/ Throw(c)
  PROVE  Covered'
<1>0. /\ cmd[c].pc \in InRound => memory.rebuy
      /\ cmd[c].pc \in {"load", "save"} => memory.checkpoint
  BY DEF Covered
<1> USE DEF InRound
<1> DEFINE Fine == /\ cmd'[c].pc \in InRound => memory'.rebuy
                   /\ cmd'[c].pc \in {"load", "save"} => memory'.checkpoint
<1>a. SUFFICES Fine
  BY StepOnly DEF Only, Lone, Covered
<1>b. CASE cmd'[c].pc \notin InRound \union {"load", "save"}
  BY <1>b
<1>1. ASSUME NEW w \in Players, ResolveWinners(c, w) PROVE Fine
  <2>1. cmd'[c].pc = "settled"
    BY <1>1, ResolveMakes, ResolveOnly
  <2> QED
    BY <1>b, <2>1
<1>2. CASE RetryCheckpoint(c)
  <2>1. cmd'[c].pc = "save" /\ memory'.checkpoint = TRUE
    BY <1>2, RetryOnly, CheckpointFlags DEF RetryCheckpoint
  <2> QED
    BY <2>1
<1>3. CASE FilterKicked(c)
  <2> DEFINE A == cmd[c].asked \ kicked
  <2>1. A \in SUBSET Players
    BY ShapeParts, CommandFields
  <2>2. \/ /\ cmd' = [cmd EXCEPT ![c].pc = "opening", ![c].asked = A, ![c].gen = link.gen]
           /\ memory' = [memory EXCEPT !.rebuy = TRUE]
        \/ MoveOn(c, "eliminate")
    BY <1>3 DEF FilterKicked
  <2> HIDE DEF A
  <2>3. CASE MoveOn(c, "eliminate")
    <3>1. cmd'[c].pc = "eliminate"
      BY <2>3, MoveOnOnly DEF Pcs, Busy
    <3> QED
      BY <1>b, <3>1
  <2>4. CASE /\ cmd' = [cmd EXCEPT ![c].pc = "opening", ![c].asked = A, ![c].gen = link.gen]
             /\ memory' = [memory EXCEPT !.rebuy = TRUE]
    <3>1. cmd'[c].pc = "opening"
      BY <2>1, <2>4, AskOnly
    <3>2. memory'.rebuy = TRUE
      BY <2>4, ShapeParts DEF Flags
    <3> QED
      BY <3>1, <3>2
  <2> QED
    BY <2>2, <2>3, <2>4
<1>4. CASE OpenRound(c)
  <2>1. cmd'[c].pc = "asking" /\ cmd[c].pc = "opening" /\ UNCHANGED memory
    BY <1>4, OpenOnly DEF OpenRound
  <2> QED
    BY <1>0, <2>1
<1>5. CASE CloseRound(c)
  <2> DEFINE A == {p \in cmd[c].asked : ask[c][p] \in Interrupted}
  <2>1. A \in SUBSET Players /\ cmd[c].pc = "asking"
    BY <1>5, ShapeParts, CommandFields DEF CloseRound
  <2>2. \/ cmd' = [cmd EXCEPT ![c] = IdleCmd]
        \/ MoveOn(c, "unmark")
        \/ /\ cmd' = [cmd EXCEPT ![c].pc = "holding", ![c].asked = A]
           /\ memory' = [memory EXCEPT !.waiter = c]
    BY <1>5 DEF CloseRound
  <2> HIDE DEF A
  <2>3. CASE cmd' = [cmd EXCEPT ![c] = IdleCmd] \/ MoveOn(c, "unmark")
    <3>1. cmd'[c].pc \in {"idle", "unmark"}
      BY <2>3, EndOnly, MoveOnOnly DEF Pcs, Busy
    <3> QED
      BY <1>b, <3>1
  <2>4. CASE /\ cmd' = [cmd EXCEPT ![c].pc = "holding", ![c].asked = A]
             /\ memory' = [memory EXCEPT !.waiter = c]
    <3>1. cmd'[c].pc = "holding"
      BY <2>1, <2>4, HoldingOnly
    <3>2. memory'.rebuy = memory.rebuy
      BY <2>4, WaiterFlags
    <3> QED
      BY <1>0, <2>1, <3>1, <3>2
  <2> QED
    BY <2>2, <2>3, <2>4
<1>6. CASE Hold(c)
  <2>1. cmd'[c].pc = "held" /\ cmd[c].pc = "holding" /\ UNCHANGED memory
    BY <1>6, HeldOnly DEF Hold
  <2> QED
    BY <1>0, <2>1
<1>7. CASE Wake(c)
  <2> DEFINE A == cmd[c].asked \intersect Broke(snap)
  <2>1. A \in SUBSET Players /\ cmd[c].pc = "held"
    BY <1>7, ShapeParts, CommandFields DEF Wake
  <2>2. \/ /\ cmd' = [cmd EXCEPT ![c].pc = "opening", ![c].asked = A, ![c].gen = link.gen]
           /\ UNCHANGED memory
        \/ MoveOn(c, "unmark")
    BY <1>7 DEF Wake
  <2> HIDE DEF A
  <2>3. CASE MoveOn(c, "unmark")
    <3>1. cmd'[c].pc = "unmark"
      BY <2>3, MoveOnOnly DEF Pcs, Busy
    <3> QED
      BY <1>b, <3>1
  <2>4. CASE /\ cmd' = [cmd EXCEPT ![c].pc = "opening", ![c].asked = A, ![c].gen = link.gen]
             /\ UNCHANGED memory
    <3>1. cmd'[c].pc = "opening"
      BY <2>1, <2>4, AskOnly
    <3> QED
      BY <1>0, <2>1, <2>4, <3>1
  <2> QED
    BY <2>2, <2>3, <2>4
<1>8. CASE Unmark(c)
  <2>1. cmd'[c].pc = "eliminate"
    BY <1>8, MoveOnOnly DEF Unmark, Pcs, Busy
  <2> QED
    BY <1>b, <2>1
<1>9. ASSUME cmd' = [cmd EXCEPT ![c] = IdleCmd] PROVE Fine
  <2>1. cmd'[c].pc = "idle"
    BY <1>9, EndOnly
  <2> QED
    BY <1>b, <2>1
<1>10. CASE Eliminate(c)
  <2>1. CASE MoveOn(c, "load") /\ memory' = [memory EXCEPT !.checkpoint = TRUE]
    <3>1. cmd'[c].pc = "load" /\ memory'.checkpoint = TRUE
      BY <2>1, MoveOnOnly, CheckpointFlags DEF Pcs, Busy
    <3> QED
      BY <3>1
  <2> QED
    BY <1>9, <1>10, <2>1 DEF Eliminate
<1>f. ASSUME cmd[c].pc \in {"load", "save"}, Failed(c) PROVE Fine
  <2>1. \/ cmd'[c].pc = "load" /\ UNCHANGED memory
        \/ cmd'[c].pc = "idle"
    BY <1>f, FailedOnly
  <2> QED
    BY <1>0, <1>b, <1>f, <2>1
<1>11. CASE LoadSnapshot(c)
  <2>1. cmd[c].pc = "load"
    BY <1>11 DEF LoadSnapshot
  <2>2. CASE /\ cmd' = [cmd EXCEPT ![c].pc = "save", ![c].stack = snap.stack,
                                   ![c].seated = snap.seated]
             /\ UNCHANGED memory
    <3>1. cmd'[c].pc = "save"
      BY <2>2, LoadedOnly
    <3> QED
      BY <1>0, <2>1, <2>2, <3>1
  <2> QED
    BY <1>11, <1>f, <2>1, <2>2 DEF LoadSnapshot
<1>12. CASE SaveStacks(c)
  <2>1. cmd[c].pc = "save"
    BY <1>12 DEF SaveStacks
  <2>2. CASE MoveOn(c, "finish")
    <3>1. cmd'[c].pc = "finish"
      BY <2>2, MoveOnOnly DEF Pcs, Busy
    <3> QED
      BY <1>b, <3>1
  <2> QED
    BY <1>12, <1>f, <2>1, <2>2 DEF SaveStacks
<1>13. CASE FinishHand(c) \/ Throw(c)
  BY <1>9, <1>13 DEF FinishHand, Throw
<1> HIDE DEF Fine
<1> QED
  BY <1>1, <1>2, <1>3, <1>4, <1>5, <1>6, <1>7, <1>8, <1>10, <1>11, <1>12, <1>13
  DEF Dealer, Step

\* Every step that does not overlap keeps the commands apart.
LEMMA OneAtATimeStep ==
  ASSUME OneAtATime, AskingFits, [Next]_vars, ~ overlapped'
  PROVE  OneAtATime'
<1>0. Shape /\ BusyAtEnd /\ Alone /\ Covered /\ Shape'
  BY ShapeStep DEF OneAtATime
<1>1. CASE /\ UNCHANGED <<cmd, memory>> \/ (UNCHANGED cmd /\ memory'.rebuy = memory.rebuy
                                                 /\ memory'.checkpoint = memory.checkpoint)
           /\ snap.phase = "HAND_END" => snap'.phase = "HAND_END"
  BY <1>0, <1>1 DEF OneAtATime, BusyAtEnd, Alone, Covered
<1>2. CASE Hall
  <2>1. ASSUME NEW S \in SUBSET Players, Start(S) PROVE OneAtATime'
    BY <1>1, <2>1 DEF Start
  <2>2. CASE Bet
    BY <1>1, <2>2 DEF Bet
  <2> QED
    BY <1>1, <1>2, <2>1, <2>2 DEF Hall, Kick, CloseRegistration
<1>3. ASSUME NEW c \in Cmds, Dealer(c) \/ Step(c) \/ Throw(c) PROVE OneAtATime'
  <2>1. Lone(c)
    BY <1>3, ActsAlone
  <2>2. Alone'
    BY <1>0, <1>3, <2>1, StepOnly DEF Only, Lone, Alone
  <2> QED
    BY <1>0, <1>3, <2>1, <2>2, BusyInStep, CoveredInStep DEF OneAtATime
<1>4. CASE ResumeTable
  BY <1>0, <1>1, <1>4, HoldMakes, WaiterFlags DEF ResumeTable
<1>5. ASSUME NEW c \in Cmds, NEW p \in Players, Talk(c, p) PROVE OneAtATime'
  <2>1. snap'.phase = snap.phase /\ UNCHANGED memory
    BY <1>0, <1>5, ApplyMakes, RevertMakes DEF Talk, ReadPoints, Answer, ApplyChips, Pay, RevertRebuy
  <2> QED
    BY <1>1, <1>5, <2>1, TalkTalks
<1>6. CASE Outage \/ Reconnect
  BY <1>1, <1>6 DEF Outage, Reconnect
<1>7. CASE Recovered
  BY <1>0, <1>1, <1>7, StopsMakes DEF Recovered
<1>8. CASE Restart
  BY <1>0, <1>8 DEF Restart, OneAtATime, BusyAtEnd, Alone, Covered, IdleCmd, InRound
<1>9. CASE UNCHANGED vars
  BY <1>1, <1>9 DEF vars
<1> QED
  BY <1>2, <1>3, <1>4, <1>5, <1>6, <1>7, <1>8, <1>9 DEF Next

-----------------------------------------------------------------------------
(* Nobody is eliminated unasked.                                           *)

Unasked == {p \in Players : p \in Broke(snap) /\ p \in Playing /\ p \notin answered}

\* whom command c asks, or is about to ask
Asks(c) == {p \in cmd[c].asked : \/ cmd[c].pc \in InRound
                                 \/ cmd[c].pc = "settled" /\ cmd[c].open}

AskedFits == snap.phase = "HAND_END" => \A p \in Unasked : \E c \in Cmds : p \in Asks(c)

Rounds == OneAtATime /\ AskingFits /\ KickedAreOut /\ AskedFits

\* fewer are unasked after a step that adds chips, answers or eliminations
LEMMA UnaskedShrinks ==
  ASSUME Shape, snap' \in Snapshot, db' \in Database, answered \subseteq answered',
         snap'.seated = snap.seated, \A p \in Players : snap.stack[p] # 0 => snap'.stack[p] # 0,
         \A p \in Players : db'.status[p] = "PLAYING" => db.status[p] = "PLAYING"
  PROVE  Unasked' \subseteq Unasked
<1>1. snap \in Snapshot
  BY ShapeParts
<1>2. \A p \in Players : p \in Broke(snap') => p \in Broke(snap)
  BY <1>1, SnapshotFields
<1> QED
  BY <1>2 DEF Unasked, Playing

\* A lone command asks all who are unasked.
LEMMA UnaskedNow ==
  ASSUME AskedFits, NEW c \in Cmds, Lone(c), snap.phase = "HAND_END"
  PROVE  Unasked \subseteq Asks(c)
<1>1. \A d \in Cmds : d # c => Asks(d) = {}
  BY DEF Lone, Asks, InRound
<1> QED
  BY <1>1 DEF AskedFits, Unasked

\* Who is unasked is asked by c.
LEMMA AloneAskedFits ==
  ASSUME NEW c \in Cmds, snap'.phase = "HAND_END" => Unasked' \subseteq Asks(c)'
  PROVE  AskedFits'
BY DEF AskedFits

\* A step of a lone command leaves nobody out, stage by stage.
LEMMA UnaskedInStep ==
  ASSUME Rounds, NEW c \in Cmds, Lone(c), Dealer(c) \/ Step(c) \/ Throw(c),
         snap' \in Snapshot, db' \in Database
  PROVE  AskedFits'
<1> USE DEF InRound
<1>0. Shape /\ AskingFits /\ KickedAreOut /\ BusyAtEnd /\ AskedFits
  BY DEF Rounds, OneAtATime
<1>a. cmd[c].pc # "idle" => snap.phase = "HAND_END"
  BY <1>0 DEF BusyAtEnd
<1>b. snap.phase = "HAND_END" => Unasked \subseteq Asks(c)
  BY <1>0, UnaskedNow
<1>c. ASSUME UNCHANGED <<snap, db>>, answered \subseteq answered' PROVE Unasked' \subseteq Unasked
  <2>1. snap'.seated = snap.seated /\ \A p \in Players : snap.stack[p] # 0 => snap'.stack[p] # 0
    BY <1>c
  <2>2. \A p \in Players : db'.status[p] = "PLAYING" => db.status[p] = "PLAYING"
    BY <1>c
  <2> QED
    BY <1>0, <1>c, <2>1, <2>2, UnaskedShrinks
<1>d. ASSUME answered' = Players PROVE AskedFits'
  BY <1>d DEF AskedFits, Unasked
<1>1. ASSUME NEW w \in Players, ResolveWinners(c, w) PROVE AskedFits'
  <2>1. /\ cmd'[c].pc = "settled" /\ cmd'[c].open = db.open /\ cmd'[c].asked = Broke(snap')
    BY <1>0, <1>1, ResolveOnly
  <2>2. CASE db.open
    <3>1. Unasked' \subseteq Asks(c)'
      BY <2>1, <2>2 DEF Unasked, Asks
    <3> QED
      BY <3>1, AloneAskedFits
  <2>3. CASE ~ db.open
    BY <1>1, <1>d, <2>3 DEF ResolveWinners
  <2> QED
    BY <2>2, <2>3
<1>2. ASSUME Asks(c) = {}, snap.phase = "HAND_END", Unasked' \subseteq Unasked PROVE AskedFits'
  <2>1. Unasked' = {}
    BY <1>b, <1>2
  <2> QED
    BY <2>1 DEF AskedFits
<1>3. CASE RetryCheckpoint(c)
  BY <1>2, <1>3, <1>c DEF RetryCheckpoint, Asks
<1>4. CASE FilterKicked(c)
  <2> DEFINE A == cmd[c].asked \ kicked
  <2>1. A \in SUBSET Players /\ cmd[c].pc = "settled" /\ UNCHANGED <<snap, db, answered>>
    BY <1>0, <1>4, ShapeParts, CommandFields DEF FilterKicked
  <2>2. \/ /\ cmd' = [cmd EXCEPT ![c].pc = "opening", ![c].asked = A, ![c].gen = link.gen]
           /\ cmd[c].open
        \/ ~ cmd[c].open
        \/ A = {}
    BY <1>4 DEF FilterKicked
  <2>3. Unasked' \subseteq Unasked
    BY <1>c, <2>1
  <2>4. Unasked \subseteq A /\ (~ cmd[c].open => Unasked = {})
    BY <1>0, <1>a, <1>b, <2>1 DEF Asks, KickedAreOut, Unasked, Playing
  <2> HIDE DEF A
  <2>5. CASE ~ cmd[c].open \/ A = {}
    <3>1. Unasked' = {}
      BY <2>3, <2>4, <2>5
    <3> QED
      BY <3>1 DEF AskedFits
  <2>6. CASE cmd' = [cmd EXCEPT ![c].pc = "opening", ![c].asked = A, ![c].gen = link.gen]
    <3>1. cmd'[c].pc = "opening" /\ cmd'[c].asked = A
      BY <1>0, <2>1, <2>6, AskOnly
    <3>2. Asks(c)' = A
      BY <3>1 DEF Asks
    <3> QED
      BY <2>3, <2>4, <3>2, AloneAskedFits
  <2> QED
    BY <2>2, <2>5, <2>6
<1>5. CASE OpenRound(c)
  <2>1. cmd'[c].pc = "asking" /\ cmd'[c].asked = cmd[c].asked
    BY <1>0, <1>5, OpenOnly
  <2>2. cmd[c].pc = "opening" /\ UNCHANGED <<snap, db, answered>>
    BY <1>5 DEF OpenRound
  <2>3. Unasked' \subseteq Unasked
    BY <1>c, <2>2
  <2>4. Asks(c)' = Asks(c)
    BY <2>1, <2>2 DEF Asks
  <2> QED
    BY <1>a, <1>b, <2>2, <2>3, <2>4, AloneAskedFits
<1>6. CASE CloseRound(c)
  <2> DEFINE said(S) == {p \in cmd[c].asked : ask[c][p] \in S}
             A == said(Interrupted)
  <2>1. A \in SUBSET Players /\ cmd[c].pc = "asking" /\ UNCHANGED <<snap, db>>
    BY <1>0, <1>6, ShapeParts, CommandFields DEF CloseRound
  <2>2. \A p \in cmd[c].asked : ask[c][p] \in Outcomes
    BY <1>6 DEF CloseRound
  <2>3. CASE said({"threw"}) # {}
    BY <1>6, <1>d, <2>3 DEF CloseRound
  <2>4. CASE said({"threw"}) = {}
    <3>1. answered' = answered \union said({"skipped", "declined", "applied"})
      BY <1>6, <2>4 DEF CloseRound
    <3>2. \A p \in cmd[c].asked : p \notin A => p \in answered'
      BY <2>2, <2>4, <3>1 DEF Outcomes, Interrupted
    <3>3. Unasked' \subseteq Unasked
      BY <1>c, <2>1, <3>1
    <3>4. Unasked' \subseteq A
      BY <1>a, <1>b, <2>1, <3>2, <3>3 DEF Asks, Unasked
    <3>5. CASE A = {}
      BY <3>4, <3>5 DEF AskedFits
    <3>6. CASE A # {}
      <4>1. cmd' = [cmd EXCEPT ![c].pc = "holding", ![c].asked = A]
        BY <1>6, <2>4, <3>6 DEF CloseRound
      <4> HIDE DEF A
      <4>2. cmd'[c].pc = "holding" /\ cmd'[c].asked = A
        BY <1>0, <2>1, <4>1, HoldingOnly
      <4>3. Asks(c)' = A
        BY <4>2 DEF Asks
      <4> QED
        BY <3>4, <4>3, AloneAskedFits
    <3> QED
      BY <3>5, <3>6
  <2> QED
    BY <2>3, <2>4
<1>7. CASE Hold(c)
  <2>1. cmd'[c].pc = "held" /\ cmd'[c].asked = cmd[c].asked
    BY <1>0, <1>7, HeldOnly
  <2>2. cmd[c].pc = "holding" /\ UNCHANGED <<db, answered>>
    BY <1>7 DEF Hold
  <2>3. snap'.seated = snap.seated /\ snap'.stack = snap.stack
    BY <1>0, <1>7, HoldMakes DEF Hold
  <2>4. Unasked' \subseteq Unasked
    BY <2>2, <2>3 DEF Unasked, Playing, Broke
  <2>5. Asks(c)' = Asks(c)
    BY <2>1, <2>2 DEF Asks
  <2> QED
    BY <1>a, <1>b, <2>2, <2>4, <2>5, AloneAskedFits
<1>8. CASE Wake(c)
  <2> DEFINE A == cmd[c].asked \intersect Broke(snap)
  <2>1. A \in SUBSET Players /\ cmd[c].pc = "held" /\ UNCHANGED <<snap, db, answered>>
    BY <1>0, <1>8, ShapeParts, CommandFields DEF Wake
  <2>2. \/ cmd' = [cmd EXCEPT ![c].pc = "opening", ![c].asked = A, ![c].gen = link.gen]
        \/ A = {}
    BY <1>8 DEF Wake
  <2>3. Unasked' \subseteq Unasked
    BY <1>c, <2>1
  <2>4. Unasked \subseteq A
    BY <1>a, <1>b, <2>1 DEF Asks, Unasked
  <2> HIDE DEF A
  <2>5. CASE A = {}
    BY <2>3, <2>4, <2>5 DEF AskedFits
  <2>6. CASE cmd' = [cmd EXCEPT ![c].pc = "opening", ![c].asked = A, ![c].gen = link.gen]
    <3>1. cmd'[c].pc = "opening" /\ cmd'[c].asked = A
      BY <1>0, <2>1, <2>6, AskOnly
    <3>2. Asks(c)' = A
      BY <3>1 DEF Asks
    <3> QED
      BY <2>3, <2>4, <3>2, AloneAskedFits
  <2> QED
    BY <2>2, <2>5, <2>6
<1>9. CASE Unmark(c) \/ LoadSnapshot(c)
  <2>1. cmd[c].pc \in {"unmark", "load"} /\ UNCHANGED <<snap, db, answered>>
    BY <1>9 DEF Unmark, LoadSnapshot
  <2> QED
    BY <1>2, <1>a, <1>c, <2>1 DEF Asks
<1>10. CASE Eliminate(c)
  <2>1. cmd[c].pc = "eliminate" /\ UNCHANGED <<snap, answered>> /\ db' = EliminatePlayer(Broke(snap))
    BY <1>10 DEF Eliminate
  <2>2. \A p \in Players : db'.status[p] = "PLAYING" => db.status[p] = "PLAYING"
    BY <1>0, <2>1, EliminateMakes DEF Playing
  <2>3. Unasked' \subseteq Unasked
    BY <1>0, <2>1, <2>2, UnaskedShrinks
  <2> QED
    BY <1>2, <1>a, <2>1, <2>3 DEF Asks
<1>11. CASE SaveStacks(c)
  <2>1. cmd[c].pc = "save" /\ UNCHANGED <<snap, answered>>
    BY <1>11 DEF SaveStacks
  <2>2. \A p \in Players : db'.status[p] = "PLAYING" => db.status[p] = "PLAYING"
    BY <1>0, <1>11, SaveMakes
  <2>3. Unasked' \subseteq Unasked
    BY <1>0, <2>1, <2>2, UnaskedShrinks
  <2> QED
    BY <1>2, <1>a, <2>1, <2>3 DEF Asks
<1>12. CASE FinishHand(c)
  <2>1. cmd[c].pc = "finish"
    BY <1>12 DEF FinishHand
  <2>2. CASE ~ UNCHANGED snap
    <3>1. snap'.phase = "WAITING"
      BY <1>0, <1>12, <2>2, FinishMakes
    <3> QED
      BY <3>1 DEF AskedFits
  <2>3. CASE UNCHANGED snap
    <3>1. snap'.phase = "HAND_END" => UNCHANGED answered
      BY <1>0, <1>12, <2>3, ShapeParts DEF FinishHand, Snapshot
    <3>2. \A p \in Players : db'.status[p] = "PLAYING" => db.status[p] = "PLAYING"
      BY <1>0, <1>12, FinishDb, EliminateMakes DEF Playing
    <3>3. snap'.phase = "HAND_END" => Unasked' \subseteq Unasked
      BY <1>0, <2>3, <3>1, <3>2, UnaskedShrinks
    <3> QED
      BY <1>2, <1>a, <2>1, <3>3 DEF Asks, AskedFits
  <2> QED
    BY <2>2, <2>3
<1>13. CASE Throw(c)
  BY <1>13, <1>d DEF Throw
<1> QED
  BY <1>1, <1>3, <1>4, <1>5, <1>6, <1>7, <1>8, <1>9, <1>10, <1>11, <1>12, <1>13
  DEF Dealer, Step

\* No step leaves anybody out.
LEMMA AskedStep == ASSUME Rounds, [Next]_vars, ~ overlapped' PROVE AskedFits'
<1>0. Shape /\ AskingFits /\ KickedAreOut /\ BusyAtEnd /\ AskedFits /\ OneAtATime
  BY DEF Rounds, OneAtATime
<1>1. snap' \in Snapshot /\ db' \in Database
  BY <1>0, SnapStep, DbStep
<1>2. ASSUME snap'.phase # "HAND_END" PROVE AskedFits'
  BY <1>2 DEF AskedFits
<1>3. ASSUME snap'.phase = snap.phase, Unasked' \subseteq Unasked,
             \A c \in Cmds : Asks(c)' = Asks(c)
      PROVE  AskedFits'
  BY <1>0, <1>3 DEF AskedFits
<1>4. CASE Hall
  <2>1. ASSUME NEW S \in SUBSET Players, Start(S) PROVE AskedFits'
    <3>1. snap'.phase # "HAND_END"
      BY <1>0, <2>1, StartMakes
    <3> QED
      BY <1>2, <3>1
  <2>2. CASE Bet
    <3>1. snap'.phase # "HAND_END"
      BY <1>0, <2>2, BetMakes
    <3> QED
      BY <1>2, <3>1
  <2>3. ASSUME NEW p \in Players, Kick(p) PROVE AskedFits'
    BY <1>2, <2>3 DEF Kick
  <2>4. CASE CloseRegistration
    <3>1. UNCHANGED <<snap, answered, cmd>> /\ db'.status = db.status
      BY <1>0, <2>4, CloseMakes DEF CloseRegistration
    <3>2. Unasked' \subseteq Unasked /\ \A c \in Cmds : Asks(c)' = Asks(c)
      BY <3>1 DEF Unasked, Playing, Asks
    <3> QED
      BY <1>3, <3>1, <3>2
  <2> QED
    BY <1>4, <2>1, <2>2, <2>3, <2>4 DEF Hall
<1>5. ASSUME NEW c \in Cmds, Dealer(c) \/ Step(c) \/ Throw(c) PROVE AskedFits'
  <2>1. Lone(c)
    BY <1>0, <1>5, ActsAlone
  <2> QED
    BY <1>1, <1>5, <2>1, UnaskedInStep
<1>6. ASSUME UNCHANGED <<answered, cmd, db>>, snap'.phase = snap.phase,
             snap'.seated = snap.seated, snap'.stack = snap.stack
      PROVE  AskedFits'
  <2>1. Unasked' \subseteq Unasked /\ \A c \in Cmds : Asks(c)' = Asks(c)
    BY <1>6 DEF Unasked, Playing, Asks, Broke
  <2> QED
    BY <1>3, <1>6, <2>1
<1>7. CASE ResumeTable
  BY <1>0, <1>6, <1>7, HoldMakes DEF ResumeTable
<1>8. ASSUME NEW c \in Cmds, NEW p \in Players, Talk(c, p) PROVE AskedFits'
  <2>1. ask[c][p] # "none" /\ UNCHANGED <<cmd, answered>>
    BY <1>8, TalkTalks DEF Talk, ReadPoints, Answer, ApplyChips, Pay, RevertRebuy
  <2>2. p \in Asks(c) /\ \A d \in Cmds : Asks(d)' = Asks(d)
    BY <1>0, <2>1 DEF AskingFits, Asks, InRound
  <2>3. snap'.phase = snap.phase
    BY <1>8, <1>0, ApplyMakes, RevertMakes DEF Talk, ReadPoints, Answer, Pay
  <2>4. db'.status = db.status
    BY <1>0, <1>8, PayMakes DEF Talk, ReadPoints, Answer, ApplyChips, RevertRebuy
  <2>5. snap'.seated = snap.seated
        /\ \A r \in Players : r # p => snap'.stack[r] = snap.stack[r]
    BY <1>8, <1>0, ApplyMakes, RevertMakes DEF Talk, ReadPoints, Answer, Pay
  <2>6. \A r \in Unasked' : r # p => r \in Unasked
    BY <2>1, <2>4, <2>5 DEF Unasked, Playing, Broke
  <2> QED
    BY <1>0, <2>2, <2>3, <2>6 DEF AskedFits
<1>9. CASE Outage \/ Reconnect
  BY <1>6, <1>9 DEF Outage, Reconnect
<1>10. CASE Recovered
  BY <1>0, <1>6, <1>10, StopsMakes DEF Recovered
<1>11. CASE Restart
  <2>1. CASE answered' = Players
    BY <2>1 DEF AskedFits, Unasked
  <2>2. CASE snap' = Rebuilt
    BY <1>0, <1>2, <2>2, RebuiltMade
  <2>3. CASE /\ snap' = IF snap.phase = "BETTING" THEN [snap EXCEPT !.resume = TRUE] ELSE snap
             /\ answered' = IF snap.phase = "HAND_END" THEN Players ELSE {}
    <3>1. snap'.phase = snap.phase
      BY <1>0, <2>3, StopsMakes
    <3> QED
      BY <1>2, <2>1, <2>3, <3>1
  <2> QED
    BY <1>11, <2>2, <2>3 DEF Restart
<1>12. CASE UNCHANGED vars
  BY <1>6, <1>12 DEF vars
<1> QED
  BY <1>4, <1>5, <1>7, <1>8, <1>9, <1>10, <1>11, <1>12 DEF Next

\* The state at the start has the invariant of the rounds.
LEMMA RoundsInit == Init => Rounds
BY ShapeInit
   DEF Init, Rounds, OneAtATime, Alone, Covered, AskingFits, KickedAreOut, BusyAtEnd, AskedFits,
       IdleCmd, InRound

\* What overlapped once stays in the history.
LEMMA OverlapStays == ASSUME [Next]_vars, ~ overlapped' PROVE ~ overlapped
<1>1. UNCHANGED overlapped \/ \E c \in Cmds : overlapped' = (overlapped \/ Unflagged(c))
  BY DEF Next, vars, Hall, Start, Bet, Kick, CloseRegistration, Dealer, Step, Throw, ResolveWinners,
         RetryCheckpoint, FilterKicked, OpenRound, CloseRound, Hold, Wake, Unmark, Eliminate,
         LoadSnapshot, SaveStacks, FinishHand, ResumeTable, Talk, ReadPoints, Answer, ApplyChips,
         Pay, RevertRebuy, Outage, Reconnect, Recovered, Restart
<1> QED
  BY <1>1

\* Every step that does not overlap keeps it.
LEMMA RoundsStep == ASSUME Rounds, [Next]_vars, ~ overlapped' PROVE Rounds'
<1>1. OneAtATime /\ Shape /\ AskingFits /\ KickedAreOut /\ AskedFits
  BY DEF Rounds, OneAtATime
<1>2. OneAtATime' /\ AskingFits' /\ KickedAreOut' /\ AskedFits'
  BY <1>1, OneAtATimeStep, AskingStep, KickedStep, AskedStep
<1> QED
  BY <1>2 DEF Rounds

\* Until a retry is let in beside a command that no flag covers, one command at a time is under
\* way, and who is broke at the end of a hand and has had no answer is still asked by it, or about
\* to be.
THEOREM RoundsHold == Spec => [](~ overlapped => Rounds)
<1>1. Init => (~ overlapped => Rounds)
  BY RoundsInit
<1>2. (~ overlapped => Rounds) /\ [Next]_vars => (~ overlapped => Rounds)'
  BY RoundsStep, OverlapStays
<1> QED
  BY <1>1, <1>2, PTL DEF Spec

\* who is eliminated, by whatever step
LEMMA EliminatedAsked ==
  ASSUME Rounds, [Next]_vars, NEW p \in Players,
         db.status[p] = "PLAYING", db'.status[p] = "ELIMINATED"
  PROVE  p \in answered \union kicked'
<1>0. Shape /\ AskingFits /\ KickedAreOut /\ BusyAtEnd /\ AskedFits /\ Alone
  BY DEF Rounds, OneAtATime
<1>a. p \in Playing
  BY DEF Playing
<1>b. ASSUME db'.status = db.status PROVE FALSE
  BY <1>b
<1>1. CASE Hall
  <2>1. ASSUME NEW r \in Players, Kick(r) PROVE p \in answered \union kicked'
    <3>1. p = r
      BY <1>0, <2>1, KickMakes
    <3> QED
      BY <2>1, <3>1 DEF Kick
  <2>2. CASE CloseRegistration
    BY <1>0, <1>b, <2>2, CloseMakes
  <2>3. CASE UNCHANGED db
    BY <1>b, <2>3
  <2> QED
    BY <1>1, <2>1, <2>2, <2>3 DEF Hall, Start, Bet
<1>2. ASSUME NEW c \in Cmds, Dealer(c) \/ Step(c) \/ Throw(c) PROVE p \in answered
  <2>1. ASSUME cmd[c].pc \in {"eliminate", "finish"}, db' = EliminatePlayer(Broke(snap))
        PROVE  p \in answered
    <3>1. snap.phase = "HAND_END" /\ Asks(c) = {} /\ Lone(c)
      BY <1>0, <2>1 DEF BusyAtEnd, Asks, InRound, Alone, Lone
    <3>2. Unasked = {}
      BY <1>0, <3>1, UnaskedNow
    <3>3. p \in Broke(snap)
      BY <1>0, <1>a, <2>1, EliminateMakes
    <3> QED
      BY <1>a, <3>2, <3>3 DEF Unasked
  <2>2. CASE Eliminate(c)
    BY <2>1, <2>2 DEF Eliminate
  <2>3. CASE FinishHand(c)
    <3>1. cmd[c].pc = "finish"
      BY <2>3 DEF FinishHand
    <3> QED
      BY <1>0, <1>b, <2>1, <2>3, <3>1, FinishDb
  <2>4. CASE SaveStacks(c)
    BY <1>0, <1>b, <2>4, SaveMakes
  <2>5. CASE UNCHANGED db
    BY <1>b, <2>5
  <2> QED
    BY <1>2, <2>2, <2>3, <2>4, <2>5
    DEF Dealer, Step, Throw, ResolveWinners, RetryCheckpoint, FilterKicked, OpenRound, CloseRound,
        Hold, Wake, Unmark, LoadSnapshot
<1>3. ASSUME NEW c \in Cmds, NEW r \in Players, Talk(c, r) PROVE FALSE
  BY <1>0, <1>b, <1>3, PayMakes DEF Talk, ReadPoints, Answer, ApplyChips, RevertRebuy
<1>4. CASE ResumeTable \/ Outage \/ Reconnect \/ Recovered \/ Restart
  BY <1>b, <1>4 DEF ResumeTable, Outage, Reconnect, Recovered, Restart
<1>5. CASE UNCHANGED vars
  BY <1>b, <1>5 DEF vars
<1> QED
  BY <1>1, <1>2, <1>3, <1>4, <1>5 DEF Next

\* No player is eliminated before his rebuy prompt had an outcome or was forfeited, whatever Redis
\* and the database do, acknowledgements lost or not, until a retry of the dealer is let in beside
\* a command that no flag covers.
THEOREM NobodyEliminatedUnasked == Spec => AskedBeforeEliminated
<1>1. (~ overlapped => Rounds) /\ [Next]_vars
        => [\A p \in Players : db.status[p] = "PLAYING" /\ db'.status[p] = "ELIMINATED"
                                 => p \in answered \union kicked' \/ overlapped]_vars
  BY EliminatedAsked
<1> QED
  BY <1>1, RoundsHold, PTL DEF Spec, AskedBeforeEliminated

-----------------------------------------------------------------------------
(* What the chips and the money rest on.                                   *)

\* only a hand in play has a pot and players in it
HandFits ==
  /\ snap.inHand \subseteq snap.seated
  /\ snap.phase \in {"WAITING", "HAND_END"} => snap.pot = 0 /\ snap.inHand = {}

\* who is asked has no chips, who has not paid has one
DialogueFits ==
  \A c \in Cmds, p \in Players :
    /\ ask[c][p] \in {"reading", "waiting", "accepted"} => p \in Broke(snap)
    /\ ask[c][p] \in {"paying", "undoDeferred", "undoSkipped"}
         => p \in snap.seated /\ snap.stack[p] = 1
    /\ cmd[c].pc \in {"settled", "opening"} /\ p \in cmd[c].asked => p \in Broke(snap)

\* the checkpoint saves what is on the table, and has saved it when the hand ends
SavedFits ==
  \A c \in Cmds :
    /\ cmd[c].pc = "save" => cmd[c].stack = snap.stack /\ cmd[c].seated = snap.seated
    /\ cmd[c].pc = "finish" => \A p \in snap.seated : db.stack[p] = snap.stack[p]

\* In play there is neither a command nor a dialogue.
LEMMA OutsideEnd ==
  ASSUME Shape, BusyAtEnd, AskingFits, snap.phase # "HAND_END"
  PROVE  /\ \A c \in Cmds : cmd[c].pc = "idle"
         /\ \A c \in Cmds, p \in Players : ask[c][p] = "none"
BY DEF BusyAtEnd, AskingFits

\* After a command has ended there is no dialogue, and nothing saved.
LEMMA IdleAfter ==
  ASSUME AskingFits', \A c \in Cmds : cmd'[c].pc = "idle"
  PROVE  /\ \A c \in Cmds, p \in Players : ask'[c][p] = "none"
         /\ DialogueFits' /\ SavedFits'
<1>1. \A c \in Cmds, p \in Players : ask'[c][p] = "none"
  BY DEF AskingFits
<1> QED
  BY <1>1 DEF DialogueFits, SavedFits

\* A step of a lone command leaves the others idle, and their dialogues none.
LEMMA LoneAfter ==
  ASSUME Shape, AskingFits', NEW c \in Cmds, Lone(c), Dealer(c) \/ Step(c) \/ Throw(c)
  PROVE  /\ \A d \in Cmds : d # c => cmd'[d].pc = "idle"
         /\ \A d \in Cmds, p \in Players : d # c => ask'[d][p] = "none"
<1>1. \A d \in Cmds : d # c => cmd'[d].pc = "idle"
  BY StepOnly DEF Only, Lone
<1> QED
  BY <1>1 DEF AskingFits

\* The other commands have no dialogue.
LEMMA LoneDialogue ==
  ASSUME AskingFits, NEW c \in Cmds, Lone(c)
  PROVE  \A d \in Cmds, p \in Players : d # c => ask[d][p] = "none"
BY DEF AskingFits, Lone

\* Every step keeps the pot to the hand in play.
LEMMA HandStep == ASSUME Shape, HandFits, [Next]_vars PROVE HandFits'
<1>1. ASSUME snap'.phase = snap.phase, snap'.inHand = snap.inHand, snap'.seated = snap.seated,
             snap'.pot = snap.pot
      PROVE  HandFits'
  BY <1>1 DEF HandFits
<1>2. CASE UNCHANGED snap
  BY <1>2 DEF HandFits
<1>3. CASE Hall
  <2>1. ASSUME NEW S \in SUBSET Players, Start(S) PROVE HandFits'
    <3>1. snap'.phase \in {"BETTING", "SHOWDOWN"} /\ snap'.inHand = S /\ S \subseteq snap.seated
          /\ snap'.seated = snap.seated
      BY <2>1, StartMakes
    <3> QED
      BY <3>1 DEF HandFits
  <2>2. CASE Bet
    BY <2>2, BetMakes DEF HandFits
  <2> QED
    BY <1>2, <1>3, <2>1, <2>2 DEF Hall, Kick, CloseRegistration
<1>4. ASSUME NEW c \in Cmds, Dealer(c) \/ Step(c) \/ Throw(c) PROVE HandFits'
  <2>1. ASSUME NEW w \in Players, ResolveWinners(c, w) PROVE HandFits'
    BY <2>1, ResolveMakes DEF HandFits
  <2>2. CASE Hold(c)
    BY <1>1, <2>2, HoldMakes DEF Hold
  <2>3. CASE FinishHand(c)
    BY <1>2, <2>3, FinishMakes DEF HandFits
  <2> QED
    BY <1>2, <1>4, <2>1, <2>2, <2>3
    DEF Dealer, Step, Throw, RetryCheckpoint, FilterKicked, OpenRound, CloseRound, Wake, Unmark,
        Eliminate, LoadSnapshot, SaveStacks
<1>5. CASE ResumeTable
  BY <1>1, <1>5, HoldMakes DEF ResumeTable
<1>6. ASSUME NEW c \in Cmds, NEW p \in Players, Talk(c, p) PROVE HandFits'
  <2>1. CASE ApplyChips(c, p)
    BY <1>1, <1>2, <2>1, ApplyMakes
  <2>2. CASE RevertRebuy(c, p)
    BY <1>1, <1>2, <2>2, RevertMakes
  <2> QED
    BY <1>2, <1>6, <2>1, <2>2 DEF Talk, ReadPoints, Answer, Pay
<1>7. CASE Outage \/ Reconnect \/ UNCHANGED vars
  <2>1. UNCHANGED snap
    BY <1>7 DEF Outage, Reconnect, vars
  <2> QED
    BY <1>2, <2>1
<1>8. CASE Recovered
  BY <1>1, <1>8, StopsMakes DEF Recovered
<1>9. CASE Restart
  BY <1>1, <1>9, RestartMakes, RebuiltMade DEF HandFits
<1> QED
  BY <1>3, <1>4, <1>5, <1>6, <1>7, <1>8, <1>9 DEF Next

\* Every step keeps the saved stacks those of the table.
LEMMA SavedStep ==
  ASSUME Rounds, Rounds', SavedFits, [Next]_vars, ~ overlapped'
  PROVE  SavedFits'
<1>0. /\ Shape /\ AskingFits /\ BusyAtEnd /\ OneAtATime /\ Alone
      /\ AskingFits' /\ BusyAtEnd'
  BY DEF Rounds, OneAtATime
<1>1. ASSUME snap'.phase # "HAND_END" PROVE SavedFits'
  BY <1>0, <1>1, IdleAfter DEF BusyAtEnd
<1>2. ASSUME snap.phase # "HAND_END", UNCHANGED cmd PROVE SavedFits'
  BY <1>0, <1>2, OutsideEnd DEF SavedFits
<1>3. ASSUME UNCHANGED cmd, snap'.stack = snap.stack, snap'.seated = snap.seated,
             db'.stack = db.stack
      PROVE  SavedFits'
  BY <1>3 DEF SavedFits
<1>4. ASSUME \A d \in Cmds : cmd'[d].pc \notin {"save", "finish"} PROVE SavedFits'
  BY <1>4 DEF SavedFits
<1>5. CASE Hall
  <2>1. ASSUME NEW S \in SUBSET Players, Start(S) PROVE SavedFits'
    BY <1>2, <2>1 DEF Start
  <2>2. CASE Bet
    BY <1>2, <2>2 DEF Bet
  <2>3. ASSUME NEW p \in Players, Kick(p) PROVE SavedFits'
    BY <1>2, <2>3 DEF Kick
  <2>4. CASE CloseRegistration
    BY <1>0, <1>3, <2>4, CloseMakes DEF CloseRegistration
  <2> QED
    BY <1>5, <2>1, <2>2, <2>3, <2>4 DEF Hall
<1>6. ASSUME NEW c \in Cmds, Dealer(c) \/ Step(c) \/ Throw(c) PROVE SavedFits'
  <2>0. \A d \in Cmds : d # c => cmd'[d].pc = "idle"
    BY <1>0, <1>6, ActsAlone, LoneAfter
  <2>a. ASSUME cmd'[c].pc \notin {"save", "finish"} PROVE SavedFits'
    BY <2>0, <2>a DEF SavedFits
  <2>1. ASSUME cmd'[c].pc = "save", cmd'[c].stack = snap.stack, cmd'[c].seated = snap.seated,
               UNCHANGED snap
        PROVE  SavedFits'
    BY <2>0, <2>1 DEF SavedFits
  <2>2. ASSUME NEW w \in Players, ResolveWinners(c, w) PROVE SavedFits'
    BY <1>0, <2>a, <2>2, ResolveMakes, ResolveOnly
  <2>3. CASE RetryCheckpoint(c)
    BY <1>0, <2>1, <2>3, RetryOnly DEF RetryCheckpoint
  <2>4. CASE FilterKicked(c)
    <3> DEFINE A == cmd[c].asked \ kicked
    <3>1. A \in SUBSET Players
      BY <1>0, ShapeParts, CommandFields
    <3>2. \/ cmd' = [cmd EXCEPT ![c].pc = "opening", ![c].asked = A, ![c].gen = link.gen]
          \/ MoveOn(c, "eliminate")
      BY <2>4 DEF FilterKicked
    <3> HIDE DEF A
    <3>3. cmd'[c].pc \in {"opening", "eliminate"}
      BY <1>0, <3>1, <3>2, AskOnly, MoveOnOnly DEF Pcs, Busy
    <3> QED
      BY <2>a, <3>3
  <2>5. CASE OpenRound(c)
    BY <1>0, <2>a, <2>5, OpenOnly
  <2>6. CASE CloseRound(c)
    <3> DEFINE A == {p \in cmd[c].asked : ask[c][p] \in Interrupted}
    <3>1. A \in SUBSET Players
      BY <1>0, ShapeParts, CommandFields
    <3>2. \/ cmd' = [cmd EXCEPT ![c] = IdleCmd]
          \/ MoveOn(c, "unmark")
          \/ cmd' = [cmd EXCEPT ![c].pc = "holding", ![c].asked = A]
      BY <2>6 DEF CloseRound
    <3> HIDE DEF A
    <3>3. CASE cmd' = [cmd EXCEPT ![c] = IdleCmd]
      BY <1>0, <2>a, <3>3, EndOnly
    <3>4. CASE MoveOn(c, "unmark")
      <4>1. cmd'[c].pc = "unmark"
        BY <1>0, <3>4, MoveOnOnly DEF Pcs, Busy
      <4> QED
        BY <2>a, <4>1
    <3>5. CASE cmd' = [cmd EXCEPT ![c].pc = "holding", ![c].asked = A]
      BY <1>0, <2>a, <3>1, <3>5, HoldingOnly
    <3> QED
      BY <3>2, <3>3, <3>4, <3>5
  <2>7. CASE Hold(c)
    BY <1>0, <2>a, <2>7, HeldOnly
  <2>8. CASE Wake(c)
    <3> DEFINE A == cmd[c].asked \intersect Broke(snap)
    <3>1. A \in SUBSET Players
      BY <1>0, ShapeParts, CommandFields
    <3>2. \/ cmd' = [cmd EXCEPT ![c].pc = "opening", ![c].asked = A, ![c].gen = link.gen]
          \/ MoveOn(c, "unmark")
      BY <2>8 DEF Wake
    <3> HIDE DEF A
    <3>3. cmd'[c].pc \in {"opening", "unmark"}
      BY <1>0, <3>1, <3>2, AskOnly, MoveOnOnly DEF Pcs, Busy
    <3> QED
      BY <2>a, <3>3
  <2>9. CASE Unmark(c) \/ Eliminate(c)
    <3>1. MoveOn(c, "eliminate") \/ MoveOn(c, "load") \/ cmd' = [cmd EXCEPT ![c] = IdleCmd]
      BY <2>9 DEF Unmark, Eliminate
    <3>2. cmd'[c].pc \in {"eliminate", "load", "idle"}
      BY <1>0, <3>1, EndOnly, MoveOnOnly DEF Pcs, Busy
    <3> QED
      BY <2>a, <3>2
  <2>10. CASE LoadSnapshot(c)
    <3>1. CASE Failed(c)
      BY <1>0, <2>a, <3>1, FailedOnly
    <3>2. CASE cmd' = [cmd EXCEPT ![c].pc = "save", ![c].stack = snap.stack,
                                  ![c].seated = snap.seated]
      <4>1. UNCHANGED snap
        BY <2>10 DEF LoadSnapshot
      <4>2. cmd'[c].pc = "save" /\ cmd'[c].stack = snap.stack /\ cmd'[c].seated = snap.seated
        BY <1>0, <3>2, LoadedOnly
      <4> QED
        BY <2>1, <4>1, <4>2
    <3> QED
      BY <2>10, <3>1, <3>2 DEF LoadSnapshot
  <2>11. CASE SaveStacks(c)
    <3>1. CASE Failed(c)
      BY <1>0, <2>a, <3>1, FailedOnly
    <3>2. CASE /\ MoveOn(c, "finish")
               /\ \A p \in Players :
                    db'.stack[p] = IF p \in cmd[c].seated THEN cmd[c].stack[p] ELSE db.stack[p]
      <4>1. cmd'[c].pc = "finish"
        BY <1>0, <3>2, MoveOnOnly DEF Pcs, Busy
      <4>2. UNCHANGED snap /\ cmd[c].pc = "save"
        BY <2>11 DEF SaveStacks
      <4>3. cmd[c].stack = snap.stack /\ cmd[c].seated = snap.seated
        BY <4>2 DEF SavedFits
      <4>4. snap.seated \subseteq Players
        BY <1>0, ShapeParts, SnapshotFields
      <4>5. \A p \in snap.seated : db'.stack[p] = snap.stack[p]
        BY <3>2, <4>3, <4>4
      <4> QED
        BY <2>0, <4>1, <4>2, <4>5 DEF SavedFits
    <3> QED
      BY <1>0, <2>11, <3>1, <3>2, SaveMakes
  <2>12. CASE FinishHand(c) \/ Throw(c)
    <3>1. cmd' = [cmd EXCEPT ![c] = IdleCmd]
      BY <2>12 DEF FinishHand, Throw
    <3> QED
      BY <1>0, <2>a, <3>1, EndOnly
  <2> QED
    BY <1>6, <2>2, <2>3, <2>4, <2>5, <2>6, <2>7, <2>8, <2>9, <2>10, <2>11, <2>12
    DEF Dealer, Step
<1>7. CASE ResumeTable
  BY <1>0, <1>3, <1>7, HoldMakes DEF ResumeTable
<1>8. ASSUME NEW c \in Cmds, NEW p \in Players, Talk(c, p) PROVE SavedFits'
  <2>1. ask[c][p] # "none" /\ UNCHANGED cmd
    BY <1>8, TalkTalks
  <2>2. Lone(c) /\ cmd[c].pc = "asking"
    BY <1>0, <2>1, TalksAlone
  <2> QED
    BY <1>4, <2>1, <2>2 DEF Lone
<1>9. CASE Outage \/ Reconnect
  BY <1>3, <1>9 DEF Outage, Reconnect
<1>10. CASE Recovered
  BY <1>0, <1>3, <1>10, StopsMakes DEF Recovered
<1>11. CASE Restart
  BY <1>11 DEF Restart, SavedFits, IdleCmd
<1>12. CASE UNCHANGED vars
  BY <1>3, <1>12 DEF vars
<1> QED
  BY <1>5, <1>6, <1>7, <1>8, <1>9, <1>10, <1>11, <1>12 DEF Next

\* one dialogue goes on
LEMMA DialogueGoesOn ==
  ASSUME Shape, AskingFits, DialogueFits, NEW c \in Cmds, NEW p \in Players, Lone(c),
         cmd[c].pc = "asking", UNCHANGED cmd,
         snap'.seated = snap.seated, \A r \in Players : r # p => snap'.stack[r] = snap.stack[r],
         NEW what \in Dialogue, Say(c, p, what),
         what \in {"reading", "waiting", "accepted"} => p \in snap.seated /\ snap'.stack[p] = 0,
         what \in {"paying", "undoDeferred", "undoSkipped"}
           => p \in snap.seated /\ snap'.stack[p] = 1
  PROVE  DialogueFits'
<1>1. ask'[c][p] = what /\ \A r \in Players : r # p => ask'[c][r] = ask[c][r]
  BY Saying
<1>2. \A d \in Cmds, r \in Players : d # c => cmd'[d].pc = "idle" /\ ask'[d][r] = "none"
  BY Saying, LoneDialogue DEF Lone
<1>3. ASSUME NEW r \in Players
      PROVE  /\ ask'[c][r] \in {"reading", "waiting", "accepted"} => r \in Broke(snap')
             /\ ask'[c][r] \in {"paying", "undoDeferred", "undoSkipped"}
                  => r \in snap'.seated /\ snap'.stack[r] = 1
  <2>1. CASE r = p
    BY <1>1, <2>1 DEF Broke
  <2>2. CASE r # p
    BY <1>1, <2>2 DEF DialogueFits, Broke
  <2> QED
    BY <2>1, <2>2
<1> QED
  BY <1>2, <1>3 DEF DialogueFits

\* A step of a dialogue keeps the stacks it rests on.
LEMMA DialogueTalk ==
  ASSUME Shape, Alone, AskingFits, DialogueFits, NEW c \in Cmds, NEW p \in Players,
         Talk(c, p)
  PROVE  DialogueFits'
<1> USE DEF Dialogue, Outcomes, Undoing
<1>1. cmd[c].pc = "asking" /\ UNCHANGED cmd /\ Lone(c)
  BY TalkTalks, TalksAlone
<1>2. /\ ask[c][p] \in {"reading", "waiting", "accepted"} => p \in snap.seated /\ snap.stack[p] = 0
      /\ ask[c][p] \in {"paying", "undoDeferred", "undoSkipped"}
           => p \in snap.seated /\ snap.stack[p] = 1
  BY DEF DialogueFits, Broke
<1>3. CASE ReadPoints(c, p)
  <2>1. UNCHANGED snap /\ ask[c][p] = "reading"
        /\ \E what \in {"deferred", "skipped", "waiting", "interrupted"} : Say(c, p, what)
    BY <1>3 DEF ReadPoints
  <2> QED
    BY <1>1, <1>2, <2>1, DialogueGoesOn
<1>4. CASE Answer(c, p)
  <2>1. UNCHANGED snap /\ ask[c][p] = "waiting"
        /\ \E what \in {"accepted", "declined", "dealerSilent"} : Say(c, p, what)
    BY <1>4 DEF Answer
  <2> QED
    BY <1>1, <1>2, <2>1, DialogueGoesOn
<1>5. CASE ApplyChips(c, p)
  <2>1. ask[c][p] = "accepted"
    BY <1>5 DEF ApplyChips
  <2>2. CASE UNCHANGED snap /\ \E what \in {"interrupted", "skipped", "undoInterrupted", "threw"} :
                                 Say(c, p, what)
    BY <1>1, <2>2, DialogueGoesOn
  <2>3. CASE ~ UNCHANGED snap
    <3>1. /\ snap'.seated = snap.seated
          /\ \A r \in Players : snap'.stack[r] = IF r = p THEN snap.stack[r] + 1 ELSE snap.stack[r]
      BY <1>5, <2>3, ApplyMakes
    <3>2. \E what \in {"paying", "undoInterrupted"} : Say(c, p, what)
      BY <1>5, <2>3 DEF ApplyChips
    <3>3. snap'.stack[p] = 1 /\ p \in snap.seated
      BY <1>2, <2>1, <3>1
    <3> QED
      BY <1>1, <3>1, <3>2, <3>3, DialogueGoesOn
  <2>4. CASE UNCHANGED snap
    <3>1. \E what \in {"interrupted", "skipped", "undoInterrupted", "threw"} : Say(c, p, what)
      <4>1. snap.stack[p] = 0 /\ snap \in Snapshot
        BY <1>2, <2>1, ShapeParts
      <4>2. snap' # [snap EXCEPT !.stack[p] = @ + 1]
        BY <2>4, <4>1 DEF Snapshot
      <4> QED
        BY <1>5, <4>2 DEF ApplyChips
    <3> QED
      BY <2>2, <2>4, <3>1
  <2> QED
    BY <2>3, <2>4
<1>6. CASE Pay(c, p)
  <2>1. UNCHANGED snap /\ ask[c][p] = "paying"
    BY <1>6 DEF Pay
  <2>2. \/ \E what \in {"applied", "undoSkipped", "undoDeferred"} : Say(c, p, what)
        \/ UNCHANGED ask
    BY <1>6 DEF Pay
  <2>3. CASE UNCHANGED ask
    BY <1>1, <2>1, <2>3 DEF DialogueFits
  <2> QED
    BY <1>1, <1>2, <2>1, <2>2, <2>3, DialogueGoesOn
<1>7. CASE RevertRebuy(c, p)
  <2> DEFINE what == CASE ask[c][p] = "undoInterrupted" -> "interrupted"
                       [] ask[c][p] = "undoDeferred"    -> "deferred"
                       [] OTHER                         -> "skipped"
  <2>1. what \in {"interrupted", "deferred", "skipped"}
    OBVIOUS
  <2>2. Say(c, p, what)
    BY <1>7 DEF RevertRebuy
  <2>3. /\ snap'.seated = snap.seated
        /\ \A r \in Players : r # p => snap'.stack[r] = snap.stack[r]
    BY <1>7, RevertMakes
  <2> HIDE DEF what
  <2> QED
    BY <1>1, <2>1, <2>2, <2>3, DialogueGoesOn
<1> QED
  BY <1>3, <1>4, <1>5, <1>6, <1>7 DEF Talk

\* the questions of a round go to players without chips
LEMMA DialogueQuiet ==
  ASSUME AskingFits', NEW c \in Cmds, \A d \in Cmds : d # c => cmd'[d].pc = "idle",
         AskingFits, UNCHANGED ask,
         cmd[c].pc # "asking",
         cmd'[c].pc \in {"settled", "opening"} => \A p \in cmd'[c].asked : p \in Broke(snap')
  PROVE  DialogueFits'
<1>1. \A d \in Cmds, p \in Players : d # c => ask'[d][p] = "none"
  BY DEF AskingFits
<1>2. \A p \in Players : ask'[c][p] = "none"
  BY DEF AskingFits
<1> QED
  BY <1>1, <1>2 DEF DialogueFits

\* A step of the command keeps them, stage by stage.
LEMMA DialogueInStep ==
  ASSUME Rounds, Rounds', DialogueFits, NEW c \in Cmds, Lone(c),
         Dealer(c) \/ Step(c) \/ Throw(c)
  PROVE  DialogueFits'
<1>0. Shape /\ AskingFits /\ BusyAtEnd /\ AskingFits' /\ BusyAtEnd'
  BY DEF Rounds, OneAtATime
<1>i. \A d \in Cmds : d # c => cmd'[d].pc = "idle"
  BY <1>0, LoneAfter
<1>a. \A d \in Cmds, p \in Players : d # c => cmd'[d].pc = "idle" /\ ask'[d][p] = "none"
  BY <1>0, LoneAfter
<1>b. cmd[c].pc \in {"settled", "opening"} => \A p \in cmd[c].asked : p \in Broke(snap)
  <2>1. cmd[c].asked \subseteq Players
    BY <1>0, ShapeParts, CommandFields
  <2> QED
    BY <2>1 DEF DialogueFits
<1>c. ASSUME UNCHANGED ask, cmd[c].pc # "asking", cmd'[c].pc \notin {"settled", "opening"}
      PROVE  DialogueFits'
  BY <1>0, <1>c, <1>i, DialogueQuiet
<1>1. ASSUME NEW w \in Players, ResolveWinners(c, w) PROVE DialogueFits'
  <2>1. UNCHANGED ask /\ cmd[c].pc # "asking"
    BY <1>1 DEF ResolveWinners
  <2>2. cmd'[c].asked = Broke(snap')
    BY <1>0, <1>1, ResolveMakes, ResolveOnly
  <2> QED
    BY <1>0, <1>i, <2>1, <2>2, DialogueQuiet
<1>2. CASE RetryCheckpoint(c)
  <2>1. UNCHANGED ask /\ cmd[c].pc # "asking" /\ cmd'[c].pc = "save"
    BY <1>0, <1>2, RetryOnly DEF RetryCheckpoint
  <2> QED
    BY <1>c, <2>1
<1>3. CASE FilterKicked(c)
  <2> DEFINE A == cmd[c].asked \ kicked
  <2>1. A \in SUBSET Players /\ cmd[c].pc = "settled" /\ UNCHANGED <<snap, ask>>
    BY <1>0, <1>3, ShapeParts, CommandFields DEF FilterKicked
  <2>2. \/ cmd' = [cmd EXCEPT ![c].pc = "opening", ![c].asked = A, ![c].gen = link.gen]
        \/ MoveOn(c, "eliminate")
    BY <1>3 DEF FilterKicked
  <2>3. A \subseteq cmd[c].asked
    OBVIOUS
  <2> HIDE DEF A
  <2>4. CASE MoveOn(c, "eliminate")
    <3>1. cmd'[c].pc = "eliminate"
      BY <1>0, <2>4, MoveOnOnly DEF Pcs, Busy
    <3> QED
      BY <1>c, <2>1, <3>1
  <2>5. CASE cmd' = [cmd EXCEPT ![c].pc = "opening", ![c].asked = A, ![c].gen = link.gen]
    <3>1. cmd'[c].asked = A
      BY <1>0, <2>1, <2>5, AskOnly
    <3>2. \A p \in cmd'[c].asked : p \in Broke(snap')
      BY <1>b, <2>1, <2>3, <3>1
    <3> QED
      BY <1>0, <1>i, <2>1, <3>2, DialogueQuiet
  <2> QED
    BY <2>2, <2>4, <2>5
<1>4. CASE OpenRound(c)
  <2>1. cmd'[c].pc = "asking" /\ cmd[c].pc = "opening" /\ UNCHANGED snap
    BY <1>0, <1>4, OpenOnly DEF OpenRound
  <2>2. ask \in [Cmds -> [Players -> Dialogue]]
    BY <1>0, ShapeParts
  <2>3. \A p \in Players : \/ ask'[c][p] \in {"none", "interrupted"}
                           \/ ask'[c][p] = "reading" /\ p \in cmd[c].asked
    BY <1>4, <2>2 DEF OpenRound
  <2> QED
    BY <1>a, <1>b, <2>1, <2>3 DEF DialogueFits
<1>5. CASE CloseRound(c)
  <2> DEFINE A == {p \in cmd[c].asked : ask[c][p] \in Interrupted}
  <2>1. A \in SUBSET Players
    BY <1>0, ShapeParts, CommandFields
  <2>2. \/ cmd' = [cmd EXCEPT ![c] = IdleCmd]
        \/ MoveOn(c, "unmark")
        \/ cmd' = [cmd EXCEPT ![c].pc = "holding", ![c].asked = A]
    BY <1>5 DEF CloseRound
  <2> HIDE DEF A
  <2>3. \A p \in Players : ask'[c][p] = "none"
    <3>1. ask \in [Cmds -> [Players -> Dialogue]]
      BY <1>0, ShapeParts
    <3> QED
      BY <1>5, <3>1 DEF CloseRound
  <2>4. ASSUME cmd'[c].pc \notin {"settled", "opening"} PROVE DialogueFits'
    BY <1>a, <2>3, <2>4 DEF DialogueFits
  <2>5. CASE cmd' = [cmd EXCEPT ![c] = IdleCmd]
    BY <1>0, <2>4, <2>5, EndOnly
  <2>6. CASE MoveOn(c, "unmark")
    <3>1. cmd'[c].pc = "unmark"
      BY <1>0, <2>6, MoveOnOnly DEF Pcs, Busy
    <3> QED
      BY <2>4, <3>1
  <2>7. CASE cmd' = [cmd EXCEPT ![c].pc = "holding", ![c].asked = A]
    BY <1>0, <2>1, <2>4, <2>7, HoldingOnly
  <2> QED
    BY <2>2, <2>5, <2>6, <2>7
<1>6. CASE Hold(c)
  <2>1. UNCHANGED ask /\ cmd[c].pc # "asking" /\ cmd'[c].pc = "held"
    BY <1>0, <1>6, HeldOnly DEF Hold
  <2> QED
    BY <1>c, <2>1
<1>7. CASE Wake(c)
  <2> DEFINE A == cmd[c].asked \intersect Broke(snap)
  <2>1. A \in SUBSET Players /\ cmd[c].pc = "held" /\ UNCHANGED <<snap, ask>>
    BY <1>0, <1>7, ShapeParts, CommandFields DEF Wake
  <2>2. \/ cmd' = [cmd EXCEPT ![c].pc = "opening", ![c].asked = A, ![c].gen = link.gen]
        \/ MoveOn(c, "unmark")
    BY <1>7 DEF Wake
  <2>3. A \subseteq Broke(snap)
    OBVIOUS
  <2> HIDE DEF A
  <2>4. CASE MoveOn(c, "unmark")
    <3>1. cmd'[c].pc = "unmark"
      BY <1>0, <2>4, MoveOnOnly DEF Pcs, Busy
    <3> QED
      BY <1>c, <2>1, <3>1
  <2>5. CASE cmd' = [cmd EXCEPT ![c].pc = "opening", ![c].asked = A, ![c].gen = link.gen]
    <3>1. cmd'[c].asked = A
      BY <1>0, <2>1, <2>5, AskOnly
    <3> QED
      BY <1>0, <1>i, <2>1, <2>3, <3>1, DialogueQuiet
  <2> QED
    BY <2>2, <2>4, <2>5
<1>8. CASE Unmark(c) \/ Eliminate(c)
  <2>1. MoveOn(c, "eliminate") \/ MoveOn(c, "load") \/ cmd' = [cmd EXCEPT ![c] = IdleCmd]
    BY <1>8 DEF Unmark, Eliminate
  <2>2. cmd'[c].pc \in {"eliminate", "load", "idle"}
    BY <1>0, <2>1, EndOnly, MoveOnOnly DEF Pcs, Busy
  <2>3. UNCHANGED ask /\ cmd[c].pc # "asking"
    BY <1>8 DEF Unmark, Eliminate
  <2> QED
    BY <1>c, <2>2, <2>3
<1>9. CASE LoadSnapshot(c) \/ SaveStacks(c)
  <2>1. UNCHANGED ask /\ cmd[c].pc # "asking"
    BY <1>9 DEF LoadSnapshot, SaveStacks
  <2>2. \/ Failed(c) \/ MoveOn(c, "finish")
        \/ cmd' = [cmd EXCEPT ![c].pc = "save", ![c].stack = snap.stack, ![c].seated = snap.seated]
    BY <1>9 DEF LoadSnapshot, SaveStacks
  <2>3. CASE Failed(c)
    BY <1>0, <1>c, <2>1, <2>3, FailedOnly
  <2>4. CASE MoveOn(c, "finish")
    <3>1. cmd'[c].pc = "finish"
      BY <1>0, <2>4, MoveOnOnly DEF Pcs, Busy
    <3> QED
      BY <1>c, <2>1, <3>1
  <2>5. CASE cmd' = [cmd EXCEPT ![c].pc = "save", ![c].stack = snap.stack,
                                ![c].seated = snap.seated]
    BY <1>0, <1>c, <2>1, <2>5, LoadedOnly
  <2> QED
    BY <2>2, <2>3, <2>4, <2>5
<1>10. CASE FinishHand(c) \/ Throw(c)
  <2>1. cmd' = [cmd EXCEPT ![c] = IdleCmd]
    BY <1>10 DEF FinishHand, Throw
  <2>2. cmd'[c].pc = "idle"
    BY <1>0, <2>1, EndOnly
  <2>3. \A d \in Cmds : cmd'[d].pc = "idle"
    BY <1>i, <2>2
  <2> QED
    BY <1>0, <2>3, IdleAfter
<1> QED
  BY <1>1, <1>2, <1>3, <1>4, <1>5, <1>6, <1>7, <1>8, <1>9, <1>10 DEF Dealer, Step

\* Every step keeps them.
LEMMA DialogueStep ==
  ASSUME Rounds, Rounds', DialogueFits, [Next]_vars, ~ overlapped'
  PROVE  DialogueFits'
<1>0. /\ Shape /\ AskingFits /\ BusyAtEnd /\ OneAtATime /\ Alone
      /\ AskingFits' /\ BusyAtEnd'
  BY DEF Rounds, OneAtATime
<1>1. ASSUME snap.phase # "HAND_END", UNCHANGED <<cmd, ask>> PROVE DialogueFits'
  BY <1>0, <1>1, OutsideEnd DEF DialogueFits
<1>2. ASSUME UNCHANGED <<cmd, ask>>, snap'.stack = snap.stack, snap'.seated = snap.seated
      PROVE  DialogueFits'
  BY <1>2 DEF DialogueFits, Broke
<1>3. CASE Hall
  BY <1>1, <1>2, <1>3 DEF Hall, Start, Bet, Kick, CloseRegistration
<1>4. ASSUME NEW c \in Cmds, Dealer(c) \/ Step(c) \/ Throw(c) PROVE DialogueFits'
  BY <1>0, <1>4, ActsAlone, DialogueInStep
<1>5. CASE ResumeTable
  BY <1>0, <1>2, <1>5, HoldMakes DEF ResumeTable
<1>6. ASSUME NEW c \in Cmds, NEW p \in Players, Talk(c, p) PROVE DialogueFits'
  BY <1>0, <1>6, DialogueTalk
<1>7. CASE Outage
  <2>1. UNCHANGED <<snap, cmd>>
    BY <1>7 DEF Outage
  <2>2. \A c \in Cmds, p \in Players : ask'[c][p] = ask[c][p] \/ ask'[c][p] = "interrupted"
    BY <1>7 DEF Outage
  <2> QED
    BY <2>1, <2>2 DEF DialogueFits
<1>8. CASE Reconnect
  BY <1>2, <1>8 DEF Reconnect
<1>9. CASE Recovered
  BY <1>0, <1>2, <1>9, StopsMakes DEF Recovered
<1>10. CASE Restart
  BY <1>0, <1>10, IdleAfter DEF Restart, IdleCmd
<1>11. CASE UNCHANGED vars
  BY <1>2, <1>11 DEF vars
<1> QED
  BY <1>3, <1>4, <1>5, <1>6, <1>7, <1>8, <1>9, <1>10, <1>11 DEF Next

-----------------------------------------------------------------------------
(* The chips, the ledger and what is owed.                                 *)

\* the chips of the players: on the table, or with the database
Chips == [p \in Players |-> IF p \in snap.seated THEN snap.stack[p] ELSE db.stack[p]]

\* MoneyForChips and LedgerHoldsChips, whatever overlapped
Money == /\ Sum(Chips) + snap.pot = Sum(db.buyIns) + gifts.table + Cardinality(Unpaid)
         /\ Sum(db.stack) = Sum(db.buyIns) + gifts.db

\* The two books are right before a step and after it.
LEMMA MoneyIsAfter ==
  Money' <=> /\ Sum(Chips') + snap'.pot = Sum(db'.buyIns) + gifts'.table + Cardinality(Unpaid')
             /\ Sum(db'.stack) = Sum(db'.buyIns) + gifts'.db
BY DEF Money, Chips

\* The two properties are the two books.
LEMMA MoneyIsBooks == Money => MoneyForChips /\ LedgerHoldsChips
BY DEF Money, Chips, MoneyForChips, LedgerHoldsChips

\* The sum of the specification is the sum over all players.
LEMMA SumIs == ASSUME NEW f PROVE Sum(f) = SumOver(f, Players)
BY DEF Sum, SumOver

\* Chips, stacks, buy-ins and gifts are numbers.
LEMMA ChipsAre ==
  ASSUME Shape
  PROVE  /\ Chips \in [Players -> Nat] /\ db.stack \in [Players -> Nat]
         /\ db.buyIns \in [Players -> Nat] /\ snap.stack \in [Players -> Nat]
         /\ snap.seated \subseteq Players /\ snap.pot \in Nat
         /\ gifts.table \in Int /\ gifts.db \in Int
<1>1. snap \in Snapshot /\ db \in Database /\ gifts \in Gifts
  BY ShapeParts
<1> QED
  BY <1>1, SnapshotFields, DatabaseFields DEF Chips, Gifts

\* So are their sums.
LEMMA SumsAre ==
  ASSUME Shape
  PROVE  Sum(Chips) \in Nat /\ Sum(db.stack) \in Nat /\ Sum(db.buyIns) \in Nat
         /\ Cardinality(Unpaid) \in Nat
BY ChipsAre, Bounds, SumIs, SumTyped, UnpaidCounted

\* the same numbers, the same sums
LEMMA SameSum ==
  ASSUME NEW f, NEW g, \A p \in Players : g[p] = f[p] /\ f[p] \in Int
  PROVE  Sum(g) = Sum(f)
BY Bounds, SumIs, SumSame

\* one number more by d
LEMMA SumMoves ==
  ASSUME NEW f, NEW g, NEW x \in Players, NEW d \in Int,
         \A p \in Players : f[p] \in Int /\ g[p] = IF p = x THEN f[p] + d ELSE f[p]
  PROVE  Sum(g) = Sum(f) + d
BY Bounds, SumIs, SumChange

-----------------------------------------------------------------------------
(* Rebuys whose money has not moved.                                       *)

Owes(c, p) == ask[c][p] = "paying" \/ (ask[c][p] \in Undoing /\ Landed(p))

\* Those who owe, one by one.
LEMMA UnpaidIs == Unpaid = {x \in Cmds \X Players : Owes(x[1], x[2])}
BY DEF Unpaid, Owes

\* Nobody owes, nothing is owed.
LEMMA NobodyOwes ==
  ASSUME \A c \in Cmds, p \in Players : ~ Owes(c, p)
  PROVE  Unpaid = {} /\ Cardinality(Unpaid) = 0
BY UnpaidIs, FS_EmptySet

\* The same after a step.
LEMMA NobodyOwesAfter ==
  ASSUME \A c \in Cmds, p \in Players : ~ Owes(c, p)'
  PROVE  Unpaid' = {} /\ Cardinality(Unpaid') = 0
<1>1. Unpaid' = {x \in Cmds \X Players : Owes(x[1], x[2])'}
  BY DEF Unpaid, Owes
<1> QED
  BY <1>1, FS_EmptySet

\* The same players owe, the same is owed.
LEMMA OwesSame ==
  ASSUME \A c \in Cmds, p \in Players : Owes(c, p)' <=> Owes(c, p)
  PROVE  Unpaid' = Unpaid
<1>1. Unpaid' = {x \in Cmds \X Players : Owes(x[1], x[2])'}
  BY DEF Unpaid, Owes
<1> QED
  BY <1>1, UnpaidIs

\* One player more owes.
LEMMA OneOwesMore ==
  ASSUME NEW c \in Cmds, NEW p \in Players, ~ Owes(c, p),
         \A d \in Cmds, r \in Players : Owes(d, r)' <=> Owes(d, r) \/ (d = c /\ r = p)
  PROVE  Cardinality(Unpaid') = Cardinality(Unpaid) + 1
<1>1. Unpaid' = {x \in Cmds \X Players : Owes(x[1], x[2])'}
  BY DEF Unpaid, Owes
<1>2. \A x \in Cmds \X Players : x[1] \in Cmds /\ x[2] \in Players /\ x = <<x[1], x[2]>>
  OBVIOUS
<1>3. Unpaid' = Unpaid \union {<<c, p>>} /\ <<c, p>> \notin Unpaid
  BY <1>1, <1>2, UnpaidIs
<1> QED
  BY <1>3, UnpaidCounted, FS_AddElement

\* One player has paid, or has been reverted.
LEMMA OneOwesLess ==
  ASSUME NEW c \in Cmds, NEW p \in Players, Owes(c, p),
         \A d \in Cmds, r \in Players : Owes(d, r)' <=> Owes(d, r) /\ ~ (d = c /\ r = p)
  PROVE  Cardinality(Unpaid') = Cardinality(Unpaid) - 1
<1>1. Unpaid' = {x \in Cmds \X Players : Owes(x[1], x[2])'}
  BY DEF Unpaid, Owes
<1>2. \A x \in Cmds \X Players : x[1] \in Cmds /\ x[2] \in Players /\ x = <<x[1], x[2]>>
  OBVIOUS
<1>3. Unpaid' = Unpaid \ {<<c, p>>} /\ <<c, p>> \in Unpaid
  BY <1>1, <1>2, UnpaidIs
<1> QED
  BY <1>3, UnpaidCounted, FS_RemoveElement

-----------------------------------------------------------------------------
(* The money, step by step.                                                *)

\* nothing that is counted changes
LEMMA MoneyQuiet ==
  ASSUME Shape, Money, snap'.seated = snap.seated, snap'.stack = snap.stack,
         snap'.pot = snap.pot, db'.stack = db.stack, db'.buyIns = db.buyIns,
         gifts' = gifts, Unpaid' = Unpaid
  PROVE  Money'
<1>1. Chips' = Chips
  BY DEF Chips
<1> QED
  BY <1>1, MoneyIsAfter DEF Money

\* a hand starts: the stacks go into the pot
LEMMA MoneyStart ==
  ASSUME Shape, AskingFits, BusyAtEnd, HandFits, Money, NEW S \in SUBSET Players, Start(S)
  PROVE  Money'
<1>1. /\ snap.phase = "WAITING" /\ UNCHANGED <<db, ask, gifts>> /\ snap.pot = 0
  BY DEF Start, HandFits
<1>2. \A c \in Cmds, p \in Players : ask[c][p] = "none"
  BY <1>1, OutsideEnd
<1>3. Unpaid = {} /\ Unpaid' = {}
  BY <1>1, <1>2, NobodyOwes, NobodyOwesAfter DEF Owes, Undoing
<1>4. /\ snap'.pot = SumOver(snap.stack, S) /\ snap'.seated = snap.seated /\ S \subseteq snap.seated
      /\ \A p \in Players : snap'.stack[p] = IF p \in S THEN 0 ELSE snap.stack[p]
  BY StartMakes
<1> DEFINE g == [p \in Players |-> IF p \in S THEN snap.stack[p] ELSE 0]
<1>5. /\ Chips \in [Players -> Nat] /\ snap.stack \in [Players -> Nat] /\ IsFiniteSet(Players)
      /\ snap.seated \subseteq Players
  BY ChipsAre, Bounds
<1>6. \A p \in Players : /\ Chips'[p] \in Int /\ g[p] \in Int /\ Chips[p] = Chips'[p] + g[p]
                         /\ snap.stack[p] \in Int
  BY <1>1, <1>4, <1>5 DEF Chips
<1>7. \A p \in Players : snap.stack[p] \in Int /\ g[p] = IF p \in S THEN snap.stack[p] ELSE 0
  BY <1>5
<1> HIDE DEF g
<1>8. SumOver(g, Players) = SumOver(snap.stack, S)
  BY <1>5, <1>7, SumPart
<1>9. SumOver(Chips, Players) = SumOver(Chips', Players) + SumOver(g, Players)
  BY <1>5, <1>6, SumPlus
<1>10. Sum(Chips) = Sum(Chips') + snap'.pot
  BY <1>4, <1>8, <1>9, SumIs
<1>11. Sum(Chips) + 0 = Sum(Chips) /\ Cardinality(Unpaid') = Cardinality(Unpaid)
  BY <1>3, SumsAre
<1> QED
  BY <1>1, <1>10, <1>11, MoneyIsAfter DEF Money

\* only a dialogue owes
LEMMA StepOwesNothing ==
  ASSUME Shape, AskingFits, AskingFits', NEW c \in Cmds, Lone(c), Dealer(c) \/ Step(c) \/ Throw(c)
  PROVE  Unpaid = {} /\ Unpaid' = {}
<1>0. \A d \in Cmds, p \in Players : d # c => ask[d][p] = "none" /\ ask'[d][p] = "none"
  BY LoneDialogue, LoneAfter
<1>a. ASSUME \A p \in Players : ~ Owes(c, p) /\ ~ Owes(c, p)'
      PROVE  Unpaid = {} /\ Unpaid' = {}
  <2>1. \A d \in Cmds, p \in Players : d # c => ~ Owes(d, p) /\ ~ Owes(d, p)'
    BY <1>0 DEF Owes, Undoing
  <2> QED
    BY <1>a, <2>1, NobodyOwes, NobodyOwesAfter
<1>1. CASE cmd[c].pc # "asking" /\ (UNCHANGED ask \/ OpenRound(c))
  <2>1. \A p \in Players : ask[c][p] = "none"
    BY <1>1 DEF AskingFits
  <2>2. ask \in [Cmds -> [Players -> Dialogue]]
    BY ShapeParts
  <2>3. \A p \in Players : ask'[c][p] \in {"none", "reading", "interrupted"}
    BY <1>1, <2>1, <2>2 DEF OpenRound
  <2>4. \A p \in Players : ~ Owes(c, p) /\ ~ Owes(c, p)'
    BY <2>1, <2>3 DEF Owes, Undoing
  <2> QED
    BY <1>a, <2>4
<1>2. CASE CloseRound(c)
  <2>1. ask \in [Cmds -> [Players -> Dialogue]]
    BY ShapeParts
  <2>2. \A p \in Players : ask'[c][p] = "none"
    BY <1>2, <2>1 DEF CloseRound
  <2>3. \A p \in Players : p \in cmd[c].asked => ask[c][p] \in Outcomes
    BY <1>2 DEF CloseRound
  <2>4. \A p \in Players : p \notin cmd[c].asked => ask[c][p] = "none"
    BY DEF AskingFits
  <2>5. \A p \in Players : ~ Owes(c, p)
    BY <2>3, <2>4 DEF Owes, Outcomes, Undoing
  <2>6. \A p \in Players : ~ Owes(c, p)'
    BY <2>2 DEF Owes, Undoing
  <2> QED
    BY <1>a, <2>5, <2>6
<1>3. CASE OpenRound(c)
  BY <1>1, <1>3 DEF OpenRound
<1>4. CASE cmd[c].pc # "asking" /\ UNCHANGED ask
  BY <1>1, <1>4
<1> QED
  BY <1>2, <1>3, <1>4
  DEF Dealer, Step, Throw, ResolveWinners, RetryCheckpoint, FilterKicked, Hold, Wake, Unmark,
      Eliminate, LoadSnapshot, SaveStacks, FinishHand

\* the winner takes the pot
LEMMA MoneyResolve ==
  ASSUME Shape, HandFits, Money, NEW c \in Cmds, NEW w \in Players, ResolveWinners(c, w),
         Unpaid' = Unpaid
  PROVE  Money'
<1>1. UNCHANGED <<db, gifts>>
  BY DEF ResolveWinners
<1>2. /\ snap'.pot = 0 /\ snap'.seated = snap.seated /\ w \in snap.seated
      /\ \A p \in Players :
           snap'.stack[p] = IF p = w THEN snap.stack[p] + snap.pot ELSE snap.stack[p]
  BY ResolveMakes DEF HandFits
<1>3. Chips \in [Players -> Nat] /\ snap.pot \in Nat /\ snap.pot \in Int
  BY ChipsAre
<1>4. \A p \in Players : Chips[p] \in Int
                         /\ Chips'[p] = IF p = w THEN Chips[p] + snap.pot ELSE Chips[p]
  BY <1>1, <1>2, <1>3 DEF Chips
<1>5. Sum(Chips') = Sum(Chips) + snap.pot
  <2>1. ASSUME NEW f, NEW g, NEW d \in Int,
               \A p \in Players : f[p] \in Int /\ g[p] = IF p = w THEN f[p] + d ELSE f[p]
        PROVE  Sum(g) = Sum(f) + d
    BY <2>1, SumMoves
  <2> QED
    BY <1>3, <1>4, <2>1
<1>6. Sum(Chips') + 0 = Sum(Chips')
  BY <1>3, <1>5, SumsAre
<1> QED
  BY <1>1, <1>2, <1>5, <1>6, MoneyIsAfter DEF Money

\* the stacks are saved
LEMMA MoneySave ==
  ASSUME Shape, BusyAtEnd, HandFits, SavedFits, Money, NEW c \in Cmds, SaveStacks(c),
         Unpaid = {}, Unpaid' = {}
  PROVE  Money'
<1>1. UNCHANGED snap /\ cmd[c].pc = "save"
  BY DEF SaveStacks
<1>2. snap.pot = 0 /\ cmd[c].stack = snap.stack /\ cmd[c].seated = snap.seated
  BY <1>1 DEF BusyAtEnd, HandFits, SavedFits
<1>3. CASE UNCHANGED <<db, gifts>>
  BY <1>1, <1>3, MoneyQuiet
<1>4. CASE /\ db'.buyIns = db.buyIns
           /\ \A p \in Players :
                db'.stack[p] = IF p \in cmd[c].seated THEN cmd[c].stack[p] ELSE db.stack[p]
           /\ gifts' = [gifts EXCEPT !.db = gifts.table]
  <2>1. Chips \in [Players -> Nat] /\ gifts \in Gifts
    BY ChipsAre, ShapeParts
  <2>2. \A p \in Players : db'.stack[p] = Chips[p] /\ Chips[p] \in Int
    BY <1>2, <1>4, <2>1 DEF Chips
  <2>3. \A p \in Players : Chips'[p] = Chips[p] /\ Chips[p] \in Int
    BY <1>1, <2>1, <2>2 DEF Chips
  <2>4. Sum(db'.stack) = Sum(Chips) /\ Sum(Chips') = Sum(Chips)
    BY <2>2, <2>3, SameSum
  <2>5. gifts'.table = gifts.table /\ gifts'.db = gifts.table /\ gifts.table \in Int
    BY <1>4, <2>1 DEF Gifts
  <2>6. Cardinality(Unpaid) = 0 /\ Cardinality(Unpaid') = 0
    BY FS_EmptySet
  <2>7. Sum(Chips) + 0 = Sum(db.buyIns) + gifts.table + 0
    BY <1>2, <2>6 DEF Money
  <2>8. Sum(Chips) = Sum(db.buyIns) + gifts.table
    BY <2>5, <2>7, SumsAre
  <2>9. Sum(db'.stack) = Sum(db'.buyIns) + gifts'.db
    BY <1>4, <2>4, <2>5, <2>8
  <2>10. Sum(Chips') + snap'.pot = Sum(db'.buyIns) + gifts'.table + Cardinality(Unpaid')
    BY <1>1, <1>2, <1>4, <2>4, <2>5, <2>6, <2>7
  <2> QED
    BY <2>9, <2>10, MoneyIsAfter
<1> QED
  BY <1>3, <1>4, SaveMakes

\* the seats of the busted are emptied
LEMMA MoneyFinish ==
  ASSUME Shape, SavedFits, Money, NEW c \in Cmds, FinishHand(c), Unpaid' = Unpaid
  PROVE  Money'
<1>1. cmd[c].pc = "finish" /\ UNCHANGED gifts
  BY DEF FinishHand
<1>2. db'.stack = db.stack /\ db'.buyIns = db.buyIns
  BY FinishDb, EliminateMakes
<1>3. /\ snap'.pot = snap.pot /\ snap'.stack = snap.stack
      /\ snap'.seated = snap.seated \/ snap'.seated = snap.seated \ Broke(snap)
  BY FinishMakes
<1>4. \A p \in snap.seated : db.stack[p] = snap.stack[p]
  BY <1>1 DEF SavedFits
<1>5. Chips \in [Players -> Nat] /\ db.stack \in [Players -> Nat]
  BY ChipsAre
<1>6. \A p \in Players : Chips'[p] = Chips[p] /\ Chips[p] \in Int
  BY <1>2, <1>3, <1>4, <1>5 DEF Chips, Broke
<1>7. Sum(Chips') = Sum(Chips)
  BY <1>6, SameSum
<1> QED
  BY <1>1, <1>2, <1>3, <1>7, MoneyIsAfter DEF Money

\* A step of the command keeps the books.
LEMMA MoneyInStep ==
  ASSUME Rounds, Rounds', HandFits, SavedFits, Money, NEW c \in Cmds, Lone(c),
         Dealer(c) \/ Step(c) \/ Throw(c)
  PROVE  Money'
<1>0. Shape /\ AskingFits /\ AskingFits' /\ BusyAtEnd
  BY DEF Rounds, OneAtATime
<1>1. Unpaid = {} /\ Unpaid' = {}
  BY <1>0, StepOwesNothing
<1>2. ASSUME NEW w \in Players, ResolveWinners(c, w) PROVE Money'
  BY <1>0, <1>1, <1>2, MoneyResolve
<1>3. CASE SaveStacks(c)
  BY <1>0, <1>1, <1>3, MoneySave
<1>4. CASE FinishHand(c)
  BY <1>0, <1>1, <1>4, MoneyFinish
<1>5. CASE UNCHANGED <<snap, db, gifts>>
  BY <1>0, <1>1, <1>5, MoneyQuiet
<1>6. CASE Hold(c)
  <2>1. UNCHANGED <<db, gifts>>
    BY <1>6 DEF Hold
  <2>2. snap'.pot = snap.pot /\ snap'.seated = snap.seated /\ snap'.stack = snap.stack
    BY <1>0, <1>6, HoldMakes DEF Hold
  <2> QED
    BY <1>0, <1>1, <2>1, <2>2, MoneyQuiet
<1>7. CASE Eliminate(c)
  <2>1. UNCHANGED <<snap, gifts>>
    BY <1>7 DEF Eliminate
  <2>2. db'.stack = db.stack /\ db'.buyIns = db.buyIns
    BY <1>0, <1>7, EliminateMakes DEF Eliminate
  <2> QED
    BY <1>0, <1>1, <2>1, <2>2, MoneyQuiet
<1> QED
  BY <1>2, <1>3, <1>4, <1>5, <1>6, <1>7
  DEF Dealer, Step, Throw, RetryCheckpoint, FilterKicked, OpenRound, CloseRound, Wake, Unmark,
      LoadSnapshot

-----------------------------------------------------------------------------
(* The money of a rebuy.                                                   *)

\* what a dialogue's step leaves of the others
LEMMA OthersOwe ==
  ASSUME Shape, AskingFits, NEW c \in Cmds, NEW p \in Players, Lone(c),
         \/ UNCHANGED ask
         \/ \E what \in Dialogue : Say(c, p, what),
         snap'.seated = snap.seated, \A r \in Players : r # p => snap'.stack[r] = snap.stack[r]
  PROVE  \A d \in Cmds, r \in Players : (d # c \/ r # p) => (Owes(d, r)' <=> Owes(d, r))
<1>1. \A d \in Cmds, r \in Players : d # c => ask[d][r] = "none" /\ ask'[d][r] = "none"
  BY LoneDialogue, Saying
<1>2. \A r \in Players : r # p => ask'[c][r] = ask[c][r]
  BY Saying
<1> QED
  BY <1>1, <1>2 DEF Owes, Landed, Undoing

\* the chips are on the table, the money is owed
LEMMA MoneyApply ==
  ASSUME Shape, AskingFits, DialogueFits, Money, NEW c \in Cmds, NEW p \in Players, Lone(c),
         ApplyChips(c, p)
  PROVE  Money'
<1> USE DEF Dialogue, Outcomes, Undoing
<1>1. ask[c][p] = "accepted" /\ UNCHANGED <<db, gifts>>
  BY DEF ApplyChips
<1>2. p \in snap.seated /\ snap.stack[p] = 0 /\ ~ Owes(c, p)
  BY <1>1 DEF DialogueFits, Broke, Owes
<1>3. CASE ~ UNCHANGED snap
  <2>1. /\ snap'.pot = snap.pot /\ snap'.seated = snap.seated
        /\ \A r \in Players : snap'.stack[r] = IF r = p THEN snap.stack[r] + 1 ELSE snap.stack[r]
    BY <1>3, ApplyMakes
  <2>2. \E what \in {"paying", "undoInterrupted"} : Say(c, p, what)
    BY <1>3 DEF ApplyChips
  <2>3. ask'[c][p] \in {"paying", "undoInterrupted"}
    BY <2>2, Saying
  <2>4. Owes(c, p)'
    BY <1>2, <2>1, <2>3 DEF Owes, Landed
  <2>5. \A d \in Cmds, r \in Players : (d # c \/ r # p) => (Owes(d, r)' <=> Owes(d, r))
    BY <2>1, <2>2, OthersOwe
  <2>6. Cardinality(Unpaid') = Cardinality(Unpaid) + 1
    BY <1>2, <2>4, <2>5, OneOwesMore
  <2>7. \A r \in Players : Chips[r] \in Int
                           /\ Chips'[r] = IF r = p THEN Chips[r] + 1 ELSE Chips[r]
    BY <1>1, <1>2, <2>1, ChipsAre DEF Chips
  <2>8. Sum(Chips') = Sum(Chips) + 1
    BY <2>7, SumMoves
  <2>9. Sum(Chips) + snap.pot = Sum(db.buyIns) + gifts.table + Cardinality(Unpaid)
    BY DEF Money
  <2>10. /\ Sum(Chips) \in Nat /\ Sum(db.buyIns) \in Nat /\ Cardinality(Unpaid) \in Nat
         /\ snap.pot \in Nat /\ gifts.table \in Int
    BY SumsAre, ChipsAre
  <2>11. Sum(Chips') + snap'.pot = Sum(db'.buyIns) + gifts'.table + Cardinality(Unpaid')
    BY <1>1, <2>1, <2>6, <2>8, <2>9, <2>10
  <2> QED
    BY <1>1, <2>11, MoneyIsAfter DEF Money
<1>4. CASE UNCHANGED snap
  <2>1. \E what \in {"interrupted", "skipped", "undoInterrupted", "threw"} : Say(c, p, what)
    <3>1. snap \in Snapshot
      BY ShapeParts
    <3>2. snap' # [snap EXCEPT !.stack[p] = @ + 1]
      BY <1>2, <1>4, <3>1 DEF Snapshot
    <3> QED
      BY <3>2 DEF ApplyChips
  <2>2. ask'[c][p] \in {"interrupted", "skipped", "undoInterrupted", "threw"}
    BY <2>1, Saying
  <2>3. ~ Owes(c, p)'
    BY <1>2, <1>4, <2>2 DEF Owes, Landed
  <2>4. \A d \in Cmds, r \in Players : (d # c \/ r # p) => (Owes(d, r)' <=> Owes(d, r))
    BY <1>4, <2>1, OthersOwe
  <2>5. Unpaid' = Unpaid
    BY <1>2, <2>3, <2>4, OwesSame
  <2> QED
    BY <1>1, <1>4, <2>5, MoneyQuiet
<1> QED
  BY <1>3, <1>4

\* the money moves, or the payment is to be undone
LEMMA MoneyPay ==
  ASSUME Shape, AskingFits, DialogueFits, Money, NEW c \in Cmds, NEW p \in Players, Lone(c),
         Pay(c, p)
  PROVE  Money'
<1> USE DEF Dialogue, Outcomes, Undoing
<1>1. ask[c][p] = "paying" /\ UNCHANGED snap
  BY DEF Pay
<1>2. p \in snap.seated /\ snap.stack[p] = 1 /\ Owes(c, p)
  BY <1>1 DEF DialogueFits, Owes
<1>3. CASE UNCHANGED <<db, gifts>> /\ (Say(c, p, "undoSkipped") \/ Say(c, p, "undoDeferred"))
  <2>1. ask'[c][p] \in {"undoSkipped", "undoDeferred"}
    BY <1>3, Saying
  <2>2. Owes(c, p)'
    BY <1>1, <1>2, <2>1 DEF Owes, Landed
  <2>3. \A d \in Cmds, r \in Players : (d # c \/ r # p) => (Owes(d, r)' <=> Owes(d, r))
    BY <1>1, <1>3, OthersOwe
  <2>4. Unpaid' = Unpaid
    BY <1>2, <2>2, <2>3, OwesSame
  <2> QED
    BY <1>1, <1>3, <2>4, MoneyQuiet
<1>4. CASE db' = Paid(p) /\ db.points[p] > 0
  <2>1. /\ \A r \in Players :
             /\ db'.stack[r] = IF r = p THEN db.stack[r] + 1 ELSE db.stack[r]
             /\ db'.buyIns[r] = IF r = p THEN db.buyIns[r] + 1 ELSE db.buyIns[r]
    <3>1. CASE UNCHANGED db
      <4>1. db \in Database
        BY ShapeParts
      <4>2. db.buyIns[p] \in Nat /\ db' = [db EXCEPT !.points[p] = @ - 1, !.buyIns[p] = @ + 1,
                                                     !.stack[p] = @ + 1]
        BY <1>4, <4>1, DatabaseFields DEF Paid
      <4> DEFINE bs == [db.buyIns EXCEPT ![p] = @ + 1]
      <4>3. db'.buyIns = bs
        BY <4>1, <4>2 DEF Database
      <4>4. bs[p] = db.buyIns[p] + 1
        BY <4>1, DatabaseFields
      <4> HIDE DEF bs
      <4>5. db.buyIns[p] = db.buyIns[p] + 1
        BY <3>1, <4>3, <4>4
      <4>6. FALSE
        <5>1. ASSUME NEW n \in Nat, n = n + 1 PROVE FALSE
          BY <5>1
        <5>2. db.buyIns[p] \in Nat
          BY <4>1, DatabaseFields
        <5> QED
          BY <4>5, <5>1, <5>2
      <4> QED
        BY <4>6
    <3> QED
      BY <3>1, PayMakes
  <2>2. /\ Chips \in [Players -> Nat] /\ db.stack \in [Players -> Nat]
        /\ db.buyIns \in [Players -> Nat]
    BY ChipsAre
  <2>3. \A r \in Players : Chips'[r] = Chips[r] /\ Chips[r] \in Int
    BY <1>1, <1>2, <2>1, <2>2 DEF Chips
  <2>4. Sum(Chips') = Sum(Chips)
    BY <2>3, SameSum
  <2>5. \A r \in Players : db.stack[r] \in Int
                           /\ db'.stack[r] = IF r = p THEN db.stack[r] + 1 ELSE db.stack[r]
    BY <2>1, <2>2
  <2>6. \A r \in Players : db.buyIns[r] \in Int
                           /\ db'.buyIns[r] = IF r = p THEN db.buyIns[r] + 1 ELSE db.buyIns[r]
    BY <2>1, <2>2
  <2>7. Sum(db'.stack) = Sum(db.stack) + 1
    BY <2>5, SumMoves
  <2>8. Sum(db'.buyIns) = Sum(db.buyIns) + 1
    BY <2>6, SumMoves
  <2>9. /\ Sum(Chips) + snap.pot = Sum(db.buyIns) + gifts.table + Cardinality(Unpaid)
        /\ Sum(db.stack) = Sum(db.buyIns) + gifts.db
    BY DEF Money
  <2>10. /\ Sum(Chips) \in Nat /\ Sum(db.buyIns) \in Nat /\ Cardinality(Unpaid) \in Nat
         /\ snap.pot \in Nat /\ gifts.table \in Int /\ gifts.db \in Int /\ Sum(db.stack) \in Nat
    BY SumsAre, ChipsAre
  <2>11. CASE Say(c, p, "applied") /\ UNCHANGED gifts
    <3>1. ask'[c][p] = "applied"
      BY <2>11, Saying
    <3>2. ~ Owes(c, p)'
      BY <3>1 DEF Owes
    <3>3. \A d \in Cmds, r \in Players : (d # c \/ r # p) => (Owes(d, r)' <=> Owes(d, r))
      BY <1>1, <2>11, OthersOwe
    <3>4. Cardinality(Unpaid') = Cardinality(Unpaid) - 1
      BY <1>2, <3>2, <3>3, OneOwesLess
    <3>5. Sum(Chips') + snap'.pot = Sum(db'.buyIns) + gifts'.table + Cardinality(Unpaid')
      BY <1>1, <2>11, <3>4, <2>4, <2>8, <2>9, <2>10
    <3>6. Sum(db'.stack) = Sum(db'.buyIns) + gifts'.db
      BY <2>11, <2>7, <2>8, <2>9, <2>10
    <3> QED
      BY <3>5, <3>6, MoneyIsAfter
  <2>12. CASE /\ UNCHANGED ask \/ Say(c, p, "undoDeferred")
              /\ gifts' = [gifts EXCEPT !.table = @ - 1]
    <3>1. ask'[c][p] \in {"paying", "undoDeferred"}
      BY <1>1, <2>12, Saying
    <3>2. Owes(c, p)'
      BY <1>1, <1>2, <3>1 DEF Owes, Landed
    <3>3. \A d \in Cmds, r \in Players : (d # c \/ r # p) => (Owes(d, r)' <=> Owes(d, r))
      BY <1>1, <2>12, OthersOwe
    <3>4. Unpaid' = Unpaid
      BY <1>2, <3>2, <3>3, OwesSame
    <3>5. gifts'.table = gifts.table - 1 /\ gifts'.db = gifts.db
      BY <2>12, ShapeParts DEF Gifts
    <3>6. Sum(Chips') + snap'.pot = Sum(db'.buyIns) + gifts'.table + Cardinality(Unpaid')
      BY <1>1, <3>4, <3>5, <2>4, <2>8, <2>9, <2>10
    <3>7. Sum(db'.stack) = Sum(db'.buyIns) + gifts'.db
      BY <3>5, <2>7, <2>8, <2>9, <2>10
    <3> QED
      BY <3>6, <3>7, MoneyIsAfter
  <2>13. \/ Say(c, p, "applied") /\ UNCHANGED gifts
         \/ /\ UNCHANGED ask \/ Say(c, p, "undoDeferred")
            /\ gifts' = [gifts EXCEPT !.table = @ - 1]
         \/ UNCHANGED <<db, gifts>> /\ (Say(c, p, "undoSkipped") \/ Say(c, p, "undoDeferred"))
    BY DEF Pay
  <2> QED
    BY <1>3, <2>11, <2>12, <2>13
<1> QED
  BY <1>3, <1>4 DEF Pay

\* the chips are taken back, or are a gift
LEMMA MoneyRevert ==
  ASSUME Shape, AskingFits, Money, NEW c \in Cmds, NEW p \in Players, Lone(c),
         RevertRebuy(c, p)
  PROVE  Money'
<1> USE DEF Dialogue, Outcomes, Undoing
<1>1. ask[c][p] \in Undoing /\ UNCHANGED db
  BY DEF RevertRebuy
<1>2. /\ \E what \in {"interrupted", "deferred", "skipped"} : Say(c, p, what)
      /\ Owes(c, p) <=> Landed(p)
  <2> DEFINE what == CASE ask[c][p] = "undoInterrupted" -> "interrupted"
                       [] ask[c][p] = "undoDeferred"    -> "deferred"
                       [] OTHER                         -> "skipped"
  <2>1. what \in {"interrupted", "deferred", "skipped"}
    OBVIOUS
  <2>2. Say(c, p, what)
    BY DEF RevertRebuy
  <2>3. Owes(c, p) <=> Landed(p)
    BY <1>1 DEF Owes
  <2> HIDE DEF what
  <2> QED
    BY <2>1, <2>2, <2>3
<1>3. ask'[c][p] \in {"interrupted", "deferred", "skipped"}
  BY <1>2, Saying
<1>4. ~ Owes(c, p)'
  BY <1>3 DEF Owes
<1>5. /\ snap'.seated = snap.seated /\ snap'.pot = snap.pot
      /\ \A r \in Players : r # p => snap'.stack[r] = snap.stack[r]
  BY RevertMakes
<1>6. \A d \in Cmds, r \in Players : (d # c \/ r # p) => (Owes(d, r)' <=> Owes(d, r))
  BY <1>2, <1>5, OthersOwe
<1>7. /\ Sum(Chips) + snap.pot = Sum(db.buyIns) + gifts.table + Cardinality(Unpaid)
      /\ Sum(db.stack) = Sum(db.buyIns) + gifts.db
  BY DEF Money
<1>8. /\ Sum(Chips) \in Nat /\ Sum(db.buyIns) \in Nat /\ Cardinality(Unpaid) \in Nat
      /\ snap.pot \in Nat /\ gifts.table \in Int /\ gifts.db \in Int
  BY SumsAre, ChipsAre
<1>9. CASE ~ Landed(p)
  <2>1. UNCHANGED snap
    BY <1>9, RevertMakes
  <2>2. UNCHANGED gifts
    BY <1>9 DEF RevertRebuy
  <2>3. Unpaid' = Unpaid
    BY <1>2, <1>4, <1>6, <1>9, OwesSame
  <2> QED
    BY <1>1, <2>1, <2>2, <2>3, MoneyQuiet
<1>10. CASE Landed(p)
  <2>1. Cardinality(Unpaid') = Cardinality(Unpaid) - 1
    BY <1>2, <1>4, <1>6, <1>10, OneOwesLess
  <2>2. CASE ~ UNCHANGED snap
    <3>1. /\ UNCHANGED gifts /\ p \in snap.seated
          /\ \A r \in Players :
               snap'.stack[r] = IF r = p THEN snap.stack[r] + (-1) ELSE snap.stack[r]
      BY <1>10, <2>2, RevertMakes DEF Landed
    <3>2. Chips \in [Players -> Nat] /\ -1 \in Int
      BY ChipsAre
    <3>3. \A r \in Players : Chips[r] \in Int
                             /\ Chips'[r] = IF r = p THEN Chips[r] + (-1) ELSE Chips[r]
      BY <1>1, <1>5, <3>1, <3>2 DEF Chips
    <3>4. Sum(Chips') = Sum(Chips) + (-1)
      BY <3>2, <3>3, SumMoves
    <3>5. Sum(Chips') + snap'.pot = Sum(db'.buyIns) + gifts'.table + Cardinality(Unpaid')
      BY <1>1, <1>5, <1>7, <1>8, <2>1, <3>1, <3>4
    <3> QED
      BY <1>1, <1>7, <3>1, <3>5, MoneyIsAfter
  <2>3. CASE UNCHANGED snap
    <3>1. gifts' = [gifts EXCEPT !.table = @ + 1]
      <4>1. snap \in Snapshot /\ snap.stack[p] \in Nat /\ snap.stack[p] >= 1
        BY <1>10, ShapeParts, SnapshotFields DEF Landed
      <4>2. snap' # [snap EXCEPT !.stack[p] = @ - 1]
        BY <2>3, <4>1 DEF Snapshot
      <4> QED
        BY <1>10, <4>2 DEF RevertRebuy
    <3>2. gifts'.table = gifts.table + 1 /\ gifts'.db = gifts.db
      BY <3>1, ShapeParts DEF Gifts
    <3>3. Chips' = Chips
      BY <1>1, <2>3 DEF Chips
    <3> DEFINE m == Sum(Chips)
               b == Sum(db.buyIns)
               u == Cardinality(Unpaid)
    <3>4. /\ m \in Nat /\ b \in Nat /\ u \in Nat /\ gifts.table \in Int /\ snap.pot \in Nat
          /\ m + snap.pot = b + gifts.table + u
      BY <1>7, <1>8
    <3>5. /\ Sum(Chips') = m /\ Sum(db'.buyIns) = b /\ Cardinality(Unpaid') = u - 1
          /\ snap'.pot = snap.pot
      BY <1>1, <1>5, <2>1, <3>3
    <3> HIDE DEF m, b, u
    <3>6. m + snap.pot = b + (gifts.table + 1) + (u - 1)
      BY <3>4
    <3>7. Sum(Chips') + snap'.pot = Sum(db'.buyIns) + gifts'.table + Cardinality(Unpaid')
      BY <3>2, <3>5, <3>6
    <3> QED
      BY <1>1, <1>7, <3>2, <3>7, MoneyIsAfter
  <2> QED
    BY <2>2, <2>3
<1> QED
  BY <1>9, <1>10

\* A step of a dialogue keeps the books.
LEMMA MoneyTalk ==
  ASSUME Shape, AskingFits, DialogueFits, Money, NEW c \in Cmds, NEW p \in Players, Lone(c),
         Talk(c, p)
  PROVE  Money'
<1> USE DEF Dialogue, Outcomes, Undoing
<1>1. CASE ReadPoints(c, p) \/ Answer(c, p)
  <2>1. UNCHANGED <<snap, db, gifts>> /\ ask[c][p] \in {"reading", "waiting"}
    BY <1>1 DEF ReadPoints, Answer
  <2>2. \E what \in {"deferred", "skipped", "waiting", "interrupted", "accepted", "declined",
                     "dealerSilent"} : Say(c, p, what)
    BY <1>1 DEF ReadPoints, Answer
  <2>3. ~ Owes(c, p) /\ ~ Owes(c, p)'
    BY <2>1, <2>2, Saying DEF Owes
  <2>4. \A d \in Cmds, r \in Players : (d # c \/ r # p) => (Owes(d, r)' <=> Owes(d, r))
    BY <2>1, <2>2, OthersOwe
  <2>5. Unpaid' = Unpaid
    BY <2>3, <2>4, OwesSame
  <2> QED
    BY <2>1, <2>5, MoneyQuiet
<1> QED
  BY <1>1, MoneyApply, MoneyPay, MoneyRevert DEF Talk

-----------------------------------------------------------------------------
(* The money, in every step.                                               *)

\* the restart forgives what is owed, or starts from the ledger
LEMMA MoneyRestart == ASSUME Shape, Money, Restart PROVE Money'
<1>1. UNCHANGED db /\ \A c \in Cmds, p \in Players : ask'[c][p] = "none"
  BY DEF Restart
<1>2. \A c \in Cmds, p \in Players : ~ Owes(c, p)'
  BY <1>1 DEF Owes, Undoing
<1>3. Cardinality(Unpaid') = 0
  BY <1>2, NobodyOwesAfter
<1>4. /\ Sum(Chips) + snap.pot = Sum(db.buyIns) + gifts.table + Cardinality(Unpaid)
      /\ Sum(db.stack) = Sum(db.buyIns) + gifts.db
  BY DEF Money
<1>5. /\ Sum(Chips) \in Nat /\ Sum(db.buyIns) \in Nat /\ Cardinality(Unpaid) \in Nat
      /\ snap.pot \in Nat /\ gifts.table \in Int /\ gifts.db \in Int /\ gifts \in Gifts
  BY SumsAre, ChipsAre, ShapeParts
<1>6. CASE /\ snap' = IF snap.phase = "BETTING" THEN [snap EXCEPT !.resume = TRUE] ELSE snap
           /\ gifts' = [gifts EXCEPT !.table = @ + Cardinality(Unpaid)]
  <2>1. snap'.pot = snap.pot /\ snap'.seated = snap.seated /\ snap'.stack = snap.stack
    BY <1>6, StopsMakes
  <2>2. Chips' = Chips
    BY <1>1, <2>1 DEF Chips
  <2>3. gifts'.table = gifts.table + Cardinality(Unpaid) /\ gifts'.db = gifts.db
    BY <1>5, <1>6 DEF Gifts
  <2>4. Sum(Chips') + snap'.pot = Sum(db'.buyIns) + gifts'.table + Cardinality(Unpaid')
    BY <1>1, <1>3, <1>4, <1>5, <2>1, <2>2, <2>3
  <2> QED
    BY <1>1, <1>4, <2>3, <2>4, MoneyIsAfter
<1>7. CASE snap' = Rebuilt /\ gifts' = [gifts EXCEPT !.table = gifts.db]
  <2>1. /\ snap'.pot = 0
        /\ \A p \in Players : snap'.stack[p] = IF p \in snap'.seated THEN db.stack[p] ELSE 0
    BY <1>7, RebuiltMade
  <2>2. \A p \in Players : Chips'[p] = db.stack[p] /\ db.stack[p] \in Int
    BY <1>1, <2>1, ChipsAre DEF Chips
  <2>3. Sum(Chips') = Sum(db.stack)
    BY <2>2, SameSum
  <2>4. gifts'.table = gifts.db /\ gifts'.db = gifts.db
    BY <1>5, <1>7 DEF Gifts
  <2>5. Sum(Chips') + snap'.pot = Sum(db'.buyIns) + gifts'.table + Cardinality(Unpaid')
    BY <1>1, <1>3, <1>4, <1>5, <2>1, <2>3, <2>4
  <2> QED
    BY <1>1, <1>4, <2>4, <2>5, MoneyIsAfter
<1> QED
  BY <1>6, <1>7 DEF Restart

\* Every step keeps the books.
LEMMA MoneyStep ==
  ASSUME Rounds, Rounds', HandFits, DialogueFits, SavedFits, Money, [Next]_vars, ~ overlapped'
  PROVE  Money'
<1>0. Shape /\ AskingFits /\ BusyAtEnd /\ OneAtATime /\ Alone
  BY DEF Rounds, OneAtATime
<1>1. ASSUME UNCHANGED <<ask, db, gifts>>, snap'.seated = snap.seated, snap'.stack = snap.stack,
             snap'.pot = snap.pot
      PROVE  Money'
  <2>1. Unpaid' = Unpaid
    BY <1>1, OwesSame DEF Owes, Landed
  <2> QED
    BY <1>0, <1>1, <2>1, MoneyQuiet
<1>2. CASE Hall
  <2>1. ASSUME NEW S \in SUBSET Players, Start(S) PROVE Money'
    BY <1>0, <2>1, MoneyStart
  <2>2. CASE Bet
    BY <1>0, <1>1, <2>2, BetMakes DEF Bet
  <2>3. ASSUME UNCHANGED <<ask, snap, gifts>>, db'.stack = db.stack, db'.buyIns = db.buyIns
        PROVE  Money'
    <3>1. Unpaid' = Unpaid
      BY <2>3, OwesSame DEF Owes, Landed
    <3> QED
      BY <1>0, <2>3, <3>1, MoneyQuiet
  <2>4. ASSUME NEW p \in Players, Kick(p) PROVE Money'
    BY <1>0, <2>3, <2>4, KickMakes DEF Kick
  <2>5. CASE CloseRegistration
    BY <1>0, <2>3, <2>5, CloseMakes DEF CloseRegistration
  <2> QED
    BY <1>2, <2>1, <2>2, <2>4, <2>5 DEF Hall
<1>3. ASSUME NEW c \in Cmds, Dealer(c) \/ Step(c) \/ Throw(c) PROVE Money'
  BY <1>0, <1>3, ActsAlone, MoneyInStep
<1>4. CASE ResumeTable
  BY <1>0, <1>1, <1>4, HoldMakes DEF ResumeTable
<1>5. ASSUME NEW c \in Cmds, NEW p \in Players, Talk(c, p) PROVE Money'
  BY <1>0, <1>5, TalkTalks, TalksAlone, MoneyTalk
<1>6. CASE Outage
  <2>1. UNCHANGED <<snap, db, gifts>>
    BY <1>6 DEF Outage
  <2>2. \A c \in Cmds, p \in Players :
          ask'[c][p] = IF ask[c][p] = "waiting" THEN "interrupted" ELSE ask[c][p]
    BY <1>6 DEF Outage
  <2>3. Unpaid' = Unpaid
    BY <2>1, <2>2, OwesSame DEF Owes, Landed, Undoing
  <2> QED
    BY <1>0, <2>1, <2>3, MoneyQuiet
<1>7. CASE Reconnect
  BY <1>1, <1>7 DEF Reconnect
<1>8. CASE Recovered
  BY <1>0, <1>1, <1>8, StopsMakes DEF Recovered
<1>9. CASE Restart
  BY <1>0, <1>9, MoneyRestart
<1>10. CASE UNCHANGED vars
  BY <1>1, <1>10 DEF vars
<1> QED
  BY <1>2, <1>3, <1>4, <1>5, <1>6, <1>7, <1>8, <1>9, <1>10 DEF Next

Books == Rounds /\ HandFits /\ DialogueFits /\ SavedFits /\ Money

\* The books are right at the start.
LEMMA BooksInit == Init => Books
<1> SUFFICES ASSUME Init PROVE Books
  OBVIOUS
<1>1. Rounds /\ Shape
  BY RoundsInit DEF Rounds, OneAtATime
<1>2. HandFits /\ DialogueFits /\ SavedFits
  BY DEF Init, HandFits, DialogueFits, SavedFits, IdleCmd
<1>3. \A c \in Cmds, p \in Players : ~ Owes(c, p)
  BY DEF Init, Owes, Undoing
<1>4. Cardinality(Unpaid) = 0
  BY <1>3, NobodyOwes
<1>5. /\ \A p \in Players : Chips[p] = 1 /\ db.stack[p] = 1 /\ db.buyIns[p] = 1
      /\ snap.pot = 0 /\ gifts.table = 0 /\ gifts.db = 0
  BY DEF Init, Chips
<1>6. \A p \in Players : /\ Chips[p] = db.buyIns[p] /\ db.stack[p] = db.buyIns[p]
                         /\ db.buyIns[p] \in Int
  BY <1>5
<1>7. Sum(Chips) = Sum(db.buyIns) /\ Sum(db.stack) = Sum(db.buyIns)
  BY <1>6, SameSum
<1>8. Sum(db.buyIns) \in Nat
  BY <1>1, SumsAre
<1>9. Money
  BY <1>4, <1>5, <1>7, <1>8 DEF Money
<1> QED
  BY <1>1, <1>2, <1>9 DEF Books

\* Every step that does not overlap keeps them, and what they rest on.
LEMMA BooksStep == ASSUME Books, [Next]_vars, ~ overlapped' PROVE Books'
<1>1. Rounds /\ HandFits /\ DialogueFits /\ SavedFits /\ Money /\ Shape
  BY DEF Books, Rounds, OneAtATime
<1>2. Rounds'
  BY <1>1, RoundsStep
<1>3. HandFits' /\ DialogueFits' /\ SavedFits' /\ Money'
  BY <1>1, <1>2, HandStep, DialogueStep, SavedStep, MoneyStep
<1> QED
  BY <1>2, <1>3 DEF Books

\* Until a retry is let in beside a command that no flag covers, the books are right in every state.
THEOREM BooksHold == Spec => [](~ overlapped => Books)
<1>1. Init => (~ overlapped => Books)
  BY BooksInit
<1>2. (~ overlapped => Books) /\ [Next]_vars => (~ overlapped => Books)'
  BY BooksStep, OverlapStays
<1> QED
  BY <1>1, <1>2, PTL DEF Spec

\* The order of processRebuy: every chip on the table was bought and every payment is on the table,
\* except a rebuy between its two writes and what a second fault or a lost acknowledgement left
\* behind; until a retry overlaps.
THEOREM ChipsAreBought == Spec => []MoneyForChips
<1>1. (~ overlapped => Books) => MoneyForChips
  BY MoneyIsBooks DEF Books, MoneyForChips
<1> QED
  BY <1>1, BooksHold, PTL

\* The stacks in the database hold every chip that was paid for, whatever hand or rebuy is under
\* way, but for what a checkpoint found too much or too little; until a retry overlaps.
THEOREM LedgerHolds == Spec => []LedgerHoldsChips
<1>1. (~ overlapped => Books) => LedgerHoldsChips
  BY MoneyIsBooks DEF Books, LedgerHoldsChips
<1> QED
  BY <1>1, BooksHold, PTL

\* what a checkpoint saves is everything that was bought
LEMMA CheckpointSaves ==
  ASSUME Books, NEW c \in Cmds, cmd[c].pc = "save"
  PROVE  Sum([p \in Players |-> IF p \in cmd[c].seated THEN cmd[c].stack[p] ELSE db.stack[p]])
           = Sum(db.buyIns) + gifts.table
<1>1. Shape /\ BusyAtEnd /\ Alone /\ AskingFits /\ HandFits /\ SavedFits /\ Money
  BY DEF Books, Rounds, OneAtATime
<1>2. snap.pot = 0 /\ cmd[c].stack = snap.stack /\ cmd[c].seated = snap.seated
  BY <1>1 DEF BusyAtEnd, HandFits, SavedFits
<1>3. [p \in Players |-> IF p \in cmd[c].seated THEN cmd[c].stack[p] ELSE db.stack[p]] = Chips
  BY <1>2 DEF Chips
<1>4. Sum(Chips) + snap.pot = Sum(db.buyIns) + gifts.table + Cardinality(Unpaid)
  BY <1>1 DEF Money
<1>5. \A d \in Cmds, p \in Players : ask[d][p] = "none"
  BY <1>1 DEF Alone, AskingFits
<1>6. Cardinality(Unpaid) = 0
  BY <1>5, NobodyOwes DEF Owes, Undoing
<1>7. Sum(Chips) \in Nat /\ Sum(db.buyIns) \in Nat /\ gifts.table \in Int
  BY <1>1, SumsAre, ChipsAre
<1>8. Sum(Chips) = Sum(db.buyIns) + gifts.table
  BY <1>2, <1>4, <1>6, <1>7
<1> QED
  BY <1>3, <1>8

\* No checkpoint saves the stacks of a hand in play (checkpointInFlight, the phase in the lock),
\* until a retry overlaps.
THEOREM CheckpointSavesAll == Spec => CheckpointAtBoundary
<1>1. (~ overlapped => Books) /\ [Next]_vars
        => [\A c \in Cmds : cmd[c].pc = "save" /\ cmd'[c].pc = "finish" /\ ~ overlapped
              => Sum([p \in Players |-> IF p \in cmd[c].seated THEN cmd[c].stack[p]
                                        ELSE db.stack[p]])
                   = Sum(db.buyIns) + gifts.table]_vars
  BY CheckpointSaves
<1> QED
  BY <1>1, BooksHold, PTL DEF Spec, CheckpointAtBoundary
=============================================================================
