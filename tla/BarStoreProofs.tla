--------------------------- MODULE BarStoreProofs ---------------------------
(***************************************************************************)
(* Theorems about BarStore, for any venues, trades, thresholds, and any    *)
(* number of builds, failures, kills and repeated trades.                  *)
(*                                                                         *)
(* The bars that a build has made and not yet written bear stamps from its *)
(* read on, and its number is not in the log until it ends. What a copy    *)
(* costs in the grade needs the number of issues, and the coverage of agg  *)
(* the number of seconds: both are finite, the first because each check    *)
(* finds one of its table, the second because the rows of a read are.      *)
(*                                                                         *)
(* What the tape is follows from ranks: the member of a finite ordered set *)
(* with k - 1 others before it is in place k, and these places are all. A  *)
(* row's key in the merge is the latest row up to it in its list; keys do  *)
(* not fall along a list, so each list keeps its order. TapeInv says that  *)
(* the bars in hand are those of a list that was read, or of the tape,     *)
(* that a venue that is done has just its own, and no other has any: so a  *)
(* build makes one bar of a series and a second, and only two builds make  *)
(* what pandas cannot join.                                                *)
(*                                                                         *)
(* Longer bars need sums. A sum is the last of its running sums, which are *)
(* unique, for there is no least place at which two could differ; the sum  *)
(* at a set of places is additive. A bar tells of trades at some places    *)
(* when its ends, extremes and sums are theirs: so does the bar made of    *)
(* them, and so does the window of bars that tell of its parts.            *)
(***************************************************************************)
EXTENDS BarStore, FiniteSetTheorems, WellFoundedInduction, TLAPS

-----------------------------------------------------------------------------
(* Orders of finite sets                                                   *)

IsOrder(S, R) ==
    /\ \A x \in S : <<x, x>> \notin R
    /\ \A x, y \in S : x # y => <<x, y>> \in R \/ <<y, x>> \in R
    /\ \A x, y, z \in S : <<x, y>> \in R /\ <<y, z>> \in R => <<x, z>> \in R

Before(S, R, x) == {y \in S : <<y, x>> \in R}

\* The later of two members has more before it.
LEMMA MoreBefore ==
    ASSUME NEW S, IsFiniteSet(S), NEW R, IsOrder(S, R), NEW x \in S, NEW y \in S, <<x, y>> \in R
    PROVE  Cardinality(Before(S, R, x)) < Cardinality(Before(S, R, y))
<1>1. Before(S, R, x) \subseteq Before(S, R, y) BY DEF IsOrder, Before
<1>2. x \in Before(S, R, y) /\ x \notin Before(S, R, x) BY DEF IsOrder, Before
<1>3. IsFiniteSet(Before(S, R, y)) BY FS_Subset DEF Before
<1>4. /\ Cardinality(Before(S, R, x)) <= Cardinality(Before(S, R, y))
      /\ Cardinality(Before(S, R, x)) # Cardinality(Before(S, R, y))
  BY <1>1, <1>2, <1>3, FS_Subset
<1>5. Cardinality(Before(S, R, x)) \in Nat /\ Cardinality(Before(S, R, y)) \in Nat
  BY <1>1, <1>3, FS_Subset, FS_CardinalityType
<1> QED BY <1>4, <1>5

\* Every number below that of the members is the number of those before one.
LEMMA RanksAreAll ==
    ASSUME NEW S, IsFiniteSet(S), NEW R, IsOrder(S, R)
    PROVE  /\ Cardinality(S) \in Nat
           /\ \A x \in S : Cardinality(Before(S, R, x)) \in 0 .. Cardinality(S) - 1
           /\ \A k \in 1 .. Cardinality(S) : \E x \in S : Cardinality(Before(S, R, x)) = k - 1
<1> DEFINE n == Cardinality(S)
<1> DEFINE rank == [x \in S |-> Cardinality(Before(S, R, x))]
<1>1. n \in Nat BY FS_CardinalityType
<1>2. \A x \in S : rank[x] \in 0 .. n - 1
  <2> TAKE x \in S
  <2>1. Before(S, R, x) \subseteq S /\ x \notin Before(S, R, x) BY DEF IsOrder, Before
  <2>2. Before(S, R, x) # S BY <2>1
  <2>3. Cardinality(Before(S, R, x)) <= n /\ Cardinality(Before(S, R, x)) # n BY <2>1, <2>2, FS_Subset
  <2>4. Cardinality(Before(S, R, x)) \in Nat BY <2>1, FS_Subset, FS_CardinalityType
  <2> QED BY <1>1, <2>3, <2>4
<1>3. \A x, y \in S : x # y => rank[x] # rank[y]
  <2> SUFFICES ASSUME NEW x \in S, NEW y \in S, <<x, y>> \in R PROVE rank[x] # rank[y]
    BY DEF IsOrder
  <2>1. Cardinality(Before(S, R, x)) < Cardinality(Before(S, R, y)) BY MoreBefore
  <2> QED BY <1>2, <2>1
<1>4. rank \in Injection(S, 0 .. n - 1) BY <1>2, <1>3 DEF Injection, IsInjective
<1>5. IsFiniteSet(0 .. n - 1) /\ Cardinality(0 .. n - 1) = n BY <1>1, FS_Interval
<1>6. rank \in Surjection(S, 0 .. n - 1) BY <1>4, <1>5, FS_Injection
<1>7. \A k \in 1 .. n : \E x \in S : rank[x] = k - 1
  <2> TAKE k \in 1 .. n
  <2>1. k - 1 \in 0 .. n - 1 BY <1>1
  <2> QED BY <1>6, <2>1 DEF Surjection
<1> QED BY <1>1, <1>2, <1>7

\* The members of a finite set stand one after the other, each once.
LEMMA InOrderFacts ==
    ASSUME NEW S, IsFiniteSet(S), NEW R, IsOrder(S, R), NEW s, s = InOrder(S, R)
    PROVE  /\ Cardinality(S) \in Nat
           /\ s \in [1 .. Cardinality(S) -> S]
           /\ \A x \in S : \E k \in 1 .. Cardinality(S) : s[k] = x
           /\ \A k, l \in 1 .. Cardinality(S) : k < l => <<s[k], s[l]>> \in R
<1> DEFINE n == Cardinality(S)
<1> DEFINE rank(x) == Cardinality(Before(S, R, x))
<1>1. n \in Nat /\ \A x \in S : rank(x) \in 0 .. n - 1 BY RanksAreAll
<1>2. s = [k \in 1 .. n |-> CHOOSE x \in S : rank(x) = k - 1] BY DEF InOrder, Before
<1>3. \A k \in 1 .. n : \E x \in S : rank(x) = k - 1 BY RanksAreAll
<1>4. \A x, y \in S : <<x, y>> \in R => rank(x) < rank(y) BY MoreBefore
<1> HIDE DEF n, rank
<1>5. \A k \in 1 .. n : s[k] \in S /\ rank(s[k]) = k - 1 BY <1>2, <1>3
<1>6. s \in [1 .. n -> S] BY <1>2, <1>5
<1>7. \A x \in S : \E k \in 1 .. n : s[k] = x
  <2> TAKE x \in S
  <2>1. rank(x) + 1 \in 1 .. n BY <1>1
  <2>2. s[rank(x) + 1] \in S /\ rank(s[rank(x) + 1]) = rank(x) BY <1>1, <1>5, <2>1
  <2>3. s[rank(x) + 1] = x
    <3>1. ASSUME NEW y \in S, y # x PROVE rank(x) # rank(y)
      <4>1. rank(x) \in Int /\ rank(y) \in Int BY <1>1
      <4>2. <<x, y>> \in R \/ <<y, x>> \in R BY <3>1 DEF IsOrder
      <4> QED BY <1>4, <4>1, <4>2
    <3> QED BY <2>2, <3>1
  <2> QED BY <2>1, <2>3
<1>8. ASSUME NEW k \in 1 .. n, NEW l \in 1 .. n, k < l PROVE <<s[k], s[l]>> \in R
  <2>1. rank(s[k]) < rank(s[l]) /\ s[k] \in S /\ s[l] \in S BY <1>1, <1>5, <1>8
  <2>2. s[k] # s[l] /\ <<s[l], s[k]>> \notin R BY <1>1, <1>4, <2>1
  <2> QED BY <2>1, <2>2 DEF IsOrder
<1> QED BY <1>1, <1>6, <1>7, <1>8 DEF n

LEMMA LeastExists ==
    ASSUME NEW S \in SUBSET Nat, S # {}
    PROVE  Min(S) \in S /\ \A n \in S : Min(S) <= n
<1>1. PICK m \in S : \A n \in S : <<n, m>> \notin OpToRel(<, Nat)
  BY NatLessThanWellFounded, WFMin, Zenon
<1>2. \A n \in S : ~(n < m) BY <1>1, Zenon DEF OpToRel
<1>3. \A n \in S : m <= n BY <1>2
<1> QED BY <1>3 DEF Min

LEMMA GreatestExists ==
    ASSUME NEW S \in SUBSET Nat, S # {}, IsFiniteSet(S)
    PROVE  Max(S) \in S /\ \A n \in S : n <= Max(S)
<1> DEFINE R == {p \in S \X S : p[1] < p[2]}
<1> DEFINE s == InOrder(S, R)
<1> DEFINE n == Cardinality(S)
<1>1. IsOrder(S, R) BY DEF IsOrder
<1>2. \A x, y : <<x, y>> \in R => x < y OBVIOUS
<1> HIDE DEF R
<1>3. /\ n \in Nat /\ s \in [1 .. n -> S]
      /\ \A x \in S : \E k \in 1 .. n : s[k] = x
      /\ \A k, l \in 1 .. n : k < l => <<s[k], s[l]>> \in R
  BY <1>1, InOrderFacts
<1> HIDE DEF s, n
<1>4. n \in 1 .. n /\ s[n] \in S
  <2>1. PICK x \in S : TRUE OBVIOUS
  <2>2. PICK k \in 1 .. n : s[k] = x BY <1>3
  <2> QED BY <1>3, <2>2
<1>5. \A x \in S : x <= s[n]
  <2> TAKE x \in S
  <2>1. PICK k \in 1 .. n : s[k] = x BY <1>3
  <2>2. CASE k = n BY <2>1, <2>2
  <2>3. CASE k # n
    <3>1. k < n BY <1>3, <2>3
    <3>2. s[k] < s[n] BY <1>2, <1>3, <1>4, <3>1
    <3>3. x \in Nat /\ s[n] \in Nat BY <1>4
    <3> QED BY <2>1, <3>2, <3>3
  <2> QED BY <2>2, <2>3
<1> QED BY <1>4, <1>5 DEF Max

-----------------------------------------------------------------------------
(* Sorting and selecting                                                   *)

\* The rows of q are those of `rows` at the places I, in their order; at[k] is the
\* place of the k-th.
PickedAt(q, rows, I, at) ==
    /\ at \in [DOMAIN q -> I]
    /\ \A k \in DOMAIN q : q[k] = rows[at[k]]
    /\ \A i \in I : \E k \in DOMAIN q : at[k] = i
    /\ \A k, l \in DOMAIN q : k < l => at[k] < at[l]

LEMMA SelectedFacts ==
    ASSUME NEW X, NEW rows \in Seq(X), NEW I \in SUBSET DOMAIN rows, NEW q, q = Selected(rows, I)
    PROVE  q \in Seq(X) /\ \E at : PickedAt(q, rows, I, at)
<1> DEFINE R == {p \in I \X I : p[1] < p[2]}
<1> DEFINE at == InOrder(I, R)
<1> DEFINE n == Cardinality(I)
<1>1. DOMAIN rows = 1 .. Len(rows) /\ Len(rows) \in Nat OBVIOUS
<1>2. IsFiniteSet(I) /\ I \in SUBSET Int
  <2>1. IsFiniteSet(1 .. Len(rows)) BY <1>1, FS_Interval
  <2> QED BY <1>1, <2>1, FS_Subset
<1>3. IsOrder(I, R) BY <1>2 DEF IsOrder
<1>4. \A i, j : <<i, j>> \in R => i < j OBVIOUS
<1> HIDE DEF R
<1>5. /\ n \in Nat /\ at \in [1 .. n -> I]
      /\ \A i \in I : \E k \in 1 .. n : at[k] = i
      /\ \A k, l \in 1 .. n : k < l => <<at[k], at[l]>> \in R
  BY <1>2, <1>3, InOrderFacts
<1>6. q = [k \in DOMAIN at |-> rows[at[k]]] BY DEF Selected, RowsAt, R
<1> HIDE DEF at, n
<1>7. q = [k \in 1 .. n |-> rows[at[k]]] BY <1>5, <1>6
<1>8. \A k \in 1 .. n : rows[at[k]] \in X BY <1>1, <1>5
<1>9. q \in Seq(X) BY <1>5, <1>7, <1>8
<1>10. PickedAt(q, rows, I, at) BY <1>4, <1>5, <1>7 DEF PickedAt
<1> QED BY <1>9, <1>10

LEMMA StableSortFacts ==
    ASSUME NEW keys \in Seq(Int), NEW s, s = StableSort(keys)
    PROVE  /\ s \in [1 .. Len(keys) -> 1 .. Len(keys)]
           /\ \A k, l \in 1 .. Len(keys) : k < l => keys[s[k]] <= keys[s[l]]
           /\ \A i \in 1 .. Len(keys) : \E k \in 1 .. Len(keys) : s[k] = i
<1> DEFINE I == DOMAIN keys
<1> DEFINE R == {p \in I \X I : \/ keys[p[1]] < keys[p[2]]
                                \/ keys[p[1]] = keys[p[2]] /\ p[1] < p[2]}
<1>1. I = 1 .. Len(keys) /\ Len(keys) \in Nat /\ \A i \in I : keys[i] \in Int OBVIOUS
<1>2. IsFiniteSet(I) /\ Cardinality(I) = Len(keys) BY <1>1, FS_Interval
<1>3. IsOrder(I, R)
  <2>1. \A x \in I : <<x, x>> \notin R BY <1>1
  <2>2. \A x, y \in I : x # y => <<x, y>> \in R \/ <<y, x>> \in R BY <1>1
  <2>3. \A x, y, z \in I : <<x, y>> \in R /\ <<y, z>> \in R => <<x, z>> \in R BY <1>1
  <2> QED BY <2>1, <2>2, <2>3 DEF IsOrder
<1>4. \A i, j \in I : <<i, j>> \in R => keys[i] <= keys[j] BY <1>1
<1>5. s = InOrder(I, R) BY DEF StableSort
<1> HIDE DEF R, I
<1>6. /\ s \in [1 .. Len(keys) -> I]
      /\ \A i \in I : \E k \in 1 .. Len(keys) : s[k] = i
      /\ \A k, l \in 1 .. Len(keys) : k < l => <<s[k], s[l]>> \in R
  BY <1>2, <1>3, <1>5, InOrderFacts
<1> QED BY <1>1, <1>4, <1>6
-----------------------------------------------------------------------------
(* Sums                                                                    *)

\* What is true of 0, and of i + 1 where of i, is true up to n.
LEMMA StepByStep ==
    ASSUME NEW n \in Nat, NEW S, 0 \in S, \A i \in 0 .. n - 1 : i \in S => i + 1 \in S
    PROVE  n \in S /\ \A i \in 0 .. n : i \in S
<1> SUFFICES ASSUME NEW j \in 0 .. n, j \notin S PROVE FALSE
  <2>1. n \in 0 .. n OBVIOUS
  <2> QED BY <2>1
<1> DEFINE M == {i \in 0 .. n : i \notin S}
<1> DEFINE m == Min(M)
<1>1. M \in SUBSET Nat /\ M # {} OBVIOUS
<1>2. m \in M /\ \A i \in M : m <= i BY <1>1, LeastExists
<1> HIDE DEF m
<1>3. m \in 0 .. n /\ m \notin S /\ m # 0 BY <1>2
<1>4. m - 1 \in 0 .. n - 1 /\ m - 1 \in 0 .. n BY <1>3
<1>5. m - 1 \in S
  <2> SUFFICES ASSUME m - 1 \in M PROVE FALSE
    BY <1>4
  <2> QED BY <1>2, <1>3
<1>6. m - 1 + 1 = m BY <1>3
<1> QED BY <1>3, <1>4, <1>5, <1>6

\* c[i] is the sum of the first i numbers.
Running(c, ns) ==
    /\ c \in [0 .. Len(ns) -> Nat]
    /\ c[0] = 0
    /\ \A i \in 1 .. Len(ns) : c[i] = c[i - 1] + ns[i]

LEMMA RunningExists ==
    ASSUME NEW ns \in Seq(Nat)
    PROVE  \E c : Running(c, ns)
<1> DEFINE n == Len(ns)
<1> DEFINE Sums(c, m) == c[0] = 0 /\ \A i \in 1 .. m : c[i] = c[i - 1] + ns[i]
<1> DEFINE S == {m \in 0 .. n : \E c \in [0 .. m -> Nat] : Sums(c, m)}
<1>1. n \in Nat /\ \A i \in 1 .. n : ns[i] \in Nat OBVIOUS
<1> HIDE DEF n
<1>2. 0 \in S
  <2> DEFINE c == [i \in 0 .. 0 |-> 0]
  <2>1. c \in [0 .. 0 -> Nat] /\ Sums(c, 0) OBVIOUS
  <2>2. \E d \in [0 .. 0 -> Nat] : Sums(d, 0)
    <3> HIDE DEF c, Sums
    <3> QED BY <2>1
  <2>3. 0 \in 0 .. n BY <1>1
  <2> QED BY <2>2, <2>3
<1>3. ASSUME NEW m \in 0 .. n - 1, m \in S PROVE m + 1 \in S
  <2>1. PICK c \in [0 .. m -> Nat] : Sums(c, m) BY <1>3
  <2> DEFINE d == [i \in 0 .. m + 1 |-> IF i = m + 1 THEN c[m] + ns[m + 1] ELSE c[i]]
  <2>2. m \in Nat /\ m + 1 \in 1 .. n /\ m + 1 \in 0 .. n BY <1>1
  <2>3. c[m] \in Nat /\ ns[m + 1] \in Nat BY <1>1, <2>2
  <2>4. \A i \in 0 .. m + 1 : d[i] \in Nat
    <3> TAKE i \in 0 .. m + 1
    <3>1. i = m + 1 \/ i \in 0 .. m BY <2>2
    <3> QED BY <2>3, <3>1
  <2>5. d \in [0 .. m + 1 -> Nat] BY <2>4
  <2>6. d[0] = 0 BY <2>1, <2>2
  <2>7. ASSUME NEW i \in 1 .. m + 1 PROVE d[i] = d[i - 1] + ns[i]
    <3>1. i - 1 \in 0 .. m /\ i - 1 # m + 1 /\ i - 1 \in 0 .. m + 1 BY <2>2
    <3>2. d[i - 1] = c[i - 1] BY <3>1
    <3>3. CASE i = m + 1 BY <2>2, <3>2, <3>3
    <3>4. CASE i # m + 1
      <4>1. i \in 1 .. m /\ i \in 0 .. m + 1 BY <2>2, <3>4
      <4>2. d[i] = c[i] BY <3>4, <4>1
      <4>3. c[i] = c[i - 1] + ns[i] BY <2>1, <4>1
      <4> QED BY <3>2, <4>2, <4>3
    <3> QED BY <3>3, <3>4
  <2> HIDE DEF d
  <2>8. \E e \in [0 .. m + 1 -> Nat] : Sums(e, m + 1) BY <2>5, <2>6, <2>7
  <2> QED BY <2>2, <2>8
<1> HIDE DEF S
<1>4. n \in S BY <1>1, <1>2, <1>3, StepByStep
<1> QED BY <1>4 DEF S, Running, n

LEMMA RunningOnce ==
    ASSUME NEW ns \in Seq(Nat), NEW c, Running(c, ns), NEW f,
           f = [i \in 0 .. Len(ns) |-> IF i = 0 THEN 0 ELSE f[i - 1] + ns[i]]
    PROVE  f = c
<1> DEFINE n == Len(ns)
<1> DEFINE S == {i \in 0 .. n : f[i] = c[i]}
<1>1. n \in Nat OBVIOUS
<1> HIDE DEF n
<1>2. c \in [0 .. n -> Nat] /\ c[0] = 0 /\ \A i \in 1 .. n : c[i] = c[i - 1] + ns[i] BY DEF Running, n
<1>3. f[0] = 0 /\ \A i \in 1 .. n : f[i] = f[i - 1] + ns[i]
  <2>1. \A i \in 0 .. n : f[i] = IF i = 0 THEN 0 ELSE f[i - 1] + ns[i] BY Zenon DEF n
  <2>2. 0 \in 0 .. n /\ \A i \in 1 .. n : i \in 0 .. n /\ i # 0 BY <1>1
  <2> HIDE DEF n
  <2> QED BY ONLY <2>1, <2>2
<1>4. 0 \in S BY <1>1, <1>2, <1>3
<1>5. ASSUME NEW i \in 0 .. n - 1, i \in S PROVE i + 1 \in S
  <2>1. i + 1 \in 1 .. n /\ i + 1 \in 0 .. n /\ i + 1 - 1 = i BY <1>1
  <2>2. f[i + 1] = f[i] + ns[i + 1]
    <3>1. f[i + 1] = f[i + 1 - 1] + ns[i + 1] BY ONLY <1>3, <2>1
    <3> QED BY ONLY <2>1, <3>1
  <2>3. c[i + 1] = c[i] + ns[i + 1] BY <1>2, <2>1
  <2>4. f[i + 1] = c[i + 1] BY <1>5, <2>2, <2>3
  <2> HIDE DEF n
  <2> QED BY <2>1, <2>4
<1>6. \A i \in 0 .. n : i \in S
  <2> HIDE DEF S
  <2> QED BY <1>1, <1>4, <1>5, StepByStep
<1>7. f = [i \in 0 .. n |-> f[i]]
  <2>1. DOMAIN f = 0 .. n /\ f = [i \in DOMAIN f |-> f[i]] BY Zenon DEF n
  <2> QED BY <2>1, Zenon
<1>8. c = [i \in 0 .. n |-> c[i]] BY <1>2
<1>9. \A i \in 0 .. n : f[i] = c[i] BY <1>6
<1> QED BY ONLY <1>7, <1>8, <1>9, Zenon

\* The sum is the last of the running sums.
LEMMA TotalFacts ==
    ASSUME NEW ns \in Seq(Nat)
    PROVE  /\ Total(ns) \in Nat
           /\ \E c : Running(c, ns)
           /\ \A c : Running(c, ns) => Total(ns) = c[Len(ns)]
<1> DEFINE Sums(f) == f = [i \in 0 .. Len(ns) |-> IF i = 0 THEN 0 ELSE f[i - 1] + ns[i]]
<1> DEFINE total == CHOOSE f : Sums(f)
<1>1. PICK c : Running(c, ns) BY RunningExists
<1>2. Total(ns) = total[Len(ns)] BY DEF Total
<1>3. Sums(c)
  <2>1. c = [i \in 0 .. Len(ns) |-> c[i]] BY <1>1 DEF Running
  <2>2. \A i \in 0 .. Len(ns) : c[i] = IF i = 0 THEN 0 ELSE c[i - 1] + ns[i] BY <1>1 DEF Running
  <2>3. [i \in 0 .. Len(ns) |-> c[i]] = [i \in 0 .. Len(ns) |-> IF i = 0 THEN 0 ELSE c[i - 1] + ns[i]]
    BY <2>2, Zenon
  <2> QED BY <2>1, <2>3, Zenon
<1>4. Sums(total)
  <2> HIDE DEF Sums
  <2> QED BY <1>3
<1> HIDE DEF total
<1>5. \A d : Running(d, ns) => total = d BY <1>4, RunningOnce
<1>6. \A d : Running(d, ns) => Total(ns) = d[Len(ns)] BY <1>2, <1>5
<1>7. c[Len(ns)] \in Nat
  <2>1. Len(ns) \in 0 .. Len(ns) OBVIOUS
  <2> QED BY <1>1, <2>1 DEF Running
<1> QED BY <1>1, <1>6, <1>7

\* The sum of the numbers at some places of a list.
Only(g, I) == [i \in DOMAIN g |-> IF i \in I THEN g[i] ELSE 0]
SumAt(g, I) == Total(Only(g, I))

\* The sum of those at the first i places.
RunningAt(c, g, I) ==
    /\ c \in [0 .. Len(g) -> Nat]
    /\ c[0] = 0
    /\ \A i \in 1 .. Len(g) : c[i] = c[i - 1] + (IF i \in I THEN g[i] ELSE 0)

LEMMA OnlyFacts ==
    ASSUME NEW g \in Seq(Nat), NEW I
    PROVE  /\ SumAt(g, I) \in Nat
           /\ \E c : RunningAt(c, g, I) /\ SumAt(g, I) = c[Len(g)]
<1>1. DOMAIN g = 1 .. Len(g) /\ Len(g) \in Nat /\ \A i \in 1 .. Len(g) : g[i] \in Nat OBVIOUS
<1>2. Only(g, I) = [i \in 1 .. Len(g) |-> IF i \in I THEN g[i] ELSE 0] BY <1>1 DEF Only
<1>3. Only(g, I) \in Seq(Nat) /\ Len(Only(g, I)) = Len(g) BY <1>1, <1>2
<1>4. \A i \in 1 .. Len(g) : Only(g, I)[i] = IF i \in I THEN g[i] ELSE 0 BY <1>2
<1> DEFINE ns == Only(g, I)
<1>5. SumAt(g, I) = Total(ns) BY DEF SumAt
<1> HIDE DEF ns
<1>6. Total(ns) \in Nat BY <1>3, TotalFacts DEF ns
<1>7. PICK c : Running(c, ns) /\ Total(ns) = c[Len(ns)]
  <2>1. ns \in Seq(Nat) BY <1>3 DEF ns
  <2> QED BY <2>1, TotalFacts
<1>8. RunningAt(c, g, I) /\ Total(ns) = c[Len(g)]
  BY <1>3, <1>4, <1>7 DEF Running, RunningAt, ns
<1> QED BY <1>5, <1>6, <1>8

\* Numbers that are picked sum up to the sum at their places.
LEMMA SumPicked ==
    ASSUME NEW g \in Seq(Nat), NEW I \in SUBSET DOMAIN g, NEW ns \in Seq(Nat), NEW at,
           PickedAt(ns, g, I, at)
    PROVE  Total(ns) = SumAt(g, I)
<1> DEFINE n == Len(g)
<1> DEFINE m == Len(ns)
<1>1. PICK c : Running(c, ns) /\ Total(ns) = c[m] BY TotalFacts
<1>2. PICK d : RunningAt(d, g, I) /\ SumAt(g, I) = d[n] BY OnlyFacts
<1>3. n \in Nat /\ m \in Nat /\ DOMAIN ns = 1 .. m /\ DOMAIN g = 1 .. n OBVIOUS
<1>4. c \in [0 .. m -> Nat] /\ c[0] = 0 /\ \A k \in 1 .. m : c[k] = c[k - 1] + ns[k] BY <1>1 DEF Running
<1>5. /\ d \in [0 .. n -> Nat] /\ d[0] = 0
      /\ \A i \in 1 .. n : d[i] = d[i - 1] + (IF i \in I THEN g[i] ELSE 0)
  BY <1>2 DEF RunningAt
<1>6. /\ \A k \in 1 .. m : at[k] \in I /\ at[k] \in 1 .. n /\ ns[k] = g[at[k]]
      /\ \A i \in I : \E k \in 1 .. m : at[k] = i
      /\ \A k, l \in 1 .. m : k < l => at[k] < at[l]
  BY <1>3 DEF PickedAt
<1> HIDE DEF n, m
<1> DEFINE Upto(k, i) == \A l \in 1 .. m : l <= k <=> at[l] <= i
<1> DEFINE S == {i \in 0 .. n : \A k \in 0 .. m : Upto(k, i) => d[i] = c[k]}
<1>7. 0 \in S
  <2> SUFFICES ASSUME NEW k \in 0 .. m, Upto(k, 0) PROVE d[0] = c[k]
    BY <1>3
  <2>1. k = 0
    <3> SUFFICES ASSUME k # 0 PROVE FALSE OBVIOUS
    <3>1. k \in 1 .. m BY <1>3
    <3>2. at[k] <= 0 /\ at[k] \in 1 .. n BY <1>6, <3>1
    <3> QED BY <1>3, <3>2
  <2> QED BY <1>4, <1>5, <2>1
<1>8. ASSUME NEW i \in 0 .. n - 1, i \in S PROVE i + 1 \in S
  <2>1. i + 1 \in 1 .. n /\ i + 1 \in 0 .. n /\ i + 1 - 1 = i /\ i \in Nat BY <1>3
  <2> SUFFICES ASSUME NEW k \in 0 .. m, Upto(k, i + 1) PROVE d[i + 1] = c[k]
    BY <2>1
  <2>2. CASE i + 1 \in I
    <3>1. PICK l \in 1 .. m : at[l] = i + 1 BY <1>6, <2>2
    <3>2. l <= k BY <2>1, <3>1
    <3>3. l = k
      <4> SUFFICES ASSUME l < k PROVE FALSE BY <1>3, <3>2
      <4>1. k \in 1 .. m BY <1>3
      <4>2. at[k] <= i + 1 /\ at[l] < at[k]
        <5>1. k <= k BY <1>3
        <5> QED BY <1>6, <3>3, <4>1, <5>1
      <4>3. at[k] \in Int BY <1>6, <4>1
      <4> QED BY <2>1, <3>1, <4>2, <4>3
    <3>4. k - 1 \in 0 .. m /\ k \in 1 .. m BY <1>3, <3>3
    <3>5. Upto(k - 1, i)
      <4> TAKE h \in 1 .. m
      <4>1. at[h] \in 1 .. n /\ h \in Int /\ k \in Int BY <1>6
      <4>2. h < k => at[h] < at[k] BY <1>6, <3>4
      <4>3. h <= k <=> at[h] <= i + 1 OBVIOUS
      <4>4. h < k <=> at[h] <= i
        <5>1. CASE h < k BY <1>3, <2>1, <3>1, <3>3, <4>1, <4>2, <5>1
        <5>2. CASE h = k BY <2>1, <3>1, <3>3, <5>2
        <5>3. CASE h > k BY <1>3, <2>1, <4>1, <4>3, <5>3
        <5> QED BY <4>1, <5>1, <5>2, <5>3
      <4> QED BY <4>1, <4>4
    <3>6. d[i] = c[k - 1] BY <1>8, <3>4, <3>5
    <3>7. d[i + 1] = d[i] + g[i + 1] BY <1>5, <2>1, <2>2
    <3>8. c[k] = c[k - 1] + g[i + 1] BY <1>4, <1>6, <3>1, <3>3, <3>4
    <3> QED BY <3>6, <3>7, <3>8
  <2>3. CASE i + 1 \notin I
    <3>1. Upto(k, i)
      <4> TAKE h \in 1 .. m
      <4>1. at[h] \in Int /\ at[h] # i + 1 BY <1>6, <2>3
      <4>2. h <= k <=> at[h] <= i + 1 OBVIOUS
      <4> QED BY <2>1, <4>1, <4>2
    <3>2. d[i] = c[k] BY <1>8, <3>1
    <3>3. d[i + 1] = d[i] + 0 BY <1>5, <2>1, <2>3
    <3>4. d[i] \in Nat BY <1>3, <1>5
    <3> QED BY <3>2, <3>3, <3>4
  <2> QED BY <2>2, <2>3
<1>9. n \in S
  <2> HIDE DEF S
  <2> QED BY <1>3, <1>7, <1>8, StepByStep
<1>10. Upto(m, n) BY <1>3, <1>6
<1>11. m \in 0 .. m BY <1>3
<1>12. d[n] = c[m] BY <1>9, <1>10, <1>11
<1> QED BY <1>1, <1>2, <1>12

LEMMA SumOfTwo ==
    ASSUME NEW g \in Seq(Nat), NEW A, NEW B, A \cap B = {}
    PROVE  SumAt(g, A \cup B) = SumAt(g, A) + SumAt(g, B)
<1> DEFINE n == Len(g)
<1>1. PICK a : RunningAt(a, g, A) /\ SumAt(g, A) = a[n] BY OnlyFacts
<1>2. PICK b : RunningAt(b, g, B) /\ SumAt(g, B) = b[n] BY OnlyFacts
<1>3. PICK c : RunningAt(c, g, A \cup B) /\ SumAt(g, A \cup B) = c[n] BY OnlyFacts
<1>4. n \in Nat /\ \A i \in 1 .. n : g[i] \in Nat OBVIOUS
<1>5. /\ a \in [0 .. n -> Nat] /\ a[0] = 0
      /\ \A i \in 1 .. n : a[i] = a[i - 1] + (IF i \in A THEN g[i] ELSE 0)
  BY <1>1 DEF RunningAt
<1>6. /\ b \in [0 .. n -> Nat] /\ b[0] = 0
      /\ \A i \in 1 .. n : b[i] = b[i - 1] + (IF i \in B THEN g[i] ELSE 0)
  BY <1>2 DEF RunningAt
<1>7. /\ c \in [0 .. n -> Nat] /\ c[0] = 0
      /\ \A i \in 1 .. n : c[i] = c[i - 1] + (IF i \in A \cup B THEN g[i] ELSE 0)
  BY <1>3 DEF RunningAt
<1> HIDE DEF n
<1> DEFINE S == {i \in 0 .. n : c[i] = a[i] + b[i]}
<1>8. 0 \in S BY <1>4, <1>5, <1>6, <1>7
<1>9. ASSUME NEW i \in 0 .. n - 1, i \in S PROVE i + 1 \in S
  <2>1. i + 1 \in 1 .. n /\ i + 1 \in 0 .. n /\ i \in 0 .. n /\ i + 1 - 1 = i BY <1>4
  <2>2. a[i] \in Nat /\ b[i] \in Nat /\ g[i + 1] \in Nat BY <1>4, <1>5, <1>6, <2>1
  <2>3. c[i + 1] = c[i] + (IF i + 1 \in A \cup B THEN g[i + 1] ELSE 0) BY <1>7, <2>1
  <2>4. a[i + 1] = a[i] + (IF i + 1 \in A THEN g[i + 1] ELSE 0) BY <1>5, <2>1
  <2>5. b[i + 1] = b[i] + (IF i + 1 \in B THEN g[i + 1] ELSE 0) BY <1>6, <2>1
  <2>6. c[i] = a[i] + b[i] BY <1>9
  <2>7. c[i + 1] = a[i + 1] + b[i + 1] BY <2>2, <2>3, <2>4, <2>5, <2>6
  <2> QED BY <2>1, <2>7
<1>10. n \in S
  <2> HIDE DEF S
  <2> QED BY <1>4, <1>8, <1>9, StepByStep
<1> QED BY <1>1, <1>2, <1>3, <1>10

LEMMA SumOfNone ==
    ASSUME NEW g \in Seq(Nat)
    PROVE  SumAt(g, {}) = 0
<1>1. SumAt(g, {}) = SumAt(g, {}) + SumAt(g, {})
  <2>1. SumAt(g, {} \cup {}) = SumAt(g, {}) + SumAt(g, {}) BY SumOfTwo
  <2> QED BY <2>1
<1>2. SumAt(g, {}) \in Nat BY OnlyFacts
<1> QED BY <1>1, <1>2

\* ns holds the sums of g at sets of places that have none in common and are I
\* together.
PartSums(ns, g, J, I) ==
    /\ \A k \in DOMAIN ns : ns[k] = SumAt(g, J[k])
    /\ \A k, l \in DOMAIN ns : k # l => J[k] \cap J[l] = {}
    /\ I = UNION {J[k] : k \in DOMAIN ns}

LEMMA SumOfParts ==
    ASSUME NEW g \in Seq(Nat), NEW ns \in Seq(Nat), NEW J, NEW I, PartSums(ns, g, J, I)
    PROVE  Total(ns) = SumAt(g, I)
<1> DEFINE m == Len(ns)
<1> DEFINE U(i) == UNION {J[k] : k \in 1 .. i}
<1>1. PICK c : Running(c, ns) /\ Total(ns) = c[m] BY TotalFacts
<1>2. m \in Nat /\ DOMAIN ns = 1 .. m OBVIOUS
<1>3. /\ \A k \in 1 .. m : ns[k] = SumAt(g, J[k])
      /\ \A k, l \in 1 .. m : k # l => J[k] \cap J[l] = {}
      /\ I = UNION {J[k] : k \in 1 .. m}
  BY <1>2 DEF PartSums
<1>4. c \in [0 .. m -> Nat] /\ c[0] = 0 /\ \A k \in 1 .. m : c[k] = c[k - 1] + ns[k] BY <1>1 DEF Running
<1> HIDE DEF m
<1> DEFINE S == {i \in 0 .. m : c[i] = SumAt(g, U(i))}
<1>5. 0 \in S
  <2>1. U(0) = {} OBVIOUS
  <2>2. SumAt(g, U(0)) = 0 BY <2>1, SumOfNone
  <2> QED BY <1>2, <1>4, <2>2
<1>6. ASSUME NEW i \in 0 .. m - 1, i \in S PROVE i + 1 \in S
  <2>1. i + 1 \in 1 .. m /\ i + 1 \in 0 .. m /\ i + 1 - 1 = i /\ i \in Nat BY <1>2
  <2>2. U(i + 1) = U(i) \cup J[i + 1]
    <3>1. 1 .. i + 1 = 1 .. i \cup {i + 1} BY <2>1
    <3> QED BY <3>1
  <2>3. U(i) \cap J[i + 1] = {}
    <3>1. \A k \in 1 .. i : k \in 1 .. m /\ k # i + 1 BY <1>2, <2>1
    <3> QED BY <1>3, <2>1, <3>1
  <2> DEFINE A == U(i)
  <2> DEFINE B == J[i + 1]
  <2>4. SumAt(g, A \cup B) = SumAt(g, A) + SumAt(g, B)
    <3>1. A \cap B = {} BY <2>3
    <3> HIDE DEF A, B
    <3> QED BY <3>1, SumOfTwo
  <2>5. c[i + 1] = c[i] + ns[i + 1] BY <1>4, <2>1
  <2>6. ns[i + 1] = SumAt(g, B) BY <1>3, <2>1
  <2>7. c[i] = SumAt(g, A) BY <1>6
  <2>8. c[i + 1] = SumAt(g, U(i + 1)) BY <2>2, <2>4, <2>5, <2>6, <2>7
  <2> QED BY <2>1, <2>8
<1>7. m \in S
  <2> HIDE DEF S
  <2> QED BY <1>2, <1>5, <1>6, StepByStep
<1>8. U(m) = I BY <1>3
<1> QED BY <1>1, <1>7, <1>8

-----------------------------------------------------------------------------
(* The outlier filter                                                      *)

\* What a member of X has to be for bars to be made of it.
Trades(X) ==
    \A t \in X : /\ t.venue \in Venues
                 /\ t.ts \in Nat /\ t.recv \in Nat /\ t.size \in Nat /\ t.price \in Nat \ {0}

LEMMA Median2Facts ==
    ASSUME NEW s \in Seq(Int), s # <<>>
    PROVE  /\ Median2(s) \in Int
           /\ \E i \in DOMAIN s : 2 * s[i] <= Median2(s)
           /\ (\A i \in DOMAIN s : s[i] >= 0) => Median2(s) >= 0
<1> DEFINE place == StableSort(s)
<1> DEFINE lo == (Len(s) + 1) \div 2
<1> DEFINE hi == Len(s) \div 2 + 1
<1>1. Len(s) \in Nat \ {0} /\ DOMAIN s = 1 .. Len(s) OBVIOUS
<1>2. lo \in 1 .. Len(s) /\ hi \in 1 .. Len(s) /\ lo <= hi BY <1>1
<1>3. /\ place \in [1 .. Len(s) -> 1 .. Len(s)]
      /\ \A k, l \in 1 .. Len(s) : k < l => s[place[k]] <= s[place[l]]
  BY StableSortFacts
<1>4. Median2(s) = RowsAt(s, place)[lo] + RowsAt(s, place)[hi] BY DEF Median2
<1>5. RowsAt(s, place) = [k \in DOMAIN place |-> s[place[k]]] BY DEF RowsAt
<1> HIDE DEF place, lo, hi
<1>6. Median2(s) = s[place[lo]] + s[place[hi]] BY <1>2, <1>3, <1>4, <1>5
<1>7. place[lo] \in DOMAIN s /\ place[hi] \in DOMAIN s BY <1>1, <1>2, <1>3
<1>8. s[place[lo]] \in Int /\ s[place[hi]] \in Int BY <1>7
<1>9. s[place[lo]] <= s[place[hi]]
  <2>1. CASE lo = hi BY <1>8, <2>1
  <2>2. CASE lo # hi
    <3>1. lo < hi BY <1>2, <2>2
    <3> QED BY <1>2, <1>3, <3>1
  <2> QED BY <2>1, <2>2
<1> QED BY <1>6, <1>7, <1>8, <1>9

LEMMA DeviationFacts ==
    ASSUME NEW X, Trades(X), NEW rows \in Seq(X), rows # <<>>
    PROVE  /\ Deviations2(rows) \in Seq(Int) /\ DOMAIN Deviations2(rows) = DOMAIN rows
           /\ Deviations2(rows) # <<>>
           /\ \A i \in DOMAIN rows : Deviations2(rows)[i] >= 0
           /\ \A i, j \in DOMAIN rows : rows[i].price = rows[j].price =>
                  Deviations2(rows)[i] = Deviations2(rows)[j]
           /\ Median2([i \in DOMAIN rows |-> rows[i].price]) >= 0
<1> DEFINE prices == [i \in DOMAIN rows |-> rows[i].price]
<1> DEFINE m == Median2(prices)
<1>1. DOMAIN rows = 1 .. Len(rows) /\ Len(rows) \in Nat \ {0} /\ \A i \in DOMAIN rows : rows[i] \in X OBVIOUS
<1>2. \A i \in DOMAIN rows : rows[i].price \in Nat \ {0} BY <1>1 DEF Trades
<1>3. prices \in Seq(Int) /\ prices # <<>> BY <1>1, <1>2
<1>4. \A i \in DOMAIN prices : prices[i] >= 0 BY <1>2
<1>5. Deviations2(rows) = [i \in DOMAIN rows |-> Abs(2 * rows[i].price - m)] BY DEF Deviations2
<1> HIDE DEF prices
<1>6. m \in Int /\ m >= 0 BY <1>3, <1>4, Median2Facts
<1> HIDE DEF m
<1>7. \A i \in DOMAIN rows : Abs(2 * rows[i].price - m) \in Int /\ Abs(2 * rows[i].price - m) >= 0
  BY <1>2, <1>6 DEF Abs
<1>8. Deviations2(rows) \in Seq(Int) /\ Deviations2(rows) # <<>> /\ DOMAIN Deviations2(rows) = DOMAIN rows
  <2>1. \A i \in 1 .. Len(rows) : Abs(2 * rows[i].price - m) \in Int BY <1>1, <1>7
  <2>2. [i \in 1 .. Len(rows) |-> Abs(2 * rows[i].price - m)] \in Seq(Int) BY <1>1, <2>1
  <2> QED BY <1>1, <1>5, <2>2
<1> QED BY <1>5, <1>6, <1>7, <1>8 DEF m, prices

\* The deviation d is within the filter's bound.
Near(d, mad, med) == IF mad <= 0 THEN 1000 * d <= med ELSE 20000 * d <= MadK * 14826 * mad

\* A deviation no larger than the median of them is.
LEMMA NearFacts ==
    ASSUME NEW d \in Int, NEW mad \in Int, NEW med \in Int, 2 * d <= mad, d >= 0, med >= 0
    PROVE  Near(d, mad, med)
<1>1. CASE mad <= 0 BY <1>1 DEF Near
<1>2. CASE mad > 0
  <2>1. MadK \in Int /\ MadK >= 1 BY BarsAssumption
  <2> DEFINE wide == 14826 * mad
  <2>2. wide \in Int /\ wide >= 10000 * mad /\ wide >= 0 BY <1>2
  <2>3. MadK * 14826 * mad = MadK * wide BY <2>1
  <2> HIDE DEF wide
  <2>4. MadK * wide >= wide BY <2>1, <2>2
  <2>5. 20000 * d <= 10000 * mad OBVIOUS
  <2>6. MadK * wide \in Int BY <2>1, <2>2
  <2>7. 20000 * d <= MadK * wide BY <2>2, <2>4, <2>5, <2>6
  <2> QED BY <1>2, <2>3, <2>7 DEF Near
<1> QED BY <1>1, <1>2

LEMMA WholeFacts ==
    ASSUME NEW X, NEW rows \in Seq(X)
    PROVE  \E at : PickedAt(rows, rows, DOMAIN rows, at)
<1> DEFINE at == [k \in DOMAIN rows |-> k]
<1>1. PickedAt(rows, rows, DOMAIN rows, at) BY DEF PickedAt
<1> QED BY <1>1

\* The filter keeps something, and all trades that equal one it keeps.
LEMMA FilterFacts ==
    ASSUME NEW X, Trades(X), NEW rows \in Seq(X), rows # <<>>, NEW q, q = RobustFilter(rows)
    PROVE  /\ q \in Seq(X) /\ q # <<>>
           /\ \E I \in SUBSET DOMAIN rows : \E at :
                 /\ PickedAt(q, rows, I, at)
                 /\ \A i \in I, j \in DOMAIN rows : rows[j] = rows[i] => j \in I
<1> DEFINE dev == Deviations2(rows)
<1> DEFINE mad == Median2(dev)
<1> DEFINE med == Median2([j \in DOMAIN rows |-> rows[j].price])
<1> DEFINE near(i) == Near(dev[i], mad, med)
<1> DEFINE I == {i \in DOMAIN rows : near(i)}
<1>1. q = rows \/ q = Selected(rows, I) BY DEF RobustFilter, Near
<1>2. CASE q = rows BY <1>2, WholeFacts
<1>3. CASE q = Selected(rows, I)
  <2>1. /\ dev \in Seq(Int) /\ dev # <<>> /\ DOMAIN dev = DOMAIN rows
        /\ \A i \in DOMAIN rows : dev[i] >= 0
        /\ \A i, j \in DOMAIN rows : rows[i].price = rows[j].price => dev[i] = dev[j]
    BY DeviationFacts
  <2>2. med >= 0 BY DeviationFacts
  <2>3. med \in Int
    <3>1. [j \in DOMAIN rows |-> rows[j].price] \in Seq(Int) /\ [j \in DOMAIN rows |-> rows[j].price] # <<>>
      BY DEF Trades
    <3> QED BY <3>1, Median2Facts
  <2> HIDE DEF dev, med
  <2>4. mad \in Int /\ \E i \in DOMAIN dev : 2 * dev[i] <= mad BY <2>1, Median2Facts
  <2> HIDE DEF mad
  <2>5. PICK i \in DOMAIN rows : 2 * dev[i] <= mad BY <2>1, <2>4
  <2>6. dev[i] \in Int /\ dev[i] >= 0 BY <2>1, <2>5
  <2>7. near(i) BY <2>2, <2>3, <2>4, <2>5, <2>6, NearFacts
  <2>8. \A j, k \in DOMAIN rows : rows[k] = rows[j] /\ near(j) => near(k)
    <3>1. \A j, k \in DOMAIN rows : rows[k] = rows[j] => dev[k] = dev[j] BY <2>1
    <3> QED BY <3>1
  <2> HIDE DEF near
  <2>9. I \in SUBSET DOMAIN rows /\ i \in I /\ \A j \in I, k \in DOMAIN rows : rows[k] = rows[j] => k \in I
    BY <2>7, <2>8
  <2> HIDE DEF I
  <2>10. q \in Seq(X) /\ \E at : PickedAt(q, rows, I, at) BY <1>3, <2>9, SelectedFacts
  <2>11. q # <<>> BY <2>9, <2>10 DEF PickedAt
  <2> QED BY <2>9, <2>10, <2>11
<1> QED BY <1>1, <1>2, <1>3

\* Rows sorted by time are the same rows.
LEMMA SortedFacts ==
    ASSUME NEW X, Trades(X), NEW rows \in Seq(X), NEW q, q = SortedByTs(rows)
    PROVE  /\ q \in Seq(X) /\ DOMAIN q = DOMAIN rows
           /\ \A k \in DOMAIN q : \E i \in DOMAIN rows : q[k] = rows[i]
           /\ \A k, l \in DOMAIN q : k < l => q[k].ts <= q[l].ts
<1> DEFINE keys == [i \in DOMAIN rows |-> rows[i].ts]
<1> DEFINE at == StableSort(keys)
<1>1. DOMAIN rows = 1 .. Len(rows) /\ Len(rows) \in Nat /\ \A i \in DOMAIN rows : rows[i] \in X OBVIOUS
<1>2. \A i \in 1 .. Len(rows) : rows[i].ts \in Int BY <1>1 DEF Trades
<1>3. keys \in Seq(Int) /\ Len(keys) = Len(rows) BY <1>1, <1>2
<1>4. \A i \in DOMAIN rows : keys[i] = rows[i].ts OBVIOUS
<1>5. q = [k \in DOMAIN at |-> rows[at[k]]] BY DEF SortedByTs, RowsAt
<1> HIDE DEF keys
<1>6. /\ at \in [1 .. Len(rows) -> 1 .. Len(rows)]
      /\ \A k, l \in 1 .. Len(rows) : k < l => keys[at[k]] <= keys[at[l]]
  BY <1>3, StableSortFacts
<1> HIDE DEF at
<1>7. q = [k \in 1 .. Len(rows) |-> rows[at[k]]] BY <1>5, <1>6
<1>8. \A k \in 1 .. Len(rows) : at[k] \in DOMAIN rows /\ rows[at[k]] \in X BY <1>1, <1>6
<1>9. q \in Seq(X) BY <1>1, <1>7, <1>8
<1>10. DOMAIN q = DOMAIN rows BY <1>1, <1>7
<1>11. \A k \in DOMAIN q : q[k] = rows[at[k]] /\ at[k] \in DOMAIN rows BY <1>1, <1>7, <1>8
<1>12. \A k, l \in DOMAIN q : k < l => q[k].ts <= q[l].ts BY <1>1, <1>4, <1>6, <1>10, <1>11
<1> QED BY <1>9, <1>10, <1>11, <1>12

-----------------------------------------------------------------------------
(* The order of the tape                                                   *)

Keyed(t) == t.ts \in Int /\ t.recv \in Int /\ t.venue \in Int

LEMMA PrecedesFacts ==
    ASSUME NEW t, NEW u, NEW w, Keyed(t), Keyed(u), Keyed(w)
    PROVE  /\ ~Precedes(t, t)
           /\ Precedes(t, u) => ~Precedes(u, t)
           /\ Precedes(t, u) /\ Precedes(u, w) => Precedes(t, w)
           /\ ~Precedes(t, u) /\ ~Precedes(u, w) => ~Precedes(t, w)
           /\ t.venue # u.venue => Precedes(t, u) \/ Precedes(u, t)
BY DEF Keyed, Precedes

\* The lists of rows that a tape is made of.
Lists(P, X) ==
    /\ P \in [Venues -> Seq(X)]
    /\ \A v \in Venues : \A i \in DOMAIN P[v] : P[v][i].venue = v
    /\ \A v \in Venues : \A i, j \in DOMAIN P[v] : i < j => P[v][i].ts <= P[v][j].ts

LEMMA KeyedRows ==
    ASSUME NEW X, Trades(X)
    PROVE  \A t \in X : Keyed(t)
<1>1. Venues \subseteq Int BY BarsAssumption
<1> TAKE t \in X
<1>2. t.venue \in Venues /\ t.ts \in Nat /\ t.recv \in Nat BY DEF Trades
<1>3. t.venue \in Int BY <1>1, <1>2
<1>4. t.ts \in Int /\ t.recv \in Int BY <1>2
<1> QED BY <1>3, <1>4 DEF Keyed

\* Of the first i rows of a list, the latest is one of them, and of the time of
\* the i-th.
LEMMA LatestFacts ==
    ASSUME NEW X, Trades(X), NEW P, Lists(P, X), NEW v \in Venues, NEW i \in DOMAIN P[v],
           NEW t, t = Latest(P[v], i)
    PROVE  /\ \E j \in 1 .. i : t = P[v][j]
           /\ \A j \in 1 .. i : ~Precedes(t, P[v][j])
           /\ t \in X /\ Keyed(t) /\ t.venue = v /\ t.ts = P[v][i].ts
<1> DEFINE rows == P[v]
<1> DEFINE I == 1 .. i
<1> DEFINE R == {p \in I \X I : \/ Precedes(rows[p[1]], rows[p[2]])
                                \/ ~Precedes(rows[p[2]], rows[p[1]]) /\ p[1] < p[2]}
<1>1. /\ rows \in Seq(X) /\ i \in 1 .. Len(rows) /\ Len(rows) \in Nat
      /\ I \subseteq DOMAIN rows /\ i \in I /\ I \subseteq Int
  BY DEF Lists
<1>2. \A j \in I : rows[j] \in X /\ Keyed(rows[j]) BY <1>1, KeyedRows
<1>3. IsFiniteSet(I) /\ Cardinality(I) = i BY <1>1, FS_Interval
<1>4. IsOrder(I, R)
  <2> HIDE DEF I, rows
  <2>1. \A x \in I : <<x, x>> \notin R BY <1>1, <1>2, PrecedesFacts
  <2>2. \A x, y \in I : x # y => <<x, y>> \in R \/ <<y, x>> \in R
    <3> TAKE x, y \in I
    <3>1. Keyed(rows[x]) /\ Keyed(rows[y]) /\ x \in Int /\ y \in Int BY <1>1, <1>2
    <3> QED BY <3>1
  <2>3. \A x, y, z \in I : <<x, y>> \in R /\ <<y, z>> \in R => <<x, z>> \in R
    <3> TAKE x, y, z \in I
    <3>1. /\ Keyed(rows[x]) /\ Keyed(rows[y]) /\ Keyed(rows[z])
          /\ x \in Int /\ y \in Int /\ z \in Int
      BY <1>1, <1>2
    <3> QED BY <3>1 DEF Precedes, Keyed
  <2> QED BY <2>1, <2>2, <2>3 DEF IsOrder
<1> DEFINE s == InOrder(I, R)
<1>5. \A j, k \in I : <<j, k>> \in R => ~Precedes(rows[k], rows[j]) BY <1>2, PrecedesFacts
<1> HIDE DEF R
<1>6. /\ s \in [1 .. i -> I]
      /\ \A x \in I : \E k \in 1 .. i : s[k] = x
      /\ \A k, l \in 1 .. i : k < l => <<s[k], s[l]>> \in R
  <2> HIDE DEF I
  <2> QED BY <1>3, <1>4, InOrderFacts
<1> HIDE DEF s
<1>7. s[i] \in I BY <1>1, <1>6
<1>8. \A x \in I : ~Precedes(rows[s[i]], rows[x])
  <2> TAKE x \in I
  <2>1. PICK k \in 1 .. i : s[k] = x BY <1>6
  <2>2. CASE k = i BY <1>2, <2>1, <2>2, PrecedesFacts
  <2>3. CASE k < i BY <1>1, <1>5, <1>6, <1>7, <2>1, <2>3
  <2> QED BY <1>1, <2>2, <2>3
<1>9. t \in {rows[j] : j \in I} /\ \A j \in I : ~Precedes(t, rows[j])
  <2>1. \E u \in {rows[j] : j \in I} : \A j \in I : ~Precedes(u, rows[j]) BY <1>7, <1>8
  <2>2. t = CHOOSE u \in {rows[j] : j \in I} : \A j \in I : ~Precedes(u, rows[j]) BY DEF Latest
  <2> QED BY <2>1, <2>2, Zenon
<1>10. PICK j \in I : t = rows[j] BY <1>9
<1>11. t \in X /\ Keyed(t) /\ Keyed(rows[i]) BY <1>1, <1>2, <1>10
<1>12. t.venue = v BY <1>1, <1>10 DEF Lists
<1>13. t.ts = rows[i].ts
  <2>1. ~Precedes(t, rows[i]) BY <1>1, <1>9
  <2>2. t.ts >= rows[i].ts BY <1>11, <2>1 DEF Precedes, Keyed
  <2>3. j = i \/ j < i BY <1>1, <1>10
  <2>4. t.ts <= rows[i].ts BY <1>1, <1>10, <1>11, <2>3 DEF Lists, Keyed
  <2> QED BY <1>11, <2>2, <2>4 DEF Keyed
<1> QED BY <1>9, <1>10, <1>11, <1>12, <1>13
LEMMA PlacesFinite ==
    ASSUME NEW X, NEW P, Lists(P, X)
    PROVE  IsFiniteSet(Places(P))
<1> DEFINE part == [v \in Venues |-> {v} \X DOMAIN P[v]]
<1> DEFINE parts == {{v} \X DOMAIN P[v] : v \in Venues}
<1>1. part \in Surjection(Venues, parts) BY DEF Surjection
<1>2. \A v \in Venues : IsFiniteSet({v} \X DOMAIN P[v])
  <2> TAKE v \in Venues
  <2>1. DOMAIN P[v] = 1 .. Len(P[v]) /\ Len(P[v]) \in Nat BY DEF Lists
  <2>2. IsFiniteSet(DOMAIN P[v]) BY <2>1, FS_Interval
  <2> QED BY <2>2, FS_Singleton, FS_Product
<1>3. \A T \in parts : IsFiniteSet(T) BY <1>2
<1>4. Places(P) = UNION parts BY DEF Places
<1> HIDE DEF part, parts
<1>5. IsFiniteSet(parts) BY <1>1, BarsAssumption, FS_Surjection
<1> QED BY <1>3, <1>4, <1>5, FS_UNION

LEMMA PlacesFacts ==
    ASSUME NEW P
    PROVE  /\ \A p \in Places(P) : p = <<p[1], p[2]>> /\ p[1] \in Venues /\ p[2] \in DOMAIN P[p[1]]
           /\ \A v \in Venues : \A i \in DOMAIN P[v] : <<v, i>> \in Places(P)
BY DEF Places

\* One row goes before another: as they stand in their list, or because the latest
\* row up to it is earlier.
Earlier(P, p, q) ==
    IF p[1] = q[1] THEN p[2] < q[2] ELSE Precedes(Latest(P[p[1]], p[2]), Latest(P[q[1]], q[2]))

\* at[k] says whose row, and which, is the k-th of the tape.
MergedAt(T, P, at) ==
    /\ at \in [DOMAIN T -> Places(P)]
    /\ \A k \in DOMAIN T : T[k] = P[at[k][1]][at[k][2]]
    /\ \A p \in Places(P) : \E k \in DOMAIN T : at[k] = p
    /\ \A k, l \in DOMAIN T : k < l => Earlier(P, at[k], at[l])

\* The latest of a longer part of a list is no earlier.
LEMMA LatestGrows ==
    ASSUME NEW X, Trades(X), NEW P, Lists(P, X), NEW v \in Venues,
           NEW i \in DOMAIN P[v], NEW j \in DOMAIN P[v], i <= j
    PROVE  ~Precedes(Latest(P[v], j), Latest(P[v], i))
<1>1. PICK k \in 1 .. i : Latest(P[v], i) = P[v][k] BY LatestFacts
<1>2. DOMAIN P[v] = 1 .. Len(P[v]) /\ Len(P[v]) \in Nat BY DEF Lists
<1>3. k \in 1 .. j BY <1>2
<1> QED BY <1>1, <1>3, LatestFacts

LEMMA EarlierOrders ==
    ASSUME NEW X, Trades(X), NEW P, Lists(P, X)
    PROVE  IsOrder(Places(P), {pq \in Places(P) \X Places(P) : Earlier(P, pq[1], pq[2])})
<1> DEFINE S == Places(P)
<1> DEFINE L(p) == Latest(P[p[1]], p[2])
<1>1. \A p \in S : p = <<p[1], p[2]>> /\ p[1] \in Venues /\ p[2] \in DOMAIN P[p[1]] /\ p[2] \in Int
  <2>1. \A v \in Venues : DOMAIN P[v] \subseteq Int BY DEF Lists
  <2> QED BY <2>1, PlacesFacts
<1>2. \A p \in S : Keyed(L(p)) /\ L(p).venue = p[1] BY <1>1, LatestFacts
<1>3. \A p, q \in S : p[1] = q[1] /\ p[2] <= q[2] => ~Precedes(L(q), L(p)) BY <1>1, LatestGrows
<1>4. \A p, q \in S : Earlier(P, p, q) <=> IF p[1] = q[1] THEN p[2] < q[2] ELSE Precedes(L(p), L(q))
  BY DEF Earlier
<1> HIDE DEF S, L
<1>5. \A p \in S : ~Earlier(P, p, p) BY <1>1, <1>4
<1>6. \A p, q \in S : p # q => Earlier(P, p, q) \/ Earlier(P, q, p)
  <2> SUFFICES ASSUME NEW p \in S, NEW q \in S, p # q PROVE Earlier(P, p, q) \/ Earlier(P, q, p)
    OBVIOUS
  <2>1. CASE p[1] = q[1]
    <3>1. p[2] # q[2] BY <1>1, <2>1
    <3> QED BY <1>1, <1>4, <2>1, <3>1
  <2>2. CASE p[1] # q[1] BY <1>2, <1>4, <2>2, PrecedesFacts
  <2> QED BY <2>1, <2>2
<1>7. \A p, q, r \in S : Earlier(P, p, q) /\ Earlier(P, q, r) => Earlier(P, p, r)
  <2> SUFFICES ASSUME NEW p \in S, NEW q \in S, NEW r \in S, Earlier(P, p, q), Earlier(P, q, r)
               PROVE  Earlier(P, p, r)
    OBVIOUS
  <2>0. /\ p[2] \in Int /\ q[2] \in Int /\ r[2] \in Int
        /\ Keyed(L(p)) /\ Keyed(L(q)) /\ Keyed(L(r))
    BY <1>1, <1>2
  <2>1. ~Precedes(L(q), L(p)) /\ ~Precedes(L(r), L(q))
    <3>1. \A x, y \in S : Earlier(P, x, y) => ~Precedes(L(y), L(x))
      <4> TAKE x, y \in S
      <4>1. x[2] \in Int /\ y[2] \in Int /\ Keyed(L(x)) /\ Keyed(L(y)) BY <1>1, <1>2
      <4>2. CASE x[1] = y[1] BY <1>3, <1>4, <4>1, <4>2
      <4>3. CASE x[1] # y[1] BY <1>4, <4>1, <4>3, PrecedesFacts
      <4> QED BY <4>2, <4>3
    <3> QED BY <3>1
  <2>2. CASE p[1] = r[1] /\ q[1] = p[1] BY <1>4, <2>0, <2>2
  <2>3. CASE p[1] = r[1] /\ q[1] # p[1]
    <3>1. Precedes(L(p), L(q)) /\ Precedes(L(q), L(r)) BY <1>4, <2>3
    <3>2. Precedes(L(p), L(r)) BY <2>0, <3>1, PrecedesFacts
    <3>3. ~(r[2] <= p[2]) BY <1>3, <2>3, <3>2
    <3> QED BY <1>4, <2>0, <2>3, <3>3
  <2>4. CASE p[1] # r[1]
    <3>1. ~Precedes(L(r), L(p)) BY <2>0, <2>1, PrecedesFacts
    <3>2. L(p).venue # L(r).venue BY <1>2, <2>4
    <3>3. Precedes(L(p), L(r)) BY <2>0, <3>1, <3>2, PrecedesFacts
    <3> QED BY <1>4, <2>4, <3>3
  <2> QED BY <2>2, <2>3, <2>4
<1> QED BY <1>5, <1>6, <1>7 DEF IsOrder, S
\* The tape holds each row of each list once, and orders them as the heap does.
LEMMA MergeFacts ==
    ASSUME NEW X, Trades(X), NEW P, Lists(P, X), NEW T, T = MergeTrades(P)
    PROVE  T \in Seq(X) /\ \E at : MergedAt(T, P, at)
<1> DEFINE S == Places(P)
<1> DEFINE R == {pq \in S \X S : Earlier(P, pq[1], pq[2])}
<1> DEFINE head == [p \in S |-> Latest(P[p[1]], p[2])]
<1> DEFINE Q == {pq \in S \X S : IF pq[1][1] = pq[2][1] THEN pq[1][2] < pq[2][2]
                                 ELSE Precedes(head[pq[1]], head[pq[2]])}
<1> DEFINE at == InOrder(S, R)
<1>1. Q = R
  <2>1. \A p \in S : head[p] = Latest(P[p[1]], p[2]) OBVIOUS
  <2> HIDE DEF head, S
  <2> QED BY <2>1 DEF Earlier
<1>2. T = [k \in DOMAIN InOrder(S, Q) |-> P[InOrder(S, Q)[k][1]][InOrder(S, Q)[k][2]]]
  BY DEF MergeTrades
<1> HIDE DEF head, Q
<1>3. T = [k \in DOMAIN at |-> P[at[k][1]][at[k][2]]] BY <1>1, <1>2
<1>4. IsFiniteSet(S) /\ IsOrder(S, R) BY PlacesFinite, EarlierOrders
<1>5. \A p, q : <<p, q>> \in R => Earlier(P, p, q) OBVIOUS
<1> DEFINE n == Cardinality(S)
<1> HIDE DEF R
<1>6. /\ n \in Nat /\ at \in [1 .. n -> S]
      /\ \A p \in S : \E k \in 1 .. n : at[k] = p
      /\ \A k, l \in 1 .. n : k < l => <<at[k], at[l]>> \in R
  BY <1>4, InOrderFacts
<1> HIDE DEF at, n
<1>7. T = [k \in 1 .. n |-> P[at[k][1]][at[k][2]]] BY <1>3, <1>6
<1>8. \A p \in S : P[p[1]][p[2]] \in X
  <2>1. \A p \in S : p[1] \in Venues /\ p[2] \in DOMAIN P[p[1]] BY PlacesFacts
  <2>2. \A v \in Venues : \A i \in DOMAIN P[v] : P[v][i] \in X BY DEF Lists
  <2> QED BY <2>1, <2>2
<1> HIDE DEF S
<1>9. T \in Seq(X) BY <1>6, <1>7, <1>8
<1>10. MergedAt(T, P, at) BY <1>5, <1>6, <1>7 DEF MergedAt, S
<1> QED BY <1>9, <1>10

\* A tape is in order of exchange time.
LEMMA TapeByTs ==
    ASSUME NEW X, Trades(X), NEW P, Lists(P, X), NEW T, NEW at, MergedAt(T, P, at),
           NEW k \in DOMAIN T, NEW l \in DOMAIN T, k < l
    PROVE  T[k].ts <= T[l].ts
<1> DEFINE p == at[k]
<1> DEFINE q == at[l]
<1>1. /\ p \in Places(P) /\ q \in Places(P) /\ Earlier(P, p, q)
      /\ T[k] = P[p[1]][p[2]] /\ T[l] = P[q[1]][q[2]]
  BY DEF MergedAt
<1> HIDE DEF p, q
<1>2. p[1] \in Venues /\ p[2] \in DOMAIN P[p[1]] /\ q[1] \in Venues /\ q[2] \in DOMAIN P[q[1]]
  BY <1>1, PlacesFacts
<1>3. CASE p[1] = q[1] BY <1>1, <1>2, <1>3 DEF Earlier, Lists
<1>4. CASE p[1] # q[1]
  <2> DEFINE t == Latest(P[p[1]], p[2])
  <2> DEFINE u == Latest(P[q[1]], q[2])
  <2>1. Keyed(t) /\ Keyed(u) /\ t.ts = T[k].ts /\ u.ts = T[l].ts BY <1>1, <1>2, LatestFacts
  <2>2. Precedes(t, u) BY <1>1, <1>4 DEF Earlier
  <2> HIDE DEF t, u
  <2> QED BY <2>1, <2>2 DEF Precedes, Keyed
<1> QED BY <1>3, <1>4

\* In a second in which no list has rows of one time out of their order of receive
\* time, the tape is in full order.
InRecvOrder(P, s) ==
    \A v \in Venues : \A i, j \in DOMAIN P[v] :
        i < j /\ P[v][i].ts = P[v][j].ts /\ Sec(P[v][i]) = s => P[v][i].recv <= P[v][j].recv

LEMMA TapeInOrder ==
    ASSUME NEW X, Trades(X), NEW P, Lists(P, X), NEW T, NEW at, MergedAt(T, P, at),
           NEW k \in DOMAIN T, NEW l \in DOMAIN T, k < l, NEW s, InRecvOrder(P, s),
           Sec(T[k]) = s, Sec(T[l]) = s
    PROVE  ~Precedes(T[l], T[k])
<1> DEFINE p == at[k]
<1> DEFINE q == at[l]
<1>1. /\ p \in Places(P) /\ q \in Places(P) /\ Earlier(P, p, q)
      /\ T[k] = P[p[1]][p[2]] /\ T[l] = P[q[1]][q[2]]
  BY DEF MergedAt
<1> HIDE DEF p, q
<1>2. p[1] \in Venues /\ p[2] \in DOMAIN P[p[1]] /\ q[1] \in Venues /\ q[2] \in DOMAIN P[q[1]]
  BY <1>1, PlacesFacts
<1>3. \A v \in Venues : DOMAIN P[v] \subseteq Int /\ \A i \in DOMAIN P[v] : P[v][i] \in X /\ P[v][i].venue = v
  BY DEF Lists
<1>4. Keyed(T[k]) /\ Keyed(T[l]) BY <1>1, <1>2, <1>3, KeyedRows
<1>5. CASE p[1] = q[1]
  <2>1. p[2] < q[2] BY <1>1, <1>5 DEF Earlier
  <2>2. T[k].ts <= T[l].ts BY <1>1, <1>2, <1>5, <2>1 DEF Lists
  <2>3. T[k].venue = T[l].venue BY <1>1, <1>2, <1>3, <1>5
  <2>4. T[k].ts = T[l].ts => T[k].recv <= T[l].recv BY <1>1, <1>2, <1>5, <2>1 DEF InRecvOrder
  <2> QED BY <1>4, <2>2, <2>3, <2>4 DEF Precedes, Keyed
<1>6. CASE p[1] # q[1]
  <2> DEFINE t == Latest(P[p[1]], p[2])
  <2> DEFINE u == Latest(P[q[1]], q[2])
  <2>1. Precedes(t, u) BY <1>1, <1>6 DEF Earlier
  <2>2. ASSUME NEW v \in Venues, NEW i \in DOMAIN P[v], Sec(P[v][i]) = s
        PROVE  LET w == Latest(P[v], i)
               IN  Keyed(w) /\ w.ts = P[v][i].ts /\ w.recv = P[v][i].recv /\ w.venue = v
    <3> DEFINE w == Latest(P[v], i)
    <3>1. PICK j \in 1 .. i : w = P[v][j] BY LatestFacts
    <3>2. Keyed(w) /\ w.ts = P[v][i].ts /\ w.venue = v BY LatestFacts
    <3>3. DOMAIN P[v] = 1 .. Len(P[v]) /\ Len(P[v]) \in Nat BY DEF Lists
    <3>4. i \in 1 .. i /\ j \in DOMAIN P[v] BY <3>1, <3>3
    <3>5. ~Precedes(w, P[v][i]) BY <3>4, LatestFacts
    <3>6. Keyed(P[v][i]) BY <1>3, KeyedRows
    <3> HIDE DEF w
    <3>7. w.recv >= P[v][i].recv BY <3>2, <3>5, <3>6 DEF Precedes, Keyed
    <3>8. Sec(w) = s BY <2>2, <3>2 DEF Sec
    <3>9. j = i \/ j < i BY <3>1, <3>3, <3>4
    <3>10. w.recv <= P[v][i].recv BY <3>1, <3>2, <3>4, <3>6, <3>8, <3>9 DEF InRecvOrder, Keyed
    <3>11. w.recv = P[v][i].recv BY <3>2, <3>6, <3>7, <3>10 DEF Keyed
    <3> QED BY <3>2, <3>11 DEF w
  <2>3. /\ Keyed(t) /\ t.ts = T[k].ts /\ t.recv = T[k].recv /\ t.venue = p[1]
        /\ Keyed(u) /\ u.ts = T[l].ts /\ u.recv = T[l].recv /\ u.venue = q[1]
    BY <1>1, <1>2, <2>2
  <2>4. T[k].venue = p[1] /\ T[l].venue = q[1] BY <1>1, <1>2, <1>3
  <2> HIDE DEF t, u
  <2> QED BY <1>4, <2>1, <2>3, <2>4 DEF Precedes, Keyed
<1> QED BY <1>5, <1>6
-----------------------------------------------------------------------------
(* The seconds of a tape                                                   *)

LEMMA EndsFacts ==
    ASSUME NEW X, NEW q \in Seq(X), q # <<>>, NEW rows \in Seq(X), NEW I \in SUBSET DOMAIN rows,
           NEW at, PickedAt(q, rows, I, at)
    PROVE  /\ \E i \in I : Head(q) = rows[i] /\ \A j \in I : i <= j
           /\ \E i \in I : Last(q) = rows[i] /\ \A j \in I : j <= i
<1>1. DOMAIN q = 1 .. Len(q) /\ Len(q) \in Nat \ {0} OBVIOUS
<1>2. Head(q) = q[1] /\ Last(q) = q[Len(q)] BY DEF Last
<1>3. I \subseteq Int OBVIOUS
<1>4. \A k \in DOMAIN q : at[k] \in I /\ q[k] = rows[at[k]] BY DEF PickedAt
<1>5. \A k \in DOMAIN q : at[1] <= at[k] /\ at[k] <= at[Len(q)]
  <2> TAKE k \in DOMAIN q
  <2>1. at[1] \in Int /\ at[k] \in Int /\ at[Len(q)] \in Int BY <1>1, <1>3, <1>4
  <2>2. (1 < k => at[1] < at[k]) /\ (k < Len(q) => at[k] < at[Len(q)]) BY <1>1 DEF PickedAt
  <2>3. (1 < k \/ 1 = k) /\ (k < Len(q) \/ k = Len(q)) BY <1>1
  <2> QED BY <2>1, <2>2, <2>3
<1>6. \A j \in I : \E k \in DOMAIN q : at[k] = j BY DEF PickedAt
<1>7. \A j \in I : at[1] <= j /\ j <= at[Len(q)] BY <1>5, <1>6
<1>8. 1 \in DOMAIN q /\ Len(q) \in DOMAIN q BY <1>1
<1> QED BY <1>2, <1>4, <1>7, <1>8

\* Rows that are picked from picked rows.
LEMMA PickedTwice ==
    ASSUME NEW p, NEW q, NEW rows, NEW I, NEW J \in SUBSET DOMAIN q, NEW f, NEW g,
           PickedAt(q, rows, I, f), PickedAt(p, q, J, g),
           NEW K, K = {f[j] : j \in J}, NEW h, h = [k \in DOMAIN p |-> f[g[k]]]
    PROVE  PickedAt(p, rows, K, h)
<1>1. \A k \in DOMAIN p : g[k] \in J /\ g[k] \in DOMAIN q /\ h[k] = f[g[k]] /\ p[k] = q[g[k]] BY DEF PickedAt
<1>2. \A k \in DOMAIN q : q[k] = rows[f[k]] BY DEF PickedAt
<1>3. h \in [DOMAIN p -> K] BY <1>1
<1>4. \A k \in DOMAIN p : p[k] = rows[h[k]] BY <1>1, <1>2
<1>5. \A i \in K : \E k \in DOMAIN p : h[k] = i
  <2>1. \A j \in J : \E k \in DOMAIN p : g[k] = j BY DEF PickedAt
  <2> QED BY <1>1, <2>1
<1>6. \A k, l \in DOMAIN p : k < l => h[k] < h[l] BY <1>1 DEF PickedAt
<1> QED BY <1>3, <1>4, <1>5, <1>6 DEF PickedAt

EligibleOf(T) == Selected(T, {i \in DOMAIN T : Eligible(T[i])})
Seconds(T) == {Sec(T[i]) : i \in {j \in DOMAIN T : Eligible(T[j])}}
KeptIn(T, s) == RobustFilter(InSecond(EligibleOf(T), s))

\* The trades of a second that are kept: at their places K of the tape, and all
\* that equal one of them.
KeptAt(q, T, s, K, at) ==
    /\ K \in SUBSET DOMAIN T
    /\ PickedAt(q, T, K, at)
    /\ \A i \in K : Sec(T[i]) = s /\ Eligible(T[i])
    /\ \A i \in K, j \in DOMAIN T : T[j] = T[i] => j \in K

LEMMA InSecondFacts ==
    ASSUME NEW X, NEW rows \in Seq(X), NEW s \in Secs(rows), NEW q, q = InSecond(rows, s)
    PROVE  q \in Seq(X) /\ q # <<>> /\ \E at : PickedAt(q, rows, {i \in DOMAIN rows : Sec(rows[i]) = s}, at)
<1> DEFINE I == {i \in DOMAIN rows : Sec(rows[i]) = s}
<1>1. I # {} /\ I \in SUBSET DOMAIN rows BY DEF Secs
<1>2. q = Selected(rows, I) BY DEF InSecond
<1> HIDE DEF I
<1>3. q \in Seq(X) /\ \E at : PickedAt(q, rows, I, at) BY <1>1, <1>2, SelectedFacts
<1>4. q # <<>> BY <1>1, <1>3 DEF PickedAt
<1> QED BY <1>3, <1>4 DEF I

LEMMA KeptFacts ==
    ASSUME NEW X, Trades(X), NEW T \in Seq(X), NEW s \in Seconds(T), NEW q, q = KeptIn(T, s)
    PROVE  q \in Seq(X) /\ q # <<>> /\ \E K, at : KeptAt(q, T, s, K, at)
<1> DEFINE E == EligibleOf(T)
<1> DEFINE I == {i \in DOMAIN T : Eligible(T[i])}
<1> DEFINE p == InSecond(E, s)
<1> DEFINE J == {i \in DOMAIN E : Sec(E[i]) = s}
<1>1. I \in SUBSET DOMAIN T /\ E = Selected(T, I) BY DEF EligibleOf
<1> HIDE DEF I
<1>2. E \in Seq(X) BY <1>1, SelectedFacts
<1>3. PICK f : PickedAt(E, T, I, f) BY <1>1, SelectedFacts
<1> HIDE DEF E
<1>4. s \in Secs(E)
  <2>1. PICK i \in I : s = Sec(T[i]) BY DEF Seconds, I
  <2>2. PICK k \in DOMAIN E : f[k] = i BY <1>3 DEF PickedAt
  <2>3. E[k] = T[i] BY <1>3, <2>2 DEF PickedAt
  <2> QED BY <2>1, <2>3 DEF Secs
<1>5. p \in Seq(X) /\ p # <<>> BY <1>2, <1>4, InSecondFacts
<1>6. PICK g : PickedAt(p, E, J, g) BY <1>2, <1>4, InSecondFacts
<1>7. q = RobustFilter(p) BY DEF KeptIn, E
<1>8. J \in SUBSET DOMAIN E /\ \A j \in DOMAIN E : j \in J <=> Sec(E[j]) = s OBVIOUS
<1> HIDE DEF J, p
<1>9. q \in Seq(X) /\ q # <<>> BY <1>5, <1>7, FilterFacts
<1>10. PICK M, h : /\ M \in SUBSET DOMAIN p
                   /\ PickedAt(q, p, M, h)
                   /\ \A i \in M, j \in DOMAIN p : p[j] = p[i] => j \in M
  BY <1>5, <1>7, FilterFacts
<1> DEFINE K1 == {g[i] : i \in M}
<1> DEFINE h1 == [k \in DOMAIN q |-> g[h[k]]]
<1> DEFINE K == {f[i] : i \in K1}
<1> DEFINE at == [k \in DOMAIN q |-> f[h1[k]]]
<1>12. K1 \in SUBSET J /\ K1 \in SUBSET DOMAIN E BY <1>6, <1>8, <1>10 DEF PickedAt
<1>13. PickedAt(q, T, K, at)
  <2>1. K1 = {g[i] : i \in M} /\ h1 = [k \in DOMAIN q |-> g[h[k]]] OBVIOUS
  <2>2. K = {f[i] : i \in K1} /\ at = [k \in DOMAIN q |-> f[h1[k]]] OBVIOUS
  <2> HIDE DEF K1, h1, K, at
  <2>3. PickedAt(q, E, K1, h1) BY <1>6, <1>10, <2>1, PickedTwice
  <2>4. K1 \in SUBSET DOMAIN E BY <1>12
  <2>5. K = {f[i] : i \in K1} BY <2>2
  <2>6. at = [k \in DOMAIN q |-> f[h1[k]]] BY <2>2
  <2> QED BY ONLY <1>3, <2>3, <2>4, <2>5, <2>6, PickedTwice
<1> HIDE DEF K1, h1
<1>15. K \in SUBSET I BY <1>3, <1>12 DEF PickedAt
<1>16. \A k \in DOMAIN E : E[k] = T[f[k]] /\ f[k] \in I BY <1>3 DEF PickedAt
<1>17. \A i \in K : Sec(T[i]) = s /\ Eligible(T[i])
  <2> TAKE i \in K
  <2>1. PICK k \in K1 : i = f[k] BY DEF K
  <2>2. Sec(E[k]) = s BY <1>8, <1>12, <2>1
  <2> QED BY <1>12, <1>15, <1>16, <2>1, <2>2 DEF I
<1>18. ASSUME NEW i \in K, NEW j \in DOMAIN T, T[j] = T[i] PROVE j \in K
  <2>1. j \in I BY <1>17, <1>18 DEF I
  <2>2. PICK k \in DOMAIN E : f[k] = j BY <1>3, <2>1 DEF PickedAt
  <2>3. PICK l \in K1 : i = f[l] BY DEF K
  <2>4. PICK m \in M : l = g[m] BY <2>3 DEF K1
  <2>5. Sec(E[k]) = s BY <1>16, <1>17, <1>18, <2>2
  <2>6. k \in J BY <1>8, <2>5
  <2>7. PICK n \in DOMAIN p : g[n] = k BY <1>6, <2>6 DEF PickedAt
  <2>8. p[n] = E[k] /\ p[m] = E[l] BY <1>6, <1>10, <2>4, <2>7 DEF PickedAt
  <2>9. E[k] = T[j] /\ E[l] = T[i] BY <1>12, <1>16, <2>2, <2>3
  <2>10. n \in M BY <1>10, <1>18, <2>8, <2>9
  <2>11. k \in K1 BY <2>7, <2>10 DEF K1
  <2> QED BY <2>2, <2>11 DEF K
<1>19. KeptAt(q, T, s, K, at) BY <1>1, <1>13, <1>15, <1>17, <1>18 DEF KeptAt
<1> QED BY <1>9, <1>19
LEMMA SecondsFacts ==
    ASSUME NEW X, Trades(X), NEW T \in Seq(X)
    PROVE  Filtered(T) = {KeptIn(T, s) : s \in Seconds(T)}
<1> DEFINE E == EligibleOf(T)
<1> DEFINE I == {i \in DOMAIN T : Eligible(T[i])}
<1>1. I \in SUBSET DOMAIN T /\ E = Selected(T, I) BY DEF EligibleOf
<1>2. Filtered(T) = {RobustFilter(part) : part \in BySecond(E)} \ {<<>>} BY DEF Filtered, EligibleOf
<1>3. Seconds(T) = {Sec(T[i]) : i \in I} BY DEF Seconds
<1> HIDE DEF I
<1>4. PICK f : PickedAt(E, T, I, f) BY <1>1, SelectedFacts
<1> HIDE DEF E
<1>5. Secs(E) = Seconds(T)
  <2>1. \A k \in DOMAIN E : E[k] = T[f[k]] /\ f[k] \in I BY <1>4 DEF PickedAt
  <2>2. \A i \in I : \E k \in DOMAIN E : f[k] = i BY <1>4 DEF PickedAt
  <2> QED BY <1>3, <2>1, <2>2 DEF Secs
<1>6. \A s \in Seconds(T) : KeptIn(T, s) # <<>> BY KeptFacts
<1>7. {RobustFilter(part) : part \in BySecond(E)} = {KeptIn(T, s) : s \in Seconds(T)}
  BY <1>5 DEF BySecond, KeptIn, E
<1> QED BY <1>2, <1>6, <1>7

LEMMA KeptRange ==
    ASSUME NEW X, Trades(X), NEW T \in Seq(X), NEW s \in Seconds(T)
    PROVE  \A t \in Range(KeptIn(T, s)) : t \in Range(T) /\ Sec(t) = s
<1>1. PICK K, at : KeptAt(KeptIn(T, s), T, s, K, at) BY KeptFacts
<1> QED BY <1>1 DEF KeptAt, PickedAt, Range

LEMMA HeadAndLast ==
    ASSUME NEW X, NEW q \in Seq(X), q # <<>>
    PROVE  Head(q) \in Range(q) /\ Last(q) \in Range(q)
<1>1. 1 \in DOMAIN q /\ Len(q) \in DOMAIN q OBVIOUS
<1> QED BY <1>1 DEF Last, Range

\* An agg bar for each second.
LEMMA AggBarsAre ==
    ASSUME NEW X, Trades(X), NEW T \in Seq(X), NEW now
    PROVE  BuildAggBars(T, now) = {BarOf(KeptIn(T, s), s, Agg, now) : s \in Seconds(T)}
<1>1. \A s \in Seconds(T) : Sec(Head(KeptIn(T, s))) = s
  <2> TAKE s \in Seconds(T)
  <2>1. KeptIn(T, s) \in Seq(X) /\ KeptIn(T, s) # <<>> BY KeptFacts
  <2> QED BY <2>1, HeadAndLast, KeptRange
<1>2. BuildAggBars(T, now) = {BarOf(part, Sec(Head(part)), Agg, now) : part \in Filtered(T)}
  BY DEF BuildAggBars
<1> DEFINE Bar(part) == BarOf(part, Sec(Head(part)), Agg, now)
<1>3. \A s \in Seconds(T) : Bar(KeptIn(T, s)) = BarOf(KeptIn(T, s), s, Agg, now) BY <1>1
<1>4. BuildAggBars(T, now) = {Bar(KeptIn(T, s)) : s \in Seconds(T)}
  <2> HIDE DEF Bar
  <2>1. BuildAggBars(T, now) = {Bar(part) : part \in Filtered(T)} BY <1>2 DEF Bar
  <2> QED BY <2>1, SecondsFacts
<1> HIDE DEF Bar
<1> QED BY <1>3, <1>4

\* What is kept of a second is what its bar is made of.
LEMMA KeptOfSecond ==
    ASSUME NEW X, Trades(X), NEW T \in Seq(X), NEW s \in Seconds(T)
    PROVE  {t \in UNION {Range(part) : part \in Filtered(T)} : Sec(t) = s} = Range(KeptIn(T, s))
<1>1. Filtered(T) = {KeptIn(T, r) : r \in Seconds(T)} BY SecondsFacts
<1>2. \A r \in Seconds(T) : \A t \in Range(KeptIn(T, r)) : Sec(t) = r BY KeptRange
<1> QED BY <1>1, <1>2

LEMMA SecondOfTape ==
    ASSUME NEW X, Trades(X), NEW P, Lists(P, X), NEW T, T = MergeTrades(P),
           NEW s \in Seconds(T), NEW q, q = KeptIn(T, s)
    PROVE  /\ Head(q) \in Range(q) /\ Last(q) \in Range(q)
           /\ \A t \in Range(q) : Head(q).ts <= t.ts /\ t.ts <= Last(q).ts
           /\ InRecvOrder(P, s) => \A t \in Range(q) : ~Precedes(t, Head(q)) /\ ~Precedes(Last(q), t)
<1>1. T \in Seq(X) BY MergeFacts
<1>2. PICK at : MergedAt(T, P, at) BY MergeFacts
<1>3. q \in Seq(X) /\ q # <<>> BY <1>1, KeptFacts
<1>4. PICK K, f : KeptAt(q, T, s, K, f) BY <1>1, KeptFacts
<1>5. K \in SUBSET DOMAIN T /\ PickedAt(q, T, K, f) /\ \A i \in K : Sec(T[i]) = s BY <1>4 DEF KeptAt
<1>6. PICK i \in K : Head(q) = T[i] /\ \A k \in K : i <= k BY <1>1, <1>3, <1>5, EndsFacts
<1>7. PICK j \in K : Last(q) = T[j] /\ \A k \in K : k <= j BY <1>1, <1>3, <1>5, EndsFacts
<1>8. \A t \in Range(q) : \E k \in K : t = T[k] BY <1>5 DEF PickedAt, Range
<1>9. \A k \in K : T[k] \in X /\ Keyed(T[k]) /\ k \in Int BY <1>1, <1>5, KeyedRows
<1>10. \A k, l \in K : k < l => T[k].ts <= T[l].ts BY <1>2, <1>5, TapeByTs
<1>11. \A k \in K : T[i].ts <= T[k].ts /\ T[k].ts <= T[j].ts
  <2> TAKE k \in K
  <2>1. (i = k \/ i < k) /\ (k = j \/ k < j) BY <1>6, <1>7, <1>9
  <2> QED BY <1>9, <1>10, <2>1 DEF Keyed
<1>12. ASSUME InRecvOrder(P, s), NEW k \in K
       PROVE  ~Precedes(T[k], T[i]) /\ ~Precedes(T[j], T[k])
  <2>1. (i = k \/ i < k) /\ (k = j \/ k < j) BY <1>6, <1>7, <1>9
  <2>2. \A l, m \in K : l < m => ~Precedes(T[m], T[l]) BY <1>2, <1>5, <1>12, TapeInOrder
  <2>3. ~Precedes(T[k], T[k]) BY <1>9, PrecedesFacts
  <2> QED BY <2>1, <2>2, <2>3
<1> QED BY <1>3, <1>6, <1>7, <1>8, <1>11, <1>12, HeadAndLast

\* When all of a second is kept, it ends with the last row of some venue.
LEMMA AllKept ==
    ASSUME NEW X, Trades(X), NEW P, Lists(P, X), NEW T, T = MergeTrades(P),
           NEW s \in Seconds(T), NEW q, q = KeptIn(T, s),
           \A t \in Range(T) : Sec(t) = s => t \in Range(q)
    PROVE  \E v \in Venues : s \in Secs(P[v]) /\ Last(q) = Last(InSecond(P[v], s))
<1>1. T \in Seq(X) BY MergeFacts
<1>2. PICK at : MergedAt(T, P, at) BY MergeFacts
<1>3. q \in Seq(X) /\ q # <<>> BY <1>1, KeptFacts
<1>4. PICK K, f : KeptAt(q, T, s, K, f) BY <1>1, KeptFacts
<1>5. K \in SUBSET DOMAIN T /\ PickedAt(q, T, K, f) /\ \A i \in K : Sec(T[i]) = s BY <1>4 DEF KeptAt
<1>6. PICK m \in K : Last(q) = T[m] /\ \A k \in K : k <= m BY <1>1, <1>3, <1>5, EndsFacts
<1>7. \A l \in DOMAIN T : Sec(T[l]) = s => l \in K
  <2> TAKE l \in DOMAIN T
  <2> HAVE Sec(T[l]) = s
  <2>1. T[l] \in Range(q) BY DEF Range
  <2>2. PICK k \in K : T[l] = T[k] BY <1>5, <2>1 DEF PickedAt, Range
  <2> QED BY <1>4, <2>2 DEF KeptAt
<1> DEFINE v == at[m][1]
<1> DEFINE i == at[m][2]
<1>8. v \in Venues /\ i \in DOMAIN P[v] /\ T[m] = P[v][i] /\ at[m] = <<v, i>>
  <2>1. at[m] \in Places(P) /\ T[m] = P[v][i] BY <1>2, <1>5 DEF MergedAt
  <2> QED BY <2>1, PlacesFacts
<1>9. at[m][1] = v /\ at[m][2] = i OBVIOUS
<1> HIDE DEF v, i
<1>10. P[v] \in Seq(X) BY <1>8 DEF Lists
<1>11. Sec(P[v][i]) = s BY <1>5, <1>8
<1>12. s \in Secs(P[v]) BY <1>8, <1>11 DEF Secs
<1> DEFINE p == InSecond(P[v], s)
<1> DEFINE J == {j \in DOMAIN P[v] : Sec(P[v][j]) = s}
<1>13. p \in Seq(X) /\ p # <<>> /\ \E g : PickedAt(p, P[v], J, g) BY <1>10, <1>12, InSecondFacts
<1>14. J \in SUBSET DOMAIN P[v] /\ i \in J BY <1>8, <1>11
<1>15. PICK j \in J : Last(p) = P[v][j] /\ \A k \in J : k <= j
  <2> HIDE DEF p, J
  <2> QED BY <1>10, <1>13, <1>14, EndsFacts
<1>16. j \in DOMAIN P[v] /\ Sec(P[v][j]) = s /\ i <= j /\ i \in Int /\ j \in Int
  BY <1>8, <1>10, <1>14, <1>15
<1>17. PICK l \in DOMAIN T : at[l] = <<v, j>>
  <2>1. <<v, j>> \in Places(P) BY <1>8, <1>16, PlacesFacts
  <2> QED BY <1>2, <2>1 DEF MergedAt
<1>18. T[l] = P[v][j] BY <1>2, <1>17 DEF MergedAt
<1>19. l \in K /\ l <= m /\ l \in Int /\ m \in Int BY <1>1, <1>5, <1>6, <1>7, <1>16, <1>18
<1>20. i = j
  <2>1. CASE l = m BY <1>8, <1>17, <2>1
  <2>2. CASE l < m
    <3>1. Earlier(P, at[l], at[m]) BY <1>2, <1>5, <2>2 DEF MergedAt
    <3>2. j < i BY <1>8, <1>17, <3>1 DEF Earlier
    <3> QED BY <1>16, <3>2
  <2> QED BY <1>19, <2>1, <2>2
<1>21. Last(q) = Last(InSecond(P[v], s)) BY <1>6, <1>8, <1>15, <1>20
<1> QED BY <1>8, <1>12, <1>21

-----------------------------------------------------------------------------
(* What a bar tells of its trades                                          *)

Sizes(T) == [i \in DOMAIN T |-> T[i].size]
Worths(T) == [i \in DOMAIN T |-> T[i].price * T[i].size]
Ones(T) == [i \in DOMAIN T |-> 1]

\* The bar c tells of the trades of T at the places I.
Tells(c, T, I) ==
    /\ \E i \in I : c.open = T[i].price /\ \A j \in I : i <= j
    /\ \E i \in I : c.close = T[i].price /\ \A j \in I : j <= i
    /\ \E i \in I : c.high = T[i].price /\ \A j \in I : T[j].price <= T[i].price
    /\ \E i \in I : c.low = T[i].price /\ \A j \in I : T[i].price <= T[j].price
    /\ c.volume = SumAt(Sizes(T), I)
    /\ c.pxv = SumAt(Worths(T), I)
    /\ c.trades = SumAt(Ones(T), I)

LEMMA SumsType ==
    ASSUME NEW X, Trades(X), NEW T \in Seq(X)
    PROVE  /\ DOMAIN T = 1 .. Len(T) /\ Len(T) \in Nat
           /\ \A i \in DOMAIN T : T[i] \in X /\ T[i].price \in Nat /\ T[i].size \in Nat
           /\ Sizes(T) \in Seq(Nat) /\ Worths(T) \in Seq(Nat) /\ Ones(T) \in Seq(Nat)
           /\ DOMAIN Sizes(T) = DOMAIN T /\ DOMAIN Worths(T) = DOMAIN T /\ DOMAIN Ones(T) = DOMAIN T
<1>1. DOMAIN T = 1 .. Len(T) /\ Len(T) \in Nat /\ \A i \in DOMAIN T : T[i] \in X OBVIOUS
<1>2. \A i \in DOMAIN T : T[i].price \in Nat /\ T[i].size \in Nat BY <1>1 DEF Trades
<1>3. \A i \in 1 .. Len(T) : T[i].price * T[i].size \in Nat BY <1>1, <1>2
<1>4. [i \in 1 .. Len(T) |-> T[i].size] \in Seq(Nat) BY <1>1, <1>2
<1>5. [i \in 1 .. Len(T) |-> T[i].price * T[i].size] \in Seq(Nat) BY <1>1, <1>3
<1>6. [i \in 1 .. Len(T) |-> 1] \in Seq(Nat) BY <1>1
<1> QED BY <1>1, <1>2, <1>4, <1>5, <1>6 DEF Sizes, Worths, Ones

\* Two bars that tell of the same trades have the same prices and sums.
LEMMA ToldOnce ==
    ASSUME NEW X, Trades(X), NEW T \in Seq(X), NEW I \in SUBSET DOMAIN T, NEW c, NEW d,
           Tells(c, T, I), Tells(d, T, I)
    PROVE  /\ c.open = d.open /\ c.close = d.close /\ c.high = d.high /\ c.low = d.low
           /\ c.volume = d.volume /\ c.pxv = d.pxv /\ c.trades = d.trades
<1>1. \A i \in I : i \in Nat /\ T[i].price \in Nat
  <2>1. \A i \in DOMAIN T : i \in Nat /\ T[i].price \in Nat BY SumsType
  <2> QED BY <2>1
<1>2. c.open = d.open
  <2>1. PICK i \in I : c.open = T[i].price /\ \A j \in I : i <= j BY DEF Tells
  <2>2. PICK j \in I : d.open = T[j].price /\ \A k \in I : j <= k BY DEF Tells
  <2>3. i = j BY <1>1, <2>1, <2>2
  <2> QED BY <2>1, <2>2, <2>3
<1>3. c.close = d.close
  <2>1. PICK i \in I : c.close = T[i].price /\ \A j \in I : j <= i BY DEF Tells
  <2>2. PICK j \in I : d.close = T[j].price /\ \A k \in I : k <= j BY DEF Tells
  <2>3. i = j BY <1>1, <2>1, <2>2
  <2> QED BY <2>1, <2>2, <2>3
<1>4. c.high = d.high
  <2>1. PICK i \in I : c.high = T[i].price /\ \A j \in I : T[j].price <= T[i].price BY DEF Tells
  <2>2. PICK j \in I : d.high = T[j].price /\ \A k \in I : T[k].price <= T[j].price BY DEF Tells
  <2>3. T[i].price <= T[j].price /\ T[j].price <= T[i].price BY <2>1, <2>2
  <2> QED BY <1>1, <2>1, <2>2, <2>3
<1>5. c.low = d.low
  <2>1. PICK i \in I : c.low = T[i].price /\ \A j \in I : T[i].price <= T[j].price BY DEF Tells
  <2>2. PICK j \in I : d.low = T[j].price /\ \A k \in I : T[j].price <= T[k].price BY DEF Tells
  <2>3. T[i].price <= T[j].price /\ T[j].price <= T[i].price BY <2>1, <2>2
  <2> QED BY <1>1, <2>1, <2>2, <2>3
<1>6. c.volume = d.volume /\ c.pxv = d.pxv /\ c.trades = d.trades BY DEF Tells
<1> QED BY <1>2, <1>3, <1>4, <1>5, <1>6

\* A list of ones sums up to its length.
LEMMA TotalOfOnes ==
    ASSUME NEW n \in Nat
    PROVE  Total([k \in 1 .. n |-> 1]) = n
<1> DEFINE ns == [k \in 1 .. n |-> 1]
<1> DEFINE c == [i \in 0 .. n |-> i]
<1>1. ns \in Seq(Nat) /\ Len(ns) = n /\ \A k \in 1 .. n : ns[k] = 1 OBVIOUS
<1>2. c \in [0 .. n -> Nat] /\ c[0] = 0 /\ c[n] = n /\ \A k \in 1 .. n : c[k] = c[k - 1] + 1 OBVIOUS
<1> HIDE DEF ns, c
<1>3. Running(c, ns) BY <1>1, <1>2 DEF Running
<1>4. Total(ns) = c[n] BY <1>1, <1>3, TotalFacts
<1> QED BY <1>2, <1>4 DEF ns

\* The numbers of a set that are those of a list have a least and a greatest.
LEMMA ListEnds ==
    ASSUME NEW n \in Nat \ {0}, NEW f \in [1 .. n -> Nat], NEW S, S = {f[k] : k \in 1 .. n}
    PROVE  /\ \E k \in 1 .. n : Max(S) = f[k] /\ \A l \in 1 .. n : f[l] <= f[k]
           /\ \E k \in 1 .. n : Min(S) = f[k] /\ \A l \in 1 .. n : f[k] <= f[l]
<1>1. f \in Surjection(1 .. n, S) BY DEF Surjection
<1>2. IsFiniteSet(S) BY <1>1, FS_Interval, FS_Surjection
<1>3. S \in SUBSET Nat /\ S # {} OBVIOUS
<1>4. Max(S) \in S /\ \A x \in S : x <= Max(S) BY <1>2, <1>3, GreatestExists
<1>5. Min(S) \in S /\ \A x \in S : Min(S) <= x BY <1>3, LeastExists
<1> QED BY <1>4, <1>5

LEMMA BarTells ==
    ASSUME NEW X, Trades(X), NEW T \in Seq(X), NEW I \in SUBSET DOMAIN T,
           NEW q \in Seq(X), q # <<>>, NEW at, PickedAt(q, T, I, at),
           NEW s, NEW series, NEW now, NEW c, c = BarOf(q, s, series, now)
    PROVE  /\ Tells(c, T, I)
           /\ c.mask = IF series = Agg THEN {T[i].venue : i \in I} ELSE {}
<1> DEFINE n == Len(q)
<1>1. n \in Nat \ {0} /\ DOMAIN q = 1 .. n OBVIOUS
<1>2. /\ \A k \in 1 .. n : at[k] \in I /\ q[k] = T[at[k]]
      /\ \A i \in I : \E k \in 1 .. n : at[k] = i
  BY <1>1 DEF PickedAt
<1>3. /\ \A i \in DOMAIN T : T[i] \in X /\ T[i].price \in Nat /\ T[i].size \in Nat
      /\ Sizes(T) \in Seq(Nat) /\ Worths(T) \in Seq(Nat) /\ Ones(T) \in Seq(Nat)
      /\ DOMAIN Sizes(T) = DOMAIN T /\ DOMAIN Worths(T) = DOMAIN T /\ DOMAIN Ones(T) = DOMAIN T
  BY SumsType
<1> DEFINE prices == {q[i].price : i \in DOMAIN q}
<1> DEFINE sizes == [i \in DOMAIN q |-> q[i].size]
<1> DEFINE worths == [i \in DOMAIN q |-> q[i].price * q[i].size]
<1>4. /\ c.open = Head(q).price /\ c.close = Last(q).price
      /\ c.high = Max(prices) /\ c.low = Min(prices)
      /\ c.volume = Total(sizes) /\ c.pxv = Total(worths) /\ c.trades = n
      /\ c.mask = IF series = Agg THEN {q[i].venue : i \in DOMAIN q} ELSE {}
  BY DEF BarOf
<1>5. /\ \E i \in I : Head(q) = T[i] /\ \A j \in I : i <= j
      /\ \E i \in I : Last(q) = T[i] /\ \A j \in I : j <= i
  BY EndsFacts
<1>6. /\ \E i \in I : Max(prices) = T[i].price /\ \A j \in I : T[j].price <= T[i].price
      /\ \E i \in I : Min(prices) = T[i].price /\ \A j \in I : T[i].price <= T[j].price
  <2> DEFINE f == [k \in 1 .. n |-> T[at[k]].price]
  <2>1. f \in [1 .. n -> Nat]
    <3>1. \A k \in 1 .. n : T[at[k]].price \in Nat BY <1>2, <1>3
    <3> QED BY <3>1
  <2>2. \A k \in 1 .. n : at[k] \in I /\ f[k] = T[at[k]].price /\ q[k].price = f[k] BY <1>2
  <2> HIDE DEF f, n
  <2>5. prices = {f[k] : k \in 1 .. n} BY ONLY <1>1, <2>2 DEF prices
  <2> HIDE DEF prices
  <2>3. /\ \E k \in 1 .. n : Max(prices) = f[k] /\ \A l \in 1 .. n : f[l] <= f[k]
        /\ \E k \in 1 .. n : Min(prices) = f[k] /\ \A l \in 1 .. n : f[k] <= f[l]
    BY <1>1, <2>1, <2>5, ListEnds
  <2>4. \A j \in I : \E k \in 1 .. n : T[j].price = f[k] BY <1>2, <2>2
  <2>6. \E i \in I : Max(prices) = T[i].price /\ \A j \in I : T[j].price <= T[i].price
    <3>1. PICK k \in 1 .. n : Max(prices) = f[k] /\ \A l \in 1 .. n : f[l] <= f[k] BY <2>3
    <3>2. at[k] \in I /\ f[k] = T[at[k]].price BY <2>2
    <3> QED BY <2>4, <3>1, <3>2
  <2>7. \E i \in I : Min(prices) = T[i].price /\ \A j \in I : T[i].price <= T[j].price
    <3>1. PICK k \in 1 .. n : Min(prices) = f[k] /\ \A l \in 1 .. n : f[k] <= f[l] BY <2>3
    <3>2. at[k] \in I /\ f[k] = T[at[k]].price BY <2>2
    <3> QED BY <2>4, <3>1, <3>2
  <2> QED BY <2>6, <2>7
<1> HIDE DEF prices
<1>7. Total(sizes) = SumAt(Sizes(T), I)
  <2>1. sizes \in Seq(Nat) /\ sizes = [i \in DOMAIN q |-> q[i].size] BY SumsType DEF Sizes
  <2>2. \A k \in DOMAIN q : sizes[k] = Sizes(T)[at[k]] BY <1>1, <1>2, <1>3 DEF Sizes
  <2>3. DOMAIN sizes = DOMAIN q OBVIOUS
  <2> HIDE DEF sizes
  <2>4. PickedAt(sizes, Sizes(T), I, at) BY <2>2, <2>3 DEF PickedAt
  <2> QED BY <1>3, <2>1, <2>4, SumPicked
<1>8. Total(worths) = SumAt(Worths(T), I)
  <2>1. worths \in Seq(Nat) BY SumsType DEF Worths
  <2>2. \A k \in DOMAIN q : worths[k] = Worths(T)[at[k]] BY <1>1, <1>2, <1>3 DEF Worths
  <2>3. DOMAIN worths = DOMAIN q OBVIOUS
  <2> HIDE DEF worths
  <2>4. PickedAt(worths, Worths(T), I, at) BY <2>2, <2>3 DEF PickedAt
  <2> QED BY <1>3, <2>1, <2>4, SumPicked
<1>9. n = SumAt(Ones(T), I)
  <2> DEFINE ones == [k \in 1 .. n |-> 1]
  <2>1. ones \in Seq(Nat) /\ DOMAIN ones = DOMAIN q BY <1>1
  <2>2. \A k \in DOMAIN q : ones[k] = Ones(T)[at[k]] BY <1>1, <1>2, <1>3 DEF Ones
  <2>3. Total(ones) = n BY <1>1, TotalOfOnes
  <2> HIDE DEF ones
  <2>4. PickedAt(ones, Ones(T), I, at) BY <2>1, <2>2 DEF PickedAt
  <2> QED BY <1>3, <2>1, <2>3, <2>4, SumPicked
<1>10. {q[i].venue : i \in DOMAIN q} = {T[i].venue : i \in I}
  <2> HIDE DEF n
  <2>1. \A k \in DOMAIN q : q[k].venue \in {T[i].venue : i \in I} BY <1>1, <1>2
  <2>2. \A i \in I : T[i].venue \in {q[k].venue : k \in DOMAIN q} BY <1>1, <1>2
  <2> QED BY <2>1, <2>2
<1> HIDE DEF n, sizes, worths
<1> QED BY <1>4, <1>5, <1>6, <1>7, <1>8, <1>9, <1>10 DEF Tells

\* The bars q tell of the trades at J[1], J[2] and so on, which follow each other.
InParts(q, n, T, J) ==
    /\ DOMAIN q = 1 .. n /\ Len(q) = n
    /\ \A k \in 1 .. n : J[k] \in SUBSET DOMAIN T /\ Tells(q[k], T, J[k])
    /\ \A k, l \in 1 .. n : k < l => \A i \in J[k], j \in J[l] : i < j

\* Such bars make one that tells of them all.
LEMMA WindowTells ==
    ASSUME NEW X, Trades(X), NEW T \in Seq(X), NEW n \in Nat \ {0}, NEW q, NEW J,
           InParts(q, n, T, J), NEW I, I = UNION {J[k] : k \in 1 .. n},
           NEW at, NEW c, c = WindowOf(q, at)
    PROVE  Tells(c, T, I)
<1> SUFFICES ASSUME DOMAIN q = 1 .. n, Len(q) = n,
                    \A k \in 1 .. n : J[k] \in SUBSET DOMAIN T /\ Tells(q[k], T, J[k]),
                    \A k, l \in 1 .. n : k < l => \A i \in J[k], j \in J[l] : i < j
             PROVE  Tells(c, T, I)
  BY DEF InParts
<1>1. /\ DOMAIN T = 1 .. Len(T) /\ Len(T) \in Nat
      /\ \A i \in DOMAIN T : T[i].price \in Nat
      /\ Sizes(T) \in Seq(Nat) /\ Worths(T) \in Seq(Nat) /\ Ones(T) \in Seq(Nat)
  BY SumsType
<1>2. I \in SUBSET DOMAIN T /\ \A i \in I : i \in Int /\ T[i].price \in Nat BY <1>1
<1>3. \A i \in I : \E k \in 1 .. n : i \in J[k] OBVIOUS
<1>4. \A k \in 1 .. n : J[k] \subseteq I OBVIOUS
<1> DEFINE volumes == [k \in DOMAIN q |-> q[k].volume]
<1> DEFINE worths == [k \in DOMAIN q |-> q[k].pxv]
<1> DEFINE counts == [k \in DOMAIN q |-> q[k].trades]
<1>5. /\ c.open = Head(q).open /\ c.close = Last(q).close
      /\ c.high = Max({q[k].high : k \in DOMAIN q}) /\ c.low = Min({q[k].low : k \in DOMAIN q})
      /\ c.volume = Total(volumes) /\ c.pxv = Total(worths) /\ c.trades = Total(counts)
  BY DEF WindowOf
<1>6. Head(q) = q[1] /\ Last(q) = q[n] /\ 1 \in 1 .. n /\ n \in 1 .. n BY DEF Last
<1>7. \E i \in I : c.open = T[i].price /\ \A j \in I : i <= j
  <2>1. PICK i \in J[1] : q[1].open = T[i].price /\ \A j \in J[1] : i <= j BY <1>6 DEF Tells
  <2>2. ASSUME NEW j \in I PROVE i <= j
    <3>1. PICK k \in 1 .. n : j \in J[k] BY <1>3
    <3>2. CASE k = 1 BY <2>1, <3>1, <3>2
    <3>3. CASE k # 1
      <4>1. 1 < k BY <3>3
      <4>2. i < j BY <1>6, <3>1, <4>1
      <4> QED BY <1>2, <1>4, <1>6, <4>2
    <3> QED BY <3>2, <3>3
  <2> QED BY <1>4, <1>5, <1>6, <2>1, <2>2
<1>8. \E i \in I : c.close = T[i].price /\ \A j \in I : j <= i
  <2>1. PICK i \in J[n] : q[n].close = T[i].price /\ \A j \in J[n] : j <= i BY <1>6 DEF Tells
  <2>2. ASSUME NEW j \in I PROVE j <= i
    <3>1. PICK k \in 1 .. n : j \in J[k] BY <1>3
    <3>2. CASE k = n BY <2>1, <3>1, <3>2
    <3>3. CASE k # n
      <4>1. k < n BY <3>3
      <4>2. j < i BY <1>6, <3>1, <4>1
      <4> QED BY <1>2, <1>4, <1>6, <4>2
    <3> QED BY <3>2, <3>3
  <2> QED BY <1>4, <1>5, <1>6, <2>1, <2>2
<1>9. \E i \in I : c.high = T[i].price /\ \A j \in I : T[j].price <= T[i].price
  <2> DEFINE f == [k \in 1 .. n |-> q[k].high]
  <2> DEFINE S == {q[k].high : k \in DOMAIN q}
  <2>1. \A k \in 1 .. n : \E i \in J[k] : f[k] = T[i].price /\ \A j \in J[k] : T[j].price <= T[i].price
    BY DEF Tells
  <2>2. \A k \in 1 .. n : f[k] \in Nat BY <1>2, <1>4, <2>1
  <2>3. f \in [1 .. n -> Nat] /\ S = {f[k] : k \in 1 .. n} BY <2>2
  <2> HIDE DEF f, S
  <2>7. \E k \in 1 .. n : Max(S) = f[k] /\ \A l \in 1 .. n : f[l] <= f[k]
    BY ONLY n \in Nat \ {0}, <2>3, ListEnds
  <2>4. PICK k \in 1 .. n : Max(S) = f[k] /\ \A l \in 1 .. n : f[l] <= f[k] BY <2>7
  <2>5. PICK i \in J[k] : f[k] = T[i].price BY <2>1
  <2>6. ASSUME NEW j \in I PROVE T[j].price <= T[i].price
    <3>1. PICK l \in 1 .. n : j \in J[l] BY <1>3
    <3>2. PICK m \in J[l] : f[l] = T[m].price /\ T[j].price <= T[m].price BY <2>1, <3>1
    <3>3. f[l] <= f[k] BY <2>4
    <3>4. m \in I /\ i \in I BY <1>4
    <3>5. T[j].price \in Nat /\ T[m].price \in Nat /\ T[i].price \in Nat BY <1>2, <3>4
    <3> QED BY <2>5, <3>2, <3>3, <3>5
  <2> QED BY <1>4, <1>5, <2>4, <2>5, <2>6 DEF S
<1>10. \E i \in I : c.low = T[i].price /\ \A j \in I : T[i].price <= T[j].price
  <2> DEFINE f == [k \in 1 .. n |-> q[k].low]
  <2> DEFINE S == {q[k].low : k \in DOMAIN q}
  <2>1. \A k \in 1 .. n : \E i \in J[k] : f[k] = T[i].price /\ \A j \in J[k] : T[i].price <= T[j].price
    BY DEF Tells
  <2>2. \A k \in 1 .. n : f[k] \in Nat BY <1>2, <1>4, <2>1
  <2>3. f \in [1 .. n -> Nat] /\ S = {f[k] : k \in 1 .. n} BY <2>2
  <2> HIDE DEF f, S
  <2>4. PICK k \in 1 .. n : Min(S) = f[k] /\ \A l \in 1 .. n : f[k] <= f[l] BY <2>3, ListEnds
  <2>5. PICK i \in J[k] : f[k] = T[i].price BY <2>1
  <2>6. ASSUME NEW j \in I PROVE T[i].price <= T[j].price
    <3>1. PICK l \in 1 .. n : j \in J[l] BY <1>3
    <3>2. PICK m \in J[l] : f[l] = T[m].price /\ T[m].price <= T[j].price BY <2>1, <3>1
    <3>3. f[k] <= f[l] BY <2>4
    <3>4. m \in I /\ i \in I BY <1>4
    <3>5. T[j].price \in Nat /\ T[m].price \in Nat /\ T[i].price \in Nat BY <1>2, <3>4
    <3> QED BY <2>5, <3>2, <3>3, <3>5
  <2> QED BY <1>4, <1>5, <2>4, <2>5, <2>6 DEF S
<1>11. \A k, l \in 1 .. n : k # l => J[k] \cap J[l] = {}
  <2> SUFFICES ASSUME NEW k \in 1 .. n, NEW l \in 1 .. n, k < l, NEW i \in J[k], i \in J[l] PROVE FALSE
    OBVIOUS
  <2>1. i < i /\ i \in Int BY <1>2, <1>4
  <2> QED BY <2>1
<1>12. ASSUME NEW g \in Seq(Nat), NEW ns, DOMAIN ns = 1 .. n, \A k \in 1 .. n : ns[k] = SumAt(g, J[k]),
              ns = [k \in 1 .. n |-> ns[k]]
       PROVE  Total(ns) = SumAt(g, I)
  <2>1. \A k \in 1 .. n : SumAt(g, J[k]) \in Nat BY OnlyFacts
  <2>2. ns \in Seq(Nat) BY <1>12, <2>1
  <2>3. Total(ns) = SumAt(g, I)
    <3>1. PartSums(ns, g, J, I) BY <1>11, <1>12 DEF PartSums
    <3> QED BY <2>2, <3>1, SumOfParts
  <2> QED BY <2>3
<1>13. Total(volumes) = SumAt(Sizes(T), I)
  <2>1. DOMAIN volumes = 1 .. n /\ volumes = [k \in 1 .. n |-> volumes[k]] OBVIOUS
  <2>2. \A k \in 1 .. n : volumes[k] = SumAt(Sizes(T), J[k]) BY DEF Tells
  <2> HIDE DEF volumes
  <2> QED BY <1>1, <1>12, <2>1, <2>2
<1>14. Total(worths) = SumAt(Worths(T), I)
  <2>1. DOMAIN worths = 1 .. n /\ worths = [k \in 1 .. n |-> worths[k]] OBVIOUS
  <2>2. \A k \in 1 .. n : worths[k] = SumAt(Worths(T), J[k]) BY DEF Tells
  <2> HIDE DEF worths
  <2> QED BY <1>1, <1>12, <2>1, <2>2
<1>15. Total(counts) = SumAt(Ones(T), I)
  <2>1. DOMAIN counts = 1 .. n /\ counts = [k \in 1 .. n |-> counts[k]] OBVIOUS
  <2>2. \A k \in 1 .. n : counts[k] = SumAt(Ones(T), J[k]) BY DEF Tells
  <2> HIDE DEF counts
  <2> QED BY <1>1, <1>12, <2>1, <2>2
<1> HIDE DEF volumes, worths, counts
<1> QED BY <1>5, <1>7, <1>8, <1>9, <1>10, <1>13, <1>14, <1>15 DEF Tells

-----------------------------------------------------------------------------
(* Longer bars                                                             *)

LEMMA Divided ==
    ASSUME NEW t \in Nat, NEW k \in Nat \ {0}
    PROVE  t \div k \in Nat /\ k * (t \div k) <= t /\ t < k * (t \div k) + k
OBVIOUS

LEMMA DividedOrder ==
    ASSUME NEW s \in Nat, NEW t \in Nat, NEW k \in Nat \ {0}, s \div k < t \div k
    PROVE  s < t
<1> DEFINE p == s \div k
<1> DEFINE q == t \div k
<1>1. p \in Nat /\ q \in Nat /\ s < k * p + k /\ k * q <= t /\ p < q BY Divided
<1> HIDE DEF p, q
<1>2. q >= p + 1 BY <1>1
<1>3. k * q >= k * (p + 1) BY <1>1, <1>2
<1>4. k * (p + 1) = k * p + k BY <1>1
<1>5. k * p \in Nat /\ k * q \in Nat BY <1>1
<1> QED BY <1>1, <1>3, <1>4, <1>5

InTime(T) == \A i, j \in DOMAIN T : i < j => T[i].ts <= T[j].ts

\* Rows of an earlier second stand before those of a later one.
LEMMA SecondsStand ==
    ASSUME NEW X, Trades(X), NEW T \in Seq(X), InTime(T)
    PROVE  /\ \A i \in DOMAIN T : Sec(T[i]) \in Nat
           /\ \A i, j \in DOMAIN T : Sec(T[i]) < Sec(T[j]) => i < j
<1>1. TicksPerSecond \in Nat \ {0} BY BarsAssumption
<1>2. DOMAIN T = 1 .. Len(T) /\ \A i \in DOMAIN T : T[i].ts \in Nat BY DEF Trades
<1>3. \A i \in DOMAIN T : Sec(T[i]) \in Nat BY <1>1, <1>2, Divided DEF Sec
<1>4. ASSUME NEW i \in DOMAIN T, NEW j \in DOMAIN T, Sec(T[i]) < Sec(T[j]) PROVE i < j
  <2>1. T[i].ts \in Nat /\ T[j].ts \in Nat BY <1>2
  <2>2. T[i].ts < T[j].ts BY <1>1, <1>4, <2>1, DividedOrder DEF Sec
  <2>3. i \in Int /\ j \in Int BY <1>2
  <2>4. CASE j < i
    <3>1. T[j].ts <= T[i].ts BY <2>4 DEF InTime
    <3> QED BY <2>1, <2>2, <3>1
  <2>5. CASE i = j BY <2>1, <2>2, <2>5
  <2> QED BY <2>3, <2>4, <2>5
<1> QED BY <1>3, <1>4

\* Bars that each have a time of their own.
Apart(B) ==
    /\ IsFiniteSet(B)
    /\ \A b \in B : b.ts \in Nat /\ b.build \in Nat
    /\ \A b, c \in B : b.ts = c.ts => b = c

LEMMA ByTimeFacts ==
    ASSUME NEW B, Apart(B), NEW list, list = ByTime(B)
    PROVE  /\ list \in Seq(B)
           /\ \A b \in B : \E k \in DOMAIN list : list[k] = b
           /\ \A k, l \in DOMAIN list : k < l => list[k].ts < list[l].ts
<1> DEFINE R == {p \in B \X B : \/ p[1].ts < p[2].ts
                                \/ p[1].ts = p[2].ts /\ p[1].build < p[2].build}
<1> DEFINE n == Cardinality(B)
<1>1. ASSUME NEW b \in B, NEW c \in B PROVE <<b, c>> \in R <=> b.ts < c.ts
  <2>1. b.ts \in Nat /\ c.ts \in Nat /\ b.build \in Nat /\ c.build \in Nat BY DEF Apart
  <2>2. CASE b = c BY <2>1, <2>2
  <2>3. CASE b # c
    <3>1. b.ts # c.ts BY <2>3 DEF Apart
    <3> QED BY <2>1, <3>1
  <2> QED BY <2>2, <2>3
<1>2. list = InOrder(B, R) BY DEF ByTime
<1> HIDE DEF R
<1>3. IsOrder(B, R)
  <2>1. \A b \in B : b.ts \in Nat BY DEF Apart
  <2>2. \A b, c \in B : b # c => b.ts # c.ts BY DEF Apart
  <2>3. \A x \in B : <<x, x>> \notin R BY <1>1, <2>1
  <2>4. \A x, y \in B : x # y => <<x, y>> \in R \/ <<y, x>> \in R
    <3> TAKE x, y \in B
    <3>1. x.ts \in Nat /\ y.ts \in Nat BY <2>1
    <3> QED BY <1>1, <2>2, <3>1
  <2>5. \A x, y, z \in B : <<x, y>> \in R /\ <<y, z>> \in R => <<x, z>> \in R
    <3> TAKE x, y, z \in B
    <3>1. x.ts \in Nat /\ y.ts \in Nat /\ z.ts \in Nat BY <2>1
    <3> QED BY <1>1, <3>1
  <2> QED BY <2>3, <2>4, <2>5 DEF IsOrder
<1>4. /\ n \in Nat /\ list \in [1 .. n -> B]
      /\ \A x \in B : \E k \in 1 .. n : list[k] = x
      /\ \A k, l \in 1 .. n : k < l => <<list[k], list[l]>> \in R
  BY <1>2, <1>3, InOrderFacts DEF Apart
<1> HIDE DEF n
<1>5. list \in Seq(B) /\ DOMAIN list = 1 .. n BY <1>4
<1>6. \A k, l \in 1 .. n : k < l => list[k].ts < list[l].ts BY <1>1, <1>4
<1> QED BY <1>4, <1>5, <1>6

\* The largest of a set of masks.  Of finitely many one has none above it.
Highest(S) == CHOOSE m \in S : \A o \in S : ~Above(o, m)

LEMMA HighestMask ==
    ASSUME NEW S \in SUBSET (SUBSET Venues), IsFiniteSet(S), S # {}
    PROVE  Highest(S) \in S
<1> DEFINE R == {p \in S \X S : Above(p[2], p[1])}
<1> DEFINE s == InOrder(S, R)
<1> DEFINE n == Cardinality(S)
<1>1. Venues \in SUBSET Nat /\ IsFiniteSet(Venues) BY BarsAssumption
<1>2. \A x, y \in S : <<x, y>> \in R <=> Above(y, x) OBVIOUS
<1>3. \A x, y \in S : x # y => Above(x, y) \/ Above(y, x)
  <2> SUFFICES ASSUME NEW x \in S, NEW y \in S, x # y PROVE Above(x, y) \/ Above(y, x)
    OBVIOUS
  <2> DEFINE D == (x \ y) \cup (y \ x)
  <2>1. D # {} /\ D \in SUBSET Venues /\ D \in SUBSET Nat BY <1>1
  <2>2. IsFiniteSet(D) BY <1>1, <2>1, FS_Subset
  <2>3. Max(D) \in D /\ \A u \in D : u <= Max(D)
    <3> HIDE DEF D
    <3> QED BY <2>1, <2>2, GreatestExists
  <2> DEFINE v == Max(D)
  <2>4. v \in D /\ \A u \in D : u <= v BY <2>3
  <2>5. \A u \in D : u # v => u < v
    <3> TAKE u \in D
    <3>1. u \in Nat /\ v \in Nat /\ u <= v BY <2>1, <2>4
    <3> QED BY <3>1
  <2> HIDE DEF v
  <2>6. CASE v \in x \ y
    <3>1. \A u \in y \ x : u \in D /\ u # v BY <2>6
    <3> QED BY <2>5, <2>6, <3>1 DEF Above
  <2>7. CASE v \in y \ x
    <3>1. \A u \in x \ y : u \in D /\ u # v BY <2>7
    <3> QED BY <2>5, <2>7, <3>1 DEF Above
  <2> QED BY <2>4, <2>6, <2>7
<1>4. \A x, y, z \in S : Above(y, x) /\ Above(z, y) => Above(z, x)
  <2> SUFFICES ASSUME NEW x \in S, NEW y \in S, NEW z \in S, Above(y, x), Above(z, y)
               PROVE  Above(z, x)
    OBVIOUS
  <2>1. PICK v \in y \ x : \A u \in x \ y : u < v BY DEF Above
  <2>2. PICK w \in z \ y : \A u \in y \ z : u < w BY DEF Above
  <2>3. \A u \in x \cup y \cup z : u \in Nat BY <1>1
  <2>4. CASE v < w
    <3>1. w \in z \ x
      <4> SUFFICES ASSUME w \in x PROVE FALSE BY <2>2
      <4>1. w < v BY <2>1, <2>2
      <4> QED BY <2>1, <2>2, <2>3, <2>4, <4>1
    <3>2. ASSUME NEW u \in x \ z PROVE u < w
      <4>1. u \in Nat /\ v \in Nat /\ w \in Nat BY <2>1, <2>2, <2>3
      <4>2. CASE u \in y BY <2>2, <4>2
      <4>3. CASE u \notin y
        <5>1. u < v BY <2>1, <4>3
        <5> QED BY <2>4, <4>1, <5>1
      <4> QED BY <4>2, <4>3
    <3> QED BY <3>1, <3>2 DEF Above
  <2>5. CASE w < v
    <3>1. v \in z \ x
      <4> SUFFICES ASSUME v \notin z PROVE FALSE BY <2>1
      <4>1. v < w BY <2>1, <2>2
      <4> QED BY <2>1, <2>2, <2>3, <2>5, <4>1
    <3>2. ASSUME NEW u \in x \ z PROVE u < v
      <4>1. u \in Nat /\ v \in Nat /\ w \in Nat BY <2>1, <2>2, <2>3
      <4>2. CASE u \notin y BY <2>1, <4>2
      <4>3. CASE u \in y
        <5>1. u < w BY <2>2, <4>3
        <5> QED BY <2>5, <4>1, <5>1
      <4> QED BY <4>2, <4>3
    <3> QED BY <3>1, <3>2 DEF Above
  <2>6. v # w /\ v \in Nat /\ w \in Nat BY <2>1, <2>2, <2>3
  <2> QED BY <2>4, <2>5, <2>6
<1>5. \A x \in S : ~Above(x, x) BY DEF Above
<1> HIDE DEF R
<1>6. IsOrder(S, R) BY <1>2, <1>3, <1>4, <1>5 DEF IsOrder
<1>7. /\ n \in Nat /\ s \in [1 .. n -> S]
      /\ \A x \in S : \E k \in 1 .. n : s[k] = x
      /\ \A k, l \in 1 .. n : k < l => <<s[k], s[l]>> \in R
  BY <1>6, InOrderFacts
<1> HIDE DEF s, n
<1>8. n \in 1 .. n /\ s[n] \in S
  <2>1. PICK x \in S : TRUE OBVIOUS
  <2>2. PICK k \in 1 .. n : s[k] = x BY <1>7
  <2> QED BY <1>7, <2>2
<1>9. ASSUME NEW y \in S PROVE ~Above(y, s[n])
  <2>1. PICK k \in 1 .. n : s[k] = y BY <1>7
  <2>2. CASE k = n BY <1>5, <1>8, <2>1, <2>2
  <2>3. CASE k # n
    <3>1. k < n BY <1>7, <2>3
    <3>2. Above(s[n], y) BY <1>2, <1>7, <1>8, <2>1, <3>1
    <3> QED BY <1>4, <1>5, <1>8, <3>2
  <2> QED BY <2>2, <2>3
<1>10. \E x \in S : \A y \in S : ~Above(y, x) BY <1>8, <1>9
<1> QED BY <1>10, Zenon DEF Highest

\* The places of a second among the places A of T.
AtSecond(T, A, s) == {i \in A : Sec(T[i]) = s}

\* A bar for each second of the trades of T at A, that tells of it.
SecondBars(bar, S, T, A, series) ==
    /\ S = {Sec(T[i]) : i \in A}
    /\ \A s \in S : /\ Tells(bar[s], T, AtSecond(T, A, s))
                    /\ bar[s].ts = s /\ bar[s].series = series /\ bar[s].build \in Nat
                    /\ bar[s].mask = IF series = Agg THEN {T[i].venue : i \in AtSecond(T, A, s)} ELSE {}

BarsAt(bar, S) == {bar[s] : s \in S}

LEMMA SecondBarsApart ==
    ASSUME NEW X, Trades(X), NEW T \in Seq(X), InTime(T), NEW A \in SUBSET DOMAIN T,
           NEW S, NEW bar, NEW series, SecondBars(bar, S, T, A, series)
    PROVE  Apart(BarsAt(bar, S)) /\ S \subseteq Nat
<1> DEFINE B == {bar[s] : s \in S}
<1> DEFINE g == [i \in A |-> bar[Sec(T[i])]]
<1>1. S = {Sec(T[i]) : i \in A} BY DEF SecondBars
<1>2. S \subseteq Nat BY <1>1, SecondsStand
<1>3. IsFiniteSet(A)
  <2>1. DOMAIN T = 1 .. Len(T) /\ Len(T) \in Nat OBVIOUS
  <2>2. IsFiniteSet(DOMAIN T) BY <2>1, FS_Interval
  <2> QED BY <2>2, FS_Subset
<1>4. g \in Surjection(A, B) BY <1>1 DEF Surjection
<1>5. IsFiniteSet(B)
  <2> HIDE DEF B, g
  <2> QED BY <1>3, <1>4, FS_Surjection
<1>6. \A s \in S : bar[s].ts = s /\ bar[s].build \in Nat BY DEF SecondBars
<1>7. \A b \in B : b.ts \in S /\ b.ts \in Nat /\ b.build \in Nat /\ b = bar[b.ts] BY <1>2, <1>6
<1> HIDE DEF B
<1>8. Apart(B) BY <1>5, <1>7 DEF Apart
<1> QED BY <1>2, <1>8 DEF B, BarsAt

LEMMA WindowHead ==
    ASSUME NEW q, NEW at
    PROVE  WindowOf(q, at).ts = at /\ WindowOf(q, at).series = Head(q).series
BY DEF WindowOf

LEMMA WindowMask ==
    ASSUME NEW q, NEW at, NEW c, c = WindowOf(q, at)
    PROVE  c.mask = Highest({q[i].mask : i \in DOMAIN q})
BY DEF WindowOf, Highest

\* Window w of a list of bars, and of the trades of T at A.
PartOf(list, k, w) == {i \in DOMAIN list : list[i].ts \div k = w}
InWindow(T, A, k, w) == {i \in A : Sec(T[i]) \div k = w}

\* What the window c, which begins at `at`, tells of the trades of T at M.
WindowSays(c, T, M, at, series) ==
    /\ M # {} /\ Tells(c, T, M)
    /\ c.ts = at /\ c.series = series
    /\ c.mask \subseteq IF series = Agg THEN {T[i].venue : i \in M} ELSE {}

\* The window w of such bars tells of the trades of all its seconds.
LEMMA OneWindow ==
    ASSUME NEW X, Trades(X), NEW T \in Seq(X), InTime(T), NEW A \in SUBSET DOMAIN T,
           NEW S, NEW bar, NEW series, SecondBars(bar, S, T, A, series),
           NEW list, list = ByTime(BarsAt(bar, S)), NEW k \in Nat \ {0},
           NEW r \in DOMAIN list, NEW w, w = list[r].ts \div k, NEW M, M = InWindow(T, A, k, w),
           NEW at, NEW c, c = WindowOf(Selected(list, PartOf(list, k, w)), at)
    PROVE  WindowSays(c, T, M, at, series)
<1> DEFINE B == BarsAt(bar, S)
<1> DEFINE I == PartOf(list, k, w)
<1> DEFINE q == Selected(list, I)
<1> DEFINE n == Len(q)
<1>1. Apart(B) /\ S \subseteq Nat /\ list = ByTime(B)
  BY SecondBarsApart
<1>2. /\ list \in Seq(B)
      /\ \A b \in B : \E i \in DOMAIN list : list[i] = b
      /\ \A i, j \in DOMAIN list : i < j => list[i].ts < list[j].ts
  <2> HIDE DEF B
  <2> QED BY <1>1, ByTimeFacts
<1>3. S = {Sec(T[i]) : i \in A} /\ \A s \in S : bar[s].ts = s BY DEF SecondBars
<1>4. \A b \in B : b.ts \in S /\ b.ts \in Nat /\ b = bar[b.ts] BY <1>1, <1>3 DEF BarsAt
<1>5. \A s \in S : bar[s] \in B BY DEF BarsAt
<1>6. I \in SUBSET DOMAIN list /\ r \in I BY DEF PartOf
<1>7. c = WindowOf(q, at) OBVIOUS
<1>8. \A i \in DOMAIN list : i \in I <=> list[i].ts \div k = w BY DEF PartOf
<1>9. \A i \in A : i \in M <=> Sec(T[i]) \div k = w BY DEF InWindow
<1> HIDE DEF B, I
<1>10. q \in Seq(B) /\ \E f : PickedAt(q, list, I, f) BY <1>2, <1>6, SelectedFacts
<1> HIDE DEF q
<1>11. PICK f : PickedAt(q, list, I, f) BY <1>10
<1>12. n \in Nat \ {0} /\ DOMAIN q = 1 .. n /\ Len(q) = n
  <2>1. n \in Nat /\ DOMAIN q = 1 .. n BY <1>10
  <2>2. PICK l \in DOMAIN q : f[l] = r BY <1>6, <1>11 DEF PickedAt
  <2> QED BY <2>1, <2>2
<1> HIDE DEF n
<1>13. \A l \in 1 .. n : /\ f[l] \in DOMAIN list /\ q[l] = list[f[l]] /\ q[l] \in B
                        /\ q[l].ts \div k = w
  <2> TAKE l \in 1 .. n
  <2>1. f[l] \in I /\ q[l] = list[f[l]] BY <1>11, <1>12 DEF PickedAt
  <2> QED BY <1>2, <1>6, <1>8, <2>1
<1>14. \A l, m \in 1 .. n : l < m => q[l].ts < q[m].ts
  <2> TAKE l, m \in 1 .. n
  <2> HAVE l < m
  <2>1. f[l] < f[m] BY <1>11, <1>12 DEF PickedAt
  <2> QED BY <1>2, <1>13, <2>1
<1> DEFINE J == [l \in 1 .. n |-> AtSecond(T, A, q[l].ts)]
<1>15. \A l \in 1 .. n : q[l].ts \in S /\ q[l] = bar[q[l].ts] BY <1>4, <1>13
<1>16. \A l \in 1 .. n : J[l] \in SUBSET DOMAIN T /\ Tells(q[l], T, J[l])
  <2> TAKE l \in 1 .. n
  <2>1. PICK s \in S : s = q[l].ts /\ q[l] = bar[s] /\ J[l] = AtSecond(T, A, s) BY <1>15
  <2>2. Tells(bar[s], T, AtSecond(T, A, s)) BY DEF SecondBars
  <2> QED BY <2>1, <2>2 DEF AtSecond
<1>17. \A l \in 1 .. n : \A i \in J[l] : i \in A /\ i \in DOMAIN T /\ Sec(T[i]) = q[l].ts BY DEF AtSecond
<1>18. \A l, m \in 1 .. n : l < m => \A i \in J[l], j \in J[m] : i < j
  <2> SUFFICES ASSUME NEW l \in 1 .. n, NEW m \in 1 .. n, l < m, NEW i \in J[l], NEW j \in J[m]
               PROVE  i < j
    OBVIOUS
  <2>1. i \in DOMAIN T /\ j \in DOMAIN T /\ Sec(T[i]) < Sec(T[j]) BY <1>14, <1>17
  <2> QED BY <2>1, SecondsStand
<1>19. \A i \in M : \E l \in 1 .. n : i \in J[l]
  <2> TAKE i \in M
  <2> DEFINE s == Sec(T[i])
  <2>1. i \in A /\ s \in S /\ s \div k = w BY <1>3 DEF InWindow
  <2>2. bar[s] \in B /\ bar[s].ts = s BY <1>3, <1>5, <2>1
  <2> HIDE DEF s
  <2>3. PICK p \in DOMAIN list : list[p] = bar[s] BY <1>2, <2>2
  <2>4. p \in I BY <1>8, <2>1, <2>2, <2>3
  <2>5. PICK l \in 1 .. n : f[l] = p BY <1>11, <1>12, <2>4 DEF PickedAt
  <2>6. q[l].ts = s BY <1>13, <2>2, <2>3, <2>5
  <2> QED BY <2>1, <2>6 DEF AtSecond, s
<1>20. \A l \in 1 .. n : J[l] \subseteq M
  <2> TAKE l \in 1 .. n
  <2>1. \A i \in J[l] : i \in A /\ Sec(T[i]) \div k = w BY <1>13, <1>17
  <2> QED BY <1>9, <2>1
<1> HIDE DEF J
<1>21. M = UNION {J[l] : l \in 1 .. n} BY <1>19, <1>20
<1>22. Tells(c, T, M)
  <2>1. InParts(q, n, T, J) BY <1>12, <1>16, <1>18 DEF InParts
  <2> QED BY <1>7, <1>12, <1>21, <2>1, WindowTells
<1>23. M # {}
  <2>1. \E i \in M : c.open = T[i].price BY <1>22 DEF Tells
  <2> QED BY <2>1
<1>24. c.ts = at /\ c.series = series
  <2>0. WindowOf(q, at).ts = at /\ WindowOf(q, at).series = Head(q).series BY WindowHead
  <2>1. c.ts = at /\ c.series = Head(q).series BY ONLY <1>7, <2>0
  <2>2. Head(q) = q[1] /\ 1 \in 1 .. n BY <1>10, <1>12
  <2>3. PICK s \in S : q[1] = bar[s] BY <1>15, <2>2
  <2>4. q[1].series = series BY <2>3 DEF SecondBars
  <2> QED BY <2>1, <2>2, <2>4
<1>25. c.mask \subseteq IF series = Agg THEN {T[i].venue : i \in M} ELSE {}
  <2> DEFINE masks == {q[l].mask : l \in DOMAIN q}
  <2> DEFINE h == [l \in 1 .. n |-> q[l].mask]
  <2>1. c.mask = Highest(masks)
    <3>1. c.mask = Highest({q[i].mask : i \in DOMAIN q}) BY <1>7, WindowMask
    <3> QED BY <3>1
  <2>2. ASSUME NEW l \in 1 .. n
        PROVE  q[l].mask = IF series = Agg THEN {T[i].venue : i \in J[l]} ELSE {}
    <3>1. PICK s \in S : s = q[l].ts /\ q[l] = bar[s] /\ J[l] = AtSecond(T, A, s) BY <1>15 DEF J
    <3>2. bar[s].mask = IF series = Agg THEN {T[i].venue : i \in AtSecond(T, A, s)} ELSE {} BY DEF SecondBars
    <3> QED BY <3>1, <3>2
  <2>3. \A i \in DOMAIN T : T[i].venue \in Venues
    <3>1. \A i \in DOMAIN T : T[i] \in X OBVIOUS
    <3> QED BY <3>1 DEF Trades
  <2>4. ASSUME NEW l \in 1 .. n PROVE q[l].mask \in SUBSET Venues
    <3>1. J[l] \subseteq DOMAIN T BY <1>16
    <3>2. {T[i].venue : i \in J[l]} \subseteq Venues BY <2>3, <3>1
    <3> QED BY <2>2, <3>2
  <2>5. h \in Surjection(1 .. n, masks) BY <1>12 DEF Surjection
  <2>6. masks # {} /\ masks \in SUBSET (SUBSET Venues) BY <1>12, <2>4
  <2> HIDE DEF masks, h
  <2>7. IsFiniteSet(masks) BY <1>12, <2>5, FS_Interval, FS_Surjection
  <2>8. c.mask \in masks BY <2>1, <2>6, <2>7, HighestMask
  <2>9. PICK l \in 1 .. n : c.mask = q[l].mask BY <1>12, <2>8 DEF masks
  <2>10. J[l] \subseteq M /\ c.mask = IF series = Agg THEN {T[i].venue : i \in J[l]} ELSE {} BY <1>20, <2>2, <2>9
  <2>11. {T[i].venue : i \in J[l]} \subseteq {T[i].venue : i \in M} BY <2>10
  <2> QED BY <2>10, <2>11
<1> QED BY <1>22, <1>23, <1>24, <1>25 DEF WindowSays

Image(f, J) == {f[j] : j \in J}
Through(p, f, g) == [k \in DOMAIN p |-> f[g[k]]]

LEMMA PickedThrough ==
    ASSUME NEW p, NEW q, NEW rows, NEW I, NEW J \in SUBSET DOMAIN q, NEW f, NEW g,
           PickedAt(q, rows, I, f), PickedAt(p, q, J, g)
    PROVE  PickedAt(p, rows, Image(f, J), Through(p, f, g))
BY PickedTwice DEF Image, Through

\* The bar b of k seconds is what the trades `rows` of its window give, but for the mask.
WindowIs(b, rows, series, k) ==
    LET ref == BarOf(Selected(rows, {i \in DOMAIN rows : k * (Sec(rows[i]) \div k) = b.ts}), b.ts, series, b.stamp)
    IN  b = [ref EXCEPT !.mask = b.mask] /\ b.mask \subseteq ref.mask

\* The bar b with all but the prices and sums of another.
Like(b, at, series, now, m) ==
    [ts |-> at, series |-> series, stamp |-> now, open |-> b.open, close |-> b.close, high |-> b.high,
     low |-> b.low, volume |-> b.volume, pxv |-> b.pxv, trades |-> b.trades, mask |-> m]

LEMMA WindowShape ==
    ASSUME NEW q, NEW at, NEW b, b = WindowOf(q, at)
    PROVE  b = Like(b, b.ts, b.series, b.stamp, b.mask)
BY DEF WindowOf, Like

Masked(b, m) == [b EXCEPT !.mask = m]

LEMMA BarShape ==
    ASSUME NEW q, NEW at, NEW series, NEW now, NEW c, c = BarOf(q, at, series, now), NEW m
    PROVE  Masked(c, m) = Like(c, at, series, now, m)
BY DEF BarOf, Masked, Like

\* The bars of k seconds of the trades `rows`.
Longer(long, rows, series, k) ==
    /\ {b.ts : b \in long} = {k * (x \div k) : x \in Secs(rows)}
    /\ \A b \in long : WindowIs(b, rows, series, k)

\* Bars of whole seconds make the longer bars that their trades would have made.
LEMMA LongBars ==
    ASSUME NEW X, Trades(X), NEW T \in Seq(X), InTime(T), NEW A \in SUBSET DOMAIN T,
           NEW S, NEW bar, NEW series, SecondBars(bar, S, T, A, series),
           NEW list, list = ByTime(BarsAt(bar, S)), NEW k \in Nat \ {0},
           NEW rows \in Seq(X), NEW f, PickedAt(rows, T, A, f), NEW long, long = ResampleBars(list, k)
    PROVE  Longer(long, rows, series, k)
<1> DEFINE B == BarsAt(bar, S)
<1>0. PickedAt(rows, T, A, f) OBVIOUS
<1>1. Apart(B) /\ S \subseteq Nat /\ list = ByTime(B)
  BY SecondBarsApart
<1>2. S = {Sec(T[i]) : i \in A} /\ \A s \in S : bar[s].ts = s BY DEF SecondBars
<1>3. (\A b \in B : b.ts \in S) /\ \A s \in S : \E b \in B : b.ts = s BY <1>2 DEF BarsAt
<1>4. (\A i \in DOMAIN list : list[i].ts \in S) /\ \A s \in S : \E i \in DOMAIN list : list[i].ts = s
  <2> HIDE DEF B
  <2>1. /\ list \in Seq(B)
        /\ \A b \in B : \E i \in DOMAIN list : list[i] = b
        /\ \A i, j \in DOMAIN list : i < j => list[i].ts < list[j].ts
    BY <1>1, ByTimeFacts
  <2>2. \A i \in DOMAIN list : list[i] \in B BY <2>1
  <2>3. ASSUME NEW s \in S PROVE \E i \in DOMAIN list : list[i].ts = s
    <3>1. PICK b \in B : b.ts = s BY <1>3
    <3> QED BY <2>1, <3>1
  <2> QED BY <1>3, <2>2, <2>3
<1> HIDE DEF B
<1>5. Secs(rows) = S
  <2>1. \A j \in DOMAIN rows : f[j] \in A /\ rows[j] = T[f[j]] BY DEF PickedAt
  <2>2. \A i \in A : \E j \in DOMAIN rows : rows[j] = T[i] BY DEF PickedAt
  <2> QED BY <1>2, <2>1, <2>2 DEF Secs
<1> DEFINE Part(w) == PartOf(list, k, w)
<1>6. long = {WindowOf(Selected(list, Part(w)), w * k) : w \in {list[i].ts \div k : i \in DOMAIN list}}
  BY DEF ResampleBars, PartOf
<1>7. ASSUME NEW r \in DOMAIN list
      PROVE  LET c == WindowOf(Selected(list, Part(list[r].ts \div k)), (list[r].ts \div k) * k)
             IN  c.ts = k * (list[r].ts \div k) /\ WindowIs(c, rows, series, k)
  <2> DEFINE w == list[r].ts \div k
  <2> DEFINE M == InWindow(T, A, k, w)
  <2> DEFINE c == WindowOf(Selected(list, Part(w)), w * k)
  <2>1. w \in Nat /\ w * k = k * w
    <3>1. list[r].ts \in Nat BY <1>1, <1>4
    <3>2. w \in Nat BY <3>1, Divided
    <3> QED BY <3>2
  <2>2. /\ M # {} /\ Tells(c, T, M)
        /\ c.ts = w * k /\ c.series = series
        /\ c.mask \subseteq IF series = Agg THEN {T[i].venue : i \in M} ELSE {}
    <3>1. w = list[r].ts \div k OBVIOUS
    <3>2. M = InWindow(T, A, k, w) OBVIOUS
    <3>3. c = WindowOf(Selected(list, PartOf(list, k, w)), w * k) OBVIOUS
    <3> HIDE DEF w, M, c
    <3>4. WindowSays(c, T, M, w * k, series) BY <3>1, <3>2, <3>3, OneWindow
    <3> QED BY <3>4 DEF WindowSays
  <2> DEFINE J == {j \in DOMAIN rows : k * (Sec(rows[j]) \div k) = c.ts}
  <2> DEFINE q == Selected(rows, J)
  <2> DEFINE ref == BarOf(q, c.ts, series, c.stamp)
  <2>3. \A j \in DOMAIN rows : f[j] \in A /\ rows[j] = T[f[j]] BY DEF PickedAt
  <2>4. \A i \in A : \E j \in DOMAIN rows : f[j] = i BY DEF PickedAt
  <2>5. \A j \in DOMAIN rows : j \in J <=> f[j] \in M
    <3> TAKE j \in DOMAIN rows
    <3>1. Sec(rows[j]) = Sec(T[f[j]]) /\ f[j] \in A BY <2>3
    <3>2. Sec(rows[j]) \in Nat BY <1>1, <1>2, <3>1
    <3> DEFINE u == Sec(rows[j]) \div k
    <3>3. u \in Nat BY <3>2, Divided
    <3>4. j \in J <=> k * u = w * k BY <2>2
    <3>5. f[j] \in M <=> u = w BY <3>1 DEF InWindow
    <3> HIDE DEF u, w
    <3>6. k * u = w * k <=> u = w BY <2>1, <3>3
    <3> QED BY <3>4, <3>5, <3>6
  <2>6. J \in SUBSET DOMAIN rows /\ M \in SUBSET DOMAIN T BY DEF InWindow
  <2>7. M = {f[j] : j \in J}
    <3>1. \A i \in M : i \in A BY DEF InWindow
    <3> HIDE DEF J, M
    <3> QED BY <2>3, <2>4, <2>5, <2>6, <3>1
  <2> SUFFICES c.ts = k * w /\ WindowIs(c, rows, series, k) OBVIOUS
  <2>8. WindowIs(c, rows, series, k) <=> c = Masked(ref, c.mask) /\ c.mask \subseteq ref.mask
    BY DEF WindowIs, Masked
  <2>9. c = Like(c, c.ts, c.series, c.stamp, c.mask)
    <3>1. c = WindowOf(Selected(list, Part(w)), w * k) OBVIOUS
    <3> HIDE DEF c, Part
    <3> QED BY <3>1, WindowShape
  <2> HIDE DEF c, J, M, w
  <2>10. q \in Seq(X) /\ \E g : PickedAt(q, rows, J, g) BY <2>6, SelectedFacts
  <2> HIDE DEF q
  <2>11. PICK g : PickedAt(q, rows, J, g) BY <2>10
  <2> DEFINE h == [l \in DOMAIN q |-> f[g[l]]]
  <2>12. PickedAt(q, T, M, h)
    <3>1. PickedAt(q, T, Image(f, J), Through(q, f, g)) BY <2>6, <2>11, PickedThrough
    <3> QED BY <2>7, <3>1 DEF Image, Through
  <2>13. q # <<>>
    <3>1. PICK i \in M : TRUE BY <2>2
    <3>2. \E l \in DOMAIN q : h[l] = i BY <2>12 DEF PickedAt
    <3> QED BY <3>2
  <2> HIDE DEF h
  <2>14. Tells(ref, T, M) /\ ref.mask = IF series = Agg THEN {T[i].venue : i \in M} ELSE {}
    BY <2>6, <2>10, <2>12, <2>13, BarTells
  <2>15. Masked(ref, c.mask) = Like(ref, c.ts, series, c.stamp, c.mask)
    BY BarShape
  <2> HIDE DEF ref
  <2>16. /\ c.open = ref.open /\ c.close = ref.close /\ c.high = ref.high /\ c.low = ref.low
         /\ c.volume = ref.volume /\ c.pxv = ref.pxv /\ c.trades = ref.trades
    BY <2>2, <2>6, <2>14, ToldOnce
  <2>17. c = Masked(ref, c.mask)
    <3>1. c.series = series BY <2>2
    <3>2. Like(c, c.ts, c.series, c.stamp, c.mask) = Like(ref, c.ts, series, c.stamp, c.mask)
      BY <2>16, <3>1 DEF Like
    <3> QED BY <2>9, <2>15, <3>2
  <2> QED BY <2>1, <2>2, <2>8, <2>14, <2>17
<1> HIDE DEF Part
<1>8. ASSUME NEW b \in long
      PROVE  \E r \in DOMAIN list : b.ts = k * (list[r].ts \div k) /\ WindowIs(b, rows, series, k)
  <2>1. PICK r \in DOMAIN list : b = WindowOf(Selected(list, Part(list[r].ts \div k)), (list[r].ts \div k) * k)
    BY <1>6
  <2> QED BY <1>7, <2>1
<1>9. ASSUME NEW x \in S PROVE \E b \in long : b.ts = k * (x \div k)
  <2>1. PICK r \in DOMAIN list : list[r].ts = x BY <1>4
  <2> DEFINE b == WindowOf(Selected(list, Part(list[r].ts \div k)), (list[r].ts \div k) * k)
  <2>2. b \in long BY <1>6
  <2>3. b.ts = k * (x \div k) BY <1>7, <2>1
  <2> QED BY <2>2, <2>3
<1>10. {b.ts : b \in long} = {k * (x \div k) : x \in S}
  <2>1. \A b \in long : \E x \in S : b.ts = k * (x \div k) BY <1>4, <1>8
  <2>2. \A x \in S : \E b \in long : b.ts = k * (x \div k) BY <1>9
  <2> QED BY <2>1, <2>2
<1> QED BY <1>5, <1>8, <1>10 DEF Longer

-----------------------------------------------------------------------------
(* The invariant of the store                                             *)

Building == {"make", "write", "write_agg", "log"}

\* What every bar has, from its making on.
Fields == {"ts", "series", "stamp"}

\* The bars in hand were made by this build, and will be written next.
HandMade ==
    /\ hand # {} => job.at \in {"write", "write_agg"}
    /\ \A b \in hand : /\ Fields \subseteq DOMAIN b
                       /\ b.series \in Venues \cup {Agg}
                       /\ b.stamp \in read.at .. clock

\* There is room for the next build.  The build that runs has read before and is not
\* in the log.
InBuild ==
    /\ read.at \in 0 .. clock
    /\ job.at \in {"backfill", "collect"} => builds < MaxBuilds
    /\ job.at \in Building => builds # 0 /\ Now \notin DOMAIN log

IInv == TypeOK /\ HandMade /\ InBuild /\ BuildsAreLogged

LEMMA WrittenFacts ==
    ASSUME NEW b \in hand, NEW c, c = [f \in DOMAIN b \cup {"build"} |-> IF f = "build" THEN Now ELSE b[f]],
           Fields \subseteq DOMAIN b
    PROVE  c.build = Now /\ c.series = b.series /\ c.stamp = b.stamp /\ c.ts = b.ts
BY DEF Fields

LEMMA Numbers ==
    /\ Venues \subseteq Nat /\ IsFiniteSet(Venues) /\ Agg \notin Venues
    /\ MaxClock \in Nat /\ MaxBuilds \in Nat
    /\ \A t \in Feed : t.venue \in Venues
BY BarsAssumption, StoreAssumption DEF Agg

LEMMA FeedTrades == Trades(Feed)
BY StoreAssumption DEF Trades

LEMMA StoreType ==
    ASSUME TypeOK, NEW t \in Feed, Store(t)
    PROVE  raw' \in [Venues -> Seq(Feed)]
<1>1. t.venue \in Venues BY Numbers
<1>2. raw[t.venue] \in Seq(Feed) BY <1>1 DEF TypeOK
<1>3. <<t>> \o raw[t.venue] \in Seq(Feed) /\ Append(raw[t.venue], t) \in Seq(Feed) BY <1>2
<1>4. \E rows \in Seq(Feed) : raw' = [raw EXCEPT ![t.venue] = rows] BY <1>3 DEF Store
<1> QED BY <1>4 DEF TypeOK

-----------------------------------------------------------------------------
(* The steps of a job between its reads and its writes.                    *)

JobTypes ==
    [kind : {"none", "bars", "dataset", "validate"},
     at : {"idle", "backfill", "collect", "make", "write", "write_agg", "log",
           "score", "manifest", "raised"},
     hurt : BOOLEAN]

LEMMA UnloggedFinite ==
    ASSUME TypeOK
    PROVE  IsFiniteSet(Unlogged) /\ Cardinality(Unlogged) \in Nat /\ faults \in Nat
<1>1. builds \in Nat BY Numbers DEF TypeOK
<1>2. Unlogged \subseteq 1 .. builds BY DEF Unlogged
<1>3. IsFiniteSet(1 .. builds) BY <1>1, FS_Interval
<1>4. IsFiniteSet(Unlogged) BY <1>2, <1>3, FS_Subset
<1> QED BY <1>4, FS_CardinalityType DEF TypeOK

LEMMA InitIInv == Init => IInv
<1> SUFFICES ASSUME Init PROVE IInv
  OBVIOUS
<1>1. raw \in [Venues -> Seq(Feed)] BY DEF Init
<1>2. DOMAIN log = {} BY DEF Init
<1>3. TypeOK BY <1>1, <1>2, Numbers DEF Init, TypeOK, NoJob
<1>4. Unlogged = {} BY DEF Init, Unlogged
<1>5. BuildsAreLogged BY <1>2, <1>4, FS_EmptySet DEF Init, BuildsAreLogged
<1> QED BY <1>3, <1>5, Numbers DEF IInv, Init, HandMade, InBuild, Building, Nothing, NoJob

\* What a step that leaves bars, hand and log alone has to keep.
LEMMA Quiet ==
    ASSUME IInv, TypeOK', UNCHANGED <<bars, hand, log, clock>>,
           hand = {} \/ job' = job,
           read'.at \in 0 .. clock, hand = {} \/ read' = read,
           torn' = {} => torn = {}, faults' >= faults,
           job'.at \in {"backfill", "collect"} => builds' < MaxBuilds,
           builds' = builds,
           job'.at \in Building <=> job.at \in Building
    PROVE  IInv'
<1>0. TypeOK BY DEF IInv
<1>1. HandMade' BY DEF IInv, HandMade
<1>2. InBuild' BY DEF IInv, InBuild, Now
<1>3. Unlogged' = Unlogged BY DEF Unlogged, Building, Now
<1>4. BuildsAreLogged'
  <2>1. faults \in Nat /\ faults' \in Nat /\ Cardinality(Unlogged) \in Nat BY <1>0, UnloggedFinite DEF TypeOK
  <2> QED BY <1>3, <2>1 DEF IInv, BuildsAreLogged
<1> QED BY <1>1, <1>2, <1>4 DEF IInv

LEMMA GotoFacts ==
    ASSUME TypeOK, NEW step, Goto(step),
           step \in {"idle", "backfill", "collect", "make", "write", "write_agg", "log",
                     "score", "manifest", "raised"}
    PROVE  job' \in JobTypes /\ job'.at = step
BY DEF TypeOK, JobTypes, Goto

LEMMA FinishFacts ==
    ASSUME Finish
    PROVE  job' \in JobTypes /\ job'.at = "idle" /\ read' = Nothing
BY DEF Finish, NoJob, JobTypes

LEMMA RaiseFacts ==
    ASSUME TypeOK, Raise
    PROVE  job' \in JobTypes /\ job'.at = "raised" /\ job'.hurt /\ todo' = {} /\ hand' = {}
BY DEF TypeOK, Raise, JobTypes

LEMMA FaultFacts ==
    ASSUME TypeOK, Fault \/ NoFault
    PROVE  faults' \in Nat /\ faults' >= faults
BY DEF TypeOK, Fault, NoFault

\* Where a job is before and after the steps that only read or move on.
LEMMA QuietSteps ==
    ASSUME IInv, \/ Arrive \/ StartBuild \/ StartDataset \/ InitDbRaises \/ StartValidate
                 \/ Backfill \/ BackfillFails \/ BackfillDone \/ CollectRaises
                 \/ WriteDailyQuality \/ NothingScored \/ ScoreRaises \/ ConnectRaises
                 \/ WriteManifest \/ ManifestRaises \/ Exit
    PROVE  IInv'
<1>0. TypeOK BY DEF IInv
<1>1. Nothing.at = 0 /\ clock \in Nat /\ faults \in Nat BY Numbers DEF Nothing, IInv, TypeOK
<1>2. CASE Arrive
  <2>1. raw' \in [Venues -> Seq(Feed)] BY <1>0, <1>2, StoreType DEF Arrive
  <2>2. TypeOK' BY <1>0, <1>2, <2>1 DEF Arrive, TypeOK
  <2> QED BY <1>1, <1>2, <2>2, Quiet DEF Arrive, IInv, InBuild
<1>3. CASE StartBuild \/ StartDataset \/ InitDbRaises \/ StartValidate
  <2>0. job' \in JobTypes /\ todo' \subseteq Venues
    <3>1. CASE StartBuild BY <1>0, <3>1 DEF StartBuild, Begin, TypeOK, JobTypes
    <3>2. CASE StartDataset BY <1>0, <3>2 DEF StartDataset, Begin, TypeOK, JobTypes
    <3>3. CASE InitDbRaises BY <1>0, <3>3 DEF InitDbRaises, TypeOK, JobTypes
    <3>4. CASE StartValidate BY <1>0, <3>4 DEF StartValidate, Begin, TypeOK, JobTypes
    <3> QED BY <1>3, <3>1, <3>2, <3>3, <3>4
  <2>1. TypeOK' BY <1>0, <1>3, <2>0 DEF StartBuild, StartDataset, InitDbRaises, StartValidate, TypeOK, JobTypes
  <2>2. job.at = "idle" /\ job'.at \in {"collect", "backfill", "score", "raised"}
    BY <1>3 DEF StartBuild, StartDataset, InitDbRaises, StartValidate, Begin, Idle
  <2>3. hand = {} BY <2>2 DEF IInv, HandMade
  <2>4. job'.at \in {"backfill", "collect"} => builds < MaxBuilds
    BY <1>3 DEF StartBuild, StartDataset, InitDbRaises, StartValidate, Begin
  <2>5. UNCHANGED <<bars, hand, read, log, builds, clock, torn, faults>>
    BY <1>3 DEF StartBuild, StartDataset, InitDbRaises, StartValidate
  <2> QED BY <1>1, <2>1, <2>2, <2>3, <2>4, <2>5, Quiet DEF IInv, InBuild, Building
<1>4. CASE Backfill
  <2>1. PICK v \in todo, t \in Feed : Store(t) /\ todo' = todo \ {v} BY <1>4 DEF Backfill
  <2>2. raw' \in [Venues -> Seq(Feed)] BY <1>0, <2>1, StoreType
  <2>3. TypeOK' BY <1>0, <1>4, <2>1, <2>2 DEF Backfill, TypeOK
  <2> QED BY <1>1, <1>4, <2>3, Quiet DEF Backfill, IInv, InBuild
<1>5. CASE BackfillFails \/ BackfillDone
  <2>1. job' \in JobTypes /\ job'.at \in {"backfill", "collect"}
    <3>1. CASE BackfillFails BY <1>0, <3>1 DEF BackfillFails, At, TypeOK, JobTypes
    <3>2. CASE BackfillDone BY <1>0, <3>2, GotoFacts DEF BackfillDone
    <3> QED BY <1>5, <3>1, <3>2
  <2>2. TypeOK' BY <1>0, <1>5, <2>1 DEF BackfillFails, BackfillDone, TypeOK, JobTypes
  <2>3. job.at = "backfill" BY <1>5 DEF BackfillFails, BackfillDone, At
  <2>4. hand = {} BY <2>3 DEF IInv, HandMade
  <2> QED BY <1>1, <1>5, <2>1, <2>2, <2>3, <2>4, Quiet DEF BackfillFails, BackfillDone, IInv, InBuild, Building
<1>6. CASE \/ CollectRaises \/ WriteDailyQuality \/ NothingScored \/ ScoreRaises \/ ConnectRaises
           \/ WriteManifest \/ ManifestRaises \/ Exit
  <2>0. job.at \in {"collect", "score", "manifest", "raised"}
    BY <1>6 DEF CollectRaises, WriteDailyQuality, NothingScored, ScoreRaises, ConnectRaises,
                WriteManifest, ManifestRaises, Exit, At
  <2>1. hand = {} BY <2>0 DEF IInv, HandMade
  <2>2. CASE CollectRaises \/ ConnectRaises \/ ManifestRaises
    <3>1. Raise /\ UNCHANGED <<raw, bars, read, builds, log, cards, clock, torn>> /\ (Fault \/ NoFault)
      BY <2>2 DEF CollectRaises, ConnectRaises, ManifestRaises
    <3>2. job' \in JobTypes /\ job'.at = "raised" /\ todo' = {} /\ hand' = {} BY <1>0, <3>1, RaiseFacts
    <3>3. faults' \in Nat /\ faults' >= faults BY <1>0, <3>1, FaultFacts
    <3>4. TypeOK' BY <1>0, <3>1, <3>2, <3>3 DEF TypeOK, JobTypes
    <3> QED BY <2>0, <2>1, <3>1, <3>2, <3>3, <3>4, Quiet DEF IInv, InBuild, Building
  <2>3. CASE WriteDailyQuality \/ NothingScored \/ ScoreRaises \/ WriteManifest \/ Exit
    <3>1. /\ job' \in JobTypes /\ job'.at \in {"idle", "manifest", "raised"}
          /\ read' = read \/ read' = Nothing
      <4>1. CASE WriteDailyQuality \/ NothingScored
        BY <1>0, <4>1, GotoFacts, FinishFacts DEF WriteDailyQuality, NothingScored, Leave
      <4>2. CASE ScoreRaises BY <1>0, <4>2, GotoFacts DEF ScoreRaises
      <4>3. CASE WriteManifest \/ Exit BY <4>3, FinishFacts DEF WriteManifest, Exit
      <4> QED BY <2>3, <4>1, <4>2, <4>3
    <3>2. UNCHANGED <<raw, bars, hand, todo, builds, log, clock, torn>> /\ DOMAIN cards' = DOMAIN cards
      BY <2>3 DEF WriteDailyQuality, NothingScored, ScoreRaises, WriteManifest, Exit, Cards
    <3>3. Fault \/ NoFault
      BY <2>3 DEF WriteDailyQuality, NothingScored, ScoreRaises, WriteManifest, Exit, NoFault
    <3>4. faults' \in Nat /\ faults' >= faults BY <1>0, <3>3, FaultFacts
    <3>5. TypeOK' BY <1>0, <3>1, <3>2, <3>4 DEF TypeOK, JobTypes
    <3>6. read'.at \in 0 .. clock BY <1>1, <3>1 DEF IInv, InBuild
    <3> QED BY <2>0, <2>1, <3>1, <3>2, <3>4, <3>5, <3>6, Quiet DEF IInv, InBuild, Building
  <2> QED BY <1>6, <2>2, <2>3
<1> QED BY <1>2, <1>3, <1>4, <1>5, <1>6
LEMMA BarOfFacts ==
    ASSUME NEW rows, NEW at, NEW series, NEW now, NEW b, b = BarOf(rows, at, series, now)
    PROVE  Fields \subseteq DOMAIN b /\ b.ts = at /\ b.series = series /\ b.stamp = now
BY DEF BarOf, Fields
LEMMA MadeFacts ==
    ASSUME NEW rows, NEW series, NEW now, NEW b \in BarsFromTrades(rows, series, now)
    PROVE  Fields \subseteq DOMAIN b /\ b.stamp = now /\ b.series = series
<1>1. PICK part : b = BarOf(part, Sec(Head(part)), series, now) BY DEF BarsFromTrades
<1> QED BY <1>1, BarOfFacts

LEMMA MadeAggFacts ==
    ASSUME NEW tape, NEW now, NEW b \in BuildAggBars(tape, now)
    PROVE  Fields \subseteq DOMAIN b /\ b.stamp = now /\ b.series = Agg
<1>1. PICK part : b = BarOf(part, Sec(Head(part)), Agg, now) BY DEF BuildAggBars
<1> QED BY <1>1, BarOfFacts

LEMMA TickStep == ASSUME IInv, Tick PROVE IInv'
<1>1. UNCHANGED <<raw, bars, job, todo, hand, read, builds, log, cards, torn, faults>>
      /\ clock \in Nat /\ clock' = clock + 1 /\ clock' \in 0 .. MaxClock
  BY Numbers DEF Tick, IInv, TypeOK
<1>2. TypeOK' BY <1>1 DEF IInv, TypeOK
<1>3. HandMade' BY <1>1 DEF IInv, HandMade, InBuild
<1>4. InBuild' BY <1>1 DEF IInv, InBuild, Now
<1>5. BuildsAreLogged' BY <1>1 DEF IInv, BuildsAreLogged, Unlogged, Now
<1> QED BY <1>2, <1>3, <1>4, <1>5 DEF IInv

LEMMA CollectStep == ASSUME IInv, CollectTrades PROVE IInv'
<1>0. TypeOK /\ clock \in Nat /\ faults \in Nat BY Numbers DEF IInv, TypeOK
<1>1. /\ UNCHANGED <<raw, bars, hand, log, cards, clock, torn, faults>>
      /\ job.at = "collect" /\ hand = {}
  BY DEF CollectTrades, At, IInv, HandMade
<1>2. CASE \A v \in Venues : raw[v] = <<>>
  <2>1. /\ job' \in JobTypes /\ job'.at \in {"idle", "score"} /\ read' = Nothing
        /\ UNCHANGED <<todo, builds>>
    BY <1>0, <1>2, GotoFacts, FinishFacts DEF CollectTrades, Leave
  <2>2. TypeOK' BY <1>0, <1>1, <2>1 DEF TypeOK, JobTypes
  <2>3. read'.at = 0 BY <2>1 DEF Nothing
  <2> QED BY <1>0, <1>1, <2>1, <2>2, <2>3, Quiet DEF Building
<1>3. CASE ~(\A v \in Venues : raw[v] = <<>>)
  <2>1. /\ read'.at = clock /\ builds' = builds + 1 /\ todo' \subseteq Venues
        /\ job' \in JobTypes /\ job'.at = "make"
    BY <1>0, <1>3, GotoFacts DEF CollectTrades
  <2>0. builds \in Nat /\ builds < MaxBuilds /\ MaxBuilds \in Nat
    BY <1>0, <1>1, Numbers DEF TypeOK, IInv, InBuild
  <2>2. TypeOK' BY <1>0, <1>1, <2>0, <2>1 DEF TypeOK, JobTypes
  <2>3. HandMade' BY <1>1 DEF HandMade
  <2>4. InBuild' BY <1>0, <1>1, <2>0, <2>1 DEF InBuild, TypeOK, Now
  <2>5. Unlogged' = Unlogged BY <1>0, <1>1, <2>0, <2>1 DEF Unlogged, TypeOK, Now
  <2>6. BuildsAreLogged' BY <1>1, <2>5 DEF IInv, BuildsAreLogged
  <2> QED BY <2>2, <2>3, <2>4, <2>6 DEF IInv
<1> QED BY <1>2, <1>3
\* A build that has made bars has them in hand, and the rest is as it was.
LEMMA MakeStep == ASSUME IInv, MakeVenueBars \/ MakeAggBars PROVE IInv'
<1>0. TypeOK /\ clock \in Nat BY Numbers DEF IInv, TypeOK
<1>1. /\ UNCHANGED <<raw, bars, todo, read, builds, log, cards, clock, torn, faults>>
      /\ job.at = "make"
  BY DEF MakeVenueBars, MakeAggBars, At
<1>2. \A b \in hand' : Fields \subseteq DOMAIN b /\ b.stamp = clock /\ b.series \in Venues \cup {Agg}
  <2>1. CASE MakeVenueBars
    <3>1. todo \in SUBSET Nat /\ todo # {} /\ todo \subseteq Venues
      BY <1>0, <2>1, Numbers DEF TypeOK, MakeVenueBars
    <3>2. Min(todo) \in Venues BY <3>1, LeastExists
    <3>3. hand' = BarsFromTrades(read.rows[Min(todo)], Min(todo), clock) BY <2>1 DEF MakeVenueBars
    <3> QED BY <3>2, <3>3, MadeFacts
  <2>2. CASE MakeAggBars
    <3>1. PICK tape : hand' = BuildAggBars(tape, clock) BY <2>2 DEF MakeAggBars
    <3> QED BY <3>1, MadeAggFacts
  <2> QED BY <2>1, <2>2
<1>3. job' \in JobTypes /\ job'.at \in {"write", "write_agg"}
  BY <1>0, GotoFacts DEF MakeVenueBars, MakeAggBars
<1>4. TypeOK' BY <1>0, <1>1, <1>2, <1>3 DEF TypeOK, JobTypes
<1>5. HandMade' BY <1>0, <1>1, <1>2, <1>3 DEF IInv, HandMade, InBuild
<1>6. InBuild' BY <1>1, <1>3 DEF IInv, InBuild, Now, Building
<1>7. BuildsAreLogged' BY <1>1, <1>3 DEF IInv, BuildsAreLogged, Unlogged, Now
<1> QED BY <1>4, <1>5, <1>6, <1>7 DEF IInv

\* What is written belongs to the build that runs.
LEMMA NewBars ==
    ASSUME IInv
    PROVE  \A c \in Written : /\ c.build = Now /\ c.series \in Venues \cup {Agg}
                              /\ c.stamp \in read.at .. clock /\ read.at \in 0 .. clock
<1> TAKE c \in Written
<1>1. PICK b \in hand : c = [f \in DOMAIN b \cup {"build"} |-> IF f = "build" THEN Now ELSE b[f]]
  BY DEF Written
<1>2. Fields \subseteq DOMAIN b /\ b.series \in Venues \cup {Agg} /\ b.stamp \in read.at .. clock
  BY DEF IInv, HandMade
<1>3. c.build = Now /\ c.series = b.series /\ c.stamp = b.stamp BY <1>1, <1>2, WrittenFacts
<1> QED BY <1>2, <1>3 DEF IInv, InBuild

LEMMA WriteStep == ASSUME IInv, WriteVenueBars \/ WriteAggBars PROVE IInv'
<1>0. TypeOK /\ clock \in Nat BY Numbers DEF IInv, TypeOK
<1>1. /\ UNCHANGED <<raw, read, builds, log, cards, clock, torn, faults>>
      /\ job.at \in {"write", "write_agg"}
      /\ bars' = bars \cup Written /\ hand' = {} /\ todo' \subseteq Venues
  BY <1>0 DEF WriteVenueBars, WriteAggBars, At, TypeOK
<1>2. job' \in JobTypes /\ job'.at \in {"make", "log"}
  BY <1>0, GotoFacts DEF WriteVenueBars, WriteAggBars
<1>3. builds # 0 /\ builds \in Nat /\ Now \notin DOMAIN log
  BY <1>0, <1>1, Numbers DEF IInv, TypeOK, InBuild, Building
<1>4. \A c \in Written : c.build = Now /\ c.series \in Venues \cup {Agg} /\ c.stamp \in 0 .. clock
  BY <1>0, NewBars
<1>5. TypeOK' BY <1>0, <1>1, <1>2, <1>3, <1>4 DEF TypeOK, JobTypes, Now
<1>6. HandMade' BY <1>1 DEF HandMade
<1>7. InBuild' BY <1>1, <1>2 DEF IInv, InBuild, Now, Building
<1>8. BuildsAreLogged'
  <2>1. Unlogged' = Unlogged BY <1>1, <1>2 DEF Unlogged, Now
  <2>2. ASSUME NEW n \in DOMAIN log
        PROVE  {b \in bars' : b.build = n} = {b \in bars : b.build = n}
    BY <1>1, <1>3, <1>4
  <2> QED BY <1>1, <2>1, <2>2 DEF IInv, BuildsAreLogged
<1> QED BY <1>5, <1>6, <1>7, <1>8 DEF IInv

LEMMA RecordStep == ASSUME IInv, RecordBuild PROVE IInv'
<1>0. TypeOK /\ clock \in Nat BY Numbers DEF IInv, TypeOK
<1>1. /\ UNCHANGED <<raw, bars, todo, hand, builds, cards, clock, torn, faults>>
      /\ job.at = "log" /\ hand = {}
  BY DEF RecordBuild, At, IInv, HandMade
<1>2. job' \in JobTypes /\ job'.at \in {"idle", "score"} /\ read' = Nothing
  BY <1>0, GotoFacts, FinishFacts DEF RecordBuild, Leave
<1>3. /\ DOMAIN log' = DOMAIN log \cup {Now}
      /\ log'[Now] = Cardinality({b \in bars : b.build = Now})
      /\ \A n \in DOMAIN log : n # Now => log'[n] = log[n]
  BY DEF RecordBuild, RowsAffected
<1>4. builds # 0 /\ builds \in Nat BY <1>0, <1>1, Numbers DEF IInv, TypeOK, InBuild, Building
<1>5. TypeOK' BY <1>0, <1>1, <1>2, <1>3, <1>4 DEF TypeOK, JobTypes, Now
<1>6. HandMade' BY <1>1 DEF HandMade
<1>7. InBuild' BY <1>0, <1>1, <1>2 DEF InBuild, Building, Nothing
<1>8. BuildsAreLogged'
  <2>1. Unlogged' = Unlogged BY <1>1, <1>2, <1>3 DEF Unlogged, Now
  <2>2. ASSUME NEW n \in DOMAIN log' PROVE log'[n] = Cardinality({b \in bars : b.build = n})
    <3>1. CASE n = Now BY <1>3, <3>1
    <3>2. CASE n # Now BY <1>3, <3>2 DEF IInv, BuildsAreLogged
    <3> QED BY <3>1, <3>2
  <2> QED BY <1>1, <2>1, <2>2 DEF IInv, BuildsAreLogged
<1> QED BY <1>5, <1>6, <1>7, <1>8 DEF IInv

\* A step that ends a job: its build is unlogged, for which there is a failure or a
\* torn part.
LEMMA Ended ==
    ASSUME IInv, TypeOK', UNCHANGED <<bars, builds, log, clock>>, hand' = {},
           read'.at \in 0 .. clock, job'.at \in {"idle", "raised"},
           torn' = {} => torn = {} /\ faults' = faults + 1
    PROVE  IInv'
<1>0. TypeOK BY DEF IInv
<1>1. HandMade' BY DEF HandMade
<1>2. InBuild' BY DEF InBuild, Building
<1>3. Unlogged' \subseteq Unlogged \cup {Now} BY DEF Unlogged, Now
<1>4. torn' = {} => Cardinality(Unlogged') <= faults'
  <2>1. SUFFICES ASSUME torn' = {} PROVE Cardinality(Unlogged') <= faults'
    OBVIOUS
  <2>2. IsFiniteSet(Unlogged) /\ Cardinality(Unlogged) \in Nat /\ faults \in Nat BY <1>0, UnloggedFinite
  <2>3. /\ IsFiniteSet(Unlogged \cup {Now}) /\ Cardinality(Unlogged \cup {Now}) \in Nat
        /\ Cardinality(Unlogged \cup {Now}) <= Cardinality(Unlogged) + 1
    <3> DEFINE U == Unlogged
    <3> HIDE DEF U
    <3>1. IsFiniteSet(U \cup {Now}) /\ Cardinality(U \cup {Now}) \in {Cardinality(U), Cardinality(U) + 1}
      BY <2>2, FS_AddElement DEF U
    <3>2. Cardinality(U) \in Nat /\ Cardinality(U \cup {Now}) \in Nat BY <2>2, <3>1 DEF U
    <3> QED BY <3>1, <3>2 DEF U
  <2>4. Cardinality(Unlogged') <= Cardinality(Unlogged \cup {Now}) /\ Cardinality(Unlogged') \in Nat
    BY <1>3, <2>3, FS_Subset, FS_CardinalityType
  <2>5. Cardinality(Unlogged) <= faults BY <2>1 DEF IInv, BuildsAreLogged
  <2> QED BY <2>1, <2>2, <2>3, <2>4, <2>5
<1>5. BuildsAreLogged' BY <1>4 DEF IInv, BuildsAreLogged
<1> QED BY <1>1, <1>2, <1>5 DEF IInv

LEMMA EndStep == ASSUME IInv, Kill \/ WriteRaises \/ RecordRaises PROVE IInv'
<1>0. TypeOK /\ clock \in Nat BY Numbers DEF IInv, TypeOK
<1>1. CASE Kill
  <2>1. /\ UNCHANGED <<raw, bars, builds, log, cards, clock>> /\ todo' = {} /\ hand' = {}
        /\ torn' \in {torn} \cup {torn \cup {table} : table \in Writing} /\ faults' = faults + 1
    BY <1>1 DEF Kill, Fault
  <2>2. job' \in JobTypes /\ job'.at = "idle" /\ read' = Nothing BY <1>1, FinishFacts DEF Kill
  <2>3. torn' \subseteq {"trades", "bars"} BY <1>0, <2>1 DEF TypeOK, Writing
  <2>4. torn \subseteq torn' BY <2>1
  <2>5. TypeOK' BY <1>0, <2>1, <2>2, <2>3 DEF TypeOK, JobTypes
  <2>6. read'.at \in 0 .. clock BY <1>0, <2>2 DEF Nothing
  <2> QED BY <2>1, <2>2, <2>4, <2>5, <2>6, Ended
<1>2. CASE WriteRaises \/ RecordRaises
  <2>1. /\ Raise /\ UNCHANGED <<raw, bars, read, builds, log, cards, clock, torn>>
        /\ Fault \/ NoFault
        /\ torn' = {} => Fault
    BY <1>2 DEF WriteRaises, RecordRaises
  <2>2. job' \in JobTypes /\ job'.at = "raised" /\ todo' = {} /\ hand' = {} BY <1>0, <2>1, RaiseFacts
  <2>3. faults' \in Nat BY <1>0, <2>1, FaultFacts
  <2>4. TypeOK' BY <1>0, <2>1, <2>2, <2>3 DEF TypeOK, JobTypes
  <2>5. torn' = {} => faults' = faults + 1 BY <2>1 DEF Fault
  <2>6. read'.at \in 0 .. clock BY <2>1 DEF IInv, InBuild
  <2> QED BY <2>1, <2>2, <2>4, <2>5, <2>6, Ended
<1> QED BY <1>1, <1>2

LEMMA NextKeepsIInv == IInv /\ [Next]_vars => IInv'
<1> SUFFICES ASSUME IInv, [Next]_vars PROVE IInv'
  OBVIOUS
<1>1. CASE UNCHANGED vars
  <2>1. UNCHANGED <<raw, bars, job, todo, hand, read, builds, log, cards, clock, torn, faults>>
    BY <1>1 DEF vars
  <2> QED BY <2>1 DEF IInv, TypeOK, HandMade, InBuild, BuildsAreLogged, Unlogged, Now
<1>2. CASE Next
  BY <1>2, QuietSteps, TickStep, CollectStep, MakeStep, WriteStep, RecordStep, EndStep DEF Next
<1> QED BY <1>1, <1>2

-----------------------------------------------------------------------------
(* Builds and reads                                                        *)

\* The rows, the job, the bars and the log keep their types; stamps are of times
\* that have been (scripts/build_bars_1s.py:61-109).
THEOREM TypeCorrect == Spec => []TypeOK
<1>1. IInv => TypeOK BY DEF IInv
<1> QED BY <1>1, InitIInv, NextKeepsIInv, PTL DEF Spec

\* Unless a torn part keeps DuckDB from opening, at most one build for each failure
\* or kill is not in the corrections log, and the others are there with the number of
\* their bars (scripts/build_bars_1s.py:102-108).
THEOREM BuildsLogged == Spec => []BuildsAreLogged
<1>1. IInv => BuildsAreLogged BY DEF IInv
<1> QED BY <1>1, InitIInv, NextKeepsIInv, PTL DEF Spec

LEMMA OnlyLaterBars ==
    ASSUME IInv, [Next]_vars, NEW a \in 0 .. clock, AsOf(a)' # AsOf(a)
    PROVE  read.at <= a
<1>0. clock \in Nat BY Numbers DEF IInv, TypeOK
<1>1. CASE bars' = bars BY <1>1 DEF AsOf
<1>2. CASE bars' = bars \cup Written
  <2>1. PICK c \in Written : c.stamp <= a BY <1>2 DEF AsOf
  <2> QED BY <1>0, <2>1, NewBars
<1>3. bars' = bars \/ bars' = bars \cup Written
  BY DEF Next, vars, Arrive, Tick, StartBuild, StartDataset, InitDbRaises, StartValidate, Backfill, BackfillFails,
         BackfillDone, CollectTrades, CollectRaises, MakeVenueBars, WriteVenueBars, MakeAggBars, WriteAggBars,
         WriteRaises, RecordBuild, RecordRaises, WriteDailyQuality, NothingScored, ScoreRaises, ConnectRaises,
         WriteManifest, ManifestRaises, Exit, Kill
<1> QED BY <1>1, <1>2, <1>3

\* What a read as of an instant returns is changed by no build that began later
\* (query/bars.py:60-62).
THEOREM AsOfReadsSettle == Spec => AsOfSettles
<1>1. IInv /\ [Next]_vars => [\A a \in 0 .. clock : AsOf(a)' # AsOf(a) => read.at <= a]_vars
  BY OnlyLaterBars
<1> QED BY <1>1, InitIInv, NextKeepsIInv, PTL DEF Spec, AsOfSettles
-----------------------------------------------------------------------------
(* Grades                                                                  *)

VenueBars(B) == {b \in B : b.series # Agg}

\* The bars of venues are finitely many, because the rows of a read are.
FiniteBars ==
    /\ IsFiniteSet(VenueBars(bars)) /\ IsFiniteSet(VenueBars(hand))
    /\ \A v \in Venues : IsFiniteSet(DOMAIN read.rows[v])

LEMMA FoundFinite ==
    ASSUME NEW T, IsFiniteSet(T)
    PROVE  IsFiniteSet(Found(T))
<1> DEFINE U == {x \in T : x[3]}
<1> DEFINE f == [r \in U |-> [check |-> r[1], severity |-> r[2]]]
<1>1. IsFiniteSet(U) BY FS_Subset
<1>2. f \in Surjection(U, Found(T)) BY DEF Surjection, Found
<1> HIDE DEF U, f
<1> QED BY <1>1, <1>2, FS_Surjection

LEMMA SmallTables ==
    /\ \A a : IsFiniteSet({a})
    /\ \A a, b, c, d : IsFiniteSet({a, b, c, d})
    /\ \A a, b, c, d, e, f : IsFiniteSet({a, b, c, d, e, f})
<1>1. \A a : IsFiniteSet({a}) BY FS_Singleton
<1>2. \A a, b : IsFiniteSet({a, b})
  <2> TAKE a, b
  <2>1. IsFiniteSet({a} \cup {b}) BY <1>1, FS_AddElement
  <2>2. {a, b} = {a} \cup {b} OBVIOUS
  <2> QED BY <2>1, <2>2
<1>3. \A a, b, c, d : IsFiniteSet({a, b, c, d})
  <2> TAKE a, b, c, d
  <2>1. IsFiniteSet({a, b} \cup {c, d}) BY <1>2, FS_Union
  <2>2. {a, b, c, d} = {a, b} \cup {c, d} OBVIOUS
  <2> QED BY <2>1, <2>2
<1>4. \A a, b, c, d, e, f : IsFiniteSet({a, b, c, d, e, f})
  <2> TAKE a, b, c, d, e, f
  <2>1. IsFiniteSet({a, b, c, d} \cup {e, f}) BY <1>2, <1>3, FS_Union
  <2>2. {a, b, c, d, e, f} = {a, b, c, d} \cup {e, f} OBVIOUS
  <2> QED BY <2>1, <2>2
<1> QED BY <1>1, <1>3, <1>4

LEMMA Tables ==
    /\ IsFiniteSet({})
    /\ \A a : IsFiniteSet(Found({a}))
    /\ \A a, b, c, d : IsFiniteSet(Found({a, b, c, d}))
    /\ \A a, b, c, d, e, f : IsFiniteSet(Found({a, b, c, d, e, f}))
BY SmallTables, FoundFinite, FS_EmptySet

LEMMA ChecksFinite ==
    ASSUME NEW B, NEW rows, NEW others, NEW venues
    PROVE  IsFiniteSet(RunChecks(B, rows, others, venues))
<1>1. IsFiniteSet(CheckBarOhlc(B)) BY Tables, ZenonT(60) DEF CheckBarOhlc
<1>2. IsFiniteSet(CheckBarTimestamps(B)) BY Tables, Zenon DEF CheckBarTimestamps
<1>3. IsFiniteSet(CheckBarGaps(B)) BY Tables, Zenon DEF CheckBarGaps
<1>4. IsFiniteSet(CheckFlatline(B)) BY Tables, Zenon DEF CheckFlatline
<1>5. IsFiniteSet(CheckTrades(rows)) BY Tables, Zenon DEF CheckTrades
<1>6. IsFiniteSet(CheckAggWithinVenueRange(B, others, venues)) BY Tables, Zenon DEF CheckAggWithinVenueRange
<1>7. IsFiniteSet(CheckDispersion(others)) BY Tables, Zenon DEF CheckDispersion
<1> QED BY <1>1, <1>2, <1>3, <1>4, <1>5, <1>6, <1>7, FS_Union DEF RunChecks
\* One major issue takes ten of at most a hundred.
LEMMA MajorIsNoA ==
    ASSUME NEW issues, IsFiniteSet(issues), NEW i \in issues, i.severity = "major",
           NEW base \in Int, base <= 100
    PROVE  GradeFor(ScoreOf(base, issues)) # "A"
<1> DEFINE n(s) == Cardinality({j \in issues : j.severity = s})
<1>1. \A s : n(s) \in Nat BY FS_Subset, FS_CardinalityType
<1>2. n("major") >= 1
  <2> DEFINE M == {j \in issues : j.severity = "major"}
  <2>1. IsFiniteSet(M) /\ i \in M BY FS_Subset
  <2> HIDE DEF M
  <2>2. Cardinality(M) \in Nat /\ Cardinality(M) # 0 BY <2>1, FS_CardinalityType, FS_EmptySet
  <2>3. n("major") = Cardinality(M) BY DEF M
  <2> QED BY <2>2, <2>3
<1> DEFINE score == base - (2 * n("minor") + 10 * n("major") + 30 * n("critical"))
<1>3. ScoreOf(base, issues) = Max({0, score}) BY DEF ScoreOf, Weight
<1> HIDE DEF n
<1>4. score \in Int /\ score <= 90 BY <1>1, <1>2
<1> HIDE DEF score
<1>5. \E x \in {0, score} : \A y \in {0, score} : x >= y
  <2>1. CASE score >= 0 BY <1>4, <2>1
  <2>2. CASE score < 0 BY <1>4, <2>2
  <2> QED BY <1>4, <2>1, <2>2
<1>6. Max({0, score}) \in {0, score} BY <1>5 DEF Max
<1> QED BY <1>3, <1>4, <1>6 DEF GradeFor

LEMMA CoverageAtMostAll ==
    ASSUME NEW B, NEW others, IsFiniteSet(others)
    PROVE  AggCoverageOfUnion(B, others) \in Int /\ AggCoverageOfUnion(B, others) <= 100
<1> DEFINE U == {b.ts : b \in others}
<1> DEFINE f == [b \in others |-> b.ts]
<1>1. f \in Surjection(others, U) BY DEF Surjection
<1> HIDE DEF U, f
<1>2. IsFiniteSet(U) BY <1>1, FS_Surjection
<1> DEFINE C == U \cap {b.ts : b \in B}
<1>3. Cardinality(C) \in Nat /\ Cardinality(U) \in Nat /\ Cardinality(C) <= Cardinality(U)
  BY <1>2, FS_Subset, FS_CardinalityType
<1>4. U # {} => Cardinality(U) # 0 BY <1>2, FS_EmptySet
<1>5. AggCoverageOfUnion(B, others) = IF U = {} THEN 100 ELSE (100 * Cardinality(C)) \div Cardinality(U)
  BY DEF AggCoverageOfUnion, U
<1> HIDE DEF C
<1>6. ASSUME NEW c \in Nat, NEW u \in Nat \ {0}, c <= u
      PROVE  (100 * c) \div u \in Int /\ (100 * c) \div u <= 100
  <2> DEFINE q == (100 * c) \div u
  <2>1. q \in Int /\ u * q <= 100 * c BY <1>6
  <2>2. u * q <= 100 * u BY <1>6, <2>1
  <2> HIDE DEF q
  <2>3. ~(q >= 101)
    <3> SUFFICES ASSUME q >= 101 PROVE FALSE
      OBVIOUS
    <3>1. u * q >= u * 101 BY <2>1
    <3> QED BY <2>1, <2>2, <3>1
  <2> QED BY <2>1, <2>3 DEF q
<1> QED BY <1>3, <1>4, <1>5, <1>6
LEMMA BarsFinite ==
    ASSUME NEW rows, IsFiniteSet(DOMAIN rows), NEW venue, NEW now
    PROVE  IsFiniteSet(BarsFromTrades(rows, venue, now))
<1> DEFINE Bar(part) == BarOf(part, Sec(Head(part)), venue, now)
<1> DEFINE f == [i \in DOMAIN rows |-> Bar(InSecond(rows, Sec(rows[i])))]
<1>1. BarsFromTrades(rows, venue, now) = {Bar(part) : part \in BySecond(rows)} BY DEF BarsFromTrades
<1>2. BySecond(rows) = {InSecond(rows, s) : s \in Secs(rows)} BY DEF BySecond
<1>3. Secs(rows) = {Sec(rows[i]) : i \in DOMAIN rows} BY DEF Secs
<1> HIDE DEF Bar
<1>4. f \in Surjection(DOMAIN rows, BarsFromTrades(rows, venue, now))
  BY <1>1, <1>2, <1>3 DEF Surjection
<1> QED BY <1>4, FS_Surjection

LEMMA WrittenFinite ==
    ASSUME IInv, IsFiniteSet(VenueBars(hand))
    PROVE  IsFiniteSet(VenueBars(Written))
<1> DEFINE Kept(b) == [f \in DOMAIN b \cup {"build"} |-> IF f = "build" THEN Now ELSE b[f]]
<1> DEFINE g == [b \in VenueBars(hand) |-> Kept(b)]
<1>1. \A b \in hand : Kept(b).series = b.series BY WrittenFacts DEF IInv, HandMade
<1>2. Written = {Kept(b) : b \in hand} BY DEF Written
<1> HIDE DEF Kept
<1>3. g \in Surjection(VenueBars(hand), VenueBars(Written)) BY <1>1, <1>2 DEF Surjection, VenueBars
<1> QED BY <1>3, FS_Surjection

LEMMA ReadFinite ==
    ASSUME TypeOK, NEW v \in Venues
    PROVE  IsFiniteSet(DOMAIN SortedByTs(raw[v])) /\ IsFiniteSet(DOMAIN Nothing.rows[v])
<1>1. raw[v] \in Seq(Feed) BY DEF TypeOK
<1>2. DOMAIN SortedByTs(raw[v]) = 1 .. Len(raw[v]) /\ Len(raw[v]) \in Nat BY <1>1, FeedTrades, SortedFacts
<1>3. DOMAIN Nothing.rows[v] = {} BY DEF Nothing
<1> QED BY <1>2, <1>3, FS_Interval, FS_EmptySet

LEMMA InitFinite == Init => FiniteBars
BY FS_EmptySet DEF Init, FiniteBars, VenueBars, Nothing

LEMMA StepFinite == IInv /\ FiniteBars /\ [Next]_vars => FiniteBars'
<1> SUFFICES ASSUME IInv, FiniteBars, [Next]_vars PROVE FiniteBars'
  OBVIOUS
<1>0. TypeOK BY DEF IInv
<1>1. CASE WriteVenueBars \/ WriteAggBars
  <2>1. bars' = bars \cup Written /\ hand' = {} /\ read' = read BY <1>1 DEF WriteVenueBars, WriteAggBars
  <2>2. VenueBars(bars') = VenueBars(bars) \cup VenueBars(Written) BY <2>1 DEF VenueBars
  <2>3. VenueBars(hand') = {} BY <2>1 DEF VenueBars
  <2>4. IsFiniteSet(VenueBars(bars')) BY <2>2, WrittenFinite, FS_Union DEF FiniteBars
  <2> QED BY <2>1, <2>3, <2>4, FS_EmptySet DEF FiniteBars
<1>2. CASE MakeVenueBars
  <2>1. todo \in SUBSET Nat /\ todo # {} /\ todo \subseteq Venues
    BY <1>0, <1>2, Numbers DEF TypeOK, MakeVenueBars
  <2>2. Min(todo) \in Venues BY <2>1, LeastExists
  <2>3. hand' = BarsFromTrades(read.rows[Min(todo)], Min(todo), clock) /\ bars' = bars /\ read' = read
    BY <1>2 DEF MakeVenueBars
  <2>4. IsFiniteSet(hand') BY <2>2, <2>3, BarsFinite DEF FiniteBars
  <2>5. VenueBars(hand') \subseteq hand' BY DEF VenueBars
  <2> QED BY <2>3, <2>4, <2>5, FS_Subset DEF FiniteBars
<1>3. CASE MakeAggBars
  <2>1. PICK tape : hand' = BuildAggBars(tape, clock) BY <1>3 DEF MakeAggBars
  <2>2. bars' = bars /\ read' = read BY <1>3 DEF MakeAggBars
  <2>3. VenueBars(hand') = {} BY <2>1, MadeAggFacts DEF VenueBars
  <2> QED BY <2>2, <2>3, FS_EmptySet DEF FiniteBars
<1>4. CASE bars' = bars /\ (hand' = hand \/ hand' = {}) /\ read' = read
  BY <1>4, FS_EmptySet DEF FiniteBars, VenueBars
<1>5. CASE bars' = bars /\ (hand' = hand \/ hand' = {}) /\ read' = Nothing
  BY <1>0, <1>5, ReadFinite, FS_EmptySet DEF FiniteBars, VenueBars
<1>6. CASE /\ bars' = bars /\ hand' = hand
           /\ read' = [at |-> clock, rows |-> [v \in Venues |-> SortedByTs(raw[v])]]
  BY <1>0, <1>6, ReadFinite DEF FiniteBars
<1>7. \/ WriteVenueBars \/ WriteAggBars \/ MakeVenueBars \/ MakeAggBars
      \/ /\ bars' = bars /\ (hand' = hand \/ hand' = {})
         /\ \/ read' = read \/ read' = Nothing
            \/ hand' = hand /\ read' = [at |-> clock, rows |-> [v \in Venues |-> SortedByTs(raw[v])]]
  BY DEF Next, vars, Arrive, Tick, StartBuild, StartDataset, InitDbRaises, StartValidate, Backfill, BackfillFails,
         BackfillDone, CollectTrades, CollectRaises,
         WriteRaises, RecordBuild, RecordRaises, WriteDailyQuality, NothingScored, ScoreRaises, ConnectRaises,
         WriteManifest, ManifestRaises, Exit, Kill, Leave, Finish, Raise
<1> QED BY <1>1, <1>2, <1>3, <1>4, <1>5, <1>6, <1>7
\* A second that is held twice, and a trade id that is, is a major issue of what is
\* there, if all of it was read.
LEMMA CopiesAreIssues ==
    ASSUME NEW s, SecondsTwice(Of(s)) \/ RepeatsId(TradesOf(s))
    PROVE  \E i \in IssuesOf(Whole(s)) : i.severity = "major"
<1> DEFINE own == Of(s)
<1> DEFINE rows == TradesOf(s)
<1> DEFINE w == Whole(s)
<1>0. w.own = own /\ w.rows = rows BY DEF Whole, TradesOf
<1>1. IssuesOf(w) = RunChecks(own, rows, w.others, w.venues) BY <1>0 DEF IssuesOf
<1> HIDE DEF w
<1>2. CASE SecondsTwice(Of(s))
  <2>1. \E b, c \in own : b # c /\ b.ts = c.ts BY <1>2 DEF SecondsTwice
  <2> DEFINE row == <<"bar.duplicate_timestamps", "major", \E b, c \in own : b # c /\ b.ts = c.ts>>
  <2>2. CheckBarTimestamps(own) = Found({row}) BY DEF CheckBarTimestamps
  <2>3. row[2] = "major" /\ row[3] BY <2>1
  <2> HIDE DEF row, own, rows
  <2>4. [check |-> row[1], severity |-> row[2]] \in Found({row}) BY <2>3 DEF Found
  <2>5. [check |-> row[1], severity |-> row[2]].severity = "major" BY <2>3
  <2>6. [check |-> row[1], severity |-> row[2]] \in IssuesOf(w) BY <1>1, <2>2, <2>4 DEF RunChecks
  <2> QED BY <2>5, <2>6 DEF w
<1>3. CASE RepeatsId(rows)
  <2> DEFINE row == <<"trade.duplicate_trade_id", "major", RepeatsId(rows)>>
  <2>2. PICK a, b, c : CheckTrades(rows) = Found({a, b, row, c})
    <3>1. \E a, b, c : CheckTrades(rows) = Found({a, b, row, c}) BY Zenon DEF CheckTrades
    <3> QED BY <3>1
  <2>3. row[2] = "major" /\ row[3] BY <1>3
  <2> HIDE DEF row, rows, own
  <2>4. [check |-> row[1], severity |-> row[2]] \in Found({a, b, row, c}) BY <2>3 DEF Found
  <2>5. [check |-> row[1], severity |-> row[2]].severity = "major" BY <2>3
  <2>6. [check |-> row[1], severity |-> row[2]] \in IssuesOf(w) BY <1>1, <2>2, <2>4 DEF RunChecks
  <2> QED BY <2>5, <2>6 DEF w
<1> QED BY <1>2, <1>3

LEMMA ScoreStep == IInv /\ FiniteBars /\ CopiesNeverGradeA /\ [Next]_vars => CopiesNeverGradeA'
<1> SUFFICES ASSUME IInv, FiniteBars, CopiesNeverGradeA, [Next]_vars PROVE CopiesNeverGradeA'
  OBVIOUS
<1>1. CASE cards' = cards BY <1>1 DEF CopiesNeverGradeA
<1>2. CASE WriteDailyQuality
  <2>1. PICK slices : cards' = Cards(slices) BY <1>2 DEF WriteDailyQuality
  <2>2. SUFFICES ASSUME NEW s \in DOMAIN cards, s \in Series, slices[s] = Whole(s),
                        SecondsTwice(Of(s)) \/ RepeatsId(TradesOf(s))
                 PROVE  ScoreDay(s, slices[s], IssuesOf(slices[s])) # "A"
    BY <2>1 DEF Cards, CopiesNeverGradeA
  <2> DEFINE found == IssuesOf(Whole(s))
  <2> DEFINE base == IF s = Agg THEN AggCoverageOfUnion(Whole(s).own, Whole(s).others) ELSE 100
  <2>3. PICK i \in found : i.severity = "major" BY <2>2, CopiesAreIssues
  <2>4. IsFiniteSet(found) BY ChecksFinite DEF IssuesOf
  <2>5. ScoreDay(s, slices[s], IssuesOf(slices[s])) = GradeFor(ScoreOf(base, found)) BY <2>2 DEF ScoreDay
  <2>6. s = Agg => IsFiniteSet(Whole(s).others)
    <3>1. VenueBars(bars) = bars \ Of(Agg) BY DEF VenueBars, Of
    <3> QED BY <3>1 DEF Whole, FiniteBars
  <2>7. base \in Int /\ base <= 100 BY <2>6, CoverageAtMostAll
  <2> HIDE DEF base, found
  <2> QED BY <2>3, <2>4, <2>5, <2>7, MajorIsNoA
<1>3. cards' = cards \/ WriteDailyQuality
  BY DEF Next, vars, Arrive, Tick, StartBuild, StartDataset, InitDbRaises, StartValidate, Backfill, BackfillFails,
         BackfillDone, CollectTrades, CollectRaises, MakeVenueBars, WriteVenueBars, MakeAggBars, WriteAggBars,
         WriteRaises, RecordBuild, RecordRaises, NothingScored, ScoreRaises, ConnectRaises,
         WriteManifest, ManifestRaises, Exit, Kill
<1> QED BY <1>1, <1>2, <1>3

\* A card for a series that holds a second twice, or a venue that holds a trade id
\* twice, never has an A if its reads returned all rows, whatever else is found
\* (quality/checks.py:88-107, :185-192, quality/report.py:149-154).
THEOREM CopiesGraded == Spec => []CopiesNeverGradeA
<1>1. Init => CopiesNeverGradeA BY DEF Init, CopiesNeverGradeA, NoCard
<1> QED BY <1>1, InitIInv, NextKeepsIInv, InitFinite, StepFinite, ScoreStep, PTL DEF Spec

-----------------------------------------------------------------------------
(* A build and its tape                                                    *)

\* A bar as build n writes it, and what it says of its trades.
Marked(b, n) == [f \in DOMAIN b \cup {"build"} |-> IF f = "build" THEN n ELSE b[f]]

LEMMA BarSays ==
    ASSUME NEW rows, NEW at, NEW series, NEW now, NEW n, NEW c, c = Marked(BarOf(rows, at, series, now), n)
    PROVE  /\ c.build = n /\ c.ts = at /\ c.series = series
           /\ c.open = Head(rows).price /\ c.close = Last(rows).price
BY DEF BarOf, Marked

\* The bars that build n makes at st of a venue's rows, and of the tape.
VenueBar(rows, v, st, n, s) == Marked(BarOf(InSecond(rows, s), s, v, st), n)
VenueRows(rows, v, st, n) == {VenueBar(rows, v, st, n, s) : s \in Secs(rows)}

AggBar(T, st, n, s) == Marked(BarOf(KeptIn(T, s), s, Agg, st), n)
AggRows(T, st, n) == {AggBar(T, st, n, s) : s \in Seconds(T)}

\* This build wrote a venue's bars; it wrote those of the tape.
VenueDone(v) == \E st : By(v) = VenueRows(read.rows[v], v, st, Now)
AggDone == \E st : By(Agg) = AggRows(Tape, st, Now)

RowsSorted ==
    /\ \A v \in Venues : \A i \in DOMAIN raw[v] : raw[v][i].venue = v
    /\ Lists(read.rows, Feed)

\* How far a build has come.
Progress ==
    /\ job.at \in Building => \A v \in Venues \ todo : VenueDone(v)
    /\ job.at \in Building => \A v \in todo : By(v) = {}
    /\ job.at \in Building => \A b \in bars : b.build = Now /\ b.series # Agg => b.close \in Nat
    /\ job.at \in {"make", "write", "write_agg"} => By(Agg) = {}
    /\ job.at = "write" =>
          todo # {} /\ \E st : hand = BarsFromTrades(read.rows[Min(todo)], Min(todo), st)
    /\ job.at = "write_agg" => todo = {} /\ \E st : hand = BuildAggBars(Tape, st)
    /\ job.at = "log" => todo = {} /\ AggDone

TapeInv == RowsSorted /\ Progress

LEMMA StoreRows ==
    ASSUME TypeOK, RowsSorted, NEW t \in Feed, Store(t)
    PROVE  \A v \in Venues : \A i \in DOMAIN raw'[v] : raw'[v][i].venue = v
<1>1. t.venue \in Venues BY Numbers
<1> DEFINE old == raw[t.venue]
<1>2. old \in Seq(Feed) /\ \A i \in DOMAIN old : old[i].venue = t.venue BY <1>1 DEF TypeOK, RowsSorted
<1>3. PICK rows \in {<<t>> \o old, Append(old, t)} : raw' = [raw EXCEPT ![t.venue] = rows] BY DEF Store
<1> HIDE DEF old
<1>4. \A i \in DOMAIN rows : rows[i].venue = t.venue
  <2>1. CASE rows = Append(old, t)
    <3> TAKE i \in DOMAIN rows
    <3>1. i \in 1 .. Len(old) + 1 /\ Len(old) \in Nat BY <1>2, <2>1
    <3>2. CASE i = Len(old) + 1 BY <1>2, <2>1, <3>2
    <3>3. CASE i # Len(old) + 1
      <4>1. i \in DOMAIN old BY <1>2, <3>1, <3>3
      <4>2. rows[i] = old[i] BY <1>2, <2>1, <4>1
      <4> QED BY <1>2, <4>1, <4>2
    <3> QED BY <3>2, <3>3
  <2>2. CASE rows = <<t>> \o old
    <3> TAKE i \in DOMAIN rows
    <3>1. i \in 1 .. Len(old) + 1 /\ Len(old) \in Nat BY <1>2, <2>2
    <3>2. CASE i = 1 BY <1>2, <2>2, <3>2
    <3>3. CASE i # 1
      <4>1. i - 1 \in DOMAIN old BY <1>2, <3>1, <3>3
      <4>2. rows[i] = old[i - 1] BY <1>2, <2>2, <3>1, <3>3, <4>1
      <4> QED BY <1>2, <4>1, <4>2
    <3> QED BY <3>2, <3>3
  <2> QED BY <1>3, <2>1, <2>2
<1> QED BY <1>1, <1>3, <1>4 DEF TypeOK, RowsSorted

LEMMA InitTape == Init => TapeInv
<1> SUFFICES ASSUME Init PROVE TapeInv
  OBVIOUS
<1>1. RowsSorted BY DEF Init, RowsSorted, Lists, Nothing
<1>2. job.at = "idle" BY DEF Init, NoJob
<1>3. Progress BY <1>2 DEF Progress, Building
<1> QED BY <1>1, <1>3 DEF TapeInv

LEMMA NothingListed == Lists(Nothing.rows, Feed)
BY DEF Nothing, Lists

\* The steps outside a build, and those that end one.
LEMMA OutsideSteps ==
    ASSUME TypeOK, TapeInv,
           \/ Arrive \/ StartBuild \/ StartDataset \/ InitDbRaises \/ StartValidate
           \/ Backfill \/ BackfillFails \/ BackfillDone \/ CollectRaises \/ WriteRaises
           \/ RecordBuild \/ RecordRaises \/ WriteDailyQuality \/ NothingScored \/ ScoreRaises
           \/ ConnectRaises \/ WriteManifest \/ ManifestRaises \/ Exit \/ Kill
    PROVE  TapeInv'
<1>1. job'.at \notin Building
  BY GotoFacts, FinishFacts, RaiseFacts
    DEF Arrive, StartBuild, StartDataset, InitDbRaises, StartValidate, Backfill, BackfillFails, BackfillDone,
        CollectRaises, WriteRaises, RecordBuild, RecordRaises, WriteDailyQuality, NothingScored, ScoreRaises,
        ConnectRaises, WriteManifest, ManifestRaises, Exit, Kill, Leave, Begin, Building, Idle, At
<1>2. Progress' BY <1>1 DEF Progress, Building
<1>3. read' = read \/ read' = Nothing
  BY DEF Arrive, StartBuild, StartDataset, InitDbRaises, StartValidate, Backfill, BackfillFails, BackfillDone,
        CollectRaises, WriteRaises, RecordBuild, RecordRaises, WriteDailyQuality, NothingScored, ScoreRaises,
        ConnectRaises, WriteManifest, ManifestRaises, Exit, Kill, Leave, Finish
<1>4. Lists(read'.rows, Feed) BY <1>3, NothingListed DEF TapeInv, RowsSorted
<1>5. raw' = raw \/ \E t \in Feed : Store(t)
  BY DEF Arrive, StartBuild, StartDataset, InitDbRaises, StartValidate, Backfill, BackfillFails, BackfillDone,
        CollectRaises, WriteRaises, RecordBuild, RecordRaises, WriteDailyQuality, NothingScored, ScoreRaises,
        ConnectRaises, WriteManifest, ManifestRaises, Exit, Kill
<1>6. \A v \in Venues : \A i \in DOMAIN raw'[v] : raw'[v][i].venue = v
  BY <1>5, StoreRows DEF TapeInv, RowsSorted
<1> QED BY <1>2, <1>4, <1>6 DEF TapeInv, RowsSorted

LEMMA TickTape == ASSUME TapeInv, Tick PROVE TapeInv'
<1>1. UNCHANGED <<raw, bars, job, todo, hand, read, builds>> BY DEF Tick
<1>2. RowsSorted' BY <1>1 DEF TapeInv, RowsSorted
<1>3. Progress' BY <1>1 DEF TapeInv, Progress, VenueDone, AggDone, By, Now, Tape
<1> QED BY <1>2, <1>3 DEF TapeInv
LEMMA CollectTape == ASSUME IInv, TapeInv, CollectTrades PROVE TapeInv'
<1>0. TypeOK /\ builds \in Nat BY Numbers DEF IInv, TypeOK
<1>1. UNCHANGED <<raw, bars, hand>> BY DEF CollectTrades
<1>2. CASE \A v \in Venues : raw[v] = <<>>
  <2>1. job'.at \in {"idle", "score"} /\ read' = Nothing
    BY <1>0, <1>2, GotoFacts, FinishFacts DEF CollectTrades, Leave
  <2>2. Progress' BY <2>1 DEF Progress, Building
  <2>3. RowsSorted' BY <1>1, <2>1, NothingListed DEF TapeInv, RowsSorted
  <2> QED BY <2>2, <2>3 DEF TapeInv
<1>3. CASE ~(\A v \in Venues : raw[v] = <<>>)
  <2>1. /\ read'.rows = [v \in Venues |-> SortedByTs(raw[v])] /\ builds' = builds + 1
        /\ todo' = {v \in Venues : raw[v] # <<>>} /\ job'.at = "make"
    BY <1>0, <1>3, GotoFacts DEF CollectTrades
  <2>2. Lists(read'.rows, Feed)
    <3>1. ASSUME NEW v \in Venues
          PROVE  /\ read'.rows[v] \in Seq(Feed)
                 /\ \A i \in DOMAIN read'.rows[v] : read'.rows[v][i].venue = v
                 /\ \A i, j \in DOMAIN read'.rows[v] : i < j => read'.rows[v][i].ts <= read'.rows[v][j].ts
      <4>1. raw[v] \in Seq(Feed) BY <1>0 DEF TypeOK
      <4>2. read'.rows[v] = SortedByTs(raw[v]) BY <2>1
      <4> DEFINE q == read'.rows[v]
      <4>3. /\ q \in Seq(Feed)
            /\ \A k \in DOMAIN q : \E i \in DOMAIN raw[v] : q[k] = raw[v][i]
            /\ \A k, l \in DOMAIN q : k < l => q[k].ts <= q[l].ts
        BY <4>1, <4>2, FeedTrades, SortedFacts
      <4> QED BY <4>3 DEF TapeInv, RowsSorted
    <3>2. read'.rows \in [Venues -> Seq(Feed)] BY <2>1, <3>1
    <3> QED BY <3>1, <3>2 DEF Lists
  <2>3. RowsSorted' BY <1>1, <2>2 DEF TapeInv, RowsSorted
  <2>4. \A b \in bars' : b.build # Now' BY <1>0, <1>1, <2>1 DEF TypeOK, Now
  <2>5. ASSUME NEW v \in Venues \ todo' PROVE Secs(read'.rows[v]) = {}
    <3>1. raw[v] = <<>> BY <2>1
    <3>2. read'.rows[v] = SortedByTs(raw[v]) BY <2>1
    <3>3. raw[v] \in Seq(Feed) /\ DOMAIN raw[v] = {} BY <1>0, <3>1 DEF TypeOK
    <3>4. DOMAIN read'.rows[v] = {} BY <3>2, <3>3, FeedTrades, SortedFacts
    <3> QED BY <3>4 DEF Secs
  <2>6. \A v : By(v)' = {} BY <2>4 DEF By
  <2>7. \A v \in Venues \ todo' : VenueDone(v)' BY <2>5, <2>6 DEF VenueDone, VenueRows
  <2>8. Progress' BY <2>1, <2>4, <2>6, <2>7 DEF Progress
  <2> QED BY <2>3, <2>8 DEF TapeInv
<1> QED BY <1>2, <1>3

LEMMA MakeTape == ASSUME IInv, TapeInv, MakeVenueBars \/ MakeAggBars PROVE TapeInv'
<1>0. TypeOK BY DEF IInv
<1>1. UNCHANGED <<raw, bars, todo, read, builds>> /\ job.at = "make"
  BY DEF MakeVenueBars, MakeAggBars, At
<1>2. RowsSorted' BY <1>1 DEF TapeInv, RowsSorted
<1>3. /\ \A v \in Venues \ todo' : VenueDone(v)'
      /\ \A v \in todo' : By(v)' = {}
      /\ \A b \in bars' : b.build = Now' /\ b.series # Agg => b.close \in Nat
      /\ By(Agg)' = {}
  <2>1. Now' = Now /\ \A v : By(v)' = By(v) BY <1>1 DEF By, Now
  <2> QED BY <1>1, <2>1 DEF TapeInv, Progress, VenueDone, Building
<1>4. CASE MakeVenueBars
  <2>1. job'.at = "write" /\ todo' # {} /\ \E st : hand' = BarsFromTrades(read'.rows[Min(todo')], Min(todo'), st)
    BY <1>0, <1>1, <1>4, GotoFacts DEF MakeVenueBars
  <2> QED BY <1>2, <1>3, <2>1 DEF TapeInv, Progress
<1>5. CASE MakeAggBars
  <2>1. job'.at = "write_agg" /\ todo' = {} /\ \E st : hand' = BuildAggBars(Tape', st)
    BY <1>0, <1>1, <1>5, GotoFacts DEF MakeAggBars, Tape
  <2> QED BY <1>2, <1>3, <2>1 DEF TapeInv, Progress
<1> QED BY <1>4, <1>5

LEMMA HeadOfSecond ==
    ASSUME NEW X, Trades(X), NEW rows \in Seq(X), NEW s \in Secs(rows), NEW q, q = InSecond(rows, s)
    PROVE  Sec(Head(q)) = s /\ Last(q).price \in Nat
<1>1. q \in Seq(X) /\ q # <<>> BY InSecondFacts
<1>2. Head(q) \in Range(q) /\ Last(q) \in Range(q) BY <1>1, HeadAndLast
<1>3. \A t \in Range(q) : t \in X /\ Sec(t) = s
  <2>1. PICK at : PickedAt(q, rows, {i \in DOMAIN rows : Sec(rows[i]) = s}, at) BY InSecondFacts
  <2> QED BY <1>1, <2>1 DEF PickedAt, Range
<1> QED BY <1>2, <1>3 DEF Trades

\* A venue's bars, as they are written, are those of its seconds.
LEMMA WrittenVenue ==
    ASSUME NEW X, Trades(X), NEW rows \in Seq(X), NEW v, NEW st, hand = BarsFromTrades(rows, v, st)
    PROVE  /\ Written = VenueRows(rows, v, st, Now)
           /\ \A c \in Written : c.build = Now /\ c.series = v /\ c.close \in Nat
<1> DEFINE bar(s) == BarOf(InSecond(rows, s), s, v, st)
<1>1. \A s \in Secs(rows) : BarOf(InSecond(rows, s), Sec(Head(InSecond(rows, s))), v, st) = bar(s)
  BY HeadOfSecond
<1>2. hand = {bar(s) : s \in Secs(rows)} BY <1>1 DEF BarsFromTrades, BySecond
<1>3. Written = {Marked(b, Now) : b \in hand} BY DEF Written, Marked
<1>4. \A s : VenueBar(rows, v, st, Now, s) = Marked(bar(s), Now) BY DEF VenueBar
<1>5. \A s \in Secs(rows) : LET c == Marked(bar(s), Now)
                             IN  c.build = Now /\ c.series = v /\ c.close = Last(InSecond(rows, s)).price
  BY BarSays
<1> HIDE DEF bar
<1>6. Written = VenueRows(rows, v, st, Now) BY <1>2, <1>3, <1>4 DEF VenueRows
<1>7. ASSUME NEW c \in Written PROVE c.build = Now /\ c.series = v /\ c.close \in Nat
  <2>1. PICK s \in Secs(rows) : c = Marked(bar(s), Now) BY <1>2, <1>3
  <2>2. Last(InSecond(rows, s)).price \in Nat BY HeadOfSecond
  <2> QED BY <1>5, <2>1, <2>2
<1> QED BY <1>6, <1>7

LEMMA WriteVenueTape == ASSUME IInv, TapeInv, WriteVenueBars PROVE TapeInv'
<1>0. TypeOK BY DEF IInv
<1>1. /\ UNCHANGED <<raw, read, builds>> /\ bars' = bars \cup Written /\ job.at = "write"
      /\ todo' = todo \ {Min(todo)}
  BY DEF WriteVenueBars, At
<1>2. job'.at = "make" BY <1>0, GotoFacts DEF WriteVenueBars
<1>3. RowsSorted' BY <1>1 DEF TapeInv, RowsSorted
<1> DEFINE v == Min(todo)
<1>4. PICK st : hand = BarsFromTrades(read.rows[v], v, st) BY <1>1 DEF TapeInv, Progress
<1>5. v \in Venues /\ v \in todo
  <2>1. todo \in SUBSET Nat /\ todo # {} /\ todo \subseteq Venues
    BY <1>0, <1>1, Numbers DEF TypeOK, TapeInv, Progress
  <2> QED BY <2>1, LeastExists
<1>6. v # Agg BY <1>5, Numbers
<1>7. todo' = todo \ {v} BY <1>1
<1> HIDE DEF v
<1>8. read.rows[v] \in Seq(Feed) BY <1>5 DEF TapeInv, RowsSorted, Lists
<1>9. /\ Written = VenueRows(read.rows[v], v, st, Now)
      /\ \A c \in Written : c.build = Now /\ c.series = v /\ c.close \in Nat
  BY <1>4, <1>8, FeedTrades, WrittenVenue
<1>10. Now' = Now /\ \A w : By(w)' = By(w) \cup (IF w = v THEN Written ELSE {}) BY <1>1, <1>9 DEF By, Now
<1>11. By(v) = {} BY <1>1, <1>5 DEF TapeInv, Progress, Building
<1>12. ASSUME NEW w \in Venues \ todo' PROVE VenueDone(w)'
  <2>1. CASE w = v
    <3>1. By(w)' = VenueRows(read'.rows[w], w, st, Now') BY <1>1, <1>9, <1>10, <1>11, <2>1
    <3> QED BY <3>1 DEF VenueDone
  <2>2. CASE w # v
    <3>1. VenueDone(w) BY <1>1, <1>7, <2>2 DEF TapeInv, Progress, Building
    <3>2. By(w)' = By(w) BY <1>10, <2>2
    <3> QED BY <1>1, <1>10, <3>1, <3>2 DEF VenueDone
  <2> QED BY <2>1, <2>2
<1>13. \A w \in todo' : By(w)' = {}
  <2> TAKE w \in todo'
  <2>1. w \in todo /\ w # v BY <1>7
  <2>2. By(w) = {} BY <1>1, <2>1 DEF TapeInv, Progress, Building
  <2> QED BY <1>10, <2>1, <2>2
<1>14. \A b \in bars' : b.build = Now' /\ b.series # Agg => b.close \in Nat
  BY <1>1, <1>9 DEF TapeInv, Progress, Building, Now
<1>15. By(Agg)' = {} BY <1>1, <1>6, <1>9 DEF TapeInv, Progress, By, Now
<1> QED BY <1>2, <1>3, <1>12, <1>14, <1>15, <1>13 DEF TapeInv, Progress

LEMMA WrittenAgg ==
    ASSUME Tape \in Seq(Feed), NEW st, hand = BuildAggBars(Tape, st)
    PROVE  /\ Written = AggRows(Tape, st, Now)
           /\ \A c \in Written : c.build = Now /\ c.series = Agg
<1> DEFINE bar(s) == BarOf(KeptIn(Tape, s), s, Agg, st)
<1>1. hand = {bar(s) : s \in Seconds(Tape)} BY FeedTrades, AggBarsAre
<1>2. Written = {Marked(b, Now) : b \in hand} BY DEF Written, Marked
<1>3. \A s : Marked(bar(s), Now).build = Now /\ Marked(bar(s), Now).series = Agg BY BarSays
<1>4. \A s : AggBar(Tape, st, Now, s) = Marked(bar(s), Now) BY DEF AggBar
<1> HIDE DEF bar
<1> QED BY <1>1, <1>2, <1>3, <1>4 DEF AggRows

LEMMA WriteAggTape == ASSUME IInv, TapeInv, WriteAggBars PROVE TapeInv'
<1>0. TypeOK BY DEF IInv
<1>1. UNCHANGED <<raw, todo, read, builds>> /\ bars' = bars \cup Written /\ job.at = "write_agg"
  BY DEF WriteAggBars, At
<1>2. job'.at = "log" BY <1>0, GotoFacts DEF WriteAggBars
<1>3. RowsSorted' BY <1>1 DEF TapeInv, RowsSorted
<1>4. PICK st : hand = BuildAggBars(Tape, st) BY <1>1 DEF TapeInv, Progress
<1>5. Tape \in Seq(Feed) BY FeedTrades, MergeFacts DEF TapeInv, RowsSorted, Tape
<1>10. /\ Written = AggRows(Tape, st, Now)
       /\ \A c \in Written : c.build = Now /\ c.series = Agg
  BY <1>4, <1>5, WrittenAgg
<1>11. Now' = Now /\ \A s : By(s)' = By(s) \cup (IF s = Agg THEN Written ELSE {}) BY <1>1, <1>10 DEF By, Now
<1>12. AggDone'
  <2>1. Tape' = Tape BY <1>1 DEF Tape
  <2>2. By(Agg) = {} BY <1>1 DEF TapeInv, Progress
  <2>3. By(Agg)' = AggRows(Tape', st, Now') BY <1>10, <1>11, <2>1, <2>2
  <2> QED BY <2>3 DEF AggDone
<1>13. \A v \in Venues \ todo' : VenueDone(v)'
  <2> TAKE v \in Venues \ todo'
  <2>1. VenueDone(v) BY <1>1 DEF TapeInv, Progress, Building
  <2>2. By(v)' = By(v) BY <1>11, Numbers
  <2> QED BY <1>1, <1>11, <2>1, <2>2 DEF VenueDone
<1>14. \A b \in bars' : b.build = Now' /\ b.series # Agg => b.close \in Nat
  BY <1>1, <1>10 DEF TapeInv, Progress, Building, Now
<1>15. todo' = {} BY <1>1 DEF TapeInv, Progress
<1> QED BY <1>2, <1>3, <1>12, <1>14, <1>15, <1>13 DEF TapeInv, Progress

LEMMA NextKeepsTape == IInv /\ TapeInv /\ [Next]_vars => TapeInv'
<1> SUFFICES ASSUME IInv, TapeInv, [Next]_vars PROVE TapeInv'
  OBVIOUS
<1>0. TypeOK BY DEF IInv
<1>1. CASE UNCHANGED vars
  BY <1>1 DEF vars, TapeInv, RowsSorted, Progress, VenueDone, AggDone, By, Now, Tape
<1>2. CASE Tick BY <1>2, TickTape
<1>3. CASE CollectTrades BY <1>3, CollectTape
<1>4. CASE MakeVenueBars \/ MakeAggBars BY <1>4, MakeTape
<1>5. CASE WriteVenueBars BY <1>5, WriteVenueTape
<1>6. CASE WriteAggBars BY <1>6, WriteAggTape
<1>7. CASE \/ Arrive \/ StartBuild \/ StartDataset \/ InitDbRaises \/ StartValidate
           \/ Backfill \/ BackfillFails \/ BackfillDone \/ CollectRaises \/ WriteRaises
           \/ RecordBuild \/ RecordRaises \/ WriteDailyQuality \/ NothingScored \/ ScoreRaises
           \/ ConnectRaises \/ WriteManifest \/ ManifestRaises \/ Exit \/ Kill
  BY <1>0, <1>7, OutsideSteps
<1> QED BY <1>1, <1>2, <1>3, <1>4, <1>5, <1>6, <1>7 DEF Next

-----------------------------------------------------------------------------
(* Days that hold a second twice                                           *)

\* A build makes one bar of a series and a second.
Once ==
    \A b, c \in bars : b.build = c.build /\ b.series = c.series /\ b.ts = c.ts => b = c

LEMMA WrittenOnce ==
    ASSUME IInv, TapeInv, WriteVenueBars \/ WriteAggBars
    PROVE  \E x : /\ By(x) = {}
                  /\ \A c \in Written : c.build = Now /\ c.series = x
                  /\ \A c, d \in Written : c.ts = d.ts => c = d
<1>0. TypeOK BY DEF IInv
<1>1. CASE WriteVenueBars
  <2> DEFINE v == Min(todo)
  <2>1. job.at = "write" BY <1>1 DEF WriteVenueBars, At
  <2>2. PICK st : hand = BarsFromTrades(read.rows[v], v, st) BY <2>1 DEF TapeInv, Progress
  <2>3. v \in Venues /\ v \in todo
    <3>1. todo \in SUBSET Nat /\ todo # {} /\ todo \subseteq Venues
      BY <1>0, <2>1, Numbers DEF TypeOK, TapeInv, Progress
    <3> QED BY <3>1, LeastExists
  <2> HIDE DEF v
  <2>4. read.rows[v] \in Seq(Feed) BY <2>3 DEF TapeInv, RowsSorted, Lists
  <2>5. /\ Written = VenueRows(read.rows[v], v, st, Now)
        /\ \A c \in Written : c.build = Now /\ c.series = v
    BY <2>2, <2>4, FeedTrades, WrittenVenue
  <2>6. By(v) = {} BY <2>1, <2>3 DEF TapeInv, Progress, Building
  <2>7. \A s : VenueBar(read.rows[v], v, st, Now, s).ts = s BY BarSays DEF VenueBar
  <2>8. \A c, d \in Written : c.ts = d.ts => c = d BY <2>5, <2>7 DEF VenueRows
  <2> QED BY <2>5, <2>6, <2>8
<1>2. CASE WriteAggBars
  <2>1. job.at = "write_agg" BY <1>2 DEF WriteAggBars, At
  <2>2. PICK st : hand = BuildAggBars(Tape, st) BY <2>1 DEF TapeInv, Progress
  <2>3. Tape \in Seq(Feed) BY FeedTrades, MergeFacts DEF TapeInv, RowsSorted, Tape
  <2>4. Written = AggRows(Tape, st, Now) /\ \A c \in Written : c.build = Now /\ c.series = Agg
    BY <2>2, <2>3, WrittenAgg
  <2>5. By(Agg) = {} BY <2>1 DEF TapeInv, Progress
  <2>6. \A s : AggBar(Tape, st, Now, s).ts = s BY BarSays DEF AggBar
  <2>7. \A c, d \in Written : c.ts = d.ts => c = d BY <2>4, <2>6 DEF AggRows
  <2> QED BY <2>4, <2>5, <2>7
<1> QED BY <1>1, <1>2

LEMMA OnceStep == IInv /\ TapeInv /\ Once /\ [Next]_vars => Once'
<1> SUFFICES ASSUME IInv, TapeInv, Once, [Next]_vars PROVE Once'
  OBVIOUS
<1>1. CASE bars' = bars BY <1>1 DEF Once
<1>2. CASE WriteVenueBars \/ WriteAggBars
  <2>1. bars' = bars \cup Written BY <1>2 DEF WriteVenueBars, WriteAggBars
  <2>2. PICK x : /\ By(x) = {}
                 /\ \A c \in Written : c.build = Now /\ c.series = x
                 /\ \A c, d \in Written : c.ts = d.ts => c = d
    BY <1>2, WrittenOnce
  <2>3. \A b \in bars : ~(b.build = Now /\ b.series = x) BY <2>2 DEF By
  <2> QED BY <2>1, <2>2, <2>3 DEF Once
<1>3. bars' = bars \/ WriteVenueBars \/ WriteAggBars
  BY DEF Next, vars, Arrive, Tick, StartBuild, StartDataset, InitDbRaises, StartValidate, Backfill, BackfillFails,
         BackfillDone, CollectTrades, CollectRaises, MakeVenueBars, MakeAggBars,
         WriteRaises, RecordBuild, RecordRaises, WriteDailyQuality, NothingScored, ScoreRaises, ConnectRaises,
         WriteManifest, ManifestRaises, Exit, Kill
<1> QED BY <1>1, <1>2, <1>3

LEMMA MaxOfBits ==
    ASSUME NEW S \in SUBSET {0, 1}, 1 \in S
    PROVE  Max(S) = 1
<1>1. \E x \in S : \A y \in S : x >= y BY 1 >= 1, 1 >= 0
<1>2. Max(S) \in S /\ \A y \in S : Max(S) >= y BY <1>1 DEF Max
<1>3. Max(S) \in {0, 1} /\ Max(S) >= 1 BY <1>2
<1>4. ~(0 >= 1) OBVIOUS
<1> QED BY <1>3, <1>4

\* Series that hold no second twice can be joined.
LEMMA OnceJoins ==
    ASSUME NEW B, NEW others, NEW venues, ~SecondsTwice(B), ~SecondsTwice(others),
           \A b, c \in B : b.series = c.series
    PROVE  ~CannotJoin(B, others, venues)
<1> DEFINE held(C, s) == Cardinality({b \in C : b.ts = s})
<1> DEFINE of(v) == {b \in others : b.series = v}
<1> DEFINE times == {b.ts : b \in others}
<1> DEFINE names == {b.series : b \in others}
<1>1. ASSUME NEW C, NEW s, \A b, c \in C : b.ts = c.ts => b = c
      PROVE  held(C, s) \in {0, 1} /\ \A b \in C : b.ts = s => held(C, s) = 1
  <2> DEFINE T == {b \in C : b.ts = s}
  <2>1. CASE T = {} BY <2>1, FS_EmptySet
  <2>2. CASE T # {}
    <3>1. PICK b : b \in T BY <2>2
    <3>2. T = {b} BY <1>1, <3>1
    <3>3. held(C, s) = Cardinality(T) OBVIOUS
    <3> HIDE DEF T
    <3> QED BY <3>2, <3>3, FS_Singleton
  <2> QED BY <2>1, <2>2
<1>2. \A b, c \in B : b.ts = c.ts => b = c BY DEF SecondsTwice
<1>3. \A v : \A b, c \in of(v) : b.ts = c.ts => b = c BY DEF SecondsTwice
<1>4. \A s \in times : \E v \in names : \E b \in of(v) : b.ts = s OBVIOUS
<1>5. CannotJoin(B, others, venues) =>
          \/ \E v \in names, s \in times : held(of(v), s) > 1
          \/ \E s \in times : held(B, s) > 0 /\ held(B, s) # Max({held(of(v), s) : v \in names})
  BY DEF CannotJoin
<1> HIDE DEF held, of, times, names
<1>6. \A v : \A s : held(of(v), s) \in {0, 1} BY <1>1, <1>3
<1>7. \A s : held(B, s) \in {0, 1} BY <1>1, <1>2
<1>8. ASSUME NEW s \in times PROVE Max({held(of(v), s) : v \in names}) = 1
  <2>1. \E v \in names : held(of(v), s) = 1 BY <1>1, <1>3, <1>4
  <2> QED BY <1>6, <2>1, MaxOfBits
<1>9. \A v \in names, s \in times : ~(held(of(v), s) > 1)
  <2> TAKE v \in names, s \in times
  <2>1. held(of(v), s) \in {0, 1} BY <1>6
  <2> QED BY <2>1
<1>10. ASSUME NEW s \in times, held(B, s) > 0, held(B, s) # Max({held(of(v), s) : v \in names}) PROVE FALSE
  <2>1. held(B, s) \in {0, 1} BY <1>7
  <2>2. held(B, s) # 1 BY <1>8, <1>10
  <2> QED BY <1>10, <2>1, <2>2
<1> QED BY <1>5, <1>9, <1>10

\* What is compared of agg is of the bars that are there, and one series of them.
LEMMA SlicesAre ==
    ASSUME NEW slices \in {AllWhole} \cup OneFails, Agg \in Series
    PROVE  slices[Agg].own \subseteq Of(Agg) /\ slices[Agg].others \subseteq bars
<1>1. Whole(Agg).own = Of(Agg) /\ Whole(Agg).others = bars \ Of(Agg) BY DEF Whole
<1>2. AllWhole[Agg] = Whole(Agg) /\ DOMAIN AllWhole = Series BY DEF AllWhole
<1>3. ASSUME NEW slice \in Partial(Agg) PROVE slice.own \subseteq Of(Agg) /\ slice.others \subseteq bars
  <2> DEFINE w == Whole(Agg)
  <2>1. \/ slice = [w EXCEPT !.own = {}] \/ slice = [w EXCEPT !.rows = <<>>]
        \/ slice = [w EXCEPT !.others = {}, !.venues = {}]
        \/ \E v : slice = [w EXCEPT !.others = @ \ Of(v)]
    BY DEF Partial
  <2>2. DOMAIN w = {"own", "rows", "others", "venues"} BY DEF Whole
  <2>3. w.own = Of(Agg) /\ w.others \subseteq bars BY <1>1
  <2> HIDE DEF w
  <2> QED BY <2>1, <2>2, <2>3
<1>4. ASSUME slices \in OneFails PROVE slices[Agg] = Whole(Agg) \/ slices[Agg] \in Partial(Agg)
  <2>1. PICK s \in Series : slices \in {[AllWhole EXCEPT ![s] = slice] : slice \in Partial(s)}
    BY <1>4 DEF OneFails
  <2>2. PICK slice \in Partial(s) : slices = [AllWhole EXCEPT ![s] = slice] BY <2>1
  <2> QED BY <1>2, <2>2
<1> QED BY <1>1, <1>2, <1>3, <1>4

LEMMA RaisesStep == IInv /\ Once /\ RaisesOnlyOnRebuilds /\ [Next]_vars => RaisesOnlyOnRebuilds'
<1> SUFFICES ASSUME IInv, Once, RaisesOnlyOnRebuilds, [Next]_vars, job'.at = "raised", ~job'.hurt
             PROVE  \E b, c \in bars' : b.series = c.series /\ b.ts = c.ts /\ b.build # c.build
  BY DEF RaisesOnlyOnRebuilds, At
<1>0. TypeOK BY DEF IInv
<1>1. CASE ScoreRaises
  <2>1. PICK slices \in {AllWhole} \cup OneFails : ScoringRaises(slices) BY <1>1 DEF ScoreRaises
  <2> DEFINE w == slices[Agg]
  <2>2. Agg \in Series /\ CannotJoin(w.own, w.others, w.venues) BY <2>1 DEF ScoringRaises
  <2>3. w.own \subseteq Of(Agg) /\ w.others \subseteq bars BY <2>2, SlicesAre
  <2>4. Of(Agg) \subseteq bars /\ \A b, c \in Of(Agg) : b.series = c.series BY DEF Of
  <2> HIDE DEF w
  <2>5. SecondsTwice(w.own) \/ SecondsTwice(w.others) BY <2>2, <2>3, <2>4, OnceJoins
  <2>6. bars' = bars BY <1>1 DEF ScoreRaises
  <2> QED BY <2>3, <2>4, <2>5, <2>6 DEF SecondsTwice, Once
<1>2. CASE job' = job /\ bars \subseteq bars' BY <1>2 DEF RaisesOnlyOnRebuilds, At
<1>3. ScoreRaises \/ (job' = job /\ bars \subseteq bars')
  BY <1>0, GotoFacts, FinishFacts, RaiseFacts
    DEF Next, vars, Arrive, Tick, StartBuild, StartDataset, InitDbRaises, StartValidate, Backfill, BackfillFails,
         BackfillDone, CollectTrades, CollectRaises, MakeVenueBars, WriteVenueBars, MakeAggBars, WriteAggBars,
         WriteRaises, RecordBuild, RecordRaises, WriteDailyQuality, NothingScored, ConnectRaises,
         WriteManifest, ManifestRaises, Exit, Kill, Leave, Begin
<1> QED BY <1>1, <1>2, <1>3

\* A job in which no write, read or connection failed ends with an exception only on
\* a day of which two builds made bars of one second (quality/checks.py:258-262,
\* quality/report.py:166-177).
THEOREM RaisesOnRebuilds == Spec => []RaisesOnlyOnRebuilds
<1>1. Init => RaisesOnlyOnRebuilds /\ Once BY DEF Init, RaisesOnlyOnRebuilds, Once, At, NoJob
<1> QED BY <1>1, InitIInv, NextKeepsIInv, InitTape, NextKeepsTape, OnceStep, RaisesStep, PTL DEF Spec

-----------------------------------------------------------------------------
(* The agg bars                                                            *)

LEMMA EligibleSeconds ==
    ASSUME NEW T
    PROVE  {Sec(t) : t \in {u \in Range(T) : Eligible(u)}} = Seconds(T)
BY DEF Seconds, Range

LEMMA OrderOfReceipt ==
    ASSUME RowsSorted, NEW s, ~OutOfRecvOrder(s)
    PROVE  InRecvOrder(read.rows, s)
<1> SUFFICES ASSUME NEW v \in Venues, NEW i \in DOMAIN read.rows[v], NEW j \in DOMAIN read.rows[v],
                    i < j, read.rows[v][i].ts = read.rows[v][j].ts, Sec(read.rows[v][i]) = s
             PROVE  read.rows[v][i].recv <= read.rows[v][j].recv
  BY DEF InRecvOrder
<1>1. read.rows[v][i] \in Feed /\ read.rows[v][j] \in Feed BY DEF RowsSorted, Lists
<1>2. read.rows[v][i].recv \in Int /\ read.rows[v][j].recv \in Int BY <1>1, FeedTrades DEF Trades
<1>3. ~(read.rows[v][i].recv > read.rows[v][j].recv) BY DEF OutOfRecvOrder
<1> QED BY <1>2, <1>3

\* What the bars of the tape say of it, and those of the venues of their seconds.
LEMMA AggBarsSay ==
    ASSUME AggDone
    PROVE  /\ \A b \in By(Agg) : /\ b.ts \in Seconds(Tape)
                                 /\ b.open = Head(KeptIn(Tape, b.ts)).price
                                 /\ b.close = Last(KeptIn(Tape, b.ts)).price
           /\ \A s \in Seconds(Tape) : \E b \in By(Agg) : b.ts = s
<1>1. PICK st : By(Agg) = AggRows(Tape, st, Now) BY DEF AggDone
<1>2. \A s : LET b == AggBar(Tape, st, Now, s)
             IN  /\ b.ts = s
                 /\ b.open = Head(KeptIn(Tape, s)).price /\ b.close = Last(KeptIn(Tape, s)).price
  BY BarSays DEF AggBar
<1> QED BY <1>1, <1>2 DEF AggRows

LEMMA VenueBarsSay ==
    ASSUME NEW v, VenueDone(v), NEW s \in Secs(read.rows[v])
    PROVE  \E b \in bars : /\ b.build = Now /\ b.series = v /\ b.ts = s
                           /\ b.close = Last(InSecond(read.rows[v], s)).price
<1>1. PICK st : By(v) = VenueRows(read.rows[v], v, st, Now) BY DEF VenueDone
<1> DEFINE b == VenueBar(read.rows[v], v, st, Now, s)
<1>2. b \in By(v) BY <1>1 DEF VenueRows
<1>3. b.ts = s /\ b.close = Last(InSecond(read.rows[v], s)).price BY BarSays DEF VenueBar
<1> QED BY <1>2, <1>3 DEF By

LEMMA TapeGivesBars == TapeInv => AggBarsOfTape
<1> SUFFICES ASSUME TapeInv, Built PROVE AggBarsOfTape
  BY DEF AggBarsOfTape
<1>1. AggDone BY DEF Built, At, TapeInv, Progress
<1>2. Lists(read.rows, Feed) /\ RowsSorted BY DEF TapeInv, RowsSorted
<1>3. Tape \in Seq(Feed) BY <1>2, FeedTrades, MergeFacts DEF Tape
<1>4. {b.ts : b \in By(Agg)} = {Sec(t) : t \in {u \in Range(Tape) : Eligible(u)}}
  <2>1. {b.ts : b \in By(Agg)} = Seconds(Tape) BY <1>1, AggBarsSay
  <2> QED BY <2>1, EligibleSeconds
<1>5. ASSUME NEW b \in By(Agg)
      PROVE  LET kept == {t \in KeptOf(Tape) : Sec(t) = b.ts}
             IN  \E first, last \in kept :
                    /\ b.open = first.price /\ b.close = last.price
                    /\ \A t \in kept : first.ts <= t.ts /\ t.ts <= last.ts
                    /\ OutOfRecvOrder(b.ts) \/ \A t \in kept : ~Precedes(t, first) /\ ~Precedes(last, t)
  <2> DEFINE kept == {t \in KeptOf(Tape) : Sec(t) = b.ts}
  <2> DEFINE q == KeptIn(Tape, b.ts)
  <2>1. b.ts \in Seconds(Tape) /\ b.open = Head(q).price /\ b.close = Last(q).price BY <1>1, AggBarsSay
  <2>2. kept = Range(q) BY <1>3, <2>1, FeedTrades, KeptOfSecond DEF KeptOf
  <2>3. /\ Head(q) \in Range(q) /\ Last(q) \in Range(q)
        /\ \A t \in Range(q) : Head(q).ts <= t.ts /\ t.ts <= Last(q).ts
        /\ InRecvOrder(read.rows, b.ts) => \A t \in Range(q) : ~Precedes(t, Head(q)) /\ ~Precedes(Last(q), t)
    <3>1. Tape = MergeTrades(read.rows) BY DEF Tape
    <3> HIDE DEF q
    <3>2. q = KeptIn(Tape, b.ts) BY DEF q
    <3> QED BY <1>2, <2>1, <3>1, <3>2, FeedTrades, SecondOfTape
  <2>4. OutOfRecvOrder(b.ts) \/ InRecvOrder(read.rows, b.ts) BY <1>2, OrderOfReceipt
  <2> HIDE DEF kept, q
  <2>5. /\ Head(q) \in kept /\ Last(q) \in kept
        /\ b.open = Head(q).price /\ b.close = Last(q).price
        /\ \A t \in kept : Head(q).ts <= t.ts /\ t.ts <= Last(q).ts
        /\ OutOfRecvOrder(b.ts) \/ \A t \in kept : ~Precedes(t, Head(q)) /\ ~Precedes(Last(q), t)
    BY <2>1, <2>2, <2>3, <2>4
  <2>6. \E first, last \in kept :
           /\ b.open = first.price /\ b.close = last.price
           /\ \A t \in kept : first.ts <= t.ts /\ t.ts <= last.ts
           /\ OutOfRecvOrder(b.ts) \/ \A t \in kept : ~Precedes(t, first) /\ ~Precedes(last, t)
    BY <2>5
  <2> QED BY <2>6 DEF kept
<1> QED BY <1>4, <1>5 DEF AggBarsOfTape

LEMMA InsideOfKept == FiniteBars /\ TapeInv => OutsideOnlyWhenDropped
<1> SUFFICES ASSUME FiniteBars, TapeInv, Built, NEW b \in By(Agg),
                    \A t \in Range(Tape) : Sec(t) = b.ts => t \in KeptOf(Tape),
                    OutsideVenues(b, {c \in bars : c.build = Now /\ c.series # Agg})
             PROVE  FALSE
  BY DEF OutsideOnlyWhenDropped
<1> DEFINE others == {c \in bars : c.build = Now /\ c.series # Agg}
<1> DEFINE closes == ClosesAt(others, b.ts)
<1>1. AggDone /\ todo = {} /\ \A v \in Venues : VenueDone(v)
  BY DEF Built, At, TapeInv, Progress, Building
<1>2. Lists(read.rows, Feed) BY DEF TapeInv, RowsSorted
<1>3. Tape \in Seq(Feed) /\ Tape = MergeTrades(read.rows) BY <1>2, FeedTrades, MergeFacts DEF Tape
<1> DEFINE q == KeptIn(Tape, b.ts)
<1>4. b.ts \in Seconds(Tape) /\ b.close = Last(q).price BY <1>1, AggBarsSay
<1>5. \A t \in Range(Tape) : Sec(t) = b.ts => t \in Range(q)
  <2>1. {t \in KeptOf(Tape) : Sec(t) = b.ts} = Range(q) BY <1>3, <1>4, FeedTrades, KeptOfSecond DEF KeptOf
  <2> QED BY <2>1
<1>6. PICK v \in Venues : b.ts \in Secs(read.rows[v]) /\ Last(q) = Last(InSecond(read.rows[v], b.ts))
  <2>1. q = KeptIn(Tape, b.ts) OBVIOUS
  <2> HIDE DEF q
  <2> QED BY <1>2, <1>3, <1>4, <1>5, <2>1, FeedTrades, AllKept
<1> HIDE DEF q
<1>7. PICK c \in bars : /\ c.build = Now /\ c.series = v /\ c.ts = b.ts
                        /\ c.close = Last(InSecond(read.rows[v], b.ts)).price
  BY <1>1, <1>6, VenueBarsSay
<1>8. v # Agg BY Numbers
<1>9. b.close \in closes BY <1>4, <1>6, <1>7, <1>8 DEF ClosesAt
<1>10. closes \in SUBSET Nat
  <2>1. \A d \in others : d.close \in Nat BY DEF Built, At, TapeInv, Progress, Building
  <2> QED BY <2>1 DEF ClosesAt
<1>11. IsFiniteSet(closes)
  <2> DEFINE these == {d \in others : d.ts = b.ts}
  <2> DEFINE close == [d \in these |-> d.close]
  <2>1. these \subseteq VenueBars(bars) BY DEF VenueBars
  <2>2. IsFiniteSet(these)
    <3> HIDE DEF these
    <3> QED BY <2>1, FS_Subset DEF FiniteBars
  <2>3. closes = {d.close : d \in these} BY DEF ClosesAt
  <2> HIDE DEF these, closes
  <2>4. close \in Surjection(these, closes) BY <2>3 DEF Surjection
  <2> QED BY <2>2, <2>4, FS_Surjection
<1>12. closes # {} /\ (b.close < Min(closes) \/ b.close > Max(closes)) BY DEF OutsideVenues
<1> HIDE DEF closes
<1>13. Min(closes) \in Nat /\ Max(closes) \in Nat /\ Min(closes) <= b.close /\ b.close <= Max(closes)
  BY <1>9, <1>10, <1>11, <1>12, LeastExists, GreatestExists
<1>14. b.close \in Nat BY <1>9, <1>10, Zenon
<1> QED BY <1>12, <1>13, <1>14

\* Each second with an eligible trade has an agg bar, and no other has; it opens
\* and closes with the first and the last trade that the filter keeps, whatever
\* order the venues' rows and the heap bring (core/consolidated.py:46-92).
THEOREM AggBarsFollowTape == Spec => []AggBarsOfTape
BY InitIInv, NextKeepsIInv, InitTape, NextKeepsTape, TapeGivesBars, PTL DEF Spec

\* An agg close outside the venues' closes, the error of quality/checks.py:245-273,
\* is never the builder's doing: a trade of that second was late, empty or an
\* outlier.
THEOREM OutsideExplained == Spec => []OutsideOnlyWhenDropped
BY InitIInv, NextKeepsIInv, InitFinite, StepFinite, InitTape, NextKeepsTape, InsideOfKept, PTL DEF Spec

-----------------------------------------------------------------------------
(* Longer bars of the store                                                *)

\* A bar that is written tells of the same trades.
LEMMA MarkedTells ==
    ASSUME NEW q, NEW at, NEW series, NEW now, NEW n, NEW b, b = BarOf(q, at, series, now),
           NEW c, c = Marked(b, n), NEW T, NEW I, Tells(b, T, I)
    PROVE  Tells(c, T, I) /\ c.mask = b.mask /\ c.ts = at /\ c.series = series /\ c.build = n
<1>1. /\ c.ts = at /\ c.series = series /\ c.build = n
      /\ c.open = b.open /\ c.close = b.close /\ c.high = b.high /\ c.low = b.low
      /\ c.volume = b.volume /\ c.pxv = b.pxv /\ c.trades = b.trades /\ c.mask = b.mask
  BY DEF BarOf, Marked
<1> QED BY <1>1 DEF Tells

LEMMA VenueSecondBars ==
    ASSUME NEW X, Trades(X), NEW rows \in Seq(X), NEW v, NEW st, NEW n \in Nat,
           NEW bar, bar = [s \in Secs(rows) |-> VenueBar(rows, v, st, n, s)], v # Agg
    PROVE  /\ SecondBars(bar, Secs(rows), rows, DOMAIN rows, v)
           /\ BarsAt(bar, Secs(rows)) = VenueRows(rows, v, st, n)
<1>1. ASSUME NEW s \in Secs(rows)
      PROVE  /\ Tells(bar[s], rows, AtSecond(rows, DOMAIN rows, s))
             /\ bar[s].ts = s /\ bar[s].series = v /\ bar[s].build = n /\ bar[s].mask = {}
  <2> DEFINE I == AtSecond(rows, DOMAIN rows, s)
  <2> DEFINE q == InSecond(rows, s)
  <2> DEFINE b == BarOf(q, s, v, st)
  <2>1. q \in Seq(X) /\ q # <<>> /\ \E at : PickedAt(q, rows, I, at) BY InSecondFacts DEF AtSecond
  <2>2. I \in SUBSET DOMAIN rows BY DEF AtSecond
  <2>3. bar[s] = Marked(b, n) BY DEF VenueBar
  <2> HIDE DEF q, I
  <2>4. PICK at : PickedAt(q, rows, I, at) BY <2>1
  <2>5. Tells(b, rows, I) /\ b.mask = {} BY <2>1, <2>2, <2>4, BarTells
  <2> HIDE DEF b
  <2>6. b = BarOf(q, s, v, st) BY DEF b
  <2>7. /\ Tells(bar[s], rows, I) /\ bar[s].mask = b.mask /\ bar[s].ts = s
        /\ bar[s].series = v /\ bar[s].build = n
    BY <2>3, <2>5, <2>6, MarkedTells
  <2> QED BY <2>5, <2>7 DEF I
<1>2. SecondBars(bar, Secs(rows), rows, DOMAIN rows, v) BY <1>1 DEF SecondBars, Secs
<1> QED BY <1>2 DEF BarsAt, VenueRows

\* The places of what the filter keeps.
KeptPlaces(T) == {i \in DOMAIN T : T[i] \in KeptOf(T)}

LEMMA KeptSeconds ==
    ASSUME NEW X, Trades(X), NEW T \in Seq(X)
    PROVE  Seconds(T) = {Sec(T[i]) : i \in KeptPlaces(T)}
<1>1. ASSUME NEW s \in Seconds(T) PROVE \E i \in KeptPlaces(T) : Sec(T[i]) = s
  <2> DEFINE q == KeptIn(T, s)
  <2>1. q \in Seq(X) /\ q # <<>> BY KeptFacts
  <2>2. Head(q) \in Range(q) BY <2>1, HeadAndLast
  <2>3. Head(q) \in KeptOf(T) /\ Sec(Head(q)) = s BY <2>2, KeptOfSecond DEF KeptOf
  <2>4. Head(q) \in Range(T) BY <2>2, KeptRange
  <2>5. PICK i \in DOMAIN T : T[i] = Head(q) BY <2>4 DEF Range
  <2> QED BY <2>3, <2>5 DEF KeptPlaces
<1>2. ASSUME NEW i \in KeptPlaces(T) PROVE Sec(T[i]) \in Seconds(T)
  <2>1. Filtered(T) = {KeptIn(T, s) : s \in Seconds(T)} BY SecondsFacts
  <2>2. PICK s \in Seconds(T) : T[i] \in Range(KeptIn(T, s)) BY <2>1 DEF KeptPlaces, KeptOf
  <2>3. Sec(T[i]) = s BY <2>2, KeptRange
  <2> QED BY <2>3
<1> QED BY <1>1, <1>2

LEMMA KeptOfPlaces ==
    ASSUME NEW X, Trades(X), NEW T \in Seq(X), NEW s \in Seconds(T), NEW q, q = KeptIn(T, s)
    PROVE  \E at : PickedAt(q, T, AtSecond(T, KeptPlaces(T), s), at)
<1>1. PICK K, at : KeptAt(q, T, s, K, at) BY KeptFacts
<1>2. K \subseteq DOMAIN T /\ PickedAt(q, T, K, at) BY <1>1 DEF KeptAt
<1>3. \A t : t \in KeptOf(T) /\ Sec(t) = s <=> t \in Range(q)
  <2>1. {t \in KeptOf(T) : Sec(t) = s} = Range(q) BY KeptOfSecond DEF KeptOf
  <2>2. \A t \in Range(q) : Sec(t) = s BY KeptRange
  <2> QED BY <2>1, <2>2
<1>4. ASSUME NEW i \in K PROVE i \in AtSecond(T, KeptPlaces(T), s)
  <2>1. PICK k \in DOMAIN q : at[k] = i BY <1>2 DEF PickedAt
  <2>2. T[i] = q[k] BY <1>2, <2>1 DEF PickedAt
  <2>3. T[i] \in Range(q) BY <2>2 DEF Range
  <2> QED BY <1>2, <1>3, <2>3 DEF AtSecond, KeptPlaces
<1>5. ASSUME NEW i \in AtSecond(T, KeptPlaces(T), s) PROVE i \in K
  <2>1. i \in DOMAIN T /\ T[i] \in KeptOf(T) /\ Sec(T[i]) = s BY DEF AtSecond, KeptPlaces
  <2>2. PICK k \in DOMAIN q : q[k] = T[i] BY <1>3, <2>1 DEF Range
  <2>3. at[k] \in K /\ T[i] = T[at[k]] BY <1>2, <2>2 DEF PickedAt
  <2> QED BY <1>1, <2>1, <2>3 DEF KeptAt
<1>6. K = AtSecond(T, KeptPlaces(T), s) BY <1>4, <1>5
<1> QED BY <1>2, <1>6

LEMMA AggSecondBars ==
    ASSUME NEW X, Trades(X), NEW T \in Seq(X), NEW st, NEW n \in Nat,
           NEW bar, bar = [s \in Seconds(T) |-> AggBar(T, st, n, s)]
    PROVE  /\ SecondBars(bar, Seconds(T), T, KeptPlaces(T), Agg)
           /\ BarsAt(bar, Seconds(T)) = AggRows(T, st, n)
<1>1. ASSUME NEW s \in Seconds(T)
      PROVE  /\ Tells(bar[s], T, AtSecond(T, KeptPlaces(T), s))
             /\ bar[s].ts = s /\ bar[s].series = Agg /\ bar[s].build = n
             /\ bar[s].mask = {T[i].venue : i \in AtSecond(T, KeptPlaces(T), s)}
  <2> DEFINE I == AtSecond(T, KeptPlaces(T), s)
  <2> DEFINE q == KeptIn(T, s)
  <2> DEFINE b == BarOf(q, s, Agg, st)
  <2>1. q \in Seq(X) /\ q # <<>> /\ \E at : PickedAt(q, T, I, at) BY KeptFacts, KeptOfPlaces
  <2>2. I \in SUBSET DOMAIN T BY DEF AtSecond, KeptPlaces
  <2>3. bar[s] = Marked(b, n) BY DEF AggBar
  <2> HIDE DEF q, I
  <2>4. PICK at : PickedAt(q, T, I, at) BY <2>1
  <2>5. Tells(b, T, I) /\ b.mask = {T[i].venue : i \in I}
    <3>1. PICK series : series = Agg OBVIOUS
    <3>2. b = BarOf(q, s, series, st) BY <3>1
    <3> HIDE DEF b
    <3>3. Tells(b, T, I) /\ b.mask = IF series = Agg THEN {T[i].venue : i \in I} ELSE {}
      BY <2>1, <2>2, <2>4, <3>2, BarTells
    <3> QED BY <3>1, <3>3
  <2> HIDE DEF b
  <2>6. b = BarOf(q, s, Agg, st) BY DEF b
  <2>7. /\ Tells(bar[s], T, I) /\ bar[s].mask = b.mask /\ bar[s].ts = s
        /\ bar[s].series = Agg /\ bar[s].build = n
    BY <2>3, <2>5, <2>6, MarkedTells
  <2> QED BY <2>5, <2>7 DEF I
<1>2. SecondBars(bar, Seconds(T), T, KeptPlaces(T), Agg) BY <1>1, KeptSeconds DEF SecondBars
<1> QED BY <1>2 DEF BarsAt, AggRows

LEMMA BarsGiveLonger == IInv /\ TapeInv => ResampleIsBarOfTrades
<1> SUFFICES ASSUME IInv, TapeInv, Built, NEW s \in Series, Of(s) = By(s),
                    NEW rows, rows = IF s = Agg THEN Selected(Tape, KeptPlaces(Tape)) ELSE read.rows[s]
             PROVE  Longer(GetBars(s, Window, clock), rows, s, Window)
  <2> SUFFICES ASSUME IInv, TapeInv, Built, NEW s \in Series, Of(s) = By(s)
               PROVE  \E rows \in {IF s = Agg THEN Selected(Tape, KeptPlaces(Tape)) ELSE read.rows[s]} :
                          Longer(GetBars(s, Window, clock), rows, s, Window)
    BY Zenon DEF ResampleIsBarOfTrades, Longer, WindowIs, KeptPlaces
  <2> QED OBVIOUS
<1>1. TypeOK /\ builds \in Nat /\ clock \in Nat BY Numbers DEF IInv, TypeOK
<1>2. Window \in Nat \ {0} BY DEF Window
<1>3. GetBars(s, Window, clock) = ResampleBars(ByTime(By(s)), Window)
  <2>1. \A b \in bars : b.stamp <= clock BY <1>1 DEF TypeOK
  <2>2. {b \in AsOf(clock) : b.series = s} = Of(s) BY <2>1 DEF AsOf, Of
  <2> QED BY <2>2 DEF GetBars
<1>4. AggDone /\ \A v \in Venues : VenueDone(v) BY DEF Built, At, TapeInv, Progress, Building
<1>5. Lists(read.rows, Feed) BY DEF TapeInv, RowsSorted
<1>6. CASE s # Agg
  <2>1. s \in Venues /\ rows = read.rows[s] BY <1>1, <1>6 DEF Series, TypeOK
  <2>2. rows \in Seq(Feed) /\ InTime(rows) BY <1>5, <2>1 DEF Lists, InTime
  <2>3. PICK st : By(s) = VenueRows(rows, s, st, Now) BY <1>4, <2>1 DEF VenueDone
  <2> DEFINE bar == [x \in Secs(rows) |-> VenueBar(rows, s, st, Now, x)]
  <2>4. /\ SecondBars(bar, Secs(rows), rows, DOMAIN rows, s)
        /\ BarsAt(bar, Secs(rows)) = By(s)
    <3>1. bar = [x \in Secs(rows) |-> VenueBar(rows, s, st, Now, x)] OBVIOUS
    <3>2. Now \in Nat BY <1>1 DEF Now
    <3> HIDE DEF bar
    <3> QED BY <1>6, <2>2, <2>3, <3>1, <3>2, FeedTrades, VenueSecondBars
  <2> HIDE DEF bar
  <2>5. PICK f : PickedAt(rows, rows, DOMAIN rows, f) BY <2>2, WholeFacts
  <2>6. DOMAIN rows \in SUBSET DOMAIN rows OBVIOUS
  <2> DEFINE long == GetBars(s, Window, clock)
  <2>7. long = ResampleBars(ByTime(BarsAt(bar, Secs(rows))), Window) BY <1>3, <2>4
  <2> HIDE DEF long
  <2>8. Longer(long, rows, s, Window) BY <1>2, <2>2, <2>4, <2>5, <2>6, <2>7, FeedTrades, LongBars
  <2> QED BY <2>8 DEF long
<1>7. CASE s = Agg
  <2> DEFINE A == KeptPlaces(Tape)
  <2>1. Tape \in Seq(Feed) /\ InTime(Tape)
    <3>1. Tape = MergeTrades(read.rows) BY DEF Tape
    <3>2. Tape \in Seq(Feed) /\ \E at : MergedAt(Tape, read.rows, at) BY <1>5, <3>1, FeedTrades, MergeFacts
    <3>3. PICK at : MergedAt(Tape, read.rows, at) BY <3>2
    <3>4. \A i, j \in DOMAIN Tape : i < j => Tape[i].ts <= Tape[j].ts BY <1>5, <3>3, FeedTrades, TapeByTs
    <3> QED BY <3>2, <3>4 DEF InTime
  <2>2. PICK st : By(s) = AggRows(Tape, st, Now) BY <1>4, <1>7 DEF AggDone
  <2> DEFINE bar == [x \in Seconds(Tape) |-> AggBar(Tape, st, Now, x)]
  <2>3. SecondBars(bar, Seconds(Tape), Tape, A, s) /\ BarsAt(bar, Seconds(Tape)) = By(s)
    <3>1. bar = [x \in Seconds(Tape) |-> AggBar(Tape, st, Now, x)] OBVIOUS
    <3>2. Now \in Nat BY <1>1 DEF Now
    <3> HIDE DEF bar
    <3> QED BY <1>7, <2>1, <2>2, <3>1, <3>2, FeedTrades, AggSecondBars
  <2> HIDE DEF bar
  <2>4. A \in SUBSET DOMAIN Tape /\ rows = Selected(Tape, A) BY <1>7 DEF KeptPlaces
  <2> HIDE DEF A
  <2>5. rows \in Seq(Feed) /\ \E f : PickedAt(rows, Tape, A, f) BY <2>1, <2>4, SelectedFacts
  <2>6. PICK f : PickedAt(rows, Tape, A, f) BY <2>5
  <2> DEFINE long == GetBars(s, Window, clock)
  <2>7. long = ResampleBars(ByTime(BarsAt(bar, Seconds(Tape))), Window) BY <1>3, <2>3
  <2> HIDE DEF long
  <2>8. Longer(long, rows, s, Window) BY <1>2, <2>1, <2>3, <2>4, <2>5, <2>6, <2>7, FeedTrades, LongBars
  <2> QED BY <2>8 DEF long
<1> QED BY <1>6, <1>7

\* Longer bars are what the trades of their windows give at that length, whatever
\* the prices, sizes and times of the trades, but for the mask, which names some of
\* the venues (core/resample.py:30-53).
THEOREM ResampleFollowsTrades == Spec => []ResampleIsBarOfTrades
BY InitIInv, NextKeepsIInv, InitTape, NextKeepsTape, BarsGiveLonger, PTL DEF Spec
=============================================================================
