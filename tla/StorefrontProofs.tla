--------------------------- MODULE StorefrontProofs ---------------------------
(***************************************************************************)
(* Proofs about what customers are shown and what they are charged: every  *)
(* price, discount and total of CheckoutPricing, and every page and order  *)
(* of Storefront, for any menu, vouchers, carts and requests.              *)
(***************************************************************************)
EXTENDS Storefront, CheckoutPricing, SequenceTheorems, FiniteSetTheorems, WellFoundedInduction,
        TLAPS

-----------------------------------------------------------------------------
(* Induction and folds *)

\* Induction over 0..N, for a set of numbers.
LEMMA UpTo ==
    ASSUME NEW N \in Nat, NEW D \in SUBSET (0..N), 0 \in D, \A n \in 1..N : n - 1 \in D => n \in D
    PROVE  D = 0..N
<1> DEFINE less == {p \in Nat \X Nat : p[1] < p[2]}
           I == (0..N) \ D
<1>1. IsWellFoundedOn(less, Nat)
  BY NatLessThanWellFounded DEF OpToRel
<1>2. I \subseteq Nat
  OBVIOUS
<1>3. ASSUME I # {} PROVE FALSE
  <2>1. PICK x \in I : \A y \in I : ~(<<y, x>> \in less)
    <3> HIDE DEF less, I
    <3> QED
      BY <1>1, <1>2, <1>3, WFMin, Zenon
  <2>2. \A y \in I : ~(y < x)
    BY <1>2, <2>1
  <2>3. x \in 1..N /\ x - 1 \in 0..N
    OBVIOUS
  <2>4. x - 1 \in D
    BY <2>2, <2>3
  <2> QED
    BY <2>3, <2>4
<1> QED
  BY <1>3

\* The largest of some of 1..N is one of them.
LEMMA MaxOf ==
    ASSUME NEW N \in Nat, NEW S \in SUBSET (1..N), S # {}
    PROVE  Max(S) \in S /\ \A x \in S : x =< Max(S)
<1> DEFINE Bounded(n) == \A T \in SUBSET (1..n) : T # {} => \E m \in T : \A x \in T : m >= x
           D == {n \in 0..N : Bounded(n)}
<1>1. 0 \in D
  <2>1. \A T \in SUBSET (1..0) : T = {}
    OBVIOUS
  <2>2. Bounded(0)
    BY <2>1, Zenon
  <2> HIDE DEF Bounded
  <2> QED
    BY <2>2
<1>2. ASSUME NEW n \in 1..N, n - 1 \in D PROVE n \in D
  <2>1. ASSUME NEW T \in SUBSET (1..n), T # {} PROVE \E m \in T : \A x \in T : m >= x
    <3>1. CASE n \in T
      <4>1. \A x \in T : n >= x
        OBVIOUS
      <4> QED
        BY <3>1, <4>1
    <3>2. CASE n \notin T
      <4>1. T \in SUBSET (1..(n - 1))
        BY <3>2
      <4> QED
        BY <4>1, <1>2, <2>1, Zenon
    <3> QED
      BY <3>1, <3>2
  <2>2. Bounded(n)
    BY <2>1, Zenon
  <2> HIDE DEF Bounded
  <2> QED
    BY <2>2
<1>3. D = 0..N
  <2>1. D \in SUBSET (0..N)
    OBVIOUS
  <2> HIDE DEF D
  <2> QED
    BY <1>1, <1>2, <2>1, UpTo
<1>4. \E m \in S : \A x \in S : m >= x
  <2>1. Bounded(N)
    <3> HIDE DEF Bounded
    <3> QED
      BY <1>3
  <2> QED
    BY <2>1, Zenon
<1>5. Max(S) \in S /\ \A x \in S : Max(S) >= x
  BY <1>4, Zenon DEF Max
<1>6. S \subseteq Int
  OBVIOUS
<1> QED
  BY <1>5, <1>6

\* The table of a fold: its value on every set of indices.
IsTable(g, N, base, step) ==
    \A S \in SUBSET (1..N) : g[S] = IF S = {} THEN base ELSE step[Max(S)][g[S \ {Max(S)}]]

HasTable(N, B, base, step) == \E g \in [SUBSET (1..N) -> B] : IsTable(g, N, base, step)

\* Every fold has such a table, built up one size of index set after another.
LEMMA FoldTable ==
    ASSUME NEW N \in Nat, NEW B, NEW base \in B, NEW step \in [1..N -> [B -> B]]
    PROVE  HasTable(N, B, base, step)
<1> DEFINE Table(g, n) == \A S \in SUBSET (1..n) :
                             g[S] = IF S = {} THEN base ELSE step[Max(S)][g[S \ {Max(S)}]]
           Exists(n) == \E g \in [SUBSET (1..n) -> B] : Table(g, n)
           D == {n \in 0..N : Exists(n)}
<1>1. 0 \in D
  <2> DEFINE g == [S \in SUBSET (1..0) |-> base]
  <2>1. g \in [SUBSET (1..0) -> B]
    OBVIOUS
  <2>2. \A S \in SUBSET (1..0) : S = {}
    OBVIOUS
  <2>3. Table(g, 0)
    BY <2>2
  <2>4. 0 \in 0..N
    OBVIOUS
  <2> HIDE DEF g, Table
  <2> QED
    BY <2>1, <2>3, <2>4
<1>2. ASSUME NEW n \in 1..N, n - 1 \in D PROVE n \in D
  <2>1. PICK g \in [SUBSET (1..(n - 1)) -> B] : Table(g, n - 1)
    <3> HIDE DEF Table
    <3> QED
      BY <1>2
  <2> DEFINE h == [S \in SUBSET (1..n) |-> IF n \in S THEN step[n][g[S \ {n}]] ELSE g[S]]
  <2>2. \A S \in SUBSET (1..n) : S \ {n} \in SUBSET (1..(n - 1))
          /\ (n \notin S => S \in SUBSET (1..(n - 1)))
    OBVIOUS
  <2>3. h \in [SUBSET (1..n) -> B]
    <3>1. \A S \in SUBSET (1..n) : (IF n \in S THEN step[n][g[S \ {n}]] ELSE g[S]) \in B
      BY <2>2
    <3> QED
      BY <3>1
  <2>4. ASSUME NEW S \in SUBSET (1..n)
        PROVE  h[S] = IF S = {} THEN base ELSE step[Max(S)][h[S \ {Max(S)}]]
    <3>1. CASE n \in S
      <4>0. n \in Nat /\ S # {}
        BY <3>1
      <4>1. Max(S) \in S /\ \A x \in S : x =< Max(S)
        BY <4>0, MaxOf
      <4>2. Max(S) = n
        <5>1. n =< Max(S) /\ Max(S) \in 1..n
          BY <3>1, <4>1, Zenon
        <5> QED
          BY <5>1
      <4>3. S \ {n} \in SUBSET (1..n) /\ n \notin S \ {n}
        OBVIOUS
      <4>4. h[S \ {n}] = g[S \ {n}]
        BY <4>3
      <4>5. h[S] = step[n][g[S \ {n}]]
        BY <3>1
      <4> HIDE DEF h
      <4> QED
        BY <3>1, <4>2, <4>4, <4>5
    <3>2. CASE n \notin S
      <4>1. S \in SUBSET (1..(n - 1)) /\ h[S] = g[S]
        BY <3>2, <2>2
      <4>2. h[S \ {Max(S)}] = g[S \ {Max(S)}]
        <5>1. S \ {Max(S)} \in SUBSET (1..n) /\ n \notin S \ {Max(S)}
          BY <3>2
        <5> QED
          BY <5>1
      <4>3. g[S] = IF S = {} THEN base ELSE step[Max(S)][g[S \ {Max(S)}]]
        BY <2>1, <4>1, Zenon
      <4> HIDE DEF h
      <4> QED
        BY <4>1, <4>2, <4>3, Zenon
    <3> QED
      BY <3>1, <3>2
  <2>5. Table(h, n)
    BY <2>4
  <2>6. n \in 0..N
    OBVIOUS
  <2> HIDE DEF h, Table
  <2> QED
    BY <2>3, <2>5, <2>6
<1>3. D = 0..N
  <2>1. D \in SUBSET (0..N)
    OBVIOUS
  <2> HIDE DEF D
  <2> QED
    BY <1>1, <1>2, <2>1, UpTo
<1>4. \E g \in [SUBSET (1..N) -> B] : Table(g, N)
  <2>1. Exists(N)
    <3> HIDE DEF Exists
    <3> QED
      BY <1>3
  <2> QED
    BY <2>1
<1> QED
  BY <1>4, Zenon DEF HasTable, IsTable

\* What a table says of the runs 1..n: a fold takes one step after another.
Follows(it, N, B, base, step) ==
    /\ it[{}] = base
    /\ \A S \in SUBSET (1..N) :
          S # {} /\ it[S \ {Max(S)}] \in B => it[S] = step[Max(S)][it[S \ {Max(S)}]]

HasRuns(it, N, B, base, step) ==
    \E f \in [0..N -> B] : /\ f[0] = base /\ \A n \in 1..N : f[n] = step[n][f[n - 1]]
                           /\ \A n \in 0..N : it[1..n] = f[n]

\* So a fold goes through 1, 2, ..., N, and ends with its value on all of 1..N.
LEMMA FoldRuns ==
    ASSUME NEW N \in Nat, NEW B, NEW base \in B, NEW step \in [1..N -> [B -> B]], NEW it,
           Follows(it, N, B, base, step)
    PROVE  HasRuns(it, N, B, base, step)
<1> DEFINE D == {n \in 0..N : it[1..n] \in B}
           f == [n \in 0..N |-> it[1..n]]
<1>1. 1..0 = {}
  OBVIOUS
<1>2. ASSUME NEW n \in 1..N
      PROVE  /\ 1..n \in SUBSET (1..N) /\ 1..n # {} /\ Max(1..n) = n
             /\ (1..n) \ {n} = 1..(n - 1)
  <2>1. 1..n \in SUBSET (1..N) /\ 1..n # {} /\ n \in 1..n
    OBVIOUS
  <2>2. Max(1..n) \in 1..n /\ \A x \in 1..n : x =< Max(1..n)
    BY <2>1, MaxOf
  <2>3. Max(1..n) = n
    BY <2>1, <2>2
  <2> QED
    BY <2>1, <2>3
<1>3. ASSUME NEW n \in 1..N, it[1..(n - 1)] \in B
      PROVE  it[1..n] = step[n][it[1..(n - 1)]]
  BY <1>2, <1>3 DEF Follows
<1>4. D = 0..N
  <2>1. 0 \in D
    BY <1>1 DEF Follows
  <2>2. ASSUME NEW n \in 1..N, n - 1 \in D PROVE n \in D
    BY <1>3, <2>2
  <2>3. D \in SUBSET (0..N)
    OBVIOUS
  <2> HIDE DEF D
  <2> QED
    BY <2>1, <2>2, <2>3, UpTo
<1>5. f \in [0..N -> B]
  BY <1>4
<1>6. \A n \in 1..N : f[n] = step[n][f[n - 1]]
  BY <1>3, <1>4
<1>7. f[0] = base
  BY <1>1 DEF Follows
<1> QED
  BY <1>5, <1>6, <1>7 DEF HasRuns

-----------------------------------------------------------------------------
(* Totals *)

\* A total is the last of its partial sums.
LEMMA TotalRuns ==
    ASSUME NEW s \in Seq(Int)
    PROVE  \E f \in [0..Len(s) -> Int] :
              /\ f[0] = 0 /\ \A n \in 1..Len(s) : f[n] = f[n - 1] + s[n]
              /\ Total(s) = f[Len(s)]
<1> DEFINE N == Len(s)
           step == [n \in 1..N |-> [x \in Int |-> x + s[n]]]
           B == Int
           base == 0
           F(g) == [S \in SUBSET DOMAIN s |-> IF S = {} THEN 0 ELSE g[S \ {Max(S)}] + s[Max(S)]]
           it == CHOOSE g : g = [S \in SUBSET DOMAIN s |-> IF S = {}
                                                           THEN 0
                                                           ELSE g[S \ {Max(S)}] + s[Max(S)]]
<1>1. N \in Nat /\ DOMAIN s = 1..N /\ \A n \in 1..N : s[n] \in Int
  OBVIOUS
<1>2. step \in [1..N -> [Int -> Int]]
  BY <1>1
<1>3. \A S \in SUBSET (1..N) : S # {} => Max(S) \in 1..N /\ S \ {Max(S)} \in SUBSET (1..N)
  <2> HIDE DEF N
  <2> QED
    BY <1>1, MaxOf
<1>4. \A n \in 1..N, x \in Int : step[n][x] = x + s[n]
  OBVIOUS
<1>5. Total(s) = it[DOMAIN s]
  BY DEF Total, FoldLeft, MapThenFoldSet
<1> HIDE DEF N, step
<1>6. PICK g \in [SUBSET (1..N) -> Int] :
             \A S \in SUBSET (1..N) : g[S] = IF S = {} THEN 0 ELSE step[Max(S)][g[S \ {Max(S)}]]
  <2>1. N \in Nat /\ base \in B /\ step \in [1..N -> [B -> B]]
    BY <1>1, <1>2
  <2> HIDE DEF B, base
  <2>2. HasTable(N, B, base, step)
    BY <2>1, FoldTable
  <2> QED
    BY <2>2 DEF B, base, HasTable, IsTable
<1>7. g = F(g)
  <2>1. \A S \in SUBSET (1..N) : g[S] = IF S = {} THEN 0 ELSE g[S \ {Max(S)}] + s[Max(S)]
    BY <1>3, <1>4, <1>6
  <2>2. g = [S \in SUBSET (1..N) |-> g[S]]
    OBVIOUS
  <2> QED
    BY <1>1, <2>1, <2>2
<1>8. it = F(it)
  BY <1>7, Zenon
<1>9. /\ it[{}] = 0
      /\ \A S \in SUBSET (1..N) :
            S # {} /\ it[S \ {Max(S)}] \in Int => it[S] = step[Max(S)][it[S \ {Max(S)}]]
  <2> HIDE DEF it
  <2> QED
    BY <1>1, <1>3, <1>4, <1>8
<1>10. PICK f \in [0..N -> Int] :
              /\ f[0] = 0 /\ \A n \in 1..N : f[n] = step[n][f[n - 1]]
              /\ \A n \in 0..N : it[1..n] = f[n]
  <2>1. N \in Nat /\ base \in B /\ step \in [1..N -> [B -> B]]
    BY <1>1, <1>2
  <2> HIDE DEF it
  <2>2. Follows(it, N, B, base, step)
    BY <1>9, Zenon DEF Follows
  <2> HIDE DEF B, base
  <2>3. HasRuns(it, N, B, base, step)
    BY <2>1, <2>2, FoldRuns
  <2> QED
    BY <2>3 DEF B, base, HasRuns
<1>11. \A n \in 1..N : f[n] = f[n - 1] + s[n]
  <2>1. \A n \in 1..N : f[n - 1] \in Int
    BY <1>1
  <2> HIDE DEF it
  <2> QED
    BY <1>4, <1>10, <2>1
<1>12. Total(s) = f[N]
  <2>1. N \in 0..N
    BY <1>1
  <2> HIDE DEF it
  <2> QED
    BY <1>1, <1>5, <1>10, <2>1
<1> QED
  BY <1>10, <1>11, <1>12 DEF N

\* Whatever adds up step by step is the total.
LEMMA TotalIs ==
    ASSUME NEW s \in Seq(Int), NEW f \in [0..Len(s) -> Int], f[0] = 0,
           \A n \in 1..Len(s) : f[n] = f[n - 1] + s[n]
    PROVE  Total(s) = f[Len(s)]
<1>1. PICK g \in [0..Len(s) -> Int] :
              /\ g[0] = 0 /\ \A n \in 1..Len(s) : g[n] = g[n - 1] + s[n]
              /\ Total(s) = g[Len(s)]
  BY TotalRuns
<1> DEFINE D == {n \in 0..Len(s) : f[n] = g[n]}
<1>2. D = 0..Len(s)
  <2>1. 0 \in D
    BY <1>1
  <2>2. ASSUME NEW n \in 1..Len(s), n - 1 \in D PROVE n \in D
    BY <1>1, <2>2
  <2>3. D \in SUBSET (0..Len(s)) /\ Len(s) \in Nat
    OBVIOUS
  <2> HIDE DEF D
  <2> QED
    BY <2>1, <2>2, <2>3, UpTo
<1> QED
  BY <1>1, <1>2

LEMMA TotalInt ==
    ASSUME NEW s \in Seq(Int) PROVE Total(s) \in Int
BY TotalRuns

\* Amounts that are not negative add up to no less than any of them.
LEMMA TotalNat ==
    ASSUME NEW s \in Seq(Nat)
    PROVE  Total(s) \in Nat /\ \A i \in DOMAIN s : s[i] =< Total(s)
<1>1. s \in Seq(Int)
  OBVIOUS
<1>2. PICK f \in [0..Len(s) -> Int] :
              /\ f[0] = 0 /\ \A n \in 1..Len(s) : f[n] = f[n - 1] + s[n]
              /\ Total(s) = f[Len(s)]
  BY <1>1, TotalRuns
<1> DEFINE D == {n \in 0..Len(s) : f[n] \in Nat /\ \A i \in 1..n : s[i] =< f[n]}
<1>3. D = 0..Len(s)
  <2>1. 0 \in D
    BY <1>2
  <2>2. ASSUME NEW n \in 1..Len(s), n - 1 \in D PROVE n \in D
    <3>1. f[n] = f[n - 1] + s[n] /\ s[n] \in Nat /\ f[n - 1] \in Nat
      BY <1>2, <2>2
    <3>2. ASSUME NEW i \in 1..n PROVE s[i] =< f[n]
      <4>1. s[i] \in Nat
        OBVIOUS
      <4>2. i # n => s[i] =< f[n - 1]
        BY <2>2
      <4> QED
        BY <3>1, <4>1, <4>2
    <3> QED
      BY <3>1, <3>2
  <2>3. D \in SUBSET (0..Len(s)) /\ Len(s) \in Nat
    OBVIOUS
  <2> HIDE DEF D
  <2> QED
    BY <2>1, <2>2, <2>3, UpTo
<1>4. Len(s) \in D
  <2>1. Len(s) \in 0..Len(s)
    OBVIOUS
  <2> HIDE DEF D
  <2> QED
    BY <1>3, <2>1
<1> QED
  BY <1>2, <1>4

LEMMA TotalEmpty == Total(<<>>) = 0
<1>1. <<>> \in Seq(Int) /\ Len(<<>>) = 0
  OBVIOUS
<1> QED
  BY <1>1, TotalRuns

\* One amount more.
LEMMA TotalAppend ==
    ASSUME NEW s \in Seq(Int), NEW x \in Int
    PROVE  Total(Append(s, x)) = Total(s) + x
<1>1. PICK f \in [0..Len(s) -> Int] :
              /\ f[0] = 0 /\ \A n \in 1..Len(s) : f[n] = f[n - 1] + s[n]
              /\ Total(s) = f[Len(s)]
  BY TotalRuns
<1> DEFINE t == Append(s, x)
           g == [n \in 0..Len(t) |-> IF n = Len(t) THEN f[Len(s)] + x ELSE f[n]]
<1>2. t \in Seq(Int) /\ Len(t) = Len(s) + 1 /\ \A n \in 1..Len(t) : t[n] = IF n = Len(t)
                                                                           THEN x
                                                                           ELSE s[n]
  OBVIOUS
<1>3. g \in [0..Len(t) -> Int] /\ g[0] = 0 /\ g[Len(t)] = Total(s) + x
  <2>1. Len(s) \in Nat /\ Total(s) \in Int /\ Len(t) = Len(s) + 1
    BY <1>1, <1>2
  <2> HIDE DEF t
  <2> QED
    BY <1>1, <2>1
<1>4. \A n \in 1..Len(t) : g[n] = g[n - 1] + t[n]
  BY <1>1, <1>2
<1> HIDE DEF g
<1> QED
  BY <1>2, <1>3, <1>4, TotalIs

\* The total of sums is the sum of the totals.
LEMMA TotalSum ==
    ASSUME NEW n \in Nat, NEW s \in [1..n -> Int], NEW t \in [1..n -> Int]
    PROVE  Total([i \in 1..n |-> s[i] + t[i]]) = Total(s) + Total(t)
<1> DEFINE u == [i \in 1..n |-> s[i] + t[i]]
<1>0. s \in Seq(Int) /\ t \in Seq(Int) /\ u \in Seq(Int) /\ Len(s) = n /\ Len(t) = n /\ Len(u) = n
  OBVIOUS
<1>1. PICK f \in [0..n -> Int] :
              /\ f[0] = 0 /\ \A k \in 1..n : f[k] = f[k - 1] + s[k]
              /\ Total(s) = f[n]
  BY <1>0, TotalRuns
<1>2. PICK g \in [0..n -> Int] :
              /\ g[0] = 0 /\ \A k \in 1..n : g[k] = g[k - 1] + t[k]
              /\ Total(t) = g[n]
  BY <1>0, TotalRuns
<1> DEFINE h == [k \in 0..n |-> f[k] + g[k]]
<1>3. h \in [0..n -> Int] /\ h[0] = 0 /\ h[n] = f[n] + g[n]
  BY <1>1, <1>2
<1>4. \A k \in 1..n : h[k] = h[k - 1] + u[k]
  BY <1>1, <1>2
<1>5. Total(u) = h[n]
  <2> HIDE DEF h, u
  <2> QED
    BY <1>0, <1>3, <1>4, TotalIs
<1> QED
  BY <1>1, <1>2, <1>3, <1>5

\* A checked sum, one amount after another.
LEMMA SafeTotalRuns ==
    ASSUME NEW s \in Seq(Int \cup {None}), NEW first \in Int \cup {None}
    PROVE  \E f \in [0..Len(s) -> Int \cup {None}] :
              /\ f[0] = first
              /\ \A n \in 1..Len(s) : f[n] = SafeAdd(f[n - 1], s[n], MaxInt)
              /\ SafeTotal(first, s) = f[Len(s)]
<1> DEFINE N == Len(s)
           B == Int \cup {None}
           base == first
           step == [n \in 1..N |-> [x \in B |-> SafeAdd(x, s[n], MaxInt)]]
           F(g) == [S \in SUBSET DOMAIN s |-> IF S = {}
                                              THEN base
                                              ELSE SafeAdd(g[S \ {Max(S)}], s[Max(S)], MaxInt)]
           it == CHOOSE g : g = F(g)
<1>1. N \in Nat /\ DOMAIN s = 1..N /\ base \in B
  OBVIOUS
<1>2. \A n \in 1..N, x \in B : (SafeAdd(x, s[n], MaxInt)) \in B
  BY PricingAssumption DEF SafeAdd
<1>3. \A n \in 1..N, x \in B : step[n][x] = SafeAdd(x, s[n], MaxInt)
  OBVIOUS
<1>4. \A S \in SUBSET (1..N) : S # {} => Max(S) \in 1..N /\ S \ {Max(S)} \in SUBSET (1..N)
  <2> HIDE DEF N
  <2> QED
    BY <1>1, MaxOf
<1>5. SafeTotal(first, s) = it[DOMAIN s]
  BY DEF SafeTotal, FoldLeft, MapThenFoldSet
<1>6. step \in [1..N -> [B -> B]]
  <2> HIDE DEF B
  <2> QED
    BY <1>2
<1> HIDE DEF N, step, B, base
<1>7. PICK g \in [SUBSET (1..N) -> B] : IsTable(g, N, base, step)
  BY <1>1, <1>6, FoldTable DEF HasTable
<1>8. g = F(g)
  <2>1. \A S \in SUBSET (1..N) : g[S] = IF S = {}
                                        THEN base
                                        ELSE SafeAdd(g[S \ {Max(S)}], s[Max(S)], MaxInt)
    BY <1>3, <1>4, <1>7 DEF IsTable
  <2>2. g = [S \in SUBSET (1..N) |-> g[S]]
    OBVIOUS
  <2> QED
    BY <1>1, <2>1, <2>2
<1>9. it = F(it)
  BY <1>8, Zenon
<1> HIDE DEF it
<1>10. Follows(it, N, B, base, step)
  <2>1. it[{}] = base
    BY <1>1, <1>9
  <2>2. ASSUME NEW S \in SUBSET (1..N), S # {}, it[S \ {Max(S)}] \in B
        PROVE  it[S] = step[Max(S)][it[S \ {Max(S)}]]
    <3>1. it[S] = SafeAdd(it[S \ {Max(S)}], s[Max(S)], MaxInt)
      BY <1>1, <1>9, <2>2
    <3> QED
      BY <1>3, <1>4, <2>2, <3>1
  <2> QED
    BY <2>1, <2>2 DEF Follows
<1>11. HasRuns(it, N, B, base, step)
  BY <1>1, <1>6, <1>10, FoldRuns
<1>12. PICK f \in [0..N -> B] : /\ f[0] = base /\ \A n \in 1..N : f[n] = step[n][f[n - 1]]
                               /\ \A n \in 0..N : it[1..n] = f[n]
  BY <1>11 DEF HasRuns
<1>13. \A n \in 1..N : f[n] = SafeAdd(f[n - 1], s[n], MaxInt)
  <2>1. \A n \in 1..N : f[n - 1] \in B
    BY <1>1
  <2> QED
    BY <1>3, <1>12, <2>1
<1>14. SafeTotal(first, s) = f[N]
  <2>1. N \in 0..N
    BY <1>1
  <2> QED
    BY <1>1, <1>5, <1>12, <2>1
<1> QED
  BY <1>12, <1>13, <1>14 DEF N, B, base

\* The codes of a request, one after another.
LEMMA NormalizeRuns ==
    ASSUME NEW s \in Seq(Nat)
    PROVE  \E f \in [0..Len(s) -> Seq(Nat)] :
              /\ f[0] = <<>>
              /\ \A n \in 1..Len(s) : f[n] = IF s[n] \in ToSet(f[n - 1])
                                             THEN f[n - 1]
                                             ELSE Append(f[n - 1], s[n])
              /\ NormalizeVoucherCodes(s) = f[Len(s)]
<1> DEFINE N == Len(s)
           B == Seq(Nat)
           base == <<>>
           step == [n \in 1..N |-> [x \in B |-> IF s[n] \in ToSet(x) THEN x ELSE Append(x, s[n])]]
           F(g) == [S \in SUBSET DOMAIN s |-> IF S = {} THEN base
                                              ELSE IF s[Max(S)] \in ToSet(g[S \ {Max(S)}])
                                                   THEN g[S \ {Max(S)}]
                                                   ELSE Append(g[S \ {Max(S)}], s[Max(S)])]
           it == CHOOSE g : g = F(g)
<1>1. N \in Nat /\ DOMAIN s = 1..N /\ base \in B
  OBVIOUS
<1>2. \A n \in 1..N, x \in B : (IF s[n] \in ToSet(x) THEN x ELSE Append(x, s[n])) \in B
  OBVIOUS
<1>3. \A n \in 1..N, x \in B : step[n][x] = IF s[n] \in ToSet(x) THEN x ELSE Append(x, s[n])
  OBVIOUS
<1>4. \A S \in SUBSET (1..N) : S # {} => Max(S) \in 1..N /\ S \ {Max(S)} \in SUBSET (1..N)
  <2> HIDE DEF N
  <2> QED
    BY <1>1, MaxOf
<1>5. NormalizeVoucherCodes(s) = it[DOMAIN s]
  BY DEF NormalizeVoucherCodes, FoldLeft, MapThenFoldSet
<1>6. step \in [1..N -> [B -> B]]
  <2> HIDE DEF B
  <2> QED
    BY <1>2
<1> HIDE DEF N, step, B, base
<1>7. PICK g \in [SUBSET (1..N) -> B] : IsTable(g, N, base, step)
  BY <1>1, <1>6, FoldTable DEF HasTable
<1>8. g = F(g)
  <2>1. \A S \in SUBSET (1..N) : g[S] = IF S = {} THEN base
                                        ELSE IF s[Max(S)] \in ToSet(g[S \ {Max(S)}])
                                             THEN g[S \ {Max(S)}]
                                             ELSE Append(g[S \ {Max(S)}], s[Max(S)])
    BY <1>3, <1>4, <1>7 DEF IsTable
  <2>2. g = [S \in SUBSET (1..N) |-> g[S]]
    OBVIOUS
  <2> QED
    BY <1>1, <2>1, <2>2
<1>9. it = F(it)
  BY <1>8, Zenon
<1> HIDE DEF it
<1>10. Follows(it, N, B, base, step)
  <2>1. it[{}] = base
    BY <1>1, <1>9
  <2>2. ASSUME NEW S \in SUBSET (1..N), S # {}, it[S \ {Max(S)}] \in B
        PROVE  it[S] = step[Max(S)][it[S \ {Max(S)}]]
    <3>1. it[S] = IF s[Max(S)] \in ToSet(it[S \ {Max(S)}])
                  THEN it[S \ {Max(S)}]
                  ELSE Append(it[S \ {Max(S)}], s[Max(S)])
      BY <1>1, <1>9, <2>2
    <3> QED
      BY <1>3, <1>4, <2>2, <3>1
  <2> QED
    BY <2>1, <2>2 DEF Follows
<1>11. HasRuns(it, N, B, base, step)
  BY <1>1, <1>6, <1>10, FoldRuns
<1>12. PICK f \in [0..N -> B] : /\ f[0] = base /\ \A n \in 1..N : f[n] = step[n][f[n - 1]]
                               /\ \A n \in 0..N : it[1..n] = f[n]
  BY <1>11 DEF HasRuns
<1>13. \A n \in 1..N : f[n] = IF s[n] \in ToSet(f[n - 1]) THEN f[n - 1] ELSE Append(f[n - 1], s[n])
  <2>1. \A n \in 1..N : f[n - 1] \in B
    BY <1>1
  <2> QED
    BY <1>3, <1>12, <2>1
<1>14. NormalizeVoucherCodes(s) = f[N]
  <2>1. N \in 0..N
    BY <1>1
  <2> QED
    BY <1>1, <1>5, <1>12, <2>1
<1> QED
  BY <1>12, <1>13, <1>14 DEF N, B, base

\* The vouchers of a stack, one after another.
TypedRounds(lines, subtotal) ==
    \A a \in Seq(AppliedType), c \in DOMAIN Voucher :
       ApplyVoucher(a, c, lines, subtotal) \in Seq(AppliedType) \cup {None}

HasRounds(s, lines, subtotal) ==
    \E f \in [0..Len(s) -> Seq(AppliedType) \cup {None}] :
       /\ f[0] = <<>>
       /\ \A n \in 1..Len(s) : f[n] = IF f[n - 1] = None
                                      THEN None
                                      ELSE ApplyVoucher(f[n - 1], s[n], lines, subtotal)
       /\ ApplyVouchers(s, lines, subtotal) = f[Len(s)]

\* The loop over the codes of a stack, as VoucherStack runs it: it ends with the first
\* refusal.
LEMMA ApplyRuns ==
    ASSUME NEW s \in Seq(DOMAIN Voucher), NEW lines, NEW subtotal, TypedRounds(lines, subtotal)
    PROVE  HasRounds(s, lines, subtotal)
<1> DEFINE N == Len(s)
           B == Seq(AppliedType) \cup {None}
           base == <<>>
           step == [n \in 1..N |-> [x \in B |-> IF x = None
                                                THEN None
                                                ELSE ApplyVoucher(x, s[n], lines, subtotal)]]
           F(g) == [S \in SUBSET DOMAIN s |-> IF S = {} THEN base
                                              ELSE IF g[S \ {Max(S)}] = None
                                                   THEN None
                                                   ELSE ApplyVoucher(g[S \ {Max(S)}], s[Max(S)],
                                                     lines, subtotal)]
           it == CHOOSE g : g = F(g)
<1>1. N \in Nat /\ DOMAIN s = 1..N /\ base \in B
  OBVIOUS
<1>2. \A n \in 1..N, x \in B : (IF x = None
                                THEN None
                                ELSE ApplyVoucher(x, s[n], lines, subtotal)) \in B
  BY DEF TypedRounds
<1>3. \A n \in 1..N, x \in B : step[n][x] = IF x = None
                                            THEN None
                                            ELSE ApplyVoucher(x, s[n], lines, subtotal)
  OBVIOUS
<1>4. \A S \in SUBSET (1..N) : S # {} => Max(S) \in 1..N /\ S \ {Max(S)} \in SUBSET (1..N)
  <2> HIDE DEF N
  <2> QED
    BY <1>1, MaxOf
<1>5. ApplyVouchers(s, lines, subtotal) = it[DOMAIN s]
  BY DEF ApplyVouchers, FoldLeft, MapThenFoldSet
<1>6. step \in [1..N -> [B -> B]]
  <2> HIDE DEF B
  <2> QED
    BY <1>2
<1> HIDE DEF N, step, B, base
<1>7. PICK g \in [SUBSET (1..N) -> B] : IsTable(g, N, base, step)
  BY <1>1, <1>6, FoldTable DEF HasTable
<1>8. g = F(g)
  <2>1. \A S \in SUBSET (1..N) : g[S] = IF S = {} THEN base
                                        ELSE IF g[S \ {Max(S)}] = None
                                             THEN None
                                             ELSE ApplyVoucher(g[S \ {Max(S)}], s[Max(S)], lines,
                                               subtotal)
    BY <1>3, <1>4, <1>7 DEF IsTable
  <2>2. g = [S \in SUBSET (1..N) |-> g[S]]
    OBVIOUS
  <2> QED
    BY <1>1, <2>1, <2>2
<1>9. it = F(it)
  BY <1>8, Zenon
<1> HIDE DEF it
<1>10. Follows(it, N, B, base, step)
  <2>1. it[{}] = base
    BY <1>1, <1>9
  <2>2. ASSUME NEW S \in SUBSET (1..N), S # {}, it[S \ {Max(S)}] \in B
        PROVE  it[S] = step[Max(S)][it[S \ {Max(S)}]]
    <3>1. it[S] = IF it[S \ {Max(S)}] = None
                  THEN None
                  ELSE ApplyVoucher(it[S \ {Max(S)}], s[Max(S)], lines, subtotal)
      BY <1>1, <1>9, <2>2
    <3> QED
      BY <1>3, <1>4, <2>2, <3>1
  <2> QED
    BY <2>1, <2>2 DEF Follows
<1>11. HasRuns(it, N, B, base, step)
  BY <1>1, <1>6, <1>10, FoldRuns
<1>12. PICK f \in [0..N -> B] : /\ f[0] = base /\ \A n \in 1..N : f[n] = step[n][f[n - 1]]
                               /\ \A n \in 0..N : it[1..n] = f[n]
  BY <1>11 DEF HasRuns
<1>13. \A n \in 1..N : f[n] = IF f[n - 1] = None
                              THEN None
                              ELSE ApplyVoucher(f[n - 1], s[n], lines, subtotal)
  <2>1. \A n \in 1..N : f[n - 1] \in B
    BY <1>1
  <2> QED
    BY <1>3, <1>12, <2>1
<1>14. ApplyVouchers(s, lines, subtotal) = f[N]
  <2>1. N \in 0..N
    BY <1>1
  <2> QED
    BY <1>1, <1>5, <1>12, <2>1
<1> QED
  BY <1>12, <1>13, <1>14 DEF N, B, base, HasRounds

\* A checked sum is the exact sum, or none.
LEMMA SafeTotalExact ==
    ASSUME NEW s \in Seq(Int \cup {None}), NEW first \in Int \cup {None}
    PROVE  /\ SafeTotal(first, s) \in Int \cup {None}
           /\ SafeTotal(first, s) # None =>
                 /\ first \in Int /\ s \in Seq(Int)
                 /\ SafeTotal(first, s) = first + Total(s)
<1>1. PICK f \in [0..Len(s) -> Int \cup {None}] :
              /\ f[0] = first
              /\ \A n \in 1..Len(s) : f[n] = SafeAdd(f[n - 1], s[n], MaxInt)
              /\ SafeTotal(first, s) = f[Len(s)]
  BY SafeTotalRuns
<1> DEFINE D == {n \in 0..Len(s) : f[n] # None =>
                    /\ f[n] \in Int /\ f[0] \in Int
                    /\ \A i \in 1..n : f[i] \in Int /\ s[i] \in Int /\ f[i] = f[i - 1] + s[i]}
<1>2. D = 0..Len(s)
  <2>1. 0 \in D
    OBVIOUS
  <2>2. ASSUME NEW n \in 1..Len(s), n - 1 \in D PROVE n \in D
    <3>1. f[n] # None => /\ f[n - 1] # None /\ s[n] # None
                         /\ f[n] = f[n - 1] + s[n]
      BY <1>1 DEF SafeAdd
    <3>2. s[n] \in Int \cup {None} /\ f[n - 1] \in Int \cup {None} /\ n \in 0..Len(s)
      OBVIOUS
    <3>3. ASSUME f[n] # None, NEW i \in 1..n
          PROVE  f[i] \in Int /\ s[i] \in Int /\ f[i] = f[i - 1] + s[i]
      <4>1. i # n => i \in 1..(n - 1)
        OBVIOUS
      <4> QED
        BY <2>2, <3>1, <3>2, <3>3, <4>1
    <3> QED
      BY <2>2, <3>1, <3>2, <3>3
  <2>3. D \in SUBSET (0..Len(s)) /\ Len(s) \in Nat
    OBVIOUS
  <2> HIDE DEF D
  <2> QED
    BY <2>1, <2>2, <2>3, UpTo
<1>3. ASSUME f[Len(s)] # None
      PROVE  /\ first \in Int /\ s \in Seq(Int)
             /\ f[Len(s)] = first + Total(s)
  <2>1. /\ f[0] \in Int
        /\ \A i \in 1..Len(s) : f[i] \in Int /\ s[i] \in Int /\ f[i] = f[i - 1] + s[i]
    BY <1>2, <1>3
  <2>2. s \in Seq(Int)
    BY <2>1
  <2>3. \A i \in 0..Len(s) : f[i] \in Int
    BY <2>1
  <2> DEFINE g == [n \in 0..Len(s) |-> f[n] - first]
  <2>4. g \in [0..Len(s) -> Int] /\ g[0] = 0 /\ g[Len(s)] = f[Len(s)] - first
    BY <1>1, <2>3
  <2>5. \A n \in 1..Len(s) : g[n] = g[n - 1] + s[n]
    <3> SUFFICES ASSUME NEW n \in 1..Len(s) PROVE g[n] = g[n - 1] + s[n]
      OBVIOUS
    <3>1. n \in 0..Len(s) /\ n - 1 \in 0..Len(s)
      OBVIOUS
    <3>2. f[n] \in Int /\ f[n - 1] \in Int /\ s[n] \in Int /\ first \in Int
        /\ f[n] = f[n - 1] + s[n]
      BY <1>1, <2>1, <2>3, <3>1
    <3>3. g[n] = f[n] - first /\ g[n - 1] = f[n - 1] - first
      BY <3>1
    <3> QED
      BY <3>2, <3>3
  <2>6. Total(s) = g[Len(s)]
    <3> HIDE DEF g
    <3> QED
      BY <2>2, <2>4, <2>5, TotalIs
  <2> QED
    BY <1>1, <2>1, <2>2, <2>3, <2>4, <2>6
<1> QED
  BY <1>1, <1>3

LEMMA ToSetAppend ==
    ASSUME NEW S, NEW s \in Seq(S), NEW x
    PROVE  ToSet(Append(s, x)) = ToSet(s) \cup {x}
<1>1. /\ Len(s) \in Nat /\ DOMAIN s = 1..Len(s)
      /\ DOMAIN Append(s, x) = 1..(Len(s) + 1) /\ Append(s, x)[Len(s) + 1] = x
      /\ \A i \in 1..Len(s) : Append(s, x)[i] = s[i]
  <2>1. s \in Seq(S \cup {x}) /\ x \in S \cup {x}
    OBVIOUS
  <2> QED
    BY <2>1
<1> QED
  BY <1>1 DEF ToSet

OneToOne(s) == \A i, j \in DOMAIN s : s[i] = s[j] => i = j

LEMMA OneToOneAppend ==
    ASSUME NEW S, NEW t \in Seq(S), NEW x \in S, x \notin ToSet(t), OneToOne(t)
    PROVE  OneToOne(Append(t, x))
<1> DEFINE u == Append(t, x)
           n == Len(t)
<1>1. /\ n \in Nat /\ DOMAIN t = 1..n /\ DOMAIN u = 1..(n + 1)
      /\ u[n + 1] = x /\ \A i \in 1..n : u[i] = t[i]
  OBVIOUS
<1>2. \A i \in 1..n : t[i] # x
  BY <1>1 DEF ToSet
<1> HIDE DEF u, n
<1>3. ASSUME NEW i \in DOMAIN u, NEW j \in DOMAIN u, u[i] = u[j] PROVE i = j
  <2>1. (i \in 1..n \/ i = n + 1) /\ (j \in 1..n \/ j = n + 1)
    BY <1>1
  <2>2. CASE i \in 1..n /\ j \in 1..n
    BY <1>1, <1>3, <2>2, Zenon DEF OneToOne
  <2>3. CASE i \in 1..n /\ j = n + 1
    BY <1>1, <1>2, <1>3, <2>3, Zenon
  <2>4. CASE i = n + 1 /\ j \in 1..n
    BY <1>1, <1>2, <1>3, <2>4, Zenon
  <2> QED
    BY <2>1, <2>2, <2>3, <2>4
<1> QED
  BY <1>3, Zenon DEF OneToOne, u

\* Normalized codes are the codes that were sent, each once.
LEMMA NormalizedCodes ==
    ASSUME NEW s \in Seq(Nat)
    PROVE  /\ NormalizeVoucherCodes(s) \in Seq(Nat)
           /\ ToSet(NormalizeVoucherCodes(s)) = ToSet(s)
           /\ \A i, j \in DOMAIN NormalizeVoucherCodes(s) :
                 NormalizeVoucherCodes(s)[i] = NormalizeVoucherCodes(s)[j] => i = j
<1>1. PICK f \in [0..Len(s) -> Seq(Nat)] :
              /\ f[0] = <<>>
              /\ \A n \in 1..Len(s) : f[n] = IF s[n] \in ToSet(f[n - 1]) THEN f[n - 1]
                                            ELSE Append(f[n - 1], s[n])
              /\ NormalizeVoucherCodes(s) = f[Len(s)]
  BY NormalizeRuns
<1> DEFINE D == {n \in 0..Len(s) : /\ ToSet(f[n]) = {s[i] : i \in 1..n}
                                   /\ \A i, j \in DOMAIN f[n] : f[n][i] = f[n][j] => i = j}
<1>2. D = 0..Len(s)
  <2>1. 0 \in D
    BY <1>1 DEF ToSet
  <2>2. ASSUME NEW n \in 1..Len(s), n - 1 \in D PROVE n \in D
    <3>0. f[n - 1] \in Seq(Nat) /\ s[n] \in Nat /\ n \in 0..Len(s)
      <4>1. Len(s) \in Nat /\ n - 1 \in 0..Len(s) /\ n \in 0..Len(s) /\ s[n] \in Nat
        OBVIOUS
      <4> HIDE DEF D
      <4> QED
        BY <4>1
    <3>1. {s[i] : i \in 1..n} = {s[i] : i \in 1..(n - 1)} \cup {s[n]}
      OBVIOUS
    <3>2. CASE s[n] \in ToSet(f[n - 1])
      BY <1>1, <2>2, <3>0, <3>1, <3>2
    <3>3. CASE s[n] \notin ToSet(f[n - 1])
      <4>1. f[n] = Append(f[n - 1], s[n])
        BY <1>1, <3>3
      <4>2. ToSet(f[n]) = ToSet(f[n - 1]) \cup {s[n]}
        BY <3>0, <4>1, ToSetAppend
      <4> DEFINE t == f[n - 1]
      <4>3. OneToOne(t)
        BY <2>2 DEF OneToOne
      <4> HIDE DEF t
      <4>4. f[n] = Append(t, s[n]) /\ t \in Seq(Nat) /\ s[n] \in Nat /\ s[n] \notin ToSet(t)
        BY <3>0, <3>3, <4>1 DEF t
      <4>5. \A i, j \in DOMAIN f[n] : f[n][i] = f[n][j] => i = j
        <5>1. OneToOne(Append(t, s[n]))
          BY <4>3, <4>4, OneToOneAppend
        <5> QED
          BY <4>4, <5>1, Zenon DEF OneToOne
      <4> QED
        BY <2>2, <3>0, <3>1, <4>2, <4>5
    <3> QED
      BY <3>2, <3>3
  <2>3. D \in SUBSET (0..Len(s)) /\ Len(s) \in Nat
    OBVIOUS
  <2> HIDE DEF D
  <2> QED
    BY <2>1, <2>2, <2>3, UpTo
<1>3. ToSet(s) = {s[i] : i \in 1..Len(s)} /\ Len(s) \in 0..Len(s)
  BY DEF ToSet
<1>4. /\ f[Len(s)] \in Seq(Nat) /\ ToSet(f[Len(s)]) = ToSet(s)
      /\ \A i, j \in DOMAIN f[Len(s)] : f[Len(s)][i] = f[Len(s)][j] => i = j
  BY <1>2, <1>3
<1> QED
  BY <1>1, <1>4

-----------------------------------------------------------------------------
(* Sets in order *)

\* The relation R orders the set T.
Orders(R, T) ==
    /\ \A x \in T : <<x, x>> \notin R
    /\ \A x, y, z \in T : <<x, y>> \in R /\ <<y, z>> \in R => <<x, z>> \in R
    /\ \A x, y \in T : x = y \/ <<x, y>> \in R \/ <<y, x>> \in R

\* s is T in the order R.
InOrder(s, T, R) ==
    /\ s \in Seq(T) /\ T = {s[i] : i \in 1..Len(s)}
    /\ \A i, j \in 1..Len(s) : i < j => <<s[i], s[j]>> \in R

\* What SetToSeqs lists of a set is the set, each element once.
LEMMA ListsOfSet ==
    ASSUME NEW T, IsFiniteSet(T), NEW s \in SetToSeqs(T)
    PROVE  /\ s \in Seq(T) /\ ToSet(s) = T /\ Len(s) = Cardinality(T)
           /\ \A i, j \in DOMAIN s : s[i] = s[j] => i = j
<1>1. Cardinality(T) \in Nat
  BY FS_CardinalityType
<1>2. s \in [1..Cardinality(T) -> T] /\ \A i, j \in 1..Cardinality(T) : i # j => s[i] # s[j]
  BY DEF SetToSeqs
<1>3. s \in Injection(1..Cardinality(T), T)
  BY <1>2 DEF Injection, IsInjective
<1>4. Cardinality(1..Cardinality(T)) = Cardinality(T)
  BY <1>1, FS_Interval
<1>5. s \in Surjection(1..Cardinality(T), T)
  BY <1>3, <1>4, FS_Injection
<1>6. \A x \in T : \E i \in 1..Cardinality(T) : s[i] = x
  BY <1>5 DEF Surjection
<1>7. ToSet(s) = T
  BY <1>2, <1>6 DEF ToSet
<1>8. s \in Seq(T) /\ Len(s) = Cardinality(T) /\ DOMAIN s = 1..Cardinality(T)
  BY <1>1, <1>2
<1> QED
  BY <1>2, <1>7, <1>8

\* And it lists all of that.
LEMMA ListOfSet ==
    ASSUME NEW T, NEW s \in Seq(T), ToSet(s) = T, \A i, j \in DOMAIN s : s[i] = s[j] => i = j
    PROVE  IsFiniteSet(T) /\ s \in SetToSeqs(T)
<1>1. s \in Surjection(1..Len(s), T)
  BY DEF Surjection, ToSet
<1>2. s \in Injection(1..Len(s), T)
  BY DEF Injection, IsInjective
<1>3. IsFiniteSet(1..Len(s)) /\ Cardinality(1..Len(s)) = Len(s)
  <2>1. Len(s) \in Nat /\ 1 \in Int /\ Len(s) \in Int
    OBVIOUS
  <2> QED
    BY <2>1, FS_Interval
<1>4. IsFiniteSet(T) /\ Cardinality(T) = Len(s)
  BY <1>1, <1>2, <1>3, FS_Surjection
<1> QED
  BY <1>4 DEF SetToSeqs

\* An ordered finite set has a last element.
LEMMA LastOfSet ==
    ASSUME NEW T, IsFiniteSet(T), T # {}, NEW R, Orders(R, T)
    PROVE  \E m \in T : \A x \in T \ {m} : <<x, m>> \in R
<1> DEFINE HasLast(U) == \E m \in U : \A x \in U \ {m} : <<x, m>> \in R
           N == Cardinality(T)
           Good(n) == \A U \in SUBSET T : Cardinality(U) = n /\ U # {} => HasLast(U)
           D == {n \in 0..N : Good(n)}
<1>1. N \in Nat /\ \A U \in SUBSET T : IsFiniteSet(U) /\ Cardinality(U) \in Nat
  BY FS_CardinalityType, FS_Subset
<1>2. Good(0)
  BY <1>1, FS_EmptySet
<1>3. ASSUME NEW n \in 1..N, Good(n - 1) PROVE Good(n)
  <2> SUFFICES ASSUME NEW U \in SUBSET T, Cardinality(U) = n, U # {} PROVE HasLast(U)
    OBVIOUS
  <2>1. PICK y \in U : TRUE
    OBVIOUS
  <2>2. Cardinality(U \ {y}) = n - 1 /\ U \ {y} \in SUBSET T
    BY <1>1, FS_RemoveElement
  <2>3. CASE U \ {y} = {}
    BY <2>3
  <2>4. CASE U \ {y} # {}
    <3>1. PICK m \in U \ {y} : \A x \in (U \ {y}) \ {m} : <<x, m>> \in R
      BY <1>3, <2>2, <2>4
    <3>2. CASE <<y, m>> \in R
      BY <3>1, <3>2
    <3>3. CASE <<m, y>> \in R
      <4>1. \A x \in U \ {y} : <<x, y>> \in R
        BY <3>1, <3>3 DEF Orders
      <4> QED
        BY <4>1
    <3> QED
      BY <3>1, <3>2, <3>3 DEF Orders
  <2> QED
    BY <2>3, <2>4
<1>4. Good(N)
  <2> HIDE DEF Good, N
  <2>1. 0 \in D
    BY <1>1, <1>2
  <2>2. \A n \in 1..N : n - 1 \in D => n \in D
    BY <1>1, <1>3
  <2>3. D \in SUBSET (0..N)
    OBVIOUS
  <2>4. D = 0..N
    <3> HIDE DEF D
    <3> QED
      BY <1>1, <2>1, <2>2, <2>3, UpTo
  <2> QED
    BY <1>1, <2>4
<1> QED
  BY <1>4

\* So there is a list of it in order.
LEMMA OrderExists ==
    ASSUME NEW T, IsFiniteSet(T), NEW R, Orders(R, T)
    PROVE  \E s : InOrder(s, T, R)
<1> DEFINE N == Cardinality(T)
           Good(n) == \A U \in SUBSET T : Cardinality(U) = n => \E s : InOrder(s, U, R)
           D == {n \in 0..N : Good(n)}
<1>1. N \in Nat /\ \A U \in SUBSET T : IsFiniteSet(U) /\ Cardinality(U) \in Nat
  BY FS_CardinalityType, FS_Subset
<1>2. Good(0)
  <2> SUFFICES ASSUME NEW U \in SUBSET T, Cardinality(U) = 0 PROVE \E s : InOrder(s, U, R)
    OBVIOUS
  <2>1. U = {}
    BY <1>1, FS_EmptySet
  <2>2. InOrder(<<>>, U, R)
    BY <2>1 DEF InOrder
  <2> QED
    BY <2>2
<1>3. ASSUME NEW n \in 1..N, Good(n - 1) PROVE Good(n)
  <2> SUFFICES ASSUME NEW U \in SUBSET T, Cardinality(U) = n PROVE \E s : InOrder(s, U, R)
    OBVIOUS
  <2>1. U # {} /\ Orders(R, U)
    BY FS_EmptySet DEF Orders
  <2>2. PICK m \in U : \A x \in U \ {m} : <<x, m>> \in R
    BY <1>1, <2>1, LastOfSet
  <2>3. Cardinality(U \ {m}) = n - 1 /\ U \ {m} \in SUBSET T
    BY <1>1, FS_RemoveElement
  <2>4. PICK s : InOrder(s, U \ {m}, R)
    BY <1>3, <2>3
  <2>5. /\ s \in Seq(U \ {m}) /\ U \ {m} = {s[i] : i \in 1..Len(s)} /\ Len(s) \in Nat
        /\ \A i, j \in 1..Len(s) : i < j => <<s[i], s[j]>> \in R
    BY <2>4 DEF InOrder
  <2> DEFINE t == Append(s, m)
  <2>6. /\ t \in Seq(U) /\ Len(t) = Len(s) + 1 /\ t[Len(s) + 1] = m
        /\ \A i \in 1..Len(s) : t[i] = s[i]
    BY <2>5
  <2>7. U = {t[i] : i \in 1..Len(t)}
    BY <2>5, <2>6
  <2>8. ASSUME NEW i \in 1..Len(t), NEW j \in 1..Len(t), i < j PROVE <<t[i], t[j]>> \in R
    <3>1. i \in 1..Len(s) /\ t[i] = s[i] /\ s[i] \in U \ {m}
      BY <2>5, <2>6, <2>8
    <3>2. CASE j = Len(t)
      BY <2>2, <2>6, <3>1, <3>2
    <3>3. CASE j # Len(t)
      <4>1. j \in 1..Len(s)
        BY <2>5, <2>6, <3>3
      <4> HIDE DEF t
      <4>2. <<s[i], s[j]>> \in R
        BY <2>5, <2>8, <3>1, <4>1
      <4> QED
        BY <2>6, <3>1, <4>1, <4>2
    <3> QED
      BY <3>2, <3>3
  <2>9. InOrder(t, U, R)
    BY <2>6, <2>7, <2>8 DEF InOrder
  <2> QED
    BY <2>9
<1>4. Good(N)
  <2> HIDE DEF Good, N
  <2>1. 0 \in D
    BY <1>1, <1>2
  <2>2. \A n \in 1..N : n - 1 \in D => n \in D
    BY <1>1, <1>3
  <2>3. D \in SUBSET (0..N)
    OBVIOUS
  <2>4. D = 0..N
    <3> HIDE DEF D
    <3> QED
      BY <1>1, <2>1, <2>2, <2>3, UpTo
  <2> QED
    BY <1>1, <2>4
<1> QED
  BY <1>4

\* What a list in order is.
LEMMA InOrderFacts ==
    ASSUME NEW T, NEW R, NEW s, InOrder(s, T, R)
    PROVE  /\ s \in Seq(T) /\ Len(s) \in Nat /\ s = [i \in 1..Len(s) |-> s[i]]
           /\ \A i \in 1..Len(s) : s[i] \in T
           /\ \A x \in T : \E i \in 1..Len(s) : s[i] = x
           /\ \A i, j \in 1..Len(s) : i < j => <<s[i], s[j]>> \in R
<1>1. /\ s \in Seq(T) /\ T = {s[i] : i \in 1..Len(s)}
      /\ \A i, j \in 1..Len(s) : i < j => <<s[i], s[j]>> \in R
  BY DEF InOrder
<1>2. Len(s) \in Nat /\ s = [i \in 1..Len(s) |-> s[i]] /\ \A i \in 1..Len(s) : s[i] \in T
  BY <1>1
<1>3. \A x \in T : \E i \in 1..Len(s) : s[i] = x
  BY <1>1
<1> QED
  BY <1>1, <1>2, <1>3

\* Wherever two lists of a set in order agree so far, they go on alike.
LEMMA OrderGoesOn ==
    ASSUME NEW T, NEW R, Orders(R, T), NEW s, InOrder(s, T, R), NEW t, InOrder(t, T, R),
           NEW n \in 1..Len(s), \A i \in 1..(n - 1) : i \in 1..Len(t) /\ s[i] = t[i]
    PROVE  n \in 1..Len(t) /\ (s[n] = t[n] \/ <<t[n], s[n]>> \in R)
<1>1. /\ Len(s) \in Nat /\ \A i \in 1..Len(s) : s[i] \in T
      /\ \A i, j \in 1..Len(s) : i < j => <<s[i], s[j]>> \in R
  BY InOrderFacts
<1>2. /\ Len(t) \in Nat
      /\ \A x \in T : \E i \in 1..Len(t) : t[i] = x
      /\ \A i, j \in 1..Len(t) : i < j => <<t[i], t[j]>> \in R
  <2>1. /\ t \in Seq(T) /\ Len(t) \in Nat /\ t = [i \in 1..Len(t) |-> t[i]]
        /\ \A i \in 1..Len(t) : t[i] \in T
        /\ \A x \in T : \E i \in 1..Len(t) : t[i] = x
        /\ \A i, j \in 1..Len(t) : i < j => <<t[i], t[j]>> \in R
    BY InOrderFacts
  <2> QED
    BY <2>1, Zenon
<1>3. PICK k \in 1..Len(t) : t[k] = s[n]
  BY <1>1, <1>2
<1>4. n \in Nat /\ n =< Len(s)
  BY <1>1
<1>5. ~(k < n)
  <2> SUFFICES ASSUME k < n PROVE FALSE
    OBVIOUS
  <2>1. k \in 1..(n - 1) /\ k \in 1..Len(s)
    BY <1>2, <1>1, <1>4
  <2>2. <<s[k], s[n]>> \in R /\ s[k] = s[n] /\ s[n] \in T
    BY <1>1, <1>3, <2>1
  <2> QED
    BY <2>2 DEF Orders
<1>6. n \in 1..Len(t) /\ (k = n \/ n < k)
  BY <1>2, <1>4, <1>5
<1> QED
  BY <1>2, <1>3, <1>6

\* There is one way only to put a set in order.
LEMMA OrderIsUnique ==
    ASSUME NEW T, IsFiniteSet(T), NEW R, Orders(R, T), NEW s, InOrder(s, T, R), NEW t,
             InOrder(t, T, R)
    PROVE  s = t
<1>1. /\ Len(s) \in Nat /\ s = [i \in 1..Len(s) |-> s[i]]
      /\ \A i \in 1..Len(s) : s[i] \in T
  BY InOrderFacts
<1>2. /\ Len(t) \in Nat /\ t = [i \in 1..Len(t) |-> t[i]]
      /\ \A i \in 1..Len(t) : t[i] \in T
  BY InOrderFacts
<1> DEFINE Same(n) == \A i \in 1..n : i \in 1..Len(t) /\ s[i] = t[i]
           D == {n \in 0..Len(s) : Same(n)}
<1>3. ASSUME NEW n \in 1..Len(s), Same(n - 1) PROVE Same(n)
  <2>1. n \in 1..Len(t) /\ (s[n] = t[n] \/ <<t[n], s[n]>> \in R)
    BY <1>3, OrderGoesOn
  <2>2. \A i \in 1..(n - 1) : i \in 1..Len(s) /\ t[i] = s[i]
    BY <1>1, <1>3
  <2>3. s[n] = t[n] \/ <<s[n], t[n]>> \in R
    BY <2>1, <2>2, OrderGoesOn
  <2>4. s[n] = t[n]
    BY <1>1, <1>2, <2>1, <2>3 DEF Orders
  <2>5. \A i \in 1..n : i = n \/ i \in 1..(n - 1)
    BY <1>1
  <2> QED
    BY <1>3, <2>1, <2>4, <2>5
<1>4. Same(Len(s))
  <2>1. Same(0)
    OBVIOUS
  <2> HIDE DEF Same
  <2>2. 0 \in D /\ D \in SUBSET (0..Len(s))
    BY <1>1, <2>1
  <2>3. \A n \in 1..Len(s) : n - 1 \in D => n \in D
    BY <1>1, <1>3
  <2>4. D = 0..Len(s)
    <3> HIDE DEF D
    <3> QED
      BY <1>1, <2>2, <2>3, UpTo
  <2> QED
    BY <1>1, <2>4
<1>5. Len(s) = Len(t)
  <2>1. Len(s) =< Len(t)
    BY <1>1, <1>2, <1>4
  <2>2. Len(s) < Len(t) => FALSE
    <3> SUFFICES ASSUME Len(s) < Len(t) PROVE FALSE
      OBVIOUS
    <3>1. Len(s) + 1 \in 1..Len(t) /\ \A i \in 1..((Len(s) + 1) - 1) : i \in 1..Len(s) /\ t[i] = s[i]
      BY <1>1, <1>2, <1>4
    <3> DEFINE n == Len(s) + 1
    <3>2. n \in 1..Len(t) /\ \A i \in 1..(n - 1) : i \in 1..Len(s) /\ t[i] = s[i]
      BY <3>1
    <3>3. n \in 1..Len(s)
      <4> HIDE DEF n
      <4> QED
        BY <3>2, OrderGoesOn
    <3> QED
      BY <1>1, <3>3
  <2>3. Len(s) \in Nat /\ Len(t) \in Nat
    BY <1>1, <1>2
  <2> QED
    BY <2>1, <2>2, <2>3
<1> QED
  BY <1>1, <1>2, <1>4, <1>5

-----------------------------------------------------------------------------
(* Integers: products, quotients and the checked arithmetic *)

\* Division rounds down.
LEMMA Divided ==
    ASSUME NEW a \in Int, NEW b \in Nat \ {0}
    PROVE  a \div b \in Int /\ b * (a \div b) =< a /\ a < b * (a \div b) + b
OBVIOUS

LEMMA ProductNat ==
    ASSUME NEW a \in Nat, NEW b \in Nat
    PROVE  a * b \in Nat
OBVIOUS

LEMMA ProductMono ==
    ASSUME NEW a \in Int, NEW b \in Int, a =< b, NEW c \in Nat
    PROVE  c * a =< c * b /\ a * c =< b * c
OBVIOUS

LEMMA ProductCancel ==
    ASSUME NEW a \in Int, NEW b \in Int, NEW c \in Nat \ {0}, c * a < c * b
    PROVE  a < b
OBVIOUS

\* And there is one quotient only.
LEMMA DividedIs ==
    ASSUME NEW a \in Int, NEW b \in Nat \ {0}, NEW q \in Int, b * q =< a, a < b * q + b
    PROVE  a \div b = q
<1>1. a \div b \in Int /\ b * (a \div b) =< a /\ a < b * (a \div b) + b
  BY Divided
<1>2. b * q < b * ((a \div b) + 1) /\ b * (a \div b) < b * (q + 1)
  BY <1>1
<1>3. q < (a \div b) + 1
  BY <1>1, <1>2, ProductCancel
<1>4. a \div b < q + 1
  BY <1>1, <1>2, ProductCancel
<1> QED
  BY <1>1, <1>3, <1>4

LEMMA MinPair ==
    ASSUME NEW a \in Int, NEW b \in Int
    PROVE  Min({a, b}) = IF a =< b THEN a ELSE b
BY DEF Min

LEMMA MaxPair ==
    ASSUME NEW a \in Int, NEW b \in Int
    PROVE  Max({a, b}) = IF a >= b THEN a ELSE b
BY DEF Max

\* Comparing with a quotient is comparing the product: the test for overflow that
\* SafeMul makes before it multiplies.
LEMMA Exceeds ==
    ASSUME NEW a \in Int, NEW b \in Nat \ {0}, NEW m \in Int
    PROVE  a > m \div b <=> a * b > m
<1>1. m \div b \in Int /\ b * (m \div b) =< m /\ m < b * (m \div b) + b
  BY Divided
<1>2. CASE a > m \div b
  <2>1. (m \div b) + 1 =< a
    BY <1>1, <1>2
  <2>2. ((m \div b) + 1) * b =< a * b
    BY <1>1, <2>1, ProductMono
  <2> QED
    BY <1>1, <1>2, <2>2
<1>3. CASE a =< m \div b
  <2>1. a * b =< (m \div b) * b
    BY <1>1, <1>3, ProductMono
  <2>2. a * b \in Int
    OBVIOUS
  <2> QED
    BY <1>1, <1>3, <2>1, <2>2
<1> QED
  BY <1>1, <1>2, <1>3

Place(n, max) == IF n \in (-max - 1)..max THEN n ELSE None

\* SafeAdd is exact where the sum has its place, and none elsewhere.
LEMMA SafeAddExact ==
    ASSUME NEW max \in Nat, NEW a \in (-max - 1)..max, NEW b \in (-max - 1)..max
    PROVE  SafeAdd(a, b, max) = Place(a + b, max)
BY PricingAssumption DEF SafeAdd, Place

\* Go divides towards zero.
LEMMA QuotientIs ==
    ASSUME NEW a \in Int, NEW b \in Int, b # 0
    PROVE  Quotient(a, b) = CASE a >= 0 /\ b > 0 -> a \div b
                              [] a >= 0 /\ b < 0 -> -(a \div (-b))
                              [] a < 0 /\ b > 0 -> -((-a) \div b)
                              [] a < 0 /\ b < 0 -> (-a) \div (-b)
BY DEF Quotient

\* SafeMul is exact where the product has its place, whatever the signs.
LEMMA SafeMulExact ==
    ASSUME NEW max \in Nat, NEW a \in (-max - 1)..max, NEW b \in (-max - 1)..max
    PROVE  SafeMul(a, b, max) = Place(a * b, max)
<1> DEFINE min == -max - 1
<1>1. /\ a \in Int /\ b \in Int /\ a * b \in Int /\ min \in Int
      /\ a # None /\ b # None
  BY PricingAssumption
<1>2. CASE a > 0 /\ b > 0
  <2>1. Quotient(max, b) = max \div b
    BY <1>1, <1>2, QuotientIs
  <2>2. a > max \div b <=> a * b > max
    BY <1>1, <1>2, Exceeds
  <2>3. a * b > 0
    BY <1>1, <1>2
  <2> QED
    BY <1>1, <1>2, <2>1, <2>2, <2>3 DEF SafeMul, Place
<1>3. CASE a > 0 /\ b < 0
  <2>1. Quotient(min, a) = -((max + 1) \div a)
    BY <1>1, <1>3, QuotientIs
  <2>2. -b > (max + 1) \div a <=> (-b) * a > max + 1
    BY <1>1, <1>3, Exceeds
  <2>3. (-b) * a = -(a * b) /\ a * b < 0 /\ (max + 1) \div a \in Int
    BY <1>1, <1>3
  <2>4. b < Quotient(min, a) <=> a * b < min
    BY <1>1, <2>1, <2>2, <2>3
  <2> QED
    BY <1>1, <1>3, <2>3, <2>4 DEF SafeMul, Place
<1>4. CASE a < 0 /\ b > 0
  <2>1. Quotient(min, b) = -((max + 1) \div b)
    BY <1>1, <1>4, QuotientIs
  <2>2. -a > (max + 1) \div b <=> (-a) * b > max + 1
    BY <1>1, <1>4, Exceeds
  <2>3. (-a) * b = -(a * b) /\ a * b < 0 /\ (max + 1) \div b \in Int
    BY <1>1, <1>4
  <2>4. a < Quotient(min, b) <=> a * b < min
    BY <1>1, <2>1, <2>2, <2>3
  <2> QED
    BY <1>1, <1>4, <2>3, <2>4 DEF SafeMul, Place
<1>5. CASE a < 0 /\ b < 0
  <2>1. Quotient(max, b) = -(max \div (-b))
    BY <1>1, <1>5, QuotientIs
  <2>2. -a > max \div (-b) <=> (-a) * (-b) > max
    BY <1>1, <1>5, Exceeds
  <2>3. (-a) * (-b) = a * b /\ a * b > 0 /\ max \div (-b) \in Int
    BY <1>1, <1>5
  <2>4. a < Quotient(max, b) <=> a * b > max
    BY <1>1, <2>1, <2>2, <2>3
  <2> QED
    BY <1>1, <1>5, <2>3, <2>4 DEF SafeMul, Place
<1>6. CASE a = 0 \/ b = 0
  <2>1. a * b = 0
    BY <1>1, <1>6
  <2> QED
    BY <1>1, <1>6, <2>1 DEF SafeMul, Place
<1> QED
  BY <1>1, <1>2, <1>3, <1>4, <1>5, <1>6

\* What SafeMul returns is a product, whatever it is asked.
LEMMA SafeMulType ==
    ASSUME NEW a \in Int \cup {None}, NEW b \in Int \cup {None}, NEW max \in Int
    PROVE  /\ SafeMul(a, b, max) \in Int \cup {None}
           /\ SafeMul(a, b, max) # None =>
                 a \in Int /\ b \in Int /\ SafeMul(a, b, max) = a * b
BY PricingAssumption DEF SafeMul

-----------------------------------------------------------------------------
(* Shares and taxes *)

\* The share e of r in s, in one division.
LEMMA ProrateIs ==
    ASSUME NEW e \in Nat, NEW r \in Nat, NEW s \in Nat \ {0}
    PROVE  ProrateAmount(e, r, s) = (e * r + s \div 2) \div s
<1>0. s \div 2 \in Nat /\ s \div 2 < s
  OBVIOUS
<1>1. CASE e = 0 \/ r = 0
  <2>1. e * r = 0
    BY <1>1
  <2>2. (s \div 2) \div s = 0
    BY <1>0, DividedIs
  <2> QED
    BY <1>0, <1>1, <2>1, <2>2 DEF ProrateAmount
<1> QED
  BY <1>1 DEF ProrateAmount

\* A share is rounded to the nearest.
LEMMA ProrateBounds ==
    ASSUME NEW e \in Nat, NEW r \in Nat, NEW s \in Nat \ {0}
    PROVE  /\ ProrateAmount(e, r, s) \in Nat
           /\ s * ProrateAmount(e, r, s) =< e * r + s \div 2
           /\ e * r + s \div 2 < s * ProrateAmount(e, r, s) + s
<1> DEFINE x == e * r + s \div 2
<1>1. x \in Nat
  BY ProductNat
<1>2. ProrateAmount(e, r, s) = x \div s
  BY ProrateIs
<1>3. x \div s \in Int /\ s * (x \div s) =< x /\ x < s * (x \div s) + s
  BY <1>1, Divided
<1>4. x \div s >= 0
  BY <1>1
<1> QED
  BY <1>2, <1>3, <1>4

\* A share of a part is no more than the part.
LEMMA ProrateWithin ==
    ASSUME NEW e \in Nat, NEW s \in Nat \ {0}, NEW r \in 0..s
    PROVE  ProrateAmount(e, r, s) \in 0..e
<1> DEFINE p == ProrateAmount(e, r, s)
<1>1. p \in Nat /\ s * p =< e * r + s \div 2
  BY ProrateBounds
<1>2. e * r =< e * s
  BY ProductMono
<1>3. s * p < s * (e + 1)
  <2>1. e * r \in Int /\ e * s \in Int /\ s * p \in Int /\ s \div 2 < s /\ s \div 2 \in Int
    BY <1>1
  <2>2. s * (e + 1) = e * s + s
    OBVIOUS
  <2> HIDE DEF p
  <2> QED
    BY <1>1, <1>2, <2>1, <2>2
<1>4. p < e + 1
  <2> HIDE DEF p
  <2> QED
    BY <1>1, <1>3, ProductCancel
<1> QED
  BY <1>1, <1>4

\* The share of e grows with r, and no faster.
LEMMA ProrateStep ==
    ASSUME NEW s \in Nat \ {0}, NEW e \in 0..s, NEW r \in Nat, NEW q \in Nat, r =< q
    PROVE  /\ ProrateAmount(e, r, s) =< ProrateAmount(e, q, s)
           /\ ProrateAmount(e, q, s) =< ProrateAmount(e, r, s) + (q - r)
<1> DEFINE a == ProrateAmount(e, r, s)
           b == ProrateAmount(e, q, s)
<1>1. /\ a \in Nat /\ s * a =< e * r + s \div 2 /\ e * r + s \div 2 < s * a + s
      /\ b \in Nat /\ s * b =< e * q + s \div 2 /\ e * q + s \div 2 < s * b + s
  <2>1. e \in Nat
    OBVIOUS
  <2>2. a \in Nat /\ s * a =< e * r + s \div 2 /\ e * r + s \div 2 < s * a + s
    BY <2>1, ProrateBounds
  <2>3. b \in Nat /\ s * b =< e * q + s \div 2 /\ e * q + s \div 2 < s * b + s
    BY <2>1, ProrateBounds
  <2> QED
    BY <2>2, <2>3
<1>2. e * r =< e * q
  BY ProductMono
<1>3. e * q =< e * r + s * (q - r)
  <2>1. e * (q - r) =< s * (q - r)
    BY ProductMono
  <2>2. e * (q - r) = e * q - e * r
    OBVIOUS
  <2> QED
    BY <2>1, <2>2
<1>4. e * r \in Int /\ e * q \in Int /\ s * a \in Int /\ s * b \in Int /\ s \div 2 \in Int
      /\ s * (q - r) \in Int
  BY <1>1
<1> HIDE DEF a, b
<1>5. s * a < s * (b + 1)
  <2>1. s * (b + 1) = s * b + s
    BY <1>1
  <2> QED
    BY <1>1, <1>2, <1>4, <2>1
<1>6. s * b < s * (a + (q - r) + 1)
  <2>1. s * (a + (q - r) + 1) = s * a + s * (q - r) + s
    BY <1>1
  <2> QED
    BY <1>1, <1>3, <1>4, <2>1
<1>7. a < b + 1
  BY <1>1, <1>5, ProductCancel
<1>8. b < a + (q - r) + 1
  BY <1>1, <1>6, ProductCancel
<1> QED
  BY <1>1, <1>7, <1>8 DEF a, b

\* The tax is rounded to the nearest.
LEMMA TaxBounds ==
    ASSUME NEW n \in Nat, NEW rate \in Nat
    PROVE  /\ TaxFromNet(n, rate) \in Nat
           /\ 10000 * TaxFromNet(n, rate) =< n * rate + 5000
           /\ n * rate + 5000 < 10000 * TaxFromNet(n, rate) + 10000
<1>1. n * rate \in Nat
  BY ProductNat
<1>2. CASE n = 0 \/ rate = 0
  <2>1. n * rate = 0
    BY <1>2
  <2> QED
    BY <1>2, <2>1 DEF TaxFromNet
<1>3. CASE n > 0 /\ rate > 0
  BY <1>1, <1>3 DEF TaxFromNet
<1> QED
  BY <1>2, <1>3

\* More is taxed no less.
LEMMA TaxGrows ==
    ASSUME NEW n \in Nat, NEW m \in Nat, n =< m, NEW rate \in Nat
    PROVE  TaxFromNet(n, rate) =< TaxFromNet(m, rate)
<1>1. n * rate =< m * rate
  BY ProductMono
<1>2. /\ TaxFromNet(n, rate) \in Nat
      /\ 10000 * TaxFromNet(n, rate) =< n * rate + 5000
      /\ TaxFromNet(m, rate) \in Nat
      /\ m * rate + 5000 < 10000 * TaxFromNet(m, rate) + 10000
  <2>1. TaxFromNet(n, rate) \in Nat /\ 10000 * TaxFromNet(n, rate) =< n * rate + 5000
    BY TaxBounds
  <2>2. TaxFromNet(m, rate) \in Nat /\ m * rate + 5000 < 10000 * TaxFromNet(m, rate) + 10000
    BY TaxBounds
  <2> QED
    BY <2>1, <2>2
<1>3. n * rate \in Int /\ m * rate \in Int
  OBVIOUS
<1> QED
  BY <1>1, <1>2, <1>3

\* The tax in a price is part of it.
LEMMA NetOfGross ==
    ASSUME NEW g \in Nat, NEW rate \in Nat
    PROVE  NetFromTaxInclusive(g, rate) \in 0..g
<1> DEFINE d == 10000 + rate
           x == g * 10000 + d \div 2
<1>1. CASE g = 0 \/ rate = 0
  BY <1>1 DEF NetFromTaxInclusive
<1>2. CASE g > 0 /\ rate > 0
  <2>1. NetFromTaxInclusive(g, rate) = x \div d
    BY <1>2 DEF NetFromTaxInclusive
  <2>2. d \in Nat \ {0} /\ x \in Nat /\ d \div 2 < d /\ d \div 2 \in Nat
    OBVIOUS
  <2>3. x \div d \in Int /\ d * (x \div d) =< x
    BY <2>2, Divided
  <2>4. x \div d >= 0
    BY <2>2
  <2>5. g * 10000 =< g * d
    BY ProductMono
  <2>6. d * (x \div d) < d * (g + 1)
    <3>1. d * (g + 1) = g * d + d /\ g * d \in Int
      BY <2>2
    <3>2. x < g * d + d
      BY <2>2, <2>5, <3>1
    <3>3. d * (x \div d) \in Int
      BY <2>2, <2>3
    <3> HIDE DEF d, x
    <3> QED
      BY <2>2, <2>3, <3>1, <3>2, <3>3
  <2>7. x \div d < g + 1
    <3> HIDE DEF d, x
    <3> QED
      BY <2>2, <2>3, <2>6, ProductCancel
  <2> QED
    BY <2>1, <2>3, <2>4, <2>7
<1> QED
  BY <1>1, <1>2

\* What a voucher takes off its base: never more than that, and one that is larger
\* costs the voucher no more than what it is larger by.
LEMMA VoucherTakes ==
    ASSUME NEW c \in DOMAIN Voucher, NEW b \in Nat
    PROVE  VoucherDiscount(Voucher[c], b) \in 0..b
<1> DEFINE v == Voucher[c]
           p == (b * v.value + 50) \div 100
<1>1. v.value \in Nat \ {0} /\ v.cap \in Nat \cup {None}
  BY PricingAssumption
<1>2. b * v.value \in Nat
  BY <1>1, ProductNat
<1>3. p \in Nat
  <2> HIDE DEF v
  <2> QED
    BY <1>2
<1>4. CASE b = 0
  BY <1>4 DEF VoucherDiscount
<1>5. CASE b > 0
  <2> DEFINE capped == IF v.cap = None THEN p ELSE Min({p, v.cap})
  <2>1. capped \in Nat
    <3> HIDE DEF p, v
    <3>1. v.cap # None => v.cap \in Int /\ p \in Int
      BY <1>1, <1>3
    <3> QED
      BY <1>1, <1>3, <3>1, MinPair
  <2> DEFINE x == IF v.percent THEN capped ELSE v.value
  <2>2. VoucherDiscount(v, b) = Min({x, b})
    BY <1>5 DEF VoucherDiscount
  <2>3. x \in Nat
    <3> HIDE DEF capped, v
    <3> QED
      BY <1>1, <2>1
  <2> HIDE DEF x, v
  <2>4. Min({x, b}) = IF x =< b THEN x ELSE b
    BY <2>3, MinPair
  <2>5. VoucherDiscount(v, b) \in 0..b
    BY <2>2, <2>3, <2>4
  <2> QED
    BY <2>5 DEF v
<1> QED
  BY <1>4, <1>5

\* A percentage, rounded and capped, grows with its base, and no faster.
LEMMA PercentStep ==
    ASSUME NEW value \in Nat, NEW a \in Nat, NEW b \in Nat, a =< b
    PROVE  LET P(n) == (n * value + 50) \div 100
               Off(n) == IF P(n) =< n THEN P(n) ELSE n
           IN  P(a) \in Nat /\ Off(a) =< Off(b) /\ Off(b) =< Off(a) + (b - a)
<1> DEFINE P(n) == (n * value + 50) \div 100
           Off(n) == IF P(n) =< n THEN P(n) ELSE n
           p == P(a)
           q == P(b)
           m == a * value
           n == b * value
<1>1. m \in Nat /\ n \in Nat /\ m =< n
  BY ProductNat, ProductMono
<1>2. /\ p \in Nat /\ 100 * p =< m + 50 /\ m + 50 < 100 * p + 100
      /\ q \in Nat /\ 100 * q =< n + 50 /\ n + 50 < 100 * q + 100
  <2>1. p = (m + 50) \div 100 /\ q = (n + 50) \div 100
    OBVIOUS
  <2> HIDE DEF p, q, m, n
  <2> QED
    BY <1>1, <2>1
<1>3. p =< q
  <2> HIDE DEF p, q, m, n
  <2> QED
    BY <1>1, <1>2
<1>4. value >= 100 => p >= a /\ q >= b
  <2>1. value >= 100 => a * 100 =< m /\ b * 100 =< n
    BY ProductMono
  <2> HIDE DEF p, q, m, n
  <2> QED
    BY <1>1, <1>2, <2>1
<1>5. value < 100 => q =< p + (b - a)
  <2>1. value < 100 => (b - a) * value =< (b - a) * 100
    BY ProductMono
  <2>2. (b - a) * value = n - m
    OBVIOUS
  <2> HIDE DEF p, q, m, n
  <2> QED
    BY <1>1, <1>2, <2>1, <2>2
<1>6. Off(a) = (IF p =< a THEN p ELSE a) /\ Off(b) = (IF q =< b THEN q ELSE b)
  OBVIOUS
<1> HIDE DEF p, q
<1>7. CASE value >= 100
  BY <1>2, <1>4, <1>6, <1>7
<1>8. CASE value < 100
  BY <1>2, <1>3, <1>5, <1>6, <1>8
<1>9. Off(a) =< Off(b) /\ Off(b) =< Off(a) + (b - a)
  BY <1>7, <1>8
<1> QED
  BY <1>2, <1>9 DEF p

\* So does what any voucher takes off.
LEMMA VoucherStep ==
    ASSUME NEW c \in DOMAIN Voucher, NEW a \in Nat, NEW b \in Nat, a =< b
    PROVE  /\ VoucherDiscount(Voucher[c], a) =< VoucherDiscount(Voucher[c], b)
           /\ VoucherDiscount(Voucher[c], b) =< VoucherDiscount(Voucher[c], a) + (b - a)
<1> DEFINE v == Voucher[c]
           P(n) == (n * v.value + 50) \div 100
           Off(n) == IF P(n) =< n THEN P(n) ELSE n
<1>1. v.value \in Nat \ {0} /\ v.cap \in Nat \cup {None}
  BY PricingAssumption
<1> HIDE DEF v
<1>2. /\ P(a) \in Nat /\ P(b) \in Nat
      /\ Off(a) =< Off(b) /\ Off(b) =< Off(a) + (b - a)
  BY <1>1, PercentStep
<1>3. ASSUME NEW n \in Nat, P(n) \in Nat
      PROVE  VoucherDiscount(v, n) =
                IF ~v.percent THEN IF v.value =< n THEN v.value ELSE n
                ELSE IF v.cap = None THEN Off(n)
                ELSE IF v.cap =< Off(n) THEN v.cap ELSE Off(n)
  <2> DEFINE p == P(n)
             capped == IF v.cap = None THEN p ELSE Min({p, v.cap})
             x == IF v.percent THEN capped ELSE v.value
  <2>1. VoucherDiscount(v, n) = IF n =< 0 THEN 0 ELSE Min({x, n})
    BY DEF VoucherDiscount
  <2>2. p \in Nat
    BY <1>3
  <2>3. n = 0 => p = 0
    <3>1. v.value \in Int => 0 * v.value = 0
      OBVIOUS
    <3> QED
      BY <1>1, <3>1
  <2> HIDE DEF p
  <2>4. capped = (IF v.cap = None THEN p ELSE IF p =< v.cap THEN p ELSE v.cap) /\ capped \in Nat
    <3>1. v.cap # None => v.cap \in Nat /\ Min({p, v.cap}) = IF p =< v.cap THEN p ELSE v.cap
      BY <1>1, <2>2, MinPair
    <3> QED
      BY <2>2, <3>1
  <2>5. x \in Nat
    <3> HIDE DEF capped
    <3> QED
      BY <1>1, <2>4
  <2>6. Min({x, n}) = IF x =< n THEN x ELSE n
    <3> HIDE DEF x
    <3> QED
      BY <2>5, MinPair
  <2>7. Off(n) = IF p =< n THEN p ELSE n
    BY DEF p
  <2> HIDE DEF Off
  <2>8. CASE ~v.percent
    <3>1. x = v.value
      BY <2>8
    <3> HIDE DEF x
    <3> QED
      BY <1>1, <2>1, <2>6, <2>8, <3>1
  <2>9. CASE v.percent
    <3>1. x = capped
      BY <2>9
    <3> HIDE DEF x, capped
    <3>2. CASE v.cap = None
      BY <2>1, <2>2, <2>3, <2>4, <2>6, <2>7, <2>9, <3>1, <3>2
    <3>3. CASE v.cap # None
      BY <1>1, <2>1, <2>2, <2>3, <2>4, <2>6, <2>7, <2>9, <3>1, <3>3
    <3> QED
      BY <3>2, <3>3
  <2> QED
    BY <2>8, <2>9
<1>4. Off(a) \in Nat /\ Off(b) \in Nat
  BY <1>2
<1> DEFINE x == VoucherDiscount(v, a)
           y == VoucherDiscount(v, b)
           p == Off(a)
           q == Off(b)
<1>5. /\ x = IF ~v.percent THEN IF v.value =< a THEN v.value ELSE a
              ELSE IF v.cap = None THEN p
              ELSE IF v.cap =< p THEN v.cap ELSE p
      /\ y = IF ~v.percent THEN IF v.value =< b THEN v.value ELSE b
              ELSE IF v.cap = None THEN q
              ELSE IF v.cap =< q THEN v.cap ELSE q
  BY <1>2, <1>3
<1>6. p \in Nat /\ q \in Nat /\ p =< q /\ q =< p + (b - a)
  BY <1>2, <1>4
<1> HIDE DEF x, y, p, q
<1>7. x =< y /\ y =< x + (b - a)
  <2>1. CASE ~v.percent
    BY <1>1, <1>5, <2>1
  <2>2. CASE v.percent /\ v.cap = None
    BY <1>5, <1>6, <2>2
  <2>3. CASE v.percent /\ v.cap # None
    <3>1. v.cap \in Nat
      BY <1>1, <2>3
    <3> QED
      BY <1>5, <1>6, <2>3, <3>1
  <2> QED
    BY <2>1, <2>2, <2>3
<1> QED
  BY <1>7 DEF x, y, v

\* No amount is larger, then neither is the total.
LEMMA TotalMono ==
    ASSUME NEW n \in Nat, NEW s \in [1..n -> Int], NEW t \in [1..n -> Int],
           \A i \in 1..n : s[i] =< t[i]
    PROVE  Total(s) =< Total(t)
<1> DEFINE d == [i \in 1..n |-> t[i] - s[i]]
<1>1. d \in Seq(Nat) /\ d \in [1..n -> Int] /\ s \in Seq(Int)
  <2>1. \A i \in 1..n : t[i] - s[i] \in Nat
    OBVIOUS
  <2> QED
    BY <2>1
<1>2. Total(d) \in Nat /\ Total(s) \in Int
  <2> HIDE DEF d
  <2> QED
    BY <1>1, TotalNat, TotalInt
<1>3. t = [i \in 1..n |-> s[i] + d[i]]
  OBVIOUS
<1>4. Total([i \in 1..n |-> s[i] + d[i]]) = Total(s) + Total(d)
  <2> HIDE DEF d
  <2> QED
    BY <1>1, TotalSum
<1>5. Total(t) = Total(s) + Total(d)
  <2> HIDE DEF d
  <2> QED
    BY <1>3, <1>4
<1> QED
  BY <1>2, <1>5

-----------------------------------------------------------------------------
(* The cart *)

\* The entry's share of prices of the kinds: of the item and of its options.
Base(entry, kinds) == IF Item[entry.item].inclusive \in kinds THEN Item[entry.item].base ELSE 0

Adjustments(entry, kinds) ==
    [n \in DOMAIN entry.options |->
        IF Option[entry.options[n]].inclusive \in kinds
        THEN Option[entry.options[n]].adjustment ELSE 0]

OnMenu(entry) ==
    /\ entry \in EntryType /\ entry.quantity \in Nat
    /\ entry.item \in DOMAIN Item /\ ToSet(entry.options) \subseteq DOMAIN Option

\* A price is of one kind, with tax or without.
OneKind(inclusive) ==
    /\ inclusive \in BOOLEAN
    /\ inclusive \in {TRUE} <=> inclusive \notin {FALSE}

LEMMA BooleanKind ==
    ASSUME NEW x \in BOOLEAN PROVE OneKind(x)
BY DEF OneKind

\* What an entry is priced from: its base price and what its options add.
LEMMA EntryParts ==
    ASSUME NEW entry, OnMenu(entry), NEW kinds
    PROVE  /\ Base(entry, kinds) \in Nat
           /\ Adjustments(entry, kinds) \in [1..Len(entry.options) -> Nat]
           /\ Len(entry.options) \in Nat
           /\ Adjustments(entry, kinds) \in Seq(Nat)
<1>1. /\ DOMAIN entry.options = 1..Len(entry.options) /\ Len(entry.options) \in Nat
      /\ \A n \in 1..Len(entry.options) : entry.options[n] \in DOMAIN Option
  BY DEF OnMenu, EntryType, ToSet
<1>2. \A n \in 1..Len(entry.options) : Option[entry.options[n]].adjustment \in Nat
  BY <1>1, PricingAssumption
<1>3. Base(entry, kinds) \in Nat
  BY PricingAssumption DEF OnMenu, Base
<1>4. Adjustments(entry, kinds) \in [1..Len(entry.options) -> Nat]
  BY <1>1, <1>2 DEF Adjustments
<1> QED
  BY <1>1, <1>3, <1>4

\* An entry's checked total is quantity times price, or none.
LEMMA EntryTotalIs ==
    ASSUME NEW entry, OnMenu(entry), NEW kinds
    PROVE  /\ EntryTotal(entry, kinds) \in Nat \cup {None}
           /\ EntryTotal(entry, kinds) # None =>
                 EntryTotal(entry, kinds) =
                    (Base(entry, kinds) + Total(Adjustments(entry, kinds))) * entry.quantity
<1> DEFINE b == Base(entry, kinds)
           a == Adjustments(entry, kinds)
<1>1. b \in Nat /\ a \in Seq(Nat) /\ Total(a) \in Nat
  BY EntryParts, TotalNat
<1>2. EntryTotal(entry, kinds) = SafeMul(SafeTotal(b, a), entry.quantity, MaxInt)
  BY DEF EntryTotal, Base, Adjustments
<1>3. entry.quantity \in Nat /\ MaxInt \in Int
  BY PricingAssumption DEF OnMenu
<1> HIDE DEF a, b
<1>4. /\ SafeTotal(b, a) \in Int \cup {None}
      /\ SafeTotal(b, a) # None => SafeTotal(b, a) = b + Total(a)
  <2>1. a \in Seq(Int \cup {None}) /\ b \in Int \cup {None}
    BY <1>1
  <2> QED
    BY <2>1, SafeTotalExact
<1>5. /\ EntryTotal(entry, kinds) \in Int \cup {None}
      /\ EntryTotal(entry, kinds) # None =>
            SafeTotal(b, a) \in Int /\ EntryTotal(entry, kinds) = SafeTotal(b, a) * entry.quantity
  <2> DEFINE x == SafeTotal(b, a)
             q == entry.quantity
  <2>1. x \in Int \cup {None} /\ q \in Int \cup {None}
    BY <1>3, <1>4
  <2> HIDE DEF x, q
  <2>2. /\ SafeMul(x, q, MaxInt) \in Int \cup {None}
        /\ SafeMul(x, q, MaxInt) # None => x \in Int /\ SafeMul(x, q, MaxInt) = x * q
    BY <1>3, <2>1, SafeMulType
  <2> QED
    BY <1>2, <2>2 DEF x, q
<1>6. EntryTotal(entry, kinds) # None => EntryTotal(entry, kinds) = (b + Total(a)) * entry.quantity
  BY <1>4, <1>5, PricingAssumption
<1>7. (b + Total(a)) * entry.quantity \in Nat
  BY <1>1, <1>3, ProductNat
<1> QED
  BY <1>5, <1>6, <1>7 DEF a, b

\* A line's subtotal is what is priced with tax and what is priced without.
LEMMA LineParts ==
    ASSUME NEW entry, OnMenu(entry),
           Line(entry).subtotal # None, Line(entry).inclusive # None, Line(entry).exclusive # None
    PROVE  /\ Line(entry).subtotal \in Nat /\ Line(entry).inclusive \in Nat
           /\ Line(entry).exclusive \in Nat
           /\ Line(entry).subtotal = Line(entry).inclusive + Line(entry).exclusive
           /\ Line(entry).subtotal = PreviewLine(entry).subtotal
<1> DEFINE all == EntryTotal(entry, BOOLEAN)
           incl == EntryTotal(entry, {TRUE})
           excl == EntryTotal(entry, {FALSE})
           q == entry.quantity
           n == Len(entry.options)
           B(k) == Base(entry, k)
           A(k) == Adjustments(entry, k)
<1>1. all # None /\ incl # None /\ excl # None
  BY DEF Line
<1>2. /\ all \in Nat /\ all = (B(BOOLEAN) + Total(A(BOOLEAN))) * q
      /\ incl \in Nat /\ incl = (B({TRUE}) + Total(A({TRUE}))) * q
      /\ excl \in Nat /\ excl = (B({FALSE}) + Total(A({FALSE}))) * q
  <2>1. all \in Nat /\ all = (B(BOOLEAN) + Total(A(BOOLEAN))) * q
    BY <1>1, EntryTotalIs
  <2>2. incl \in Nat /\ incl = (B({TRUE}) + Total(A({TRUE}))) * q
    BY <1>1, EntryTotalIs
  <2>3. excl \in Nat /\ excl = (B({FALSE}) + Total(A({FALSE}))) * q
    BY <1>1, EntryTotalIs
  <2> QED
    BY <2>1, <2>2, <2>3
<1>3. \A k : B(k) \in Nat /\ A(k) \in [1..n -> Nat] /\ A(k) \in Seq(Nat) /\ n \in Nat
  BY EntryParts
<1>4. B(BOOLEAN) = B({TRUE}) + B({FALSE}) /\ B(BOOLEAN) = Item[entry.item].base
  <2>1. Item[entry.item].inclusive \in BOOLEAN /\ Item[entry.item].base \in Nat
    BY PricingAssumption DEF OnMenu
  <2>2. OneKind(Item[entry.item].inclusive)
    BY <2>1, BooleanKind
  <2>3. /\ B(BOOLEAN) = Item[entry.item].base
        /\ \/ B({TRUE}) = Item[entry.item].base /\ B({FALSE}) = 0
           \/ B({TRUE}) = 0 /\ B({FALSE}) = Item[entry.item].base
    BY <2>2, Zenon DEF Base, OneKind
  <2> HIDE DEF B
  <2> QED
    BY <2>1, <2>3
<1>5. /\ A(BOOLEAN) = [i \in 1..n |-> A({TRUE})[i] + A({FALSE})[i]]
      /\ A(BOOLEAN) = [i \in DOMAIN entry.options |-> Option[entry.options[i]].adjustment]
  <2>1. DOMAIN entry.options = 1..n /\ \A i \in 1..n : entry.options[i] \in DOMAIN Option
    BY DEF OnMenu, EntryType, ToSet
  <2>2. \A i \in 1..n : /\ Option[entry.options[i]].adjustment \in Nat
                        /\ Option[entry.options[i]].inclusive \in BOOLEAN
    BY <2>1, PricingAssumption
  <2>3. \A i \in 1..n : /\ A(BOOLEAN)[i] = Option[entry.options[i]].adjustment
                        /\ A(BOOLEAN)[i] = A({TRUE})[i] + A({FALSE})[i]
    <3> SUFFICES ASSUME NEW i \in 1..n
                 PROVE  /\ A(BOOLEAN)[i] = Option[entry.options[i]].adjustment
                        /\ A(BOOLEAN)[i] = A({TRUE})[i] + A({FALSE})[i]
      OBVIOUS
    <3> DEFINE o == Option[entry.options[i]]
    <3>1. \A k : A(k)[i] = IF o.inclusive \in k THEN o.adjustment ELSE 0
      BY <2>1 DEF Adjustments
    <3>2. o.adjustment \in Nat /\ o.inclusive \in BOOLEAN
      BY <2>2
    <3> HIDE DEF o
    <3>4. OneKind(o.inclusive)
      BY <3>2, BooleanKind
    <3>5. /\ A(BOOLEAN)[i] = o.adjustment
          /\ \/ A({TRUE})[i] = o.adjustment /\ A({FALSE})[i] = 0
             \/ A({TRUE})[i] = 0 /\ A({FALSE})[i] = o.adjustment
      BY <3>1, <3>4, Zenon DEF OneKind
    <3> HIDE DEF A
    <3>3. A(BOOLEAN)[i] = A({TRUE})[i] + A({FALSE})[i] /\ A(BOOLEAN)[i] = o.adjustment
      BY <3>2, <3>5
    <3> QED
      BY <3>3 DEF o
  <2>4. A(BOOLEAN) = [i \in 1..n |-> A(BOOLEAN)[i]]
    BY <1>3
  <2> QED
    BY <2>1, <2>3, <2>4
<1>6. Total(A(BOOLEAN)) = Total(A({TRUE})) + Total(A({FALSE}))
  <2>1. n \in Nat /\ A({TRUE}) \in [1..n -> Int] /\ A({FALSE}) \in [1..n -> Int]
    BY <1>3
  <2> HIDE DEF n, A
  <2>2. Total([i \in 1..n |-> A({TRUE})[i] + A({FALSE})[i]]) = Total(A({TRUE})) + Total(A({FALSE}))
    BY <2>1, TotalSum
  <2> QED
    BY <1>5, <2>2
<1>7. Total(A({TRUE})) \in Nat /\ Total(A({FALSE})) \in Nat /\ Total(A(BOOLEAN)) \in Nat
  <2> HIDE DEF A
  <2> QED
    BY <1>3, TotalNat
<1>8. q \in Nat
  BY DEF OnMenu
<1>9. all = incl + excl
  <2> DEFINE w == Total(A({TRUE}))
             x == Total(A({FALSE}))
             y == B({TRUE})
             z == B({FALSE})
  <2>1. all = ((y + z) + (w + x)) * q /\ incl = (y + w) * q /\ excl = (z + x) * q
    BY <1>2, <1>4, <1>6
  <2>2. w \in Nat /\ x \in Nat /\ y \in Nat /\ z \in Nat
    BY <1>3, <1>7
  <2> HIDE DEF w, x, y, z, q, all, incl, excl
  <2> QED
    BY <1>8, <2>1, <2>2
<1>10. PreviewLine(entry).subtotal = (B(BOOLEAN) + Total(A(BOOLEAN))) * q
  BY <1>4, <1>5 DEF PreviewLine
<1>11. Line(entry).subtotal = all /\ Line(entry).inclusive = incl /\ Line(entry).exclusive = excl
  BY DEF Line
<1> QED
  BY <1>2, <1>9, <1>10, <1>11

\* What the pricing of vouchers needs of the lines of a cart.
GoodLines(lines) ==
    /\ lines \in Seq([item : DOMAIN Item, subtotal : Nat, inclusive : Nat, exclusive : Nat])
    /\ \A i \in DOMAIN lines : lines[i].subtotal = lines[i].inclusive + lines[i].exclusive
    /\ Subtotal(lines) \in Nat
    /\ Subtotal(lines) = Total([i \in DOMAIN lines |-> lines[i].subtotal])

\* The lines of a cart that checkout accepts are priced, each in two parts.
LEMMA CartLines ==
    ASSUME NEW items \in Seq(EntryType), ValidCart(items)
    PROVE  /\ GoodLines(Lines(items))
           /\ DOMAIN Lines(items) = DOMAIN items
           /\ \A i \in DOMAIN items : OnMenu(items[i]) /\ Lines(items)[i] = Line(items[i])
           /\ \A i \in DOMAIN items : Lines(items)[i].subtotal = PreviewLine(items[i]).subtotal
<1> DEFINE lines == Lines(items)
           n == Len(items)
           subs == [i \in DOMAIN lines |-> lines[i].subtotal]
<1>1. n \in Nat /\ DOMAIN items = 1..n /\ DOMAIN lines = 1..n
      /\ \A i \in 1..n : lines[i] = Line(items[i])
  BY DEF Lines
<1>2. \A i \in 1..n : OnMenu(items[i])
  BY <1>1, PricingAssumption DEF ValidCart, OnMenu
<1>3. \A i \in 1..n : /\ lines[i].inclusive # None /\ lines[i].exclusive # None
                      /\ lines[i].subtotal \in Int \cup {None}
  <2>1. \A i \in 1..n : lines[i].subtotal \in Int \cup {None}
    <3> SUFFICES ASSUME NEW i \in 1..n PROVE lines[i].subtotal \in Int \cup {None}
      OBVIOUS
    <3>1. EntryTotal(items[i], BOOLEAN) \in Nat \cup {None}
      BY <1>2, EntryTotalIs
    <3> QED
      BY <1>1, <3>1 DEF Line
  <2>2. \A i \in 1..n : lines[i] \in ToSet(lines)
    BY <1>1 DEF ToSet
  <2>3. None \notin UNION {{l.inclusive, l.exclusive} : l \in ToSet(lines)}
    BY DEF ValidCart
  <2> QED
    BY <2>1, <2>2, <2>3
<1>4. subs \in Seq(Int \cup {None}) /\ Len(subs) = n /\ \A i \in 1..n : subs[i] = lines[i].subtotal
  <2> HIDE DEF lines
  <2> QED
    BY <1>1, <1>3
<1>5. Subtotal(lines) = SafeTotal(0, subs) /\ Subtotal(lines) # None
  BY DEF Subtotal, ValidCart
<1>6. subs \in Seq(Int) /\ SafeTotal(0, subs) = 0 + Total(subs)
  <2>1. 0 \in Int \cup {None}
    OBVIOUS
  <2> HIDE DEF subs
  <2> QED
    BY <1>4, <1>5, <2>1, SafeTotalExact
<1>7. \A i \in 1..n : lines[i].subtotal # None
  <2>1. \A i \in 1..n : subs[i] \in Int
    <3> HIDE DEF subs
    <3> QED
      BY <1>1, <1>4, <1>6
  <2> HIDE DEF subs, lines
  <2> QED
    BY <1>4, <2>1, PricingAssumption
<1>8. \A i \in 1..n : /\ lines[i].subtotal \in Nat /\ lines[i].inclusive \in Nat
                      /\ lines[i].exclusive \in Nat
                      /\ lines[i].subtotal = lines[i].inclusive + lines[i].exclusive
                      /\ lines[i].subtotal = PreviewLine(items[i]).subtotal
  <2> SUFFICES ASSUME NEW i \in 1..n
               PROVE  /\ lines[i].subtotal \in Nat /\ lines[i].inclusive \in Nat
                      /\ lines[i].exclusive \in Nat
                      /\ lines[i].subtotal = lines[i].inclusive + lines[i].exclusive
                      /\ lines[i].subtotal = PreviewLine(items[i]).subtotal
    OBVIOUS
  <2>1. lines[i] = Line(items[i]) /\ OnMenu(items[i])
    BY <1>1, <1>2
  <2>2. Line(items[i]).subtotal # None /\ Line(items[i]).inclusive # None
          /\ Line(items[i]).exclusive # None
    <3> HIDE DEF lines
    <3> QED
      BY <1>3, <1>7, <2>1
  <2> HIDE DEF lines
  <2> QED
    BY <2>1, <2>2, LineParts
<1>9. subs \in Seq(Nat)
  <2> HIDE DEF lines
  <2> QED
    BY <1>1, <1>8
<1>10. Total(subs) \in Nat
  <2> HIDE DEF subs
  <2> QED
    BY <1>9, TotalNat
<1>11. \A i \in 1..n :
         lines[i] \in [item : DOMAIN Item, subtotal : Nat, inclusive : Nat, exclusive : Nat]
  <2> SUFFICES ASSUME NEW i \in 1..n
               PROVE  lines[i] \in [item : DOMAIN Item, subtotal : Nat, inclusive : Nat,
                                      exclusive : Nat]
    OBVIOUS
  <2>1. lines[i] = Line(items[i]) /\ items[i].item \in DOMAIN Item
    BY <1>1, <1>2 DEF OnMenu
  <2> QED
    BY <1>8, <2>1 DEF Line
<1>12. lines \in Seq([item : DOMAIN Item, subtotal : Nat, inclusive : Nat, exclusive : Nat])
  <2>1. lines = [i \in 1..n |-> lines[i]]
    BY <1>1 DEF Lines
  <2> HIDE DEF lines
  <2> QED
    BY <1>1, <1>11, <2>1
<1>13. GoodLines(lines)
  <2>1. Subtotal(lines) \in Nat /\ Subtotal(lines) = Total(subs)
    BY <1>5, <1>6, <1>10
  <2> QED
    BY <1>1, <1>8, <1>12, <2>1 DEF GoodLines
<1> QED
  BY <1>1, <1>2, <1>8, <1>13

\* One such line.
LEMMA GoodLine ==
    ASSUME NEW lines, GoodLines(lines)
    PROVE  /\ Len(lines) \in Nat /\ DOMAIN lines = 1..Len(lines)
           /\ \A i \in 1..Len(lines) :
                 /\ lines[i].item \in DOMAIN Item /\ lines[i].subtotal \in Nat
                 /\ lines[i].inclusive \in Nat /\ lines[i].exclusive \in Nat
                 /\ lines[i].subtotal = lines[i].inclusive + lines[i].exclusive
<1> DEFINE L == [item : DOMAIN Item, subtotal : Nat, inclusive : Nat, exclusive : Nat]
<1>1. lines \in Seq(L)
  BY DEF GoodLines
<1>2. Len(lines) \in Nat /\ DOMAIN lines = 1..Len(lines) /\ \A i \in 1..Len(lines) : lines[i] \in L
  <2> HIDE DEF L
  <2> QED
    BY <1>1
<1> QED
  BY <1>2 DEF GoodLines

\* Their totals: together they are the subtotal.
LEMMA LineTotals ==
    ASSUME NEW lines, GoodLines(lines)
    PROVE  /\ Inclusive(lines) \in Nat /\ Exclusive(lines) \in Nat
           /\ Subtotal(lines) = Inclusive(lines) + Exclusive(lines)
<1> DEFINE n == Len(lines)
           s == [i \in 1..n |-> lines[i].inclusive]
           t == [i \in 1..n |-> lines[i].exclusive]
<1>1. /\ n \in Nat /\ DOMAIN lines = 1..n
      /\ \A i \in 1..n : /\ lines[i].inclusive \in Nat /\ lines[i].exclusive \in Nat
                         /\ lines[i].subtotal = lines[i].inclusive + lines[i].exclusive
  BY GoodLine DEF GoodLines
<1>2. s \in [1..n -> Int] /\ t \in [1..n -> Int] /\ s \in Seq(Nat) /\ t \in Seq(Nat)
  <2>1. s \in [1..n -> Nat] /\ t \in [1..n -> Nat]
    BY <1>1
  <2> QED
    BY <1>1, <2>1
<1>3. Inclusive(lines) = Total(s) /\ Exclusive(lines) = Total(t)
  BY <1>1 DEF Inclusive, Exclusive
<1>4. [i \in DOMAIN lines |-> lines[i].subtotal] = [i \in 1..n |-> s[i] + t[i]]
  BY <1>1
<1>5. Total([i \in 1..n |-> s[i] + t[i]]) = Total(s) + Total(t)
  <2> HIDE DEF s, t, n
  <2> QED
    BY <1>1, <1>2, TotalSum
<1>6. Total(s) \in Nat /\ Total(t) \in Nat
  <2> HIDE DEF s, t
  <2> QED
    BY <1>2, TotalNat
<1> HIDE DEF s, t
<1> QED
  BY <1>3, <1>4, <1>5, <1>6 DEF GoodLines

\* No voucher is eligible for more than the subtotal.
LEMMA EligibleWithin ==
    ASSUME NEW lines, GoodLines(lines), NEW v
    PROVE  EligibleSubtotal(v, lines) \in 0..Subtotal(lines)
<1> DEFINE n == Len(lines)
           Applies(l) == l.item \in v.items /\ (v.promo \/ ~Item[l.item].promo)
           s == [i \in 1..n |-> IF Applies(lines[i]) THEN lines[i].subtotal ELSE 0]
           t == [i \in 1..n |-> lines[i].subtotal]
<1>1. n \in Nat /\ DOMAIN lines = 1..n /\ \A i \in 1..n : lines[i].subtotal \in Nat
  BY GoodLine DEF GoodLines
<1>2. /\ s \in [1..n -> Nat] /\ t \in [1..n -> Nat]
      /\ \A i \in 1..n : s[i] =< t[i]
  BY <1>1
<1>3. EligibleSubtotal(v, lines) = Total(s) /\ Subtotal(lines) = Total(t) /\ Total(t) \in Nat
  BY <1>1 DEF EligibleSubtotal, GoodLines
<1>4. s \in [1..n -> Int] /\ t \in [1..n -> Int] /\ s \in Seq(Nat)
  <2> HIDE DEF s, t
  <2> QED
    BY <1>1, <1>2
<1>5. Total(s) =< Total(t) /\ Total(s) \in Nat
  <2> HIDE DEF s, t, n
  <2> QED
    BY <1>1, <1>2, <1>4, TotalMono, TotalNat
<1> HIDE DEF s, t
<1> QED
  BY <1>3, <1>5

-----------------------------------------------------------------------------
(* Vouchers *)

\* What voucher c takes off, eligible for e, when r of the subtotal s remains.
Off(c, e, r, s) == VoucherDiscount(Voucher[c], ProrateAmount(e, r, s))

\* No voucher takes off more than what remains.
LEMMA OffWithin ==
    ASSUME NEW c \in DOMAIN Voucher, NEW s \in Nat \ {0}, NEW e \in 0..s, NEW r \in 0..s
    PROVE  /\ ProrateAmount(e, r, s) \in Nat /\ ProrateAmount(e, r, s) =< r
           /\ Off(c, e, r, s) \in 0..ProrateAmount(e, r, s)
           /\ Off(c, e, r, s) \in 0..e /\ Off(c, e, r, s) =< r
<1> DEFINE p == ProrateAmount(e, r, s)
           z == ProrateAmount(e, 0, s)
<1>0. e \in Nat /\ r \in Nat /\ 0 \in Nat /\ 0 \in 0..s /\ 0 =< r
  OBVIOUS
<1>1. p \in 0..e
  BY <1>0, ProrateWithin
<1>2. z = 0
  BY DEF ProrateAmount
<1>3. p =< z + (r - 0)
  BY <1>0, ProrateStep
<1>4. p \in Nat /\ p =< r
  <2> HIDE DEF p, z
  <2> QED
    BY <1>0, <1>1, <1>2, <1>3
<1>5. Off(c, e, r, s) \in 0..p
  <2> HIDE DEF p
  <2>1. VoucherDiscount(Voucher[c], p) \in 0..p
    BY <1>4, VoucherTakes
  <2> QED
    BY <2>1 DEF Off, p
<1> HIDE DEF p
<1>6. Off(c, e, r, s) \in 0..e /\ Off(c, e, r, s) =< r
  BY <1>0, <1>1, <1>4, <1>5
<1> QED
  BY <1>4, <1>5, <1>6 DEF p

\* When more remains, a voucher takes off no less, but no more than the difference more:
\* what is left after it still grows with what was left before.
LEMMA OffStep ==
    ASSUME NEW c \in DOMAIN Voucher, NEW s \in Nat \ {0}, NEW e \in 0..s,
           NEW r \in 0..s, NEW q \in 0..s, r =< q
    PROVE  /\ Off(c, e, r, s) =< Off(c, e, q, s)
           /\ Off(c, e, q, s) =< Off(c, e, r, s) + (q - r)
<1> DEFINE a == ProrateAmount(e, r, s)
           b == ProrateAmount(e, q, s)
           x == Off(c, e, r, s)
           y == Off(c, e, q, s)
<1>0. r \in Nat /\ q \in Nat /\ e \in Nat
  OBVIOUS
<1>1. a =< b /\ b =< a + (q - r)
  BY <1>0, ProrateStep
<1>2. a \in Nat /\ x \in 0..a
  BY OffWithin
<1>3. b \in Nat /\ y \in 0..b
  BY OffWithin
<1>4. x =< y /\ y =< x + (b - a)
  <2>1. x = VoucherDiscount(Voucher[c], a) /\ y = VoucherDiscount(Voucher[c], b)
    BY DEF Off
  <2> HIDE DEF a, b, x, y
  <2> QED
    BY <1>1, <1>2, <1>3, <2>1, VoucherStep
<1> HIDE DEF a, b, x, y
<1>5. x =< y /\ y =< x + (q - r)
  BY <1>0, <1>1, <1>2, <1>3, <1>4
<1> QED
  BY <1>5 DEF x, y

\* A discount more.
LEMMA DiscountInt ==
    ASSUME NEW a \in Seq(AppliedType)
    PROVE  /\ TotalDiscount(a) \in Int
           /\ \A x \in AppliedType : TotalDiscount(Append(a, x)) = TotalDiscount(a) + x.amount
<1> DEFINE s == [i \in DOMAIN a |-> a[i].amount]
<1>1. Len(a) \in Nat /\ DOMAIN a = 1..Len(a) /\ \A i \in 1..Len(a) : a[i].amount \in Int
  <2>1. \A i \in 1..Len(a) : a[i] \in AppliedType
    OBVIOUS
  <2> QED
    BY <2>1 DEF AppliedType
<1>2. s \in Seq(Int) /\ Len(s) = Len(a)
  BY <1>1
<1>3. TotalDiscount(a) = Total(s)
  BY DEF TotalDiscount
<1>4. Total(s) \in Int
  <2> HIDE DEF s
  <2> QED
    BY <1>2, TotalInt
<1>5. ASSUME NEW x \in AppliedType
      PROVE  TotalDiscount(Append(a, x)) = TotalDiscount(a) + x.amount
  <2> DEFINE t == Append(a, x)
             u == [i \in DOMAIN t |-> t[i].amount]
  <2>1. DOMAIN t = 1..(Len(a) + 1) /\ t[Len(a) + 1] = x /\ \A i \in 1..Len(a) : t[i] = a[i]
    OBVIOUS
  <2>2. x.amount \in Int
    BY DEF AppliedType
  <2>3. u = Append(s, x.amount)
    <3>1. DOMAIN Append(s, x.amount) = 1..(Len(a) + 1)
      BY <1>2, <2>2
    <3>2. \A i \in 1..(Len(a) + 1) : Append(s, x.amount)[i] = IF i = Len(a) + 1
                                                              THEN x.amount
                                                              ELSE s[i]
      BY <1>1, <1>2, <2>2
    <3>3. \A i \in 1..(Len(a) + 1) : u[i] = IF i = Len(a) + 1 THEN x.amount ELSE s[i]
      BY <1>1, <2>1
    <3>4. Append(s, x.amount) = [i \in 1..(Len(a) + 1) |-> Append(s, x.amount)[i]]
      <4> HIDE DEF s
      <4> QED
        BY <1>2, <2>2, <3>1
    <3>5. DOMAIN u = 1..(Len(a) + 1) /\ u = [i \in 1..(Len(a) + 1) |-> u[i]]
      BY <2>1
    <3> HIDE DEF s, u
    <3> QED
      BY <3>2, <3>3, <3>4, <3>5
  <2>4. Total(Append(s, x.amount)) = Total(s) + x.amount
    <3> HIDE DEF s
    <3> QED
      BY <1>2, <2>2, TotalAppend
  <2>5. TotalDiscount(t) = Total(u)
    BY DEF TotalDiscount
  <2> HIDE DEF s, u
  <2> QED
    BY <1>3, <2>3, <2>4, <2>5
<1> QED
  BY <1>3, <1>4, <1>5

LEMMA DiscountEmpty == TotalDiscount(<<>>) = 0
<1>1. [i \in DOMAIN <<>> |-> <<>>[i].amount] = <<>>
  OBVIOUS
<1> QED
  BY <1>1, TotalEmpty DEF TotalDiscount

\* One round of the loop: voucher c, eligible for e, after the discounts a.
IsRound(lines, s, c, e, a, r) ==
    /\ s \in Nat \ {0} /\ c \in DOMAIN Voucher
    /\ e \in 1..s /\ e = EligibleSubtotal(Voucher[c], lines)
    /\ a \in Seq(AppliedType) /\ r \in 0..s /\ r = s - TotalDiscount(a)

\* What the loop does with one voucher, in these terms.
LEMMA RoundIs ==
    ASSUME NEW lines, NEW s, NEW c, NEW e, NEW a, NEW r, IsRound(lines, s, c, e, a, r)
    PROVE  ApplyVoucher(a, c, lines, s) =
              IF r = 0 THEN a
              ELSE IF Off(c, e, r, s) = 0 THEN None
              ELSE Append(a, [code |-> c, eligible |-> e, amount |-> Off(c, e, r, s)])
<1> DEFINE base == DiscountBase(e, r, s)
           y == Off(c, e, r, s)
           amount == Min({VoucherDiscount(Voucher[c], base), base})
<1>0. /\ s \in Nat \ {0} /\ c \in DOMAIN Voucher
      /\ e \in 1..s /\ e = EligibleSubtotal(Voucher[c], lines)
      /\ a \in Seq(AppliedType) /\ r \in 0..s /\ r = s - TotalDiscount(a)
  BY DEF IsRound
<1>1. e \in 0..s
  BY <1>0
<1>2. base \in Nat /\ base =< r /\ y \in 0..base
  BY <1>0, <1>1, OffWithin DEF DiscountBase
<1>3. VoucherDiscount(Voucher[c], base) = y
  BY DEF Off, DiscountBase
<1>4. amount = y
  <2>1. amount = Min({y, base})
    BY <1>3
  <2> HIDE DEF y, base, amount
  <2> QED
    BY <1>2, <2>1, MinPair
<1>5. Min({y, r}) = y
  <2> HIDE DEF y, base
  <2> QED
    BY <1>0, <1>2, MinPair
<1>6. ApplyVoucher(a, c, lines, s) =
         IF s <= 0 \/ e <= 0 THEN None
         ELSE IF r <= 0 THEN a
         ELSE IF ~TakesSomething(amount) THEN None
         ELSE Append(a, [code |-> c, eligible |-> e, amount |-> Min({amount, r})])
  BY <1>0 DEF ApplyVoucher
<1> HIDE DEF y, base, amount
<1>7. CASE r = 0
  BY <1>0, <1>6, <1>7
<1>8. CASE r # 0 /\ y = 0
  BY <1>0, <1>4, <1>6, <1>8 DEF TakesSomething, y
<1>9. CASE r # 0 /\ y # 0
  BY <1>0, <1>2, <1>4, <1>5, <1>6, <1>9 DEF TakesSomething, y
<1> QED
  BY <1>7, <1>8, <1>9 DEF y

\* One round gives a list of discounts or refuses.
LEMMA RoundType ==
    ASSUME NEW lines, NEW s \in Nat, NEW c \in DOMAIN Voucher,
           EligibleSubtotal(Voucher[c], lines) \in 0..s, NEW a \in Seq(AppliedType)
    PROVE  ApplyVoucher(a, c, lines, s) \in Seq(AppliedType) \cup {None}
<1> DEFINE e == EligibleSubtotal(Voucher[c], lines)
           r == s - TotalDiscount(a)
           base == DiscountBase(e, r, s)
           d == VoucherDiscount(Voucher[c], base)
           amount == Min({d, base})
<1>1. r \in Int /\ e \in Int /\ c \in Nat
  BY DiscountInt, PricingAssumption
<1>2. ApplyVoucher(a, c, lines, s) =
         IF s <= 0 \/ e <= 0 THEN None
         ELSE IF r <= 0 THEN a
         ELSE IF ~TakesSomething(amount) THEN None
         ELSE Append(a, [code |-> c, eligible |-> e, amount |-> Min({amount, r})])
  BY DEF ApplyVoucher
<1>3. ASSUME s > 0, e > 0, r > 0
      PROVE  [code |-> c, eligible |-> e, amount |-> Min({amount, r})] \in AppliedType
  <2>1. base \in Nat
    <3>1. s \in Nat \ {0} /\ r \in Nat /\ e \in Nat
      BY <1>1, <1>3
    <3> HIDE DEF r, e
    <3> QED
      BY <3>1, ProrateBounds DEF DiscountBase
  <2>2. d \in 0..base
    <3> HIDE DEF base
    <3> QED
      BY <2>1, VoucherTakes
  <2>3. amount \in Int
    <3> HIDE DEF base, d
    <3> QED
      BY <2>1, <2>2, MinPair
  <2>4. Min({amount, r}) \in Int
    <3> HIDE DEF amount, r
    <3> QED
      BY <1>1, <2>3, MinPair
  <2> HIDE DEF amount, r, e
  <2> QED
    BY <1>1, <2>4 DEF AppliedType
<1> HIDE DEF amount, r, e
<1> QED
  BY <1>1, <1>2, <1>3

\* What remains of the subtotal after each voucher of s.
IsRest(R, s, lines, subtotal) ==
    /\ R \in [0..Len(s) -> 0..subtotal] /\ R[0] = subtotal
    /\ \A n \in 1..Len(s) :
          R[n] = R[n - 1] - Off(s[n], EligibleSubtotal(Voucher[s[n]], lines), R[n - 1], subtotal)

\* Every voucher takes off something of the codes s and no more than it may.
GoodStack(a, s) ==
    /\ a \in Seq(AppliedType)
    /\ \A i \in DOMAIN a : a[i].code \in ToSet(s) /\ 0 < a[i].amount /\ a[i].amount <= a[i].eligible

\* Therefore a stack that is accepted leaves a run of remainders, each what the voucher
\* before it did not take.
LEMMA StackRuns ==
    ASSUME NEW lines, NEW subtotal \in Nat, NEW s \in Seq(DOMAIN Voucher),
           \A c \in DOMAIN Voucher : EligibleSubtotal(Voucher[c], lines) \in 0..subtotal,
           \A c \in ToSet(s) : EligibleSubtotal(Voucher[c], lines) > 0,
           ApplyVouchers(s, lines, subtotal) # None
    PROVE  /\ GoodStack(ApplyVouchers(s, lines, subtotal), s)
           /\ \E R : /\ IsRest(R, s, lines, subtotal)
                     /\ TotalDiscount(ApplyVouchers(s, lines, subtotal)) = subtotal - R[Len(s)]
<1> DEFINE E(c) == EligibleSubtotal(Voucher[c], lines)
<1>1. PICK f \in [0..Len(s) -> Seq(AppliedType) \cup {None}] :
              /\ f[0] = <<>>
              /\ \A n \in 1..Len(s) :
                    f[n] = IF f[n - 1] = None
                           THEN None
                           ELSE ApplyVoucher(f[n - 1], s[n], lines, subtotal)
              /\ ApplyVouchers(s, lines, subtotal) = f[Len(s)]
  <2>1. TypedRounds(lines, subtotal)
    BY RoundType DEF TypedRounds
  <2>2. HasRounds(s, lines, subtotal)
    BY <2>1, ApplyRuns
  <2> QED
    BY <2>2, Zenon DEF HasRounds
<1> DEFINE Rest(n) == subtotal - TotalDiscount(f[n])
           Good(n) == /\ GoodStack(f[n], s) /\ Rest(n) \in 0..subtotal
                      /\ n > 0 => Rest(n) = Rest(n - 1) - Off(s[n], E(s[n]), Rest(n - 1), subtotal)
           D == {n \in 0..Len(s) : f[n] # None => \A i \in 0..n : Good(i)}
<1>2. Len(s) \in Nat /\ \A n \in 1..Len(s) : s[n] \in DOMAIN Voucher /\ s[n] \in ToSet(s)
  BY DEF ToSet
<1>3. Good(0)
  BY <1>1, DiscountEmpty DEF GoodStack
<1>4. ASSUME NEW n \in 1..Len(s), f[n - 1] # None => \A i \in 0..(n - 1) : Good(i), f[n] # None
      PROVE  \A i \in 0..n : Good(i)
  <2>1. f[n - 1] # None /\ f[n] = ApplyVoucher(f[n - 1], s[n], lines, subtotal)
    BY <1>1, <1>4
  <2>2. n - 1 \in 0..(n - 1)
    BY <1>2
  <2>3. Good(n - 1)
    BY <1>4, <2>1, <2>2
  <2> DEFINE a == f[n - 1]
             c == s[n]
             e == EligibleSubtotal(Voucher[c], lines)
             r == Rest(n - 1)
             y == Off(c, e, r, subtotal)
             x == [code |-> c, eligible |-> e, amount |-> y]
  <2>4. /\ a \in Seq(AppliedType) /\ r \in 0..subtotal
        /\ \A i \in DOMAIN a : a[i].code \in ToSet(s) /\ 0 < a[i].amount
             /\ a[i].amount <= a[i].eligible
        /\ r = subtotal - TotalDiscount(a)
    BY <2>3 DEF GoodStack
  <2>5. c \in DOMAIN Voucher /\ c \in ToSet(s) /\ e \in 1..subtotal /\ subtotal \in Nat \ {0}
    <3>1. c \in DOMAIN Voucher /\ c \in ToSet(s)
      BY <1>2
    <3>2. e \in 0..subtotal /\ e > 0
      BY <3>1
    <3> HIDE DEF e
    <3> QED
      BY <3>1, <3>2
  <2> HIDE DEF a, c, r
  <2>6. f[n] = IF r = 0 THEN a ELSE IF y = 0 THEN None ELSE Append(a, x)
    <3>1. f[n] = ApplyVoucher(a, c, lines, subtotal)
      BY <2>1 DEF a, c
    <3>2. e = EligibleSubtotal(Voucher[c], lines)
      OBVIOUS
    <3> HIDE DEF e
    <3>3. ApplyVoucher(a, c, lines, subtotal) =
             IF r = 0 THEN a
             ELSE IF Off(c, e, r, subtotal) = 0 THEN None
             ELSE Append(a, [code |-> c, eligible |-> e, amount |-> Off(c, e, r, subtotal)])
      <4>1. IsRound(lines, subtotal, c, e, a, r)
        BY <2>4, <2>5, <3>2 DEF IsRound
      <4> QED
        BY <4>1, RoundIs
    <3> QED
      BY <3>1, <3>3
  <2>7. y \in 0..e /\ y =< r
    <3>1. e \in 0..subtotal
      BY <2>5
    <3> QED
      BY <2>4, <2>5, <3>1, OffWithin
  <2>8. x \in AppliedType /\ x.code = c /\ x.eligible = e /\ x.amount = y
    <3>1. c \in Nat /\ e \in Int /\ y \in Int
      BY <2>5, <2>7, PricingAssumption
    <3> HIDE DEF y, e
    <3> QED
      BY <3>1 DEF AppliedType
  <2> HIDE DEF e, x, y
  <2>9. GoodStack(f[n], s) /\ Rest(n) = r - y
    <3>1. CASE r = 0
      <4>1. f[n] = a /\ y = 0
        BY <2>4, <2>5, <2>6, <2>7, <3>1
      <4>2. Rest(n) = r
        BY <2>4, <4>1
      <4> HIDE DEF Rest
      <4> QED
        BY <2>4, <4>1, <4>2, <3>1 DEF GoodStack
    <3>2. CASE r # 0
      <4>1. y # 0 /\ f[n] = Append(a, x)
        BY <1>4, <2>6, <3>2
      <4>2. TotalDiscount(Append(a, x)) = TotalDiscount(a) + y /\ TotalDiscount(a) \in Int
        BY <2>4, <2>8, DiscountInt
      <4>3. Rest(n) = r - y
        BY <2>4, <2>5, <2>7, <4>1, <4>2
      <4>4. 0 < y /\ y =< e
        BY <2>5, <2>7, <4>1
      <4>5. Append(a, x) \in Seq(AppliedType)
        BY <2>4, <2>8
      <4>6. ASSUME NEW i \in DOMAIN Append(a, x)
            PROVE  Append(a, x)[i] = x \/ (i \in DOMAIN a /\ Append(a, x)[i] = a[i])
        BY <2>4, <2>8
      <4>7. \A i \in DOMAIN Append(a, x) :
               /\ Append(a, x)[i].code \in ToSet(s) /\ 0 < Append(a, x)[i].amount
               /\ Append(a, x)[i].amount <= Append(a, x)[i].eligible
        BY <2>4, <2>5, <2>8, <4>4, <4>6
      <4> HIDE DEF Rest
      <4> QED
        BY <4>1, <4>3, <4>5, <4>7 DEF GoodStack
    <3> QED
      BY <3>1, <3>2
  <2>10. Rest(n) \in 0..subtotal
    <3> HIDE DEF Rest
    <3> QED
      BY <2>4, <2>5, <2>7, <2>9
  <2>11. Rest(n) = Rest(n - 1) - Off(s[n], E(s[n]), Rest(n - 1), subtotal)
    <3> HIDE DEF Rest
    <3> QED
      BY <2>9 DEF y, e, c, r
  <2>12. Good(n)
    <3> HIDE DEF Rest
    <3> QED
      BY <2>9, <2>10, <2>11
  <2>13. \A i \in 0..n : i = n \/ i \in 0..(n - 1)
    BY <1>2
  <2> HIDE DEF Good
  <2> QED
    BY <1>4, <2>1, <2>12, <2>13
<1>5. \A i \in 0..Len(s) : Good(i)
  <2> HIDE DEF Good
  <2>1. 0 \in D /\ D \in SUBSET (0..Len(s))
    <3>1. \A i \in 0..0 : i = 0
      OBVIOUS
    <3> QED
      BY <1>2, <1>3, <3>1
  <2>2. \A n \in 1..Len(s) : n - 1 \in D => n \in D
    BY <1>2, <1>4
  <2>3. D = 0..Len(s)
    <3> HIDE DEF D
    <3> QED
      BY <1>2, <2>1, <2>2, UpTo
  <2>4. Len(s) \in D
    <3> HIDE DEF D
    <3> QED
      BY <1>2, <2>3
  <2> QED
    BY <1>1, <2>4
<1> DEFINE R == [n \in 0..Len(s) |-> Rest(n)]
<1>6. IsRest(R, s, lines, subtotal)
  <2>1. \A i \in 0..Len(s) : Rest(i) \in 0..subtotal
    BY <1>5
  <2>2. Rest(0) = subtotal
    BY <1>1, DiscountEmpty
  <2>3. \A n \in 1..Len(s) : n \in 0..Len(s) /\ n - 1 \in 0..Len(s) /\ n > 0
    BY <1>2
  <2>4. \A n \in 1..Len(s) : Rest(n) = Rest(n - 1) - Off(s[n], E(s[n]), Rest(n - 1), subtotal)
    BY <1>5, <2>3
  <2> HIDE DEF Rest, Good
  <2>5. R \in [0..Len(s) -> 0..subtotal] /\ R[0] = subtotal
    BY <1>2, <2>1, <2>2
  <2>6. \A n \in 1..Len(s) : R[n] = R[n - 1] - Off(s[n], E(s[n]), R[n - 1], subtotal)
    BY <2>3, <2>4
  <2> HIDE DEF R
  <2> QED
    BY <2>5, <2>6 DEF IsRest
<1>7. Len(s) \in 0..Len(s)
  BY <1>2
<1>8. GoodStack(f[Len(s)], s)
  BY <1>5, <1>7
<1>9. TotalDiscount(f[Len(s)]) = subtotal - R[Len(s)]
  <2>1. f[Len(s)] \in Seq(AppliedType)
    BY <1>8 DEF GoodStack
  <2>2. TotalDiscount(f[Len(s)]) \in Int
    BY <2>1, DiscountInt
  <2>3. R[Len(s)] = subtotal - TotalDiscount(f[Len(s)])
    BY <1>7
  <2> QED
    BY <2>2, <2>3
<1> HIDE DEF R
<1> QED
  BY <1>1, <1>6, <1>8, <1>9

\* By priority, then by code.
CodeOrder ==
    {p \in (DOMAIN Voucher) \X (DOMAIN Voucher) :
        \/ Voucher[p[1]].priority < Voucher[p[2]].priority
        \/ Voucher[p[1]].priority = Voucher[p[2]].priority /\ p[1] < p[2]}

\* Vouchers differ in priority or in code.
LEMMA CodesOrdered ==
    ASSUME NEW T \in SUBSET DOMAIN Voucher
    PROVE  Orders(CodeOrder, T)
<1>1. \A c \in T : c \in Nat /\ Voucher[c].priority \in Int /\ c \in DOMAIN Voucher
  BY PricingAssumption
<1>2. \A x, y \in T : <<x, y>> \in CodeOrder <=>
         \/ Voucher[x].priority < Voucher[y].priority
         \/ Voucher[x].priority = Voucher[y].priority /\ x < y
  BY <1>1 DEF CodeOrder
<1>3. \A x \in T : <<x, x>> \notin CodeOrder
  BY <1>1, <1>2
<1>4. ASSUME NEW x \in T, NEW y \in T, NEW z \in T, <<x, y>> \in CodeOrder, <<y, z>> \in CodeOrder
      PROVE  <<x, z>> \in CodeOrder
  BY <1>1, <1>2, <1>4
<1>5. \A x, y \in T : x = y \/ <<x, y>> \in CodeOrder \/ <<y, x>> \in CodeOrder
  <2> SUFFICES ASSUME NEW x \in T, NEW y \in T, x # y
                        PROVE <<x, y>> \in CodeOrder \/ <<y, x>> \in CodeOrder
    OBVIOUS
  <2>1. x \in Nat /\ y \in Nat /\ Voucher[x].priority \in Int /\ Voucher[y].priority \in Int
    BY <1>1
  <2>2. \/ Voucher[x].priority < Voucher[y].priority
        \/ Voucher[x].priority = Voucher[y].priority /\ x < y
        \/ Voucher[y].priority < Voucher[x].priority
        \/ Voucher[y].priority = Voucher[x].priority /\ y < x
    BY <2>1
  <2>3. CASE \/ Voucher[x].priority < Voucher[y].priority
             \/ Voucher[x].priority = Voucher[y].priority /\ x < y
    BY <1>2, <2>3, Zenon
  <2>4. CASE \/ Voucher[y].priority < Voucher[x].priority
             \/ Voucher[y].priority = Voucher[x].priority /\ y < x
    BY <1>2, <2>4, Zenon
  <2> QED
    BY <2>2, <2>3, <2>4, Zenon
<1> QED
  BY <1>3, <1>4, <1>5 DEF Orders

\* Sorting the codes gives the one list in that order.
LEMMA SortedIs ==
    ASSUME NEW codes, codes \in Seq(DOMAIN Voucher)
    PROVE  InOrder(SortedCodes(codes), ToSet(codes), CodeOrder)
<1> DEFINE T == ToSet(codes)
           Sorted(s) == \A i, j \in DOMAIN s : i < j =>
                           \/ Voucher[s[i]].priority < Voucher[s[j]].priority
                           \/ Voucher[s[i]].priority = Voucher[s[j]].priority /\ s[i] < s[j]
<1>1. T \in SUBSET DOMAIN Voucher /\ IsFiniteSet(T)
  <2>1. T \in SUBSET DOMAIN Voucher
    BY DEF ToSet
  <2>2. codes \in Surjection(1..Len(codes), T)
    BY DEF Surjection, ToSet
  <2>3. IsFiniteSet(1..Len(codes))
    <3>1. 1 \in Int /\ Len(codes) \in Int
      OBVIOUS
    <3> QED
      BY <3>1, FS_Interval
  <2> QED
    BY <2>1, <2>2, <2>3, FS_Surjection
<1>2. Orders(CodeOrder, T)
  BY <1>1, CodesOrdered
<1> HIDE DEF T
<1>3. PICK s : InOrder(s, T, CodeOrder)
  BY <1>1, <1>2, OrderExists
<1>4. s \in SetToSeqs(T) /\ Sorted(s)
  <2>1. /\ s \in Seq(T) /\ Len(s) \in Nat /\ s = [i \in 1..Len(s) |-> s[i]]
        /\ \A i \in 1..Len(s) : s[i] \in T
        /\ \A x \in T : \E i \in 1..Len(s) : s[i] = x
        /\ \A i, j \in 1..Len(s) : i < j => <<s[i], s[j]>> \in CodeOrder
    BY <1>3, InOrderFacts
  <2>2. ToSet(s) = T
    BY <2>1 DEF ToSet
  <2>3. \A i, j \in DOMAIN s : s[i] = s[j] => i = j
    <3> SUFFICES ASSUME NEW i \in 1..Len(s), NEW j \in 1..Len(s), s[i] = s[j] PROVE i = j
      BY <2>1
    <3>1. ~(i < j) /\ ~(j < i)
      BY <1>2, <2>1 DEF Orders
    <3> QED
      BY <2>1, <3>1
  <2>4. s \in SetToSeqs(T)
    BY <2>1, <2>2, <2>3, ListOfSet
  <2>5. Sorted(s)
    <3> SUFFICES ASSUME NEW i \in DOMAIN s, NEW j \in DOMAIN s, i < j
                 PROVE  \/ Voucher[s[i]].priority < Voucher[s[j]].priority
                        \/ Voucher[s[i]].priority = Voucher[s[j]].priority /\ s[i] < s[j]
      OBVIOUS
    <3>1. i \in 1..Len(s) /\ j \in 1..Len(s)
      BY <2>1
    <3>2. <<s[i], s[j]>> \in CodeOrder
      BY <2>1, <3>1, Zenon
    <3> QED
      BY <3>2 DEF CodeOrder
  <2> QED
    BY <2>4, <2>5
<1>5. SortedCodes(codes) = CHOOSE s_1 \in SetToSeqs(T) : Sorted(s_1)
  BY DEF SortedCodes, T
<1>6. SortedCodes(codes) \in SetToSeqs(T) /\ Sorted(SortedCodes(codes))
  <2> HIDE DEF Sorted
  <2> QED
    BY <1>4, <1>5
<1> DEFINE t == SortedCodes(codes)
<1>7. t \in Seq(T) /\ ToSet(t) = T /\ \A i, j \in DOMAIN t : i # j => t[i] # t[j]
  <2> HIDE DEF t
  <2>1. t \in SetToSeqs(T)
    BY <1>6 DEF t
  <2> QED
    BY <1>1, <2>1, ListsOfSet
<1>8. InOrder(t, T, CodeOrder)
  <2>1. Sorted(t)
    BY <1>6
  <2> HIDE DEF t
  <2>2. DOMAIN t = 1..Len(t) /\ \A i \in 1..Len(t) : t[i] \in DOMAIN Voucher
    BY <1>1, <1>7
  <2>3. \A i, j \in 1..Len(t) : i < j => <<t[i], t[j]>> \in CodeOrder
    BY <2>1, <2>2 DEF CodeOrder
  <2> QED
    BY <1>7, <2>2, <2>3 DEF InOrder, ToSet
<1> QED
  BY <1>8 DEF T

\* Whether vouchers go together is a matter of the set they form.
GoTogether(T) ==
    (\E c, d \in T : c # d) =>
        /\ \A c \in T : ~Voucher[c].exclusive
        /\ \A c, d \in T : c # d =>
              /\ Voucher[c].group = Voucher[d].group =>
                    Voucher[c].group \in Voucher[c].combinable \cap Voucher[d].combinable
              /\ Voucher[c].combinable # {} => Voucher[d].group \in Voucher[c].combinable

\* The pairwise rules of StackPolicy, as rules about a set.
LEMMA PolicyOfSet ==
    ASSUME NEW w \in Seq(Nat), \A i, j \in DOMAIN w : w[i] = w[j] => i = j
    PROVE  StackPolicy([i \in DOMAIN w |-> Voucher[w[i]]]) <=> GoTogether(ToSet(w))
<1> DEFINE vs == [i \in DOMAIN w |-> Voucher[w[i]]]
           n == Len(w)
           T == ToSet(w)
<1>1. /\ n \in Nat /\ DOMAIN w = 1..n /\ Len(vs) = n /\ DOMAIN vs = 1..n
      /\ \A i \in 1..n : vs[i] = Voucher[w[i]]
  OBVIOUS
<1>2. (\A i \in 1..n : w[i] \in T) /\ \A x \in T : \E i \in 1..n : w[i] = x
  BY DEF ToSet
<1>3. n > 1 <=> \E c, d \in T : c # d
  <2>1. ASSUME n > 1 PROVE \E c, d \in T : c # d
    <3>1. 1 \in 1..n /\ 2 \in 1..n /\ 1 # 2
      BY <1>1, <2>1
    <3>2. w[1] \in T /\ w[2] \in T /\ w[1] # w[2]
      BY <1>1, <1>2, <3>1
    <3> QED
      BY <3>2
  <2>2. ASSUME \E c, d \in T : c # d PROVE n > 1
    <3>1. PICK i \in 1..n, j \in 1..n : i # j
      BY <1>2, <2>2
    <3> QED
      BY <1>1, <3>1
  <2> QED
    BY <2>1, <2>2
<1>4. \A i, j \in 1..n : w[i] = w[j] => i = j
  BY <1>1
<1>5. StackPolicy(vs) <=>
         (n > 1 => /\ \A i \in 1..n : ~Voucher[w[i]].exclusive
                   /\ \A i \in 1..n : \A j \in 1..(i - 1) :
                         Voucher[w[i]].group = Voucher[w[j]].group =>
                            Voucher[w[i]].group \in Voucher[w[i]].combinable \cap Voucher[w[j]].combinable
                   /\ \A i \in 1..n : \A j \in (1..n) \ {i} :
                         Voucher[w[i]].combinable # {}
                           => Voucher[w[j]].group \in Voucher[w[i]].combinable)
  <2>1. \A i \in 1..n : \A j \in 1..(i - 1) : j \in 1..n
    BY <1>1
  <2> HIDE DEF vs, n
  <2>2. StackPolicy(vs) <=>
         (n > 1 => /\ \A i \in 1..n : ~vs[i].exclusive
                   /\ \A i \in 1..n : \A j \in 1..(i - 1) :
                         vs[i].group = vs[j].group
                           => vs[i].group \in vs[i].combinable \cap vs[j].combinable
                   /\ \A i \in 1..n : \A j \in (1..n) \ {i} :
                         vs[i].combinable # {} => vs[j].group \in vs[i].combinable)
    BY <1>1, Zenon DEF StackPolicy
  <2>3. (\A i \in 1..n : ~vs[i].exclusive) <=> (\A i \in 1..n : ~Voucher[w[i]].exclusive)
    BY <1>1, Zenon
  <2>4. (\A i \in 1..n : \A j \in 1..(i - 1) :
             vs[i].group = vs[j].group => vs[i].group \in vs[i].combinable \cap vs[j].combinable)
        <=> (\A i \in 1..n : \A j \in 1..(i - 1) :
               Voucher[w[i]].group = Voucher[w[j]].group =>
                 Voucher[w[i]].group \in Voucher[w[i]].combinable \cap Voucher[w[j]].combinable)
    <3> DEFINE X(i, j) ==
                 vs[i].group = vs[j].group => vs[i].group \in vs[i].combinable \cap vs[j].combinable
               Y(i, j) == Voucher[w[i]].group = Voucher[w[j]].group =>
                             Voucher[w[i]].group \in Voucher[w[i]].combinable \cap Voucher[w[j]].combinable
    <3>1. ASSUME NEW i \in 1..n, NEW j \in 1..n PROVE X(i, j) <=> Y(i, j)
      BY <1>1
    <3> HIDE DEF X, Y
    <3>2. (\A i \in 1..n : \A j \in 1..(i - 1) : X(i, j))
            <=> (\A i \in 1..n : \A j \in 1..(i - 1) : Y(i, j))
      BY <2>1, <3>1, Zenon
    <3> QED
      BY <3>2, Zenon DEF X, Y
  <2>5. (\A i \in 1..n : \A j \in (1..n) \ {i} : vs[i].combinable # {}
          => vs[j].group \in vs[i].combinable)
        <=> (\A i \in 1..n : \A j \in (1..n) \ {i} :
               Voucher[w[i]].combinable # {} => Voucher[w[j]].group \in Voucher[w[i]].combinable)
    BY <1>1
  <2> QED
    BY <2>2, <2>3, <2>4, <2>5, Zenon
<1> HIDE DEF vs, T
<1>6. ASSUME StackPolicy(vs), n > 1, NEW c \in T, NEW d \in T, c # d
      PROVE  /\ Voucher[c].group = Voucher[d].group =>
                    Voucher[c].group \in Voucher[c].combinable \cap Voucher[d].combinable
             /\ Voucher[c].combinable # {} => Voucher[d].group \in Voucher[c].combinable
  <2>1. PICK i \in 1..n : w[i] = c
    BY <1>2
  <2>2. PICK j \in 1..n : w[j] = d
    BY <1>2
  <2>3. i # j /\ (i \in 1..(j - 1) \/ j \in 1..(i - 1))
    BY <1>1, <1>6, <2>1, <2>2
  <2>4. Voucher[c].group = Voucher[d].group =>
                    Voucher[c].group \in Voucher[c].combinable \cap Voucher[d].combinable
    BY <1>5, <1>6, <2>1, <2>2, <2>3, Zenon
  <2>5. Voucher[c].combinable # {} => Voucher[d].group \in Voucher[c].combinable
    <3>1. j \in (1..n) \ {i}
      BY <2>3
    <3> QED
      BY <1>5, <1>6, <2>1, <2>2, <3>1, Zenon
  <2> QED
    BY <2>4, <2>5
<1>7. ASSUME StackPolicy(vs), n > 1, NEW c \in T
      PROVE  ~Voucher[c].exclusive
  BY <1>2, <1>5, <1>7, Zenon
<1>8. StackPolicy(vs) => GoTogether(T)
  BY <1>3, <1>6, <1>7, Zenon DEF GoTogether
<1>9. ASSUME GoTogether(T) PROVE StackPolicy(vs)
  <2> SUFFICES ASSUME n > 1
               PROVE  /\ \A i \in 1..n : ~Voucher[w[i]].exclusive
                      /\ \A i \in 1..n : \A j \in 1..(i - 1) :
                            Voucher[w[i]].group = Voucher[w[j]].group =>
                               Voucher[w[i]].group \in Voucher[w[i]].combinable \cap Voucher[w[j]].combinable
                      /\ \A i \in 1..n : \A j \in (1..n) \ {i} :
                            Voucher[w[i]].combinable # {}
                              => Voucher[w[j]].group \in Voucher[w[i]].combinable
    BY <1>5
  <2>1. \A i \in 1..n : ~Voucher[w[i]].exclusive
    BY <1>2, <1>3, <1>9, Zenon DEF GoTogether
  <2>2. ASSUME NEW i \in 1..n, NEW j \in 1..n, i # j
        PROVE  /\ Voucher[w[i]].group = Voucher[w[j]].group =>
                               Voucher[w[i]].group \in Voucher[w[i]].combinable \cap Voucher[w[j]].combinable
               /\ Voucher[w[i]].combinable # {} => Voucher[w[j]].group \in Voucher[w[i]].combinable
    <3>1. w[i] \in T /\ w[j] \in T /\ w[i] # w[j]
      BY <1>2, <1>4, <2>2
    <3> QED
      BY <1>3, <1>9, <3>1, Zenon DEF GoTogether
  <2>3. \A i \in 1..n : \A j \in 1..(i - 1) : j \in 1..n /\ i # j
    BY <1>1
  <2> QED
    BY <2>1, <2>2, <2>3
<1> QED
  BY <1>8, <1>9 DEF vs, T

\* The answer to a set of vouchers.
LEMMA StackOfSet ==
    ASSUME NEW codes \in Seq(Nat), NEW lines, NEW m
    PROVE  VoucherStack(codes, lines, m) =
              IF /\ ToSet(codes) \subseteq DOMAIN Voucher
                 /\ \A c \in ToSet(codes) : Eligible(Voucher[c], lines, m)
                 /\ GoTogether(ToSet(codes))
              THEN ApplyVouchers(SortedCodes(codes), lines, Subtotal(lines))
              ELSE None
<1> DEFINE wanted == NormalizeVoucherCodes(codes)
<1>1. /\ wanted \in Seq(Nat) /\ ToSet(wanted) = ToSet(codes)
      /\ \A i, j \in DOMAIN wanted : wanted[i] = wanted[j] => i = j
  BY NormalizedCodes
<1>2. SortedCodes(wanted) = SortedCodes(codes)
  <2> HIDE DEF wanted
  <2> QED
    BY <1>1 DEF SortedCodes
<1>3. StackPolicy([i \in DOMAIN wanted |-> Voucher[wanted[i]]]) <=> GoTogether(ToSet(codes))
  <2> HIDE DEF wanted
  <2>1. StackPolicy([i \in DOMAIN wanted |-> Voucher[wanted[i]]]) <=> GoTogether(ToSet(wanted))
    BY <1>1, PolicyOfSet
  <2> QED
    BY <1>1, <2>1
<1>4. VoucherStack(codes, lines, m) =
         IF /\ ToSet(wanted) \subseteq DOMAIN Voucher
            /\ \A c \in ToSet(wanted) : Eligible(Voucher[c], lines, m)
            /\ StackPolicy([i \in DOMAIN wanted |-> Voucher[wanted[i]]])
         THEN ApplyVouchers(SortedCodes(wanted), lines, Subtotal(lines))
         ELSE None
  BY DEF VoucherStack
<1> HIDE DEF wanted
<1> QED
  BY <1>1, <1>2, <1>3, <1>4, Zenon

\* The stack depends on which codes are sent, not on how.
LEMMA StackIsOfSet ==
    ASSUME NEW a \in Seq(Nat), NEW b \in Seq(Nat), ToSet(a) = ToSet(b), NEW lines, NEW m
    PROVE  VoucherStack(a, lines, m) = VoucherStack(b, lines, m)
<1>1. SortedCodes(a) = SortedCodes(b)
  BY DEF SortedCodes
<1> QED
  BY <1>1, StackOfSet

\* What is known of an accepted stack.
LEMMA StackFacts ==
    ASSUME NEW codes \in Seq(Nat), NEW lines, GoodLines(lines), NEW m,
           VoucherStack(codes, lines, m) # None
    PROVE  LET a == VoucherStack(codes, lines, m)
               s == SortedCodes(codes)
           IN  /\ ToSet(codes) \subseteq DOMAIN Voucher
               /\ InOrder(s, ToSet(codes), CodeOrder)
               /\ \A c \in DOMAIN Voucher :
                    EligibleSubtotal(Voucher[c], lines) \in 0..Subtotal(lines)
               /\ \A c \in ToSet(codes) : EligibleSubtotal(Voucher[c], lines) > 0
               /\ GoodStack(a, s) /\ ToSet(s) = ToSet(codes)
               /\ \E R : /\ IsRest(R, s, lines, Subtotal(lines))
                         /\ TotalDiscount(a) = Subtotal(lines) - R[Len(s)]
<1> DEFINE a == VoucherStack(codes, lines, m)
           s == SortedCodes(codes)
           subtotal == Subtotal(lines)
<1>1. /\ ToSet(codes) \subseteq DOMAIN Voucher
      /\ \A c \in ToSet(codes) : Eligible(Voucher[c], lines, m)
      /\ a = ApplyVouchers(s, lines, subtotal)
  BY StackOfSet
<1>2. InOrder(s, ToSet(codes), CodeOrder)
  <2>1. codes \in Seq(DOMAIN Voucher)
    BY <1>1 DEF ToSet
  <2> QED
    BY <2>1, SortedIs
<1>3. \A c \in DOMAIN Voucher : EligibleSubtotal(Voucher[c], lines) \in 0..subtotal
  BY EligibleWithin
<1>4. subtotal \in Nat
  BY DEF GoodLines
<1> HIDE DEF s, a, subtotal
<1>5. s \in Seq(DOMAIN Voucher) /\ ToSet(s) = ToSet(codes)
  <2> DEFINE T == ToSet(codes)
  <2> HIDE DEF T
  <2>0. InOrder(s, T, CodeOrder)
    BY <1>2 DEF T
  <2>1. /\ s \in Seq(T) /\ Len(s) \in Nat /\ s = [i \in 1..Len(s) |-> s[i]]
        /\ \A i \in 1..Len(s) : s[i] \in T
        /\ \A x \in T : \E i \in 1..Len(s) : s[i] = x
        /\ \A i, j \in 1..Len(s) : i < j => <<s[i], s[j]>> \in CodeOrder
    BY <2>0, InOrderFacts
  <2>2. DOMAIN s = 1..Len(s) /\ ToSet(s) = {s[i] : i \in 1..Len(s)}
    BY <2>1 DEF ToSet
  <2>3. ToSet(s) = T
    BY <2>1, <2>2
  <2>4. T \subseteq DOMAIN Voucher
    BY <1>1 DEF T
  <2>5. s \in Seq(DOMAIN Voucher)
    BY <2>1, <2>4
  <2> QED
    BY <2>3, <2>5 DEF T
<1>6. \A c \in ToSet(codes) : EligibleSubtotal(Voucher[c], lines) > 0
  BY <1>1 DEF Eligible
<1>7. ApplyVouchers(s, lines, subtotal) # None
  BY <1>1 DEF a
<1>8. \A c \in ToSet(s) : EligibleSubtotal(Voucher[c], lines) > 0
  BY <1>5, <1>6
<1>9. /\ GoodStack(a, s)
      /\ \E R : IsRest(R, s, lines, subtotal) /\ TotalDiscount(a) = subtotal - R[Len(s)]
  BY <1>1, <1>3, <1>4, <1>5, <1>7, <1>8, StackRuns
<1> QED
  BY <1>1, <1>2, <1>3, <1>5, <1>6, <1>9 DEF a, s, subtotal

-----------------------------------------------------------------------------
(* Charges and totals *)

\* A total with one amount more at the end.
LEMMA TotalLast ==
    ASSUME NEW n \in Nat, NEW t \in [1..n -> Int], NEW u \in [1..(n + 1) -> Int],
           \A i \in 1..n : u[i] = t[i]
    PROVE  Total(u) = Total(t) + u[n + 1]
<1> DEFINE x == u[n + 1]
<1>1. t \in Seq(Int) /\ Len(t) = n /\ x \in Int
  OBVIOUS
<1>2. u = Append(t, x)
  <2>1. DOMAIN Append(t, x) = 1..(n + 1)
    BY <1>1
  <2>2. \A i \in 1..(n + 1) : Append(t, x)[i] = u[i]
    <3> SUFFICES ASSUME NEW i \in 1..(n + 1) PROVE Append(t, x)[i] = u[i]
      OBVIOUS
    <3>1. CASE i = n + 1
      BY <1>1, <3>1
    <3>2. CASE i # n + 1
      <4>1. i \in 1..n /\ i \in 1..Len(t)
        BY <1>1, <3>2
      <4>2. Append(t, x)[i] = t[i]
        <5> HIDE DEF x
        <5> QED
          BY <1>1, <4>1
      <4> QED
        BY <4>1, <4>2
    <3> QED
      BY <3>1, <3>2
  <2>3. Append(t, x) = [i \in 1..(n + 1) |-> Append(t, x)[i]]
    <3>1. Append(t, x) \in Seq(Int) /\ Len(Append(t, x)) = n + 1
      <4> HIDE DEF x
      <4> QED
        BY <1>1
    <3> DEFINE a == Append(t, x)
    <3> HIDE DEF a
    <3>2. a \in Seq(Int) /\ Len(a) = n + 1
      BY <3>1 DEF a
    <3>3. a = [i \in 1..(n + 1) |-> a[i]]
      BY <3>2
    <3> QED
      BY <3>3 DEF a
  <2> QED
    BY <2>1, <2>2, <2>3
<1>3. Total(Append(t, x)) = Total(t) + x
  <2> HIDE DEF x
  <2> QED
    BY <1>1, TotalAppend
<1> QED
  BY <1>2, <1>3

LEMMA TaxNat ==
    ASSUME NEW n \in Nat, NEW rate \in Nat PROVE TaxFromNet(n, rate) \in Nat
BY TaxBounds

TotalsType == [tax : Nat, total : Nat]

\* A delivery fee or a surcharge: its tax and its total, waived or not.
LEMMA ChargeIs ==
    ASSUME NEW d \in ChargeType, NEW subtotal, NEW rate \in Nat
    PROVE  ChargeLine(d, subtotal, rate) \in TotalsType
<1> DEFINE waived == d.waiver # None /\ subtotal >= d.waiver
           tax == IF d.inclusive THEN d.amount - NetFromTaxInclusive(d.amount, rate)
                                 ELSE TaxFromNet(d.amount, rate)
<1>1. ChargeLine(d, subtotal, rate) =
         IF d.amount <= 0 \/ waived THEN NoCharge
         ELSE IF ~d.taxable THEN [tax |-> 0, total |-> d.amount]
         ELSE [tax |-> tax, total |-> d.amount + IF d.inclusive THEN 0 ELSE tax]
  BY DEF ChargeLine
<1>2. NoCharge \in TotalsType
  BY DEF NoCharge, TotalsType
<1>3. ASSUME d.amount > 0
      PROVE  /\ [tax |-> 0, total |-> d.amount] \in TotalsType
             /\ [tax |-> tax, total |-> d.amount + IF d.inclusive THEN 0 ELSE tax] \in TotalsType
  <2>1. d.amount \in Nat
    BY <1>3 DEF ChargeType
  <2>2. /\ NetFromTaxInclusive(d.amount, rate) \in 0..d.amount
        /\ TaxFromNet(d.amount, rate) \in Nat
    <3> DEFINE m == d.amount
    <3>1. m \in Nat
      BY <2>1
    <3> HIDE DEF m
    <3>2. NetFromTaxInclusive(m, rate) \in 0..m
      BY <3>1, NetOfGross
    <3>3. TaxFromNet(m, rate) \in Nat
      BY <3>1, TaxBounds
    <3> QED
      BY <3>2, <3>3 DEF m
  <2>3. tax \in Nat
    BY <2>1, <2>2
  <2>4. (IF d.inclusive THEN 0 ELSE tax) \in Nat
    BY <2>3
  <2> HIDE DEF tax
  <2> QED
    BY <2>1, <2>3, <2>4 DEF TotalsType
<1>4. d.amount \in Int
  BY DEF ChargeType
<1> HIDE DEF tax, waived
<1>5. CASE d.amount <= 0 \/ waived
  BY <1>1, <1>2, <1>5
<1>6. CASE ~(d.amount <= 0 \/ waived)
  <2>1. d.amount > 0
    BY <1>4, <1>6
  <2> QED
    BY <1>1, <1>3, <1>6, <2>1
<1> QED
  BY <1>5, <1>6

\* What is left of the subtotal, and the part of it that has tax in it.
LEMMA ItemTotalsIs ==
    ASSUME NEW lines, GoodLines(lines), NEW rate \in Nat, NEW d \in 0..Subtotal(lines)
    PROVE  LET left == Subtotal(lines) - d
               gross == ProrateAmount(Inclusive(lines), left, Subtotal(lines))
               t == ItemTotals(lines, d, rate)
           IN  /\ t \in TotalsType
               /\ Subtotal(lines) = 0 => t.total = 0
               /\ Subtotal(lines) # 0 =>
                     /\ gross \in 0..left
                     /\ t.total = left + TaxFromNet(left - gross, rate)
<1> DEFINE s == Subtotal(lines)
           left == s - d
           i == Inclusive(lines)
           gross == ProrateAmount(i, left, s)
           t == ItemTotals(lines, d, rate)
<1>1. i \in Nat /\ s \in Nat /\ i \in 0..s
  <2>1. i \in Nat /\ Exclusive(lines) \in Nat /\ s = i + Exclusive(lines)
    BY LineTotals
  <2> HIDE DEF i, s
  <2> QED
    BY <2>1
<1>2. CASE s = 0
  <2>1. t = NoCharge
    BY <1>2 DEF ItemTotals
  <2> QED
    BY <1>2, <2>1 DEF NoCharge, TotalsType
<1>3. CASE s # 0
  <2>1. left \in Nat /\ left \in 0..s /\ s \in Nat \ {0}
    BY <1>1, <1>3
  <2>2. Max({left, 0}) = left
    <3> HIDE DEF left
    <3> QED
      BY <2>1, MaxPair
  <2>3. gross \in 0..left /\ gross \in Nat
    <3> DEFINE z == ProrateAmount(i, 0, s)
    <3> HIDE DEF left, i, s
    <3>1. gross \in 0..i
      BY <1>1, <2>1, ProrateWithin
    <3>2. z = 0
      BY DEF ProrateAmount
    <3>3. 0 \in Nat /\ 0 =< left
      BY <2>1
    <3>4. gross =< z + (left - 0)
      BY <1>1, <2>1, <3>3, ProrateStep
    <3> HIDE DEF gross, z
    <3> QED
      BY <1>1, <2>1, <3>1, <3>2, <3>4
  <2>4. Max({left - gross, 0}) = left - gross /\ left - gross \in Nat
    <3> DEFINE m == left - gross
    <3> HIDE DEF left, gross
    <3>1. m \in Nat
      BY <2>1, <2>3
    <3>2. Max({m, 0}) = m
      <4> HIDE DEF m
      <4> QED
        BY <3>1, MaxPair
    <3> QED
      BY <3>1, <3>2
  <2>5. /\ NetFromTaxInclusive(gross, rate) \in 0..gross
        /\ TaxFromNet(left - gross, rate) \in Nat
    <3> DEFINE m == left - gross
    <3>1. m \in Nat
      BY <2>4
    <3> HIDE DEF m, gross
    <3>2. TaxFromNet(m, rate) \in Nat
      BY <3>1, TaxNat, Zenon
    <3>3. NetFromTaxInclusive(gross, rate) \in 0..gross
      BY <2>3, NetOfGross
    <3> QED
      BY <3>2, <3>3 DEF m
  <2>6. t = [tax |-> gross - NetFromTaxInclusive(gross, rate) + TaxFromNet(left - gross, rate),
             total |-> gross + (left - gross) + TaxFromNet(left - gross, rate)]
    <3>1. ~(s <= 0)
      BY <2>1
    <3>2. t = LET discounted == Max({s - d, 0})
                  g == ProrateAmount(i, discounted, s)
                  net == Max({discounted - g, 0})
                  tax == TaxFromNet(net, rate)
              IN [tax |-> g - NetFromTaxInclusive(g, rate) + tax, total |-> g + net + tax]
      BY <3>1 DEF ItemTotals
    <3> QED
      BY <2>2, <2>4, <3>2
  <2> DEFINE net == TaxFromNet(left - gross, rate)
             n == NetFromTaxInclusive(gross, rate)
  <2>7. t.total = left + net /\ t \in TotalsType
    <3>1. t = [tax |-> gross - n + net, total |-> gross + (left - gross) + net]
      BY <2>6
    <3>2. n \in 0..gross /\ net \in Nat
      BY <2>5
    <3> HIDE DEF n, net, left, gross, t
    <3>3. gross - n + net \in Nat /\ gross + (left - gross) + net = left + net /\ left + net \in Nat
      BY <2>1, <2>3, <3>2
    <3> QED
      BY <3>1, <3>3 DEF TotalsType
  <2> QED
    BY <1>3, <2>3, <2>7
<1> QED
  BY <1>2, <1>3

Charges(r) ==
    [i \in DOMAIN r.charges |-> ChargeLine(r.charges[i], Subtotal(Lines(r.items)), r.rate)]

ChargeTotal(r) == Total([i \in DOMAIN r.charges |-> Charges(r)[i].total])

\* The charges of a request.
LEMMA ChargesAre ==
    ASSUME NEW r \in RequestType
    PROVE  /\ Charges(r) \in Seq(TotalsType) /\ Len(r.charges) \in Nat
           /\ DOMAIN r.charges = 1..Len(r.charges) /\ DOMAIN Charges(r) = 1..Len(r.charges)
           /\ ChargeTotal(r) \in Nat
<1>1. /\ r.charges \in Seq(ChargeType) /\ r.rate \in Nat
  BY DEF RequestType
<1>2. /\ Len(r.charges) \in Nat /\ DOMAIN r.charges = 1..Len(r.charges)
      /\ \A i \in 1..Len(r.charges) : r.charges[i] \in ChargeType
  BY <1>1
<1>3. \A i \in 1..Len(r.charges) :
         ChargeLine(r.charges[i], Subtotal(Lines(r.items)), r.rate) \in TotalsType
  BY <1>1, <1>2, ChargeIs
<1>4. Charges(r) \in Seq(TotalsType) /\ DOMAIN Charges(r) = 1..Len(r.charges)
  BY <1>2, <1>3 DEF Charges
<1>5. \A i \in 1..Len(r.charges) : Charges(r)[i].total \in Nat
  <2>1. \A i \in 1..Len(r.charges) : Charges(r)[i] \in TotalsType
    BY <1>2, <1>3 DEF Charges
  <2> QED
    BY <2>1 DEF TotalsType
<1>6. [i \in DOMAIN r.charges |-> Charges(r)[i].total] \in Seq(Nat)
  BY <1>2, <1>5
<1>7. ChargeTotal(r) \in Nat
  <2> DEFINE q == [i \in DOMAIN r.charges |-> Charges(r)[i].total]
  <2>1. ChargeTotal(r) = Total(q)
    BY DEF ChargeTotal
  <2> HIDE DEF q
  <2> QED
    BY <1>6, <2>1, TotalNat DEF q
<1> QED
  BY <1>2, <1>4, <1>7

\* A stack takes off no more than the subtotal.
LEMMA StackWithin ==
    ASSUME NEW codes \in Seq(Nat), NEW lines, GoodLines(lines), NEW m,
           VoucherStack(codes, lines, m) # None
    PROVE  /\ Subtotal(lines) \in Nat
           /\ TotalDiscount(VoucherStack(codes, lines, m)) \in 0..Subtotal(lines)
           /\ VoucherStack(codes, lines, m) \in Seq(AppliedType)
           /\ GoodStack(VoucherStack(codes, lines, m), codes)
<1> DEFINE a == VoucherStack(codes, lines, m)
           s == SortedCodes(codes)
           sub == Subtotal(lines)
<1>1. sub \in Nat
  BY DEF GoodLines
<1>2. /\ ToSet(s) = ToSet(codes) /\ GoodStack(a, s)
      /\ \E R : IsRest(R, s, lines, sub) /\ TotalDiscount(a) = sub - R[Len(s)]
  BY StackFacts
<1>3. InOrder(s, ToSet(codes), CodeOrder)
  BY StackFacts
<1> HIDE DEF a, s, sub
<1>4. Len(s) \in Nat
  BY <1>3 DEF InOrder
<1>5. TotalDiscount(a) \in 0..sub
  <2>1. PICK R : IsRest(R, s, lines, sub) /\ TotalDiscount(a) = sub - R[Len(s)]
    BY <1>2
  <2>2. R[Len(s)] \in 0..sub
    BY <1>4, <2>1 DEF IsRest
  <2> QED
    BY <1>1, <2>1, <2>2
<1>6. a \in Seq(AppliedType) /\ GoodStack(a, codes)
  BY <1>2 DEF GoodStack
<1> QED
  BY <1>1, <1>5, <1>6 DEF a, sub

\* An order, in the terms of its cart, its stack and its charges.
OrderParts(r, o) ==
    LET lines == Lines(r.items)
        applied == VoucherStack(r.codes, lines, r.method)
    IN  /\ ValidCart(r.items) /\ GoodLines(lines) /\ applied # None
        /\ o.subtotal = Subtotal(lines) /\ o.subtotal \in Nat
        /\ o.applied = applied /\ applied \in Seq(AppliedType)
        /\ o.discount = TotalDiscount(applied) /\ o.discount \in 0..Subtotal(lines)
        /\ o.charged = ChargeTotal(r) /\ o.charged \in Nat
        /\ o.tax \in Nat
        /\ o.total = ChargeTotal(r) + ItemTotals(lines, o.discount, r.rate).total
        /\ o.total \in Nat

\* An order that is priced has these parts.
LEMMA OrderIs ==
    ASSUME NEW r \in RequestType, ValidCart(r.items), r.method # None,
           VoucherStack(r.codes, Lines(r.items), r.method) # None
    PROVE  Order(r) \in OrderType /\ Order(r) # None /\ OrderParts(r, Order(r))
<1> DEFINE lines == Lines(r.items)
           applied == VoucherStack(r.codes, lines, r.method)
           discount == TotalDiscount(applied)
           charges == Charges(r)
           last == ItemTotals(lines, discount, r.rate)
           totals == Append(charges, last)
           n == Len(r.charges)
           o == Order(r)
<1>1. r.items \in Seq(EntryType) /\ r.codes \in Seq(Nat) /\ r.rate \in Nat
  BY DEF RequestType
<1>2. GoodLines(lines)
  BY <1>1, CartLines
<1>3. /\ Subtotal(lines) \in Nat /\ discount \in 0..Subtotal(lines)
      /\ applied \in Seq(AppliedType)
  BY <1>1, <1>2, StackWithin
<1>4. last \in TotalsType
  <2> HIDE DEF discount, lines
  <2> QED
    BY <1>1, <1>2, <1>3, ItemTotalsIs
<1>5. /\ charges \in Seq(TotalsType) /\ n \in Nat /\ DOMAIN r.charges = 1..n
      /\ DOMAIN charges = 1..n /\ ChargeTotal(r) \in Nat /\ Len(charges) = n
  BY ChargesAre
<1>6. o = [subtotal |-> Subtotal(lines), applied |-> applied, discount |-> discount,
           charged  |-> Total([i \in DOMAIN charges |-> charges[i].total]),
           tax      |-> Total([i \in DOMAIN totals |-> totals[i].tax]),
           total    |-> Total([i \in DOMAIN totals |-> totals[i].total])]
  BY DEF Order, Charges
<1> HIDE DEF lines, applied, discount, charges, last, n, o
<1>7. /\ totals \in Seq(TotalsType) /\ DOMAIN totals = 1..(n + 1) /\ totals[n + 1] = last
      /\ \A i \in 1..n : totals[i] = charges[i]
  BY <1>4, <1>5
<1> HIDE DEF totals
<1> DEFINE t == [i \in 1..n |-> charges[i].total]
           u == [i \in 1..(n + 1) |-> totals[i].total]
           x == [i \in 1..(n + 1) |-> totals[i].tax]
<1>8. /\ \A i \in 1..n : charges[i].total \in Nat
      /\ \A i \in 1..(n + 1) : totals[i].total \in Nat /\ totals[i].tax \in Nat
  <2>1. \A i \in 1..n : charges[i] \in TotalsType
    BY <1>5
  <2>2. \A i \in 1..(n + 1) : totals[i] \in TotalsType
    <3> SUFFICES ASSUME NEW i \in 1..(n + 1) PROVE totals[i] \in TotalsType
      OBVIOUS
    <3>1. i \in 1..n \/ i = n + 1
      BY <1>5
    <3> QED
      BY <1>4, <1>7, <2>1, <3>1
  <2> QED
    BY <2>1, <2>2 DEF TotalsType
<1>9. t \in [1..n -> Int] /\ u \in [1..(n + 1) -> Int] /\ x \in Seq(Nat)
  BY <1>5, <1>8
<1>10. (\A i \in 1..n : u[i] = t[i]) /\ u[n + 1] = last.total
  BY <1>5, <1>7
<1>11. Total(t) = ChargeTotal(r)
  BY <1>5 DEF ChargeTotal, charges
<1> HIDE DEF t, u, x
<1>12. Total(u) = ChargeTotal(r) + last.total /\ Total(x) \in Nat /\ last.total \in Nat
  <2>1. Total(u) = Total(t) + u[n + 1]
    BY <1>5, <1>9, <1>10, TotalLast
  <2>2. Total(x) \in Nat
    BY <1>9, TotalNat
  <2> QED
    BY <1>4, <1>10, <1>11, <2>1, <2>2 DEF TotalsType
<1>13. o = [subtotal |-> Subtotal(lines), applied |-> applied, discount |-> discount,
            charged |-> ChargeTotal(r), tax |-> Total(x), total |-> Total(u)]
  BY <1>5, <1>6, <1>7, <1>11 DEF t, u, x
<1>14. discount \in Int /\ ChargeTotal(r) \in Int /\ Total(x) \in Int /\ Total(u) \in Int
       /\ Subtotal(lines) \in Int /\ Total(u) \in Nat
  BY <1>3, <1>5, <1>12
<1>15. o \in OrderType
  BY <1>3, <1>13, <1>14 DEF OrderType
<1>16. o # None
  BY <1>15, PricingAssumption
<1>17. /\ o.subtotal = Subtotal(lines) /\ o.applied = applied /\ o.discount = discount
       /\ o.charged = ChargeTotal(r) /\ o.tax = Total(x) /\ o.total = Total(u)
  BY <1>13
<1>18. OrderParts(r, o)
  BY <1>2, <1>3, <1>5, <1>12, <1>14, <1>17 DEF OrderParts, lines, applied, discount, last
<1> QED
  BY <1>15, <1>16, <1>18 DEF o

\* And none other is given.
LEMMA OrderGiven ==
    ASSUME NEW r \in RequestType, Order(r) # None
    PROVE  Order(r) \in OrderType /\ OrderParts(r, Order(r))
<1>1. /\ ValidCart(r.items) /\ r.method # None
      /\ VoucherStack(r.codes, Lines(r.items), r.method) # None
  BY DEF Order
<1> QED
  BY <1>1, OrderIs

-----------------------------------------------------------------------------
(* Theorems *)

\* The answer is the reply to the request that is still there.
AnswerInv ==
    /\ request \in Requests
    /\ outcome \in {<<>>, <<Reply(request)>>}

\* The invariant of pricing: each answer belongs to its request.
LEMMA AnswerInvariant == PricingSpec => []AnswerInv
<1>1. PricingInit => AnswerInv
  BY DEF PricingInit, AnswerInv
<1>2. AnswerInv /\ [Answer]_pricingVars => AnswerInv'
  <2> SUFFICES ASSUME AnswerInv, [Answer]_pricingVars PROVE AnswerInv'
    OBVIOUS
  <2>1. CASE Answer
    BY <2>1 DEF AnswerInv, Answer
  <2>2. CASE UNCHANGED pricingVars
    BY <2>2 DEF AnswerInv, pricingVars
  <2> QED
    BY <2>1, <2>2
<1> QED
  BY <1>1, <1>2, PTL DEF PricingSpec

\* Requests are of the types the handlers decode.
LEMMA OrderRequest ==
    ASSUME NEW r \in Requests, r.what # "arithmetic"
    PROVE  r \in RequestType
BY PricingAssumption

\* What an order that was answered is made of.
LEMMA OrderedIs ==
    ASSUME AnswerInv, Ordered
    PROVE  /\ request \in RequestType /\ order = Order(request)
           /\ Order(request) # None /\ OrderParts(request, order)
<1>1. outcome = <<Reply(request)>> /\ request.what = "order" /\ request \in Requests
  BY DEF AnswerInv, Ordered
<1>2. Reply(request) = Order(request)
  BY <1>1 DEF Reply
<1>3. order = Order(request) /\ Order(request) # None
  BY <1>1, <1>2 DEF order, Ordered
<1>4. request \in RequestType
  BY <1>1, OrderRequest
<1> QED
  BY <1>3, <1>4, OrderGiven

\* The answer's type.
LEMMA TypeHolds == AnswerInv => TypeOK
<1> SUFFICES ASSUME AnswerInv, Ordered
             PROVE  /\ \A f \in {"subtotal", "discount", "charged", "tax", "total"} :
                         order[f] \in Nat
                    /\ ToSet(order.applied) \subseteq
                          [code : ToSet(request.codes), eligible : Nat \ {0}, amount : Nat \ {0}]
  BY DEF TypeOK
<1>1. /\ request \in RequestType /\ order \in OrderType /\ OrderParts(request, order)
  BY OrderedIs, OrderGiven
<1> DEFINE lines == Lines(request.items)
           a == VoucherStack(request.codes, lines, request.method)
<1>2. /\ order.subtotal \in Nat /\ order.discount \in Nat /\ order.charged \in Nat
      /\ order.tax \in Nat /\ order.total \in Nat
      /\ GoodLines(lines) /\ a # None /\ order.applied = a
  BY <1>1 DEF OrderParts
<1>3. request.codes \in Seq(Nat)
  BY <1>1 DEF RequestType
<1>4. GoodStack(a, request.codes)
  <2> HIDE DEF lines
  <2> QED
    BY <1>2, <1>3, StackWithin
<1> HIDE DEF a, lines
<1>5. ToSet(a) \subseteq [code : ToSet(request.codes), eligible : Nat \ {0}, amount : Nat \ {0}]
  <2> SUFFICES ASSUME NEW i \in DOMAIN a
               PROVE  a[i] \in [code : ToSet(request.codes), eligible : Nat \ {0},
                               amount : Nat \ {0}]
    BY DEF ToSet
  <2>1. a[i] \in AppliedType /\ a[i].code \in ToSet(request.codes)
        /\ 0 < a[i].amount /\ a[i].amount <= a[i].eligible
    BY <1>4 DEF GoodStack
  <2> QED
    BY <2>1 DEF AppliedType
<1>6. \A f \in {"subtotal", "discount", "charged", "tax", "total"} : order[f] \in Nat
  BY <1>1, <1>2 DEF OrderType
<1> QED
  BY <1>2, <1>5, <1>6

\* Whatever the menu, the vouchers and the request, an order that checkout prices has
\* amounts that are not negative, and vouchers that were asked for and take off something.
THEOREM PricingTypes == PricingSpec => []TypeOK
<1>1. AnswerInv => TypeOK
  BY TypeHolds
<1> QED
  BY <1>1, AnswerInvariant, PTL

\* resolveVoucherStack never takes off more than the subtotal, nor a voucher more than it
\* is eligible for, however many are stacked and however their shares are rounded.
THEOREM NoMoreThanTheSubtotal == PricingSpec => []DiscountsWithinSubtotal
<1>1. AnswerInv => DiscountsWithinSubtotal
  <2> SUFFICES ASSUME AnswerInv, Ordered
               PROVE  /\ TypeOK /\ order.discount <= order.subtotal
                      /\ \A a \in ToSet(order.applied) : a.amount <= a.eligible
    BY DEF DiscountsWithinSubtotal
  <2>1. request \in RequestType /\ OrderParts(request, order)
    BY OrderedIs
  <2> DEFINE lines == Lines(request.items)
             a == VoucherStack(request.codes, lines, request.method)
  <2>2. /\ GoodLines(lines) /\ a # None /\ order.applied = a
        /\ order.subtotal = Subtotal(lines) /\ order.subtotal \in Nat
        /\ order.discount \in 0..Subtotal(lines)
    BY <2>1 DEF OrderParts
  <2>3. request.codes \in Seq(Nat)
    BY <2>1 DEF RequestType
  <2>4. GoodStack(a, request.codes)
    <3> HIDE DEF lines
    <3> QED
      BY <2>2, <2>3, StackWithin
  <2> HIDE DEF a, lines
  <2>5. \A x \in ToSet(a) : x.amount <= x.eligible
    BY <2>4 DEF GoodStack, ToSet
  <2>6. order.discount <= order.subtotal
    BY <2>2
  <2> QED
    BY <2>2, <2>5, <2>6, TypeHolds
<1> QED
  BY <1>1, AnswerInvariant, PTL

\* SafeAdd and SafeMul, for a word of any size: the exact sum or product when it has a
\* place, an error when it has not, also for the least and the greatest numbers.
THEOREM ArithmeticIsExact == PricingSpec => []ArithmeticExact
<1>1. AnswerInv => ArithmeticExact
  <2> SUFFICES ASSUME AnswerInv, request.what = "arithmetic", outcome # <<>>
               PROVE  LET P(n) == IF n \in (-request.max - 1)..request.max THEN n ELSE None
                      IN  /\ order.sum = P(request.a + request.b)
                          /\ order.product = P(request.a * request.b)
    BY DEF ArithmeticExact
  <2>1. request \in Requests /\ outcome = <<Reply(request)>>
    BY DEF AnswerInv
  <2>2. /\ request.a \in (-request.max - 1)..request.max
        /\ request.b \in (-request.max - 1)..request.max
        /\ request.max \in Nat
    <3>1. request \notin RequestType
      BY DEF RequestType
    <3> QED
      BY <2>1, <3>1, PricingAssumption
  <2>3. order = Arithmetic(request)
    BY <2>1 DEF Reply, order
  <2>4. /\ order.sum = SafeAdd(request.a, request.b, request.max)
        /\ order.product = SafeMul(request.a, request.b, request.max)
    BY <2>3 DEF Arithmetic
  <2>5. SafeAdd(request.a, request.b, request.max) = Place(request.a + request.b, request.max)
    BY <2>2, SafeAddExact
  <2>6. SafeMul(request.a, request.b, request.max) = Place(request.a * request.b, request.max)
    BY <2>2, SafeMulExact
  <2> QED
    BY <2>4, <2>5, <2>6, Zenon DEF Place
<1> QED
  BY <1>1, AnswerInvariant, PTL

\* An order is a matter of the cart, the stack, the charges and the rate.
LEMMA OrderOfStack ==
    ASSUME NEW r \in RequestType, NEW codes \in Seq(Nat),
           VoucherStack(codes, Lines(r.items), r.method) = VoucherStack(r.codes, Lines(r.items), r.method)
    PROVE  Order([r EXCEPT !.codes = codes]) = Order(r)
<1> DEFINE q == [r EXCEPT !.codes = codes]
<1>1. /\ q.items = r.items /\ q.codes = codes /\ q.charges = r.charges /\ q.rate = r.rate
      /\ q.method = r.method
  BY DEF RequestType
<1> HIDE DEF q
<1>2. Order(q) = Order(r)
  BY <1>1 DEF Order
<1> QED
  BY <1>2 DEF q

\* Sent in another order, the codes are the same set.
LEMMA Permuted ==
    ASSUME NEW codes \in Seq(Nat), NEW p \in SetToSeqs(DOMAIN codes)
    PROVE  /\ [i \in DOMAIN p |-> codes[p[i]]] \in Seq(Nat)
           /\ ToSet([i \in DOMAIN p |-> codes[p[i]]]) = ToSet(codes)
<1> DEFINE n == Len(codes)
           T == DOMAIN codes
           q == [i \in DOMAIN p |-> codes[p[i]]]
<1>1. n \in Nat /\ T = 1..n /\ \A i \in 1..n : codes[i] \in Nat
  OBVIOUS
<1>2. IsFiniteSet(T)
  <2>1. 1 \in Int /\ n \in Int
    BY <1>1
  <2> HIDE DEF n
  <2> QED
    BY <1>1, <2>1, FS_Interval
<1>3. p \in Seq(T) /\ ToSet(p) = T
  <2>1. p \in SetToSeqs(T)
    OBVIOUS
  <2> HIDE DEF T
  <2> QED
    BY <1>2, <2>1, ListsOfSet
<1> HIDE DEF n, T
<1>4. Len(p) \in Nat /\ DOMAIN p = 1..Len(p) /\ \A i \in 1..Len(p) : p[i] \in T
  BY <1>3
<1>5. q \in Seq(Nat) /\ DOMAIN q = DOMAIN p
  BY <1>1, <1>4
<1>6. ToSet(q) = ToSet(codes)
  <2>1. ToSet(q) = {codes[p[i]] : i \in DOMAIN p}
    BY DEF ToSet
  <2>2. ToSet(codes) = {codes[i] : i \in T}
    BY DEF ToSet, T
  <2>3. T = {p[i] : i \in DOMAIN p}
    BY <1>3 DEF ToSet
  <2> QED
    BY <2>1, <2>2, <2>3
<1> QED
  BY <1>5, <1>6

\* The order in which a client names vouchers decides nothing, for any vouchers: they are
\* sorted by priority and code, and the rules about pairs do not depend on the order.
THEOREM OrderOfCodesIsIdle == PricingSpec => []CodesInAnyOrder
<1>1. AnswerInv => CodesInAnyOrder
  <2> SUFFICES ASSUME AnswerInv, request.what = "order", outcome # <<>>,
                      NEW p \in SetToSeqs(DOMAIN request.codes)
               PROVE  Order([request EXCEPT !.codes = [i \in DOMAIN p |-> request.codes[p[i]]]])
                        = order
    BY DEF CodesInAnyOrder
  <2>1. request \in Requests /\ outcome = <<Reply(request)>>
    BY DEF AnswerInv
  <2>2. request \in RequestType
    BY <2>1, OrderRequest
  <2>3. order = Order(request)
    BY <2>1 DEF Reply, order
  <2> DEFINE codes == [i \in DOMAIN p |-> request.codes[p[i]]]
  <2>4. request.codes \in Seq(Nat)
    BY <2>2 DEF RequestType
  <2>5. codes \in Seq(Nat) /\ ToSet(codes) = ToSet(request.codes)
    BY <2>4, Permuted
  <2> HIDE DEF codes
  <2>6. VoucherStack(codes, Lines(request.items), request.method)
          = VoucherStack(request.codes, Lines(request.items), request.method)
    BY <2>4, <2>5, StackIsOfSet
  <2>7. Order([request EXCEPT !.codes = codes]) = Order(request)
    BY <2>2, <2>5, <2>6, OrderOfStack
  <2> QED
    BY <2>3, <2>7 DEF codes
<1> QED
  BY <1>1, AnswerInvariant, PTL

-----------------------------------------------------------------------------
(* The preview *)

\* Two lists of lines that vouchers cannot tell apart.
SameLines(a, b) ==
    /\ DOMAIN a = DOMAIN b
    /\ \A i \in DOMAIN a : a[i].item = b[i].item /\ a[i].subtotal = b[i].subtotal

Bounded(lines, sub) == \A c \in DOMAIN Voucher : EligibleSubtotal(Voucher[c], lines) \in 0..sub

\* The loop runs over lines that are bounded alike.
LEMMA BoundedRuns ==
    ASSUME NEW lines, NEW sub \in Nat, NEW s \in Seq(DOMAIN Voucher), Bounded(lines, sub)
    PROVE  HasRounds(s, lines, sub)
<1>1. \A c \in DOMAIN Voucher : EligibleSubtotal(Voucher[c], lines) \in 0..sub
  BY DEF Bounded
<1>2. \A x \in Seq(AppliedType), c \in DOMAIN Voucher :
         ApplyVoucher(x, c, lines, sub) \in Seq(AppliedType) \cup {None}
  BY <1>1, RoundType
<1> QED
  BY <1>2, ApplyRuns DEF TypedRounds

\* Over two such lists it does the same.
LEMMA SameApplied ==
    ASSUME NEW a, NEW b, NEW sub \in Nat, NEW s \in Seq(DOMAIN Voucher),
           \A c \in DOMAIN Voucher :
              EligibleSubtotal(Voucher[c], a) = EligibleSubtotal(Voucher[c], b),
           \A c \in DOMAIN Voucher : EligibleSubtotal(Voucher[c], a) \in 0..sub
    PROVE  ApplyVouchers(s, a, sub) = ApplyVouchers(s, b, sub)
<1>1. ASSUME NEW x, NEW c \in DOMAIN Voucher
      PROVE  ApplyVoucher(x, c, a, sub) = ApplyVoucher(x, c, b, sub)
  <2>1. EligibleSubtotal(Voucher[c], a) = EligibleSubtotal(Voucher[c], b)
    OBVIOUS
  <2> QED
    BY <2>1 DEF ApplyVoucher
<1>2. Len(s) \in Nat
  OBVIOUS
<1>3. PICK f \in [0..Len(s) -> Seq(AppliedType) \cup {None}] :
              /\ f[0] = <<>>
              /\ \A n \in 1..Len(s) : f[n] = IF f[n - 1] = None
                                             THEN None
                                             ELSE ApplyVoucher(f[n - 1], s[n], a, sub)
              /\ ApplyVouchers(s, a, sub) = f[Len(s)]
  <2>1. Bounded(a, sub)
    BY DEF Bounded
  <2>2. HasRounds(s, a, sub)
    BY <2>1, BoundedRuns
  <2> QED
    BY <2>2, Zenon DEF HasRounds
<1>4. PICK g \in [0..Len(s) -> Seq(AppliedType) \cup {None}] :
              /\ g[0] = <<>>
              /\ \A n \in 1..Len(s) : g[n] = IF g[n - 1] = None
                                             THEN None
                                             ELSE ApplyVoucher(g[n - 1], s[n], b, sub)
              /\ ApplyVouchers(s, b, sub) = g[Len(s)]
  <2>1. Bounded(b, sub)
    BY DEF Bounded
  <2>2. HasRounds(s, b, sub)
    BY <2>1, BoundedRuns
  <2> QED
    BY <2>2, Zenon DEF HasRounds
<1> DEFINE D == {n \in 0..Len(s) : f[n] = g[n]}
<1>5. 0 \in D /\ D \in SUBSET (0..Len(s))
  BY <1>2, <1>3, <1>4
<1>6. \A n \in 1..Len(s) : n - 1 \in D => n \in D
  <2> SUFFICES ASSUME NEW n \in 1..Len(s), f[n - 1] = g[n - 1] PROVE n \in 0..Len(s) /\ f[n] = g[n]
    OBVIOUS
  <2>1. s[n] \in DOMAIN Voucher /\ n \in 0..Len(s)
    BY <1>2
  <2>2. ApplyVoucher(f[n - 1], s[n], a, sub) = ApplyVoucher(f[n - 1], s[n], b, sub)
    BY <1>1, <2>1
  <2> QED
    BY <1>3, <1>4, <2>1, <2>2, Zenon
<1>7. D = 0..Len(s)
  <2> HIDE DEF D
  <2> QED
    BY <1>2, <1>5, <1>6, UpTo
<1>8. Len(s) \in D
  <2> HIDE DEF D
  <2> QED
    BY <1>2, <1>7
<1> QED
  BY <1>3, <1>4, <1>8

\* And so does the whole stack.
LEMMA SameStack ==
    ASSUME NEW a, NEW b, SameLines(a, b), GoodLines(b), NEW codes \in Seq(Nat), NEW m
    PROVE  VoucherStack(codes, a, m) = VoucherStack(codes, b, m)
<1>1. ASSUME NEW v PROVE EligibleSubtotal(v, a) = EligibleSubtotal(v, b)
  <2> DEFINE F(l) == [i \in DOMAIN l |->
                        IF l[i].item \in v.items /\ (v.promo \/ ~Item[l[i].item].promo)
                        THEN l[i].subtotal ELSE 0]
  <2>1. F(a) = F(b)
    BY DEF SameLines
  <2>2. EligibleSubtotal(v, a) = Total(F(a)) /\ EligibleSubtotal(v, b) = Total(F(b))
    BY DEF EligibleSubtotal
  <2> HIDE DEF F
  <2> QED
    BY <2>1, <2>2
<1>2. Subtotal(a) = Subtotal(b)
  <2>1. [i \in DOMAIN a |-> a[i].subtotal] = [i \in DOMAIN b |-> b[i].subtotal]
    BY DEF SameLines
  <2> QED
    BY <2>1 DEF Subtotal
<1>3. \A v : Eligible(v, a, m) <=> Eligible(v, b, m)
  BY <1>1 DEF Eligible
<1> DEFINE s == SortedCodes(codes)
           sub == Subtotal(b)
<1>4. ASSUME ToSet(codes) \subseteq DOMAIN Voucher
      PROVE  ApplyVouchers(s, a, sub) = ApplyVouchers(s, b, sub)
  <2>1. codes \in Seq(DOMAIN Voucher)
    BY <1>4 DEF ToSet
  <2>2. InOrder(s, ToSet(codes), CodeOrder)
    BY <2>1, SortedIs
  <2>3. s \in Seq(DOMAIN Voucher)
    <3>1. s \in Seq(ToSet(codes))
      BY <2>2 DEF InOrder
    <3> HIDE DEF s
    <3> QED
      BY <1>4, <3>1
  <2>4. sub \in Nat /\ \A c \in DOMAIN Voucher : EligibleSubtotal(Voucher[c], b) \in 0..sub
    <3>1. sub \in Nat
      BY DEF GoodLines
    <3> QED
      BY <3>1, EligibleWithin
  <2>5. \A c \in DOMAIN Voucher : EligibleSubtotal(Voucher[c], a) = EligibleSubtotal(Voucher[c], b)
    BY <1>1
  <2>6. \A c \in DOMAIN Voucher : EligibleSubtotal(Voucher[c], a) \in 0..sub
    BY <2>4, <2>5
  <2> HIDE DEF s, sub
  <2> QED
    BY <2>3, <2>4, <2>5, <2>6, SameApplied
<1> DEFINE Fine(lines) ==
              /\ ToSet(codes) \subseteq DOMAIN Voucher
              /\ \A c \in ToSet(codes) : Eligible(Voucher[c], lines, m)
              /\ GoTogether(ToSet(codes))
<1>6. VoucherStack(codes, a, m) = IF Fine(a) THEN ApplyVouchers(s, a, sub) ELSE None
  BY <1>2, StackOfSet
<1>7. VoucherStack(codes, b, m) = IF Fine(b) THEN ApplyVouchers(s, b, sub) ELSE None
  BY StackOfSet
<1>8. Fine(a) <=> Fine(b)
  BY <1>3, Zenon
<1>9. Fine(b) => ToSet(codes) \subseteq DOMAIN Voucher
  OBVIOUS
<1> HIDE DEF Fine, s, sub
<1>10. CASE Fine(b)
  BY <1>4, <1>6, <1>7, <1>8, <1>9, <1>10
<1>11. CASE ~Fine(b)
  BY <1>6, <1>7, <1>8, <1>11
<1> QED
  BY <1>10, <1>11

\* The lines of the preview and those of the order are two such lists.
LEMMA PreviewLines ==
    ASSUME NEW items \in Seq(EntryType), ValidCart(items)
    PROVE  /\ SameLines([i \in DOMAIN items |-> PreviewLine(items[i])], Lines(items))
           /\ GoodLines(Lines(items))
<1> DEFINE a == [i \in DOMAIN items |-> PreviewLine(items[i])]
           b == Lines(items)
<1>1. /\ GoodLines(b) /\ DOMAIN b = DOMAIN items
      /\ \A i \in DOMAIN items : b[i] = Line(items[i])
      /\ \A i \in DOMAIN items : b[i].subtotal = PreviewLine(items[i]).subtotal
  BY CartLines
<1>2. \A i \in DOMAIN items : b[i].item = items[i].item
        /\ PreviewLine(items[i]).item = items[i].item
  BY <1>1 DEF Line, PreviewLine
<1> HIDE DEF b
<1>3. SameLines(a, b)
  BY <1>1, <1>2 DEF SameLines
<1> QED
  BY <1>1, <1>3 DEF b

\* What can be ordered can be previewed.
LEMMA ValidCartPreviewable ==
    ASSUME NEW items \in Seq(EntryType), ValidCart(items) PROVE PreviewableCart(items)
<1>1. /\ items # <<>>
      /\ \A i \in DOMAIN items :
          /\ items[i].item \in DOMAIN Item
          /\ items[i].quantity \in 1..MaxQuantity
          /\ ToSet(items[i].options) \subseteq DOMAIN Option
          /\ \A o \in ToSet(items[i].options) : Option[o].item = items[i].item
  BY DEF ValidCart, ValidCustomizations
<1> QED
  BY <1>1, PricingAssumption DEF PreviewableCart

\* Without a payment method a stack is what it is with one, if that one is accepted.
LEMMA PaymentMethodAsked ==
    ASSUME NEW codes \in Seq(Nat), NEW lines, NEW method, NEW m \in {method, None}
    PROVE  LET x == VoucherStack(codes, lines, m)
               y == VoucherStack(codes, lines, method)
           IN  /\ y = None /\ x # None =>
                     /\ m = None
                     /\ \E c \in ToSet(codes) : ~Accepts(Voucher[c], method)
               /\ y # None => x = y
<1> DEFINE s == ApplyVouchers(SortedCodes(codes), lines, Subtotal(lines))
           Fine(n) == /\ ToSet(codes) \subseteq DOMAIN Voucher
                      /\ \A c \in ToSet(codes) : Eligible(Voucher[c], lines, n)
                      /\ GoTogether(ToSet(codes))
           x == VoucherStack(codes, lines, m)
           y == VoucherStack(codes, lines, method)
<1>1. x = (IF Fine(m) THEN s ELSE None) /\ y = IF Fine(method) THEN s ELSE None
  BY StackOfSet
<1>2. Fine(method) => Fine(m)
  BY DEF Eligible, Accepts
<1>3. Fine(m) /\ ~Fine(method) => \E c \in ToSet(codes) : ~Accepts(Voucher[c], method)
  BY DEF Eligible
<1>4. m = method \/ m = None
  OBVIOUS
<1> HIDE DEF s, Fine, x, y
<1>5. /\ y = None /\ x # None =>
            /\ m = None
            /\ \E c \in ToSet(codes) : ~Accepts(Voucher[c], method)
      /\ y # None => x = y
  <2>1. m = method => x = y
    BY DEF x, y
  <2> QED
    BY <1>1, <1>2, <1>3, <1>4, <2>1
<1> QED
  BY <1>5 DEF x, y

\* The voucher preview of the cart page is what checkout does: the preview keeps less of a
\* line than checkout, but nothing that vouchers look at is missing; only a preview that
\* names no payment method passes over the rule on payment methods.
THEOREM PreviewsAreHonoured == PricingSpec => []PreviewIsHonoured
<1>1. AnswerInv => PreviewIsHonoured
  <2> SUFFICES ASSUME AnswerInv, request.what = "preview", outcome # <<>>,
                      request.codes # <<>>, ValidCart(request.items),
                      NEW method \in Methods, request.method \in {method, None}
               PROVE  LET placed == Order([request EXCEPT !.method = method])
                      IN  IF placed = None
                          THEN order.valid =>
                                  /\ request.method = None
                                  /\ \E c \in ToSet(request.codes) : ~Accepts(Voucher[c], method)
                          ELSE /\ order.valid
                               /\ order.vouchers = placed.applied
                               /\ order.discount = placed.discount
    BY DEF PreviewIsHonoured
  <2>1. request \in Requests /\ outcome = <<Reply(request)>>
    BY DEF AnswerInv
  <2>2. request \in RequestType /\ request.items \in Seq(EntryType) /\ request.codes \in Seq(Nat)
    <3>1. request \in RequestType
      BY <2>1, OrderRequest
    <3> QED
      BY <3>1 DEF RequestType
  <2> DEFINE a == [i \in DOMAIN request.items |-> PreviewLine(request.items[i])]
             b == Lines(request.items)
             q == [request EXCEPT !.method = method]
             x == VoucherStack(request.codes, b, request.method)
             y == VoucherStack(request.codes, b, method)
  <2>3. VoucherStack(request.codes, a, request.method) = x
    <3>1. SameLines(a, b) /\ GoodLines(b)
      BY <2>2, PreviewLines
    <3> HIDE DEF a, b
    <3> QED
      BY <2>2, <3>1, SameStack
  <2>4. NormalizeVoucherCodes(request.codes) # <<>>
    <3>1. ToSet(request.codes) # {} /\ ToSet(<<>>) = {}
      <4>1. Len(request.codes) # 0 /\ Len(request.codes) \in Nat
        BY <2>2, EmptySeq
      <4>2. 1 \in DOMAIN request.codes
        BY <2>2, <4>1
      <4>3. ToSet(<<>>) = {}
        <5>1. DOMAIN <<>> = {}
          OBVIOUS
        <5> QED
          BY <5>1 DEF ToSet
      <4>4. request.codes[1] \in ToSet(request.codes)
        BY <4>2 DEF ToSet
      <4> QED
        BY <4>3, <4>4
    <3> QED
      BY <2>2, <3>1, NormalizedCodes
  <2>5. PreviewableCart(request.items)
    BY <2>2, ValidCartPreviewable
  <2>6. order = ValidateVoucher(request)
    BY <2>1 DEF Reply, order
  <2>7. order = [valid    |-> x # None,
                 vouchers |-> IF x = None THEN <<>> ELSE x,
                 discount |-> IF x = None THEN 0 ELSE TotalDiscount(x)]
    BY <2>3, <2>4, <2>5, <2>6 DEF ValidateVoucher
  <2>8. /\ q \in RequestType /\ q.items = request.items /\ q.codes = request.codes
        /\ q.method = method /\ method # None
    BY <2>2, PricingAssumption DEF RequestType
  <2> HIDE DEF q
  <2>9. y # None => /\ Order(q) # None
                    /\ Order(q).applied = y /\ Order(q).discount = TotalDiscount(y)
    <3> SUFFICES ASSUME y # None
                 PROVE  /\ Order(q) # None
                        /\ Order(q).applied = y /\ Order(q).discount = TotalDiscount(y)
      OBVIOUS
    <3>1. Order(q) # None /\ OrderParts(q, Order(q))
      BY <2>8, OrderIs
    <3> QED
      BY <2>8, <3>1 DEF OrderParts
  <2>10. y = None => Order(q) = None
    BY <2>8 DEF Order
  <2>11. /\ y = None /\ x # None =>
              /\ request.method = None
              /\ \E c \in ToSet(request.codes) : ~Accepts(Voucher[c], method)
         /\ y # None => x = y
    BY <2>2, PaymentMethodAsked
  <2> HIDE DEF x, y, order
  <2>12. (order.valid <=> x # None) /\ order.vouchers = (IF x = None THEN <<>> ELSE x)
         /\ order.discount = IF x = None THEN 0 ELSE TotalDiscount(x)
    BY <2>7
  <2> QED
    BY <2>9, <2>10, <2>11, <2>12, Zenon DEF q
<1> QED
  BY <1>1, AnswerInvariant, PTL

-----------------------------------------------------------------------------
(* Rounding *)

\* Within a cent of the exact total, scaled by 10000 times the subtotal.
Cent(total, s, left, net, rate) ==
    total * 10000 * s - left * (10000 * s + net * rate) \in (-10000 * s)..(10000 * s)

IsTax(n, rate, t) == n \in Nat /\ rate \in Nat /\ t = TaxFromNet(n, rate)

LEMMA IsTaxBounds ==
    ASSUME NEW n, NEW rate, NEW t, IsTax(n, rate, t)
    PROVE  t \in Nat /\ 10000 * t =< n * rate + 5000 /\ n * rate + 5000 < 10000 * t + 10000
BY TaxBounds DEF IsTax

RoundedTwice(s, i, left, rate, p, t) ==
    /\ s \in Nat \ {0} /\ i \in 0..s /\ left \in 0..s
    /\ rate \in Nat /\ rate =< 10000
    /\ p \in 0..left /\ p = ProrateAmount(i, left, s) /\ t = TaxFromNet(left - p, rate)

\* The total is off by the rounding of the tax and by the tax on the rounding of
\* what is priced with tax: half a cent each, when the tax is no more than the price.
LEMMA OffByACent ==
    ASSUME NEW s, NEW i, NEW left, NEW rate, NEW p, NEW t, RoundedTwice(s, i, left, rate, p, t)
    PROVE  Cent(left + t, s, left, s - i, rate)
<1> DEFINE n == left - p
           e == s - i
           off == (left + t) * 10000 * s - left * (10000 * s + e * rate)
<1>1. /\ s \in Nat \ {0} /\ i \in Nat /\ left \in Nat /\ rate \in Nat /\ p \in Nat
      /\ n \in Nat /\ e \in Nat /\ n = left - p /\ e = s - i
      /\ rate =< 10000 /\ p = ProrateAmount(i, left, s) /\ t = TaxFromNet(n, rate)
  BY DEF RoundedTwice
<1>2. /\ s * p =< i * left + s \div 2
      /\ i * left + s \div 2 < s * p + s
  BY <1>1, ProrateBounds
<1>3. /\ t \in Nat
      /\ 10000 * t =< n * rate + 5000
      /\ n * rate + 5000 < 10000 * t + 10000
  <2> HIDE DEF n
  <2>1. IsTax(n, rate, t)
    BY <1>1 DEF IsTax
  <2> QED
    BY <2>1, IsTaxBounds
<1> HIDE DEF n, e
<1> DEFINE x == s * n - e * left
           y == 10000 * t - n * rate
<1>4. /\ s * n = s * left - s * p /\ e * left = s * left - i * left
      /\ s * left \in Int /\ s * p \in Int /\ i * left \in Int
  BY <1>1
<1>5. x \in Int /\ 2 * x =< s /\ -s =< 2 * x
  <2> DEFINE sl == s * left
             sp == s * p
             il == i * left
  <2>1. x = sl - sp - (sl - il) /\ sl \in Int /\ sp \in Int /\ il \in Int
    BY <1>4
  <2>2. s \div 2 \in Int /\ 2 * (s \div 2) =< s /\ s =< 2 * (s \div 2) + 1
    BY <1>1
  <2>3. sp =< il + s \div 2 /\ il + s \div 2 < sp + s
    BY <1>2
  <2> HIDE DEF x, sl, sp, il
  <2> QED
    BY <1>1, <2>1, <2>2, <2>3
<1>6. y \in Int /\ y =< 5000 /\ -5000 < y
  <2> DEFINE nr == n * rate
  <2>1. nr \in Int /\ y = 10000 * t - nr
    BY <1>1
  <2>2. 10000 * t =< nr + 5000 /\ nr + 5000 < 10000 * t + 10000
    BY <1>3
  <2> HIDE DEF nr, y
  <2> QED
    BY <1>3, <2>1, <2>2
<1>7. off = s * y + rate * x
  <2> DEFINE st == s * t
             sl == s * left
             el == e * left
             sn == s * n
             elr == el * rate
             snr == sn * rate
  <2>1. /\ st \in Int /\ sl \in Int /\ el \in Int /\ sn \in Int /\ elr \in Int /\ snr \in Int
    BY <1>1, <1>3
  <2>2. off = 10000 * sl + 10000 * st - (10000 * sl + elr)
    <3> DEFINE a == (left + t) * 10000 * s
               b == left * (10000 * s + e * rate)
    <3>1. a = 10000 * sl + 10000 * st
      BY <1>1, <1>3
    <3>2. b = 10000 * sl + elr
      BY <1>1
    <3>3. off = a - b
      OBVIOUS
    <3> HIDE DEF a, b, off, sl, st, elr
    <3> QED
      BY <2>1, <3>1, <3>2, <3>3
  <2>3. s * y = 10000 * st - snr
    BY <1>1, <1>3
  <2>4. rate * x = snr - elr
    BY <1>1
  <2> HIDE DEF off, x, y, st, sl, el, sn, elr, snr
  <2> QED
    BY <2>1, <2>2, <2>3, <2>4
<1>8. s * y =< 5000 * s /\ -(5000 * s) =< s * y /\ s * y \in Int
  <2> HIDE DEF y
  <2>1. s * y =< s * 5000
    BY <1>1, <1>6, ProductMono
  <2>2. -5000 \in Int /\ -5000 =< y
    BY <1>6
  <2>3. s * (-5000) =< s * y
    BY <1>1, <1>6, <2>2, ProductMono
  <2> QED
    BY <1>1, <1>6, <2>1, <2>3
<1>9. 2 * (rate * x) =< 10000 * s /\ -(10000 * s) =< 2 * (rate * x) /\ rate * x \in Int
  <2> HIDE DEF x
  <2> DEFINE z == 2 * x
             w == -s
  <2>1. z \in Int /\ w \in Int /\ z =< s /\ w =< z
    BY <1>1, <1>5
  <2> HIDE DEF z, w
  <2>2. rate * z =< rate * s /\ rate * w =< rate * z
    <3>1. rate * z =< rate * s
      BY <1>1, <2>1, ProductMono
    <3>2. rate * w =< rate * z
      BY <1>1, <2>1, ProductMono
    <3> QED
      BY <3>1, <3>2
  <2>3. rate * s =< 10000 * s
    <3>1. rate =< 10000 /\ 10000 \in Int
      BY <1>1
    <3> QED
      BY <1>1, <3>1, ProductMono
  <2>4. rate * z = 2 * (rate * x) /\ rate * w = -(rate * s)
    BY <1>1, <1>5 DEF z, w
  <2>5. rate * x \in Int /\ rate * s \in Int
    BY <1>1, <1>5
  <2> DEFINE rx == rate * x
             rs == rate * s
  <2>6. 2 * rx =< rs /\ -rs =< 2 * rx /\ rs =< 10000 * s /\ rx \in Int /\ rs \in Int
    BY <2>2, <2>3, <2>4, <2>5
  <2> HIDE DEF rx, rs
  <2>7. 2 * rx =< 10000 * s /\ -(10000 * s) =< 2 * rx
    BY <1>1, <2>6
  <2> QED
    BY <2>5, <2>7 DEF rx
<1> DEFINE a == s * y
           b == rate * x
<1>10. off = a + b /\ a \in Int /\ b \in Int /\ a =< 5000 * s /\ -(5000 * s) =< a
       /\ 2 * b =< 10000 * s /\ -(10000 * s) =< 2 * b
  BY <1>7, <1>8, <1>9
<1> HIDE DEF a, b, off
<1>11. off \in (-10000 * s)..(10000 * s)
  BY <1>1, <1>10
<1> QED
  BY <1>11 DEF off, e, Cent

\* The items of a cart after a discount.
LEMMA ItemsWithinACent ==
    ASSUME NEW lines, GoodLines(lines), NEW d \in 0..Subtotal(lines),
           NEW rate \in Nat, rate =< 10000
    PROVE  LET s == Subtotal(lines)
               t == ItemTotals(lines, d, rate).total
           IN  /\ t \in Nat
               /\ Cent(t, s, s - d, Exclusive(lines), rate)
<1> DEFINE s == Subtotal(lines)
           i == Inclusive(lines)
           net == Exclusive(lines)
           left == s - d
           p == ProrateAmount(i, left, s)
           t == ItemTotals(lines, d, rate).total
           x == TaxFromNet(left - p, rate)
<1>1. rate \in Nat /\ s \in Nat
  BY DEF GoodLines
<1>2. i \in Nat /\ net \in Nat /\ s = i + net
  BY LineTotals
<1>3. /\ ItemTotals(lines, d, rate) \in TotalsType
      /\ s = 0 => t = 0
      /\ s # 0 => p \in 0..left /\ t = left + x
  BY <1>1, ItemTotalsIs
<1>4. t \in Nat
  BY <1>3 DEF TotalsType
<1>5. left \in 0..s
  BY <1>1
<1>6. p = ProrateAmount(i, left, s) /\ x = TaxFromNet(left - p, rate)
  OBVIOUS
<1> HIDE DEF s, i, net, left, p, t, x
<1>7. s = 0 => left = 0
  BY <1>1, <1>5
<1>8. CASE s = 0
  <2>1. t = 0 /\ left = 0
    BY <1>3, <1>7, <1>8
  <2>2. net * rate \in Nat
    BY <1>1, <1>2, ProductNat
  <2> DEFINE m == net * rate
  <2> HIDE DEF m
  <2>3. m \in Nat
    BY <2>2 DEF m
  <2>4. t * 10000 * s - left * (10000 * s + m) = 0
    BY <1>8, <2>1, <2>3
  <2>5. t * 10000 * s - left * (10000 * s + m) \in (-10000 * s)..(10000 * s)
    BY <1>8, <2>4
  <2> QED
    BY <1>4, <2>5 DEF m, s, t, net, left, Cent
<1>9. CASE s # 0
  <2>1. RoundedTwice(s, i, left, rate, p, x)
    BY <1>1, <1>2, <1>3, <1>5, <1>6, <1>9 DEF RoundedTwice
  <2>2. Cent(left + x, s, left, s - i, rate)
    BY <2>1, OffByACent
  <2>3. t = left + x /\ s - i = net
    BY <1>2, <1>3, <1>9
  <2>4. Cent(t, s, left, net, rate)
    BY <2>2, <2>3
  <2> QED
    BY <1>4, <2>4 DEF s, t, net, left
<1> QED
  BY <1>8, <1>9

\* Charges are the same on both sides.
LEMMA OrderWithinACent ==
    ASSUME AnswerInv, Ordered, request.rate \in Nat, request.rate =< 10000 PROVE WithinACent
<1> DEFINE lines == Lines(request.items)
           s == Subtotal(lines)
           d == order.discount
           rate == request.rate
           net == Exclusive(lines)
           t == ItemTotals(lines, d, rate).total
           z == order.total - order.charged
<1>1. /\ GoodLines(lines) /\ order.subtotal = s /\ d \in 0..s
      /\ order.charged \in Nat /\ order.total = order.charged + t
  <2>1. OrderParts(request, order)
    BY OrderedIs
  <2> QED
    BY <2>1, ChargesAre DEF OrderParts
<1>2. /\ t \in Nat
      /\ Cent(t, s, s - d, net, rate)
  <2>1. rate \in Nat /\ rate =< 10000
    OBVIOUS
  <2> HIDE DEF lines, d, rate
  <2> QED
    BY <1>1, <2>1, ItemsWithinACent
<1>3. z = t
  <2> HIDE DEF t
  <2> QED
    BY <1>1, <1>2
<1>4. Cent(z, order.subtotal, order.subtotal - d, net, rate)
  <2> HIDE DEF t, s, z, d, net, rate
  <2> QED
    BY <1>1, <1>2, <1>3
<1> QED
  BY <1>4 DEF WithinACent, Cent

\* What checkout charges is within a cent of the exact amount, whatever the cart, the
\* vouchers and the charges: two roundings (ProrateAmount, TaxFromNet) never add up to
\* more.  The hypothesis is the rate of a country: no tax is higher than the price.
THEOREM RoundsWithinACent ==
    ASSUME \A r \in Requests : r.what = "order" => r.rate <= 10000
    PROVE  PricingSpec => []WithinACent
<1>1. AnswerInv => WithinACent
  <2> SUFFICES ASSUME AnswerInv, Ordered PROVE WithinACent
    BY DEF WithinACent
  <2>1. request \in Requests /\ request.what = "order" /\ request \in RequestType
    <3>1. request \in RequestType
      BY OrderedIs
    <3> QED
      BY <3>1 DEF AnswerInv, Ordered
  <2>2. request.rate \in Nat
    BY <2>1 DEF RequestType
  <2>3. request.rate <= 10000
    BY <2>1
  <2> QED
    BY <2>2, <2>3, OrderWithinACent
<1> QED
  BY <1>1, AnswerInvariant, PTL

-----------------------------------------------------------------------------
(* One voucher fewer *)

\* The list s without its k-th element.
Without(s, k) == [i \in 1..(Len(s) - 1) |-> IF i < k THEN s[i] ELSE s[i + 1]]

\* Without one of its elements a list is still in order.
LEMMA WithoutInOrder ==
    ASSUME NEW T, NEW R, Orders(R, T), NEW s, InOrder(s, T, R), NEW k \in 1..Len(s)
    PROVE  InOrder(Without(s, k), T \ {s[k]}, R)
<1> DEFINE n == Len(s)
           u == Without(s, k)
<1>1. /\ s \in Seq(T) /\ n \in Nat /\ s = [i \in 1..n |-> s[i]]
      /\ \A i \in 1..n : s[i] \in T
      /\ \A x \in T : \E i \in 1..n : s[i] = x
      /\ \A i, j \in 1..n : i < j => <<s[i], s[j]>> \in R
  BY InOrderFacts
<1>2. \A i, j \in 1..n : s[i] = s[j] => i = j
  <2> SUFFICES ASSUME NEW i \in 1..n, NEW j \in 1..n, s[i] = s[j] PROVE i = j
    OBVIOUS
  <2>1. ~(i < j) /\ ~(j < i)
    BY <1>1 DEF Orders
  <2> QED
    BY <1>1, <2>1
<1> DEFINE at(i) == IF i < k THEN i ELSE i + 1
<1>3. \A i \in 1..(n - 1) : at(i) \in 1..n /\ at(i) # k /\ u[i] = s[at(i)]
  BY <1>1 DEF Without
<1>4. \A i \in 1..n : i # k => \E j \in 1..(n - 1) : at(j) = i
  <2> SUFFICES ASSUME NEW i \in 1..n, i # k PROVE \E j \in 1..(n - 1) : at(j) = i
    OBVIOUS
  <2>1. CASE i < k
    <3>1. i \in 1..(n - 1) /\ at(i) = i
      BY <1>1, <2>1
    <3> QED
      BY <3>1
  <2>2. CASE i > k
    <3>1. i - 1 \in 1..(n - 1) /\ at(i - 1) = i
      BY <1>1, <2>2
    <3> QED
      BY <3>1
  <2> QED
    BY <1>1, <2>1, <2>2
<1>5. \A i, j \in 1..(n - 1) : i < j => at(i) < at(j)
  BY <1>1
<1> HIDE DEF at
<1>6. DOMAIN u = 1..(n - 1) /\ n - 1 \in Nat
  BY <1>1 DEF Without
<1>7. \A i \in 1..(n - 1) : u[i] \in T \ {s[k]}
  BY <1>1, <1>2, <1>3
<1>8. u \in Seq(T \ {s[k]}) /\ Len(u) = n - 1
  <2>1. u = [i \in 1..(n - 1) |-> u[i]]
    BY DEF Without
  <2> HIDE DEF u
  <2> QED
    BY <1>6, <1>7, <2>1
<1>9. \A x \in T \ {s[k]} : \E i \in 1..(n - 1) : u[i] = x
  <2> SUFFICES ASSUME NEW x \in T \ {s[k]} PROVE \E i \in 1..(n - 1) : u[i] = x
    OBVIOUS
  <2>1. PICK i \in 1..n : s[i] = x
    BY <1>1
  <2>2. PICK j \in 1..(n - 1) : at(j) = i
    BY <1>4, <2>1
  <2> QED
    BY <1>3, <2>1, <2>2
<1>10. \A i, j \in 1..(n - 1) : i < j => <<u[i], u[j]>> \in R
  BY <1>1, <1>3, <1>5
<1> HIDE DEF u
<1>11. T \ {s[k]} = {u[i] : i \in 1..Len(u)}
  BY <1>7, <1>8, <1>9
<1> QED
  BY <1>8, <1>10, <1>11 DEF InOrder, u

\* What remains after the vouchers s, and after the same without the k-th.
TwoRests(s, k, R, Q, lines, subtotal) ==
    /\ subtotal \in Nat \ {0} /\ s \in Seq(DOMAIN Voucher) /\ k \in 1..Len(s)
    /\ \A c \in DOMAIN Voucher : EligibleSubtotal(Voucher[c], lines) \in 0..subtotal
    /\ IsRest(R, s, lines, subtotal) /\ IsRest(Q, Without(s, k), lines, subtotal)

\* A voucher fewer, and no less remains, by induction along the stack: each of the later
\* vouchers takes off no more than the difference.
LEMMA LessRemains ==
    ASSUME NEW s, NEW k, NEW R, NEW Q, NEW lines, NEW subtotal,
             TwoRests(s, k, R, Q, lines, subtotal)
    PROVE  R[Len(s)] =< Q[Len(s) - 1]
<1> DEFINE n == Len(s)
           u == Without(s, k)
           E(c) == EligibleSubtotal(Voucher[c], lines)
           before(i) == IF i < k THEN i ELSE i - 1
           D == {i \in 0..n : R[i] =< Q[before(i)]}
<1>1. /\ subtotal \in Nat \ {0} /\ k \in 1..n /\ n \in Nat
      /\ \A i \in 1..n : s[i] \in DOMAIN Voucher
      /\ \A c \in DOMAIN Voucher : E(c) \in 0..subtotal
  BY DEF TwoRests
<1>2. /\ R \in [0..n -> 0..subtotal] /\ R[0] = subtotal
      /\ \A i \in 1..n : R[i] = R[i - 1] - Off(s[i], E(s[i]), R[i - 1], subtotal)
  BY DEF TwoRests, IsRest
<1>3. Len(u) = n - 1 /\ \A i \in 1..(n - 1) : u[i] = IF i < k THEN s[i] ELSE s[i + 1]
  BY <1>1 DEF Without
<1>4. /\ Q \in [0..(n - 1) -> 0..subtotal] /\ Q[0] = subtotal
      /\ \A i \in 1..(n - 1) : Q[i] = Q[i - 1] - Off(u[i], E(u[i]), Q[i - 1], subtotal)
  <2>1. IsRest(Q, u, lines, subtotal)
    BY DEF TwoRests
  <2> HIDE DEF u
  <2> QED
    BY <1>3, <2>1 DEF IsRest
<1> HIDE DEF n, u, E
<1>5. ASSUME NEW c \in DOMAIN Voucher, NEW r \in 0..subtotal, NEW q \in 0..subtotal, r =< q
      PROVE  r - Off(c, E(c), r, subtotal) =< q - Off(c, E(c), q, subtotal)
  <2> DEFINE e == E(c)
  <2>1. e \in 0..subtotal
    BY <1>1
  <2> HIDE DEF e
  <2>2. Off(c, e, r, subtotal) \in 0..e /\ Off(c, e, q, subtotal) \in 0..e
    <3>1. Off(c, e, r, subtotal) \in 0..e
      BY <1>1, <2>1, OffWithin
    <3>2. Off(c, e, q, subtotal) \in 0..e
      BY <1>1, <2>1, OffWithin
    <3> QED
      BY <3>1, <3>2
  <2>3. Off(c, e, q, subtotal) =< Off(c, e, r, subtotal) + (q - r)
    BY <1>1, <1>5, <2>1, OffStep
  <2>4. r - Off(c, e, r, subtotal) =< q - Off(c, e, q, subtotal)
    BY <1>1, <2>1, <2>2, <2>3
  <2> QED
    BY <2>4 DEF e
<1>6. 0 \in D /\ D \in SUBSET (0..n)
  BY <1>1, <1>2, <1>4
<1>7. ASSUME NEW i \in 1..n, i - 1 \in D PROVE i \in D
  <2>1. i \in 0..n /\ i - 1 \in 0..n /\ s[i] \in DOMAIN Voucher /\ i \in Nat /\ k \in Nat
    BY <1>1
  <2>2. R[i] = R[i - 1] - Off(s[i], E(s[i]), R[i - 1], subtotal) /\ R[i - 1] \in 0..subtotal
    BY <1>2, <2>1
  <2>3. CASE i < k
    <3>1. i - 1 < k /\ i \in 1..(n - 1) /\ i - 1 \in 0..(n - 1)
      BY <1>1, <2>1, <2>3
    <3>2. Q[i] = Q[i - 1] - Off(s[i], E(s[i]), Q[i - 1], subtotal) /\ Q[i - 1] \in 0..subtotal
      BY <1>3, <1>4, <2>3, <3>1
    <3>3. R[i - 1] =< Q[i - 1]
      BY <1>7, <3>1
    <3>4. R[i] =< Q[i]
      BY <1>5, <2>1, <2>2, <3>2, <3>3
    <3> QED
      BY <2>1, <2>3, <3>4
  <2>4. CASE i = k
    <3>1. i - 1 < k /\ i - 1 \in 0..(n - 1)
      BY <1>1, <2>1, <2>4
    <3>2. R[i - 1] =< Q[i - 1] /\ Q[i - 1] \in 0..subtotal
      BY <1>4, <1>7, <3>1
    <3>3. Off(s[i], E(s[i]), R[i - 1], subtotal) \in Nat
      <4> DEFINE c == s[i]
                 e == E(c)
                 r == R[i - 1]
      <4>1. c \in DOMAIN Voucher /\ e \in 0..subtotal /\ r \in 0..subtotal
        BY <1>1, <2>1, <2>2
      <4> HIDE DEF c, e, r
      <4>2. Off(c, e, r, subtotal) \in 0..e
        BY <1>1, <4>1, OffWithin
      <4>3. Off(c, e, r, subtotal) \in Nat
        BY <1>1, <4>1, <4>2
      <4> QED
        BY <4>3 DEF c, e, r
    <3>4. R[i] =< Q[i - 1]
      BY <1>1, <2>2, <3>2, <3>3
    <3>5. before(i) = i - 1
      BY <2>1, <2>4
    <3> QED
      BY <2>1, <3>4, <3>5
  <2>5. CASE i > k
    <3> DEFINE j == i - 1
    <3>1. ~(j < k) /\ ~(i < k) /\ j \in 1..(n - 1) /\ j - 1 \in 0..(n - 1) /\ j + 1 = i
      BY <1>1, <2>1, <2>5
    <3>2. Q[j] = Q[j - 1] - Off(s[i], E(s[i]), Q[j - 1], subtotal) /\ Q[j - 1] \in 0..subtotal
      <4>1. u[j] = s[i]
        <5> HIDE DEF j
        <5> QED
          BY <1>3, <3>1
      <4> HIDE DEF j
      <4> QED
        BY <1>4, <3>1, <4>1
    <3>3. R[j] =< Q[j - 1]
      BY <1>7, <3>1
    <3>4. R[i] =< Q[j]
      BY <1>5, <2>1, <2>2, <3>2, <3>3
    <3> QED
      BY <2>1, <3>1, <3>4
  <2> QED
    BY <1>1, <2>1, <2>3, <2>4, <2>5
<1>8. D = 0..n
  <2> HIDE DEF D
  <2> QED
    BY <1>1, <1>6, <1>7, UpTo
<1>9. n \in D /\ before(n) = n - 1
  <2>1. n \in D
    <3> HIDE DEF D
    <3> QED
      BY <1>1, <1>8
  <2>2. before(n) = n - 1
    BY <1>1
  <2> QED
    BY <2>1, <2>2
<1> QED
  BY <1>9 DEF n

Cheaper(lines, rate, d, e) ==
    /\ GoodLines(lines) /\ rate \in Nat
    /\ d \in 0..Subtotal(lines) /\ e \in 0..Subtotal(lines) /\ e =< d

\* A higher discount never makes the items dearer, tax and rounding included.
LEMMA DiscountsPay ==
    ASSUME NEW lines, NEW rate, NEW d, NEW e, Cheaper(lines, rate, d, e)
    PROVE  /\ ItemTotals(lines, d, rate).total \in Nat /\ ItemTotals(lines, e, rate).total \in Nat
           /\ ItemTotals(lines, d, rate).total =< ItemTotals(lines, e, rate).total
<1> DEFINE s == Subtotal(lines)
           i == Inclusive(lines)
           a == s - d
           b == s - e
           p == ProrateAmount(i, a, s)
           q == ProrateAmount(i, b, s)
           t == ItemTotals(lines, d, rate)
           u == ItemTotals(lines, e, rate)
<1>1. /\ GoodLines(lines) /\ rate \in Nat /\ d \in 0..s /\ e \in 0..s /\ e =< d /\ s \in Nat
  BY DEF Cheaper, GoodLines
<1>2. /\ t \in TotalsType
      /\ s = 0 => t.total = 0
      /\ s # 0 => p \in 0..a /\ t.total = a + TaxFromNet(a - p, rate)
  BY <1>1, ItemTotalsIs
<1>3. /\ u \in TotalsType
      /\ s = 0 => u.total = 0
      /\ s # 0 => q \in 0..b /\ u.total = b + TaxFromNet(b - q, rate)
  BY <1>1, ItemTotalsIs
<1>4. t.total \in Nat /\ u.total \in Nat
  BY <1>2, <1>3 DEF TotalsType
<1>5. i \in Nat /\ i \in 0..s
  <2>1. i \in Nat /\ Exclusive(lines) \in Nat /\ s = i + Exclusive(lines)
    BY <1>1, LineTotals
  <2> HIDE DEF i, s
  <2> QED
    BY <2>1
<1>6. a \in Nat /\ b \in Nat /\ a =< b
  BY <1>1
<1> HIDE DEF s, i, a, b, t, u
<1>7. ASSUME s # 0 PROVE t.total =< u.total
  <2>1. q =< p + (b - a)
    <3>1. s \in Nat \ {0}
      BY <1>1, <1>7
    <3> QED
      BY <1>5, <1>6, <3>1, ProrateStep
  <2> HIDE DEF p, q
  <2> DEFINE m == a - p
             n == b - q
  <2>2. m \in Nat /\ n \in Nat /\ m =< n
    BY <1>2, <1>3, <1>6, <1>7, <2>1
  <2>3. t.total = a + TaxFromNet(m, rate) /\ u.total = b + TaxFromNet(n, rate)
    BY <1>2, <1>3, <1>7
  <2> HIDE DEF m, n
  <2>4. TaxFromNet(m, rate) =< TaxFromNet(n, rate)
    BY <1>1, <2>2, TaxGrows
  <2>5. TaxFromNet(m, rate) \in Nat
    BY <1>1, <2>2, TaxNat
  <2>6. TaxFromNet(n, rate) \in Nat
    BY <1>1, <2>2, TaxNat
  <2> QED
    BY <1>6, <2>3, <2>4, <2>5, <2>6
<1>8. t.total =< u.total
  BY <1>2, <1>3, <1>7
<1> QED
  BY <1>4, <1>8 DEF t, u

\* Both stacks were accepted, the second of all the codes but one.
OneFewer(codes, fewer, c, lines, m) ==
    /\ codes \in Seq(Nat) /\ fewer \in Seq(Nat) /\ GoodLines(lines)
    /\ c \in ToSet(codes) /\ ToSet(fewer) = ToSet(codes) \ {c}
    /\ VoucherStack(codes, lines, m) # None /\ VoucherStack(fewer, lines, m) # None
    /\ Subtotal(lines) # 0

\* A voucher fewer takes off no more.
LEMMA FewerDiscount ==
    ASSUME NEW codes, NEW fewer, NEW c, NEW lines, NEW m,
           OneFewer(codes, fewer, c, lines, m)
    PROVE  TotalDiscount(VoucherStack(fewer, lines, m)) =< TotalDiscount(VoucherStack(codes, lines, m))
<1> DEFINE a == VoucherStack(codes, lines, m)
           b == VoucherStack(fewer, lines, m)
           s == SortedCodes(codes)
           u == SortedCodes(fewer)
           T == ToSet(codes)
           F == ToSet(fewer)
           subtotal == Subtotal(lines)
           Within == \A v \in DOMAIN Voucher : EligibleSubtotal(Voucher[v], lines) \in 0..subtotal
<1>0. /\ codes \in Seq(Nat) /\ fewer \in Seq(Nat) /\ GoodLines(lines)
      /\ c \in T /\ F = T \ {c} /\ a # None /\ b # None
      /\ subtotal \in Nat \ {0}
  BY DEF OneFewer, GoodLines
<1>1. /\ T \subseteq DOMAIN Voucher
      /\ InOrder(s, T, CodeOrder)
      /\ Within
      /\ \E R : IsRest(R, s, lines, subtotal) /\ TotalDiscount(a) = subtotal - R[Len(s)]
  BY <1>0, StackFacts
<1>2. /\ F \subseteq DOMAIN Voucher
      /\ InOrder(u, F, CodeOrder)
      /\ \E Q : IsRest(Q, u, lines, subtotal) /\ TotalDiscount(b) = subtotal - Q[Len(u)]
  BY <1>0, StackFacts
<1>3. Orders(CodeOrder, T) /\ IsFiniteSet(F)
  <2>1. Orders(CodeOrder, T)
    BY <1>1, CodesOrdered
  <2>2. Orders(CodeOrder, F)
    BY <1>2, CodesOrdered
  <2>3. F = {u[i] : i \in 1..Len(u)} /\ u \in Seq(F)
    BY <1>2 DEF InOrder
  <2> HIDE DEF F, u
  <2>4. Len(u) \in Nat /\ u \in [1..Len(u) -> F]
    BY <2>3
  <2>5. u \in Surjection(1..Len(u), F)
    BY <2>3, <2>4 DEF Surjection
  <2>6. IsFiniteSet(1..Len(u))
    <3>1. 1 \in Int /\ Len(u) \in Int
      BY <2>4
    <3> QED
      BY <3>1, FS_Interval
  <2>7. IsFiniteSet(F)
    BY <2>5, <2>6, FS_Surjection
  <2> QED
    BY <2>1, <2>7
<1> HIDE DEF a, b, s, u, T, F, subtotal, Within
<1>4. /\ s \in Seq(T) /\ Len(s) \in Nat /\ s = [i \in 1..Len(s) |-> s[i]]
      /\ \A i \in 1..Len(s) : s[i] \in T
      /\ \A x \in T : \E i \in 1..Len(s) : s[i] = x
      /\ \A i, j \in 1..Len(s) : i < j => <<s[i], s[j]>> \in CodeOrder
  BY <1>1, InOrderFacts
<1>5. PICK k \in 1..Len(s) : s[k] = c
  BY <1>0, <1>4
<1>6. InOrder(Without(s, k), F, CodeOrder)
  <2>1. InOrder(Without(s, k), T \ {s[k]}, CodeOrder)
    BY <1>1, <1>3, WithoutInOrder
  <2> QED
    BY <1>0, <1>5, <2>1
<1>7. u = Without(s, k)
  <2>1. Orders(CodeOrder, F)
    BY <1>2, CodesOrdered
  <2> QED
    BY <1>2, <1>3, <1>6, <2>1, OrderIsUnique
<1>8. Len(u) = Len(s) - 1
  BY <1>4, <1>7 DEF Without
<1>9. PICK R : IsRest(R, s, lines, subtotal) /\ TotalDiscount(a) = subtotal - R[Len(s)]
  BY <1>1
<1>10. PICK Q : IsRest(Q, u, lines, subtotal) /\ TotalDiscount(b) = subtotal - Q[Len(u)]
  BY <1>2
<1>11. R[Len(s)] =< Q[Len(s) - 1]
  <2>1. s \in Seq(DOMAIN Voucher)
    BY <1>1, <1>4
  <2>2. TwoRests(s, k, R, Q, lines, subtotal)
    BY <1>0, <1>1, <1>5, <1>7, <1>9, <1>10, <2>1 DEF TwoRests, Within
  <2> QED
    BY <2>2, LessRemains
<1>12. R[Len(s)] \in 0..subtotal /\ Q[Len(u)] \in 0..subtotal
  <2>1. Len(s) \in 0..Len(s) /\ Len(u) \in 0..Len(u)
    BY <1>4, <1>5, <1>8
  <2> QED
    BY <1>9, <1>10, <2>1 DEF IsRest
<1>13. TotalDiscount(b) =< TotalDiscount(a)
  BY <1>0, <1>8, <1>9, <1>10, <1>11, <1>12
<1> QED
  BY <1>13 DEF a, b

\* And is no cheaper, since the charges stay.
LEMMA FewerCost ==
    ASSUME NEW r \in RequestType, Order(r) # None, NEW c \in ToSet(r.codes),
           NEW codes \in SetToSeqs(ToSet(r.codes) \ {c}), Order([r EXCEPT !.codes = codes]) # None
    PROVE  Order([r EXCEPT !.codes = codes]).total >= Order(r).total
<1> DEFINE q == [r EXCEPT !.codes = codes]
           lines == Lines(r.items)
           T == ToSet(r.codes)
           s == Subtotal(lines)
           d == TotalDiscount(VoucherStack(r.codes, lines, r.method))
           e == TotalDiscount(VoucherStack(codes, lines, r.method))
           o == Order(r)
           p == Order(q)
<1>1. r.codes \in Seq(Nat) /\ r.rate \in Nat
  BY DEF RequestType
<1>2. codes \in Seq(Nat) /\ ToSet(codes) = T \ {c}
  <2>1. T \ {c} \in SUBSET Nat /\ IsFiniteSet(T \ {c})
    <3>1. Len(r.codes) \in Nat /\ DOMAIN r.codes = 1..Len(r.codes)
          /\ \A i \in 1..Len(r.codes) : r.codes[i] \in Nat
      BY <1>1
    <3>2. T \in SUBSET Nat /\ r.codes \in Surjection(1..Len(r.codes), T)
      BY <1>1, <3>1 DEF Surjection, ToSet
    <3>3. IsFiniteSet(1..Len(r.codes))
      <4>1. 1 \in Int /\ Len(r.codes) \in Int
        BY <3>1
      <4> QED
        BY <4>1, FS_Interval
    <3>4. IsFiniteSet(T)
      <4> HIDE DEF T
      <4> QED
        BY <3>2, <3>3, FS_Surjection
    <3> HIDE DEF T
    <3> QED
      BY <3>2, <3>4, FS_Subset
  <2> DEFINE F == T \ {c}
  <2>2. codes \in SetToSeqs(F)
    OBVIOUS
  <2>3. F \in SUBSET Nat /\ IsFiniteSet(F)
    BY <2>1
  <2> HIDE DEF F
  <2>4. codes \in Seq(F) /\ ToSet(codes) = F
    BY <2>2, <2>3, ListsOfSet
  <2> QED
    BY <2>3, <2>4 DEF F
<1>3. /\ q \in RequestType /\ q.items = r.items /\ q.codes = codes
      /\ q.charges = r.charges /\ q.rate = r.rate /\ q.method = r.method
  BY <1>2 DEF RequestType
<1>4. OrderParts(r, o)
  BY OrderGiven
<1>5. OrderParts(q, p)
  <2> HIDE DEF q
  <2> QED
    BY <1>3, OrderGiven DEF q
<1>6. /\ GoodLines(lines) /\ VoucherStack(r.codes, lines, r.method) # None
      /\ d \in 0..s /\ o.total = ChargeTotal(r) + ItemTotals(lines, d, r.rate).total
      /\ ChargeTotal(r) \in Nat
  BY <1>4 DEF OrderParts
<1>7. ChargeTotal(q) = ChargeTotal(r)
  <2> HIDE DEF q
  <2> QED
    BY <1>3 DEF ChargeTotal, Charges
<1> HIDE DEF q
<1>8. /\ VoucherStack(codes, lines, r.method) # None
      /\ e \in 0..s /\ p.total = ChargeTotal(r) + ItemTotals(lines, e, r.rate).total
  <2> HIDE DEF p
  <2> QED
    BY <1>3, <1>5, <1>7 DEF OrderParts
<1>9. s \in Nat
  BY <1>6 DEF GoodLines
<1>10. e =< d
  <2>1. CASE s = 0
    <3> HIDE DEF d, e, s
    <3> QED
      BY <1>6, <1>8, <2>1
  <2>2. CASE s # 0
    <3>1. OneFewer(r.codes, codes, c, lines, r.method)
      BY <1>1, <1>2, <1>6, <1>8, <2>2 DEF OneFewer
    <3> HIDE DEF lines
    <3> QED
      BY <3>1, FewerDiscount
  <2> QED
    BY <2>1, <2>2
<1> DEFINE x == ItemTotals(lines, d, r.rate).total
           y == ItemTotals(lines, e, r.rate).total
<1>11. x \in Nat /\ y \in Nat /\ x =< y
  <2>1. Cheaper(lines, r.rate, d, e)
    BY <1>1, <1>6, <1>8, <1>10 DEF Cheaper
  <2> HIDE DEF lines, d, e
  <2> QED
    BY <2>1, DiscountsPay
<1>12. p.total >= o.total
  <2>1. o.total = ChargeTotal(r) + x /\ p.total = ChargeTotal(r) + y /\ ChargeTotal(r) \in Nat
    BY <1>6, <1>8
  <2> HIDE DEF o, p, x, y
  <2> QED
    BY <1>11, <2>1
<1> QED
  BY <1>12 DEF q

\* No voucher ever makes an accepted order dearer, for any stack, caps and rounding
\* included: percentages are taken of the share that remains, which no voucher before
\* lowers by more than it takes off.
THEOREM VouchersNeverWorkAgainst == PricingSpec => []FewerVouchersNeverCheaper
<1>1. AnswerInv => FewerVouchersNeverCheaper
  <2> SUFFICES ASSUME AnswerInv, Ordered, NEW c \in ToSet(request.codes),
                      NEW codes \in SetToSeqs(ToSet(request.codes) \ {c}),
                      Order([request EXCEPT !.codes = codes]) # None
               PROVE  Order([request EXCEPT !.codes = codes]).total >= order.total
    BY DEF FewerVouchersNeverCheaper
  <2>1. request \in RequestType /\ order = Order(request) /\ Order(request) # None
    BY OrderedIs
  <2>2. Order([request EXCEPT !.codes = codes]).total >= Order(request).total
    BY <2>1, FewerCost
  <2> QED
    BY <2>1, <2>2
<1> QED
  BY <1>1, AnswerInvariant, PTL

-----------------------------------------------------------------------------
(* Loops over rows: the runs of the folds of Menu and Storefront *)

\* WHERE, one row after another.
HasRows(R, s, matching) ==
           \E f \in [0..Len(s) -> Seq(R \cap matching)] :
              /\ f[0] = <<>>
              /\ \A n \in 1..Len(s) : f[n] = IF s[n] \in matching
                                             THEN Append(f[n - 1], s[n])
                                             ELSE f[n - 1]
              /\ Where(s, matching) = f[Len(s)]

LEMMA WhereRuns ==
    ASSUME NEW R, NEW s \in Seq(R), NEW matching PROVE HasRows(R, s, matching)
<1> DEFINE N == Len(s)
           B == Seq(R \cap matching)
           base == <<>>
           step == [n \in 1..N |-> [x \in B |-> IF s[n] \in matching THEN Append(x, s[n]) ELSE x]]
           F(g) == [S \in SUBSET DOMAIN s |-> IF S = {} THEN base
                                              ELSE IF s[Max(S)] \in matching
                                                   THEN Append(g[S \ {Max(S)}], s[Max(S)])
                                                   ELSE g[S \ {Max(S)}]]
           it == CHOOSE g : g = F(g)
<1>1. N \in Nat /\ DOMAIN s = 1..N /\ base \in B
  OBVIOUS
<1>2. \A n \in 1..N, x \in B : (IF s[n] \in matching THEN Append(x, s[n]) ELSE x) \in B
  OBVIOUS
<1>3. \A n \in 1..N, x \in B : step[n][x] = IF s[n] \in matching THEN Append(x, s[n]) ELSE x
  OBVIOUS
<1>4. \A S \in SUBSET (1..N) : S # {} => Max(S) \in 1..N /\ S \ {Max(S)} \in SUBSET (1..N)
  <2> HIDE DEF N
  <2> QED
    BY <1>1, MaxOf
<1>5. Where(s, matching) = it[DOMAIN s]
  BY DEF Where, FoldLeft, MapThenFoldSet
<1>6. step \in [1..N -> [B -> B]]
  <2> HIDE DEF B
  <2> QED
    BY <1>2
<1> HIDE DEF N, step, B, base
<1>7. PICK g \in [SUBSET (1..N) -> B] : IsTable(g, N, base, step)
  BY <1>1, <1>6, FoldTable DEF HasTable
<1>8. g = F(g)
  <2>1. \A S \in SUBSET (1..N) : g[S] = IF S = {} THEN base
                                        ELSE IF s[Max(S)] \in matching
                                             THEN Append(g[S \ {Max(S)}], s[Max(S)])
                                             ELSE g[S \ {Max(S)}]
    <3>1. \A T \in SUBSET (1..N) : g[T] = IF T = {} THEN base ELSE step[Max(T)][g[T \ {Max(T)}]]
      BY <1>7 DEF IsTable
    <3>2. ASSUME NEW T \in SUBSET (1..N), T # {}
          PROVE  g[T] = IF s[Max(T)] \in matching
                        THEN Append(g[T \ {Max(T)}], s[Max(T)])
                        ELSE g[T \ {Max(T)}]
      <4>1. Max(T) \in 1..N /\ g[T \ {Max(T)}] \in B
        BY <1>4, <1>7, <3>2
      <4>2. g[T] = step[Max(T)][g[T \ {Max(T)}]]
        BY <3>1, <3>2
      <4> DEFINE m == Max(T)
                 x == g[T \ {Max(T)}]
      <4> HIDE DEF m, x
      <4>3. step[m][x] = IF s[m] \in matching THEN Append(x, s[m]) ELSE x
        BY <1>3, <4>1, Zenon DEF m, x
      <4> QED
        BY <4>2, <4>3, Zenon DEF m, x
    <3> QED
      BY <3>1, <3>2, Zenon
  <2>2. g = [S \in SUBSET (1..N) |-> g[S]]
    OBVIOUS
  <2> QED
    BY <1>1, <2>1, <2>2
<1>9. it = F(it)
  BY <1>8, Zenon
<1> HIDE DEF it
<1>10. Follows(it, N, B, base, step)
  <2>1. it[{}] = base
    BY <1>1, <1>9
  <2>2. ASSUME NEW S \in SUBSET (1..N), S # {}, it[S \ {Max(S)}] \in B
        PROVE  it[S] = step[Max(S)][it[S \ {Max(S)}]]
    <3>1. it[S] = IF s[Max(S)] \in matching
                  THEN Append(it[S \ {Max(S)}], s[Max(S)])
                  ELSE it[S \ {Max(S)}]
      BY <1>1, <1>9, <2>2
    <3> QED
      BY <1>3, <1>4, <2>2, <3>1
  <2> QED
    BY <2>1, <2>2 DEF Follows
<1>11. HasRuns(it, N, B, base, step)
  BY <1>1, <1>6, <1>10, FoldRuns
<1>12. PICK f \in [0..N -> B] : /\ f[0] = base /\ \A n \in 1..N : f[n] = step[n][f[n - 1]]
                               /\ \A n \in 0..N : it[1..n] = f[n]
  BY <1>11 DEF HasRuns
<1>13. \A n \in 1..N : f[n] = IF s[n] \in matching THEN Append(f[n - 1], s[n]) ELSE f[n - 1]
  <2>1. \A n \in 1..N : f[n - 1] \in B
    BY <1>1
  <2> QED
    BY <1>3, <1>12, <2>1
<1>14. Where(s, matching) = f[N]
  <2>1. N \in 0..N
    BY <1>1
  <2> QED
    BY <1>1, <1>5, <1>12, <2>1
<1> QED
  BY <1>12, <1>13, <1>14 DEF N, B, base, HasRows

\* The kept lines have one already of the same item with the same options.
Known(l, kept) ==
    \E k \in ToSet(kept) :
       l.entry.item = k.entry.item /\ ToSet(l.entry.options) = ToSet(k.entry.options)

\* The lines that stand for others, one after another.
LEMMA DistinctRuns ==
    ASSUME NEW R, NEW s \in Seq(R)
    PROVE  \E f \in [0..Len(s) -> Seq(R)] :
              /\ f[0] = <<>>
              /\ \A n \in 1..Len(s) : f[n] = IF Known(s[n], f[n - 1])
                                             THEN f[n - 1]
                                             ELSE Append(f[n - 1], s[n])
              /\ Distinct(s) = f[Len(s)]
<1> DEFINE N == Len(s)
           B == Seq(R)
           base == <<>>
           step == [n \in 1..N |-> [x \in B |-> IF Known(s[n], x) THEN x ELSE Append(x, s[n])]]
           F(g) == [S \in SUBSET DOMAIN s |-> IF S = {} THEN base
                                              ELSE IF Known(s[Max(S)], g[S \ {Max(S)}])
                                                   THEN g[S \ {Max(S)}]
                                                   ELSE Append(g[S \ {Max(S)}], s[Max(S)])]
           it == CHOOSE g : g = F(g)
<1>1. N \in Nat /\ DOMAIN s = 1..N /\ base \in B
  OBVIOUS
<1>2. \A n \in 1..N, x \in B : (IF Known(s[n], x) THEN x ELSE Append(x, s[n])) \in B
  OBVIOUS
<1>3. \A n \in 1..N, x \in B : step[n][x] = IF Known(s[n], x) THEN x ELSE Append(x, s[n])
  OBVIOUS
<1>4. \A S \in SUBSET (1..N) : S # {} => Max(S) \in 1..N /\ S \ {Max(S)} \in SUBSET (1..N)
  <2> HIDE DEF N
  <2> QED
    BY <1>1, MaxOf
<1>5. Distinct(s) = it[DOMAIN s]
  BY DEF Distinct, Known, FoldLeft, MapThenFoldSet
<1>6. step \in [1..N -> [B -> B]]
  <2> HIDE DEF B
  <2> QED
    BY <1>2
<1> HIDE DEF N, step, B, base
<1>7. PICK g \in [SUBSET (1..N) -> B] : IsTable(g, N, base, step)
  BY <1>1, <1>6, FoldTable DEF HasTable
<1>8. g = F(g)
  <2>1. \A S \in SUBSET (1..N) : g[S] = IF S = {} THEN base
                                        ELSE IF Known(s[Max(S)], g[S \ {Max(S)}])
                                             THEN g[S \ {Max(S)}]
                                             ELSE Append(g[S \ {Max(S)}], s[Max(S)])
    BY <1>3, <1>4, <1>7 DEF IsTable
  <2>2. g = [S \in SUBSET (1..N) |-> g[S]]
    OBVIOUS
  <2> QED
    BY <1>1, <2>1, <2>2
<1>9. it = F(it)
  BY <1>8, Zenon
<1> HIDE DEF it
<1>10. Follows(it, N, B, base, step)
  <2>1. it[{}] = base
    BY <1>1, <1>9
  <2>2. ASSUME NEW S \in SUBSET (1..N), S # {}, it[S \ {Max(S)}] \in B
        PROVE  it[S] = step[Max(S)][it[S \ {Max(S)}]]
    <3>1. it[S] = IF Known(s[Max(S)], it[S \ {Max(S)}])
                  THEN it[S \ {Max(S)}]
                  ELSE Append(it[S \ {Max(S)}], s[Max(S)])
      BY <1>1, <1>9, <2>2
    <3> QED
      BY <1>3, <1>4, <2>2, <3>1
  <2> QED
    BY <2>1, <2>2 DEF Follows
<1>11. HasRuns(it, N, B, base, step)
  BY <1>1, <1>6, <1>10, FoldRuns
<1>12. PICK f \in [0..N -> B] : /\ f[0] = base /\ \A n \in 1..N : f[n] = step[n][f[n - 1]]
                               /\ \A n \in 0..N : it[1..n] = f[n]
  BY <1>11 DEF HasRuns
<1>13. \A n \in 1..N : f[n] = IF Known(s[n], f[n - 1]) THEN f[n - 1] ELSE Append(f[n - 1], s[n])
  <2>1. \A n \in 1..N : f[n - 1] \in B
    BY <1>1
  <2> QED
    BY <1>3, <1>12, <2>1
<1>14. Distinct(s) = f[N]
  <2>1. N \in 0..N
    BY <1>1
  <2> QED
    BY <1>1, <1>5, <1>12, <2>1
<1> QED
  BY <1>12, <1>13, <1>14 DEF N, B, base

\* Lists, one after another.
LEMMA JoinedRuns ==
    ASSUME NEW R, NEW s \in Seq(Seq(R))
    PROVE  \E f \in [0..Len(s) -> Seq(R)] :
              /\ f[0] = <<>>
              /\ \A n \in 1..Len(s) : f[n] = f[n - 1] \o s[n]
              /\ Joined(s) = f[Len(s)]
<1> DEFINE N == Len(s)
           B == Seq(R)
           base == <<>>
           step == [n \in 1..N |-> [x \in B |-> x \o s[n]]]
           F(g) == [S \in SUBSET DOMAIN s |-> IF S = {} THEN base ELSE g[S \ {Max(S)}] \o s[Max(S)]]
           it == CHOOSE g : g = F(g)
<1>1. N \in Nat /\ DOMAIN s = 1..N /\ base \in B
  OBVIOUS
<1>2. \A n \in 1..N, x \in B : (x \o s[n]) \in B
  OBVIOUS
<1>3. \A n \in 1..N, x \in B : step[n][x] = x \o s[n]
  OBVIOUS
<1>4. \A S \in SUBSET (1..N) : S # {} => Max(S) \in 1..N /\ S \ {Max(S)} \in SUBSET (1..N)
  <2> HIDE DEF N
  <2> QED
    BY <1>1, MaxOf
<1>5. Joined(s) = it[DOMAIN s]
  BY DEF Joined, FoldLeft, MapThenFoldSet
<1>6. step \in [1..N -> [B -> B]]
  <2> HIDE DEF B
  <2> QED
    BY <1>2
<1> HIDE DEF N, step, B, base
<1>7. PICK g \in [SUBSET (1..N) -> B] : IsTable(g, N, base, step)
  BY <1>1, <1>6, FoldTable DEF HasTable
<1>8. g = F(g)
  <2>1. \A S \in SUBSET (1..N) : g[S] = IF S = {} THEN base ELSE g[S \ {Max(S)}] \o s[Max(S)]
    BY <1>3, <1>4, <1>7 DEF IsTable
  <2>2. g = [S \in SUBSET (1..N) |-> g[S]]
    OBVIOUS
  <2> QED
    BY <1>1, <2>1, <2>2
<1>9. it = F(it)
  BY <1>8, Zenon
<1> HIDE DEF it
<1>10. Follows(it, N, B, base, step)
  <2>1. it[{}] = base
    BY <1>1, <1>9
  <2>2. ASSUME NEW S \in SUBSET (1..N), S # {}, it[S \ {Max(S)}] \in B
        PROVE  it[S] = step[Max(S)][it[S \ {Max(S)}]]
    <3>1. it[S] = it[S \ {Max(S)}] \o s[Max(S)]
      BY <1>1, <1>9, <2>2
    <3> QED
      BY <1>3, <1>4, <2>2, <3>1
  <2> QED
    BY <2>1, <2>2 DEF Follows
<1>11. HasRuns(it, N, B, base, step)
  BY <1>1, <1>6, <1>10, FoldRuns
<1>12. PICK f \in [0..N -> B] : /\ f[0] = base /\ \A n \in 1..N : f[n] = step[n][f[n - 1]]
                               /\ \A n \in 0..N : it[1..n] = f[n]
  BY <1>11 DEF HasRuns
<1>13. \A n \in 1..N : f[n] = f[n - 1] \o s[n]
  <2>1. \A n \in 1..N : f[n - 1] \in B
    BY <1>1
  <2> QED
    BY <1>3, <1>12, <2>1
<1>14. Joined(s) = f[N]
  <2>1. N \in 0..N
    BY <1>1
  <2> QED
    BY <1>1, <1>5, <1>12, <2>1
<1> QED
  BY <1>12, <1>13, <1>14 DEF N, B, base

-----------------------------------------------------------------------------
(* Rows *)

\* What a loop keeps, drops or puts together is made of its rows.
LEMMA WhereIn ==
    ASSUME NEW S, NEW s \in Seq(S), NEW matching
    PROVE  Where(s, matching) \in Seq(S \cap matching)
<1>1. PICK f \in [0..Len(s) -> Seq(S \cap matching)] :
              /\ f[0] = <<>>
              /\ \A n \in 1..Len(s) : f[n] = IF s[n] \in matching
                                             THEN Append(f[n - 1], s[n])
                                             ELSE f[n - 1]
              /\ Where(s, matching) = f[Len(s)]
  <2>1. HasRows(S, s, matching)
    BY WhereRuns
  <2> QED
    BY <2>1, Zenon DEF HasRows
<1>2. Len(s) \in 0..Len(s)
  OBVIOUS
<1> QED
  BY <1>1, <1>2

LEMMA DistinctIn ==
    ASSUME NEW S, NEW s \in Seq(S) PROVE Distinct(s) \in Seq(S)
<1>1. PICK f \in [0..Len(s) -> Seq(S)] : Distinct(s) = f[Len(s)]
  BY DistinctRuns
<1>2. Len(s) \in 0..Len(s)
  OBVIOUS
<1> QED
  BY <1>1, <1>2

LEMMA JoinedIn ==
    ASSUME NEW S, NEW s \in Seq(Seq(S)) PROVE Joined(s) \in Seq(S)
<1>1. PICK f \in [0..Len(s) -> Seq(S)] : Joined(s) = f[Len(s)]
  BY JoinedRuns
<1>2. Len(s) \in 0..Len(s)
  OBVIOUS
<1> QED
  BY <1>1, <1>2

\* The rows after offset up to last.
IsSlice(t, S, rows, offset, last) ==
    /\ t \in Seq(S)
    /\ Len(t) = IF offset < last THEN last - offset ELSE 0
    /\ \A i \in 1..(last - offset) : t[i] = rows[offset + i]

LEMMA SliceIs ==
    ASSUME NEW S, NEW rows \in Seq(S), NEW offset \in Nat, NEW n \in Nat, NEW last,
           last = IF offset + n < Len(rows) THEN offset + n ELSE Len(rows)
    PROVE  IsSlice(Slice(rows, offset, n), S, rows, offset, last)
<1> DEFINE t == SubSeq(rows, offset + 1, last)
<1>1. Len(rows) \in Nat /\ last \in Nat /\ last =< Len(rows)
  OBVIOUS
<1>2. Slice(rows, offset, n) = t
  BY DEF Slice
<1>3. \A i \in (offset + 1)..last : rows[i] \in S
  BY <1>1
<1> DEFINE m == offset + 1
<1>4. /\ t \in Seq(S)
      /\ Len(t) = IF m <= last THEN last - m + 1 ELSE 0
      /\ \A i \in 1..(last - m + 1) : t[i] = rows[m + i - 1]
  <2>1. m \in Int /\ last \in Int /\ \A i \in m..last : rows[i] \in S
    BY <1>1, <1>3
  <2>2. t = SubSeq(rows, m, last)
    OBVIOUS
  <2> HIDE DEF m, t
  <2>3. /\ SubSeq(rows, m, last) \in Seq(S)
        /\ Len(SubSeq(rows, m, last)) = IF m <= last THEN last - m + 1 ELSE 0
        /\ \A i \in 1..(last - m + 1) : SubSeq(rows, m, last)[i] = rows[m + i - 1]
    BY <2>1, SubSeqProperties, SMTT(30)
  <2> QED
    BY <2>2, <2>3, Zenon
<1>5. last - m + 1 = last - offset /\ \A i \in 1..(last - offset) : m + i - 1 = offset + i
  BY <1>1
<1>6. Len(t) = IF offset < last THEN last - offset ELSE 0
  <2> HIDE DEF t
  <2> QED
    BY <1>1, <1>4
<1> HIDE DEF m, t
<1>7. \A i \in 1..(last - offset) : t[i] = rows[offset + i]
  BY <1>4, <1>5
<1> QED
  BY <1>2, <1>4, <1>6, <1>7 DEF IsSlice

LEMMA SliceIn ==
    ASSUME NEW S, NEW rows \in Seq(S), NEW offset \in Nat, NEW n \in Nat
    PROVE  Slice(rows, offset, n) \in Seq(S)
<1> DEFINE last == IF offset + n < Len(rows) THEN offset + n ELSE Len(rows)
<1> HIDE DEF last
<1>1. IsSlice(Slice(rows, offset, n), S, rows, offset, last)
  BY SliceIs DEF last
<1> QED
  BY <1>1 DEF IsSlice

LEMMA ReverseIn ==
    ASSUME NEW S, NEW rows \in Seq(S) PROVE Reverse(rows) \in Seq(S)
<1>1. \A i \in 1..Len(rows) : Len(rows) - i + 1 \in 1..Len(rows)
  OBVIOUS
<1> QED
  BY <1>1 DEF Reverse

LEMMA MenuAssumed == MenuAssumption
BY MenuAssumption

\* The menu stays a menu, whatever is edited.
LEMMA EditKeepsMenu ==
    ASSUME db \in MenuType, edits \in Nat, Edit
    PROVE  db' \in MenuType /\ edits' = edits + 1
<1>1. edits' = edits + 1
  BY DEF Edit
<1>2. CASE \E f \in DOMAIN Flags : \E x \in Flags[f] : db' = [db EXCEPT ![f] = SymDiff(@, {x})]
  <2>1. PICK f \in DOMAIN Flags : \E x \in Flags[f] : db' = [db EXCEPT ![f] = SymDiff(@, {x})]
    BY <1>2
  <2>2. PICK x \in Flags[f] : db' = [db EXCEPT ![f] = SymDiff(@, {x})]
    BY <2>1
  <2>3. \A S, T, y : S \in SUBSET T /\ y \in T => SymDiff(S, {y}) \in SUBSET T
    BY DEF SymDiff
  <2>4. f \in {"stores", "open", "categories", "items", "unlisted", "soldOut"}
    BY DEF Flags
  <2>5. db[f] \in SUBSET Flags[f]
    BY <2>4 DEF MenuType, Flags
  <2>6. SymDiff(db[f], {x}) \in SUBSET Flags[f]
    BY <2>3, <2>5
  <2> DEFINE new == SymDiff(db[f], {x})
  <2>7. db' = [db EXCEPT ![f] = new]
    BY <2>2
  <2> HIDE DEF new
  <2>8. new \in SUBSET Flags[f]
    BY <2>6 DEF new
  <2> QED
    BY <1>1, <2>4, <2>7, <2>8 DEF MenuType, Flags
<1>3. CASE \E i \in Items, z \in Zones, amount \in Amounts \cup {None} :
              amount # db.price[<<i, z>>] /\ db' = [db EXCEPT !.price[<<i, z>>] = amount]
  <2>1. PICK i \in Items, z \in Zones, amount \in Amounts \cup {None} :
              db' = [db EXCEPT !.price[<<i, z>>] = amount]
    BY <1>3
  <2>2. amount \in Nat \cup {None}
    BY MenuAssumed DEF MenuAssumption
  <2>3. db.price \in [Items \X Zones -> Nat \cup {None}]
    BY DEF MenuType
  <2>4. [db.price EXCEPT ![<<i, z>>] = amount] \in [Items \X Zones -> Nat \cup {None}]
    BY <2>2, <2>3
  <2> QED
    BY <1>1, <2>1, <2>4 DEF MenuType
<1> QED
  BY <1>2, <1>3 DEF Edit

-----------------------------------------------------------------------------
(* What a view of a cart's lines promises is what checkout charges, if the *)
(* view and the two queries of checkout agree about each line.             *)

SoldItem(d, s, i) ==
    /\ i \in d.items /\ Item[i].kind = "MAIN" /\ Item[i].brand = Store[s].brand
    /\ Listed(d, s, i) /\ InStock(d, s, i) /\ Priced(d, s, i)

SoldLink(d, s, link) ==
    /\ link \in d.items /\ Item[link].kind = "ADDON" /\ Item[link].brand = Store[s].brand
    /\ Listed(d, s, link) /\ InStock(d, s, link)

SoldOption(d, s, o) == Option[o].link = None \/ SoldLink(d, s, Option[o].link)

SoldLine(d, s, e) ==
    SoldItem(d, s, e.item) /\ \A o \in ToSet(e.options) : SoldOption(d, s, o)

OfferedAs(e, v) ==
    /\ v # None /\ v.available
    /\ \A o \in ToSet(e.options) : o \in DOMAIN v.options /\ v.options[o].available

PricedAs(d, s, e, v) ==
    /\ v.price = d.price[<<e.item, Zone(s)>>]
    /\ \A o \in ToSet(e.options) : v.options[o].adjustment = Adjustment(d, s, o)

Agrees(d, s, e, v) ==
    ValidCustomizations(e) =>
        /\ OfferedAs(e, v) <=> SoldLine(d, s, e)
        /\ SoldLine(d, s, e) => PricedAs(d, s, e, v)

LEMMA ToSetIs == \A s : ToSet(s) = {s[n] : n \in DOMAIN s}
BY DEF ToSet

\* The price queries of checkout return a row for what is sold, and for nothing else.
LEMMA ItemPrices ==
    ASSUME NEW d, NEW s, NEW items
    PROVE  \A i \in items : SoldItem(d, s, i) =>
              GetPricedItems(d, s, items)[i] = d.price[<<i, Zone(s)>>]
BY DEF GetPricedItems, SoldItem

LEMMA ItemsPriced ==
    ASSUME NEW d, NEW s, NEW items
    PROVE  /\ DOMAIN GetPricedItems(d, s, items) = {i \in items : SoldItem(d, s, i)}
           /\ \A i \in items : SoldItem(d, s, i) =>
                GetPricedItems(d, s, items)[i] = d.price[<<i, Zone(s)>>]
BY DEF GetPricedItems, SoldItem

LEMMA OptionsPriced ==
    ASSUME NEW d, NEW s, NEW options
    PROVE  /\ DOMAIN GetOptionPrices(d, s, options) = {o \in options : SoldOption(d, s, o)}
           /\ \A o \in options : SoldOption(d, s, o) =>
                GetOptionPrices(d, s, options)[o] = Adjustment(d, s, o)
BY DEF GetOptionPrices, SoldOption, SoldLink

\* A line costs what its item and its own options cost.
LEMMA SameLine ==
    ASSUME NEW e, NEW p, NEW a, NEW b, \A o \in ToSet(e.options) : a[o] = b[o]
    PROVE  LineTotal(e, p, a) = LineTotal(e, p, b)
<1>1. \A n \in DOMAIN e.options : a[e.options[n]] = b[e.options[n]]
  BY ToSetIs
<1>2. [n \in DOMAIN e.options |-> a[e.options[n]]] = [n \in DOMAIN e.options |-> b[e.options[n]]]
  BY <1>1
<1> QED
  BY <1>2, Zenon DEF LineTotal

\* They return all rows asked for if every line is sold.
LEMMA LinesSold ==
    ASSUME NEW d, NEW s, NEW items
    PROVE  /\ DOMAIN GetPricedItems(d, s, ItemIDs(items)) = ItemIDs(items)
              /\ DOMAIN GetOptionPrices(d, s, OptionIDs(items)) = OptionIDs(items)
              <=> \A n \in DOMAIN items : SoldLine(d, s, items[n])
<1>1. DOMAIN GetPricedItems(d, s, ItemIDs(items)) = ItemIDs(items)
      <=> \A n \in DOMAIN items : SoldItem(d, s, items[n].item)
  <2>1. ItemIDs(items) = {items[n].item : n \in DOMAIN items}
    BY ToSetIs DEF ItemIDs
  <2> DEFINE I == ItemIDs(items)
  <2> HIDE DEF I
  <2>2. DOMAIN GetPricedItems(d, s, I) = {i \in I : SoldItem(d, s, i)}
    BY ItemsPriced
  <2>3. (DOMAIN GetPricedItems(d, s, I) = I) <=> \A i \in I : SoldItem(d, s, i)
    BY <2>2
  <2>4. (\A i \in I : SoldItem(d, s, i)) <=> \A n \in DOMAIN items : SoldItem(d, s, items[n].item)
    BY <2>1 DEF I
  <2> QED
    BY <2>3, <2>4, Zenon DEF I
<1>2. DOMAIN GetOptionPrices(d, s, OptionIDs(items)) = OptionIDs(items)
      <=> \A n \in DOMAIN items : \A o \in ToSet(items[n].options) : SoldOption(d, s, o)
  <2>1. \A o : o \in OptionIDs(items) <=> \E n \in DOMAIN items : o \in ToSet(items[n].options)
    <3>1. OptionIDs(items) = UNION {ToSet(e.options) : e \in {items[n] : n \in DOMAIN items}}
      BY ToSetIs, Zenon DEF OptionIDs
    <3> QED
      BY <3>1
  <2> DEFINE I == OptionIDs(items)
  <2> HIDE DEF I
  <2>2. DOMAIN GetOptionPrices(d, s, I) = {o \in I : SoldOption(d, s, o)}
    BY OptionsPriced
  <2>3. (DOMAIN GetOptionPrices(d, s, I) = I) <=> \A o \in I : SoldOption(d, s, o)
    BY <2>2
  <2>4. (\A o \in I : SoldOption(d, s, o))
        <=> \A n \in DOMAIN items : \A o \in ToSet(items[n].options) : SoldOption(d, s, o)
    BY <2>1, Zenon DEF I
  <2> QED
    BY <2>3, <2>4, Zenon DEF I
<1> QED
  BY <1>1, <1>2, Zenon DEF SoldLine

\* A view that agrees with checkout line by line promises what checkout charges.
LEMMA PromisedIs ==
    ASSUME NEW d, NEW cart, NEW views, DOMAIN views = DOMAIN cart.items,
           \A n \in DOMAIN cart.items : Agrees(d, cart.store, cart.items[n], views[n])
    PROVE  Promised(d, cart, views) = Charged(d, cart)
<1> DEFINE items == cart.items
           s == cart.store
           priced == GetPricedItems(d, s, ItemIDs(items))
           prices == GetOptionPrices(d, s, OptionIDs(items))
           sold == /\ s \in d.stores /\ s \in d.open
                   /\ \A n \in DOMAIN items : SoldLine(d, s, items[n])
                   /\ \A n \in DOMAIN items : ValidCustomizations(items[n])
           Adjust(v) == [o \in DOMAIN v.options |-> v.options[o].adjustment]
           shown == Sum([n \in DOMAIN views
             |-> LineTotal(items[n], views[n].price, Adjust(views[n]))])
<1>1. Charged(d, cart) = IF sold THEN CartTotal(items, priced, prices) ELSE None
  <2>1. (\A e \in ToSet(items) : ValidCustomizations(e))
          <=> \A n \in DOMAIN items : ValidCustomizations(items[n])
    BY ToSetIs, Zenon
  <2> HIDE DEF items, s
  <2>2. (DOMAIN priced = ItemIDs(items) /\ DOMAIN prices = OptionIDs(items))
        <=> \A n \in DOMAIN items : SoldLine(d, s, items[n])
    BY LinesSold
  <2> HIDE DEF priced, prices
  <2>3. Charged(d, cart) = IF /\ s \in d.stores /\ s \in d.open
                              /\ DOMAIN priced = ItemIDs(items) /\ DOMAIN prices = OptionIDs(items)
                              /\ \A e \in ToSet(items) : ValidCustomizations(e)
                           THEN CartTotal(items, priced, prices) ELSE None
    BY Zenon DEF Charged, GetStore, priced, prices, items, s
  <2> QED
    BY <2>1, <2>2, <2>3, Zenon
<1>2. Promised(d, cart, views) = IF sold THEN shown ELSE None
  <2>1. (\A n \in DOMAIN items : OfferedAs(items[n], views[n]) /\ ValidCustomizations(items[n]))
        <=> \A n \in DOMAIN items : SoldLine(d, s, items[n]) /\ ValidCustomizations(items[n])
    BY Zenon DEF Agrees
  <2>2. Promised(d, cart, views) =
           IF /\ s \in d.stores /\ s \in d.open
              /\ \A n \in DOMAIN items : OfferedAs(items[n], views[n])
                   /\ ValidCustomizations(items[n])
           THEN shown ELSE None
    <3>1. s \in d.stores \cap d.open <=> s \in d.stores /\ s \in d.open
      OBVIOUS
    <3> QED
      BY <3>1, Zenon DEF Promised, OfferedAs
  <2> QED
    BY <2>1, <2>2, Zenon
<1>3. sold => shown = CartTotal(items, priced, prices)
  <2> SUFFICES ASSUME sold PROVE shown = CartTotal(items, priced, prices)
    OBVIOUS
  <2> HIDE DEF priced, prices
  <2>1. ASSUME NEW n \in DOMAIN items
        PROVE  LineTotal(items[n], views[n].price, Adjust(views[n]))
                 = LineTotal(items[n], priced[items[n].item], prices)
    <3>1. /\ SoldLine(d, s, items[n]) /\ OfferedAs(items[n], views[n])
               /\ PricedAs(d, s, items[n], views[n])
      BY <2>1, Zenon DEF Agrees
    <3> DEFINE e == items[n]
               v == views[n]
    <3>2. e.item \in ItemIDs(items) /\ \A o \in ToSet(e.options) : o \in OptionIDs(items)
      <4>1. e \in ToSet(items)
        BY ToSetIs
      <4> QED
        BY <4>1, Zenon DEF ItemIDs, OptionIDs
    <3> HIDE DEF e, v, items, s
    <3>3. SoldItem(d, s, e.item) /\ \A o \in ToSet(e.options) : SoldOption(d, s, o)
      BY <3>1, Zenon DEF SoldLine, e
    <3>4. v.price = priced[e.item]
      <4>1. v.price = d.price[<<e.item, Zone(s)>>]
        BY <3>1, Zenon DEF PricedAs, e, v
      <4> DEFINE I == ItemIDs(items)
      <4> HIDE DEF I
      <4>2. \A i \in I : SoldItem(d, s, i) => GetPricedItems(d, s, I)[i] = d.price[<<i, Zone(s)>>]
        BY ItemPrices
      <4>3. GetPricedItems(d, s, I)[e.item] = d.price[<<e.item, Zone(s)>>]
        BY <3>2, <3>3, <4>2, Zenon DEF I
      <4> QED
        BY <4>1, <4>3, Zenon DEF priced, I
    <3>5. ASSUME NEW o \in ToSet(e.options) PROVE Adjust(v)[o] = prices[o]
      <4>1. o \in DOMAIN v.options
        BY <3>1, <3>5, Zenon DEF OfferedAs, e, v
      <4>2. Adjust(v)[o] = v.options[o].adjustment
        BY <4>1
      <4>3. v.options[o].adjustment = Adjustment(d, s, o)
        BY <3>1, <3>5, Zenon DEF PricedAs, e, v
      <4>4. prices[o] = Adjustment(d, s, o)
        <5> DEFINE I == OptionIDs(items)
        <5> HIDE DEF I
        <5>1. \A p \in I : SoldOption(d, s, p) => GetOptionPrices(d, s, I)[p] = Adjustment(d, s, p)
          BY OptionsPriced
        <5> QED
          BY <3>2, <3>3, <3>5, <5>1, Zenon DEF prices, I
      <4> QED
        BY <4>2, <4>3, <4>4
    <3> DEFINE a == Adjust(v)
    <3> HIDE DEF a
    <3>6. LineTotal(e, v.price, a) = LineTotal(e, v.price, prices)
      <4>1. \A o \in ToSet(e.options) : a[o] = prices[o]
        BY <3>5 DEF a
      <4> QED
        BY <4>1, SameLine
    <3>7. LineTotal(e, v.price, a) = LineTotal(e, priced[e.item], prices)
      BY <3>4, <3>6, Zenon
    <3> QED
      BY <3>7, Zenon DEF a, e, v
  <2>2. [n \in DOMAIN views |-> LineTotal(items[n], views[n].price, Adjust(views[n]))]
        = [n \in DOMAIN items |-> LineTotal(items[n], priced[items[n].item], prices)]
    <3> DEFINE A(n) == LineTotal(items[n], views[n].price, Adjust(views[n]))
               B(n) == LineTotal(items[n], priced[items[n].item], prices)
    <3>1. \A n \in DOMAIN items : A(n) = B(n)
      BY <2>1
    <3> HIDE DEF A, B
    <3>2. [n \in DOMAIN views |-> A(n)] = [n \in DOMAIN items |-> B(n)]
      BY <3>1
    <3> QED
      BY <3>2 DEF A, B
  <2> QED
    BY <2>2, Zenon DEF CartTotal
<1> QED
  BY <1>1, <1>2, <1>3, Zenon

-----------------------------------------------------------------------------
(* What the catalog shows of an item, by whichever of its queries          *)

OptionShown(d, s, o) ==
    \/ Option[o].link = None
    \/ /\ Option[o].link \in d.items /\ Item[Option[o].link].kind = "ADDON"
       /\ Listed(d, s, Option[o].link)

OptionView(d, s, o) ==
    [available  |-> Option[o].link = None \/ InStock(d, s, Option[o].link),
     adjustment |-> Adjustment(d, s, o)]

ProductOptions(d, s, i) ==
    [o \in {o \in DOMAIN Option : Option[o].item = i /\ OptionShown(d, s, o)}
        |-> OptionView(d, s, o)]

ProductView(d, s, i) ==
    [available |-> InStock(d, s, i), price |-> d.price[<<i, Zone(s)>>],
     options |-> ProductOptions(d, s, i)]

\* A store of the list has an identifier and a zone.
LEMMA StoreIsKnown ==
    ASSUME NEW s \in Stores PROVE s # None /\ s \in Int /\ Zone(s) \in Zones
<1>1. s \in Int
  BY MenuAssumed DEF MenuAssumption
<1>2. s # None
  BY <1>1, MenuAssumed DEF MenuAssumption
<1> QED
  BY <1>1, <1>2 DEF Zone, Zones

LEMMA AdjustmentInt ==
    ASSUME NEW d \in MenuType, NEW s \in Stores, NEW o \in DOMAIN Option
    PROVE  Adjustment(d, s, o) \in Int
<1>1. /\ Option[o].adjustment \in Int /\ Option[o].link \in Items \cup {None}
      /\ Zone(s) \in Zones /\ d.price \in [Items \X Zones -> Nat \cup {None}]
  BY MenuAssumed, StoreIsKnown DEF MenuAssumption, MenuType
<1> DEFINE link == Option[o].link
           amount == d.price[<<link, Zone(s)>>]
<1>2. CASE link = None
  BY <1>1, <1>2 DEF Adjustment
<1>3. CASE link # None
  <2>1. amount \in Nat \cup {None}
    BY <1>1, <1>3
  <2>2. Coalesce(amount, 0) \in Nat
    <3> HIDE DEF amount
    <3> QED
      BY <2>1 DEF Coalesce
  <2>3. Adjustment(d, s, o) = Option[o].adjustment + Coalesce(amount, 0)
    BY <1>3 DEF Adjustment
  <2> HIDE DEF amount
  <2> QED
    BY <1>1, <2>2, <2>3
<1> QED
  BY <1>2, <1>3

\* The options of an item, read with those of other items.
LEMMA OptionsShown ==
    ASSUME NEW d, NEW s, NEW groups
    PROVE  ListCustomizationOptions(d, s, groups)
           = [o \in {o \in DOMAIN Option : Option[o].group \in groups /\ OptionShown(d, s, o)}
             |-> OptionView(d, s, o)]
BY Zenon DEF ListCustomizationOptions, OptionShown, OptionView

\* An item is shown alike, whichever items are read with it.
LEMMA ProductIs ==
    ASSUME NEW d, NEW s, NEW products, NEW i \in products
    PROVE  buildProducts(d, s, products)[i] = ProductView(d, s, i)
<1> DEFINE groups == ListCustomizationGroups(products)
           X == {o \in DOMAIN Option : Option[o].group \in groups /\ OptionShown(d, s, o)}
           options == [o \in X |-> OptionView(d, s, o)]
           own == {o \in DOMAIN options : Group[Option[o].group].item = i}
           Y == {o \in DOMAIN Option : Option[o].item = i /\ OptionShown(d, s, o)}
<1>1. buildProducts(d, s, products)[i]
        = buildProduct(d, s, i, ListCustomizationOptions(d, s, groups))
  BY DEF buildProducts
<1>2. ListCustomizationOptions(d, s, groups) = options
  <2> HIDE DEF groups
  <2> QED
    BY OptionsShown
<1>3. own = Y
  <2>1. \A o \in DOMAIN Option : Option[o].group \in DOMAIN Group
          /\ Option[o].item = Group[Option[o].group].item
    BY MenuAssumed DEF MenuAssumption
  <2>2. \A o \in DOMAIN Option : Option[o].item = i => Option[o].group \in groups
    BY <2>1 DEF ListCustomizationGroups
  <2> HIDE DEF groups
  <2> QED
    BY <2>1, <2>2
<1>4. [o \in own |-> options[o]] = [o \in Y |-> OptionView(d, s, o)]
  <2>1. own \subseteq X
    OBVIOUS
  <2>2. \A o \in own : options[o] = OptionView(d, s, o)
    BY <2>1
  <2> HIDE DEF own, options, Y
  <2> QED
    BY <1>3, <2>2
<1> QED
  BY <1>1, <1>2, <1>4, Zenon DEF buildProduct, ProductView, ProductOptions

LEMMA OptionViewTyped ==
    ASSUME NEW d \in MenuType, NEW s \in Stores, NEW o \in DOMAIN Option
    PROVE  OptionView(d, s, o) \in [available : BOOLEAN, adjustment : Int]
<1> DEFINE a == (Option[o].link = None \/ InStock(d, s, Option[o].link))
           b == Adjustment(d, s, o)
<1>1. a \in BOOLEAN
  BY DEF InStock
<1>2. b \in Int
  BY AdjustmentInt
<1>3. OptionView(d, s, o) = [available |-> a, adjustment |-> b]
  BY Zenon DEF OptionView
<1> HIDE DEF a, b
<1> QED
  BY <1>1, <1>2, <1>3

LEMMA ViewsTyped ==
    ASSUME NEW S \in SUBSET DOMAIN Option, NEW f,
           \A o \in S : f[o] \in [available : BOOLEAN, adjustment : Int], f = [o \in S |-> f[o]]
    PROVE  f \in OptionViews
<1>1. f \in [S -> [available : BOOLEAN, adjustment : Int]]
  BY Zenon
<1> QED
  BY <1>1, Zenon DEF OptionViews

LEMMA ItemViewTyped ==
    ASSUME NEW a \in BOOLEAN, NEW p \in Nat, NEW os \in OptionViews
    PROVE  /\ [available |-> a, price |-> p, options |-> os] \in ItemView
           /\ [available |-> a, price |-> p, options |-> os] # None
<1>1. [available |-> a, price |-> p, options |-> os] \in ItemView
  BY Zenon DEF ItemView
<1> QED
  BY <1>1, MenuAssumed, Zenon DEF MenuAssumption

\* An item that is priced is shown.
LEMMA ProductTyped ==
    ASSUME NEW d \in MenuType, NEW s \in Stores, NEW i \in Items, Priced(d, s, i)
    PROVE  ProductView(d, s, i) # None
<1> DEFINE S == {o \in DOMAIN Option : Option[o].item = i /\ OptionShown(d, s, o)}
           f == ProductOptions(d, s, i)
           a == InStock(d, s, i)
           p == d.price[<<i, Zone(s)>>]
<1>1. f = [o \in S |-> OptionView(d, s, o)]
  BY DEF ProductOptions
<1>2. S \in SUBSET DOMAIN Option
  OBVIOUS
<1>3. f \in OptionViews
  <2> HIDE DEF S, f
  <2>1. \A o \in S : f[o] = OptionView(d, s, o)
    BY <1>1
  <2>2. \A o \in S : OptionView(d, s, o) \in [available : BOOLEAN, adjustment : Int]
    BY <1>2, OptionViewTyped
  <2>3. f = [o \in S |-> f[o]]
    BY <1>1
  <2> QED
    BY <1>2, <2>1, <2>2, <2>3, ViewsTyped
<1>4. a \in BOOLEAN
  BY DEF InStock
<1>5. p \in Nat
  <2>1. p \in Nat \cup {None} /\ p # None
    BY StoreIsKnown DEF MenuType, Priced
  <2> QED
    BY <2>1
<1>6. ProductView(d, s, i) = [available |-> a, price |-> p, options |-> f]
  BY Zenon DEF ProductView
<1> HIDE DEF f, a, p
<1> QED
  BY <1>3, <1>4, <1>5, <1>6, ItemViewTyped

-----------------------------------------------------------------------------
(* Item pages and the cart                                                 *)

\* A request that names a store is answered for it, if it is active.
LEMMA StoreResolved ==
    ASSUME NEW d, NEW s \in Stores
    PROVE  ResolveStoreContext(d, s) = IF s \in d.stores THEN s ELSE None
<1>1. s # None
  BY StoreIsKnown
<1> QED
  BY <1>1, Zenon DEF ResolveStoreContext

\* What an item page is.
LEMMA ItemPageIs ==
    ASSUME NEW d, NEW s \in Stores, s \in d.stores, NEW i
    PROVE  GetItem(d, s, i) = IF GetProductByID(d, s, Store[s].brand, i)
                              THEN ProductView(d, s, i)
                              ELSE None
<1>1. ResolveStoreContext(d, s) = s /\ s # None
  BY StoreResolved, StoreIsKnown
<1>2. buildProducts(d, s, {i})[i] = ProductView(d, s, i)
  BY ProductIs
<1> QED
  BY <1>1, <1>2, Zenon DEF GetItem

\* The options of a valid entry are of its item.
LEMMA OptionOwned ==
    ASSUME NEW e \in CartEntry, ValidCustomizations(e), NEW o \in ToSet(e.options)
    PROVE  o \in DOMAIN Option /\ Option[o].item = e.item
<1>1. e.options \in Seq(DOMAIN Option)
  BY DEF CartEntry
<1>2. o \in DOMAIN Option
  BY <1>1, ToSetIs
<1> QED
  BY <1>2, Zenon DEF ValidCustomizations

\* An item page shows what checkout sells, of an active category and with add-ons of
\* the store's brand.
LEMMA PageAgrees ==
    ASSUME NEW d \in MenuType, NEW s \in Stores, s \in d.stores, NEW e \in CartEntry,
           Item[e.item].category \in d.categories,
           \A o \in ToSet(e.options) : Option[o].link # None
             => Item[Option[o].link].brand = Store[s].brand
    PROVE  Agrees(d, s, e, GetItem(d, s, e.item))
<1> SUFFICES ASSUME ValidCustomizations(e)
             PROVE  /\ OfferedAs(e, GetItem(d, s, e.item)) <=> SoldLine(d, s, e)
                    /\ SoldLine(d, s, e) => PricedAs(d, s, e, GetItem(d, s, e.item))
  BY Zenon DEF Agrees
<1> DEFINE v == GetItem(d, s, e.item)
           w == ProductView(d, s, e.item)
           os == ProductOptions(d, s, e.item)
           found == GetProductByID(d, s, Store[s].brand, e.item)
<1>1. v = IF found THEN w ELSE None
  BY ItemPageIs
<1>2. found <=> /\ e.item \in d.items /\ Item[e.item].kind = "MAIN"
              /\ Item[e.item].brand = Store[s].brand
                /\ Listed(d, s, e.item) /\ Priced(d, s, e.item)
  BY DEF GetProductByID
<1>3. e.item \in Items
  BY DEF CartEntry
<1>4. found => w # None
  BY <1>2, <1>3, ProductTyped
<1>5. (found /\ InStock(d, s, e.item)) <=> SoldItem(d, s, e.item)
  BY <1>2, Zenon DEF SoldItem
<1>6. ASSUME NEW o \in ToSet(e.options)
      PROVE  /\ (o \in DOMAIN os /\ os[o].available) <=> SoldOption(d, s, o)
             /\ SoldOption(d, s, o) => os[o].adjustment = Adjustment(d, s, o)
  <2>1. o \in DOMAIN Option /\ Option[o].item = e.item
    BY <1>6, OptionOwned
  <2>2. o \in DOMAIN os <=> OptionShown(d, s, o)
    BY <2>1 DEF ProductOptions
  <2>3. OptionShown(d, s, o) => os[o] = OptionView(d, s, o)
    BY <2>1 DEF ProductOptions
  <2>4. SoldOption(d, s, o)
        <=> OptionShown(d, s, o) /\ (Option[o].link = None \/ InStock(d, s, Option[o].link))
    BY <1>6, Zenon DEF SoldOption, SoldLink, OptionShown
  <2>5. OptionView(d, s, o).available <=> (Option[o].link = None \/ InStock(d, s, Option[o].link))
    BY DEF OptionView
  <2>6. OptionView(d, s, o).adjustment = Adjustment(d, s, o)
    BY DEF OptionView
  <2> HIDE DEF os
  <2> QED
    BY <2>2, <2>3, <2>4, <2>5, <2>6, Zenon
<1>7. /\ w.available <=> InStock(d, s, e.item)
      /\ w.price = d.price[<<e.item, Zone(s)>>] /\ w.options = os
  BY DEF ProductView
<1> HIDE DEF found, os, v, w
<1>8. OfferedAs(e, v) <=> SoldLine(d, s, e)
  <2>1. CASE found
    <3>1. OfferedAs(e, w)
            <=> InStock(d, s, e.item) /\ \A o \in ToSet(e.options) : SoldOption(d, s, o)
      BY <2>1, <1>4, <1>6, <1>7, Zenon DEF OfferedAs
    <3> QED
      BY <2>1, <3>1, <1>1, <1>5, Zenon DEF SoldLine
  <2>2. CASE ~found
    BY <2>2, <1>1, <1>5, Zenon DEF SoldLine, OfferedAs
  <2> QED
    BY <2>1, <2>2
<1>9. SoldLine(d, s, e) => PricedAs(d, s, e, v)
  BY <1>1, <1>5, <1>6, <1>7, Zenon DEF SoldLine, PricedAs
<1> QED
  BY <1>8, <1>9 DEF v

\* An option chosen in the cart is available exactly if checkout would sell it.
LEMMA SelectedIs ==
    ASSUME NEW d, NEW s, NEW options, NEW o \in options
    PROVE  /\ getSelectedOptions(d, s, options)[o].available <=> SoldOption(d, s, o)
           /\ getSelectedOptions(d, s, options)[o].adjustment = Adjustment(d, s, o)
<1>1. getSelectedOptions(d, s, options)[o] = [available  |-> SoldOption(d, s, o),
                                              adjustment |-> Adjustment(d, s, o)]
  BY Zenon DEF getSelectedOptions, SoldOption, SoldLink
<1> DEFINE a == SoldOption(d, s, o)
           b == Adjustment(d, s, o)
           r == getSelectedOptions(d, s, options)[o]
<1> HIDE DEF a, b, r
<1>2. r = [available |-> a, adjustment |-> b]
  BY <1>1 DEF r, a, b
<1>3. r.available = a /\ r.adjustment = b
  BY <1>2
<1> QED
  BY <1>3, Zenon DEF r, a, b

\* A line of the cart is shown, whatever became of its item.
LEMMA CartLineTyped ==
    ASSUME NEW d \in MenuType, NEW s \in Stores, NEW e \in CartEntry
    PROVE  CartLine(d, s, e) # None
<1> DEFINE S == ToSet(e.options)
           f == getSelectedOptions(d, s, S)
           a == (/\ e.item \in d.items /\ Item[e.item].brand = Store[s].brand
                 /\ Listed(d, s, e.item) /\ InStock(d, s, e.item))
           amount == d.price[<<e.item, Zone(s)>>]
           p == Coalesce(amount, 0)
<1>1. S \in SUBSET DOMAIN Option
  <2>1. e.options \in Seq(DOMAIN Option)
    BY DEF CartEntry
  <2> QED
    BY <2>1, ToSetIs
<1>2. f \in OptionViews
  <2> HIDE DEF S
  <2>1. ASSUME NEW o \in S PROVE f[o] \in [available : BOOLEAN, adjustment : Int]
    <3> DEFINE x == SoldOption(d, s, o)
               y == Adjustment(d, s, o)
    <3>1. f[o] = [available |-> x, adjustment |-> y]
      BY Zenon DEF getSelectedOptions, SoldOption, SoldLink
    <3>2. x \in BOOLEAN
      BY Zenon DEF SoldOption, SoldLink, InStock
    <3>3. y \in Int
      BY <1>1, AdjustmentInt
    <3> HIDE DEF x, y, f
    <3> QED
      BY <3>1, <3>2, <3>3
  <2>2. f = [o \in S |-> f[o]]
    BY Zenon DEF getSelectedOptions
  <2> HIDE DEF f
  <2> QED
    BY <1>1, <2>1, <2>2, ViewsTyped
<1>3. a \in BOOLEAN
  BY DEF InStock
<1>4. p \in Nat
  <2>1. amount \in Nat \cup {None}
    BY StoreIsKnown DEF MenuType, CartEntry
  <2> HIDE DEF amount
  <2> QED
    BY <2>1 DEF Coalesce
<1>5. CartLine(d, s, e) = [available |-> a, price |-> p, options |-> f]
  BY Zenon DEF CartLine
<1> HIDE DEF f, a, p
<1> QED
  BY <1>2, <1>3, <1>4, <1>5, ItemViewTyped

\* The cart shows what checkout sells, of products with a price in the store's zone.
LEMMA CartAgrees ==
    ASSUME NEW d \in MenuType, NEW s \in Stores, NEW e \in CartEntry,
           Item[e.item].kind = "MAIN", Priced(d, s, e.item)
    PROVE  Agrees(d, s, e, CartLine(d, s, e))
<1> DEFINE v == CartLine(d, s, e)
           os == getSelectedOptions(d, s, ToSet(e.options))
<1>1. v # None
  BY CartLineTyped
<1>2. /\ v.available <=> SoldItem(d, s, e.item)
      /\ v.price = d.price[<<e.item, Zone(s)>>] /\ v.options = os
  <2> DEFINE a == (/\ e.item \in d.items /\ Item[e.item].brand = Store[s].brand
                   /\ Listed(d, s, e.item) /\ InStock(d, s, e.item))
             p == Coalesce(d.price[<<e.item, Zone(s)>>], 0)
  <2>1. v = [available |-> a, price |-> p, options |-> os]
    BY Zenon DEF CartLine
  <2>2. a <=> SoldItem(d, s, e.item)
    BY Zenon DEF SoldItem
  <2>3. p = d.price[<<e.item, Zone(s)>>]
    BY Zenon DEF Coalesce, Priced
  <2> HIDE DEF a, p, v, os
  <2>4. v.available = a /\ v.price = p /\ v.options = os
    BY <2>1
  <2> QED
    BY <2>2, <2>3, <2>4, Zenon
<1>3. \A o \in ToSet(e.options) : /\ o \in DOMAIN os
                                  /\ os[o].available <=> SoldOption(d, s, o)
                                  /\ os[o].adjustment = Adjustment(d, s, o)
  <2>1. DOMAIN os = ToSet(e.options)
    BY Zenon DEF getSelectedOptions
  <2> DEFINE S == ToSet(e.options)
  <2> HIDE DEF S
  <2>2. \A o \in S : /\ getSelectedOptions(d, s, S)[o].available <=> SoldOption(d, s, o)
                     /\ getSelectedOptions(d, s, S)[o].adjustment = Adjustment(d, s, o)
    BY SelectedIs, Zenon
  <2> QED
    BY <2>1, <2>2, Zenon DEF S
<1> HIDE DEF v, os
<1>4. OfferedAs(e, v) <=> SoldLine(d, s, e)
  BY <1>1, <1>2, <1>3, Zenon DEF OfferedAs, SoldLine
<1>5. PricedAs(d, s, e, v)
  BY <1>2, <1>3, Zenon DEF PricedAs
<1> QED
  BY <1>4, <1>5, Zenon DEF Agrees, v

-----------------------------------------------------------------------------
(* The invariant: orders and the checkout under way, and what is known of  *)
(* them as long as the menu is the one they saw                            *)

RowFields == {"store", "items", "status", "began", "subtotal"}

BrandsAgree(s, items) == \A n \in DOMAIN items : Item[items[n].item].brand = Store[s].brand

\* Every line is sold, and together they cost total.
CostsNow(d, s, items, total) ==
    /\ \A n \in DOMAIN items : SoldLine(d, s, items[n])
    /\ total = CartTotal(items, GetPricedItems(d, s, ItemIDs(items)),
         GetOptionPrices(d, s, OptionIDs(items)))

IsRow(d, count, r) ==
    /\ DOMAIN r = RowFields
    /\ r.store \in Stores /\ r.items \in Seq(CartEntry) /\ BrandsAgree(r.store, r.items)
    /\ r.began \in Nat /\ r.began <= count
    /\ r.began = count => CostsNow(d, r.store, r.items, r.subtotal)

ItemsRead(d, s, items, priced) ==
    /\ \A n \in DOMAIN items : SoldItem(d, s, items[n].item)
    /\ priced = GetPricedItems(d, s, ItemIDs(items))

IsCheckout(d, count, c) ==
    /\ DOMAIN c = {"cart", "priced", "began"}
    /\ c.cart \in Carts /\ c.began \in Nat /\ c.began <= count
    /\ c.priced # None =>
          /\ BrandsAgree(c.cart.store, c.cart.items)
          /\ c.began = count => ItemsRead(d, c.cart.store, c.cart.items, c.priced)

StoreInv ==
    /\ db \in MenuType /\ edits \in Nat
    /\ orders \in Seq(ToSet(orders))
    /\ \A n \in DOMAIN orders : IsRow(db, edits, orders[n])
    /\ checkout # None => IsCheckout(db, edits, checkout)

LEMMA StoreAssumed == StorefrontAssumption
BY StorefrontAssumption

\* What clients send is typed.
LEMMA CartTyped ==
    ASSUME NEW c \in Carts
    PROVE  c \in CartType /\ c.store \in Stores /\ c.items \in Seq(CartEntry)
           /\ \A n \in DOMAIN c.items : c.items[n] \in CartEntry
<1>1. c \in CartType
  BY StoreAssumed, Zenon DEF StorefrontAssumption
<1>2. c.store \in Stores /\ c.items \in Seq(CartEntry)
  BY <1>1 DEF CartType
<1>3. \A n \in DOMAIN c.items : c.items[n] \in CartEntry
  <2> HIDE DEF CartEntry
  <2> QED
    BY <1>2
<1> QED
  BY <1>1, <1>2, <1>3

\* When no row is missing, everything is sold.
LEMMA SoldItemsRead ==
    ASSUME NEW d, NEW s, NEW items,
           DOMAIN GetPricedItems(d, s, ItemIDs(items)) = ItemIDs(items)
    PROVE  \A n \in DOMAIN items : SoldItem(d, s, items[n].item)
<1> DEFINE I == ItemIDs(items)
<1>1. \A n \in DOMAIN items : items[n].item \in I
  BY ToSetIs DEF ItemIDs
<1> HIDE DEF I
<1>2. DOMAIN GetPricedItems(d, s, I) = {i \in I : SoldItem(d, s, i)}
  BY ItemsPriced
<1>3. DOMAIN GetPricedItems(d, s, I) = I
  BY DEF I
<1> QED
  BY <1>1, <1>2, <1>3

\* The table of orders grows by a row, or one of its rows changes.
LEMMA ToSetOfRows ==
    ASSUME NEW s, s \in Seq(ToSet(s))
    PROVE  /\ \A x : Append(s, x) \in Seq(ToSet(Append(s, x))) /\ Len(Append(s, x)) = Len(s) + 1
           /\ \A x : \A n \in DOMAIN s : [s EXCEPT ![n] = x] \in Seq(ToSet([s EXCEPT ![n] = x]))
<1>1. ASSUME NEW x PROVE Append(s, x) \in Seq(ToSet(Append(s, x))) /\ Len(Append(s, x)) = Len(s) + 1
  <2> DEFINE S == ToSet(s) \cup {x}
             t == Append(s, x)
  <2>1. s \in Seq(S)
    OBVIOUS
  <2>2. t \in Seq(S) /\ Len(t) = Len(s) + 1
    <3> HIDE DEF S
    <3>1. x \in S
      BY DEF S
    <3> QED
      BY <2>1, <3>1
  <2> HIDE DEF S, t
  <2>3. \A n \in 1..Len(t) : t[n] \in ToSet(t)
    BY <2>2, ToSetIs
  <2>4. t \in Seq(ToSet(t))
    BY <2>2, <2>3
  <2> QED
    BY <2>2, <2>4 DEF t
<1>2. ASSUME NEW n \in DOMAIN s, NEW x PROVE [s EXCEPT ![n] = x] \in Seq(ToSet([s EXCEPT ![n] = x]))
  <2> DEFINE S == ToSet(s) \cup {x}
             t == [s EXCEPT ![n] = x]
  <2>1. s \in Seq(S)
    OBVIOUS
  <2>2. t \in Seq(S)
    <3> HIDE DEF S
    <3>1. x \in S
      BY DEF S
    <3> QED
      BY <2>1, <3>1
  <2> HIDE DEF S, t
  <2>3. \A k \in 1..Len(t) : t[k] \in ToSet(t)
    BY <2>2, ToSetIs
  <2>4. t \in Seq(ToSet(t))
    BY <2>2, <2>3
  <2> QED
    BY <2>4 DEF t
<1> QED
  BY <1>1, <1>2

\* What was known at an earlier state of the menu is not claimed of a later one.
LEMMA EditKeepsRows ==
    ASSUME StoreInv, Edit, UNCHANGED <<orders, checkout>> PROVE StoreInv'
<1>1. db' \in MenuType /\ edits' = edits + 1 /\ edits \in Nat /\ edits' \in Nat
  BY EditKeepsMenu DEF StoreInv
<1>2. ASSUME NEW n \in DOMAIN orders PROVE IsRow(db', edits', orders[n])
  <2>1. IsRow(db, edits, orders[n])
    BY DEF StoreInv
  <2>2. orders[n].began \in Nat /\ orders[n].began <= edits
    BY <2>1 DEF IsRow
  <2>3. orders[n].began <= edits' /\ orders[n].began # edits'
    BY <1>1, <2>2
  <2> QED
    BY <2>1, <2>3, Zenon DEF IsRow
<1>3. checkout # None => IsCheckout(db', edits', checkout)
  <2> SUFFICES ASSUME checkout # None PROVE IsCheckout(db', edits', checkout)
    OBVIOUS
  <2>1. IsCheckout(db, edits, checkout)
    BY DEF StoreInv
  <2>2. checkout.began \in Nat /\ checkout.began <= edits
    BY <2>1 DEF IsCheckout
  <2>3. checkout.began <= edits' /\ checkout.began # edits'
    BY <1>1, <2>2
  <2> QED
    BY <2>1, <2>3, Zenon DEF IsCheckout
<1> QED
  BY <1>1, <1>2, <1>3, Zenon DEF StoreInv

\* A checkout begins.
LEMMA BeginKeeps ==
    ASSUME StoreInv, NEW c \in Carts, BeginCheckout(c) PROVE StoreInv'
<1>1. checkout' = [cart |-> c, priced |-> None, began |-> edits] /\ UNCHANGED <<db, edits, orders>>
  BY DEF BeginCheckout
<1>2. IsCheckout(db, edits, checkout')
  BY <1>1 DEF IsCheckout, StoreInv
<1> QED
  BY <1>1, <1>2, Zenon DEF StoreInv

\* It reads the prices of its items: they are today's if the menu is still the same.
LEMMA ReadKeeps ==
    ASSUME StoreInv, ReadItems PROVE StoreInv'
<1> DEFINE items == ItemIDs(checkout.cart.items)
           priced == GetPricedItems(db, checkout.cart.store, items)
<1>1. /\ checkout # None /\ UNCHANGED <<db, edits, orders>>
      /\ checkout' = IF DOMAIN priced # items THEN None ELSE [checkout EXCEPT !.priced = priced]
  BY DEF ReadItems
<1>2. IsCheckout(db, edits, checkout)
  BY <1>1 DEF StoreInv
<1>3. CASE DOMAIN priced # items
  BY <1>1, <1>3, Zenon DEF StoreInv
<1>4. CASE DOMAIN priced = items
  <2>1. \A n \in DOMAIN checkout.cart.items :
          SoldItem(db, checkout.cart.store, checkout.cart.items[n].item)
    BY <1>4, SoldItemsRead
  <2>2. BrandsAgree(checkout.cart.store, checkout.cart.items)
    BY <2>1, Zenon DEF BrandsAgree, SoldItem
  <2>3. ItemsRead(db, checkout.cart.store, checkout.cart.items, priced)
    BY <2>1, Zenon DEF ItemsRead
  <2> DEFINE new == [checkout EXCEPT !.priced = priced]
  <2>4. /\ DOMAIN new = DOMAIN checkout /\ new.cart = checkout.cart
        /\ new.began = checkout.began /\ new.priced = priced
    <3>1. "cart" \in DOMAIN checkout /\ "began" \in DOMAIN checkout /\ "priced" \in DOMAIN checkout
      BY <1>2 DEF IsCheckout
    <3> HIDE DEF priced
    <3> QED
      BY <3>1
  <2> HIDE DEF priced, new, items
  <2>5. IsCheckout(db, edits, new)
    BY <1>2, <2>2, <2>3, <2>4, Zenon DEF IsCheckout
  <2>6. checkout' = new
    BY <1>1, <1>4 DEF new
  <2> QED
    BY <1>1, <2>5, <2>6, Zenon DEF StoreInv
<1> QED
  BY <1>3, <1>4

\* When no option is missing, all of them are sold.
LEMMA OptionsRead ==
    ASSUME NEW d, NEW s, NEW items,
           DOMAIN GetOptionPrices(d, s, OptionIDs(items)) = OptionIDs(items)
    PROVE  \A n \in DOMAIN items : \A o \in ToSet(items[n].options) : SoldOption(d, s, o)
<1> DEFINE I == OptionIDs(items)
<1>1. \A n \in DOMAIN items : \A o \in ToSet(items[n].options) : o \in I
  <2>1. \A n \in DOMAIN items : items[n] \in ToSet(items)
    BY ToSetIs
  <2> QED
    BY <2>1, Zenon DEF OptionIDs
<1> HIDE DEF I
<1>2. DOMAIN GetOptionPrices(d, s, I) = {o \in I : SoldOption(d, s, o)}
  BY OptionsPriced
<1>3. DOMAIN GetOptionPrices(d, s, I) = I
  BY DEF I
<1> QED
  BY <1>1, <1>2, <1>3

\* It reads the prices of its options and places the order.  Each query sees the menu of
\* its own moment, so the sum is claimed only if no edit came in between.
LEMMA PlaceKeeps ==
    ASSUME StoreInv, PlaceOrder PROVE StoreInv'
<1> DEFINE cart == checkout.cart
           options == OptionIDs(cart.items)
           prices == GetOptionPrices(db, cart.store, options)
           total == CartTotal(cart.items, checkout.priced, prices)
           row == [store |-> cart.store, items |-> cart.items, status |-> "PAYMENT_PENDING",
                   began |-> checkout.began, subtotal |-> total]
           refused == DOMAIN prices # options \/ \E e \in ToSet(cart.items) :
             ~ValidCustomizations(e)
<1>1. /\ checkout # None /\ checkout.priced # None /\ checkout' = None /\ UNCHANGED <<db, edits>>
      /\ orders' = IF refused THEN orders ELSE Append(orders, row)
  BY DEF PlaceOrder
<1>2. IsCheckout(db, edits, checkout)
  BY <1>1 DEF StoreInv
<1>3. CASE refused
  BY <1>1, <1>3, Zenon DEF StoreInv
<1>4. CASE ~refused
  <2>1. cart.store \in Stores /\ cart.items \in Seq(CartEntry)
    BY <1>2, CartTyped DEF IsCheckout
  <2>2. BrandsAgree(cart.store, cart.items) /\ checkout.began \in Nat /\ checkout.began <= edits
    BY <1>1, <1>2, Zenon DEF IsCheckout
  <2>3. ASSUME checkout.began = edits PROVE CostsNow(db, cart.store, cart.items, total)
    <3>1. ItemsRead(db, cart.store, cart.items, checkout.priced)
      BY <1>1, <1>2, <2>3, Zenon DEF IsCheckout
    <3>2. \A n \in DOMAIN cart.items : \A o \in ToSet(cart.items[n].options) :
            SoldOption(db, cart.store, o)
      BY <1>4, OptionsRead
    <3>3. \A n \in DOMAIN cart.items : SoldLine(db, cart.store, cart.items[n])
      BY <3>1, <3>2, Zenon DEF ItemsRead, SoldLine
    <3>4. checkout.priced = GetPricedItems(db, cart.store, ItemIDs(cart.items))
      BY <3>1 DEF ItemsRead
    <3> QED
      BY <3>3, <3>4, Zenon DEF CostsNow
  <2>4. /\ DOMAIN row = RowFields /\ row.store = cart.store /\ row.items = cart.items
        /\ row.began = checkout.began /\ row.subtotal = total
    <3> HIDE DEF total, cart
    <3> QED
      BY DEF RowFields
  <2> HIDE DEF row, total, cart
  <2>5. IsRow(db, edits, row)
    BY <2>1, <2>2, <2>3, <2>4, Zenon DEF IsRow
  <2>6. orders \in Seq(ToSet(orders)) /\ \A n \in DOMAIN orders : IsRow(db, edits, orders[n])
    BY DEF StoreInv
  <2>7. orders' = Append(orders, row)
    BY <1>1, <1>4
  <2>8. orders' \in Seq(ToSet(orders')) /\ Len(orders') = Len(orders) + 1
    BY <2>6, <2>7, ToSetOfRows
  <2>9. \A n \in DOMAIN orders' : orders'[n] = row
          \/ (n \in DOMAIN orders /\ orders'[n] = orders[n])
    BY <2>6, <2>7
  <2>10. \A n \in DOMAIN orders' : IsRow(db, edits, orders'[n])
    BY <2>5, <2>6, <2>9, Zenon
  <2> QED
    BY <1>1, <2>8, <2>10, Zenon DEF StoreInv
<1> QED
  BY <1>3, <1>4

\* The worker releases an order: its lines and its subtotal stay.
LEMMA ReleaseKeeps ==
    ASSUME StoreInv, NEW n \in DOMAIN orders, Release(n) PROVE StoreInv'
<1> DEFINE row == [orders[n] EXCEPT !.status = "READY_TO_COLLECT"]
<1>1. orders' = [orders EXCEPT ![n] = row] /\ UNCHANGED <<db, edits, checkout>>
  BY DEF Release
<1>2. IsRow(db, edits, orders[n]) /\ orders \in Seq(ToSet(orders))
  BY DEF StoreInv
<1>3. /\ DOMAIN row = RowFields /\ row.store = orders[n].store /\ row.items = orders[n].items
      /\ row.began = orders[n].began /\ row.subtotal = orders[n].subtotal
  BY <1>2 DEF IsRow, RowFields
<1> HIDE DEF row
<1>4. IsRow(db, edits, row)
  BY <1>2, <1>3, Zenon DEF IsRow
<1>5. orders' \in Seq(ToSet(orders'))
  BY <1>1, <1>2, ToSetOfRows
<1>6. \A k \in DOMAIN orders' : k \in DOMAIN orders /\ (orders'[k] = row \/ orders'[k] = orders[k])
  BY <1>1, <1>2
<1>7. \A k \in DOMAIN orders' : IsRow(db, edits, orders'[k])
  BY <1>4, <1>6, Zenon DEF StoreInv
<1> QED
  BY <1>1, <1>5, <1>7, Zenon DEF StoreInv

\* The invariant of the storefront.
LEMMA StoreInvariant == Spec => []StoreInv
<1>1. Init => StoreInv
  <2> SUFFICES ASSUME Init PROVE StoreInv
    OBVIOUS
  <2>1. db \in MenuType
    BY StoreAssumed DEF Init, StorefrontAssumption
  <2>2. orders \in Seq(ToSet(orders)) /\ DOMAIN orders = {}
    BY DEF Init
  <2>3. checkout = None /\ edits \in Nat
    BY DEF Init
  <2> QED
    BY <2>1, <2>2, <2>3 DEF StoreInv
<1>2. StoreInv /\ [Next]_vars => StoreInv'
  <2> SUFFICES ASSUME StoreInv, [Next]_vars PROVE StoreInv'
    OBVIOUS
  <2>1. CASE Edit /\ MayChange /\ UNCHANGED <<orders, checkout>>
    BY <2>1, EditKeepsRows
  <2>2. CASE \E c \in Carts : BeginCheckout(c)
    BY <2>2, BeginKeeps
  <2>3. CASE ReadItems
    BY <2>3, ReadKeeps
  <2>4. CASE PlaceOrder
    BY <2>4, PlaceKeeps
  <2>5. CASE \E n \in DOMAIN orders : Release(n)
    BY <2>5, ReleaseKeeps
  <2>6. CASE UNCHANGED vars
    BY <2>6, Zenon DEF vars, StoreInv
  <2> QED
    BY <2>1, <2>2, <2>3, <2>4, <2>5, <2>6, Zenon DEF Next
<1> QED
  BY <1>1, <1>2, PTL DEF Spec

-----------------------------------------------------------------------------
(* OffersAreHonoured *)

\* Nothing is promised for a closed store, and nothing sold.
LEMMA ClosedStore ==
    ASSUME NEW d, NEW cart, NEW views, cart.store \notin d.stores
    PROVE  Promised(d, cart, views) = Charged(d, cart)
<1>1. cart.store \notin d.stores \cap d.open
  OBVIOUS
<1>2. Promised(d, cart, views) = None
  BY <1>1, Zenon DEF Promised
<1>3. Charged(d, cart) = None
  BY Zenon DEF Charged, GetStore
<1> QED
  BY <1>2, <1>3

LEMMA EntryIDs ==
    ASSUME NEW items, NEW n \in DOMAIN items
    PROVE  /\ items[n].item \in ItemIDs(items)
           /\ \A o \in ToSet(items[n].options) : o \in OptionIDs(items)
<1>1. items[n] \in ToSet(items)
  BY ToSetIs
<1> QED
  BY <1>1, Zenon DEF ItemIDs, OptionIDs

\* Of item pages, if categories are active and add-ons of the store's brand.
LEMMA PagesHonoured ==
    ASSUME NEW d \in MenuType, NEW c \in Carts,
           \A i \in ItemIDs(c.items) : Item[i].category \in d.categories,
           \A o \in OptionIDs(c.items) : Option[o].link # None
             => Item[Option[o].link].brand = Store[c.store].brand
    PROVE  Promised(d, c, [n \in DOMAIN c.items |-> GetItem(d, c.store, c.items[n].item)])
             = Charged(d, c)
<1>1. CASE c.store \notin d.stores
  BY <1>1, ClosedStore
<1>2. CASE c.store \in d.stores
  <2> DEFINE pages == [n \in DOMAIN c.items |-> GetItem(d, c.store, c.items[n].item)]
  <2>1. ASSUME NEW n \in DOMAIN c.items
        PROVE  Agrees(d, c.store, c.items[n], pages[n])
    <3>1. c.store \in Stores /\ c.items[n] \in CartEntry
      BY CartTyped
    <3>2. /\ Item[c.items[n].item].category \in d.categories
          /\ \A o \in ToSet(c.items[n].options) :
                Option[o].link # None => Item[Option[o].link].brand = Store[c.store].brand
      BY EntryIDs, Zenon
    <3>3. Agrees(d, c.store, c.items[n], GetItem(d, c.store, c.items[n].item))
      BY <1>2, <3>1, <3>2, PageAgrees
    <3> QED
      BY <3>3, Zenon
  <2>2. DOMAIN pages = DOMAIN c.items
    OBVIOUS
  <2> HIDE DEF pages
  <2>3. Promised(d, c, pages) = Charged(d, c)
    BY <2>1, <2>2, PromisedIs
  <2> QED
    BY <2>3 DEF pages
<1> QED
  BY <1>1, <1>2

\* Of the cart, if its items are products with a price in the zone.
LEMMA CartHonoured ==
    ASSUME NEW d \in MenuType, NEW c \in Carts,
           \A i \in ItemIDs(c.items) : Item[i].kind = "MAIN" /\ Priced(d, c.store, i)
    PROVE  Promised(d, c, GetCart(d, c.store, c.items)) = Charged(d, c)
<1> DEFINE views == GetCart(d, c.store, c.items)
<1>1. ASSUME NEW n \in DOMAIN c.items
      PROVE  Agrees(d, c.store, c.items[n], views[n])
  <2>1. c.store \in Stores /\ c.items[n] \in CartEntry
    BY CartTyped
  <2>2. Item[c.items[n].item].kind = "MAIN" /\ Priced(d, c.store, c.items[n].item)
    BY EntryIDs, Zenon
  <2>3. Agrees(d, c.store, c.items[n], CartLine(d, c.store, c.items[n]))
    BY <2>1, <2>2, CartAgrees
  <2> QED
    BY <2>3, Zenon DEF GetCart
<1>2. DOMAIN views = DOMAIN c.items
  BY DEF GetCart
<1> HIDE DEF views
<1>3. Promised(d, c, views) = Charged(d, c)
  BY <1>1, <1>2, PromisedIs
<1> QED
  BY <1>3 DEF views

\* For every menu that edits can lead to: what item pages (GetItem) and the cart (GetCart)
\* show as available is what checkout sells, at the price shown, with the exceptions that
\* OffersAreHonoured names.
THEOREM WhatIsOfferedIsHonoured == Spec => []OffersAreHonoured
<1>1. StoreInv => OffersAreHonoured
  <2> SUFFICES ASSUME StoreInv PROVE OffersAreHonoured
    OBVIOUS
  <2>1. db \in MenuType
    BY DEF StoreInv
  <2>2. ASSUME NEW c \in Carts,
               /\ \A i \in ItemIDs(c.items) : Item[i].category \in db.categories
               /\ \A o \in OptionIDs(c.items) :
                     Option[o].link # None => Item[Option[o].link].brand = Store[c.store].brand
        PROVE  Promised(db, c, [n \in DOMAIN c.items |-> GetItem(db, c.store, c.items[n].item)])
                 = Charged(db, c)
    BY <2>1, <2>2, PagesHonoured
  <2>3. ASSUME NEW c \in Carts,
               \A i \in ItemIDs(c.items) : Item[i].kind = "MAIN" /\ Priced(db, c.store, i)
        PROVE  Promised(db, c, GetCart(db, c.store, c.items)) = Charged(db, c)
    BY <2>1, <2>3, CartHonoured
  <2> QED
    BY <2>2, <2>3, Zenon DEF OffersAreHonoured
<1> QED
  BY <1>1, StoreInvariant, PTL

-----------------------------------------------------------------------------
(* ReordersAreHonoured *)

OrderLines == {l \in [store : Stores, entry : CartEntry] :
                 Item[l.entry.item].brand = Store[l.store].brand}

\* On the menu of the store it came from, sold out or not.
LineListed(d, l) ==
    /\ l.entry.item \in d.items /\ Item[l.entry.item].kind = "MAIN"
    /\ Item[l.entry.item].category \in d.categories
    /\ Priced(d, l.store, l.entry.item) /\ Listed(d, l.store, l.entry.item)

\* Rows whose lines may be offered again.
AreRows(rows) ==
    /\ rows \in Seq(ToSet(rows))
    /\ \A r \in ToSet(rows) : r.store \in Stores /\ r.items \in Seq(CartEntry)
         /\ BrandsAgree(r.store, r.items)

\* The lines of an order are of its store.
LEMMA RowLines ==
    ASSUME NEW s \in Stores, NEW items \in Seq(CartEntry), BrandsAgree(s, items)
    PROVE  [l \in DOMAIN items |-> [store |-> s, entry |-> items[l]]] \in Seq(OrderLines)
<1>1. ASSUME NEW l \in DOMAIN items PROVE [store |-> s, entry |-> items[l]] \in OrderLines
  <2> DEFINE e == items[l]
  <2>1. e \in CartEntry
    <3> HIDE DEF CartEntry
    <3> QED
      OBVIOUS
  <2>2. Item[e.item].brand = Store[s].brand
    BY DEF BrandsAgree
  <2> HIDE DEF e, CartEntry
  <2> QED
    BY <2>1, <2>2 DEF OrderLines, e
<1> DEFINE f(l) == [store |-> s, entry |-> items[l]]
<1>2. DOMAIN items = 1..Len(items) /\ Len(items) \in Nat
  BY DEF CartEntry
<1>3. \A l \in 1..Len(items) : f(l) \in OrderLines
  BY <1>1, <1>2
<1> HIDE DEF f
<1>4. [l \in 1..Len(items) |-> f(l)] \in Seq(OrderLines)
  BY <1>2, <1>3
<1> QED
  BY <1>2, <1>4, Zenon DEF f

\* What ListReorderProductRows returns is on the menu of the store it came from.
LEMMA LinesListed ==
    ASSUME NEW d, NEW rows, AreRows(rows), NEW orderLimit \in Nat, NEW rowLimit \in Nat
    PROVE  ListReorderProductRows(d, rows, orderLimit, rowLimit)
              \in Seq({l \in OrderLines : LineListed(d, l)})
<1> DEFINE S == ToSet(rows)
           ready == {r \in ToSet(rows) : r.status \in {"READY_TO_COLLECT", "COMPLETED"}}
           done == Where(Reverse(rows), ready)
           recent == Slice(done, 0, orderLimit)
           lists == [n \in DOMAIN recent |->
                        [l \in DOMAIN recent[n].items
                          |-> [store |-> recent[n].store, entry |-> recent[n].items[l]]]]
           lines == Joined(lists)
           listed == {l \in ToSet(lines) : LineListed(d, l)}
           found == Where(lines, listed)
<1>1. recent \in Seq(S)
  <2>1. rows \in Seq(S)
    BY DEF AreRows
  <2> HIDE DEF S, ready
  <2>2. Reverse(rows) \in Seq(S)
    BY <2>1, ReverseIn
  <2>3. done \in Seq(S \cap ready)
    BY <2>2, WhereIn
  <2>4. done \in Seq(S)
    <3> HIDE DEF done
    <3> QED
      BY <2>3
  <2> HIDE DEF done
  <2>5. 0 \in Nat
    OBVIOUS
  <2> QED
    BY <2>4, <2>5, SliceIn
<1>2. lists \in Seq(Seq(OrderLines))
  <2> DEFINE f(n) == [l \in DOMAIN recent[n].items
               |-> [store |-> recent[n].store, entry |-> recent[n].items[l]]]
  <2> HIDE DEF recent
  <2>1. ASSUME NEW n \in DOMAIN recent PROVE f(n) \in Seq(OrderLines)
    <3>1. recent[n] \in ToSet(rows)
      BY <1>1
    <3> DEFINE s == recent[n].store
               items == recent[n].items
    <3>2. s \in Stores /\ items \in Seq(CartEntry) /\ BrandsAgree(s, items)
      BY <3>1, Zenon DEF AreRows
    <3> HIDE DEF s, items
    <3>3. [l \in DOMAIN items |-> [store |-> s, entry |-> items[l]]] \in Seq(OrderLines)
      BY <3>2, RowLines
    <3> QED
      BY <3>3, Zenon DEF s, items
  <2>2. DOMAIN recent = 1..Len(recent) /\ Len(recent) \in Nat
    BY <1>1
  <2> DEFINE T == Seq(OrderLines)
  <2> HIDE DEF f, T
  <2>3. [n \in 1..Len(recent) |-> f(n)] \in Seq(T)
    <3>1. \A n \in 1..Len(recent) : f(n) \in T
      BY <2>1, <2>2 DEF T
    <3> QED
      BY <2>2, <3>1
  <2> QED
    BY <2>2, <2>3, Zenon DEF f, T
<1>3. lines \in Seq(OrderLines)
  <2> HIDE DEF lists
  <2> QED
    BY <1>2, JoinedIn
<1>4. ListReorderProductRows(d, rows, orderLimit, rowLimit) = Slice(found, 0, rowLimit)
  BY Zenon DEF ListReorderProductRows, LineListed
<1> DEFINE G == {l \in OrderLines : LineListed(d, l)}
<1>5. found \in Seq(G)
  <2> HIDE DEF lines
  <2>1. OrderLines \cap listed \subseteq G
    OBVIOUS
  <2> DEFINE H == OrderLines \cap listed
  <2> HIDE DEF listed, G
  <2>2. found \in Seq(H)
    BY <1>3, WhereIn
  <2> HIDE DEF found, H
  <2>3. H \subseteq G
    BY <2>1 DEF H
  <2> QED
    BY <2>2, <2>3
<1> HIDE DEF found, G
<1>6. 0 \in Nat
  OBVIOUS
<1>7. Slice(found, 0, rowLimit) \in Seq(G)
  BY <1>5, <1>6, SliceIn
<1> QED
  BY <1>4, <1>7 DEF G

\* What is shown of a line is what checkout would find.
LEMMA ReorderAgrees ==
    ASSUME NEW d \in MenuType, NEW l \in OrderLines, LineListed(d, l), NEW options,
           \A o \in ToSet(l.entry.options) : o \in options,
           NEW v,
           v = [store     |-> l.store,
                entry     |-> l.entry,
                available |-> InStock(d, l.store, l.entry.item),
                price     |-> d.price[<<l.entry.item, Zone(l.store)>>],
                options   |-> [o \in ToSet(l.entry.options) |->
                                  ReorderOption(GetOptionPrices(d, l.store, options), o)]]
    PROVE  v.store = l.store /\ v.entry = l.entry /\ Agrees(d, l.store, l.entry, v)
<1> DEFINE s == l.store
           e == l.entry
           prices == GetOptionPrices(d, s, options)
           os == [o \in ToSet(e.options) |-> ReorderOption(prices, o)]
           a == InStock(d, s, e.item)
           p == d.price[<<e.item, Zone(s)>>]
<1>1. /\ l.store \in Stores /\ l.entry \in CartEntry
      /\ Item[l.entry.item].brand = Store[l.store].brand
  <2> HIDE DEF CartEntry
  <2> QED
    BY DEF OrderLines
<1>2. e.options \in Seq(DOMAIN Option) /\ e.item \in Items
  BY <1>1 DEF CartEntry
<1>3. ToSet(e.options) \in SUBSET DOMAIN Option
  BY <1>2, ToSetIs
<1>4. p \in Nat
  <2>1. p \in Nat \cup {None} /\ p # None
    BY <1>1, <1>2, StoreIsKnown DEF MenuType, Priced, LineListed
  <2> QED
    BY <2>1
<1>5. a \in BOOLEAN
  BY DEF InStock
<1>6. ASSUME NEW o \in ToSet(e.options)
      PROVE  /\ os[o] \in [available : BOOLEAN, adjustment : Int]
             /\ o \in DOMAIN os /\ os[o].available <=> SoldOption(d, s, o)
             /\ SoldOption(d, s, o) => os[o].adjustment = Adjustment(d, s, o)
  <2>1. o \in options /\ o \in DOMAIN Option
    BY <1>3, <1>6
  <2> HIDE DEF s, e
  <2>2. o \in DOMAIN prices <=> SoldOption(d, s, o)
    <3>1. DOMAIN GetOptionPrices(d, s, options) = {x \in options : SoldOption(d, s, x)}
      BY OptionsPriced
    <3> QED
      BY <2>1, <3>1
  <2>3. SoldOption(d, s, o) => prices[o] = Adjustment(d, s, o)
    BY <2>1, OptionsPriced
  <2>4. Adjustment(d, s, o) \in Int
    BY <1>1, <2>1, AdjustmentInt DEF s
  <2> HIDE DEF prices
  <2> DEFINE x == o \in DOMAIN prices
             y == IF o \in DOMAIN prices THEN prices[o] ELSE 0
  <2>5. os[o] = [available |-> x, adjustment |-> y]
    BY <1>6, Zenon DEF ReorderOption
  <2>6. x \in BOOLEAN /\ y \in Int /\ (x <=> SoldOption(d, s, o))
        /\ (SoldOption(d, s, o) => y = Adjustment(d, s, o))
    BY <2>2, <2>3, <2>4
  <2>7. o \in DOMAIN os
    BY <1>6
  <2> HIDE DEF os, x, y
  <2>8. os[o].available = x /\ os[o].adjustment = y
        /\ os[o] \in [available : BOOLEAN, adjustment : Int]
    BY <2>5, <2>6
  <2> QED
    BY <2>6, <2>7, <2>8, Zenon
<1>7. os \in OptionViews
  <2> DEFINE S == ToSet(e.options)
  <2>1. os = [o \in S |-> os[o]]
    OBVIOUS
  <2> HIDE DEF os, S
  <2> QED
    BY <1>3, <1>6, <2>1, ViewsTyped DEF S
<1>8. v = [store |-> s, entry |-> e, available |-> a, price |-> p, options |-> os]
  OBVIOUS
<1> HIDE DEF s, e, a, p, os
<1>9. s \in Stores /\ e \in CartEntry
  BY <1>1 DEF s, e
<1>10. v # None
  <2>1. v \in ReorderView
    <3> HIDE DEF CartEntry
    <3> QED
      BY <1>4, <1>5, <1>7, <1>8, <1>9 DEF ReorderView
  <2> QED
    BY <2>1, StoreAssumed, Zenon DEF StorefrontAssumption
<1>11. v.store = s /\ v.entry = e /\ v.available = a /\ v.price = p /\ v.options = os
  BY <1>8
<1>12. a <=> SoldItem(d, s, e.item)
  BY <1>1, Zenon DEF LineListed, SoldItem, a, s, e
<1>13. OfferedAs(e, v) <=> SoldLine(d, s, e)
  BY <1>6, <1>10, <1>11, <1>12, Zenon DEF OfferedAs, SoldLine
<1>14. SoldLine(d, s, e) => PricedAs(d, s, e, v)
  BY <1>6, <1>11, Zenon DEF SoldLine, PricedAs, p
<1> QED
  BY <1>11, <1>13, <1>14, Zenon DEF Agrees, s, e

\* A view that agrees with checkout about a line keeps its promise.
LEMMA OneLineHonoured ==
    ASSUME NEW d, NEW s, NEW e, NEW v, Agrees(d, s, e, v)
    PROVE  Promised(d, [store |-> s, items |-> <<e>>], <<v>>)
             = Charged(d, [store |-> s, items |-> <<e>>])
<1> DEFINE cart == [store |-> s, items |-> <<e>>]
           views == <<v>>
<1>1. cart.store = s /\ cart.items = <<e>>
  OBVIOUS
<1>2. DOMAIN views = {1} /\ DOMAIN cart.items = {1} /\ views[1] = v /\ cart.items[1] = e
  BY <1>1
<1> HIDE DEF cart, views
<1>3. \A n \in DOMAIN cart.items : Agrees(d, cart.store, cart.items[n], views[n])
  BY <1>1, <1>2
<1>4. DOMAIN views = DOMAIN cart.items
  BY <1>2
<1>5. Promised(d, cart, views) = Charged(d, cart)
  BY <1>3, <1>4, PromisedIs
<1> QED
  BY <1>5 DEF cart, views

\* A limit within the bounds stays as it is.
LEMMA LimitIs ==
    ASSUME NEW l \in 1..2, NEW usual
    PROVE  NormalizeLimit(l, usual, 20) = l /\ NormalizeLimit(l, usual, 50) = l
BY DEF NormalizeLimit

\* So does every item offered again.
LEMMA AgainAgrees ==
    ASSUME NEW d \in MenuType, NEW rows, AreRows(rows), NEW limit \in 1..2,
           NEW n \in DOMAIN ListReorderItems(d, rows, limit)
    PROVE  LET v == ListReorderItems(d, rows, limit)[n] IN Agrees(d, v.store, v.entry, v)
<1> DEFINE G == {l \in OrderLines : LineListed(d, l)}
           found == ListReorderProductRows(d, rows, limit, 4 * limit)
           selected == Slice(Distinct(found), 0, limit)
           options == UNION {ToSet(l.entry.options) : l \in ToSet(selected)}
           view(l) == [store     |-> l.store,
                       entry     |-> l.entry,
                       available |-> InStock(d, l.store, l.entry.item),
                       price     |-> d.price[<<l.entry.item, Zone(l.store)>>],
                       options   |-> [o \in ToSet(l.entry.options) |->
                                         ReorderOption(GetOptionPrices(d, l.store, options), o)]]
<1>1. limit \in Nat /\ 4 * limit \in Nat /\ 0 \in Nat
  OBVIOUS
<1>2. found \in Seq(G)
  BY <1>1, LinesListed
<1>3. selected \in Seq(G)
  <2> HIDE DEF found, G
  <2>1. Distinct(found) \in Seq(G)
    BY <1>2, DistinctIn
  <2> QED
    BY <1>1, <2>1, SliceIn
<1>4. ListReorderItems(d, rows, limit) = [k \in DOMAIN selected |-> view(selected[k])]
  BY LimitIs, Zenon DEF ListReorderItems
<1>5. n \in DOMAIN selected /\ ListReorderItems(d, rows, limit)[n] = view(selected[n])
  BY <1>4, Zenon
<1> HIDE DEF selected
<1>6. selected[n] \in ToSet(selected) /\ selected[n] \in G
  BY <1>3, <1>5, ToSetIs
<1> DEFINE l == selected[n]
<1>7. l \in OrderLines /\ LineListed(d, l)
  BY <1>6
<1>8. \A o \in ToSet(l.entry.options) : o \in options
  BY <1>6, Zenon
<1> DEFINE v == view(l)
<1>9. v = [store     |-> l.store,
           entry     |-> l.entry,
           available |-> InStock(d, l.store, l.entry.item),
           price     |-> d.price[<<l.entry.item, Zone(l.store)>>],
           options   |-> [o \in ToSet(l.entry.options) |->
                             ReorderOption(GetOptionPrices(d, l.store, options), o)]]
  OBVIOUS
<1>10. ListReorderItems(d, rows, limit)[n] = v
  BY <1>5
<1> HIDE DEF options, v, l
<1>11. v.store = l.store /\ v.entry = l.entry /\ Agrees(d, l.store, l.entry, v)
  BY <1>7, <1>8, <1>9, ReorderAgrees
<1>12. Agrees(d, v.store, v.entry, v)
  BY <1>11, Zenon
<1> QED
  BY <1>10, <1>12, Zenon

\* For every menu and every history of orders: what ListReorderItems offers can be bought,
\* at the price shown, at the store of the order it was found in, if that one is open.
THEOREM WhatIsOfferedAgainIsHonoured == Spec => []ReordersAreHonoured
<1>1. StoreInv => ReordersAreHonoured
  <2> SUFFICES ASSUME StoreInv PROVE ReordersAreHonoured
    OBVIOUS
  <2>1. db \in MenuType
    BY DEF StoreInv
  <2>2. AreRows(orders)
    <3>1. orders \in Seq(ToSet(orders))
      BY DEF StoreInv
    <3>2. ASSUME NEW r \in ToSet(orders)
          PROVE  r.store \in Stores /\ r.items \in Seq(CartEntry) /\ BrandsAgree(r.store, r.items)
      <4>1. PICK n \in DOMAIN orders : r = orders[n]
        BY ToSetIs
      <4>2. IsRow(db, edits, r)
        BY <4>1 DEF StoreInv
      <4> QED
        BY <4>2, Zenon DEF IsRow
    <3> QED
      BY <3>1, <3>2, Zenon DEF AreRows
  <2>3. ASSUME NEW l \in 1..2, NEW n \in DOMAIN ListReorderItems(db, orders, l)
        PROVE  LET v == ListReorderItems(db, orders, l)[n]
                   cart == [store |-> v.store, items |-> <<v.entry>>]
               IN  Promised(db, cart, <<v>>) = Charged(db, cart)
    <3> DEFINE v == ListReorderItems(db, orders, l)[n]
    <3>1. Agrees(db, v.store, v.entry, v)
      BY <2>1, <2>2, AgainAgrees
    <3> HIDE DEF v
    <3>2. Promised(db, [store |-> v.store, items |-> <<v.entry>>], <<v>>)
          = Charged(db, [store |-> v.store, items |-> <<v.entry>>])
      BY <3>1, OneLineHonoured
    <3> QED
      BY <3>2 DEF v
  <2> QED
    BY <2>3, Zenon DEF ReordersAreHonoured
<1> QED
  BY <1>1, StoreInvariant, PTL

-----------------------------------------------------------------------------
(* PagesAddUp *)

StatusLine(d, s, e) ==
    [item     |-> e.item,
     quantity |-> e.quantity,
     price    |-> IF SoldItem(d, s, e.item) THEN d.price[<<e.item, Zone(s)>>] ELSE 0,
     options  |-> [o \in ToSet(e.options) |-> IF SoldOption(d, s, o)
                                              THEN Adjustment(d, s, o)
                                              ELSE 0]]

StatusOf(d, s, items) == [n \in DOMAIN items |-> StatusLine(d, s, items[n])]

\* Whatever else is priced with them, the lines of an order look the same.
LEMMA StatusIs ==
    ASSUME NEW d, NEW s, NEW items, NEW I, NEW O, ItemIDs(items) \subseteq I,
             OptionIDs(items) \subseteq O
    PROVE  buildOrderStatusItems(items, GetPricedItems(d, s, I), GetOptionPrices(d, s, O))
             = StatusOf(d, s, items)
<1> DEFINE priced == GetPricedItems(d, s, I)
           prices == GetOptionPrices(d, s, O)
           line(e) == [item     |-> e.item,
                       quantity |-> e.quantity,
                       price    |-> IF e.item \in DOMAIN priced THEN priced[e.item] ELSE 0,
                       options  |-> [o \in ToSet(e.options) |-> IF o \in DOMAIN prices
                                                                THEN prices[o]
                                                                ELSE 0]]
<1>1. buildOrderStatusItems(items, priced, prices) = [n \in DOMAIN items |-> line(items[n])]
  BY Zenon DEF buildOrderStatusItems
<1>2. ASSUME NEW n \in DOMAIN items PROVE line(items[n]) = StatusLine(d, s, items[n])
  <2> DEFINE e == items[n]
             p == IF e.item \in DOMAIN priced THEN priced[e.item] ELSE 0
             q == IF SoldItem(d, s, e.item) THEN d.price[<<e.item, Zone(s)>>] ELSE 0
             f == [o \in ToSet(e.options) |-> IF o \in DOMAIN prices THEN prices[o] ELSE 0]
             g == [o \in ToSet(e.options) |-> IF SoldOption(d, s, o)
                                              THEN Adjustment(d, s, o)
                                              ELSE 0]
  <2>1. e.item \in I /\ \A o \in ToSet(e.options) : o \in O
    BY EntryIDs
  <2>2. p = q
    <3> HIDE DEF e
    <3>1. DOMAIN GetPricedItems(d, s, I) = {x \in I : SoldItem(d, s, x)}
      BY ItemsPriced
    <3>2. \A x \in I : SoldItem(d, s, x) => GetPricedItems(d, s, I)[x] = d.price[<<x, Zone(s)>>]
      BY ItemPrices
    <3>3. e.item \in DOMAIN priced <=> SoldItem(d, s, e.item)
      BY <2>1, <3>1
    <3>4. SoldItem(d, s, e.item) => priced[e.item] = d.price[<<e.item, Zone(s)>>]
      BY <2>1, <3>2, Zenon
    <3> QED
      BY <3>3, <3>4, Zenon
  <2>3. f = g
    <3> HIDE DEF e
    <3>1. DOMAIN GetOptionPrices(d, s, O) = {x \in O : SoldOption(d, s, x)}
      BY OptionsPriced
    <3>2. \A x \in O : SoldOption(d, s, x) => GetOptionPrices(d, s, O)[x] = Adjustment(d, s, x)
      BY OptionsPriced
    <3> HIDE DEF prices
    <3>3. \A x \in O : x \in DOMAIN prices <=> SoldOption(d, s, x)
      BY <3>1 DEF prices
    <3>4. \A x \in O : SoldOption(d, s, x) => prices[x] = Adjustment(d, s, x)
      BY <3>2, Zenon DEF prices
    <3>5. \A o \in ToSet(e.options) : (IF o \in DOMAIN prices THEN prices[o] ELSE 0)
                                      = IF SoldOption(d, s, o) THEN Adjustment(d, s, o) ELSE 0
      BY <2>1, <3>3, <3>4, Zenon
    <3> QED
      BY <3>5
  <2>4. line(e) = [item |-> e.item, quantity |-> e.quantity, price |-> p, options |-> f]
    OBVIOUS
  <2>5. StatusLine(d, s, e) = [item |-> e.item, quantity |-> e.quantity, price |-> q, options |-> g]
    BY Zenon DEF StatusLine
  <2> HIDE DEF p, q, f, g, line, e
  <2>6. line(e) = StatusLine(d, s, e)
    BY <2>2, <2>3, <2>4, <2>5
  <2> QED
    BY <2>6 DEF e
<1> HIDE DEF line
<1>3. [n \in DOMAIN items |-> line(items[n])] = [n \in DOMAIN items |-> StatusLine(d, s, items[n])]
  BY <1>2
<1> QED
  BY <1>1, <1>3, Zenon DEF StatusOf

\* The rows of a page, put together from two queries for each of their stores.
LEMMA BatchIs ==
    ASSUME NEW d, NEW rows, \A n \in DOMAIN rows : rows[n].store \in Stores,
           \A r \in ToSet(rows) : GetStore(d, r.store)
    PROVE  populateItemsBatch(d, rows)
             = [n \in DOMAIN rows |-> StatusOf(d, rows[n].store, rows[n].items)]
<1> DEFINE O == UNION {OptionIDs(r.items) : r \in ToSet(rows)}
           I(s) == UNION {ItemIDs(r.items) : r \in {r \in ToSet(rows) : r.store = s}}
           priced == [s \in Stores |-> GetPricedItems(d, s, I(s))]
           prices == [s \in Stores |-> GetOptionPrices(d, s, O)]
<1>1. populateItemsBatch(d, rows)
      = [n \in DOMAIN rows
        |-> buildOrderStatusItems(rows[n].items, priced[rows[n].store], prices[rows[n].store])]
  BY Zenon DEF populateItemsBatch
<1>2. ASSUME NEW n \in DOMAIN rows
      PROVE  buildOrderStatusItems(rows[n].items, priced[rows[n].store], prices[rows[n].store])
             = StatusOf(d, rows[n].store, rows[n].items)
  <2> DEFINE s == rows[n].store
             items == rows[n].items
             J == I(s)
  <2>1. rows[n] \in ToSet(rows) /\ s \in Stores
    BY ToSetIs
  <2>2. \A x \in ItemIDs(items) : x \in J
    BY <2>1, Zenon
  <2>3. \A x \in OptionIDs(items) : x \in O
    BY <2>1, Zenon
  <2>4. priced[s] = GetPricedItems(d, s, J) /\ prices[s] = GetOptionPrices(d, s, O)
    BY <2>1, Zenon
  <2> HIDE DEF priced, prices, O, J, s, items
  <2>5. ItemIDs(items) \subseteq J /\ OptionIDs(items) \subseteq O
    BY <2>2, <2>3
  <2>6. buildOrderStatusItems(items, GetPricedItems(d, s, J), GetOptionPrices(d, s, O))
          = StatusOf(d, s, items)
    BY <2>5, StatusIs
  <2>7. buildOrderStatusItems(items, priced[s], prices[s]) = StatusOf(d, s, items)
    BY <2>4, <2>6, Zenon
  <2> QED
    BY <2>7 DEF s, items
<1> DEFINE f(n) == buildOrderStatusItems(rows[n].items, priced[rows[n].store],
             prices[rows[n].store])
           g(n) == StatusOf(d, rows[n].store, rows[n].items)
<1>3. \A n \in DOMAIN rows : f(n) = g(n)
  BY <1>2
<1>4. populateItemsBatch(d, rows) = [n \in DOMAIN rows |-> f(n)]
  BY <1>1
<1> HIDE DEF f, g
<1>5. populateItemsBatch(d, rows) = [n \in DOMAIN rows |-> g(n)]
  BY <1>3, <1>4
<1> QED
  BY <1>5 DEF g

\* A store that is no longer there has the page refused.
LEMMA BatchRefused ==
    ASSUME NEW d, NEW rows, NEW r \in ToSet(rows), ~GetStore(d, r.store)
    PROVE  populateItemsBatch(d, rows) = None
BY Zenon DEF populateItemsBatch

\* What an order shows adds up to what checkout would charge.
LEMMA StatusCosts ==
    ASSUME NEW d, NEW s, NEW items, NEW total, CostsNow(d, s, items, total)
    PROVE  Sum([k \in DOMAIN StatusOf(d, s, items) |->
                   LineTotal(items[k], StatusOf(d, s, items)[k].price,
                     StatusOf(d, s, items)[k].options)]) = total
<1> DEFINE priced == GetPricedItems(d, s, ItemIDs(items))
           prices == GetOptionPrices(d, s, OptionIDs(items))
           views == StatusOf(d, s, items)
<1>1. total = Sum([n \in DOMAIN items |-> LineTotal(items[n], priced[items[n].item], prices)])
  BY Zenon DEF CostsNow, CartTotal
<1>2. DOMAIN views = DOMAIN items
  BY DEF StatusOf
<1>3. ASSUME NEW n \in DOMAIN items
      PROVE  LineTotal(items[n], views[n].price, views[n].options)
               = LineTotal(items[n], priced[items[n].item], prices)
  <2> DEFINE e == items[n]
             v == views[n]
             I == ItemIDs(items)
             O == OptionIDs(items)
  <2>1. e.item \in I /\ \A o \in ToSet(e.options) : o \in O
    BY EntryIDs
  <2>2. SoldItem(d, s, e.item) /\ \A o \in ToSet(e.options) : SoldOption(d, s, o)
    BY Zenon DEF CostsNow, SoldLine
  <2>3. v = StatusLine(d, s, e)
    BY Zenon DEF StatusOf
  <2> HIDE DEF e, v, I, O
  <2>4. v.price = (IF SoldItem(d, s, e.item) THEN d.price[<<e.item, Zone(s)>>] ELSE 0)
        /\ v.options = [o \in ToSet(e.options) |-> IF SoldOption(d, s, o)
                                                   THEN Adjustment(d, s, o)
                                                   ELSE 0]
    <3> DEFINE p == IF SoldItem(d, s, e.item) THEN d.price[<<e.item, Zone(s)>>] ELSE 0
               f == [o \in ToSet(e.options) |-> IF SoldOption(d, s, o)
                                                THEN Adjustment(d, s, o)
                                                ELSE 0]
    <3>1. v = [item |-> e.item, quantity |-> e.quantity, price |-> p, options |-> f]
      BY <2>3, Zenon DEF StatusLine
    <3> HIDE DEF p, f
    <3>2. v.price = p /\ v.options = f
      BY <3>1
    <3> QED
      BY <3>2 DEF p, f
  <2>5. v.price = GetPricedItems(d, s, I)[e.item]
    <3>1. \A x \in I : SoldItem(d, s, x) => GetPricedItems(d, s, I)[x] = d.price[<<x, Zone(s)>>]
      BY ItemPrices
    <3> QED
      BY <2>1, <2>2, <2>4, <3>1, Zenon
  <2>6. \A o \in ToSet(e.options) : v.options[o] = GetOptionPrices(d, s, O)[o]
    <3>1. \A x \in O : SoldOption(d, s, x) => GetOptionPrices(d, s, O)[x] = Adjustment(d, s, x)
      BY OptionsPriced
    <3>2. \A o \in ToSet(e.options) : v.options[o] = Adjustment(d, s, o)
      BY <2>2, <2>4
    <3> QED
      BY <2>1, <2>2, <3>1, <3>2, Zenon
  <2> DEFINE a == v.options
             b == GetOptionPrices(d, s, O)
  <2> HIDE DEF a, b
  <2>7. \A o \in ToSet(e.options) : a[o] = b[o]
    BY <2>6 DEF a, b
  <2>8. LineTotal(e, v.price, a) = LineTotal(e, v.price, b)
    BY <2>7, SameLine
  <2> QED
    BY <2>5, <2>8, Zenon DEF a, b, e, v, I, O
<1> DEFINE f(n) == LineTotal(items[n], views[n].price, views[n].options)
           g(n) == LineTotal(items[n], priced[items[n].item], prices)
<1>4. \A n \in DOMAIN items : f(n) = g(n)
  BY <1>3
<1> HIDE DEF f, g, views
<1>5. [n \in DOMAIN views |-> f(n)] = [n \in DOMAIN items |-> g(n)]
  BY <1>2, <1>4
<1> QED
  BY <1>1, <1>5, Zenon DEF f, g, views

\* A line of an order is shown, whatever became of its item.
LEMMA StatusLineTyped ==
    ASSUME NEW d \in MenuType, NEW s \in Stores, NEW e \in CartEntry
    PROVE  StatusLine(d, s, e) \in StatusEntry
<1> DEFINE S == ToSet(e.options)
           p == IF SoldItem(d, s, e.item) THEN d.price[<<e.item, Zone(s)>>] ELSE 0
           f == [o \in S |-> IF SoldOption(d, s, o) THEN Adjustment(d, s, o) ELSE 0]
<1>1. e.item \in Items /\ e.quantity \in Nat /\ e.options \in Seq(DOMAIN Option)
  BY DEF CartEntry
<1>2. S \in SUBSET DOMAIN Option
  BY <1>1, ToSetIs
<1>3. p \in Nat
  <2>1. d.price[<<e.item, Zone(s)>>] \in Nat \cup {None}
    BY <1>1, StoreIsKnown DEF MenuType
  <2>2. SoldItem(d, s, e.item) => d.price[<<e.item, Zone(s)>>] # None
    BY DEF SoldItem, Priced
  <2> QED
    BY <2>1, <2>2
<1>4. f \in [S -> Int]
  <2>1. \A o \in S : Adjustment(d, s, o) \in Int
    BY <1>2, AdjustmentInt
  <2> HIDE DEF S
  <2>2. \A o \in S : (IF SoldOption(d, s, o) THEN Adjustment(d, s, o) ELSE 0) \in Int
    BY <2>1
  <2> QED
    BY <2>2
<1>5. StatusLine(d, s, e) = [item |-> e.item, quantity |-> e.quantity, price |-> p, options |-> f]
  BY Zenon DEF StatusLine
<1> HIDE DEF S, p, f
<1>6. f \in UNION {[T -> Int] : T \in SUBSET DOMAIN Option}
  BY <1>2, <1>4
<1> QED
  BY <1>1, <1>3, <1>5, <1>6 DEF StatusEntry

LEMMA ViewsAreSome ==
    ASSUME NEW d \in MenuType, NEW rows, rows \in Seq(ToSet(rows)),
           \A n \in DOMAIN rows : rows[n].store \in Stores /\ rows[n].items \in Seq(CartEntry)
    PROVE  [n \in DOMAIN rows |-> StatusOf(d, rows[n].store, rows[n].items)] # None
<1>1. ASSUME NEW s \in Stores, NEW items \in Seq(CartEntry)
               PROVE StatusOf(d, s, items) \in Seq(StatusEntry)
  <2> DEFINE f(n) == StatusLine(d, s, items[n])
  <2>1. DOMAIN items = 1..Len(items) /\ Len(items) \in Nat
        /\ \A n \in 1..Len(items) : items[n] \in CartEntry
    <3> HIDE DEF CartEntry
    <3> QED
      OBVIOUS
  <2>2. \A n \in 1..Len(items) : f(n) \in StatusEntry
    BY <2>1, StatusLineTyped
  <2> HIDE DEF f
  <2>3. [n \in 1..Len(items) |-> f(n)] \in Seq(StatusEntry)
    <3> HIDE DEF StatusEntry
    <3> QED
      BY <2>1, <2>2
  <2> QED
    BY <2>1, <2>3, Zenon DEF StatusOf, f
<1> DEFINE T == Seq(StatusEntry)
           g(n) == StatusOf(d, rows[n].store, rows[n].items)
<1>2. \A n \in DOMAIN rows : g(n) \in T
  BY <1>1
<1>3. DOMAIN rows = 1..Len(rows) /\ Len(rows) \in Nat
  OBVIOUS
<1> HIDE DEF g, T
<1>4. [n \in 1..Len(rows) |-> g(n)] \in Seq(T)
  BY <1>2, <1>3
<1>5. [n \in DOMAIN rows |-> g(n)] \in Seq(Seq(StatusEntry))
  BY <1>3, <1>4 DEF T
<1>6. [n \in DOMAIN rows |-> g(n)] # None
  BY <1>5, StoreAssumed, Zenon DEF StorefrontAssumption
<1> QED
  BY <1>6 DEF g

\* A page is made of the rows it is cut from.
LEMMA PageIn ==
    ASSUME NEW S, NEW rows \in Seq(S), NEW page \in Nat \ {0}, NEW limit \in Nat
    PROVE  Page(rows, page, limit).items \in Seq(S)
<1> DEFINE o == (page - 1) * limit
           m == limit + 1
           read == Slice(rows, o, m)
<1>1. o \in Nat /\ m \in Nat /\ 0 \in Nat
  <2>1. \A a, b \in Nat : a * b \in Nat
    OBVIOUS
  <2>2. page - 1 \in Nat
    OBVIOUS
  <2> QED
    BY <2>1, <2>2
<1>2. Page(rows, page, limit).items = Slice(read, 0, limit)
  BY DEF Page
<1> HIDE DEF o, m
<1>3. read \in Seq(S)
  BY <1>1, SliceIn
<1> HIDE DEF read
<1>4. Slice(read, 0, limit) \in Seq(S)
  BY <1>1, <1>3, SliceIn
<1> QED
  BY <1>2, <1>4

\* A page of orders: some of the rows, each with its view.
LEMMA PageOfOrders ==
    ASSUME NEW d, NEW rows, rows \in Seq(ToSet(rows)), NEW statuses, NEW l \in 1..2, NEW p \in 1..2
    PROVE  LET list == ListOrders(d, rows, statuses, p, l)
           IN  /\ list.rows \in Seq(ToSet(rows))
               /\ list.views = populateItemsBatch(d, list.rows)
<1> DEFINE S == ToSet(rows)
           matching == {r \in ToSet(rows) : statuses = {} \/ r.status \in statuses}
           found == ListStatusesByUser(rows, statuses)
           cut == Page(found, p, l)
<1>1. found \in Seq(S)
  <2>1. rows \in Seq(S)
    OBVIOUS
  <2> HIDE DEF S, matching
  <2>2. Where(rows, matching) \in Seq(S \cap matching)
    BY <2>1, WhereIn
  <2> DEFINE kept == Where(rows, matching)
  <2> HIDE DEF kept
  <2>3. kept \in Seq(S)
    BY <2>2 DEF kept
  <2>4. Reverse(kept) \in Seq(S)
    BY <2>3, ReverseIn
  <2> QED
    BY <2>4, Zenon DEF ListStatusesByUser, kept, matching
<1>2. NormalizePage(p) = p /\ NormalizeLimit(l, 20, 50) = l
  BY DEF NormalizePage, NormalizeLimit
<1>3. ListOrders(d, rows, statuses, p, l)
        = [rows |-> cut.items, views |-> populateItemsBatch(d, cut.items)]
  BY <1>2, Zenon DEF ListOrders
<1>4. cut.items \in Seq(S)
  <2> HIDE DEF found, S
  <2>1. p \in Nat \ {0} /\ l \in Nat
    OBVIOUS
  <2> QED
    BY <1>1, <2>1, PageIn
<1> DEFINE a == cut.items
           b == populateItemsBatch(d, cut.items)
<1> HIDE DEF a, b, cut
<1>5. ListOrders(d, rows, statuses, p, l) = [rows |-> a, views |-> b]
  BY <1>3 DEF a, b
<1>6. ListOrders(d, rows, statuses, p, l).rows = a /\ ListOrders(d, rows, statuses, p, l).views = b
  BY <1>5
<1>7. ListOrders(d, rows, statuses, p, l).rows \in Seq(ToSet(rows))
  BY <1>4, <1>6, Zenon DEF a
<1> QED
  BY <1>6, <1>7, Zenon DEF a, b

LEMMA SingletonsAre ==
    ASSUME NEW x PROVE DOMAIN <<x>> = {1} /\ <<x>>[1] = x /\ ToSet(<<x>>) = {x}
<1>1. DOMAIN <<x>> = {1} /\ <<x>>[1] = x
  OBVIOUS
<1> QED
  BY <1>1, ToSetIs

\* An order looked up alone.
LEMMA StatusAlone ==
    ASSUME NEW d, NEW r, r.store \in Stores, GetStore(d, r.store)
    PROVE  GetStatus(d, r) = <<StatusOf(d, r.store, r.items)>>
<1> DEFINE rows == <<r>>
<1>1. DOMAIN rows = {1} /\ rows[1] = r /\ ToSet(rows) = {r}
  BY SingletonsAre
<1> HIDE DEF rows
<1>2. (\A n \in DOMAIN rows : rows[n].store \in Stores)
        /\ \A q \in ToSet(rows) : GetStore(d, q.store)
  BY <1>1
<1>3. populateItemsBatch(d, rows)
        = [n \in DOMAIN rows |-> StatusOf(d, rows[n].store, rows[n].items)]
  BY <1>2, BatchIs
<1> DEFINE f(n) == StatusOf(d, rows[n].store, rows[n].items)
           x == StatusOf(d, r.store, r.items)
<1>4. f(1) = x
  BY <1>1
<1>5. populateItemsBatch(d, rows) = [n \in DOMAIN rows |-> f(n)]
  BY <1>3
<1> HIDE DEF f, x
<1>6. populateItemsBatch(d, rows) = <<x>>
  BY <1>1, <1>4, <1>5
<1> QED
  BY <1>6, Zenon DEF GetStatus, rows, x

\* For every history of orders and menu edits: populateItemsBatch prices a page of orders
\* with two queries for each store, and each order still looks as it does alone and adds up
\* to its subtotal, unless the menu was edited during or after its checkout.
THEOREM OrderPagesAddUp == Spec => []PagesAddUp
<1>1. StoreInv => PagesAddUp
  <2> SUFFICES ASSUME StoreInv, NEW statuses \in {{}, {"READY_TO_COLLECT"}}, NEW l \in 1..2,
                        NEW p \in 1..2
               PROVE  LET list == ListOrders(db, orders, statuses, p, l)
                          Shown(n) == Sum([k \in DOMAIN list.views[n] |->
                                              LineTotal(list.rows[n].items[k],
                                                list.views[n][k].price,
                                                        list.views[n][k].options)])
                      IN  IF list.views = None
                          THEN \E r \in ToSet(list.rows) : GetStatus(db, r) = None
                          ELSE /\ Len(list.views) = Len(list.rows)
                               /\ \A n \in DOMAIN list.rows :
                                     /\ GetStatus(db, list.rows[n]) = <<list.views[n]>>
                                     /\ list.rows[n].began = edits
                                          => Shown(n) = list.rows[n].subtotal
    BY Zenon DEF PagesAddUp
  <2> DEFINE list == ListOrders(db, orders, statuses, p, l)
             rows == list.rows
             views == list.views
  <2>1. orders \in Seq(ToSet(orders)) /\ db \in MenuType
          /\ \A n \in DOMAIN orders : IsRow(db, edits, orders[n])
    BY DEF StoreInv
  <2>2. rows \in Seq(ToSet(orders)) /\ views = populateItemsBatch(db, rows)
    BY <2>1, PageOfOrders
  <2> HIDE DEF list, rows, views
  <2>3. rows \in Seq(ToSet(rows)) /\ Len(rows) \in Nat /\ DOMAIN rows = 1..Len(rows)
    <3>1. \A n \in 1..Len(rows) : rows[n] \in ToSet(rows)
      BY <2>2, ToSetIs
    <3> QED
      BY <2>2, <3>1
  <2>4. \A r \in ToSet(rows) : IsRow(db, edits, r)
    <3>1. \A r \in ToSet(orders) : IsRow(db, edits, r)
      BY <2>1, ToSetIs
    <3>2. ToSet(rows) \subseteq ToSet(orders)
      BY <2>2, ToSetIs
    <3> QED
      BY <3>1, <3>2
  <2>5. \A n \in DOMAIN rows : rows[n] \in ToSet(rows) /\ IsRow(db, edits, rows[n])
    BY <2>4, ToSetIs
  <2>6. \A n \in DOMAIN rows : rows[n].store \in Stores /\ rows[n].items \in Seq(CartEntry)
    BY <2>5, Zenon DEF IsRow
  <2>7. CASE \E r \in ToSet(rows) : ~GetStore(db, r.store)
    <3>1. PICK r \in ToSet(rows) : ~GetStore(db, r.store)
      BY <2>7
    <3>2. views = None
      BY <2>2, <3>1, BatchRefused
    <3>3. GetStatus(db, r) = None
      <4>1. r \in ToSet(<<r>>)
        BY SingletonsAre
      <4>2. populateItemsBatch(db, <<r>>) = None
        BY <3>1, <4>1, BatchRefused
      <4> QED
        BY <4>2 DEF GetStatus
    <3> QED
      BY <3>1, <3>2, <3>3, Zenon DEF views, rows, list
  <2>8. CASE \A r \in ToSet(rows) : GetStore(db, r.store)
    <3>1. views = [n \in DOMAIN rows |-> StatusOf(db, rows[n].store, rows[n].items)]
      <4>1. \A n \in DOMAIN rows : rows[n].store \in Stores
        BY <2>6, Zenon
      <4> QED
        BY <2>2, <2>8, <4>1, BatchIs
    <3>2. views # None
      BY <2>1, <2>3, <2>6, <3>1, ViewsAreSome
    <3>3. Len(views) = Len(rows)
      BY <2>3, <3>1
    <3>4. ASSUME NEW n \in DOMAIN rows
          PROVE  /\ GetStatus(db, rows[n]) = <<views[n]>>
                 /\ rows[n].began = edits
                       => Sum([k \in DOMAIN views[n]
                         |-> LineTotal(rows[n].items[k], views[n][k].price,
                                                                   views[n][k].options)]) = rows[n].subtotal
      <4> DEFINE r == rows[n]
      <4>1. IsRow(db, edits, r) /\ r \in ToSet(rows)
        BY <2>5
      <4>2. views[n] = StatusOf(db, r.store, r.items)
        BY <3>1
      <4> HIDE DEF r
      <4>3. r.store \in Stores /\ GetStore(db, r.store)
        BY <2>8, <4>1, Zenon DEF IsRow
      <4>4. GetStatus(db, r) = <<StatusOf(db, r.store, r.items)>>
        BY <4>3, StatusAlone
      <4>5. ASSUME r.began = edits
            PROVE  Sum([k \in DOMAIN StatusOf(db, r.store, r.items) |->
                           LineTotal(r.items[k], StatusOf(db, r.store, r.items)[k].price,
                                     StatusOf(db, r.store, r.items)[k].options)]) = r.subtotal
        <5>1. CostsNow(db, r.store, r.items, r.subtotal)
          BY <4>1, <4>5, Zenon DEF IsRow
        <5> QED
          BY <5>1, StatusCosts
      <4> QED
        BY <4>2, <4>4, <4>5, Zenon DEF r
    <3> QED
      BY <3>2, <3>3, <3>4, Zenon DEF views, rows, list
  <2> QED
    BY <2>7, <2>8, Zenon
<1> QED
  BY <1>1, StoreInvariant, PTL

-----------------------------------------------------------------------------
(* AvailabilityAgrees: the pages of the store list *)

\* There are finitely many stores, with numbers.
LEMMA StoresAreFinite ==
    ASSUME NEW T \in SUBSET Stores
    PROVE  /\ IsFiniteSet(T) /\ Cardinality(T) \in Nat /\ Cardinality(T) <= Len(Store)
           /\ \A x \in T : x \in Nat
<1> DEFINE N == Len(Store)
<1>1. N \in Nat /\ Stores = 1..N
  BY MenuAssumed DEF MenuAssumption
<1> HIDE DEF N
<1>2. IsFiniteSet(1..N) /\ Cardinality(1..N) = N
  <2>1. 1 \in Int /\ N \in Int /\ N \in Nat
    BY <1>1
  <2> QED
    BY <2>1, FS_Interval
<1>3. IsFiniteSet(T) /\ Cardinality(T) <= Cardinality(1..N)
  BY <1>1, <1>2, FS_Subset
<1>4. Cardinality(T) \in Nat
  BY <1>3, FS_CardinalityType
<1> QED
  BY <1>1, <1>2, <1>3, <1>4 DEF N

Ascending(s) == \A i, j \in DOMAIN s : i < j => s[i] < s[j]

\* They can be listed by number.
LEMMA AscendingExists ==
    ASSUME NEW T \in SUBSET Stores
             PROVE \E s \in SetToSeqs(T) : Ascending(s) /\ s \in Seq(T) /\ ToSet(s) = T
<1> DEFINE R == {p \in Nat \X Nat : p[1] < p[2]}
<1>1. IsFiniteSet(T) /\ \A x \in T : x \in Nat
  BY StoresAreFinite
<1>2. \A x, y \in T : <<x, y>> \in R <=> x < y
  BY <1>1
<1>3. Orders(R, T)
  <2> HIDE DEF R
  <2> QED
    BY <1>1, <1>2 DEF Orders
<1> HIDE DEF R
<1>4. PICK s : InOrder(s, T, R)
  BY <1>1, <1>3, OrderExists
<1>5. /\ s \in Seq(T) /\ Len(s) \in Nat /\ T = {s[i] : i \in 1..Len(s)}
      /\ \A i \in 1..Len(s) : s[i] \in T
      /\ \A i, j \in 1..Len(s) : i < j => <<s[i], s[j]>> \in R
  BY <1>4 DEF InOrder
<1>6. \A i, j \in 1..Len(s) : i < j => s[i] < s[j]
  BY <1>2, <1>5
<1>7. \A i, j \in 1..Len(s) : s[i] = s[j] => i = j
  <2>1. \A i, j \in 1..Len(s) : i < j \/ j < i \/ i = j
    BY <1>5
  <2>2. \A x \in T : ~(x < x)
    BY <1>1
  <2> QED
    BY <1>5, <1>6, <2>1, <2>2
<1>8. DOMAIN s = 1..Len(s)
  BY <1>5
<1>9. ToSet(s) = T
  BY <1>5, <1>8, ToSetIs
<1>10. s \in SetToSeqs(T)
  BY <1>5, <1>7, <1>8, <1>9, ListOfSet
<1> QED
  BY <1>5, <1>6, <1>8, <1>9, <1>10 DEF Ascending

\* Which is what ORDER BY id does.
LEMMA ByIdIs ==
    ASSUME NEW T \in SUBSET Stores
    PROVE  ById(T) \in Seq(T) /\ ToSet(ById(T)) = T /\ Len(ById(T)) <= Len(Store)
<1>1. \E s \in SetToSeqs(T) : Ascending(s)
  BY AscendingExists, Zenon
<1>2. ById(T) \in SetToSeqs(T)
  BY <1>1, Zenon DEF ById, Ascending
<1>3. IsFiniteSet(T) /\ Cardinality(T) <= Len(Store)
  BY StoresAreFinite
<1> DEFINE r == ById(T)
<1> HIDE DEF r
<1>4. r \in SetToSeqs(T)
  BY <1>2 DEF r
<1>5. r \in Seq(T) /\ ToSet(r) = T /\ Len(r) = Cardinality(T)
  BY <1>3, <1>4, ListsOfSet
<1> QED
  BY <1>3, <1>5 DEF r

LEMMA FirstStore ==
    ASSUME NEW T \in SUBSET Stores, T # {} PROVE Min(T) \in T
<1>1. PICK s \in SetToSeqs(T) : Ascending(s) /\ s \in Seq(T) /\ ToSet(s) = T
  BY AscendingExists
<1>2. \A x \in T : x \in Nat
  BY StoresAreFinite
<1>3. /\ Len(s) \in Nat /\ DOMAIN s = 1..Len(s)
      /\ \A i \in 1..Len(s) : s[i] \in T
      /\ \A x \in T : \E i \in 1..Len(s) : s[i] = x
  BY <1>1, ToSetIs
<1>4. 1 \in 1..Len(s)
  BY <1>3
<1>5. \A i \in 1..Len(s) : s[1] <= s[i]
  <2> SUFFICES ASSUME NEW i \in 1..Len(s) PROVE s[1] <= s[i]
    OBVIOUS
  <2>1. s[1] \in Nat /\ s[i] \in Nat
    BY <1>2, <1>3, <1>4
  <2>2. i = 1 \/ s[1] < s[i]
    BY <1>1, <1>3, <1>4 DEF Ascending
  <2> QED
    BY <2>1, <2>2
<1>6. \E m \in T : \A x \in T : m =< x
  BY <1>3, <1>4, <1>5
<1> QED
  BY <1>6, Zenon DEF Min

\* The pages of one row each, of any list.
LEMMA OneRowPages ==
    ASSUME NEW S, NEW r \in Seq(S), NEW p \in Nat \ {0}
    PROVE  /\ Page(r, p, 1).more <=> p + 1 <= Len(r)
           /\ p <= Len(r) => Page(r, p, 1).items = <<r[p]>>
           /\ p > Len(r) => Page(r, p, 1).items = <<>>
<1> DEFINE o == p - 1
           read == Slice(r, o, 2)
           items == Slice(read, 0, 1)
<1>0. (p - 1) * 1 = o /\ 1 + 1 = 2 /\ o \in Nat
      /\ 2 \in Nat /\ 0 \in Nat /\ 1 \in Nat /\ Len(r) \in Nat
  OBVIOUS
<1>1. Page(r, p, 1).items = items /\ (Page(r, p, 1).more <=> Len(read) > 1)
  <2> DEFINE m == Len(read) > 1
  <2>1. Page(r, p, 1) = [items |-> items, more |-> m]
    BY <1>0 DEF Page
  <2> HIDE DEF items, m
  <2>2. Page(r, p, 1).items = items /\ Page(r, p, 1).more = m
    BY <2>1
  <2> QED
    BY <2>2 DEF m
<1> HIDE DEF o
<1> DEFINE last == IF o + 2 < Len(r) THEN o + 2 ELSE Len(r)
<1>2. /\ read \in Seq(S)
      /\ Len(read) = IF o < last THEN last - o ELSE 0
      /\ \A i \in 1..(last - o) : read[i] = r[o + i]
  <2> HIDE DEF last
  <2>1. IsSlice(read, S, r, o, last)
    BY <1>0, SliceIs DEF last
  <2> HIDE DEF read
  <2> QED
    BY <2>1 DEF IsSlice
<1> HIDE DEF read
<1> DEFINE last2 == IF 1 < Len(read) THEN 1 ELSE Len(read)
<1>3. /\ items \in Seq(S)
      /\ Len(items) = IF 0 < last2 THEN last2 ELSE 0
      /\ \A i \in 1..last2 : items[i] = read[i]
  <2>0. Len(read) \in Nat
    BY <1>2
  <2>1. last2 = (IF 0 + 1 < Len(read) THEN 0 + 1 ELSE Len(read)) /\ last2 \in Nat
    BY <2>0
  <2> HIDE DEF last2
  <2>2. IsSlice(items, S, read, 0, last2)
    BY <1>0, <1>2, <2>1, SliceIs
  <2> HIDE DEF items
  <2> QED
    BY <2>1, <2>2 DEF IsSlice
<1> HIDE DEF items
<1>4. o = p - 1
  BY DEF o
<1>5. Len(read) > 1 <=> p + 1 <= Len(r)
  BY <1>0, <1>2, <1>4
<1>6. ASSUME p <= Len(r) PROVE items = <<r[p]>>
  <2>1. o < last /\ 1 \in 1..(last - o) /\ o + 1 = p
    BY <1>0, <1>4, <1>6
  <2>2. Len(read) \in Nat /\ Len(read) >= 1
    BY <1>0, <1>2, <1>4, <2>1
  <2>3. read[1] = r[p]
    BY <1>2, <2>1
  <2>4. last2 = 1
    BY <1>2, <2>2
  <2>5. Len(items) = 1 /\ items[1] = read[1]
    BY <1>3, <2>4
  <2> QED
    BY <1>3, <2>3, <2>5
<1>7. ASSUME p > Len(r) PROVE items = <<>>
  <2>1. ~(o < last)
    BY <1>0, <1>4, <1>7
  <2>2. Len(read) = 0
    BY <1>2, <2>1
  <2>3. Len(items) = 0
    BY <1>3, <2>2
  <2> QED
    BY <1>3, <2>3
<1> QED
  BY <1>1, <1>5, <1>6, <1>7

\* Page after page shows every store that takes orders, and says when there are no more.
LEMMA StorePages ==
    ASSUME NEW d \in MenuType
    PROVE  /\ \A s \in Stores : GetStore(d, s)
                <=> \E p \in Stores : s \in ToSet(ListStores(d, TRUE, p, 1).items)
           /\ \A p \in Stores : ListStores(d, TRUE, p, 1).more
                <=> ListStores(d, TRUE, p + 1, 1).items # <<>>
<1> DEFINE r == ById(d.stores)
<1>1. d.stores \in SUBSET Stores
  BY DEF MenuType
<1>2. r \in Seq(d.stores) /\ ToSet(r) = d.stores /\ Len(r) <= Len(Store)
  BY <1>1, ByIdIs
<1>3. Stores = 1..Len(Store) /\ Len(Store) \in Nat
  BY MenuAssumed DEF MenuAssumption
<1>4. \A p \in Nat \ {0} : ListStores(d, TRUE, p, 1) = Page(r, p, 1)
  <2>1. \A p \in Nat \ {0} : NormalizePage(p) = p
    BY DEF NormalizePage
  <2>2. NormalizeLimit(1, 50, 100) = 1
    BY DEF NormalizeLimit
  <2> QED
    BY <2>1, <2>2, Zenon DEF ListStores
<1> HIDE DEF r
<1>5. \A p \in Nat \ {0} : /\ Page(r, p, 1).more <=> p + 1 <= Len(r)
                           /\ p <= Len(r) => Page(r, p, 1).items = <<r[p]>>
                           /\ p > Len(r) => Page(r, p, 1).items = <<>>
  BY <1>2, OneRowPages
<1>6. Len(r) \in Nat /\ DOMAIN r = 1..Len(r)
  BY <1>2
<1>7. ASSUME NEW s \in Stores
      PROVE  GetStore(d, s) <=> \E p \in Stores : s \in ToSet(ListStores(d, TRUE, p, 1).items)
  <2>1. ASSUME s \in d.stores PROVE \E p \in Stores : s \in ToSet(ListStores(d, TRUE, p, 1).items)
    <3>1. PICK p \in 1..Len(r) : r[p] = s
      BY <1>2, <1>6, <2>1, ToSetIs
    <3>2. p \in Nat \ {0} /\ p \in Stores /\ p <= Len(r)
      BY <1>2, <1>3, <1>6
    <3>3. ListStores(d, TRUE, p, 1).items = <<s>>
      BY <1>4, <1>5, <3>1, <3>2
    <3>4. s \in ToSet(ListStores(d, TRUE, p, 1).items)
      <4>1. s \in ToSet(<<s>>)
        BY SingletonsAre
      <4> QED
        BY <3>3, <4>1
    <3> QED
      BY <3>2, <3>4
  <2>2. ASSUME NEW p \in Stores, s \in ToSet(ListStores(d, TRUE, p, 1).items) PROVE s \in d.stores
    <3>1. p \in Nat \ {0}
      BY <1>3
    <3>2. s \in ToSet(Page(r, p, 1).items)
      BY <1>4, <2>2, <3>1
    <3>3. CASE p <= Len(r)
      <4>1. ToSet(Page(r, p, 1).items) = {r[p]}
        BY <1>5, <3>1, <3>3, SingletonsAre
      <4>2. r[p] \in ToSet(r)
        BY <1>6, <3>1, <3>3, ToSetIs
      <4> QED
        BY <1>2, <3>2, <4>1, <4>2
    <3>4. CASE p > Len(r)
      <4>1. Page(r, p, 1).items = <<>>
        BY <1>5, <3>1, <3>4
      <4>2. ToSet(<<>>) = {}
        <5>1. DOMAIN <<>> = {}
          OBVIOUS
        <5> QED
          BY <5>1, ToSetIs
      <4> QED
        BY <3>2, <4>1, <4>2
    <3> QED
      BY <1>6, <3>1, <3>3, <3>4
  <2> QED
    BY <2>1, <2>2 DEF GetStore
<1>8. ASSUME NEW p \in Stores
      PROVE  ListStores(d, TRUE, p, 1).more <=> ListStores(d, TRUE, p + 1, 1).items # <<>>
  <2>1. p \in Nat \ {0} /\ p + 1 \in Nat \ {0}
    BY <1>3
  <2> DEFINE q == p + 1
  <2>2. ListStores(d, TRUE, p, 1).more <=> q <= Len(r)
    BY <1>4, <1>5, <2>1
  <2> HIDE DEF q
  <2>3. q \in Nat \ {0}
    BY <2>1 DEF q
  <2>4. q <= Len(r) => Page(r, q, 1).items = <<r[q]>>
    BY <1>5, <2>3
  <2>5. q > Len(r) => Page(r, q, 1).items = <<>>
    BY <1>5, <2>3
  <2>6. q <= Len(r) <=> Page(r, q, 1).items # <<>>
    BY <1>6, <2>3, <2>4, <2>5
  <2>7. ListStores(d, TRUE, q, 1) = Page(r, q, 1)
    BY <1>4, <2>3
  <2> QED
    BY <2>2, <2>6, <2>7 DEF q
<1> QED
  BY <1>7, <1>8

-----------------------------------------------------------------------------
(* AvailabilityAgrees: menu, category page, item page and check            *)

Brand(t) == Store[t].brand

\* The four answers about an item, and its row in each of the first two.
AnswersAgree(menu, page, item, check, c, i) ==
    IF item = None
    THEN /\ menu # None => c \notin DOMAIN menu \/ i \notin DOMAIN menu[c]
         /\ page # None => i \notin DOMAIN page
         /\ check # None => ~check.available
    ELSE /\ IF Category[c] = Item[i].brand
            THEN c \in DOMAIN menu /\ i \in DOMAIN menu[c] /\ menu[c][i] = item
            ELSE c \notin DOMAIN menu
         /\ i \in DOMAIN page /\ page[i] = item
         /\ check.available = item.available
         /\ check.options = [o \in DOMAIN item.options |-> item.options[o].available]

InOwnCategory(i) == Category[Item[i].category] = Item[i].brand

\* An item is found alone if it is found in the list.
LEMMA Found ==
    ASSUME NEW d \in MenuType, NEW t, NEW i \in Items
    PROVE  /\ GetProductByID(d, t, Brand(t), i) <=> i \in ListProducts(d, t, Brand(t))
           /\ i \in ListProducts(d, t, Brand(t)) =>
                 /\ Item[i].category \in ListCategoryRows(d, Brand(t)) <=> InOwnCategory(i)
                 /\ Priced(d, t, i)
<1>1. /\ GetProductByID(d, t, Brand(t), i) <=> i \in ListProducts(d, t, Brand(t))
      /\ i \in ListProducts(d, t, Brand(t)) =>
            Item[i].category \in d.categories /\ Item[i].brand = Brand(t) /\ Priced(d, t, i)
  BY DEF GetProductByID, ListProducts
<1> QED
  BY <1>1 DEF ListCategoryRows, InOwnCategory

LEMMA ProductRows ==
    ASSUME NEW d, NEW t, NEW products
    PROVE  /\ DOMAIN buildProducts(d, t, products) = products
           /\ \A i \in products : buildProducts(d, t, products)[i] = ProductView(d, t, i)
<1>1. DOMAIN buildProducts(d, t, products) = products
  BY DEF buildProducts
<1>2. \A i \in products : buildProducts(d, t, products)[i] = ProductView(d, t, i)
  BY ProductIs
<1> QED
  BY <1>1, <1>2

\* The row of an item in the menu.
LEMMA MenuIs ==
    ASSUME NEW d \in MenuType, NEW s, NEW t,
           t = ResolveStoreContext(d, s), t # None, NEW i \in Items,
           NEW menu, menu = ListCategories(d, s, None), NEW c, c = Item[i].category
    PROVE  /\ c \in DOMAIN menu /\ i \in DOMAIN menu[c] => i \in ListProducts(d, t, Brand(t))
           /\ i \in ListProducts(d, t, Brand(t)) =>
                 IF InOwnCategory(i)
                 THEN c \in DOMAIN menu /\ i \in DOMAIN menu[c] /\ menu[c][i] = ProductView(d, t, i)
                 ELSE c \notin DOMAIN menu
<1> DEFINE b == Brand(t)
           listed == ListProducts(d, t, b)
           products == buildProducts(d, t, listed)
           Of(x) == {j \in DOMAIN products : Item[j].category = x}
           C == {x \in ListCategoryRows(d, b) : Of(x) # {}}
<1>1. menu = [x \in C |-> Restrict(products, Of(x))]
  <2>1. Coalesce(None, Store[t].brand) = b
    BY DEF Coalesce, Brand
  <2> QED
    BY <2>1, Zenon DEF ListCategories
<1>2. DOMAIN products = listed /\ \A j \in listed : products[j] = ProductView(d, t, j)
  <2> HIDE DEF listed
  <2> QED
    BY ProductRows
<1>3. i \in listed => (c \in ListCategoryRows(d, b) <=> InOwnCategory(i))
  BY Found DEF b, listed
<1> HIDE DEF b, listed, products
<1>4. DOMAIN menu = C
  BY <1>1
<1>5. \A x \in C : DOMAIN menu[x] = Of(x) /\ \A j \in Of(x) : menu[x][j] = products[j]
  BY <1>1 DEF Restrict
<1>6. i \in Of(c) <=> i \in listed
  BY <1>2
<1>7. i \in listed => (c \in C <=> InOwnCategory(i))
  BY <1>3, <1>6
<1>8. c \in DOMAIN menu /\ i \in DOMAIN menu[c] => i \in listed
  BY <1>4, <1>5, <1>6, Zenon
<1>9. i \in listed /\ InOwnCategory(i)
        => c \in DOMAIN menu /\ i \in DOMAIN menu[c] /\ menu[c][i] = ProductView(d, t, i)
  BY <1>2, <1>4, <1>5, <1>6, <1>7, Zenon
<1>10. i \in listed /\ ~InOwnCategory(i) => c \notin DOMAIN menu
  BY <1>4, <1>7, Zenon
<1> QED
  BY <1>8, <1>9, <1>10 DEF listed, b

\* The row of an item on its category's page.
LEMMA CategoryPageIs ==
    ASSUME NEW d \in MenuType, NEW s, NEW t,
           t = ResolveStoreContext(d, s), t # None, NEW i \in Items,
           NEW c, c = Item[i].category, NEW page, page = ListCategoryItems(d, s, None, c)
    PROVE  /\ i \in DOMAIN page <=> i \in ListProducts(d, t, Brand(t))
           /\ i \in ListProducts(d, t, Brand(t)) => page[i] = ProductView(d, t, i)
<1> DEFINE listed == ListProducts(d, t, Brand(t))
           P == {j \in listed : Item[j].category = c}
<1>1. page = buildProducts(d, t, P)
  <2>1. Coalesce(None, Store[t].brand) = Brand(t)
    BY DEF Coalesce, Brand
  <2> QED
    BY <2>1, Zenon DEF ListCategoryItems
<1>2. i \in P <=> i \in listed
  OBVIOUS
<1> HIDE DEF listed, P
<1>3. DOMAIN buildProducts(d, t, P) = P
      /\ \A j \in P : buildProducts(d, t, P)[j] = ProductView(d, t, j)
  BY ProductRows
<1> QED
  BY <1>1, <1>2, <1>3 DEF listed

\* The page of an item.
LEMMA ItemIs ==
    ASSUME NEW d, NEW s, NEW t, t = ResolveStoreContext(d, s), t # None, NEW i
    PROVE  GetItem(d, s, i) = IF GetProductByID(d, t, Brand(t), i)
                              THEN ProductView(d, t, i)
                              ELSE None
<1>1. buildProducts(d, t, {i})[i] = ProductView(d, t, i)
  BY ProductIs
<1> QED
  BY <1>1, Zenon DEF GetItem, Brand

\* The options an item has are those of its groups.
LEMMA OwnOptions ==
    ASSUME NEW d, NEW t, NEW i
    PROVE  ListCustomizationOptions(d, t, ListCustomizationGroups({i})) = ProductOptions(d, t, i)
<1> DEFINE groups == ListCustomizationGroups({i})
           X == {o \in DOMAIN Option : Option[o].group \in groups /\ OptionShown(d, t, o)}
           Y == {o \in DOMAIN Option : Option[o].item = i /\ OptionShown(d, t, o)}
<1>1. \A o \in DOMAIN Option : Option[o].group \in DOMAIN Group
        /\ Option[o].item = Group[Option[o].group].item
  BY MenuAssumed DEF MenuAssumption
<1>2. \A o \in DOMAIN Option : Option[o].group \in groups <=> Option[o].item = i
  BY <1>1 DEF ListCustomizationGroups
<1> HIDE DEF groups
<1>3. X = Y
  BY <1>2
<1>4. ListCustomizationOptions(d, t, groups) = [o \in X |-> OptionView(d, t, o)]
  BY OptionsShown
<1> HIDE DEF X, Y
<1>5. ListCustomizationOptions(d, t, groups) = [o \in Y |-> OptionView(d, t, o)]
  BY <1>3, <1>4
<1> QED
  BY <1>5, Zenon DEF Y, groups, ProductOptions

\* The check of an item that is found, and of one that is not.
ChecksAs(d, t, i, check) ==
    /\ ~GetProductByID(d, t, Brand(t), i) => ~check.available
    /\ GetProductByID(d, t, Brand(t), i) =>
          /\ check.available = InStock(d, t, i)
          /\ check.options
               = [o \in DOMAIN ProductOptions(d, t, i) |-> ProductOptions(d, t, i)[o].available]

LEMMA CheckIs ==
    ASSUME NEW d, NEW s, NEW t, t = ResolveStoreContext(d, s), t # None, NEW i
    PROVE  ChecksAs(d, t, i, GetItemAvailability(d, s, i))
<1> DEFINE check == GetItemAvailability(d, s, i)
           os == ProductOptions(d, t, i)
           f == [o \in DOMAIN os |-> os[o].available]
           a == InStock(d, t, i)
<1>1. ListCustomizationOptions(d, t, ListCustomizationGroups({i})) = os
  BY OwnOptions
<1> HIDE DEF os
<1>2. ASSUME ~GetProductByID(d, t, Brand(t), i)
               PROVE check = [available |-> FALSE, options |-> <<>>]
  BY <1>2, Zenon DEF GetItemAvailability, Brand
<1>3. ASSUME GetProductByID(d, t, Brand(t), i) PROVE check = [available |-> a, options |-> f]
  BY <1>1, <1>3, Zenon DEF GetItemAvailability, Brand
<1> HIDE DEF check, f, a
<1>4. ASSUME ~GetProductByID(d, t, Brand(t), i) PROVE ~check.available
  BY <1>2, <1>4
<1>5. ASSUME GetProductByID(d, t, Brand(t), i) PROVE check.available = a /\ check.options = f
  BY <1>3, <1>5
<1> QED
  BY <1>4, <1>5, Zenon DEF ChecksAs, check, f, a, os

\* The four answers agree about an item.
LEMMA OneAgrees ==
    ASSUME NEW d \in MenuType, NEW s, NEW i \in Items, NEW t, t = ResolveStoreContext(d, s),
           t = None \/ t \in Stores
    PROVE  AnswersAgree(ListCategories(d, s, None), ListCategoryItems(d, s, None, Item[i].category),
                        GetItem(d, s, i), GetItemAvailability(d, s, i), Item[i].category, i)
<1> DEFINE c == Item[i].category
           menu == ListCategories(d, s, None)
           page == ListCategoryItems(d, s, None, c)
           item == GetItem(d, s, i)
           check == GetItemAvailability(d, s, i)
<1>1. CASE t = None
  <2>1. menu = None /\ page = None /\ item = None /\ check = None
    BY <1>1, Zenon DEF ListCategories, ListCategoryItems, GetItem, GetItemAvailability
  <2> QED
    BY <2>1, Zenon DEF AnswersAgree
<1>2. CASE t # None
  <2> DEFINE found == i \in ListProducts(d, t, Brand(t))
             view == ProductView(d, t, i)
  <2>1. c \in DOMAIN menu /\ i \in DOMAIN menu[c] => found
    <3> HIDE DEF menu, c
    <3> QED
      BY <1>2, MenuIs DEF menu, c
  <2>2. found => IF InOwnCategory(i)
                 THEN c \in DOMAIN menu /\ i \in DOMAIN menu[c] /\ menu[c][i] = view
                 ELSE c \notin DOMAIN menu
    <3> HIDE DEF menu, c
    <3> QED
      BY <1>2, MenuIs DEF menu, c
  <2>3. (i \in DOMAIN page <=> found) /\ (found => page[i] = view)
    <3> HIDE DEF page, c
    <3> QED
      BY <1>2, CategoryPageIs DEF page, c
  <2>4. (GetProductByID(d, t, Brand(t), i) <=> found) /\ (found => Priced(d, t, i))
    BY Found
  <2>5. item = IF found THEN view ELSE None
    BY <1>2, <2>4, ItemIs
  <2>6. found => view # None
    BY <1>2, <2>4, ProductTyped
  <2>7. view.available = InStock(d, t, i) /\ view.options = ProductOptions(d, t, i)
    BY DEF ProductView
  <2>8. ChecksAs(d, t, i, check)
    BY <1>2, CheckIs
  <2> HIDE DEF found
  <2>9. /\ ~found => ~check.available
        /\ found => /\ check.available = view.available
                    /\ check.options = [o \in DOMAIN view.options |-> view.options[o].available]
    BY <2>4, <2>7, <2>8, Zenon DEF ChecksAs
  <2> HIDE DEF c, menu, page, item, check, found, view
  <2>10. CASE found
    <3>1. item = view /\ item # None
      BY <2>5, <2>6, <2>10
    <3>2. InOwnCategory(i) <=> Category[c] = Item[i].brand
      BY Zenon DEF InOwnCategory, c
    <3> QED
      BY <2>2, <2>3, <2>9, <2>10, <3>1, <3>2, Zenon DEF AnswersAgree, c, menu, page, item, check
  <2>11. CASE ~found
    <3>1. item = None
      BY <2>5, <2>11
    <3> QED
      BY <2>1, <2>3, <2>9, <2>11, <3>1, Zenon DEF AnswersAgree, c, menu, page, item, check
  <2> QED
    BY <2>10, <2>11
<1> QED
  BY <1>1, <1>2

\* A request is answered for an active store, or for none.
LEMMA ContextIs ==
    ASSUME NEW d \in MenuType, NEW s \in Stores \cup {None}
    PROVE  ResolveStoreContext(d, s) = None \/ ResolveStoreContext(d, s) \in Stores
<1>1. d.stores \in SUBSET Stores
  BY DEF MenuType
<1>2. CASE s \in Stores
  BY <1>1, <1>2, StoreResolved
<1>3. CASE s = None
  <2>1. None \notin d.stores
    BY <1>1, StoreIsKnown
  <2>2. ResolveStoreContext(d, s) = IF d.stores # {} THEN Min(d.stores) ELSE None
    BY <1>3, <2>1, Zenon DEF ResolveStoreContext
  <2>3. d.stores # {} => Min(d.stores) \in d.stores
    BY <1>1, FirstStore
  <2> QED
    BY <1>1, <2>2, <2>3
<1> QED
  BY <1>2, <1>3

\* For every menu that edits can lead to, and every store: the menu (ListCategories), the
\* category page, the item page and the availability check, each with its own query, tell
\* the same of every item, and whoever follows the pages of stores finds those that take
\* orders.
THEOREM EveryoneToldTheSame == Spec => []AvailabilityAgrees
<1>1. StoreInv => AvailabilityAgrees
  <2> SUFFICES ASSUME StoreInv PROVE AvailabilityAgrees
    OBVIOUS
  <2>1. db \in MenuType
    BY DEF StoreInv
  <2>2. /\ \A s \in Stores : GetStore(db, s)
             <=> \E p \in Stores : s \in ToSet(ListStores(db, TRUE, p, 1).items)
        /\ \A p \in Stores : ListStores(db, TRUE, p, 1).more
             <=> ListStores(db, TRUE, p + 1, 1).items # <<>>
    BY <2>1, StorePages
  <2>3. ASSUME NEW s \in Stores \cup {None}, NEW i \in Items
        PROVE  AnswersAgree(ListCategories(db, s, None),
                            [c \in DOMAIN Category
                              |-> ListCategoryItems(db, s, None, c)][Item[i].category],
                            GetItem(db, s, i), GetItemAvailability(db, s, i), Item[i].category, i)
    <3> DEFINE t == ResolveStoreContext(db, s)
    <3>1. t = None \/ t \in Stores
      BY <2>1, ContextIs
    <3> HIDE DEF t
    <3>2. AnswersAgree(ListCategories(db, s, None),
            ListCategoryItems(db, s, None, Item[i].category),
                       GetItem(db, s, i), GetItemAvailability(db, s, i), Item[i].category, i)
      BY <2>1, <3>1, OneAgrees DEF t
    <3>3. Item[i].category \in DOMAIN Category
      BY MenuAssumed DEF MenuAssumption
    <3>4. [c \in DOMAIN Category |-> ListCategoryItems(db, s, None, c)][Item[i].category]
          = ListCategoryItems(db, s, None, Item[i].category)
      BY <3>3
    <3> QED
      BY <3>2, <3>4, Zenon
  <2> QED
    BY <2>2, <2>3, Zenon DEF AvailabilityAgrees, AnswersAgree
<1> QED
  BY <1>1, StoreInvariant, PTL
===============================================================================
