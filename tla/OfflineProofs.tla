---------------------------- MODULE OfflineProofs ----------------------------
(***************************************************************************)
(* What the offline metrics promise, for every table of discounts, every   *)
(* set of documents and every ranking: theorems about EvaluationInputs.    *)
(* That the scenario generator judges what it generates, and that on its   *)
(* scenarios reranking finds no less than the first stage: theorems about  *)
(* Scenario.                                                               *)
(*                                                                         *)
(* Sums and precisions are recursive functions, so the lemmas are proved   *)
(* by induction over sets of numbers (Induction).  That the ideal DCG is   *)
(* the highest is a rearrangement argument: taking out, of any different   *)
(* documents, one that is no better than the last of the best ones and     *)
(* closing the gap with the last never costs worth.  That reranking wins   *)
(* is an argument about places: the judged documents of a pool outscore    *)
(* the others, so they come first, and no ranking finds more or earlier.   *)
(***************************************************************************)
EXTENDS EvaluationInputs, Scenario, RankingProofs

-----------------------------------------------------------------------------
(* Induction and sums                                                      *)

(* Induction over the natural numbers, for a set of them.                  *)
LEMMA Induction ==
  ASSUME NEW T, 0 \in T, \A n \in Nat : n \in T => n + 1 \in T
  PROVE  \A n \in Nat : n \in T
<1> SUFFICES ASSUME NEW x \in Nat, x \notin T PROVE FALSE
  OBVIOUS
<1> DEFINE Bad == {n \in Nat : n \notin T}
<1>1. PICK m \in Bad : \A n \in Bad : m <= n
  <2>1. x \in Bad /\ Bad \in SUBSET Nat
    OBVIOUS
  <2> QED
    BY <2>1, LeastNat
<1>2. m \in Nat /\ m # 0 /\ m \notin T
  OBVIOUS
<1>3. m - 1 \in Nat /\ (m - 1) + 1 = m
  BY <1>2
<1>4. m - 1 \notin Bad
  BY <1>1, <1>2, <1>3
<1> QED
  BY <1>2, <1>3, <1>4

\* g starts at v0 and makes each value from the one before.
Scans(g, n, v0, step) ==
  g[0] = v0 /\ \A i \in 1 .. n : g[i] = step[<<i, g[i - 1]>>]

\* Such a g exists, for every n.
LEMMA ScanExists ==
  ASSUME NEW V, NEW v0 \in V, NEW step \in [(Nat \ {0}) \X V -> V]
  PROVE  \A n \in Nat : \E g \in [0 .. n -> V] : Scans(g, n, v0, step)
<1> DEFINE T == {n \in Nat : \E g \in [0 .. n -> V] : Scans(g, n, v0, step)}
<1>1. 0 \in T
  <2>1. [i \in 0 .. 0 |-> v0] \in [0 .. 0 -> V] /\ Scans([i \in 0 .. 0 |-> v0], 0, v0, step)
    BY DEF Scans
  <2> QED
    BY <2>1
<1>2. ASSUME NEW n \in Nat, n \in T PROVE n + 1 \in T
  <2>1. PICK g \in [0 .. n -> V] : Scans(g, n, v0, step)
    BY <1>2
  <2> DEFINE h == [i \in 0 .. n + 1 |-> IF i <= n THEN g[i] ELSE step[<<n + 1, g[n]>>]]
  <2>2. step[<<n + 1, g[n]>>] \in V
    OBVIOUS
  <2>3. h \in [0 .. n + 1 -> V]
    BY <2>2
  <2>4. /\ \A i \in 0 .. n : h[i] = g[i]
        /\ h[n + 1] = step[<<n + 1, g[n]>>]
    OBVIOUS
  <2> HIDE DEF h
  <2>5. ASSUME NEW i \in 1 .. n + 1 PROVE h[i] = step[<<i, h[i - 1]>>]
    <3>1. CASE i = n + 1
      <4>1. i - 1 = n /\ n \in 0 .. n
        BY <3>1
      <4> QED
        BY <2>4, <3>1, <4>1
    <3>2. CASE i \in 1 .. n
      <4>1. i \in 0 .. n /\ i - 1 \in 0 .. n
        BY <3>2
      <4>2. g[i] = step[<<i, g[i - 1]>>]
        BY <2>1, <3>2 DEF Scans
      <4> QED
        BY <2>4, <4>1, <4>2
    <3> QED
      BY <3>1, <3>2
  <2>6. h[0] = v0
    BY <2>1, <2>4 DEF Scans
  <2>7. Scans(h, n + 1, v0, step)
    BY <2>5, <2>6 DEF Scans
  <2> QED
    BY <2>3, <2>7
<1> HIDE DEF T
<1>3. \A n \in Nat : n \in T
  BY <1>1, <1>2, Induction
<1> QED
  BY <1>3 DEF T

\* g holds the sums of the first values.
Sums(g, values, n) ==
  g[0] = 0 /\ \A i \in 1 .. n : g[i] = g[i - 1] + values[i]

\* Total computes sums that start at 0 and grow by one value at a time.
LEMMA TotalIsScan ==
  ASSUME NEW n \in Nat, NEW values \in [1 .. n -> Int]
  PROVE  \E g \in [0 .. n -> Int] : Sums(g, values, n) /\ Total(values) = g[n]
<1> DEFINE val(i) == IF i \in 1 .. n THEN values[i] ELSE 0
           step == [x \in (Nat \ {0}) \X Int |-> x[2] + val(x[1])]
           Eq(g) == g = [i \in 0 .. n |-> IF i = 0 THEN 0 ELSE g[i - 1] + values[i]]
<1>1. Len(values) = n
  <2>1. values \in Seq(Int)
    OBVIOUS
  <2> QED
    BY <2>1
<1>2. \A i \in Nat \ {0} : val(i) \in Int
  OBVIOUS
<1>3. step \in [(Nat \ {0}) \X Int -> Int]
  <2> HIDE DEF val
  <2> QED
    BY <1>2
<1>4. PICK g \in [0 .. n -> Int] : Scans(g, n, 0, step)
  <2> HIDE DEF step
  <2>1. 0 \in Int
    OBVIOUS
  <2> QED
    BY <1>3, <2>1, ScanExists
<1>5. ASSUME NEW i \in 1 .. n PROVE g[i] = g[i - 1] + values[i]
  <2>1. <<i, g[i - 1]>> \in (Nat \ {0}) \X Int
    OBVIOUS
  <2>2. step[<<i, g[i - 1]>>] = g[i - 1] + val(i)
    BY <2>1
  <2> QED
    BY <1>4, <2>2 DEF Scans
<1>6. Eq(g)
  BY <1>4, <1>5 DEF Scans
<1> DEFINE f == CHOOSE h : Eq(h)
<1>7. Eq(f)
  BY <1>6
<1>8. Total(values) = f[n]
  BY <1>1 DEF Total
<1> HIDE DEF f
<1>9. f[0] = 0 /\ DOMAIN f = 0 .. n /\ \A i \in 1 .. n : f[i] = f[i - 1] + values[i]
  <2>1. \A i \in 0 .. n : f[i] = IF i = 0 THEN 0 ELSE f[i - 1] + values[i]
    BY ONLY <1>7
  <2> QED
    BY <1>7, <2>1
<1>10. f \in [0 .. n -> Int]
  <2> DEFINE T == {i \in Nat : i \in 0 .. n => f[i] \in Int}
  <2>1. 0 \in T
    BY <1>9
  <2>2. ASSUME NEW i \in Nat, i \in T PROVE i + 1 \in T
    <3> SUFFICES ASSUME i + 1 \in 0 .. n PROVE f[i + 1] \in Int
      OBVIOUS
    <3>1. i + 1 \in 1 .. n /\ i \in 0 .. n /\ (i + 1) - 1 = i
      OBVIOUS
    <3>2. f[i + 1] = f[i] + values[i + 1]
      BY <1>9, <3>1
    <3> QED
      BY <2>2, <3>1, <3>2
  <2>3. \A i \in Nat : i \in T
    <3> HIDE DEF T
    <3> QED
      BY <2>1, <2>2, Induction
  <2>4. \A i \in 0 .. n : f[i] \in Int
    BY <2>3
  <2> QED
    BY <1>7, <2>4
<1> QED
  BY <1>8, <1>9, <1>10 DEF Sums

(* One set of values has one set of sums.                                  *)
LEMMA SumsAreUnique ==
  ASSUME NEW n \in Nat, NEW values \in [1 .. n -> Int],
         NEW f \in [0 .. n -> Int], Sums(f, values, n),
         NEW g \in [0 .. n -> Int], Sums(g, values, n)
  PROVE  \A i \in 0 .. n : f[i] = g[i]
<1> DEFINE T == {i \in Nat : i \in 0 .. n => f[i] = g[i]}
<1>1. 0 \in T
  BY DEF Sums
<1>2. ASSUME NEW i \in Nat, i \in T PROVE i + 1 \in T
  <2> SUFFICES ASSUME i + 1 \in 0 .. n PROVE f[i + 1] = g[i + 1]
    OBVIOUS
  <2>1. i + 1 \in 1 .. n /\ i \in 0 .. n /\ (i + 1) - 1 = i
    OBVIOUS
  <2>2. f[i + 1] = f[i] + values[i + 1] /\ g[i + 1] = g[i] + values[i + 1]
    BY <2>1 DEF Sums
  <2> QED
    BY <1>2, <2>1, <2>2
<1> HIDE DEF T
<1>3. \A i \in Nat : i \in T
  BY <1>1, <1>2, Induction
<1> QED
  BY <1>3 DEF T

(* Any sums of the values end in their total.                              *)
LEMMA TotalIs ==
  ASSUME NEW n \in Nat, NEW values \in [1 .. n -> Int],
         NEW g \in [0 .. n -> Int], Sums(g, values, n)
  PROVE  Total(values) = g[n]
<1>1. PICK f \in [0 .. n -> Int] : Sums(f, values, n) /\ Total(values) = f[n]
  BY TotalIsScan
<1>2. \A i \in 0 .. n : f[i] = g[i]
  BY <1>1, SumsAreUnique
<1> QED
  BY <1>1, <1>2

\* The first n of some values.
First(values, n) == [i \in 1 .. n |-> values[i]]

(* The total is made one value at a time.                                  *)
LEMMA TotalGrows ==
  ASSUME NEW n \in Nat, NEW values \in [1 .. n -> Int]
  PROVE  /\ Total(values) \in Int
         /\ n = 0 => Total(values) = 0
         /\ First(values, n) = values
         /\ \A m \in 0 .. n : First(values, m) \in [1 .. m -> Int]
         /\ \A m \in 1 .. n : Total(First(values, m)) = Total(First(values, m - 1)) + values[m]
<1>1. PICK g \in [0 .. n -> Int] : Sums(g, values, n) /\ Total(values) = g[n]
  BY TotalIsScan
<1>2. ASSUME NEW m \in 0 .. n
      PROVE  First(values, m) \in [1 .. m -> Int] /\ Total(First(values, m)) = g[m]
  <2> DEFINE h == [i \in 0 .. m |-> g[i]]
  <2>1. First(values, m) \in [1 .. m -> Int] /\ \A i \in 1 .. m : First(values, m)[i] = values[i]
    BY DEF First
  <2>2. h \in [0 .. m -> Int] /\ \A i \in 0 .. m : h[i] = g[i]
    OBVIOUS
  <2> HIDE DEF h
  <2>3. Sums(h, First(values, m), m)
    <3>1. h[0] = 0
      BY <1>1, <2>2 DEF Sums
    <3>2. ASSUME NEW i \in 1 .. m PROVE h[i] = h[i - 1] + First(values, m)[i]
      <4>1. i \in 0 .. m /\ i - 1 \in 0 .. m /\ i \in 1 .. n
        OBVIOUS
      <4>2. g[i] = g[i - 1] + values[i]
        BY <1>1, <4>1 DEF Sums
      <4> QED
        BY <2>1, <2>2, <4>1, <4>2
    <3> QED
      BY <3>1, <3>2 DEF Sums
  <2>4. m \in Nat /\ m \in 0 .. m
    OBVIOUS
  <2>5. Total(First(values, m)) = h[m]
    BY <2>4, <2>1, <2>2, <2>3, TotalIs
  <2> QED
    BY <2>1, <2>2, <2>4, <2>5
<1>3. First(values, n) = values
  BY DEF First
<1>4. ASSUME NEW m \in 1 .. n
      PROVE  Total(First(values, m)) = Total(First(values, m - 1)) + values[m]
  <2>1. m \in 0 .. n /\ m - 1 \in 0 .. n
    OBVIOUS
  <2>2. g[m] = g[m - 1] + values[m]
    BY <1>1 DEF Sums
  <2> QED
    BY <1>2, <2>1, <2>2
<1>5. Total(values) \in Int /\ (n = 0 => Total(values) = 0)
  BY <1>1 DEF Sums
<1>6. \A m \in 0 .. n : First(values, m) \in [1 .. m -> Int]
  BY <1>2
<1>7. \A m \in 1 .. n : Total(First(values, m)) = Total(First(values, m - 1)) + values[m]
  BY <1>4
<1> QED
  BY <1>3, <1>5, <1>6, <1>7

(* No value less, no total less; and one value more, and the total is.     *)
LEMMA TotalCompares ==
  ASSUME NEW n \in Nat, NEW a \in [1 .. n -> Int], NEW b \in [1 .. n -> Int],
         \A i \in 1 .. n : a[i] <= b[i]
  PROVE  /\ Total(a) <= Total(b)
         /\ \A l \in 1 .. n : a[l] < b[l] => Total(a) < Total(b)
<1> DEFINE A(m) == Total(First(a, m))
           B(m) == Total(First(b, m))
           Less(m) == \E l \in 1 .. m : a[l] < b[l]
           T == {m \in Nat : m <= n => A(m) <= B(m) /\ (Less(m) => A(m) < B(m))}
<1>1. ASSUME NEW m \in 0 .. n
      PROVE  A(m) \in Int /\ B(m) \in Int /\ (m = 0 => A(m) = 0 /\ B(m) = 0)
  <2>1. First(a, m) \in [1 .. m -> Int] /\ First(b, m) \in [1 .. m -> Int]
    BY TotalGrows
  <2> QED
    BY <2>1, TotalGrows
<1>2. ASSUME NEW m \in 1 .. n PROVE A(m) = A(m - 1) + a[m] /\ B(m) = B(m - 1) + b[m]
  BY TotalGrows
<1>3. A(n) = Total(a) /\ B(n) = Total(b)
  BY TotalGrows
<1> HIDE DEF A, B
<1>4. 0 \in T
  BY <1>1
<1>5. ASSUME NEW m \in Nat, m \in T PROVE m + 1 \in T
  <2> SUFFICES ASSUME m + 1 <= n
               PROVE  A(m + 1) <= B(m + 1) /\ (Less(m + 1) => A(m + 1) < B(m + 1))
    OBVIOUS
  <2>1. m \in 0 .. n /\ m + 1 \in 1 .. n /\ (m + 1) - 1 = m /\ m + 1 \in 0 .. n
    OBVIOUS
  <2>2. A(m + 1) = A(m) + a[m + 1] /\ B(m + 1) = B(m) + b[m + 1]
    BY <1>2, <2>1
  <2>3. a[m + 1] <= b[m + 1] /\ a[m + 1] \in Int /\ b[m + 1] \in Int
    BY <2>1
  <2>4. A(m) <= B(m) /\ (Less(m) => A(m) < B(m)) /\ A(m) \in Int /\ B(m) \in Int
    BY <1>1, <1>5, <2>1
  <2>5. Less(m + 1) => Less(m) \/ a[m + 1] < b[m + 1]
    <3>1. \A l \in 1 .. m + 1 : l \in 1 .. m \/ l = m + 1
      OBVIOUS
    <3> QED
      BY <3>1
  <2> HIDE DEF Less
  <2> QED
    BY <2>2, <2>3, <2>4, <2>5
<1> HIDE DEF T
<1>6. n \in T
  BY <1>4, <1>5, Induction
<1> QED
  BY <1>3, <1>6 DEF T

(* The total with one value changed.                                       *)
LEMMA TotalReplaces ==
  ASSUME NEW n \in Nat, NEW values \in [1 .. n -> Int], NEW l \in 1 .. n, NEW x \in Int
  PROVE  Total([values EXCEPT ![l] = x]) = Total(values) - values[l] + x
<1> DEFINE b == [values EXCEPT ![l] = x]
           A(m) == Total(First(values, m))
           B(m) == Total(First(b, m))
           T == {m \in Nat : m <= n => B(m) = IF m < l THEN A(m) ELSE A(m) - values[l] + x}
<1>1. /\ b \in [1 .. n -> Int] /\ b[l] = x
      /\ \A i \in 1 .. n : i # l => b[i] = values[i]
      /\ values[l] \in Int
  OBVIOUS
<1> HIDE DEF b
<1>2. ASSUME NEW m \in 0 .. n
      PROVE  A(m) \in Int /\ B(m) \in Int /\ (m = 0 => A(m) = 0 /\ B(m) = 0)
  <2>1. First(values, m) \in [1 .. m -> Int] /\ First(b, m) \in [1 .. m -> Int]
    BY <1>1, TotalGrows
  <2> QED
    BY <2>1, TotalGrows
<1>3. ASSUME NEW m \in 1 .. n PROVE A(m) = A(m - 1) + values[m] /\ B(m) = B(m - 1) + b[m]
  BY <1>1, TotalGrows
<1>4. A(n) = Total(values) /\ B(n) = Total(b)
  BY <1>1, TotalGrows
<1> HIDE DEF A, B
<1>5. 0 \in T
  BY <1>2
<1>6. ASSUME NEW m \in Nat, m \in T PROVE m + 1 \in T
  <2> SUFFICES ASSUME m + 1 <= n
               PROVE  B(m + 1) = IF m + 1 < l THEN A(m + 1) ELSE A(m + 1) - values[l] + x
    OBVIOUS
  <2>1. m \in 0 .. n /\ m + 1 \in 1 .. n /\ (m + 1) - 1 = m
    OBVIOUS
  <2>2. A(m + 1) = A(m) + values[m + 1] /\ B(m + 1) = B(m) + b[m + 1]
    BY <1>3, <2>1
  <2>3. B(m) = (IF m < l THEN A(m) ELSE A(m) - values[l] + x) /\ A(m) \in Int /\ B(m) \in Int
    BY <1>2, <1>6, <2>1
  <2>4. values[m + 1] \in Int /\ b[m + 1] \in Int
    BY <1>1, <2>1
  <2>5. CASE m + 1 = l
    <3>1. m < l /\ ~(m + 1 < l) /\ b[m + 1] = x /\ values[m + 1] = values[l]
      BY <1>1, <2>5
    <3>2. B(m) = A(m)
      BY <2>3, <3>1
    <3>3. B(m + 1) = A(m + 1) - values[l] + x
      BY <1>1, <2>2, <2>3, <3>1, <3>2
    <3> QED
      BY <3>1, <3>3
  <2>6. CASE m + 1 # l
    <3>1. b[m + 1] = values[m + 1] /\ (m < l <=> m + 1 < l)
      BY <1>1, <2>1, <2>6
    <3>2. CASE m < l
      BY <2>2, <2>3, <3>1, <3>2
    <3>3. CASE ~(m < l)
      <4>1. B(m) = A(m) - values[l] + x
        BY <2>3, <3>3
      <4>2. B(m + 1) = A(m + 1) - values[l] + x
        BY <1>1, <2>2, <2>3, <2>4, <3>1, <4>1
      <4> QED
        BY <3>1, <3>3, <4>2
    <3> QED
      BY <3>2, <3>3
  <2> QED
    BY <2>5, <2>6
<1> HIDE DEF T
<1>7. n \in T
  BY <1>5, <1>6, Induction
<1> QED
  BY <1>4, <1>7 DEF T, b

-----------------------------------------------------------------------------
(* Rearrangement: no list of different documents is worth more than the    *)
(* one that has the most worthy first                                      *)

\* Facts on products that the provers need one at a time.
LEMMA Products ==
  /\ \A a, b, x, y \in Int : a <= b /\ y <= x => a * x + b * y <= b * x + a * y
  /\ \A a, b, x, y \in Int : a < b /\ y < x => a * x + b * y < b * x + a * y
  /\ \A a, b, x \in Int : a <= b /\ 0 <= x => a * x <= b * x
  /\ \A a, b, x \in Int : a < b /\ 0 < x => a * x < b * x
  /\ \A a, x \in Nat : a * x \in Nat
  /\ \A a, x \in Int : (a + 1) * x = a * x + x /\ a * x = x * a
<1>1. ASSUME NEW a \in Int, NEW b \in Int, NEW x \in Int, NEW y \in Int, a <= b, y <= x
      PROVE  a * x + b * y <= b * x + a * y
  <2>1. 0 <= (b - a) * (x - y)
    BY <1>1
  <2> QED
    BY <2>1
<1>1a. ASSUME NEW a \in Int, NEW b \in Int, NEW x \in Int, NEW y \in Int, a < b, y < x
       PROVE  a * x + b * y < b * x + a * y
  <2>1. 0 < (b - a) * (x - y)
    BY <1>1a
  <2> QED
    BY <2>1
<1>2. ASSUME NEW a \in Int, NEW b \in Int, NEW x \in Int, a <= b, 0 <= x PROVE a * x <= b * x
  BY <1>2
<1>3. ASSUME NEW a \in Int, NEW b \in Int, NEW x \in Int, a < b, 0 < x PROVE a * x < b * x
  BY <1>3
<1>4. \A a, x \in Nat : a * x \in Nat
  OBVIOUS
<1>5. \A a, x \in Int : (a + 1) * x = a * x + x /\ a * x = x * a
  OBVIOUS
<1> QED
  BY <1>1, <1>1a, <1>2, <1>3, <1>4, <1>5

\* What the first n documents of f are worth, each at its rank.
Worths(f, val, n) == [i \in 1 .. n |-> val[f[i]] * Discount[i]]

\* The i-th most worthy of the documents that q lists, the best first.
Best(q, len, val, i) == IF i <= len THEN val[q[i]] ELSE 0

Bests(q, len, val, n) == [i \in 1 .. n |-> Best(q, len, val, i) * Discount[i]]

\* q lists the worthy documents, the most worthy first.
Lists(q, len, val, S) ==
  /\ q \in [1 .. len -> S]
  /\ \A i, j \in 1 .. len : i < j => val[q[i]] >= val[q[j]]
  /\ \A s \in S : val[s] > 0 => \E i \in 1 .. len : q[i] = s

\* DiscountAssumption, over the numbers of the ranks.
LEMMA DiscountFacts ==
  /\ Len(Discount) \in Nat
  /\ \A i \in 1 .. Len(Discount) : Discount[i] \in Nat \ {0}
  /\ \A i, j \in 1 .. Len(Discount) : i < j => Discount[j] < Discount[i]
<1>1. Discount \in Seq(Nat \ {0}) /\ DOMAIN Discount = 1 .. Len(Discount) /\ Len(Discount) \in Nat
  BY DiscountAssumption DEF DiscountAssumption
<1>2. \A i \in 1 .. Len(Discount) : Discount[i] \in Nat \ {0}
  BY <1>1
<1>3. \A i, j \in 1 .. Len(Discount) : i < j => Discount[i] > Discount[j]
  BY <1>1, DiscountAssumption DEF DiscountAssumption
<1> QED
  BY <1>1, <1>2, <1>3

(* Of n+1 different documents one is not worth more than the n+1st best:   *)
(* the better ones are n at most.                                          *)
LEMMA OneIsNoBetter ==
  ASSUME NEW S, NEW val \in [S -> Nat], NEW len \in Nat, NEW q, Lists(q, len, val, S),
         NEW n \in Nat, NEW f \in Injection(1 .. n + 1, S)
  PROVE  \E l \in 1 .. n + 1 : val[f[l]] <= Best(q, len, val, n + 1)
<1> SUFFICES ASSUME \A l \in 1 .. n + 1 : ~(val[f[l]] <= Best(q, len, val, n + 1))
             PROVE  FALSE
  OBVIOUS
<1>1. f \in [1 .. n + 1 -> S] /\ \A i, j \in 1 .. n + 1 : f[i] = f[j] => i = j
  BY Fun_InjectionProperties
<1>2. ASSUME NEW l \in 1 .. n + 1
      PROVE  \E i \in 1 .. n : i <= len /\ q[i] = f[l]
  <2>1. f[l] \in S /\ val[f[l]] \in Nat
    BY <1>1
  <2>2. Best(q, len, val, n + 1) \in Nat
    <3>1. n + 1 <= len => q[n + 1] \in S
      BY DEF Lists
    <3> QED
      BY <3>1 DEF Best
  <2>3. val[f[l]] > Best(q, len, val, n + 1)
    BY <2>1, <2>2
  <2>4. val[f[l]] > 0
    BY <2>1, <2>2, <2>3
  <2>5. PICK i \in 1 .. len : q[i] = f[l]
    BY <2>1, <2>4 DEF Lists
  <2>6. i <= n
    <3> SUFFICES ASSUME n + 1 <= i PROVE FALSE
      OBVIOUS
    <3>1. Best(q, len, val, n + 1) = val[q[n + 1]] /\ n + 1 \in 1 .. len
      BY DEF Best
    <3>2. val[q[n + 1]] >= val[q[i]]
      <4>1. CASE n + 1 = i
        BY <2>1, <2>5, <4>1
      <4>2. CASE n + 1 < i
        BY <3>1, <4>2 DEF Lists
      <4> QED
        BY <4>1, <4>2
    <3> QED
      BY <2>1, <2>2, <2>3, <2>5, <3>1, <3>2
  <2> QED
    BY <2>5, <2>6
<1> DEFINE h == [l \in 1 .. n + 1 |-> CHOOSE i \in 1 .. n : i <= len /\ q[i] = f[l]]
<1>3. ASSUME NEW l \in 1 .. n + 1 PROVE h[l] \in 1 .. n /\ q[h[l]] = f[l]
  BY <1>2
<1> HIDE DEF h
<1>4. h \in [1 .. n + 1 -> 1 .. n]
  BY <1>3 DEF h
<1>5. /\ IsFiniteSet(1 .. n + 1) /\ Cardinality(1 .. n + 1) = n + 1
      /\ IsFiniteSet(1 .. n) /\ Cardinality(1 .. n) = n
  BY FS_Interval
<1>6. \E x, y \in 1 .. n + 1 : x # y /\ h[x] = h[y]
  <2>1. Cardinality(1 .. n) < Cardinality(1 .. n + 1)
    BY <1>5
  <2> QED
    BY ONLY <1>4, <1>5, <2>1, FS_PigeonHole
<1>7. PICK x \in 1 .. n + 1, y \in 1 .. n + 1 : x # y /\ h[x] = h[y]
  BY <1>6
<1>8. f[x] = f[y]
  BY <1>3, <1>7
<1> QED
  BY <1>1, <1>7, <1>8

\* Worths and their sum are integers.
LEMMA WorthsTyped ==
  ASSUME NEW S, NEW val \in [S -> Nat], NEW n \in 0 .. Len(Discount), NEW f \in [1 .. n -> S]
  PROVE  Worths(f, val, n) \in [1 .. n -> Int] /\ Total(Worths(f, val, n)) \in Int
<1>1. \A i \in 1 .. n : val[f[i]] * Discount[i] \in Int
  <2> SUFFICES ASSUME NEW i \in 1 .. n PROVE val[f[i]] * Discount[i] \in Int
    OBVIOUS
  <2>1. val[f[i]] \in Nat /\ Discount[i] \in Nat
    BY DiscountFacts
  <2> QED
    BY <2>1
<1>2. Worths(f, val, n) \in [1 .. n -> Int]
  BY <1>1 DEF Worths
<1>3. n \in Nat
  BY DiscountFacts
<1> QED
  BY <1>2, <1>3, TotalGrows

\* So are those of the best.
LEMMA BestsTyped ==
  ASSUME NEW S, NEW val \in [S -> Nat], NEW len \in Nat, NEW q, Lists(q, len, val, S),
         NEW n \in 0 .. Len(Discount)
  PROVE  /\ Bests(q, len, val, n) \in [1 .. n -> Int] /\ Total(Bests(q, len, val, n)) \in Int
         /\ \A i \in Nat \ {0} : Best(q, len, val, i) \in Nat
<1>1. ASSUME NEW i \in Nat \ {0} PROVE Best(q, len, val, i) \in Nat
  <2>1. i <= len => q[i] \in S
    BY DEF Lists
  <2> QED
    BY <2>1 DEF Best
<1>2. ASSUME NEW i \in 1 .. n PROVE Best(q, len, val, i) * Discount[i] \in Int
  <2>1. Best(q, len, val, i) \in Nat /\ Discount[i] \in Nat
    BY <1>1, DiscountFacts
  <2> QED
    BY <2>1
<1>3. Bests(q, len, val, n) \in [1 .. n -> Int]
  BY <1>2 DEF Bests
<1>4. n \in Nat
  BY DiscountFacts
<1> QED
  BY <1>1, <1>3, <1>4, TotalGrows

\* f without its last document, which takes the place of the l-th.
Moved(f, n, l) == [i \in 1 .. n |-> IF i = l THEN f[n + 1] ELSE f[i]]

\* Closing the gap leaves different documents.
LEMMA MovedFacts ==
  ASSUME NEW S, NEW n \in Nat, NEW f \in Injection(1 .. n + 1, S), NEW l \in 1 .. n + 1
  PROVE  Moved(f, n, l) \in Injection(1 .. n, S)
<1>1. f \in [1 .. n + 1 -> S] /\ \A i, j \in 1 .. n + 1 : f[i] = f[j] => i = j
  BY Fun_InjectionProperties
<1>2. \A i \in 1 .. n : i \in 1 .. n + 1 /\ i # n + 1
  OBVIOUS
<1>3. n + 1 \in 1 .. n + 1
  OBVIOUS
<1>4. Moved(f, n, l) \in [1 .. n -> S]
  BY <1>1, <1>2, <1>3 DEF Moved
<1>5. \A i \in 1 .. n : Moved(f, n, l)[i] = IF i = l THEN f[n + 1] ELSE f[i]
  BY DEF Moved
<1>6. ASSUME NEW i \in 1 .. n, NEW j \in 1 .. n, Moved(f, n, l)[i] = Moved(f, n, l)[j]
      PROVE  i = j
  BY ONLY <1>1, <1>2, <1>3, <1>5, <1>6
<1> QED
  BY <1>4, <1>6, Fun_IsInj

(* The induction step: one document more.                                  *)
LEMMA RearrangementStep ==
  ASSUME NEW S, NEW val \in [S -> Nat], NEW len \in Nat, NEW q, Lists(q, len, val, S),
         NEW n \in Nat, n + 1 <= Len(Discount),
         \A f \in Injection(1 .. n, S) : Total(Worths(f, val, n)) <= Total(Bests(q, len, val, n)),
         NEW f \in Injection(1 .. n + 1, S)
  PROVE  Total(Worths(f, val, n + 1)) <= Total(Bests(q, len, val, n + 1))
<1> DEFINE D == Discount[n + 1]
           best == Best(q, len, val, n + 1)
           last == val[f[n + 1]]
           whole == Worths(f, val, n + 1)
           part == Worths(f, val, n)
<1>1. f \in [1 .. n + 1 -> S] /\ n \in 0 .. Len(Discount) /\ n + 1 \in 0 .. Len(Discount)
      /\ n + 1 \in 1 .. n + 1
  BY Fun_InjectionProperties, DiscountFacts
<1>2. D \in Nat /\ best \in Nat /\ last \in Nat
  <2>1. n + 1 \in 1 .. Len(Discount) /\ n + 1 \in Nat \ {0}
    BY <1>1
  <2> QED
    BY <1>1, <2>1, DiscountFacts, BestsTyped
<1>3. whole \in [1 .. n + 1 -> Int]
  BY <1>1, WorthsTyped
<1>4. First(whole, n) = part /\ First(whole, n + 1) = whole /\ whole[n + 1] = last * D
  BY <1>1 DEF First, Worths
<1>5. Total(whole) = Total(part) + last * D
  <2>1. n + 1 \in Nat /\ (n + 1) - 1 = n
    OBVIOUS
  <2>2. Total(First(whole, n + 1)) = Total(First(whole, (n + 1) - 1)) + whole[n + 1]
    BY <1>1, <1>3, <2>1, TotalGrows
  <2> QED
    BY <1>4, <2>1, <2>2
<1>6. Total(Bests(q, len, val, n + 1)) = Total(Bests(q, len, val, n)) + best * D
  <2> DEFINE all == Bests(q, len, val, n + 1)
  <2>1. all \in [1 .. n + 1 -> Int]
    BY <1>1, BestsTyped
  <2>2. First(all, n) = Bests(q, len, val, n) /\ First(all, n + 1) = all /\ all[n + 1] = best * D
    BY <1>1 DEF First, Bests
  <2> HIDE DEF all
  <2>3. n + 1 \in Nat /\ (n + 1) - 1 = n
    OBVIOUS
  <2>4. Total(First(all, n + 1)) = Total(First(all, (n + 1) - 1)) + all[n + 1]
    BY <1>1, <2>1, <2>3, TotalGrows
  <2> QED
    BY <2>2, <2>3, <2>4 DEF all
<1>7. Total(part) \in Int /\ Total(Bests(q, len, val, n)) \in Int /\ part \in [1 .. n -> Int]
  <2>1. n \in Nat /\ part \in [1 .. n -> Int]
    <3>1. First(whole, n) \in [1 .. n -> Int]
      <4>1. n + 1 \in Nat /\ n \in 0 .. n + 1
        OBVIOUS
      <4> QED
        BY <1>3, <4>1, TotalGrows
    <3> QED
      BY <1>4, <3>1
  <2> QED
    BY <1>1, <2>1, BestsTyped, TotalGrows
<1>8. \A l \in 1 .. n + 1 : Total(Worths(Moved(f, n, l), val, n)) <= Total(Bests(q, len, val, n))
  BY MovedFacts
<1>9. CASE last <= best
  <2>1. Worths(Moved(f, n, n + 1), val, n) = part
    BY <1>1 DEF Worths, Moved
  <2>2. Total(part) <= Total(Bests(q, len, val, n))
    BY <1>1, <1>8, <2>1
  <2>3. last * D <= best * D /\ last * D \in Int /\ best * D \in Int
    BY <1>2, <1>9, Products
  <2> HIDE DEF part, last, D, best
  <2> QED
    BY <1>5, <1>6, <1>7, <2>2, <2>3
<1>10. CASE best < last
  <2>1. PICK l \in 1 .. n + 1 : val[f[l]] <= best
    BY OneIsNoBetter
  <2> DEFINE low == val[f[l]]
             E == Discount[l]
  <2>2. l \in 1 .. n /\ l # n + 1
    BY <1>2, <1>10, <2>1
  <2>3. low \in Nat /\ E \in Nat /\ D <= E
    <3>1. l \in 1 .. Len(Discount) /\ n + 1 \in 1 .. Len(Discount) /\ l < n + 1
      BY <1>1, <2>2
    <3>2. Discount[n + 1] < Discount[l] /\ Discount[l] \in Nat
      BY <3>1, DiscountFacts
    <3> QED
      BY <1>1, <1>2, <3>2
  <2>4. Worths(Moved(f, n, l), val, n) = [part EXCEPT ![l] = last * E] /\ part[l] = low * E
    BY <1>1, <2>2 DEF Worths, Moved
  <2> HIDE DEF part, last, D, best, low, E, whole
  <2>5. last * E \in Int /\ low * E \in Int /\ last * D \in Int /\ low * D \in Int /\ best * D \in Int
    BY <1>2, <2>3
  <2>6. Total([part EXCEPT ![l] = last * E]) = Total(part) - low * E + last * E
    <3> DEFINE x == last * E
    <3>1. x \in Int /\ part \in [1 .. n -> Int] /\ l \in 1 .. n /\ n \in Nat
      BY <1>7, <2>2, <2>5
    <3> HIDE DEF x
    <3>2. Total([part EXCEPT ![l] = x]) = Total(part) - part[l] + x
      BY ONLY <3>1, TotalReplaces
    <3> QED
      BY <2>4, <3>2 DEF x
  <2>7. Total(part) - low * E + last * E <= Total(Bests(q, len, val, n))
    BY <1>8, <2>4, <2>6
  <2>8. low * E + last * D <= last * E + low * D
    <3>1. low <= last
      BY <1>2, <1>10, <2>1, <2>3 DEF low
    <3> QED
      BY <1>2, <2>3, <3>1, Products
  <2>9. low * D <= best * D
    <3>1. low <= best
      BY <2>1 DEF low
    <3> QED
      BY <1>2, <2>3, <3>1, Products
  <2> QED
    BY <1>5, <1>6, <1>7, <2>5, <2>7, <2>8, <2>9, SMTT(30) DEF whole
<1> QED
  BY <1>2, <1>9, <1>10

\* By induction on n: no n different documents are worth more than the n best.
LEMMA Rearrangement ==
  ASSUME NEW S, NEW val \in [S -> Nat], NEW len \in Nat, NEW q, Lists(q, len, val, S)
  PROVE  \A n \in 0 .. Len(Discount) : \A f \in Injection(1 .. n, S) :
           Total(Worths(f, val, n)) <= Total(Bests(q, len, val, n))
<1> DEFINE Good(n) == \A f \in Injection(1 .. n, S) :
                        Total(Worths(f, val, n)) <= Total(Bests(q, len, val, n))
           T == {n \in Nat : n <= Len(Discount) => Good(n)}
<1>1. 0 \in T
  <2> SUFFICES ASSUME NEW f \in Injection(1 .. 0, S)
               PROVE  Total(Worths(f, val, 0)) <= Total(Bests(q, len, val, 0))
    OBVIOUS
  <2>1. Worths(f, val, 0) \in [1 .. 0 -> Int] /\ Bests(q, len, val, 0) \in [1 .. 0 -> Int]
    <3>1. 0 \in 0 .. Len(Discount) /\ f \in [1 .. 0 -> S]
      BY DiscountFacts, Fun_InjectionProperties
    <3> QED
      BY <3>1, WorthsTyped, BestsTyped
  <2>2. Total(Worths(f, val, 0)) = 0 /\ Total(Bests(q, len, val, 0)) = 0
    BY <2>1, TotalGrows
  <2> QED
    BY <2>2
<1>2. ASSUME NEW n \in Nat, n \in T PROVE n + 1 \in T
  <2> SUFFICES ASSUME n + 1 <= Len(Discount) PROVE Good(n + 1)
    OBVIOUS
  <2>1. Good(n)
    BY <1>2, DiscountFacts
  <2> SUFFICES ASSUME NEW f \in Injection(1 .. n + 1, S)
               PROVE  Total(Worths(f, val, n + 1)) <= Total(Bests(q, len, val, n + 1))
    OBVIOUS
  <2> QED
    BY <2>1, RearrangementStep
<1> HIDE DEF T
<1>3. \A n \in Nat : n \in T
  BY <1>1, <1>2, Induction
<1> QED
  BY <1>3, DiscountFacts DEF T

(* More values that are not negative make no less; zeros change nothing.   *)
LEMMA PrefixTotals ==
  ASSUME NEW n \in Nat, NEW values \in [1 .. n -> Int], \A i \in 1 .. n : 0 <= values[i],
         NEW m \in 0 .. n
  PROVE  /\ 0 <= Total(First(values, m)) /\ Total(First(values, m)) <= Total(values)
         /\ (\A i \in 1 .. n : i > m => values[i] = 0) => Total(First(values, m)) = Total(values)
<1> DEFINE A(j) == Total(First(values, j))
<1>1. ASSUME NEW j \in 0 .. n PROVE A(j) \in Int /\ (j = 0 => A(j) = 0)
  <2>1. First(values, j) \in [1 .. j -> Int] /\ j \in Nat
    BY TotalGrows
  <2> QED
    BY <2>1, TotalGrows
<1>2. ASSUME NEW j \in 1 .. n PROVE A(j) = A(j - 1) + values[j]
  BY TotalGrows
<1>3. A(n) = Total(values)
  BY TotalGrows
<1> HIDE DEF A
<1> DEFINE T == {j \in Nat : j <= n => 0 <= A(j)}
           U == {j \in Nat : j <= n /\ m <= j =>
                   A(m) <= A(j) /\ ((\A i \in 1 .. n : i > m => values[i] = 0) => A(m) = A(j))}
<1>4. 0 \in T
  BY <1>1
<1>5. ASSUME NEW j \in Nat, j \in T PROVE j + 1 \in T
  <2> SUFFICES ASSUME j + 1 <= n PROVE 0 <= A(j + 1)
    OBVIOUS
  <2>1. j \in 0 .. n /\ j + 1 \in 1 .. n /\ (j + 1) - 1 = j
    OBVIOUS
  <2>2. A(j + 1) = A(j) + values[j + 1] /\ A(j) \in Int /\ values[j + 1] \in Int
    BY <1>1, <1>2, <2>1
  <2>3. 0 <= values[j + 1] /\ 0 <= A(j)
    BY <1>5, <2>1
  <2> QED
    BY <2>2, <2>3
<1>6. \A j \in Nat : j \in T
  <2> HIDE DEF T
  <2> QED
    BY <1>4, <1>5, Induction
<1>7. 0 \in U
  BY <1>1
<1>8. ASSUME NEW j \in Nat, j \in U PROVE j + 1 \in U
  <2> SUFFICES ASSUME j + 1 <= n, m <= j + 1
               PROVE  A(m) <= A(j + 1) /\ ((\A i \in 1 .. n : i > m => values[i] = 0) => A(m) = A(j + 1))
    OBVIOUS
  <2>1. j \in 0 .. n /\ j + 1 \in 1 .. n /\ (j + 1) - 1 = j
    OBVIOUS
  <2>2. A(j + 1) = A(j) + values[j + 1] /\ A(j) \in Int /\ values[j + 1] \in Int /\ A(m) \in Int
    BY <1>1, <1>2, <2>1
  <2>3. 0 <= values[j + 1]
    BY <2>1
  <2>4. CASE m = j + 1
    BY <2>2, <2>4
  <2>5. CASE m # j + 1
    <3>1. m <= j /\ j + 1 > m
      BY <2>5
    <3>2. A(m) <= A(j) /\ ((\A i \in 1 .. n : i > m => values[i] = 0) => A(m) = A(j))
      BY <1>8, <2>1, <3>1
    <3>3. (\A i \in 1 .. n : i > m => values[i] = 0) => values[j + 1] = 0
      BY <2>1, <3>1
    <3> QED
      BY <2>2, <2>3, <3>2, <3>3
  <2> QED
    BY <2>4, <2>5
<1>9. \A j \in Nat : j \in U
  <2> HIDE DEF U
  <2> QED
    BY <1>7, <1>8, Induction
<1> QED
  BY <1>3, <1>6, <1>9 DEF A

\* No worth is negative.
LEMMA WorthsPositive ==
  ASSUME NEW S, NEW val \in [S -> Nat], NEW n \in 0 .. Len(Discount), NEW f \in [1 .. n -> S]
  PROVE  /\ n \in Nat /\ Worths(f, val, n) \in [1 .. n -> Int]
         /\ \A i \in 1 .. n : Worths(f, val, n)[i] = val[f[i]] * Discount[i]
         /\ \A i \in 1 .. n : 0 <= Worths(f, val, n)[i]
         /\ 0 <= Total(Worths(f, val, n))
<1>1. n \in Nat
  BY DiscountFacts
<1>2. Worths(f, val, n) \in [1 .. n -> Int]
  BY WorthsTyped
<1>3. \A i \in 1 .. n : Worths(f, val, n)[i] = val[f[i]] * Discount[i]
  BY DEF Worths
<1>4. ASSUME NEW i \in 1 .. n PROVE 0 <= Worths(f, val, n)[i]
  <2>1. val[f[i]] \in Nat /\ Discount[i] \in Nat
    BY DiscountFacts
  <2>2. val[f[i]] * Discount[i] \in Nat
    BY <2>1, Products
  <2> QED
    BY <1>3, <2>2
<1>5. 0 <= Total(Worths(f, val, n))
  <2>1. n \in 0 .. n /\ First(Worths(f, val, n), n) = Worths(f, val, n)
    BY <1>1, <1>2, TotalGrows
  <2>2. 0 <= Total(First(Worths(f, val, n), n))
    BY <1>1, <1>2, <1>4, <2>1, PrefixTotals
  <2> QED
    BY <2>1, <2>2
<1> QED
  BY <1>1, <1>2, <1>3, <1>4, <1>5

(* What the n best are worth, the list itself is when it reaches as far,   *)
(* or ends.                                                                *)
LEMMA BestsAreListed ==
  ASSUME NEW S, NEW val \in [S -> Nat], NEW len \in Nat, NEW q, Lists(q, len, val, S),
         NEW n \in 0 .. Len(Discount), NEW m \in 0 .. Len(Discount), m <= len,
         n <= m \/ m = len
  PROVE  Total(Bests(q, len, val, n)) <= Total(Worths(q, val, m))
<1>1. n \in Nat /\ m \in Nat
  BY DiscountFacts
<1> DEFINE qm == [i \in 1 .. m |-> q[i]]
<1>2. qm \in [1 .. m -> S] /\ Worths(q, val, m) = Worths(qm, val, m)
  <2>1. \A i \in 1 .. m : i \in 1 .. len
    BY <1>1
  <2> QED
    BY <2>1 DEF Lists, Worths
<1> HIDE DEF qm
<1>3. /\ Worths(q, val, m) \in [1 .. m -> Int]
      /\ \A i \in 1 .. m : 0 <= Worths(q, val, m)[i]
  BY <1>2, WorthsPositive
<1>4. CASE n <= m
  <2>1. First(Worths(q, val, m), n) = Bests(q, len, val, n)
    BY <1>1, <1>4 DEF First, Worths, Bests, Best
  <2>2. n \in 0 .. m
    BY <1>1, <1>4
  <2>3. Total(First(Worths(q, val, m), n)) <= Total(Worths(q, val, m))
    BY <1>1, <1>3, <2>2, PrefixTotals
  <2> QED
    BY <2>1, <2>3
<1>5. CASE m < n /\ m = len
  <2> DEFINE b == Bests(q, len, val, n)
  <2>1. b \in [1 .. n -> Int]
    BY BestsTyped
  <2>2. \A i \in 1 .. n : 0 <= b[i] /\ (i > m => b[i] = 0)
    <3> SUFFICES ASSUME NEW i \in 1 .. n PROVE 0 <= b[i] /\ (i > m => b[i] = 0)
      OBVIOUS
    <3>1. Best(q, len, val, i) \in Nat /\ Discount[i] \in Nat
      <4>1. i \in Nat \ {0} /\ i \in 1 .. Len(Discount)
        BY <1>1, DiscountFacts
      <4>2. \A j \in Nat \ {0} : Best(q, len, val, j) \in Nat
        BY BestsTyped
      <4> QED
        BY <4>1, <4>2, DiscountFacts
    <3>2. Best(q, len, val, i) * Discount[i] \in Nat
      BY <3>1, Products
    <3>3. b[i] = Best(q, len, val, i) * Discount[i]
      BY DEF Bests
    <3>4. i > m => Best(q, len, val, i) = 0
      BY <1>5 DEF Best
    <3> HIDE DEF b
    <3> QED
      BY <3>1, <3>2, <3>3, <3>4
  <2>3. First(b, m) = Worths(q, val, m)
    BY <1>1, <1>5 DEF First, Worths, Bests, Best
  <2> HIDE DEF b
  <2>4. m \in 0 .. n /\ (\A i \in 1 .. n : 0 <= b[i]) /\ (\A i \in 1 .. n : i > m => b[i] = 0)
    BY <1>1, <1>5, <2>2
  <2>5. Total(First(b, m)) = Total(b)
    BY ONLY <1>1, <2>1, <2>4, PrefixTotals
  <2>6. Total(b) \in Int
    BY <1>1, <2>1, TotalGrows
  <2> QED
    BY <2>3, <2>5, <2>6 DEF b
<1> QED
  BY <1>1, <1>4, <1>5

-----------------------------------------------------------------------------
(* Judgments and gains                                                     *)

\* Judgments of some of the documents.
Grading == UNION {[D -> Nat] : D \in SUBSET Docs}

\* What DCG counts for a document, before the discount.
Value(js) == [d \in Docs |-> 2^Relevance(js, d) - 1]

\* 2^grade grows with the grade.
LEMMA PowersGrow ==
  /\ 2^0 = 1
  /\ \A a, b \in Nat : 2^a \in Nat /\ 2^a > 0 /\ (a < b => 2^a < 2^b)
<1>1. 2^0 = 1
  <2>1. SUBSET {} = {{}}
    OBVIOUS
  <2>2. Cardinality(SUBSET {}) = 2^Cardinality({})
    BY FS_SUBSET, FS_EmptySet
  <2>3. Cardinality({{}}) = 1
    BY FS_Singleton
  <2> QED
    BY <2>1, <2>2, <2>3, FS_EmptySet
<1>2. \A a \in Nat : 2^a \in Nat /\ 2^a > 0 /\ 2^(a + 1) = 2 * 2^a
  BY PowerDoubles
<1>3. ASSUME NEW a \in Nat PROVE \A b \in Nat : a < b => 2^a < 2^b
  <2> DEFINE T == {b \in Nat : a < b => 2^a < 2^b}
  <2>1. 0 \in T
    OBVIOUS
  <2>2. ASSUME NEW b \in Nat, b \in T PROVE b + 1 \in T
    <3> SUFFICES ASSUME a < b + 1 PROVE 2^a < 2^(b + 1)
      OBVIOUS
    <3>1. 2^b \in Nat /\ 2^b > 0 /\ 2^(b + 1) = 2 * 2^b /\ 2^a \in Nat
      BY <1>2
    <3>2. CASE a = b
      BY <3>1, <3>2
    <3>3. CASE a < b
      BY <2>2, <3>1, <3>3
    <3> QED
      BY <3>2, <3>3
  <2>3. \A b \in Nat : b \in T
    <3> HIDE DEF T
    <3> QED
      BY <2>1, <2>2, Induction
  <2> QED
    BY <2>3
<1> QED
  BY <1>1, <1>2, <1>3

\* What Qrels::relevance returns, and that there are no more relevant documents than discounts.
LEMMA RelevanceFacts ==
  ASSUME NEW js \in Grading
  PROVE  /\ \A d \in Docs : Relevance(js, d) \in Nat
         /\ \A d : Relevance(js, d) > 0 /\ d \in Docs <=> d \in RelevantDocs(js)
         /\ \A d \in RelevantDocs(js) : js[d] = Relevance(js, d)
         /\ RelevantDocs(js) \subseteq Docs /\ IsFiniteSet(RelevantDocs(js))
         /\ RelevantCount(js) \in 0 .. Len(Discount) /\ RelevantCount(js) \in Nat
<1>1. PICK D \in SUBSET Docs : js \in [D -> Nat]
  BY DEF Grading
<1>2. \A d \in Docs : Relevance(js, d) \in Nat
  BY <1>1 DEF Relevance
<1>3. \A d : Relevance(js, d) > 0 /\ d \in Docs <=> d \in RelevantDocs(js)
  BY <1>1 DEF Relevance, RelevantDocs
<1>4. \A d \in RelevantDocs(js) : js[d] = Relevance(js, d)
  BY <1>1 DEF Relevance, RelevantDocs
<1>5. RelevantDocs(js) \subseteq Docs
  BY <1>1 DEF RelevantDocs
<1>6. /\ IsFiniteSet(RelevantDocs(js)) /\ RelevantCount(js) <= Cardinality(Docs)
      /\ RelevantCount(js) \in Nat /\ Cardinality(Docs) \in Nat
  BY <1>5, TrialAssumption, FS_Subset, FS_CardinalityType DEF TrialAssumption, RelevantCount
<1>7. RelevantCount(js) \in 0 .. Len(Discount)
  BY <1>6, TrialAssumption, DiscountFacts DEF TrialAssumption
<1> QED
  BY <1>2, <1>3, <1>4, <1>5, <1>6, <1>7

\* What DCG counts for a document grows with its grade.
LEMMA ValueFacts ==
  ASSUME NEW js \in Grading
  PROVE  /\ Value(js) \in [Docs -> Nat]
         /\ \A d \in Docs : Value(js)[d] = 2^Relevance(js, d) - 1
         /\ \A d \in Docs : Value(js)[d] > 0 <=> Relevance(js, d) > 0
         /\ \A c, d \in Docs : Relevance(js, c) < Relevance(js, d) => Value(js)[c] < Value(js)[d]
         /\ \A c, d \in Docs : Relevance(js, c) >= Relevance(js, d) => Value(js)[c] >= Value(js)[d]
<1>1. \A d \in Docs : Value(js)[d] = 2^Relevance(js, d) - 1
  BY DEF Value
<1>2. ASSUME NEW c \in Docs, NEW d \in Docs
      PROVE  /\ Value(js)[c] \in Nat
             /\ Relevance(js, c) < Relevance(js, d) => Value(js)[c] < Value(js)[d]
             /\ Relevance(js, c) >= Relevance(js, d) => Value(js)[c] >= Value(js)[d]
             /\ Value(js)[c] > 0 <=> Relevance(js, c) > 0
  <2> DEFINE a == Relevance(js, c)
             b == Relevance(js, d)
  <2>1. a \in Nat /\ b \in Nat
    BY RelevanceFacts
  <2>2. Value(js)[c] = 2^a - 1 /\ Value(js)[d] = 2^b - 1
    BY <1>1
  <2> HIDE DEF a, b
  <2>3. /\ 2^a \in Nat /\ 2^b \in Nat /\ 2^a > 0 /\ 2^b > 0
        /\ a < b => 2^a < 2^b
        /\ b < a => 2^b < 2^a
        /\ 0 < a => 1 < 2^a
        /\ a = 0 => 2^a = 1
    BY <2>1, PowersGrow
  <2>4. a >= b => 2^a >= 2^b
    <3>1. a >= b => a = b \/ b < a
      BY <2>1
    <3> QED
      BY <2>3, <3>1
  <2> QED
    BY <2>1, <2>2, <2>3, <2>4 DEF a, b
<1>3. Value(js) \in [Docs -> Nat]
  BY <1>2 DEF Value
<1> QED
  BY <1>1, <1>2, <1>3

\* How many documents the metrics see.
Reach(list, cut) == Lesser(cut, Len(list))

\* Judgments of documents of S.
Graded(js, S) ==
  /\ RelevantDocs(js) \subseteq S /\ IsFiniteSet(RelevantDocs(js))
  /\ \A d \in S : Relevance(js, d) \in Nat /\ (Relevance(js, d) > 0 <=> d \in RelevantDocs(js))

\* Judgments of Docs are.
LEMMA GradingIsGraded ==
  ASSUME NEW js \in Grading PROVE Graded(js, Docs)
<1>1. RelevantDocs(js) \subseteq Docs /\ IsFiniteSet(RelevantDocs(js))
  BY RelevanceFacts
<1>2. \A d \in Docs : Relevance(js, d) \in Nat
  BY RelevanceFacts
<1>3. \A d \in Docs : Relevance(js, d) > 0 <=> d \in RelevantDocs(js)
  BY RelevanceFacts
<1> QED
  BY ONLY <1>1, <1>2, <1>3, Zenon DEF Graded

\* The gains of the top of a ranking are the relevances of its documents.
LEMMA GainsOf ==
  ASSUME NEW S, NEW js, Graded(js, S), NEW list \in Seq(S), NEW cut \in Nat
  PROVE  LET n == Reach(list, cut)
             g == Gains(list, js, cut)
         IN  /\ n \in Nat /\ n \in 0 .. Len(list) /\ n <= cut /\ (n = cut \/ n = Len(list))
             /\ g \in [1 .. n -> Nat] /\ Len(g) = n /\ DOMAIN g = 1 .. n
             /\ \A i \in 1 .. n : list[i] \in S /\ g[i] = Relevance(js, list[i])
<1> DEFINE n == Reach(list, cut)
           top == Take(list, cut)
           g == Gains(list, js, cut)
<1>1. n \in Nat /\ n \in 0 .. Len(list) /\ n <= cut /\ (n = cut \/ n = Len(list))
  BY DEF Reach, Lesser
<1>2. top = SubSeq(list, 1, n)
  BY DEF Take, Reach
<1>3. /\ DOMAIN top = 1 .. n /\ \A i \in 1 .. n : top[i] = list[i]
      /\ \A i \in 1 .. n : list[i] \in S
  <2>1. \A i \in 1 .. n : i \in 1 .. Len(list)
    BY <1>1
  <2> QED
    BY <1>1, <1>2, <2>1
<1>4. g = [i \in 1 .. n |-> Relevance(js, list[i])]
  <2> HIDE DEF top
  <2> QED
    BY <1>3 DEF Gains, top
<1> HIDE DEF n, top, g
<1>5. g \in [1 .. n -> Nat] /\ DOMAIN g = 1 .. n
      /\ \A i \in 1 .. n : g[i] = Relevance(js, list[i])
  BY <1>3, <1>4 DEF Graded
<1>6. Len(g) = n
  <2>1. g \in Seq(Nat)
    BY <1>1, <1>5
  <2> QED
    BY <1>1, <1>5, <2>1
<1> QED
  BY <1>1, <1>3, <1>5, <1>6 DEF n, g

\* DCG sums what the documents are worth.
LEMMA GainsFacts ==
  ASSUME NEW js \in Grading, NEW list \in Seq(Docs), NEW cut \in Nat
  PROVE  LET n == Reach(list, cut)
             g == Gains(list, js, cut)
         IN  /\ n \in Nat /\ n \in 0 .. Len(list) /\ n <= cut /\ (n = cut \/ n = Len(list))
             /\ g \in [1 .. n -> Nat] /\ Len(g) = n /\ DOMAIN g = 1 .. n
             /\ \A i \in 1 .. n : list[i] \in Docs /\ g[i] = Relevance(js, list[i])
             /\ Dcg(g) = Total(Worths(list, Value(js), n))
<1> DEFINE n == Reach(list, cut)
           g == Gains(list, js, cut)
<1>1. /\ n \in Nat /\ n \in 0 .. Len(list) /\ n <= cut /\ (n = cut \/ n = Len(list))
      /\ g \in [1 .. n -> Nat] /\ Len(g) = n /\ DOMAIN g = 1 .. n
      /\ \A i \in 1 .. n : list[i] \in Docs /\ g[i] = Relevance(js, list[i])
  BY GradingIsGraded, GainsOf
<1> HIDE DEF n, g
<1>2. Dcg(g) = Total(Worths(list, Value(js), n))
  <2>1. \A i \in 1 .. n : (2^g[i] - 1) * Discount[i] = Value(js)[list[i]] * Discount[i]
    <3>1. \A i \in 1 .. n : 2^g[i] - 1 = Value(js)[list[i]]
      BY <1>1, ValueFacts
    <3> QED
      BY <3>1
  <2>2. [i \in DOMAIN g |-> (2^g[i] - 1) * Discount[i]] = Worths(list, Value(js), n)
    BY <1>1, <2>1 DEF Worths
  <2> QED
    BY <2>2 DEF Dcg
<1> QED
  BY <1>1, <1>2 DEF n, g

(* The ideal order lists the relevant documents, the most relevant first.  *)
LEMMA IdealFacts ==
  ASSUME NEW js \in Grading
  PROVE  \E docs \in Bijection(1 .. RelevantCount(js), RelevantDocs(js)) :
           /\ Lists(docs, RelevantCount(js), Value(js), Docs)
           /\ \A cut \in Nat : Dcg(Take(IdealGains(js), cut))
                              = Total(Worths(docs, Value(js), Lesser(cut, RelevantCount(js))))
<1> DEFINE c == RelevantCount(js)
           R == RelevantDocs(js)
           Order == {pair \in R \X R : js[pair[1]] >= js[pair[2]]}
           docs == Arrangement(R, Order)
           ideal == [i \in DOMAIN docs |-> js[docs[i]]]
<1>1. c \in Nat /\ IsFiniteSet(R) /\ R \subseteq Docs
      /\ \A d \in R : js[d] = Relevance(js, d) /\ js[d] \in Nat
  BY RelevanceFacts
<1>2. Orders(R, Order)
  <2> HIDE DEF R
  <2>1. \A a, b \in R : <<a, b>> \in Order <=> js[a] >= js[b]
    OBVIOUS
  <2> HIDE DEF Order
  <2> QED
    BY <1>1, <2>1 DEF Orders
<1>3. Sorts(docs, R, Order)
  BY <1>1, <1>2, ArrangementSorts
<1>4. c = Cardinality(R)
  BY DEF RelevantCount
<1>5. IdealGains(js) = ideal
  BY DEF IdealGains
<1> HIDE DEF docs, c
<1>6. /\ docs \in Bijection(1 .. c, R)
      /\ \A i, j \in 1 .. c : i < j => js[docs[i]] >= js[docs[j]]
  BY <1>3, <1>4 DEF Sorts
<1> HIDE DEF R
<1>7. /\ docs \in [1 .. c -> R]
      /\ \A d \in R : \E i \in 1 .. c : docs[i] = d
  BY <1>6 DEF Bijection, Injection, Surjection
<1>8. \A i \in 1 .. c : docs[i] \in R /\ docs[i] \in Docs /\ js[docs[i]] = Relevance(js, docs[i])
  BY <1>1, <1>7
<1>9. Lists(docs, c, Value(js), Docs)
  <2>1. docs \in [1 .. c -> Docs]
    BY <1>1, <1>7
  <2>2. \A i, j \in 1 .. c : i < j => Value(js)[docs[i]] >= Value(js)[docs[j]]
    BY <1>6, <1>8, ValueFacts
  <2>3. \A s \in Docs : Value(js)[s] > 0 => \E i \in 1 .. c : docs[i] = s
    <3>1. \A s \in Docs : Value(js)[s] > 0 => s \in R
      BY ValueFacts, RelevanceFacts DEF R
    <3> QED
      BY <1>7, <3>1
  <2> QED
    BY <2>1, <2>2, <2>3 DEF Lists
<1>10. ASSUME NEW cut \in Nat
       PROVE  Dcg(Take(IdealGains(js), cut)) = Total(Worths(docs, Value(js), Lesser(cut, c)))
  <2> DEFINE m == Lesser(cut, c)
             top == Take(ideal, cut)
  <2>1. ideal \in [1 .. c -> Nat] /\ \A i \in 1 .. c : ideal[i] = Relevance(js, docs[i])
    BY <1>1, <1>7, <1>8
  <2> HIDE DEF ideal
  <2>2. ideal \in Seq(Nat) /\ Len(ideal) = c
    BY <1>1, <2>1
  <2>3. m \in Nat /\ m \in 0 .. c
    BY <1>1 DEF Lesser
  <2>4. top = SubSeq(ideal, 1, m)
    BY <2>2 DEF Take
  <2>5. DOMAIN top = 1 .. m /\ \A i \in 1 .. m : i \in 1 .. c /\ top[i] = ideal[i]
    <3>1. \A i \in 1 .. m : i \in 1 .. Len(ideal)
      BY <2>2, <2>3
    <3> QED
      BY <2>2, <2>3, <2>4, <3>1
  <2> HIDE DEF m, top
  <2>6. \A i \in 1 .. m : (2^top[i] - 1) * Discount[i] = Value(js)[docs[i]] * Discount[i]
    BY <1>8, <2>1, <2>5, ValueFacts
  <2>7. [i \in DOMAIN top |-> (2^top[i] - 1) * Discount[i]] = Worths(docs, Value(js), m)
    BY <2>5, <2>6 DEF Worths
  <2>8. Dcg(top) = Total(Worths(docs, Value(js), m))
    BY <2>7 DEF Dcg
  <2> QED
    BY <1>5, <2>8 DEF top, m
<1> QED
  BY <1>6, <1>9, <1>10 DEF c, R

\* No document twice.
Distinct(list) == \A i, j \in 1 .. Len(list) : list[i] = list[j] => i = j

\* The ideal DCG is the highest: Rearrangement over the judged documents.
LEMMA DcgAtMostIdeal ==
  ASSUME NEW js \in Grading, NEW list \in Seq(Docs), Distinct(list), Len(list) <= MaxRanked,
         NEW cut \in Nat
  PROVE  LET got == Dcg(Gains(list, js, cut))
             ideal == Dcg(Take(IdealGains(js), cut))
         IN  got \in Int /\ 0 <= got /\ ideal \in Int /\ got <= ideal
<1> DEFINE n == Reach(list, cut)
           c == RelevantCount(js)
           m == Lesser(cut, c)
           val == Value(js)
           got == Dcg(Gains(list, js, cut))
           ideal == Dcg(Take(IdealGains(js), cut))
<1>1. /\ n \in Nat /\ n \in 0 .. Len(list) /\ n <= cut /\ (n = cut \/ n = Len(list))
      /\ \A i \in 1 .. n : list[i] \in Docs
      /\ got = Total(Worths(list, val, n))
  BY GainsFacts
<1>2. val \in [Docs -> Nat] /\ c \in 0 .. Len(Discount) /\ c \in Nat
  BY ValueFacts, RelevanceFacts
<1>3. n \in 0 .. Len(Discount)
  BY <1>1, TrialAssumption, DiscountFacts DEF TrialAssumption
<1>4. PICK docs \in Bijection(1 .. c, RelevantDocs(js)) :
        /\ Lists(docs, c, val, Docs)
        /\ \A to \in Nat : Dcg(Take(IdealGains(js), to)) = Total(Worths(docs, val, Lesser(to, c)))
  BY IdealFacts
<1>5. ideal = Total(Worths(docs, val, m))
  BY <1>4
<1>6. m \in Nat /\ m <= c /\ m \in 0 .. Len(Discount) /\ (n <= m \/ m = c)
  BY <1>1, <1>2 DEF Lesser
<1> HIDE DEF n, c, m, val, got, ideal
<1> DEFINE f == [i \in 1 .. n |-> list[i]]
<1>7. f \in Injection(1 .. n, Docs) /\ f \in [1 .. n -> Docs]
  <2>1. f \in [1 .. n -> Docs] /\ \A i \in 1 .. n : f[i] = list[i] /\ i \in 1 .. Len(list)
    BY <1>1
  <2> HIDE DEF f
  <2>2. \A i, j \in 1 .. n : f[i] = f[j] => i = j
    BY <2>1 DEF Distinct
  <2> QED
    BY <2>1, <2>2, Fun_IsInj
<1>8. Worths(list, val, n) = Worths(f, val, n)
  BY DEF Worths
<1> HIDE DEF f
<1>9. Total(Worths(f, val, n)) <= Total(Bests(docs, c, val, n))
  BY <1>2, <1>3, <1>4, <1>7, Rearrangement
<1>10. Total(Bests(docs, c, val, n)) <= Total(Worths(docs, val, m))
  BY <1>2, <1>3, <1>4, <1>6, BestsAreListed
<1>11. Total(Bests(docs, c, val, n)) \in Int
  BY <1>2, <1>3, <1>4, BestsTyped
<1>12. got \in Int /\ 0 <= got
  BY <1>1, <1>2, <1>3, <1>7, <1>8, WorthsTyped, WorthsPositive
<1>13. ideal \in Int
  <2> DEFINE d == [i \in 1 .. m |-> docs[i]]
  <2>1. d \in [1 .. m -> Docs] /\ Worths(docs, val, m) = Worths(d, val, m)
    <3>1. docs \in [1 .. c -> Docs] /\ \A i \in 1 .. m : i \in 1 .. c
      BY <1>2, <1>4, <1>6 DEF Lists
    <3> QED
      BY <3>1 DEF Worths
  <2> HIDE DEF d
  <2> QED
    BY <1>2, <1>5, <1>6, <2>1, WorthsTyped
<1>14. got <= ideal
  BY <1>1, <1>5, <1>8, <1>9, <1>10, <1>11, <1>12, <1>13
<1> QED
  BY <1>12, <1>13, <1>14 DEF got, ideal

\* So NDCG, relative to it, is at most 1.
LEMMA NdcgInRange ==
  ASSUME NEW js \in Grading, NEW list \in Seq(Docs), Distinct(list), Len(list) <= MaxRanked,
         NEW cut \in Nat
  PROVE  LET ndcg == Ndcg(Gains(list, js, cut), js, cut)
         IN  AtMost(Zero, ndcg) /\ AtMost(ndcg, One)
<1> DEFINE got == Dcg(Gains(list, js, cut))
           ideal == Dcg(Take(IdealGains(js), cut))
<1>1. got \in Int /\ 0 <= got /\ ideal \in Int /\ got <= ideal
  BY DcgAtMostIdeal
<1>2. Ndcg(Gains(list, js, cut), js, cut) = IF ideal > 0 THEN Over(got, ideal) ELSE Zero
  BY DEF Ndcg
<1> HIDE DEF got, ideal
<1> QED
  BY <1>1, <1>2 DEF AtMost, Zero, One, Over

-----------------------------------------------------------------------------
(* Hits and precisions                                                     *)

\* Hits counts the positive gains so far.
LEMMA HitsFacts ==
  ASSUME NEW n \in Nat, NEW g \in [1 .. n -> Nat]
  PROVE  /\ Hits(g, 0) = 0
         /\ \A i \in 0 .. n : Hits(g, i) \in Nat /\ Hits(g, i) <= i
         /\ \A i \in 1 .. n : Hits(g, i) = Hits(g, i - 1) + (IF g[i] > 0 THEN 1 ELSE 0)
<1> DEFINE P(i) == {j \in 1 .. i : g[j] > 0}
<1>1. \A i \in Nat : IsFiniteSet(P(i)) /\ Cardinality(P(i)) \in Nat /\ Cardinality(P(i)) <= i
  <2> SUFFICES ASSUME NEW i \in Nat
               PROVE  IsFiniteSet(P(i)) /\ Cardinality(P(i)) \in Nat /\ Cardinality(P(i)) <= i
    OBVIOUS
  <2>1. IsFiniteSet(1 .. i) /\ Cardinality(1 .. i) = i
    BY FS_Interval
  <2>2. P(i) \in SUBSET (1 .. i)
    OBVIOUS
  <2> HIDE DEF P
  <2>3. IsFiniteSet(P(i)) /\ Cardinality(P(i)) <= i
    BY <2>1, <2>2, FS_Subset
  <2> QED
    BY <2>3, FS_CardinalityType
<1>2. P(0) = {}
  OBVIOUS
<1>3. ASSUME NEW i \in 1 .. n PROVE P(i) = IF g[i] > 0 THEN P(i - 1) \union {i} ELSE P(i - 1)
  <2>1. \A j : j \in 1 .. i <=> j \in 1 .. i - 1 \/ j = i
    OBVIOUS
  <2> QED
    BY <2>1
<1>4. \A i \in Nat : i \notin P(i - 1)
  OBVIOUS
<1> HIDE DEF P
<1>5. ASSUME NEW i \in 1 .. n
      PROVE  Cardinality(P(i)) = Cardinality(P(i - 1)) + (IF g[i] > 0 THEN 1 ELSE 0)
  <2>1. i - 1 \in Nat /\ i \in Nat
    OBVIOUS
  <2>2. CASE g[i] > 0
    <3>1. P(i) = P(i - 1) \union {i} /\ i \notin P(i - 1) /\ IsFiniteSet(P(i - 1))
      BY <1>1, <1>3, <1>4, <2>1, <2>2
    <3>2. Cardinality(P(i)) = Cardinality(P(i - 1)) + 1
      BY <3>1, FS_AddElement
    <3> QED
      BY <2>2, <3>2
  <2>3. CASE ~(g[i] > 0)
    <3>1. P(i) = P(i - 1) /\ Cardinality(P(i - 1)) \in Nat
      BY <1>1, <1>3, <2>1, <2>3
    <3> QED
      BY <2>3, <3>1
  <2> QED
    BY <2>2, <2>3
<1>6. \A i : Hits(g, i) = Cardinality(P(i))
  BY DEF Hits, P
<1>7. Hits(g, 0) = 0
  BY <1>2, <1>6, FS_EmptySet
<1>8. \A i \in 0 .. n : Hits(g, i) \in Nat /\ Hits(g, i) <= i
  BY <1>1, <1>6
<1>9. \A i \in 1 .. n : Hits(g, i) = Hits(g, i - 1) + (IF g[i] > 0 THEN 1 ELSE 0)
  BY <1>5, <1>6
<1> QED
  BY <1>7, <1>8, <1>9

\* More gains have no fewer hits.
LEMMA HitsGrow ==
  ASSUME NEW n \in Nat, NEW g \in [1 .. n -> Nat], NEW m \in Nat, m <= n
  PROVE  Hits(g, m) <= Hits(g, n)
<1> DEFINE P == {j \in 1 .. m : g[j] > 0}
           Q == {j \in 1 .. n : g[j] > 0}
<1>1. P \in SUBSET Q /\ Q \in SUBSET (1 .. n)
  OBVIOUS
<1>2. Hits(g, m) = Cardinality(P) /\ Hits(g, n) = Cardinality(Q)
  BY DEF Hits
<1> HIDE DEF P, Q
<1>3. IsFiniteSet(Q)
  <2>1. IsFiniteSet(1 .. n)
    BY FS_Interval
  <2> QED
    BY <1>1, <2>1, FS_Subset
<1> QED
  BY <1>1, <1>2, <1>3, FS_Subset

(* Different documents cannot be more hits than there are relevant ones.   *)
LEMMA FoundAtMost ==
  ASSUME NEW S, NEW js, Graded(js, S), NEW list \in Seq(S), Distinct(list), NEW cut \in Nat
  PROVE  /\ RelevantCount(js) \in Nat
         /\ Hits(Gains(list, js, cut), Reach(list, cut)) <= RelevantCount(js)
<1> DEFINE n == Reach(list, cut)
           g == Gains(list, js, cut)
           P == {j \in 1 .. n : g[j] > 0}
           h == [j \in P |-> list[j]]
<1>1. /\ n \in Nat /\ n \in 0 .. Len(list)
      /\ \A i \in 1 .. n : list[i] \in S /\ g[i] = Relevance(js, list[i])
  BY GainsOf
<1> HIDE DEF n, g
<1>2. \A j \in P : j \in 1 .. Len(list) /\ list[j] \in RelevantDocs(js)
  BY <1>1 DEF Graded
<1>3. Hits(g, n) = Cardinality(P)
  BY DEF Hits
<1> HIDE DEF P
<1>4. h \in [P -> RelevantDocs(js)] /\ \A i, j \in P : h[i] = h[j] => i = j
  BY <1>2 DEF Distinct
<1> HIDE DEF h
<1>5. h \in Injection(P, RelevantDocs(js))
  BY <1>4, Fun_IsInj
<1>6. IsFiniteSet(RelevantDocs(js))
  BY DEF Graded
<1>7. Cardinality(P) <= Cardinality(RelevantDocs(js)) /\ Cardinality(RelevantDocs(js)) \in Nat
  BY <1>5, <1>6, FS_Injection, FS_CardinalityType
<1> QED
  BY <1>3, <1>7 DEF RelevantCount, n, g

\* In particular, of Docs.
LEMMA HitsAreRelevant ==
  ASSUME NEW js \in Grading, NEW list \in Seq(Docs), Distinct(list), NEW cut \in Nat
  PROVE  Hits(Gains(list, js, cut), Reach(list, cut)) <= RelevantCount(js)
BY GradingIsGraded, FoundAtMost

Fraction == [num : Nat, den : Nat \ {0}]

\* A sum of fractions is one, with a positive denominator.
LEMMA PlusIsFraction ==
  ASSUME NEW a \in Fraction, NEW num \in Nat, NEW den \in Nat \ {0}
  PROVE  /\ Over(num, den) \in Fraction
         /\ Plus(a, Over(num, den)) \in Fraction
         /\ Plus(a, Over(num, den)).num = a.num * den + num * a.den
         /\ Plus(a, Over(num, den)).den = a.den * den
<1>1. a.num \in Nat /\ a.den \in Nat \ {0}
  BY DEF Fraction
<1>2. a.num * den \in Nat /\ num * a.den \in Nat
  BY <1>1, Products
<1>3. a.den * den \in Nat /\ 0 < a.den * den
  <2>1. 0 * den < a.den * den
    BY <1>1, Products
  <2> QED
    BY <1>1, <2>1, Products
<1>4. Over(num, den) = [num |-> num, den |-> den]
  BY DEF Over
<1>5. Plus(a, Over(num, den)) = [num |-> a.num * den + num * a.den, den |-> a.den * den]
  BY <1>4 DEF Plus, Over
<1>6. a.num * den + num * a.den \in Nat /\ a.den * den \in Nat \ {0}
  BY <1>2, <1>3
<1> DEFINE x == a.num * den + num * a.den
           y == a.den * den
<1> HIDE DEF x, y
<1>7. x \in Nat /\ y \in Nat \ {0} /\ Plus(a, Over(num, den)) = [num |-> x, den |-> y]
  BY <1>5, <1>6 DEF x, y
<1>8. Plus(a, Over(num, den)) \in Fraction /\ Plus(a, Over(num, den)).num = x
      /\ Plus(a, Over(num, den)).den = y
  BY <1>7 DEF Fraction
<1> QED
  BY <1>4, <1>8 DEF Fraction, x, y

\* f holds the precision sums of the first gains.
PrecisionSums(f, g, n) ==
  /\ f[0] = Zero
  /\ \A i \in 1 .. n : f[i] = IF g[i] > 0 THEN Plus(f[i - 1], Over(Hits(g, i), i)) ELSE f[i - 1]

\* PrecisionSum computes sums that start at Zero and grow at each hit.
LEMMA PrecisionSumIsScan ==
  ASSUME NEW n \in Nat, NEW g \in [1 .. n -> Nat], Len(g) = n
  PROVE  \E f \in [0 .. n -> Fraction] : PrecisionSums(f, g, n) /\ PrecisionSum(g) = f[n]
<1> DEFINE hits(i) == IF i \in 1 .. n THEN Hits(g, i) ELSE 0
           hit(i) == i \in 1 .. n /\ g[i] > 0
           step == [x \in (Nat \ {0}) \X Fraction |->
                      IF hit(x[1]) THEN Plus(x[2], Over(hits(x[1]), x[1])) ELSE x[2]]
           Eq(f) == f = [i \in 0 .. n |->
                           IF i = 0 THEN Zero
                           ELSE IF g[i] > 0 THEN Plus(f[i - 1], Over(Hits(g, i), i))
                           ELSE f[i - 1]]
<1>1. \A i \in Nat \ {0} : hits(i) \in Nat
  BY HitsFacts
<1>2. step \in [(Nat \ {0}) \X Fraction -> Fraction]
  <2> HIDE DEF hits, hit
  <2> SUFFICES ASSUME NEW i \in Nat \ {0}, NEW a \in Fraction
               PROVE  (IF hit(i) THEN Plus(a, Over(hits(i), i)) ELSE a) \in Fraction
    OBVIOUS
  <2>1. Plus(a, Over(hits(i), i)) \in Fraction
    BY <1>1, PlusIsFraction
  <2> QED
    BY <2>1
<1>3. Zero \in Fraction
  BY DEF Zero, Fraction
<1>4. PICK f \in [0 .. n -> Fraction] : Scans(f, n, Zero, step)
  <2> HIDE DEF step
  <2> QED
    BY <1>2, <1>3, ScanExists
<1>5. ASSUME NEW i \in 1 .. n
      PROVE  f[i] = IF g[i] > 0 THEN Plus(f[i - 1], Over(Hits(g, i), i)) ELSE f[i - 1]
  <2>1. <<i, f[i - 1]>> \in (Nat \ {0}) \X Fraction
    OBVIOUS
  <2>2. f[i] = step[<<i, f[i - 1]>>]
    BY <1>4 DEF Scans
  <2>3. step[<<i, f[i - 1]>>] = IF hit(i) THEN Plus(f[i - 1], Over(hits(i), i)) ELSE f[i - 1]
    <3> HIDE DEF hits, hit
    <3> QED
      BY <2>1
  <2> QED
    BY <2>2, <2>3
<1>6. f[0] = Zero
  BY <1>4 DEF Scans
<1>7. Eq(f)
  BY <1>5, <1>6
<1> DEFINE e == CHOOSE h : Eq(h)
<1>8. Eq(e)
  BY <1>7
<1>9. PrecisionSum(g) = e[n]
  BY DEF PrecisionSum
<1> HIDE DEF e
<1>10. /\ e[0] = Zero /\ DOMAIN e = 0 .. n
       /\ \A i \in 1 .. n : e[i] = IF g[i] > 0 THEN Plus(e[i - 1], Over(Hits(g, i), i)) ELSE e[i - 1]
  <2>1. \A i \in 0 .. n : e[i] = IF i = 0 THEN Zero
                                  ELSE IF g[i] > 0 THEN Plus(e[i - 1], Over(Hits(g, i), i))
                                  ELSE e[i - 1]
    BY ONLY <1>8
  <2> QED
    BY <1>8, <2>1
<1>11. e \in [0 .. n -> Fraction]
  <2> DEFINE T == {i \in Nat : i \in 0 .. n => e[i] \in Fraction}
  <2>1. 0 \in T
    BY <1>3, <1>10
  <2>2. ASSUME NEW i \in Nat, i \in T PROVE i + 1 \in T
    <3> SUFFICES ASSUME i + 1 \in 0 .. n PROVE e[i + 1] \in Fraction
      OBVIOUS
    <3>1. i + 1 \in 1 .. n /\ i \in 0 .. n /\ (i + 1) - 1 = i /\ i + 1 \in 0 .. n
          /\ i + 1 \in Nat \ {0}
      OBVIOUS
    <3>2. e[i + 1] = IF g[i + 1] > 0 THEN Plus(e[i], Over(Hits(g, i + 1), i + 1)) ELSE e[i]
      BY <1>10, <3>1
    <3>3. e[i] \in Fraction /\ Hits(g, i + 1) \in Nat
      BY <2>2, <3>1, HitsFacts
    <3>4. Plus(e[i], Over(Hits(g, i + 1), i + 1)) \in Fraction
      BY <3>1, <3>3, PlusIsFraction
    <3> QED
      BY <3>2, <3>3, <3>4
  <2>3. \A i \in Nat : i \in T
    <3> HIDE DEF T
    <3> QED
      BY <2>1, <2>2, Induction
  <2>4. \A i \in 0 .. n : e[i] \in Fraction
    BY <2>3
  <2> QED
    BY <1>8, <2>4
<1> QED
  BY <1>9, <1>10, <1>11 DEF PrecisionSums

(* A precision is at most 1, so their sum is at most the number of hits.   *)
LEMMA PrecisionSumIsBounded ==
  ASSUME NEW n \in Nat, NEW g \in [1 .. n -> Nat], Len(g) = n
  PROVE  /\ PrecisionSum(g) \in Fraction
         /\ PrecisionSum(g).num <= Hits(g, n) * PrecisionSum(g).den
<1>1. PICK f \in [0 .. n -> Fraction] : PrecisionSums(f, g, n) /\ PrecisionSum(g) = f[n]
  BY PrecisionSumIsScan
<1> DEFINE H(i) == Hits(g, i)
           T == {i \in Nat : i <= n => f[i].num <= H(i) * f[i].den}
<1>2. 0 \in T
  <2>1. f[0].num = 0 /\ f[0].den = 1 /\ H(0) = 0
    BY <1>1, HitsFacts DEF PrecisionSums, Zero
  <2> QED
    BY <2>1
<1>3. ASSUME NEW i \in Nat, i \in T PROVE i + 1 \in T
  <2> SUFFICES ASSUME i + 1 <= n PROVE f[i + 1].num <= H(i + 1) * f[i + 1].den
    OBVIOUS
  <2> DEFINE r == i + 1
             a == f[i]
  <2>1. r \in 1 .. n /\ i \in 0 .. n /\ r - 1 = i /\ r \in 0 .. n /\ r \in Nat \ {0}
    OBVIOUS
  <2>2. f[r] = IF g[r] > 0 THEN Plus(a, Over(H(r), r)) ELSE a
    BY <1>1, <2>1 DEF PrecisionSums
  <2>3. a \in Fraction /\ a.num <= H(i) * a.den
    BY <1>3, <2>1
  <2>4. a.num \in Nat /\ a.den \in Nat \ {0}
    BY <2>3 DEF Fraction
  <2>5. /\ H(i) \in Nat /\ H(r) \in Nat /\ H(r) <= r
        /\ H(r) = H(i) + (IF g[r] > 0 THEN 1 ELSE 0)
    <3>1. \A j \in 0 .. n : Hits(g, j) \in Nat /\ Hits(g, j) <= j
      BY HitsFacts
    <3>2. \A j \in 1 .. n : Hits(g, j) = Hits(g, j - 1) + (IF g[j] > 0 THEN 1 ELSE 0)
      BY HitsFacts
    <3> HIDE DEF r
    <3> QED
      BY <2>1, <3>1, <3>2
  <2> HIDE DEF H, a, r
  <2>6. CASE g[r] > 0
    <3> DEFINE p == Plus(a, Over(H(r), r))
    <3>1. p.num = a.num * r + H(r) * a.den /\ p.den = a.den * r
      BY <2>1, <2>3, <2>5, PlusIsFraction
    <3> HIDE DEF p
    <3> DEFINE u == H(i) * a.den
               v == a.den * r
               w == H(r) * a.den
    <3>2. u \in Nat /\ v \in Nat /\ w \in Nat
      BY <2>1, <2>4, <2>5, Products
    <3>3. a.num * r <= u * r
      <4>1. a.num <= u
        BY <2>3
      <4>2. a.num \in Int /\ u \in Int /\ r \in Int /\ 0 <= r
        BY <2>1, <2>4, <3>2
      <4> HIDE DEF u
      <4> QED
        BY ONLY <4>1, <4>2, Products
    <3>4. u * r = H(i) * v
      BY <2>1, <2>4, <2>5
    <3>5. w <= v
      <4>1. H(r) \in Int /\ r \in Int /\ a.den \in Int /\ 0 <= a.den /\ H(r) <= r
        BY <2>1, <2>4, <2>5
      <4>2. H(r) * a.den <= r * a.den /\ r * a.den = a.den * r
        BY ONLY <4>1, Products
      <4> QED
        BY <4>2
    <3>6. H(r) * v = H(i) * v + v
      <4>1. H(r) = H(i) + 1 /\ H(i) \in Int /\ v \in Int
        BY <2>5, <2>6, <3>2
      <4> HIDE DEF v
      <4> QED
        BY ONLY <4>1, Products
    <3>7. a.num * r \in Int /\ H(i) * v \in Int
      <4>1. a.num * r \in Nat /\ H(i) * v \in Nat
        BY <2>1, <2>4, <2>5, <3>2, Products
      <4> QED
        BY <4>1
    <3>8. p.num = a.num * r + w /\ p.den = v
      BY <3>1
    <3>9. f[r] = p
      BY <2>2, <2>6 DEF p
    <3> HIDE DEF u, v, w
    <3>10. p.num <= H(r) * v
      BY <3>2, <3>3, <3>4, <3>5, <3>6, <3>7, <3>8
    <3> QED
      BY <3>8, <3>9, <3>10 DEF r
  <2>7. CASE ~(g[r] > 0)
    <3>1. f[r] = a /\ H(r) = H(i)
      BY <2>2, <2>5, <2>7
    <3> QED
      BY <2>3, <3>1 DEF r
  <2> QED
    BY <2>6, <2>7
<1>4. \A i \in Nat : i \in T
  <2> HIDE DEF T
  <2> QED
    BY <1>2, <1>3, Induction
<1>5. f[n] \in Fraction
  OBVIOUS
<1> QED
  BY <1>1, <1>4, <1>5

\* A part of a whole is between 0 and 1.
LEMMA RatioInRange ==
  ASSUME NEW num \in Int, NEW den \in Int, 0 <= num, num <= den
  PROVE  AtMost(Zero, Over(num, den)) /\ AtMost(Over(num, den), One)
BY DEF AtMost, Zero, One, Over

\* So is Zero.
LEMMA ZeroInRange == AtMost(Zero, Zero) /\ AtMost(Zero, One)
BY DEF AtMost, Zero, One, Over

\* The first hit.
LEMMA FirstHit ==
  ASSUME NEW n \in Nat, NEW g \in [1 .. n -> Nat],
         {i \in DOMAIN g : g[i] > 0} # {}
  PROVE  LET first == Min({i \in DOMAIN g : g[i] > 0})
         IN  /\ first \in 1 .. n /\ g[first] > 0
             /\ \A i \in 1 .. n : g[i] > 0 => first <= i
<1> DEFINE P == {i \in DOMAIN g : g[i] > 0}
<1>1. P \in SUBSET Nat /\ P \subseteq 1 .. n
  OBVIOUS
<1> HIDE DEF P
<1>2. \E m \in P : \A i \in P : m <= i
  BY <1>1, LeastNat DEF P
<1>3. Min(P) \in P /\ \A i \in P : Min(P) <= i
  BY <1>2 DEF Min
<1> QED
  BY <1>3 DEF P

\* Each metric of evaluate_query is between 0 and 1 when no document is ranked twice.
LEMMA AllInRange ==
  ASSUME NEW js \in Grading, NEW list \in Seq(Docs), Distinct(list), Len(list) <= MaxRanked,
         NEW cut \in Nat \ {0}, NEW m \in MetricNames
  PROVE  LET metrics == EvaluateQuery(list, js, cut)
         IN  AtMost(Zero, metrics[m]) /\ AtMost(metrics[m], One)
<1> DEFINE metrics == EvaluateQuery(list, js, cut)
           n == Reach(list, cut)
           g == Gains(list, js, cut)
           R == RelevantCount(js)
<1>1. /\ metrics.ndcg = Ndcg(g, js, cut) /\ metrics.mrr = Mrr(g)
      /\ metrics.recall = Recall(g, js) /\ metrics.precision = Precision(g, cut)
      /\ metrics.average_precision = AveragePrecision(g, js, cut)
  BY DEF EvaluateQuery
<1>2. /\ n \in Nat /\ n <= cut
      /\ g \in [1 .. n -> Nat] /\ Len(g) = n /\ DOMAIN g = 1 .. n
  BY GainsFacts
<1>3. R \in Nat
  BY RelevanceFacts
<1>4. Hits(g, n) <= R
  BY HitsAreRelevant
<1>5. AtMost(Zero, Ndcg(g, js, cut)) /\ AtMost(Ndcg(g, js, cut), One)
  BY NdcgInRange
<1> HIDE DEF n, g, R, metrics
<1>6. Hits(g, n) \in Nat /\ Hits(g, n) <= n
  BY <1>2, HitsFacts
<1>7. CASE m = "ndcg"
  BY <1>1, <1>5, <1>7 DEF metrics
<1>8. CASE m = "mrr"
  <2>1. AtMost(Zero, Mrr(g)) /\ AtMost(Mrr(g), One)
    <3> DEFINE P == {i \in DOMAIN g : g[i] > 0}
    <3>1. CASE P = {}
      BY <3>1, ZeroInRange DEF Mrr
    <3>2. CASE P # {}
      <4>1. Min(P) \in 1 .. n
        BY <1>2, <3>2, FirstHit
      <4>2. Mrr(g) = Over(1, Min(P))
        BY <3>2 DEF Mrr
      <4> HIDE DEF P
      <4> QED
        BY <1>2, <4>1, <4>2, RatioInRange
    <3> QED
      BY <3>1, <3>2
  <2> QED
    BY <1>1, <1>8, <2>1 DEF metrics
<1>9. CASE m = "recall"
  <2>1. AtMost(Zero, Recall(g, js)) /\ AtMost(Recall(g, js), One)
    <3>1. Recall(g, js) = IF R > 0 THEN Over(Hits(g, n), R) ELSE Zero
      BY <1>2 DEF Recall, R
    <3> QED
      BY <1>3, <1>4, <1>6, <3>1, RatioInRange, ZeroInRange
  <2> QED
    BY <1>1, <1>9, <2>1 DEF metrics
<1>10. CASE m = "precision"
  <2>1. Precision(g, cut) = Over(Hits(g, n), cut)
    BY <1>2 DEF Precision
  <2>2. Hits(g, n) <= cut
    BY <1>2, <1>6
  <2> QED
    BY <1>1, <1>6, <1>10, <2>1, <2>2, RatioInRange DEF metrics
<1>11. CASE m = "average_precision"
  <2>1. AtMost(Zero, AveragePrecision(g, js, cut)) /\ AtMost(AveragePrecision(g, js, cut), One)
    <3> DEFINE s == PrecisionSum(g)
               least == Lesser(R, cut)
    <3>1. s \in Fraction /\ s.num <= Hits(g, n) * s.den
      BY <1>2, PrecisionSumIsBounded
    <3>2. AveragePrecision(g, js, cut) = IF R > 0 THEN Over(s.num, s.den * least) ELSE Zero
      BY DEF AveragePrecision, Divided, R
    <3>3. least \in Nat /\ Hits(g, n) <= least
      BY <1>2, <1>3, <1>4, <1>6 DEF Lesser
    <3> HIDE DEF s, least
    <3>4. s.num \in Nat /\ s.den \in Nat
      BY <3>1 DEF Fraction
    <3>5. Hits(g, n) * s.den <= least * s.den /\ Hits(g, n) * s.den \in Nat /\ s.den * least \in Nat
      BY <1>6, <3>3, <3>4, Products
    <3>6. least * s.den = s.den * least
      BY <3>3, <3>4
    <3>7. s.num <= s.den * least
      BY <3>1, <3>4, <3>5, <3>6
    <3> QED
      BY <3>2, <3>4, <3>5, <3>7, RatioInRange, ZeroInRange
  <2> QED
    BY <1>1, <1>11, <2>1 DEF metrics
<1> QED
  BY <1>7, <1>8, <1>9, <1>10, <1>11 DEF MetricNames, metrics

-----------------------------------------------------------------------------
(* The states of module EvaluationInputs                                   *)

\* What Judge and Place make; without repetition if they may not repeat.
TrialInv ==
  /\ judgments \in Grading
  /\ ranking \in Seq(Docs) /\ Len(ranking) <= MaxRanked
  /\ k \in Nat
  /\ MayRepeat \/ Distinct(ranking)

\* Judge and Place keep it.
LEMMA TrialInvariant == EvaluationSpec => []TrialInv
<1>1. EvaluationInit => TrialInv
  <2> SUFFICES ASSUME EvaluationInit PROVE TrialInv
    OBVIOUS
  <2>1. judgments \in [{} -> Nat] /\ {} \in SUBSET Docs
    BY DEF EvaluationInit, NoQrels
  <2>2. judgments \in Grading
    BY <2>1 DEF Grading
  <2>3. ranking \in Seq(Docs) /\ Len(ranking) = 0
    BY EmptyList DEF EvaluationInit
  <2>4. k \in Nat /\ MaxRanked \in Nat
    BY TrialAssumption DEF EvaluationInit, TrialAssumption
  <2>5. Distinct(ranking)
    BY <2>3 DEF Distinct
  <2> QED
    BY <2>2, <2>3, <2>4, <2>5 DEF TrialInv
<1>2. TrialInv /\ [EvaluationNext]_trial => TrialInv'
  <2> SUFFICES ASSUME TrialInv, [EvaluationNext]_trial PROVE TrialInv'
    OBVIOUS
  <2>1. CASE UNCHANGED trial
    BY <2>1 DEF trial, TrialInv, Distinct
  <2>2. ASSUME NEW doc \in Docs, NEW grade \in 0 .. MaxGrade, Judge(doc, grade) PROVE TrialInv'
    <3>1. PICK D \in SUBSET Docs : judgments \in [D -> Nat]
      BY DEF TrialInv, Grading
    <3>2. grade \in Nat
      BY TrialAssumption DEF TrialAssumption
    <3>3. judgments' = Insert(judgments, doc, grade) /\ ranking' = ranking /\ k' = k
      BY <2>2 DEF Judge
    <3>4. judgments' \in [D \union {doc} -> Nat] /\ D \union {doc} \in SUBSET Docs
      BY <3>1, <3>2, <3>3 DEF Insert
    <3>5. judgments' \in Grading
      BY <3>4 DEF Grading
    <3> QED
      BY <3>3, <3>5 DEF TrialInv, Distinct
  <2>3. ASSUME NEW doc \in Docs, Place(doc) PROVE TrialInv'
    <3>1. /\ ranking \in Seq(Docs) /\ Len(ranking) < MaxRanked /\ Len(ranking) \in Nat
          /\ ranking' = Append(ranking, doc) /\ judgments' = judgments /\ k' = k
          /\ MaxRanked \in Nat
          /\ MayRepeat \/ ~Contains(ranking, doc)
      BY <2>3, TrialAssumption DEF Place, TrialInv, TrialAssumption
    <3>2. /\ ranking' \in Seq(Docs) /\ Len(ranking') = Len(ranking) + 1
          /\ \A i \in 1 .. Len(ranking) : ranking'[i] = ranking[i]
          /\ ranking'[Len(ranking) + 1] = doc
      BY <3>1
    <3>3. Len(ranking') <= MaxRanked
      BY <3>1, <3>2
    <3>4. ASSUME ~MayRepeat PROVE Distinct(ranking)'
      <4>1. \A i \in 1 .. Len(ranking) : ranking[i] # doc
        BY <3>1, <3>4 DEF Contains
      <4>2. \A i, j \in 1 .. Len(ranking) : ranking[i] = ranking[j] => i = j
        BY <3>4 DEF TrialInv, Distinct
      <4>3. \A i \in 1 .. Len(ranking') : i \in 1 .. Len(ranking) \/ i = Len(ranking) + 1
        BY <3>1, <3>2
      <4>4. \A i, j \in 1 .. Len(ranking') : ranking'[i] = ranking'[j] => i = j
        BY ONLY <3>2, <4>1, <4>2, <4>3
      <4> QED
        BY <4>4 DEF Distinct
    <3> QED
      BY <3>1, <3>2, <3>3, <3>4 DEF TrialInv
  <2> QED
    BY <2>1, <2>2, <2>3 DEF EvaluationNext
<1> QED
  BY <1>1, <1>2, PTL DEF EvaluationSpec

(* evaluate_query keeps every metric between 0 and 1, at every cutoff, of  *)
(* every ranking that names no document twice.                             *)
THEOREM MetricsAlwaysInRange ==
  ASSUME ~MayRepeat PROVE EvaluationSpec => []MetricsInRange
<1>1. TrialInv => MetricsInRange
  <2> SUFFICES ASSUME TrialInv, k > 0, NEW m \in MetricNames
               PROVE  AtMost(Zero, Metrics[m]) /\ AtMost(Metrics[m], One)
    BY DEF MetricsInRange
  <2>1. /\ judgments \in Grading /\ ranking \in Seq(Docs) /\ Distinct(ranking)
        /\ Len(ranking) <= MaxRanked /\ k \in Nat \ {0}
    BY DEF TrialInv
  <2> QED
    BY <2>1, AllInRange DEF Metrics
<1> QED
  BY <1>1, TrialInvariant, PTL

-----------------------------------------------------------------------------
(* A larger cutoff                                                         *)

\* What evaluate_query makes of the gains.
LEMMA MetricsOf ==
  ASSUME NEW S, NEW js, Graded(js, S), NEW list \in Seq(S), NEW cut \in Nat \ {0}
  PROVE  LET metrics == EvaluateQuery(list, js, cut)
             n == Reach(list, cut)
             g == Gains(list, js, cut)
             R == RelevantCount(js)
         IN  /\ metrics.ndcg = Ndcg(g, js, cut) /\ metrics.mrr = Mrr(g)
             /\ metrics.recall = IF R > 0 THEN Over(Hits(g, n), R) ELSE Zero
             /\ metrics.precision = Over(Hits(g, n), cut)
             /\ metrics.average_precision =
                  IF R > 0 THEN Over(PrecisionSum(g).num, PrecisionSum(g).den * Lesser(R, cut))
                  ELSE Zero
<1> DEFINE metrics == EvaluateQuery(list, js, cut)
           n == Reach(list, cut)
           g == Gains(list, js, cut)
           R == RelevantCount(js)
<1>1. /\ metrics.ndcg = Ndcg(g, js, cut) /\ metrics.mrr = Mrr(g)
      /\ metrics.recall = Recall(g, js) /\ metrics.precision = Precision(g, cut)
      /\ metrics.average_precision = AveragePrecision(g, js, cut)
  BY DEF EvaluateQuery
<1>2. Len(g) = n
  BY GainsOf
<1> HIDE DEF metrics, n, g, R
<1>3. metrics.recall = IF R > 0 THEN Over(Hits(g, n), R) ELSE Zero
  BY <1>1, <1>2 DEF Recall, R
<1>4. metrics.precision = Over(Hits(g, n), cut)
  BY <1>1, <1>2 DEF Precision
<1>5. metrics.average_precision =
        IF R > 0 THEN Over(PrecisionSum(g).num, PrecisionSum(g).den * Lesser(R, cut)) ELSE Zero
  BY <1>1 DEF AveragePrecision, Divided, R
<1> QED
  BY <1>1, <1>3, <1>4, <1>5 DEF metrics, n, g, R

\* The metrics of evaluate_query, in terms of hits within reach.
LEMMA MetricsAre ==
  ASSUME NEW js \in Grading, NEW list \in Seq(Docs), NEW cut \in Nat \ {0}
  PROVE  LET metrics == EvaluateQuery(list, js, cut)
             n == Reach(list, cut)
             g == Gains(list, js, cut)
             R == RelevantCount(js)
         IN  /\ metrics.ndcg = Ndcg(g, js, cut) /\ metrics.mrr = Mrr(g)
             /\ metrics.recall = IF R > 0 THEN Over(Hits(g, n), R) ELSE Zero
             /\ metrics.precision = Over(Hits(g, n), cut)
             /\ metrics.average_precision =
                  IF R > 0 THEN Over(PrecisionSum(g).num, PrecisionSum(g).den * Lesser(R, cut))
                  ELSE Zero
             /\ \A m \in MetricNames :
                  \/ m = "ndcg" /\ metrics[m] = metrics.ndcg
                  \/ m = "mrr" /\ metrics[m] = metrics.mrr
                  \/ m = "recall" /\ metrics[m] = metrics.recall
                  \/ m = "precision" /\ metrics[m] = metrics.precision
                  \/ m = "average_precision" /\ metrics[m] = metrics.average_precision
<1> DEFINE metrics == EvaluateQuery(list, js, cut)
           n == Reach(list, cut)
           g == Gains(list, js, cut)
           R == RelevantCount(js)
<1>1. /\ metrics.ndcg = Ndcg(g, js, cut) /\ metrics.mrr = Mrr(g)
      /\ metrics.recall = IF R > 0 THEN Over(Hits(g, n), R) ELSE Zero
      /\ metrics.precision = Over(Hits(g, n), cut)
      /\ metrics.average_precision =
           IF R > 0 THEN Over(PrecisionSum(g).num, PrecisionSum(g).den * Lesser(R, cut)) ELSE Zero
  BY GradingIsGraded, MetricsOf
<1> HIDE DEF metrics, n, g, R
<1>2. \A m \in MetricNames :
        \/ m = "ndcg" /\ metrics[m] = metrics.ndcg
        \/ m = "mrr" /\ metrics[m] = metrics.mrr
        \/ m = "recall" /\ metrics[m] = metrics.recall
        \/ m = "precision" /\ metrics[m] = metrics.precision
        \/ m = "average_precision" /\ metrics[m] = metrics.average_precision
  BY DEF MetricNames
<1> QED
  BY <1>1, <1>2 DEF metrics, n, g, R

(* Who has a hit no later has no smaller reciprocal rank.                  *)
LEMMA EarlierHitNotLess ==
  ASSUME NEW n \in Nat, NEW g \in [1 .. n -> Nat], NEW m \in Nat, NEW h \in [1 .. m -> Nat],
         \A i \in 1 .. n : g[i] > 0 => \E j \in 1 .. m : j <= i /\ h[j] > 0
  PROVE  AtMost(Mrr(g), Mrr(h))
<1> DEFINE P == {i \in DOMAIN g : g[i] > 0}
           Q == {i \in DOMAIN h : h[i] > 0}
<1>1. CASE P = {}
  <2>1. Mrr(g) = Zero
    BY <1>1 DEF Mrr
  <2>2. CASE Q = {}
    <3>1. Mrr(h) = Zero
      BY <2>2 DEF Mrr
    <3> QED
      BY <2>1, <3>1, ZeroInRange
  <2>3. CASE Q # {}
    <3>1. Min(Q) \in 1 .. m
      BY <2>3, FirstHit
    <3>2. Mrr(h) = Over(1, Min(Q))
      BY <2>3 DEF Mrr
    <3> HIDE DEF Q
    <3> QED
      BY <2>1, <3>1, <3>2, RatioInRange
  <2> QED
    BY <2>2, <2>3
<1>2. CASE P # {}
  <2> DEFINE a == Min(P)
             b == Min(Q)
  <2>1. a \in 1 .. n /\ g[a] > 0
    BY <1>2, FirstHit
  <2>2. PICK j \in 1 .. m : j <= a /\ h[j] > 0
    BY <2>1
  <2>3. Q # {}
    BY <2>2
  <2>4. b \in 1 .. m /\ b <= j
    BY <2>2, <2>3, FirstHit
  <2>5. Mrr(g) = Over(1, a) /\ Mrr(h) = Over(1, b)
    BY <1>2, <2>3 DEF Mrr
  <2> HIDE DEF a, b
  <2> QED
    BY <2>1, <2>2, <2>4, <2>5 DEF AtMost, Over
<1> QED
  BY <1>1, <1>2

\* The same gains have the same hits.
LEMMA HitsAgree ==
  ASSUME NEW n \in Nat, NEW g, NEW h, \A i \in 1 .. n : g[i] = h[i]
  PROVE  Hits(g, n) = Hits(h, n)
<1>1. {j \in 1 .. n : g[j] > 0} = {j \in 1 .. n : h[j] > 0}
  OBVIOUS
<1> QED
  BY <1>1 DEF Hits

(* More hits, relative to the same number of documents.                    *)
LEMMA SameDenominator ==
  ASSUME NEW a \in Int, NEW b \in Int, a <= b, NEW den \in Int, 0 <= den
  PROVE  AtMost(Over(a, den), Over(b, den))
<1>1. a * den <= b * den
  BY Products
<1> QED
  BY <1>1 DEF AtMost, Over

(* One more document in reach never lowers recall, the reciprocal rank, or *)
(* the number of relevant documents found: evaluate_query cuts the ranking *)
(* and nothing else.                                                       *)
THEOREM LargerCutoffAlwaysFindsMore == EvaluationSpec => []LargerCutoffFindsMore
<1>1. TrialInv => LargerCutoffFindsMore
  <2> SUFFICES ASSUME TrialInv, k > 0
               PROVE  LET more == EvaluateQuery(ranking, judgments, k + 1)
                      IN  /\ AtMost(Metrics.recall, more.recall)
                          /\ AtMost(Metrics.mrr, more.mrr)
                          /\ Metrics.precision.num <= more.precision.num
    BY DEF LargerCutoffFindsMore
  <2> DEFINE more == EvaluateQuery(ranking, judgments, k + 1)
             n == Reach(ranking, k)
             m == Reach(ranking, k + 1)
             g == Gains(ranking, judgments, k)
             h == Gains(ranking, judgments, k + 1)
             R == RelevantCount(judgments)
  <2>1. /\ judgments \in Grading /\ ranking \in Seq(Docs) /\ k \in Nat \ {0}
        /\ k \in Nat /\ k + 1 \in Nat /\ k + 1 \in Nat \ {0}
    BY DEF TrialInv
  <2>2. /\ n \in Nat /\ g \in [1 .. n -> Nat]
        /\ \A i \in 1 .. n : g[i] = Relevance(judgments, ranking[i])
    BY <2>1, GainsFacts
  <2>3. /\ m \in Nat /\ h \in [1 .. m -> Nat]
        /\ \A i \in 1 .. m : h[i] = Relevance(judgments, ranking[i])
    BY <2>1, GainsFacts
  <2>4. n <= m
    BY <2>1 DEF Reach, Lesser
  <2>5. R \in Nat
    BY <2>1, RelevanceFacts
  <2>6. /\ Metrics.mrr = Mrr(g) /\ Metrics.recall = (IF R > 0 THEN Over(Hits(g, n), R) ELSE Zero)
        /\ Metrics.precision = Over(Hits(g, n), k)
    BY <2>1, MetricsAre DEF Metrics
  <2>7. /\ more.mrr = Mrr(h) /\ more.recall = (IF R > 0 THEN Over(Hits(h, m), R) ELSE Zero)
        /\ more.precision = Over(Hits(h, m), k + 1)
    BY <2>1, MetricsAre
  <2> HIDE DEF more, n, m, g, h, R
  <2>8. \A i \in 1 .. n : i \in 1 .. m /\ g[i] = h[i]
    BY <2>2, <2>3, <2>4
  <2>9. Hits(g, n) \in Nat /\ Hits(h, m) \in Nat /\ Hits(g, n) <= Hits(h, m)
    <3>1. Hits(g, n) = Hits(h, n)
      BY <2>2, <2>8, HitsAgree
    <3>2. Hits(h, n) <= Hits(h, m)
      BY <2>2, <2>3, <2>4, HitsGrow
    <3>3. Hits(g, n) \in Nat
      <4>1. n \in 0 .. n
        BY <2>2
      <4> QED
        BY <2>2, <4>1, HitsFacts
    <3>4. Hits(h, m) \in Nat
      <4>1. m \in 0 .. m
        BY <2>3
      <4> QED
        BY <2>3, <4>1, HitsFacts
    <3> QED
      BY <3>1, <3>2, <3>3, <3>4
  <2>10. AtMost(Mrr(g), Mrr(h))
    <3>1. \A i \in 1 .. n : g[i] > 0 => \E j \in 1 .. m : j <= i /\ h[j] > 0
      BY <2>2, <2>8
    <3> QED
      BY <2>2, <2>3, <3>1, EarlierHitNotLess
  <2>11. AtMost(Metrics.recall, more.recall)
    BY <2>5, <2>6, <2>7, <2>9, SameDenominator, ZeroInRange
  <2>12. Metrics.precision.num <= more.precision.num
    BY <2>6, <2>7, <2>9 DEF Over
  <2> QED
    BY <2>6, <2>7, <2>10, <2>11, <2>12 DEF more
<1> QED
  BY <1>1, TrialInvariant, PTL

-----------------------------------------------------------------------------
(* A promotion                                                             *)

\* h are the gains g after the document at place i, of gain a, was promoted
\* past by the next one, of gain b; as far as they are in reach.
Promoted(g, h, n, i, a, b) ==
  /\ n \in Nat /\ i \in Nat \ {0} /\ a \in Nat /\ b \in Nat /\ a < b
  /\ g \in [1 .. n -> Nat] /\ h \in [1 .. n -> Nat]
  /\ i <= n => g[i] = a /\ h[i] = b
  /\ i + 1 <= n => g[i + 1] = b /\ h[i + 1] = a
  /\ \A j \in 1 .. n : j # i /\ j # i + 1 => g[j] = h[j]

\* What Swapped swaps.
LEMMA SwappedFacts ==
  ASSUME NEW list \in Seq(Docs), NEW i \in 1 .. Len(list) - 1
  PROVE  /\ Swapped(list, i) \in Seq(Docs) /\ Len(Swapped(list, i)) = Len(list)
         /\ Swapped(list, i)[i] = list[i + 1] /\ Swapped(list, i)[i + 1] = list[i]
         /\ \A j \in 1 .. Len(list) : j # i /\ j # i + 1 => Swapped(list, i)[j] = list[j]
<1>1. i \in 1 .. Len(list) /\ i + 1 \in 1 .. Len(list) /\ Len(list) \in Nat
  OBVIOUS
<1>2. list[i] \in Docs /\ list[i + 1] \in Docs
  BY <1>1
<1> QED
  BY <1>1, <1>2 DEF Swapped

\* The gains of a swapped ranking are promoted.
LEMMA SwappedGains ==
  ASSUME NEW js \in Grading, NEW list \in Seq(Docs), NEW i \in 1 .. Len(list) - 1, NEW cut \in Nat,
         Relevance(js, list[i]) < Relevance(js, list[i + 1])
  PROVE  /\ Reach(Swapped(list, i), cut) = Reach(list, cut)
         /\ Promoted(Gains(list, js, cut), Gains(Swapped(list, i), js, cut), Reach(list, cut), i,
                     Relevance(js, list[i]), Relevance(js, list[i + 1]))
<1> DEFINE n == Reach(list, cut)
           g == Gains(list, js, cut)
           h == Gains(Swapped(list, i), js, cut)
           a == Relevance(js, list[i])
           b == Relevance(js, list[i + 1])
<1>1. Reach(Swapped(list, i), cut) = n
  BY SwappedFacts DEF Reach
<1>2. /\ n \in Nat /\ n \in 0 .. Len(list) /\ g \in [1 .. n -> Nat]
      /\ \A j \in 1 .. n : g[j] = Relevance(js, list[j])
  BY GainsFacts
<1>3. /\ h \in [1 .. n -> Nat]
      /\ \A j \in 1 .. n : h[j] = Relevance(js, Swapped(list, i)[j])
  <2>1. Swapped(list, i) \in Seq(Docs)
    BY SwappedFacts
  <2>2. /\ h \in [1 .. Reach(Swapped(list, i), cut) -> Nat]
        /\ \A j \in 1 .. Reach(Swapped(list, i), cut) : h[j] = Relevance(js, Swapped(list, i)[j])
    BY <2>1, GainsFacts
  <2> HIDE DEF h, n
  <2> QED
    BY <1>1, <2>2
<1>4. a \in Nat /\ b \in Nat /\ a < b
  <2>1. list[i] \in Docs /\ list[i + 1] \in Docs
    OBVIOUS
  <2> QED
    BY <2>1, RelevanceFacts
<1> HIDE DEF n, g, h
<1>5. i <= n => g[i] = a /\ h[i] = b
  <2> SUFFICES ASSUME i <= n PROVE g[i] = a /\ h[i] = b
    OBVIOUS
  <2>1. i \in 1 .. n
    BY <1>2
  <2> QED
    BY <1>2, <1>3, <2>1, SwappedFacts
<1>6. i + 1 <= n => g[i + 1] = b /\ h[i + 1] = a
  <2> SUFFICES ASSUME i + 1 <= n PROVE g[i + 1] = b /\ h[i + 1] = a
    OBVIOUS
  <2>1. i + 1 \in 1 .. n
    BY <1>2
  <2> QED
    BY <1>2, <1>3, <2>1, SwappedFacts
<1>7. \A j \in 1 .. n : j # i /\ j # i + 1 => g[j] = h[j]
  <2> SUFFICES ASSUME NEW j \in 1 .. n, j # i, j # i + 1 PROVE g[j] = h[j]
    OBVIOUS
  <2>1. j \in 1 .. Len(list)
    BY <1>2
  <2> QED
    BY <1>2, <1>3, <2>1, SwappedFacts
<1> HIDE DEF a, b
<1>8. i \in Nat \ {0}
  OBVIOUS
<1> QED
  BY <1>1, <1>2, <1>3, <1>4, <1>5, <1>6, <1>7, <1>8 DEF Promoted, n, g, h, a, b

\* The terms of DCG.
Terms(g, n) == [j \in 1 .. n |-> (2^g[j] - 1) * Discount[j]]

\* DCG is the total of its terms.
LEMMA TermsFacts ==
  ASSUME NEW n \in Nat, n <= Len(Discount), NEW g \in [1 .. n -> Nat]
  PROVE  /\ Dcg(g) = Total(Terms(g, n)) /\ Terms(g, n) \in [1 .. n -> Int] /\ Dcg(g) \in Int
         /\ \A j \in 1 .. n : Terms(g, n)[j] = (2^g[j] - 1) * Discount[j]
<1>1. \A j \in 1 .. n : (2^g[j] - 1) * Discount[j] \in Int
  <2> SUFFICES ASSUME NEW j \in 1 .. n PROVE (2^g[j] - 1) * Discount[j] \in Int
    OBVIOUS
  <2>1. j \in 1 .. Len(Discount) /\ g[j] \in Nat
    BY DiscountFacts
  <2>2. 2^g[j] \in Nat /\ Discount[j] \in Nat
    BY <2>1, PowersGrow, DiscountFacts
  <2> QED
    BY <2>2
<1>2. Terms(g, n) \in [1 .. n -> Int]
  BY <1>1 DEF Terms
<1>3. Dcg(g) = Total(Terms(g, n))
  BY DEF Dcg, Terms
<1> QED
  BY <1>2, <1>3, TotalGrows DEF Terms

(* The promotion raises DCG when the discounts are apart, and never        *)
(* lowers it.                                                              *)
LEMMA PromotionRaisesDcg ==
  ASSUME NEW g, NEW h, NEW n, NEW i, NEW a, NEW b, Promoted(g, h, n, i, a, b), n <= Len(Discount)
  PROVE  /\ Dcg(g) \in Int /\ Dcg(h) \in Int
         /\ Dcg(g) <= Dcg(h)
         /\ i + 1 <= n => Dcg(g) < Dcg(h)
<1>1. /\ n \in Nat /\ i \in Nat \ {0} /\ a \in Nat /\ b \in Nat /\ a < b
      /\ g \in [1 .. n -> Nat] /\ h \in [1 .. n -> Nat]
      /\ i <= n => g[i] = a /\ h[i] = b
      /\ i + 1 <= n => g[i + 1] = b /\ h[i + 1] = a
      /\ \A j \in 1 .. n : j # i /\ j # i + 1 => g[j] = h[j]
  BY DEF Promoted
<1> DEFINE G == Terms(g, n)
           H == Terms(h, n)
           va == 2^a - 1
           vb == 2^b - 1
<1>2. /\ Dcg(g) = Total(G) /\ G \in [1 .. n -> Int] /\ Dcg(g) \in Int
      /\ \A j \in 1 .. n : G[j] = (2^g[j] - 1) * Discount[j]
  BY <1>1, TermsFacts
<1>3. /\ Dcg(h) = Total(H) /\ H \in [1 .. n -> Int] /\ Dcg(h) \in Int
      /\ \A j \in 1 .. n : H[j] = (2^h[j] - 1) * Discount[j]
  BY <1>1, TermsFacts
<1>4. va \in Nat /\ vb \in Nat /\ va < vb
  <2>1. 2^a \in Nat /\ 2^b \in Nat /\ 2^a > 0 /\ 2^a < 2^b
    BY <1>1, PowersGrow
  <2> QED
    BY <2>1
<1>5. i <= n => G[i] = va * Discount[i] /\ H[i] = vb * Discount[i]
  <2>1. i <= n => i \in 1 .. n
    BY <1>1
  <2> QED
    BY <1>1, <1>2, <1>3, <2>1
<1>6. i + 1 <= n => G[i + 1] = vb * Discount[i + 1] /\ H[i + 1] = va * Discount[i + 1]
  <2>1. i + 1 <= n => i + 1 \in 1 .. n
    BY <1>1
  <2> QED
    BY <1>1, <1>2, <1>3, <2>1
<1>7. \A j \in 1 .. n : j # i /\ j # i + 1 => G[j] = H[j]
  BY <1>1, <1>2, <1>3
<1> HIDE DEF G, H, va, vb
<1>8. CASE n < i + 1
  <2>1. \A j \in 1 .. n : j # i + 1
    BY <1>1, <1>8
  <2>2. i <= n => G[i] <= H[i]
    <3> SUFFICES ASSUME i <= n PROVE G[i] <= H[i]
      OBVIOUS
    <3>1. i \in 1 .. Len(Discount)
      BY <1>1, DiscountFacts
    <3>2. Discount[i] \in Int /\ 0 <= Discount[i] /\ va \in Int /\ vb \in Int /\ va <= vb
      BY <1>4, <3>1, DiscountFacts
    <3>3. va * Discount[i] <= vb * Discount[i]
      BY ONLY <3>2, Products
    <3> QED
      BY <1>5, <3>3
  <2>3. \A j \in 1 .. n : G[j] <= H[j]
    <3> SUFFICES ASSUME NEW j \in 1 .. n PROVE G[j] <= H[j]
      OBVIOUS
    <3>1. CASE j = i
      BY <1>1, <2>2, <3>1
    <3>2. CASE j # i
      <4>1. G[j] = H[j] /\ G[j] \in Int
        BY <1>2, <1>7, <2>1, <3>2
      <4> QED
        BY <4>1
    <3> QED
      BY <3>1, <3>2
  <2>4. Total(G) <= Total(H)
    BY <1>1, <1>2, <1>3, <2>3, TotalCompares
  <2>5. ~(i + 1 <= n)
    BY <1>1, <1>8
  <2> QED
    BY <1>2, <1>3, <2>4, <2>5
<1>9. CASE i + 1 <= n
  <2> DEFINE x == vb * Discount[i]
             y == va * Discount[i + 1]
             x0 == va * Discount[i]
             y0 == vb * Discount[i + 1]
             M == [G EXCEPT ![i] = x]
  <2>1. i \in 1 .. n /\ i + 1 \in 1 .. n /\ i # i + 1
    BY <1>1, <1>9
  <2>2. /\ Discount[i] \in Nat /\ Discount[i + 1] \in Nat /\ Discount[i + 1] < Discount[i]
    <3>1. i \in 1 .. Len(Discount) /\ i + 1 \in 1 .. Len(Discount) /\ i < i + 1
      BY <1>1, <1>9, DiscountFacts
    <3> QED
      BY <3>1, DiscountFacts
  <2>3. x \in Nat /\ y \in Nat /\ x0 \in Nat /\ y0 \in Nat
    BY <1>4, <2>2, Products
  <2>4. x0 + y0 < x + y
    <3>1. va \in Int /\ vb \in Int /\ Discount[i] \in Int /\ Discount[i + 1] \in Int
      BY <1>4, <2>2
    <3> QED
      BY ONLY <1>4, <2>2, <3>1, Products
  <2>5. G[i] = x0 /\ H[i] = x /\ G[i + 1] = y0 /\ H[i + 1] = y
    BY <1>1, <1>5, <1>6, <1>9
  <2> HIDE DEF x, y, x0, y0
  <2>6. Total(M) = Total(G) - x0 + x
    <3>1. x \in Int
      BY <2>3
    <3>2. n \in Nat /\ G \in [1 .. n -> Int] /\ i \in 1 .. n /\ x \in Int
      BY <1>1, <1>2, <2>1, <3>1
    <3>3. Total([G EXCEPT ![i] = x]) = Total(G) - G[i] + x
      BY ONLY <3>2, TotalReplaces
    <3> QED
      BY <2>5, <3>3
  <2>7. M \in [1 .. n -> Int] /\ M[i + 1] = y0
    BY <1>2, <2>1, <2>3, <2>5
  <2>8. H = [M EXCEPT ![i + 1] = y]
    <3>1. \A j \in 1 .. n : H[j] = [M EXCEPT ![i + 1] = y][j]
      BY <1>2, <1>7, <2>1, <2>5
    <3>2. DOMAIN H = 1 .. n /\ DOMAIN M = 1 .. n
      BY <1>3, <2>7
    <3> HIDE DEF M
    <3> QED
      BY <1>3, <2>7, <3>1
  <2> HIDE DEF M
  <2>9. Total([M EXCEPT ![i + 1] = y]) = Total(M) - y0 + y
    <3>1. y \in Int
      BY <2>3
    <3> QED
      BY <1>1, <2>1, <2>7, <3>1, TotalReplaces
  <2>10. Total(H) = Total(G) - x0 + x - y0 + y
    <3>1. Total(H) = Total([M EXCEPT ![i + 1] = y])
      BY <2>8
    <3>2. Total(H) = Total(M) - y0 + y
      BY ONLY <2>9, <3>1, Zenon
    <3>3. Total(M) \in Int /\ Total(G) \in Int /\ x \in Int /\ y \in Int /\ x0 \in Int /\ y0 \in Int
      BY <1>1, <1>2, <2>3, <2>7, TotalGrows
    <3> QED
      BY ONLY <2>6, <3>2, <3>3
  <2> QED
    BY <1>2, <1>3, <2>3, <2>4, <2>10
<1> QED
  BY <1>1, <1>8, <1>9

\* Up to place i the promotion changes nothing, at place i it may add a hit,
\* and from then on it is one hit earlier.
LEMMA PromotionHits ==
  ASSUME NEW g, NEW h, NEW n, NEW i, NEW a, NEW b, Promoted(g, h, n, i, a, b)
  PROVE  \A j \in 0 .. n : Hits(h, j) = Hits(g, j) + (IF j = i /\ a = 0 THEN 1 ELSE 0)
<1>1. /\ n \in Nat /\ i \in Nat \ {0} /\ a \in Nat /\ b \in Nat /\ a < b
      /\ g \in [1 .. n -> Nat] /\ h \in [1 .. n -> Nat]
      /\ i <= n => g[i] = a /\ h[i] = b
      /\ i + 1 <= n => g[i + 1] = b /\ h[i + 1] = a
      /\ \A j \in 1 .. n : j # i /\ j # i + 1 => g[j] = h[j]
  BY DEF Promoted
<1> DEFINE G(j) == Hits(g, j)
           H(j) == Hits(h, j)
           T == {j \in Nat : j <= n => H(j) = G(j) + (IF j = i /\ a = 0 THEN 1 ELSE 0)}
<1>2. /\ G(0) = 0 /\ H(0) = 0
      /\ \A j \in 0 .. n : G(j) \in Nat /\ H(j) \in Nat
      /\ \A j \in 1 .. n : G(j) = G(j - 1) + (IF g[j] > 0 THEN 1 ELSE 0)
      /\ \A j \in 1 .. n : H(j) = H(j - 1) + (IF h[j] > 0 THEN 1 ELSE 0)
  BY <1>1, HitsFacts
<1> HIDE DEF G, H
<1>3. 0 \in T
  BY <1>1, <1>2
<1>4. ASSUME NEW j \in Nat, j \in T PROVE j + 1 \in T
  <2> SUFFICES ASSUME j + 1 <= n
               PROVE  H(j + 1) = G(j + 1) + (IF j + 1 = i /\ a = 0 THEN 1 ELSE 0)
    OBVIOUS
  <2>1. j \in 0 .. n /\ j + 1 \in 1 .. n /\ (j + 1) - 1 = j
    BY <1>1
  <2>2. /\ G(j + 1) = G(j) + (IF g[j + 1] > 0 THEN 1 ELSE 0)
        /\ H(j + 1) = H(j) + (IF h[j + 1] > 0 THEN 1 ELSE 0)
        /\ G(j) \in Nat /\ H(j) \in Nat
    BY <1>2, <2>1
  <2>3. H(j) = G(j) + (IF j = i /\ a = 0 THEN 1 ELSE 0)
    BY <1>1, <1>4, <2>1
  <2>4. CASE j + 1 = i
    <3>1. g[j + 1] = a /\ h[j + 1] = b /\ j # i
      BY <1>1, <2>1, <2>4
    <3>2. H(j) = G(j)
      BY <2>2, <2>3, <3>1
    <3> QED
      BY <1>1, <2>2, <2>4, <3>1, <3>2
  <2>5. CASE j = i
    <3>1. g[j + 1] = b /\ h[j + 1] = a /\ j + 1 # i
      BY <1>1, <2>5
    <3>2. H(j) = G(j) + (IF a = 0 THEN 1 ELSE 0)
      BY <2>3, <2>5
    <3> QED
      BY <1>1, <2>2, <3>1, <3>2
  <2>6. CASE j + 1 # i /\ j # i
    <3>1. g[j + 1] = h[j + 1]
      BY <1>1, <2>1, <2>6
    <3>2. H(j) = G(j)
      BY <2>2, <2>3, <2>6
    <3> QED
      BY <2>2, <2>6, <3>1, <3>2
  <2> QED
    BY <2>4, <2>5, <2>6
<1>5. \A j \in Nat : j \in T
  <2> HIDE DEF T
  <2> QED
    BY <1>3, <1>4, Induction
<1> QED
  BY <1>1, <1>5 DEF G, H

\* The ideal DCG is positive when there is something to find.
LEMMA IdealWorth ==
  ASSUME NEW js \in Grading, NEW cut \in Nat
  PROVE  LET ideal == Dcg(Take(IdealGains(js), cut))
         IN  /\ ideal \in Int /\ 0 <= ideal
             /\ cut > 0 /\ RelevantCount(js) > 0 => 0 < ideal
<1> DEFINE c == RelevantCount(js)
           m == Lesser(cut, c)
           val == Value(js)
           ideal == Dcg(Take(IdealGains(js), cut))
<1>1. val \in [Docs -> Nat] /\ c \in 0 .. Len(Discount) /\ c \in Nat
  BY ValueFacts, RelevanceFacts
<1>2. PICK docs \in Bijection(1 .. c, RelevantDocs(js)) :
        /\ Lists(docs, c, val, Docs)
        /\ \A to \in Nat : Dcg(Take(IdealGains(js), to)) = Total(Worths(docs, val, Lesser(to, c)))
  BY IdealFacts
<1>3. ideal = Total(Worths(docs, val, m))
  BY <1>2
<1>4. m \in Nat /\ m <= c /\ m \in 0 .. Len(Discount) /\ (cut > 0 /\ c > 0 => m > 0)
  BY <1>1 DEF Lesser
<1>5. docs \in [1 .. c -> RelevantDocs(js)] /\ docs \in [1 .. c -> Docs]
  BY <1>2 DEF Lists, Bijection, Injection
<1>6. \A s \in RelevantDocs(js) : s \in Docs /\ val[s] \in Nat /\ val[s] > 0
  BY <1>1, RelevanceFacts, ValueFacts
<1> HIDE DEF c, m, val, ideal
<1> DEFINE d == [i \in 1 .. m |-> docs[i]]
           W == Worths(d, val, m)
<1>7. d \in [1 .. m -> Docs] /\ Worths(docs, val, m) = W
  BY <1>1, <1>4, <1>5 DEF Worths
<1>8. m > 0 => d[1] = docs[1] /\ docs[1] \in RelevantDocs(js)
  BY <1>1, <1>4, <1>5
<1> HIDE DEF d, W
<1>9. /\ W \in [1 .. m -> Int] /\ 0 <= Total(W)
      /\ \A i \in 1 .. m : 0 <= W[i] /\ W[i] = val[d[i]] * Discount[i]
  BY <1>1, <1>4, <1>7, WorthsPositive DEF W
<1>10. Total(W) \in Int
  BY <1>4, <1>9, TotalGrows
<1>11. ASSUME m > 0 PROVE 0 < Total(W)
  <2>1. 1 \in 1 .. m /\ 1 \in 1 .. Len(Discount) /\ 1 \in 0 .. m /\ 0 \in 0 .. m /\ 1 - 1 = 0
    BY <1>4, <1>11, DiscountFacts
  <2>2. First(W, 0) \in [1 .. 0 -> Int]
    BY <1>4, <1>9, <2>1, TotalGrows
  <2>3. Total(First(W, 0)) = 0
    BY <2>2, TotalGrows
  <2>4. Total(First(W, 1)) = W[1]
    <3>1. \A l \in 1 .. m : Total(First(W, l)) = Total(First(W, l - 1)) + W[l]
      BY <1>4, <1>9, TotalGrows
    <3>2. Total(First(W, 1)) = Total(First(W, 0)) + W[1]
      BY <2>1, <3>1
    <3>3. W[1] \in Int
      BY <1>9, <2>1
    <3> QED
      BY <2>3, <3>2, <3>3
  <2>5. Total(First(W, 1)) <= Total(W)
    BY <1>4, <1>9, <2>1, PrefixTotals
  <2>6. val[d[1]] \in Nat /\ val[d[1]] > 0 /\ Discount[1] \in Nat /\ Discount[1] > 0
    BY <1>6, <1>8, <1>11, <2>1, DiscountFacts
  <2>7. 0 * Discount[1] < val[d[1]] * Discount[1]
    BY <2>6, Products
  <2>8. 0 < W[1] /\ W[1] \in Int
    BY <1>9, <2>1, <2>6, <2>7
  <2> QED
    BY <1>10, <2>4, <2>5, <2>8
<1> QED
  BY <1>3, <1>4, <1>7, <1>9, <1>10, <1>11 DEF c, ideal

\* A sum of fractions is no less than that of smaller fractions.
LEMMA PlusGrows ==
  ASSUME NEW f \in Fraction, NEW g \in Fraction, AtMost(f, g),
         NEW x \in Nat, NEW d \in Nat \ {0}, NEW y \in Nat, NEW e \in Nat \ {0}
  PROVE  /\ x * e <= y * d => AtMost(Plus(f, Over(x, d)), Plus(g, Over(y, e)))
         /\ AtMost(f, Plus(g, Over(y, e)))
<1> DEFINE p == f.num
           q == f.den
           r == g.num
           s == g.den
<1>1. p \in Nat /\ q \in Nat /\ r \in Nat /\ s \in Nat /\ p * s <= r * q
  BY DEF Fraction, AtMost
<1>2. /\ Plus(f, Over(x, d)).num = p * d + x * q /\ Plus(f, Over(x, d)).den = q * d
      /\ Plus(g, Over(y, e)).num = r * e + y * s /\ Plus(g, Over(y, e)).den = s * e
  BY PlusIsFraction
<1> HIDE DEF p, q, r, s
<1>3. p \in Int /\ q \in Int /\ r \in Int /\ s \in Int /\ x \in Int /\ y \in Int /\ d \in Int /\ e \in Int
  BY <1>1
<1>4. p * s \in Nat /\ r * q \in Nat /\ d * e \in Nat /\ q * s \in Nat /\ x * e \in Nat /\ y * d \in Nat
  BY <1>1, Products
<1>5. (p * s) * (d * e) <= (r * q) * (d * e)
  <2> DEFINE u == p * s
             v == r * q
             w == d * e
  <2>1. u \in Int /\ v \in Int /\ w \in Int /\ 0 <= w /\ u <= v
    BY <1>1, <1>4
  <2> HIDE DEF u, v, w
  <2>2. u * w <= v * w
    BY ONLY <2>1, Products
  <2> QED
    BY <2>2 DEF u, v, w
<1>6. x * e <= y * d => (x * e) * (q * s) <= (y * d) * (q * s)
  <2> DEFINE u == x * e
             v == y * d
             w == q * s
  <2>1. u \in Int /\ v \in Int /\ w \in Int /\ 0 <= w
    BY <1>4
  <2> HIDE DEF u, v, w
  <2>2. u <= v => u * w <= v * w
    BY ONLY <2>1, Products
  <2> QED
    BY <2>2 DEF u, v, w
<1>7. (p * d + x * q) * (s * e) = (p * s) * (d * e) + (x * e) * (q * s)
  BY ONLY <1>3
<1>8. (r * e + y * s) * (q * d) = (r * q) * (d * e) + (y * d) * (q * s)
  BY ONLY <1>3
<1>9. x * e <= y * d => (p * d + x * q) * (s * e) <= (r * e + y * s) * (q * d)
  <2> DEFINE A == (p * s) * (d * e)
             B == (r * q) * (d * e)
             C == (x * e) * (q * s)
             D == (y * d) * (q * s)
  <2>1. A \in Nat /\ B \in Nat /\ C \in Nat /\ D \in Nat
    BY ONLY <1>4, Products
  <2>2. A <= B /\ (x * e <= y * d => C <= D)
    BY <1>5, <1>6
  <2>3. (p * d + x * q) * (s * e) = A + C /\ (r * e + y * s) * (q * d) = B + D
    BY <1>7, <1>8
  <2> HIDE DEF A, B, C, D
  <2>4. x * e <= y * d => A + C <= B + D
    BY <2>1, <2>2
  <2> QED
    BY <2>3, <2>4
<1>10. p * (s * e) <= (r * e + y * s) * q
  <2> DEFINE u == p * s
             v == r * q
             w == y * (s * q)
  <2>1. s * q \in Nat
    BY <1>1, Products
  <2>2. w \in Nat /\ v \in Int /\ u \in Int /\ e \in Int /\ 0 <= e /\ u <= v
    BY <1>1, <1>4, <2>1, Products
  <2>3. p * (s * e) = u * e /\ (r * e + y * s) * q = v * e + w
    BY ONLY <1>3
  <2> HIDE DEF u, v, w
  <2>4. u * e <= v * e
    BY ONLY <2>2, Products
  <2>5. u * e \in Int /\ v * e \in Int
    BY ONLY <2>2
  <2>6. u * e <= v * e + w
    BY <2>2, <2>4, <2>5
  <2> QED
    BY <2>3, <2>6
<1> QED
  BY <1>2, <1>9, <1>10 DEF AtMost, p, q, r, s

\* A relevant document that comes earlier raises the sum of the precisions.
LEMMA PromotionRaisesPrecisions ==
  ASSUME NEW g, NEW h, NEW n, NEW i, NEW a, NEW b, Promoted(g, h, n, i, a, b)
  PROVE  /\ PrecisionSum(g) \in Fraction /\ PrecisionSum(h) \in Fraction
         /\ AtMost(PrecisionSum(g), PrecisionSum(h))
<1>1. /\ n \in Nat /\ i \in Nat \ {0} /\ a \in Nat /\ b \in Nat /\ a < b
      /\ g \in [1 .. n -> Nat] /\ h \in [1 .. n -> Nat]
      /\ i <= n => g[i] = a /\ h[i] = b
      /\ i + 1 <= n => g[i + 1] = b /\ h[i + 1] = a
      /\ \A j \in 1 .. n : j # i /\ j # i + 1 => g[j] = h[j]
  BY DEF Promoted
<1>2. Len(g) = n /\ Len(h) = n
  <2>1. g \in Seq(Nat) /\ h \in Seq(Nat) /\ DOMAIN g = 1 .. n /\ DOMAIN h = 1 .. n
    BY <1>1
  <2> QED
    BY <1>1, <2>1
<1>3. PICK f \in [0 .. n -> Fraction] : PrecisionSums(f, g, n) /\ PrecisionSum(g) = f[n]
  BY <1>1, <1>2, PrecisionSumIsScan
<1>4. PICK e \in [0 .. n -> Fraction] : PrecisionSums(e, h, n) /\ PrecisionSum(h) = e[n]
  BY <1>1, <1>2, PrecisionSumIsScan
<1> DEFINE G(j) == Hits(g, j)
           H(j) == Hits(h, j)
           T == {j \in Nat : \A m \in 0 .. j : m <= n => AtMost(f[m], e[m])}
<1>5. \A j \in 0 .. n : G(j) \in Nat /\ H(j) \in Nat
  BY <1>1, HitsFacts
<1>6. \A j \in 0 .. n : H(j) = G(j) + (IF j = i /\ a = 0 THEN 1 ELSE 0)
  BY PromotionHits
<1>7. \A j \in 1 .. n : G(j) = G(j - 1) + (IF g[j] > 0 THEN 1 ELSE 0)
  BY <1>1, HitsFacts
<1>8. \A j \in 1 .. n : f[j] = IF g[j] > 0 THEN Plus(f[j - 1], Over(G(j), j)) ELSE f[j - 1]
  BY <1>3 DEF PrecisionSums
<1>9. \A j \in 1 .. n : e[j] = IF h[j] > 0 THEN Plus(e[j - 1], Over(H(j), j)) ELSE e[j - 1]
  BY <1>4 DEF PrecisionSums
<1> HIDE DEF G, H
<1>10. 0 \in T
  <2>1. AtMost(f[0], e[0])
    BY <1>3, <1>4, ZeroInRange DEF PrecisionSums
  <2> QED
    BY <2>1
<1>11. ASSUME NEW j \in Nat, j \in T PROVE j + 1 \in T
  <2> DEFINE r == j + 1
  <2> SUFFICES ASSUME r <= n PROVE AtMost(f[r], e[r])
    BY <1>11
  <2>1. /\ r \in 1 .. n /\ r \in 0 .. n /\ j \in 0 .. n /\ r - 1 = j /\ r \in Nat \ {0}
    BY <1>1
  <2>2. \A m \in 0 .. j : AtMost(f[m], e[m])
    <3>1. \A m \in 0 .. j : m <= n => AtMost(f[m], e[m])
      BY <1>11
    <3> QED
      BY <1>1, <2>1, <3>1
  <2>3. f[j] \in Fraction /\ e[j] \in Fraction /\ AtMost(f[j], e[j])
    BY <2>1, <2>2
  <2>4. G(r) \in Nat /\ H(r) \in Nat
    BY <1>5, <2>1
  <2>5. /\ f[r] = IF g[r] > 0 THEN Plus(f[j], Over(G(r), r)) ELSE f[j]
        /\ e[r] = IF h[r] > 0 THEN Plus(e[j], Over(H(r), r)) ELSE e[j]
    BY <1>8, <1>9, <2>1
  <2>6. H(r) = G(r) + (IF r = i /\ a = 0 THEN 1 ELSE 0)
    BY <1>6, <2>1
  <2>7. G(r) = H(r) => AtMost(Plus(f[j], Over(G(r), r)), Plus(e[j], Over(H(r), r)))
    <3> SUFFICES ASSUME G(r) = H(r)
                 PROVE  AtMost(Plus(f[j], Over(G(r), r)), Plus(e[j], Over(H(r), r)))
      OBVIOUS
    <3>1. G(r) * r <= H(r) * r
      BY <2>1, <2>4
    <3> HIDE DEF r
    <3> QED
      BY <2>1, <2>3, <2>4, <3>1, PlusGrows
  <2>8. AtMost(f[j], Plus(e[j], Over(H(r), r)))
    <3> HIDE DEF r
    <3> QED
      BY <2>1, <2>3, <2>4, PlusGrows
  <2>9. CASE r # i /\ r # i + 1
    <3>1. g[r] = h[r] /\ G(r) = H(r)
      BY <1>1, <2>1, <2>4, <2>6, <2>9
    <3> QED
      BY <2>3, <2>5, <2>7, <3>1
  <2>10. CASE r = i
    <3>1. g[r] = a /\ h[r] = b /\ h[r] > 0
      BY <1>1, <2>1, <2>10
    <3>2. a > 0 => G(r) = H(r)
      BY <2>4, <2>6
    <3> QED
      BY <2>3, <2>5, <2>7, <2>8, <3>1, <3>2
  <2>11. CASE r = i + 1
    <3>1. g[r] = b /\ h[r] = a /\ g[r] > 0 /\ G(r) = H(r)
      BY <1>1, <2>1, <2>4, <2>6, <2>11
    <3>2. CASE a > 0
      BY <2>5, <2>7, <3>1, <3>2
    <3>3. CASE a = 0
      <4>1. /\ i = j /\ i \in 1 .. n /\ i - 1 \in 0 .. j /\ i - 1 \in 0 .. n /\ i \in 0 .. n
            /\ g[i] = 0 /\ h[i] = b /\ h[i] > 0
        BY <1>1, <2>1, <2>11, <3>3
      <4>2. f[j] = f[i - 1] /\ e[j] = Plus(e[i - 1], Over(H(i), i))
        BY <1>8, <1>9, <4>1
      <4>3. f[i - 1] \in Fraction /\ e[i - 1] \in Fraction /\ AtMost(f[i - 1], e[i - 1])
        BY <2>2, <4>1
      <4>4. H(i) = G(i) + 1 /\ G(i) \in Nat /\ H(i) \in Nat
        BY <1>5, <1>6, <3>3, <4>1
      <4>5. G(r) = G(j) + 1
        BY <1>7, <2>1, <3>1
      <4>6. G(r) = H(i)
        BY <4>1, <4>4, <4>5
      <4>7. G(r) * i <= H(i) * r
        <5>1. i \in Int /\ r \in Int /\ G(r) \in Int /\ 0 <= G(r) /\ i <= r
          BY <1>1, <2>1, <2>4, <4>1
        <5>2. i * G(r) <= r * G(r) /\ i * G(r) = G(r) * i /\ r * G(r) = G(r) * r
          BY ONLY <5>1, Products
        <5> QED
          BY <4>6, <5>2
      <4>8. AtMost(Plus(f[i - 1], Over(G(r), r)), Plus(e[i - 1], Over(H(i), i)))
        <5>1. i \in Nat \ {0}
          BY <1>1
        <5> HIDE DEF r
        <5> QED
          BY <2>1, <2>4, <4>3, <4>4, <4>7, <5>1, PlusGrows
      <4>9. f[r] = Plus(f[i - 1], Over(G(r), r)) /\ e[r] = Plus(e[i - 1], Over(H(i), i))
        BY <2>5, <3>1, <3>3, <4>2
      <4> QED
        BY <4>8, <4>9
    <3> QED
      BY <1>1, <3>2, <3>3
  <2> QED
    BY <2>9, <2>10, <2>11
<1>12. \A j \in Nat : j \in T
  <2> HIDE DEF T
  <2> QED
    BY <1>10, <1>11, Induction
<1>13. AtMost(f[n], e[n])
  <2>1. n \in Nat /\ n \in 0 .. n /\ n <= n
    BY <1>1
  <2>2. n \in T
    BY <1>12, <2>1
  <2> QED
    BY <2>1, <2>2
<1>14. f[n] \in Fraction /\ e[n] \in Fraction
  BY <1>1
<1> QED
  BY <1>3, <1>4, <1>13, <1>14

\* Dividing by the same number keeps the order.
LEMMA DividedAtMost ==
  ASSUME NEW f \in Fraction, NEW g \in Fraction, AtMost(f, g), NEW least \in Nat
  PROVE  AtMost(Over(f.num, f.den * least), Over(g.num, g.den * least))
<1> DEFINE p == f.num
           q == f.den
           r == g.num
           s == g.den
<1>1. p \in Nat /\ q \in Nat /\ r \in Nat /\ s \in Nat /\ p * s <= r * q
  BY DEF Fraction, AtMost
<1> HIDE DEF p, q, r, s
<1>2. p * s \in Nat /\ r * q \in Nat
  BY <1>1, Products
<1>3. (p * s) * least <= (r * q) * least
  <2> DEFINE u == p * s
             v == r * q
  <2>1. u \in Int /\ v \in Int /\ u <= v /\ least \in Int /\ 0 <= least
    BY <1>1, <1>2
  <2> HIDE DEF u, v
  <2>2. u * least <= v * least
    BY ONLY <2>1, Products
  <2> QED
    BY <2>2 DEF u, v
<1>4. p * (s * least) = (p * s) * least /\ r * (q * least) = (r * q) * least
  BY <1>1
<1> QED
  BY <1>3, <1>4 DEF AtMost, Over, p, q, r, s

(* Putting a document before a less relevant one that preceded it never    *)
(* lowers a metric of evaluate_query, and raises NDCG within the cutoff,   *)
(* even in a ranking that repeats documents.                               *)
THEOREM PromotionAlwaysPays == EvaluationSpec => []PromotionPays
<1>1. TrialInv => PromotionPays
  <2> SUFFICES ASSUME TrialInv, k > 0, NEW i \in 1 .. Len(ranking) - 1,
                      Relevance(judgments, ranking[i]) < Relevance(judgments, ranking[i + 1])
               PROVE  LET better == EvaluateQuery(Swapped(ranking, i), judgments, k)
                      IN  /\ \A m \in MetricNames : AtMost(Metrics[m], better[m])
                          /\ i < k => ~AtMost(better.ndcg, Metrics.ndcg)
    BY DEF PromotionPays
  <2> DEFINE list == Swapped(ranking, i)
             better == EvaluateQuery(list, judgments, k)
             n == Reach(ranking, k)
             g == Gains(ranking, judgments, k)
             h == Gains(list, judgments, k)
             R == RelevantCount(judgments)
             a == Relevance(judgments, ranking[i])
             b == Relevance(judgments, ranking[i + 1])
             ideal == Dcg(Take(IdealGains(judgments), k))
             least == Lesser(R, k)
  <2>1. /\ judgments \in Grading /\ ranking \in Seq(Docs) /\ k \in Nat \ {0} /\ k \in Nat
        /\ Len(ranking) <= MaxRanked
    BY DEF TrialInv
  <2>2. list \in Seq(Docs)
    BY <2>1, SwappedFacts
  <2>3. Reach(list, k) = n /\ Promoted(g, h, n, i, a, b)
    BY <2>1, SwappedGains
  <2>4. n \in 0 .. Len(ranking) /\ (n = k \/ n = Len(ranking)) /\ n <= Len(Discount)
    <3>1. n \in 0 .. Len(ranking) /\ (n = k \/ n = Len(ranking))
      BY <2>1, GainsFacts
    <3> HIDE DEF n
    <3> QED
      BY <2>1, <3>1, TrialAssumption, DiscountFacts DEF TrialAssumption
  <2>5. R \in Nat /\ R > 0
    <3>1. /\ ranking[i] \in Docs /\ ranking[i + 1] \in Docs
      BY <2>1
    <3>2. a \in Nat /\ b \in Nat /\ b > 0
      BY <2>1, <3>1, RelevanceFacts
    <3>3. ranking[i + 1] \in RelevantDocs(judgments) /\ IsFiniteSet(RelevantDocs(judgments)) /\ R \in Nat
      BY <2>1, <3>1, <3>2, RelevanceFacts
    <3>4. R # 0
      BY <3>3, FS_EmptySet DEF RelevantCount
    <3> QED
      BY <3>3, <3>4
  <2>6. ideal \in Int /\ 0 < ideal
    BY <2>1, <2>5, IdealWorth
  <2>7. /\ Metrics.ndcg = Ndcg(g, judgments, k) /\ Metrics.mrr = Mrr(g)
        /\ Metrics.recall = (IF R > 0 THEN Over(Hits(g, n), R) ELSE Zero)
        /\ Metrics.precision = Over(Hits(g, n), k)
        /\ Metrics.average_precision =
              (IF R > 0 THEN Over(PrecisionSum(g).num, PrecisionSum(g).den * least) ELSE Zero)
    BY <2>1, MetricsAre DEF Metrics
  <2>8. /\ better.ndcg = Ndcg(h, judgments, k) /\ better.mrr = Mrr(h)
        /\ better.recall = (IF R > 0 THEN Over(Hits(h, n), R) ELSE Zero)
        /\ better.precision = Over(Hits(h, n), k)
        /\ better.average_precision =
              (IF R > 0 THEN Over(PrecisionSum(h).num, PrecisionSum(h).den * least) ELSE Zero)
    <3> HIDE DEF list
    <3>1. Reach(list, k) = n
      BY <2>3
    <3> HIDE DEF n
    <3> QED
      BY <2>1, <2>2, <3>1, MetricsAre
  <2>9. \A m \in MetricNames :
          \/ Metrics[m] = Metrics.ndcg /\ better[m] = better.ndcg
          \/ Metrics[m] = Metrics.mrr /\ better[m] = better.mrr
          \/ Metrics[m] = Metrics.recall /\ better[m] = better.recall
          \/ Metrics[m] = Metrics.precision /\ better[m] = better.precision
          \/ Metrics[m] = Metrics.average_precision /\ better[m] = better.average_precision
    <3> HIDE DEF better
    <3> QED
      BY DEF MetricNames
  <2>10. /\ Ndcg(g, judgments, k) = Over(Dcg(g), ideal)
         /\ Ndcg(h, judgments, k) = Over(Dcg(h), ideal)
    BY <2>6 DEF Ndcg
  <2>11. least \in Nat
    BY <2>1, <2>5 DEF Lesser
  <2> HIDE DEF list, better, n, g, h, R, a, b, ideal, least
  <2>12. /\ n \in Nat /\ g \in [1 .. n -> Nat] /\ h \in [1 .. n -> Nat]
         /\ a \in Nat /\ b \in Nat /\ a < b /\ i \in Nat
         /\ i <= n => g[i] = a /\ h[i] = b
         /\ i + 1 <= n => g[i + 1] = b /\ h[i + 1] = a
         /\ \A j \in 1 .. n : j # i /\ j # i + 1 => g[j] = h[j]
    BY <2>3 DEF Promoted
  <2>13. /\ Dcg(g) \in Int /\ Dcg(h) \in Int /\ Dcg(g) <= Dcg(h)
         /\ i + 1 <= n => Dcg(g) < Dcg(h)
    BY <2>3, <2>4, PromotionRaisesDcg
  <2>14. AtMost(Metrics.ndcg, better.ndcg)
    BY <2>6, <2>7, <2>8, <2>10, <2>13, SameDenominator
  <2>15. i < k => ~AtMost(better.ndcg, Metrics.ndcg)
    <3> SUFFICES ASSUME i < k PROVE ~AtMost(better.ndcg, Metrics.ndcg)
      OBVIOUS
    <3>1. i + 1 <= n
      BY <2>1, <2>4
    <3>2. Dcg(g) * ideal < Dcg(h) * ideal
      BY <2>6, <2>13, <3>1, Products
    <3>3. Dcg(g) * ideal \in Int /\ Dcg(h) * ideal \in Int
      BY <2>6, <2>13
    <3> QED
      BY <2>7, <2>8, <2>10, <3>2, <3>3 DEF AtMost, Over
  <2>16. AtMost(Metrics.mrr, better.mrr)
    <3>1. ASSUME NEW j \in 1 .. n, g[j] > 0 PROVE \E l \in 1 .. n : l <= j /\ h[l] > 0
      <4>1. CASE j = i
        BY <2>12, <3>1, <4>1
      <4>2. CASE j = i + 1
        <5>1. i \in 1 .. n /\ i <= j /\ h[i] > 0
          BY <2>12, <4>2
        <5> QED
          BY <5>1
      <4>3. CASE j # i /\ j # i + 1
        <5>1. j <= j /\ h[j] > 0
          BY <2>12, <3>1, <4>3
        <5> QED
          BY <5>1
      <4> QED
        BY <4>1, <4>2, <4>3
    <3> QED
      BY <2>7, <2>8, <2>12, <3>1, EarlierHitNotLess
  <2>17. Hits(g, n) \in Nat /\ Hits(h, n) \in Nat /\ Hits(g, n) <= Hits(h, n)
    <3>1. n \in 0 .. n
      BY <2>12
    <3>2. Hits(g, n) \in Nat /\ Hits(h, n) \in Nat
      BY <2>12, <3>1, HitsFacts
    <3>3. Hits(h, n) = Hits(g, n) + (IF n = i /\ a = 0 THEN 1 ELSE 0)
      BY <2>3, <3>1, PromotionHits
    <3> QED
      BY <3>2, <3>3
  <2>18. AtMost(Metrics.recall, better.recall)
    BY <2>5, <2>7, <2>8, <2>17, SameDenominator
  <2>19. AtMost(Metrics.precision, better.precision)
    BY <2>1, <2>7, <2>8, <2>17, SameDenominator
  <2>20. AtMost(Metrics.average_precision, better.average_precision)
    <3>1. /\ PrecisionSum(g) \in Fraction /\ PrecisionSum(h) \in Fraction
          /\ AtMost(PrecisionSum(g), PrecisionSum(h))
      BY <2>3, PromotionRaisesPrecisions
    <3> QED
      BY <2>5, <2>7, <2>8, <2>11, <3>1, DividedAtMost
  <2> QED
    BY <2>9, <2>14, <2>15, <2>16, <2>18, <2>19, <2>20 DEF better, list
<1> QED
  BY <1>1, TrialInvariant, PTL

-----------------------------------------------------------------------------
(* A perfect ranking                                                       *)

\* list holds every relevant document, once, and before the others.
RelevantFirst(list, js) ==
  /\ Distinct(list) /\ RelevantDocs(js) \subseteq ToSet(list)
  /\ \A i, j \in 1 .. Len(list) :
       i < j /\ Relevance(js, list[j]) > 0 => Relevance(js, list[i]) > 0

\* Its relevant documents are at the first places.
LEMMA FirstPlaces ==
  ASSUME NEW S, NEW js, Graded(js, S), NEW list \in Seq(S), RelevantFirst(list, js)
  PROVE  /\ RelevantCount(js) \in Nat /\ RelevantCount(js) <= Len(list)
         /\ \A i \in 1 .. Len(list) : Relevance(js, list[i]) > 0 <=> i <= RelevantCount(js)
<1> DEFINE R == RelevantCount(js)
           rel(i) == Relevance(js, list[i])
           P == {i \in 1 .. Len(list) : rel(i) > 0}
           h == [i \in P |-> list[i]]
           D == RelevantDocs(js)
<1>1. /\ Len(list) \in Nat /\ DOMAIN list = 1 .. Len(list) /\ Distinct(list)
      /\ \A d \in D : \E i \in 1 .. Len(list) : list[i] = d
      /\ \A i, j \in 1 .. Len(list) : i < j /\ rel(j) > 0 => rel(i) > 0
  BY DEF RelevantFirst, ToSet
<1>2. /\ \A i \in 1 .. Len(list) : list[i] \in S /\ (rel(i) > 0 <=> list[i] \in D)
      /\ IsFiniteSet(D) /\ R = Cardinality(D)
  <2>1. \A i \in 1 .. Len(list) : list[i] \in S
    BY <1>1
  <2> QED
    BY <2>1 DEF RelevantCount, Graded
<1>3. R \in Nat
  BY <1>2, FS_CardinalityType
<1> HIDE DEF R, rel, D
<1>4. /\ \A i : i \in P <=> i \in 1 .. Len(list) /\ rel(i) > 0
      /\ P \in SUBSET (1 .. Len(list))
  OBVIOUS
<1> HIDE DEF P
<1>5. h \in [P -> D] /\ \A i, j \in P : h[i] = h[j] => i = j
  BY <1>1, <1>2, <1>4 DEF Distinct
<1>6. \A d \in D : \E i \in P : h[i] = d
  BY <1>1, <1>2, <1>4
<1> HIDE DEF h
<1>7. h \in Injection(P, D) /\ h \in Surjection(P, D)
  BY <1>5, <1>6, Fun_IsInj, Fun_IsSurj
<1>8. IsFiniteSet(P) /\ Cardinality(P) = R
  BY <1>2, <1>7, FS_Injection
<1>9. \A i \in P : i <= R
  <2> SUFFICES ASSUME NEW i \in P PROVE i <= R
    OBVIOUS
  <2>1. i \in Nat /\ i > 0 /\ i \in Int /\ 1 \in Int
    BY <1>4
  <2>2. 1 .. i \in SUBSET P
    <3> SUFFICES ASSUME NEW j \in 1 .. i PROVE j \in P
      OBVIOUS
    <3>1. i \in 1 .. Len(list) /\ j \in 1 .. Len(list) /\ (j = i \/ j < i)
      BY <1>1, <1>4
    <3>2. rel(j) > 0
      BY <1>1, <1>4, <3>1
    <3> QED
      BY <1>4, <3>1, <3>2
  <2>3. Cardinality(1 .. i) = i
    BY <2>1, FS_Interval
  <2>4. Cardinality(1 .. i) <= Cardinality(P)
    BY <1>8, <2>2, FS_Subset
  <2> QED
    BY <1>8, <2>3, <2>4
<1>10. P = 1 .. R
  <2>1. IsFiniteSet(1 .. R) /\ Cardinality(1 .. R) = R
    BY <1>3, FS_Interval
  <2>2. P \in SUBSET (1 .. R)
    BY <1>3, <1>4, <1>9
  <2> QED
    BY <1>8, <2>1, <2>2, FS_Subset
<1>11. R <= Len(list)
  BY <1>1, <1>3, <1>4, <1>10
<1>12. \A i \in 1 .. Len(list) : rel(i) > 0 <=> i <= R
  BY <1>3, <1>4, <1>10
<1> QED
  BY <1>3, <1>11, <1>12 DEF R, rel

\* list holds every relevant document, once, the more relevant ones first.
Perfect(list, js) ==
  /\ list \in Seq(Docs) /\ Distinct(list)
  /\ RelevantDocs(js) # {} /\ RelevantDocs(js) \subseteq ToSet(list)
  /\ \A i, j \in DOMAIN list : i < j => Relevance(js, list[i]) >= Relevance(js, list[j])

\* Its relevant documents are at the first places.
LEMMA PerfectPlaces ==
  ASSUME NEW js \in Grading, NEW list, Perfect(list, js)
  PROVE  /\ RelevantCount(js) \in Nat \ {0} /\ RelevantCount(js) <= Len(list)
         /\ \A i \in 1 .. Len(list) : Relevance(js, list[i]) > 0 <=> i <= RelevantCount(js)
<1>1. list \in Seq(Docs) /\ Graded(js, Docs) /\ RelevantDocs(js) # {}
  BY GradingIsGraded DEF Perfect
<1>2. RelevantFirst(list, js)
  <2>1. \A i \in 1 .. Len(list) : list[i] \in Docs /\ Relevance(js, list[i]) \in Nat
    BY <1>1, RelevanceFacts
  <2> QED
    BY <1>1, <2>1 DEF Perfect, RelevantFirst
<1>3. RelevantCount(js) # 0
  BY <1>1, RelevanceFacts, FS_EmptySet DEF RelevantCount
<1> QED
  BY <1>1, <1>2, <1>3, FirstPlaces

\* Nothing is worth more.
LEMMA PerfectDcg ==
  ASSUME NEW js \in Grading, NEW list, Perfect(list, js), Len(list) <= MaxRanked, NEW cut \in Nat
  PROVE  Dcg(Take(IdealGains(js), cut)) = Dcg(Gains(list, js, cut))
<1> DEFINE n == Reach(list, cut)
           c == RelevantCount(js)
           m == Lesser(cut, c)
           L == Len(list)
           val == Value(js)
           got == Dcg(Gains(list, js, cut))
           ideal == Dcg(Take(IdealGains(js), cut))
<1>1. list \in Seq(Docs) /\ Distinct(list)
  BY DEF Perfect
<1>2. got \in Int /\ ideal \in Int /\ got <= ideal
  BY <1>1, DcgAtMostIdeal
<1>3. /\ n \in Nat /\ n \in 0 .. L /\ n <= cut /\ (n = cut \/ n = L)
      /\ got = Total(Worths(list, val, n))
  BY <1>1, GainsFacts
<1>4. val \in [Docs -> Nat] /\ c \in 0 .. Len(Discount) /\ c \in Nat
  BY ValueFacts, RelevanceFacts
<1>5. PICK docs \in Bijection(1 .. c, RelevantDocs(js)) :
        /\ Lists(docs, c, val, Docs)
        /\ \A to \in Nat : Dcg(Take(IdealGains(js), to)) = Total(Worths(docs, val, Lesser(to, c)))
  BY IdealFacts
<1>6. ideal = Total(Worths(docs, val, m))
  BY <1>5
<1>7. m \in Nat /\ m <= c /\ m \in 0 .. Len(Discount) /\ m <= cut
  BY <1>4 DEF Lesser
<1>8. L \in Nat /\ n \in 0 .. Len(Discount) /\ n <= L
  <2>1. L \in Nat /\ L <= MaxRanked
    BY <1>1
  <2> HIDE DEF L, n
  <2> QED
    BY <1>3, <2>1, TrialAssumption, DiscountFacts DEF TrialAssumption
<1>9. Lists(list, L, val, Docs)
  <2>1. list \in [1 .. L -> Docs] /\ DOMAIN list = 1 .. L
    BY <1>1
  <2>2. \A i, j \in 1 .. L : i < j => val[list[i]] >= val[list[j]]
    <3> SUFFICES ASSUME NEW i \in 1 .. L, NEW j \in 1 .. L, i < j
                 PROVE  val[list[i]] >= val[list[j]]
      OBVIOUS
    <3>1. Relevance(js, list[i]) >= Relevance(js, list[j])
      BY <2>1 DEF Perfect
    <3>2. list[i] \in Docs /\ list[j] \in Docs
      BY <2>1
    <3> QED
      BY <3>1, <3>2, ValueFacts
  <2>3. \A s \in Docs : val[s] > 0 => \E i \in 1 .. L : list[i] = s
    <3> SUFFICES ASSUME NEW s \in Docs, val[s] > 0 PROVE \E i \in 1 .. L : list[i] = s
      OBVIOUS
    <3>1. s \in RelevantDocs(js)
      BY ValueFacts, RelevanceFacts
    <3>2. s \in ToSet(list)
      BY <3>1 DEF Perfect
    <3> QED
      BY <2>1, <3>2 DEF ToSet
  <2> QED
    BY <2>1, <2>2, <2>3 DEF Lists
<1> HIDE DEF n, c, m, L, val, got, ideal
<1> DEFINE d == [i \in 1 .. m |-> docs[i]]
<1>10. /\ d \in Injection(1 .. m, Docs)
       /\ Worths(docs, val, m) = Worths(d, val, m) /\ Total(Worths(d, val, m)) \in Int
  <2>1. docs \in [1 .. c -> Docs] /\ \A i, j \in 1 .. c : docs[i] = docs[j] => i = j
    <3>1. docs \in [1 .. c -> Docs]
      BY ONLY <1>5 DEF Lists
    <3>2. docs \in Injection(1 .. c, RelevantDocs(js))
      BY <1>5 DEF Bijection
    <3>3. \A i, j \in 1 .. c : docs[i] = docs[j] => i = j
      BY ONLY <3>2 DEF Injection, IsInjective
    <3> QED
      BY <3>1, <3>3
  <2>2. \A i \in 1 .. m : i \in 1 .. c
    BY <1>4, <1>7
  <2>3. d \in [1 .. m -> Docs] /\ \A i \in 1 .. m : d[i] = docs[i]
    BY <2>1, <2>2
  <2>4. Worths(docs, val, m) = Worths(d, val, m)
    BY DEF Worths
  <2> HIDE DEF d
  <2>5. \A i, j \in 1 .. m : d[i] = d[j] => i = j
    BY <2>1, <2>2, <2>3
  <2> QED
    BY <1>4, <1>7, <2>3, <2>4, <2>5, Fun_IsInj, WorthsTyped
<1> HIDE DEF d
<1>11. Total(Worths(d, val, m)) <= Total(Bests(list, L, val, m))
  BY <1>4, <1>7, <1>8, <1>9, <1>10, Rearrangement
<1>12. Total(Bests(list, L, val, m)) <= Total(Worths(list, val, n))
  <2>1. m <= n \/ n = L
    BY <1>3, <1>7
  <2> QED
    BY <1>4, <1>7, <1>8, <1>9, <2>1, BestsAreListed
<1>13. Total(Bests(list, L, val, m)) \in Int
  BY <1>4, <1>7, <1>8, <1>9, BestsTyped
<1>14. ideal <= got
  BY <1>2, <1>3, <1>6, <1>10, <1>11, <1>12, <1>13
<1>15. ideal = got
  BY <1>2, <1>14
<1> QED
  BY <1>15 DEF ideal, got

\* All its precisions are 1, and there are as many as relevant documents in reach.
LEMMA PerfectPrecisions ==
  ASSUME NEW n \in Nat, NEW g \in [1 .. n -> Nat], NEW R \in Nat,
         \A i \in 1 .. n : g[i] > 0 <=> i <= R
  PROVE  /\ \A i \in 0 .. n : Hits(g, i) = Lesser(i, R)
         /\ PrecisionSum(g) \in Fraction
         /\ PrecisionSum(g).num = Lesser(n, R) * PrecisionSum(g).den
<1>1. \A i \in 0 .. n : Hits(g, i) = Lesser(i, R)
  <2> SUFFICES ASSUME NEW i \in 0 .. n PROVE Hits(g, i) = Lesser(i, R)
    OBVIOUS
  <2> DEFINE l == Lesser(i, R)
  <2>1. l \in Nat /\ l \in Int /\ 1 \in Int /\ (IF 1 > l THEN 0 ELSE l - 1 + 1) = l
    BY DEF Lesser
  <2>2. {j \in 1 .. i : g[j] > 0} = 1 .. l
    <3>1. \A j \in 1 .. i : j \in 1 .. n
      OBVIOUS
    <3>2. \A j : j \in 1 .. l <=> j \in 1 .. i /\ j <= R
      BY DEF Lesser
    <3> HIDE DEF l
    <3> QED
      BY <3>1, <3>2
  <2> HIDE DEF l
  <2>3. Cardinality(1 .. l) = l
    BY <2>1, FS_Interval
  <2> QED
    BY <2>2, <2>3 DEF Hits, l
<1>2. Len(g) = n
  <2>1. g \in Seq(Nat) /\ DOMAIN g = 1 .. n
    OBVIOUS
  <2> QED
    BY <2>1
<1>3. PICK f \in [0 .. n -> Fraction] : PrecisionSums(f, g, n) /\ PrecisionSum(g) = f[n]
  BY <1>2, PrecisionSumIsScan
<1> DEFINE T == {i \in Nat : i <= n => f[i].num = Lesser(i, R) * f[i].den}
<1>4. 0 \in T
  <2>1. f[0].num = 0 /\ f[0].den = 1 /\ Lesser(0, R) = 0
    BY <1>3 DEF PrecisionSums, Zero, Lesser
  <2> QED
    BY <2>1
<1>5. ASSUME NEW i \in Nat, i \in T PROVE i + 1 \in T
  <2> SUFFICES ASSUME i + 1 <= n PROVE f[i + 1].num = Lesser(i + 1, R) * f[i + 1].den
    OBVIOUS
  <2> DEFINE r == i + 1
             a == f[i]
  <2>1. r \in 1 .. n /\ i \in 0 .. n /\ r - 1 = i /\ r \in 0 .. n /\ r \in Nat \ {0}
    OBVIOUS
  <2>2. f[r] = IF g[r] > 0 THEN Plus(a, Over(Hits(g, r), r)) ELSE a
    BY <1>3, <2>1 DEF PrecisionSums
  <2>3. a \in Fraction /\ a.num = Lesser(i, R) * a.den
    BY <1>5, <2>1
  <2>4. a.num \in Nat /\ a.den \in Nat \ {0}
    BY <2>3 DEF Fraction
  <2>5. CASE r <= R
    <3>1. g[r] > 0 /\ Lesser(r, R) = r /\ Lesser(i, R) = i /\ Hits(g, r) = r
      BY <1>1, <2>1, <2>5 DEF Lesser
    <3> DEFINE p == Plus(a, Over(r, r))
    <3> HIDE DEF a, r
    <3>2. p.num = a.num * r + r * a.den /\ p.den = a.den * r
      BY <2>1, <2>3, PlusIsFraction
    <3> HIDE DEF p
    <3>3. a.num = i * a.den /\ f[r] = p
      BY <2>2, <2>3, <3>1 DEF p
    <3>4. r = i + 1
      BY DEF r
    <3>5. a.num * r + r * a.den = r * (a.den * r)
      <4> DEFINE q == a.den
      <4>1. q \in Int /\ i \in Int
        BY <2>4
      <4> HIDE DEF q
      <4>2. (i * q) * (i + 1) + (i + 1) * q = (i + 1) * (q * (i + 1))
        BY ONLY <4>1
      <4> QED
        BY <3>3, <3>4, <4>2 DEF q
    <3> QED
      BY <3>1, <3>2, <3>3, <3>5 DEF r
  <2>6. CASE ~(r <= R)
    <3>1. ~(g[r] > 0) /\ Lesser(r, R) = Lesser(i, R)
      BY <2>1, <2>6 DEF Lesser
    <3> QED
      BY <2>2, <2>3, <3>1
  <2> QED
    BY <2>5, <2>6
<1>6. \A i \in Nat : i \in T
  <2> HIDE DEF T
  <2> QED
    BY <1>4, <1>5, Induction
<1>7. f[n] \in Fraction /\ n \in T
  BY <1>6
<1> QED
  BY <1>1, <1>3, <1>7

(* A ranking of every relevant document, the more relevant ones first and  *)
(* none twice, scores 1: ideal_gains and the reciprocal rank agree on what *)
(* is best at every cutoff, AP and recall where there is room for it.      *)
THEOREM IdealAlwaysScoresOne ==
  ASSUME ~MayRepeat PROVE EvaluationSpec => []IdealScoresOne
<1>1. TrialInv => IdealScoresOne
  <2> SUFFICES ASSUME TrialInv, k > 0, Perfect(ranking, judgments)
               PROVE  /\ SameValue(Metrics.ndcg, One) /\ SameValue(Metrics.mrr, One)
                      /\ k >= RelevantCount(judgments) =>
                           /\ SameValue(Metrics.average_precision, One)
                           /\ SameValue(Metrics.recall, One)
    BY DEF IdealScoresOne, Perfect, TrialInv
  <2> DEFINE n == Reach(ranking, k)
             g == Gains(ranking, judgments, k)
             R == RelevantCount(judgments)
             s == PrecisionSum(g)
             least == Lesser(R, k)
             ideal == Dcg(Take(IdealGains(judgments), k))
  <2>1. /\ judgments \in Grading /\ ranking \in Seq(Docs) /\ k \in Nat \ {0} /\ k \in Nat
        /\ Len(ranking) <= MaxRanked /\ Len(ranking) \in Nat
    BY DEF TrialInv
  <2>2. /\ R \in Nat \ {0} /\ R <= Len(ranking)
        /\ \A i \in 1 .. Len(ranking) : Relevance(judgments, ranking[i]) > 0 <=> i <= R
    BY <2>1, PerfectPlaces
  <2>3. /\ n \in Nat /\ n \in 0 .. Len(ranking) /\ n <= k /\ (n = k \/ n = Len(ranking))
        /\ g \in [1 .. n -> Nat]
        /\ \A i \in 1 .. n : g[i] = Relevance(judgments, ranking[i])
    BY <2>1, GainsFacts
  <2>4. ideal = Dcg(g) /\ ideal \in Int /\ ideal > 0
    <3>1. ideal = Dcg(g)
      BY <2>1, PerfectDcg
    <3>2. ideal \in Int /\ (k > 0 /\ R > 0 => 0 < ideal)
      BY <2>1, IdealWorth
    <3>3. k > 0 /\ R > 0
      BY <2>1, <2>2
    <3> HIDE DEF ideal, R, g
    <3> QED
      BY <3>1, <3>2, <3>3
  <2>5. /\ Metrics.ndcg = Ndcg(g, judgments, k) /\ Metrics.mrr = Mrr(g)
        /\ Metrics.recall = (IF R > 0 THEN Over(Hits(g, n), R) ELSE Zero)
        /\ Metrics.average_precision = (IF R > 0 THEN Over(s.num, s.den * least) ELSE Zero)
    BY <2>1, MetricsAre DEF Metrics
  <2>6. Ndcg(g, judgments, k) = Over(ideal, ideal)
    BY <2>4 DEF Ndcg
  <2> HIDE DEF n, g, R, s, least, ideal
  <2>7. \A i \in 1 .. n : g[i] > 0 <=> i <= R
    BY <2>1, <2>2, <2>3
  <2>8. SameValue(Metrics.ndcg, One)
    BY <2>4, <2>5, <2>6 DEF SameValue, Over, One
  <2>9. SameValue(Metrics.mrr, One)
    <3> DEFINE P == {i \in DOMAIN g : g[i] > 0}
    <3>1. 1 \in 1 .. n /\ g[1] > 0
      BY <2>1, <2>2, <2>3, <2>7
    <3>2. P # {}
      BY <2>3, <3>1
    <3>3. Min(P) \in 1 .. n /\ Min(P) <= 1
      BY <2>3, <3>1, <3>2, FirstHit
    <3>4. Mrr(g) = Over(1, Min(P))
      BY <3>2 DEF Mrr
    <3> HIDE DEF P
    <3>5. Min(P) = 1
      BY <2>3, <3>3
    <3> QED
      BY <2>5, <3>4, <3>5 DEF SameValue, Over, One
  <2>10. /\ \A i \in 0 .. n : Hits(g, i) = Lesser(i, R)
         /\ s \in Fraction /\ s.num = Lesser(n, R) * s.den
    BY <2>2, <2>3, <2>7, PerfectPrecisions DEF s
  <2>11. Lesser(n, R) = least /\ least \in Nat
    BY <2>1, <2>2, <2>3 DEF Lesser, least
  <2>12. SameValue(Metrics.average_precision, One)
    <3>1. s.den \in Nat /\ s.num = least * s.den
      BY <2>10, <2>11 DEF Fraction
    <3>2. Metrics.average_precision = Over(s.num, s.den * least)
      BY <2>2, <2>5
    <3>3. least * s.den = s.den * least /\ s.den * least \in Int
      BY <2>11, <3>1
    <3> QED
      BY <3>1, <3>2, <3>3 DEF SameValue, Over, One
  <2>13. k >= R => SameValue(Metrics.recall, One)
    <3> SUFFICES ASSUME k >= R PROVE SameValue(Metrics.recall, One)
      OBVIOUS
    <3>1. n \in 0 .. n /\ Lesser(n, R) = R
      BY <2>1, <2>2, <2>3 DEF Lesser
    <3>2. Metrics.recall = Over(R, R)
      BY <2>2, <2>5, <2>10, <3>1
    <3> QED
      BY <2>2, <3>2 DEF SameValue, Over, One
  <2> QED
    BY <2>8, <2>9, <2>12, <2>13 DEF R
<1> QED
  BY <1>1, TrialInvariant, PTL

-----------------------------------------------------------------------------
(* The scenario generator                                                  *)

Doc == [id : Nat, text : Seq(STRING), retrieval : Retrievals]

Judgments == UNION {[D -> Nat \ {0}] : D \in SUBSET Nat}

\* The judged slots of query q: the first of its pool.
JudgedSlots(q) == 1 .. Lesser(Relevant, Len(candidates[q]))

ScenarioTyped ==
  /\ shape \in Shapes
  /\ candidates \in Seq(Seq(Doc))
  /\ qrels \in Seq(Judgments) /\ Len(qrels) = Len(candidates)
  /\ docCounter \in Nat

\* Ids were handed out in order, and never twice.
IdsAreFresh ==
  /\ \A q \in 1 .. Current : \A i \in 1 .. Len(candidates[q]) :
       candidates[q][i].id < docCounter
  /\ \A p, q \in 1 .. Current :
       \A i \in 1 .. Len(candidates[p]), j \in 1 .. Len(candidates[q]) :
         candidates[p][i].id = candidates[q][j].id => p = q /\ i = j

\* The judged documents are those of the judged slots, with positive grades.
SlotsAreJudged ==
  \A q \in 1 .. Current :
    /\ Len(candidates[q]) <= Pool
    /\ DOMAIN qrels[q] = {candidates[q][i].id : i \in JudgedSlots(q)}
    /\ \A i \in JudgedSlots(q) : ToSet(Topic(q)) \subseteq ToSet(candidates[q][i].text)

ScenarioInv == ScenarioTyped /\ IdsAreFresh /\ SlotsAreJudged

\* The numbers of a shape.
LEMMA ShapeFacts ==
  ASSUME ScenarioTyped
  PROVE  /\ Queries \in Nat /\ Pool \in Nat
         /\ Relevant \in Nat /\ Relevant <= Pool
         /\ Current \in Nat
         /\ \A q \in 1 .. Current : candidates[q] \in Seq(Doc)
<1>1. shape \in Nat \X Nat \X Nat
  BY ScenarioAssumption DEF ScenarioTyped, ScenarioAssumption
<1> QED
  BY <1>1 DEF Queries, Pool, Relevant, Lesser, Current, ScenarioTyped

\* A topic is a text.
LEMMA TopicsAreTexts ==
  ASSUME NEW q \in Nat \ {0}
  PROVE  Topic(q) \in Seq(STRING)
<1>1. Topics \in Seq(Seq(STRING)) /\ Len(Topics) \in Nat \ {0}
  BY ScenarioAssumption DEF ScenarioAssumption
<1> DEFINE n == Len(Topics)
           t == ((q - 1) % n) + 1
<1>2. t \in 1 .. n
  BY <1>1
<1> HIDE DEF t
<1>3. Topics[t] \in Seq(STRING)
  BY <1>1, <1>2
<1> QED
  BY <1>3 DEF Topic, t

\* So is a single token.
LEMMA ShortTexts ==
  ASSUME NEW S, NEW a \in S, NEW b \in S
  PROVE  <<a>> \in Seq(S) /\ <<a, b>> \in Seq(S)
OBVIOUS

(* A text that begins with another holds its tokens.                       *)
LEMMA PrefixTokens ==
  ASSUME NEW S, NEW s \in Seq(S), NEW t \in Seq(S)
  PROVE  s \o t \in Seq(S) /\ ToSet(s) \subseteq ToSet(s \o t)
<1> s \o t \in Seq(S)
  OBVIOUS
<1> SUFFICES ASSUME NEW i \in 1 .. Len(s) PROVE \E j \in DOMAIN (s \o t) : (s \o t)[j] = s[i]
  BY DEF ToSet
<1>1. i \in 1 .. Len(s \o t) /\ (s \o t)[i] = s[i]
  OBVIOUS
<1> QED
  BY <1>1

\* Qrels::insert keeps a judgment per document.
LEMMA InsertTyped ==
  ASSUME NEW js \in Judgments, NEW d \in Nat, NEW grade \in Nat \ {0}
  PROVE  /\ Insert(js, d, grade) \in Judgments
         /\ DOMAIN Insert(js, d, grade) = DOMAIN js \union {d}
<1>1. PICK D \in SUBSET Nat : js \in [D -> Nat \ {0}]
  BY DEF Judgments
<1>2. D \union {d} \in SUBSET Nat
  BY <1>1
<1>3. Insert(js, d, grade) \in [D \union {d} -> Nat \ {0}]
  BY <1>1 DEF Insert
<1> QED
  BY <1>1, <1>2, <1>3 DEF Judgments

\* Positive grades only: every judged document is a relevant one.
LEMMA AllJudgedAreRelevant ==
  ASSUME NEW js \in Judgments
  PROVE  RelevantDocs(js) = DOMAIN js
<1>1. PICK D \in SUBSET Nat : js \in [D -> Nat \ {0}]
  BY DEF Judgments
<1>2. \A x \in DOMAIN js : js[x] \in Nat \ {0}
  BY <1>1
<1>3. \A x \in DOMAIN js : js[x] > 0
  BY <1>2
<1> QED
  BY <1>3 DEF RelevantDocs

(* A new document ends the pool of the current query; its id is new.       *)
LEMMA PutKeeps ==
  ASSUME ScenarioTyped, IdsAreFresh, Current > 0,
         NEW text \in Seq(STRING), NEW r \in Retrievals, Put(text, r)
  PROVE  /\ candidates' \in Seq(Seq(Doc)) /\ Current' = Current
         /\ docCounter' \in Nat /\ shape' = shape
         /\ \A q \in 1 .. Current \ {Current} : candidates'[q] = candidates[q]
         /\ Len(candidates'[Current]) = Slot + 1
         /\ \A i \in 1 .. Slot : candidates'[Current][i] = candidates[Current][i]
         /\ candidates'[Current][Slot + 1] = [id |-> docCounter, text |-> text, retrieval |-> r]
         /\ IdsAreFresh'
<1> DEFINE d == [id |-> docCounter, text |-> text, retrieval |-> r]
           c == Current
           pool == candidates[c]
<1>1. /\ c \in 1 .. Len(candidates) /\ c = Len(candidates)
      /\ candidates \in Seq(Seq(Doc)) /\ pool \in Seq(Doc) /\ d \in Doc
      /\ docCounter \in Nat /\ Slot = Len(pool) /\ Slot \in Nat
  BY DEF Current, ScenarioTyped, Doc, Slot
<1>2. candidates' = [candidates EXCEPT ![c] = Append(pool, d)]
  BY DEF Put
<1>3. docCounter' = docCounter + 1 /\ shape' = shape
  BY DEF Put
<1>4. \A q \in 1 .. c : candidates[q] \in Seq(Doc)
  BY <1>1
<1>5. \A q \in 1 .. c : \A i \in 1 .. Len(candidates[q]) :
        candidates[q][i] \in Doc
  BY <1>4
<1>5a. \A q \in 1 .. c : \A i \in 1 .. Len(candidates[q]) :
        candidates[q][i].id < docCounter /\ candidates[q][i].id \in Nat
  BY <1>1, <1>5 DEF IdsAreFresh, Doc
<1> HIDE DEF d, pool
<1>6. candidates' \in Seq(Seq(Doc)) /\ Len(candidates') = c
  BY <1>1, <1>2
<1>7. /\ \A q \in 1 .. c \ {c} : candidates'[q] = candidates[q]
      /\ candidates'[c] = Append(pool, d)
  BY <1>1, <1>2
<1>8. /\ Len(candidates'[c]) = Slot + 1
      /\ \A i \in 1 .. Slot : candidates'[c][i] = pool[i]
      /\ candidates'[c][Slot + 1] = d
  BY <1>1, <1>7
<1>9. Current' = c
  BY <1>6 DEF Current
<1>10. IdsAreFresh'
  <2> DEFINE Old(m, l) == l \in 1 .. Len(candidates[m])
             New(m, l) == m = c /\ l = Slot + 1
  <2>1. ASSUME NEW m \in 1 .. c, NEW l \in 1 .. Len(candidates'[m]) PROVE Old(m, l) \/ New(m, l)
    <3>1. CASE m = c
      BY <1>1, <1>8, <3>1 DEF pool
    <3>2. CASE m # c
      BY <1>7, <3>2
    <3> QED
      BY <3>1, <3>2
  <2>2. ASSUME NEW m \in 1 .. c, NEW l, Old(m, l)
        PROVE  /\ candidates'[m][l] = candidates[m][l]
               /\ candidates'[m][l].id < docCounter /\ candidates'[m][l].id \in Nat
    <3>1. candidates'[m][l] = candidates[m][l]
      BY <1>1, <1>7, <1>8, <2>2 DEF pool
    <3> QED
      BY <3>1, <2>2, <1>5a
  <2>3. ASSUME NEW m, NEW l, New(m, l)
        PROVE  candidates'[m][l].id = docCounter
    BY <1>8, <2>3 DEF d
  <2>4. ASSUME NEW m \in 1 .. c, NEW l \in 1 .. Len(candidates'[m])
        PROVE  candidates'[m][l].id < docCounter'
    <3>1. CASE Old(m, l)
      <4>1. candidates'[m][l].id < docCounter /\ candidates'[m][l].id \in Nat
        BY <2>2, <3>1
      <4> QED
        BY <4>1, <1>1, <1>3
    <3>2. CASE New(m, l)
      <4>1. candidates'[m][l].id = docCounter
        BY <2>3, <3>2
      <4> QED
        BY <4>1, <1>1, <1>3
    <3> QED
      BY <2>1, <3>1, <3>2
  <2>5. ASSUME NEW m \in 1 .. c, NEW i \in 1 .. Len(candidates'[m]),
               NEW q \in 1 .. c, NEW j \in 1 .. Len(candidates'[q]),
               candidates'[m][i].id = candidates'[q][j].id
        PROVE  m = q /\ i = j
    <3>1. CASE Old(m, i) /\ Old(q, j)
      <4>1. candidates[m][i].id = candidates[q][j].id
        BY <2>2, <2>5, <3>1
      <4> QED
        BY <4>1, <3>1 DEF IdsAreFresh
    <3>2. CASE Old(m, i) /\ New(q, j)
      <4>1. candidates'[m][i].id < docCounter /\ candidates'[m][i].id \in Nat
        BY <2>2, <3>2
      <4>2. candidates'[q][j].id = docCounter
        BY <2>3, <3>2
      <4> QED
        BY <4>1, <4>2, <1>1, <2>5
    <3>3. CASE New(m, i) /\ Old(q, j)
      <4>1. candidates'[q][j].id < docCounter /\ candidates'[q][j].id \in Nat
        BY <2>2, <3>3
      <4>2. candidates'[m][i].id = docCounter
        BY <2>3, <3>3
      <4> QED
        BY <4>1, <4>2, <1>1, <2>5
    <3>4. CASE New(m, i) /\ New(q, j)
      BY <3>4
    <3>5. (Old(m, i) \/ New(m, i)) /\ (Old(q, j) \/ New(q, j))
      BY <2>1
    <3> HIDE DEF Old, New
    <3> QED
      BY <3>1, <3>2, <3>3, <3>4, <3>5
  <2> HIDE DEF Old, New
  <2>6. \A m \in 1 .. c : \A i \in 1 .. Len(candidates'[m]) : candidates'[m][i].id < docCounter'
    BY <2>4
  <2>7. \A m, q \in 1 .. c : \A i \in 1 .. Len(candidates'[m]), j \in 1 .. Len(candidates'[q]) :
          candidates'[m][i].id = candidates'[q][j].id => m = q /\ i = j
    BY <2>5
  <2> HIDE DEF c
  <2> QED
    BY <1>9, <2>6, <2>7 DEF IdsAreFresh
<1> QED
  BY <1>1, <1>3, <1>6, <1>7, <1>8, <1>9, <1>10 DEF d, pool

(* As many different values as places, if none occurs twice.               *)
LEMMA DistinctValues ==
  ASSUME NEW n \in Nat, NEW V, NEW f \in [1 .. n -> V],
         \A v \in V : \E i \in 1 .. n : f[i] = v,
         \A i, j \in 1 .. n : f[i] = f[j] => i = j
  PROVE  IsFiniteSet(V) /\ Cardinality(V) = n
<1>1. f \in Bijection(1 .. n, V)
  BY Fun_IsBij
<1>2. IsFiniteSet(1 .. n) /\ Cardinality(1 .. n) = n
  BY FS_Interval
<1> QED
  BY <1>1, <1>2, Fun_ExistsBij, FS_Bijection

\* A new query starts with an empty pool and no judgments.
LEMMA NextQueryKeeps ==
  ASSUME ScenarioInv, NextQuery PROVE ScenarioInv'
<1> DEFINE c == Current
<1>1. /\ c = Len(candidates) /\ c \in Nat /\ Len(qrels) = c
      /\ candidates \in Seq(Seq(Doc)) /\ qrels \in Seq(Judgments)
      /\ docCounter \in Nat /\ shape \in Shapes
  BY DEF Current, ScenarioInv, ScenarioTyped
<1>2. /\ candidates' = Append(candidates, <<>>) /\ qrels' = Append(qrels, NoQrels)
      /\ shape' = shape /\ docCounter' = docCounter
  BY DEF NextQuery
<1>3. NoQrels \in Judgments /\ DOMAIN NoQrels = {}
  <2>1. NoQrels \in [{} -> Nat \ {0}] /\ {} \in SUBSET Nat
    BY DEF NoQrels
  <2> QED
    BY <2>1 DEF Judgments, NoQrels
<1>4. <<>> \in Seq(Doc) /\ Len(<<>>) = 0
  BY EmptyList
<1> HIDE DEF c
<1>5. /\ candidates' \in Seq(Seq(Doc)) /\ qrels' \in Seq(Judgments)
      /\ Len(candidates') = c + 1 /\ Len(qrels') = c + 1
      /\ \A q \in 1 .. c : candidates'[q] = candidates[q] /\ qrels'[q] = qrels[q]
      /\ candidates'[c + 1] = <<>> /\ qrels'[c + 1] = NoQrels
  BY <1>1, <1>2, <1>3, <1>4
<1>6. Current' = c + 1 /\ Current = c
  BY <1>5 DEF Current, c
<1>7. Pool' = Pool /\ Relevant' = Relevant /\ Pool \in Nat /\ Relevant \in Nat
      /\ \A q : Topic(q)' = Topic(q)
  BY <1>2, ShapeFacts DEF Pool, Relevant, Topic, ScenarioInv
<1>8. \A q \in 1 .. c + 1 : q \in 1 .. c \/ q = c + 1
  BY <1>1
<1>9. ScenarioTyped'
  BY <1>1, <1>2, <1>5 DEF ScenarioTyped
<1>10. IdsAreFresh'
  <2>1. ASSUME NEW q \in 1 .. c + 1, NEW i \in 1 .. Len(candidates'[q])
        PROVE  q \in 1 .. c /\ candidates'[q] = candidates[q]
    <3>1. CASE q = c + 1
      <4>1. Len(candidates'[q]) = 0
        BY <1>4, <1>5, <3>1
      <4> QED
        BY <4>1
    <3> QED
      BY <3>1, <1>5, <1>8
  <2>2. ASSUME NEW q \in 1 .. c + 1, NEW i \in 1 .. Len(candidates'[q])
        PROVE  candidates'[q][i].id < docCounter'
    <3>1. q \in 1 .. c /\ candidates'[q] = candidates[q]
      BY <2>1
    <3>2. candidates[q][i].id < docCounter
      BY <1>6, <2>2, <3>1 DEF ScenarioInv, IdsAreFresh
    <3> QED
      BY <1>2, <3>1, <3>2
  <2>3. ASSUME NEW m \in 1 .. c + 1, NEW i \in 1 .. Len(candidates'[m]),
               NEW q \in 1 .. c + 1, NEW j \in 1 .. Len(candidates'[q]),
               candidates'[m][i].id = candidates'[q][j].id
        PROVE  m = q /\ i = j
    <3>1. /\ q \in 1 .. c /\ candidates'[q] = candidates[q]
          /\ m \in 1 .. c /\ candidates'[m] = candidates[m]
      BY <2>1
    <3>2. candidates[m][i].id = candidates[q][j].id
      BY <2>3, <3>1
    <3> QED
      BY <1>6, <2>3, <3>1, <3>2 DEF ScenarioInv, IdsAreFresh
  <2> QED
    BY <1>6, <2>2, <2>3 DEF IdsAreFresh
<1>11. SlotsAreJudged'
  <2> SUFFICES ASSUME NEW q \in 1 .. c + 1
               PROVE  /\ Len(candidates'[q]) <= Pool
                      /\ DOMAIN qrels'[q] = {candidates'[q][i].id : i \in JudgedSlots(q)'}
                      /\ \A i \in JudgedSlots(q)' : ToSet(Topic(q)) \subseteq ToSet(candidates'[q][i].text)
    BY <1>6, <1>7 DEF SlotsAreJudged
  <2>1. CASE q = c + 1
    <3>1. Len(candidates'[q]) = 0
      BY <1>4, <1>5, <2>1
    <3>2. JudgedSlots(q)' = {}
      BY <1>7, <3>1 DEF JudgedSlots, Lesser
    <3> QED
      BY <1>3, <1>5, <1>7, <2>1, <3>1, <3>2
  <2>2. CASE q \in 1 .. c
    <3>1. JudgedSlots(q)' = JudgedSlots(q)
      BY <1>5, <1>7, <2>2 DEF JudgedSlots
    <3>2. candidates'[q] = candidates[q] /\ qrels'[q] = qrels[q]
      BY <1>5, <2>2
    <3>3. /\ Len(candidates[q]) <= Pool
          /\ DOMAIN qrels[q] = {candidates[q][i].id : i \in JudgedSlots(q)}
          /\ \A i \in JudgedSlots(q) : ToSet(Topic(q)) \subseteq ToSet(candidates[q][i].text)
      BY <1>6, <2>2 DEF ScenarioInv, SlotsAreJudged
    <3> QED
      BY ONLY <3>1, <3>2, <3>3
  <2> QED
    BY <1>8, <2>1, <2>2
<1> QED
  BY <1>9, <1>10, <1>11 DEF ScenarioInv

(* What a Put leaves to show: the judgments of the current query.          *)
LEMMA PutJudges ==
  ASSUME ScenarioInv, Current > 0, Slot < Pool,
         NEW text \in Seq(STRING), NEW r \in Retrievals, Put(text, r),
         qrels' \in Seq(Judgments), Len(qrels') = Len(qrels),
         \A q \in 1 .. Current \ {Current} : qrels'[q] = qrels[q],
         \/ /\ Slot < Relevant /\ ToSet(Topic(Current)) \subseteq ToSet(text)
            /\ DOMAIN qrels'[Current] = DOMAIN qrels[Current] \union {docCounter}
         \/ Relevant <= Slot /\ qrels'[Current] = qrels[Current]
  PROVE  ScenarioInv'
<1> DEFINE c == Current
           d == [id |-> docCounter, text |-> text, retrieval |-> r]
<1>1. /\ c \in 1 .. Len(candidates) /\ c = Len(candidates) /\ Len(qrels) = c
      /\ candidates \in Seq(Seq(Doc)) /\ shape \in Shapes /\ candidates[c] \in Seq(Doc)
      /\ Slot = Len(candidates[c]) /\ Slot \in Nat
      /\ ScenarioTyped /\ IdsAreFresh /\ SlotsAreJudged
  BY DEF Current, ScenarioTyped, ScenarioInv, Slot
<1>2. /\ candidates' \in Seq(Seq(Doc)) /\ Current' = c
      /\ docCounter' \in Nat /\ shape' = shape
      /\ \A q \in 1 .. c \ {c} : candidates'[q] = candidates[q]
      /\ Len(candidates'[c]) = Slot + 1
      /\ \A i \in 1 .. Slot : candidates'[c][i] = candidates[c][i]
      /\ candidates'[c][Slot + 1] = d
      /\ IdsAreFresh'
  BY <1>1, PutKeeps
<1>3. Len(candidates') = c
  BY <1>2 DEF Current
<1>4. Pool' = Pool /\ Relevant' = Relevant /\ Pool \in Nat /\ Relevant \in Nat
      /\ \A q : Topic(q)' = Topic(q)
  BY <1>1, <1>2, ShapeFacts DEF Pool, Relevant, Topic
<1>5. ScenarioTyped'
  BY <1>1, <1>2, <1>3 DEF ScenarioTyped
<1>6. /\ Len(candidates[c]) <= Pool
      /\ DOMAIN qrels[c] = {candidates[c][i].id : i \in JudgedSlots(c)}
      /\ \A i \in JudgedSlots(c) : ToSet(Topic(c)) \subseteq ToSet(candidates[c][i].text)
  BY <1>1 DEF SlotsAreJudged
<1>6a. /\ Slot \in Nat /\ Pool \in Nat /\ Relevant \in Nat /\ Slot < Pool
       /\ Len(candidates[c]) = Slot /\ Len(candidates'[c]) = Slot + 1
       /\ Relevant' = Relevant
  BY <1>1, <1>2, <1>4
<1> HIDE DEF c, d
<1>7. SlotsAreJudged'
  <2> SUFFICES ASSUME NEW q \in 1 .. c
               PROVE  /\ Len(candidates'[q]) <= Pool
                      /\ DOMAIN qrels'[q] = {candidates'[q][i].id : i \in JudgedSlots(q)'}
                      /\ \A i \in JudgedSlots(q)' : ToSet(Topic(q)) \subseteq ToSet(candidates'[q][i].text)
    BY <1>2, <1>4 DEF SlotsAreJudged
  <2>1. CASE q # c
    <3>1. candidates'[q] = candidates[q] /\ qrels'[q] = qrels[q]
      BY <1>2, <2>1 DEF c
    <3>2. JudgedSlots(q)' = JudgedSlots(q)
      BY <1>4, <3>1 DEF JudgedSlots
    <3>3. /\ Len(candidates[q]) <= Pool
          /\ DOMAIN qrels[q] = {candidates[q][i].id : i \in JudgedSlots(q)}
          /\ \A i \in JudgedSlots(q) : ToSet(Topic(q)) \subseteq ToSet(candidates[q][i].text)
      BY <1>1 DEF SlotsAreJudged, c
    <3> QED
      BY ONLY <3>1, <3>2, <3>3
  <2>2. CASE q = c /\ Slot < Relevant
    <3>1. ToSet(Topic(q)) \subseteq ToSet(text)
          /\ DOMAIN qrels'[q] = DOMAIN qrels[q] \union {docCounter}
      BY <1>1, <1>4, <2>2 DEF c
    <3>2. JudgedSlots(q) = 1 .. Slot /\ JudgedSlots(q)' = 1 .. Slot + 1
      BY <1>6a, <2>2 DEF JudgedSlots, Lesser
    <3>3. candidates'[q][Slot + 1].id = docCounter /\ candidates'[q][Slot + 1].text = text
      BY <1>2, <2>2 DEF d
    <3>4. 1 .. Slot + 1 = 1 .. Slot \union {Slot + 1}
      BY <1>6a, <2>2
    <3>5. \A i \in 1 .. Slot : candidates'[q][i] = candidates[q][i]
      BY <1>2, <2>2
    <3>6. DOMAIN qrels'[q] = {candidates'[q][i].id : i \in JudgedSlots(q)'}
      BY ONLY <1>6, <2>2, <3>1, <3>2, <3>3, <3>4, <3>5
    <3>7. \A i \in JudgedSlots(q)' : ToSet(Topic(q)) \subseteq ToSet(candidates'[q][i].text)
      BY ONLY <1>6, <2>2, <3>1, <3>2, <3>3, <3>4, <3>5
    <3>8. Len(candidates'[q]) <= Pool
      BY <1>6a, <2>2
    <3> QED
      BY ONLY <2>2, <3>6, <3>7, <3>8
  <2>3. CASE q = c /\ ~(Slot < Relevant)
    <3>1. qrels'[q] = qrels[q]
      BY <1>1, <1>4, <2>3 DEF c
    <3>2. JudgedSlots(q) = 1 .. Relevant /\ JudgedSlots(q)' = 1 .. Relevant
      BY <1>6a, <2>3 DEF JudgedSlots, Lesser
    <3>3. \A i \in 1 .. Relevant : candidates'[q][i] = candidates[q][i]
      BY <1>2, <1>6a, <2>3
    <3>4. Len(candidates'[q]) <= Pool
      BY <1>6a, <2>3
    <3>5. /\ DOMAIN qrels'[q] = {candidates'[q][i].id : i \in JudgedSlots(q)'}
          /\ \A i \in JudgedSlots(q)' : ToSet(Topic(q)) \subseteq ToSet(candidates'[q][i].text)
      BY ONLY <1>6, <2>3, <3>1, <3>2, <3>3
    <3> QED
      BY ONLY <2>3, <3>4, <3>5
  <2> QED
    BY <2>1, <2>2, <2>3
<1> QED
  BY <1>2, <1>5, <1>7 DEF ScenarioInv

\* A relevant document takes the next id, and its judgment with it.
LEMMA PutRelevantKeeps ==
  ASSUME ScenarioInv, NEW f1 \in Filler, NEW f2 \in Filler, NEW r \in Retrievals,
         NEW g \in Grades, PutRelevant(f1, f2, r, g)
  PROVE  ScenarioInv'
<1> DEFINE c == Current
           text == Topic(c) \o <<f1, f2>>
<1>1. /\ c = Len(candidates) /\ c \in Nat /\ c > 0 /\ Len(qrels) = c
      /\ qrels \in Seq(Judgments) /\ docCounter \in Nat
      /\ candidates[c] \in Seq(Doc)
      /\ Slot \in Nat /\ Pool \in Nat /\ Relevant \in Nat /\ Relevant <= Pool
  BY ShapeFacts DEF ScenarioInv, ScenarioTyped, Current, Slot, PutRelevant
<1>2. /\ Put(text, r) /\ Slot < Relevant
      /\ qrels' = [qrels EXCEPT ![c] = Insert(qrels[c], docCounter, g)]
  BY DEF PutRelevant
<1>3. f1 \in STRING /\ f2 \in STRING
  BY ScenarioAssumption DEF ScenarioAssumption
<1>3a. Topic(c) \in Seq(STRING) /\ <<f1, f2>> \in Seq(STRING)
  <2>1. Topic(c) \in Seq(STRING)
    BY <1>1, TopicsAreTexts
  <2>2. <<f1, f2>> \in Seq(STRING)
    BY <1>3, ShortTexts
  <2> QED
    BY <2>1, <2>2
<1>4. text \in Seq(STRING) /\ ToSet(Topic(c)) \subseteq ToSet(text)
  BY <1>3a, PrefixTokens DEF text
<1>5. qrels[c] \in Judgments /\ c \in 1 .. Len(qrels)
  BY <1>1
<1>6. g \in Nat \ {0}
  BY ScenarioAssumption DEF ScenarioAssumption
<1>7. /\ Insert(qrels[c], docCounter, g) \in Judgments
      /\ DOMAIN Insert(qrels[c], docCounter, g) = DOMAIN qrels[c] \union {docCounter}
  BY <1>1, <1>5, <1>6, InsertTyped
<1> HIDE DEF text
<1>8. /\ qrels' \in Seq(Judgments) /\ Len(qrels') = Len(qrels)
      /\ \A q \in 1 .. c \ {c} : qrels'[q] = qrels[q]
      /\ qrels'[c] = Insert(qrels[c], docCounter, g)
  BY <1>1, <1>2, <1>5, <1>7
<1> QED
  BY <1>1, <1>2, <1>4, <1>7, <1>8, PutJudges

\* The others take ids but no judgments.
LEMMA PutIrrelevantKeeps ==
  ASSUME ScenarioInv, NEW t \in DOMAIN Topics, NEW f \in Filler, NEW r \in Retrievals,
         PutIrrelevant(t, f, r)
  PROVE  ScenarioInv'
<1> DEFINE text == Topics[t] \o <<f>>
<1>1. f \in STRING /\ Topics \in Seq(Seq(STRING))
  BY ScenarioAssumption DEF ScenarioAssumption
<1>1a. Topics[t] \in Seq(STRING)
  BY <1>1
<1>2. text \in Seq(STRING)
  <2>1. <<f>> \in Seq(STRING)
    BY <1>1, ShortTexts
  <2> QED
    BY <1>1a, <2>1, PrefixTokens DEF text
<1> HIDE DEF text
<1>3. Put(text, r) /\ Relevant <= Slot /\ Slot < Pool /\ qrels' = qrels /\ Current > 0
  BY DEF PutIrrelevant, text
<1>4. qrels \in Seq(Judgments)
  BY DEF ScenarioInv, ScenarioTyped
<1> QED
  BY <1>2, <1>3, <1>4, PutJudges

\* Every step of the generator keeps it.
LEMMA ScenarioInvariant == Spec => []ScenarioInv
<1>1. Init => ScenarioInv
  <2> SUFFICES ASSUME Init PROVE ScenarioInv
    OBVIOUS
  <2>1. Current = 0
    BY EmptyList DEF Init, Current
  <2>2. candidates \in Seq(Seq(Doc)) /\ qrels \in Seq(Judgments)
    BY DEF Init
  <2> QED
    BY <2>1, <2>2 DEF Init, ScenarioInv, ScenarioTyped, IdsAreFresh, SlotsAreJudged
<1>2. ScenarioInv /\ [Next]_vars => ScenarioInv'
  <2> SUFFICES ASSUME ScenarioInv, [Next]_vars PROVE ScenarioInv'
    OBVIOUS
  <2>1. CASE UNCHANGED vars
    <3>1. shape' = shape /\ candidates' = candidates /\ qrels' = qrels /\ docCounter' = docCounter
      BY <2>1 DEF vars
    <3>2. ScenarioTyped' = ScenarioTyped /\ IdsAreFresh' = IdsAreFresh
      BY <3>1 DEF ScenarioTyped, IdsAreFresh, Current
    <3>3. Pool' = Pool /\ Current' = Current /\ \A q : JudgedSlots(q)' = JudgedSlots(q) /\ Topic(q)' = Topic(q)
      BY <3>1 DEF Current, JudgedSlots, Relevant, Pool, Topic
    <3>4. SlotsAreJudged' = SlotsAreJudged
      BY <3>1, <3>3 DEF SlotsAreJudged
    <3> QED
      BY <3>2, <3>4 DEF ScenarioInv
  <2>2. CASE NextQuery
    BY <2>2, NextQueryKeeps
  <2>3. CASE \E f1, f2 \in Filler, r \in Retrievals, g \in Grades : PutRelevant(f1, f2, r, g)
    BY <2>3, PutRelevantKeeps
  <2>4. CASE \E t \in DOMAIN Topics, f \in Filler, r \in Retrievals : PutIrrelevant(t, f, r)
    BY <2>4, PutIrrelevantKeeps
  <2> QED
    BY <2>1, <2>2, <2>3, <2>4 DEF Next
<1> QED
  BY <1>1, <1>2, PTL DEF Spec

(* What the invariant says of the documents that are judged.               *)
LEMMA JudgmentsMatch ==
  ASSUME ScenarioInv PROVE JudgmentsMatchPools
<1> SUFFICES ASSUME NEW q \in 1 .. Current
             PROVE  /\ Cardinality(Ids(candidates[q])) = Len(candidates[q])
                    /\ \A p \in 1 .. q - 1 : Ids(candidates[p]) \intersect Ids(candidates[q]) = {}
                    /\ DOMAIN qrels[q] \subseteq Ids(candidates[q])
                    /\ \A i \in DOMAIN candidates[q] :
                         /\ Judged(q, candidates[q][i]) <=> i <= Relevant
                         /\ i <= Relevant => OnTopic(q, candidates[q][i])
                    /\ Len(candidates[q]) = Pool => RelevantCount(qrels[q]) = Relevant
  BY DEF JudgmentsMatchPools
<1> DEFINE n == Len(candidates[q])
           id == [i \in 1 .. n |-> candidates[q][i].id]
<1>1. /\ Current \in Nat /\ candidates[q] \in Seq(Doc) /\ qrels[q] \in Judgments
      /\ Pool \in Nat /\ Relevant \in Nat /\ Relevant <= Pool
      /\ \A p \in 1 .. Current : candidates[p] \in Seq(Doc)
  BY ShapeFacts DEF ScenarioInv, ScenarioTyped, Current
<1>2. n \in Nat /\ DOMAIN candidates[q] = 1 .. n /\ id \in [1 .. n -> Nat]
      /\ \A p \in 1 .. Current : DOMAIN candidates[p] = 1 .. Len(candidates[p])
  <2>1. n \in Nat /\ DOMAIN candidates[q] = 1 .. n
    BY <1>1
  <2>2. \A i \in 1 .. n : candidates[q][i] \in Doc
    BY <1>1, <2>1
  <2>3. id \in [1 .. n -> Nat]
    BY <2>2 DEF Doc
  <2> QED
    BY <1>1, <2>1, <2>3
<1>3. \A i, j \in 1 .. n : id[i] = id[j] => i = j
  BY DEF ScenarioInv, IdsAreFresh
<1>4. Ids(candidates[q]) = {id[i] : i \in 1 .. n}
  BY <1>2 DEF Ids
<1> DEFINE V == Ids(candidates[q])
<1>4a. id \in [1 .. n -> V] /\ \A v \in V : \E i \in 1 .. n : id[i] = v
  BY <1>2, <1>4
<1> HIDE DEF id, n, V
<1>5. Cardinality(V) = n
  BY <1>2, <1>3, <1>4a, DistinctValues
<1>6. ASSUME NEW p \in 1 .. q - 1
      PROVE  Ids(candidates[p]) \intersect Ids(candidates[q]) = {}
  <2>1. p \in 1 .. Current /\ p # q
    BY <1>1
  <2>2. \A i \in 1 .. Len(candidates[p]), j \in 1 .. Len(candidates[q]) :
          candidates[p][i].id # candidates[q][j].id
    BY <2>1 DEF ScenarioInv, IdsAreFresh
  <2> QED
    BY <1>2, <2>1, <2>2 DEF Ids
<1>7. /\ DOMAIN qrels[q] = {candidates[q][i].id : i \in JudgedSlots(q)}
      /\ \A i \in JudgedSlots(q) : ToSet(Topic(q)) \subseteq ToSet(candidates[q][i].text)
  BY DEF ScenarioInv, SlotsAreJudged
<1>8. JudgedSlots(q) \subseteq 1 .. n
  BY <1>1, <1>2 DEF JudgedSlots, Lesser, n
<1>9. DOMAIN qrels[q] \subseteq Ids(candidates[q])
  BY <1>2, <1>7, <1>8 DEF Ids
<1>10. ASSUME NEW i \in DOMAIN candidates[q]
       PROVE  /\ Judged(q, candidates[q][i]) <=> i <= Relevant
              /\ i <= Relevant => OnTopic(q, candidates[q][i])
  <2>1. i \in 1 .. n
    BY <1>2
  <2>2. i \in JudgedSlots(q) <=> i <= Relevant
    BY <1>1, <1>2, <2>1 DEF JudgedSlots, Lesser, n
  <2>3. ASSUME Judged(q, candidates[q][i]) PROVE i \in JudgedSlots(q)
    <3>1. PICK j \in JudgedSlots(q) : candidates[q][i].id = candidates[q][j].id
      BY <1>7, <2>3 DEF Judged
    <3>2. id[i] = id[j] /\ j \in 1 .. n
      BY <1>8, <2>1, <3>1 DEF id
    <3> QED
      BY <1>3, <2>1, <3>1, <3>2
  <2>4. i \in JudgedSlots(q) => Judged(q, candidates[q][i]) /\ OnTopic(q, candidates[q][i])
    BY <1>7 DEF Judged, OnTopic
  <2> QED
    BY <2>2, <2>3, <2>4
<1>11. ASSUME n = Pool PROVE RelevantCount(qrels[q]) = Relevant
  <2> DEFINE first == [i \in 1 .. Relevant |-> id[i]]
  <2>1. JudgedSlots(q) = 1 .. Relevant /\ 1 .. Relevant \subseteq 1 .. n
    BY <1>1, <1>11 DEF JudgedSlots, Lesser, n
  <2>2. /\ first \in [1 .. Relevant -> Nat]
        /\ \A i, j \in 1 .. Relevant : first[i] = first[j] => i = j
    BY <1>2, <1>3, <2>1
  <2> DEFINE W == DOMAIN qrels[q]
  <2>3. first \in [1 .. Relevant -> W] /\ \A v \in W : \E i \in 1 .. Relevant : first[i] = v
    BY <1>7, <2>1 DEF id
  <2> HIDE DEF first, W
  <2>4. Cardinality(W) = Relevant
    BY <1>1, <2>2, <2>3, DistinctValues
  <2>5. RelevantDocs(qrels[q]) = DOMAIN qrels[q]
    BY <1>1, AllJudgedAreRelevant
  <2> QED
    BY <2>4, <2>5 DEF RelevantCount, W
<1> QED
  BY <1>5, <1>6, <1>9, <1>10, <1>11 DEF n, V

(* No pool repeats a document, no two share one, and exactly the relevant  *)
(* slots are judged: ScenarioGenerator's loop hands out document ids and   *)
(* judgments together, for any shape, topics, fillers and grades.          *)
THEOREM JudgmentsAlwaysMatch == Spec => []JudgmentsMatchPools
<1>1. ScenarioInv => JudgmentsMatchPools
  BY JudgmentsMatch
<1> QED
  BY <1>1, ScenarioInvariant, PTL

-----------------------------------------------------------------------------
(* The lexical score                                                       *)

\* The tokens of a text are finitely many.
LEMMA TokensAreFinite ==
  ASSUME NEW S, NEW text \in Seq(S)
  PROVE  /\ IsFiniteSet(ToSet(text)) /\ Cardinality(ToSet(text)) \in Nat
         /\ text # <<>> => Cardinality(ToSet(text)) > 0
<1> DEFINE n == Len(text)
           V == ToSet(text)
<1>1. n \in Nat /\ text \in [1 .. n -> S] /\ DOMAIN text = 1 .. n
  OBVIOUS
<1> HIDE DEF n
<1>2. text \in [1 .. n -> V] /\ \A v \in V : \E i \in 1 .. n : text[i] = v
  BY <1>1 DEF ToSet
<1> HIDE DEF V
<1>3. text \in Surjection(1 .. n, V)
  BY <1>2, Fun_IsSurj
<1>4. IsFiniteSet(1 .. n)
  BY <1>1, FS_Interval
<1>5. IsFiniteSet(V)
  BY <1>3, <1>4, FS_Surjection
<1>6. Cardinality(V) \in Nat
  BY <1>5, FS_CardinalityType
<1>7. ASSUME text # <<>> PROVE Cardinality(V) # 0
  <2>1. n # 0
    BY <1>1, <1>7, EmptyList
  <2>2. text[1] \in V
    BY <1>1, <1>2, <2>1
  <2> QED
    BY <1>5, <2>2, FS_EmptySet
<1> QED
  BY <1>5, <1>6, <1>7 DEF V

\* A share is a natural number of units, all of them if it is the whole.
LEMMA RatioFacts ==
  ASSUME NEW n \in Nat, NEW d \in Nat
  PROVE  /\ Ratio(n, d) \in Nat
         /\ n = 0 => Ratio(n, d) = 0
         /\ n = d /\ d > 0 => Ratio(n, d) = Unit
<1>1. Unit \in Nat
  BY FeaturesAssumption DEF FeaturesAssumption
<1>2. n * Unit \in Nat
  BY <1>1, Products
<1>3. Ratio(n, d) \in Nat
  <2> DEFINE x == n * Unit
  <2>1. x \in Nat
    BY <1>2
  <2> HIDE DEF x
  <2>2. d # 0 => x \div d \in Nat
    BY <2>1
  <2> QED
    BY <2>2 DEF Ratio, x
<1>4. n = 0 => Ratio(n, d) = 0
  <2>1. 0 * Unit = 0 /\ (d # 0 => 0 \div d = 0)
    BY <1>1
  <2> QED
    BY <2>1 DEF Ratio
<1>5. ASSUME d > 0 PROVE (d * Unit) \div d = Unit
  BY <1>1, <1>5
<1>6. n = d /\ d > 0 => Ratio(n, d) = Unit
  BY <1>5 DEF Ratio
<1> QED
  BY <1>3, <1>4, <1>6

\* The places of a text are as many as it is long.
LEMMA PlacesCount ==
  ASSUME NEW n \in Nat
  PROVE  IsFiniteSet(1 .. n) /\ Cardinality(1 .. n) = n
<1>1. /\ IsFiniteSet(1 .. n)
      /\ Cardinality(1 .. n) = IF 1 > n THEN 0 ELSE n - 1 + 1
  BY ONLY n \in Int, 1 \in Int, FS_Interval
<1> QED
  BY ONLY n \in Nat, <1>1

\* The term frequency counts tokens of the document.
LEMMA TermFrequencyFacts ==
  ASSUME NEW query, NEW doc \in Seq(STRING)
  PROVE  /\ TermFrequency(query, doc) \in 0 .. Len(doc)
         /\ ToSet(query) \intersect ToSet(doc) = {} => TermFrequency(query, doc) = 0
<1> DEFINE P == {i \in DOMAIN doc : doc[i] \in ToSet(query)}
<1>1. P \in SUBSET (1 .. Len(doc)) /\ Len(doc) \in Nat
  OBVIOUS
<1>2. ToSet(query) \intersect ToSet(doc) = {} => P = {}
  BY DEF ToSet
<1>3. TermFrequency(query, doc) = Cardinality(P)
  BY DEF TermFrequency
<1> HIDE DEF P
<1>4. IsFiniteSet(1 .. Len(doc)) /\ Cardinality(1 .. Len(doc)) = Len(doc)
  <2>1. Len(doc) \in Nat
    BY <1>1
  <2> QED
    BY ONLY <2>1, PlacesCount
<1>5. IsFiniteSet(P) /\ Cardinality(P) <= Len(doc)
  BY <1>1, <1>4, FS_Subset
<1>6. Cardinality(P) \in Nat
  BY <1>5, FS_CardinalityType
<1>7. P = {} => Cardinality(P) = 0
  BY FS_EmptySet
<1>8. Cardinality(P) \in 0 .. Len(doc)
  BY <1>1, <1>5, <1>6
<1> QED
  BY <1>2, <1>3, <1>7, <1>8

\* A text that holds every term of the query earns the whole coverage, one
\* that holds none earns nothing.
LEMMA LexicalFacts ==
  ASSUME NEW query \in Seq(STRING), query # <<>>, NEW doc \in Seq(STRING), Len(doc) <= Len(LogTf)
  PROVE  /\ Lexical(query, doc) \in Nat
         /\ ToSet(query) \subseteq ToSet(doc) => WCoverage * Unit <= Lexical(query, doc)
         /\ ToSet(query) \intersect ToSet(doc) = {} => Lexical(query, doc) = 0
<1> DEFINE A == ToSet(query)
           B == ToSet(doc)
           both == Cardinality(A \intersect B)
           coverage == QueryCoverage(query, doc)
           jaccard == JaccardOverlap(query, doc)
           tf == LnOnePlus(TermFrequency(query, doc))
<1>1. IsFiniteSet(A) /\ IsFiniteSet(B) /\ Cardinality(A) \in Nat /\ Cardinality(A) > 0
  BY TokensAreFinite
<1>2. /\ coverage = Ratio(both, Cardinality(A))
      /\ jaccard = Ratio(both, Cardinality(A \union B))
  BY DEF QueryCoverage, Covered, JaccardOverlap
<1>3. /\ TermFrequency(query, doc) \in 0 .. Len(doc)
      /\ A \intersect B = {} => TermFrequency(query, doc) = 0
  BY TermFrequencyFacts
<1>4. Lexical(query, doc) = WCoverage * coverage + WJaccard * jaccard + WTermFreq * tf
  BY DEF Lexical
<1>5. A \subseteq B => A \intersect B = A
  OBVIOUS
<1>6. /\ Unit \in Nat /\ WCoverage \in Nat /\ WJaccard \in Nat /\ WTermFreq \in Nat
      /\ LogTf \in Seq(Nat \ {0})
  BY FeaturesAssumption DEF FeaturesAssumption
<1> HIDE DEF A, B, both, coverage, jaccard
<1>7. both \in Nat
  <2>1. IsFiniteSet(A \intersect B)
    BY <1>1, FS_Intersection
  <2> QED
    BY <2>1, FS_CardinalityType DEF both
<1>8. Cardinality(A \union B) \in Nat
  <2>1. IsFiniteSet(A \union B)
    BY <1>1, FS_Union
  <2> QED
    BY <2>1, FS_CardinalityType
<1>9. coverage \in Nat /\ jaccard \in Nat
  BY <1>1, <1>2, <1>7, <1>8, RatioFacts
<1>10. tf \in Nat /\ (A \intersect B = {} => tf = 0)
  <2> DEFINE f == TermFrequency(query, doc)
  <2>1. f \in 0 .. Len(doc) /\ (A \intersect B = {} => f = 0)
    BY <1>3
  <2> HIDE DEF f
  <2>2. f # 0 => f \in 1 .. Len(LogTf)
    BY <2>1
  <2>3. f # 0 => LogTf[f] \in Nat
    BY <1>6, <2>2
  <2> QED
    BY <2>1, <2>3 DEF LnOnePlus, f
<1> HIDE DEF tf
<1>11. /\ WCoverage * coverage \in Nat /\ WJaccard * jaccard \in Nat /\ WTermFreq * tf \in Nat
  BY <1>6, <1>9, <1>10, Products
<1>12. Lexical(query, doc) \in Nat
  BY <1>4, <1>11
<1>13. ASSUME A \subseteq B PROVE WCoverage * Unit <= Lexical(query, doc)
  <2>1. both = Cardinality(A)
    BY <1>5, <1>13 DEF both
  <2>2. coverage = Unit
    BY <1>1, <1>2, <2>1, RatioFacts
  <2> QED
    BY <1>4, <1>11, <2>2
<1>14. ASSUME A \intersect B = {} PROVE Lexical(query, doc) = 0
  <2>1. both = 0
    BY <1>14, FS_EmptySet DEF both
  <2>2. coverage = 0 /\ jaccard = 0
    BY <1>1, <1>2, <1>8, <2>1, RatioFacts
  <2>3. WCoverage * 0 = 0 /\ WJaccard * 0 = 0 /\ WTermFreq * 0 = 0
    BY <1>6
  <2> QED
    BY <1>4, <1>10, <1>14, <2>2, <2>3
<1> QED
  BY <1>12, <1>13, <1>14 DEF A, B

\* The document of a judged slot outscores one that is off the topic.
LEMMA OnTopicWins ==
  ASSUME 0 < WCoverage, WRetrieval <= WCoverage,
         NEW query \in Seq(STRING), query # <<>>,
         NEW c \in Doc, Len(c.text) <= Len(LogTf), ToSet(query) \subseteq ToSet(c.text),
         NEW d \in Doc, Len(d.text) <= Len(LogTf), ToSet(query) \intersect ToSet(d.text) = {}
  PROVE  /\ HeuristicScore(Weighed(query, d)) \in Int /\ HeuristicScore(Weighed(query, c)) \in Int
         /\ HeuristicScore(Weighed(query, d)) < HeuristicScore(Weighed(query, c))
<1> DEFINE x == c.retrieval
           y == d.retrieval
           l == Lexical(query, c.text)
<1>1. /\ Unit \in Nat \ {0} /\ WCoverage \in Nat /\ WRetrieval \in Nat
  BY FeaturesAssumption DEF FeaturesAssumption
<1>2. c.text \in Seq(STRING) /\ d.text \in Seq(STRING) /\ x \in 0 .. Unit - 1 /\ y \in 0 .. Unit - 1
  BY ScenarioAssumption DEF ScenarioAssumption, Doc
<1>3. l \in Nat /\ WCoverage * Unit <= l
  BY <1>2, LexicalFacts
<1>4. Lexical(query, d.text) = 0
  BY <1>2, LexicalFacts
<1> HIDE DEF x, y, l
<1>5. WRetrieval * x \in Nat /\ WRetrieval * y \in Nat /\ WCoverage * Unit \in Nat
  BY <1>1, <1>2, Products
<1>6. WRetrieval * y < WCoverage * Unit
  <2>1. y \in Nat /\ y + 1 <= Unit
    BY <1>1, <1>2
  <2>2. WRetrieval * y <= WCoverage * y
    BY <1>1, <2>1, Products
  <2>3. (y + 1) * WCoverage <= Unit * WCoverage
    BY <1>1, <2>1, Products
  <2>4. (y + 1) * WCoverage = WCoverage * y + WCoverage /\ Unit * WCoverage = WCoverage * Unit
        /\ WCoverage * y \in Int
    BY <1>1, <2>1
  <2> QED
    BY <1>1, <1>5, <2>2, <2>3, <2>4
<1>7. WRetrieval * x # NaN /\ WRetrieval * y # NaN
  BY <1>5, ScoreAssumption DEF ScoreAssumption
<1>8. HeuristicScore(Weighed(query, c)) = l + WRetrieval * x
  BY <1>7 DEF HeuristicScore, Weighed, l, x
<1>9. HeuristicScore(Weighed(query, d)) = 0 + WRetrieval * y
  BY <1>4, <1>7 DEF HeuristicScore, Weighed, y
<1> QED
  BY <1>3, <1>5, <1>6, <1>8, <1>9

-----------------------------------------------------------------------------
(* A ranking with the relevant documents first                             *)

\* The reciprocal rank is a fraction.
LEMMA MrrIsFraction ==
  ASSUME NEW n \in Nat, NEW g \in [1 .. n -> Nat]
  PROVE  /\ Mrr(g) \in Fraction
         /\ 1 <= n /\ g[1] > 0 => Mrr(g) = One
<1> DEFINE P == {i \in DOMAIN g : g[i] > 0}
<1>1. Zero \in Fraction
  BY DEF Zero, Fraction
<1>2. ASSUME P # {} PROVE Mrr(g) = Over(1, Min(P)) /\ Min(P) \in 1 .. n
                          /\ \A i \in 1 .. n : g[i] > 0 => Min(P) <= i
  BY <1>2, FirstHit DEF Mrr
<1>3. P = {} => Mrr(g) = Zero
  BY DEF Mrr
<1>4. 1 <= n /\ g[1] > 0 => P # {} /\ 1 \in 1 .. n
  OBVIOUS
<1> HIDE DEF P
<1>5. ASSUME P # {} PROVE Mrr(g) \in Fraction
  BY <1>2, <1>5 DEF Over, Fraction
<1>6. ASSUME 1 <= n, g[1] > 0 PROVE Mrr(g) = One
  <2>1. P # {}
    BY <1>4, <1>6
  <2>2. Min(P) \in 1 .. n /\ Min(P) <= 1 /\ Mrr(g) = Over(1, Min(P))
    BY <1>2, <1>4, <1>6, <2>1
  <2>3. Min(P) = 1
    BY <2>2
  <2> QED
    BY <2>2, <2>3 DEF One
<1> QED
  BY <1>1, <1>3, <1>5, <1>6

\* The metrics that count relevant documents, and not their grades.
Ungraded == {"mrr", "recall", "precision", "average_precision"}

(* A ranking of as many documents with the relevant ones first is no worse *)
(* by any of these metrics.                                                *)
LEMMA RelevantFirstWins ==
  ASSUME NEW S, NEW js, Graded(js, S), NEW base \in Seq(S), NEW best \in Seq(S),
         Len(base) = Len(best), Distinct(base), RelevantFirst(best, js), NEW cut \in Nat \ {0}
  PROVE  LET b == EvaluateQuery(base, js, cut)
             w == EvaluateQuery(best, js, cut)
         IN  /\ \A m \in Ungraded : b[m] \in Fraction /\ w[m] \in Fraction /\ AtMost(b[m], w[m])
             /\ RelevantCount(js) > 0 => w.mrr = One
<1> DEFINE b == EvaluateQuery(base, js, cut)
           w == EvaluateQuery(best, js, cut)
           n == Reach(best, cut)
           g == Gains(base, js, cut)
           h == Gains(best, js, cut)
           R == RelevantCount(js)
           s == PrecisionSum(g)
           t == PrecisionSum(h)
           least == Lesser(R, cut)
<1>1. /\ n \in Nat /\ n \in 0 .. Len(best) /\ n <= cut /\ (n = cut \/ n = Len(best))
      /\ h \in [1 .. n -> Nat] /\ Len(h) = n
      /\ \A i \in 1 .. n : h[i] = Relevance(js, best[i])
  BY GainsOf
<1>2. Reach(base, cut) = n
  BY DEF Reach
<1>3. /\ g \in [1 .. n -> Nat] /\ Len(g) = n
      /\ \A i \in 1 .. n : base[i] \in S /\ g[i] = Relevance(js, base[i])
  <2> DEFINE l == Reach(base, cut)
  <2>1. /\ l \in Nat /\ l \in 0 .. Len(base)
        /\ g \in [1 .. l -> Nat] /\ Len(g) = l
        /\ \A i \in 1 .. l : g[i] = Relevance(js, base[i])
    BY GainsOf
  <2>2. Len(base) \in Nat /\ \A i \in 1 .. Len(base) : base[i] \in S
    OBVIOUS
  <2> HIDE DEF n, g, l
  <2>3. \A i \in 1 .. l : base[i] \in S
    BY <2>1, <2>2
  <2> QED
    BY <1>2, <2>1, <2>3 DEF l
<1>4. /\ R \in Nat /\ R <= Len(best) /\ Len(best) \in Nat
      /\ \A i \in 1 .. Len(best) : Relevance(js, best[i]) > 0 <=> i <= R
  BY FirstPlaces
<1>5. Hits(g, n) <= R
  BY <1>2, FoundAtMost
<1>6. /\ b.mrr = Mrr(g) /\ w.mrr = Mrr(h)
      /\ b.recall = (IF R > 0 THEN Over(Hits(g, n), R) ELSE Zero)
      /\ w.recall = (IF R > 0 THEN Over(Hits(h, n), R) ELSE Zero)
      /\ b.precision = Over(Hits(g, n), cut) /\ w.precision = Over(Hits(h, n), cut)
      /\ b.average_precision = (IF R > 0 THEN Over(s.num, s.den * least) ELSE Zero)
      /\ w.average_precision = (IF R > 0 THEN Over(t.num, t.den * least) ELSE Zero)
  BY <1>2, MetricsOf
<1>7. \A i \in 1 .. n : g[i] > 0 => R > 0
  <2> SUFFICES ASSUME NEW i \in 1 .. n, g[i] > 0 PROVE R > 0
    OBVIOUS
  <2>1. base[i] \in RelevantDocs(js)
    BY <1>3 DEF Graded
  <2>2. RelevantDocs(js) # {} /\ IsFiniteSet(RelevantDocs(js))
    BY <2>1 DEF Graded
  <2>3. R # 0
    BY <2>2, FS_EmptySet DEF RelevantCount
  <2> QED
    BY <1>4, <2>3
<1> HIDE DEF b, w, n, g, h, R, s, t, least
<1>8. \A i \in 1 .. n : h[i] > 0 <=> i <= R
  BY <1>1, <1>4
<1>9. /\ \A i \in 0 .. n : Hits(h, i) = Lesser(i, R)
      /\ t \in Fraction /\ t.num = Lesser(n, R) * t.den
  BY <1>1, <1>4, <1>8, PerfectPrecisions DEF t
<1>10. s \in Fraction /\ s.num <= Hits(g, n) * s.den
  BY <1>1, <1>3, PrecisionSumIsBounded DEF s
<1>11. n \in 0 .. n /\ Hits(g, n) \in Nat /\ Hits(g, n) <= n /\ Hits(h, n) \in Nat
  <2>1. n \in 0 .. n
    BY <1>1
  <2> QED
    BY <1>1, <1>3, <2>1, HitsFacts
<1>12. Hits(h, n) = Lesser(n, R) /\ Hits(g, n) <= Hits(h, n)
  BY <1>1, <1>4, <1>5, <1>9, <1>11 DEF Lesser
<1>13. Zero \in Fraction /\ AtMost(Zero, Zero)
  BY DEF Zero, Fraction, AtMost
<1>14. b.mrr \in Fraction /\ w.mrr \in Fraction /\ AtMost(b.mrr, w.mrr)
  <2>1. \A i \in 1 .. n : g[i] > 0 => \E j \in 1 .. n : j <= i /\ h[j] > 0
    <3> SUFFICES ASSUME NEW i \in 1 .. n, g[i] > 0 PROVE 1 \in 1 .. n /\ 1 <= i /\ h[1] > 0
      OBVIOUS
    <3> QED
      BY <1>1, <1>4, <1>7, <1>8
  <2> QED
    <3>1. Mrr(g) \in Fraction /\ Mrr(h) \in Fraction
      BY <1>1, <1>3, MrrIsFraction
    <3>2. AtMost(Mrr(g), Mrr(h))
      BY <1>1, <1>3, <2>1, EarlierHitNotLess
    <3> QED
      BY <1>6, <3>1, <3>2
<1>15. b.precision \in Fraction /\ w.precision \in Fraction /\ AtMost(b.precision, w.precision)
  <2>1. Over(Hits(g, n), cut) \in Fraction /\ Over(Hits(h, n), cut) \in Fraction
    BY <1>11 DEF Over, Fraction
  <2>2. AtMost(Over(Hits(g, n), cut), Over(Hits(h, n), cut))
    BY <1>11, <1>12, SameDenominator
  <2> QED
    BY <1>6, <2>1, <2>2
<1>16. b.recall \in Fraction /\ w.recall \in Fraction /\ AtMost(b.recall, w.recall)
  <2>1. ASSUME R > 0
        PROVE  /\ Over(Hits(g, n), R) \in Fraction /\ Over(Hits(h, n), R) \in Fraction
               /\ AtMost(Over(Hits(g, n), R), Over(Hits(h, n), R))
    <3>1. Over(Hits(g, n), R) \in Fraction /\ Over(Hits(h, n), R) \in Fraction
      BY <1>4, <1>11, <2>1 DEF Over, Fraction
    <3>2. AtMost(Over(Hits(g, n), R), Over(Hits(h, n), R))
      BY <1>4, <1>11, <1>12, SameDenominator
    <3> QED
      BY <3>1, <3>2
  <2> QED
    BY <1>6, <1>13, <2>1
<1>17. AtMost(s, t)
  <2> DEFINE a == Hits(g, n)
             c == Hits(h, n)
             x == s.num
             y == s.den
             z == t.den
  <2>1. a \in Nat /\ c \in Nat /\ a <= c /\ x \in Nat /\ y \in Nat /\ z \in Nat
        /\ x <= a * y /\ t.num = c * z
    BY <1>9, <1>10, <1>11, <1>12 DEF Fraction
  <2> HIDE DEF a, c, x, y, z
  <2>2. a * y <= c * y
    BY <2>1, Products
  <2>3. a * y \in Int /\ c * y \in Int
    BY <2>1, Products
  <2>4. x <= c * y
    BY <2>1, <2>2, <2>3
  <2>5. x * z <= (c * y) * z
    BY <2>1, <2>3, <2>4, Products
  <2>6. (c * y) * z = (c * z) * y
    BY <2>1
  <2> QED
    BY <2>1, <2>5, <2>6 DEF AtMost, x, y, z
<1>18. /\ b.average_precision \in Fraction /\ w.average_precision \in Fraction
       /\ AtMost(b.average_precision, w.average_precision)
  <2>1. ASSUME R > 0
        PROVE  /\ Over(s.num, s.den * least) \in Fraction /\ Over(t.num, t.den * least) \in Fraction
               /\ AtMost(Over(s.num, s.den * least), Over(t.num, t.den * least))
    <3>1. least \in Nat \ {0}
      BY <1>4, <2>1 DEF least, Lesser
    <3>2. AtMost(Over(s.num, s.den * least), Over(t.num, t.den * least))
      BY <1>9, <1>10, <1>17, <3>1, DividedAtMost
    <3>3. \A f \in Fraction : f.num \in Nat /\ f.den * least \in Nat \ {0}
      <4> SUFFICES ASSUME NEW f \in Fraction PROVE f.num \in Nat /\ f.den * least \in Nat \ {0}
        OBVIOUS
      <4>1. f.num \in Nat /\ f.den \in Nat /\ f.den # 0
        BY DEF Fraction
      <4>2. 0 < f.den /\ 0 < least /\ 0 * least = 0 /\ least \in Int /\ f.den \in Int
        BY <3>1, <4>1
      <4>3. 0 * least < f.den * least
        BY <4>2, Products
      <4>4. f.den * least \in Nat
        BY <3>1, <4>1, Products
      <4> QED
        BY <4>1, <4>2, <4>3, <4>4
    <3>4. Over(s.num, s.den * least) \in Fraction /\ Over(t.num, t.den * least) \in Fraction
      BY <1>9, <1>10, <3>3 DEF Over, Fraction
    <3> QED
      BY <3>2, <3>4
  <2> QED
    BY <1>6, <1>13, <2>1
<1>19. ASSUME R > 0 PROVE w.mrr = One
  <2>1. n >= 1 /\ 1 \in 1 .. n
    BY <1>1, <1>4, <1>19
  <2>2. h[1] > 0
    BY <1>4, <1>8, <1>19, <2>1
  <2> QED
    BY <1>1, <1>6, <2>1, <2>2, MrrIsFraction
<1> QED
  BY <1>14, <1>15, <1>16, <1>18, <1>19 DEF Ungraded, b, w, R

-----------------------------------------------------------------------------
(* The mean over queries                                                   *)

\* f holds the sums of the first fractions.
FractionSums(f, v, n) ==
  f[0] = Zero /\ \A i \in 1 .. n : f[i] = Plus(f[i - 1], v[i])

\* A fraction added to a fraction makes one.
LEMMA PlusTyped ==
  ASSUME NEW a \in Fraction, NEW b \in Fraction
  PROVE  /\ Plus(a, b) \in Fraction
         /\ b = Over(b.num, b.den) /\ b.num \in Nat /\ b.den \in Nat \ {0}
<1>1. b = Over(b.num, b.den) /\ b.num \in Nat /\ b.den \in Nat \ {0}
  BY DEF Fraction, Over
<1>2. Plus(a, Over(b.num, b.den)) \in Fraction
  BY <1>1, PlusIsFraction
<1> QED
  BY <1>1, <1>2

\* SumOf computes sums that start at Zero and grow with every fraction.
LEMMA SumOfIsScan ==
  ASSUME NEW n \in Nat, NEW v \in [1 .. n -> Fraction], Len(v) = n
  PROVE  \E f \in [0 .. n -> Fraction] : FractionSums(f, v, n) /\ SumOf(v) = f[n]
<1> DEFINE at(i) == IF i \in 1 .. n THEN v[i] ELSE Zero
           step == [x \in (Nat \ {0}) \X Fraction |-> Plus(x[2], at(x[1]))]
           Eq(f) == f = [i \in 0 .. n |-> IF i = 0 THEN Zero ELSE Plus(f[i - 1], v[i])]
<1>1. Zero \in Fraction
  BY DEF Zero, Fraction
<1>2. step \in [(Nat \ {0}) \X Fraction -> Fraction]
  <2>1. \A i \in Nat \ {0} : at(i) \in Fraction
    BY <1>1
  <2> HIDE DEF at
  <2> SUFFICES ASSUME NEW i \in Nat \ {0}, NEW a \in Fraction PROVE Plus(a, at(i)) \in Fraction
    OBVIOUS
  <2> QED
    BY <2>1, PlusTyped
<1>3. PICK f \in [0 .. n -> Fraction] : Scans(f, n, Zero, step)
  <2> HIDE DEF step
  <2> QED
    BY <1>1, <1>2, ScanExists
<1>4. ASSUME NEW i \in 1 .. n PROVE f[i] = Plus(f[i - 1], v[i])
  <2>1. <<i, f[i - 1]>> \in (Nat \ {0}) \X Fraction
    OBVIOUS
  <2>2. f[i] = step[<<i, f[i - 1]>>]
    BY <1>3 DEF Scans
  <2>3. step[<<i, f[i - 1]>>] = Plus(f[i - 1], at(i))
    <3> HIDE DEF at
    <3> QED
      BY <2>1
  <2> QED
    BY <2>2, <2>3
<1>5. f[0] = Zero
  BY <1>3 DEF Scans
<1>6. Eq(f)
  BY <1>4, <1>5
<1> DEFINE e == CHOOSE h : Eq(h)
<1>7. Eq(e)
  BY <1>6
<1>8. SumOf(v) = e[n]
  BY DEF SumOf
<1> HIDE DEF e
<1>9. /\ e[0] = Zero /\ DOMAIN e = 0 .. n
      /\ \A i \in 1 .. n : e[i] = Plus(e[i - 1], v[i])
  <2>1. \A i \in 0 .. n : e[i] = IF i = 0 THEN Zero ELSE Plus(e[i - 1], v[i])
    BY ONLY <1>7
  <2> QED
    BY <1>7, <2>1
<1>10. e \in [0 .. n -> Fraction]
  <2> DEFINE T == {i \in Nat : i \in 0 .. n => e[i] \in Fraction}
  <2>1. 0 \in T
    BY <1>1, <1>9
  <2>2. ASSUME NEW i \in Nat, i \in T PROVE i + 1 \in T
    <3> SUFFICES ASSUME i + 1 \in 0 .. n PROVE e[i + 1] \in Fraction
      OBVIOUS
    <3>1. i + 1 \in 1 .. n /\ i \in 0 .. n /\ (i + 1) - 1 = i
      OBVIOUS
    <3>2. e[i + 1] = Plus(e[i], v[i + 1])
      BY <1>9, <3>1
    <3>3. e[i] \in Fraction /\ v[i + 1] \in Fraction
      BY <2>2, <3>1
    <3> QED
      BY <3>2, <3>3, PlusTyped
  <2>3. \A i \in Nat : i \in T
    <3> HIDE DEF T
    <3> QED
      BY <2>1, <2>2, Induction
  <2>4. \A i \in 0 .. n : e[i] \in Fraction
    BY <2>3
  <2> QED
    BY <1>7, <2>4
<1> QED
  BY <1>8, <1>9, <1>10 DEF FractionSums

(* A sum is no less if no summand is.                                      *)
LEMMA SumOfCompares ==
  ASSUME NEW n \in Nat, NEW v \in [1 .. n -> Fraction], Len(v) = n,
         NEW w \in [1 .. n -> Fraction], Len(w) = n, \A i \in 1 .. n : AtMost(v[i], w[i])
  PROVE  SumOf(v) \in Fraction /\ SumOf(w) \in Fraction /\ AtMost(SumOf(v), SumOf(w))
<1>1. PICK f \in [0 .. n -> Fraction] : FractionSums(f, v, n) /\ SumOf(v) = f[n]
  BY SumOfIsScan
<1>2. PICK g \in [0 .. n -> Fraction] : FractionSums(g, w, n) /\ SumOf(w) = g[n]
  BY SumOfIsScan
<1> DEFINE T == {i \in Nat : i <= n => AtMost(f[i], g[i])}
<1>3. 0 \in T
  BY <1>1, <1>2 DEF FractionSums, AtMost, Zero
<1>4. ASSUME NEW i \in Nat, i \in T PROVE i + 1 \in T
  <2> SUFFICES ASSUME i + 1 <= n PROVE AtMost(f[i + 1], g[i + 1])
    OBVIOUS
  <2> DEFINE r == i + 1
  <2>1. r \in 1 .. n /\ i \in 0 .. n /\ r - 1 = i
    OBVIOUS
  <2>2. f[r] = Plus(f[i], v[r]) /\ g[r] = Plus(g[i], w[r])
    BY <1>1, <1>2, <2>1 DEF FractionSums
  <2>3. /\ f[i] \in Fraction /\ g[i] \in Fraction /\ AtMost(f[i], g[i])
        /\ v[r] \in Fraction /\ w[r] \in Fraction /\ AtMost(v[r], w[r])
    BY <1>4, <2>1
  <2> HIDE DEF r
  <2> DEFINE x == v[r].num
             d == v[r].den
             y == w[r].num
             e == w[r].den
  <2>4. /\ v[r] = Over(x, d) /\ x \in Nat /\ d \in Nat \ {0}
        /\ w[r] = Over(y, e) /\ y \in Nat /\ e \in Nat \ {0}
    BY <2>3, PlusTyped
  <2>5. x * e <= y * d
    BY <2>3 DEF AtMost
  <2> HIDE DEF x, d, y, e
  <2>6. AtMost(Plus(f[i], Over(x, d)), Plus(g[i], Over(y, e)))
    BY <2>3, <2>4, <2>5, PlusGrows
  <2> QED
    BY <2>2, <2>4, <2>6 DEF r
<1>5. \A i \in Nat : i \in T
  <2> HIDE DEF T
  <2> QED
    BY <1>3, <1>4, Induction
<1>6. n \in 0 .. n
  OBVIOUS
<1> QED
  BY <1>1, <1>2, <1>5, <1>6

(* Ones add up to their number.                                            *)
LEMMA SumOfOnes ==
  ASSUME NEW n \in Nat, NEW v \in [1 .. n -> Fraction], Len(v) = n, \A i \in 1 .. n : v[i] = One
  PROVE  SumOf(v) \in Fraction /\ SumOf(v).num = n * SumOf(v).den
<1>1. PICK f \in [0 .. n -> Fraction] : FractionSums(f, v, n) /\ SumOf(v) = f[n]
  BY SumOfIsScan
<1> DEFINE T == {i \in Nat : i <= n => f[i].num = i * f[i].den}
<1>2. 0 \in T
  BY <1>1 DEF FractionSums, Zero
<1>3. ASSUME NEW i \in Nat, i \in T PROVE i + 1 \in T
  <2> SUFFICES ASSUME i + 1 <= n PROVE f[i + 1].num = (i + 1) * f[i + 1].den
    OBVIOUS
  <2> DEFINE r == i + 1
             a == f[i]
  <2>1. r \in 1 .. n /\ i \in 0 .. n /\ r - 1 = i
    OBVIOUS
  <2>2. f[r] = Plus(a, One)
    BY <1>1, <2>1 DEF FractionSums
  <2>3. a \in Fraction /\ a.num = i * a.den
    BY <1>3, <2>1
  <2>4. a.num \in Nat /\ a.den \in Nat
    BY <2>3 DEF Fraction
  <2>5. f[r].num = a.num * 1 + 1 * a.den /\ f[r].den = a.den * 1
    BY <2>2 DEF Plus, Over, One
  <2> HIDE DEF a
  <2>6. f[r].den = a.den /\ f[r].num = i * a.den + a.den
    BY <2>3, <2>4, <2>5
  <2>7. (i + 1) * a.den = i * a.den + a.den
    <3>1. i \in Int /\ a.den \in Int
      BY <2>4
    <3> QED
      BY ONLY <3>1, Products
  <2> QED
    BY <2>6, <2>7
<1>4. \A i \in Nat : i \in T
  <2> HIDE DEF T
  <2> QED
    BY <1>2, <1>3, Induction
<1>5. n \in 0 .. n
  OBVIOUS
<1> QED
  BY <1>1, <1>4, <1>5

(* A mean of metrics is no less by m if no summand is, and one if all are. *)
LEMMA MeanCompares ==
  ASSUME NEW n \in Nat \ {0}, NEW V, NEW a \in [1 .. n -> V], NEW b \in [1 .. n -> V],
         NEW m \in MetricNames,
         \A i \in 1 .. n : a[i][m] \in Fraction /\ b[i][m] \in Fraction /\ AtMost(a[i][m], b[i][m])
  PROVE  /\ AtMost(Mean(a)[m], Mean(b)[m])
         /\ (\A i \in 1 .. n : b[i][m] = One) => SameValue(Mean(b)[m], One)
<1> DEFINE Column(s) == [i \in DOMAIN s |-> s[i][m]]
           v == Column(a)
           w == Column(b)
<1>1. a \in Seq(V) /\ b \in Seq(V) /\ Len(a) = n /\ Len(b) = n
      /\ DOMAIN a = 1 .. n /\ DOMAIN b = 1 .. n
  OBVIOUS
<1>2. a # <<>> /\ b # <<>>
  BY EmptyList
<1>3. /\ Mean(a)[m] = Over(SumOf(v).num, SumOf(v).den * n)
      /\ Mean(b)[m] = Over(SumOf(w).num, SumOf(w).den * n)
  BY <1>1, <1>2 DEF Mean, Divided
<1>4. /\ v \in [1 .. n -> Fraction] /\ w \in [1 .. n -> Fraction]
      /\ \A i \in 1 .. n : v[i] = a[i][m] /\ w[i] = b[i][m]
  BY <1>1
<1> HIDE DEF v, w
<1>5. Len(v) = n /\ Len(w) = n
  <2>1. v \in Seq(Fraction) /\ w \in Seq(Fraction)
    BY <1>4
  <2> QED
    BY <1>4, <2>1
<1>6. SumOf(v) \in Fraction /\ SumOf(w) \in Fraction /\ AtMost(SumOf(v), SumOf(w))
  BY <1>4, <1>5, SumOfCompares
<1>7. AtMost(Mean(a)[m], Mean(b)[m])
  BY <1>3, <1>6, DividedAtMost
<1>8. ASSUME \A i \in 1 .. n : b[i][m] = One PROVE SameValue(Mean(b)[m], One)
  <2> DEFINE d == SumOf(w).den
  <2>1. \A i \in 1 .. n : w[i] = One
    BY <1>4, <1>8
  <2>2. SumOf(w).num = n * d
    BY <1>4, <1>5, <2>1, SumOfOnes
  <2>3. d \in Nat
    BY <1>6 DEF Fraction
  <2> HIDE DEF d
  <2>4. n * d = d * n /\ n * d \in Int
    BY <2>3, Products
  <2>5. Mean(b)[m] = Over(n * d, d * n)
    BY <1>3, <2>2 DEF d
  <2> QED
    BY <2>4, <2>5 DEF SameValue, Over, One
<1> QED
  BY <1>7, <1>8

-----------------------------------------------------------------------------
(* The demo                                                                *)

\* The pools before the current one are full, and the texts are short enough
\* for the table of logarithms.
PoolsAreFull ==
  \A q \in 1 .. Current :
    /\ q < Current => Len(candidates[q]) = Pool
    /\ \A i \in 1 .. Len(candidates[q]) : Len(candidates[q][i].text) <= Len(LogTf)

\* The topic of a query is one of Topics.
LEMMA TopicsFit ==
  /\ Len(LogTf) \in Nat
  /\ \A t \in DOMAIN Topics : Topics[t] \in Seq(STRING) /\ Topics[t] # <<>>
                              /\ Len(Topics[t]) + 2 <= Len(LogTf)
  /\ \A q \in Nat \ {0} : \E t \in DOMAIN Topics : Topic(q) = Topics[t]
<1>1. Len(LogTf) \in Nat
  BY FeaturesAssumption DEF FeaturesAssumption
<1>2. \A t \in DOMAIN Topics : Topics[t] \in Seq(STRING) /\ Topics[t] # <<>>
                              /\ Len(Topics[t]) + 2 <= Len(LogTf)
  <2>1. Topics \in Seq(Seq(STRING))
    BY ScenarioAssumption DEF ScenarioAssumption
  <2>2. \A t \in DOMAIN Topics : Topics[t] \in Seq(STRING)
    BY <2>1
  <2> QED
    BY <2>2, ScenarioAssumption DEF ScenarioAssumption
<1>3. ASSUME NEW q \in Nat \ {0} PROVE \E t \in DOMAIN Topics : Topic(q) = Topics[t]
  <2> DEFINE n == Len(Topics)
             t == ((q - 1) % n) + 1
  <2>1. n \in Nat /\ n > 0 /\ DOMAIN Topics = 1 .. n
    BY ScenarioAssumption DEF ScenarioAssumption
  <2>2. Topic(q) = Topics[t]
    BY DEF Topic
  <2> HIDE DEF n
  <2>3. (q - 1) % n \in 0 .. n - 1
    BY <2>1
  <2>4. t \in 1 .. n
    BY <2>1, <2>3
  <2> QED
    BY <2>1, <2>2, <2>4
<1> QED
  BY <1>1, <1>2, <1>3

\* A document with a text that fits keeps it.
LEMMA PutKeepsFull ==
  ASSUME ScenarioInv, PoolsAreFull, Current > 0,
         NEW text \in Seq(STRING), NEW r \in Retrievals, Put(text, r), Len(text) <= Len(LogTf)
  PROVE  PoolsAreFull'
<1> DEFINE c == Current
           d == [id |-> docCounter, text |-> text, retrieval |-> r]
<1>1. /\ Current' = c /\ shape' = shape
      /\ \A q \in 1 .. c \ {c} : candidates'[q] = candidates[q]
      /\ Len(candidates'[c]) = Slot + 1
      /\ \A i \in 1 .. Slot : candidates'[c][i] = candidates[c][i]
      /\ candidates'[c][Slot + 1] = d
  BY PutKeeps DEF ScenarioInv
<1>2. c \in Nat /\ Slot = Len(candidates[c]) /\ Slot \in Nat
  BY ShapeFacts DEF ScenarioInv, ScenarioTyped, Current, Slot
<1>3. Pool' = Pool /\ d.text = text
  BY <1>1 DEF Pool
<1> HIDE DEF c, d
<1>4. \A q \in 1 .. c : /\ q < c => Len(candidates[q]) = Pool
                       /\ \A i \in 1 .. Len(candidates[q]) :
                            Len(candidates[q][i].text) <= Len(LogTf)
  BY DEF PoolsAreFull, c
<1>5. ASSUME NEW q \in 1 .. c
      PROVE  /\ q < c => Len(candidates'[q]) = Pool
             /\ \A i \in 1 .. Len(candidates'[q]) : Len(candidates'[q][i].text) <= Len(LogTf)
  <2>1. CASE q # c
    BY <1>1, <1>4, <2>1
  <2>2. CASE q = c
    <3>1. ASSUME NEW i \in 1 .. Slot + 1 PROVE Len(candidates'[c][i].text) <= Len(LogTf)
      <4>1. CASE i \in 1 .. Slot
        BY <1>1, <1>2, <1>4, <2>2, <4>1
      <4>2. CASE i = Slot + 1
        BY <1>1, <1>3, <4>2
      <4> QED
        BY <1>2, <4>1, <4>2
    <3> QED
      BY <1>1, <1>2, <2>2, <3>1
  <2> QED
    BY <2>1, <2>2
<1> QED
  BY <1>1, <1>3, <1>5 DEF PoolsAreFull

\* A new query is begun when the pool before is full.
LEMMA NextQueryKeepsFull ==
  ASSUME ScenarioInv, PoolsAreFull, NextQuery PROVE PoolsAreFull'
<1> DEFINE c == Current
<1>1. /\ c \in Nat /\ c = Len(candidates) /\ candidates \in Seq(Seq(Doc))
  BY ShapeFacts DEF ScenarioInv, ScenarioTyped, Current
<1>2. /\ candidates' = Append(candidates, <<>>) /\ shape' = shape
      /\ c > 0 => Len(candidates[c]) = Pool
  BY DEF NextQuery, Slot
<1>3. \A q \in 1 .. c : /\ q < c => Len(candidates[q]) = Pool
                       /\ \A i \in 1 .. Len(candidates[q]) :
                            Len(candidates[q][i].text) <= Len(LogTf)
  BY DEF PoolsAreFull
<1> HIDE DEF c
<1>4. /\ Len(candidates') = c + 1 /\ \A q \in 1 .. c : candidates'[q] = candidates[q]
      /\ candidates'[c + 1] = <<>>
  BY <1>1, <1>2
<1>5. Current' = c + 1 /\ Pool' = Pool
  BY <1>2, <1>4 DEF Current, Pool
<1>6. ASSUME NEW q \in 1 .. c + 1
      PROVE  /\ q < c + 1 => Len(candidates'[q]) = Pool
             /\ \A i \in 1 .. Len(candidates'[q]) : Len(candidates'[q][i].text) <= Len(LogTf)
  <2>1. CASE q \in 1 .. c
    BY <1>1, <1>2, <1>3, <1>4, <2>1
  <2>2. CASE q = c + 1
    BY <1>1, <1>4, <2>2
  <2> QED
    BY <1>1, <2>1, <2>2
<1> QED
  BY <1>5, <1>6 DEF PoolsAreFull

\* Every step of the generator keeps it.
LEMMA PoolsStayFull == Spec => [](ScenarioInv /\ PoolsAreFull)
<1>1. Init => PoolsAreFull
  BY EmptyList DEF Init, Current, PoolsAreFull
<1>2. ScenarioInv /\ PoolsAreFull /\ [Next]_vars => PoolsAreFull'
  <2> SUFFICES ASSUME ScenarioInv, PoolsAreFull, [Next]_vars PROVE PoolsAreFull'
    OBVIOUS
  <2>1. CASE UNCHANGED vars
    BY <2>1 DEF vars, PoolsAreFull, Current, Pool
  <2>2. CASE NextQuery
    BY <2>2, NextQueryKeepsFull
  <2>3. ASSUME NEW f1 \in Filler, NEW f2 \in Filler, NEW r \in Retrievals, NEW g \in Grades,
               PutRelevant(f1, f2, r, g)
        PROVE  PoolsAreFull'
    <3>1. Current \in Nat \ {0} /\ Put(Topic(Current) \o <<f1, f2>>, r)
      BY <2>3, ShapeFacts DEF PutRelevant, ScenarioInv
    <3>2. PICK t \in DOMAIN Topics : Topic(Current) = Topics[t]
      BY <3>1, TopicsFit
    <3>3. f1 \in STRING /\ f2 \in STRING
      BY ScenarioAssumption DEF ScenarioAssumption
    <3>4. Topics[t] \in Seq(STRING) /\ <<f1, f2>> \in Seq(STRING) /\ Len(Topics[t]) + 2 <= Len(LogTf)
      BY <3>3, ShortTexts, TopicsFit
    <3> DEFINE text == Topics[t] \o <<f1, f2>>
    <3>5. text \in Seq(STRING) /\ Len(text) = Len(Topics[t]) + 2
      BY <3>4
    <3> HIDE DEF text
    <3>6. Len(text) <= Len(LogTf) /\ Put(text, r)
      BY <3>1, <3>2, <3>4, <3>5 DEF text
    <3> QED
      BY <3>1, <3>5, <3>6, PutKeepsFull
  <2>4. ASSUME NEW t \in DOMAIN Topics, NEW f \in Filler, NEW r \in Retrievals,
               PutIrrelevant(t, f, r)
        PROVE  PoolsAreFull'
    <3>1. Current > 0 /\ Put(Topics[t] \o <<f>>, r)
      BY <2>4 DEF PutIrrelevant
    <3>3. f \in STRING
      BY ScenarioAssumption DEF ScenarioAssumption
    <3>4. Topics[t] \in Seq(STRING) /\ <<f>> \in Seq(STRING) /\ Len(Topics[t]) + 2 <= Len(LogTf)
          /\ Len(LogTf) \in Nat
      BY <3>3, ShortTexts, TopicsFit
    <3> DEFINE text == Topics[t] \o <<f>>
    <3>5. text \in Seq(STRING) /\ Len(text) = Len(Topics[t]) + 1 /\ Len(Topics[t]) \in Nat
      BY <3>4
    <3> HIDE DEF text
    <3>6. Len(text) <= Len(LogTf) /\ Put(text, r)
      BY <3>1, <3>4, <3>5 DEF text
    <3> QED
      BY <3>1, <3>5, <3>6, PutKeepsFull
  <2> QED
    BY <2>1, <2>2, <2>3, <2>4 DEF Next
<1> QED
  BY <1>1, <1>2, ScenarioInvariant, PTL DEF Spec

\* docs names the n items, each once, and never a lower score before a higher.
RankingOf(docs, items, n) ==
  /\ docs \in Seq(Nat) /\ Len(docs) = n /\ Distinct(docs)
  /\ \A i \in 1 .. n : \E p \in 1 .. n : docs[p] = items[i].id
  /\ \A p, q \in 1 .. n : p < q =>
       \E i, j \in 1 .. n : /\ docs[p] = items[i].id /\ docs[q] = items[j].id
                           /\ Above(items[i].score, items[j].score)

\* from_scored ranks items with different ids so.
LEMMA RankedDocs ==
  ASSUME NEW n \in Nat, NEW items, Scorable(items, n),
         \A i \in 1 .. n : items[i].id \in Nat,
         \A i, j \in 1 .. n : items[i].id = items[j].id => i = j
  PROVE  RankingOf(DocIds(FromScored(items)), items, n)
<1> DEFINE list == FromScored(items)
           docs == DocIds(list)
<1>1. PICK order \in Bijection(1 .. n, 1 .. n) :
        /\ list = [p \in 1 .. n |-> items[order[p]]]
        /\ \A p, q \in 1 .. n : p < q => Precedes(items, order[p], order[q])
  BY FromScoredReorders
<1>2. /\ \A p \in 1 .. n : order[p] \in 1 .. n
      /\ \A i \in 1 .. n : \E p \in 1 .. n : order[p] = i
      /\ \A p, q \in 1 .. n : order[p] = order[q] => p = q
  BY ReorderedFacts
<1> HIDE DEF list
<1>3. DOMAIN list = 1 .. n /\ \A p \in 1 .. n : list[p] = items[order[p]]
  BY <1>1
<1>4. docs \in [1 .. n -> Nat] /\ \A p \in 1 .. n : docs[p] = items[order[p]].id
  <2>1. docs = [p \in 1 .. n |-> list[p].id]
    BY <1>3 DEF DocIds
  <2>2. \A p \in 1 .. n : list[p].id = items[order[p]].id /\ list[p].id \in Nat
    BY <1>2, <1>3
  <2> HIDE DEF docs
  <2> QED
    BY <2>1, <2>2
<1> HIDE DEF docs
<1>5. docs \in Seq(Nat) /\ Len(docs) = n
  BY <1>4
<1>6. Distinct(docs)
  <2> SUFFICES ASSUME NEW p \in 1 .. n, NEW q \in 1 .. n, docs[p] = docs[q] PROVE p = q
    BY <1>5 DEF Distinct
  <2>1. order[p] \in 1 .. n /\ order[q] \in 1 .. n /\ items[order[p]].id = items[order[q]].id
    BY <1>2, <1>4
  <2>2. order[p] = order[q]
    BY <2>1
  <2> QED
    BY <1>2, <2>2
<1>7. ASSUME NEW i \in 1 .. n PROVE \E p \in 1 .. n : docs[p] = items[i].id
  <2>1. PICK p \in 1 .. n : order[p] = i
    BY <1>2
  <2>2. docs[p] = items[i].id
    BY <1>4, <2>1
  <2> QED
    BY <2>2
<1>8. ASSUME NEW p \in 1 .. n, NEW q \in 1 .. n, p < q
      PROVE  \E i, j \in 1 .. n : /\ docs[p] = items[i].id /\ docs[q] = items[j].id
                                 /\ Above(items[i].score, items[j].score)
  <2> DEFINE i == order[p]
             j == order[q]
  <2>1. i \in 1 .. n /\ j \in 1 .. n /\ docs[p] = items[i].id /\ docs[q] = items[j].id
    BY <1>2, <1>4
  <2>2. items[i].score \in Score /\ items[j].score \in Score
    BY <2>1 DEF Scorable
  <2>3. NotAfter(items[i].score, items[j].score)
    BY <1>1, <1>8 DEF Precedes, NotAfter
  <2>4. Above(items[i].score, items[j].score)
    BY <2>2, <2>3, NotAfterIsTotal
  <2> QED
    BY <2>1, <2>4
<1> QED
  BY <1>5, <1>6, <1>7, <1>8 DEF docs, list, RankingOf

\* The judgments of the generator are judgments of numbers.
LEMMA JudgmentsAreGraded ==
  ASSUME NEW js \in Judgments, IsFiniteSet(DOMAIN js)
  PROVE  /\ Graded(js, Nat)
         /\ \A d \in Nat : Relevance(js, d) > 0 <=> d \in DOMAIN js
<1>1. RelevantDocs(js) = DOMAIN js
  BY AllJudgedAreRelevant
<1>2. PICK D \in SUBSET Nat : js \in [D -> Nat \ {0}]
  BY DEF Judgments
<1>3. \A d \in Nat : Relevance(js, d) \in Nat
  BY <1>2 DEF Relevance
<1>3a. \A d \in Nat : Relevance(js, d) > 0 <=> d \in DOMAIN js
  BY <1>2 DEF Relevance
<1>3b. \A d \in Nat : Relevance(js, d) > 0 <=> d \in RelevantDocs(js)
  BY <1>3a, <1>1
<1>3c. RelevantDocs(js) \subseteq Nat /\ IsFiniteSet(RelevantDocs(js))
  BY <1>2, <1>1
<1>4. Graded(js, Nat)
  BY ONLY <1>3, <1>3b, <1>3c, Zenon DEF Graded
<1> QED
  BY <1>3a, <1>4, Zenon

\* What the invariants say of one full pool.
LEMMA PoolFacts ==
  ASSUME ScenarioInv, PoolsAreFull, NEW q \in 1 .. Current
  PROVE  LET cs == candidates[q]
             n == Len(cs)
         IN  /\ n \in Nat /\ DOMAIN cs = 1 .. n /\ qrels[q] \in Judgments
             /\ \A i \in 1 .. n : cs[i] \in Doc /\ cs[i].id \in Nat
                                  /\ Len(cs[i].text) <= Len(LogTf)
             /\ \A i, j \in 1 .. n : cs[i].id = cs[j].id => i = j
             /\ Topic(q) \in Seq(STRING) /\ Topic(q) # <<>>
             /\ \A i \in 1 .. n : Judged(q, cs[i]) => ToSet(Topic(q)) \subseteq ToSet(cs[i].text)
             /\ \A d \in DOMAIN qrels[q] : \E i \in 1 .. n : cs[i].id = d
             /\ Graded(qrels[q], Nat)
             /\ \A d \in Nat : Relevance(qrels[q], d) > 0 <=> d \in DOMAIN qrels[q]
<1> DEFINE cs == candidates[q]
           n == Len(cs)
           js == qrels[q]
<1>1. /\ Current \in Nat /\ cs \in Seq(Doc) /\ js \in Judgments /\ docCounter \in Nat
  BY ShapeFacts DEF ScenarioInv, ScenarioTyped, Current
<1>2. n \in Nat /\ DOMAIN cs = 1 .. n /\ \A i \in 1 .. n : cs[i] \in Doc
  BY <1>1
<1>3. \A i \in 1 .. n : cs[i].id \in Nat /\ Len(cs[i].text) <= Len(LogTf) /\ cs[i].id < docCounter
  BY <1>2 DEF Doc, PoolsAreFull, ScenarioInv, IdsAreFresh
<1>4. \A i, j \in 1 .. n : cs[i].id = cs[j].id => i = j
  BY DEF ScenarioInv, IdsAreFresh
<1>5. Topic(q) \in Seq(STRING) /\ Topic(q) # <<>>
  <2>1. q \in Nat \ {0}
    BY <1>1
  <2>2. PICK t \in DOMAIN Topics : Topic(q) = Topics[t]
    BY <2>1, TopicsFit
  <2> QED
    BY <2>2, TopicsFit
<1>6. /\ \A i \in 1 .. n : Judged(q, cs[i]) => ToSet(Topic(q)) \subseteq ToSet(cs[i].text)
      /\ DOMAIN js \subseteq Ids(cs)
  BY <1>2, JudgmentsMatch DEF JudgmentsMatchPools, OnTopic
<1>7. \A d \in DOMAIN js : \E i \in 1 .. n : cs[i].id = d
  BY <1>2, <1>6 DEF Ids
<1>10. IsFiniteSet(DOMAIN js)
  <2>1. DOMAIN js \in SUBSET (0 .. docCounter)
    BY <1>1, <1>3, <1>7
  <2>2. IsFiniteSet(0 .. docCounter)
    BY <1>1, FS_Interval
  <2> QED
    BY <2>1, <2>2, FS_Subset
<1>11. Graded(js, Nat) /\ \A d \in Nat : Relevance(js, d) > 0 <=> d \in DOMAIN js
  BY <1>1, <1>10, JudgmentsAreGraded
<1> QED
  BY <1>1, <1>2, <1>3, <1>4, <1>5, <1>6, <1>7, <1>11 DEF cs, n, js

(* The first stage and the heuristic reranker both put the documents of    *)
(* the pool into an order, and in that of the latter no document without a *)
(* term of the query comes before one that holds them all.                 *)
LEMMA RankingsOfPool ==
  ASSUME 0 < WCoverage, WRetrieval <= WCoverage,
         ScenarioInv, PoolsAreFull, NEW q \in 1 .. Current
  PROVE  LET base == DocIds(Baseline(q))
             best == DocIds(Reranked(q))
             cs == candidates[q]
             n == Len(cs)
         IN  /\ base \in Seq(Nat) /\ Len(base) = n /\ Distinct(base)
             /\ best \in Seq(Nat) /\ Len(best) = n /\ Distinct(best)
             /\ \A i \in 1 .. n : \E p \in 1 .. n : best[p] = cs[i].id
             /\ \A p, r \in 1 .. n : p < r =>
                  \E i, j \in 1 .. n :
                    /\ best[p] = cs[i].id /\ best[r] = cs[j].id
                    /\ ~(OffTopic(q, cs[i]) /\ OnTopic(q, cs[j]))
<1> DEFINE cs == candidates[q]
           n == Len(cs)
           ids == [i \in 1 .. n |-> cs[i].id]
           firstStage == [i \in DOMAIN cs |-> [id |-> cs[i].id, score |-> cs[i].retrieval,
                                               retrieval |-> cs[i].retrieval]]
           weighed == [i \in DOMAIN cs |-> Weighed(Topic(q), cs[i])]
           items == HeuristicItems(weighed)
           base == DocIds(Baseline(q))
           best == DocIds(Reranked(q))
<1>1. /\ n \in Nat /\ DOMAIN cs = 1 .. n
      /\ \A i \in 1 .. n : cs[i] \in Doc /\ cs[i].id \in Nat /\ Len(cs[i].text) <= Len(LogTf)
      /\ \A i, j \in 1 .. n : cs[i].id = cs[j].id => i = j
      /\ Topic(q) \in Seq(STRING) /\ Topic(q) # <<>>
  BY PoolFacts
<1>2. /\ Baseline(q) = FromScored(firstStage)
      /\ Reranked(q) = HeuristicRanking(weighed)
  BY DEF Baseline, BaselineRanking, Reranked, Rerank
<1> HIDE DEF cs, n
<1>4. /\ ids \in [1 .. n -> Nat]
      /\ \A i, j \in 1 .. n : ids[i] = ids[j] => i = j
      /\ \A i \in 1 .. n : ids[i] = cs[i].id
  BY <1>1
<1> HIDE DEF ids
<1>5. \A i \in 1 .. n : cs[i].retrieval \in Nat /\ cs[i].text \in Seq(STRING)
  <2>1. Retrievals \subseteq Nat
    BY ScenarioAssumption DEF ScenarioAssumption
  <2> QED
    BY <1>1, <2>1 DEF Doc
<1>6. Scorable(firstStage, n) /\ \A i \in 1 .. n : firstStage[i].id = ids[i]
  BY <1>1, <1>4, <1>5 DEF Scorable, Score
<1>7. Rankable(weighed, n) /\ \A i \in 1 .. n : weighed[i].id = ids[i]
  <2>1. ASSUME NEW i \in 1 .. n
        PROVE  /\ Weighed(Topic(q), cs[i]).lexical \in Int
               /\ Weighed(Topic(q), cs[i]).retrieval \in Score
               /\ Weighed(Topic(q), cs[i]).id = ids[i]
    <3>1. Lexical(Topic(q), cs[i].text) \in Nat
      BY <1>1, <1>5, LexicalFacts
    <3>2. WRetrieval \in Nat /\ cs[i].retrieval \in Nat
      BY <1>5, FeaturesAssumption DEF FeaturesAssumption
    <3>3. WRetrieval * cs[i].retrieval \in Nat
      BY <3>2, Products
    <3> QED
      BY <1>4, <3>1, <3>3 DEF Weighed, Score
  <2> QED
    BY <1>1, <2>1 DEF Rankable
<1>8. /\ Scorable(items, n) /\ Reranked(q) = FromScored(items)
      /\ \A i \in 1 .. n : items[i].id = ids[i]
  <2> HIDE DEF weighed
  <2> QED
    BY <1>1, <1>2, <1>7, HeuristicIsScorable
<1>9. \A i \in 1 .. n : items[i].score = HeuristicScore(Weighed(Topic(q), cs[i]))
  BY <1>1 DEF HeuristicItems
<1> HIDE DEF firstStage, weighed, items
<1>10. RankingOf(base, firstStage, n)
  <2>1. /\ \A i \in 1 .. n : firstStage[i].id \in Nat
        /\ \A i, j \in 1 .. n : firstStage[i].id = firstStage[j].id => i = j
    BY <1>4, <1>6
  <2> QED
    BY <1>1, <1>2, <1>6, <2>1, RankedDocs
<1>11. RankingOf(best, items, n)
  <2>1. /\ \A i \in 1 .. n : items[i].id \in Nat
        /\ \A i, j \in 1 .. n : items[i].id = items[j].id => i = j
    BY <1>4, <1>8
  <2> QED
    BY <1>1, <1>8, <2>1, RankedDocs
<1>11a. best \in Seq(Nat) /\ Len(best) = n /\ Distinct(best)
  BY <1>11 DEF RankingOf
<1> HIDE DEF base, best
<1>12. ASSUME NEW p \in 1 .. n, NEW r \in 1 .. n, p < r
       PROVE  \E i, j \in 1 .. n : /\ best[p] = cs[i].id /\ best[r] = cs[j].id
                                  /\ ~(OffTopic(q, cs[i]) /\ OnTopic(q, cs[j]))
  <2>1. PICK i \in 1 .. n, j \in 1 .. n : /\ best[p] = items[i].id /\ best[r] = items[j].id
                                        /\ Above(items[i].score, items[j].score)
    BY <1>11, <1>12 DEF RankingOf
  <2>2. best[p] = cs[i].id /\ best[r] = cs[j].id
    BY <1>4, <1>8, <2>1
  <2>3. ASSUME OffTopic(q, cs[i]), OnTopic(q, cs[j]) PROVE FALSE
    <3> DEFINE x == HeuristicScore(Weighed(Topic(q), cs[i]))
               y == HeuristicScore(Weighed(Topic(q), cs[j]))
    <3>1. ToSet(Topic(q)) \intersect ToSet(cs[i].text) = {}
      BY <2>3 DEF OffTopic
    <3>2. ToSet(Topic(q)) \subseteq ToSet(cs[j].text)
      BY <2>3 DEF OnTopic
    <3>3. x \in Int /\ y \in Int /\ x < y
      BY <1>1, <3>1, <3>2, OnTopicWins
    <3>4. x \in Score /\ y \in Score /\ Above(x, y)
      BY <1>8, <1>9, <2>1 DEF Scorable
    <3> HIDE DEF x, y
    <3> QED
      BY <3>3, <3>4, ScoreAssumption DEF ScoreAssumption, Above
  <2> QED
    BY <2>2, <2>3
<1>13. \A i \in 1 .. n : \E p \in 1 .. n : best[p] = cs[i].id
  <2> SUFFICES ASSUME NEW i \in 1 .. n PROVE \E p \in 1 .. n : best[p] = cs[i].id
    OBVIOUS
  <2>1. PICK p \in 1 .. n : best[p] = items[i].id
    BY <1>11 DEF RankingOf
  <2>2. best[p] = cs[i].id
    BY <1>4, <1>8, <2>1
  <2> QED
    BY <2>2
<1> QED
  BY <1>10, <1>11a, <1>12, <1>13 DEF RankingOf, base, best, n, cs

\* Where irrelevant texts are off the topic, the judged documents come first.
LEMMA JudgedComeFirst ==
  ASSUME 0 < WCoverage, WRetrieval <= WCoverage,
         ScenarioInv, PoolsAreFull, IrrelevantIsOffTopic, NEW q \in 1 .. Current
  PROVE  RelevantFirst(DocIds(Reranked(q)), qrels[q])
<1> DEFINE cs == candidates[q]
           n == Len(cs)
           js == qrels[q]
           best == DocIds(Reranked(q))
<1>1. /\ n \in Nat /\ DOMAIN cs = 1 .. n /\ js \in Judgments
      /\ \A i \in 1 .. n : cs[i].id \in Nat
      /\ \A i, j \in 1 .. n : cs[i].id = cs[j].id => i = j
      /\ \A i \in 1 .. n : Judged(q, cs[i]) => OnTopic(q, cs[i])
      /\ \A d \in DOMAIN js : \E i \in 1 .. n : cs[i].id = d
      /\ \A d \in Nat : Relevance(js, d) > 0 <=> d \in DOMAIN js
  BY PoolFacts DEF OnTopic
<1>2. \A i \in 1 .. n : Judged(q, cs[i]) \/ OffTopic(q, cs[i])
  BY <1>1 DEF IrrelevantIsOffTopic
<1>3. /\ best \in Seq(Nat) /\ Len(best) = n /\ Distinct(best)
      /\ \A i \in 1 .. n : \E p \in 1 .. n : best[p] = cs[i].id
      /\ \A p, r \in 1 .. n : p < r =>
           \E i, j \in 1 .. n : /\ best[p] = cs[i].id /\ best[r] = cs[j].id
                               /\ ~(OffTopic(q, cs[i]) /\ OnTopic(q, cs[j]))
  BY RankingsOfPool
<1> HIDE DEF cs, n, best
<1>4. \A i \in 1 .. n : Judged(q, cs[i]) <=> cs[i].id \in DOMAIN js
  BY DEF Judged
<1> HIDE DEF js
<1>5. ASSUME NEW p \in 1 .. n, NEW r \in 1 .. n, p < r, Relevance(js, best[r]) > 0
      PROVE  Relevance(js, best[p]) > 0
  <2>1. PICK i \in 1 .. n, j \in 1 .. n : /\ best[p] = cs[i].id /\ best[r] = cs[j].id
                                        /\ ~(OffTopic(q, cs[i]) /\ OnTopic(q, cs[j]))
    <3>1. \A x, y \in 1 .. n : x < y =>
            \E i, j \in 1 .. n : /\ best[x] = cs[i].id /\ best[y] = cs[j].id
                                /\ ~(OffTopic(q, cs[i]) /\ OnTopic(q, cs[j]))
      BY <1>3
    <3>2. p \in 1 .. n /\ r \in 1 .. n /\ p < r
      BY <1>5
    <3> QED
      BY ONLY <3>1, <3>2
  <2>2. Judged(q, cs[j])
    BY <1>1, <1>4, <1>5, <2>1
  <2>3. Judged(q, cs[i])
    BY <1>1, <1>2, <2>1, <2>2
  <2> QED
    BY <1>1, <1>4, <2>1, <2>3
<1>6. ASSUME NEW d \in RelevantDocs(js) PROVE d \in ToSet(best)
  <2>1. PICK i \in 1 .. n : cs[i].id = d
    BY <1>1, AllJudgedAreRelevant
  <2>2. PICK p \in 1 .. n : best[p] = d
    BY <1>3, <2>1
  <2>3. p \in DOMAIN best
    <3>1. best \in Seq(Nat) /\ Len(best) = n
      BY <1>3
    <3> QED
      BY ONLY <3>1, p \in 1 .. n
  <2> QED
    BY ONLY <2>2, <2>3 DEF ToSet
<1> QED
  BY <1>3, <1>5, <1>6 DEF RelevantFirst, best, js

(* The theorem below without its condition on the irrelevant texts:        *)
(* HeuristicReranker never ranks a text that shares no term with the query *)
(* above one that holds them all, whatever the retrieval scores, if full   *)
(* coverage counts and the retrieval score counts for no more, as in       *)
(* RerankConfig::default.                                                  *)
THEOREM OnTopicAlwaysFirst ==
  ASSUME 0 < WCoverage, WRetrieval <= WCoverage
  PROVE  Spec => []OnTopicFirst
<1>1. ASSUME ScenarioInv, PoolsAreFull PROVE OnTopicFirst
  <2> SUFFICES ASSUME NEW q \in 1 .. Current,
                      NEW i \in DOMAIN candidates[q], NEW j \in DOMAIN candidates[q],
                      OnTopic(q, candidates[q][i]), OffTopic(q, candidates[q][j])
               PROVE  \E p, r \in DOMAIN DocIds(Reranked(q)) :
                        /\ DocIds(Reranked(q))[p] = candidates[q][i].id
                        /\ DocIds(Reranked(q))[r] = candidates[q][j].id
                        /\ p < r
    BY DEF OnTopicFirst
  <2> DEFINE cs == candidates[q]
             n == Len(cs)
             best == DocIds(Reranked(q))
  <2>1. /\ n \in Nat /\ DOMAIN cs = 1 .. n
        /\ \A a, b \in 1 .. n : cs[a].id = cs[b].id => a = b
        /\ Topic(q) \in Seq(STRING) /\ Topic(q) # <<>>
    BY <1>1, PoolFacts
  <2>2. /\ best \in Seq(Nat) /\ Len(best) = n
        /\ \A a \in 1 .. n : \E p \in 1 .. n : best[p] = cs[a].id
        /\ \A p, r \in 1 .. n : p < r =>
             \E a, b \in 1 .. n : /\ best[p] = cs[a].id /\ best[r] = cs[b].id
                                 /\ ~(OffTopic(q, cs[a]) /\ OnTopic(q, cs[b]))
    BY <1>1, RankingsOfPool
  <2>3. ToSet(Topic(q)) # {}
    <3>1. Topic(q)[1] \in ToSet(Topic(q))
      BY <2>1 DEF ToSet
    <3> QED
      BY <3>1
  <2>4. i # j
    BY <2>3 DEF OnTopic, OffTopic
  <2> HIDE DEF n, best
  <2>5. PICK p \in 1 .. n : best[p] = cs[i].id
    BY <2>1, <2>2
  <2>6. PICK r \in 1 .. n : best[r] = cs[j].id
    BY <2>1, <2>2
  <2>7. ~(r < p)
    <3> SUFFICES ASSUME r < p PROVE FALSE
      OBVIOUS
    <3>1. PICK a \in 1 .. n, b \in 1 .. n : /\ best[r] = cs[a].id /\ best[p] = cs[b].id
                                          /\ ~(OffTopic(q, cs[a]) /\ OnTopic(q, cs[b]))
      BY <2>2
    <3>2. a = j /\ b = i
      BY <2>1, <2>5, <2>6, <3>1
    <3> QED
      BY <3>1, <3>2
  <2>8. p # r
    BY <2>1, <2>4, <2>5, <2>6
  <2>9. p < r /\ DOMAIN best = 1 .. n
    BY <2>1, <2>2, <2>7, <2>8
  <2> QED
    BY <2>5, <2>6, <2>9 DEF best
<1> QED
  BY <1>1, PoolsStayFull, PTL

\* What the demo reports of one ranking per query.
LEMMA ReportIsMean ==
  ASSUME Queries \in Nat, NEW rankings, NEW cut \in Nat \ {0}
  PROVE  Report(rankings, cut) =
           Mean([q \in 1 .. Queries |-> EvaluateQuery(DocIds(rankings[q]), qrels[q], cut)])
BY DEF Report

(* One query: the reranked documents are no worse than those of the first  *)
(* stage, and the first of them is relevant if any is.                     *)
LEMMA RerankWinsQuery ==
  ASSUME 0 < WCoverage, WRetrieval <= WCoverage,
         ScenarioInv, PoolsAreFull, Complete, IrrelevantIsOffTopic,
         NEW q \in 1 .. Queries, NEW cut \in Nat \ {0}
  PROVE  LET b == EvaluateQuery(DocIds(Baseline(q)), qrels[q], cut)
             w == EvaluateQuery(DocIds(Reranked(q)), qrels[q], cut)
         IN  /\ \A m \in Ungraded : b[m] \in Fraction /\ w[m] \in Fraction /\ AtMost(b[m], w[m])
             /\ Relevant > 0 => w.mrr = One
<1> DEFINE base == DocIds(Baseline(q))
           best == DocIds(Reranked(q))
           n == Len(candidates[q])
           js == qrels[q]
<1>1. q \in 1 .. Current /\ Current \in Nat /\ Queries \in Nat /\ Queries > 0
  BY ShapeFacts DEF Complete, ScenarioInv
<1>2. /\ base \in Seq(Nat) /\ Len(base) = n /\ Distinct(base)
      /\ best \in Seq(Nat) /\ Len(best) = n /\ RelevantFirst(best, js)
  BY <1>1, RankingsOfPool, JudgedComeFirst
<1>3. Graded(js, Nat)
  BY <1>1, PoolFacts
<1>4. n = Pool
  <2>1. CASE q < Current
    BY <1>1, <2>1 DEF PoolsAreFull
  <2>2. CASE q = Current
    BY <1>1, <2>2 DEF Complete, Slot
  <2> QED
    BY <1>1, <2>1, <2>2
<1>5. RelevantCount(js) = Relevant
  BY <1>1, <1>4, JudgmentsMatch DEF JudgmentsMatchPools
<1> HIDE DEF base, best, n, js
<1>6. Len(base) = Len(best)
  BY <1>2
<1> DEFINE b == EvaluateQuery(base, js, cut)
           w == EvaluateQuery(best, js, cut)
<1>7. /\ \A m \in Ungraded : b[m] \in Fraction /\ w[m] \in Fraction /\ AtMost(b[m], w[m])
      /\ RelevantCount(js) > 0 => w.mrr = One
  BY <1>2, <1>3, <1>6, RelevantFirstWins
<1> QED
  BY <1>5, <1>7 DEF base, best, js

(* With weights like those of RerankConfig's default, where full coverage  *)
(* counts and the retrieval score counts for no more, the demo's claim     *)
(* holds for any topics, fillers, grades and shapes: HeuristicReranker     *)
(* ranks no off-topic text above one that holds every term of the query.   *)
THEOREM RerankAlwaysFindsNoLess ==
  ASSUME 0 < WCoverage, WRetrieval <= WCoverage
  PROVE  Spec => []RerankFindsNoLess
<1>1. ASSUME ScenarioInv, PoolsAreFull PROVE RerankFindsNoLess
  <2> SUFFICES ASSUME Complete, IrrelevantIsOffTopic, NEW cut \in 1 .. Pool + 1
               PROVE  LET base == Report([q \in 1 .. Queries |-> Baseline(q)], cut)
                          reranked == Report([q \in 1 .. Queries |-> Reranked(q)], cut)
                      IN  /\ \A m \in Ungraded : AtMost(base[m], reranked[m])
                          /\ Queries > 0 /\ Relevant > 0 => SameValue(reranked.mrr, One)
    BY DEF RerankFindsNoLess, Ungraded, One
  <2> DEFINE n == Queries
             first == [q \in 1 .. n |-> Baseline(q)]
             second == [q \in 1 .. n |-> Reranked(q)]
             a == [q \in 1 .. n |-> EvaluateQuery(DocIds(first[q]), qrels[q], cut)]
             b == [q \in 1 .. n |-> EvaluateQuery(DocIds(second[q]), qrels[q], cut)]
  <2>1. n \in Nat /\ Pool \in Nat /\ cut \in Nat \ {0}
    BY <1>1, ShapeFacts DEF ScenarioInv
  <2>2. Report(first, cut) = Mean(a) /\ Report(second, cut) = Mean(b)
    BY <2>1, ReportIsMean
  <2>3. /\ \A q \in 1 .. n : a[q] = EvaluateQuery(DocIds(Baseline(q)), qrels[q], cut)
        /\ \A q \in 1 .. n : b[q] = EvaluateQuery(DocIds(Reranked(q)), qrels[q], cut)
    OBVIOUS
  <2>4. \E V : a \in [1 .. n -> V]
    <3>1. a \in [1 .. n -> {a[q] : q \in 1 .. n}]
      OBVIOUS
    <3> QED
      BY <3>1
  <2>5. \E V : b \in [1 .. n -> V]
    <3>1. b \in [1 .. n -> {b[q] : q \in 1 .. n}]
      OBVIOUS
    <3> QED
      BY <3>1
  <2> HIDE DEF n, a, b, first, second
  <2>6. ASSUME NEW q \in 1 .. n
        PROVE  /\ \A m \in Ungraded : /\ a[q][m] \in Fraction /\ b[q][m] \in Fraction
                                     /\ AtMost(a[q][m], b[q][m])
               /\ Relevant > 0 => b[q].mrr = One
    BY <1>1, <2>1, <2>3, RerankWinsQuery DEF n
  <2>7. CASE n = 0
    <3>1. a = <<>> /\ b = <<>>
      BY <2>1, <2>4, <2>5, <2>7, EmptyList
    <3>2. Mean(a) = Zeroed /\ Mean(b) = Zeroed
      BY <3>1 DEF Mean
    <3>3. \A m \in Ungraded : Zeroed[m] = Zero
      BY DEF Zeroed, MetricNames, Ungraded
    <3> QED
      BY <2>2, <2>7, <3>2, <3>3, ZeroInRange DEF n, first, second
  <2>8. CASE n # 0
    <3>0. n \in Nat \ {0}
      BY <2>1, <2>8
    <3>1. PICK A : a \in [1 .. n -> A]
      BY <2>4
    <3>2. PICK B : b \in [1 .. n -> B]
      BY <2>5
    <3> DEFINE V == A \union B
    <3>3. a \in [1 .. n -> V] /\ b \in [1 .. n -> V]
      BY <3>1, <3>2
    <3> HIDE DEF V
    <3>4. Ungraded \subseteq MetricNames /\ "mrr" \in Ungraded
      BY DEF Ungraded, MetricNames
    <3>5. ASSUME NEW m \in Ungraded
          PROVE  /\ AtMost(Mean(a)[m], Mean(b)[m])
                 /\ (\A q \in 1 .. n : b[q][m] = One) => SameValue(Mean(b)[m], One)
      <4>1. m \in MetricNames
        BY <3>4
      <4>2. \A q \in 1 .. n : a[q][m] \in Fraction /\ b[q][m] \in Fraction /\ AtMost(a[q][m], b[q][m])
        BY <2>6
      <4> QED
        BY ONLY <3>0, <3>3, <4>1, <4>2, MeanCompares
    <3>6. Relevant > 0 => SameValue(Mean(b).mrr, One)
      BY <2>6, <3>4, <3>5
    <3> QED
      BY <2>2, <3>5, <3>6 DEF first, second, n
  <2> QED
    BY <2>7, <2>8
<1> QED
  BY <1>1, PoolsStayFull, PTL
=============================================================================
