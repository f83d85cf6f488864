---------------------------- MODULE RankingProofs ----------------------------
(***************************************************************************)
(* Rankings of any length: the sort exists and is stable, its comparator   *)
(* is a total preorder on the integers and NaN, and the ranking of a model *)
(* reply and the heuristic one are well formed whatever they are made      *)
(* from.  The first part is about the operators, for the modules that use  *)
(* them; the second states the properties of module RankingInputs.         *)
(***************************************************************************)
EXTENDS RankingInputs, FiniteSetTheorems, FunctionTheorems, TLAPS

-----------------------------------------------------------------------------
(* Numbers, powers of two and sorting                                      *)

(* A nonempty set of natural numbers has a least element: what induction   *)
(* over the natural numbers rests on in these modules.                     *)
LEMMA LeastNat ==
  ASSUME NEW T \in SUBSET Nat, T # {}
  PROVE  \E m \in T : \A n \in T : m <= n
<1>1. PICK m \in T : \A n \in T : ~(<<n, m>> \in OpToRel(<, Nat))
  BY NatLessThanWellFounded, WFMin, Zenon
<1>2. \A n \in T : ~(n < m)
  BY <1>1 DEF OpToRel
<1> QED
  BY <1>2

(* One more bit doubles the power: the subsets of 1..n+1 are those of 1..n *)
(* and as many that hold n+1.                                              *)
LEMMA PowerDoubles ==
  ASSUME NEW n \in Nat
  PROVE  2^(n + 1) = 2 * 2^n /\ 2^n \in Nat /\ 2^n > 0
<1> DEFINE S == 1 .. n
           Old == SUBSET S
           New == {T \union {n + 1} : T \in Old}
           f == [T \in Old |-> T \union {n + 1}]
<1>1. /\ IsFiniteSet(S) /\ Cardinality(S) = n
      /\ IsFiniteSet(1 .. n + 1) /\ Cardinality(1 .. n + 1) = n + 1
  BY FS_Interval
<1>2. IsFiniteSet(Old) /\ Cardinality(Old) = 2^n
  BY <1>1, FS_SUBSET
<1>3. Cardinality(SUBSET (1 .. n + 1)) = 2^(n + 1)
  BY <1>1, FS_SUBSET
<1>4. n + 1 \notin S
  OBVIOUS
<1>5. f \in Bijection(Old, New)
  <2>1. f \in [Old -> New]
    OBVIOUS
  <2>2. ASSUME NEW T \in Old, NEW U \in Old, f[T] = f[U] PROVE T = U
    <3>1. T \union {n + 1} = U \union {n + 1}
      BY <2>2
    <3> QED
      BY <1>4, <3>1
  <2>3. \A V \in New : \E T \in Old : f[T] = V
    OBVIOUS
  <2> QED
    BY <2>1, <2>2, <2>3, Fun_IsBij
<1>6. IsFiniteSet(New) /\ Cardinality(New) = 2^n
  BY <1>2, <1>5, Fun_ExistsBij, FS_Bijection
<1>7. Old \intersect New = {}
  BY <1>4
<1>8. SUBSET (1 .. n + 1) = Old \union New
  <2>1. ASSUME NEW V \in SUBSET (1 .. n + 1), n + 1 \in V PROVE V \in New
    <3>1. V \ {n + 1} \in Old /\ V = (V \ {n + 1}) \union {n + 1}
      BY <2>1
    <3> QED
      BY <3>1
  <2>2. ASSUME NEW V \in SUBSET (1 .. n + 1), n + 1 \notin V PROVE V \in Old
    BY <2>2
  <2>3. Old \union New \subseteq SUBSET (1 .. n + 1)
    <3>1. S \subseteq 1 .. n + 1 /\ n + 1 \in 1 .. n + 1
      OBVIOUS
    <3> HIDE DEF S
    <3> QED
      BY <3>1
  <2> QED
    BY <2>1, <2>2, <2>3
<1>9. Cardinality(Old \intersect New) = 0
  BY <1>7, FS_EmptySet
<1> HIDE DEF Old, New
<1>10. 2^n \in Nat /\ 2^n # 0
  <2>1. {} \in Old
    BY DEF Old
  <2> QED
    BY <1>2, <2>1, FS_CardinalityType, FS_EmptySet
<1>11. 2^(n + 1) = 2^n + 2^n - 0
  BY <1>2, <1>3, <1>6, <1>8, <1>9, FS_Union
<1> QED
  BY <1>10, <1>11

\* R decides between any two elements, and consistently.
Orders(D, R) ==
  /\ \A a, b \in D : a # b => <<a, b>> \in R \/ <<b, a>> \in R
  /\ \A a, b, c \in D : <<a, b>> \in R /\ <<b, c>> \in R => <<a, c>> \in R

Sorts(p, D, R) ==
  /\ p \in Bijection(1 .. Cardinality(D), D)
  /\ \A m, n \in 1 .. Cardinality(D) : m < n => <<p[m], p[n]>> \in R

(* Of a finite set that R orders there is an arrangement: each element     *)
(* goes to the place that the number of those before it gives, where some  *)
(* numbering of the set decides between elements that R does not.          *)
LEMMA ArrangementExists ==
  ASSUME NEW D, IsFiniteSet(D), NEW R, Orders(D, R)
  PROVE  \E p : Sorts(p, D, R)
<1> DEFINE n == Cardinality(D)
<1>1. n \in Nat /\ IsFiniteSet(1 .. n) /\ Cardinality(1 .. n) = n
  BY FS_CardinalityType, FS_Interval
<1>2. PICK num \in Bijection(D, 1 .. n) : TRUE
  BY FS_CardinalityType, Fun_ExistsBijSymmetric, Fun_ExistsBij
<1>3. /\ \A a \in D : num[a] \in 1 .. n
      /\ \A a, b \in D : num[a] = num[b] => a = b
  BY DEF Bijection, Injection, IsInjective
<1> DEFINE Before(a, b) == a # b /\ <<a, b>> \in R /\ (<<b, a>> \notin R \/ num[a] < num[b])
           Below(b) == {a \in D : Before(a, b)}
           place == [b \in D |-> Cardinality(Below(b)) + 1]
<1>4. ASSUME NEW a \in D, NEW b \in D, a # b
      PROVE  Before(a, b) \/ Before(b, a)
  <2>1. num[a] < num[b] \/ num[b] < num[a]
    BY <1>1, <1>3, <1>4
  <2> QED
    BY <1>4, <2>1 DEF Orders
<1>5. ASSUME NEW a \in D, NEW b \in D, NEW c \in D, Before(a, b), Before(b, c)
      PROVE  Before(a, c)
  <2>1. <<a, c>> \in R
    BY <1>5 DEF Orders
  <2>2. CASE a = c
    BY <1>1, <1>3, <1>5, <2>2
  <2>3. CASE <<c, a>> \in R
    <3>1. <<c, b>> \in R /\ <<b, a>> \in R
      BY <1>5, <2>3 DEF Orders
    <3> QED
      BY <1>1, <1>3, <1>5, <3>1, <2>1, <2>2
  <2> QED
    BY <2>1, <2>2, <2>3
<1> HIDE DEF Before
<1>6. \A a \in D : ~Before(a, a)
  BY DEF Before
<1>7. ASSUME NEW b \in D
      PROVE  IsFiniteSet(Below(b)) /\ Cardinality(Below(b)) \in 0 .. n - 1
  <2>1. Below(b) \in SUBSET D /\ b \notin Below(b)
    BY <1>6
  <2>2. IsFiniteSet(Below(b)) /\ Cardinality(Below(b)) <= n /\ Cardinality(Below(b)) # n
    BY <2>1, FS_Subset
  <2>3. Cardinality(Below(b)) \in Nat
    BY <2>2, FS_CardinalityType
  <2> QED
    BY <1>1, <2>2, <2>3
<1>8. ASSUME NEW a \in D, NEW b \in D, Before(a, b)
      PROVE  place[a] < place[b]
  <2>1. Below(a) \in SUBSET Below(b) /\ a \in Below(b) /\ a \notin Below(a)
    BY <1>5, <1>6, <1>8
  <2>2. Cardinality(Below(a)) <= Cardinality(Below(b)) /\ Cardinality(Below(a)) # Cardinality(Below(b))
    BY <1>7, <2>1, FS_Subset
  <2>3. Cardinality(Below(a)) \in Nat /\ Cardinality(Below(b)) \in Nat
    BY <1>7, FS_CardinalityType
  <2> HIDE DEF Below
  <2> QED
    BY <2>2, <2>3
<1>9. place \in [D -> 1 .. n]
  <2> HIDE DEF Below
  <2> QED
    BY <1>1, <1>7
<1> HIDE DEF place, Below
<1>10. \A a, b \in D : place[a] = place[b] => a = b
  BY <1>1, <1>4, <1>8, <1>9
<1>11. place \in Injection(D, 1 .. n)
  BY <1>9, <1>10, Fun_IsInj
<1>12. place \in Surjection(D, 1 .. n)
  BY <1>1, <1>11, FS_Injection
<1>13. place \in Bijection(D, 1 .. n)
  BY <1>11, <1>12 DEF Bijection
<1> DEFINE p == Inverse(place, D, 1 .. n)
<1>14. p \in Bijection(1 .. n, D) /\ \A a \in D : p[place[a]] = a
  BY <1>13, Fun_BijInverse
<1> HIDE DEF p
<1>15. \A i \in 1 .. n : p[i] \in D /\ place[p[i]] = i
  <2>1. p \in [1 .. n -> D] /\ \A i \in 1 .. n : \E a \in D : place[a] = i
    BY <1>12, <1>14 DEF Bijection, Injection, Surjection
  <2> QED
    BY <1>14, <2>1
<1>16. ASSUME NEW i \in 1 .. n, NEW j \in 1 .. n, i < j
       PROVE  <<p[i], p[j]>> \in R
  <2>1. p[i] # p[j] /\ ~Before(p[j], p[i])
    BY <1>1, <1>8, <1>15, <1>16
  <2> QED
    BY <1>4, <1>15, <2>1 DEF Before
<1> QED
  BY <1>14, <1>16 DEF Sorts

LEMMA ArrangementSorts ==
  ASSUME NEW D, IsFiniteSet(D), NEW R, Orders(D, R)
  PROVE  Sorts(Arrangement(D, R), D, R)
<1> DEFINE n == Cardinality(D)
           Good(p) == IsInjective(p) /\ \A i, j \in DOMAIN p : i < j => <<p[i], p[j]>> \in R
<1>1. \A p \in [1 .. n -> D] : Good(p) => Sorts(p, D, R)
  <2> SUFFICES ASSUME NEW p \in [1 .. n -> D], Good(p) PROVE Sorts(p, D, R)
    OBVIOUS
  <2>1. n \in Nat /\ Cardinality(1 .. n) = n
    BY FS_CardinalityType, FS_Interval
  <2>2. p \in Injection(1 .. n, D)
    BY DEF Injection
  <2>3. p \in Surjection(1 .. n, D)
    BY <2>1, <2>2, FS_Injection
  <2> QED
    BY <2>2, <2>3 DEF Sorts, Bijection
<1>2. \E p \in [1 .. n -> D] : Good(p)
  <2>1. PICK p : Sorts(p, D, R)
    BY ArrangementExists
  <2>2. p \in [1 .. n -> D] /\ IsInjective(p)
    BY <2>1 DEF Sorts, Bijection, Injection
  <2> QED
    BY <2>1, <2>2 DEF Sorts
<1> HIDE DEF Good
<1>3. Arrangement(D, R) \in [1 .. n -> D] /\ Good(Arrangement(D, R))
  <2>1. Arrangement(D, R) = CHOOSE p \in [1 .. n -> D] : Good(p)
    BY DEF Arrangement, Good
  <2> QED
    BY <1>2, <2>1
<1> QED
  BY <1>1, <1>3

-----------------------------------------------------------------------------
(* The comparator                                                          *)

\* No b comes strictly before an a that may stand before it.
NotAfter(a, b) == CmpDesc(a, b) # "Greater"

(* To put a before b is to put b after a.                                  *)
LEMMA CmpDescMirrors ==
  ASSUME NEW a \in Score, NEW b \in Score
  PROVE  /\ CmpDesc(a, b) = "Less" <=> CmpDesc(b, a) = "Greater"
         /\ CmpDesc(a, b) = "Equal" <=> CmpDesc(b, a) = "Equal"
<1>1. CASE a = NaN \/ b = NaN
  BY <1>1 DEF CmpDesc
<1>2. CASE a # NaN /\ b # NaN
  <2>1. a \in Int /\ b \in Int
    BY <1>2 DEF Score
  <2> QED
    BY <1>2, <2>1 DEF CmpDesc
<1> QED
  BY <1>1, <1>2

(* What may stand before b, which may stand before c, may stand before c.  *)
LEMMA NotAfterIsTransitive ==
  ASSUME NEW a \in Score, NEW b \in Score, NEW c \in Score,
         NotAfter(a, b), NotAfter(b, c)
  PROVE  NotAfter(a, c)
<1>1. CASE c = NaN
  BY <1>1 DEF NotAfter, CmpDesc
<1>2. CASE c # NaN
  <2>1. b # NaN
    BY <1>2 DEF NotAfter, CmpDesc
  <2>2. a # NaN
    BY <2>1 DEF NotAfter, CmpDesc
  <2>3. a \in Int /\ b \in Int /\ c \in Int
    BY <1>2, <2>1, <2>2 DEF Score
  <2>4. b <= a /\ c <= b
    BY <1>2, <2>1, <2>2, <2>3 DEF NotAfter, CmpDesc
  <2>5. c <= a
    BY <2>3, <2>4
  <2> QED
    BY <1>2, <2>2, <2>3, <2>5 DEF NotAfter, CmpDesc
<1> QED
  BY <1>1, <1>2

(* Either of two scores may stand before the other, or both may.           *)
LEMMA NotAfterIsTotal ==
  ASSUME NEW a \in Score, NEW b \in Score
  PROVE  /\ CmpDesc(a, b) \in {"Less", "Equal", "Greater"}
         /\ NotAfter(a, b) \/ NotAfter(b, a)
         /\ NotAfter(a, b) <=> Above(a, b)
         /\ a = b => CmpDesc(a, b) = "Equal"
<1>1. CASE a = NaN \/ b = NaN
  BY <1>1 DEF CmpDesc, NotAfter, Above
<1>2. CASE a # NaN /\ b # NaN
  <2>1. a \in Int /\ b \in Int
    BY <1>2 DEF Score
  <2> QED
    BY <1>2, <2>1 DEF CmpDesc, NotAfter, Above
<1> QED
  BY <1>1, <1>2

(* What comes of two comparisons in a row: the outcome is Equal only if    *)
(* both were.                                                              *)
LEMMA EqualOnlyFromEquals ==
  ASSUME NEW a \in Score, NEW b \in Score, NEW c \in Score,
         NotAfter(a, b), NotAfter(b, c), CmpDesc(a, c) = "Equal"
  PROVE  CmpDesc(a, b) = "Equal" /\ CmpDesc(b, c) = "Equal"
<1>1. CmpDesc(c, a) = "Equal"
  BY CmpDescMirrors
<1>2. NotAfter(c, a)
  BY <1>1 DEF NotAfter
<1>3. NotAfter(b, a) /\ NotAfter(c, b)
  BY <1>2, NotAfterIsTransitive
<1>4. CmpDesc(a, b) # "Less" /\ CmpDesc(b, c) # "Less"
  BY <1>3, CmpDescMirrors DEF NotAfter
<1> QED
  BY <1>4, NotAfterIsTotal DEF NotAfter

(* A list of n things with scores.                                         *)
Scorable(list, n) ==
  DOMAIN list = 1 .. n /\ \A i \in 1 .. n : list[i].score \in Score

LEMMA PrecedesOrders ==
  ASSUME NEW n \in Nat, NEW items, Scorable(items, n)
  PROVE  Orders(DOMAIN items, Precedence(items))
<1> DEFINE sc(i) == items[i].score
<1>1. \A i \in 1 .. n : sc(i) \in Score
  BY DEF Scorable
<1> HIDE DEF sc
<1>2. ASSUME NEW i \in 1 .. n, NEW j \in 1 .. n, i # j
      PROVE  Precedes(items, i, j) \/ Precedes(items, j, i)
  <2>1. /\ CmpDesc(sc(i), sc(j)) \in {"Less", "Equal", "Greater"}
        /\ CmpDesc(sc(i), sc(j)) = "Greater" => CmpDesc(sc(j), sc(i)) = "Less"
        /\ CmpDesc(sc(i), sc(j)) = "Equal" => CmpDesc(sc(j), sc(i)) = "Equal"
    BY <1>1, NotAfterIsTotal, CmpDescMirrors
  <2>2. i < j \/ j < i
    BY <1>2
  <2> QED
    BY <2>1, <2>2 DEF Precedes, sc
<1>3. ASSUME NEW i \in 1 .. n, NEW j \in 1 .. n, NEW l \in 1 .. n,
             Precedes(items, i, j), Precedes(items, j, l)
      PROVE  Precedes(items, i, l)
  <2>1. NotAfter(sc(i), sc(j)) /\ NotAfter(sc(j), sc(l))
    BY <1>3 DEF Precedes, NotAfter, sc
  <2>2. NotAfter(sc(i), sc(l))
    BY <1>1, <2>1, NotAfterIsTransitive
  <2>3. CASE CmpDesc(sc(i), sc(l)) = "Equal"
    <3>1. CmpDesc(sc(i), sc(j)) = "Equal" /\ CmpDesc(sc(j), sc(l)) = "Equal"
      BY <1>1, <2>1, <2>3, EqualOnlyFromEquals
    <3>2. i < j /\ j < l
      BY <1>3, <3>1 DEF Precedes, sc
    <3>3. i < l
      BY <3>2
    <3> QED
      BY <2>3, <3>3 DEF Precedes, sc
  <2>4. CASE CmpDesc(sc(i), sc(l)) # "Equal"
    <3>1. CmpDesc(sc(i), sc(l)) = "Less"
      BY <1>1, <2>2, <2>4, NotAfterIsTotal DEF NotAfter
    <3> QED
      BY <3>1 DEF Precedes, sc
  <2> QED
    BY <2>3, <2>4
<1> QED
  BY <1>2, <1>3 DEF Orders, Precedence, Scorable

(* from_scored reorders: order[p] is where the item at place p was.        *)
LEMMA FromScoredReorders ==
  ASSUME NEW n \in Nat, NEW items, Scorable(items, n)
  PROVE  \E order \in Bijection(1 .. n, 1 .. n) :
           /\ FromScored(items) = [p \in 1 .. n |-> items[order[p]]]
           /\ \A p, q \in 1 .. n : p < q => Precedes(items, order[p], order[q])
<1> DEFINE order == Arrangement(DOMAIN items, Precedence(items))
<1>1. DOMAIN items = 1 .. n /\ IsFiniteSet(1 .. n) /\ Cardinality(1 .. n) = n
  BY FS_Interval DEF Scorable
<1>2. Sorts(order, 1 .. n, Precedence(items))
  BY <1>1, PrecedesOrders, ArrangementSorts
<1>3. FromScored(items) = [p \in 1 .. n |-> items[order[p]]]
  BY <1>1 DEF FromScored
<1> HIDE DEF order
<1>4. order \in Bijection(1 .. n, 1 .. n)
  BY <1>1, <1>2 DEF Sorts
<1>5. \A p, q \in 1 .. n : p < q => Precedes(items, order[p], order[q])
  BY <1>1, <1>2 DEF Sorts, Precedence
<1> QED
  BY <1>3, <1>4, <1>5

LEMMA ReorderedFacts ==
  ASSUME NEW n, NEW order \in Bijection(1 .. n, 1 .. n)
  PROVE  /\ \A p \in 1 .. n : order[p] \in 1 .. n
         /\ \A i \in 1 .. n : \E p \in 1 .. n : order[p] = i
         /\ \A p, q \in 1 .. n : order[p] = order[q] => p = q
         /\ order \in [1 .. n -> 1 .. n]
BY DEF Bijection, Injection, Surjection, IsInjective

(* The ranking of any scored list is best first and has the same items.    *)
LEMMA FromScoredSorts ==
  ASSUME NEW n \in Nat, NEW items, Scorable(items, n)
  PROVE  /\ FromScored(items) \in [1 .. n -> {items[i] : i \in 1 .. n}]
         /\ BestFirst(FromScored(items))
         /\ \A p \in 1 .. n : \E i \in 1 .. n : FromScored(items)[p] = items[i]
         /\ \A i \in 1 .. n : \E p \in 1 .. n : FromScored(items)[p] = items[i]
<1>1. PICK order \in Bijection(1 .. n, 1 .. n) :
        /\ FromScored(items) = [p \in 1 .. n |-> items[order[p]]]
        /\ \A p, q \in 1 .. n : p < q => Precedes(items, order[p], order[q])
  BY FromScoredReorders
<1>2. /\ \A p \in 1 .. n : order[p] \in 1 .. n
      /\ \A i \in 1 .. n : \E p \in 1 .. n : order[p] = i
  BY ReorderedFacts
<1>3. ASSUME NEW p \in 1 .. n, NEW q \in 1 .. n, p < q
      PROVE  Above(items[order[p]].score, items[order[q]].score)
  <2>1. items[order[p]].score \in Score /\ items[order[q]].score \in Score
    BY <1>2 DEF Scorable
  <2>2. NotAfter(items[order[p]].score, items[order[q]].score)
    BY <1>1, <1>3 DEF Precedes, NotAfter
  <2> QED
    BY <2>1, <2>2, NotAfterIsTotal
<1>4. BestFirst(FromScored(items))
  BY <1>1, <1>3 DEF BestFirst
<1>5. FromScored(items) \in [1 .. n -> {items[i] : i \in 1 .. n}]
  BY <1>1, <1>2
<1>6. ASSUME NEW p \in 1 .. n PROVE \E i \in 1 .. n : FromScored(items)[p] = items[i]
  BY <1>1, <1>2
<1>7. ASSUME NEW i \in 1 .. n PROVE \E p \in 1 .. n : FromScored(items)[p] = items[i]
  <2>1. PICK p \in 1 .. n : order[p] = i
    BY <1>2
  <2>2. FromScored(items)[p] = items[i]
    BY <1>1, <2>1
  <2> QED
    BY <2>2
<1> QED
  BY <1>4, <1>5, <1>6, <1>7

\* How many of the first n items have this id.
Count(list, n, id) == Cardinality({i \in 1 .. n : list[i].id = id})

(* from_scored keeps how often each id occurs.                             *)
LEMMA FromScoredCounts ==
  ASSUME NEW n \in Nat, NEW items, Scorable(items, n), NEW id
  PROVE  Count(FromScored(items), n, id) = Count(items, n, id)
<1>1. PICK order \in Bijection(1 .. n, 1 .. n) :
        FromScored(items) = [p \in 1 .. n |-> items[order[p]]]
  BY FromScoredReorders
<1>2. /\ \A p \in 1 .. n : order[p] \in 1 .. n
      /\ \A i \in 1 .. n : \E p \in 1 .. n : order[p] = i
      /\ \A p, q \in 1 .. n : order[p] = order[q] => p = q
  BY ReorderedFacts
<1> DEFINE A == {p \in 1 .. n : items[order[p]].id = id}
           B == {i \in 1 .. n : items[i].id = id}
           f == [p \in A |-> order[p]]
<1>3. f \in Injection(A, B)
  <2>1. f \in [A -> B]
    BY <1>2
  <2> QED
    BY <1>2, <2>1, Fun_IsInj
<1>4. f \in Surjection(A, B)
  <2>1. f \in [A -> B]
    BY <1>2
  <2>2. \A i \in B : \E p \in A : f[p] = i
    BY <1>2
  <2> QED
    BY <2>1, <2>2, Fun_IsSurj
<1>5. IsFiniteSet(A)
  BY FS_Interval, FS_Subset
<1>6. Cardinality(A) = Cardinality(B)
  <2>1. f \in Bijection(A, B)
    BY <1>3, <1>4 DEF Bijection
  <2> QED
    BY <1>5, <2>1, Fun_ExistsBij, FS_Bijection
<1>7. {p \in 1 .. n : FromScored(items)[p].id = id} = A
  BY <1>1
<1> QED
  BY <1>6, <1>7 DEF Count

-----------------------------------------------------------------------------
(* The heuristic ranking                                                   *)

\* A list of n candidates with scores.
Rankable(cs, n) ==
  /\ DOMAIN cs = 1 .. n
  /\ \A i \in 1 .. n : cs[i].lexical \in Int /\ cs[i].retrieval \in Score

HeuristicItems(cs) ==
  [i \in DOMAIN cs |->
     [id |-> cs[i].id, score |-> HeuristicScore(cs[i]), retrieval |-> cs[i].retrieval]]

LEMMA HeuristicIsScorable ==
  ASSUME NEW n \in Nat, NEW cs, Rankable(cs, n)
  PROVE  /\ Scorable(HeuristicItems(cs), n)
         /\ HeuristicRanking(cs) = FromScored(HeuristicItems(cs))
         /\ \A i \in 1 .. n : HeuristicItems(cs)[i].id = cs[i].id
<1>1. ASSUME NEW i \in 1 .. n PROVE HeuristicScore(cs[i]) \in Score
  BY ScoreAssumption DEF Rankable, HeuristicScore, Score, ScoreAssumption
<1> QED
  BY <1>1 DEF Scorable, HeuristicItems, HeuristicRanking, Rankable

(* The empty list is the list of no items.                                 *)
LEMMA EmptyList ==
  ASSUME NEW n \in Nat, NEW S, NEW list \in [1 .. n -> S]
  PROVE  list = <<>> <=> n = 0
<1>1. list \in Seq(S) /\ Len(list) = n
  OBVIOUS
<1>2. ASSUME n = 0 PROVE list = <<>>
  BY <1>1, <1>2
<1> QED
  BY <1>1, <1>2

LEMMA HeuristicIsWellFormed ==
  ASSUME NEW S, NEW cs \in Seq(S), Rankable(cs, Len(cs))
  PROVE  /\ WellFormed(HeuristicRanking(cs), cs)
         /\ DOMAIN HeuristicRanking(cs) = 1 .. Len(cs)
         /\ \A id : Count(HeuristicRanking(cs), Len(cs), id) = Count(cs, Len(cs), id)
<1> DEFINE n == Len(cs)
           items == HeuristicItems(cs)
           list == HeuristicRanking(cs)
<1>1. /\ n \in Nat /\ Scorable(items, n) /\ list = FromScored(items)
      /\ \A i \in 1 .. n : items[i].id = cs[i].id
      /\ cs \in [1 .. n -> S]
  BY HeuristicIsScorable
<1> HIDE DEF n, items, list
<1>2. /\ list \in [1 .. n -> {items[i] : i \in 1 .. n}]
      /\ BestFirst(list)
      /\ \A p \in 1 .. n : \E i \in 1 .. n : list[p] = items[i]
  BY ONLY <1>1, FromScoredSorts, ZenonT(60)
<1>3. Ids(list) \subseteq Ids(cs)
  <2>1. DOMAIN list = 1 .. n /\ DOMAIN cs = 1 .. n
    BY <1>1, <1>2
  <2>2. ASSUME NEW p \in 1 .. n PROVE \E i \in 1 .. n : list[p].id = cs[i].id
    <3>1. PICK i \in 1 .. n : list[p] = items[i]
      BY <1>2
    <3> QED
      BY <1>1, <3>1
  <2> QED
    BY <2>1, <2>2 DEF Ids
<1>4. list = <<>> <=> cs = <<>>
  BY <1>1, <1>2, EmptyList
<1>5. ASSUME NEW id PROVE Count(list, n, id) = Count(cs, n, id)
  <2>1. Count(items, n, id) = Count(cs, n, id)
    BY <1>1 DEF Count
  <2> QED
    BY <1>1, <2>1, FromScoredCounts
<1>6. DOMAIN list = 1 .. n
  BY <1>2
<1> QED
  BY <1>2, <1>3, <1>4, <1>5, <1>6 DEF WellFormed, n, list

-----------------------------------------------------------------------------
(* The ranking of a model reply                                            *)

(* The retrieval score of an id is that of some candidate with that id.    *)
LEMMA RetrievalIsOffered ==
  ASSUME NEW n \in Nat, NEW cs, DOMAIN cs = 1 .. n, NEW id \in Ids(cs)
  PROVE  \E i \in 1 .. n : cs[i].id = id /\ cs[i].retrieval = RetrievalOf(cs, id)
<1> DEFINE places == {i \in DOMAIN cs : cs[i].id = id}
           fromEnd == {n - i : i \in places}
<1>1. places \subseteq 1 .. n /\ places # {}
  BY DEF Ids
<1>2. fromEnd \in SUBSET Nat /\ fromEnd # {}
  BY <1>1
<1>3. PICK e \in fromEnd : \A d \in fromEnd : e <= d
  BY <1>2, LeastNat
<1>4. PICK last \in places : e = n - last
  OBVIOUS
<1>5. \A i \in places : last >= i
  <2> SUFFICES ASSUME NEW i \in places PROVE last >= i
    OBVIOUS
  <2>1. n - last <= n - i
    BY <1>3, <1>4
  <2> QED
    BY <1>1, <2>1
<1>6. Max(places) \in places
  <2>1. \E x \in places : \A y \in places : x >= y
    BY <1>5
  <2> HIDE DEF places
  <2> QED
    BY <2>1 DEF Max
<1>7. RetrievalOf(cs, id) = cs[Max(places)].retrieval
  BY DEF RetrievalOf
<1> QED
  BY <1>1, <1>6, <1>7

(* What parse_scores keeps: items that were offered, with the score of the *)
(* reply and the retrieval score of a candidate; and it keeps none only if *)
(* the reply names no candidate.                                           *)
LEMMA KeptIsOffered ==
  ASSUME NEW S, NEW items \in Seq(S), Scorable(items, Len(items)),
         NEW n \in Nat, NEW cs, DOMAIN cs = 1 .. n
  PROVE  \E m \in Nat :
           /\ \E V : Kept(items, cs) \in [1 .. m -> V]
           /\ Scorable(Kept(items, cs), m)
           /\ \A p \in 1 .. m : \E i \in 1 .. n :
                /\ Kept(items, cs)[p].id = cs[i].id
                /\ Kept(items, cs)[p].retrieval = cs[i].retrieval
           /\ m = 0 => Ids(items) \intersect Ids(cs) = {}
<1> DEFINE named == {i \in DOMAIN items : items[i].id \in Ids(cs)}
           before == {pair \in named \X named : pair[1] < pair[2]}
           order == Arrangement(named, before)
           m == Cardinality(named)
           kept == [p \in 1 .. m |-> Scored(cs, items[order[p]])]
<1>1. named \in SUBSET (1 .. Len(items)) /\ Len(items) \in Nat
  OBVIOUS
<1>2. IsFiniteSet(named) /\ m \in Nat
  <2>1. IsFiniteSet(1 .. Len(items))
    BY <1>1, FS_Interval
  <2>2. IsFiniteSet(named)
    BY <1>1, <2>1, FS_Subset
  <2> HIDE DEF named
  <2> QED
    BY <2>2, FS_CardinalityType
<1>3. Orders(named, before)
  BY <1>1 DEF Orders
<1>4. order \in Bijection(1 .. m, named)
  <2> HIDE DEF named, before
  <2> QED
    BY <1>2, <1>3, ArrangementSorts DEF Sorts
<1>5. \A p \in 1 .. m : order[p] \in named
  BY <1>4 DEF Bijection, Injection
<1>6. DOMAIN order = 1 .. m
  BY <1>4 DEF Bijection, Injection
<1>7. Kept(items, cs) = kept
  BY <1>6 DEF Kept
<1> HIDE DEF order, m
<1>8. ASSUME NEW p \in 1 .. m
      PROVE  /\ kept[p].score \in Score
             /\ \E i \in 1 .. n : kept[p].id = cs[i].id /\ kept[p].retrieval = cs[i].retrieval
  <2>1. order[p] \in 1 .. Len(items) /\ items[order[p]].id \in Ids(cs)
    BY <1>1, <1>5
  <2>2. /\ kept[p].id = items[order[p]].id
        /\ kept[p].score = items[order[p]].score
        /\ kept[p].retrieval = RetrievalOf(cs, items[order[p]].id)
    BY DEF Scored
  <2>3. kept[p].score \in Score
    BY <2>1, <2>2 DEF Scorable
  <2>4. PICK i \in 1 .. n :
          cs[i].id = items[order[p]].id /\ cs[i].retrieval = RetrievalOf(cs, items[order[p]].id)
    BY <2>1, RetrievalIsOffered
  <2> QED
    BY <2>2, <2>3, <2>4
<1>9. kept \in [1 .. m -> {kept[p] : p \in 1 .. m}]
  OBVIOUS
<1>10. Scorable(kept, m)
  BY <1>8 DEF Scorable
<1>11. ASSUME m = 0 PROVE Ids(items) \intersect Ids(cs) = {}
  <2>1. named = {}
    BY <1>2, <1>11, FS_EmptySet DEF m
  <2> QED
    BY <2>1 DEF Ids
<1> HIDE DEF kept
<1> QED
  BY <1>2, <1>7, <1>8, <1>9, <1>10, <1>11

(* A reply that parses gives a well-formed ranking; one that does not      *)
(* names no candidate.                                                     *)
LEMMA ModelRankingIsSanitised ==
  ASSUME NEW S, NEW items \in Seq(S), Scorable(items, Len(items)),
         NEW V, NEW cs \in Seq(V)
  PROVE  LET list == ModelRanking(items, cs)
             parses == Kept(items, cs) # <<>>
         IN  /\ parses => WellFormed(list, cs)
             /\ parses => \A p \in DOMAIN list : \E i \in DOMAIN cs :
                           /\ cs[i].id = list[p].id
                           /\ cs[i].retrieval = list[p].retrieval
             /\ ~parses => Ids(items) \intersect Ids(cs) = {}
<1> DEFINE n == Len(cs)
           kept == Kept(items, cs)
           list == ModelRanking(items, cs)
<1>1. n \in Nat /\ DOMAIN cs = 1 .. n /\ cs \in [1 .. n -> V]
  OBVIOUS
<1>2. PICK m \in Nat :
        /\ \E W : kept \in [1 .. m -> W]
        /\ Scorable(kept, m)
        /\ \A p \in 1 .. m : \E i \in 1 .. n :
             kept[p].id = cs[i].id /\ kept[p].retrieval = cs[i].retrieval
        /\ m = 0 => Ids(items) \intersect Ids(cs) = {}
  <2> HIDE DEF n
  <2> QED
    BY <1>1, KeptIsOffered
<1>3. kept = <<>> <=> m = 0
  BY <1>2, EmptyList
<1>4. list = FromScored(kept)
  BY DEF ModelRanking
<1> HIDE DEF n, kept, list
<1>5. /\ list \in [1 .. m -> {kept[i] : i \in 1 .. m}]
      /\ BestFirst(list)
      /\ \A p \in 1 .. m : \E i \in 1 .. m : list[p] = kept[i]
  <2>1. Scorable(kept, m)
    BY <1>2
  <2> QED
    BY ONLY <1>4, <2>1, m \in Nat, FromScoredSorts, ZenonT(60)
<1>6. list = <<>> <=> m = 0
  BY <1>5, EmptyList
<1>7. ASSUME NEW p \in 1 .. m
      PROVE  \E i \in 1 .. n : cs[i].id = list[p].id /\ cs[i].retrieval = list[p].retrieval
  <2>1. PICK j \in 1 .. m : list[p] = kept[j]
    BY <1>5
  <2>2. PICK i \in 1 .. n : kept[j].id = cs[i].id /\ kept[j].retrieval = cs[i].retrieval
    BY <1>2
  <2> QED
    BY <2>1, <2>2
<1>8. DOMAIN list = 1 .. m
  BY <1>5
<1>9. Ids(list) \subseteq Ids(cs)
  BY <1>1, <1>7, <1>8, SMTT(30) DEF Ids
<1>10. m # 0 => cs # <<>>
  <2> SUFFICES ASSUME m # 0 PROVE n # 0
    BY <1>1, EmptyList
  <2>1. 1 \in 1 .. m
    OBVIOUS
  <2> QED
    BY <1>1, <1>7, <2>1
<1>11. kept # <<>> => WellFormed(list, cs)
  BY <1>3, <1>5, <1>6, <1>9, <1>10 DEF WellFormed
<1> QED
  BY <1>1, <1>2, <1>3, <1>7, <1>8, <1>11 DEF kept, list

-----------------------------------------------------------------------------
(* The properties of module RankingInputs, for inputs of any length        *)

InputsOK == offered \in Seq(Candidate) /\ reply \in Seq(Item)

LEMMA InputsAreTyped == RankingSpec => []InputsOK
<1>1. RankingInit => InputsOK
  BY DEF RankingInit, InputsOK
<1>2. InputsOK /\ [RankingNext]_inputs => InputsOK'
  <2> SUFFICES ASSUME InputsOK, [RankingNext]_inputs PROVE InputsOK'
    OBVIOUS
  <2>1. ASSUME NEW c \in Candidate, Offer(c) PROVE InputsOK'
    BY <2>1 DEF Offer, InputsOK
  <2>2. ASSUME NEW item \in Item, Reply(item) PROVE InputsOK'
    BY <2>2 DEF Reply, InputsOK
  <2>3. CASE UNCHANGED inputs
    BY <2>3 DEF inputs, InputsOK
  <2> QED
    BY <2>1, <2>2, <2>3 DEF RankingNext
<1> QED
  BY <1>1, <1>2, PTL DEF RankingSpec

LEMMA InputsAreRankable ==
  ASSUME InputsOK
  PROVE  Rankable(offered, Len(offered)) /\ Scorable(reply, Len(reply))
<1>1. Numbers \subseteq Int /\ Scores \subseteq Score
  BY InputsAssumption DEF InputsAssumption
<1>2. \A i \in 1 .. Len(offered) : offered[i] \in Candidate
  BY DEF InputsOK
<1>3. \A i \in 1 .. Len(reply) : reply[i] \in Item
  BY DEF InputsOK
<1>4. DOMAIN offered = 1 .. Len(offered) /\ DOMAIN reply = 1 .. Len(reply)
  BY DEF InputsOK
<1>5. Rankable(offered, Len(offered))
  BY <1>1, <1>2, <1>4 DEF Rankable, Candidate
<1>6. Scorable(reply, Len(reply))
  BY <1>1, <1>3, <1>4 DEF Scorable, Item
<1> QED
  BY <1>5, <1>6

(* sort_by is never given an inconsistent order, whatever scores a ranking *)
(* is made from and however many, NaN among them.                          *)
THEOREM ComparatorIsSound == RankingSpec => []ComparatorIsTotalPreorder
<1>1. ASSUME InputsOK PROVE ComparatorIsTotalPreorder
  <2> SUFFICES ASSUME NEW i \in DOMAIN reply, NEW j \in DOMAIN reply, NEW l \in DOMAIN reply
               PROVE  LET a == reply[i].score  b == reply[j].score  c == reply[l].score
                      IN  /\ CmpDesc(a, b) = "Less" <=> CmpDesc(b, a) = "Greater"
                          /\ CmpDesc(a, b) = "Equal" <=> CmpDesc(b, a) = "Equal"
                          /\ CmpDesc(a, b) # "Greater" /\ CmpDesc(b, c) # "Greater"
                               => CmpDesc(a, c) # "Greater"
    BY DEF ComparatorIsTotalPreorder
  <2>1. /\ reply[i].score \in Score
        /\ reply[j].score \in Score
        /\ reply[l].score \in Score
    BY <1>1, InputsAreRankable DEF Scorable
  <2> QED
    BY <2>1, CmpDescMirrors, NotAfterIsTransitive DEF NotAfter
<1> QED
  BY <1>1, InputsAreTyped, PTL

(* The sort is a stable permutation, best first, whatever scores it is     *)
(* given, NaN among them.                                                  *)
THEOREM SortIsStableAlways == RankingSpec => []SortIsStable
<1>1. ASSUME InputsOK PROVE SortIsStable
  <2> DEFINE n == Len(reply)
             in == ReplyAsScored
             out == FromScored(in)
  <2>1. n \in Nat /\ DOMAIN reply = 1 .. n /\ Scorable(reply, n)
    BY <1>1, InputsAreRankable DEF InputsOK
  <2>2. DOMAIN in = 1 .. n /\ \A i \in 1 .. n : in[i].score = reply[i].score /\ in[i].retrieval = i
    BY <2>1 DEF ReplyAsScored
  <2>3. Scorable(in, n)
    BY <2>1, <2>2 DEF Scorable
  <2> HIDE DEF n, in
  <2>4. PICK order \in Bijection(1 .. n, 1 .. n) :
          /\ out = [p \in 1 .. n |-> in[order[p]]]
          /\ \A p, q \in 1 .. n : p < q => Precedes(in, order[p], order[q])
    BY <2>1, <2>3, FromScoredReorders
  <2>5. /\ \A p \in 1 .. n : order[p] \in 1 .. n
        /\ \A i \in 1 .. n : \E p \in 1 .. n : order[p] = i
    BY ReorderedFacts
  <2>6. BestFirst(out)
    BY <2>1, <2>3, FromScoredSorts
  <2> HIDE DEF out
  <2>7. {out[p] : p \in DOMAIN out} = {in[i] : i \in DOMAIN in}
    BY <2>2, <2>4, <2>5
  <2>8. ASSUME NEW p \in 1 .. n, NEW q \in 1 .. n, p < q, out[p].score = out[q].score
        PROVE  out[p].retrieval < out[q].retrieval
    <3>1. /\ out[p].score = in[order[p]].score /\ out[p].retrieval = order[p]
          /\ out[q].score = in[order[q]].score /\ out[q].retrieval = order[q]
      BY <2>2, <2>4, <2>5
    <3>2. in[order[p]].score \in Score
      BY <2>3, <2>5 DEF Scorable
    <3>3. CmpDesc(in[order[p]].score, in[order[q]].score) = "Equal"
      <4>1. in[order[q]].score = in[order[p]].score
        BY <2>8, <3>1
      <4> QED
        BY <3>2, <4>1, NotAfterIsTotal
    <3>4. Precedes(in, order[p], order[q])
      BY <2>4, <2>8
    <3>5. order[p] < order[q]
      BY <3>3, <3>4 DEF Precedes
    <3> QED
      BY <3>1, <3>5
  <2>9. DOMAIN out = 1 .. n
    BY <2>4
  <2> QED
    BY <2>6, <2>7, <2>8, <2>9 DEF SortIsStable, out, in
<1> QED
  BY <1>1, InputsAreTyped, PTL

(* Whatever the model replies, for any number of candidates and items.     *)
THEOREM ReplyIsSanitisedAlways == RankingSpec => []ReplyIsSanitised
<1>1. ASSUME InputsOK PROVE ReplyIsSanitised
  <2>1. /\ reply \in Seq(Item) /\ Scorable(reply, Len(reply)) /\ offered \in Seq(Candidate)
        /\ reply # Garbage
    BY <1>1, InputsAreRankable, InputsAssumption DEF InputsOK, InputsAssumption
  <2>2. Parses(reply, offered) <=> Kept(reply, offered) # <<>>
    BY <2>1 DEF Parses
  <2> QED
    BY <2>1, <2>2, ModelRankingIsSanitised DEF ReplyIsSanitised
<1> QED
  BY <1>1, InputsAreTyped, PTL

(* The fallback ranks every candidate exactly as often as it was offered.  *)
THEOREM HeuristicIsPermutationAlways == RankingSpec => []HeuristicIsPermutation
<1>1. ASSUME InputsOK PROVE HeuristicIsPermutation
  <2>1. offered \in Seq(Candidate) /\ Rankable(offered, Len(offered))
    BY <1>1, InputsAreRankable DEF InputsOK
  <2>2. DOMAIN offered = 1 .. Len(offered)
    BY <2>1
  <2>3. /\ WellFormed(HeuristicRanking(offered), offered)
        /\ DOMAIN HeuristicRanking(offered) = 1 .. Len(offered)
        /\ \A id : Count(HeuristicRanking(offered), Len(offered), id)
                    = Count(offered, Len(offered), id)
    BY <2>1, HeuristicIsWellFormed
  <2> QED
    BY <2>2, <2>3 DEF HeuristicIsPermutation, Count
<1> QED
  BY <1>1, InputsAreTyped, PTL
=============================================================================
