-------------------------- MODULE FileAdapter_proofs --------------------------
(***************************************************************************)
(* Proofs about the files of a feed.  The first part is about CustodyFile: *)
(* for every extract, every width of a field and every single fault of the *)
(* transfer.  The second is about FileAdapter: for every number of files,  *)
(* every set of contents and any number of deliveries and faults.          *)
(***************************************************************************)
EXTENDS FileAdapter, CustodyFile, FiniteSetTheorems, WellFoundedInduction, TLAPS

(* Induction and recursion over the numbers of a sequence. *)

\* A set of numbers that has zero and, with a number, the next one of D has
\* all of D.
LEMMA Inductive ==
    ASSUME NEW D \in SUBSET Nat, \A k \in D : k > 0 => k - 1 \in D,
           NEW S, \A k \in D : (k > 0 => k - 1 \in S) => k \in S
    PROVE  D \subseteq S
<1> SUFFICES ASSUME D \ S # {} PROVE FALSE
  OBVIOUS
<1> DEFINE R == OpToRel(<, Nat)
<1>1. IsWellFoundedOn(R, Nat)
  BY NatLessThanWellFounded
<1>2. \A x, y \in Nat : y < x => <<y, x>> \in R
  BY DEF OpToRel
<1> HIDE DEF R
<1>3. PICK x \in D \ S : \A y \in D \ S : <<y, x>> \notin R
  <2>1. D \ S \subseteq Nat
    OBVIOUS
  <2>2. QED
    BY <1>1, <2>1, WFMin
<1>4. x \in Nat /\ x > 0 /\ x - 1 \in D \ S
  BY <1>3
<1>5. x - 1 \in Nat /\ x - 1 < x
  BY <1>4
<1>6. <<x - 1, x>> \in R
  BY <1>2, <1>4, <1>5
<1>7. QED
  BY <1>3, <1>4, <1>6

LEMMA NatInductive ==
    ASSUME NEW S, \A k \in Nat : (k > 0 => k - 1 \in S) => k \in S
    PROVE  Nat \subseteq S
<1> DEFINE D == Nat
<1>1. /\ D \in SUBSET Nat /\ \A k \in D : k > 0 => k - 1 \in D
      /\ \A k \in D : (k > 0 => k - 1 \in S) => k \in S
  OBVIOUS
<1> HIDE DEF D
<1>2. D \subseteq S
  BY <1>1, Inductive
<1>3. QED
  BY <1>2 DEF D

\* The functions of the numbers of D that g leads on from a.
Solutions(D, V, a, g) ==
    {f \in [D -> V] : /\ 0 \in D => f[0] = a
                      /\ \A k \in D : k > 0 => f[k] = g[k][f[k - 1]]}

\* A function of the numbers of D that is defined by its value at the number
\* before exists.
LEMMA Recursion ==
    ASSUME NEW D \in SUBSET Nat, \A k \in D : k > 0 => k - 1 \in D,
           NEW V, NEW a \in V, NEW g \in [D -> [V -> V]]
    PROVE  Solutions(D, V, a, g) # {}
<1> DEFINE E(n) == {k \in D : k <= n}
           Agrees(n, f) == \A k \in E(n) : f[k] = IF k = 0 THEN a ELSE g[k][f[k - 1]]
           S == {n \in D : \E f \in [E(n) -> V] : Agrees(n, f)}
<1>1. D \subseteq S
  <2>1. ASSUME NEW n \in D, n > 0 => n - 1 \in S PROVE n \in S
    <3>1. CASE n = 0
      <4> DEFINE f == [k \in E(n) |-> a]
      <4>1. \A k \in E(n) : k = 0
        BY <3>1
      <4>2. f \in [E(n) -> V] /\ Agrees(n, f)
        BY <4>1
      <4>3. QED
        BY <4>2
    <3>2. CASE n > 0
      <4>1. PICK f \in [E(n - 1) -> V] : Agrees(n - 1, f)
        BY <2>1, <3>2
      <4>2. n - 1 \in E(n - 1)
        BY <3>2
      <4> DEFINE h == [k \in E(n) |-> IF k = n THEN g[n][f[n - 1]] ELSE f[k]]
      <4>3. \A k \in E(n) : k # n => k \in E(n - 1)
        OBVIOUS
      <4>4. h \in [E(n) -> V]
        <5>1. f[n - 1] \in V
          BY <4>1, <4>2
        <5>2. g[n][f[n - 1]] \in V
          BY <5>1
        <5>3. \A k \in E(n) : k # n => f[k] \in V
          BY <4>1, <4>3
        <5> HIDE DEF E
        <5>4. QED
          BY <5>2, <5>3
      <4>5. \A k \in E(n) : k > 0 => k - 1 \in E(n) /\ k - 1 # n /\ h[k - 1] = f[k - 1]
        OBVIOUS
      <4>6. ASSUME NEW k \in E(n) PROVE h[k] = IF k = 0 THEN a ELSE g[k][h[k - 1]]
        <5>1. CASE k = n
          BY <3>2, <4>5, <5>1
        <5>2. CASE k # n
          <6>1. k \in E(n - 1) /\ h[k] = f[k]
            BY <4>3, <5>2
          <6>2. f[k] = IF k = 0 THEN a ELSE g[k][f[k - 1]]
            BY <4>1, <6>1
          <6>3. QED
            BY <4>5, <6>1, <6>2
        <5>3. QED
          BY <5>1, <5>2
      <4>7. QED
        BY <4>4, <4>6
    <3> HIDE DEF S
    <3>3. QED
      BY <3>1, <3>2
  <2> HIDE DEF S
  <2>2. QED
    BY <2>1, Inductive
<1>2. ASSUME NEW n \in D, NEW m \in D, NEW f \in [E(n) -> V], NEW h \in [E(m) -> V],
             Agrees(n, f), Agrees(m, h)
      PROVE  \A k \in E(n) \cap E(m) : f[k] = h[k]
  <2> DEFINE T == {k \in D : k \in E(n) \cap E(m) => f[k] = h[k]}
  <2>1. ASSUME NEW k \in D, k > 0 => k - 1 \in T PROVE k \in T
    <3> SUFFICES ASSUME k \in E(n), k \in E(m) PROVE f[k] = h[k]
      OBVIOUS
    <3>1. k > 0 => k - 1 \in E(n) /\ k - 1 \in E(m)
      OBVIOUS
    <3>2. k > 0 => f[k - 1] = h[k - 1]
      BY <2>1, <3>1
    <3>3. /\ f[k] = IF k = 0 THEN a ELSE g[k][f[k - 1]]
          /\ h[k] = IF k = 0 THEN a ELSE g[k][h[k - 1]]
      BY <1>2
    <3>4. CASE k = 0
      BY <3>3, <3>4
    <3>5. CASE k # 0
      BY <3>2, <3>3, <3>5
    <3>6. QED
      BY <3>4, <3>5
  <2> HIDE DEF T
  <2>2. D \subseteq T
    BY <2>1, Inductive
  <2>3. QED
    BY <2>2 DEF T
<1> DEFINE best(n) == CHOOSE f : f \in [E(n) -> V] /\ Agrees(n, f)
           F == [n \in D |-> best(n)[n]]
<1>3. ASSUME NEW n \in D PROVE best(n) \in [E(n) -> V] /\ Agrees(n, best(n)) /\ n \in E(n)
  <2>1. \E f : f \in [E(n) -> V] /\ Agrees(n, f)
    BY <1>1
  <2> HIDE DEF Agrees
  <2>2. best(n) \in [E(n) -> V] /\ Agrees(n, best(n))
    BY <2>1
  <2>3. n \in E(n)
    OBVIOUS
  <2>4. QED
    BY <2>2, <2>3
<1>4. F \in [D -> V]
  <2>1. \A n \in D : best(n)[n] \in V
    BY <1>3
  <2>2. QED
    BY <2>1
<1>5. ASSUME NEW n \in D PROVE F[n] = IF n = 0 THEN a ELSE g[n][F[n - 1]]
  <2>1. best(n)[n] = IF n = 0 THEN a ELSE g[n][best(n)[n - 1]]
    BY <1>3
  <2>2. n > 0 => n - 1 \in D /\ n - 1 \in E(n) /\ n - 1 \in E(n - 1)
    OBVIOUS
  <2>3. n > 0 => best(n)[n - 1] = best(n - 1)[n - 1]
    <3> HIDE DEF best, Agrees, E
    <3> SUFFICES ASSUME n > 0 PROVE best(n)[n - 1] = best(n - 1)[n - 1]
      OBVIOUS
    <3>1. /\ best(n) \in [E(n) -> V] /\ Agrees(n, best(n))
          /\ best(n - 1) \in [E(n - 1) -> V] /\ Agrees(n - 1, best(n - 1))
      BY <1>3, <2>2
    <3>2. \A k \in E(n) \cap E(n - 1) : best(n)[k] = best(n - 1)[k]
      BY <1>2, <2>2, <3>1
    <3>3. QED
      BY <2>2, <3>2
  <2>4. F[n] = best(n)[n] /\ (n > 0 => F[n - 1] = best(n - 1)[n - 1])
    BY <2>2
  <2> HIDE DEF F, best
  <2>5. QED
    BY <2>1, <2>3, <2>4
<1>6. F[0] = a \/ 0 \notin D
  BY <1>5
<1> HIDE DEF F
<1>7. \A k \in D : k > 0 => F[k] = g[k][F[k - 1]]
  BY <1>5
<1>8. QED
  BY <1>4, <1>6, <1>7 DEF Solutions

\* A sequence that has a number at i, and the running totals of one.
Summable(s, i) == Len(s) \in Nat /\ \A k \in 1..Len(s) : s[k][i] \in Int

Totals(s, i) ==
    {sum \in [0..Len(s) -> Int] :
        /\ sum[0] = 0
        /\ \A k \in 1..Len(s) : sum[k] = sum[k - 1] + s[k][i]
        /\ SumOf(s, i) = sum[Len(s)]}

\* A total is what the running totals come to.
LEMMA SumFacts ==
    ASSUME NEW s, NEW i, Summable(s, i)
    PROVE  Totals(s, i) # {}
<1> USE DEF Summable
<1> DEFINE D == 0..Len(s)
           sum == CHOOSE f : f = [k \in D |-> IF k = 0 THEN 0 ELSE f[k - 1] + s[k][i]]
           g == [k \in D |-> [v \in Int |-> IF k = 0 THEN 0 ELSE v + s[k][i]]]
<1>1. D \in SUBSET Nat /\ \A k \in D : k > 0 => k - 1 \in D
  OBVIOUS
<1>2. \A k \in D : k # 0 => k \in 1..Len(s) /\ k - 1 \in D
  OBVIOUS
<1>3. SumOf(s, i) = sum[Len(s)]
  BY DEF SumOf
<1> HIDE DEF D
<1>4. g \in [D -> [Int -> Int]]
  BY <1>2
<1>5. PICK f \in [D -> Int] : \A k \in D : f[k] = IF k = 0 THEN 0 ELSE g[k][f[k - 1]]
  <2> HIDE DEF g, sum
  <2>1. 0 \in Int
    OBVIOUS
  <2>2. Solutions(D, Int, 0, g) # {}
    BY <1>1, <1>4, <2>1, Recursion
  <2>3. QED
    BY <1>1, <2>2 DEF Solutions
<1>6. \A k \in D : f[k] = IF k = 0 THEN 0 ELSE f[k - 1] + s[k][i]
  BY <1>2, <1>5
<1>7. f = [k \in D |-> IF k = 0 THEN 0 ELSE f[k - 1] + s[k][i]]
  BY <1>6
<1>8. sum = [k \in D |-> IF k = 0 THEN 0 ELSE sum[k - 1] + s[k][i]]
  BY <1>7
<1> HIDE DEF sum
<1>9. \A k \in D : sum[k] = IF k = 0 THEN 0 ELSE sum[k - 1] + s[k][i]
  BY <1>8
<1> DEFINE T == {k \in D : sum[k] \in Int}
<1>10. \A k \in D : (k > 0 => k - 1 \in T) => k \in T
  BY <1>1, <1>2, <1>9, SMTT(30)
<1>11. D \subseteq T
  <2> HIDE DEF T
  <2>1. QED
    BY <1>1, <1>10, Inductive
<1>12. sum \in [D -> Int]
  BY <1>8, <1>11
<1>13. 0 \in D /\ \A k \in 1..Len(s) : k \in D /\ k # 0
  BY DEF D
<1>14. QED
  BY <1>3, <1>9, <1>12, <1>13 DEF D, Totals

\* A sum of naturals is one.
LEMMA SumNat ==
    ASSUME NEW s, Len(s) \in Nat, NEW i, \A k \in 1..Len(s) : s[k][i] \in Nat
    PROVE  SumOf(s, i) \in Nat
<1>1. PICK sum \in Totals(s, i) : TRUE
  <2>1. Summable(s, i)
    BY DEF Summable
  <2>2. QED
    BY <2>1, SumFacts
<1> USE DEF Totals
<1> DEFINE D == 0..Len(s)
           T == {k \in D : sum[k] \in Nat}
<1>2. D \in SUBSET Nat /\ \A k \in D : k > 0 => k - 1 \in D
  OBVIOUS
<1>3. \A k \in D : (k > 0 => k - 1 \in T) => k \in T
  <2>1. \A k \in D : k = 0 \/ (k > 0 /\ k \in 1..Len(s) /\ k - 1 \in D)
    OBVIOUS
  <2>2. 0 \in T
    BY <1>1
  <2>3. ASSUME NEW k \in 1..Len(s), k \in D, k - 1 \in T PROVE k \in T
    <3>1. sum[k] = sum[k - 1] + s[k][i] /\ s[k][i] \in Nat
      BY <1>1
    <3>2. QED
      BY <2>3, <3>1
  <2> HIDE DEF T
  <2>4. QED
    BY <2>1, <2>2, <2>3
<1>4. D \subseteq T
  <2> HIDE DEF D, T
  <2>1. QED
    BY <1>2, <1>3, Inductive
<1>5. QED
  BY <1>1, <1>4

\* Lines at either end that add nothing do not change a total.
LEMMA SumOfFramed ==
    ASSUME NEW s, NEW t, Len(s) \in Nat, Len(t) \in Nat, NEW i,
           \A k \in 1..Len(s) : s[k][i] \in Int,
           Len(t) = Len(s) + 2,
           t[1][i] = 0, t[Len(t)][i] = 0,
           \A k \in 1..Len(s) : t[k + 1][i] = s[k][i]
    PROVE  SumOf(t, i) = SumOf(s, i)
<1>1. PICK sum \in Totals(s, i) : TRUE
  <2>1. Summable(s, i)
    BY DEF Summable
  <2>2. QED
    BY <2>1, SumFacts
<1>2. \A k \in 1..Len(t) : k = 1 \/ k = Len(t) \/ k - 1 \in 1..Len(s)
  OBVIOUS
<1>3. \A k \in 1..Len(t) : t[k][i] \in Int
  <2>1. \A k \in 1..Len(s) : t[k + 1][i] \in Int
    OBVIOUS
  <2>2. ASSUME NEW k \in 1..Len(t), k - 1 \in 1..Len(s) PROVE t[k][i] \in Int
    <3>1. PICK p \in 1..Len(s) : k = p + 1
      BY <2>2
    <3>2. QED
      BY <2>1, <3>1
  <2>3. QED
    BY <1>2, <2>2
<1>4. PICK total \in Totals(t, i) : TRUE
  <2>1. Summable(t, i)
    BY <1>3 DEF Summable
  <2>2. QED
    BY <2>1, SumFacts
<1> USE DEF Totals
<1> DEFINE D == 0..Len(s)
           T == {k \in D : total[k + 1] = sum[k]}
<1>5. D \in SUBSET Nat /\ \A k \in D : k > 0 => k - 1 \in D
  OBVIOUS
<1>6. ASSUME NEW k \in D, k > 0 => k - 1 \in T PROVE k \in T
  <2>1. CASE k = 0
    <3>1. total[1] = total[0] + t[1][i]
      BY <1>4
    <3>2. QED
      BY <1>1, <1>4, <2>1, <3>1
  <2>2. CASE k > 0
    <3>1. k \in 1..Len(s) /\ k + 1 \in 1..Len(t)
      BY <2>2
    <3>2. total[k + 1] = total[(k + 1) - 1] + t[k + 1][i] /\ sum[k] = sum[k - 1] + s[k][i]
      BY <1>1, <1>4, <3>1
    <3>3. total[(k - 1) + 1] = sum[k - 1] /\ (k + 1) - 1 = k /\ (k - 1) + 1 = k
      BY <1>6, <2>2
    <3>4. t[k + 1][i] = s[k][i]
      BY <3>1
    <3>5. QED
      BY <3>2, <3>3, <3>4
  <2>3. QED
    BY <2>1, <2>2
<1>7. D \subseteq T
  <2> HIDE DEF D, T
  <2>1. QED
    BY <1>5, <1>6, Inductive
<1>8. total[Len(s) + 1] = sum[Len(s)]
  <2>1. Len(s) \in T
    BY <1>7
  <2>2. QED
    BY <2>1
<1>9. total[Len(t)] = total[Len(t) - 1] + t[Len(t)][i] /\ Len(t) - 1 = Len(s) + 1
  BY <1>4
<1>10. QED
  BY <1>1, <1>4, <1>8, <1>9

\* Two sequences that differ at one place have totals that differ by as much.
LEMMA SumOfChanged ==
    ASSUME NEW s, NEW t, Len(s) \in Nat, Len(t) = Len(s), NEW i,
           \A k \in 1..Len(s) : s[k][i] \in Int /\ t[k][i] \in Int,
           NEW j \in 1..Len(s), \A k \in 1..Len(s) : k # j => t[k][i] = s[k][i]
    PROVE  SumOf(t, i) - SumOf(s, i) = t[j][i] - s[j][i]
<1>1. PICK sum \in Totals(s, i) : TRUE
  <2>1. Summable(s, i)
    BY DEF Summable
  <2>2. QED
    BY <2>1, SumFacts
<1>2. PICK total \in Totals(t, i) : TRUE
  <2>1. Summable(t, i)
    BY DEF Summable
  <2>2. QED
    BY <2>1, SumFacts
<1> USE DEF Totals
<1> DEFINE D == 0..Len(s)
           gap(k) == IF k < j THEN 0 ELSE t[j][i] - s[j][i]
           T == {k \in D : total[k] - sum[k] = gap(k)}
<1>3. D \in SUBSET Nat /\ \A k \in D : k > 0 => k - 1 \in D
  OBVIOUS
<1>4. ASSUME NEW k \in D, k > 0 => k - 1 \in T PROVE k \in T
  <2>1. CASE k = 0
    BY <1>1, <1>2, <2>1
  <2>2. CASE k > 0
    <3>1. k \in 1..Len(s)
      BY <2>2
    <3>2. total[k] = total[k - 1] + t[k][i] /\ sum[k] = sum[k - 1] + s[k][i]
      BY <1>1, <1>2, <3>1
    <3>3. total[k - 1] - sum[k - 1] = gap(k - 1)
      BY <1>4, <2>2
    <3>4. s[k][i] \in Int /\ t[k][i] \in Int /\ s[j][i] \in Int /\ t[j][i] \in Int
      BY <3>1
    <3>5. total[k - 1] \in Int /\ sum[k - 1] \in Int
      <4>1. k - 1 \in 0..Len(s) /\ Len(t) = Len(s)
        BY <3>1
      <4>2. QED
        BY <4>1
    <3>6. CASE k = j
      BY <3>2, <3>3, <3>4, <3>5, <3>6
    <3>7. CASE k # j
      <4>1. t[k][i] = s[k][i]
        BY <3>1, <3>7
      <4>2. gap(k) = gap(k - 1)
        BY <3>1, <3>7
      <4>3. QED
        BY <3>2, <3>3, <3>4, <3>5, <4>1, <4>2
    <3>8. QED
      BY <3>6, <3>7
  <2>3. QED
    BY <2>1, <2>2
<1>5. D \subseteq T
  <2> HIDE DEF D, T
  <2>1. QED
    BY <1>3, <1>4, Inductive
<1>6. Len(s) \in T
  BY <1>5
<1>7. QED
  BY <1>1, <1>2, <1>6

(* Zoned decimals. *)

LEMMA MinFacts ==
    ASSUME NEW S \in SUBSET Nat, S # {}
    PROVE  Min(S) \in S /\ \A y \in S : Min(S) <= y
<1> DEFINE T == {k \in Nat : \A y \in S : k <= y}
<1>1. ASSUME \A x \in S : \E y \in S : ~(x <= y) PROVE FALSE
  <2>1. \A k \in Nat : (k > 0 => k - 1 \in T) => k \in T
    <3> SUFFICES ASSUME NEW k \in Nat, k > 0 => k - 1 \in T, NEW y \in S PROVE k <= y
      OBVIOUS
    <3>1. CASE k = 0
      BY <3>1
    <3>2. CASE k > 0
      <4>1. \A x \in S : k - 1 <= x
        BY <3>2
      <4>2. PICK x \in S : ~(y <= x)
        BY <1>1
      <4>3. QED
        BY <3>2, <4>1, <4>2
    <3>3. QED
      BY <3>1, <3>2
  <2> HIDE DEF T
  <2>2. Nat \subseteq T
    BY <2>1, NatInductive
  <2>3. PICK y \in S : TRUE
    OBVIOUS
  <2>4. y + 1 \in T /\ y \in Nat
    BY <2>2
  <2>5. QED
    BY <2>3, <2>4 DEF T
<1>2. \E x \in S : \A y \in S : x <= y
  BY <1>1
<1>3. QED
  BY <1>2 DEF Min

LEMMA MaxFacts ==
    ASSUME NEW S \in SUBSET Int, NEW m \in S, \A y \in S : y <= m
    PROVE  Max(S) = m
<1> DEFINE P(x) == x \in S /\ \A y \in S : x >= y
<1>1. P(m)
  OBVIOUS
<1>2. \A x : P(x) => x = m
  OBVIOUS
<1>3. Max(S) = CHOOSE x : P(x)
  BY DEF Max
<1> HIDE DEF P
<1>4. QED
  BY <1>1, <1>2, <1>3

\* What is left of n without its last digits.
Shifts(n) ==
    {w \in [Nat -> Nat] : w[0] = n /\ \A k \in Nat : k > 0 => w[k] = w[k - 1] \div Base}

\* A zoned field has the last digits of what is left, and nothing is left
\* beyond it.
LEMMA ZonedForm ==
    ASSUME NEW n \in Nat, NEW width \in Nat \ {0}
    PROVE  \E w \in Shifts(n), length \in Nat \ {0} :
              /\ w[length] = 0
              /\ DecimalToZoned(n, width) = [i \in 1..length |-> w[length - i] % Base]
<1> DEFINE w == CHOOSE f : f = [k \in Nat |-> IF k = 0 THEN n ELSE f[k - 1] \div Base]
           g == [k \in Nat |-> [v \in Nat |-> v \div Base]]
           S == {k \in 1..(n + 1) : w[k] = 0}
           length == Max({width, Min(S)})
<1>1. DecimalToZoned(n, width) = [i \in 1..length |-> w[length - i] % Base]
  BY DEF DecimalToZoned
<1>2. g \in [Nat -> [Nat -> Nat]]
  BY DEF Base
<1>3. PICK f \in Solutions(Nat, Nat, n, g) : TRUE
  <2> DEFINE D == Nat
  <2>1. /\ D \in SUBSET Nat /\ \A k \in D : k > 0 => k - 1 \in D
        /\ g \in [D -> [Nat -> Nat]]
    BY <1>2
  <2> HIDE DEF D, g
  <2>2. Solutions(D, Nat, n, g) # {}
    BY <2>1, Recursion
  <2>3. QED
    BY <2>2 DEF D
<1>4. f = [k \in Nat |-> IF k = 0 THEN n ELSE f[k - 1] \div Base]
  <2>1. f \in [Nat -> Nat] /\ f[0] = n /\ \A k \in Nat : k > 0 => f[k] = g[k][f[k - 1]]
    BY <1>3 DEF Solutions
  <2>2. \A k \in Nat : k > 0 => f[k - 1] \in Nat
    BY <2>1
  <2>3. \A k \in Nat : k > 0 => f[k] = f[k - 1] \div Base
    BY <2>1, <2>2
  <2>4. \A k \in Nat : f[k] = IF k = 0 THEN n ELSE f[k - 1] \div Base
    BY <2>1, <2>3
  <2>5. QED
    BY <2>1, <2>4
<1>5. w = [k \in Nat |-> IF k = 0 THEN n ELSE w[k - 1] \div Base]
  BY <1>4
<1> HIDE DEF w
<1>6. w[0] = n /\ \A k \in Nat : k > 0 => w[k] = w[k - 1] \div Base
  BY <1>5
<1> DEFINE T == {k \in Nat : w[k] \in Nat /\ (w[k] + k <= n \/ w[k] = 0)}
<1>7. \A k \in Nat : (k > 0 => k - 1 \in T) => k \in T
  <2> SUFFICES ASSUME NEW k \in Nat, k > 0 => k - 1 \in T PROVE k \in T
    OBVIOUS
  <2>1. CASE k = 0
    BY <1>6, <2>1
  <2>2. CASE k > 0
    <3>1. w[k] = w[k - 1] \div 10 /\ w[k - 1] \in Nat
      BY <1>6, <2>2 DEF Base
    <3>2. w[k - 1] + (k - 1) <= n \/ w[k - 1] = 0
      BY <2>2
    <3>3. QED
      BY <2>2, <3>1, <3>2
  <2>3. QED
    BY <2>1, <2>2
<1>8. Nat \subseteq T
  <2> HIDE DEF T
  <2>1. QED
    BY <1>7, NatInductive
<1>9. w \in Shifts(n)
  <2>1. \A k \in Nat : w[k] \in Nat
    BY <1>8
  <2>2. w \in [Nat -> Nat]
    BY <1>5, <2>1
  <2>3. QED
    BY <1>6, <2>2 DEF Shifts
<1>10. n + 1 \in S
  <2>1. n + 1 \in T
    BY <1>8
  <2>2. QED
    BY <2>1
<1>11. Min(S) \in S
  <2>1. S \in SUBSET Nat /\ S # {}
    BY <1>10
  <2> HIDE DEF S
  <2>2. QED
    BY <2>1, MinFacts
<1> DEFINE m == Min(S)
<1>12. m \in Nat \ {0} /\ w[m] = 0
  BY <1>11
<1> HIDE DEF S, m
<1>13. length \in {width, m} /\ length \in Nat \ {0} /\ m <= length
  <2>1. Max({width, m}) = IF width <= m THEN m ELSE width
    BY <1>12, MaxFacts
  <2>2. QED
    BY <1>12, <2>1 DEF m
<1> DEFINE Z == {k \in Nat : m <= k => w[k] = 0}
<1>14. \A k \in Nat : (k > 0 => k - 1 \in Z) => k \in Z
  <2> SUFFICES ASSUME NEW k \in Nat, k > 0 => k - 1 \in Z, m < k PROVE w[k] = 0
    BY <1>12
  <2>1. k > 0 /\ w[k - 1] = 0
    BY <1>12
  <2>2. QED
    BY <1>6, <2>1 DEF Base
<1>15. Nat \subseteq Z
  <2> HIDE DEF Z
  <2>1. QED
    BY <1>14, NatInductive
<1>16. w[length] = 0
  <2>1. length \in Z
    BY <1>13, <1>15
  <2>2. QED
    BY <1>13, <2>1
<1> HIDE DEF length
<1>17. QED
  BY <1>1, <1>9, <1>13, <1>16

\* The numbers that the symbols read so far come to.
Numbers(zoned) ==
    {number \in [0..Len(zoned) -> Int] :
        /\ number[0] = 0
        /\ \A i \in 1..Len(zoned) :
              number[i] = IF zoned[i] = Blank THEN number[i - 1]
                          ELSE Base * number[i - 1] + zoned[i]
        /\ NumberOf(zoned) = number[Len(zoned)]}

LEMMA NumberFacts ==
    ASSUME NEW zoned, Len(zoned) \in Nat, \A i \in 1..Len(zoned) : zoned[i] \in Int
    PROVE  Numbers(zoned) # {}
<1> DEFINE D == 0..Len(zoned)
           step(i, v) == IF zoned[i] = Blank THEN v ELSE Base * v + zoned[i]
           number == CHOOSE f : f = [i \in D |-> IF i = 0 THEN 0
                                                 ELSE IF zoned[i] = Blank THEN f[i - 1]
                                                 ELSE Base * f[i - 1] + zoned[i]]
           g == [i \in D |-> [v \in Int |-> IF i = 0 THEN 0 ELSE step(i, v)]]
<1>1. D \in SUBSET Nat /\ \A k \in D : k > 0 => k - 1 \in D
  OBVIOUS
<1>2. \A k \in D : k # 0 => k \in 1..Len(zoned) /\ k - 1 \in D
  OBVIOUS
<1>3. NumberOf(zoned) = number[Len(zoned)]
  BY DEF NumberOf
<1>4. 0 \in D /\ \A k \in 1..Len(zoned) : k \in D /\ k # 0
  OBVIOUS
<1> HIDE DEF D
<1>5. ASSUME NEW i \in D, NEW v \in Int, i # 0 PROVE step(i, v) \in Int
  <2>1. zoned[i] \in Int
    BY <1>2, <1>5
  <2>2. QED
    BY <2>1 DEF Base
<1>6. g \in [D -> [Int -> Int]]
  <2> HIDE DEF step
  <2>1. QED
    BY <1>5
<1>7. PICK f \in Solutions(D, Int, 0, g) : TRUE
  <2> HIDE DEF g, number
  <2>1. 0 \in Int /\ D \in SUBSET Nat
    BY <1>1
  <2>2. \A k \in D : k > 0 => k - 1 \in D
    BY <1>1
  <2>3. Solutions(D, Int, 0, g) # {}
    BY <1>6, <2>1, <2>2, Recursion
  <2>4. QED
    BY <2>3
<1>8. \A k \in D : f[k] = IF k = 0 THEN 0 ELSE step(k, f[k - 1])
  <2> HIDE DEF step
  <2>1. f \in [D -> Int] /\ f[0] = 0 /\ \A k \in D : k > 0 => f[k] = g[k][f[k - 1]]
    BY <1>4, <1>7 DEF Solutions
  <2>2. \A k \in D : k > 0 => f[k - 1] \in Int
    BY <1>1, <2>1
  <2>3. \A k \in D : k > 0 => f[k] = step(k, f[k - 1])
    BY <2>1, <2>2
  <2>4. QED
    BY <1>1, <2>1, <2>3
<1>9. f = [i \in D |-> IF i = 0 THEN 0 ELSE IF zoned[i] = Blank THEN f[i - 1]
                       ELSE Base * f[i - 1] + zoned[i]]
  BY <1>7, <1>8 DEF Solutions
<1>10. number = [i \in D |-> IF i = 0 THEN 0 ELSE IF zoned[i] = Blank THEN number[i - 1]
                             ELSE Base * number[i - 1] + zoned[i]]
  BY <1>9
<1> HIDE DEF number
<1>11. \A k \in D : number[k] = IF k = 0 THEN 0 ELSE step(k, number[k - 1])
  BY <1>10
<1> DEFINE T == {k \in D : number[k] \in Int}
<1>12. \A k \in D : (k > 0 => k - 1 \in T) => k \in T
  <2> SUFFICES ASSUME NEW k \in D, k > 0 => k - 1 \in T PROVE number[k] \in Int
    OBVIOUS
  <2> HIDE DEF step
  <2>1. CASE k = 0
    BY <1>11, <2>1
  <2>2. CASE k # 0
    <3>1. number[k] = step(k, number[k - 1])
      BY <1>11, <2>2
    <3>2. number[k - 1] \in Int
      BY <1>1, <2>2
    <3>3. QED
      BY <1>5, <2>2, <3>1, <3>2
  <2>3. QED
    BY <2>1, <2>2
<1>13. D \subseteq T
  <2> HIDE DEF T
  <2>1. QED
    BY <1>1, <1>12, Inductive
<1>14. number \in [D -> Int]
  BY <1>10, <1>13
<1>15. number[0] = 0 /\ \A i \in 1..Len(zoned) : number[i] = step(i, number[i - 1])
  <2> HIDE DEF step
  <2>1. QED
    BY <1>4, <1>11
<1>16. QED
  BY <1>3, <1>14, <1>15 DEF D, Numbers

\* What is written in a field is read from it, however wide the field.
LEMMA RoundTrip ==
    ASSUME NEW n \in Nat, NEW width \in Nat \ {0}
    PROVE  /\ ZonedToDecimal(DecimalToZoned(n, width)) = n
           /\ DecimalToZoned(n, width) \in Seq(Symbol)
<1>1. PICK w \in Shifts(n), length \in Nat \ {0} :
         /\ w[length] = 0
         /\ DecimalToZoned(n, width) = [i \in 1..length |-> w[length - i] % Base]
  BY ZonedForm
<1> DEFINE z == DecimalToZoned(n, width)
<1>2. w \in [Nat -> Nat] /\ w[0] = n /\ \A k \in Nat : k > 0 => w[k] = w[k - 1] \div 10
  BY DEF Shifts, Base
<1>3. \A i \in 1..length : length - i \in Nat /\ w[length - i] \in Nat
  BY <1>2
<1>4. z = [i \in 1..length |-> w[length - i] % 10]
  BY <1>1 DEF Base
<1> HIDE DEF z
<1>5. ASSUME NEW i \in 1..length
      PROVE  z[i] = w[length - i] % 10 /\ z[i] \in 0..9
  <2>1. z[i] = w[length - i] % 10
    BY <1>4
  <2>2. w[length - i] \in Nat
    BY <1>3
  <2> HIDE DEF z
  <2>3. QED
    BY <2>1, <2>2
<1>6. DOMAIN z = 1..length /\ Len(z) = length /\ z \in Seq(Symbol)
  <2>1. z \in [1..length -> Symbol]
    BY <1>4, <1>5 DEF Symbol, Other
  <2>2. z \in Seq(Symbol)
    BY <2>1
  <2>3. QED
    BY <2>1, <2>2
<1>7. PICK number \in Numbers(z) : TRUE
  <2>1. \A i \in 1..Len(z) : z[i] \in Int
    BY <1>5, <1>6, SMTT(30)
  <2>2. QED
    BY <1>6, <2>1, NumberFacts
<1>8. /\ number \in [0..length -> Int] /\ number[0] = 0 /\ NumberOf(z) = number[length]
      /\ \A i \in 1..length : number[i] = 10 * number[i - 1] + z[i]
  <2>1. /\ number \in [0..length -> Int] /\ number[0] = 0 /\ NumberOf(z) = number[length]
        /\ \A i \in 1..length :
              number[i] = IF z[i] = Blank THEN number[i - 1] ELSE Base * number[i - 1] + z[i]
    BY <1>6, <1>7 DEF Numbers
  <2>2. \A i \in 1..length : z[i] # Blank
    BY <1>5 DEF Blank
  <2>3. QED
    BY <2>1, <2>2 DEF Base
<1> DEFINE D == 0..length
           T == {i \in D : number[i] = w[length - i]}
<1>9. D \in SUBSET Nat /\ \A k \in D : k > 0 => k - 1 \in D
  OBVIOUS
<1>10. ASSUME NEW i \in D, i > 0 => i - 1 \in T PROVE i \in T
  <2>1. CASE i = 0
    BY <1>1, <1>8, <2>1
  <2>2. CASE i > 0
    <3>1. number[i - 1] = w[length - (i - 1)]
      BY <1>10, <2>2
    <3> DEFINE k == length - (i - 1)
    <3>2. k \in Nat /\ k > 0 /\ k - 1 = length - i /\ i \in 1..length
      BY <2>2
    <3>3. w[k] = w[k - 1] \div 10
      BY <1>2, <3>2
    <3>4. number[i] = 10 * (w[length - i] \div 10) + (w[length - i] % 10)
      BY <1>5, <1>8, <3>1, <3>2, <3>3
    <3>5. w[length - i] \in Nat
      BY <1>3, <3>2
    <3>6. QED
      BY <3>4, <3>5
  <2>3. QED
    BY <2>1, <2>2
<1>11. D \subseteq T
  <2> HIDE DEF D, T
  <2>1. QED
    BY <1>9, <1>10, Inductive
<1>12. NumberOf(z) = n
  <2>1. length \in T /\ length - length = 0
    BY <1>11
  <2>2. QED
    BY <1>2, <1>8, <2>1
<1>13. ZonedToDecimal(z) = NumberOf(z)
  <2>1. {i \in DOMAIN z : z[i] # Blank} = 1..length
    BY <1>5, <1>6, SMTT(30) DEF Blank
  <2>2. 1..length # {} /\ \A i, j \in 1..length : i..j \subseteq 1..length
    OBVIOUS
  <2>3. QED
    BY <1>5, <2>1, <2>2 DEF ZonedToDecimal, Base
<1>14. QED
  BY <1>6, <1>12, <1>13 DEF z

(* The lines. *)

\* What a zoned field decodes to is a number, whatever is in it.
LEMMA DecodeType ==
    ASSUME NEW zoned \in Seq(Symbol)
    PROVE  ZonedToDecimal(zoned) \in Int
<1>1. Len(zoned) \in Nat /\ \A i \in 1..Len(zoned) : zoned[i] \in Int
  BY DEF Symbol, Other
<1>2. PICK number \in Numbers(zoned) : TRUE
  BY <1>1, NumberFacts
<1>3. NumberOf(zoned) \in Int
  BY <1>1, <1>2 DEF Numbers
<1>4. QED
  BY <1>3 DEF ZonedToDecimal, Undecodable

LEMMA ReadType ==
    ASSUME NEW line \in LineSet
    PROVE  Quantity(line) \in Int /\ Value(line) \in Int
<1>1. line.quantity \in Seq(Symbol) /\ line.value \in Seq(Symbol)
  BY DEF LineSet
<1>2. QED
  BY <1>1, DecodeType DEF Quantity, Value, Undecodable

Positions == Nat \X Nat

\* A detail reads as the position it was written for.
LEMMA DetailFacts ==
    ASSUME NEW position \in Positions
    PROVE  /\ Detail(position) \in LineSet
           /\ Detail(position).as = "03" /\ Detail(position).type = "03"
           /\ Detail(position).whole /\ Detail(position).date = Cycle
           /\ <<Quantity(Detail(position)), Value(Detail(position))>> = position
           /\ Decodable(Detail(position))
<1>1. position[1] \in Nat /\ position[2] \in Nat /\ position = <<position[1], position[2]>>
  BY DEF Positions
<1>2. FieldWidth \in Nat \ {0} /\ Cycle \in Cycles
  BY CustodyFileAssumption
<1> DEFINE q == DecimalToZoned(position[1], FieldWidth)
           v == DecimalToZoned(position[2], FieldWidth)
<1>3. q \in Seq(Symbol) /\ v \in Seq(Symbol) /\ <<>> \in Seq(Symbol)
  BY <1>1, <1>2, RoundTrip
<1>4. ZonedToDecimal(q) = position[1] /\ ZonedToDecimal(v) = position[2]
  BY <1>1, <1>2, RoundTrip
<1> HIDE DEF q, v
<1>5. Detail(position) = [as |-> "03", type |-> "03", whole |-> TRUE, date |-> Cycle,
                          count |-> <<>>, quantity |-> q, value |-> v]
  BY DEF Detail, Line, q, v
<1>6. Detail(position) \in LineSet
  BY <1>2, <1>3, <1>5 DEF LineSet, Types
<1>7. Quantity(Detail(position)) = position[1] /\ Value(Detail(position)) = position[2]
  BY <1>4, <1>5 DEF Quantity, Value
<1>8. QED
  BY <1>1, <1>5, <1>6, <1>7 DEF Decodable, Undecodable

\* The sums of what was sent are naturals.
LEMMA SentSums ==
    ASSUME sent \in Seq(Positions)
    PROVE  SumOf(sent, 1) \in Nat /\ SumOf(sent, 2) \in Nat
<1>1. Len(sent) \in Nat
      /\ \A k \in 1..Len(sent) : sent[k][1] \in Nat /\ sent[k][2] \in Nat
  BY DEF Positions
<1>2. QED
  BY <1>1, SumNat

\* A trailer reads as the count and the totals it was written for.
LEMMA TrailerFacts ==
    ASSUME sent \in Seq(Positions), NEW total \in Nat
    PROVE  /\ Trailer(total) \in LineSet
           /\ Trailer(total).as = "99" /\ Trailer(total).type = "99"
           /\ Trailer(total).whole /\ Trailer(total).date = Cycle
           /\ Count(Trailer(total)) = Len(sent)
           /\ Quantity(Trailer(total)) = SumOf(sent, 1)
           /\ Value(Trailer(total)) = total
           /\ Decodable(Trailer(total))
<1>1. TotalWidth \in Nat \ {0} /\ CountWidth \in Nat \ {0} /\ Cycle \in Cycles
  BY CustodyFileAssumption
<1>2. Len(sent) \in Nat /\ SumOf(sent, 1) \in Nat
  BY SentSums
<1> DEFINE c == DecimalToZoned(Len(sent), CountWidth)
           q == DecimalToZoned(SumOf(sent, 1), TotalWidth)
           v == DecimalToZoned(total, TotalWidth)
<1>3. c \in Seq(Symbol) /\ q \in Seq(Symbol) /\ v \in Seq(Symbol)
  BY <1>1, <1>2, RoundTrip
<1>4. /\ ZonedToDecimal(c) = Len(sent) /\ ZonedToDecimal(q) = SumOf(sent, 1)
      /\ ZonedToDecimal(v) = total
  BY <1>1, <1>2, RoundTrip
<1> HIDE DEF c, q, v
<1>5. Trailer(total) = [as |-> "99", type |-> "99", whole |-> TRUE, date |-> Cycle,
                        count |-> c, quantity |-> q, value |-> v]
  BY DEF Trailer, Line, c, q, v
<1>6. Trailer(total) \in LineSet
  BY <1>1, <1>3, <1>5 DEF LineSet, Types
<1>7. /\ Count(Trailer(total)) = Len(sent)
      /\ Quantity(Trailer(total)) = SumOf(sent, 1) /\ Value(Trailer(total)) = total
  BY <1>4, <1>5 DEF Quantity, Value, Count
<1>8. QED
  BY <1>2, <1>5, <1>6, <1>7 DEF Decodable, Undecodable

LEMMA HeaderFacts ==
    /\ Header \in LineSet
    /\ Header.as = "01" /\ Header.type = "01" /\ Header.whole /\ Header.date = Cycle
    /\ EmptyLine \in LineSet
    /\ EmptyLine.as = "" /\ EmptyLine.type = ""
<1>1. Cycle \in Cycles /\ <<>> \in Seq(Symbol)
  BY CustodyFileAssumption
<1>2. QED
  BY <1>1 DEF Header, EmptyLine, Line, LineSet, Types

(* The file as it was written. *)

\* What the generator has written before the trailer, and all of it.
Begun ==
    [i \in 1..(Len(sent) + 1) |-> IF i = 1 THEN Header ELSE Detail(sent[i - 1])]

Written(total) ==
    [i \in 1..(Len(sent) + 2) |-> IF i = 1 THEN Header
                                 ELSE IF i = Len(sent) + 2 THEN Trailer(total)
                                 ELSE Detail(sent[i - 1])]

LEMMA WrittenFacts ==
    ASSUME sent \in Seq(Positions), NEW total \in Nat
    PROVE  LET n == Len(sent)
               W == Written(total) IN
           /\ n \in Nat
           /\ W \in Seq(LineSet) /\ Len(W) = n + 2 /\ DOMAIN W = 1..(n + 2)
           /\ W[1] = Header /\ W[n + 2] = Trailer(total)
           /\ \A i \in 2..(n + 1) :
                 /\ i - 1 \in DOMAIN sent /\ sent[i - 1] \in Positions
                 /\ W[i] = Detail(sent[i - 1])
                 /\ W[i] \in LineSet
                 /\ W[i].as = "03" /\ W[i].type = "03" /\ W[i].whole
                 /\ <<Quantity(W[i]), Value(W[i])>> = sent[i - 1]
                 /\ Decodable(W[i])
<1> DEFINE n == Len(sent)
           W == Written(total)
<1>1. n \in Nat /\ DOMAIN sent = 1..n /\ \A i \in 1..n : sent[i] \in Positions
  OBVIOUS
<1>2. W = [i \in 1..(n + 2) |-> IF i = 1 THEN Header ELSE IF i = n + 2 THEN Trailer(total)
                               ELSE Detail(sent[i - 1])]
  BY DEF Written
<1> HIDE DEF W, n
<1>3. DOMAIN W = 1..(n + 2) /\ W[1] = Header /\ W[n + 2] = Trailer(total)
  BY <1>1, <1>2
<1>4. ASSUME NEW i \in 2..(n + 1)
      PROVE  /\ i - 1 \in DOMAIN sent /\ sent[i - 1] \in Positions
             /\ W[i] = Detail(sent[i - 1])
             /\ W[i] \in LineSet
             /\ W[i].as = "03" /\ W[i].type = "03" /\ W[i].whole
             /\ <<Quantity(W[i]), Value(W[i])>> = sent[i - 1]
             /\ Decodable(W[i])
  <2>1. i - 1 \in DOMAIN sent /\ sent[i - 1] \in Positions
    BY <1>1
  <2>2. W[i] = Detail(sent[i - 1])
    BY <1>1, <1>2
  <2>3. QED
    BY <2>1, <2>2, DetailFacts
<1>5. W \in Seq(LineSet)
  <2>1. Header \in LineSet /\ Trailer(total) \in LineSet
    BY HeaderFacts, TrailerFacts
  <2>2. \A i \in 1..(n + 2) : i = 1 \/ i = n + 2 \/ i \in 2..(n + 1)
    BY <1>1
  <2>3. \A i \in 1..(n + 2) : W[i] \in LineSet
    BY <1>3, <1>4, <2>1, <2>2
  <2>4. W \in [1..(n + 2) -> LineSet]
    BY <1>2, <2>3
  <2>5. QED
    BY <1>1, <2>4
<1>6. Len(W) = n + 2
  BY <1>1, <1>3, <1>5
<1>7. QED
  BY <1>1, <1>3, <1>4, <1>5, <1>6 DEF n, W

\* The positions that are read are those sent, in their order.
AsSent ==
    \E at \in [DOMAIN sent -> DetailLines] :
       /\ DetailLines = {at[i] : i \in DOMAIN sent}
       /\ \A i, j \in DOMAIN sent : i < j => at[i] < at[j]
       /\ \A i \in DOMAIN sent : Received[at[i]] = sent[i]

\* The details are where they were, whatever has become of the other lines.
LEMMA InPlace ==
    ASSUME sent \in Seq(Positions), DetailLines = 2..(Len(sent) + 1),
           \A i \in 2..(Len(sent) + 1) : Received[i] = sent[i - 1]
    PROVE  AsSent
<1> DEFINE n == Len(sent)
           at == [i \in 1..n |-> i + 1]
<1>1. n \in Nat /\ DOMAIN sent = 1..n
  OBVIOUS
<1> HIDE DEF n
<1>2. \A i \in 1..n : i + 1 \in 2..(n + 1) /\ (i + 1) - 1 = i
  BY <1>1
<1>3. \A k \in 2..(n + 1) : k - 1 \in 1..n /\ at[k - 1] = k
  BY <1>1
<1>4. at \in [DOMAIN sent -> DetailLines]
  BY <1>1, <1>2 DEF n
<1>5. DetailLines = {at[i] : i \in DOMAIN sent}
  <2>1. {at[i] : i \in DOMAIN sent} \subseteq 2..(n + 1)
    BY <1>1, <1>2
  <2>2. 2..(n + 1) \subseteq {at[i] : i \in DOMAIN sent}
    <3> HIDE DEF at
    <3>1. QED
      BY <1>1, <1>3
  <2>3. QED
    BY <2>1, <2>2 DEF n
<1>6. \A i \in DOMAIN sent : Received[at[i]] = sent[i]
  BY <1>1, <1>2 DEF n
<1>7. \A i, j \in DOMAIN sent : i < j => at[i] < at[j]
  BY <1>1
<1> HIDE DEF at
<1>8. QED
  BY <1>4, <1>5, <1>6, <1>7 DEF AsSent

\* The kinds of line, when those of a written file are where they were.
LEMMA ReceivedFacts ==
    ASSUME NEW n \in Nat, file \in Seq(LineSet), Len(file) = n
    PROVE  /\ Len(Received) = n /\ DOMAIN Received = 1..n
           /\ \A k \in 1..n :
                 /\ k \in DetailLines => Received[k] = <<Quantity(file[k]), Value(file[k])>>
                 /\ k \notin DetailLines => Received[k] = <<0, 0>>
                 /\ Received[k][1] \in Int /\ Received[k][2] \in Int
<1>1. DOMAIN file = 1..n /\ \A k \in 1..n : file[k] \in LineSet
  OBVIOUS
<1>2. \A k \in 1..n : Quantity(file[k]) \in Int /\ Value(file[k]) \in Int
  BY <1>1, ReadType
<1>3. Received = [k \in 1..n |-> IF k \in DetailLines THEN <<Quantity(file[k]), Value(file[k])>>
                                ELSE <<0, 0>>]
  BY <1>1 DEF Received
<1>4. ASSUME NEW k \in 1..n
      PROVE  /\ k \in DetailLines => Received[k] = <<Quantity(file[k]), Value(file[k])>>
             /\ k \notin DetailLines => Received[k] = <<0, 0>>
  BY <1>3
<1>5. ASSUME NEW k \in 1..n PROVE Received[k][1] \in Int /\ Received[k][2] \in Int
  <2>1. CASE k \in DetailLines
    BY <1>2, <1>4, <2>1
  <2>2. CASE k \notin DetailLines
    BY <1>4, <2>2
  <2>3. QED
    BY <2>1, <2>2
<1>6. Received \in [1..n -> Int \X Int]
  BY <1>2, <1>3
<1>7. Len(Received) = n /\ DOMAIN Received = 1..n
  BY <1>6
<1>8. QED
  BY <1>4, <1>5, <1>7

\* Which lines are parsed.
LEMMA ParsedLine ==
    ASSUME NEW i \in DOMAIN file, NEW line, file[i] = line,
           line.as # "", line.whole, NEW type, line.type = type
    PROVE  i \in Lines(type)
<1>1. file[i].as # "" /\ file[i].type = type
  OBVIOUS
<1>2. file[i].whole
  OBVIOUS
<1> DEFINE P(k) == file[k].as # "" /\ file[k].type = type /\ file[k].whole
<1>3. P(i)
  BY <1>1, <1>2
<1>4. Lines(type) = {k \in DOMAIN file : P(k)}
  BY DEF Lines
<1> HIDE DEF P
<1>5. QED
  BY <1>3, <1>4

LEMMA LineIsParsed ==
    ASSUME NEW type, NEW i \in Lines(type)
    PROVE  i \in DOMAIN file /\ file[i].as # "" /\ file[i].type = type /\ file[i].whole
<1> DEFINE P(k) == file[k].as # "" /\ file[k].type = type /\ file[k].whole
<1>1. Lines(type) = {k \in DOMAIN file : P(k)}
  BY DEF Lines
<1>2. i \in DOMAIN file /\ P(i)
  <2> HIDE DEF P
  <2>1. QED
    BY <1>1
<1>3. QED
  BY <1>2

\* A file that arrives as it was written.
LEMMA WrittenIsRead ==
    ASSUME sent \in Seq(Positions), NEW total \in Nat, file = Written(total)
    PROVE  LET n == Len(sent) IN
           /\ Lines("01") = {1} /\ Lines("99") = {n + 2}
           /\ DetailLines = 2..(n + 1) /\ Rejects = {}
           /\ Received[1] = <<0, 0>> /\ Received[n + 2] = <<0, 0>>
           /\ \A i \in 2..(n + 1) : Received[i] = sent[i - 1]
           /\ DetailsDecodable
           /\ ControlTotals = <<SumOf(sent, 1), SumOf(sent, 2)>>
           /\ Cardinality(DetailLines) = n
           /\ LastOf("01") = Header /\ LastOf("99") = Trailer(total)
<1> DEFINE n == Len(sent)
<1>1. /\ n \in Nat
      /\ file \in Seq(LineSet) /\ Len(file) = n + 2 /\ DOMAIN file = 1..(n + 2)
      /\ file[1] = Header /\ file[n + 2] = Trailer(total)
      /\ \A i \in 2..(n + 1) :
            /\ file[i].as = "03" /\ file[i].type = "03" /\ file[i].whole
            /\ <<Quantity(file[i]), Value(file[i])>> = sent[i - 1]
            /\ sent[i - 1] \in Positions
            /\ Decodable(file[i])
  BY WrittenFacts
<1>2. /\ file[1].as = "01" /\ file[1].type = "01" /\ file[1].whole
      /\ file[n + 2].as = "99" /\ file[n + 2].type = "99" /\ file[n + 2].whole
  <2>1. Header.as = "01" /\ Header.type = "01" /\ Header.whole
    BY HeaderFacts
  <2>2. Trailer(total).as = "99" /\ Trailer(total).type = "99" /\ Trailer(total).whole
    BY TrailerFacts
  <2>3. QED
    BY <1>1, <2>1, <2>2
<1> HIDE DEF n
<1>3. \A i \in 1..(n + 2) : i = 1 \/ i = n + 2 \/ i \in 2..(n + 1)
  BY <1>1
<1>4. 1 \in DOMAIN file /\ n + 2 \in DOMAIN file /\ \A i \in 2..(n + 1) : i \in DOMAIN file
  BY <1>1
<1>5. Lines("01") = {1}
  <2>1. 1 \in Lines("01")
    BY <1>2, <1>4, ParsedLine
  <2>2. \A k \in Lines("01") : k \in DOMAIN file /\ file[k].type = "01"
    BY LineIsParsed
  <2>3. \A k \in Lines("01") : k = 1
    BY <1>1, <1>2, <1>3, <2>2
  <2>4. QED
    BY <2>1, <2>3
<1>6. Lines("99") = {n + 2}
  <2>1. n + 2 \in Lines("99")
    BY <1>2, <1>4, ParsedLine
  <2>2. \A k \in Lines("99") : k \in DOMAIN file /\ file[k].type = "99"
    BY LineIsParsed
  <2>3. \A k \in Lines("99") : k = n + 2
    BY <1>1, <1>2, <1>3, <2>2
  <2>4. QED
    BY <2>1, <2>3
<1>7. DetailLines = 2..(n + 1)
  BY <1>1, <1>2, <1>3, <1>4 DEF Lines, DetailLines
<1>8. Rejects = {}
  BY <1>1, <1>2, <1>3, <1>4 DEF Rejects
<1>9. 1 \notin DetailLines /\ n + 2 \notin DetailLines
  BY <1>1, <1>7
<1>10. /\ Len(Received) = n + 2
       /\ Received[1] = <<0, 0>> /\ Received[n + 2] = <<0, 0>>
       /\ \A i \in 2..(n + 1) : Received[i] = sent[i - 1]
  <2>1. n + 2 \in Nat
    BY <1>1
  <2>2. QED
    BY <1>1, <1>4, <1>7, <1>9, <2>1, ReceivedFacts
<1>11. DetailsDecodable
  BY <1>1, <1>7 DEF DetailsDecodable
<1>12. ASSUME NEW i \in {1, 2} PROVE SumOf(Received, i) = SumOf(sent, i)
  <2>1. \A k \in 1..n : sent[k][i] \in Int
    BY DEF n, Positions
  <2>2. Received[1][i] = 0 /\ Received[n + 2][i] = 0
    BY <1>10
  <2>3. ASSUME NEW k \in 1..n PROVE Received[k + 1][i] = sent[k][i]
    <3>1. k + 1 \in 2..(n + 1) /\ (k + 1) - 1 = k
      BY <1>1
    <3>2. QED
      BY <1>10, <3>1
  <2>4. /\ Len(sent) \in Nat /\ Len(Received) \in Nat /\ Len(Received) = Len(sent) + 2
        /\ \A k \in 1..Len(sent) : sent[k][i] \in Int
        /\ Received[1][i] = 0 /\ Received[Len(Received)][i] = 0
        /\ \A k \in 1..Len(sent) : Received[k + 1][i] = sent[k][i]
    BY <1>1, <1>10, <2>1, <2>2, <2>3 DEF n
  <2>5. QED
    BY <2>4, SumOfFramed, SMTT(30)
<1>13. ControlTotals = <<SumOf(sent, 1), SumOf(sent, 2)>>
  BY <1>12 DEF ControlTotals
<1>14. Cardinality(DetailLines) = n
  BY <1>1, <1>7, FS_Interval
<1>15. LastOf("01") = Header /\ LastOf("99") = Trailer(total)
  <2>1. ASSUME NEW m \in Int PROVE Max({m}) = m
    <3>1. {m} \in SUBSET Int /\ m \in {m} /\ \A y \in {m} : y <= m
      OBVIOUS
    <3>2. QED
      BY <3>1, MaxFacts
  <2>2. QED
    BY <1>1, <1>5, <1>6, <2>1 DEF LastOf
<1>16. QED
  BY <1>5, <1>6, <1>7, <1>8, <1>10, <1>11, <1>13, <1>14, <1>15 DEF n

(* The file after a fault. *)

LEMMA ConcatFacts ==
    ASSUME NEW S, NEW a \in Seq(S), NEW b \in Seq(S)
    PROVE  /\ a \o b \in Seq(S) /\ Len(a \o b) = Len(a) + Len(b)
           /\ \A k \in 1..Len(a) : (a \o b)[k] = a[k]
           /\ \A k \in 1..Len(b) : (a \o b)[Len(a) + k] = b[k]
<1>1. Len(a) \in Nat /\ Len(b) \in Nat
  OBVIOUS
<1>2. a \o b \in Seq(S) /\ Len(a \o b) = Len(a) + Len(b)
  OBVIOUS
<1>3. \A k \in 1..Len(a) : (a \o b)[k] = a[k]
  OBVIOUS
<1>4. \A k \in 1..Len(b) : (a \o b)[Len(a) + k] = b[k]
  BY <1>1
<1>5. QED
  BY <1>2, <1>3, <1>4

\* The first m entries of a sequence, and those after them.
LEMMA CutFacts ==
    ASSUME NEW S, NEW s \in Seq(S), NEW m \in 0..Len(s)
    PROVE  /\ SubSeq(s, 1, m) \in Seq(S) /\ Len(SubSeq(s, 1, m)) = m
           /\ \A k \in 1..m : SubSeq(s, 1, m)[k] = s[k]
           /\ SubSeq(s, m + 1, Len(s)) \in Seq(S)
           /\ Len(SubSeq(s, m + 1, Len(s))) = Len(s) - m
           /\ \A k \in 1..(Len(s) - m) : SubSeq(s, m + 1, Len(s))[k] = s[m + k]
<1>1. Len(s) \in Nat
  OBVIOUS
<1>2. /\ SubSeq(s, 1, m) \in Seq(S) /\ Len(SubSeq(s, 1, m)) = m
      /\ \A k \in 1..m : SubSeq(s, 1, m)[k] = s[k]
  BY <1>1
<1>3. SubSeq(s, m + 1, Len(s)) \in Seq(S) /\ Len(SubSeq(s, m + 1, Len(s))) = Len(s) - m
  BY <1>1
<1>4. \A k \in 1..(Len(s) - m) : SubSeq(s, m + 1, Len(s))[k] = s[m + k]
  BY <1>1
<1>5. QED
  BY <1>2, <1>3, <1>4

LEMMA InsertFacts ==
    ASSUME NEW S, NEW s \in Seq(S), NEW j \in 1..Len(s), NEW e \in S
    PROVE  LET t == InsertAt(s, j, e) IN
           /\ t \in Seq(S) /\ Len(t) = Len(s) + 1
           /\ \A k \in 1..(Len(s) + 1) :
                 t[k] = IF k < j THEN s[k] ELSE IF k = j THEN e ELSE s[k - 1]
<1> DEFINE m == j - 1
           a == SubSeq(s, 1, m)
           b == SubSeq(s, m + 1, Len(s))
           c == a \o <<e>>
           t == c \o b
<1>1. m \in 0..Len(s) /\ m + 1 = j /\ Len(s) \in Nat
  OBVIOUS
<1>2. /\ a \in Seq(S) /\ Len(a) = m /\ \A k \in 1..m : a[k] = s[k]
      /\ b \in Seq(S) /\ Len(b) = Len(s) - m
      /\ \A k \in 1..(Len(s) - m) : b[k] = s[m + k]
  <2> HIDE DEF m
  <2>1. QED
    BY <1>1, CutFacts
<1>3. <<e>> \in Seq(S) /\ Len(<<e>>) = 1 /\ <<e>>[1] = e
  OBVIOUS
<1>4. InsertAt(s, j, e) = t
  BY <1>1 DEF InsertAt
<1> HIDE DEF a, b, m
<1>5. c \in Seq(S) /\ Len(c) = j /\ c[j] = e /\ \A k \in 1..m : c[k] = s[k]
  <2>1. /\ c \in Seq(S) /\ Len(c) = m + 1
        /\ \A k \in 1..m : c[k] = a[k]
        /\ \A k \in 1..1 : c[m + k] = <<e>>[k]
    BY <1>2, <1>3, ConcatFacts
  <2> HIDE DEF c
  <2>2. QED
    BY <1>1, <1>2, <1>3, <2>1
<1> HIDE DEF c
<1>6. /\ t \in Seq(S) /\ Len(t) = j + (Len(s) - m)
      /\ \A k \in 1..j : t[k] = c[k]
      /\ \A k \in 1..(Len(s) - m) : t[j + k] = b[k]
  <2>1. c \in Seq(S) /\ b \in Seq(S)
    BY <1>2, <1>5
  <2>2. /\ t \in Seq(S) /\ Len(t) = Len(c) + Len(b)
        /\ \A k \in 1..Len(c) : t[k] = c[k]
        /\ \A k \in 1..Len(b) : t[Len(c) + k] = b[k]
    BY <2>1, ConcatFacts
  <2> HIDE DEF t
  <2>3. Len(c) = j /\ Len(b) = Len(s) - m
    BY <1>2, <1>5
  <2>4. QED
    BY <2>2, <2>3
<1> HIDE DEF t
<1>7. Len(t) = Len(s) + 1
  <2>1. Len(t) = j + (Len(s) - m)
    BY <1>6
  <2>2. QED
    BY <1>1, <2>1
<1>8. ASSUME NEW k \in 1..(Len(s) + 1)
      PROVE  t[k] = IF k < j THEN s[k] ELSE IF k = j THEN e ELSE s[k - 1]
  <2>1. CASE k < j
    <3>1. k \in 1..j /\ k \in 1..m
      BY <1>1, <2>1
    <3>2. t[k] = c[k]
      BY <1>6, <3>1
    <3>3. c[k] = s[k]
      BY <1>5, <3>1
    <3>4. QED
      BY <2>1, <3>2, <3>3
  <2>2. CASE k = j
    <3>1. k \in 1..j
      BY <1>1, <2>2
    <3>2. t[k] = c[k]
      BY <1>6, <3>1
    <3>3. QED
      BY <1>5, <2>2, <3>2
  <2>3. CASE k > j
    <3>1. PICK i \in 1..(Len(s) - m) : k = j + i
      <4>1. k - j \in 1..(Len(s) - m) /\ k = j + (k - j)
        BY <1>1, <2>3
      <4>2. QED
        BY <4>1
    <3>2. t[k] = s[m + i] /\ m + i = k - 1
      BY <1>1, <1>2, <1>6, <3>1
    <3>3. QED
      BY <2>3, <3>2
  <2>4. QED
    BY <1>1, <2>1, <2>2, <2>3
<1>9. QED
  BY <1>4, <1>6, <1>7, <1>8

LEMMA RemoveFacts ==
    ASSUME NEW S, NEW s \in Seq(S), NEW j \in 1..Len(s)
    PROVE  LET t == RemoveAt(s, j) IN
           /\ t \in Seq(S) /\ Len(t) = Len(s) - 1
           /\ \A k \in 1..(Len(s) - 1) : t[k] = IF k < j THEN s[k] ELSE s[k + 1]
<1> DEFINE m == j - 1
           a == SubSeq(s, 1, m)
           b == SubSeq(s, j + 1, Len(s))
           t == a \o b
<1>1. m \in 0..Len(s) /\ m + 1 = j /\ Len(s) \in Nat
  OBVIOUS
<1>2. a \in Seq(S) /\ Len(a) = m /\ \A k \in 1..m : a[k] = s[k]
  <2> HIDE DEF m
  <2>1. QED
    BY <1>1, CutFacts
<1>3. b \in Seq(S) /\ Len(b) = Len(s) - j /\ \A k \in 1..(Len(s) - j) : b[k] = s[j + k]
  <2>1. j \in 0..Len(s)
    OBVIOUS
  <2>2. QED
    BY <2>1, CutFacts
<1>4. RemoveAt(s, j) = t
  BY <1>1 DEF RemoveAt
<1> HIDE DEF a, b, m
<1>5. /\ t \in Seq(S) /\ Len(t) = m + (Len(s) - j)
      /\ \A k \in 1..m : t[k] = a[k]
      /\ \A k \in 1..(Len(s) - j) : t[m + k] = b[k]
  <2>1. a \in Seq(S) /\ b \in Seq(S)
    BY <1>2, <1>3
  <2>2. /\ t \in Seq(S) /\ Len(t) = Len(a) + Len(b)
        /\ \A k \in 1..Len(a) : t[k] = a[k]
        /\ \A k \in 1..Len(b) : t[Len(a) + k] = b[k]
    BY <2>1, ConcatFacts
  <2> HIDE DEF t
  <2>3. Len(a) = m /\ Len(b) = Len(s) - j
    BY <1>2, <1>3
  <2>4. QED
    BY <2>2, <2>3
<1> HIDE DEF t
<1>6. Len(t) = Len(s) - 1
  <2>1. Len(t) = m + (Len(s) - j)
    BY <1>5
  <2>2. QED
    BY <1>1, <2>1
<1>7. ASSUME NEW k \in 1..(Len(s) - 1) PROVE t[k] = IF k < j THEN s[k] ELSE s[k + 1]
  <2>1. CASE k < j
    BY <1>1, <1>2, <1>5, <2>1
  <2>2. CASE k >= j
    <3>1. PICK i \in 1..(Len(s) - j) : k = m + i
      <4>1. k - m \in 1..(Len(s) - j) /\ k = m + (k - m)
        BY <1>1, <2>2
      <4>2. QED
        BY <4>1
    <3>2. t[k] = b[i] /\ b[i] = s[j + i]
      BY <1>3, <1>5, <3>1
    <3>3. j + i = k + 1
      BY <1>1, <3>1
    <3>4. QED
      BY <1>1, <2>2, <3>2, <3>3
  <2>3. QED
    BY <2>1, <2>2
<1>8. QED
  BY <1>4, <1>5, <1>6, <1>7

\* The kinds of line of a written file.
LEMMA Kinds ==
    ASSUME sent \in Seq(Positions), NEW total \in Nat
    PROVE  LET n == Len(sent)
               W == Written(total) IN
           \A k \in 1..(n + 2) :
              /\ W[k].as # "" /\ W[k].whole
              /\ W[k].type = "01" <=> k = 1
              /\ W[k].type = "99" <=> k = n + 2
              /\ W[k].type = "03" <=> k \in 2..(n + 1)
<1> DEFINE n == Len(sent)
           W == Written(total)
<1>1. /\ n \in Nat /\ W[1] = Header /\ W[n + 2] = Trailer(total)
      /\ \A k \in 2..(n + 1) : W[k].as = "03" /\ W[k].type = "03" /\ W[k].whole
  BY WrittenFacts
<1>2. Header.as = "01" /\ Header.type = "01" /\ Header.whole
  BY HeaderFacts
<1>3. Trailer(total).as = "99" /\ Trailer(total).type = "99" /\ Trailer(total).whole
  BY TrailerFacts
<1> HIDE DEF n, W
<1>4. \A k \in 1..(n + 2) : k = 1 \/ k = n + 2 \/ k \in 2..(n + 1)
  BY <1>1
<1>5. \A k \in 1..(n + 2) : W[k].as # ""
  BY <1>1, <1>2, <1>3, <1>4
<1>6. \A k \in 1..(n + 2) : W[k].whole
  BY <1>1, <1>2, <1>3, <1>4
<1>7. \A k \in 1..(n + 2) : W[k].type = "01" <=> k = 1
  BY <1>1, <1>2, <1>3, <1>4
<1>8. \A k \in 1..(n + 2) : W[k].type = "99" <=> k = n + 2
  BY <1>1, <1>2, <1>3, <1>4
<1>9. \A k \in 1..(n + 2) : W[k].type = "03" <=> k \in 2..(n + 1)
  BY <1>1, <1>2, <1>3, <1>4
<1>10. QED
  BY <1>5, <1>6, <1>7, <1>8, <1>9 DEF n, W

\* The last line of a type is the one with the largest number.
LEMMA LastLine ==
    ASSUME file \in Seq(LineSet), NEW type, NEW m \in Lines(type),
           \A k \in Lines(type) : k <= m
    PROVE  LastOf(type) = file[m]
<1>1. Lines(type) \in SUBSET Int
  <2>1. DOMAIN file \in SUBSET Int
    OBVIOUS
  <2>2. \A k \in Lines(type) : k \in DOMAIN file
    BY LineIsParsed
  <2>3. QED
    BY <2>1, <2>2
<1>2. Max(Lines(type)) = m
  <2> DEFINE L == Lines(type)
  <2>1. L \in SUBSET Int /\ m \in L /\ \A k \in L : k <= m
    BY <1>1
  <2> HIDE DEF L
  <2>2. Max(L) = m
    BY <2>1, MaxFacts
  <2>3. QED
    BY <2>2 DEF L
<1>3. QED
  BY <1>2 DEF LastOf

\* A trailer as it was written gives away any other number of details.
LEMMA CountIsWrong ==
    ASSUME sent \in Seq(Positions), NEW total \in Nat, LastOf("99") = Trailer(total),
           NEW c \in Nat, Cardinality(DetailLines) = c, c # Len(sent)
    PROVE  ControlError
<1>1. Count(Trailer(total)) = Len(sent)
  BY TrailerFacts
<1>2. ASSUME Reconciles(LastOf("01"), LastOf("99")) PROVE FALSE
  <2>1. Count(Trailer(total)) = c + Cardinality(Rejects) /\ Rejects = {}
    BY <1>2 DEF Reconciles
  <2>2. Cardinality(Rejects) = 0
    BY <2>1, FS_EmptySet
  <2>3. QED
    BY <1>1, <2>1, <2>2
<1>3. QED
  BY <1>2 DEF ControlError

\* A file with one line more.
LEMMA InsertedLine ==
    ASSUME sent \in Seq(Positions), NEW total \in Nat, NEW j \in 1..(Len(sent) + 2),
           NEW e \in LineSet, file = InsertAt(Written(total), j, e)
    PROVE  /\ file \in Seq(LineSet) /\ Len(file) = Len(sent) + 3
           /\ \A k \in 1..(Len(sent) + 3) :
                 file[k] = IF k < j THEN Written(total)[k]
                           ELSE IF k = j THEN e ELSE Written(total)[k - 1]
<1> DEFINE W == Written(total)
           t == InsertAt(W, j, e)
<1>1. W \in Seq(LineSet) /\ Len(W) = Len(sent) + 2 /\ Len(sent) \in Nat
  BY WrittenFacts
<1>2. file = t /\ j \in 1..Len(W)
  BY <1>1
<1> HIDE DEF W
<1>3. /\ t \in Seq(LineSet) /\ Len(t) = Len(W) + 1
      /\ \A k \in 1..(Len(W) + 1) :
            t[k] = IF k < j THEN W[k] ELSE IF k = j THEN e ELSE W[k - 1]
  <2>1. W \in Seq(LineSet) /\ e \in LineSet /\ j \in 1..Len(W)
    BY <1>1, <1>2
  <2>2. QED
    BY <2>1, InsertFacts
<1> HIDE DEF t
<1>4. Len(W) + 1 = Len(sent) + 3
  BY <1>1
<1>5. QED
  BY <1>2, <1>3, <1>4 DEF W

\* A line that is no detail may come in anywhere.
LEMMA Inserted ==
    ASSUME sent \in Seq(Positions), NEW total \in Nat, NEW j \in 1..(Len(sent) + 2),
           NEW e \in LineSet, e.type # "03", file = InsertAt(Written(total), j, e)
    PROVE  AsSent
<1> DEFINE n == Len(sent)
           W == Written(total)
           at == [i \in 1..n |-> IF i + 1 < j THEN i + 1 ELSE i + 2]
<1>1. /\ n \in Nat /\ W \in Seq(LineSet) /\ Len(W) = n + 2
      /\ DOMAIN sent = 1..n
      /\ \A i \in 2..(n + 1) : <<Quantity(W[i]), Value(W[i])>> = sent[i - 1]
  BY WrittenFacts
<1>2. \A k \in 1..(n + 2) : W[k].as # "" /\ W[k].whole
  BY Kinds
<1>3. \A k \in 1..(n + 2) : W[k].type = "03" <=> k \in 2..(n + 1)
  BY Kinds
<1>4. /\ file \in Seq(LineSet) /\ Len(file) = n + 3
      /\ \A k \in 1..(n + 3) :
            file[k] = IF k < j THEN W[k] ELSE IF k = j THEN e ELSE W[k - 1]
  BY InsertedLine
<1>5. j \in 1..(n + 2)
  OBVIOUS
<1> HIDE DEF W, n
<1>6. ASSUME NEW i \in 1..n
      PROVE  /\ at[i] \in 1..(n + 3) /\ at[i] # j /\ i + 1 \in 2..(n + 1)
             /\ file[at[i]] = W[i + 1]
  <2>1. CASE i + 1 < j
    BY <1>1, <1>4, <1>5, <2>1
  <2>2. CASE ~(i + 1 < j)
    <3>1. at[i] = i + 2 /\ ~(i + 2 < j) /\ i + 2 # j /\ i + 2 \in 1..(n + 3)
          /\ (i + 2) - 1 = i + 1
      BY <1>1, <1>5, <2>2
    <3>2. file[i + 2] = W[i + 1]
      BY <1>4, <3>1
    <3>3. QED
      BY <1>1, <3>1, <3>2
  <2>3. QED
    BY <2>1, <2>2
<1>7. ASSUME NEW i \in 1..n PROVE at[i] \in DetailLines
  <2>1. at[i] \in 1..(n + 3) /\ file[at[i]] = W[i + 1] /\ i + 1 \in 1..(n + 2)
        /\ i + 1 \in 2..(n + 1)
    BY <1>1, <1>6
  <2>2. W[i + 1].as # "" /\ W[i + 1].whole /\ W[i + 1].type = "03"
    BY <1>2, <1>3, <2>1
  <2>3. at[i] \in DOMAIN file
    BY <1>1, <1>4, <2>1
  <2> HIDE DEF at
  <2>4. QED
    BY <2>1, <2>2, <2>3 DEF DetailLines, Lines
<1>8. ASSUME NEW k \in DetailLines PROVE \E i \in 1..n : k = at[i]
  <2>1. k \in 1..(n + 3) /\ file[k].type = "03"
    <3>1. k \in DOMAIN file /\ file[k].type = "03"
      BY LineIsParsed DEF DetailLines
    <3>2. QED
      BY <1>1, <1>4, <3>1
  <2>2. k # j
    BY <1>4, <2>1
  <2>3. CASE k < j
    <3>1. file[k] = W[k] /\ k \in 1..(n + 2)
      BY <1>1, <1>4, <1>5, <2>1, <2>3
    <3>2. k \in 2..(n + 1)
      BY <1>3, <2>1, <3>1
    <3>3. k - 1 \in 1..n /\ (k - 1) + 1 = k
      <4>1. n \in Nat
        BY <1>1
      <4>2. QED
        BY <3>2, <4>1
    <3>4. QED
      BY <2>3, <3>3
  <2>4. CASE k > j
    <3>1. file[k] = W[k - 1] /\ k - 1 \in 1..(n + 2)
      BY <1>1, <1>4, <1>5, <2>1, <2>4
    <3>2. k - 1 \in 2..(n + 1)
      BY <1>3, <2>1, <3>1
    <3>3. k - 2 \in 1..n /\ (k - 2) + 2 = k /\ ~((k - 2) + 1 < j)
      <4>1. n \in Nat /\ j \in Nat /\ k \in Nat
        BY <1>1, <1>5, <2>1
      <4>2. QED
        BY <2>4, <3>2, <4>1
    <3>4. QED
      BY <3>3
  <2>5. QED
    BY <1>5, <2>1, <2>2, <2>3, <2>4
<1>9. \A i \in 1..n : Received[at[i]] = sent[i]
  <2> SUFFICES ASSUME NEW i \in 1..n PROVE Received[at[i]] = sent[i]
    OBVIOUS
  <2>1. /\ at[i] \in 1..(n + 3) /\ at[i] \in DetailLines /\ file[at[i]] = W[i + 1]
        /\ i + 1 \in 2..(n + 1) /\ (i + 1) - 1 = i
    BY <1>6, <1>7
  <2> HIDE DEF at
  <2>2. <<Quantity(W[i + 1]), Value(W[i + 1])>> = sent[i]
    BY <1>1, <2>1
  <2>3. n + 3 \in Nat
    BY <1>1
  <2>4. Received[at[i]] = <<Quantity(file[at[i]]), Value(file[at[i]])>>
    BY <1>4, <2>1, <2>3, ReceivedFacts
  <2>5. QED
    BY <2>1, <2>2, <2>4
<1>10. \A i, k \in 1..n : i < k => at[i] < at[k]
  BY <1>1, <1>5
<1>11. at \in [1..n -> DetailLines]
  BY <1>7
<1> HIDE DEF at
<1>12. DetailLines = {at[i] : i \in 1..n}
  BY <1>7, <1>8
<1>13. QED
  BY <1>1, <1>9, <1>10, <1>11, <1>12 DEF AsSent

\* A detail that comes twice is one too many.
LEMMA Doubled ==
    ASSUME sent \in Seq(Positions), NEW total \in Nat, NEW j \in 2..(Len(sent) + 1),
           file = InsertAt(Written(total), j, Written(total)[j])
    PROVE  ControlError
<1> DEFINE n == Len(sent)
           W == Written(total)
<1>1. /\ n \in Nat /\ W \in Seq(LineSet) /\ Len(W) = n + 2 /\ W[n + 2] = Trailer(total)
  BY WrittenFacts
<1>2. \A k \in 1..(n + 2) : W[k].as # "" /\ W[k].whole
  BY Kinds
<1>3. \A k \in 1..(n + 2) : W[k].type = "03" <=> k \in 2..(n + 1)
  BY Kinds
<1>4. \A k \in 1..(n + 2) : W[k].type = "99" <=> k = n + 2
  BY Kinds
<1>5. j \in 2..(n + 1) /\ j \in 1..Len(W) /\ W[j] \in LineSet
  BY <1>1
<1>6. /\ file \in Seq(LineSet) /\ Len(file) = n + 3
      /\ \A k \in 1..(n + 3) : file[k] = IF k <= j THEN W[k] ELSE W[k - 1]
  <2>1. PICK e \in LineSet : e = W[j] /\ file = InsertAt(W, j, e)
    BY <1>5
  <2>2. /\ file \in Seq(LineSet) /\ Len(file) = n + 3
        /\ \A k \in 1..(n + 3) :
              file[k] = IF k < j THEN W[k] ELSE IF k = j THEN e ELSE W[k - 1]
    BY <1>1, <1>5, <2>1, InsertedLine
  <2> HIDE DEF W, n
  <2>3. \A k \in 1..(n + 3) : k <= j <=> (k < j \/ k = j)
    BY <1>1, <1>5
  <2>4. QED
    BY <2>1, <2>2, <2>3
<1> HIDE DEF W, n
<1> DEFINE of(k) == IF k <= j THEN k ELSE k - 1
<1>7. \A k \in 1..(n + 3) : of(k) \in 1..(n + 2) /\ file[k] = W[of(k)]
  BY <1>1, <1>5, <1>6
<1>8. DOMAIN file = 1..(n + 3)
  BY <1>1, <1>6
<1>9. \A k \in 1..(n + 3) : of(k) \in 2..(n + 1) <=> k \in 2..(n + 2)
  BY <1>1, <1>5
<1>10. \A k \in 1..(n + 3) : of(k) = n + 2 <=> k = n + 3
  BY <1>1, <1>5
<1> HIDE DEF of
<1>11. DetailLines = 2..(n + 2)
  <2>1. \A k \in DetailLines : k \in 2..(n + 2)
    BY <1>3, <1>7, <1>8, <1>9 DEF DetailLines, Lines
  <2>2. \A k \in 2..(n + 2) : k \in 1..(n + 3)
    BY <1>1
  <2>3. \A k \in 2..(n + 2) : k \in DetailLines
    <3> SUFFICES ASSUME NEW k \in 2..(n + 2) PROVE k \in Lines("03")
      BY DEF DetailLines
    <3>1. k \in DOMAIN file /\ file[k] = W[of(k)] /\ of(k) \in 1..(n + 2)
          /\ of(k) \in 2..(n + 1)
      BY <1>7, <1>8, <1>9, <2>2
    <3>2. W[of(k)].as # "" /\ W[of(k)].whole /\ W[of(k)].type = "03"
      BY <1>2, <1>3, <3>1
    <3>3. QED
      BY <3>1, <3>2, ParsedLine
  <2>4. QED
    BY <2>1, <2>3
<1>12. n + 3 \in Lines("99") /\ \A k \in Lines("99") : k <= n + 3
  <2>1. n + 3 \in 1..(n + 3)
    BY <1>1
  <2>2. n + 3 \in Lines("99")
    <3>1. n + 3 \in DOMAIN file /\ file[n + 3] = W[n + 2] /\ n + 2 \in 1..(n + 2)
      BY <1>1, <1>7, <1>8, <1>10, <2>1
    <3>2. W[n + 2].as # "" /\ W[n + 2].whole /\ W[n + 2].type = "99"
      BY <1>2, <1>4, <3>1
    <3>3. QED
      BY <3>1, <3>2, ParsedLine
  <2>3. \A k \in Lines("99") : k \in 1..(n + 3)
    BY <1>8 DEF Lines
  <2>4. QED
    BY <1>1, <2>2, <2>3
<1>13. LastOf("99") = Trailer(total)
  <2>1. LastOf("99") = file[n + 3]
    BY <1>6, <1>12, LastLine
  <2>2. n + 3 \in 1..(n + 3)
    BY <1>1
  <2>3. QED
    BY <1>1, <1>7, <1>10, <2>1, <2>2
<1>14. Cardinality(DetailLines) = n + 1
  BY <1>1, <1>11, FS_Interval
<1>15. n + 1 \in Nat /\ n + 1 # Len(sent)
  BY <1>1 DEF n
<1>16. QED
  BY <1>13, <1>14, <1>15, CountIsWrong

\* A file that lost a line does not reconcile.
LEMMA Removed ==
    ASSUME sent \in Seq(Positions), NEW total \in Nat, NEW j \in 1..(Len(sent) + 2),
           file = RemoveAt(Written(total), j)
    PROVE  ControlError
<1> DEFINE n == Len(sent)
           W == Written(total)
<1>1. /\ n \in Nat /\ W \in Seq(LineSet) /\ Len(W) = n + 2 /\ W[n + 2] = Trailer(total)
  BY WrittenFacts
<1>2. \A k \in 1..(n + 2) : W[k].as # "" /\ W[k].whole
  BY Kinds
<1>3. \A k \in 1..(n + 2) : W[k].type = "03" <=> k \in 2..(n + 1)
  BY Kinds
<1>4. \A k \in 1..(n + 2) : W[k].type = "99" <=> k = n + 2
  BY Kinds
<1>5. \A k \in 1..(n + 2) : W[k].type = "01" <=> k = 1
  BY Kinds
<1>6. j \in 1..(n + 2)
  OBVIOUS
<1>7. /\ file \in Seq(LineSet) /\ Len(file) = n + 1
      /\ \A k \in 1..(n + 1) : file[k] = IF k < j THEN W[k] ELSE W[k + 1]
  <2>1. file = RemoveAt(W, j) /\ j \in 1..Len(W)
    BY <1>1, <1>6
  <2> HIDE DEF W, n
  <2>2. /\ file \in Seq(LineSet) /\ Len(file) = Len(W) - 1
        /\ \A k \in 1..(Len(W) - 1) : file[k] = IF k < j THEN W[k] ELSE W[k + 1]
    BY <1>1, <2>1, RemoveFacts
  <2>3. Len(W) - 1 = n + 1
    BY <1>1
  <2>4. QED
    BY <2>2, <2>3
<1> HIDE DEF W, n
<1> DEFINE of(k) == IF k < j THEN k ELSE k + 1
<1>8. \A k \in 1..(n + 1) : of(k) \in 1..(n + 2) /\ of(k) # j /\ file[k] = W[of(k)]
  BY <1>1, <1>6, <1>7
<1>9. DOMAIN file = 1..(n + 1)
  BY <1>1, <1>7
<1>10. CASE j = 1
  <2> HIDE DEF of
  <2>1. Lines("01") = {}
    <3> SUFFICES ASSUME NEW k \in Lines("01") PROVE FALSE
      OBVIOUS
    <3>1. k \in 1..(n + 1) /\ file[k].type = "01"
      BY <1>9, LineIsParsed
    <3>2. QED
      BY <1>5, <1>8, <1>10, <3>1
  <2>2. QED
    BY <2>1 DEF ControlError
<1>11. CASE j = n + 2
  <2> HIDE DEF of
  <2>1. Lines("99") = {}
    <3> SUFFICES ASSUME NEW k \in Lines("99") PROVE FALSE
      OBVIOUS
    <3>1. k \in 1..(n + 1) /\ file[k].type = "99"
      BY <1>9, LineIsParsed
    <3>2. QED
      BY <1>4, <1>8, <1>11, <3>1
  <2>2. QED
    BY <2>1 DEF ControlError
<1>12. CASE j \in 2..(n + 1)
  <2>1. \A k \in 1..(n + 1) : of(k) \in 2..(n + 1) <=> k \in 2..n
    BY <1>1, <1>12
  <2>2. \A k \in 1..(n + 1) : of(k) = n + 2 <=> k = n + 1
    BY <1>1, <1>12
  <2> HIDE DEF of
  <2>3. DetailLines = 2..n
    <3>1. \A k \in DetailLines : k \in 2..n
      BY <1>3, <1>8, <1>9, <2>1 DEF DetailLines, Lines
    <3>2. \A k \in 2..n : k \in 1..(n + 1)
      BY <1>1
    <3>3. \A k \in 2..n : k \in DetailLines
      <4> SUFFICES ASSUME NEW k \in 2..n PROVE k \in Lines("03")
        BY DEF DetailLines
      <4>1. k \in DOMAIN file /\ file[k] = W[of(k)] /\ of(k) \in 1..(n + 2)
            /\ of(k) \in 2..(n + 1)
        BY <1>8, <1>9, <2>1, <3>2
      <4>2. W[of(k)].as # "" /\ W[of(k)].whole /\ W[of(k)].type = "03"
        BY <1>2, <1>3, <4>1
      <4>3. QED
        BY <4>1, <4>2, ParsedLine
    <3>4. QED
      BY <3>1, <3>3
  <2>4. n + 1 \in Lines("99") /\ \A k \in Lines("99") : k <= n + 1
    <3>1. n + 1 \in 1..(n + 1)
      BY <1>1
    <3>2. n + 1 \in Lines("99")
      <4>1. n + 1 \in DOMAIN file /\ file[n + 1] = W[n + 2] /\ n + 2 \in 1..(n + 2)
        BY <1>1, <1>8, <1>9, <2>2, <3>1
      <4>2. W[n + 2].as # "" /\ W[n + 2].whole /\ W[n + 2].type = "99"
        BY <1>2, <1>4, <4>1
      <4>3. QED
        BY <4>1, <4>2, ParsedLine
    <3>3. \A k \in Lines("99") : k \in 1..(n + 1)
      BY <1>9 DEF Lines
    <3>4. QED
      BY <1>1, <3>2, <3>3
  <2>5. LastOf("99") = Trailer(total)
    <3>1. LastOf("99") = file[n + 1]
      BY <1>7, <2>4, LastLine
    <3>2. n + 1 \in 1..(n + 1)
      BY <1>1
    <3>3. QED
      BY <1>1, <1>8, <2>2, <3>1, <3>2
  <2>6. Cardinality(DetailLines) = n - 1 /\ n - 1 \in Nat
    <3>1. 2 \in Int /\ n \in Int /\ n \in Nat \ {0}
      BY <1>1, <1>12
    <3>2. Cardinality(2..n) = IF 2 > n THEN 0 ELSE n - 2 + 1
      BY <3>1, FS_Interval
    <3>3. QED
      BY <2>3, <3>1, <3>2
  <2>7. n - 1 # Len(sent)
    BY <1>1 DEF n
  <2>8. QED
    BY <2>5, <2>6, <2>7, CountIsWrong
<1>13. QED
  BY <1>1, <1>6, <1>10, <1>11, <1>12

\* A file that ends early has no trailer.
LEMMA Truncated ==
    ASSUME sent \in Seq(Positions), NEW total \in Nat, NEW j \in 0..(Len(sent) + 1),
           file = SubSeq(Written(total), 1, j)
    PROVE  ControlError
<1> DEFINE n == Len(sent)
           W == Written(total)
<1>1. n \in Nat /\ W \in Seq(LineSet) /\ Len(W) = n + 2 /\ j \in 0..(n + 1)
  BY WrittenFacts
<1>2. \A k \in 1..(n + 2) : W[k].type = "99" <=> k = n + 2
  BY Kinds
<1>3. file = SubSeq(W, 1, j)
  OBVIOUS
<1> HIDE DEF W, n
<1>4. file \in Seq(LineSet) /\ Len(file) = j /\ \A k \in 1..j : file[k] = W[k]
  <2>1. j \in 0..Len(W)
    BY <1>1
  <2>2. QED
    BY <1>1, <1>3, <2>1, CutFacts
<1>5. DOMAIN file = 1..j /\ \A k \in 1..j : k \in 1..(n + 2) /\ k # n + 2
  BY <1>1, <1>4
<1>6. Lines("99") = {}
  BY <1>2, <1>4, <1>5 DEF Lines
<1>7. QED
  BY <1>6 DEF ControlError

\* An altered line is a line.
LEMMA AlteredLine ==
    ASSUME NEW line \in LineSet, NEW l \in Altered(line)
    PROVE  l \in LineSet
<1>1. Symbols \subseteq Symbol
  BY CustodyFileAssumption DEF Symbol
<1>2. ASSUME NEW z \in Seq(Symbol), NEW i \in DOMAIN z, NEW s \in Symbols
      PROVE  [z EXCEPT ![i] = s] \in Seq(Symbol)
  <2>1. s \in Symbol /\ Len(z) \in Nat /\ z \in [1..Len(z) -> Symbol] /\ DOMAIN z = 1..Len(z)
    BY <1>1
  <2>2. [z EXCEPT ![i] = s] \in [1..Len(z) -> Symbol]
    BY <2>1
  <2>3. QED
    BY <2>1, <2>2
<1>3. CASE \E t \in Types : l = [line EXCEPT !.type = t]
  BY <1>3 DEF LineSet
<1>4. CASE \E d \in Cycles : l = [line EXCEPT !.date = d]
  BY <1>4 DEF LineSet
<1>5. CASE l = [line EXCEPT !.whole = FALSE]
  BY <1>5 DEF LineSet
<1>6. line.count \in Seq(Symbol) /\ line.quantity \in Seq(Symbol) /\ line.value \in Seq(Symbol)
  BY DEF LineSet
<1>7. CASE \E i \in DOMAIN line.count, s \in Symbols : l = [line EXCEPT !.count[i] = s]
  <2>1. PICK z \in Seq(Symbol) : l = [line EXCEPT !.count = z]
    BY <1>2, <1>6, <1>7
  <2>2. QED
    BY <2>1 DEF LineSet
<1>8. CASE \E i \in DOMAIN line.quantity, s \in Symbols : l = [line EXCEPT !.quantity[i] = s]
  <2>1. PICK z \in Seq(Symbol) : l = [line EXCEPT !.quantity = z]
    BY <1>2, <1>6, <1>8
  <2>2. QED
    BY <2>1 DEF LineSet
<1>9. CASE \E i \in DOMAIN line.value, s \in Symbols : l = [line EXCEPT !.value[i] = s]
  <2>1. PICK z \in Seq(Symbol) : l = [line EXCEPT !.value = z]
    BY <1>2, <1>6, <1>9
  <2>2. QED
    BY <2>1 DEF LineSet
<1>10. QED
  BY <1>3, <1>4, <1>5, <1>7, <1>8, <1>9 DEF Altered

LEMMA ReplaceFacts ==
    ASSUME NEW S, NEW s \in Seq(S), NEW j \in 1..Len(s), NEW e \in S
    PROVE  LET t == ReplaceAt(s, j, e) IN
           /\ t \in Seq(S) /\ Len(t) = Len(s)
           /\ \A k \in 1..Len(s) : t[k] = IF k = j THEN e ELSE s[k]
<1>1. s \in [1..Len(s) -> S] /\ Len(s) \in Nat
  OBVIOUS
<1>2. ReplaceAt(s, j, e) = [s EXCEPT ![j] = e]
  BY DEF ReplaceAt
<1>3. [s EXCEPT ![j] = e] \in [1..Len(s) -> S]
  BY <1>1
<1>4. QED
  BY <1>1, <1>2, <1>3

\* What a fault leaves is still a sequence of lines.
LEMMA FaultyType ==
    ASSUME NEW lines \in Seq(LineSet), NEW f \in Faulty(lines)
    PROVE  f \in Seq(LineSet)
<1>1. \A i \in 1..Len(lines) : lines[i] \in LineSet
  OBVIOUS
<1>2. EmptyLine \in LineSet
  BY HeaderFacts
<1>3. CASE \E i \in 1..Len(lines) : f = RemoveAt(lines, i)
  BY <1>3, RemoveFacts
<1>4. CASE \E i \in 1..Len(lines), e \in LineSet : f = InsertAt(lines, i, e)
  BY <1>4, InsertFacts
<1>5. CASE \E i \in 0..(Len(lines) - 1) : f = SubSeq(lines, 1, i)
  <2>1. PICK i \in 0..Len(lines) : f = SubSeq(lines, 1, i)
    BY <1>5
  <2>2. QED
    BY <2>1, CutFacts
<1>6. CASE \E i \in 1..Len(lines) : \E l \in Altered(lines[i]) : f = ReplaceAt(lines, i, l)
  <2>1. PICK i \in 1..Len(lines) : \E l \in Altered(lines[i]) : f = ReplaceAt(lines, i, l)
    BY <1>6
  <2>2. PICK l \in Altered(lines[i]) : f = ReplaceAt(lines, i, l)
    BY <2>1
  <2>3. l \in LineSet
    BY <1>1, AlteredLine
  <2>4. QED
    BY <2>2, <2>3, ReplaceFacts
<1>7. QED
  BY <1>1, <1>2, <1>3, <1>4, <1>5, <1>6 DEF Faulty

\* A file with another line in the place of one.
LEMMA ReplacedLine ==
    ASSUME sent \in Seq(Positions), NEW total \in Nat, NEW j \in 1..(Len(sent) + 2),
           NEW l \in LineSet, file = ReplaceAt(Written(total), j, l)
    PROVE  /\ file \in Seq(LineSet) /\ Len(file) = Len(sent) + 2
           /\ \A k \in 1..(Len(sent) + 2) : file[k] = IF k = j THEN l ELSE Written(total)[k]
<1> DEFINE W == Written(total)
<1>1. W \in Seq(LineSet) /\ Len(W) = Len(sent) + 2
  BY WrittenFacts
<1>2. file = ReplaceAt(W, j, l) /\ j \in 1..Len(W)
  BY <1>1
<1> HIDE DEF W
<1>3. /\ file \in Seq(LineSet) /\ Len(file) = Len(W)
      /\ \A k \in 1..Len(W) : file[k] = IF k = j THEN l ELSE W[k]
  <2> DEFINE t == ReplaceAt(W, j, l)
  <2>1. W \in Seq(LineSet) /\ l \in LineSet /\ j \in 1..Len(W)
    BY <1>1, <1>2
  <2>2. /\ t \in Seq(LineSet) /\ Len(t) = Len(W)
        /\ \A k \in 1..Len(W) : t[k] = IF k = j THEN l ELSE W[k]
    BY <2>1, ReplaceFacts
  <2> HIDE DEF t
  <2>3. QED
    BY <1>2, <2>2 DEF t
<1>4. QED
  BY <1>1, <1>3 DEF W

\* Another header or trailer is missed if it does not read as one.
LEMMA FrameReplaced ==
    ASSUME sent \in Seq(Positions), NEW total \in Nat, NEW j \in {1, Len(sent) + 2},
           NEW l \in LineSet, file = ReplaceAt(Written(total), j, l)
    PROVE  ControlError \/ AsSent
<1> DEFINE n == Len(sent)
           W == Written(total)
<1>1. /\ n \in Nat /\ W \in Seq(LineSet) /\ Len(W) = n + 2
      /\ \A i \in 2..(n + 1) : <<Quantity(W[i]), Value(W[i])>> = sent[i - 1]
  BY WrittenFacts
<1>2. \A k \in 1..(n + 2) : W[k].as # "" /\ W[k].whole
  BY Kinds
<1>3. \A k \in 1..(n + 2) : W[k].type = "03" <=> k \in 2..(n + 1)
  BY Kinds
<1>4. \A k \in 1..(n + 2) : W[k].type = "99" <=> k = n + 2
  BY Kinds
<1>5. \A k \in 1..(n + 2) : W[k].type = "01" <=> k = 1
  BY Kinds
<1>6. j \in {1, n + 2} /\ j \in 1..(n + 2)
  BY <1>1
<1>7. /\ file \in Seq(LineSet) /\ Len(file) = n + 2
      /\ \A k \in 1..(n + 2) : file[k] = IF k = j THEN l ELSE W[k]
  BY <1>6, ReplacedLine
<1> HIDE DEF W, n
<1>8. DOMAIN file = 1..(n + 2)
  BY <1>1, <1>7
<1>9. CASE l.type = "03" /\ j = 1
  <2>1. Lines("01") = {}
    <3> SUFFICES ASSUME NEW k \in Lines("01") PROVE FALSE
      OBVIOUS
    <3>1. k \in 1..(n + 2) /\ file[k].type = "01"
      BY <1>8, LineIsParsed
    <3>2. QED
      BY <1>5, <1>7, <1>9, <3>1
  <2>2. QED
    BY <2>1 DEF ControlError
<1>10. CASE l.type = "03" /\ j = n + 2
  <2>1. Lines("99") = {}
    <3> SUFFICES ASSUME NEW k \in Lines("99") PROVE FALSE
      OBVIOUS
    <3>1. k \in 1..(n + 2) /\ file[k].type = "99"
      BY <1>8, LineIsParsed
    <3>2. QED
      BY <1>4, <1>7, <1>10, <3>1
  <2>2. QED
    BY <2>1 DEF ControlError
<1>11. CASE l.type # "03"
  <2>1. \A k \in 2..(n + 1) : k \in 1..(n + 2) /\ k # j /\ file[k] = W[k]
    BY <1>1, <1>6, <1>7
  <2>2. DetailLines = 2..(n + 1)
    <3>1. ASSUME NEW k \in 2..(n + 1) PROVE k \in DetailLines
      <4>1. W[k].as # "" /\ W[k].whole /\ W[k].type = "03"
        BY <1>2, <1>3, <2>1
      <4>2. k \in DOMAIN file /\ file[k] = W[k]
        BY <1>8, <2>1
      <4>3. QED
        BY <4>1, <4>2, ParsedLine DEF DetailLines
    <3>2. ASSUME NEW k \in DetailLines PROVE k \in 2..(n + 1)
      <4>1. k \in 1..(n + 2) /\ file[k].type = "03"
        BY <1>8, LineIsParsed DEF DetailLines
      <4>2. QED
        BY <1>3, <1>7, <1>11, <4>1
    <3>3. QED
      BY <3>1, <3>2
  <2>3. ASSUME NEW i \in 2..(n + 1) PROVE Received[i] = sent[i - 1]
    <3>1. n + 2 \in Nat /\ i \in DetailLines
      BY <1>1, <2>2
    <3>2. Received[i] = <<Quantity(file[i]), Value(file[i])>>
      BY <1>7, <2>1, <3>1, ReceivedFacts
    <3>3. QED
      BY <1>1, <2>1, <3>2
  <2>4. QED
    BY <2>2, <2>3, InPlace DEF n
<1>12. QED
  BY <1>6, <1>9, <1>10, <1>11

\* A detail that no longer reads as one is missed from the count.
LEMMA DetailLost ==
    ASSUME sent \in Seq(Positions), NEW total \in Nat, NEW j \in 2..(Len(sent) + 1),
           NEW l \in LineSet, file = ReplaceAt(Written(total), j, l), j \notin DetailLines
    PROVE  ControlError
<1> DEFINE n == Len(sent)
           W == Written(total)
<1>1. /\ n \in Nat /\ W \in Seq(LineSet) /\ Len(W) = n + 2 /\ W[n + 2] = Trailer(total)
  BY WrittenFacts
<1>2. \A k \in 1..(n + 2) : W[k].as # "" /\ W[k].whole
  BY Kinds
<1>3. \A k \in 1..(n + 2) : W[k].type = "03" <=> k \in 2..(n + 1)
  BY Kinds
<1>4. \A k \in 1..(n + 2) : W[k].type = "99" <=> k = n + 2
  BY Kinds
<1>5. j \in 2..(n + 1) /\ j \in 1..(n + 2)
  BY <1>1
<1>6. /\ file \in Seq(LineSet) /\ Len(file) = n + 2
      /\ \A k \in 1..(n + 2) : file[k] = IF k = j THEN l ELSE W[k]
  BY <1>5, ReplacedLine
<1> HIDE DEF W, n
<1>7. DOMAIN file = 1..(n + 2)
  BY <1>1, <1>6
<1>8. DetailLines = (2..(n + 1)) \ {j}
  <2>1. ASSUME NEW k \in (2..(n + 1)) \ {j} PROVE k \in DetailLines
    <3>1. k \in 1..(n + 2)
      BY <1>1
    <3>2. W[k].as # "" /\ W[k].whole /\ W[k].type = "03"
      BY <1>2, <1>3, <3>1
    <3>3. k \in DOMAIN file /\ file[k] = W[k]
      BY <1>6, <1>7, <3>1
    <3>4. QED
      BY <3>2, <3>3, ParsedLine DEF DetailLines
  <2>2. ASSUME NEW k \in DetailLines PROVE k \in (2..(n + 1)) \ {j}
    <3>1. k \in 1..(n + 2) /\ file[k].type = "03" /\ k # j
      BY <1>7, LineIsParsed DEF DetailLines
    <3>2. QED
      BY <1>3, <1>6, <3>1
  <2>3. QED
    BY <2>1, <2>2
<1>9. LastOf("99") = Trailer(total)
  <2>1. n + 2 \in 1..(n + 2) /\ n + 2 # j
    BY <1>1, <1>5
  <2>2. file[n + 2] = Trailer(total) /\ n + 2 \in DOMAIN file
    BY <1>1, <1>6, <1>7, <2>1
  <2>3. W[n + 2].as # "" /\ W[n + 2].whole /\ W[n + 2].type = "99"
    BY <1>2, <1>4, <2>1
  <2>4. n + 2 \in Lines("99")
    BY <1>1, <2>2, <2>3, ParsedLine
  <2>5. \A k \in Lines("99") : k <= n + 2
    <3> SUFFICES ASSUME NEW k \in Lines("99") PROVE k <= n + 2
      OBVIOUS
    <3>1. k \in 1..(n + 2)
      BY <1>7, LineIsParsed
    <3>2. QED
      BY <3>1
  <2>6. QED
    BY <1>6, <2>2, <2>4, <2>5, LastLine
<1>10. Cardinality(DetailLines) = n - 1 /\ n - 1 \in Nat /\ n - 1 # Len(sent)
  <2>1. 2 \in Int /\ n + 1 \in Int /\ n \in Nat \ {0}
    BY <1>1, <1>5
  <2>2. IsFiniteSet(2..(n + 1)) /\ Cardinality(2..(n + 1)) = n
    <3>1. /\ IsFiniteSet(2..(n + 1))
          /\ Cardinality(2..(n + 1)) = IF 2 > n + 1 THEN 0 ELSE (n + 1) - 2 + 1
      BY <2>1, FS_Interval
    <3>2. QED
      BY <2>1, <3>1
  <2>3. Cardinality((2..(n + 1)) \ {j}) = n - 1
    BY <1>5, <2>2, FS_RemoveElement
  <2>4. QED
    BY <1>8, <2>1, <2>3 DEF n
<1>11. QED
  BY <1>9, <1>10, CountIsWrong

\* A detail that reads as another position changes a total.
LEMMA DetailReplaced ==
    ASSUME sent \in Seq(Positions), NEW j \in 2..(Len(sent) + 1), NEW l \in LineSet,
           file = ReplaceAt(Written(SumOf(sent, 2)), j, l), j \in DetailLines
    PROVE  ControlError \/ AsSent
<1> DEFINE n == Len(sent)
           total == SumOf(sent, 2)
           W == Written(total)
           R == [k \in 1..(n + 2) |-> IF k \in 2..(n + 1) THEN sent[k - 1] ELSE <<0, 0>>]
<1>0. total \in Nat
  BY SentSums
<1> HIDE DEF total
<1>1. /\ n \in Nat /\ W \in Seq(LineSet) /\ Len(W) = n + 2 /\ W[n + 2] = Trailer(total)
      /\ \A i \in 2..(n + 1) : /\ <<Quantity(W[i]), Value(W[i])>> = sent[i - 1]
                               /\ sent[i - 1] \in Positions
  BY <1>0, WrittenFacts
<1>2. \A k \in 1..(n + 2) : W[k].as # "" /\ W[k].whole
  BY <1>0, Kinds
<1>3. \A k \in 1..(n + 2) : W[k].type = "03" <=> k \in 2..(n + 1)
  BY <1>0, Kinds
<1>4. \A k \in 1..(n + 2) : W[k].type = "99" <=> k = n + 2
  BY <1>0, Kinds
<1>5. j \in 2..(n + 1) /\ j \in 1..(n + 2)
  BY <1>1
<1>6. /\ file \in Seq(LineSet) /\ Len(file) = n + 2
      /\ \A k \in 1..(n + 2) : file[k] = IF k = j THEN l ELSE W[k]
  <2>1. file = ReplaceAt(Written(total), j, l)
    BY DEF total
  <2>2. QED
    BY <1>0, <1>5, <2>1, ReplacedLine
<1> HIDE DEF W
<1>7. DOMAIN file = 1..(n + 2)
  BY <1>1, <1>6
<1>8. \A i \in {1, 2} : SumOf(R, i) = SumOf(sent, i)
  <2>1. Len(R) = n + 2 /\ n + 2 \in Nat
    <3>1. R \in [1..(n + 2) -> Nat \X Nat]
      BY <1>1 DEF Positions
    <3>2. QED
      BY <1>1, <3>1
  <2>2. R[1] = <<0, 0>> /\ R[n + 2] = <<0, 0>>
    BY <1>1
  <2>3. \A k \in 1..n : R[k + 1] = sent[k] /\ sent[k] \in Nat \X Nat
    BY <1>1, SMTT(30) DEF Positions
  <2> HIDE DEF R
  <2>4. ASSUME NEW i \in {1, 2} PROVE SumOf(R, i) = SumOf(sent, i)
    <3>1. /\ Len(sent) \in Nat /\ Len(R) \in Nat /\ Len(R) = Len(sent) + 2
          /\ R[1][i] = 0 /\ R[Len(R)][i] = 0
      BY <1>1, <2>1, <2>2
    <3>2. \A k \in 1..Len(sent) : sent[k][i] \in Int
      BY <2>3
    <3>3. \A k \in 1..Len(sent) : R[k + 1][i] = sent[k][i]
      BY <2>3
    <3>4. /\ Len(sent) \in Nat /\ Len(R) \in Nat /\ Len(R) = Len(sent) + 2
          /\ \A k \in 1..Len(sent) : sent[k][i] \in Int
          /\ R[1][i] = 0 /\ R[Len(R)][i] = 0
          /\ \A k \in 1..Len(sent) : R[k + 1][i] = sent[k][i]
      BY <3>1, <3>2, <3>3
    <3> HIDE DEF n
    <3>5. QED
      BY <3>4, SumOfFramed, SMTT(60)
  <2>5. QED
    BY <2>4
<1> HIDE DEF n
<1>9. DetailLines = 2..(n + 1)
  <2>1. ASSUME NEW k \in 2..(n + 1), k # j PROVE k \in DetailLines
    <3>1. k \in 1..(n + 2)
      BY <1>1
    <3>2. W[k].as # "" /\ W[k].whole /\ W[k].type = "03"
      BY <1>2, <1>3, <3>1
    <3>3. k \in DOMAIN file /\ file[k] = W[k]
      BY <1>6, <1>7, <2>1, <3>1
    <3>4. QED
      BY <3>2, <3>3, ParsedLine DEF DetailLines
  <2>2. ASSUME NEW k \in DetailLines PROVE k \in 2..(n + 1)
    <3>1. k \in 1..(n + 2) /\ file[k].type = "03"
      BY <1>7, LineIsParsed DEF DetailLines
    <3>2. QED
      BY <1>3, <1>5, <1>6, <3>1
  <2>3. QED
    BY <1>5, <2>1, <2>2
<1>10. LastOf("99") = Trailer(total)
  <2>1. n + 2 \in 1..(n + 2) /\ n + 2 # j
    BY <1>1, <1>5
  <2>2. file[n + 2] = Trailer(total) /\ n + 2 \in DOMAIN file
    BY <1>1, <1>6, <1>7, <2>1
  <2>3. W[n + 2].as # "" /\ W[n + 2].whole /\ W[n + 2].type = "99"
    BY <1>2, <1>4, <2>1
  <2>4. n + 2 \in Lines("99")
    BY <1>1, <2>2, <2>3, ParsedLine
  <2>5. \A k \in Lines("99") : k <= n + 2
    <3> SUFFICES ASSUME NEW k \in Lines("99") PROVE k <= n + 2
      OBVIOUS
    <3>1. k \in 1..(n + 2)
      BY <1>7, LineIsParsed
    <3>2. QED
      BY <3>1
  <2>6. QED
    BY <1>6, <2>2, <2>4, <2>5, LastLine
<1>11. /\ Len(Received) = n + 2
       /\ \A k \in 1..(n + 2) : k # j => Received[k] = R[k]
       /\ \A k \in 1..(n + 2) : Received[k][1] \in Int /\ Received[k][2] \in Int
       /\ \E a, b \in Int : Received[j] = <<a, b>>
  <2>0. n + 2 \in Nat
    BY <1>1
  <2>1. /\ Len(Received) = n + 2
        /\ \A k \in 1..(n + 2) :
              /\ k \in DetailLines => Received[k] = <<Quantity(file[k]), Value(file[k])>>
              /\ k \notin DetailLines => Received[k] = <<0, 0>>
              /\ Received[k][1] \in Int /\ Received[k][2] \in Int
    BY <1>6, <2>0, ReceivedFacts
  <2>2. ASSUME NEW k \in 1..(n + 2), k # j PROVE Received[k] = R[k]
    <3>1. file[k] = W[k]
      BY <1>6, <2>2
    <3>2. CASE k \in 2..(n + 1)
      BY <1>1, <1>9, <2>1, <3>1, <3>2
    <3>3. CASE k \notin 2..(n + 1)
      BY <1>9, <2>1, <3>3
    <3>4. QED
      BY <3>2, <3>3
  <2>3. Quantity(l) \in Int /\ Value(l) \in Int /\ Received[j] = <<Quantity(l), Value(l)>>
    BY <1>5, <1>6, <2>1, ReadType
  <2>4. QED
    BY <2>1, <2>2, <2>3
<1>12. /\ Len(R) = n + 2 /\ R[j] = sent[j - 1] /\ R[j] \in Nat \X Nat
       /\ \A k \in 1..(n + 2) : R[k][1] \in Int /\ R[k][2] \in Int
  <2>1. R \in [1..(n + 2) -> Nat \X Nat]
    BY <1>1 DEF Positions
  <2>2. Len(R) = n + 2
    BY <1>1, <2>1
  <2>3. R[j] = sent[j - 1]
    BY <1>5
  <2> HIDE DEF R
  <2>4. R[j] \in Nat \X Nat /\ \A k \in 1..(n + 2) : R[k] \in Nat \X Nat
    BY <1>5, <2>1
  <2>5. \A k \in 1..(n + 2) : R[k][1] \in Int /\ R[k][2] \in Int
    BY <2>4
  <2>6. QED
    BY <2>2, <2>3, <2>4, <2>5
<1>13. \A k \in 2..(n + 1) : R[k] = sent[k - 1]
  BY <1>1
<1> HIDE DEF R
<1>14. ASSUME Reconciles(LastOf("01"), LastOf("99")) PROVE Received[j] = R[j]
  <2>1. ControlTotals = <<SumOf(sent, 1), total>>
    <3>1. ControlTotals = <<Quantity(Trailer(total)), Value(Trailer(total))>>
      BY <1>10, <1>14 DEF Reconciles
    <3>2. Quantity(Trailer(total)) = SumOf(sent, 1) /\ Value(Trailer(total)) = total
      BY <1>0, TrailerFacts
    <3>3. QED
      BY <3>1, <3>2
  <2>2. SumOf(Received, 1) = SumOf(R, 1) /\ SumOf(Received, 2) = SumOf(R, 2)
    BY <1>8, <2>1 DEF ControlTotals, total
  <2>3. ASSUME NEW i \in {1, 2} PROVE Received[j][i] = R[j][i]
    <3>1. /\ Len(R) \in Nat /\ Len(Received) = Len(R) /\ j \in 1..Len(R)
      BY <1>1, <1>5, <1>11, <1>12
    <3>2. \A k \in 1..Len(R) : R[k][i] \in Int /\ Received[k][i] \in Int
      BY <1>11, <1>12
    <3>3. \A k \in 1..Len(R) : k # j => Received[k][i] = R[k][i]
      BY <1>11, <1>12
    <3>4. SumOf(Received, i) - SumOf(R, i) = Received[j][i] - R[j][i]
      BY <3>1, <3>2, <3>3, SumOfChanged
    <3>5. SumOf(R, i) \in Int /\ SumOf(Received, i) = SumOf(R, i)
      BY <1>8, <2>2, SentSums
    <3>6. Received[j][i] \in Int /\ R[j][i] \in Int
      BY <3>1, <3>2
    <3>7. QED
      BY <3>4, <3>5, <3>6
  <2>4. Received[j][1] = R[j][1] /\ Received[j][2] = R[j][2]
    BY <2>3
  <2>5. QED
    BY <1>11, <1>12, <2>4
<1>15. ASSUME Received[j] = R[j] PROVE AsSent
  <2>1. \A i \in 2..(n + 1) : Received[i] = sent[i - 1]
    BY <1>1, <1>11, <1>13, <1>15
  <2>2. QED
    BY <1>9, <2>1, InPlace DEF n
<1>16. QED
  BY <1>14, <1>15 DEF ControlError

\* One fault is seen or does no harm to the positions.
LEMMA OneFault ==
    ASSUME sent \in Seq(Positions), file \in Faulty(Written(SumOf(sent, 2)))
    PROVE  ControlError \/ AsSent
<1> DEFINE n == Len(sent)
           total == SumOf(sent, 2)
           W == Written(total)
<1>1. total \in Nat
  BY SentSums
<1> HIDE DEF total
<1>2. /\ n \in Nat /\ W \in Seq(LineSet) /\ Len(W) = n + 2
      /\ W[1] = Header /\ W[n + 2] = Trailer(total)
      /\ \A i \in 1..(n + 2) : W[i] \in LineSet
  <2>1. /\ n \in Nat /\ W \in Seq(LineSet) /\ Len(W) = n + 2
        /\ W[1] = Header /\ W[n + 2] = Trailer(total)
    BY <1>1, WrittenFacts
  <2> HIDE DEF W, n
  <2>2. QED
    BY <2>1
<1>3. file \in Faulty(W)
  BY DEF total
<1> HIDE DEF W, n
<1>4. CASE \E i \in 1..(n + 2) : file = RemoveAt(W, i)
  <2>1. PICK i \in 1..(n + 2) : file = RemoveAt(W, i)
    BY <1>4
  <2>2. ControlError
    BY <1>1, <2>1, Removed DEF W, n
  <2>3. QED
    BY <2>2
<1>5. CASE \E i \in 1..(n + 2) : file = InsertAt(W, i, W[i])
  <2>1. PICK i \in 1..(n + 2) : file = InsertAt(W, i, W[i])
    BY <1>5
  <2>2. CASE i \in {1, n + 2}
    <3>1. Header.type = "01" /\ Trailer(total).type = "99"
      BY <1>1, HeaderFacts, TrailerFacts
    <3>2. W[i] \in LineSet /\ W[i].type # "03"
      BY <1>2, <2>2, <3>1
    <3>3. PICK e \in LineSet : e = W[i] /\ e.type # "03" /\ file = InsertAt(W, i, e)
      BY <2>1, <3>2
    <3>4. AsSent
      BY <1>1, <3>3, Inserted DEF W, n
    <3>5. QED
      BY <3>4
  <2>3. CASE i \in 2..(n + 1)
    <3>1. ControlError
      BY <1>1, <2>1, <2>3, Doubled DEF W, n
    <3>2. QED
      BY <3>1
  <2>4. QED
    BY <1>2, <2>2, <2>3
<1>6. CASE \E i \in 1..(n + 2) : file = InsertAt(W, i, EmptyLine)
  <2>1. PICK i \in 1..(n + 2), e \in LineSet : e.type # "03" /\ file = InsertAt(W, i, e)
    BY <1>6, HeaderFacts
  <2>2. AsSent
    BY <1>1, <2>1, Inserted DEF W, n
  <2>3. QED
    BY <2>2
<1>7. CASE \E i \in 0..(n + 1) : file = SubSeq(W, 1, i)
  <2>1. PICK i \in 0..(n + 1) : file = SubSeq(W, 1, i)
    BY <1>7
  <2>2. ControlError
    BY <1>1, <2>1, Truncated DEF W, n
  <2>3. QED
    BY <2>2
<1>8. CASE \E i \in 1..(n + 2) : \E l \in Altered(W[i]) : file = ReplaceAt(W, i, l)
  <2>1. PICK i \in 1..(n + 2) : \E l \in Altered(W[i]) : file = ReplaceAt(W, i, l)
    BY <1>8
  <2>2. PICK l \in Altered(W[i]) : file = ReplaceAt(W, i, l)
    BY <2>1
  <2>3. l \in LineSet
    BY <1>2, AlteredLine
  <2>4. CASE i \in {1, n + 2}
    BY <1>1, <2>2, <2>3, <2>4, FrameReplaced DEF W, n
  <2>5. CASE i \in 2..(n + 1) /\ i \in DetailLines
    BY <2>2, <2>3, <2>5, DetailReplaced DEF W, n, total
  <2>6. CASE i \in 2..(n + 1) /\ i \notin DetailLines
    <3>1. ControlError
      BY <1>1, <2>2, <2>3, <2>6, DetailLost DEF W, n
    <3>2. QED
      BY <3>1
  <2>7. QED
    BY <1>2, <2>4, <2>5, <2>6
<1>9. (n + 2) - 1 = n + 1
  BY <1>2
<1>10. QED
  BY <1>2, <1>3, <1>4, <1>5, <1>6, <1>7, <1>8, <1>9 DEF Faulty

(* The generator, the transfer and the adapter. *)

ExtractInv ==
    /\ ExtractTypeOK
    /\ stage = "nowhere" => sent = <<>> /\ file = <<>> /\ damage = 0
    /\ stage = "written" => file = Begun /\ damage = 0
    /\ stage \in {"landed", "verified"} =>
          /\ damage = 0 => file = Written(SumOf(sent, 2))
          /\ damage = 1 => \/ file = Written(SumOf(sent, 2) + 1)
                           \/ file \in Faulty(Written(SumOf(sent, 2)))
    /\ manifest = IF stage = "verified" THEN BuildManifest ELSE NoManifest

\* The generator writes a line at a time what Begun and Written describe.
LEMMA NextLine ==
    ASSUME sent \in Seq(Positions)
    PROVE  /\ Begun \in Seq(LineSet)
           /\ \A total \in Nat : Append(Begun, Trailer(total)) = Written(total)
<1> DEFINE n == Len(sent)
<1>1. n \in Nat /\ DOMAIN sent = 1..n /\ \A i \in 1..n : sent[i] \in Positions
  OBVIOUS
<1>2. \A i \in 2..(n + 1) : Detail(sent[i - 1]) \in LineSet
  <2>1. \A i \in 2..(n + 1) : i - 1 \in 1..n
    BY <1>1
  <2>2. QED
    BY <1>1, <2>1, DetailFacts
<1>3. Begun = [i \in 1..(n + 1) |-> IF i = 1 THEN Header ELSE Detail(sent[i - 1])]
  BY DEF Begun
<1> HIDE DEF n
<1>4. Begun \in [1..(n + 1) -> LineSet]
  <2>1. Header \in LineSet
    BY HeaderFacts
  <2>2. \A i \in 1..(n + 1) : i # 1 => i \in 2..(n + 1)
    BY <1>1
  <2>3. \A i \in 1..(n + 1) : (IF i = 1 THEN Header ELSE Detail(sent[i - 1])) \in LineSet
    BY <1>2, <2>1, <2>2
  <2>4. QED
    BY <1>3, <2>3
<1>5. Begun \in Seq(LineSet) /\ Len(Begun) = n + 1
  BY <1>1, <1>4
<1>6. ASSUME NEW total \in Nat PROVE Append(Begun, Trailer(total)) = Written(total)
  <2>1. /\ Written(total) \in Seq(LineSet) /\ Len(Written(total)) = n + 2
        /\ Trailer(total) \in LineSet
    BY WrittenFacts, TrailerFacts DEF n
  <2> DEFINE A == Append(Begun, Trailer(total))
  <2>2. /\ A \in Seq(LineSet) /\ Len(A) = n + 2
        /\ \A i \in 1..(n + 1) : A[i] = Begun[i]
        /\ A[n + 2] = Trailer(total)
    BY <1>1, <1>5, <2>1
  <2> HIDE DEF A
  <2>3. Written(total) = [i \in 1..(n + 2) |-> IF i = 1 THEN Header
                                              ELSE IF i = n + 2 THEN Trailer(total)
                                              ELSE Detail(sent[i - 1])]
    BY DEF Written, n
  <2>4. ASSUME NEW i \in 1..(n + 2) PROVE A[i] = Written(total)[i]
    <3>1. CASE i = n + 2
      BY <1>1, <2>2, <2>3, <3>1
    <3>2. CASE i # n + 2
      <4>1. i \in 1..(n + 1)
        BY <1>1, <3>2
      <4>2. A[i] = Begun[i]
        BY <2>2, <4>1
      <4>3. QED
        BY <1>3, <2>3, <3>2, <4>1, <4>2
    <3>3. QED
      BY <3>1, <3>2
  <2>5. A = Written(total)
    <3>1. A \in [1..(n + 2) -> LineSet] /\ Written(total) \in [1..(n + 2) -> LineSet]
      BY <2>1, <2>2
    <3>2. A = [i \in 1..(n + 2) |-> A[i]]
      BY <3>1
    <3>3. Written(total) = [i \in 1..(n + 2) |-> Written(total)[i]]
      BY <3>1
    <3> DEFINE W == Written(total)
    <3> HIDE DEF W
    <3>4. A = [i \in 1..(n + 2) |-> A[i]] /\ W = [i \in 1..(n + 2) |-> W[i]]
          /\ \A i \in 1..(n + 2) : A[i] = W[i]
      BY <2>4, <3>2, <3>3 DEF W
    <3>5. A = W
      BY <3>4
    <3>6. QED
      BY <3>5 DEF W
  <2>6. QED
    BY <2>5 DEF A
<1>7. QED
  BY <1>5, <1>6

\* What is read of the same file is the same.
LEMMA SameFile ==
    ASSUME file' = file
    PROVE  BuildManifest' = BuildManifest
<1>1. \A type : Lines(type)' = Lines(type)
  BY DEF Lines
<1>2. DetailLines' = DetailLines
  BY <1>1 DEF DetailLines
<1>3. Rejects' = Rejects
  BY DEF Rejects
<1>4. Received' = Received
  BY <1>2 DEF Received
<1>5. ControlTotals' = ControlTotals
  BY <1>4 DEF ControlTotals
<1>6. DetailsDecodable' = DetailsDecodable
  BY <1>2 DEF DetailsDecodable
<1>7. LastOf("01")' = LastOf("01") /\ LastOf("99")' = LastOf("99")
  BY <1>1 DEF LastOf
<1>8. \A h, t : Reconciles(h, t)' = Reconciles(h, t)
  BY <1>2, <1>3, <1>5, <1>6 DEF Reconciles
<1>9. ControlError' = ControlError
  BY <1>1, <1>7, <1>8 DEF ControlError
<1>10. QED
  BY <1>2, <1>5, <1>6, <1>9 DEF BuildManifest

\* What is written of the same positions is the same.
LEMMA SameSent ==
    ASSUME sent' = sent
    PROVE  /\ Begun' = Begun
           /\ Written(SumOf(sent, 2))' = Written(SumOf(sent, 2))
           /\ Written(SumOf(sent, 2) + 1)' = Written(SumOf(sent, 2) + 1)
           /\ Faulty(Written(SumOf(sent, 2)))' = Faulty(Written(SumOf(sent, 2)))
<1>1. Begun' = Begun
  BY DEF Begun
<1>2. SumOf(sent, 2)' = SumOf(sent, 2)
  OBVIOUS
<1>3. \A k : Trailer(k)' = Trailer(k)
  BY DEF Trailer
<1>4. \A k : Written(k)' = Written(k)
  BY <1>3 DEF Written
<1>5. /\ Written(SumOf(sent, 2))' = Written(SumOf(sent, 2))
      /\ Written(SumOf(sent, 2) + 1)' = Written(SumOf(sent, 2) + 1)
  BY <1>3 DEF Written, Trailer
<1>6. Faulty(Written(SumOf(sent, 2)))' = Faulty(Written(SumOf(sent, 2)))
  BY <1>5
<1>7. QED
  BY <1>1, <1>5, <1>6

LEMMA ExtractInvHolds ==
    ExtractSpec => []ExtractInv
<1> USE DEF ExtractInv, ExtractTypeOK, Positions
<1>0. MaxDamage \in Nat \ {0} /\ MaxRecords \in Nat
  BY CustodyFileAssumption
<1>1. ExtractInit => ExtractInv
  BY <1>0 DEF ExtractInit, NoManifest
<1>2. ExtractInv /\ [ExtractNext]_extractVars => ExtractInv'
  <2> SUFFICES ASSUME ExtractInv, [ExtractNext]_extractVars PROVE ExtractInv'
    OBVIOUS
  <2>1. sent \in Seq(Positions) /\ SumOf(sent, 2) \in Nat
    BY SentSums
  <2>2. CASE WriteHeader
    <3>1. file' = <<Header>> /\ sent = <<>> /\ sent' = <<>> /\ damage' = 0
          /\ stage' = "written" /\ manifest' = NoManifest
      BY <2>2 DEF WriteHeader
    <3>2. Begun' = <<Header>>
      BY <3>1 DEF Begun, Header
    <3>3. <<Header>> \in Seq(LineSet)
      <4>1. Header \in LineSet
        BY HeaderFacts
      <4>2. QED
        BY <4>1
    <3>4. QED
      BY <1>0, <3>1, <3>2, <3>3 DEF NoManifest
  <2>3. ASSUME NEW q \in Quantities, NEW p \in Prices, WriteDetail(q, p) PROVE ExtractInv'
    <3> DEFINE position == <<q, q * p>>
    <3>1. /\ stage = "written" /\ stage' = stage /\ Len(sent) < MaxRecords
          /\ sent' = Append(sent, position)
          /\ file' = Append(file, Detail(position))
          /\ damage' = damage /\ manifest' = manifest
      BY <2>3 DEF WriteDetail
    <3>2. position \in Positions
      <4>1. q \in Nat /\ p \in Nat
        BY CustodyFileAssumption
      <4>2. q * p \in Nat
        BY <4>1
      <4>3. QED
        BY <4>1, <4>2
    <3> HIDE DEF position
    <3>3. file = Begun /\ damage = 0 /\ manifest = NoManifest
      BY <3>1
    <3>4. Detail(position) \in LineSet /\ Header \in LineSet
      BY <3>2, DetailFacts, HeaderFacts
    <3>5. /\ sent' \in Seq(Positions) /\ Len(sent') = Len(sent) + 1
          /\ \A i \in 1..Len(sent) : sent'[i] = sent[i]
          /\ sent'[Len(sent) + 1] = position
      BY <2>1, <3>1, <3>2
    <3>6. file' = Begun'
      <4> DEFINE n == Len(sent)
                 s == sent'
                 A == Append(Begun, Detail(position))
      <4>1. n \in Nat /\ Len(s) = n + 1 /\ Begun \in Seq(LineSet) /\ Len(Begun) = n + 1
        BY <2>1, <3>5, NextLine DEF Begun
      <4>2. /\ A \in Seq(LineSet) /\ Len(A) = n + 2
            /\ \A i \in 1..(n + 1) : A[i] = Begun[i]
            /\ A[n + 2] = Detail(position)
        BY <3>4, <4>1
      <4>3. Begun' = [i \in 1..(n + 2) |-> IF i = 1 THEN Header ELSE Detail(s[i - 1])]
        BY <4>1 DEF Begun, Header, Detail, Line
      <4>4. Begun = [i \in 1..(n + 1) |-> IF i = 1 THEN Header ELSE Detail(sent[i - 1])]
        BY DEF Begun
      <4>5. \A i \in 2..(n + 1) : i - 1 \in 1..n /\ s[i - 1] = sent[i - 1]
        <5>1. \A i \in 2..(n + 1) : i - 1 \in 1..n
          BY <4>1
        <5>2. \A k \in 1..n : s[k] = sent[k]
          BY <3>5
        <5> HIDE DEF n, s
        <5>3. QED
          BY <5>1, <5>2
      <4>6. s[n + 1] = position
        BY <3>5
      <4> HIDE DEF n, s, A
      <4>7. ASSUME NEW i \in 1..(n + 2) PROVE A[i] = (Begun')[i]
        <5>1. CASE i = n + 2
          BY <4>1, <4>2, <4>3, <4>6, <5>1
        <5>2. CASE i = 1
          BY <4>1, <4>2, <4>3, <4>4, <5>2
        <5>3. CASE i \in 2..(n + 1)
          BY <4>1, <4>2, <4>3, <4>4, <4>5, <5>3
        <5>4. QED
          BY <4>1, <5>1, <5>2, <5>3
      <4>8. A = [i \in 1..(n + 2) |-> A[i]]
        BY <4>1, <4>2
      <4>9. A = Begun'
        BY <4>3, <4>7, <4>8
      <4>10. QED
        BY <3>1, <3>3, <4>9 DEF A
    <3>7. file' \in Seq(LineSet)
      BY <3>1, <3>4
    <3>8. QED
      BY <1>0, <3>1, <3>3, <3>5, <3>6, <3>7 DEF NoManifest
  <2>4. ASSUME NEW corrupt \in BOOLEAN, Publish(corrupt) PROVE ExtractInv'
    <3> DEFINE total == SumOf(sent, 2) + IF corrupt THEN 1 ELSE 0
    <3>1. /\ stage = "written" /\ stage' = "landed"
          /\ file' = Append(file, Trailer(total))
          /\ damage' = IF corrupt THEN 1 ELSE 0
          /\ sent' = sent /\ manifest' = manifest
      BY <2>4 DEF Publish
    <3>2. total \in Nat /\ (corrupt => total = SumOf(sent, 2) + 1)
          /\ (~corrupt => total = SumOf(sent, 2))
      BY <2>1
    <3> HIDE DEF total
    <3>3. file = Begun /\ manifest = NoManifest
      BY <3>1
    <3>4. file' = Written(total) /\ Written(total) \in Seq(LineSet)
      BY <2>1, <3>1, <3>2, <3>3, NextLine, WrittenFacts
    <3>5. /\ damage' = 0 => file' = Written(SumOf(sent, 2))
          /\ damage' = 1 => file' = Written(SumOf(sent, 2) + 1)
      BY <3>1, <3>2, <3>4
    <3>6. /\ Written(SumOf(sent, 2))' = Written(SumOf(sent, 2))
          /\ Written(SumOf(sent, 2) + 1)' = Written(SumOf(sent, 2) + 1)
      BY <3>1, SameSent
    <3>7. QED
      BY <1>0, <3>1, <3>3, <3>4, <3>5, <3>6 DEF NoManifest
  <2>5. CASE Die
    BY <1>0, <2>5 DEF Die, NoManifest
  <2>6. CASE Damage
    <3>1. /\ stage = "landed" /\ stage' = stage /\ damage < MaxDamage /\ damage' = damage + 1
          /\ file' \in Faulty(file) /\ sent' = sent /\ manifest' = manifest
          /\ manifest = NoManifest
      BY <2>6 DEF Damage
    <3>2. file' \in Seq(LineSet)
      BY <3>1, FaultyType
    <3>3. damage' \in 0..MaxDamage /\ damage' # 0 /\ (damage' = 1 => damage = 0)
      BY <1>0, <3>1
    <3>4. damage' = 1 => file' \in Faulty(Written(SumOf(sent, 2)))
      BY <3>1, <3>3
    <3>5. Faulty(Written(SumOf(sent, 2)))' = Faulty(Written(SumOf(sent, 2)))
      BY <3>1, SameSent
    <3>6. QED
      BY <3>1, <3>2, <3>3, <3>4, <3>5 DEF NoManifest
  <2>7. CASE Verify
    <3>1. /\ stage' = "verified" /\ stage = "landed" /\ manifest' = BuildManifest
          /\ sent' = sent /\ file' = file /\ damage' = damage
      BY <2>7 DEF Verify
    <3>2. BuildManifest' = BuildManifest
      BY <3>1, SameFile
    <3>3. manifest'.status \in {"NONE", "COMPLETE", "FAILED"}
      BY <3>1 DEF BuildManifest
    <3>4. /\ Written(SumOf(sent, 2))' = Written(SumOf(sent, 2))
          /\ Written(SumOf(sent, 2) + 1)' = Written(SumOf(sent, 2) + 1)
          /\ Faulty(Written(SumOf(sent, 2)))' = Faulty(Written(SumOf(sent, 2)))
      BY <3>1, SameSent
    <3>5. QED
      BY <3>1, <3>2, <3>3, <3>4
  <2>8. CASE MoveAway
    BY <1>0, <2>8 DEF MoveAway, NoManifest
  <2>9. CASE UNCHANGED extractVars
    <3>1. /\ stage' = stage /\ manifest' = manifest
          /\ sent' = sent /\ file' = file /\ damage' = damage
      BY <2>9 DEF extractVars
    <3>2. BuildManifest' = BuildManifest
      BY <3>1, SameFile
    <3>3. /\ Written(SumOf(sent, 2))' = Written(SumOf(sent, 2))
          /\ Written(SumOf(sent, 2) + 1)' = Written(SumOf(sent, 2) + 1)
          /\ Faulty(Written(SumOf(sent, 2)))' = Faulty(Written(SumOf(sent, 2)))
          /\ Begun' = Begun
      BY <3>1, SameSent
    <3>4. QED
      BY <3>1, <3>2, <3>3
  <2>10. QED
    BY <2>2, <2>3, <2>4, <2>5, <2>6, <2>7, <2>8, <2>9 DEF ExtractNext
<1>3. QED
  BY <1>1, <1>2, PTL DEF ExtractSpec

(***************************************************************************)
(* The variables of the extract keep their types: in particular what a     *)
(* damaged transfer leaves is still a sequence of lines.                   *)
(***************************************************************************)
THEOREM ExtractTypeCorrect ==
    ExtractSpec => []ExtractTypeOK
<1>1. ExtractInv => ExtractTypeOK
  BY DEF ExtractInv
<1>2. QED
  BY <1>1, ExtractInvHolds, PTL

(***************************************************************************)
(* However many positions there are and however wide the fields, no single *)
(* fault of the transfer gets other positions past _control_error, and     *)
(* what passes next to the trailer as it was written has its count and its *)
(* totals.                                                                 *)
(***************************************************************************)
THEOREM DamageIsSeen ==
    ExtractSpec => []FaultsAreSeen
<1>1. ExtractInv => FaultsAreSeen
  <2> SUFFICES ASSUME ExtractInv, Accepted PROVE FaultsAreSeen
    BY DEF FaultsAreSeen
  <2>1. sent \in Seq(Positions) /\ SumOf(sent, 2) \in Nat /\ file \in Seq(LineSet)
        /\ damage \in Nat
    BY SentSums DEF ExtractInv, ExtractTypeOK, Positions
  <2>2. stage = "verified" /\ manifest = BuildManifest
    BY DEF ExtractInv, Accepted, NoManifest
  <2>3. ~ControlError
    BY <2>2 DEF Accepted, BuildManifest
  <2>4. ASSUME damage <= 1 PROVE AsSent
    <3>1. ASSUME NEW total \in Nat, file = Written(total) PROVE AsSent
      <4>1. /\ DetailLines = 2..(Len(sent) + 1)
            /\ \A i \in 2..(Len(sent) + 1) : Received[i] = sent[i - 1]
        BY <2>1, <3>1, WrittenIsRead
      <4>2. QED
        BY <2>1, <4>1, InPlace
    <3>2. damage = 0 \/ damage = 1
      BY <2>1, <2>4
    <3>3. SumOf(sent, 2) + 1 \in Nat
      BY <2>1
    <3>4. \/ file = Written(SumOf(sent, 2)) \/ file = Written(SumOf(sent, 2) + 1)
          \/ file \in Faulty(Written(SumOf(sent, 2)))
      BY <2>2, <3>2 DEF ExtractInv
    <3>5. QED
      BY <2>1, <2>3, <3>1, <3>3, <3>4, OneFault
  <2>5. ASSUME LastOf("99") = Trailer(SumOf(sent, 2))
        PROVE  /\ manifest.records = Len(sent)
               /\ manifest.quantity = SumOf(sent, 1)
               /\ manifest.value = SumOf(sent, 2)
    <3>1. Reconciles(LastOf("01"), LastOf("99"))
      BY <2>3 DEF ControlError
    <3> DEFINE T == Trailer(SumOf(sent, 2))
    <3>2. /\ Count(T) = Cardinality(DetailLines) + Cardinality(Rejects)
          /\ Rejects = {} /\ DetailsDecodable
          /\ ControlTotals = <<Quantity(T), Value(T)>>
      BY <2>5, <3>1 DEF Reconciles
    <3>3. Count(T) = Len(sent) /\ Quantity(T) = SumOf(sent, 1) /\ Value(T) = SumOf(sent, 2)
      BY <2>1, TrailerFacts
    <3> HIDE DEF T
    <3>4. Cardinality(DetailLines) = Len(sent)
      <4>1. Cardinality(Rejects) = 0
        BY <3>2, FS_EmptySet
      <4>2. Cardinality(DetailLines) \in Nat
        <5>1. DetailLines \subseteq 1..Len(file) /\ Len(file) \in Nat
          <6>1. \A k \in DetailLines : k \in DOMAIN file
            BY LineIsParsed DEF DetailLines
          <6>2. DOMAIN file = 1..Len(file) /\ Len(file) \in Nat
            BY <2>1
          <6>3. QED
            BY <6>1, <6>2
        <5>2. IsFiniteSet(1..Len(file))
          BY <5>1, FS_Interval
        <5>3. IsFiniteSet(DetailLines)
          BY <5>1, <5>2, FS_Subset
        <5>4. QED
          BY <5>3, FS_CardinalityType
      <4>3. QED
        BY <3>2, <3>3, <4>1, <4>2
    <3>5. QED
      BY <2>2, <3>2, <3>3, <3>4 DEF BuildManifest
  <2>6. QED
    BY <2>4, <2>5 DEF FaultsAreSeen, AsSent
<1>2. QED
  BY <1>1, ExtractInvHolds, PTL

(***************************************************************************)
(* Whatever positions are sent, a file that arrives as the generator wrote *)
(* it is accepted by build_manifest with their number and their totals.    *)
(***************************************************************************)
THEOREM SoundExtract ==
    ExtractSpec => []SoundFileIsTaken
<1>1. ExtractInv => SoundFileIsTaken
  <2> SUFFICES ASSUME ExtractInv, stage = "verified", damage = 0
               PROVE  /\ Accepted
                      /\ manifest.records = Len(sent)
                      /\ manifest.quantity = SumOf(sent, 1)
                      /\ manifest.value = SumOf(sent, 2)
    BY DEF SoundFileIsTaken
  <2> DEFINE n == Len(sent)
             T == Trailer(SumOf(sent, 2))
  <2>1. sent \in Seq(Positions) /\ SumOf(sent, 2) \in Nat /\ n \in Nat
    BY SentSums DEF ExtractInv, ExtractTypeOK, Positions
  <2>2. file = Written(SumOf(sent, 2)) /\ manifest = BuildManifest
    BY DEF ExtractInv
  <2>3. /\ Lines("01") = {1} /\ Lines("99") = {n + 2} /\ Rejects = {}
        /\ DetailsDecodable
        /\ ControlTotals = <<SumOf(sent, 1), SumOf(sent, 2)>>
        /\ Cardinality(DetailLines) = n
        /\ LastOf("01") = Header /\ LastOf("99") = T
    BY <2>1, <2>2, WrittenIsRead
  <2>4. /\ T.date = Cycle /\ Count(T) = n
        /\ Quantity(T) = SumOf(sent, 1) /\ Value(T) = SumOf(sent, 2) /\ Decodable(T)
    BY <2>1, TrailerFacts
  <2> HIDE DEF T
  <2>5. Header.date = Cycle
    BY HeaderFacts
  <2>6. Cardinality(Rejects) = 0
    BY <2>3, FS_EmptySet
  <2>7. Reconciles(Header, T)
    BY <2>1, <2>3, <2>4, <2>5, <2>6 DEF Reconciles
  <2>8. ~ControlError
    BY <2>3, <2>7 DEF ControlError
  <2>9. QED
    BY <2>2, <2>3, <2>8 DEF BuildManifest, Accepted
<1>2. QED
  BY <1>1, ExtractInvHolds, PTL
-----------------------------------------------------------------------------
(* The directories, the ledger and what is produced. *)

USE FileAssumption

LEMMA DetailsType ==
  ASSUME NEW b \in Batches
  PROVE  /\ Details(b) \subseteq Records
         /\ \A r \in Details(b) : r[1] = b
  BY DEF Details, Records

LEMMA CurrentType ==
  ASSUME TypeOK, StageInv, cur # 0
  PROVE  /\ cur \in Names /\ cur \in Waiting
         /\ landing[cur] \in Contents
         /\ Current \in Batches /\ Current[1] = cur /\ Current[2] = landing[cur]
  BY DEF TypeOK, StageInv, Waiting, Current, Batches

LEMMA TypeInit == Init => TypeOK /\ StageInv
  BY DEF Init, TypeOK, StageInv, Stages, Names, Batches, Records, Seconds

\* Only the rejected lines of a batch are published.
LEMMA PublishedType ==
  ASSUME NEW b \in Batches
  PROVE  Published(b) \subseteq UNION {BadLines(x) : x \in Batches}
  BY DEF Published, BadLines

\* What a directory holds with the file in hand: that file, and all but those
\* of its name and number.
LEMMA IntoFacts ==
  ASSUME TypeOK, StageInv, cur # 0,
         NEW dir \in SUBSET Copies, NEW suffix \in {0, second}
  PROVE  /\ Into(dir, suffix) \subseteq Copies
         /\ <<cur, suffix, landing[cur]>> \in Into(dir, suffix)
         /\ \A f \in Into(dir, suffix) : f \in dir \/ f = <<cur, suffix, landing[cur]>>
         /\ \A f \in dir \ Into(dir, suffix) : f[1] = cur /\ f[2] = suffix
<1>1. cur \in Names /\ landing[cur] \in Contents
  BY CurrentType
<1>2. suffix \in 0..MaxSecond
  BY DEF TypeOK, Seconds
<1>3. <<cur, suffix, landing[cur]>> \in Copies
  BY <1>1, <1>2 DEF Copies
<1> QED
  BY <1>3 DEF Into

LEMMA LeavesType ==
  ASSUME TypeOK, StageInv, pc \in {"archive", "quarantine"}, Leaves,
         archive' \subseteq Copies, quarantine' \subseteq Copies
  PROVE  TypeOK' /\ StageInv'
<1>1. Current \in Batches /\ cur \in Names
  BY CurrentType DEF StageInv
<1>2. moved' \subseteq Batches \X Seconds
  BY <1>1 DEF Leaves, TypeOK
<1>3. TypeOK'
  BY <1>1, <1>2 DEF Leaves, TypeOK, Stages, world, outputs
<1>4. StageInv'
  BY <1>1 DEF Leaves, TypeOK, StageInv, Names, Waiting, world, outputs
<1> QED
  BY <1>3, <1>4

\* The only thing typing needs to know of the stages is that a file is in
\* hand, so the two are shown together.
LEMMA TypeStep ==
  ASSUME TypeOK, StageInv, [Next]_vars
  PROVE  TypeOK' /\ StageInv'
<1> USE DEF TypeOK, StageInv, Stages, Waiting, world, directories, outputs, time
<1>1. ASSUME Arrive PROVE TypeOK' /\ StageInv'
  BY <1>1 DEF Arrive, Batches, Current, Good
<1>2. ASSUME Start PROVE TypeOK' /\ StageInv'
  BY <1>2 DEF Start, Current, Good
<1>3. ASSUME Scan PROVE TypeOK' /\ StageInv'
  BY <1>3 DEF Scan, Current, Good, Names
<1>4. ASSUME PassEnds PROVE TypeOK' /\ StageInv'
  BY <1>4 DEF PassEnds, Current, Good
<1>5. ASSUME Check PROVE TypeOK' /\ StageInv'
  <2> PICK n \in todo :
        /\ todo' = todo \ {n}
        /\ cur' = n
        /\ LET b == <<n, landing[n]>> IN
           \/ b \in ledger /\ pc' = "archive"
           \/ b \notin ledger /\ Good(b) /\ pc' = "produce"
           \/ b \notin ledger /\ ~Good(b) /\ feed = "custody" /\ pc' = "manifest"
    BY <1>5 DEF Check
  <2>1. n \in Waiting /\ n # 0 /\ Current' = <<n, landing[n]>>
    BY <1>5 DEF Check, Current, Names
  <2>2. TypeOK'
    BY <1>5, <2>1 DEF Check
  <2>3. StageInv'
    BY <1>5, <2>1 DEF Check, Good
  <2> QED
    BY <2>2, <2>3
<1>6. ASSUME ParseRaises PROVE TypeOK' /\ StageInv'
  BY <1>6 DEF ParseRaises, Current, Good
<1>7. ASSUME Produce PROVE TypeOK' /\ StageInv'
  <2>1. cur # 0 /\ Current' = Current
    BY <1>7 DEF Produce, Current
  <2>2. Current \in Batches /\ Details(Current) \subseteq Records
    BY <2>1, CurrentType, DetailsType
  <2>3. bus' \subseteq Records /\ passes' \in [Batches -> Nat]
    BY <1>7, <2>2 DEF Produce
  <2>4. TypeOK'
    BY <1>7, <2>3 DEF Produce
  <2>5. StageInv'
    BY <1>7, <2>1 DEF Produce, Good
  <2> QED
    BY <2>4, <2>5
<1>8. ASSUME EmitManifest PROVE TypeOK' /\ StageInv'
  <2>1. cur # 0 /\ Current' = Current
    BY <1>8 DEF EmitManifest, Current
  <2> QED
    BY <1>8, <2>1, CurrentType DEF EmitManifest, Good
<1>9. ASSUME RecordBatch PROVE TypeOK' /\ StageInv'
  <2>1. cur # 0 /\ Current' = Current
    BY <1>9 DEF RecordBatch, Current
  <2> QED
    BY <1>9, <2>1, CurrentType DEF RecordBatch, Good
<1>10. ASSUME PublishRejects \/ RejectsUndelivered PROVE TypeOK' /\ StageInv'
  <2>1. cur # 0 /\ Current' = Current
    BY <1>10 DEF PublishRejects, RejectsUndelivered, Current
  <2>2. Published(Current) \subseteq UNION {BadLines(b) : b \in Batches}
    BY <2>1, CurrentType, PublishedType
  <2>3. dlq' \subseteq UNION {BadLines(b) : b \in Batches} /\ faults' \in Nat
    BY <1>10, <2>2 DEF PublishRejects, RejectsUndelivered
  <2> QED
    BY <1>10, <2>1, <2>3 DEF PublishRejects, RejectsUndelivered, Good
<1>11. ASSUME Archive PROVE TypeOK' /\ StageInv'
  <2>1. cur # 0
    BY <1>11 DEF Archive
  <2>2. Suffix(archive) \in {0, second}
    BY DEF Suffix
  <2>3. archive' \subseteq Copies
    BY <1>11, <2>1, <2>2, IntoFacts DEF Archive
  <2> QED
    BY <1>11, <2>3, LeavesType DEF Archive
<1>12. ASSUME Quarantine PROVE TypeOK' /\ StageInv'
  <2>1. cur # 0
    BY <1>12 DEF Quarantine
  <2>2. Suffix(quarantine) \in {0, second}
    BY DEF Suffix
  <2>3. quarantine' \subseteq Copies
    BY <1>12, <2>1, <2>2, IntoFacts DEF Quarantine
  <2> QED
    BY <1>12, <2>3, LeavesType DEF Quarantine
<1>13. ASSUME Fault PROVE TypeOK' /\ StageInv'
  <2>1. pc \in {"produce", "manifest", "rejects"} =>
            /\ Current \in Batches /\ Details(Current) \subseteq Records
            /\ Published(Current) \subseteq UNION {BadLines(b) : b \in Batches}
    BY CurrentType, DetailsType, PublishedType
  <2>2. bus' \subseteq Records /\ manifests' \subseteq Batches
        /\ dlq' \subseteq UNION {BadLines(b) : b \in Batches}
        /\ passes' \in [Batches -> Nat] /\ ledger' \subseteq Batches
    BY <1>13, <2>1 DEF Fault
  <2> QED
    BY <1>13, <2>2 DEF Fault
<1>14. ASSUME SinkRecordsManifest PROVE TypeOK' /\ StageInv'
  BY <1>14 DEF SinkRecordsManifest, Current, Good
<1>15. ASSUME Tick PROVE TypeOK' /\ StageInv'
  BY <1>15 DEF Tick, Current, Good, Seconds
<1>16. CASE UNCHANGED vars
  BY <1>16 DEF vars, Current, Good
<1> QED
  BY <1>1, <1>2, <1>3, <1>4, <1>5, <1>6, <1>7, <1>8, <1>9, <1>10, <1>11,
     <1>12, <1>13, <1>14, <1>15, <1>16 DEF Next, Work

(***************************************************************************)
(* Every state of every behaviour is well typed.                           *)
(***************************************************************************)
THEOREM TypeCorrect == Spec => []TypeOK
<1>1. TypeOK /\ StageInv /\ [Next]_vars => (TypeOK /\ StageInv)'
  BY TypeStep
<1> QED
  BY <1>1, TypeInit, PTL DEF Spec
-----------------------------------------------------------------------------
LEMMA SharedStays ==
  ASSUME moved \subseteq moved', NEW b, SharesItsSecond(b)
  PROVE  SharesItsSecond(b)'
  BY DEF SharesItsSecond

\* Steps that leave the directories alone lose no evidence.
LEMMA EvidenceStep ==
  ASSUME IInv, UNCHANGED <<feed, landing, arrived, archive, quarantine, moved>>
  PROVE  CopyInv' /\ EvidenceIsKept'
<1>1. CopyInv'
  BY DEF IInv, CopyInv
<1>2. Kept' = Kept
  BY DEF Kept, Waiting
<1> QED
  BY <1>1, <1>2, SharedStays DEF IInv, EvidenceIsKept

LEMMA IInvInit == Init => IInv
<1> SUFFICES ASSUME Init PROVE IInv
  OBVIOUS
<1>1. TypeOK /\ StageInv
  BY TypeInit
<1>2. OrderInv /\ PassInv /\ FiledIsOnTheBus /\ CopyInv /\ EvidenceIsKept
  BY DEF Init, OrderInv, PassInv, FiledIsOnTheBus, CopyInv, EvidenceIsKept
<1> QED
  BY <1>1, <1>2 DEF IInv

\* Steps that touch no directory and nothing of what was delivered, produced
\* and recorded.
LEMMA QuietStep ==
  ASSUME IInv, UNCHANGED <<world, directories, ledger, bus, passes, manifests, moved>>,
         faults <= faults', faults' \in Nat,
         pc \notin {"manifest", "record"},
         pc' \in {"down", "scan", "check", "produce", "manifest", "archive", "quarantine"},
         pc' = "produce" => Current' \notin ledger,
         pc' = "manifest" => ~Good(Current'),
         pc' = "archive" => Current' \in ledger
  PROVE  OrderInv' /\ PassInv' /\ FiledIsOnTheBus' /\ CopyInv' /\ EvidenceIsKept'
<1> USE DEF world, directories
<1>1. OrderInv'
  BY DEF IInv, OrderInv, Good, Details
<1>2. PassInv'
  <2> SUFFICES ASSUME NEW b \in Batches
               PROVE  /\ passes[b] <= 1 + faults'
                      /\ \/ b \in ledger
                         \/ passes[b] <= faults'
                      /\ pc' = "produce" /\ b = Current' => passes[b] <= faults'
    BY DEF PassInv
  <2>1. /\ passes[b] \in Nat /\ faults \in Nat
        /\ passes[b] <= 1 + faults
        /\ b \in ledger \/ passes[b] <= faults
    BY DEF IInv, TypeOK, PassInv
  <2> QED
    BY <2>1
<1>3. FiledIsOnTheBus'
  BY DEF IInv, FiledIsOnTheBus, Good, Details
<1>4. CopyInv' /\ EvidenceIsKept'
  BY EvidenceStep
<1> QED
  BY <1>1, <1>2, <1>3, <1>4

LEMMA ArriveInv ==
  ASSUME IInv, Arrive
  PROVE  OrderInv' /\ PassInv' /\ FiledIsOnTheBus' /\ CopyInv' /\ EvidenceIsKept'
<1> PICK n \in Names \ Waiting, c \in Contents :
        /\ landing' = [landing EXCEPT ![n] = c]
        /\ arrived' = arrived \cup {<<n, c>>}
  BY DEF Arrive
<1>1. /\ landing[n] = None /\ landing'[n] = c /\ c # None
      /\ \A o \in Names \ {n} : landing'[o] = landing[o]
      /\ Waiting' = Waiting \cup {n}
  BY DEF IInv, TypeOK, Waiting
<1>2. cur' = cur /\ (cur # 0 => Current' = Current)
  BY <1>1, CurrentType DEF IInv, Arrive, Current
<1>3. UNCHANGED <<bus, passes, manifests, ledger, archive, quarantine, feed, pc, faults, moved>>
  BY DEF Arrive, outputs, time
<1>4. OrderInv'
  BY <1>2, <1>3 DEF IInv, OrderInv, StageInv, Good, Details
<1>5. PassInv'
  BY <1>2, <1>3 DEF IInv, PassInv, StageInv
<1>6. FiledIsOnTheBus'
  BY <1>1, <1>3 DEF IInv, FiledIsOnTheBus, Good, Details, TypeOK, Batches
<1>7. CopyInv'
  BY <1>3 DEF IInv, CopyInv
<1>8. EvidenceIsKept'
  <2>1. Kept \cup {<<n, c>>} \subseteq Kept'
    BY <1>1, <1>3 DEF Kept, Waiting
  <2>2. arrived' \ Kept' \subseteq arrived \ Kept
    BY <2>1
  <2> QED
    BY <1>3, <2>2, SharedStays DEF IInv, EvidenceIsKept
<1> QED
  BY <1>4, <1>5, <1>6, <1>7, <1>8

LEMMA ProduceInv ==
  ASSUME IInv, NEW some \in SUBSET Details(Current), pc = "produce",
         \/ some = Details(Current) /\ UNCHANGED <<cur, faults>> /\ pc' \in {"manifest", "record"}
         \/ faults' = faults + 1 /\ pc' = "down",
         UNCHANGED <<world, directories, ledger, manifests, moved>>,
         bus' = bus \cup some,
         passes' = [passes EXCEPT ![Current] = @ + 1]
  PROVE  OrderInv' /\ PassInv' /\ FiledIsOnTheBus' /\ CopyInv' /\ EvidenceIsKept'
<1> USE DEF world, directories
<1>1. /\ Current \in Batches /\ Good(Current)
      /\ \A r \in some : r[1] = Current
      /\ UNCHANGED cur => Current' = Current
  BY CurrentType, DetailsType DEF IInv, StageInv, Current
<1>2. OrderInv'
  BY <1>1 DEF IInv, OrderInv, Good, Details
<1>3. PassInv'
  <2> SUFFICES ASSUME NEW b \in Batches
               PROVE  /\ passes'[b] <= 1 + faults'
                      /\ \/ b \in ledger
                         \/ passes'[b] <= faults'
                         \/ pc' \in {"manifest", "record"} /\ b = Current'
                      /\ pc' = "produce" /\ b = Current' => passes'[b] <= faults'
    BY DEF PassInv
  <2>1. /\ passes[b] \in Nat /\ faults \in Nat
        /\ passes[b] <= 1 + faults
        /\ b \in ledger \/ passes[b] <= faults
        /\ b = Current => passes[b] <= faults
    BY DEF IInv, TypeOK, PassInv
  <2>2. passes'[b] = IF b = Current THEN passes[b] + 1 ELSE passes[b]
    BY <1>1 DEF IInv, TypeOK
  <2> QED
    BY <1>1, <2>1, <2>2
<1>4. FiledIsOnTheBus'
  BY DEF IInv, FiledIsOnTheBus, Good, Details
<1>5. CopyInv' /\ EvidenceIsKept'
  BY EvidenceStep
<1> QED
  BY <1>2, <1>3, <1>4, <1>5

\* A manifest or an entry of the ledger, for the batch in hand or, by the
\* sink, for one with a manifest.
LEMMA RecordInv ==
  ASSUME IInv, NEW b \in Batches,
         \/ b = Current /\ pc \in {"manifest", "record"}
         \/ b \in manifests,
         UNCHANGED <<world, directories, bus, passes, moved>>,
         manifests' \in {manifests, manifests \cup {b}},
         ledger' \in {ledger, ledger \cup {b}},
         \/ UNCHANGED <<pc, cur, faults>>
         \/ /\ UNCHANGED <<cur, faults>>
            /\ pc = "manifest" /\ pc' = "record"
         \/ /\ UNCHANGED <<cur, faults>> /\ b = Current /\ ledger' = ledger \cup {b}
            /\ pc = "record" /\ pc' \in {"archive", "rejects"}
         \/ pc' = "down" /\ faults' = faults + 1
  PROVE  OrderInv' /\ PassInv' /\ FiledIsOnTheBus' /\ CopyInv' /\ EvidenceIsKept'
<1> USE DEF world, directories
<1>1. /\ Good(b) => Details(b) \subseteq bus
      /\ UNCHANGED cur => Current' = Current
  BY DEF IInv, OrderInv, Current
<1>2. OrderInv'
  <2>1. \A x \in manifests' \cup ledger' : Good(x) => Details(x) \subseteq bus
    BY <1>1 DEF IInv, OrderInv
  <2> QED
    BY <1>1, <2>1 DEF IInv, OrderInv, Good, Details
<1>3. PassInv'
  <2> SUFFICES ASSUME NEW x \in Batches
               PROVE  /\ passes[x] <= 1 + faults'
                      /\ \/ x \in ledger'
                         \/ passes[x] <= faults'
                         \/ pc' \in {"manifest", "record"} /\ x = Current'
                      /\ pc' = "produce" /\ x = Current' => passes[x] <= faults'
    BY DEF PassInv
  <2>1. /\ passes[x] \in Nat /\ faults \in Nat
        /\ passes[x] <= 1 + faults
        /\ \/ x \in ledger
           \/ passes[x] <= faults
           \/ pc \in {"manifest", "record"} /\ x = Current
        /\ pc = "produce" /\ x = Current => passes[x] <= faults
    BY DEF IInv, TypeOK, PassInv
  <2> QED
    BY <1>1, <2>1
<1>4. FiledIsOnTheBus'
  BY DEF IInv, FiledIsOnTheBus, Good, Details
<1>5. CopyInv' /\ EvidenceIsKept'
  BY EvidenceStep
<1> QED
  BY <1>2, <1>3, <1>4, <1>5

\* The file in hand leaves the landing directory.
LEMMA MoveInv ==
  ASSUME IInv, pc \in {"archive", "quarantine"}, Leaves,
         NEW dir \in SUBSET Copies, NEW other, NEW suffix \in {0, second},
         archive \cup quarantine = dir \cup other,
         archive' \cup quarantine' = Into(dir, suffix) \cup other,
         feed = "custody" /\ suffix = 0 => \A f \in dir : ~(f[1] = cur /\ f[2] = 0)
  PROVE  OrderInv' /\ PassInv' /\ FiledIsOnTheBus' /\ CopyInv' /\ EvidenceIsKept'
<1> USE DEF Leaves, world, outputs
<1>1. /\ cur \in Names /\ cur \in Waiting /\ Current \in Batches
      /\ landing[cur] # None
      /\ Current[1] = cur /\ Current[2] = landing[cur]
      /\ Good(Current) => Details(Current) \subseteq bus
      /\ \A n \in Names \ {cur} : landing'[n] = landing[n]
      /\ landing'[cur] = None
  BY CurrentType DEF IInv, StageInv, TypeOK, OrderInv, Waiting
<1>2. OrderInv'
  BY DEF IInv, OrderInv, Good, Details
<1>3. PassInv'
  <2> SUFFICES ASSUME NEW b \in Batches
               PROVE  passes[b] <= 1 + faults /\ (b \in ledger \/ passes[b] <= faults)
    BY DEF PassInv
  <2> QED
    BY DEF IInv, PassInv
<1>4. FiledIsOnTheBus'
  <2> SUFFICES ASSUME NEW b \in arrived, Good(b), landing'[b[1]] # b[2]
               PROVE  Details(b) \subseteq bus
    BY DEF FiledIsOnTheBus, Good, Details
  <2>1. b \in Batches /\ b = <<b[1], b[2]>> /\ b[1] \in Names
    BY DEF IInv, TypeOK, Batches
  <2>2. CASE landing[b[1]] = b[2]
    <3>1. b = Current
      BY <1>1, <2>1, <2>2 DEF Current
    <3> QED
      BY <1>1, <3>1
  <2>3. CASE landing[b[1]] # b[2]
    BY <2>3 DEF IInv, FiledIsOnTheBus
  <2> QED
    BY <2>2, <2>3
<1>5. /\ <<cur, suffix, landing[cur]>> \in Into(dir, suffix)
      /\ \A f \in Into(dir, suffix) : f \in dir \/ f = <<cur, suffix, landing[cur]>>
      /\ \A f \in dir \ Into(dir, suffix) : f[1] = cur /\ f[2] = suffix
  BY IntoFacts DEF IInv, StageInv
<1>6. CopyInv'
  <2> SUFFICES ASSUME NEW f \in archive' \cup quarantine', f[2] # 0
               PROVE  <<<<f[1], f[3]>>, f[2]>> \in moved'
    BY DEF CopyInv
  <2>1. CASE f \in archive \cup quarantine
    BY <2>1 DEF IInv, CopyInv
  <2>2. CASE f = <<cur, suffix, landing[cur]>>
    BY <2>2 DEF Current
  <2> QED
    BY <1>5, <2>1, <2>2
<1>7. EvidenceIsKept'
  <2> SUFFICES ASSUME feed = "custody", NEW b \in arrived, b \notin Kept'
               PROVE  SharesItsSecond(b)'
    BY DEF EvidenceIsKept
  <2>1. \A f \in archive' \cup quarantine' : b # <<f[1], f[3]>>
    BY DEF Kept
  <2>2. b # Current
    BY <1>5, <2>1 DEF Current
  <2>3. CASE b \notin Kept
    BY <2>3, SharedStays DEF IInv, EvidenceIsKept
  <2>4. CASE \E n \in Waiting : b = <<n, landing[n]>>
    <3> PICK n \in Waiting : b = <<n, landing[n]>>
      BY <2>4
    <3>1. n # cur
      BY <2>2 DEF Current
    <3>2. n \in Waiting' /\ landing'[n] = landing[n]
      BY <1>1, <3>1 DEF Waiting
    <3> QED
      BY <3>2 DEF Kept
  <2>5. CASE \E f \in archive \cup quarantine : b = <<f[1], f[3]>>
    <3> PICK f \in archive \cup quarantine : b = <<f[1], f[3]>>
      BY <2>5
    <3>1. f[1] = cur /\ f[2] = suffix /\ f \in dir
      BY <1>5, <2>1
    <3>2. suffix # 0 /\ suffix = second
      BY <3>1
    <3>3. <<b, second>> \in moved' /\ <<Current, second>> \in moved'
      BY <3>1, <3>2 DEF IInv, CopyInv
    <3>4. /\ b[1] = cur /\ Current = <<b[1], landing[cur]>>
          /\ landing[cur] \in Contents \ {b[2]} /\ second \in Seconds
      BY <1>1, <2>2, <3>1, CurrentType DEF Current, IInv, TypeOK, StageInv
    <3> QED
      BY <3>3, <3>4 DEF SharesItsSecond
  <2> QED
    BY <2>3, <2>4, <2>5 DEF Kept
<1> QED
  BY <1>2, <1>3, <1>4, <1>6, <1>7

LEMMA IInvStep == IInv /\ [Next]_vars => IInv'
<1> SUFFICES ASSUME IInv, [Next]_vars PROVE IInv'
  OBVIOUS
<1> DEFINE Rest == OrderInv /\ PassInv /\ FiledIsOnTheBus /\ CopyInv /\ EvidenceIsKept
<1> USE DEF time
<1>0. TypeOK' /\ StageInv'
  BY TypeStep DEF IInv
<1>1. ASSUME Arrive PROVE Rest'
  BY <1>1, ArriveInv
<1>2. ASSUME Start PROVE Rest'
  BY <1>2, QuietStep DEF Start, IInv, TypeOK, outputs
<1>3. ASSUME Scan PROVE Rest'
  BY <1>3, QuietStep DEF Scan, IInv, TypeOK, outputs
<1>4. ASSUME PassEnds PROVE Rest'
  BY <1>4, QuietStep DEF PassEnds, IInv, TypeOK, outputs
<1>5. ASSUME Check PROVE Rest'
  BY <1>5, QuietStep DEF Check, IInv, TypeOK, Current, directories, outputs, Good
<1>6. ASSUME ParseRaises PROVE Rest'
  BY <1>6, QuietStep DEF ParseRaises, IInv, TypeOK, outputs
<1>7. ASSUME Produce PROVE Rest'
  BY <1>7, ProduceInv DEF Produce
<1>8. ASSUME EmitManifest PROVE Rest'
  <2>1. Current \in Batches
    BY <1>8, CurrentType DEF EmitManifest, IInv, StageInv
  <2> QED
    BY <1>8, <2>1, RecordInv DEF EmitManifest
<1>9. ASSUME RecordBatch PROVE Rest'
  <2>1. Current \in Batches
    BY <1>9, CurrentType DEF RecordBatch, IInv, StageInv
  <2> QED
    BY <1>9, <2>1, RecordInv DEF RecordBatch
<1>10. ASSUME PublishRejects \/ RejectsUndelivered PROVE Rest'
  BY <1>10, QuietStep DEF PublishRejects, RejectsUndelivered, IInv, TypeOK
<1>11. ASSUME Archive PROVE Rest'
  <2> DEFINE suffix == IF feed = "custody" THEN Suffix(archive) ELSE 0
  <2>1. /\ archive \in SUBSET Copies /\ suffix \in {0, second}
        /\ feed = "custody" /\ suffix = 0 => \A f \in archive : ~(f[1] = cur /\ f[2] = 0)
    BY DEF IInv, TypeOK, Suffix, Seconds
  <2>2. pc \in {"archive", "quarantine"} /\ Leaves
        /\ archive' = Into(archive, suffix) /\ quarantine' = quarantine
    BY <1>11 DEF Archive
  <2> HIDE DEF suffix
  <2> QED
    BY <2>1, <2>2, MoveInv
<1>12. ASSUME Quarantine PROVE Rest'
  <2> DEFINE suffix == Suffix(quarantine)
  <2>1. /\ quarantine \in SUBSET Copies /\ suffix \in {0, second}
        /\ feed = "custody" /\ suffix = 0 => \A f \in quarantine : ~(f[1] = cur /\ f[2] = 0)
    BY DEF IInv, TypeOK, Suffix, Seconds
  <2>2. pc \in {"archive", "quarantine"} /\ Leaves
        /\ quarantine' = Into(quarantine, suffix) /\ archive' = archive
    BY <1>12 DEF Quarantine
  <2>3. /\ archive \cup quarantine = quarantine \cup archive
        /\ archive' \cup quarantine' = Into(quarantine, suffix) \cup archive
    BY <2>2
  <2> HIDE DEF suffix
  <2> QED
    BY <2>1, <2>2, <2>3, MoveInv
<1>13. ASSUME Fault PROVE Rest'
  <2>1. CASE pc \in {"manifest", "record"}
    <3>1. Current \in Batches
      BY <2>1, CurrentType DEF IInv, StageInv
    <3> QED
      BY <1>13, <2>1, <3>1, RecordInv DEF Fault, outputs
  <2>2. CASE pc = "produce" /\ ~UNCHANGED outputs
    <3> PICK some \in SUBSET Details(Current) : bus' = bus \cup some
      BY <1>13, <2>2 DEF Fault
    <3> QED
      BY <1>13, <2>2, ProduceInv DEF Fault
  <2>3. CASE pc \notin {"manifest", "record"} /\ UNCHANGED <<ledger, bus, passes, manifests>>
    BY <1>13, <2>3, QuietStep DEF Fault, IInv, TypeOK
  <2> QED
    BY <1>13, <2>1, <2>2, <2>3 DEF Fault, outputs
<1>14. ASSUME SinkRecordsManifest PROVE Rest'
  <2> PICK b \in manifests \ ledger : ledger' = ledger \cup {b}
    BY <1>14 DEF SinkRecordsManifest
  <2>1. b \in Batches
    BY DEF IInv, TypeOK
  <2> QED
    BY <1>14, <2>1, RecordInv DEF SinkRecordsManifest
<1>15. ASSUME Tick \/ UNCHANGED vars PROVE Rest'
  <2> USE <1>15 DEF Tick, vars, world, directories, outputs, Good, Details, Current
  <2>1. OrderInv'
    BY DEF IInv, OrderInv
  <2>2. PassInv'
    BY DEF IInv, PassInv
  <2>3. FiledIsOnTheBus'
    BY DEF IInv, FiledIsOnTheBus
  <2>4. CopyInv' /\ EvidenceIsKept'
    BY EvidenceStep
  <2> QED
    BY <2>1, <2>2, <2>3, <2>4
<1> QED
  BY <1>0, <1>1, <1>2, <1>3, <1>4, <1>5, <1>6, <1>7, <1>8, <1>9, <1>10,
     <1>11, <1>12, <1>13, <1>14, <1>15 DEF Next, Work, IInv

(***************************************************************************)
(* The inductive invariant holds in every reachable state.                 *)
(***************************************************************************)
THEOREM Invariance == Spec => []IInv
  BY IInvInit, IInvStep, PTL DEF Spec

(***************************************************************************)
(* A manifest is only ever seen with all the records of its batch, or with *)
(* none when the batch failed.                                             *)
(***************************************************************************)
THEOREM ManifestsAreTrue == Spec => []ManifestClosesTheCycle
<1>1. IInv => ManifestClosesTheCycle
  <2> SUFFICES ASSUME IInv, NEW b \in manifests, ~Good(b), NEW r \in Details(b) \cap bus
               PROVE  FALSE
    BY DEF IInv, OrderInv, ManifestClosesTheCycle
  <2>1. b \in Batches /\ Good(r[1])
    BY DEF IInv, TypeOK, OrderInv
  <2> QED
    BY <2>1, DetailsType
<1> QED
  BY <1>1, Invariance, PTL

(***************************************************************************)
(* No good file is moved away before its records are on the bus.           *)
(***************************************************************************)
THEOREM NothingIsSkipped == Spec => []FiledIsOnTheBus
<1>1. IInv => FiledIsOnTheBus
  BY DEF IInv
<1> QED
  BY <1>1, Invariance, PTL

(***************************************************************************)
(* Only faults make a batch go to the bus more than once.                  *)
(***************************************************************************)
THEOREM ProducedOnce == Spec => []OneProductionPerFault
<1>1. IInv => OneProductionPerFault
  BY DEF IInv, PassInv, OneProductionPerFault
<1> QED
  BY <1>1, Invariance, PTL

(***************************************************************************)
(* No custody file is lost but to another of its name that is moved in the *)
(* same second: however many deliveries, faults and restarts there are.    *)
(***************************************************************************)
THEOREM FilesAreKept == Spec => []EvidenceIsKept
<1>1. IInv => EvidenceIsKept
  BY DEF IInv
<1> QED
  BY <1>1, Invariance, PTL
-----------------------------------------------------------------------------
(* The rejected lines a fault may lose. *)

\* A step that lets no file go unsettled, or one of the faults that do.
LEMMA CountStep ==
  ASSUME IsFiniteSet(Unsettled), Cardinality(Unsettled) <= faults, faults \in Nat,
         \/ Unsettled' \subseteq Unsettled /\ faults' = faults
         \/ Unsettled' \subseteq Unsettled \cup {Current} /\ faults' = faults + 1
  PROVE  IsFiniteSet(Unsettled') /\ Cardinality(Unsettled') <= faults'
<1>1. CASE Unsettled' \subseteq Unsettled /\ faults' = faults
  <2>1. /\ IsFiniteSet(Unsettled') /\ Cardinality(Unsettled') <= Cardinality(Unsettled)
    BY <1>1, FS_Subset
  <2>2. Cardinality(Unsettled') \in Nat /\ Cardinality(Unsettled) \in Nat
    BY <2>1, FS_CardinalityType
  <2> QED
    BY <1>1, <2>1, <2>2
<1>2. CASE Unsettled' \subseteq Unsettled \cup {Current} /\ faults' = faults + 1
  <2> DEFINE more == Unsettled \cup {Current}
  <2>1. IsFiniteSet(more) /\ Cardinality(more) <= Cardinality(Unsettled) + 1
    <3>1. /\ IsFiniteSet(more)
          /\ Cardinality(more) = IF Current \in Unsettled THEN Cardinality(Unsettled)
                                                         ELSE Cardinality(Unsettled) + 1
      BY FS_AddElement
    <3>2. Cardinality(Unsettled) \in Nat
      BY FS_CardinalityType
    <3> QED
      BY <3>1, <3>2
  <2> HIDE DEF more
  <2>2. Unsettled' \subseteq more
    BY <1>2 DEF more
  <2>3. /\ IsFiniteSet(Unsettled') /\ Cardinality(Unsettled') <= Cardinality(more)
    BY <2>1, <2>2, FS_Subset
  <2>4. /\ Cardinality(Unsettled') \in Nat /\ Cardinality(Unsettled) \in Nat
        /\ Cardinality(more) \in Nat
    BY <2>1, <2>3, FS_CardinalityType
  <2> QED
    BY <1>2, <2>1, <2>3, <2>4
<1> QED
  BY <1>1, <1>2

\* The files that are settled stay so, but for the one a fault takes.
LEMMA UnsettledStep ==
  ASSUME IInv, [Next]_vars
  PROVE  \/ Unsettled' \subseteq Unsettled /\ faults' = faults
         \/ Unsettled' \subseteq Unsettled \cup {Current} /\ faults' = faults + 1
<1> DEFINE Same == Unsettled' \subseteq Unsettled /\ faults' = faults
<1> USE DEF world, directories, outputs, time
<1>1. ASSUME Arrive PROVE Same
  <2>1. cur # 0 => Current' = Current
    <3>1. cur # 0 => cur \in Waiting
      BY CurrentType DEF IInv
    <3> QED
      BY <1>1, <3>1 DEF Arrive, Current, IInv, TypeOK
  <2>2. pc \in {"manifest", "record", "rejects"} => cur # 0
    BY DEF IInv, StageInv
  <2> QED
    BY <1>1, <2>1, <2>2 DEF Arrive, Unsettled
<1>2. ASSUME Start \/ Scan \/ PassEnds \/ Check \/ ParseRaises PROVE Same
  BY <1>2 DEF Start, Scan, PassEnds, Check, ParseRaises, Unsettled
<1>3. ASSUME Produce PROVE Same
  BY <1>3 DEF Produce, Unsettled
<1>4. ASSUME EmitManifest PROVE Same
  BY <1>4 DEF EmitManifest, Unsettled, Current
<1>5. ASSUME RecordBatch PROVE Same
  <2>1. Good(Current) => Published(Current) \subseteq dlq
    <3>1. cur # 0
      BY <1>5 DEF RecordBatch, IInv, StageInv
    <3> QED
      BY <3>1, CurrentType DEF Good, Published, BadLines, IInv
  <2> QED
    BY <1>5, <2>1 DEF RecordBatch, Unsettled, Current, Good
<1>6. ASSUME PublishRejects PROVE Same
  BY <1>6 DEF PublishRejects, Unsettled, Current
<1>7. ASSUME Archive \/ Quarantine PROVE Same
  BY <1>7 DEF Archive, Quarantine, Leaves, Unsettled
<1>8. ASSUME Fault \/ RejectsUndelivered
      PROVE  Unsettled' \subseteq Unsettled \cup {Current} /\ faults' = faults + 1
  <2>1. /\ ledger' = ledger /\ manifests' \subseteq manifests \cup {Current}
        /\ dlq \subseteq dlq' /\ pc' \in {"down", "quarantine"} /\ faults' = faults + 1
    BY <1>8 DEF Fault, RejectsUndelivered
  <2> QED
    BY <2>1 DEF Unsettled
<1>9. ASSUME SinkRecordsManifest PROVE Same
  BY <1>9 DEF SinkRecordsManifest, Unsettled, Current
<1>10. CASE Tick \/ UNCHANGED vars
  BY <1>10 DEF Tick, vars, Unsettled, Current
<1> QED
  BY <1>1, <1>2, <1>3, <1>4, <1>5, <1>6, <1>7, <1>8, <1>9, <1>10 DEF Next, Work

\* A file that has left the landing directory is in the ledger.
LEMMA LeftStep ==
  ASSUME IInv, LossInv, [Next]_vars
  PROVE  /\ \A b \in arrived' : landing'[b[1]] # b[2] => b \in ledger'
         /\ pc' \in {"rejects", "archive", "quarantine"} => Current' \in ledger'
<1> DEFINE Left == \A b \in arrived : landing[b[1]] # b[2] => b \in ledger
           Known == pc \in {"rejects", "archive", "quarantine"} => Current \in ledger
<1> USE DEF world, directories, outputs, time
<1>0. Left /\ Known
  BY DEF LossInv
<1>1. ASSUME Arrive PROVE Left' /\ Known'
  <2> PICK n \in Names \ Waiting, c \in Contents :
        /\ landing' = [landing EXCEPT ![n] = c]
        /\ arrived' = arrived \cup {<<n, c>>}
    BY <1>1 DEF Arrive
  <2>1. /\ landing[n] = None /\ landing'[n] = c
        /\ \A o \in Names \ {n} : landing'[o] = landing[o]
        /\ UNCHANGED <<ledger, pc, cur>>
    BY <1>1 DEF Arrive, IInv, TypeOK, Waiting
  <2>2. ASSUME NEW b \in arrived, landing'[b[1]] # b[2] PROVE b \in ledger
    <3>1. b[1] \in Names /\ b[2] # None
      BY DEF IInv, TypeOK, Batches
    <3>2. landing[b[1]] # b[2]
      BY <2>1, <2>2, <3>1
    <3> QED
      BY <1>0, <3>2
  <2>3. Left'
    BY <2>1, <2>2
  <2>4. cur # 0 => cur \in Waiting
    BY CurrentType DEF IInv
  <2>5. pc \in {"rejects", "archive", "quarantine"} => cur # 0 /\ cur \in Names \ {n}
    BY <2>4 DEF IInv, StageInv, Waiting
  <2>6. Known'
    BY <1>0, <2>1, <2>5 DEF Current
  <2> QED
    BY <2>3, <2>6
<1>2. ASSUME Start \/ Scan \/ PassEnds \/ ParseRaises PROVE Left' /\ Known'
  BY <1>0, <1>2 DEF Start, Scan, PassEnds, ParseRaises
<1>3. ASSUME Check PROVE Left' /\ Known'
  BY <1>0, <1>3 DEF Check, Current
<1>4. ASSUME Produce \/ EmitManifest PROVE Left' /\ Known'
  BY <1>0, <1>4 DEF Produce, EmitManifest
<1>5. ASSUME RecordBatch PROVE Left' /\ Known'
  BY <1>0, <1>5 DEF RecordBatch, Current
<1>6. ASSUME PublishRejects \/ RejectsUndelivered PROVE Left' /\ Known'
  BY <1>0, <1>6 DEF PublishRejects, RejectsUndelivered, Current
<1>7. ASSUME Archive \/ Quarantine PROVE Left' /\ Known'
  <2>1. /\ landing' = [landing EXCEPT ![cur] = None] /\ Current \in ledger
        /\ UNCHANGED <<arrived, ledger>> /\ pc' = "check" /\ cur \in Names
    BY <1>0, <1>7, CurrentType DEF Archive, Quarantine, Leaves, IInv, StageInv
  <2>2. ASSUME NEW b \in arrived, landing'[b[1]] # b[2] PROVE b \in ledger
    <3>1. b = <<b[1], b[2]>> /\ b[1] \in Names
      BY DEF IInv, TypeOK, Batches
    <3>2. CASE b[1] = cur /\ b[2] = landing[cur]
      BY <2>1, <3>1, <3>2 DEF Current
    <3>3. CASE b[1] = cur /\ b[2] # landing[cur]
      BY <1>0, <3>3
    <3>4. CASE b[1] # cur
      BY <1>0, <2>1, <2>2, <3>1, <3>4 DEF IInv, TypeOK
    <3> QED
      BY <3>2, <3>3, <3>4
  <2> QED
    BY <2>1, <2>2
<1>8. ASSUME Fault PROVE Left' /\ Known'
  BY <1>0, <1>8 DEF Fault
<1>9. ASSUME SinkRecordsManifest PROVE Left' /\ Known'
  BY <1>0, <1>9 DEF SinkRecordsManifest, Current
<1>10. CASE Tick \/ UNCHANGED vars
  BY <1>0, <1>10 DEF Tick, vars, Current
<1> QED
  BY <1>1, <1>2, <1>3, <1>4, <1>5, <1>6, <1>7, <1>8, <1>9, <1>10 DEF Next, Work

(***************************************************************************)
(* Of the rejected lines that are published (the first RejectLimit of a    *)
(* file), a fault loses those of one file at the most, whatever is         *)
(* delivered again after it and whoever writes the ledger.  A flush that   *)
(* leaves lines undelivered is such a fault, though nobody looks at it.    *)
(***************************************************************************)
THEOREM RejectsAreRarelyLost == Spec => []RejectsLostPerFault
<1>1. Init => LossInv
  <2> SUFFICES ASSUME Init PROVE LossInv
    OBVIOUS
  <2>1. Unsettled = {}
    BY DEF Init, Unsettled, Published
  <2>2. IsFiniteSet(Unsettled) /\ Cardinality(Unsettled) = 0
    BY <2>1, FS_EmptySet
  <2> QED
    BY <2>2 DEF Init, LossInv
<1>2. IInv /\ LossInv /\ [Next]_vars => LossInv'
  <2> SUFFICES ASSUME IInv, LossInv, [Next]_vars PROVE LossInv'
    OBVIOUS
  <2>1. IsFiniteSet(Unsettled) /\ Cardinality(Unsettled) <= faults /\ faults \in Nat
    BY DEF LossInv, IInv, TypeOK
  <2>2. IsFiniteSet(Unsettled') /\ Cardinality(Unsettled') <= faults'
    BY <2>1, CountStep, UnsettledStep
  <2> QED
    BY <2>2, LeftStep DEF LossInv
<1>3. IInv /\ LossInv => RejectsLostPerFault
  <2> SUFFICES ASSUME IInv, LossInv PROVE RejectsLostPerFault
    OBVIOUS
  <2>1. LostRejects \subseteq Unsettled
    <3> SUFFICES ASSUME NEW b \in LostRejects PROVE b \in Unsettled
      OBVIOUS
    <3>1. b \in arrived /\ landing[b[1]] # b[2] /\ b \in ledger
      BY DEF LostRejects, LossInv
    <3>2. b # Current
      BY <3>1 DEF Current
    <3> QED
      BY <3>1, <3>2 DEF LostRejects, Unsettled
  <2>2. IsFiniteSet(Unsettled) /\ Cardinality(Unsettled) <= faults /\ faults \in Nat
    BY DEF LossInv, IInv, TypeOK
  <2>3. IsFiniteSet(LostRejects) /\ Cardinality(LostRejects) <= Cardinality(Unsettled)
    BY <2>1, <2>2, FS_Subset
  <2>4. Cardinality(LostRejects) \in Nat /\ Cardinality(Unsettled) \in Nat
    BY <2>2, <2>3, FS_CardinalityType
  <2> QED
    BY <2>2, <2>3, <2>4 DEF RejectsLostPerFault
<1> QED
  BY <1>1, <1>2, <1>3, Invariance, PTL DEF Spec
=============================================================================
