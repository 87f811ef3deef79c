------------------------------ MODULE SumProofs ------------------------------
(***************************************************************************)
(* What the other proofs use of sums.  Induction comes from the least      *)
(* element of a set of numbers, since the induction theorems of the        *)
(* library take an operator, which the provers here cannot instantiate.    *)
(***************************************************************************)
EXTENDS Sums, SequenceTheorems, WellFoundedInduction, TLAPS

\* A set of numbers has a least element.
LEMMA LeastNumber ==
  ASSUME NEW T, T \subseteq Nat, T # {}
  PROVE  \E x \in T : \A y \in T : ~(y < x)
<1>. DEFINE R == {ss \in Nat \X Nat : ss[1] < ss[2]}
<1>1. IsWellFoundedOn(R, Nat)
  BY NatLessThanWellFounded DEF OpToRel
<1>2. \A x, y \in Nat : y < x => <<y, x>> \in R
  OBVIOUS
<1>. HIDE DEF R
<1>3. \E x \in T : \A y \in T : ~ (<<y, x>> \in R)
  BY <1>1, WFMin
<1>. QED BY <1>2, <1>3

\* Induction: a set with 0 and every successor up to n has all numbers up to n.
LEMMA SetInduction ==
  ASSUME NEW n \in Nat, NEW T, 0 \in T, \A i \in 0..(n - 1) : i \in T => i + 1 \in T
  PROVE  0..n \subseteq T
<1>. DEFINE Out == 0..n \ T
<1>1. CASE Out = {}
  BY <1>1
<1>2. CASE Out # {}
  <2>1. PICK x \in Out : \A y \in Out : ~(y < x)
    <3>1. Out \subseteq Nat
      OBVIOUS
    <3>. HIDE DEF Out
    <3>. QED BY <1>2, <3>1, LeastNumber
  <2>2. x # 0 /\ x \in 0..n
    BY <2>1
  <2>3. x - 1 \in 0..(n - 1) /\ x - 1 < x /\ (x - 1) + 1 = x
    BY <2>2
  <2>4. x - 1 \in T
    BY <2>1, <2>3
  <2>. QED BY <2>3, <2>4
<1>. QED BY <1>1, <1>2

\* A function with a first value and, for each number up to n, a next one exists.
Follows(g, n, a, step) == g[0] = a /\ \A i \in 1..n : g[i] = step[<<i, g[i - 1]>>]

LEMMA Recursion ==
  ASSUME NEW n \in Nat, NEW S, NEW a \in S, NEW step \in [(1..n) \X S -> S]
  PROVE  \E g \in [0..n -> S] : Follows(g, n, a, step)
<1>. DEFINE Fits(g, k) == g[0] = a /\ \A i \in 1..k : g[i] = step[<<i, g[i - 1]>>]
            T == {k \in 0..n : \E g \in [0..k -> S] : Fits(g, k)}
<1>1. 0 \in T
  <2>1. [i \in 0..0 |-> a] \in [0..0 -> S] /\ Fits([i \in 0..0 |-> a], 0)
    OBVIOUS
  <2>2. 0 \in 0..n
    OBVIOUS
  <2>. HIDE DEF Fits
  <2>. QED  BY <2>1, <2>2
<1>2. ASSUME NEW k \in 0..(n - 1), k \in T
      PROVE  k + 1 \in T
  <2>1. PICK g \in [0..k -> S] : Fits(g, k)
    BY <1>2
  <2>. DEFINE next == step[<<k + 1, g[k]>>]
              h == [i \in 0..(k + 1) |-> IF i = k + 1 THEN next ELSE g[i]]
  <2>2. k \in Nat /\ k + 1 \in 1..n /\ k \in 0..k
    OBVIOUS
  <2>3. next \in S
    BY <2>2
  <2>4. h \in [0..(k + 1) -> S]
    <3>. HIDE DEF next
    <3>. QED  BY <2>2, <2>3
  <2>5. Fits(h, k + 1)
    <3>1. h[0] = a
      BY <2>1, <2>2
    <3>2. ASSUME NEW i \in 1..k PROVE h[i] = step[<<i, h[i - 1]>>]
      <4>1. h[i] = g[i] /\ h[i - 1] = g[i - 1]
        BY <2>2
      <4>. QED  BY <2>1, <4>1
    <3>3. h[k + 1] = step[<<k + 1, h[k]>>]
      <4>1. h[k + 1] = next /\ h[k] = g[k]
        BY <2>2
      <4>. QED  BY <4>1
    <3>4. \A i \in 1..(k + 1) : i \in 1..k \/ i = k + 1
      BY <2>2
    <3>5. (k + 1) - 1 = k
      BY <2>2
    <3>. HIDE DEF h
    <3>. QED  BY <3>1, <3>2, <3>3, <3>4, <3>5
  <2>6. k + 1 \in 0..n
    BY <2>2
  <2>. HIDE DEF h, Fits
  <2>. QED  BY <2>4, <2>5, <2>6
<1>3. n \in T
  <2>. HIDE DEF T
  <2>1. 0..n \subseteq T
    BY <1>1, <1>2, SetInduction
  <2>. QED  BY <2>1
<1>. QED  BY <1>3 DEF Follows

\* The definition by recursion does define the sums of the prefixes.
LEMMA TotalsOfPrefixes ==
  ASSUME NEW s \in Seq(Int)
  PROVE  /\ Totals(s) \in [0..Len(s) -> Int]
         /\ Totals(s)[0] = 0
         /\ \A i \in 1..Len(s) : Totals(s)[i] = Totals(s)[i - 1] + s[i]
<1>. DEFINE n == Len(s)
            Sums(g, k) == g[0] = 0 /\ \A i \in 1..k : g[i] = g[i - 1] + s[i]
            T == {k \in 0..n : \E g \in [0..k -> Int] : Sums(g, k)}
<1>1. n \in Nat /\ \A i \in 1..n : s[i] \in Int
  BY LenProperties, ElementOfSeq
<1>2. 0 \in T
  <2>1. [i \in 0..0 |-> 0] \in [0..0 -> Int] /\ Sums([i \in 0..0 |-> 0], 0)
    OBVIOUS
  <2>2. 0 \in 0..n
    BY <1>1
  <2>. HIDE DEF Sums
  <2>. QED BY <2>1, <2>2
<1>3. ASSUME NEW k \in 0..(n - 1), k \in T
      PROVE  k + 1 \in T
  <2>1. PICK g \in [0..k -> Int] : Sums(g, k)
    BY <1>3
  <2>. DEFINE h == [i \in 0..(k + 1) |-> IF i = k + 1 THEN g[k] + s[k + 1] ELSE g[i]]
  <2>2. k \in Nat /\ k + 1 \in 1..n /\ k \in 0..k /\ g[k] + s[k + 1] \in Int
    BY <1>1
  <2>3. h \in [0..(k + 1) -> Int]
    BY <2>2
  <2>4. Sums(h, k + 1)
    <3>1. h[0] = 0
      BY <2>1, <2>2
    <3>2. ASSUME NEW i \in 1..k PROVE h[i] = h[i - 1] + s[i]
      BY <2>1, <2>2
    <3>3. h[k + 1] = h[k] + s[k + 1]
      BY <2>2
    <3>4. \A i \in 1..(k + 1) : i \in 1..k \/ i = k + 1
      BY <2>2
    <3>5. (k + 1) - 1 = k
      BY <2>2
    <3>. HIDE DEF h
    <3>. QED BY <3>1, <3>2, <3>3, <3>4, <3>5
  <2>5. k + 1 \in 0..n
    BY <1>1, <2>2
  <2>. HIDE DEF h, Sums
  <2>. QED BY <2>3, <2>4, <2>5
<1>4. n \in T
  <2>. HIDE DEF T, n
  <2>1. 0..n \subseteq T
    BY <1>1, <1>2, <1>3, SetInduction
  <2>. QED BY <1>1, <2>1
<1>5. PICK g \in [0..n -> Int] : Sums(g, n)
  BY <1>4
<1>. DEFINE Def(f) == f = [i \in 0..n |-> IF i = 0 THEN 0 ELSE f[i - 1] + s[i]]
<1>6. Def(g)
  <2>. DEFINE r == [i \in 0..n |-> IF i = 0 THEN 0 ELSE g[i - 1] + s[i]]
  <2>1. \A i \in 0..n : g[i] = r[i]
    BY <1>1, <1>5
  <2>2. DOMAIN r = 0..n /\ r = [i \in 0..n |-> r[i]]
    OBVIOUS
  <2>. HIDE DEF r
  <2>. QED BY <2>1, <2>2 DEF r
<1>7. Totals(s) = CHOOSE f : Def(f)
  BY DEF Totals
<1>8. Def(Totals(s))
  <2>. HIDE DEF Def
  <2>. QED BY <1>6, <1>7
<1>9. ASSUME NEW t, Def(t)
      PROVE  /\ t \in [0..n -> Int] /\ t[0] = 0
             /\ \A i \in 1..n : t[i] = t[i - 1] + s[i]
  <2>1. /\ DOMAIN t = 0..n /\ t = [i \in 0..n |-> t[i]]
        /\ \A i \in 0..n : t[i] = IF i = 0 THEN 0 ELSE t[i - 1] + s[i]
    BY <1>9
  <2>2. t[0] = 0 /\ \A i \in 1..n : t[i] = t[i - 1] + s[i]
    BY <1>1, <2>1
  <2>. DEFINE U == {i \in 0..n : t[i] \in Int}
  <2>3. 0 \in U
    BY <1>1, <2>2
  <2>4. ASSUME NEW i \in 0..(n - 1), i \in U PROVE i + 1 \in U
    <3>1. i + 1 \in 1..n /\ (i + 1) - 1 = i /\ i + 1 \in 0..n
      BY <1>1
    <3>2. t[i + 1] = t[i] + s[i + 1] /\ s[i + 1] \in Int /\ t[i] \in Int
      BY <1>1, <2>2, <2>4, <3>1
    <3>. QED BY <3>1, <3>2
  <2>5. 0..n \subseteq U
    <3>. HIDE DEF U, n
    <3>. QED BY <1>1, <2>3, <2>4, SetInduction
  <2>. QED BY <2>1, <2>2, <2>5
<1>. HIDE DEF Def
<1>. QED BY <1>8, <1>9

\* Whatever grows by the elements of s from prefix to prefix grows by their sum.
LEMMA SumUnique ==
  ASSUME NEW s \in Seq(Int), NEW g \in [0..Len(s) -> Int],
         \A i \in 1..Len(s) : g[i] = g[i - 1] + s[i]
  PROVE  SumOf(s) \in Int /\ g[Len(s)] = g[0] + SumOf(s)
<1>. DEFINE n == Len(s)
            t == Totals(s)
            T == {i \in 0..n : g[i] = g[0] + t[i]}
<1>1. n \in Nat /\ 0 \in 0..n /\ n \in 0..n
  BY LenProperties
<1>2. /\ t \in [0..n -> Int] /\ t[0] = 0
      /\ \A i \in 1..n : t[i] = t[i - 1] + s[i]
      /\ g \in [0..n -> Int] /\ \A i \in 1..n : g[i] = g[i - 1] + s[i] /\ s[i] \in Int
  BY TotalsOfPrefixes, LenProperties, ElementOfSeq
<1>. HIDE DEF n, t
<1>3. 0 \in T
  BY <1>1, <1>2
<1>4. ASSUME NEW i \in 0..(n - 1), i \in T PROVE i + 1 \in T
  <2>1. i \in 0..n /\ i + 1 \in 1..n /\ (i + 1) - 1 = i /\ i + 1 \in 0..n
    BY <1>1
  <2>2. t[i + 1] = t[i] + s[i + 1] /\ g[i + 1] = g[i] + s[i + 1] /\ g[i] = g[0] + t[i]
    BY <1>2, <1>4, <2>1
  <2>3. t[i] \in Int /\ g[0] \in Int /\ s[i + 1] \in Int
    BY <1>1, <1>2, <2>1
  <2>. QED BY <2>1, <2>2, <2>3
<1>5. 0..n \subseteq T
  <2>. HIDE DEF T
  <2>. QED BY <1>1, <1>3, <1>4, SetInduction
<1>6. g[n] = g[0] + t[n] /\ t[n] \in Int
  BY <1>1, <1>2, <1>5
<1>. QED BY <1>6 DEF SumOf, n, t

LEMMA SumType ==
  ASSUME NEW s \in Seq(Int)
  PROVE  SumOf(s) \in Int
BY TotalsOfPrefixes, SumUnique

\* The sum of no numbers.
LEMMA SumOfEmpty == SumOf(<<>>) = 0
<1>1. <<>> \in Seq(Int) /\ Len(<<>>) = 0
  OBVIOUS
<1>. QED BY <1>1, TotalsOfPrefixes DEF SumOf

\* The sum of two sequences in a row.
LEMMA SumOfConcat ==
  ASSUME NEW s \in Seq(Int), NEW r \in Seq(Int)
  PROVE  SumOf(s \o r) = SumOf(s) + SumOf(r)
<1>. DEFINE n == Len(s)
            k == Len(r)
            t == Totals(s)
            u == Totals(r)
            g == [i \in 0..(n + k) |-> IF i <= n THEN t[i] ELSE t[n] + u[i - n]]
            c == s \o r
<1>1. /\ n \in Nat /\ k \in Nat
      /\ t \in [0..n -> Int] /\ t[0] = 0 /\ \A i \in 1..n : t[i] = t[i - 1] + s[i]
      /\ u \in [0..k -> Int] /\ u[0] = 0 /\ \A i \in 1..k : u[i] = u[i - 1] + r[i]
      /\ \A i \in 1..n : s[i] \in Int
      /\ \A i \in 1..k : r[i] \in Int
  BY TotalsOfPrefixes, LenProperties, ElementOfSeq
<1>2. /\ c \in Seq(Int) /\ Len(c) = n + k
      /\ \A i \in 1..(n + k) : c[i] = IF i <= n THEN s[i] ELSE r[i - n]
  BY ConcatProperties
<1>3. SumOf(s) = t[n] /\ SumOf(r) = u[k]
  BY DEF SumOf
<1>. HIDE DEF n, k, t, u, c
<1>4. g \in [0..(n + k) -> Int]
  <2>1. ASSUME NEW i \in 0..(n + k) PROVE (IF i <= n THEN t[i] ELSE t[n] + u[i - n]) \in Int
    <3>1. i <= n => t[i] \in Int
      BY <1>1
    <3>2. ~(i <= n) => i - n \in 0..k
      BY <1>1
    <3>3. t[n] \in Int /\ \A j \in 0..k : u[j] \in Int
      BY <1>1
    <3>. QED BY <3>1, <3>2, <3>3
  <2>. QED BY <2>1
<1>5. ASSUME NEW i \in 1..(n + k) PROVE g[i] = g[i - 1] + c[i]
  <2>1. /\ g[i] = IF i <= n THEN t[i] ELSE t[n] + u[i - n]
        /\ g[i - 1] = IF i - 1 <= n THEN t[i - 1] ELSE t[n] + u[(i - 1) - n]
        /\ c[i] = IF i <= n THEN s[i] ELSE r[i - n]
    <3>1. i \in 0..(n + k) /\ i - 1 \in 0..(n + k)
      BY <1>1
    <3>2. c[i] = IF i <= n THEN s[i] ELSE r[i - n]
      BY <1>2
    <3>. QED BY <3>1, <3>2
  <2>. HIDE DEF g
  <2>2. CASE i <= n
    <3>1. i \in 1..n /\ i - 1 <= n
      BY <1>1, <2>2
    <3>. QED BY <1>1, <2>1, <2>2, <3>1
  <2>3. CASE i = n + 1
    <3>1. i - n = 1 /\ ~(i <= n) /\ i - 1 = n /\ i - 1 <= n
      BY <1>1, <2>3
    <3>2. g[i] = t[n] + u[1] /\ g[i - 1] = t[n] /\ c[i] = r[1]
      BY <2>1, <3>1
    <3>3. 1 \in 1..k /\ 1 - 1 = 0 /\ n \in 0..n
      BY <1>1, <2>3
    <3>4. u[1] = u[0] + r[1] /\ u[0] = 0 /\ r[1] \in Int /\ t[n] \in Int
      BY <1>1, <3>3
    <3>. QED BY <3>2, <3>4
  <2>4. CASE i > n + 1
    <3>1. i - n \in 1..k /\ (i - n) - 1 = (i - 1) - n /\ (i - 1) - n \in 0..k /\ n \in 0..n
          /\ ~(i <= n) /\ ~(i - 1 <= n)
      BY <1>1, <2>4
    <3>2. g[i] = t[n] + u[i - n] /\ g[i - 1] = t[n] + u[(i - 1) - n] /\ c[i] = r[i - n]
      BY <2>1, <3>1
    <3>3. u[i - n] = u[(i - 1) - n] + r[i - n]
      BY <1>1, <3>1
    <3>4. u[(i - 1) - n] \in Int /\ t[n] \in Int /\ r[i - n] \in Int
      BY <1>1, <3>1
    <3>. QED BY <3>2, <3>3, <3>4
  <2>. QED BY <1>1, <2>2, <2>3, <2>4
<1>6. g[Len(c)] = g[0] + SumOf(c) /\ SumOf(c) \in Int
  <2>. HIDE DEF g
  <2>. QED BY <1>2, <1>4, <1>5, SumUnique
<1>7. g[n + k] = t[n] + u[k] /\ g[0] = 0
  <2>1. t[n] \in Int /\ u[k] \in Int
    BY <1>1
  <2>2. g[0] = 0
    BY <1>1
  <2>3. k = 0 => g[n + k] = t[n] /\ u[k] = 0
    BY <1>1
  <2>4. k # 0 => g[n + k] = t[n] + u[k]
    BY <1>1
  <2>. QED BY <2>1, <2>2, <2>3, <2>4
<1>. QED BY <1>2, <1>3, <1>6, <1>7 DEF c

\* The sum of a sequence with one element more.
LEMMA SumOfAppend ==
  ASSUME NEW s \in Seq(Int), NEW x \in Int
  PROVE  SumOf(Append(s, x)) = SumOf(s) + x
<1>. DEFINE one == <<x>>
<1>1. one \in Seq(Int) /\ Len(one) = 1 /\ one[1] = x
  OBVIOUS
<1>2. SumOf(one) = x
  <2>. HIDE DEF one
  <2>1. /\ Totals(one)[0] = 0
        /\ \A i \in 1..Len(one) : Totals(one)[i] = Totals(one)[i - 1] + one[i]
    BY <1>1, TotalsOfPrefixes, Zenon
  <2>2. 1 - 1 = 0
    OBVIOUS
  <2>. QED BY <1>1, <2>1, <2>2 DEF SumOf
<1>3. Append(s, x) = s \o <<x>>
  BY AppendIsConcat
<1>. QED BY <1>1, <1>2, <1>3, SumOfConcat

\* The sum of a sequence from which one element was taken.
LEMMA SumOfRemoved ==
  ASSUME NEW s \in Seq(Int), NEW r \in Seq(Int), NEW i \in 1..Len(s), Len(r) = Len(s) - 1,
         \A j \in 1..Len(r) : r[j] = IF j < i THEN s[j] ELSE s[j + 1]
  PROVE  SumOf(r) = SumOf(s) - s[i]
<1>. DEFINE n == Len(s)
            t == Totals(s)
            g == [j \in 0..(n - 1) |-> IF j < i THEN t[j] ELSE t[j + 1] - s[i]]
<1>1. /\ n \in Nat /\ i \in 1..n /\ n >= 1
      /\ t \in [0..n -> Int] /\ t[0] = 0 /\ \A j \in 1..n : t[j] = t[j - 1] + s[j] /\ s[j] \in Int
  BY TotalsOfPrefixes, LenProperties, ElementOfSeq, SMTT(30)
<1>2. SumOf(s) = t[n] /\ Len(r) = n - 1
  BY DEF SumOf
<1>. HIDE DEF n, t
<1>3. g \in [0..(n - 1) -> Int]
  <2>1. ASSUME NEW j \in 0..(n - 1) PROVE (IF j < i THEN t[j] ELSE t[j + 1] - s[i]) \in Int
    <3>1. t[j] \in Int /\ t[j + 1] \in Int /\ s[i] \in Int
      BY <1>1, SMTT(30)
    <3>. QED BY <3>1
  <2>. QED BY <2>1
<1>4. ASSUME NEW j \in 1..(n - 1) PROVE g[j] = g[j - 1] + r[j]
  <2>0. j \in 1..n /\ j + 1 \in 1..n /\ (j + 1) - 1 = j /\ (j - 1) + 1 = j /\ j - 1 \in 0..n
        /\ j \in 0..(n - 1) /\ j - 1 \in 0..(n - 1) /\ j \in 0..n
    BY <1>1
  <2>1. t[j] = t[j - 1] + s[j] /\ t[j + 1] = t[j] + s[j + 1]
    BY <1>1, <2>0
  <2>2. t[j] \in Int /\ t[j - 1] \in Int /\ s[j] \in Int /\ s[j + 1] \in Int /\ s[i] \in Int
    BY <1>1, <2>0
  <2>3. r[j] = IF j < i THEN s[j] ELSE s[j + 1]
    BY <1>2
  <2>4. g[j] = (IF j < i THEN t[j] ELSE t[j + 1] - s[i])
        /\ g[j - 1] = (IF j - 1 < i THEN t[j - 1] ELSE t[j] - s[i])
    BY <2>0
  <2>. HIDE DEF g
  <2>6. CASE j < i
    <3>1. j - 1 < i
      BY <1>1, <2>6
    <3>. QED BY <2>1, <2>2, <2>3, <2>4, <2>6, <3>1
  <2>7. CASE j = i
    <3>1. j - 1 < i /\ ~(j < i)
      BY <1>1, <2>7
    <3>2. /\ g[j] = t[j + 1] - s[j] /\ g[j - 1] = t[j - 1] /\ r[j] = s[j + 1]
      BY <2>3, <2>4, <2>7, <3>1
    <3>. DEFINE a == t[j - 1]
                b == t[j]
                c == t[j + 1]
                x == s[j]
                y == s[j + 1]
    <3>3. c \in Int
      BY <1>1, <2>0
    <3>4. a \in Int /\ b \in Int /\ x \in Int /\ y \in Int /\ b = a + x /\ c = b + y
      BY <2>1, <2>2, Zenon
    <3>5. g[j] = c - x /\ g[j - 1] = a /\ r[j] = y
      BY <3>2, Zenon
    <3>. HIDE DEF a, b, c, x, y
    <3>6. c - x = a + y
      BY <3>3, <3>4
    <3>. QED BY <3>5, <3>6, Zenon
  <2>8. CASE j > i
    <3>1. ~(j - 1 < i) /\ ~(j < i)
      BY <1>1, <2>8
    <3>. QED BY <2>1, <2>2, <2>3, <2>4, <2>8, <3>1
  <2>9. j < i \/ j = i \/ j > i
    BY <1>1
  <2>. QED BY <2>6, <2>7, <2>8, <2>9
<1>5. g[n - 1] = g[0] + SumOf(r) /\ SumOf(r) \in Int
  <2>. HIDE DEF g
  <2>. QED BY <1>2, <1>3, <1>4, SumUnique
<1>6. g[n - 1] = t[n] - s[i]
  <2>1. t[n] = t[n - 1] + s[n] /\ t[n - 1] \in Int /\ s[n] \in Int
    BY <1>1
  <2>2. g[n - 1] = IF n - 1 < i THEN t[n - 1] ELSE t[(n - 1) + 1] - s[i]
    BY <1>1
  <2>3. n - 1 < i => i = n
    BY <1>1
  <2>4. (n - 1) + 1 = n
    BY <1>1
  <2>. QED BY <2>1, <2>2, <2>3, <2>4, SMTT(30)
<1>7. g[0] = 0
  <2>1. g[0] = IF 0 < i THEN t[0] ELSE t[0 + 1] - s[i]
    BY <1>1
  <2>. QED BY <1>1, <2>1
<1>. QED BY <1>2, <1>5, <1>6, <1>7

\* The sum of a sequence of which one element was replaced.
LEMMA SumOfChanged ==
  ASSUME NEW s \in Seq(Int), NEW r \in Seq(Int), NEW i \in 1..Len(s), Len(r) = Len(s),
         \A j \in 1..Len(s) : j # i => r[j] = s[j]
  PROVE  SumOf(r) = SumOf(s) - s[i] + r[i]
<1>. DEFINE n == Len(s)
            t == Totals(s)
            d == r[i] - s[i]
            g == [j \in 0..n |-> IF j < i THEN t[j] ELSE t[j] + d]
<1>1. /\ n \in Nat /\ i \in 1..n /\ n >= 1 /\ s[i] \in Int /\ r[i] \in Int /\ d \in Int
      /\ t \in [0..n -> Int] /\ t[0] = 0 /\ \A j \in 1..n : t[j] = t[j - 1] + s[j] /\ s[j] \in Int
  <2>1. s[i] \in Int /\ r[i] \in Int
    BY LenProperties, ElementOfSeq, SMTT(30)
  <2>2. n \in Nat /\ i \in 1..n /\ n >= 1
    BY LenProperties, SMTT(30)
  <2>3. \A x, y \in Int : x - y \in Int
    OBVIOUS
  <2>4. d \in Int
    BY <2>1, <2>3, Zenon
  <2>5. t \in [0..n -> Int] /\ t[0] = 0 /\ \A j \in 1..n : t[j] = t[j - 1] + s[j]
    BY TotalsOfPrefixes, Zenon
  <2>6. \A j \in 1..n : s[j] \in Int
    BY ElementOfSeq, SMTT(30)
  <2>. HIDE DEF n, t, d
  <2>. QED BY <2>1, <2>2, <2>4, <2>5, <2>6, Zenon
<1>2. SumOf(s) = t[n] /\ Len(r) = n
  BY DEF SumOf
<1>3. r[i] = s[i] + d
  BY <1>1
<1>. HIDE DEF n, t, d
<1>4. g \in [0..n -> Int]
  BY <1>1, SMTT(30)
<1>5. ASSUME NEW j \in 1..n PROVE g[j] = g[j - 1] + r[j]
  <2>0. j \in 0..n /\ j - 1 \in 0..n
    BY <1>1
  <2>1. t[j] = t[j - 1] + s[j] /\ t[j - 1] \in Int /\ s[j] \in Int /\ d \in Int
    BY <1>1, <2>0, Zenon
  <2>2. /\ g[j] = IF j < i THEN t[j] ELSE t[j] + d
        /\ g[j - 1] = IF j - 1 < i THEN t[j - 1] ELSE t[j - 1] + d
    BY <2>0
  <2>. HIDE DEF g
  <2>3. r[j] = IF j = i THEN s[j] + d ELSE s[j]
    BY <1>3 DEF n
  <2>4. j \in Int /\ i \in Int
    BY <1>1
  <2>. QED BY <2>1, <2>2, <2>3, <2>4
<1>6. g[n] = g[0] + SumOf(r) /\ SumOf(r) \in Int
  <2>. HIDE DEF g
  <2>. QED BY <1>2, <1>4, <1>5, SumUnique
<1>7. g[n] = t[n] + d /\ g[0] = 0 /\ t[n] \in Int
  <2>1. 0 \in 0..n /\ n \in 0..n /\ 0 < i /\ ~(n < i)
    BY <1>1
  <2>2. t[n] \in Int /\ t[0] = 0
    BY <1>1, <2>1, Zenon
  <2>3. g[n] = t[n] + d /\ g[0] = t[0]
    BY <2>1
  <2>. QED BY <2>2, <2>3
<1>8. SumOf(r) = SumOf(s) + d
  BY <1>2, <1>6, <1>7
<1>9. SumOf(s) \in Int
  BY <1>2, <1>7
<1>10. \A a, x, y \in Int : a + (y - x) = a - x + y
  OBVIOUS
<1>11. SumOf(s) + (r[i] - s[i]) = SumOf(s) - s[i] + r[i]
  BY <1>1, <1>9, <1>10, Zenon
<1>. QED BY <1>8, <1>11 DEF d

\* A sum of natural numbers is one.
LEMMA SumOfNaturals ==
  ASSUME NEW s \in Seq(Nat)
  PROVE  SumOf(s) \in Nat
<1>. DEFINE n == Len(s)
            t == Totals(s)
            T == {i \in 0..n : t[i] \in Nat}
<1>1. s \in Seq(Int)
  BY SeqMonotonic
<1>2. /\ n \in Nat /\ t[0] = 0
      /\ \A i \in 1..n : t[i] = t[i - 1] + s[i] /\ s[i] \in Nat
  BY <1>1, TotalsOfPrefixes, LenProperties, ElementOfSeq
<1>3. SumOf(s) = t[n]
  BY DEF SumOf
<1>. HIDE DEF n, t
<1>4. 0 \in T
  BY <1>2
<1>5. ASSUME NEW i \in 0..(n - 1), i \in T PROVE i + 1 \in T
  <2>1. i + 1 \in 1..n /\ (i + 1) - 1 = i /\ i + 1 \in 0..n
    BY <1>2
  <2>2. t[i + 1] = t[i] + s[i + 1] /\ s[i + 1] \in Nat
    BY <1>2, <2>1, SMTT(30)
  <2>3. t[i] \in Nat
    BY <1>5
  <2>. QED BY <2>1, <2>2, <2>3
<1>6. 0..n \subseteq T
  <2>. HIDE DEF T
  <2>. QED BY <1>2, <1>4, <1>5, SetInduction
<1>. QED BY <1>2, <1>3, <1>6
=============================================================================
