----------------------------- MODULE WireLemmas -----------------------------
(***************************************************************************)
(* The sums of WireFields for sequences of any length, and the induction they *)
(* rest on.                                                                   *)
(***************************************************************************)
EXTENDS WireFields, TLAPS, WellFoundedInduction

-----------------------------------------------------------------------------
(* Induction, on sets of natural numbers *)

\* A set of natural numbers has a least element.
LEMMA LeastNat ==
  ASSUME NEW T, T \subseteq Nat, T # {}
  PROVE  \E n \in T : \A m \in T : n <= m
<1> DEFINE R == OpToRel(<, Nat)
<1>1. IsWellFoundedOn(R, Nat)
  BY NatLessThanWellFounded, Zenon
<1>2. \A x, y \in Nat : y < x => <<y, x>> \in R
  BY DEF OpToRel
<1> HIDE DEF R
<1>3. PICK n \in T : \A m \in T : ~(<<m, n>> \in R)
  BY <1>1, WFMin, Zenon
<1>4. \A m \in T : ~(m < n)
  BY <1>2, <1>3, Zenon
<1>5. \A m \in T : n <= m
  BY <1>4
<1> QED BY <1>5

\* A set that holds 0, and n + 1 with every n, holds all natural numbers.
LEMMA Induction ==
  ASSUME NEW S, 0 \in S, \A n \in Nat : n \in S => n + 1 \in S
  PROVE  Nat \subseteq S
<1> SUFFICES ASSUME ~(Nat \subseteq S) PROVE FALSE
  OBVIOUS
<1> DEFINE T == Nat \ S
<1>1. T \subseteq Nat /\ T # {}
  OBVIOUS
<1>2. PICK n \in T : \A m \in T : n <= m
  BY <1>1, LeastNat, Zenon
<1>3. n \in Nat /\ n # 0 /\ n - 1 \in Nat /\ n - 1 \notin T
  BY <1>2
<1>4. n - 1 \in S
  BY <1>3
<1>5. (n - 1) + 1 \in S
  BY <1>3, <1>4
<1> QED
  BY <1>5, <1>3, <1>2

-----------------------------------------------------------------------------
(* Sums *)

\* f is the function TotalOf(s, n) chooses.
Sums(f, s, n) == f = [i \in 0..n |-> IF i = 0 THEN 0 ELSE f[i - 1] + s[i]]

\* There is one.
LEMMA SumsExist ==
  ASSUME NEW s, NEW n \in Nat
  PROVE  \E f : Sums(f, s, n)
<1> DEFINE S == {m \in Nat : \E f : Sums(f, s, m)}
<1>1. 0 \in S
  <2>1. Sums([i \in 0..0 |-> 0], s, 0)
    BY DEF Sums
  <2> QED BY <2>1
<1>2. ASSUME NEW m \in Nat, m \in S
      PROVE  m + 1 \in S
  <2>1. PICK f : Sums(f, s, m)
    BY <1>2
  <2> DEFINE g == [i \in 0..(m + 1) |-> IF i <= m THEN f[i] ELSE f[m] + s[m + 1]]
  <2>2. \A i \in 0..m : f[i] = IF i = 0 THEN 0 ELSE f[i - 1] + s[i]
    BY <2>1, Zenon DEF Sums
  <2>3. \A i \in 0..(m + 1) : g[i] = IF i = 0 THEN 0 ELSE g[i - 1] + s[i]
    <3> SUFFICES ASSUME NEW i \in 0..(m + 1)
                 PROVE  g[i] = IF i = 0 THEN 0 ELSE g[i - 1] + s[i]
      OBVIOUS
    <3>1. CASE i = 0
      BY <3>1, <2>2
    <3>2. CASE i \in 1..m
      <4>1. i - 1 \in 0..m /\ i \in 0..m /\ i # 0
        BY <3>2
      <4>2. g[i] = f[i] /\ g[i - 1] = f[i - 1]
        BY <4>1
      <4> QED BY <4>1, <4>2, <2>2, Zenon
    <3>3. CASE i = m + 1
      <4>1. g[i] = f[m] + s[m + 1] /\ g[i - 1] = f[m] /\ i # 0
        BY <3>3
      <4> QED BY <4>1, <3>3
    <3> QED BY <3>1, <3>2, <3>3
  <2> HIDE DEF g
  <2>4. g = [i \in 0..(m + 1) |-> g[i]]
    BY DEF g
  <2>5. Sums(g, s, m + 1)
    BY <2>3, <2>4, Zenon DEF Sums
  <2> QED BY <2>5
<1> HIDE DEF S
<1>3. Nat \subseteq S
  BY <1>1, <1>2, Induction
<1> QED BY <1>3 DEF S

\* Two such functions agree where both are defined.
LEMMA SumsAgree ==
  ASSUME NEW f, NEW g, NEW s, NEW t, NEW n \in Nat, NEW m \in Nat,
         Sums(f, s, n), Sums(g, t, m), n <= m, \A i \in 1..n : s[i] = t[i]
  PROVE  f[n] = g[n]
<1> DEFINE S == {i \in Nat : i <= n => f[i] = g[i]}
<1>1. /\ \A i \in 0..n : f[i] = IF i = 0 THEN 0 ELSE f[i - 1] + s[i]
      /\ \A i \in 0..m : g[i] = IF i = 0 THEN 0 ELSE g[i - 1] + t[i]
  BY Zenon DEF Sums
<1>2. 0 \in S
  BY <1>1
<1>3. ASSUME NEW i \in Nat, i \in S
      PROVE  i + 1 \in S
  <2>1. CASE i + 1 <= n
    <3>1. /\ i + 1 \in 0..n /\ i + 1 \in 0..m /\ i + 1 # 0 /\ (i + 1) - 1 = i
          /\ i + 1 \in 1..n /\ i <= n
      BY <2>1
    <3>2. f[i + 1] = f[i] + s[i + 1] /\ g[i + 1] = g[i] + t[i + 1]
      BY <3>1, <1>1
    <3> QED BY <3>1, <3>2, <1>3
  <2>2. CASE ~(i + 1 <= n)
    BY <2>2
  <2> QED BY <2>1, <2>2
<1> HIDE DEF S
<1>4. Nat \subseteq S
  BY <1>2, <1>3, Induction
<1> QED BY <1>4 DEF S

\* The sum of no elements, and of one more.
LEMMA TotalOfStep ==
  ASSUME NEW s
  PROVE  /\ TotalOf(s, 0) = 0
         /\ \A n \in Nat : TotalOf(s, n + 1) = TotalOf(s, n) + s[n + 1]
<1> DEFINE F(n) == CHOOSE f : Sums(f, s, n)
<1>1. \A n \in Nat : TotalOf(s, n) = F(n)[n] /\ Sums(F(n), s, n)
  <2> TAKE n \in Nat
  <2>1. Sums(F(n), s, n)
    BY SumsExist
  <2>2. TotalOf(s, n) = F(n)[n]
    BY Zenon DEF TotalOf, Sums
  <2> QED BY <2>1, <2>2
<1> HIDE DEF F
<1>2. TotalOf(s, 0) = 0
  BY <1>1 DEF Sums
<1>3. ASSUME NEW n \in Nat
      PROVE  TotalOf(s, n + 1) = TotalOf(s, n) + s[n + 1]
  <2>1. n + 1 \in Nat /\ n <= n + 1 /\ n + 1 \in 0..(n + 1) /\ n + 1 # 0 /\ (n + 1) - 1 = n
    OBVIOUS
  <2>2. F(n)[n] = F(n + 1)[n]
    BY <1>1, <2>1, SumsAgree
  <2>3. F(n + 1)[n + 1] = F(n + 1)[n] + s[n + 1]
    BY <1>1, <2>1 DEF Sums
  <2> QED BY <1>1, <2>1, <2>2, <2>3
<1> QED BY <1>2, <1>3

\* A sum depends on the elements it sums.
LEMMA TotalOfSame ==
  ASSUME NEW s, NEW t, NEW n \in Nat, \A i \in 1..n : s[i] = t[i]
  PROVE  TotalOf(s, n) = TotalOf(t, n)
<1> DEFINE S == {i \in Nat : i <= n => TotalOf(s, i) = TotalOf(t, i)}
<1>1. 0 \in S
  BY TotalOfStep
<1>2. ASSUME NEW i \in Nat, i \in S
      PROVE  i + 1 \in S
  <2>1. i + 1 <= n => i <= n /\ i + 1 \in 1..n
    OBVIOUS
  <2>2. /\ TotalOf(s, i + 1) = TotalOf(s, i) + s[i + 1]
        /\ TotalOf(t, i + 1) = TotalOf(t, i) + t[i + 1]
    BY TotalOfStep
  <2> QED BY <1>2, <2>1, <2>2
<1> HIDE DEF S
<1>3. Nat \subseteq S
  BY <1>1, <1>2, Induction
<1> QED BY <1>3 DEF S

\* Sums of lengths are lengths, and grow.
LEMMA TotalOfNat ==
  ASSUME NEW s, NEW n \in Nat, \A i \in 1..n : s[i] \in Nat
  PROVE  /\ TotalOf(s, n) \in Nat
         /\ \A i \in 0..n : TotalOf(s, i) \in Nat /\ TotalOf(s, i) <= TotalOf(s, n)
<1> DEFINE S == {m \in Nat : m <= n =>
                   \A i \in 0..m : TotalOf(s, i) \in Nat /\ TotalOf(s, i) <= TotalOf(s, m)}
<1>1. 0 \in S
  BY TotalOfStep
<1>2. ASSUME NEW m \in Nat, m \in S
      PROVE  m + 1 \in S
  <2> SUFFICES ASSUME m + 1 <= n, NEW i \in 0..(m + 1)
               PROVE  TotalOf(s, i) \in Nat /\ TotalOf(s, i) <= TotalOf(s, m + 1)
    OBVIOUS
  <2>1. s[m + 1] \in Nat /\ m \in 0..m
    OBVIOUS
  <2>2. TotalOf(s, m) \in Nat /\ TotalOf(s, m + 1) = TotalOf(s, m) + s[m + 1]
    BY <1>2, <2>1, TotalOfStep
  <2>3. CASE i = m + 1
    BY <2>1, <2>2, <2>3
  <2>4. CASE i \in 0..m
    <3>1. TotalOf(s, i) \in Nat /\ TotalOf(s, i) <= TotalOf(s, m)
      BY <1>2, <2>4
    <3> QED BY <2>1, <2>2, <3>1
  <2> QED BY <2>3, <2>4
<1> HIDE DEF S
<1>3. Nat \subseteq S
  BY <1>1, <1>2, Induction
<1>4. \A i \in 0..n : TotalOf(s, i) \in Nat /\ TotalOf(s, i) <= TotalOf(s, n)
  BY <1>3 DEF S
<1> QED BY <1>4

\* Sums of positive lengths grow with every element.
LEMMA TotalOfGrows ==
  ASSUME NEW s, NEW n \in Nat, \A i \in 1..n : s[i] \in Nat /\ s[i] > 0,
         NEW j \in 0..n, NEW k \in 0..n, j < k
  PROVE  TotalOf(s, j) \in Nat /\ TotalOf(s, k) \in Nat /\ TotalOf(s, j) < TotalOf(s, k)
<1>1. j \in Nat /\ j + 1 \in 0..k /\ k \in Nat /\ j \in 0..k /\ \A i \in 1..k : s[i] \in Nat
  OBVIOUS
<1>2. TotalOf(s, j + 1) <= TotalOf(s, k) /\ TotalOf(s, k) \in Nat /\ TotalOf(s, j) \in Nat
  BY <1>1, TotalOfNat
<1>3. TotalOf(s, j + 1) = TotalOf(s, j) + s[j + 1] /\ s[j + 1] \in Nat /\ s[j + 1] > 0
  BY <1>1, TotalOfStep
<1> QED BY <1>2, <1>3

\* The elements of s follow the first n of t.
LEMMA TotalOfShift ==
  ASSUME NEW s, NEW t, NEW n \in Nat, NEW m \in Nat, TotalOf(t, n) \in Int,
         \A i \in 1..m : t[n + i] = s[i] /\ s[i] \in Int
  PROVE  TotalOf(s, m) \in Int /\ TotalOf(t, n + m) = TotalOf(t, n) + TotalOf(s, m)
<1> DEFINE S == {k \in Nat : k <= m => /\ TotalOf(s, k) \in Int
                                       /\ TotalOf(t, n + k) = TotalOf(t, n) + TotalOf(s, k)}
<1>1. 0 \in S
  BY TotalOfStep
<1>2. ASSUME NEW k \in Nat, k \in S
      PROVE  k + 1 \in S
  <2> SUFFICES ASSUME k + 1 <= m
               PROVE  /\ TotalOf(s, k + 1) \in Int
                      /\ TotalOf(t, n + (k + 1)) = TotalOf(t, n) + TotalOf(s, k + 1)
    OBVIOUS
  <2>1. k + 1 \in 1..m /\ n + k \in Nat /\ (n + k) + 1 = n + (k + 1)
    OBVIOUS
  <2>2. TotalOf(s, k + 1) = TotalOf(s, k) + s[k + 1]
    BY TotalOfStep
  <2>3. TotalOf(t, (n + k) + 1) = TotalOf(t, n + k) + t[(n + k) + 1]
    BY <2>1, TotalOfStep
  <2>4. t[(n + k) + 1] = s[k + 1] /\ s[k + 1] \in Int
    BY <2>1
  <2> QED BY <1>2, <2>1, <2>2, <2>3, <2>4
<1> HIDE DEF S
<1>3. Nat \subseteq S
  BY <1>1, <1>2, Induction
<1> QED BY <1>3 DEF S

\* So many lengths of at least c each.
LEMMA TotalOfLeast ==
  ASSUME NEW s, NEW n \in Nat, NEW c \in Nat, \A i \in 1..n : s[i] \in Nat /\ s[i] >= c
  PROVE  TotalOf(s, n) \in Nat /\ TotalOf(s, n) >= c * n
<1> DEFINE S == {k \in Nat : k <= n => TotalOf(s, k) \in Nat /\ TotalOf(s, k) >= c * k}
<1>1. 0 \in S
  BY TotalOfStep
<1>2. ASSUME NEW k \in Nat, k \in S
      PROVE  k + 1 \in S
  <2> SUFFICES ASSUME k + 1 <= n
               PROVE  TotalOf(s, k + 1) \in Nat /\ TotalOf(s, k + 1) >= c * (k + 1)
    OBVIOUS
  <2>1. s[k + 1] \in Nat /\ s[k + 1] >= c
    OBVIOUS
  <2>2. TotalOf(s, k + 1) = TotalOf(s, k) + s[k + 1]
    BY TotalOfStep
  <2>3. c * (k + 1) = c * k + c /\ c * k \in Nat
    OBVIOUS
  <2> QED BY <1>2, <2>1, <2>2, <2>3
<1> HIDE DEF S
<1>3. Nat \subseteq S
  BY <1>1, <1>2, Induction
<1> QED BY <1>3 DEF S

\* One element more at the end of a sequence.
LEMMA TotalAppend ==
  ASSUME NEW s \in Seq(Int), NEW x \in Int
  PROVE  Total(Append(s, x)) = Total(s) + x
<1> DEFINE t == Append(s, x)
           n == Len(s)
<1>1. n \in Nat /\ Len(t) = n + 1 /\ t[n + 1] = x /\ \A i \in 1..n : s[i] = t[i]
  OBVIOUS
<1> HIDE DEF t, n
<1>2. TotalOf(s, n) = TotalOf(t, n)
  BY <1>1, TotalOfSame
<1>3. TotalOf(t, n + 1) = TotalOf(t, n) + x
  BY <1>1, TotalOfStep
<1> QED BY <1>1, <1>2, <1>3 DEF Total, t, n

\* The sum of a sequence of lengths is a length; that of the empty one is 0.
LEMMA TotalType ==
  /\ Total(<< >>) = 0
  /\ \A s \in Seq(Nat) : Total(s) \in Nat
<1>1. Total(<< >>) = 0
  BY TotalOfStep DEF Total
<1>2. ASSUME NEW s \in Seq(Nat)
      PROVE  Total(s) \in Nat
  BY TotalOfNat DEF Total
<1> QED BY <1>1, <1>2

-----------------------------------------------------------------------------
(* Fields *)

\* Where a field begins no other field does: all but the last take at least a byte.
LEMMA ValuesAtStart ==
  ASSUME NEW fields, NEW n \in Nat, DOMAIN fields = 1..n,
         \A i \in 1..n : fields[i].width \in Nat,
         \A i \in 1..(n - 1) : fields[i].width > 0,
         NEW k \in 1..n
  PROVE  ValuesAt(fields, TotalOf(Widths(fields), k - 1)) = {fields[k].value}
<1> DEFINE w == Widths(fields)
<1>1. \A i \in 1..n : w[i] = fields[i].width
  BY DEF Widths
<1> HIDE DEF w
<1>2. \A i \in 1..(n - 1) : w[i] \in Nat /\ w[i] > 0
  BY <1>1
<1>3. ASSUME NEW j \in 1..n, TotalOf(w, j - 1) = TotalOf(w, k - 1), j # k
      PROVE  FALSE
  <2>1. n - 1 \in Nat /\ j - 1 \in 0..(n - 1) /\ k - 1 \in 0..(n - 1)
    OBVIOUS
  <2>2. j - 1 < k - 1 \/ k - 1 < j - 1
    BY <1>3
  <2>3. CASE j - 1 < k - 1
    <3>1. /\ TotalOf(w, j - 1) \in Nat /\ TotalOf(w, k - 1) \in Nat
          /\ TotalOf(w, j - 1) < TotalOf(w, k - 1)
      BY <1>2, <2>1, <2>3, TotalOfGrows, Zenon
    <3> QED BY <1>3, <3>1
  <2>4. CASE k - 1 < j - 1
    <3>1. /\ TotalOf(w, j - 1) \in Nat /\ TotalOf(w, k - 1) \in Nat
          /\ TotalOf(w, k - 1) < TotalOf(w, j - 1)
      BY <1>2, <2>1, <2>4, TotalOfGrows, Zenon
    <3> QED BY <1>3, <3>1
  <2> QED BY <2>2, <2>3, <2>4
<1>4. {i \in DOMAIN fields : TotalOf(w, i - 1) = TotalOf(w, k - 1)} = {k}
  BY <1>3
<1> QED BY <1>4 DEF ValuesAt, w
-----------------------------------------------------------------------------
(* Sequences *)

\* The elements of a concatenation, for fields that are written behind others.
LEMMA Concatenation ==
  ASSUME NEW S, NEW s \in Seq(S), NEW t \in Seq(S)
  PROVE  /\ s \o t \in Seq(S) /\ Len(s \o t) = Len(s) + Len(t)
         /\ \A i \in 1..(Len(s) + Len(t)) :
              (s \o t)[i] = IF i <= Len(s) THEN s[i] ELSE t[i - Len(s)]
  OBVIOUS

\* What was read is what was written once its elements are.
LEMMA SameSequence ==
  ASSUME NEW S, NEW s \in Seq(S), NEW t \in Seq(S), Len(s) = Len(t),
         \A i \in 1..Len(s) : s[i] = t[i]
  PROVE  s = t
<1>1. DOMAIN s = 1..Len(s) /\ DOMAIN t = 1..Len(t)
  OBVIOUS
<1>2. s = [i \in DOMAIN s |-> s[i]] /\ t = [i \in DOMAIN t |-> t[i]]
  OBVIOUS
<1> QED BY <1>1, <1>2, Zenon

-----------------------------------------------------------------------------
(* Filtering *)

\* The elements once there is one more.
LEMMA OneMore ==
  ASSUME NEW S, NEW s \in Seq(S), NEW x \in S
  PROVE  /\ Append(s, x) \in Seq(S)
         /\ Len(s) \in Nat /\ DOMAIN s = 1..Len(s)
         /\ Len(Append(s, x)) = Len(s) + 1
         /\ DOMAIN Append(s, x) = 1..(Len(s) + 1)
         /\ \A i \in 1..Len(s) : Append(s, x)[i] = s[i]
         /\ Append(s, x)[Len(s) + 1] = x
  OBVIOUS

\* f is the function Keep(s, S) chooses, for the first n elements of s.
Keeping(f, s, S, n) ==
  f = [i \in 0..n |-> IF i = 0 THEN << >>
                      ELSE IF s[i] \in S THEN Append(f[i - 1], s[i])
                      ELSE f[i - 1]]

\* There is one.
LEMMA KeepingExists ==
  ASSUME NEW s, NEW S, NEW n \in Nat
  PROVE  \E f : Keeping(f, s, S, n)
<1> DEFINE After(x, y) == IF y \in S THEN Append(x, y) ELSE x
           N == {m \in Nat : \E f : Keeping(f, s, S, m)}
<1>a. \A f, m : Keeping(f, s, S, m) <=>
        f = [i \in 0..m |-> IF i = 0 THEN << >> ELSE After(f[i - 1], s[i])]
  BY DEF Keeping
<1> HIDE DEF After
<1>1. 0 \in N
  <2> DEFINE e == [i \in 0..0 |-> << >>]
  <2>1. e = [i \in 0..0 |-> IF i = 0 THEN << >> ELSE After(e[i - 1], s[i])]
    OBVIOUS
  <2> QED BY <1>a, <2>1, Zenon
<1>2. ASSUME NEW m \in Nat, m \in N
      PROVE  m + 1 \in N
  <2>1. PICK f : f = [i \in 0..m |-> IF i = 0 THEN << >> ELSE After(f[i - 1], s[i])]
    BY <1>2, <1>a
  <2> DEFINE g == [i \in 0..(m + 1) |-> IF i <= m THEN f[i] ELSE After(f[m], s[m + 1])]
  <2>2. \A i \in 0..m : f[i] = IF i = 0 THEN << >> ELSE After(f[i - 1], s[i])
    BY <2>1, Zenon
  <2>3. \A i \in 0..(m + 1) : g[i] = IF i = 0 THEN << >> ELSE After(g[i - 1], s[i])
    <3> SUFFICES ASSUME NEW i \in 0..(m + 1)
                 PROVE  g[i] = IF i = 0 THEN << >> ELSE After(g[i - 1], s[i])
      OBVIOUS
    <3>1. CASE i = 0
      BY <3>1, <2>2
    <3>2. CASE i \in 1..m
      <4>1. i - 1 \in 0..m /\ i \in 0..m /\ i # 0
        BY <3>2
      <4>2. g[i] = f[i] /\ g[i - 1] = f[i - 1]
        BY <4>1
      <4> QED BY <4>1, <4>2, <2>2, Zenon
    <3>3. CASE i = m + 1
      <4>1. g[i] = After(f[m], s[m + 1]) /\ g[i - 1] = f[m] /\ i # 0
        BY <3>3
      <4> QED BY <4>1, <3>3
    <3> QED BY <3>1, <3>2, <3>3
  <2> HIDE DEF g
  <2>4. g = [i \in 0..(m + 1) |-> g[i]]
    BY DEF g
  <2>5. g = [i \in 0..(m + 1) |-> IF i = 0 THEN << >> ELSE After(g[i - 1], s[i])]
    BY <2>3, <2>4, Zenon
  <2>6. Keeping(g, s, S, m + 1)
    BY <1>a, <2>5, Zenon
  <2> QED BY <2>6
<1> HIDE DEF N
<1>3. Nat \subseteq N
  BY <1>1, <1>2, Induction
<1> QED BY <1>3 DEF N

\* What has been kept of the first i elements.
KeptOf(f, s, S, i) ==
  /\ f[i] \in Seq(STRING)
  /\ \A k \in DOMAIN f[i] : f[i][k] \in S
  /\ \A j \in 1..i : s[j] \in S => \E k \in DOMAIN f[i] : f[i][k] = s[j]

\* Exactly the elements of the set are kept.
LEMMA KeptExactly ==
  ASSUME NEW f, NEW s \in Seq(STRING), NEW S, Keeping(f, s, S, Len(s))
  PROVE  \A i \in 0..Len(s) : KeptOf(f, s, S, i)
<1> DEFINE n == Len(s)
           N == {i \in Nat : i <= n => KeptOf(f, s, S, i)}
<1>0. n \in Nat /\ \A i \in 1..n : s[i] \in STRING
  OBVIOUS
<1>1. \A i \in 0..n : f[i] = IF i = 0 THEN << >>
                             ELSE IF s[i] \in S THEN Append(f[i - 1], s[i])
                             ELSE f[i - 1]
  BY Zenon DEF Keeping
<1> HIDE DEF n
<1>2. 0 \in N
  <2>1. f[0] = << >>
    BY <1>0, <1>1
  <2>2. << >> \in Seq(STRING) /\ DOMAIN << >> = {}
    OBVIOUS
  <2>3. 1..0 = {}
    OBVIOUS
  <2>4. KeptOf(f, s, S, 0)
    BY <2>1, <2>2, <2>3 DEF KeptOf
  <2> QED BY <2>4
<1>3. ASSUME NEW i \in Nat, i \in N PROVE i + 1 \in N
  <2> SUFFICES ASSUME i + 1 <= n PROVE KeptOf(f, s, S, i + 1)
    OBVIOUS
  <2>1. KeptOf(f, s, S, i) /\ i + 1 \in 0..n /\ i + 1 \in 1..n /\ i + 1 # 0 /\ (i + 1) - 1 = i
    BY <1>0, <1>3
  <2> DEFINE x == f[i]
             y == f[i + 1]
             e == s[i + 1]
  <2>2. y = IF e \in S THEN Append(x, e) ELSE x
    BY <1>1, <2>1
  <2>3. /\ x \in Seq(STRING) /\ e \in STRING
        /\ \A k \in DOMAIN x : x[k] \in S
        /\ \A j \in 1..i : s[j] \in S => \E k \in DOMAIN x : x[k] = s[j]
    BY <1>0, <2>1, Zenon DEF KeptOf
  <2> HIDE DEF x, y
  <2>4. CASE e \in S
    <3>1. /\ y \in Seq(STRING) /\ Len(x) \in Nat /\ DOMAIN x = 1..Len(x)
          /\ DOMAIN y = 1..(Len(x) + 1)
          /\ \A k \in 1..Len(x) : y[k] = x[k]
          /\ y[Len(x) + 1] = e
      BY <2>2, <2>3, <2>4, OneMore
    <3>2. \A k \in DOMAIN y : y[k] \in S
      BY <2>3, <2>4, <3>1
    <3>3. ASSUME NEW j \in 1..(i + 1), s[j] \in S PROVE \E k \in DOMAIN y : y[k] = s[j]
      <4>1. CASE j = i + 1
        BY <3>1, <4>1
      <4>2. CASE j \in 1..i
        <5>1. PICK k \in DOMAIN x : x[k] = s[j]
          BY <2>3, <3>3, <4>2
        <5>2. k \in DOMAIN y /\ y[k] = s[j]
          BY <3>1, <5>1
        <5> QED BY <5>2
      <4> QED BY <4>1, <4>2
    <3> QED BY <3>1, <3>2, <3>3 DEF KeptOf, y
  <2>5. CASE e \notin S
    <3>1. \A j \in 1..(i + 1) : s[j] \in S => j \in 1..i
      BY <2>5
    <3>2. y = x
      BY <2>2, <2>5
    <3>3. \A j \in 1..(i + 1) : s[j] \in S => \E k \in DOMAIN y : y[k] = s[j]
      BY <2>3, <3>1, <3>2, Zenon
    <3> QED BY <2>3, <3>2, <3>3 DEF KeptOf, y
  <2> QED BY <2>4, <2>5
<1> HIDE DEF N
<1>4. Nat \subseteq N
  BY <1>2, <1>3, Induction
<1> QED BY <1>0, <1>4 DEF N, n

\* Two sets that hold the same elements of the sequence keep the same.
LEMMA KeptAlike ==
  ASSUME NEW f, NEW g, NEW s, NEW S, NEW T, NEW n \in Nat,
         Keeping(f, s, S, n), Keeping(g, s, T, n), \A i \in 1..n : s[i] \in S <=> s[i] \in T
  PROVE  f[n] = g[n]
<1> DEFINE N == {i \in Nat : i <= n => f[i] = g[i]}
<1>1. /\ \A i \in 0..n : f[i] = IF i = 0 THEN << >>
                                ELSE IF s[i] \in S THEN Append(f[i - 1], s[i]) ELSE f[i - 1]
      /\ \A i \in 0..n : g[i] = IF i = 0 THEN << >>
                                ELSE IF s[i] \in T THEN Append(g[i - 1], s[i]) ELSE g[i - 1]
  BY Zenon DEF Keeping
<1>2. 0 \in N
  BY <1>1
<1>3. ASSUME NEW i \in Nat, i \in N PROVE i + 1 \in N
  <2> SUFFICES ASSUME i + 1 <= n PROVE f[i + 1] = g[i + 1]
    OBVIOUS
  <2>1. /\ i + 1 \in 0..n /\ i + 1 \in 1..n /\ i + 1 # 0 /\ (i + 1) - 1 = i
        /\ f[i] = g[i]
    BY <1>3
  <2>2. /\ f[i + 1] = IF s[i + 1] \in S THEN Append(f[i], s[i + 1]) ELSE f[i]
        /\ g[i + 1] = IF s[i + 1] \in T THEN Append(g[i], s[i + 1]) ELSE g[i]
    BY <1>1, <2>1
  <2>3. s[i + 1] \in S <=> s[i + 1] \in T
    BY <2>1
  <2> QED BY <2>1, <2>2, <2>3, Zenon
<1> HIDE DEF N
<1>4. Nat \subseteq N
  BY <1>2, <1>3, Induction
<1> QED BY <1>4 DEF N

\* What Keep selects from a sequence is what that selection selects again.
LEMMA KeepAgain ==
  ASSUME NEW s \in Seq(STRING), NEW S, NEW x, x = Keep(s, S)
  PROVE  x = Keep(s, {x[k] : k \in DOMAIN x})
<1> DEFINE F(set) == CHOOSE f : Keeping(f, s, set, Len(s))
<1>0. Len(s) \in Nat /\ Len(s) \in 0..Len(s)
  OBVIOUS
<1>1. \A set : Keep(s, set) = F(set)[Len(s)] /\ Keeping(F(set), s, set, Len(s))
  <2> TAKE set
  <2>1. Keeping(F(set), s, set, Len(s))
    BY <1>0, KeepingExists
  <2>2. Keep(s, set) = F(set)[Len(s)]
    BY Zenon DEF Keep, Keeping
  <2> QED BY <2>1, <2>2
<1> HIDE DEF F
<1>2. KeptOf(F(S), s, S, Len(s)) /\ x = F(S)[Len(s)]
  BY <1>0, <1>1, KeptExactly
<1>3. \A i \in 1..Len(s) : s[i] \in S <=> s[i] \in {x[k] : k \in DOMAIN x}
  BY <1>2 DEF KeptOf
<1>4. F(S)[Len(s)] = F({x[k] : k \in DOMAIN x})[Len(s)]
  BY <1>0, <1>1, <1>3, KeptAlike
<1> QED BY <1>1, <1>2, <1>4

\* Nothing is kept of a sequence by the empty set.
LEMMA KeepNone ==
  ASSUME NEW s \in Seq(STRING)
  PROVE  Keep(s, {}) = << >>
<1> DEFINE f == CHOOSE f : Keeping(f, s, {}, Len(s))
<1>0. Len(s) \in Nat /\ Len(s) \in 0..Len(s)
  OBVIOUS
<1>1. Keeping(f, s, {}, Len(s))
  BY <1>0, KeepingExists
<1>2. Keep(s, {}) = f[Len(s)]
  BY Zenon DEF Keep, Keeping
<1> HIDE DEF f
<1>3. KeptOf(f, s, {}, Len(s))
  BY <1>0, <1>1, KeptExactly
<1> DEFINE x == f[Len(s)]
<1>4. x \in Seq(STRING) /\ \A k \in DOMAIN x : FALSE
  BY <1>3 DEF KeptOf
<1> HIDE DEF x
<1>5. x = << >>
  <2>1. Len(x) \in Nat /\ DOMAIN x = 1..Len(x)
    BY <1>4
  <2>2. 1 \notin DOMAIN x
    BY <1>4
  <2>3. Len(x) = 0
    BY <2>1, <2>2
  <2> QED BY <1>4, <2>3
<1> QED BY <1>2, <1>5 DEF x

-----------------------------------------------------------------------------
(* Remainders *)

\* q and r are the quotient and the remainder of n.
Divided(n, N, q, r) == q \in Nat /\ r \in 0..(N - 1) /\ n = N * q + r

\* A remainder is what is left of a multiple of the modulus.
LEMMA Quotient ==
  ASSUME NEW n \in Nat, NEW N \in Nat \ {0}
  PROVE  Divided(n, N, n \div N, n % N)
<1> SUFFICES ASSUME NEW q, NEW r, q = n \div N, r = n % N
             PROVE  Divided(n, N, q, r)
  OBVIOUS
<1>1. r \in 0..(N - 1) /\ q \in Int
  OBVIOUS
<1>2. r = n - N * q
  OBVIOUS
<1>3. n = N * q + r
  BY <1>1, <1>2
<1>4. q >= 0
  BY <1>1, <1>3
<1> QED
  BY <1>1, <1>3, <1>4 DEF Divided

\* Counting on from a remainder.
LEMMA Successor ==
  ASSUME NEW n \in Nat, NEW N \in Nat \ {0}
  PROVE  ((n % N) + 1) % N = (n + 1) % N
<1> DEFINE q == n \div N
           r == n % N
           a == (r + 1) \div N
           s == (r + 1) % N
           b == (n + 1) \div N
           t == (n + 1) % N
<1>a. Divided(n, N, q, r)
  BY Quotient
<1>b. r + 1 \in Nat
  BY <1>a DEF Divided
<1>c. Divided(r + 1, N, a, s)
  BY <1>b, Quotient
<1>d. Divided(n + 1, N, b, t)
  BY Quotient
<1> HIDE DEF q, r, a, s, b, t
<1>1. q \in Nat /\ r \in 0..(N - 1) /\ n = N * q + r
  BY <1>a DEF Divided
<1>2. a \in Nat /\ s \in 0..(N - 1) /\ r + 1 = N * a + s
  BY <1>c DEF Divided
<1>3. b \in Nat /\ t \in 0..(N - 1) /\ n + 1 = N * b + t
  BY <1>d DEF Divided
<1> DEFINE d == q + a - b
<1>4. d \in Int /\ N * d = t - s
  <2>1. N * d = N * q + N * a - N * b
    BY <1>1, <1>2, <1>3
  <2>2. N * q \in Int /\ N * a \in Int /\ N * b \in Int
    BY <1>1, <1>2, <1>3
  <2> QED
    BY <1>1, <1>2, <1>3, <2>1, <2>2
<1> HIDE DEF d
<1>5. t - s < N /\ t - s > -N
  BY <1>2, <1>3
<1>6. CASE d >= 1
  <2>1. N * d >= N
    BY <1>4, <1>6
  <2> QED
    BY <1>2, <1>3, <1>4, <1>5, <2>1
<1>7. CASE d <= -1
  <2>1. N * d <= -N
    BY <1>4, <1>7
  <2> QED
    BY <1>2, <1>3, <1>4, <1>5, <2>1
<1>8. CASE d = 0
  <2>1. s = t
    BY <1>2, <1>3, <1>4, <1>8
  <2> QED
    BY <2>1 DEF s, t, r
<1> QED
  BY <1>4, <1>6, <1>7, <1>8

\* Numbers less than N apart have different remainders.
LEMMA Apart ==
  ASSUME NEW N \in Nat \ {0}, NEW i \in Nat, NEW j \in Nat, i < j, j - i < N
  PROVE  i % N # j % N
<1> DEFINE p == i \div N
           q == j \div N
           r == i % N
           s == j % N
<1>a. Divided(i, N, p, r) /\ Divided(j, N, q, s)
  BY Quotient, Zenon
<1> HIDE DEF p, q, r, s
<1>1. /\ p \in Nat /\ q \in Nat /\ r \in 0..(N - 1)
      /\ i = N * p + r /\ j = N * q + s
  BY <1>a DEF Divided
<1>2. ASSUME r = s PROVE FALSE
  <2>1. N * (q - p) = j - i
    BY <1>1, <1>2
  <2>2. CASE q - p >= 1
    BY <1>1, <2>1, <2>2
  <2>3. CASE q - p <= 0
    BY <1>1, <2>1, <2>3
  <2> QED
    BY <1>1, <2>2, <2>3
<1> QED
  BY <1>2 DEF r, s
=============================================================================
