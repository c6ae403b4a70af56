----------------------------- MODULE SumsProofs -----------------------------
(***************************************************************************)
(* The algebra of SumTo: its value is an integer, it adds up pointwise and *)
(* changing one term changes the sum by as much.  The induction goes       *)
(* through sets (UpTo), because the induction theorems of the library take *)
(* an operator as their parameter.                                         *)
(***************************************************************************)
EXTENDS Sums, WellFoundedInduction, TLAPS

\* The order of the natural numbers as a set of pairs.
NatLess == {p \in Nat \X Nat : p[1] < p[2]}

\* The order is well founded.
LEMMA NatLessWellFounded == IsWellFoundedOn(NatLess, Nat)
<1>1. OpToRel(<, Nat) = NatLess
  BY Zenon DEF OpToRel, NatLess
<1> QED
  BY <1>1, NatLessThanWellFounded

\* A non-empty set of natural numbers has a least element.
LEMMA LeastNatural ==
  ASSUME NEW T, T \subseteq Nat, T # {}
  PROVE  \E m \in T : \A k \in T : m <= k
<1>2. PICK m \in T : \A y \in T : ~ (<<y, m>> \in NatLess)
  BY NatLessWellFounded, WFMin, Zenon
<1>3. ASSUME NEW k \in T PROVE m <= k
  <2>1. k \in Nat /\ m \in Nat
    OBVIOUS
  <2>2. k < m => <<k, m>> \in NatLess
    BY <2>1 DEF NatLess
  <2> QED BY <1>2, <2>1, <2>2
<1> QED
  BY <1>3

\* Induction up to n, with a set in place of a predicate.
LEMMA UpTo ==
  ASSUME NEW n \in Nat, NEW G, 0 \in G,
         \A k \in 1..n : k - 1 \in G => k \in G
  PROVE  \A k \in 0..n : k \in G
<1> DEFINE T == {k \in 0..n : k \notin G}
<1>1. ASSUME T # {} PROVE FALSE
  <2>0. T \subseteq Nat
    OBVIOUS
  <2>1. PICK m \in T : \A k \in T : m <= k
    <3> HIDE DEF T
    <3> QED BY <1>1, <2>0, LeastNatural
  <2>2. m \in 1..n
    OBVIOUS
  <2>3. m - 1 \in G
    BY <2>1, <2>2
  <2> QED BY <2>2, <2>3
<1> QED
  BY <1>1

\* s lists the partial sums of f up to k.
IsRun(s, f, k) == 
  s \in [0..k -> Int] /\ s[0] = 0 /\ \A i \in 1..k : s[i] = s[i-1] + f[i]

\* The partial sums exist.
LEMMA RunExists ==
  ASSUME NEW n \in Nat, NEW f \in [1..n -> Int]
  PROVE  \E s : IsRun(s, f, n)
<1> DEFINE G == {k \in 0..n : \E s : IsRun(s, f, k)}
<1>1. 0 \in G
  <2>1. IsRun([i \in 0..0 |-> 0], f, 0) BY DEF IsRun
  <2> QED BY <2>1
<1>2. ASSUME NEW k \in 1..n, k - 1 \in G PROVE k \in G
  <2>1. PICK s : IsRun(s, f, k - 1) BY <1>2
  <2>2. f[k] \in Int /\ s[k-1] \in Int BY <2>1 DEF IsRun
  <2> DEFINE t == [i \in 0..k |-> IF i = k THEN s[k-1] + f[k] ELSE s[i]]
  <2>3. t \in [0..k -> Int]
    BY <2>1, <2>2 DEF IsRun
  <2>4. t[0] = 0 
    BY <2>1 DEF IsRun
  <2>5. ASSUME NEW i \in 1..k PROVE t[i] = t[i-1] + f[i]
    <3>1. CASE i = k BY <3>1, <2>2
    <3>2. CASE i # k BY <3>2, <2>1 DEF IsRun
    <3> QED BY <3>1, <3>2
  <2>6. IsRun(t, f, k)
    <3> HIDE DEF t
    <3> QED BY <2>3, <2>4, <2>5 DEF IsRun
  <2> QED BY <2>6
<1>3. \A k \in 0..n : k \in G
  <2> HIDE DEF G
  <2> QED BY <1>1, <1>2, UpTo
<1> QED
  BY <1>3

\* The recursive equation by which SumTo defines its partial sums.
IsRec(s, f, n) == s = [i \in 0..n |-> IF i = 0 THEN 0 ELSE s[i-1] + f[i]]

\* SumTo is the last partial sum.
LEMMA SumIsRun ==
  ASSUME NEW n \in Nat, NEW f \in [1..n -> Int], NEW s, IsRun(s, f, n)
  PROVE  SumTo(f, n) = s[n]
<1> DEFINE c == CHOOSE t : IsRec(t, f, n)
<1>1. SumTo(f, n) = c[n]
   BY DEF SumTo, IsRec
<1>2. IsRec(s, f, n)
   BY DEF IsRec, IsRun
<1>3. IsRec(c, f, n)
   BY <1>2
<1> HIDE DEF c
<1>5. DOMAIN c = 0..n /\ c[0] = 0 /\ \A i \in 1..n : c[i] = c[i-1] + f[i]
   BY <1>3 DEF IsRec
<1> DEFINE G == {k \in 0..n : c[k] = s[k]}
<1>6. 0 \in G
   BY <1>5 DEF IsRun
<1>7. ASSUME NEW k \in 1..n, k - 1 \in G PROVE k \in G
   BY <1>7, <1>5 DEF IsRun
<1>8. \A k \in 0..n : k \in G
  <2> HIDE DEF G
  <2> QED BY <1>6, <1>7, UpTo
<1> QED
  BY <1>1, <1>8

\* A sum of integers is an integer.
LEMMA SumToType ==
  ASSUME NEW n \in Nat, NEW f \in [1..n -> Int]
  PROVE  SumTo(f, n) \in Int
<1>1. PICK s : IsRun(s, f, n) BY RunExists
<1>2. s[n] \in Int BY <1>1 DEF IsRun
<1> QED BY <1>1, <1>2, SumIsRun

\* Sums add up pointwise.
LEMMA SumAdd ==
  ASSUME NEW n \in Nat, NEW f \in [1..n -> Int], NEW g \in [1..n -> Int], NEW h \in [1..n -> Int],
         \A i \in 1..n : h[i] = f[i] + g[i]
  PROVE  SumTo(h, n) = SumTo(f, n) + SumTo(g, n)
<1>1. PICK s : IsRun(s, f, n) BY RunExists
<1>2. PICK t : IsRun(t, g, n) BY RunExists
<1> DEFINE u == [i \in 0..n |-> s[i] + t[i]]
<1>3. IsRun(u, h, n)
  <2>1. u \in [0..n -> Int] /\ u[0] = 0 BY <1>1, <1>2 DEF IsRun
  <2>2. ASSUME NEW i \in 1..n PROVE u[i] = u[i-1] + h[i]
    <3>1. /\ s[i] = s[i-1] + f[i] /\ s[i-1] \in Int
          /\ t[i] = t[i-1] + g[i] /\ t[i-1] \in Int
      BY <1>1, <1>2 DEF IsRun
    <3>2. u[i] = s[i] + t[i] /\ u[i-1] = s[i-1] + t[i-1] OBVIOUS
    <3>3. f[i] \in Int /\ g[i] \in Int /\ h[i] = f[i] + g[i] OBVIOUS
    <3> HIDE DEF u
    <3> QED BY <3>1, <3>2, <3>3
  <2> HIDE DEF u
  <2> QED BY <2>1, <2>2 DEF IsRun
<1>4. u[n] = s[n] + t[n] OBVIOUS
<1> HIDE DEF u
<1> QED BY <1>1, <1>2, <1>3, <1>4, SumIsRun

\* A function that is zero but at j sums up to its value at j.
LEMMA SumPoint ==
  ASSUME NEW n \in Nat, NEW f \in [1..n -> Int], NEW j \in 1..n,
         \A i \in 1..n : i # j => f[i] = 0
  PROVE  SumTo(f, n) = f[j]
<1> DEFINE s == [i \in 0..n |-> IF i < j THEN 0 ELSE f[j]]
<1>1. IsRun(s, f, n)
  <2>1. s \in [0..n -> Int] /\ s[0] = 0 OBVIOUS
  <2>2. ASSUME NEW i \in 1..n PROVE s[i] = s[i-1] + f[i]
    <3>1. CASE i < j BY <3>1
    <3>2. CASE i = j BY <3>2
    <3>3. CASE i > j BY <3>3
    <3> QED BY <3>1, <3>2, <3>3
  <2> HIDE DEF s
  <2> QED BY <2>1, <2>2 DEF IsRun
<1>2. s[n] = f[j] OBVIOUS
<1> HIDE DEF s
<1> QED BY <1>1, <1>2, SumIsRun

\* The sum of zeros is zero.
LEMMA SumZero ==
  ASSUME NEW n \in Nat, NEW f \in [1..n -> Int], \A i \in 1..n : f[i] = 0
  PROVE  SumTo(f, n) = 0
<1> DEFINE s == [i \in 0..n |-> 0]
<1>1. IsRun(s, f, n) BY DEF IsRun
<1> HIDE DEF s
<1>2. QED BY <1>1, SumIsRun DEF s

\* Changing a function at j changes its sum by the same amount.
LEMMA SumChange ==
  ASSUME NEW n \in Nat, NEW f \in [1..n -> Int], NEW g \in [1..n -> Int], NEW j \in 1..n,
         \A i \in 1..n : i # j => g[i] = f[i]
  PROVE  SumTo(g, n) = SumTo(f, n) + (g[j] - f[j])
<1> DEFINE d == [i \in 1..n |-> IF i = j THEN g[j] - f[j] ELSE 0]
<1>1. d \in [1..n -> Int] /\ d[j] = g[j] - f[j] /\ \A i \in 1..n : i # j => d[i] = 0
  OBVIOUS
<1>2. \A i \in 1..n : g[i] = f[i] + d[i]
  OBVIOUS
<1> HIDE DEF d
<1>3. SumTo(d, n) = d[j]
  BY <1>1, SumPoint
<1>4. SumTo(g, n) = SumTo(f, n) + SumTo(d, n)
  BY <1>1, <1>2, SumAdd
<1> QED BY <1>1, <1>3, <1>4

\* A function that is nowhere greater has no greater sum.
LEMMA SumMono ==
  ASSUME NEW n \in Nat, NEW f \in [1..n -> Int], NEW g \in [1..n -> Int],
         \A i \in 1..n : f[i] <= g[i]
  PROVE  SumTo(f, n) <= SumTo(g, n)
<1>1. PICK s : IsRun(s, f, n)
  BY RunExists
<1>2. PICK t : IsRun(t, g, n)
  BY RunExists
<1> DEFINE G == {i \in 0..n : s[i] <= t[i]}
<1>3. 0 \in G
  BY <1>1, <1>2 DEF IsRun
<1>4. ASSUME NEW i \in 1..n, i - 1 \in G PROVE i \in G
  <2>1. s[i] = s[i-1] + f[i] /\ t[i] = t[i-1] + g[i] /\ s[i-1] <= t[i-1]
    BY <1>1, <1>2, <1>4 DEF IsRun
  <2>2. s[i-1] \in Int /\ t[i-1] \in Int /\ f[i] \in Int /\ g[i] \in Int /\ f[i] <= g[i]
    BY <1>1, <1>2 DEF IsRun
  <2> QED BY <2>1, <2>2
<1> HIDE DEF G
<1>5. \A i \in 0..n : i \in G
  BY <1>3, <1>4, UpTo
<1>6. SumTo(f, n) = s[n] /\ SumTo(g, n) = t[n]
  BY <1>1, <1>2, SumIsRun
<1> QED BY <1>5, <1>6 DEF G
=============================================================================
