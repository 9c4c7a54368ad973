---------------------------- MODULE SumTheorems ----------------------------
(***************************************************************************)
(* What the proofs about accounts need to know of SumUpTo: it is an        *)
(* integer (a natural number when every term is one), it is zero when      *)
(* every term is, and changing one term changes the sum by as much.        *)
(* Induction over the interval is by least counterexample: the principle   *)
(* LeastNatural is a fact about sets, which the provers can instantiate.   *)
(***************************************************************************)
EXTENDS Sums, WellFoundedInduction, TLAPS

(* A non-empty set of natural numbers has a least element.                 *)
LEMMA LeastNatural ==
  ASSUME NEW T, T \subseteq Nat, T # {}
  PROVE  \E m \in T : \A k \in T : m <= k
<1> DEFINE R == {ss \in Nat \X Nat : ss[1] < ss[2]}
<1>1. OpToRel(<, Nat) = R
  BY Zenon DEF OpToRel
<1>2. IsWellFoundedOn(R, Nat)
  BY <1>1, NatLessThanWellFounded, Zenon
<1>3. PICK m \in T : \A k \in T : ~ (<<k, m>> \in R)
  BY <1>2, WFMin, Zenon
<1>4. ASSUME NEW k \in T PROVE m <= k
  <2>1. ~ (<<k, m>> \in R)
    BY <1>3
  <2>2. k \in Nat /\ m \in Nat
    OBVIOUS
  <2>3. ~ (k < m)
    BY <2>1, <2>2
  <2>4. QED
    BY <2>2, <2>3
<1>5. QED
  BY <1>4

(* A set that holds 0, and i whenever it holds i - 1, holds all of 0 .. n. *)
LEMMA IntervalInduction ==
  ASSUME NEW n \in Nat, NEW S,
         0 \in S,
         \A i \in 1 .. n : i - 1 \in S => i \in S
  PROVE  \A i \in 0 .. n : i \in S
<1> DEFINE T == {i \in 0 .. n : i \notin S}
<1>1. SUFFICES ASSUME T # {} PROVE FALSE
  OBVIOUS
<1>2. T \subseteq Nat
  OBVIOUS
<1>3. PICK m \in T : \A k \in T : m <= k
  BY <1>1, <1>2, LeastNatural, Zenon
<1>4. m \in 1 .. n
  OBVIOUS
<1>5. m - 1 \in 0 .. n /\ ~ (m <= m - 1)
  BY <1>4
<1>6. m - 1 \in S
  BY <1>3, <1>5
<1>7. QED
  BY <1>4, <1>6

(* s holds the partial sums of f over 0 .. n.                              *)
ArePartialSums(s, f, n) ==
  /\ s \in [0 .. n -> Int]
  /\ s[0] = f[0]
  /\ \A i \in 1 .. n : s[i] = s[i - 1] + f[i]

(* Every integer-valued f has partial sums.                                *)
LEMMA PartialSumsExist ==
  ASSUME NEW n \in Nat, NEW f, \A i \in 0 .. n : f[i] \in Int
  PROVE  \E s : ArePartialSums(s, f, n)
<1> DEFINE S == {k \in 0 .. n : \E s : ArePartialSums(s, f, k)}
<1>1. 0 \in S
  <2>1. ArePartialSums([i \in 0 .. 0 |-> f[0]], f, 0)
    BY DEF ArePartialSums
  <2>2. QED
    BY <2>1
<1>2. ASSUME NEW i \in 1 .. n, i - 1 \in S
      PROVE  i \in S
  <2>1. PICK s : ArePartialSums(s, f, i - 1)
    BY <1>2
  <2> DEFINE t == [j \in 0 .. i |-> IF j = i THEN s[i - 1] + f[i] ELSE s[j]]
  <2>2. s \in [0 .. i - 1 -> Int] /\ f[i] \in Int
    BY <2>1 DEF ArePartialSums
  <2>3. t \in [0 .. i -> Int]
    BY <2>2
  <2>4. t[0] = f[0]
    BY <2>1 DEF ArePartialSums
  <2>5. ASSUME NEW j \in 1 .. i PROVE t[j] = t[j - 1] + f[j]
    BY <2>1 DEF ArePartialSums
  <2>6. ArePartialSums(t, f, i)
    BY <2>3, <2>4, <2>5 DEF ArePartialSums
  <2>7. QED
    BY <2>6
<1>3. \A i \in 0 .. n : i \in S
  <2> HIDE DEF S
  <2>1. QED
    BY <1>1, <1>2, IntervalInduction
<1>4. QED
  BY <1>3

(* The recursive function in SumUpTo is well-defined.                      *)
LEMMA SumUpToIsSum ==
  ASSUME NEW n \in Nat, NEW f, \A i \in 0 .. n : f[i] \in Int
  PROVE  \E s : ArePartialSums(s, f, n) /\ SumUpTo(f, n) = s[n]
<1> DEFINE Step(g) == [i \in 0 .. n |-> IF i = 0 THEN f[0] ELSE g[i - 1] + f[i]]
           sum == CHOOSE g : g = Step(g)
<1>1. PICK s : ArePartialSums(s, f, n)
  BY PartialSumsExist
<1>2. s = Step(s)
  BY <1>1 DEF ArePartialSums
<1>3. sum = Step(sum)
  BY <1>2, Zenon
<1>4. SumUpTo(f, n) = sum[n]
  BY Zenon DEF SumUpTo
<1>5. sum = s
  <2> DEFINE S == {i \in 0 .. n : sum[i] = s[i]}
  <2> HIDE DEF sum
  <2>1. DOMAIN sum = 0 .. n /\ sum = [i \in 0 .. n |-> sum[i]]
    BY <1>3
  <2>2. 0 \in S
    BY <1>1, <1>3 DEF ArePartialSums
  <2>3. \A i \in 1 .. n : i - 1 \in S => i \in S
    BY <1>1, <1>3 DEF ArePartialSums
  <2>4. \A i \in 0 .. n : i \in S
    <3> HIDE DEF S
    <3>1. QED
      BY <2>2, <2>3, IntervalInduction
  <2>5. QED
    BY <1>1, <2>1, <2>4 DEF ArePartialSums
<1>6. QED
  BY <1>1, <1>4, <1>5

(* A sum of integers is an integer.                                        *)
LEMMA SumIsInt ==
  ASSUME NEW n \in Nat, NEW f, \A i \in 0 .. n : f[i] \in Int
  PROVE  SumUpTo(f, n) \in Int
BY SumUpToIsSum DEF ArePartialSums

(* A sum of natural numbers is a natural number.                           *)
LEMMA SumIsNat ==
  ASSUME NEW n \in Nat, NEW f, \A i \in 0 .. n : f[i] \in Nat
  PROVE  SumUpTo(f, n) \in Nat
<1>1. PICK s : ArePartialSums(s, f, n) /\ SumUpTo(f, n) = s[n]
  BY SumUpToIsSum
<1> DEFINE S == {i \in 0 .. n : s[i] \in Nat}
<1>2. 0 \in S
  BY <1>1 DEF ArePartialSums
<1>3. ASSUME NEW i \in 1 .. n, i - 1 \in S PROVE i \in S
  <2>1. s[i] = s[i - 1] + f[i] /\ s[i - 1] \in Nat /\ f[i] \in Nat
    BY <1>1, <1>3 DEF ArePartialSums
  <2>2. QED
    BY <2>1
<1>4. \A i \in 0 .. n : i \in S
  <2> HIDE DEF S
  <2>1. QED
    BY <1>2, <1>3, IntervalInduction
<1>5. QED
  BY <1>1, <1>4 DEF ArePartialSums

(* A sum of zeros is zero.                                                 *)
LEMMA SumOfZeros ==
  ASSUME NEW n \in Nat, NEW f, \A i \in 0 .. n : f[i] = 0
  PROVE  SumUpTo(f, n) = 0
<1>1. PICK s : ArePartialSums(s, f, n) /\ SumUpTo(f, n) = s[n]
  BY SumUpToIsSum
<1> DEFINE S == {i \in 0 .. n : s[i] = 0}
<1>2. 0 \in S
  BY <1>1 DEF ArePartialSums
<1>3. \A i \in 1 .. n : i - 1 \in S => i \in S
  BY <1>1 DEF ArePartialSums
<1>4. \A i \in 0 .. n : i \in S
  <2> HIDE DEF S
  <2>1. QED
    BY <1>2, <1>3, IntervalInduction
<1>5. QED
  BY <1>1, <1>4

(* If f and g differ in the term k only, so do their sums, by as much.     *)
LEMMA SumUpdate ==
  ASSUME NEW n \in Nat, NEW k \in 0 .. n, NEW f, NEW g,
         \A i \in 0 .. n : f[i] \in Int,
         \A i \in 0 .. n : g[i] \in Int,
         \A i \in 0 .. n : i # k => g[i] = f[i]
  PROVE  SumUpTo(g, n) = SumUpTo(f, n) + (g[k] - f[k])
<1>1. PICK s : ArePartialSums(s, f, n) /\ SumUpTo(f, n) = s[n]
  BY SumUpToIsSum
<1>2. PICK t : ArePartialSums(t, g, n) /\ SumUpTo(g, n) = t[n]
  BY SumUpToIsSum
<1> DEFINE S == {i \in 0 .. n : t[i] = IF i < k THEN s[i] ELSE s[i] + (g[k] - f[k])}
<1>3. 0 \in S
  BY <1>1, <1>2 DEF ArePartialSums
<1>4. \A i \in 1 .. n : i - 1 \in S => i \in S
  <2>1. SUFFICES ASSUME NEW i \in 1 .. n, i - 1 \in S PROVE i \in S
    OBVIOUS
  <2>2. t[i] = t[i - 1] + g[i] /\ s[i] = s[i - 1] + f[i]
    BY <1>1, <1>2 DEF ArePartialSums
  <2>3. s[i - 1] \in Int /\ t[i - 1] \in Int /\ f[i] \in Int /\ g[i] \in Int
    BY <1>1, <1>2 DEF ArePartialSums
  <2>4. CASE i < k
    BY <2>1, <2>2, <2>3, <2>4
  <2>5. CASE i = k
    BY <2>1, <2>2, <2>3, <2>5
  <2>6. CASE i > k
    BY <2>1, <2>2, <2>3, <2>6
  <2>7. QED
    BY <2>4, <2>5, <2>6
<1>5. \A i \in 0 .. n : i \in S
  <2> HIDE DEF S
  <2>1. QED
    BY <1>3, <1>4, IntervalInduction
<1>6. QED
  BY <1>1, <1>2, <1>5 DEF ArePartialSums

=============================================================================
