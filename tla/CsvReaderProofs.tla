-------------------------- MODULE CsvReaderProofs --------------------------
(***************************************************************************)
(* Proofs about the reader, for every set of files, every number of        *)
(* decimals but none, and every width of the integers and the identifiers. *)
(***************************************************************************)
EXTENDS CsvReader, SumTheorems, FiniteSetTheorems

-----------------------------------------------------------------------------
(***************************************************************************)
(* Outcomes: a set with at most one element.                               *)
(***************************************************************************)

AtMostOne(S) == \A x, y \in S : x = y

LEMMA AtMostOneIsSmall ==
  ASSUME NEW S, AtMostOne(S)
  PROVE  IsFiniteSet(S) /\ Cardinality(S) <= 1
<1>1. CASE S = {}
  <2>1. IsFiniteSet(S) /\ Cardinality(S) = 0
    BY <1>1, FS_EmptySet
  <2>2. QED
    BY <2>1
<1>2. CASE S # {}
  <2>1. PICK x \in S : TRUE
    BY <1>2
  <2>2. S = {x}
    BY <2>1 DEF AtMostOne
  <2>3. IsFiniteSet(S) /\ Cardinality(S) = 1
    BY <2>2, FS_Singleton
  <2>4. QED
    BY <2>3
<1>3. QED
  BY <1>1, <1>2

(* Powers of two are positive: they count the subsets of an interval.      *)
LEMMA PowerOfTwo ==
  ASSUME NEW n \in Nat
  PROVE  2 ^ n \in Nat \ {0}
<1> DEFINE S == 1 .. n
<1>1. IsFiniteSet(S) /\ Cardinality(S) = n
  <2>1. n \in Int /\ 1 \in Int /\ n - 1 + 1 = n /\ (1 > n => n = 0)
    OBVIOUS
  <2>2. IsFiniteSet(S) /\ Cardinality(S) = IF 1 > n THEN 0 ELSE n - 1 + 1
    BY <2>1, FS_Interval
  <2>3. QED
    BY <2>1, <2>2
<1> HIDE DEF S
<1>2. IsFiniteSet(SUBSET S) /\ Cardinality(SUBSET S) = 2 ^ n
  BY <1>1, FS_SUBSET
<1>3. Cardinality(SUBSET S) \in Nat
  BY <1>2, FS_CardinalityType
<1>4. SUBSET S # {}
  OBVIOUS
<1>5. Cardinality(SUBSET S) # 0
  BY <1>2, <1>4, FS_EmptySet
<1>6. QED
  BY <1>2, <1>3, <1>5

-----------------------------------------------------------------------------
(***************************************************************************)
(* Numbers.                                                                *)
(***************************************************************************)

LEMMA DigitType == \A d \in Digit : DigitValue[d] \in 0 .. 9
BY DEF Digit, DigitValue

(* v holds the values of the prefixes of ds.                               *)
ArePrefixValues(v, ds) ==
  /\ v \in [0 .. Len(ds) -> Nat]
  /\ v[0] = 0
  /\ \A i \in 1 .. Len(ds) : v[i] = 10 * v[i - 1] + DigitValue[ds[i]]

LEMMA PrefixStep ==
  ASSUME NEW ds, NEW v, Len(ds) \in Nat, AllDigits(ds), ArePrefixValues(v, ds),
         NEW i \in 1 .. Len(ds)
  PROVE  /\ v[i] = 10 * v[i - 1] + DigitValue[ds[i]]
         /\ v[i - 1] \in Nat
         /\ ds[i] \in Digit /\ DigitValue[ds[i]] \in 0 .. 9
<1>1. i - 1 \in 0 .. Len(ds)
  OBVIOUS
<1>2. v[i] = 10 * v[i - 1] + DigitValue[ds[i]] /\ v[i - 1] \in Nat
  BY <1>1 DEF ArePrefixValues
<1>3. ds[i] \in Digit
  BY DEF AllDigits
<1>4. QED
  BY <1>2, <1>3, DigitType

(* Numbers are put together from the left, one digit at a time.            *)
AreValues(v, k, digit) ==
  /\ v \in [0 .. k -> Nat]
  /\ v[0] = 0
  /\ \A i \in 1 .. k : v[i] = 10 * v[i - 1] + digit[i]

LEMMA ValuesExist ==
  ASSUME NEW n \in Nat, NEW digit \in [1 .. n -> Nat]
  PROVE  \E v : AreValues(v, n, digit)
<1> DEFINE S == {k \in 0 .. n : \E v : AreValues(v, k, digit)}
<1>1. 0 \in S
  <2> DEFINE w == [i \in 0 .. 0 |-> 0]
  <2>1. AreValues(w, 0, digit)
    BY DEF AreValues
  <2> HIDE DEF w
  <2>2. QED
    BY <2>1
<1>2. ASSUME NEW i \in 1 .. n, i - 1 \in S
      PROVE  i \in S
  <2>1. PICK v : AreValues(v, i - 1, digit)
    BY <1>2
  <2> DEFINE w == [j \in 0 .. i |-> IF j = i THEN 10 * v[i - 1] + digit[i] ELSE v[j]]
  <2>2. digit[i] \in Nat
    OBVIOUS
  <2>3. i \in Nat /\ v \in [0 .. i - 1 -> Nat] /\ v[i - 1] \in Nat
    BY <2>1 DEF AreValues
  <2>4. w \in [0 .. i -> Nat]
    BY <2>2, <2>3
  <2>5. w[0] = 0
    BY <2>1 DEF AreValues
  <2>6. ASSUME NEW j \in 1 .. i PROVE w[j] = 10 * w[j - 1] + digit[j]
    <3>1. j - 1 \in 0 .. i /\ j - 1 # i /\ w[j - 1] = v[j - 1]
      BY <2>3
    <3>2. CASE j = i
      BY <3>1, <3>2
    <3>3. CASE j # i
      <4>1. j \in 1 .. i - 1 /\ w[j] = v[j]
        BY <2>3, <3>3
      <4>2. v[j] = 10 * v[j - 1] + digit[j]
        BY <2>1, <4>1 DEF AreValues
      <4>3. QED
        BY <3>1, <4>1, <4>2
    <3>4. QED
      BY <3>2, <3>3
  <2>7. AreValues(w, i, digit)
    BY <2>4, <2>5, <2>6 DEF AreValues
  <2> HIDE DEF w
  <2>8. QED
    BY <2>7
<1>3. n \in S
  <2> HIDE DEF S
  <2>1. \A i \in 0 .. n : i \in S
    BY <1>1, <1>2, IntervalInduction
  <2>2. QED
    BY <2>1
<1>4. QED
  BY <1>3

LEMMA PrefixValuesExist ==
  ASSUME NEW ds, Len(ds) \in Nat, AllDigits(ds)
  PROVE  \E v : ArePrefixValues(v, ds)
<1> DEFINE n == Len(ds)
           digit == [i \in 1 .. n |-> DigitValue[ds[i]]]
<1> HIDE DEF n
<1>1. n \in Nat /\ \A i \in 1 .. n : DigitValue[ds[i]] \in Nat
  BY DigitType DEF AllDigits, n
<1>2. digit \in [1 .. n -> Nat] /\ \A i \in 1 .. n : digit[i] = DigitValue[ds[i]]
  BY <1>1
<1> HIDE DEF digit
<1>3. PICK v : AreValues(v, n, digit)
  BY <1>1, <1>2, ValuesExist
<1>4. ArePrefixValues(v, ds)
  BY <1>2, <1>3, Zenon DEF AreValues, ArePrefixValues, n
<1>5. QED
  BY <1>4

(* The recursive function in Number is well-defined.                       *)
LEMMA NumberIsValue ==
  ASSUME NEW ds, Len(ds) \in Nat, AllDigits(ds)
  PROVE  \E v : ArePrefixValues(v, ds) /\ Number(ds) = v[Len(ds)]
<1> DEFINE n == Len(ds)
           Step(g) == [i \in 0 .. n |-> IF i = 0 THEN 0 ELSE 10 * g[i - 1] + DigitValue[ds[i]]]
           value == CHOOSE g : g = Step(g)
<1>1. PICK v : ArePrefixValues(v, ds)
  BY PrefixValuesExist
<1>2. v = Step(v)
  BY <1>1 DEF ArePrefixValues
<1>3. value = Step(value)
  BY <1>2, Zenon
<1>4. Number(ds) = value[n]
  BY Zenon DEF Number
<1>5. \A i \in 0 .. n : value[i] = v[i]
  <2> DEFINE S == {i \in 0 .. n : value[i] = v[i]}
  <2> HIDE DEF value
  <2>1. 0 \in S
    BY <1>1, <1>3 DEF ArePrefixValues
  <2>2. ASSUME NEW i \in 1 .. n, i - 1 \in S
        PROVE  i \in S
    <3>1. i \in 0 .. n /\ i # 0
      OBVIOUS
    <3>2. value[i] = 10 * value[i - 1] + DigitValue[ds[i]]
      BY <1>3, <3>1
    <3>3. v[i] = 10 * v[i - 1] + DigitValue[ds[i]]
      BY <1>1 DEF ArePrefixValues
    <3>4. QED
      BY <2>2, <3>1, <3>2, <3>3
  <2>3. \A i \in 0 .. n : i \in S
    <3> HIDE DEF S
    <3>1. QED
      BY <2>1, <2>2, IntervalInduction
  <2>4. QED
    BY <2>3
<1>6. value[n] = v[n]
  <2>1. n \in 0 .. n
    OBVIOUS
  <2> HIDE DEF value, n
  <2>2. QED
    BY <1>5, <2>1
<1>7. QED
  BY <1>1, <1>4, <1>6

LEMMA NumberType ==
  ASSUME NEW ds, Len(ds) \in Nat, AllDigits(ds)
  PROVE  Number(ds) \in Nat
BY NumberIsValue DEF ArePrefixValues

LEMMA DigitZero == \A d \in Digit : DigitValue[d] = 0 <=> d = "0"
BY DEF Digit, DigitValue

(* No two digits have the same value.                                      *)
LEMMA DigitsDiffer == \A d, e \in Digit : DigitValue[d] = DigitValue[e] => d = e
BY DEF Digit, DigitValue

-----------------------------------------------------------------------------
(***************************************************************************)
(* Two texts are the same number when they are the same without their      *)
(* leading zeros, and only then.                                           *)
(***************************************************************************)

LEMMA UnsignedType ==
  ASSUME NEW s \in Seq(STRING)
  PROVE  Unsigned(s) \in Seq(STRING) /\ Len(Unsigned(s)) \in Nat
<1>1. CASE Signed(s)
  <2>1. s # <<>>
    BY <1>1 DEF Signed
  <2>2. Tail(s) \in Seq(STRING)
    BY <2>1
  <2>3. QED
    BY <1>1, <2>2 DEF Unsigned
<1>2. CASE ~ Signed(s)
  BY <1>2 DEF Unsigned
<1>3. QED
  BY <1>1, <1>2

(* ds begins with exactly n zeros.                                         *)
LeadingZeros(ds, n) ==
  /\ n \in 0 .. Len(ds)
  /\ \A i \in 1 .. n : ds[i] = "0"
  /\ n < Len(ds) => ds[n + 1] # "0"

(* The same of a text of digits.                                           *)
Padded(ds, n) == ds \in Seq(STRING) /\ AllDigits(ds) /\ LeadingZeros(ds, n)

LEMMA StrippedShape ==
  ASSUME NEW s, Unsigned(s) \in Seq(STRING)
  PROVE  \E n : /\ LeadingZeros(Unsigned(s), n)
               /\ Stripped(s) = SubSeq(Unsigned(s), 1 + n, Len(Unsigned(s)))
<1> DEFINE u == Unsigned(s)
           zeros == {n \in 0 .. Len(u) : \A k \in 1 .. n : u[k] = "0"}
           most == CHOOSE n \in zeros : \A m \in zeros : m <= n
           T == {Len(u) - n : n \in zeros}
<1>1. Len(u) \in Nat
  OBVIOUS
<1>2. 0 \in zeros
  BY <1>1
<1>3. T \subseteq Nat /\ T # {}
  BY <1>1, <1>2
<1>4. PICK t \in T : \A k \in T : t <= k
  <2> HIDE DEF T
  <2>1. QED
    BY <1>3, LeastNatural, Zenon
<1>5. PICK n \in zeros : t = Len(u) - n
  BY <1>4
<1>6. \A m \in zeros : m <= n
  <2>1. SUFFICES ASSUME NEW m \in zeros PROVE m <= n
    OBVIOUS
  <2>2. Len(u) - n <= Len(u) - m
    BY <1>4, <1>5
  <2>3. QED
    BY <1>1, <2>2
<1>7. most \in zeros /\ \A m \in zeros : m <= most
  <2> HIDE DEF zeros
  <2>1. QED
    BY <1>6, Zenon
<1> HIDE DEF most
<1>8. most < Len(u) => u[most + 1] # "0"
  <2>1. SUFFICES ASSUME most < Len(u), u[most + 1] = "0" PROVE FALSE
    OBVIOUS
  <2>2. most + 1 \in 0 .. Len(u) /\ \A k \in 1 .. most + 1 : k \in 1 .. most \/ k = most + 1
    BY <1>1, <1>7, <2>1
  <2>3. most + 1 \in zeros
    BY <1>7, <2>1, <2>2
  <2>4. QED
    BY <1>1, <1>7, <2>3
<1>9. LeadingZeros(u, most)
  BY <1>7, <1>8 DEF LeadingZeros
<1>10. Stripped(s) = SubSeq(u, 1 + most, Len(u))
  BY Zenon DEF Stripped, most
<1>11. QED
  BY <1>9, <1>10

(* The value of a prefix is zero as long as there are leading zeros only.  *)
LEMMA ZeroPrefixes ==
  ASSUME NEW ds, Len(ds) \in Nat, AllDigits(ds), NEW v, ArePrefixValues(v, ds),
         NEW n, LeadingZeros(ds, n)
  PROVE  \A i \in 0 .. Len(ds) : v[i] = 0 <=> i <= n
<1> DEFINE S == {i \in 0 .. Len(ds) : v[i] = 0 <=> i <= n}
<1>1. n \in 0 .. Len(ds)
  BY DEF LeadingZeros
<1>2. 0 \in S
  BY <1>1 DEF ArePrefixValues
<1>3. ASSUME NEW i \in 1 .. Len(ds), i - 1 \in S PROVE i \in S
  <2>1. /\ v[i] = 10 * v[i - 1] + DigitValue[ds[i]] /\ v[i - 1] \in Nat
        /\ ds[i] \in Digit /\ DigitValue[ds[i]] \in 0 .. 9
        /\ (v[i - 1] = 0 <=> i - 1 <= n)
    BY <1>3, DigitType DEF ArePrefixValues, AllDigits
  <2>2. CASE i <= n
    <3>1. ds[i] = "0"
      BY <1>1, <2>2 DEF LeadingZeros
    <3>2. v[i - 1] = 0 /\ DigitValue[ds[i]] = 0
      BY <1>1, <2>1, <2>2, <3>1, DigitZero
    <3>3. QED
      BY <2>1, <2>2, <3>2
  <2>3. CASE i = n + 1
    <3>1. ds[i] # "0"
      BY <1>1, <2>3 DEF LeadingZeros
    <3>2. DigitValue[ds[i]] # 0
      BY <2>1, <3>1, DigitZero
    <3>3. v[i] # 0 /\ ~ (i <= n)
      BY <1>1, <2>1, <2>3, <3>2
    <3>4. QED
      BY <3>3
  <2>4. CASE i > n + 1
    <3>1. v[i - 1] # 0
      BY <1>1, <2>1, <2>4
    <3>2. \A x \in Nat \ {0} : \A d \in 0 .. 9 : 10 * x + d # 0
      OBVIOUS
    <3>3. v[i] # 0
      BY <2>1, <3>1, <3>2
    <3>4. ~ (i <= n)
      BY <1>1, <2>4
    <3>5. QED
      BY <3>3, <3>4
  <2>5. QED
    BY <1>1, <2>2, <2>3, <2>4
<1>4. \A i \in 0 .. Len(ds) : i \in S
  <2> HIDE DEF S
  <2>1. QED
    BY <1>2, <1>3, IntervalInduction
<1>5. QED
  BY <1>4

(* Equal without leading zeros, equal in value.                            *)
LEMMA SameDigitsSameNumber ==
  ASSUME NEW ds, NEW a, Padded(ds, a), NEW es, NEW b, Padded(es, b),
         SubSeq(ds, 1 + a, Len(ds)) = SubSeq(es, 1 + b, Len(es))
  PROVE  Number(ds) = Number(es)
<1>. ds \in Seq(STRING) /\ es \in Seq(STRING) /\ AllDigits(ds) /\ AllDigits(es)
     /\ LeadingZeros(ds, a) /\ LeadingZeros(es, b)
  BY DEF Padded
<1>1. Len(ds) \in Nat /\ Len(es) \in Nat /\ a \in 0 .. Len(ds) /\ b \in 0 .. Len(es)
  BY DEF LeadingZeros
<1>2. PICK v : ArePrefixValues(v, ds) /\ Number(ds) = v[Len(ds)]
  BY <1>1, NumberIsValue
<1>3. PICK w : ArePrefixValues(w, es) /\ Number(es) = w[Len(es)]
  BY <1>1, NumberIsValue
<1> DEFINE q == Len(ds) - a
           S == {i \in 0 .. q : v[a + i] = w[b + i]}
<1>4. q \in Nat /\ Len(es) - b = q /\ \A i \in 1 .. q : ds[a + i] = es[b + i]
  <2>1. /\ Len(SubSeq(ds, 1 + a, Len(ds))) = Len(ds) - a
        /\ \A i \in 1 .. Len(ds) - a : SubSeq(ds, 1 + a, Len(ds))[i] = ds[a + i]
    BY <1>1
  <2>2. /\ Len(SubSeq(es, 1 + b, Len(es))) = Len(es) - b
        /\ \A i \in 1 .. Len(es) - b : SubSeq(es, 1 + b, Len(es))[i] = es[b + i]
    BY <1>1
  <2>3. Len(es) - b = Len(ds) - a
    BY <2>1, <2>2
  <2>4. ASSUME NEW i \in 1 .. q PROVE ds[a + i] = es[b + i]
    BY <2>1, <2>2, <2>3
  <2>5. QED
    BY <1>1, <2>3, <2>4
<1>5. 0 \in S
  <2>1. v[a] = 0 /\ w[b] = 0
    BY <1>1, <1>2, <1>3, ZeroPrefixes
  <2>2. QED
    BY <1>1, <1>4, <2>1
<1>6. ASSUME NEW i \in 1 .. q, i - 1 \in S PROVE i \in S
  <2>1. a + i \in 1 .. Len(ds) /\ b + i \in 1 .. Len(es) /\ i \in 0 .. q
    BY <1>1, <1>4
  <2>2. /\ v[a + i] = 10 * v[(a + i) - 1] + DigitValue[ds[a + i]]
        /\ w[b + i] = 10 * w[(b + i) - 1] + DigitValue[es[b + i]]
    <3>1. \A k \in 1 .. Len(ds) : v[k] = 10 * v[k - 1] + DigitValue[ds[k]]
      BY <1>2 DEF ArePrefixValues
    <3>2. \A k \in 1 .. Len(es) : w[k] = 10 * w[k - 1] + DigitValue[es[k]]
      BY <1>3 DEF ArePrefixValues
    <3>3. v[a + i] = 10 * v[(a + i) - 1] + DigitValue[ds[a + i]]
      BY <2>1, <3>1, Zenon
    <3>4. w[b + i] = 10 * w[(b + i) - 1] + DigitValue[es[b + i]]
      BY <2>1, <3>2, Zenon
    <3>5. QED
      BY <3>3, <3>4, Zenon
  <2>3. a + (i - 1) = (a + i) - 1 /\ b + (i - 1) = (b + i) - 1
    BY <1>1, <2>1
  <2>4. v[(a + i) - 1] = w[(b + i) - 1]
    BY <1>6, <2>3
  <2>5. v[a + i] = w[b + i]
    BY <1>4, <2>2, <2>4
  <2>6. QED
    BY <2>1, <2>5
<1>7. \A i \in 0 .. q : i \in S
  <2> HIDE DEF q, S
  <2>1. QED
    BY <1>4, <1>5, <1>6, IntervalInduction
<1>8. v[a + q] = w[b + q] /\ a + q = Len(ds) /\ b + q = Len(es)
  <2>1. a + q = Len(ds) /\ b + q = Len(es)
    BY <1>1, <1>4
  <2>2. q \in 0 .. q
    BY <1>4
  <2>3. q \in S
    BY <1>7, <2>2
  <2>4. v[a + q] = w[b + q]
    BY <2>3
  <2>5. QED
    BY <2>1, <2>4
<1> HIDE DEF q
<1>9. QED
  BY <1>2, <1>3, <1>8

(* Equal in value, equal without leading zeros: the digits agree from the  *)
(* last to the first of the shorter text.                                  *)
LEMMA SameNumberSameDigits ==
  ASSUME NEW ds, NEW a, Padded(ds, a), NEW es, NEW b, Padded(es, b),
         Len(ds) <= Len(es), Number(ds) = Number(es)
  PROVE  SubSeq(ds, 1 + a, Len(ds)) = SubSeq(es, 1 + b, Len(es))
<1>. ds \in Seq(STRING) /\ es \in Seq(STRING) /\ AllDigits(ds) /\ AllDigits(es)
     /\ LeadingZeros(ds, a) /\ LeadingZeros(es, b)
  BY DEF Padded
<1>1. Len(ds) \in Nat /\ Len(es) \in Nat /\ a \in 0 .. Len(ds) /\ b \in 0 .. Len(es)
  BY DEF LeadingZeros
<1>2. PICK v : ArePrefixValues(v, ds) /\ Number(ds) = v[Len(ds)]
  BY <1>1, NumberIsValue
<1>3. PICK w : ArePrefixValues(w, es) /\ Number(es) = w[Len(es)]
  BY <1>1, NumberIsValue
<1> DEFINE p == Len(ds)
           more == Len(es) - Len(ds)
           S == {i \in 0 .. p : v[p - i] = w[more + (p - i)]}
<1>4. p \in Nat /\ more \in Nat /\ more + p = Len(es)
  BY <1>1
<1>5. 0 \in S
  <2>1. p - 0 = p
    BY <1>4
  <2>2. v[p - 0] = w[more + (p - 0)]
    BY <1>2, <1>3, <1>4, <2>1
  <2>3. QED
    BY <1>4, <2>2
<1> HIDE DEF more
(* Ten times a number and a digit: both are known from the sum.            *)
<1>6. ASSUME NEW i \in 1 .. p, v[i] = w[more + i]
      PROVE  v[i - 1] = w[more + (i - 1)] /\ ds[i] = es[more + i]
  <2>1. more + i \in 1 .. Len(es) /\ more + (i - 1) = (more + i) - 1 /\ i - 1 \in 0 .. p
        /\ (more + i) - 1 \in 0 .. Len(es)
    BY <1>1, <1>4
  <2>2. /\ v[i] = 10 * v[i - 1] + DigitValue[ds[i]] /\ v[i - 1] \in Nat
        /\ ds[i] \in Digit /\ DigitValue[ds[i]] \in 0 .. 9
    BY <1>1, <1>2, PrefixStep, Zenon
  <2>3. /\ w[more + i] = 10 * w[(more + i) - 1] + DigitValue[es[more + i]]
        /\ w[(more + i) - 1] \in Nat
        /\ es[more + i] \in Digit /\ DigitValue[es[more + i]] \in 0 .. 9
    <3>1. \A k \in 1 .. Len(es) :
            /\ w[k] = 10 * w[k - 1] + DigitValue[es[k]] /\ w[k - 1] \in Nat
            /\ es[k] \in Digit /\ DigitValue[es[k]] \in 0 .. 9
      BY <1>1, <1>3, PrefixStep, Zenon
    <3>2. QED
      BY <2>1, <3>1, Zenon
  <2>4. \A x, y \in Nat : \A d, e \in 0 .. 9 : 10 * x + d = 10 * y + e => x = y /\ d = e
    OBVIOUS
  <2>5. v[i - 1] = w[(more + i) - 1] /\ DigitValue[ds[i]] = DigitValue[es[more + i]]
    <3> DEFINE x == v[i - 1]
               y == w[(more + i) - 1]
               d == DigitValue[ds[i]]
               e == DigitValue[es[more + i]]
    <3>1. 10 * x + d = 10 * y + e /\ x \in Nat /\ y \in Nat /\ d \in 0 .. 9 /\ e \in 0 .. 9
      BY <1>6, <2>2, <2>3
    <3> HIDE DEF x, y, d, e
    <3>2. x = y /\ d = e
      BY <2>4, <3>1
    <3>3. QED
      BY <3>2 DEF x, y, d, e
  <2>6. QED
    BY <2>1, <2>2, <2>3, <2>5, DigitsDiffer
<1>7. ASSUME NEW i \in 1 .. p, i - 1 \in S PROVE i \in S
  <2> DEFINE k == p - (i - 1)
  <2>1. k \in 1 .. p /\ k - 1 = p - i /\ i \in 0 .. p
    BY <1>4
  <2>2. v[k] = w[more + k]
    BY <1>7
  <2> HIDE DEF k
  <2>3. v[k - 1] = w[more + (k - 1)]
    BY <1>6, <2>1, <2>2
  <2>4. QED
    BY <2>1, <2>3
<1>8. \A i \in 0 .. p : i \in S
  <2> HIDE DEF p, S
  <2>1. QED
    BY <1>4, <1>5, <1>7, IntervalInduction
<1>9. ASSUME NEW i \in 0 .. p PROVE v[i] = w[more + i]
  <2>1. p - i \in 0 .. p /\ p - (p - i) = i
    BY <1>4
  <2>2. p - i \in S
    BY <1>8, <2>1
  <2>3. v[p - (p - i)] = w[more + (p - (p - i))]
    BY <2>2
  <2>4. QED
    BY <2>1, <2>3
<1>10. \A i \in 1 .. p : ds[i] = es[more + i]
  <2>1. ASSUME NEW i \in 1 .. p PROVE ds[i] = es[more + i]
    <3>1. v[i] = w[more + i]
      BY <1>9
    <3>2. QED
      BY <1>6, <3>1
  <2>2. QED
    BY <2>1
<1>11. b = more + a
  <2>1. /\ \A i \in 0 .. p : v[i] = 0 <=> i <= a
        /\ \A i \in 0 .. Len(es) : w[i] = 0 <=> i <= b
    BY <1>1, <1>2, <1>3, ZeroPrefixes
  <2>2. more + a \in 0 .. Len(es) /\ a \in 0 .. p
    BY <1>1, <1>4
  <2>3. w[more + a] = 0
    BY <1>1, <1>9, <2>1, <2>2
  <2>4. more + a <= b
    BY <2>1, <2>2, <2>3
  <2>5. b - more \in 0 .. p /\ more + (b - more) = b
    BY <1>1, <1>4, <2>2, <2>4
  <2>6. w[b] = 0
    BY <1>1, <2>1
  <2>7. v[b - more] = 0
    BY <1>9, <2>5, <2>6
  <2>8. b - more <= a
    BY <2>1, <2>5, <2>7
  <2>9. QED
    BY <1>1, <1>4, <2>4, <2>8
<1>12. /\ SubSeq(ds, 1 + a, Len(ds)) = [i \in 1 .. Len(ds) - a |-> ds[a + i]]
       /\ SubSeq(es, 1 + b, Len(es)) = [i \in 1 .. Len(es) - b |-> es[b + i]]
  BY <1>1
<1>13. Len(ds) - a = Len(es) - b
  BY <1>1, <1>4, <1>11
<1>14. ASSUME NEW i \in 1 .. Len(ds) - a PROVE ds[a + i] = es[b + i]
  <2>1. a + i \in 1 .. p /\ more + (a + i) = b + i
    BY <1>1, <1>4, <1>11
  <2>2. QED
    BY <1>10, <2>1
<1>15. QED
  BY <1>12, <1>13, <1>14

(* Two unsigned texts are the same number if and only if they are the same *)
(* without their signs and leading zeros.                                  *)
LEMMA SameNumber ==
  ASSUME NEW s \in Seq(STRING), NEW t \in Seq(STRING),
         AllDigits(Unsigned(s)), AllDigits(Unsigned(t))
  PROVE  Number(Unsigned(s)) = Number(Unsigned(t)) <=> Stripped(s) = Stripped(t)
<1>1. Unsigned(s) \in Seq(STRING) /\ Unsigned(t) \in Seq(STRING)
  BY UnsignedType
<1>2. PICK a : /\ Padded(Unsigned(s), a)
               /\ Stripped(s) = SubSeq(Unsigned(s), 1 + a, Len(Unsigned(s)))
  BY <1>1, StrippedShape DEF Padded
<1>3. PICK b : /\ Padded(Unsigned(t), b)
               /\ Stripped(t) = SubSeq(Unsigned(t), 1 + b, Len(Unsigned(t)))
  BY <1>1, StrippedShape DEF Padded
<1>4. Len(Unsigned(s)) <= Len(Unsigned(t)) \/ Len(Unsigned(t)) <= Len(Unsigned(s))
  BY <1>1
<1>5. ASSUME Number(Unsigned(s)) = Number(Unsigned(t)) PROVE Stripped(s) = Stripped(t)
  <2>1. CASE Len(Unsigned(s)) <= Len(Unsigned(t))
    BY <1>2, <1>3, <1>5, <2>1, SameNumberSameDigits
  <2>2. CASE Len(Unsigned(t)) <= Len(Unsigned(s))
    BY <1>2, <1>3, <1>5, <2>2, SameNumberSameDigits
  <2>3. QED
    BY <1>4, <2>1, <2>2
<1>6. ASSUME Stripped(s) = Stripped(t) PROVE Number(Unsigned(s)) = Number(Unsigned(t))
  BY <1>2, <1>3, <1>6, SameDigitsSameNumber
<1>7. QED
  BY <1>5, <1>6

-----------------------------------------------------------------------------
(***************************************************************************)
(* Powers of ten.                                                          *)
(***************************************************************************)

(* p holds the powers of ten up to n.                                      *)
ArePowers(p, n) ==
  /\ p \in [0 .. n -> Nat \ {0}]
  /\ p[0] = 1
  /\ \A i \in 1 .. n : p[i] = 10 * p[i - 1]

LEMMA PowersExist ==
  ASSUME NEW n \in Nat
  PROVE  \E p : ArePowers(p, n)
<1> DEFINE S == {k \in 0 .. n : \E p : ArePowers(p, k)}
<1>1. 0 \in S
  <2> DEFINE p == [i \in 0 .. 0 |-> 1]
  <2>1. ArePowers(p, 0)
    BY DEF ArePowers
  <2> HIDE DEF p
  <2>2. QED
    BY <2>1
<1>2. ASSUME NEW i \in 1 .. n, i - 1 \in S PROVE i \in S
  <2>1. PICK p : ArePowers(p, i - 1)
    BY <1>2
  <2>2. p \in [0 .. i - 1 -> Nat \ {0}] /\ p[i - 1] \in Nat \ {0} /\ i \in Nat
    BY <2>1 DEF ArePowers
  <2> DEFINE q == [j \in 0 .. i |-> IF j = i THEN 10 * p[i - 1] ELSE p[j]]
  <2>3. q \in [0 .. i -> Nat \ {0}]
    BY <2>2
  <2>4. q[0] = 1
    BY <2>1 DEF ArePowers
  <2>5. \A j \in 1 .. i : q[j] = 10 * q[j - 1]
    BY <2>1 DEF ArePowers
  <2>6. ArePowers(q, i)
    BY <2>3, <2>4, <2>5 DEF ArePowers
  <2> HIDE DEF q
  <2>7. QED
    BY <2>6
<1>3. \A i \in 0 .. n : i \in S
  <2> HIDE DEF S
  <2>1. QED
    BY <1>1, <1>2, IntervalInduction
<1>4. QED
  BY <1>3

LEMMA PowersAgree ==
  ASSUME NEW n \in Nat, NEW m \in Nat, n <= m, NEW p, NEW q, ArePowers(p, n), ArePowers(q, m)
  PROVE  \A i \in 0 .. n : p[i] = q[i]
<1> DEFINE S == {i \in 0 .. n : p[i] = q[i]}
<1>1. 0 \in S
  BY DEF ArePowers
<1>2. ASSUME NEW i \in 1 .. n, i - 1 \in S PROVE i \in S
  <2>1. i \in 1 .. m /\ p[i] = 10 * p[i - 1] /\ p[i - 1] = q[i - 1]
    BY <1>2 DEF ArePowers
  <2>2. q[i] = 10 * q[i - 1]
    BY <2>1 DEF ArePowers
  <2>3. QED
    BY <2>1, <2>2
<1>3. \A i \in 0 .. n : i \in S
  <2> HIDE DEF S
  <2>1. QED
    BY <1>1, <1>2, IntervalInduction
<1>4. QED
  BY <1>3

(* The recursive function in TenTo is well-defined.                        *)
LEMMA TenToIsPower ==
  ASSUME NEW n \in Nat
  PROVE  \E p : ArePowers(p, n) /\ TenTo(n) = p[n]
<1> DEFINE Step(g) == [i \in 0 .. n |-> IF i = 0 THEN 1 ELSE 10 * g[i - 1]]
           power == CHOOSE g : g = Step(g)
<1>1. PICK p : ArePowers(p, n)
  BY PowersExist
<1>2. p = Step(p)
  BY <1>1 DEF ArePowers
<1>3. power = Step(power)
  BY <1>2, Zenon
<1>4. TenTo(n) = power[n]
  BY Zenon DEF TenTo
<1>5. \A i \in 0 .. n : power[i] = p[i]
  <2> DEFINE S == {i \in 0 .. n : power[i] = p[i]}
  <2> HIDE DEF power
  <2>1. 0 \in S
    BY <1>1, <1>3 DEF ArePowers
  <2>2. \A i \in 1 .. n : i - 1 \in S => i \in S
    BY <1>1, <1>3 DEF ArePowers
  <2>3. \A i \in 0 .. n : i \in S
    <3> HIDE DEF S
    <3>1. QED
      BY <2>1, <2>2, IntervalInduction
  <2>4. QED
    BY <2>3
<1> HIDE DEF power
<1>6. QED
  BY <1>1, <1>4, <1>5

LEMMA TenToType ==
  ASSUME NEW n \in Nat
  PROVE  TenTo(n) \in Nat \ {0}
<1>1. PICK p : ArePowers(p, n) /\ TenTo(n) = p[n]
  BY TenToIsPower
<1>2. QED
  BY <1>1 DEF ArePowers

LEMMA TenToZero == TenTo(0) = 1
BY TenToIsPower DEF ArePowers

LEMMA TenToNext ==
  ASSUME NEW n \in Nat
  PROVE  TenTo(n + 1) = 10 * TenTo(n)
<1>1. PICK p : ArePowers(p, n) /\ TenTo(n) = p[n]
  BY TenToIsPower
<1>2. PICK q : ArePowers(q, n + 1) /\ TenTo(n + 1) = q[n + 1]
  BY TenToIsPower
<1>3. p[n] = q[n]
  BY <1>1, <1>2, PowersAgree
<1>4. q[n + 1] = 10 * q[(n + 1) - 1] /\ (n + 1) - 1 = n
  BY <1>2 DEF ArePowers
<1>5. QED
  BY <1>1, <1>2, <1>3, <1>4

(* 10 ^ (m + n) = 10 ^ m * 10 ^ n.                                         *)
LEMMA TenToSum ==
  ASSUME NEW m \in Nat, NEW n \in Nat
  PROVE  TenTo(m + n) = TenTo(m) * TenTo(n)
<1> DEFINE S == {k \in 0 .. n : TenTo(m + k) = TenTo(m) * TenTo(k)}
<1>1. 0 \in S
  BY TenToZero, TenToType
<1>2. ASSUME NEW k \in 1 .. n, k - 1 \in S PROVE k \in S
  <2> DEFINE j == k - 1
  <2>1. j \in Nat /\ k = j + 1 /\ m + k = (m + j) + 1 /\ m + j \in Nat
    OBVIOUS
  <2>2. TenTo(m + j) = TenTo(m) * TenTo(j)
    BY <1>2
  <2> HIDE DEF j
  <2>3. TenTo(m + k) = 10 * (TenTo(m) * TenTo(j)) /\ TenTo(k) = 10 * TenTo(j)
    BY <2>1, <2>2, TenToNext
  <2>4. \A a, b \in Nat : 10 * (a * b) = a * (10 * b)
    OBVIOUS
  <2>5. TenTo(m) \in Nat /\ TenTo(j) \in Nat
    BY <2>1, TenToType
  <2>6. TenTo(m + k) = TenTo(m) * TenTo(k)
    BY <2>3, <2>4, <2>5
  <2>7. QED
    BY <2>6
<1>3. \A k \in 0 .. n : k \in S
  <2> HIDE DEF S
  <2>1. QED
    BY <1>1, <1>2, IntervalInduction
<1>4. QED
  BY <1>3

-----------------------------------------------------------------------------
(***************************************************************************)
(* Division with remainder.                                                *)
(***************************************************************************)

LEMMA DivisionIsUnique ==
  ASSUME NEW q \in Nat, NEW b \in Nat \ {0}, NEW r \in 0 .. b - 1
  PROVE  (q * b + r) \div b = q /\ (q * b + r) % b = r
OBVIOUS

LEMMA Division ==
  ASSUME NEW n \in Nat, NEW b \in Nat \ {0}
  PROVE  n = (n \div b) * b + (n % b) /\ n \div b \in Nat /\ n % b \in 0 .. b - 1
OBVIOUS

LEMMA SmallDivision ==
  ASSUME NEW n \in Nat, NEW b \in Nat \ {0}, n < b
  PROVE  n \div b = 0
<1>1. n \in 0 .. b - 1 /\ 0 * b + n = n
  OBVIOUS
<1>2. QED
  BY <1>1, DivisionIsUnique

(* Dividing by ten times b is dividing by b and then by ten.               *)
LEMMA DivisionByTen ==
  ASSUME NEW n \in Nat, NEW b \in Nat \ {0}
  PROVE  n \div b = 10 * (n \div (10 * b)) + ((n \div b) % 10)
<1> DEFINE d == n \div b
           e == d \div 10
           r == n % b
           f == d % 10
<1>1. n = d * b + r /\ d \in Nat /\ r \in 0 .. b - 1
  BY Division
<1>2. d = e * 10 + f /\ e \in Nat /\ f \in 0 .. 9
  <2>1. 10 \in Nat \ {0} /\ 10 - 1 = 9
    OBVIOUS
  <2>2. QED
    BY <1>1, <2>1, Division
<1> HIDE DEF d, e, f, r
<1>3. n = e * (10 * b) + (f * b + r)
  <2>1. (e * 10 + f) * b = e * (10 * b) + f * b
    BY <1>2
  <2>2. e * (10 * b) \in Nat /\ f * b \in Nat
    BY <1>2
  <2>3. QED
    BY <1>1, <1>2, <2>1, <2>2
<1>4. f * b + r \in 0 .. (10 * b) - 1
  <2>1. \A x \in 0 .. 9 : x * b + b <= 10 * b
    OBVIOUS
  <2>2. f * b \in Nat /\ f * b + b <= 10 * b
    BY <1>2, <2>1
  <2>3. QED
    BY <1>1, <2>2
<1>5. 10 * b \in Nat \ {0}
  OBVIOUS
<1>6. n \div (10 * b) = e
  BY <1>2, <1>3, <1>4, <1>5, DivisionIsUnique
<1>7. d = 10 * e + f
  <2>1. \A x, y, z \in Nat : x = y * 10 + z => x = 10 * y + z
    OBVIOUS
  <2>2. f \in Nat
    BY <1>2
  <2>3. QED
    BY <1>1, <1>2, <2>1, <2>2
<1>8. QED
  BY <1>6, <1>7, Zenon DEF d, f

-----------------------------------------------------------------------------
(***************************************************************************)
(* The value of a text of digits.                                          *)
(***************************************************************************)

(* A text of digits.                                                       *)
LEMMA DigitText ==
  ASSUME NEW ds \in Seq(Digit)
  PROVE  Len(ds) \in Nat /\ AllDigits(ds) /\ Number(ds) \in Nat
<1>1. Len(ds) \in Nat /\ AllDigits(ds)
  BY DEF AllDigits
<1>2. QED
  BY <1>1, NumberType

LEMMA TextOfDigits ==
  ASSUME NEW C, NEW ds \in Seq(C), AllDigits(ds)
  PROVE  ds \in Seq(Digit)
BY DEF AllDigits

(* Digits that follow shift what is before them.                           *)
LEMMA NumberOfConcatenation ==
  ASSUME NEW ds \in Seq(Digit), NEW es \in Seq(Digit)
  PROVE  /\ ds \o es \in Seq(Digit)
         /\ Number(ds \o es) = Number(ds) * TenTo(Len(es)) + Number(es)
<1> DEFINE t == ds \o es
           m == Len(ds)
           n == Len(es)
<1>1. /\ m \in Nat /\ n \in Nat /\ Len(t) = m + n
      /\ \A i \in 1 .. m : t[i] = ds[i]
      /\ \A i \in 1 .. n : t[m + i] = es[i]
  OBVIOUS
<1> HIDE DEF t, m, n
<1>2. t \in Seq(Digit) /\ AllDigits(t) /\ AllDigits(ds) /\ AllDigits(es)
  <2>1. t \in Seq(Digit)
    BY DEF t
  <2>2. QED
    BY <2>1, DigitText
<1>3. PICK v : ArePrefixValues(v, ds) /\ Number(ds) = v[m]
  BY <1>1, <1>2, NumberIsValue DEF m
<1>4. PICK w : ArePrefixValues(w, es) /\ Number(es) = w[n]
  BY <1>1, <1>2, NumberIsValue DEF n
<1>5. PICK x : ArePrefixValues(x, t) /\ Number(t) = x[m + n]
  <2>1. Len(t) \in Nat
    BY <1>1
  <2>2. QED
    BY <1>1, <1>2, <2>1, NumberIsValue
<1>6. /\ \A i \in 1 .. m : v[i] = 10 * v[i - 1] + DigitValue[ds[i]]
      /\ \A i \in 1 .. n : w[i] = 10 * w[i - 1] + DigitValue[es[i]]
      /\ \A i \in 1 .. m + n : x[i] = 10 * x[i - 1] + DigitValue[t[i]]
      /\ v[0] = 0 /\ w[0] = 0 /\ x[0] = 0
      /\ \A i \in 0 .. m : v[i] \in Nat
      /\ \A i \in 0 .. n : w[i] \in Nat
  BY <1>1, <1>3, <1>4, <1>5 DEF ArePrefixValues, m, n
<1>7. \A i \in 0 .. m : x[i] = v[i]
  <2> DEFINE S == {i \in 0 .. m : x[i] = v[i]}
  <2>1. 0 \in S
    BY <1>1, <1>6
  <2>2. ASSUME NEW i \in 1 .. m, i - 1 \in S PROVE i \in S
    <3>1. i \in 1 .. m + n /\ t[i] = ds[i] /\ i \in 0 .. m
      BY <1>1
    <3>2. x[i] = 10 * x[i - 1] + DigitValue[t[i]] /\ v[i] = 10 * v[i - 1] + DigitValue[ds[i]]
      BY <1>6, <3>1
    <3>3. x[i - 1] = v[i - 1]
      BY <2>2
    <3>4. QED
      BY <3>1, <3>2, <3>3
  <2>3. \A i \in 0 .. m : i \in S
    <3> HIDE DEF S
    <3>1. QED
      BY <1>1, <2>1, <2>2, IntervalInduction
  <2>4. QED
    BY <2>3
<1>8. ASSUME NEW i \in 1 .. n, NEW j \in Nat, i = j + 1, x[m + j] = v[m] * TenTo(j) + w[j]
      PROVE  x[m + i] = v[m] * TenTo(i) + w[i]
  <2>1. m + i \in 1 .. m + n /\ (m + i) - 1 = m + j /\ j \in 0 .. n /\ i - 1 = j /\ m \in 0 .. m
    BY <1>1, <1>8
  <2>2. x[m + i] = 10 * x[m + j] + DigitValue[t[m + i]]
    BY <1>6, <2>1
  <2>3. w[i] = 10 * w[j] + DigitValue[es[i]]
    BY <1>6, <2>1
  <2>4. t[m + i] = es[i] /\ es[i] \in Digit
    BY <1>1, <1>2 DEF AllDigits, n
  <2>5. TenTo(i) = 10 * TenTo(j) /\ TenTo(j) \in Nat
    BY <1>8, TenToNext, TenToType
  <2>6. v[m] \in Nat /\ w[j] \in Nat
    BY <1>6, <2>1
  <2>7. DigitValue[es[i]] \in Nat
    <3>1. DigitValue[es[i]] \in 0 .. 9
      BY <2>4, DigitType
    <3>2. QED
      BY <3>1
  <2>8. \A a, b, c, d \in Nat : 10 * (a * b + c) + d = a * (10 * b) + (10 * c + d)
    OBVIOUS
  <2>9. 10 * (v[m] * TenTo(j) + w[j]) + DigitValue[es[i]]
          = v[m] * (10 * TenTo(j)) + (10 * w[j] + DigitValue[es[i]])
    <3> DEFINE a == v[m]
               b == TenTo(j)
               c == w[j]
               d == DigitValue[es[i]]
    <3>1. a \in Nat /\ b \in Nat /\ c \in Nat /\ d \in Nat
      BY <2>5, <2>6, <2>7
    <3> HIDE DEF a, b, c, d
    <3>2. 10 * (a * b + c) + d = a * (10 * b) + (10 * c + d)
      BY <2>8, <3>1
    <3>3. QED
      BY <3>2 DEF a, b, c, d
  <2>10. QED
    BY <1>8, <2>2, <2>3, <2>4, <2>5, <2>9, Zenon
<1>9. \A i \in 0 .. n : x[m + i] = v[m] * TenTo(i) + w[i]
  <2> DEFINE S == {i \in 0 .. n : x[m + i] = v[m] * TenTo(i) + w[i]}
  <2>1. 0 \in S
    <3>1. x[m] = v[m] /\ v[m] \in Nat /\ m + 0 = m
      BY <1>1, <1>6, <1>7
    <3>2. QED
      BY <1>1, <1>6, <3>1, TenToZero
  <2>2. ASSUME NEW i \in 1 .. n, i - 1 \in S PROVE i \in S
    <3>1. i - 1 \in Nat /\ i = (i - 1) + 1 /\ i \in 0 .. n
      BY <1>1
    <3>2. x[m + i] = v[m] * TenTo(i) + w[i]
      BY <1>8, <2>2, <3>1
    <3>3. QED
      BY <3>1, <3>2
  <2>3. \A i \in 0 .. n : i \in S
    <3> HIDE DEF S
    <3>1. QED
      BY <1>1, <2>1, <2>2, IntervalInduction
  <2>4. QED
    BY <2>3
<1>10. Number(t) = Number(ds) * TenTo(n) + Number(es)
  BY <1>1, <1>3, <1>4, <1>5, <1>9
<1>11. QED
  BY <1>2, <1>10 DEF t, n

(* n digits are less than 10 ^ n.                                          *)
LEMMA NumberIsBounded ==
  ASSUME NEW ds \in Seq(Digit)
  PROVE  Number(ds) < TenTo(Len(ds))
<1> DEFINE n == Len(ds)
<1>1. PICK v : ArePrefixValues(v, ds) /\ Number(ds) = v[n]
  BY DigitText, NumberIsValue
<1> DEFINE S == {i \in 0 .. n : v[i] < TenTo(i)}
<1>2. 0 \in S
  BY <1>1, TenToZero DEF ArePrefixValues
<1>3. ASSUME NEW i \in 1 .. n, i - 1 \in S PROVE i \in S
  <2> DEFINE j == i - 1
  <2>1. j \in Nat /\ i = j + 1 /\ i \in 0 .. n
    OBVIOUS
  <2>2. v[i] = 10 * v[j] + DigitValue[ds[i]] /\ v[j] \in Nat /\ DigitValue[ds[i]] \in 0 .. 9
    BY <1>1, DigitText, PrefixStep
  <2>3. v[j] < TenTo(j)
    BY <1>3
  <2> HIDE DEF j
  <2>4. TenTo(i) = 10 * TenTo(j) /\ TenTo(j) \in Nat
    BY <2>1, TenToNext, TenToType
  <2>5. v[i] < TenTo(i)
    <3>1. \A a, t \in Nat, d \in 0 .. 9 : a < t => 10 * a + d < 10 * t
      OBVIOUS
    <3>2. QED
      BY <2>2, <2>3, <2>4, <3>1
  <2>6. QED
    BY <2>1, <2>5
<1>4. \A i \in 0 .. n : i \in S
  <2>1. n \in Nat
    BY DigitText
  <2> HIDE DEF S, n
  <2>2. QED
    BY <1>2, <1>3, <2>1, IntervalInduction
<1>5. QED
  BY <1>1, <1>4

LEMMA NumberOfZeros ==
  ASSUME NEW ds, Len(ds) \in Nat, \A i \in 1 .. Len(ds) : ds[i] = "0"
  PROVE  Number(ds) = 0
<1>1. AllDigits(ds)
  BY DEF AllDigits, Digit, DigitValue
<1>2. PICK v : ArePrefixValues(v, ds) /\ Number(ds) = v[Len(ds)]
  BY <1>1, NumberIsValue
<1>3. LeadingZeros(ds, Len(ds))
  BY DEF LeadingZeros
<1>4. v[Len(ds)] = 0
  BY <1>1, <1>2, <1>3, ZeroPrefixes
<1>5. QED
  BY <1>1, <1>2, <1>4

-----------------------------------------------------------------------------
(***************************************************************************)
(* The digits of a number.                                                 *)
(***************************************************************************)

LEMMA PowersGrow ==
  ASSUME NEW m \in Nat, NEW n \in Nat, m <= n
  PROVE  TenTo(m) <= TenTo(n)
<1> DEFINE k == n - m
<1>1. k \in Nat /\ m + k = n
  OBVIOUS
<1> HIDE DEF k
<1>2. TenTo(n) = TenTo(m) * TenTo(k)
  BY <1>1, TenToSum
<1>3. TenTo(m) \in Nat /\ TenTo(k) \in Nat \ {0}
  BY <1>1, TenToType
<1>4. \A a \in Nat : \A b \in Nat \ {0} : a <= a * b
  OBVIOUS
<1>5. QED
  BY <1>2, <1>3, <1>4

LEMMA BelowPower ==
  ASSUME NEW n \in Nat
  PROVE  n < TenTo(n)
<1> DEFINE S == {i \in 0 .. n : i < TenTo(i)}
<1>1. 0 \in S
  BY TenToZero
<1>2. ASSUME NEW i \in 1 .. n, i - 1 \in S PROVE i \in S
  <2> DEFINE j == i - 1
  <2>1. j \in Nat /\ i = j + 1 /\ i \in 0 .. n
    OBVIOUS
  <2>2. j < TenTo(j)
    BY <1>2
  <2> HIDE DEF j
  <2>3. TenTo(i) = 10 * TenTo(j) /\ TenTo(j) \in Nat
    BY <2>1, TenToNext, TenToType
  <2>4. i < TenTo(i)
    BY <2>1, <2>2, <2>3
  <2>5. QED
    BY <2>1, <2>4
<1>3. \A i \in 0 .. n : i \in S
  <2> HIDE DEF S
  <2>1. QED
    BY <1>1, <1>2, IntervalInduction
<1>4. QED
  BY <1>3

(* size digits are enough for n, and none of them is to spare.             *)
Fits(size, n, least) ==
  /\ size \in least .. n + least
  /\ n < TenTo(size)
  /\ size = least \/ TenTo(size - 1) <= n

LEMMA FittingSize ==
  ASSUME NEW n \in Nat, NEW least \in Nat
  PROVE  \E size : Fits(size, n, least)
<1> DEFINE T == {k \in least .. n + least : n < TenTo(k)}
<1>1. n + least \in T
  <2>1. n + least < TenTo(n + least) /\ TenTo(n + least) \in Nat
    BY BelowPower, TenToType
  <2>2. QED
    BY <2>1
<1>2. PICK m \in T : \A k \in T : m <= k
  <2>1. T \subseteq Nat /\ T # {}
    BY <1>1
  <2> HIDE DEF T
  <2>2. QED
    BY <2>1, LeastNatural, Zenon
<1>3. m \in least .. n + least /\ n < TenTo(m)
  BY <1>2
<1>4. ASSUME m # least PROVE TenTo(m - 1) <= n
  <2>1. m - 1 \in least .. n + least /\ ~ (m <= m - 1)
    BY <1>3, <1>4
  <2>2. ~ (n < TenTo(m - 1))
    BY <1>2, <2>1
  <2>3. TenTo(m - 1) \in Nat
    BY <2>1, TenToType
  <2>4. QED
    BY <2>2, <2>3
<1>5. Fits(m, n, least)
  BY <1>3, <1>4 DEF Fits
<1>6. QED
  BY <1>5

LEMMA DigitOf ==
  ASSUME NEW x \in 0 .. 9
  PROVE  \E d \in Digit : DigitValue[d] = x
<1>1. /\ DigitValue["0"] = 0 /\ DigitValue["1"] = 1 /\ DigitValue["2"] = 2
      /\ DigitValue["3"] = 3 /\ DigitValue["4"] = 4 /\ DigitValue["5"] = 5
      /\ DigitValue["6"] = 6 /\ DigitValue["7"] = 7 /\ DigitValue["8"] = 8
      /\ DigitValue["9"] = 9
  BY DEF DigitValue
<1>2. {"0", "1", "2", "3", "4", "5", "6", "7", "8", "9"} \subseteq Digit
  BY DEF Digit, DigitValue
<1>3. x = 0 \/ x = 1 \/ x = 2 \/ x = 3 \/ x = 4 \/ x = 5 \/ x = 6 \/ x = 7 \/ x = 8 \/ x = 9
  OBVIOUS
<1>4. QED
  BY <1>1, <1>2, <1>3

(* The digits, one by one.                                                 *)
LEMMA DigitsOfShape ==
  ASSUME NEW n \in Nat, NEW least \in Nat
  PROVE  \E size : /\ Fits(size, n, least)
                  /\ DigitsOf(n, least) \in Seq(Digit)
                  /\ Len(DigitsOf(n, least)) = size
                  /\ \A i \in 1 .. size :
                       DigitValue[DigitsOf(n, least)[i]] = (n \div TenTo(size - i)) % 10
<1> DEFINE size == CHOOSE k \in least .. n + least :
                     n < TenTo(k) /\ (k = least \/ TenTo(k - 1) <= n)
           digit(i) == CHOOSE d \in Digit : DigitValue[d] = (n \div TenTo(size - i)) % 10
           ds == [i \in 1 .. size |-> digit(i)]
<1>1. DigitsOf(n, least) = ds
  BY Zenon DEF DigitsOf
<1>2. Fits(size, n, least)
  BY FittingSize, Zenon DEF Fits
<1> HIDE DEF size
<1>3. size \in Nat
  BY <1>2 DEF Fits
<1>4. ASSUME NEW i \in 1 .. size
      PROVE  digit(i) \in Digit /\ DigitValue[digit(i)] = (n \div TenTo(size - i)) % 10
  <2> DEFINE b == TenTo(size - i)
             q == n \div b
  <2>1. b \in Nat \ {0}
    BY <1>3, TenToType
  <2>2. q \in Nat
    <3> HIDE DEF b
    <3>1. QED
      BY <2>1, Division
  <2> HIDE DEF q
  <2>3. q % 10 \in 0 .. 9
    BY <2>2
  <2>4. \E d \in Digit : DigitValue[d] = q % 10
    BY <2>3, DigitOf
  <2>5. QED
    BY <2>4, Zenon DEF q
<1> HIDE DEF digit
<1>5. ds \in Seq(Digit) /\ Len(ds) = size /\ \A i \in 1 .. size : ds[i] = digit(i)
  BY <1>3, <1>4
<1> HIDE DEF ds
<1>6. QED
  BY <1>1, <1>2, <1>4, <1>5

(* They are the digits of n, as many as asked for or more, and not more    *)
(* when these are enough.                                                  *)
LEMMA DigitsOfNumber ==
  ASSUME NEW n \in Nat, NEW least \in Nat
  PROVE  /\ DigitsOf(n, least) \in Seq(Digit)
         /\ Len(DigitsOf(n, least)) >= least
         /\ n < TenTo(least) => Len(DigitsOf(n, least)) = least
         /\ Number(DigitsOf(n, least)) = n
<1> DEFINE ds == DigitsOf(n, least)
<1>1. PICK size : /\ Fits(size, n, least)
                  /\ ds \in Seq(Digit) /\ Len(ds) = size
                  /\ \A i \in 1 .. size : DigitValue[ds[i]] = (n \div TenTo(size - i)) % 10
  BY DigitsOfShape
<1> HIDE DEF ds
<1>2. size \in Nat /\ size >= least /\ n < TenTo(size)
  BY <1>1 DEF Fits
<1>3. ASSUME n < TenTo(least) PROVE size = least
  <2>1. SUFFICES ASSUME size # least PROVE FALSE
    OBVIOUS
  <2>2. TenTo(size - 1) <= n /\ size - 1 \in Nat /\ least <= size - 1
    BY <1>1, <1>2, <2>1 DEF Fits
  <2>3. TenTo(least) <= TenTo(size - 1) /\ TenTo(least) \in Nat /\ TenTo(size - 1) \in Nat
    BY <2>2, PowersGrow, TenToType
  <2>4. QED
    BY <1>3, <2>2, <2>3
<1>4. PICK v : ArePrefixValues(v, ds) /\ Number(ds) = v[size]
  BY <1>1, DigitText, NumberIsValue
<1>5. v[0] = 0 /\ \A i \in 1 .. size : v[i] = 10 * v[i - 1] + DigitValue[ds[i]]
  BY <1>1, <1>4 DEF ArePrefixValues
<1>6. ASSUME NEW i \in 1 .. size, v[i - 1] = n \div TenTo(size - (i - 1))
      PROVE  v[i] = n \div TenTo(size - i)
  <2> DEFINE b == TenTo(size - i)
  <2>1. size - i \in Nat /\ (size - i) + 1 = size - (i - 1)
    BY <1>2
  <2>2. b \in Nat \ {0} /\ TenTo(size - (i - 1)) = 10 * b
    BY <2>1, TenToNext, TenToType
  <2> HIDE DEF b
  <2>3. n \div b = 10 * (n \div (10 * b)) + ((n \div b) % 10)
    BY <2>2, DivisionByTen
  <2>4. DigitValue[ds[i]] = (n \div b) % 10
    BY <1>1, Zenon DEF b
  <2>5. v[i - 1] = n \div (10 * b)
    BY <1>6, <2>2, Zenon
  <2>6. v[i] = n \div b
    BY <1>5, <2>3, <2>4, <2>5, Zenon
  <2>7. QED
    BY <2>6 DEF b
<1> DEFINE S == {i \in 0 .. size : v[i] = n \div TenTo(size - i)}
<1>7. 0 \in S
  <2>1. n \div TenTo(size) = 0
    BY <1>2, SmallDivision, TenToType
  <2>2. size - 0 = size /\ 0 \in 0 .. size
    BY <1>2
  <2>3. QED
    BY <1>5, <2>1, <2>2
<1>8. ASSUME NEW i \in 1 .. size, i - 1 \in S PROVE i \in S
  <2>1. i \in 0 .. size
    BY <1>2
  <2>2. v[i - 1] = n \div TenTo(size - (i - 1))
    BY <1>8
  <2>3. v[i] = n \div TenTo(size - i)
    BY <1>6, <2>2
  <2>4. QED
    BY <2>1, <2>3
<1>9. \A i \in 0 .. size : i \in S
  <2> HIDE DEF S
  <2>1. QED
    BY <1>2, <1>7, <1>8, IntervalInduction
<1>10. v[size] = n
  <2>1. size \in S
    BY <1>2, <1>9
  <2>2. v[size] = n \div TenTo(size - size) /\ size - size = 0
    BY <1>2, <2>1
  <2>3. v[size] = n \div 1
    BY <2>2, TenToZero
  <2>4. n \div 1 = n
    OBVIOUS
  <2>5. QED
    BY <2>3, <2>4
<1>11. QED
  BY <1>1, <1>2, <1>3, <1>4, <1>10 DEF ds

-----------------------------------------------------------------------------
(***************************************************************************)
(* The parts of a text: a sign, digits, a point, digits.                   *)
(***************************************************************************)

LEMMA NoDigit == "." \notin Digit /\ "-" \notin Digit /\ "+" \notin Digit
BY DEF Digit, DigitValue

LEMMA ZeroIsDigit == "0" \in Digit
BY DEF Digit, DigitValue

(* Point finds the first point, if there is one.                           *)
LEMMA PointIsFirst ==
  ASSUME NEW s, Len(s) \in Nat, NEW i \in 1 .. Len(s), s[i] = "."
  PROVE  /\ Point(s) \in 1 .. Len(s)
         /\ s[Point(s)] = "."
         /\ \A j \in 1 .. Len(s) : s[j] = "." => Point(s) <= j
<1> DEFINE points == {j \in 1 .. Len(s) : s[j] = "."}
           first == CHOOSE j \in points : \A k \in points : j <= k
<1>1. points \subseteq Nat /\ points # {}
  OBVIOUS
<1>2. Point(s) = first
  BY <1>1, Zenon DEF Point
<1>3. first \in points /\ \A k \in points : first <= k
  <2> HIDE DEF points
  <2>1. \E j \in points : \A k \in points : j <= k
    BY <1>1, LeastNatural, Zenon
  <2>2. QED
    BY <2>1, Zenon
<1> HIDE DEF first
<1>4. QED
  BY <1>2, <1>3

LEMMA NoPoint ==
  ASSUME NEW s
  PROVE  Point(s) = 0 \/ \E i \in 1 .. Len(s) : s[i] = "."
BY DEF Point

LEMMA PointZero ==
  ASSUME NEW s, Len(s) \in Nat, Point(s) = 0
  PROVE  \A i \in 1 .. Len(s) : s[i] # "."
<1>1. SUFFICES ASSUME NEW i \in 1 .. Len(s), s[i] = "." PROVE FALSE
  OBVIOUS
<1>2. Point(s) \in 1 .. Len(s)
  BY <1>1, PointIsFirst
<1>3. QED
  BY <1>2

LEMMA PointType ==
  ASSUME NEW s, Len(s) \in Nat, Point(s) # 0
  PROVE  /\ Point(s) \in 1 .. Len(s)
         /\ s[Point(s)] = "."
         /\ \A j \in 1 .. Len(s) : s[j] = "." => Point(s) <= j
BY NoPoint, PointIsFirst

(* Where the point is, and what is around it.                              *)
LEMMA PointBetween ==
  ASSUME NEW C, "." \in C, NEW x \in Seq(C), NEW y \in Seq(C),
         \A i \in 1 .. Len(x) : x[i] # "."
  PROVE  /\ Point(x \o <<".">> \o y) = Len(x) + 1
         /\ IntPart(x \o <<".">> \o y) = x
         /\ FracPart(x \o <<".">> \o y) = y
<1> DEFINE t == x \o <<".">> \o y
           m == Len(x)
           n == Len(y)
<1>1. /\ m \in Nat /\ n \in Nat /\ Len(t) = m + 1 + n /\ t \in Seq(C)
      /\ \A i \in 1 .. m : t[i] = x[i]
      /\ t[m + 1] = "."
      /\ \A i \in 1 .. n : t[m + 1 + i] = y[i]
  OBVIOUS
<1> HIDE DEF t
<1>2. m + 1 \in 1 .. Len(t)
  BY <1>1
<1>3. Point(t) \in 1 .. Len(t) /\ t[Point(t)] = "." /\ Point(t) <= m + 1
  BY <1>1, <1>2, PointIsFirst
<1>4. Point(t) = m + 1
  <2>1. SUFFICES ASSUME Point(t) # m + 1 PROVE FALSE
    OBVIOUS
  <2>2. Point(t) \in 1 .. m
    BY <1>1, <1>3, <2>1
  <2>3. t[Point(t)] = x[Point(t)] /\ x[Point(t)] # "."
    BY <1>1, <2>2
  <2>4. QED
    BY <1>3, <2>3
<1>5. IntPart(t) = x
  <2>1. IntPart(t) = SubSeq(t, 1, m)
    BY <1>1, <1>4 DEF IntPart
  <2>2. SubSeq(t, 1, m) = x
    BY <1>1
  <2>3. QED
    BY <2>1, <2>2
<1>6. FracPart(t) = y
  <2>1. FracPart(t) = SubSeq(t, m + 1 + 1, m + 1 + n)
    BY <1>1, <1>4 DEF FracPart
  <2>2. SubSeq(t, m + 1 + 1, m + 1 + n) = y
    BY <1>1
  <2>3. QED
    BY <2>1, <2>2
<1>7. QED
  BY <1>4, <1>5, <1>6 DEF t

(* What begins with a digit has no sign.                                   *)
LEMMA DigitFirst ==
  ASSUME NEW s, s[1] \in Digit
  PROVE  ~ Signed(s) /\ Unsigned(s) = s /\ Sign(s) = 1
<1>1. s[1] \notin {"-", "+"}
  BY NoDigit
<1>2. QED
  BY <1>1 DEF Signed, Unsigned, Sign

(* A sign before a text is its sign.                                       *)
LEMMA SignFirst ==
  ASSUME NEW s, Signed(s), NEW t, t # <<>>, t[1] = s[1]
  PROVE  Signed(t) /\ Unsigned(t) = Tail(t) /\ Sign(t) = Sign(s)
BY DEF Signed, Unsigned, Sign

-----------------------------------------------------------------------------
(***************************************************************************)
(* The decimals that are kept.                                             *)
(***************************************************************************)

LEMMA ScaleType == SCALE \in Nat \ {0}
BY DecimalsAssumption, TenToType DEF SCALE

LEMMA KeptShape ==
  ASSUME NEW frac \in Seq(Digit)
  PROVE  /\ Kept(frac) \in Seq(Digit)
         /\ Len(Kept(frac)) = Decimals
         /\ \A i \in 1 .. Decimals :
              Kept(frac)[i] = IF i <= Len(frac) THEN frac[i] ELSE "0"
<1>1. Decimals \in Nat /\ Len(frac) \in Nat
  BY DecimalsAssumption
<1>2. \A i \in 1 .. Decimals : (IF i <= Len(frac) THEN frac[i] ELSE "0") \in Digit
  BY <1>1, ZeroIsDigit
<1> HIDE DEF Digit
<1>3. QED
  BY <1>1, <1>2 DEF Kept

LEMMA Concatenation ==
  ASSUME NEW C, NEW s \in Seq(C), NEW x \in Seq(C), NEW y \in Seq(C),
         Len(s) = Len(x) + Len(y),
         \A i \in 1 .. Len(x) : s[i] = x[i],
         \A i \in 1 .. Len(y) : s[Len(x) + i] = y[i]
  PROVE  s = x \o y
<1> DEFINE t == x \o y
<1>1. /\ t \in Seq(C) /\ Len(t) = Len(x) + Len(y)
      /\ \A i \in 1 .. Len(x) : t[i] = x[i]
      /\ \A i \in 1 .. Len(y) : t[Len(x) + i] = y[i]
  OBVIOUS
<1> HIDE DEF t
<1>2. ASSUME NEW i \in 1 .. Len(s) PROVE s[i] = t[i]
  <2>1. CASE i <= Len(x)
    BY <1>1, <2>1
  <2>2. CASE ~ (i <= Len(x))
    <3>1. i - Len(x) \in 1 .. Len(y) /\ Len(x) + (i - Len(x)) = i
      BY <2>2
    <3>2. s[Len(x) + (i - Len(x))] = y[i - Len(x)] /\ t[Len(x) + (i - Len(x))] = y[i - Len(x)]
      BY <1>1, <3>1
    <3>3. QED
      BY <3>1, <3>2
  <2>3. QED
    BY <2>1, <2>2
<1>3. s = t
  BY <1>1, <1>2
<1>4. QED
  BY <1>3 DEF t

(* All the decimals are there.                                             *)
LEMMA KeptAll ==
  ASSUME NEW frac \in Seq(Digit), Len(frac) = Decimals
  PROVE  Kept(frac) = frac
<1>1. /\ Kept(frac) \in Seq(Digit) /\ Len(Kept(frac)) = Len(frac)
      /\ \A i \in 1 .. Len(frac) : Kept(frac)[i] = frac[i]
  BY KeptShape
<1>2. QED
  BY <1>1

(* Decimals are missing: zeros take their place.                           *)
LEMMA KeptShort ==
  ASSUME NEW frac \in Seq(Digit), Len(frac) <= Decimals
  PROVE  Number(Kept(frac)) = Number(frac) * TenTo(Decimals - Len(frac))
<1> DEFINE k == Decimals - Len(frac)
           zeros == [i \in 1 .. k |-> "0"]
<1>1. k \in Nat /\ Len(frac) \in Nat /\ Decimals = Len(frac) + k
  BY DecimalsAssumption
<1> HIDE DEF k
<1>2. zeros \in Seq(Digit) /\ Len(zeros) = k /\ \A i \in 1 .. k : zeros[i] = "0"
  BY <1>1, ZeroIsDigit
<1> HIDE DEF zeros
<1>3. Kept(frac) = frac \o zeros
  <2>1. /\ Kept(frac) \in Seq(Digit) /\ Len(Kept(frac)) = Len(frac) + k
        /\ \A i \in 1 .. Len(frac) + k :
             Kept(frac)[i] = IF i <= Len(frac) THEN frac[i] ELSE "0"
    BY <1>1, KeptShape
  <2>2. /\ \A i \in 1 .. Len(frac) : Kept(frac)[i] = frac[i]
        /\ \A i \in 1 .. k : Kept(frac)[Len(frac) + i] = zeros[i]
    BY <1>1, <1>2, <2>1
  <2>3. QED
    BY <1>2, <2>1, <2>2, Concatenation
<1>4. Number(Kept(frac)) = Number(frac) * TenTo(k) + Number(zeros)
  BY <1>2, <1>3, NumberOfConcatenation
<1>5. Number(zeros) = 0
  BY <1>1, <1>2, NumberOfZeros
<1>6. Number(frac) * TenTo(k) \in Nat
  <2>1. Number(frac) \in Nat /\ TenTo(k) \in Nat
    BY <1>1, DigitText, TenToType
  <2>2. QED
    BY <2>1
<1>7. QED
  BY <1>4, <1>5, <1>6 DEF k

(* There are more decimals: those that are cut off are worth less than one *)
(* of the last that is kept.                                               *)
LEMMA KeptLong ==
  ASSUME NEW frac \in Seq(Digit), Decimals < Len(frac)
  PROVE  \E r \in 0 .. TenTo(Len(frac) - Decimals) - 1 :
           Number(frac) = Number(Kept(frac)) * TenTo(Len(frac) - Decimals) + r
<1> DEFINE k == Len(frac) - Decimals
           rest == [i \in 1 .. k |-> frac[Decimals + i]]
<1>1. k \in Nat /\ Decimals \in Nat /\ Len(frac) = Decimals + k
  BY DecimalsAssumption
<1> HIDE DEF k
<1>2. rest \in Seq(Digit) /\ Len(rest) = k /\ \A i \in 1 .. k : rest[i] = frac[Decimals + i]
  BY <1>1
<1> HIDE DEF rest
<1>3. frac = Kept(frac) \o rest
  <2>1. /\ Kept(frac) \in Seq(Digit) /\ Len(Kept(frac)) = Decimals
        /\ \A i \in 1 .. Decimals : Kept(frac)[i] = frac[i]
    BY <1>1, KeptShape
  <2>2. QED
    BY <1>1, <1>2, <2>1, Concatenation
<1>4. Number(Kept(frac) \o rest) = Number(Kept(frac)) * TenTo(k) + Number(rest)
  BY <1>2, KeptShape, NumberOfConcatenation
<1>5. Number(rest) \in 0 .. TenTo(k) - 1
  <2>1. Number(rest) < TenTo(k) /\ Number(rest) \in Nat
    BY <1>2, NumberIsBounded, DigitText
  <2>2. TenTo(k) \in Nat
    BY <1>1, TenToType
  <2>3. QED
    BY <2>1, <2>2
<1>6. QED
  BY <1>3, <1>4, <1>5, Zenon DEF k

(* The kept decimals are what the reference makes of all of them.          *)
LEMMA KeptValue ==
  ASSUME NEW int \in Seq(Digit), NEW frac \in Seq(Digit)
  PROVE  Number(int \o Kept(frac))
           = (Number(int \o frac) * SCALE) \div TenTo(Len(frac))
<1> DEFINE I == Number(int)
           F == Number(frac)
           K == Number(Kept(frac))
           L == Len(frac)
           P == TenTo(L)
<1>1. Number(int \o frac) = I * P + F
  BY NumberOfConcatenation
<1>2. Number(int \o Kept(frac)) = I * SCALE + K
  BY KeptShape, NumberOfConcatenation DEF SCALE
<1>3. I \in Nat /\ F \in Nat /\ K \in Nat /\ L \in Nat /\ Decimals \in Nat
  BY DecimalsAssumption, KeptShape, DigitText
<1>4. P \in Nat \ {0} /\ SCALE \in Nat \ {0}
  BY <1>3, TenToType, ScaleType
<1>5. CASE L <= Decimals
  <2> DEFINE q == TenTo(Decimals - L)
  <2>1. q \in Nat /\ SCALE = P * q
    <3>1. Decimals - L \in Nat /\ L + (Decimals - L) = Decimals
      BY <1>3, <1>5
    <3>2. q \in Nat
      BY <3>1, TenToType
    <3>3. TenTo(L + (Decimals - L)) = P * q
      BY <1>3, <3>1, TenToSum
    <3>4. QED
      BY <3>1, <3>2, <3>3 DEF SCALE
  <2>2. K = F * q
    BY <1>5, KeptShort
  <2> HIDE DEF I, F, K, L, P, q
  <2>3. \A i, f, p, x \in Nat : (i * p + f) * (p * x) = (i * (p * x) + f * x) * p + 0
    OBVIOUS
  <2>4. (I * P + F) * SCALE = (I * SCALE + K) * P + 0
    BY <1>3, <1>4, <2>1, <2>2, <2>3
  <2>5. I * SCALE + K \in Nat /\ 0 \in 0 .. P - 1
    BY <1>3, <1>4
  <2>6. ((I * SCALE + K) * P + 0) \div P = I * SCALE + K
    BY <1>4, <2>5, DivisionIsUnique
  <2>7. QED
    BY <1>1, <1>2, <2>4, <2>6, Zenon DEF I, F, K, L, P
<1>6. CASE Decimals < L
  <2> DEFINE q == TenTo(L - Decimals)
  <2>1. q \in Nat \ {0} /\ P = SCALE * q
    <3>1. L - Decimals \in Nat /\ Decimals + (L - Decimals) = L
      BY <1>3, <1>6
    <3>2. QED
      BY <1>3, <3>1, TenToSum, TenToType DEF SCALE
  <2>2. PICK r \in 0 .. q - 1 : F = K * q + r
    BY <1>6, KeptLong
  <2> HIDE DEF I, F, K, L, P, q
  <2>3. \A i, k, s, x, y \in Nat :
          (i * (s * x) + (k * x + y)) * s = (i * s + k) * (s * x) + y * s
    OBVIOUS
  <2>4. (I * P + F) * SCALE = (I * SCALE + K) * P + r * SCALE
    BY <1>3, <1>4, <2>1, <2>2, <2>3
  <2>5. r * SCALE \in 0 .. P - 1
    <3>1. \A s, x \in Nat \ {0} : \A y \in 0 .. x - 1 : y * s \in Nat /\ y * s + s <= s * x
      OBVIOUS
    <3>2. r * SCALE \in Nat /\ r * SCALE + SCALE <= P
      BY <1>4, <2>1, <3>1
    <3>3. QED
      BY <1>4, <3>2
  <2>6. I * SCALE + K \in Nat
    BY <1>3, <1>4
  <2>7. ((I * SCALE + K) * P + r * SCALE) \div P = I * SCALE + K
    BY <1>4, <2>5, <2>6, DivisionIsUnique
  <2>8. QED
    BY <1>1, <1>2, <2>4, <2>7, Zenon DEF I, F, K, L, P
<1>7. QED
  BY <1>3, <1>5, <1>6

-----------------------------------------------------------------------------
(***************************************************************************)
(* What becomes of a column: at most one value, and one that fits.         *)
(***************************************************************************)

LEMMA HalfType == 2 ^ (Width - 1) \in Nat \ {0}
<1>1. Width - 1 \in Nat
  BY WidthAssumption
<1>2. QED
  BY <1>1, PowerOfTwo

LEMMA ParseIntegerType ==
  ASSUME NEW s
  PROVE  ParseInteger(s) \subseteq Machine /\ AtMostOne(ParseInteger(s))
<1> HIDE DEF Machine
<1>1. \A n \in ParseInteger(s) : n \in Machine /\ n = Sign(s) * Number(Unsigned(s))
  BY DEF ParseInteger
<1>2. QED
  BY <1>1 DEF AtMostOne

(* What is left of a product fits, in either build.                        *)
LEMMA MachineProductType ==
  ASSUME NEW m \in Int, NEW n \in Int
  PROVE  MachineProduct(m, n) \subseteq Machine /\ AtMostOne(MachineProduct(m, n))
<1> DEFINE half == 2 ^ (Width - 1)
           wrapped == ((m * n + half) % (2 * half)) - half
<1>1. half \in Nat \ {0}
  BY HalfType
<1>2. Machine = - half .. half - 1
  BY DEF Machine
<1>3. MachineProduct(m, n) = IF OverflowChecks THEN {m * n} \cap Machine ELSE {wrapped}
  BY DEF MachineProduct
<1>4. m * n + half \in Int /\ 2 * half \in Nat \ {0}
  BY <1>1
<1>5. \A a \in Int : \A b \in Nat \ {0} : a % b \in 0 .. b - 1
  OBVIOUS
<1>6. (m * n + half) % (2 * half) \in 0 .. 2 * half - 1
  BY <1>4, <1>5
<1> HIDE DEF half
<1>7. \A r \in 0 .. 2 * half - 1 : r - half \in - half .. half - 1
  BY <1>1
<1>8. wrapped \in Machine
  BY <1>2, <1>6, <1>7
<1> HIDE DEF wrapped
<1>9. QED
  BY <1>3, <1>8 DEF AtMostOne

LEMMA ParseType ==
  ASSUME NEW s
  PROVE  Parse(s) \subseteq Machine /\ AtMostOne(Parse(s))
<1>1. Machine \subseteq Int
  BY HalfType DEF Machine
<1>2. SCALE \in Int
  BY ScaleType
<1>3. CASE Point(s) = 0
  <2>1. ParseInteger(s) \subseteq Machine /\ AtMostOne(ParseInteger(s))
    BY ParseIntegerType
  <2>2. \A n \in ParseInteger(s) :
          MachineProduct(n, SCALE) \subseteq Machine /\ AtMostOne(MachineProduct(n, SCALE))
    BY <1>1, <1>2, <2>1, MachineProductType
  <2>3. Parse(s) = UNION {MachineProduct(n, SCALE) : n \in ParseInteger(s)}
    BY <1>3 DEF Parse
  <2>4. \A x \in Parse(s) : \E n \in ParseInteger(s) : x \in MachineProduct(n, SCALE)
    BY <2>3
  <2>5. Parse(s) \subseteq Machine
    BY <2>2, <2>4, Zenon
  <2>6. ASSUME NEW x \in Parse(s), NEW y \in Parse(s) PROVE x = y
    <3>1. PICK n \in ParseInteger(s) : x \in MachineProduct(n, SCALE)
      BY <2>4
    <3>2. PICK k \in ParseInteger(s) : y \in MachineProduct(k, SCALE)
      BY <2>4
    <3>3. n = k
      BY <2>1 DEF AtMostOne
    <3>4. QED
      BY <2>2, <3>1, <3>2, <3>3 DEF AtMostOne
  <2>7. QED
    BY <2>5, <2>6, Zenon DEF AtMostOne
<1>4. CASE Point(s) # 0
  BY <1>4, ParseIntegerType DEF Parse
<1>5. QED
  BY <1>3, <1>4

LEMMA FieldAmountType ==
  ASSUME NEW s
  PROVE  FieldAmount(s) \subseteq Machine /\ AtMostOne(FieldAmount(s))
<1>1. 0 \in Machine
  BY HalfType DEF Machine
<1>2. QED
  BY <1>1, ParseType DEF FieldAmount, AtMostOne

LEMMA ParseUnsignedType ==
  ASSUME NEW s \in Seq(STRING), NEW bits \in Nat
  PROVE  /\ ParseUnsigned(s, bits) \subseteq 0 .. 2 ^ bits - 1
         /\ AtMostOne(ParseUnsigned(s, bits))
<1>1. \A n \in ParseUnsigned(s, bits) :
        n = Number(Unsigned(s)) /\ AllDigits(Unsigned(s)) /\ n < 2 ^ bits
  BY DEF ParseUnsigned
<1>2. Len(Unsigned(s)) \in Nat
  BY UnsignedType
<1>3. \A n \in ParseUnsigned(s, bits) : n \in Nat
  BY <1>1, <1>2, NumberType
<1>4. 2 ^ bits \in Nat
  BY PowerOfTwo
<1>5. QED
  BY <1>1, <1>3, <1>4 DEF AtMostOne

-----------------------------------------------------------------------------
(***************************************************************************)
(* Parsing and printing.                                                   *)
(***************************************************************************)

LEMMA TailOfConcatenation ==
  ASSUME NEW C, NEW x \in Seq(C), x # <<>>, NEW y \in Seq(C)
  PROVE  /\ x \o y # <<>> /\ (x \o y)[1] = x[1]
         /\ Tail(x \o y) = Tail(x) \o y
<1> DEFINE t == x \o y
<1>1. /\ t \in Seq(C) /\ Len(t) = Len(x) + Len(y) /\ Len(x) \in Nat \ {0} /\ Len(y) \in Nat
      /\ \A i \in 1 .. Len(x) : t[i] = x[i]
      /\ \A i \in 1 .. Len(y) : t[Len(x) + i] = y[i]
  OBVIOUS
<1> HIDE DEF t
<1>2. t # <<>> /\ t[1] = x[1]
  BY <1>1
<1>3. /\ Tail(t) \in Seq(C) /\ Len(Tail(t)) = Len(t) - 1
      /\ \A i \in 1 .. Len(t) - 1 : Tail(t)[i] = t[i + 1]
  BY <1>1, <1>2
<1>4. /\ Tail(x) \in Seq(C) /\ Len(Tail(x)) = Len(x) - 1
      /\ \A i \in 1 .. Len(x) - 1 : Tail(x)[i] = x[i + 1]
  BY <1>1
<1>5. Len(Tail(t)) = Len(Tail(x)) + Len(y)
  BY <1>1, <1>3, <1>4
<1>6. \A i \in 1 .. Len(Tail(x)) : Tail(t)[i] = Tail(x)[i]
  BY <1>1, <1>3, <1>4
<1>7. ASSUME NEW i \in 1 .. Len(y) PROVE Tail(t)[Len(Tail(x)) + i] = y[i]
  <2>1. Len(Tail(x)) + i \in 1 .. Len(t) - 1 /\ (Len(Tail(x)) + i) + 1 = Len(x) + i
    BY <1>1, <1>4
  <2>2. QED
    BY <1>1, <1>3, <2>1
<1>8. Tail(t) = Tail(x) \o y
  BY <1>3, <1>4, <1>5, <1>6, <1>7, Concatenation
<1>9. QED
  BY <1>2, <1>8 DEF t

(* Parts of a text and of the text without its first character.            *)
LEMMA PartsOfTail ==
  ASSUME NEW C, NEW s \in Seq(C), NEW n \in 1 .. Len(s) - 1
  PROVE  /\ SubSeq(Tail(s), n + 1, Len(Tail(s))) = SubSeq(s, n + 2, Len(s))
         /\ SubSeq(s, 1, n) \in Seq(C) /\ SubSeq(s, 1, n) # <<>>
         /\ SubSeq(s, 1, n)[1] = s[1]
         /\ SubSeq(Tail(s), 1, n - 1) = Tail(SubSeq(s, 1, n))
<1> DEFINE u == Tail(s)
           k == Len(u)
<1>1. u \in Seq(C) /\ k \in Nat /\ Len(s) = k + 1 /\ \A i \in 1 .. k : u[i] = s[i + 1]
  OBVIOUS
<1> HIDE DEF u
<1>2. n \in 1 .. k
  BY <1>1
<1>3. SubSeq(u, n + 1, k) = SubSeq(s, n + 2, Len(s))
  <2>1. SubSeq(u, n + 1, k) = [i \in 1 .. k - n |-> u[n + i]]
    BY <1>1, <1>2
  <2>2. SubSeq(s, n + 2, Len(s)) = [i \in 1 .. k - n |-> s[(n + i) + 1]]
    BY <1>1, <1>2
  <2>3. ASSUME NEW i \in 1 .. k - n
        PROVE  u[n + i] = s[(n + i) + 1]
    <3>1. n + i \in 1 .. k
      BY <1>1, <1>2
    <3>2. QED
      BY <1>1, <3>1
  <2>4. QED
    BY <2>1, <2>2, <2>3
<1> DEFINE x == SubSeq(s, 1, n)
<1>4. x \in Seq(C) /\ Len(x) = n /\ \A i \in 1 .. n : x[i] = s[i]
  BY <1>1, <1>2
<1> HIDE DEF x
<1>5. x # <<>> /\ x[1] = s[1]
  BY <1>2, <1>4
<1>6. SubSeq(u, 1, n - 1) = Tail(x)
  <2>1. /\ SubSeq(u, 1, n - 1) \in Seq(C) /\ Len(SubSeq(u, 1, n - 1)) = n - 1
        /\ \A i \in 1 .. n - 1 : SubSeq(u, 1, n - 1)[i] = u[i]
    BY <1>1, <1>2
  <2>2. /\ Tail(x) \in Seq(C) /\ Len(Tail(x)) = n - 1
        /\ \A i \in 1 .. n - 1 : Tail(x)[i] = x[i + 1]
    BY <1>2, <1>4, <1>5
  <2>3. ASSUME NEW i \in 1 .. n - 1
        PROVE  u[i] = x[i + 1]
    <3>1. i \in 1 .. k /\ i + 1 \in 1 .. n
      BY <1>1, <1>2
    <3>2. QED
      BY <1>1, <1>4, <3>1
  <2> DEFINE v == SubSeq(u, 1, n - 1)
             w == Tail(x)
  <2> HIDE DEF v, w
  <2>4. Len(v) = Len(w) /\ \A i \in 1 .. Len(v) : v[i] = w[i]
    BY <2>1, <2>2, <2>3 DEF v, w
  <2>5. v = w
    BY <2>1, <2>2, <2>4 DEF v, w
  <2>6. QED
    BY <2>5 DEF v, w
<1>7. QED
  BY <1>3, <1>4, <1>5, <1>6 DEF u, x

LEMMA ParseIntegerValue ==
  ASSUME NEW s, Unsigned(s) # <<>>, AllDigits(Unsigned(s))
  PROVE  \A x : x \in ParseInteger(s) <=> x = Sign(s) * Number(Unsigned(s)) /\ x \in Machine
<1>1. QED
  BY DEF ParseInteger

LEMMA SignType == \A s : Sign(s) = 1 \/ Sign(s) = -1
BY DEF Sign

(* A numeral without a point: what the product refuses does not fit, and   *)
(* what ParseInteger refuses would not fit after the product either.       *)
LEMMA ParseWithoutPoint ==
  ASSUME OverflowChecks, NEW s \in Seq(STRING), IsNumeral(s),
         Point(s) = 0, Point(Unsigned(s)) = 0
  PROVE  \A x : x \in Parse(s) <=> x = Scaled(s) /\ x \in Machine
<1> DEFINE u == Unsigned(s)
           n == Sign(s) * Number(u)
<1>1. u # <<>> /\ AllDigits(u) /\ u \in Seq(STRING) /\ Len(u) \in Nat
  BY UnsignedType DEF IsNumeral
<1>2. Number(u) \in Nat
  BY <1>1, NumberType
<1>3. n \in Int
  BY <1>2, SignType
<1>4. SCALE \in Nat \ {0}
  BY ScaleType
<1>5. Scaled(s) = n * SCALE
  <2>1. Scaled(s) = Sign(s) * ((Number(u \o <<>>) * SCALE) \div TenTo(Len(<<>>)))
    BY DEF Scaled
  <2>2. u \o <<>> = u /\ Len(<<>>) = 0
    BY <1>1
  <2>3. (Number(u) * SCALE) \div 1 = Number(u) * SCALE
    <3>1. Number(u) * SCALE \in Nat
      BY <1>2, <1>4
    <3>2. \A k \in Nat : k \div 1 = k
      OBVIOUS
    <3>3. QED
      BY <3>1, <3>2
  <2>4. Scaled(s) = Sign(s) * (Number(u) * SCALE)
    BY <2>1, <2>2, <2>3, TenToZero
  <2>5. \A g \in {1, -1} : \A a, b \in Nat : g * (a * b) = (g * a) * b
    OBVIOUS
  <2>6. Sign(s) \in {1, -1}
    BY SignType
  <2>7. Sign(s) * (Number(u) * SCALE) = (Sign(s) * Number(u)) * SCALE
    <3> HIDE DEF u
    <3>1. QED
      BY <1>2, <1>4, <2>5, <2>6
  <2>8. QED
    BY <2>4, <2>7
<1>6. \A x : x \in ParseInteger(s) <=> x = n /\ x \in Machine
  BY <1>1, ParseIntegerValue
<1> HIDE DEF u, n
<1>7. \A x : x \in Parse(s) <=> n \in Machine /\ x \in MachineProduct(n, SCALE)
  BY <1>6 DEF Parse
<1>8. \A x : x \in MachineProduct(n, SCALE) <=> x = n * SCALE /\ x \in Machine
  BY DEF MachineProduct
<1>9. ASSUME n * SCALE \in Machine PROVE n \in Machine
  <2> DEFINE half == 2 ^ (Width - 1)
  <2>1. half \in Nat \ {0} /\ Machine = - half .. half - 1
    BY HalfType DEF Machine
  <2> HIDE DEF half
  <2>2. \A a \in Int : \A b, h \in Nat \ {0} : a * b \in - h .. h - 1 => a \in - h .. h - 1
    <3>1. SUFFICES ASSUME NEW a \in Int, NEW b \in Nat \ {0}, NEW h \in Nat \ {0},
                          a * b \in - h .. h - 1
                   PROVE  a \in - h .. h - 1
      OBVIOUS
    <3>2. CASE a >= 0
      <4>1. a <= a * b
        BY <3>1, <3>2
      <4>2. QED
        BY <3>1, <3>2, <4>1
    <3>3. CASE a < 0
      <4>1. a * b <= a
        BY <3>1, <3>3
      <4>2. QED
        BY <3>1, <3>3, <4>1
    <3>4. QED
      BY <3>2, <3>3
  <2>3. QED
    BY <1>3, <1>4, <1>9, <2>1, <2>2
<1>10. QED
  BY <1>5, <1>7, <1>8, <1>9

(* The text that is parsed when there is a point: the sign stays in front. *)
LEMMA ParseWithPoint ==
  ASSUME NEW s \in Seq(STRING), Point(s) # 0, Point(Unsigned(s)) # 0, IsNumeral(s)
  PROVE  \A x : x \in Parse(s) <=> x = Scaled(s) /\ x \in Machine
<1> DEFINE u == Unsigned(s)
           int == IntPart(u)
           frac == FracPart(u)
           t == IntPart(s) \o Kept(FracPart(s))
<1>1. u \in Seq(STRING) /\ Len(u) \in Nat /\ Len(s) \in Nat
  BY UnsignedType
<1>2. /\ Point(u) \in 1 .. Len(u) /\ u[Point(u)] = "."
      /\ \A j \in 1 .. Len(u) : u[j] = "." => Point(u) <= j
  BY <1>1, PointType
<1>3. /\ Point(s) \in 1 .. Len(s) /\ s[Point(s)] = "."
      /\ \A j \in 1 .. Len(s) : s[j] = "." => Point(s) <= j
  BY <1>1, PointType
<1>4. int \in Seq(Digit) /\ frac \in Seq(Digit)
  <2>1. int \in Seq(STRING) /\ frac \in Seq(STRING)
    BY <1>1, <1>2 DEF IntPart, FracPart
  <2>2. AllDigits(int) /\ AllDigits(frac)
    BY DEF IsNumeral
  <2>3. QED
    BY <2>1, <2>2, TextOfDigits
<1>5. Scaled(s) = Sign(s) * Number(int \o Kept(frac))
  <2>1. Scaled(s) = Sign(s) * ((Number(int \o frac) * SCALE) \div TenTo(Len(frac)))
    BY DEF Scaled
  <2>2. QED
    BY <1>4, <2>1, KeptValue
<1>6. int \o Kept(frac) \in Seq(Digit) /\ int \o Kept(frac) # <<>>
      /\ (int \o Kept(frac))[1] \in Digit
  <2>1. Kept(frac) \in Seq(Digit) /\ Len(Kept(frac)) \in Nat \ {0}
    BY <1>4, KeptShape, DecimalsAssumption
  <2> HIDE DEF int
  <2>2. int \o Kept(frac) \in Seq(Digit) /\ Len(int \o Kept(frac)) \in Nat \ {0}
    BY <1>4, <2>1
  <2>3. QED
    BY <2>2
<1>7. Unsigned(t) = int \o Kept(frac) /\ Sign(t) = Sign(s)
  <2>1. CASE ~ Signed(s)
    <3>1. u = s
      BY <2>1 DEF Unsigned
    <3>2. t = int \o Kept(frac)
      BY <3>1
    <3>3. Sign(s) = 1
      BY <2>1 DEF Sign
    <3>4. QED
      BY <1>6, <3>2, <3>3, DigitFirst
  <2>2. CASE Signed(s)
    <3>1. u = Tail(s) /\ s # <<>> /\ s[1] \in {"-", "+"}
      BY <2>2 DEF Signed, Unsigned
    <3>2. Len(u) = Len(s) - 1 /\ \A i \in 1 .. Len(u) : u[i] = s[i + 1]
      BY <1>1, <3>1
    <3>3. Point(s) = Point(u) + 1
      <4>1. Point(u) + 1 \in 1 .. Len(s) /\ s[Point(u) + 1] = "."
        BY <1>1, <1>2, <3>2
      <4>2. Point(s) <= Point(u) + 1
        BY <1>3, <4>1
      <4>3. Point(s) # 1
        BY <1>3, <3>1
      <4>4. Point(s) - 1 \in 1 .. Len(u) /\ (Point(s) - 1) + 1 = Point(s)
        BY <1>1, <1>3, <3>2, <4>3
      <4>5. u[Point(s) - 1] = "."
        BY <1>3, <3>2, <4>4
      <4>6. Point(u) <= Point(s) - 1
        BY <1>2, <4>4, <4>5
      <4>7. QED
        BY <1>2, <1>3, <4>2, <4>6
    <3>4. FracPart(s) = frac
      <4>1. FracPart(s) = SubSeq(s, Point(u) + 2, Len(s)) /\ frac = SubSeq(u, Point(u) + 1, Len(u))
        <5>1. Point(s) + 1 = Point(u) + 2
          BY <1>2, <3>3
        <5>2. QED
          BY <5>1, Zenon DEF FracPart
      <4>2. Point(u) \in 1 .. Len(s) - 1
        BY <1>1, <1>2, <3>2
      <4>3. QED
        BY <3>1, <4>1, <4>2, PartsOfTail
    <3>5. /\ IntPart(s) \in Seq(STRING) /\ IntPart(s) # <<>>
          /\ IntPart(s)[1] = s[1] /\ Tail(IntPart(s)) = int
      <4>1. IntPart(s) = SubSeq(s, 1, Point(u)) /\ int = SubSeq(u, 1, Point(u) - 1)
        BY <1>2, <3>3 DEF IntPart
      <4>2. Point(u) \in 1 .. Len(s) - 1
        BY <1>1, <1>2, <3>2
      <4>3. QED
        BY <3>1, <4>1, <4>2, PartsOfTail
    <3>6. t # <<>> /\ t[1] = s[1] /\ Tail(t) = int \o Kept(frac)
      <4> DEFINE C == STRING \cup Digit
                 k == Kept(frac)
                 x == IntPart(s)
      <4>1. k \in Seq(Digit)
        BY <1>4, KeptShape
      <4> HIDE DEF k
      <4>2. k \in Seq(C) /\ x \in Seq(C) /\ x # <<>>
        BY <3>5, <4>1
      <4> HIDE DEF C, x
      <4>3. x \o k # <<>> /\ (x \o k)[1] = x[1] /\ Tail(x \o k) = Tail(x) \o k
        BY <4>2, TailOfConcatenation
      <4>4. QED
        BY <3>4, <3>5, <4>3 DEF k, x
    <3>7. QED
      BY <2>2, <3>6, SignFirst
  <2>3. QED
    BY <2>1, <2>2
<1>8. Parse(s) = ParseInteger(t)
  BY DEF Parse
<1>9. AllDigits(int \o Kept(frac))
  BY <1>6, DigitText
<1> HIDE DEF t, int, frac
<1>10. \A x : x \in ParseInteger(t) <=> x = Sign(t) * Number(Unsigned(t)) /\ x \in Machine
  BY <1>6, <1>7, <1>9, ParseIntegerValue
<1>11. QED
  BY <1>5, <1>7, <1>8, <1>10, Zenon

(* A numeral has a point when it has one without its sign.                 *)
LEMMA PointOfUnsigned ==
  ASSUME NEW s \in Seq(STRING)
  PROVE  Point(s) = 0 <=> Point(Unsigned(s)) = 0
<1> DEFINE u == Unsigned(s)
<1>1. u \in Seq(STRING) /\ Len(u) \in Nat /\ Len(s) \in Nat
  BY UnsignedType
<1>2. CASE ~ Signed(s)
  BY <1>2 DEF Unsigned
<1>3. CASE Signed(s)
  <2>1. u = Tail(s) /\ s # <<>> /\ s[1] # "."
    BY <1>3 DEF Signed, Unsigned
  <2>2. Len(u) = Len(s) - 1 /\ \A i \in 1 .. Len(u) : u[i] = s[i + 1]
    BY <1>1, <2>1
  <2> HIDE DEF u
  <2>3. ASSUME Point(s) = 0 PROVE Point(u) = 0
    <3>1. \A i \in 1 .. Len(s) : s[i] # "."
      BY <1>1, <2>3, PointZero
    <3>2. \A i \in 1 .. Len(u) : u[i] # "."
      BY <1>1, <2>2, <3>1
    <3>3. QED
      BY <3>2, NoPoint
  <2>4. ASSUME Point(u) = 0 PROVE Point(s) = 0
    <3>1. \A i \in 1 .. Len(u) : u[i] # "."
      BY <1>1, <2>4, PointZero
    <3>2. ASSUME NEW i \in 1 .. Len(s) PROVE s[i] # "."
      <4>1. CASE i = 1
        BY <2>1, <4>1
      <4>2. CASE i # 1
        <5>1. i - 1 \in 1 .. Len(u) /\ (i - 1) + 1 = i
          BY <1>1, <2>2, <4>2
        <5>2. u[i - 1] = s[(i - 1) + 1]
          BY <2>2, <5>1
        <5>3. QED
          BY <3>1, <5>1, <5>2
      <4>3. QED
        BY <4>1, <4>2
    <3>3. QED
      BY <3>2, NoPoint
  <2>5. QED
    BY <2>3, <2>4 DEF u
<1>4. QED
  BY <1>2, <1>3

(* A numeral is parsed to what the reference says, if that fits: in a      *)
(* build that checks arithmetic always, and in any build if it has a point.*)
LEMMA ParseOfNumeral ==
  ASSUME NEW s \in Seq(STRING), IsNumeral(s), OverflowChecks \/ Point(s) # 0
  PROVE  s # <<>> /\ \A x : x \in Parse(s) <=> x = Scaled(s) /\ x \in Machine
<1>1. s # <<>>
  <2>1. SUFFICES ASSUME s = <<>> PROVE FALSE
    OBVIOUS
  <2>2. Unsigned(s) = <<>> /\ Len(<<>>) = 0
    BY <2>1 DEF Unsigned, Signed
  <2>3. Point(<<>>) = 0
    BY <2>2, NoPoint
  <2>4. QED
    BY <2>2, <2>3 DEF IsNumeral
<1>2. CASE Point(s) = 0
  <2>1. OverflowChecks /\ Point(Unsigned(s)) = 0
    BY <1>2, PointOfUnsigned
  <2>2. \A x : x \in Parse(s) <=> x = Scaled(s) /\ x \in Machine
    BY <1>2, <2>1, ParseWithoutPoint
  <2>3. QED
    BY <1>1, <2>2, Zenon
<1>3. CASE Point(s) # 0
  <2>1. Point(Unsigned(s)) # 0
    BY <1>3, PointOfUnsigned
  <2>2. \A x : x \in Parse(s) <=> x = Scaled(s) /\ x \in Machine
    BY <1>3, <2>1, ParseWithPoint
  <2>3. QED
    BY <1>1, <2>2, Zenon
<1>4. QED
  BY <1>2, <1>3, Zenon

(* What is printed is parsed to the same amount, in either build: there is *)
(* a point, and all the decimals.                                          *)
LEMMA ParseOfDisplay ==
  ASSUME NEW n \in Machine
  PROVE  \A x : x \in Parse(Display(n)) <=> x = n
<1> DEFINE abs == IF n < 0 THEN - n ELSE n
           sign == IF n < 0 THEN <<"-">> ELSE <<>>
           int == DigitsOf(abs \div SCALE, 1)
           frac == DigitsOf(abs % SCALE, Decimals)
           C == Digit \cup {"-", "."}
           t == sign \o int
<1>1. n \in Int /\ abs \in Nat
  BY HalfType DEF Machine
<1>2. SCALE \in Nat \ {0}
  BY ScaleType
<1>3. abs = (abs \div SCALE) * SCALE + (abs % SCALE) /\ abs \div SCALE \in Nat
      /\ abs % SCALE \in 0 .. SCALE - 1
  <2> HIDE DEF abs
  <2>1. QED
    BY <1>1, <1>2, Division
<1>4. int \in Seq(Digit) /\ Len(int) >= 1 /\ Number(int) = abs \div SCALE
  BY <1>3, DigitsOfNumber
<1>5. frac \in Seq(Digit) /\ Len(frac) = Decimals /\ Number(frac) = abs % SCALE
  <2>1. abs % SCALE \in Nat /\ abs % SCALE < TenTo(Decimals) /\ Decimals \in Nat
    BY <1>2, <1>3, DecimalsAssumption DEF SCALE
  <2>2. QED
    BY <2>1, DigitsOfNumber
<1>6. Display(n) = (sign \o int \o <<".">>) \o frac
  BY Zenon DEF Display
<1> HIDE DEF abs, int, frac
<1>7. /\ t \in Seq(C) /\ frac \in Seq(C) /\ "." \in C
      /\ \A i \in 1 .. Len(t) : t[i] # "."
  <2>1. int \in Seq(C) /\ sign \in Seq(C) /\ frac \in Seq(C)
    <3>1. Digit \subseteq C /\ "-" \in C
      OBVIOUS
    <3> HIDE DEF C
    <3>2. int \in Seq(C) /\ frac \in Seq(C)
      BY <1>4, <1>5, <3>1
    <3>3. <<"-">> \in Seq(C) /\ <<>> \in Seq(C)
      BY <3>1
    <3>4. QED
      BY <3>2, <3>3
  <2>2. \A i \in 1 .. Len(int) : int[i] # "."
    BY <1>4, NoDigit
  <2>3. \A i \in 1 .. Len(sign) : sign[i] # "."
    OBVIOUS
  <2> HIDE DEF sign, C
  <2>4. \A i \in 1 .. Len(t) : t[i] # "."
    BY <2>1, <2>2, <2>3
  <2>5. QED
    BY <2>1, <2>4 DEF C
<1>8. Parse(Display(n)) = ParseInteger(t \o frac)
  <2> HIDE DEF t, C
  <2>1. /\ Point(t \o <<".">> \o frac) = Len(t) + 1
        /\ IntPart(t \o <<".">> \o frac) = t
        /\ FracPart(t \o <<".">> \o frac) = frac
    BY <1>7, PointBetween
  <2>2. Len(t) + 1 # 0
    BY <1>7
  <2>3. Kept(frac) = frac
    BY <1>5, KeptAll
  <2>4. Display(n) = t \o <<".">> \o frac
    BY <1>6 DEF t
  <2>5. QED
    BY <2>1, <2>2, <2>3, <2>4 DEF Parse
<1>9. int \o frac \in Seq(Digit) /\ int \o frac # <<>> /\ (int \o frac)[1] \in Digit
  BY <1>4, <1>5
<1>10. Number(int \o frac) = abs
  BY <1>3, <1>4, <1>5, NumberOfConcatenation DEF SCALE
<1>11. Unsigned(t \o frac) = int \o frac /\ Sign(t \o frac) * abs = n
  <2>1. CASE n < 0
    <3>1. t \o frac = <<"-">> \o (int \o frac)
      BY <1>4, <1>5, <2>1
    <3>2. t \o frac # <<>> /\ (t \o frac)[1] = "-" /\ Tail(t \o frac) = int \o frac
      <4> DEFINE d == int \o frac
                 x == <<"-">>
      <4>1. Digit \subseteq C /\ "-" \in C
        OBVIOUS
      <4> HIDE DEF d, C
      <4>2. x \in Seq(C) /\ x # <<>> /\ x[1] = "-" /\ Tail(x) = <<>>
        BY <4>1
      <4>3. d \in Seq(C)
        BY <1>9, <4>1 DEF d
      <4>4. <<>> \o d = d
        BY <4>3
      <4> HIDE DEF x
      <4>5. x \o d # <<>> /\ (x \o d)[1] = x[1] /\ Tail(x \o d) = Tail(x) \o d
        BY <4>2, <4>3, TailOfConcatenation
      <4>6. t \o frac = x \o d
        BY <3>1 DEF x, d
      <4> HIDE DEF t
      <4>7. QED
        BY <4>2, <4>4, <4>5, <4>6 DEF d
    <3> HIDE DEF t, sign
    <3>3. Unsigned(t \o frac) = int \o frac /\ Sign(t \o frac) = -1
      BY <3>2 DEF Signed, Unsigned, Sign
    <3>4. QED
      BY <1>1, <2>1, <3>3 DEF abs
  <2>2. CASE ~ (n < 0)
    <3>1. t \o frac = int \o frac
      BY <1>4, <1>5, <2>2
    <3>2. Unsigned(t \o frac) = int \o frac /\ Sign(t \o frac) = 1
      BY <1>9, <3>1, DigitFirst
    <3>3. QED
      BY <1>1, <2>2, <3>2 DEF abs
  <2>3. QED
    BY <2>1, <2>2
<1> HIDE DEF t
<1>12. \A x : x \in ParseInteger(t \o frac) <=> x = Sign(t \o frac) * abs /\ x \in Machine
  <2>1. AllDigits(int \o frac)
    BY <1>9, DigitText
  <2>2. QED
    BY <1>9, <1>10, <1>11, <2>1, ParseIntegerValue
<1>13. QED
  BY <1>8, <1>11, <1>12, Zenon

-----------------------------------------------------------------------------
(***************************************************************************)
(* What becomes of a record.                                               *)
(***************************************************************************)

TransactionType == {TypeNamed[name] : name \in DOMAIN TypeNamed}

AnyMessage ==
  [ chrono_order : Int, transaction_type : TransactionType, client_id : Nat,
    transaction_id : Nat, amount : Int ]

(* m comes from the columns of raw.                                        *)
ReadFrom(m, raw) ==
  /\ raw # Unreadable
  /\ raw.client \in Seq(STRING) /\ raw.tx \in Seq(STRING)
  /\ m.client_id \in ParseUnsigned(raw.client, ClientBits)
  /\ m.transaction_id \in ParseUnsigned(raw.tx, TransactionBits)
  /\ m.amount \in FieldAmount(raw.amount)

LEMMA MessageType ==
  ASSUME NEW raw, IsRecord(raw), chrono_order \in Nat
  PROVE  /\ AtMostOne(Message(raw))
         /\ \A m \in Message(raw) :
              /\ m \in AnyMessage
              /\ m.chrono_order = chrono_order
              /\ ReadFrom(m, raw)
<1>1. ASSUME NEW m \in Message(raw)
      PROVE  /\ raw # Unreadable
             /\ raw.client \in Seq(STRING) /\ raw.tx \in Seq(STRING)
             /\ \E type \in FromStr(raw.type),
                   client \in ParseUnsigned(raw.client, ClientBits),
                   tx \in ParseUnsigned(raw.tx, TransactionBits),
                   amount \in FieldAmount(raw.amount) :
                  m = [ chrono_order |-> chrono_order, transaction_type |-> type,
                        client_id |-> client, transaction_id |-> tx, amount |-> amount ]
  <2>1. /\ Deserialized(raw) # {}
        /\ \E type \in FromStr(raw.type),
              client \in ParseUnsigned(raw.client, ClientBits),
              tx \in ParseUnsigned(raw.tx, TransactionBits),
              amount \in FieldAmount(raw.amount) :
             m = [ chrono_order |-> chrono_order, transaction_type |-> type,
                   client_id |-> client, transaction_id |-> tx, amount |-> amount ]
    BY <1>1 DEF Message, Deserialized
  <2>2. raw # Unreadable /\ \A column \in DOMAIN raw : raw[column] # Absent
    BY <2>1 DEF Deserialized
  <2>3. raw.client \in Seq(STRING) /\ raw.tx \in Seq(STRING)
    BY <2>2 DEF IsRecord
  <2>4. QED
    BY <2>1, <2>2, <2>3
<1>2. ASSUME NEW x, NEW y, x \in FromStr(raw.type), y \in FromStr(raw.type)
      PROVE  x = y /\ x \in TransactionType
  BY <1>2 DEF FromStr, TransactionType
<1>3. ASSUME NEW m \in Message(raw)
      PROVE  m \in AnyMessage /\ m.chrono_order = chrono_order /\ ReadFrom(m, raw)
  <2>1. PICK type \in FromStr(raw.type),
             client \in ParseUnsigned(raw.client, ClientBits),
             tx \in ParseUnsigned(raw.tx, TransactionBits),
             amount \in FieldAmount(raw.amount) :
          m = [ chrono_order |-> chrono_order, transaction_type |-> type,
                client_id |-> client, transaction_id |-> tx, amount |-> amount ]
    BY <1>1
  <2>2. client \in Nat /\ tx \in Nat
    <3>1. 2 ^ ClientBits \in Nat /\ 2 ^ TransactionBits \in Nat
      BY BitsAssumption, PowerOfTwo
    <3>2. /\ ParseUnsigned(raw.client, ClientBits) \subseteq 0 .. 2 ^ ClientBits - 1
          /\ ParseUnsigned(raw.tx, TransactionBits) \subseteq 0 .. 2 ^ TransactionBits - 1
      BY <1>1, BitsAssumption, ParseUnsignedType
    <3>3. QED
      BY <2>1, <3>1, <3>2
  <2>3. amount \in Int
    BY FieldAmountType, HalfType DEF Machine
  <2>4. type \in TransactionType
    BY <1>2
  <2>5. QED
    BY <1>1, <2>1, <2>2, <2>3, <2>4 DEF AnyMessage, ReadFrom
<1>4. ASSUME NEW m \in Message(raw), NEW n \in Message(raw) PROVE m = n
  <2>1. /\ AtMostOne(ParseUnsigned(raw.client, ClientBits))
        /\ AtMostOne(ParseUnsigned(raw.tx, TransactionBits))
        /\ AtMostOne(FieldAmount(raw.amount))
    BY <1>1, BitsAssumption, ParseUnsignedType, FieldAmountType
  <2>2. PICK t1 \in FromStr(raw.type),
             c1 \in ParseUnsigned(raw.client, ClientBits),
             x1 \in ParseUnsigned(raw.tx, TransactionBits),
             a1 \in FieldAmount(raw.amount) :
          m = [ chrono_order |-> chrono_order, transaction_type |-> t1,
                client_id |-> c1, transaction_id |-> x1, amount |-> a1 ]
    BY <1>1
  <2>3. PICK t2 \in FromStr(raw.type),
             c2 \in ParseUnsigned(raw.client, ClientBits),
             x2 \in ParseUnsigned(raw.tx, TransactionBits),
             a2 \in FieldAmount(raw.amount) :
          n = [ chrono_order |-> chrono_order, transaction_type |-> t2,
                client_id |-> c2, transaction_id |-> x2, amount |-> a2 ]
    BY <1>1
  <2>4. t1 = t2
    BY <1>2
  <2>5. c1 = c2 /\ x1 = x2 /\ a1 = a2
    BY <2>1, Zenon DEF AtMostOne
  <2>6. QED
    BY <2>2, <2>3, <2>4, <2>5, Zenon
<1>5. QED
  BY <1>3, <1>4 DEF AtMostOne

-----------------------------------------------------------------------------
(***************************************************************************)
(* The inductive invariant.                                                *)
(***************************************************************************)

(* The rows that were accepted.                                            *)
Yielded == {i \in DOMAIN results : results[i] # {}}

(* Every message is read from its row; chrono_order is what was yielded,   *)
(* and rows_parsed that, once the end was seen.                            *)
ReaderSound ==
  /\ file \in Files
  /\ results \in Seq(SUBSET AnyMessage)
  /\ Len(results) <= Len(file)
  /\ TypeOK
  /\ \A i \in 1 .. Len(results) : \A m \in results[i] : ReadFrom(m, file[i])
  /\ chrono_order = Cardinality(Yielded)
  /\ RowsAreNumbered

LEMMA YieldedFinite ==
  ASSUME ReaderSound
  PROVE  /\ Len(results) \in Nat /\ DOMAIN results = 1 .. Len(results)
         /\ IsFiniteSet(Yielded) /\ Yielded \subseteq 1 .. Len(results)
         /\ chrono_order \in Nat
<1>1. Len(results) \in Nat /\ DOMAIN results = 1 .. Len(results)
  BY DEF ReaderSound
<1>2. Yielded \subseteq 1 .. Len(results)
  BY <1>1 DEF Yielded
<1>3. IsFiniteSet(1 .. Len(results))
  BY <1>1, FS_Interval
<1>4. IsFiniteSet(Yielded)
  BY <1>2, <1>3, FS_Subset
<1>5. QED
  BY <1>1, <1>2, <1>4, FS_CardinalityType DEF ReaderSound

LEMMA ReaderInit == Init => ReaderSound
<1>1. SUFFICES ASSUME Init PROVE ReaderSound
  OBVIOUS
<1>2. /\ file \in Files /\ chrono_order = 0 /\ done = FALSE /\ rows_parsed = 0
      /\ results = <<>>
  BY <1>1 DEF Init
<1>3. Len(file) \in Nat
  BY <1>2, FilesAssumption
<1>4. results \in Seq(SUBSET AnyMessage) /\ Len(results) = 0 /\ DOMAIN results = {}
  BY <1>2
<1>5. Yielded = {} /\ Cardinality(Yielded) = 0
  BY <1>4, FS_EmptySet DEF Yielded
<1>6. TypeOK
  BY <1>2, <1>4 DEF TypeOK
<1>7. RowsAreNumbered
  BY <1>2, <1>4 DEF RowsAreNumbered
<1>8. QED
  BY <1>2, <1>3, <1>4, <1>5, <1>6, <1>7 DEF ReaderSound

LEMMA RecordStep ==
  ASSUME ReaderSound, NextRecord
  PROVE  ReaderSound'
<1> DEFINE k == Len(results) + 1
           message == Message(file[k])
<1>1. /\ results' = Append(results, message) /\ chrono_order' = NumberAfter(message)
      /\ ~ done /\ Len(results) < Len(file) /\ UNCHANGED <<file, done, rows_parsed>>
  BY DEF NextRecord
<1>2. /\ Len(results) \in Nat /\ DOMAIN results = 1 .. Len(results)
      /\ IsFiniteSet(Yielded) /\ Yielded \subseteq 1 .. Len(results)
      /\ chrono_order \in Nat /\ chrono_order = Cardinality(Yielded)
  BY YieldedFinite DEF ReaderSound
<1>3. Len(file) \in Nat /\ k \in 1 .. Len(file) /\ IsRecord(file[k])
  BY <1>1, <1>2, FilesAssumption DEF ReaderSound
<1>4. /\ AtMostOne(message) /\ message \subseteq AnyMessage
      /\ \A m \in message : m.chrono_order = chrono_order /\ ReadFrom(m, file[k])
  BY <1>2, <1>3, MessageType
<1> HIDE DEF message
<1>5. /\ results' \in Seq(SUBSET AnyMessage) /\ Len(results') = k
      /\ \A i \in 1 .. Len(results) : results'[i] = results[i]
      /\ results'[k] = message /\ DOMAIN results' = 1 .. k
  <2>1. results \in Seq(SUBSET AnyMessage) /\ message \in SUBSET AnyMessage
    BY <1>4 DEF ReaderSound
  <2>2. QED
    BY <1>1, <1>2, <2>1
<1>6. Yielded' = IF message = {} THEN Yielded ELSE Yielded \cup {k}
  BY <1>2, <1>5 DEF Yielded
<1>7. k \notin Yielded
  BY <1>2
<1>8. chrono_order' = Cardinality(Yielded') /\ chrono_order' >= chrono_order
      /\ chrono_order' \in Nat /\ (message # {} => chrono_order' = chrono_order + 1)
  <2>1. CASE message = {}
    BY <1>1, <1>2, <1>6, <2>1 DEF NumberAfter
  <2>2. CASE message # {}
    <3>1. Cardinality(Yielded \cup {k}) = Cardinality(Yielded) + 1
      BY <1>2, <1>7, FS_AddElement
    <3>2. QED
      BY <1>1, <1>2, <1>6, <2>2, <3>1 DEF NumberAfter
  <2>3. QED
    BY <2>1, <2>2
<1>9. TypeOK'
  <2>1. ASSUME NEW i \in 1 .. k
        PROVE  /\ Cardinality(results'[i]) <= 1
               /\ \A m \in results'[i] :
                    /\ m.chrono_order \in 0 .. chrono_order' - 1
                    /\ m.client_id \in 0 .. 2 ^ ClientBits - 1
                    /\ m.transaction_id \in 0 .. 2 ^ TransactionBits - 1
                    /\ m.amount \in Machine
    <3>1. CASE i \in 1 .. Len(results)
      <4>1. /\ Cardinality(results[i]) <= 1
            /\ \A m \in results[i] :
                 /\ m.chrono_order \in 0 .. chrono_order - 1
                 /\ m.client_id \in 0 .. 2 ^ ClientBits - 1
                 /\ m.transaction_id \in 0 .. 2 ^ TransactionBits - 1
                 /\ m.amount \in Machine
        BY <1>2, <3>1 DEF ReaderSound, TypeOK
      <4>2. 0 .. chrono_order - 1 \subseteq 0 .. chrono_order' - 1
        BY <1>2, <1>8
      <4>3. results'[i] = results[i]
        BY <1>5, <3>1
      <4>4. QED
        BY <4>1, <4>2, <4>3
    <3>2. CASE i = k
      <4>1. Cardinality(message) <= 1
        BY <1>4, AtMostOneIsSmall
      <4>2. ASSUME NEW m \in message
            PROVE  /\ m.chrono_order \in 0 .. chrono_order' - 1
                   /\ m.client_id \in 0 .. 2 ^ ClientBits - 1
                   /\ m.transaction_id \in 0 .. 2 ^ TransactionBits - 1
                   /\ m.amount \in Machine
        <5>1. ReadFrom(m, file[k]) /\ m.chrono_order = chrono_order
          BY <1>4
        <5>2. m.chrono_order \in 0 .. chrono_order' - 1
          BY <1>2, <1>8, <5>1
        <5>3. /\ m.client_id \in 0 .. 2 ^ ClientBits - 1
              /\ m.transaction_id \in 0 .. 2 ^ TransactionBits - 1
          BY <5>1, BitsAssumption, ParseUnsignedType DEF ReadFrom
        <5>4. m.amount \in Machine
          BY <5>1, FieldAmountType DEF ReadFrom
        <5>5. QED
          BY <5>2, <5>3, <5>4
      <4>3. QED
        BY <1>5, <3>2, <4>1, <4>2
    <3>3. QED
      BY <1>2, <3>1, <3>2
  <2>2. done' \in BOOLEAN
    BY <1>1 DEF ReaderSound, TypeOK
  <2>3. QED
    BY <1>5, <2>1, <2>2 DEF TypeOK
<1>10. ASSUME NEW i \in 1 .. k, NEW m \in results'[i] PROVE ReadFrom(m, file'[i])
  <2>1. CASE i \in 1 .. Len(results)
    BY <1>1, <1>5, <1>10, <2>1 DEF ReaderSound
  <2>2. CASE i = k
    BY <1>1, <1>4, <1>5, <1>10, <2>2
  <2>3. QED
    BY <1>2, <2>1, <2>2
<1>11. RowsAreNumbered'
  <2>1. ASSUME NEW i \in Yielded', NEW m \in results'[i]
        PROVE  m.chrono_order = Cardinality({j \in Yielded' : j < i})
    <3>1. CASE i \in Yielded
      <4>1. {j \in Yielded' : j < i} = {j \in Yielded : j < i}
        BY <1>2, <1>6, <3>1
      <4>2. results'[i] = results[i]
        BY <1>2, <1>5, <3>1
      <4>3. \A x \in Yielded : \A y \in results[x] :
              y.chrono_order = Cardinality({j \in Yielded : j < x})
        BY DEF ReaderSound, RowsAreNumbered, Yielded
      <4>4. QED
        BY <2>1, <3>1, <4>1, <4>2, <4>3
    <3>2. CASE i = k
      <4>1. {j \in Yielded' : j < i} = Yielded
        <5>1. \A j \in Yielded : j < k
          BY <1>2
        <5>2. ~ (k < k) /\ \A j \in Yielded' : j \in Yielded \/ j = k
          BY <1>2, <1>6
        <5>3. Yielded \subseteq Yielded'
          BY <1>6
        <5> HIDE DEF k
        <5>4. QED
          BY <3>2, <5>1, <5>2, <5>3
      <4>2. m.chrono_order = chrono_order
        BY <1>4, <1>5, <2>1, <3>2
      <4>3. QED
        BY <1>2, <4>1, <4>2
    <3>3. QED
      BY <1>6, <3>1, <3>2
  <2>2. rows_parsed' = IF done' THEN Cardinality(Yielded') ELSE 0
    BY <1>1 DEF ReaderSound, RowsAreNumbered
  <2>3. QED
    BY <2>1, <2>2 DEF RowsAreNumbered, Yielded
<1>12. file' \in Files /\ Len(results') <= Len(file')
  BY <1>1, <1>3, <1>5 DEF ReaderSound
<1>13. QED
  BY <1>5, <1>8, <1>9, <1>10, <1>11, <1>12 DEF ReaderSound

LEMMA EndStep ==
  ASSUME ReaderSound, NextEnd
  PROVE  ReaderSound'
<1>1. /\ ~ done /\ done' = TRUE /\ rows_parsed' = rows_parsed + chrono_order
      /\ UNCHANGED <<file, chrono_order, results>>
  BY DEF NextEnd
<1>2. chrono_order \in Nat /\ chrono_order = Cardinality(Yielded)
  BY YieldedFinite DEF ReaderSound
<1>3. rows_parsed = 0
  BY <1>1 DEF ReaderSound, RowsAreNumbered
<1>4. rows_parsed' = Cardinality(Yielded) /\ Yielded' = Yielded
  BY <1>1, <1>2, <1>3 DEF Yielded
<1>5. RowsAreNumbered'
  BY <1>1, <1>4 DEF ReaderSound, RowsAreNumbered, Yielded
<1>6. TypeOK'
  BY <1>1 DEF ReaderSound, TypeOK
<1>7. QED
  BY <1>1, <1>4, <1>5, <1>6 DEF ReaderSound

(* The reader is sound in every reachable state.                           *)
THEOREM ReaderInvariance == Spec => []ReaderSound
<1>1. ASSUME ReaderSound, UNCHANGED vars PROVE ReaderSound'
  <2>1. UNCHANGED <<file, chrono_order, done, results, rows_parsed>>
    BY <1>1 DEF vars
  <2>2. TypeOK'
    BY <1>1, <2>1 DEF ReaderSound, TypeOK
  <2>3. RowsAreNumbered'
    BY <1>1, <2>1 DEF ReaderSound, RowsAreNumbered
  <2>4. Yielded' = Yielded
    BY <2>1 DEF Yielded
  <2>5. QED
    BY <1>1, <2>1, <2>2, <2>3, <2>4 DEF ReaderSound
<1>2. ReaderSound /\ [NextRecord \/ NextEnd \/ NextDone]_vars => ReaderSound'
  BY <1>1, RecordStep, EndStep DEF NextDone
<1>3. QED
  BY ReaderInit, <1>2, PTL DEF Spec

(* A call yields at most one message, and its identifiers and its amount   *)
(* fit, whatever the row says.                                             *)
THEOREM ReaderTypeCorrect == Spec => []TypeOK
<1>1. ReaderSound => TypeOK
  BY DEF ReaderSound
<1>2. QED
  BY <1>1, ReaderInvariance, PTL

(* Numbering has no gaps, and rows_parsed counts what was yielded.         *)
THEOREM Numbering == Spec => []RowsAreNumbered
<1>1. ReaderSound => RowsAreNumbered
  BY DEF ReaderSound
<1>2. QED
  BY <1>1, ReaderInvariance, PTL

(* No identifier is taken for another: the numbers agree just when the     *)
(* texts do, up to a sign and leading zeros, at every width.               *)
THEOREM NoTwoIdentifiersMeet == Spec => []NoAliases
<1>1. ReaderSound => NoAliases
  <2>1. SUFFICES ASSUME ReaderSound,
                        NEW i \in DOMAIN results, NEW j \in DOMAIN results,
                        NEW m \in results[i], NEW n \in results[j]
                 PROVE  /\ m.client_id = n.client_id
                             <=> Stripped(file[i].client) = Stripped(file[j].client)
                        /\ m.transaction_id = n.transaction_id
                             <=> Stripped(file[i].tx) = Stripped(file[j].tx)
    BY DEF NoAliases
  <2>2. ReadFrom(m, file[i]) /\ ReadFrom(n, file[j])
    <3>1. DOMAIN results = 1 .. Len(results)
      BY <2>1, YieldedFinite
    <3>2. QED
      BY <2>1, <3>1 DEF ReaderSound
  <2>3. \A s, bits : \A x \in ParseUnsigned(s, bits) :
          x = Number(Unsigned(s)) /\ AllDigits(Unsigned(s))
    BY DEF ParseUnsigned
  <2>4. /\ file[i].client \in Seq(STRING) /\ file[j].client \in Seq(STRING)
        /\ AllDigits(Unsigned(file[i].client)) /\ AllDigits(Unsigned(file[j].client))
        /\ m.client_id = Number(Unsigned(file[i].client))
        /\ n.client_id = Number(Unsigned(file[j].client))
    BY <2>2, <2>3 DEF ReadFrom
  <2>5. /\ file[i].tx \in Seq(STRING) /\ file[j].tx \in Seq(STRING)
        /\ AllDigits(Unsigned(file[i].tx)) /\ AllDigits(Unsigned(file[j].tx))
        /\ m.transaction_id = Number(Unsigned(file[i].tx))
        /\ n.transaction_id = Number(Unsigned(file[j].tx))
    BY <2>2, <2>3 DEF ReadFrom
  <2>6. QED
    BY <2>4, <2>5, SameNumber
<1>2. QED
  BY <1>1, ReaderInvariance, PTL

-----------------------------------------------------------------------------
(***************************************************************************)
(* Amounts.                                                                *)
(***************************************************************************)

(* The columns of raw other than its amount are in order.                  *)
OthersInOrder(raw) ==
  /\ Deserialized(raw) # {}
  /\ FromStr(raw.type) # {}
  /\ ParseUnsigned(raw.client, ClientBits) # {}
  /\ ParseUnsigned(raw.tx, TransactionBits) # {}

(* Then whether there is a message, and with which amount, is decided by   *)
(* the column of the amount alone.                                         *)
LEMMA AmountOfMessage ==
  ASSUME NEW raw, OthersInOrder(raw)
  PROVE  {m.amount : m \in Message(raw)} = FieldAmount(raw.amount)
<1>1. PICK t \in FromStr(raw.type),
           c \in ParseUnsigned(raw.client, ClientBits),
           x \in ParseUnsigned(raw.tx, TransactionBits) : TRUE
  BY DEF OthersInOrder
<1>2. raw \in Deserialized(raw)
  BY DEF OthersInOrder, Deserialized
<1>3. ASSUME NEW a \in FieldAmount(raw.amount)
      PROVE  \E m \in Message(raw) : m.amount = a
  <2> DEFINE m == [ chrono_order |-> chrono_order, transaction_type |-> t,
                    client_id |-> c, transaction_id |-> x, amount |-> a ]
  <2>1. m \in Message(raw)
    <3> DEFINE Messages(r) ==
                 { [ chrono_order |-> chrono_order, transaction_type |-> type,
                     client_id |-> client, transaction_id |-> tx, amount |-> amount ] :
                     type \in FromStr(r.type),
                     client \in ParseUnsigned(r.client, ClientBits),
                     tx \in ParseUnsigned(r.tx, TransactionBits),
                     amount \in FieldAmount(r.amount) }
    <3>1. m \in Messages(raw)
      BY <1>1
    <3>2. Message(raw) = UNION {Messages(r) : r \in Deserialized(raw)}
      BY DEF Message
    <3> HIDE DEF m, Messages
    <3>3. QED
      BY <1>2, <3>1, <3>2
  <2>2. m.amount = a
    OBVIOUS
  <2> HIDE DEF m
  <2>3. QED
    BY <2>1, <2>2
<1>4. ASSUME NEW m \in Message(raw)
      PROVE  m.amount \in FieldAmount(raw.amount)
  BY DEF Message, Deserialized
<1>5. QED
  BY <1>3, <1>4

(* Every row so far was read as its own columns say.                       *)
AmountsAreRead ==
  \A i \in 1 .. Len(results) :
    OthersInOrder(file[i]) => AmountOf(i) = FieldAmount(file[i].amount)

LEMMA AmountsInit == Init => AmountsAreRead
BY DEF Init, AmountsAreRead

LEMMA AmountsStep ==
  ASSUME ReaderSound, AmountsAreRead, [NextRecord \/ NextEnd \/ NextDone]_vars
  PROVE  AmountsAreRead'
<1>1. Len(results) \in Nat /\ results \in Seq(SUBSET AnyMessage)
  BY YieldedFinite DEF ReaderSound
<1>2. CASE NextRecord
  <2> DEFINE k == Len(results) + 1
             message == Message(file[k])
  <2>1. results' = Append(results, message) /\ file' = file /\ Len(results) < Len(file)
    BY <1>2 DEF NextRecord
  <2>2. Len(file) \in Nat /\ IsRecord(file[k])
    BY <1>1, <2>1, FilesAssumption DEF ReaderSound
  <2>3. message \in SUBSET AnyMessage
    BY <2>2, YieldedFinite, MessageType
  <2>4. OthersInOrder(file[k]) => {m.amount : m \in message} = FieldAmount(file[k].amount)
    BY AmountOfMessage
  <2> HIDE DEF message
  <2>5. /\ Len(results') = k /\ results'[k] = message
        /\ \A i \in 1 .. Len(results) : results'[i] = results[i]
    BY <1>1, <2>1, <2>3
  <2>6. ASSUME NEW i \in 1 .. k, OthersInOrder(file[i])
        PROVE  {m.amount : m \in results'[i]} = FieldAmount(file[i].amount)
    <3>1. CASE i = k
      BY <2>4, <2>5, <2>6, <3>1
    <3>2. CASE i \in 1 .. Len(results)
      BY <2>5, <2>6, <3>2 DEF AmountsAreRead, AmountOf
    <3>3. QED
      BY <1>1, <3>1, <3>2
  <2>7. QED
    BY <2>1, <2>5, <2>6 DEF AmountsAreRead, AmountOf, OthersInOrder
<1>3. CASE NextEnd \/ NextDone \/ UNCHANGED vars
  <2>1. UNCHANGED <<file, results>>
    BY <1>3 DEF NextEnd, NextDone, vars
  <2>2. QED
    BY <2>1 DEF AmountsAreRead, AmountOf, OthersInOrder
<1>4. QED
  BY <1>2, <1>3

LEMMA AmountsInvariance == Spec => []AmountsAreRead
<1>1. ReaderSound /\ AmountsAreRead /\ [NextRecord \/ NextEnd \/ NextDone]_vars
        => AmountsAreRead'
  BY AmountsStep
<1>2. QED
  BY AmountsInit, <1>1, ReaderInvariance, PTL DEF Spec

(* The amount of a row whose amount is a numeral.                          *)
LEMMA NumeralIsRead ==
  ASSUME ReaderSound, AmountsAreRead, NEW i \in Numerals,
         OverflowChecks \/ Point(file[i].amount) # 0
  PROVE  AmountOf(i) = {Scaled(file[i].amount)} \cap Machine
<1> DEFINE raw == file[i]
           s == raw.amount
<1>1. i \in 1 .. Len(results) /\ i \in 1 .. Len(file) /\ Len(file) \in Nat
  BY YieldedFinite, FilesAssumption DEF ReaderSound, Numerals
<1>2. IsRecord(raw) /\ IsNumeral(s) /\ OthersInOrder(raw)
  BY <1>1, FilesAssumption DEF ReaderSound, Numerals, Identified, OthersInOrder
<1>3. raw # Unreadable /\ \A column \in DOMAIN raw : raw[column] # Absent
  BY <1>2 DEF OthersInOrder, Deserialized
<1>4. s \in Seq(STRING)
  BY <1>2, <1>3 DEF IsRecord
<1>5. AmountOf(i) = FieldAmount(s)
  BY <1>1, <1>2 DEF AmountsAreRead
<1> HIDE DEF raw, s
<1>6. s # <<>> /\ \A x : x \in Parse(s) <=> x = Scaled(s) /\ x \in Machine
  BY <1>2, <1>4, ParseOfNumeral DEF raw, s
<1>7. \A x : x \in AmountOf(i) <=> x = Scaled(s) /\ x \in Machine
  BY <1>5, <1>6 DEF FieldAmount
<1>8. AmountOf(i) = {Scaled(s)} \cap Machine
  BY <1>7
<1>9. QED
  BY <1>8 DEF raw, s

(* Every numeral is read exactly, or refused because it does not fit, when *)
(* the build checks arithmetic: for every text, number of decimals and     *)
(* width.  (Without the checks the product may wrap: StoresScaledValue.)   *)
THEOREM AmountsAreExact == OverflowChecks => (Spec => []NumeralsAreExact)
<1>1. ReaderSound /\ AmountsAreRead /\ OverflowChecks => NumeralsAreExact
  BY NumeralIsRead DEF NumeralsAreExact
<1>2. SUFFICES ASSUME OverflowChecks PROVE Spec => []NumeralsAreExact
  OBVIOUS
<1>3. ReaderSound /\ AmountsAreRead => NumeralsAreExact
  BY <1>1, <1>2
<1>4. QED
  BY <1>3, ReaderInvariance, AmountsInvariance, PTL

(* With a point a numeral is read exactly in every build: its digits are   *)
(* put together before they are parsed, and nothing is multiplied.         *)
PointedNumeralsAreExact ==
  \A i \in Numerals :
    Point(file[i].amount) # 0 => AmountOf(i) = {Scaled(file[i].amount)} \cap Machine

THEOREM PointedAmountsAreExact == Spec => []PointedNumeralsAreExact
<1>1. ReaderSound /\ AmountsAreRead => PointedNumeralsAreExact
  BY NumeralIsRead DEF PointedNumeralsAreExact
<1>2. QED
  BY <1>1, ReaderInvariance, AmountsInvariance, PTL

(* What was read can be printed and read again without a change, in every  *)
(* build and for every amount that fits.                                   *)
THEOREM AmountsSurviveRoundTrip == Spec => []RoundTrip
<1>1. TypeOK => RoundTrip
  <2>1. SUFFICES ASSUME TypeOK, NEW i \in DOMAIN results, NEW n \in AmountOf(i)
                 PROVE  Parse(Display(n)) = {n}
    BY DEF RoundTrip
  <2>2. n \in Machine
    BY <2>1 DEF TypeOK, AmountOf
  <2>3. \A x : x \in Parse(Display(n)) <=> x = n
    BY <2>2, ParseOfDisplay
  <2>4. QED
    BY <2>3
<1>2. QED
  BY <1>1, ReaderTypeCorrect, PTL

=============================================================================
