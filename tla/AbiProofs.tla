------------------------------ MODULE AbiProofs ------------------------------
(***************************************************************************)
(* Theorems of Abi.tla, for bytes of any number of values, words and       *)
(* buffers of any length, and any selectors, numbers and strings.          *)
(***************************************************************************)
EXTENDS Abi, TLAPS, FiniteSetTheorems, WellFoundedInduction

(* Arithmetic.                                                             *)

\* A set of naturals that is not empty has a least element.
LEMMA LeastElement ==
  ASSUME NEW S \in SUBSET Nat, S # {}
  PROVE  \E m \in S : \A k \in S : m <= k
<1>1. PICK m \in S : \A k \in S : ~(<<k, m>> \in OpToRel(<, Nat))
  BY WFMin, NatLessThanWellFounded
<1>2. \A k \in S : ~(k < m)
  BY <1>1 DEF OpToRel
<1>. QED
  BY <1>2

\* What holds of 0, and of n + 1 with n, holds up to m.
LEMMA UpTo ==
  ASSUME NEW m \in Nat, NEW S, 0 \in S, \A n \in 0..(m - 1) : n \in S => n + 1 \in S
  PROVE  \A n \in 0..m : n \in S
<1>. DEFINE Not == {n \in 0..m : n \notin S}
<1>. SUFFICES ASSUME Not # {} PROVE FALSE
  OBVIOUS
<1>1. PICK n \in Not : \A k \in Not : n <= k
  <2>1. Not \in SUBSET Nat
    OBVIOUS
  <2>. HIDE DEF Not
  <2>. QED
    BY <2>1, LeastElement
<1>2. n # 0 /\ n \notin S /\ n \in 0..m
  BY <1>1
<1>3. n - 1 \in 0..(m - 1) /\ n - 1 \notin Not
  BY <1>1, <1>2
<1>4. n - 1 \in S
  BY <1>3
<1>. QED
  BY <1>2, <1>3, <1>4

LEMMA ProductType ==
  ASSUME NEW a \in Nat \ {0}, NEW b \in Nat \ {0}
  PROVE  a * b \in Nat \ {0}
OBVIOUS

\* The quotient and the rest are the ones there are.
LEMMA QuotientRest ==
  ASSUME NEW b \in Nat \ {0}, NEW q \in Nat, NEW r \in 0..(b - 1)
  PROVE  (q * b + r) \div b = q /\ (q * b + r) % b = r
OBVIOUS

\* A digit below another.
LEMMA Below ==
  ASSUME NEW b \in Nat \ {0}, NEW c \in Nat \ {0}, NEW q \in 0..(c - 1), NEW r \in 0..(b - 1)
  PROVE  q * b + r \in 0..(c * b - 1)
<1>1. q * b + r \in Nat
  OBVIOUS
<1>2. q * b + b <= c * b
  <2>1. (q + 1) * b <= c * b
    OBVIOUS
  <2>. QED
    BY <2>1
<1>. QED
  BY <1>1, <1>2, ProductType

-----------------------------------------------------------------------------
(* Numbers and their bytes.                                                *)

\* The recursive function is what its equation says: a function satisfies it
\* up to any index, extended by one at a time.
LEMMA PowerDef ==
  \A n \in 0..U256Length : Power[n] = IF n = 0 THEN 1 ELSE Base * Power[n - 1]
<1>. DEFINE To(f, m) == f = [n \in 0..m |-> IF n = 0 THEN 1 ELSE Base * f[n - 1]]
            S == {m \in 0..U256Length : \E f : To(f, m)}
<1>1. 0 \in S
  <2>1. To([n \in 0..0 |-> 1], 0)
    OBVIOUS
  <2>. HIDE DEF To
  <2>. QED
    BY <2>1, WordAssumption
<1>2. ASSUME NEW m \in 0..(U256Length - 1), m \in S PROVE m + 1 \in S
  <2>1. PICK f : To(f, m)
    BY <1>2
  <2>. DEFINE g == [n \in 0..(m + 1) |-> IF n = m + 1 THEN Base * f[n - 1] ELSE f[n]]
  <2>2. To(g, m + 1)
    BY <2>1
  <2>. HIDE DEF To
  <2>. QED
    BY <2>2, WordAssumption
<1>. HIDE DEF To
<1>3. \E f : To(f, U256Length)
  <2>. HIDE DEF S
  <2>1. U256Length \in S
    BY <1>1, <1>2, UpTo, WordAssumption
  <2>. QED
    BY <2>1 DEF S
<1>4. Power = CHOOSE f : To(f, U256Length)
  BY DEF Power, To
<1>5. To(Power, U256Length)
  BY <1>3, <1>4
<1>. DEFINE g == [n \in 0..U256Length |-> IF n = 0 THEN 1 ELSE Base * Power[n - 1]]
<1>6. Power = g
  BY <1>5 DEF To
<1>7. \A n \in 0..U256Length : g[n] = IF n = 0 THEN 1 ELSE Base * Power[n - 1]
  OBVIOUS
<1>. HIDE DEF g
<1>. QED
  BY <1>6, <1>7

LEMMA WordFacts ==
  /\ Base \in Nat \ {0} /\ Base > 1
  /\ U256Length \in Nat \ {0} /\ SizeLength \in 0..U256Length
BY WordAssumption

LEMMA PowerFacts ==
  /\ Power[0] = 1
  /\ \A n \in 0..(U256Length - 1) : Power[n + 1] = Base * Power[n]
  /\ \A n \in 0..U256Length : Power[n] \in Nat \ {0}
<1>. DEFINE S == {n \in 0..U256Length : Power[n] \in Nat \ {0}}
<1>1. Power[0] = 1 /\ \A n \in 0..(U256Length - 1) : Power[n + 1] = Base * Power[n]
  BY PowerDef, WordFacts
<1>2. 0 \in S
  BY <1>1, WordFacts
<1>3. ASSUME NEW n \in 0..(U256Length - 1), n \in S PROVE n + 1 \in S
  <2>1. Base * Power[n] \in Nat \ {0}
    BY <1>3, WordFacts, ProductType
  <2>. QED
    BY <1>1, <2>1, WordFacts
<1>. HIDE DEF S
<1>4. \A n \in 0..U256Length : n \in S
  BY <1>2, <1>3, UpTo, WordFacts
<1>. QED
  BY <1>1, <1>4 DEF S

LEMMA PowerRises ==
  ASSUME NEW n \in 0..U256Length
  PROVE  \A i \in 0..(U256Length - n) : Power[n] <= Power[n + i]
<1>. DEFINE S == {i \in 0..(U256Length - n) : Power[n] <= Power[n + i]}
<1>1. 0 \in S
  BY PowerFacts, WordFacts
<1>2. ASSUME NEW i \in 0..(U256Length - n - 1), i \in S PROVE i + 1 \in S
  <2>1. n + i \in 0..(U256Length - 1) /\ (n + i) + 1 = n + (i + 1)
    BY WordFacts
  <2>2. Power[n + (i + 1)] = Base * Power[n + i] /\ Power[n + i] \in Nat \ {0} /\ Power[n] \in Nat
    BY <2>1, PowerFacts, WordFacts
  <2>3. ASSUME NEW p \in Nat \ {0} PROVE p <= Base * p
    BY WordFacts
  <2>4. Power[n + i] <= Power[n + (i + 1)]
    BY <2>2, <2>3
  <2>5. Power[n] <= Power[n + (i + 1)]
    <3>1. Power[n] <= Power[n + i] /\ Power[n + (i + 1)] \in Nat
      BY <1>2, <2>1, PowerFacts, WordFacts
    <3>. QED
      BY <2>2, <2>4, <3>1
  <2>. QED
    BY <2>5, WordFacts
<1>. HIDE DEF S
<1>3. \A i \in 0..(U256Length - n) : i \in S
  BY <1>1, <1>2, UpTo, WordFacts
<1>. QED
  BY <1>3 DEF S

LEMMA PowerOrder ==
  ASSUME NEW n \in 0..U256Length, NEW i \in n..U256Length
  PROVE  Power[n] <= Power[i]
<1>1. i - n \in 0..(U256Length - n) /\ n + (i - n) = i
  BY WordFacts
<1>. QED
  BY <1>1, PowerRises

\* Every number is a quotient and a rest.
LEMMA Divides ==
  ASSUME NEW v \in Nat, NEW b \in Nat \ {0}
  PROVE  /\ v \div b \in Nat /\ v % b \in 0..(b - 1) /\ v = (v \div b) * b + (v % b)
         /\ v < b <=> v \div b = 0
OBVIOUS

LEMMA QuotientTwice ==
  ASSUME NEW v \in Nat, NEW a \in Nat \ {0}, NEW b \in Nat \ {0}
  PROVE  v \div (b * a) = (v \div a) \div b
<1>. DEFINE q == v \div a
            r == v % a
            p == q \div b
            s == q % b
<1>1. q \in Nat /\ r \in 0..(a - 1) /\ v = q * a + r
  BY Divides
<1>2. p \in Nat /\ s \in 0..(b - 1) /\ q = p * b + s
  <2>. HIDE DEF q
  <2>. QED
    BY <1>1, Divides
<1>. HIDE DEF q, r, p, s
<1>3. b * a \in Nat \ {0} /\ s * a + r \in 0..(b * a - 1)
  BY <1>1, <1>2, ProductType, Below
<1>4. v = p * (b * a) + (s * a + r)
  <2>1. (p * b + s) * a = p * (b * a) + s * a
    BY <1>2
  <2>. QED
    BY <1>1, <1>2, <2>1
<1>5. (p * (b * a) + (s * a + r)) \div (b * a) = p
  <2>. DEFINE c == b * a
              t == s * a + r
  <2>. HIDE DEF c, t
  <2>1. (p * c + t) \div c = p
    BY <1>2, <1>3, QuotientRest DEF c, t
  <2>. QED
    BY <2>1 DEF c, t
<1>. QED
  BY <1>4, <1>5 DEF q, p

LEMMA DigitFacts ==
  ASSUME NEW v \in Nat, NEW i \in 0..(U256Length - 1)
  PROVE  /\ Digit(v, i) \in Byte
         /\ v \div Power[i] \in Nat /\ v \div Power[i + 1] \in Nat
         /\ v \div Power[i] = (v \div Power[i + 1]) * Base + Digit(v, i)
<1>1. Power[i] \in Nat \ {0} /\ Power[i + 1] = Base * Power[i]
  BY PowerFacts, WordFacts
<1>2. v \div Power[i] \in Nat
  BY <1>1, Divides
<1>3. v \div Power[i + 1] = (v \div Power[i]) \div Base
  BY <1>1, QuotientTwice, WordFacts
<1>. DEFINE q == v \div Power[i]
<1>4. q \div Base \in Nat /\ q % Base \in 0..(Base - 1) /\ q = (q \div Base) * Base + (q % Base)
  <2>. HIDE DEF q
  <2>. QED
    BY <1>2, Divides, WordFacts DEF q
<1>. QED
  BY <1>2, <1>3, <1>4 DEF Digit, Byte

\* A number fits in n bytes exactly if the bytes above are zero.
LEMMA FitsIff ==
  ASSUME NEW v \in 0..(Power[U256Length] - 1), NEW n \in 0..U256Length
  PROVE  v < Power[n] <=> \A i \in n..(U256Length - 1) : Digit(v, i) = 0
<1>0. v \in Nat /\ \A i \in 0..U256Length : Power[i] \in Nat \ {0}
  BY PowerFacts, WordFacts
<1>1. ASSUME v < Power[n], NEW i \in n..(U256Length - 1) PROVE Digit(v, i) = 0
  <2>1. Power[n] <= Power[i] /\ i \in 0..U256Length
    BY PowerOrder, WordFacts
  <2>2. v < Power[i]
    BY <1>0, <1>1, <2>1
  <2>3. v \div Power[i] = 0
    BY <1>0, <2>1, <2>2, Divides
  <2>4. 0 % Base = 0
    BY WordFacts
  <2>. QED
    BY <2>3, <2>4 DEF Digit
<1>2. ASSUME \A i \in n..(U256Length - 1) : Digit(v, i) = 0 PROVE v < Power[n]
  <2>. DEFINE S == {d \in 0..(U256Length - n) : v < Power[U256Length - d]}
  <2>1. 0 \in S
    BY <1>0, WordFacts
  <2>2. ASSUME NEW d \in 0..(U256Length - n - 1), d \in S PROVE d + 1 \in S
    <3>. DEFINE i == U256Length - (d + 1)
    <3>1. i \in n..(U256Length - 1) /\ i \in 0..(U256Length - 1) /\ i + 1 = U256Length - d
      BY WordFacts
    <3>. HIDE DEF i
    <3>2. v < Power[i + 1]
      BY <2>2, <3>1
    <3>3. v \div Power[i + 1] = 0
      BY <1>0, <3>1, <3>2, Divides, WordFacts
    <3>4. v \div Power[i] = 0
      <4>1. v \div Power[i] = 0 * Base + 0
        BY <1>0, <1>2, <3>1, <3>3, DigitFacts
      <4>. QED
        BY <4>1, WordFacts
    <3>5. v < Power[i]
      <4>1. Power[i] \in Nat \ {0}
        BY <1>0, <3>1, WordFacts
      <4>. QED
        BY <1>0, <3>4, <4>1, Divides
    <3>. QED
      BY <3>5, WordFacts DEF i
  <2>. HIDE DEF S
  <2>3. U256Length - n \in Nat
    BY WordFacts
  <2>4. \A d \in 0..(U256Length - n) : d \in S
    BY <2>1, <2>2, <2>3, UpTo
  <2>5. U256Length - n \in S /\ U256Length - (U256Length - n) = n
    BY <2>3, <2>4, WordFacts
  <2>. QED
    BY <2>5 DEF S
<1>. QED
  BY <1>1, <1>2

LEMMA ZeroIsByte == 0 \in Byte /\ Old \notin Byte
BY WordFacts DEF Byte, Old

\* Both encoders make the same word of a number.
LEMMA EncodedIs ==
  ASSUME NEW n \in 0..U256Length, NEW v \in 0..(Power[n] - 1)
  PROVE  /\ encode_uint(n, v) = BigEndian(U256Length, v)
         /\ encode_uint_nn(n, BigEndian(n, v)) = BigEndian(U256Length, v)
<1>1. v \in 0..(Power[U256Length] - 1) /\ v < Power[n]
  BY PowerFacts, PowerOrder, WordFacts
<1>2. \A i \in n..(U256Length - 1) : Digit(v, i) = 0
  BY <1>1, FitsIff
<1>3. ASSUME NEW i \in Word
      PROVE  /\ encode_uint(n, v)[i] = Digit(v, U256Length - 1 - i)
             /\ encode_uint_nn(n, BigEndian(n, v))[i] = Digit(v, U256Length - 1 - i)
  <2>0. U256Length - 1 - i \in 0..(U256Length - 1)
    BY WordFacts DEF Word
  <2>1. CASE U256Length - 1 - i < n
    <3>1. U256Length - 1 - i \in 0..(n - 1)
      BY <2>0, <2>1
    <3>2. encode_uint(n, v)[i] = Digit(v, U256Length - 1 - i)
      BY <2>1, <3>1 DEF encode_uint, encode_uint_nr, LittleEndian
    <3>3. ~(i < U256Length - n) /\ i - U256Length + n \in 0..(n - 1)
          /\ n - 1 - (i - U256Length + n) = U256Length - 1 - i
      BY <2>1, WordFacts DEF Word
    <3>4. encode_uint_nn(n, BigEndian(n, v))[i] = BigEndian(n, v)[i - U256Length + n]
      BY <3>3 DEF encode_uint_nn
    <3>5. BigEndian(n, v)[i - U256Length + n] = Digit(v, n - 1 - (i - U256Length + n))
      BY <3>3 DEF BigEndian
    <3>. QED
      BY <3>2, <3>3, <3>4, <3>5
  <2>2. CASE ~(U256Length - 1 - i < n)
    <3>1. i < U256Length - n /\ U256Length - 1 - i \in n..(U256Length - 1)
      BY <2>0, <2>2, WordFacts DEF Word
    <3>2. Digit(v, U256Length - 1 - i) = 0
      BY <1>2, <3>1
    <3>. QED
      BY <2>2, <3>1, <3>2 DEF encode_uint, encode_uint_nr, encode_uint_nn
  <2>. QED
    BY <2>1, <2>2
<1>4. /\ encode_uint(n, v) = [i \in Word |-> encode_uint(n, v)[i]]
      /\ encode_uint_nn(n, BigEndian(n, v)) = [i \in Word |-> encode_uint_nn(n, BigEndian(n, v))[i]]
  BY DEF encode_uint, encode_uint_nr, encode_uint_nn
<1>5. BigEndian(U256Length, v) = [i \in Word |-> Digit(v, U256Length - 1 - i)]
  BY DEF BigEndian, Word
<1>. QED
  BY <1>3, <1>4, <1>5

LEMMA BigEndianFacts ==
  ASSUME NEW v \in Nat
  PROVE  BigEndian(U256Length, v) \in [Word -> Byte]
<1>1. ASSUME NEW i \in Word PROVE Digit(v, U256Length - 1 - i) \in Byte
  <2>1. U256Length - 1 - i \in 0..(U256Length - 1)
    BY WordFacts DEF Word
  <2>. QED
    BY <2>1, DigitFacts
<1>. QED
  BY <1>1 DEF BigEndian, Word

\* What the decoders make of the word of a number.
LEMMA DecodedIs ==
  ASSUME NEW v \in 0..(Power[U256Length] - 1), NEW n \in 0..U256Length
  PROVE  LET word == BigEndian(U256Length, v)
             fits == v < Power[n]
         IN  /\ decode_uint_nr(word, n) = IF fits THEN OK(LittleEndian(n, v)) ELSE EDOM
             /\ decode_uint_nn(word, n) = IF fits THEN OK(BigEndian(n, v)) ELSE EDOM
<1>. DEFINE word == BigEndian(U256Length, v)
<1>1. \A i \in Word : word[i] = Digit(v, U256Length - 1 - i)
  BY DEF BigEndian, Word
<1>. HIDE DEF word
<1>2. TooLarge(word, n) <=> ~(v < Power[n])
  <2>1. ASSUME NEW i \in n..(U256Length - 1)
        PROVE  /\ U256Length - 1 - i \in 0..(U256Length - n - 1)
               /\ word[U256Length - 1 - i] = Digit(v, i)
    <3>1. U256Length - 1 - i \in 0..(U256Length - n - 1) /\ U256Length - 1 - i \in Word
          /\ U256Length - 1 - (U256Length - 1 - i) = i
      BY WordFacts DEF Word
    <3>. QED
      BY <1>1, <3>1
  <2>2. ASSUME NEW i \in 0..(U256Length - n - 1)
        PROVE  /\ U256Length - 1 - i \in n..(U256Length - 1)
               /\ word[i] = Digit(v, U256Length - 1 - i)
    <3>1. U256Length - 1 - i \in n..(U256Length - 1) /\ i \in Word
      BY WordFacts DEF Word
    <3>. QED
      BY <1>1, <3>1
  <2>3. TooLarge(word, n) <=> \E i \in n..(U256Length - 1) : Digit(v, i) # 0
    BY <2>1, <2>2 DEF TooLarge
  <2>. QED
    BY <2>3, FitsIff
<1>3. [i \in 0..(n - 1) |-> word[U256Length - 1 - i]] = LittleEndian(n, v)
  <2>1. ASSUME NEW i \in 0..(n - 1) PROVE word[U256Length - 1 - i] = Digit(v, i)
    <3>1. U256Length - 1 - i \in Word /\ U256Length - 1 - (U256Length - 1 - i) = i
      BY WordFacts DEF Word
    <3>. QED
      BY <1>1, <3>1
  <2>. QED
    BY <2>1 DEF LittleEndian
<1>4. [i \in 0..(n - 1) |-> word[i + U256Length - n]] = BigEndian(n, v)
  <2>1. ASSUME NEW i \in 0..(n - 1) PROVE word[i + U256Length - n] = Digit(v, n - 1 - i)
    <3>1. i + U256Length - n \in Word /\ U256Length - 1 - (i + U256Length - n) = n - 1 - i
      BY WordFacts DEF Word
    <3>. QED
      BY <1>1, <3>1
  <2>. QED
    BY <2>1 DEF BigEndian
<1>5. decode_uint_nr(word, n) = IF v < Power[n] THEN OK(LittleEndian(n, v)) ELSE EDOM
  BY <1>2, <1>3 DEF decode_uint_nr
<1>6. decode_uint_nn(word, n) = IF v < Power[n] THEN OK(BigEndian(n, v)) ELSE EDOM
  BY <1>2, <1>4 DEF decode_uint_nn
<1>. QED
  BY <1>5, <1>6 DEF word

\* The sum of the bytes of a number is the number.
LEMMA NumberIs ==
  ASSUME NEW n \in 0..U256Length, NEW v \in 0..(Power[n] - 1)
  PROVE  Number(OK(LittleEndian(n, v))) = OK(v)
<1>. DEFINE b == LittleEndian(n, v)
            To(f, m) == f = [i \in 0..m |-> IF i = 0 THEN 0 ELSE f[i - 1] + b[i - 1] * Power[i - 1]]
            S == {m \in 0..n : \E f : To(f, m)}
<1>1. 0 \in S
  <2>1. To([i \in 0..0 |-> 0], 0)
    OBVIOUS
  <2>. HIDE DEF To
  <2>. QED
    BY <2>1
<1>2. ASSUME NEW m \in 0..(n - 1), m \in S PROVE m + 1 \in S
  <2>1. PICK f : To(f, m)
    BY <1>2
  <2>. DEFINE g == [i \in 0..(m + 1) |-> IF i = m + 1 THEN f[i - 1] + b[i - 1] * Power[i - 1] ELSE f[i]]
  <2>. HIDE DEF b
  <2>2. To(g, m + 1)
    BY <2>1
  <2>. HIDE DEF To
  <2>. QED
    BY <2>2
<1>3. \E f : To(f, n)
  <2>. HIDE DEF S, To
  <2>1. n \in S
    BY <1>1, <1>2, UpTo
  <2>. QED
    BY <2>1 DEF S
<1>. DEFINE sum == CHOOSE f : To(f, n)
<1>4. Number(OK(b)) = OK(sum[n])
  <2>1. OK(b).rc = "OK" /\ OK(b).got = b
    BY DEF OK
  <2>2. DOMAIN b = 0..(n - 1)
    BY DEF LittleEndian
  <2>3. Cardinality(0..(n - 1)) = n
    BY FS_Interval
  <2>4. Cardinality(DOMAIN OK(b).got) = n
    BY <2>1, <2>2, <2>3
  <2>. HIDE DEF b
  <2>. QED
    BY <2>1, <2>4 DEF Number, To
<1>5. To(sum, n)
  <2>. HIDE DEF To
  <2>. QED
    BY <1>3
<1>. DEFINE equation == [i \in 0..n |-> IF i = 0 THEN 0 ELSE sum[i - 1] + b[i - 1] * Power[i - 1]]
<1>6. sum = equation
  BY <1>5 DEF To
<1>7. equation[0] = 0 /\ \A i \in 1..n : equation[i] = sum[i - 1] + b[i - 1] * Power[i - 1]
  OBVIOUS
<1>. HIDE DEF equation, sum
<1>8. sum[0] = 0 /\ \A i \in 0..(n - 1) : sum[i + 1] = sum[i] + Digit(v, i) * Power[i]
  <2>1. ASSUME NEW i \in 0..(n - 1) PROVE sum[i + 1] = sum[i] + Digit(v, i) * Power[i]
    <3>1. i + 1 \in 1..n /\ (i + 1) - 1 = i
      OBVIOUS
    <3>2. b[i] = Digit(v, i)
      BY DEF LittleEndian
    <3>. HIDE DEF b
    <3>. QED
      BY <1>6, <1>7, <3>1, <3>2
  <2>. QED
    BY <1>6, <1>7, <2>1
<1>. DEFINE T == {i \in 0..n : sum[i] \in Nat /\ sum[i] + (v \div Power[i]) * Power[i] = v}
<1>9. 0 \in T
  <2>1. v \in Nat /\ v \div 1 = v /\ v * 1 = v
    BY PowerFacts
  <2>. QED
    BY <1>8, <2>1, PowerFacts
<1>10. ASSUME NEW i \in 0..(n - 1), i \in T PROVE i + 1 \in T
  <2>. DEFINE p == Power[i]
              q == v \div Power[i]
              h == v \div Power[i + 1]
              d == Digit(v, i)
  <2>0. v \in Nat /\ i \in 0..(U256Length - 1)
    BY PowerFacts, WordFacts
  <2>1. p \in Nat \ {0} /\ Power[i + 1] = Base * p
    BY <2>0, PowerFacts, WordFacts
  <2>2. q \in Nat /\ h \in Nat /\ d \in Nat /\ q = h * Base + d
    BY <2>0, DigitFacts, WordFacts DEF Byte
  <2>3. sum[i + 1] = sum[i] + d * p /\ sum[i] \in Nat /\ sum[i] + q * p = v
    BY <1>8, <1>10
  <2>. HIDE DEF p, q, h, d
  <2>4. d * p \in Nat
    BY <2>1, <2>2
  <2>5. q * p = h * (Base * p) + d * p
    BY <2>1, <2>2, WordFacts
  <2>6. sum[i + 1] \in Nat
    BY <2>3, <2>4
  <2>7. h * (Base * p) \in Nat
    BY <2>1, <2>2, WordFacts, ProductType
  <2>8. sum[i + 1] + h * Power[i + 1] = v
    BY <2>1, <2>3, <2>4, <2>5, <2>7
  <2>. QED
    BY <2>6, <2>8 DEF h
<1>. HIDE DEF T
<1>11. n \in T
  BY <1>9, <1>10, UpTo
<1>12. v \div Power[n] = 0
  <2>1. v \in Nat /\ Power[n] \in Nat \ {0} /\ v < Power[n]
    BY PowerFacts
  <2>. QED
    BY <2>1, Divides
<1>13. sum[n] = v
  BY <1>11, <1>12, PowerFacts, WordFacts DEF T
<1>. QED
  BY <1>4, <1>13

-----------------------------------------------------------------------------
(* The inductive invariant.                                                *)

Value == 0..(Power[U256Length] - 1)
Items == [kind : {"funsel"}, at : {0}, value : Byte]
           \cup [kind : {"uint", "uint_be"}, at : Nat, value : Value]
           \cup [kind : {"bytes"}, at : Nat]
           \cup [kind : {"string"}, at : Nat, of : Nat, value : Seq(Byte)]

Extent(item) ==
  CASE item.kind = "funsel" -> FunselLength
    [] item.kind = "string" -> U256Length + align_forward(Len(item.value))
    [] OTHER -> U256Length

\* The items follow one another up to the cursor, and every string has a word
\* of its own for the offset.
LayoutInv ==
  /\ buf \in [0..(Size - 1) -> 0..Base]
  /\ put \in Seq(Items)
  /\ begin \in 0..Size /\ frame \in 0..begin
  /\ put = <<>> => begin = 0
  /\ \A i \in DOMAIN put : put[i].at + Extent(put[i]) <= begin
  /\ \A i, j \in DOMAIN put : i < j => put[i].at + Extent(put[i]) <= put[j].at
  /\ \A i \in DOMAIN put : put[i].kind = "string" =>
       \E k \in DOMAIN put : put[k].kind = "bytes" /\ put[k].at = put[i].of
  /\ \A i, j \in DOMAIN put :
       put[i].kind = "string" /\ put[j].kind = "string" /\ put[i].of = put[j].of => i = j

HoldsWord(b, at, v) == \A i \in Word : b[at + i] = BigEndian(U256Length, v)[i]

\* The bytes of an item are the encoding of what was put.
HoldsItem(b, f, item) ==
  /\ item.kind = "funsel" => b[0] = item.value
  /\ item.kind \in {"uint", "uint_be"} => HoldsWord(b, item.at, item.value)
  /\ item.kind = "string" =>
       /\ f <= item.at /\ HoldsWord(b, item.of, item.at - f)
       /\ HoldsWord(b, item.at, Len(item.value))
       /\ \A i \in 1..Len(item.value) : b[item.at + U256Length + i - 1] = item.value[i]

ContentsInv == \A i \in DOMAIN put : HoldsItem(buf, frame, put[i])

AbiInv == LayoutInv /\ ContentsInv /\ NoOldBytes

-----------------------------------------------------------------------------
(* A step appends an item, and may fill the word of one "bytes".           *)

LEMMA SizeFacts == Size \in Nat /\ Size < Power[SizeLength]
<1>1. Power[SizeLength] \in Nat
  BY PowerFacts, WordFacts
<1>. QED
  BY <1>1, SizeAssumption

LEMMA AlignFacts ==
  ASSUME NEW n \in Nat
  PROVE  align_forward(n) \in Nat /\ n <= align_forward(n)
<1>. DEFINE q == (n + U256Length - 1) \div U256Length
            r == (n + U256Length - 1) % U256Length
<1>1. n + U256Length - 1 \in Nat
  BY WordFacts
<1>2. q \in Nat /\ r \in 0..(U256Length - 1) /\ n + U256Length - 1 = q * U256Length + r
  <2>. DEFINE m == n + U256Length - 1
  <2>. HIDE DEF m
  <2>1. m \div U256Length \in Nat /\ m % U256Length \in 0..(U256Length - 1)
        /\ m = (m \div U256Length) * U256Length + (m % U256Length)
    BY <1>1, Divides, WordFacts DEF m
  <2>. QED
    BY <2>1 DEF m
<1>3. align_forward(n) = q * U256Length
  BY DEF align_forward
<1>. HIDE DEF q, r
<1>4. q * U256Length \in Nat
  BY <1>2, WordFacts
<1>. QED
  BY <1>2, <1>3, <1>4, WordFacts

LEMMA ItemFacts ==
  ASSUME NEW item \in Items
  PROVE  /\ item.kind \in {"funsel", "uint", "uint_be", "bytes", "string"}
         /\ item.at \in Nat /\ Extent(item) \in Nat
         /\ item.kind = "funsel" => item.at = 0 /\ item.value \in Byte /\ Extent(item) = FunselLength
         /\ item.kind \in {"uint", "uint_be"} => item.value \in Value
         /\ item.kind \in {"uint", "uint_be", "bytes"} => Extent(item) = U256Length
         /\ item.kind = "string" =>
              /\ item.of \in Nat /\ item.value \in Seq(Byte) /\ Len(item.value) \in Nat
              /\ Extent(item) = U256Length + align_forward(Len(item.value))
              /\ U256Length + Len(item.value) <= Extent(item)
<1>1. CASE item \in [kind : {"funsel"}, at : {0}, value : Byte]
  BY <1>1 DEF Extent, FunselLength
<1>2. CASE item \in [kind : {"uint", "uint_be"}, at : Nat, value : Value]
  BY <1>2, WordFacts DEF Extent
<1>3. CASE item \in [kind : {"bytes"}, at : Nat]
  BY <1>3, WordFacts DEF Extent
<1>4. CASE item \in [kind : {"string"}, at : Nat, of : Nat, value : Seq(Byte)]
  <2>1. item.kind = "string" /\ item.at \in Nat /\ item.of \in Nat /\ item.value \in Seq(Byte)
    BY <1>4
  <2>2. Len(item.value) \in Nat
    BY <2>1
  <2>3. align_forward(Len(item.value)) \in Nat /\ Len(item.value) <= align_forward(Len(item.value))
    BY <2>2, AlignFacts
  <2>4. Extent(item) = U256Length + align_forward(Len(item.value))
    BY <2>1 DEF Extent
  <2>. QED
    BY <2>1, <2>2, <2>3, <2>4, WordFacts
<1>. QED
  BY <1>1, <1>2, <1>3, <1>4 DEF Items

LEMMA WriteFacts ==
  ASSUME NEW b, NEW at, NEW bytes
  PROVE  /\ DOMAIN Write(b, at, bytes) = DOMAIN b
         /\ \A i \in DOMAIN b :
              Write(b, at, bytes)[i] = IF i - at \in DOMAIN bytes THEN bytes[i - at] ELSE b[i]
BY DEF Write

\* The items before keep their places when one follows them.
LEMMA AppendKeepsLayout ==
  ASSUME LayoutInv, NEW item \in Items,
         item.at = begin, begin + Extent(item) <= Size,
         buf' \in [0..(Size - 1) -> 0..Base],
         begin' = begin + Extent(item), frame' \in 0..begin',
         put' = Append(put, item),
         item.kind = "string" =>
           /\ \E k \in DOMAIN put : put[k].kind = "bytes" /\ put[k].at = item.of
           /\ \A i \in DOMAIN put : put[i].kind = "string" => put[i].of # item.of
  PROVE  LayoutInv'
<1>. DEFINE n == Len(put)
<1>1. put \in Seq(Items) /\ n \in Nat /\ DOMAIN put = 1..n
  BY DEF LayoutInv
<1>2. put' \in Seq(Items) /\ DOMAIN put' = 1..(n + 1)
  BY <1>1
<1>3. put'[n + 1] = item /\ \A i \in 1..n : put'[i] = put[i]
  BY <1>1
<1>4. put' # <<>>
  BY <1>1
<1>5. begin \in Nat /\ Extent(item) \in Nat /\ Size \in Nat
  BY ItemFacts, PowerFacts, SizeAssumption, WordFacts DEF LayoutInv
<1>6. begin' \in 0..Size /\ begin <= begin'
  BY <1>5
<1>7. \A i \in 1..n : put[i].at \in Nat /\ Extent(put[i]) \in Nat
  BY <1>1, ItemFacts
<1>8. \A i \in DOMAIN put' : put'[i].at + Extent(put'[i]) <= begin'
  <2>1. ASSUME NEW i \in 1..n PROVE put'[i].at + Extent(put'[i]) <= begin'
    <3>1. put[i].at + Extent(put[i]) <= begin
      BY <1>1 DEF LayoutInv
    <3>. QED
      BY <1>3, <1>5, <1>6, <1>7, <3>1
  <2>2. put'[n + 1].at + Extent(put'[n + 1]) <= begin'
    BY <1>3, <1>5
  <2>. HIDE DEF n
  <2>. QED
    BY <1>1, <1>2, <2>1, <2>2
<1>9. ASSUME NEW i \in DOMAIN put', NEW j \in DOMAIN put', i < j
      PROVE  put'[i].at + Extent(put'[i]) <= put'[j].at
  <2>1. i \in 1..n
    BY <1>1, <1>2, <1>9
  <2>2. CASE j = n + 1
    BY <1>1, <1>3, <2>1, <2>2 DEF LayoutInv
  <2>3. CASE j # n + 1
    <3>1. j \in 1..n
      BY <1>1, <1>2, <2>3
    <3>2. put[i].at + Extent(put[i]) <= put[j].at
      BY <1>1, <1>9, <2>1, <3>1 DEF LayoutInv
    <3>. HIDE DEF n
    <3>. QED
      BY <1>3, <2>1, <3>1, <3>2
  <2>. QED
    BY <2>2, <2>3
<1>. HIDE DEF n
<1>10. ASSUME NEW i \in DOMAIN put', put'[i].kind = "string"
       PROVE  \E k \in DOMAIN put' : put'[k].kind = "bytes" /\ put'[k].at = put'[i].of
  <2>1. PICK k \in 1..n : put[k].kind = "bytes" /\ put[k].at = put'[i].of
    <3>1. CASE i = n + 1
      BY <1>1, <1>3, <1>10, <3>1
    <3>2. CASE i \in 1..n
      BY <1>1, <1>3, <1>10, <3>2 DEF LayoutInv
    <3>. QED
      BY <1>1, <1>2, <3>1, <3>2
  <2>. QED
    BY <1>1, <1>2, <1>3, <2>1
<1>11. ASSUME NEW i \in DOMAIN put', NEW j \in DOMAIN put',
              put'[i].kind = "string", put'[j].kind = "string", put'[i].of = put'[j].of
       PROVE  i = j
  <2>1. CASE i \in 1..n /\ j \in 1..n
    BY <1>1, <1>3, <1>11, <2>1 DEF LayoutInv
  <2>2. CASE i = n + 1 \/ j = n + 1
    BY <1>1, <1>2, <1>3, <1>11, <2>2
  <2>. QED
    BY <1>1, <1>2, <2>1, <2>2
<1>. QED
  BY <1>2, <1>4, <1>6, <1>8, <1>9, <1>10, <1>11 DEF LayoutInv

\* Where a step writes: the rest of the buffer, and the word for the offset.
WordOf(item) == IF item.kind = "string" THEN item.of..(item.of + U256Length - 1) ELSE {}

LEMMA WordIsBefore ==
  ASSUME LayoutInv, NEW item \in Items,
         item.kind = "string" =>
           \E k \in DOMAIN put : put[k].kind = "bytes" /\ put[k].at = item.of
  PROVE  WordOf(item) \subseteq 0..(begin - 1)
<1>. SUFFICES ASSUME item.kind = "string" PROVE item.of..(item.of + U256Length - 1) \subseteq 0..(begin - 1)
  BY DEF WordOf
<1>1. PICK k \in DOMAIN put : put[k].kind = "bytes" /\ put[k].at = item.of
  OBVIOUS
<1>2. put[k] \in Items /\ put[k].at + Extent(put[k]) <= begin /\ begin \in Nat
  BY <1>1, SizeFacts DEF LayoutInv
<1>3. put[k].at + U256Length <= begin /\ put[k].at \in Nat
  BY <1>1, <1>2, ItemFacts
<1>. QED
  BY <1>1, <1>2, <1>3, WordFacts

\* The items before keep their bytes when none but the word is written.
LEMMA AppendKeepsItems ==
  ASSUME LayoutInv, NEW item \in Items, NEW b,
         item.kind = "string" =>
           /\ \E k \in DOMAIN put : put[k].kind = "bytes" /\ put[k].at = item.of
           /\ \A i \in DOMAIN put : put[i].kind = "string" => put[i].of # item.of,
         \A i \in 0..(begin - 1) : i \notin WordOf(item) => b[i] = buf[i],
         NEW i \in DOMAIN put, HoldsItem(buf, frame, put[i])
  PROVE  HoldsItem(b, frame, put[i])
<1>0. put[i] \in Items /\ i \in Nat /\ begin \in Nat /\ \A j \in DOMAIN put : put[j] \in Items /\ j \in Nat
  BY SizeAssumption DEF LayoutInv
<1>1. put[i].at \in Nat /\ Extent(put[i]) \in Nat /\ put[i].at + Extent(put[i]) <= begin
  BY <1>0, ItemFacts DEF LayoutInv
\* The items that are not set aside are clear of the word.
<1>2. ASSUME put[i].kind # "bytes", NEW a \in put[i].at..(put[i].at + Extent(put[i]) - 1)
      PROVE  a \notin WordOf(item)
  <2>. SUFFICES ASSUME item.kind = "string", a \in item.of..(item.of + U256Length - 1) PROVE FALSE
    BY DEF WordOf
  <2>1. PICK k \in DOMAIN put : put[k].kind = "bytes" /\ put[k].at = item.of
    OBVIOUS
  <2>2. k # i /\ Extent(put[k]) = U256Length /\ put[k].at \in Nat /\ k \in Nat
    BY <1>0, <1>2, <2>1, ItemFacts
  <2>3. CASE k < i
    <3>1. put[k].at + U256Length <= put[i].at
      BY <2>2, <2>3 DEF LayoutInv
    <3>. QED
      BY <1>1, <2>1, <2>2, <3>1, WordFacts
  <2>4. CASE i < k
    <3>1. put[i].at + Extent(put[i]) <= put[k].at
      BY <2>4 DEF LayoutInv
    <3>. QED
      BY <1>1, <2>1, <2>2, <3>1, WordFacts
  <2>. QED
    BY <1>0, <2>2, <2>3, <2>4
<1>3. ASSUME put[i].kind # "bytes", NEW a \in put[i].at..(put[i].at + Extent(put[i]) - 1)
      PROVE  b[a] = buf[a]
  <2>1. a \in 0..(begin - 1)
    BY <1>0, <1>1
  <2>. QED
    BY <1>2, <1>3, <2>1
<1>4. CASE put[i].kind = "funsel"
  <2>1. put[i].at = 0 /\ Extent(put[i]) = FunselLength
    BY <1>0, <1>4, ItemFacts
  <2>2. b[0] = buf[0]
    BY <1>3, <1>4, <2>1 DEF FunselLength
  <2>. QED
    BY <1>4, <2>2 DEF HoldsItem
<1>5. CASE put[i].kind \in {"uint", "uint_be"}
  <2>1. Extent(put[i]) = U256Length
    BY <1>0, <1>5, ItemFacts
  <2>2. \A j \in Word : b[put[i].at + j] = buf[put[i].at + j]
    BY <1>1, <1>3, <1>5, <2>1, WordFacts DEF Word
  <2>. QED
    BY <1>5, <2>2 DEF HoldsItem, HoldsWord
<1>6. CASE put[i].kind = "string"
  <2>1. /\ U256Length + Len(put[i].value) <= Extent(put[i]) /\ Len(put[i].value) \in Nat
        /\ put[i].of \in Nat
    BY <1>0, <1>6, ItemFacts
  <2>2. ASSUME NEW j \in Word PROVE b[put[i].at + j] = buf[put[i].at + j]
    <3>1. \A at, e, l \in Nat : U256Length + l <= e => at + j \in at..(at + e - 1)
      BY WordFacts DEF Word
    <3>2. put[i].at + j \in put[i].at..(put[i].at + Extent(put[i]) - 1)
      BY <1>1, <2>1, <3>1
    <3>. QED
      BY <1>3, <1>6, <3>2
  <2>3. ASSUME NEW j \in 1..Len(put[i].value)
        PROVE  b[put[i].at + U256Length + j - 1] = buf[put[i].at + U256Length + j - 1]
    <3>0. \A at, e, l \in Nat : U256Length + l <= e /\ j \in 1..l =>
                at + U256Length + j - 1 \in at..(at + e - 1)
      BY WordFacts
    <3>1. put[i].at + U256Length + j - 1 \in put[i].at..(put[i].at + Extent(put[i]) - 1)
      BY <1>1, <2>1, <3>0
    <3>. QED
      BY <1>3, <1>6, <3>1
  <2>4. ASSUME NEW j \in Word PROVE b[put[i].of + j] = buf[put[i].of + j]
    <3>1. PICK m \in DOMAIN put : put[m].kind = "bytes" /\ put[m].at = put[i].of
      BY <1>6 DEF LayoutInv
    <3>2. Extent(put[m]) = U256Length /\ put[m].at + U256Length <= begin /\ m \in Nat
      BY <1>0, <3>1, ItemFacts DEF LayoutInv
    <3>0. \A of, end \in Nat : of + U256Length <= end => of + j \in 0..(end - 1)
      BY WordFacts DEF Word
    <3>3. put[i].of + j \in 0..(begin - 1)
      BY <1>0, <2>1, <3>0, <3>1, <3>2
    <3>4. put[i].of + j \notin WordOf(item)
      <4>. SUFFICES ASSUME item.kind = "string", put[i].of + j \in item.of..(item.of + U256Length - 1)
                    PROVE  FALSE
        BY DEF WordOf
      <4>1. PICK k \in DOMAIN put : put[k].kind = "bytes" /\ put[k].at = item.of
        OBVIOUS
      <4>2. Extent(put[k]) = U256Length /\ put[k].at \in Nat /\ k \in Nat /\ item.of \in Nat
        BY <1>0, <4>1, ItemFacts
      <4>3. k # m
        BY <1>6, <3>1, <4>1
      <4>4. k < m => put[k].at + U256Length <= put[m].at
        BY <4>2 DEF LayoutInv
      <4>5. m < k => put[m].at + U256Length <= put[k].at
        BY <3>2 DEF LayoutInv
      <4>6. put[i].of + U256Length <= item.of \/ item.of + U256Length <= put[i].of
        BY <3>1, <3>2, <4>1, <4>2, <4>3, <4>4, <4>5
      <4>7. \A of, to \in Nat : of + U256Length <= to \/ to + U256Length <= of =>
                  of + j \notin to..(to + U256Length - 1)
        BY WordFacts DEF Word
      <4>. QED
        BY <2>1, <4>2, <4>6, <4>7
    <3>. QED
      BY <3>3, <3>4
  <2>. QED
    BY <1>6, <2>2, <2>3, <2>4 DEF HoldsItem, HoldsWord
<1>7. CASE put[i].kind = "bytes"
  BY <1>7 DEF HoldsItem
<1>. QED
  BY <1>0, <1>4, <1>5, <1>6, <1>7, ItemFacts

LEMMA AppendKeeps ==
  ASSUME AbiInv, NEW item \in Items,
         item.at = begin, begin + Extent(item) <= Size,
         buf' \in [0..(Size - 1) -> 0..Base],
         begin' = begin + Extent(item), frame' \in 0..begin',
         put # <<>> => frame' = frame,
         put' = Append(put, item),
         item.kind = "string" =>
           /\ \E k \in DOMAIN put : put[k].kind = "bytes" /\ put[k].at = item.of
           /\ \A i \in DOMAIN put : put[i].kind = "string" => put[i].of # item.of,
         \A i \in 0..(Size - 1) :
           i \notin WordOf(item) /\ i \notin begin..(begin' - 1) => buf'[i] = buf[i],
         \A i \in WordOf(item) : buf'[i] # Old,
         item.kind # "bytes" => \A i \in begin..(begin' - 1) : buf'[i] # Old,
         HoldsItem(buf', frame', item)
  PROVE  AbiInv'
<1>. DEFINE n == Len(put)
<1>1. LayoutInv'
  BY AppendKeepsLayout DEF AbiInv
<1>2. put \in Seq(Items) /\ n \in Nat /\ DOMAIN put = 1..n
  BY DEF AbiInv, LayoutInv
<1>3. DOMAIN put' = 1..(n + 1) /\ put'[n + 1] = item /\ \A i \in 1..n : put'[i] = put[i]
  BY <1>2
<1>4. begin \in Nat /\ Extent(item) \in Nat /\ Size \in Nat /\ begin <= Size /\ begin' \in Nat
  <2>1. begin \in 0..Size
    BY DEF AbiInv, LayoutInv
  <2>. QED
    BY <2>1, ItemFacts, SizeFacts
<1>0. WordOf(item) \subseteq 0..(begin - 1)
  BY WordIsBefore DEF AbiInv
<1>. HIDE DEF n
<1>5. ContentsInv'
  <2>1. ASSUME NEW i \in 1..n PROVE HoldsItem(buf', frame', put'[i])
    <3>1. put # <<>> /\ frame' = frame
      BY <1>2, <2>1
    <3>2. HoldsItem(buf, frame, put[i])
      BY <1>2 DEF AbiInv, ContentsInv
    <3>3. \A j \in 0..(begin - 1) : j \notin WordOf(item) => buf'[j] = buf[j]
      BY <1>4
    <3>4. HoldsItem(buf', frame, put[i])
      BY <1>2, <3>2, <3>3, AppendKeepsItems DEF AbiInv
    <3>. QED
      BY <1>3, <3>1, <3>4
  <2>2. \A i \in DOMAIN put' : HoldsItem(buf', frame', put'[i])
    BY <1>2, <1>3, <2>1
  <2>. QED
    BY <2>2 DEF ContentsInv
<1>6. NoOldBytes'
  <2>1. DOMAIN buf' = 0..(Size - 1)
    OBVIOUS
  <2>2. ASSUME NEW i \in begin'..(Size - 1) PROVE buf'[i] = Old
    <3>1. i \in begin..(Size - 1) /\ i \in 0..(Size - 1) /\ i \notin begin..(begin' - 1)
      BY <1>4
    <3>2. i \notin WordOf(item)
      BY <1>0, <1>4, <3>1
    <3>. QED
      BY <3>1, <3>2 DEF AbiInv, NoOldBytes
  <2>3. ASSUME NEW i \in 0..(begin' - 1), buf'[i] = Old
        PROVE  \E k \in DOMAIN put' :
                 /\ put'[k].kind = "bytes" /\ i \in put'[k].at..(put'[k].at + U256Length - 1)
                 /\ \A j \in DOMAIN put' : put'[j].kind = "string" => put'[j].of # put'[k].at
    <3>1. CASE i < begin
      <4>1. i \notin WordOf(item) /\ i \in 0..(begin - 1) /\ i \in 0..(Size - 1)
        <5>1. i \notin WordOf(item)
          BY <2>3
        <5>2. i \in 0..(begin - 1) /\ i \in 0..(Size - 1)
          BY <1>4, <3>1
        <5>. QED
          BY <5>1, <5>2
      <4>2. buf[i] = Old
        <5>1. i \notin begin..(begin' - 1)
          BY <1>4, <3>1
        <5>2. buf'[i] = buf[i]
          BY <4>1, <5>1
        <5>. QED
          BY <2>3, <5>2
      <4>3. PICK k \in 1..n :
               /\ put[k].kind = "bytes" /\ i \in put[k].at..(put[k].at + U256Length - 1)
               /\ \A j \in DOMAIN put : put[j].kind = "string" => put[j].of # put[k].at
        <5>1. \A a \in 0..(begin - 1) : buf[a] = Old =>
                \E k \in DOMAIN put :
                  /\ put[k].kind = "bytes" /\ a \in put[k].at..(put[k].at + U256Length - 1)
                  /\ \A j \in DOMAIN put : put[j].kind = "string" => put[j].of # put[k].at
          BY DEF AbiInv, NoOldBytes
        <5>. QED
          BY <1>2, <4>1, <4>2, <5>1, Zenon
      <4>4. item.kind = "string" => item.of # put[k].at
        BY <4>1, <4>3 DEF WordOf
      <4>5. \A j \in 1..(n + 1) : put'[j].kind = "string" => put'[j].of # put[k].at
        BY <1>2, <1>3, <4>3, <4>4
      <4>6. k \in 1..(n + 1) /\ put'[k] = put[k]
        BY <1>2, <1>3, <4>3
      <4>7. k \in DOMAIN put' /\ DOMAIN put' = 1..(n + 1)
        BY <1>3, <4>6
      <4>. DEFINE Open(m) == /\ put'[m].kind = "bytes" /\ i \in put'[m].at..(put'[m].at + U256Length - 1)
                             /\ \A j \in DOMAIN put' : put'[j].kind = "string" => put'[j].of # put'[m].at
      <4>8. Open(k)
        BY <4>3, <4>5, <4>6, <4>7
      <4>9. \E m \in DOMAIN put' : Open(m)
        <5>. HIDE DEF Open
        <5>. QED
          BY <4>7, <4>8
      <4>. QED
        BY <4>9, Zenon
    <3>2. CASE ~(i < begin)
      <4>1. i \in begin..(begin' - 1)
        BY <1>4, <3>2
      <4>2. item.kind = "bytes"
        BY <2>3, <4>1
      <4>3. Extent(item) = U256Length
        BY <4>2, ItemFacts
      <4>4. i \in put'[n + 1].at..(put'[n + 1].at + U256Length - 1)
        <5>1. begin' = begin + U256Length /\ begin' - 1 = begin + U256Length - 1
          BY <1>4, <4>3, WordFacts
        <5>2. i \in begin..(begin + U256Length - 1)
          BY <4>1, <5>1
        <5>3. put'[n + 1].at = begin
          BY <1>3
        <5>. QED
          BY <5>2, <5>3
      <4>5. ASSUME NEW j \in 1..(n + 1), put'[j].kind = "string" PROVE put'[j].of # begin
        <5>1. j \in 1..n /\ put'[j] = put[j]
          BY <1>2, <1>3, <4>2, <4>5
        <5>2. PICK k \in DOMAIN put : put[k].kind = "bytes" /\ put[k].at = put[j].of
          BY <1>2, <4>5, <5>1 DEF AbiInv, LayoutInv
        <5>3. put[k] \in Items /\ put[k].at + Extent(put[k]) <= begin
          BY <5>2 DEF AbiInv, LayoutInv
        <5>4. put[k].at + U256Length <= begin /\ put[k].at \in Nat
          BY <5>2, <5>3, ItemFacts
        <5>5. ASSUME NEW a \in Nat, a + U256Length <= begin PROVE a # begin
          BY <5>5, <1>4, WordFacts
        <5>. QED
          BY <5>1, <5>2, <5>4, <5>5
      <4>. QED
        BY <1>2, <1>3, <4>2, <4>4, <4>5
    <3>. QED
      BY <3>1, <3>2
  <2>. QED
    BY <2>1, <2>2, <2>3 DEF NoOldBytes
<1>. QED
  BY <1>1, <1>5, <1>6 DEF AbiInv

-----------------------------------------------------------------------------
(* The steps.                                                              *)

LEMMA PutFunselKeeps ==
  ASSUME AbiInv, NEW funsel \in Funsels, put_funsel(funsel)
  PROVE  AbiInv'
<1>. DEFINE item == [kind |-> "funsel", at |-> begin, value |-> funsel]
<1>1. put = <<>> /\ begin = 0 /\ FunselLength <= Size
  BY DEF AbiInv, LayoutInv, put_funsel, split, FunselLength
<1>2. funsel \in Byte
  BY FunselsAssumption
<1>3. item \in Items /\ item.kind = "funsel" /\ item.at = begin /\ item.value = funsel
  BY <1>1, <1>2 DEF Items
<1>4. Extent(item) = FunselLength /\ WordOf(item) = {}
  BY <1>3, ItemFacts DEF WordOf
<1>5. begin' = 1 /\ frame' = 1 /\ put' = Append(put, item)
  BY <1>1 DEF put_funsel, FunselLength
<1>6. DOMAIN buf = 0..(Size - 1) /\ buf \in [0..(Size - 1) -> 0..Base]
  BY DEF AbiInv, LayoutInv
<1>7. /\ DOMAIN buf' = 0..(Size - 1)
      /\ \A i \in 0..(Size - 1) : buf'[i] = IF i = 0 THEN funsel ELSE buf[i]
      /\ buf' = [i \in 0..(Size - 1) |-> buf'[i]]
  <2>1. buf' = Write(buf, 0, [i \in {0} |-> funsel])
    BY <1>1 DEF put_funsel
  <2>. QED
    BY <1>6, <2>1 DEF Write
<1>8. buf'[0] = funsel /\ funsel # Old /\ funsel \in 0..Base
  BY <1>1, <1>2, <1>7, SizeFacts, WordFacts DEF FunselLength, Byte, Old
<1>9. buf' \in [0..(Size - 1) -> 0..Base]
  BY <1>6, <1>7, <1>8
<1>10. HoldsItem(buf', frame', item)
  BY <1>3, <1>8 DEF HoldsItem
<1>. HIDE DEF item
<1>11. \A i \in begin..(begin' - 1) : buf'[i] # Old
  BY <1>1, <1>5, <1>8
<1>12. \A i \in 0..(Size - 1) : i \notin begin..(begin' - 1) => buf'[i] = buf[i]
  BY <1>1, <1>5, <1>7
<1>13. begin' = begin + Extent(item) /\ begin + Extent(item) <= Size /\ frame' \in 0..begin'
  BY <1>1, <1>4, <1>5 DEF FunselLength
<1>. QED
  BY <1>1, <1>3, <1>4, <1>5, <1>9, <1>10, <1>11, <1>12, <1>13, AppendKeeps

LEMMA PutWordKeeps ==
  ASSUME AbiInv, NEW word, NEW item \in Items, put_word(word, item),
         item.at = begin, item.kind \in {"uint", "uint_be", "bytes"},
         item.kind = "bytes" => word = NoBytes,
         item.kind # "bytes" => word = BigEndian(U256Length, item.value)
  PROVE  AbiInv'
<1>1. put # <<>> /\ begin + U256Length <= Size /\ frame' = frame
  BY DEF put_word, split
<1>2. Extent(item) = U256Length /\ WordOf(item) = {}
  BY ItemFacts DEF WordOf
<1>3. buf' = Write(buf, begin, word) /\ begin' = begin + U256Length /\ put' = Append(put, item)
  BY DEF put_word
<1>4. buf \in [0..(Size - 1) -> 0..Base] /\ begin \in Nat /\ frame \in 0..begin
  BY SizeFacts DEF AbiInv, LayoutInv
<1>5. /\ DOMAIN buf' = 0..(Size - 1)
      /\ \A i \in 0..(Size - 1) : buf'[i] = IF i - begin \in DOMAIN word THEN word[i - begin] ELSE buf[i]
      /\ buf' = [i \in 0..(Size - 1) |-> buf'[i]]
  BY <1>3, <1>4 DEF Write
<1>6. item.kind # "bytes" => item.value \in Nat /\ word \in [Word -> Byte]
  <2>. SUFFICES ASSUME item.kind # "bytes" PROVE item.value \in Nat /\ word \in [Word -> Byte]
    OBVIOUS
  <2>1. item.value \in Nat
    BY ItemFacts, PowerFacts, WordFacts DEF Value
  <2>. QED
    BY <2>1, BigEndianFacts
<1>7. item.kind = "bytes" => DOMAIN word = {}
  BY DEF NoBytes
<1>8. \A i \in DOMAIN word : word[i] \in Byte /\ word[i] # Old /\ word[i] \in 0..Base /\ i \in Word
  BY <1>6, <1>7, WordFacts DEF Byte, Old
<1>9. buf' \in [0..(Size - 1) -> 0..Base]
  BY <1>4, <1>5, <1>8
<1>10. \A i \in 0..(Size - 1) : i \notin begin..(begin' - 1) => buf'[i] = buf[i]
  BY <1>3, <1>4, <1>5, <1>8, WordFacts DEF Word
<1>11. item.kind # "bytes" => \A i \in Word : buf'[begin + i] = word[i] /\ word[i] # Old
  <2>. SUFFICES ASSUME item.kind # "bytes", NEW i \in Word
                PROVE  buf'[begin + i] = word[i] /\ word[i] # Old
    OBVIOUS
  <2>1. begin + i \in 0..(Size - 1) /\ (begin + i) - begin = i
    BY <1>1, <1>4, SizeFacts, WordFacts DEF Word
  <2>2. i \in DOMAIN word
    BY <1>6
  <2>. QED
    BY <1>5, <1>8, <2>1, <2>2
<1>12. item.kind # "bytes" => \A i \in begin..(begin' - 1) : buf'[i] # Old
  <2>. SUFFICES ASSUME item.kind # "bytes", NEW i \in begin..(begin' - 1) PROVE buf'[i] # Old
    OBVIOUS
  <2>1. i - begin \in Word /\ begin + (i - begin) = i
    BY <1>3, <1>4, WordFacts DEF Word
  <2>. QED
    BY <1>11, <2>1
<1>13. HoldsItem(buf', frame', item)
  BY <1>11 DEF HoldsItem, HoldsWord
<1>14. frame' \in 0..begin' /\ begin + Extent(item) <= Size /\ begin' = begin + Extent(item)
  BY <1>1, <1>2, <1>3, <1>4, WordFacts
<1>. QED
  BY <1>1, <1>2, <1>3, <1>9, <1>10, <1>12, <1>13, <1>14, AppendKeeps

\* What is in the buffer after a string: the offset in its word, the length,
\* the bytes, and zeros.
Written(c, b, w, l, of, at, s, n, a, data) ==
  /\ c = [i \in 0..(Size - 1) |-> c[i]]
  /\ \A i \in Word : of + i \in 0..(Size - 1) /\ c[of + i] = w[i]
  /\ \A i \in Word : at + i \in 0..(Size - 1) /\ c[at + i] = l[i]
  /\ \A i \in 1..n : data + i - 1 \in 0..(Size - 1) /\ c[data + i - 1] = s[i]
  /\ \A i \in (data + n)..(data + a - 1) : c[i] = 0
  /\ \A i \in 0..(Size - 1) :
       i \notin of..(of + U256Length - 1) /\ i \notin at..(data + a - 1) => c[i] = b[i]

LEMMA PutBytesWrites ==
  ASSUME NEW b, DOMAIN b = 0..(Size - 1), NEW w, NEW l, DOMAIN w = Word, DOMAIN l = Word,
         NEW of \in Nat, NEW at \in Nat, of + U256Length <= at, NEW s \in Seq(Byte),
         NEW n, n = Len(s), NEW a, a = align_forward(n), NEW data, data = at + U256Length,
         data + a <= Size,
         NEW zeros, DOMAIN zeros = n..(a - 1), \A i \in n..(a - 1) : zeros[i] = 0,
         NEW bytes, DOMAIN bytes = 0..(n - 1), \A i \in 0..(n - 1) : bytes[i] = s[i + 1],
         NEW c, c = Write(Write(Write(Write(b, of, w), at, l), data, zeros), data, bytes)
  PROVE  Written(c, b, w, l, of, at, s, n, a, data)
<1>. DEFINE b1 == Write(b, of, w)
            b2 == Write(b1, at, l)
            b3 == Write(b2, data, zeros)
<1>1. n \in Nat /\ a \in Nat /\ n <= a /\ data \in Nat /\ U256Length \in Nat \ {0} /\ Size \in Nat
  BY AlignFacts, WordFacts, SizeFacts
<1>2. c = Write(b3, data, bytes)
  OBVIOUS
<1>3. \A i \in 0..(Size - 1) : b1[i] = IF i - of \in Word THEN w[i - of] ELSE b[i]
  BY DEF Write
<1>4. DOMAIN b1 = 0..(Size - 1)
  BY DEF Write
<1>. HIDE DEF b1
<1>5. \A i \in 0..(Size - 1) : b2[i] = IF i - at \in Word THEN l[i - at] ELSE b1[i]
  BY <1>4 DEF Write
<1>6. DOMAIN b2 = 0..(Size - 1)
  BY <1>4 DEF Write
<1>. HIDE DEF b2
<1>8. \A i \in 0..(Size - 1) : b3[i] = IF i - data \in n..(a - 1) THEN 0 ELSE b2[i]
  BY <1>6 DEF Write
<1>9. DOMAIN b3 = 0..(Size - 1)
  BY <1>6 DEF Write
<1>. HIDE DEF b3
<1>10. \A i \in 0..(Size - 1) : c[i] = IF i - data \in 0..(n - 1) THEN s[i - data + 1] ELSE b3[i]
  BY <1>2, <1>9 DEF Write
<1>11. c = [i \in 0..(Size - 1) |-> c[i]]
  BY <1>2, <1>9 DEF Write
<1>12. data + a <= Size /\ data = at + U256Length
  OBVIOUS
<1>13. ASSUME NEW i \in Word PROVE of + i \in 0..(Size - 1) /\ c[of + i] = w[i]
  <2>1. /\ of + i \in 0..(Size - 1) /\ (of + i) - of = i
        /\ (of + i) - at \notin Word /\ (of + i) - data \notin 0..(n - 1)
        /\ (of + i) - data \notin n..(a - 1)
    BY <1>1, <1>12 DEF Word
  <2>. QED
    BY <1>3, <1>5, <1>8, <1>10, <2>1
<1>14. ASSUME NEW i \in Word PROVE at + i \in 0..(Size - 1) /\ c[at + i] = l[i]
  <2>1. /\ at + i \in 0..(Size - 1) /\ (at + i) - at = i
        /\ (at + i) - data \notin 0..(n - 1) /\ (at + i) - data \notin n..(a - 1)
    BY <1>1, <1>12 DEF Word
  <2>. QED
    BY <1>5, <1>8, <1>10, <2>1
<1>15. ASSUME NEW i \in 1..n
       PROVE  data + i - 1 \in 0..(Size - 1) /\ c[data + i - 1] = s[i]
  <2>. DEFINE j == data + i - 1
  <2>1. j \in 0..(Size - 1) /\ j - data \in 0..(n - 1) /\ j - data + 1 = i
    BY <1>1, <1>12
  <2>. HIDE DEF j
  <2>2. c[j] = s[i]
    BY <1>10, <2>1
  <2>. QED
    BY <2>1, <2>2 DEF j
<1>16. ASSUME NEW i \in (data + n)..(data + a - 1) PROVE c[i] = 0
  <2>1. i \in 0..(Size - 1)
    BY <1>1, <1>12
  <2>2. i - data \notin 0..(n - 1)
    BY <1>1
  <2>3. i - data \in n..(a - 1)
    BY <1>1
  <2>. QED
    BY <1>8, <1>10, <2>1, <2>2, <2>3
<1>17. ASSUME NEW i \in 0..(Size - 1), i \notin of..(of + U256Length - 1),
              i \notin at..(data + a - 1)
       PROVE  c[i] = b[i]
  <2>1. i - of \notin Word
    BY <1>1, <1>17 DEF Word
  <2>2. i < at \/ data + a <= i
    BY <1>1, <1>12, <1>17
  <2>3. i - at \notin Word
    BY <1>1, <1>12, <2>2 DEF Word
  <2>4. i - data \notin 0..(n - 1)
    BY <1>1, <1>12, <2>2
  <2>5. i - data \notin n..(a - 1)
    BY <1>1, <1>12, <2>2
  <2>. QED
    BY <1>3, <1>5, <1>8, <1>10, <2>1, <2>3, <2>4, <2>5
<1>. QED
  BY <1>11, <1>13, <1>14, <1>15, <1>16, <1>17 DEF Written

LEMMA PutBytesKeeps ==
  ASSUME AbiInv, NEW k \in DOMAIN put, NEW s \in Strings, put_bytes_d(k, s)
  PROVE  AbiInv'
<1>. DEFINE of == put[k].at
            n == Len(s)
            a == align_forward(n)
            data == begin + U256Length
            w == BigEndian(U256Length, begin - frame)
            l == BigEndian(U256Length, n)
            zeros == [i \in n..(a - 1) |-> 0]
            bytes == [i \in 0..(n - 1) |-> s[i + 1]]
            item == [kind |-> "string", at |-> begin, of |-> of, value |-> s]
<1>1. s \in Seq(Byte) /\ n \in Nat /\ a \in Nat /\ n <= a
  BY StringsAssumption, AlignFacts
<1>2. /\ begin \in Nat /\ frame \in 0..begin /\ begin <= Size
      /\ buf \in [0..(Size - 1) -> 0..Base] /\ Size \in Nat
  BY SizeFacts DEF AbiInv, LayoutInv
<1>3. /\ put[k].kind = "bytes"
      /\ \A i \in DOMAIN put : put[i].kind = "string" => put[i].of # of
      /\ data + a <= Size /\ begin' = data + a /\ frame' = frame /\ put' = Append(put, item)
  BY DEF put_bytes_d, split
<1>4. of \in Nat /\ of + U256Length <= begin
  <2>1. put[k] \in Items /\ put[k].at + Extent(put[k]) <= begin
    BY DEF AbiInv, LayoutInv
  <2>. QED
    BY <1>3, <2>1, ItemFacts
<1>5. begin - frame \in 0..(Power[SizeLength] - 1) /\ n \in 0..(Power[SizeLength] - 1)
  <2>1. Power[SizeLength] \in Nat
    BY PowerFacts, WordFacts
  <2>2. begin - frame \in Nat /\ begin - frame <= Size
    BY <1>2
  <2>3. n <= Size
    <3>. HIDE DEF n, a
    <3>. QED
      BY <1>1, <1>2, <1>3, WordFacts
  <2>. HIDE DEF n
  <2>. QED
    BY <1>1, <2>1, <2>2, <2>3, SizeFacts
<1>6. encode_uint(SizeLength, begin - frame) = w /\ encode_uint(SizeLength, n) = l
  <2>. HIDE DEF n
  <2>. QED
    BY <1>5, EncodedIs, WordFacts
<1>7. buf' = Write(Write(Write(Write(buf, of, w), begin, l), data, zeros), data, bytes)
  BY <1>6 DEF put_bytes_d, Reserve
<1>8. w \in [Word -> Byte] /\ l \in [Word -> Byte]
  BY <1>1, <1>2, BigEndianFacts
<1>9. item \in Items /\ item.kind = "string" /\ item.at = begin /\ item.of = of /\ item.value = s
  BY <1>1, <1>2, <1>4 DEF Items
<1>10. Extent(item) = U256Length + a /\ WordOf(item) = of..(of + U256Length - 1)
  BY <1>9, ItemFacts DEF WordOf
<1>11. /\ buf' = [i \in 0..(Size - 1) |-> buf'[i]]
       /\ \A i \in Word : of + i \in 0..(Size - 1) /\ buf'[of + i] = w[i]
       /\ \A i \in Word : begin + i \in 0..(Size - 1) /\ buf'[begin + i] = l[i]
       /\ \A i \in 1..n : data + i - 1 \in 0..(Size - 1) /\ buf'[data + i - 1] = s[i]
       /\ \A i \in (data + n)..(data + a - 1) : buf'[i] = 0
       /\ \A i \in 0..(Size - 1) :
            i \notin of..(of + U256Length - 1) /\ i \notin begin..(data + a - 1) => buf'[i] = buf[i]
  <2>1. DOMAIN buf = 0..(Size - 1) /\ DOMAIN w = Word /\ DOMAIN l = Word
    BY <1>2, <1>8
  <2>2. n = Len(s) /\ a = align_forward(n) /\ data = begin + U256Length /\ data + a <= Size
    BY <1>3
  <2>3. /\ DOMAIN zeros = n..(a - 1) /\ \A i \in n..(a - 1) : zeros[i] = 0
        /\ DOMAIN bytes = 0..(n - 1) /\ \A i \in 0..(n - 1) : bytes[i] = s[i + 1]
    OBVIOUS
  <2>. HIDE DEF w, l, of, n, a, data, zeros, bytes
  <2>4. of \in Nat /\ begin \in Nat /\ of + U256Length <= begin /\ s \in Seq(Byte)
    BY <1>1, <1>2, <1>4
  <2>5. Written(buf', buf, w, l, of, begin, s, n, a, data)
    BY <1>7, <2>1, <2>2, <2>3, <2>4, PutBytesWrites
  <2>. QED
    BY <2>5 DEF Written
<1>. HIDE DEF w, l, of, n, a, item
<1>12. \A i \in of..(of + U256Length - 1) : buf'[i] \in Byte
  <2>. SUFFICES ASSUME NEW i \in of..(of + U256Length - 1) PROVE buf'[i] \in Byte
    OBVIOUS
  <2>1. i - of \in Word /\ of + (i - of) = i
    BY <1>4, WordFacts DEF Word
  <2>2. w[i - of] \in Byte
    BY <1>8, <2>1
  <2>. QED
    BY <1>11, <2>1, <2>2
<1>13. \A i \in begin..(data + a - 1) : buf'[i] \in Byte
  <2>. SUFFICES ASSUME NEW i \in begin..(data + a - 1) PROVE buf'[i] \in Byte
    OBVIOUS
  <2>1. CASE i < data
    <3>1. i - begin \in Word /\ begin + (i - begin) = i
      BY <1>2, <2>1, WordFacts DEF Word
    <3>2. l[i - begin] \in Byte
      BY <1>8, <3>1
    <3>. QED
      BY <1>11, <3>1, <3>2
  <2>2. CASE data <= i /\ i < data + n
    <3>. DEFINE j == i - data + 1
    <3>1. j \in 1..n /\ data + j - 1 = i
      BY <1>1, <1>2, <2>2, WordFacts
    <3>2. s[j] \in Byte
      BY <1>1, <3>1 DEF n
    <3>. HIDE DEF j, data
    <3>3. buf'[data + j - 1] = s[j]
      BY <1>11, <3>1
    <3>. QED
      BY <3>1, <3>2, <3>3
  <2>3. CASE data + n <= i
    <3>1. i \in (data + n)..(data + a - 1)
      BY <1>1, <1>2, <2>3, WordFacts
    <3>. QED
      BY <1>11, <3>1, ZeroIsByte
  <2>. QED
    BY <1>1, <1>2, <2>1, <2>2, <2>3, WordFacts
<1>14. \A x \in Byte : x # Old /\ x \in 0..Base
  BY WordFacts DEF Byte, Old
<1>15. buf' \in [0..(Size - 1) -> 0..Base]
  <2>1. ASSUME NEW i \in 0..(Size - 1) PROVE buf'[i] \in 0..Base
    <3>1. CASE i \in of..(of + U256Length - 1)
      BY <1>12, <1>14, <3>1
    <3>2. CASE i \in begin..(data + a - 1)
      BY <1>13, <1>14, <3>2
    <3>3. CASE i \notin of..(of + U256Length - 1) /\ i \notin begin..(data + a - 1)
      BY <1>2, <1>11, <3>3
    <3>. QED
      BY <3>1, <3>2, <3>3
  <2>. QED
    BY <1>11, <2>1
<1>16. HoldsItem(buf', frame', item)
  <2>1. frame <= begin
    BY <1>2
  <2>2. HoldsWord(buf', of, begin - frame) /\ HoldsWord(buf', begin, n)
    BY <1>11 DEF HoldsWord, w, l
  <2>3. \A i \in 1..Len(s) : buf'[begin + U256Length + i - 1] = s[i]
    BY <1>11 DEF n
  <2>. QED
    BY <1>3, <1>9, <2>1, <2>2, <2>3 DEF HoldsItem, n
<1>17. begin' = begin + Extent(item) /\ begin + Extent(item) <= Size /\ frame' \in 0..begin'
  <2>1. Extent(item) = U256Length + a /\ Extent(item) \in Nat
    BY <1>1, <1>10, WordFacts
  <2>2. data + a = begin + Extent(item)
    BY <1>1, <1>2, <2>1, WordFacts
  <2>. QED
    BY <1>2, <1>3, <2>1, <2>2
<1>18. \A i \in 0..(Size - 1) :
         i \notin WordOf(item) /\ i \notin begin..(begin' - 1) => buf'[i] = buf[i]
  <2>1. begin..(begin' - 1) = begin..(data + a - 1)
    BY <1>1, <1>2, <1>3, WordFacts
  <2>. HIDE DEF data
  <2>. QED
    BY <1>10, <1>11, <2>1
<1>19. (\A i \in WordOf(item) : buf'[i] # Old) /\ (\A i \in begin..(begin' - 1) : buf'[i] # Old)
  <2>1. begin..(begin' - 1) = begin..(data + a - 1)
    BY <1>1, <1>2, <1>3, WordFacts
  <2>. HIDE DEF data
  <2>. QED
    BY <1>10, <1>12, <1>13, <1>14, <2>1
<1>20. \E j \in DOMAIN put : put[j].kind = "bytes" /\ put[j].at = item.of
  BY <1>3, <1>9 DEF of
<1>21. \A i \in DOMAIN put : put[i].kind = "string" => put[i].of # item.of
  BY <1>3, <1>9
<1>. QED
  BY <1>3, <1>9, <1>15, <1>16, <1>17, <1>18, <1>19, <1>20, <1>21, AppendKeeps

LEMMA InitAbiInv == Init => AbiInv
<1>. SUFFICES ASSUME Init PROVE AbiInv
  OBVIOUS
<1>1. LayoutInv
  <2>1. Old \in 0..Base
    BY WordFacts DEF Old
  <2>. QED
    BY <2>1, SizeFacts DEF Init, LayoutInv
<1>2. ContentsInv
  BY DEF Init, ContentsInv
<1>3. NoOldBytes
  BY SizeFacts DEF Init, NoOldBytes
<1>. QED
  BY <1>1, <1>2, <1>3 DEF AbiInv

LEMMA NextAbiInv == AbiInv /\ [Next]_vars => AbiInv'
<1>. SUFFICES ASSUME AbiInv, [Next]_vars PROVE AbiInv'
  OBVIOUS
<1>1. begin \in Nat
  BY SizeFacts DEF AbiInv, LayoutInv
<1>2. ASSUME NEW x \in Numbers
      PROVE  x.n \in 0..U256Length /\ x.value \in 0..(Power[x.n] - 1) /\ x.value \in Value
  <2>1. x.n \in 0..U256Length /\ x.value \in 0..(Power[x.n] - 1)
    BY NumbersAssumption
  <2>2. Power[x.n] \in Nat /\ Power[U256Length] \in Nat /\ Power[x.n] <= Power[U256Length]
    BY <2>1, PowerFacts, PowerOrder, WordFacts
  <2>. QED
    BY <2>1, <2>2 DEF Value
<1>3. ASSUME NEW funsel \in Funsels, put_funsel(funsel) PROVE AbiInv'
  BY <1>3, PutFunselKeeps
<1>4. ASSUME NEW x \in Numbers, put_uint(x) PROVE AbiInv'
  <2>. DEFINE item == [kind |-> "uint", at |-> begin, value |-> x.value]
  <2>1. item \in Items /\ item.at = begin /\ item.kind = "uint" /\ item.value = x.value
    BY <1>1, <1>2 DEF Items
  <2>2. put_word(BigEndian(U256Length, x.value), item)
    BY <1>2, <1>4, EncodedIs DEF put_uint
  <2>. HIDE DEF item
  <2>. QED
    BY <2>1, <2>2, PutWordKeeps
<1>5. ASSUME NEW x \in Numbers, put_uint_be(x) PROVE AbiInv'
  <2>. DEFINE item == [kind |-> "uint_be", at |-> begin, value |-> x.value]
  <2>1. item \in Items /\ item.at = begin /\ item.kind = "uint_be" /\ item.value = x.value
    BY <1>1, <1>2 DEF Items
  <2>2. put_word(BigEndian(U256Length, x.value), item)
    BY <1>2, <1>5, EncodedIs DEF put_uint_be
  <2>. HIDE DEF item
  <2>. QED
    BY <2>1, <2>2, PutWordKeeps
<1>6. CASE put_bytes_s
  <2>. DEFINE item == [kind |-> "bytes", at |-> begin]
  <2>1. item \in Items /\ item.at = begin /\ item.kind = "bytes"
    BY <1>1 DEF Items
  <2>2. put_word(NoBytes, item)
    BY <1>6 DEF put_bytes_s
  <2>. HIDE DEF item
  <2>. QED
    BY <2>1, <2>2, PutWordKeeps
<1>7. ASSUME NEW k \in DOMAIN put, NEW s \in Strings, put_bytes_d(k, s) PROVE AbiInv'
  BY <1>7, PutBytesKeeps
<1>8. CASE UNCHANGED vars
  <2>1. buf' = buf /\ begin' = begin /\ frame' = frame /\ put' = put
    BY <1>8 DEF vars
  <2>2. LayoutInv' /\ ContentsInv' /\ NoOldBytes'
    BY <2>1 DEF AbiInv, LayoutInv, ContentsInv, NoOldBytes
  <2>. QED
    BY <2>2 DEF AbiInv
<1>. QED
  BY <1>3, <1>4, <1>5, <1>6, <1>7, <1>8 DEF Next

LEMMA SpecIsInv == Spec => []AbiInv
BY InitAbiInv, NextAbiInv, PTL DEF Spec

\* The message has no byte of an older one in it, and nothing is written past
\* what a call takes (abi.c put_* and cmt_abi_reserve_bytes_d).
THEOREM NoOldBytesCorrect == Spec => []NoOldBytes
<1>1. AbiInv => NoOldBytes
  BY DEF AbiInv
<1>. QED
  BY <1>1, SpecIsInv, PTL

-----------------------------------------------------------------------------
(* What is read from the buffer.                                           *)

LEMMA GotIs ==
  ASSUME NEW at \in Nat, NEW end \in Nat, at + U256Length <= end, NEW v \in Value,
         HoldsWord(buf, at, v), NEW n \in 0..U256Length
  PROVE  LET fits == v < Power[n] IN
         /\ get_uint(at, n, end) = IF fits THEN OK(LittleEndian(n, v)) ELSE EDOM
         /\ get_uint_be(at, n, end) = IF fits THEN OK(BigEndian(n, v)) ELSE EDOM
<1>1. ~(at + U256Length > end)
  BY WordFacts
<1>2. WordAt(at) = BigEndian(U256Length, v)
  <2>1. BigEndian(U256Length, v) = [i \in Word |-> BigEndian(U256Length, v)[i]]
    BY DEF BigEndian, Word
  <2>2. WordAt(at) = [i \in Word |-> buf[at + i]]
    BY DEF WordAt
  <2>3. \A i \in Word : buf[at + i] = BigEndian(U256Length, v)[i]
    BY DEF HoldsWord
  <2>. QED
    BY <2>1, <2>2, <2>3
<1>3. get_uint(at, n, end) = decode_uint_nr(BigEndian(U256Length, v), n)
  BY <1>1, <1>2 DEF get_uint
<1>4. get_uint_be(at, n, end) = decode_uint_nn(BigEndian(U256Length, v), n)
  BY <1>1, <1>2 DEF get_uint_be
<1>. QED
  BY <1>3, <1>4, DecodedIs DEF Value

LEMMA NumberGot ==
  ASSUME NEW at \in Nat, NEW end \in Nat, at + U256Length <= end, NEW n \in 0..U256Length,
         NEW v \in 0..(Power[n] - 1), HoldsWord(buf, at, v)
  PROVE  Number(get_uint(at, n, end)) = OK(v)
<1>1. v \in Value /\ v < Power[n]
  <2>1. Power[n] \in Nat /\ Power[U256Length] \in Nat /\ Power[n] <= Power[U256Length]
    BY PowerFacts, PowerOrder, WordFacts
  <2>. QED
    BY <2>1 DEF Value
<1>2. get_uint(at, n, end) = OK(LittleEndian(n, v))
  BY <1>1, GotIs
<1>. QED
  BY <1>2, NumberIs

\* The string of an item is read from the word of its offset.
LEMMA StringGot ==
  ASSUME AbiInv, NEW i \in DOMAIN put, put[i].kind = "string"
  PROVE  get_bytes_d(frame, put[i].of, begin) = OK(put[i].value)
<1>. DEFINE item == put[i]
            n == Len(item.value)
<1>1. item \in Items /\ item.at + Extent(item) <= begin /\ HoldsItem(buf, frame, item)
  BY DEF AbiInv, LayoutInv, ContentsInv
<1>2. /\ begin \in Nat /\ frame \in Nat /\ begin <= Size /\ item.at \in Nat /\ item.of \in Nat
      /\ item.value \in Seq(Byte) /\ n \in Nat /\ item.at + U256Length + n <= begin
  <2>1. begin \in 0..Size /\ frame \in 0..begin
    BY DEF AbiInv, LayoutInv
  <2>2. /\ item.at \in Nat /\ item.of \in Nat /\ item.value \in Seq(Byte) /\ n \in Nat
        /\ Extent(item) \in Nat /\ U256Length + n <= Extent(item)
    BY <1>1, ItemFacts
  <2>. HIDE DEF n, item
  <2>. QED
    BY <1>1, <2>1, <2>2, SizeFacts, WordFacts
<1>3. /\ frame <= item.at
      /\ HoldsWord(buf, item.of, item.at - frame) /\ HoldsWord(buf, item.at, n)
      /\ \A j \in 1..n : buf[item.at + U256Length + j - 1] = item.value[j]
  BY <1>1 DEF HoldsItem
<1>4. item.of + U256Length <= begin
  <2>1. PICK k \in DOMAIN put : put[k].kind = "bytes" /\ put[k].at = item.of
    BY DEF AbiInv, LayoutInv
  <2>2. put[k] \in Items /\ put[k].at + Extent(put[k]) <= begin
    BY DEF AbiInv, LayoutInv
  <2>. QED
    BY <2>1, <2>2, ItemFacts
<1>. HIDE DEF item, n
<1>5. item.at - frame \in 0..(Power[SizeLength] - 1) /\ n \in 0..(Power[SizeLength] - 1)
  <2>1. item.at - frame \in Nat /\ item.at - frame <= Size /\ n <= Size
    BY <1>2, <1>3, SizeFacts, WordFacts
  <2>2. Power[SizeLength] \in Nat
    BY PowerFacts, WordFacts
  <2>. QED
    BY <1>2, <2>1, <2>2, SizeFacts
<1>. DEFINE offset == Number(get_uint(item.of, SizeLength, begin))
            length == Number(get_uint(frame + offset.got, SizeLength, begin))
            data == frame + offset.got + U256Length
<1>6. offset = OK(item.at - frame)
  BY <1>2, <1>3, <1>4, <1>5, NumberGot, WordFacts
<1>7. offset.rc = "OK" /\ frame + offset.got = item.at
  <2>1. offset.rc = "OK" /\ offset.got = item.at - frame
    BY <1>6 DEF OK
  <2>. HIDE DEF offset
  <2>. QED
    BY <1>2, <2>1
<1>. HIDE DEF offset
<1>8. length = OK(n)
  <2>1. item.at + U256Length <= begin
    BY <1>2, WordFacts
  <2>2. Number(get_uint(item.at, SizeLength, begin)) = OK(n)
    BY <1>2, <1>3, <1>5, <2>1, NumberGot, WordFacts
  <2>. QED
    BY <1>7, <2>2
<1>9. length.rc = "OK" /\ length.got = n
  BY <1>8 DEF OK
<1>10. data = item.at + U256Length
  BY <1>7
<1>11. get_bytes_d(frame, item.of, begin) =
         IF offset.rc # "OK" THEN offset
         ELSE IF length.rc # "OK" THEN length
         ELSE IF data + length.got > begin THEN ENOBUFS
         ELSE OK([j \in 1..length.got |-> buf[data + j - 1]])
  BY DEF get_bytes_d, offset
<1>. HIDE DEF length, data
<1>12. ~(data + length.got > begin)
  BY <1>2, <1>9, <1>10, WordFacts
<1>13. [j \in 1..length.got |-> buf[data + j - 1]] = item.value
  <2>1. item.value = [j \in 1..n |-> item.value[j]]
    BY <1>2 DEF n
  <2>2. [j \in 1..n |-> buf[item.at + U256Length + j - 1]] = [j \in 1..n |-> item.value[j]]
    BY <1>3
  <2>. QED
    BY <1>9, <1>10, <2>1, <2>2
<1>. QED
  BY <1>7, <1>9, <1>11, <1>12, <1>13 DEF item

\* What was put as a number, as the readers find it.
LEMMA NumberPut ==
  ASSUME AbiInv, NEW i \in DOMAIN put, put[i].kind \in {"uint", "uint_be"}
  PROVE  /\ put[i].at \in Nat /\ begin \in Nat /\ put[i].at + U256Length <= begin
         /\ put[i].value \in Value /\ HoldsWord(buf, put[i].at, put[i].value)
<1>1. put[i] \in Items /\ put[i].at + Extent(put[i]) <= begin /\ HoldsItem(buf, frame, put[i])
  BY DEF AbiInv, LayoutInv, ContentsInv
<1>2. begin \in Nat
  BY SizeFacts DEF AbiInv, LayoutInv
<1>. QED
  BY <1>1, <1>2, ItemFacts DEF HoldsItem

LEMMA EdomFromInv == AbiInv => EdomIffTooLarge
<1>. SUFFICES ASSUME AbiInv, NEW i \in DOMAIN put, NEW n \in 0..U256Length,
                     put[i].kind \in {"uint", "uint_be"}
              PROVE  LET fits == put[i].value < Power[n]
                     IN  /\ get_uint(put[i].at, n, begin) =
                              IF fits THEN OK(LittleEndian(n, put[i].value)) ELSE EDOM
                         /\ get_uint_be(put[i].at, n, begin) =
                              IF fits THEN OK(BigEndian(n, put[i].value)) ELSE EDOM
  BY DEF EdomIffTooLarge
<1>. QED
  BY NumberPut, GotIs

LEMMA ReadsFromInv == AbiInv => ReadsBack
<1>. SUFFICES ASSUME AbiInv, NEW i \in DOMAIN put
              PROVE  LET item == put[i] IN
                     /\ item.kind = "funsel" =>
                          \A f \in Funsels : check_funsel(f, begin) = "OK" <=> f = item.value
                     /\ item.kind = "uint" =>
                          Number(get_uint(item.at, U256Length, begin)) = OK(item.value)
                     /\ item.kind = "uint_be" =>
                          get_uint_be(item.at, U256Length, begin) = OK(BigEndian(U256Length, item.value))
                     /\ item.kind = "string" => get_bytes_d(frame, item.of, begin) = OK(item.value)
  BY DEF ReadsBack
<1>1. ASSUME put[i].kind = "funsel", NEW f \in Funsels
      PROVE  check_funsel(f, begin) = "OK" <=> f = put[i].value
  <2>1. put[i] \in Items /\ put[i].at + Extent(put[i]) <= begin /\ HoldsItem(buf, frame, put[i])
    BY DEF AbiInv, LayoutInv, ContentsInv
  <2>2. begin \in Nat
    BY SizeFacts DEF AbiInv, LayoutInv
  <2>3. ~(begin < FunselLength)
    BY <1>1, <2>1, <2>2, ItemFacts DEF FunselLength
  <2>4. buf[0] = put[i].value
    BY <1>1, <2>1 DEF HoldsItem
  <2>. QED
    BY <2>3, <2>4 DEF check_funsel
<1>2. ASSUME put[i].kind = "uint"
      PROVE  Number(get_uint(put[i].at, U256Length, begin)) = OK(put[i].value)
  BY <1>2, NumberPut, NumberGot, WordFacts DEF Value
<1>3. ASSUME put[i].kind = "uint_be"
      PROVE  get_uint_be(put[i].at, U256Length, begin) = OK(BigEndian(U256Length, put[i].value))
  <2>1. /\ put[i].at \in Nat /\ begin \in Nat /\ put[i].at + U256Length <= begin
        /\ put[i].value \in Value /\ HoldsWord(buf, put[i].at, put[i].value)
    BY <1>3, NumberPut
  <2>2. put[i].value < Power[U256Length] /\ U256Length \in 0..U256Length
    BY <2>1, PowerFacts, WordFacts DEF Value
  <2>. QED
    BY <2>1, <2>2, GotIs
<1>. QED
  BY <1>1, <1>2, <1>3, StringGot

\* What was put is what the matching get returns, whatever is put after it
\* (abi.c put_*, get_*; rollup.c:280-315).
THEOREM ReadsBackCorrect == Spec => []ReadsBack
BY SpecIsInv, ReadsFromInv, PTL

\* A number is refused by a reader exactly if it does not fit (abi.c:82-112).
THEOREM EdomCorrect == Spec => []EdomIffTooLarge
BY SpecIsInv, EdomFromInv, PTL
=============================================================================
