---------------------------- MODULE RingBytesProofs ----------------------------
(***************************************************************************)
(* The byte arithmetic of cyfer.cc computes the operators of RingKeys, for *)
(* bytes of any number of bits and keys of any number of bytes.  The       *)
(* argument: in every column the two digits and the carry from the column  *)
(* behind it are the digit below and the carry out of it (AddUp), so that  *)
(* the numbers the bytes are differ by the last carry times the size of    *)
(* the ring (Columns); and the first byte says which half a key is in.     *)
(***************************************************************************)
EXTENDS RingBytes, SetFacts

-----------------------------------------------------------------------------
(* Products.                                                               *)

LEMMA Times ==
  /\ \A m, n \in Int : m * n \in Int /\ m * n = n * m
  /\ \A m, n, k \in Int : m * (n * k) = (m * n) * k
  /\ \A m, n, k \in Int : (m + n) * k = m * k + n * k /\ (m - n) * k = m * k - n * k
OBVIOUS

LEMMA TimesGrows ==
  /\ \A m, n \in Nat : m * n \in Nat
  /\ \A m, n \in Nat \ {0} : m * n \in Nat \ {0}
  /\ \A m, n, k \in Nat : m <= n => m * k <= n * k
OBVIOUS

\* The product by a number of bytes, as an operator of its own.
BitsOf(i) == Bits * i

LEMMA BitsOfIs ==
  /\ BitsOf(0) = 0 /\ BitsOf(1) = Bits
  /\ \A i \in Nat : BitsOf(i) \in Nat /\ BitsOf(i + 1) = BitsOf(i) + Bits
  /\ \A i \in 0 .. Bytes : BitsOf(i) <= Bits * Bytes
  /\ \A i \in 1 .. Bytes : BitsOf(i - 1) + Bits = BitsOf(i)
  /\ BitsOf(Bytes) = Bits * Bytes /\ Bits * Bytes \in Nat \ {0}
<1>1. Bits \in Nat \ {0} /\ Bytes \in Nat \ {0}
  BY BytesAssumption
<1>2. BitsOf(0) = 0 /\ BitsOf(1) = Bits
  BY <1>1 DEF BitsOf
<1>3. \A i \in Nat : BitsOf(i) \in Nat
  BY <1>1, TimesGrows DEF BitsOf
<1>4. \A i \in Nat : BitsOf(i + 1) = BitsOf(i) + Bits
  <2>1. SUFFICES ASSUME NEW i \in Nat PROVE (i + 1) * Bits = i * Bits + Bits
    BY <1>1, Times DEF BitsOf
  <2>2. QED
    BY <1>1
<1>5. \A i \in 0 .. Bytes : BitsOf(i) <= Bits * Bytes
  <2>1. SUFFICES ASSUME NEW i \in 0 .. Bytes PROVE i * Bits <= Bytes * Bits
    BY <1>1, Times DEF BitsOf
  <2>2. i \in Nat /\ i <= Bytes
    BY <1>1
  <2>3. QED
    BY <1>1, <2>2, TimesGrows
<1>6. \A i \in 1 .. Bytes : BitsOf(i - 1) + Bits = BitsOf(i)
  <2>1. SUFFICES ASSUME NEW i \in 1 .. Bytes PROVE BitsOf(i - 1) + Bits = BitsOf(i)
    OBVIOUS
  <2>2. i - 1 \in Nat /\ (i - 1) + 1 = i
    BY <1>1
  <2>3. BitsOf((i - 1) + 1) = BitsOf(i - 1) + Bits
    BY <1>4, <2>2
  <2>4. QED
    BY <2>2, <2>3
<1>7. Bits * Bytes \in Nat \ {0}
  BY <1>1, TimesGrows
<1>8. QED
  BY <1>2, <1>3, <1>4, <1>5, <1>6, <1>7 DEF BitsOf

-----------------------------------------------------------------------------
(* Powers of two.                                                          *)

LEMMA TwoToIs ==
  /\ TwoTo[0] = 1
  /\ \A n \in 1 .. Bits * Bytes : TwoTo[n] = 2 * TwoTo[n - 1]
  /\ \A n \in 0 .. Bits * Bytes : TwoTo[n] \in Nat \ {0}
<1> DEFINE N == Bits * Bytes
           T == Nat \ {0}
           step == [n \in 1 .. N |-> [s \in T |-> 2 * s]]
<1>1. N \in Nat
  BY BitsOfIs
<1> HIDE DEF N
<1>2. step \in [1 .. N -> [T -> T]]
  OBVIOUS
<1>3. \E f : f = [n \in 0 .. N |-> IF n = 0 THEN 1 ELSE 2 * f[n - 1]]
  <2> HIDE DEF step
  <2>1. PICK f \in [0 .. N -> T] :
           f[0] = 1 /\ \A n \in 1 .. N : f[n] = step[n][f[n - 1]]
    <3>1. 1 \in T
      OBVIOUS
    <3> HIDE DEF T
    <3>2. Recursive(N, T, 1, step)
      BY <1>1, <1>2, <3>1, RecursionUpTo
    <3>3. QED
      BY <3>2 DEF Recursive
  <2>2. \A n \in 1 .. N : f[n] = 2 * f[n - 1]
    <3>1. SUFFICES ASSUME NEW n \in 1 .. N PROVE f[n] = 2 * f[n - 1]
      OBVIOUS
    <3>2. n - 1 \in 0 .. N
      BY <1>1
    <3>3. f[n - 1] \in T
      BY <2>1, <3>2
    <3>4. QED
      BY <2>1, <3>3 DEF step
  <2>3. \A n \in 0 .. N : n # 0 => n \in 1 .. N
    BY <1>1
  <2>4. f = [n \in 0 .. N |-> IF n = 0 THEN 1 ELSE 2 * f[n - 1]]
    <3>1. f = [n \in 0 .. N |-> f[n]]
      BY <2>1
    <3>2. \A n \in 0 .. N : f[n] = IF n = 0 THEN 1 ELSE 2 * f[n - 1]
      BY <2>1, <2>2, <2>3
    <3>3. QED
      BY <3>1, <3>2, Zenon
  <2>5. QED
    BY <2>4
<1>4. TwoTo = [n \in 0 .. N |-> IF n = 0 THEN 1 ELSE 2 * TwoTo[n - 1]]
  BY <1>3, Zenon DEF TwoTo, N
<1>5. TwoTo[0] = 1
  <2>1. 0 \in 0 .. N
    BY <1>1
  <2>2. QED
    BY <1>4, <2>1
<1>6. \A n \in 1 .. N : TwoTo[n] = 2 * TwoTo[n - 1]
  <2>1. \A n \in 1 .. N : n \in 0 .. N /\ n # 0
    BY <1>1
  <2>2. QED
    BY <1>4, <2>1
<1> DEFINE P == {n \in 0 .. N : TwoTo[n] \in T}
<1>7. \A n \in 0 .. N : n \in P
  <2>1. 0 \in P
    BY <1>1, <1>5
  <2>2. \A n \in 1 .. N : n - 1 \in P => n \in P
    BY <1>1, <1>6
  <2> HIDE DEF P
  <2>3. QED
    BY <1>1, <2>1, <2>2, InductionUpTo
<1>8. QED
  BY <1>5, <1>6, <1>7 DEF N

LEMMA TwoToSum ==
  ASSUME NEW m \in Nat, NEW n \in Nat, m + n <= Bits * Bytes
  PROVE  TwoTo[m + n] = TwoTo[m] * TwoTo[n]
<1> DEFINE N == Bits * Bytes
<1>1. N \in Nat
  BY BitsOfIs
<1>2. /\ TwoTo[0] = 1
      /\ \A i \in 1 .. N : TwoTo[i] = 2 * TwoTo[i - 1]
      /\ \A i \in 0 .. N : TwoTo[i] \in Nat \ {0}
  BY TwoToIs
<1>3. m + n <= N
  OBVIOUS
<1> HIDE DEF N
<1> DEFINE P == {i \in 0 .. n : TwoTo[m + i] = TwoTo[m] * TwoTo[i]}
<1>4. m \in 0 .. N /\ TwoTo[m] \in Nat
  BY <1>1, <1>2, <1>3
<1>5. 0 \in P
  BY <1>2, <1>4
<1>6. ASSUME NEW i \in 1 .. n, i - 1 \in P
      PROVE  i \in P
  <2>1. m + i \in 1 .. N /\ (m + i) - 1 = m + (i - 1) /\ i \in 1 .. N /\ i - 1 \in 0 .. N
        /\ i \in 0 .. n
    BY <1>1, <1>3
  <2>2. TwoTo[m + i] = 2 * TwoTo[m + (i - 1)]
    BY <1>2, <2>1
  <2>3. TwoTo[m + (i - 1)] = TwoTo[m] * TwoTo[i - 1] /\ TwoTo[i - 1] \in Nat
    BY <1>2, <1>6, <2>1
  <2>4. TwoTo[i] = 2 * TwoTo[i - 1]
    BY <1>2, <2>1
  <2>5. TwoTo[m + i] = TwoTo[m] * TwoTo[i]
    BY <1>4, <2>2, <2>3, <2>4
  <2>6. QED
    BY <2>1, <2>5
<1> HIDE DEF P
<1>7. \A i \in 0 .. n : i \in P
  BY <1>5, <1>6, InductionUpTo
<1>8. n \in 0 .. n
  OBVIOUS
<1>9. QED
  BY <1>7, <1>8 DEF P

\* The weight of a byte with i bytes behind it.
Weight(i) == TwoTo[BitsOf(i)]

LEMMA WeightIs ==
  /\ Weight(0) = 1 /\ Weight(1) = Base /\ Weight(Bytes) = HowMany
  /\ \A i \in 0 .. Bytes : Weight(i) \in Nat \ {0}
  /\ \A i \in 1 .. Bytes : Weight(i) = Weight(i - 1) * Base
  /\ \A i \in 0 .. Bytes : Weight(Bytes) = Weight(i) * Weight(Bytes - i)
  /\ Base \in Nat \ {0} /\ HowMany \in Nat \ {0}
<1>1. Bits \in Nat \ {0} /\ Bytes \in Nat \ {0}
  BY BytesAssumption
<1>2. 1 \in 0 .. Bytes /\ Bytes \in 0 .. Bytes
  BY <1>1
<1>3. \A i \in 0 .. Bytes : BitsOf(i) \in 0 .. Bits * Bytes
  BY <1>1, BitsOfIs
<1>4. \A i \in 0 .. Bytes : Weight(i) \in Nat \ {0}
  BY <1>3, TwoToIs DEF Weight
<1>5. Weight(0) = 1 /\ Weight(1) = Base /\ Weight(Bytes) = HowMany
  BY BitsOfIs, TwoToIs DEF Weight, Base, HowMany
<1>6. ASSUME NEW i \in 1 .. Bytes PROVE Weight(i) = Weight(i - 1) * Base
  <2>1. BitsOf(i - 1) + Bits = BitsOf(i) /\ BitsOf(i) <= Bits * Bytes
        /\ BitsOf(i - 1) \in Nat
    <3>1. i - 1 \in Nat /\ i \in 0 .. Bytes
      BY <1>1
    <3>2. QED
      BY <3>1, BitsOfIs
  <2>2. TwoTo[BitsOf(i - 1) + Bits] = TwoTo[BitsOf(i - 1)] * TwoTo[Bits]
    BY <1>1, <2>1, TwoToSum
  <2>3. QED
    BY <2>1, <2>2 DEF Weight, Base
<1>7. ASSUME NEW i \in 0 .. Bytes PROVE Weight(Bytes) = Weight(i) * Weight(Bytes - i)
  <2>1. Bytes - i \in 0 .. Bytes /\ i \in Int
    BY <1>1
  <2>2. BitsOf(i) \in Nat /\ BitsOf(Bytes - i) \in Nat
    BY <1>3, <2>1
  <2>3. BitsOf(i) + BitsOf(Bytes - i) = BitsOf(Bytes)
    <3>1. (i + (Bytes - i)) * Bits = i * Bits + (Bytes - i) * Bits
      BY <1>1, <2>1, Times
    <3>2. i + (Bytes - i) = Bytes
      BY <1>1
    <3>3. QED
      BY <1>1, <2>1, <3>1, <3>2, Times DEF BitsOf
  <2>4. BitsOf(i) + BitsOf(Bytes - i) <= Bits * Bytes
    <3>1. BitsOf(Bytes) = Bits * Bytes /\ Bits * Bytes \in Nat
      BY BitsOfIs
    <3>2. QED
      BY <2>3, <3>1
  <2>5. TwoTo[BitsOf(i) + BitsOf(Bytes - i)] = TwoTo[BitsOf(i)] * TwoTo[BitsOf(Bytes - i)]
    BY <2>2, <2>4, TwoToSum
  <2>6. QED
    BY <2>3, <2>5 DEF Weight
<1>8. QED
  BY <1>2, <1>4, <1>5, <1>6, <1>7

-----------------------------------------------------------------------------
(* Keys as numbers.                                                        *)

LEMMA LeadingIs ==
  ASSUME NEW x \in Key
  PROVE  /\ Leading(x)[0] = 0
         /\ \A i \in 1 .. Bytes : Leading(x)[i] = Leading(x)[i - 1] * Base + x[i]
         /\ \A i \in 0 .. Bytes : Leading(x)[i] \in Nat /\ Leading(x)[i] < Weight(i)
<1> DEFINE step == [i \in 1 .. Bytes |-> [s \in Nat |-> s * Base + x[i]]]
           v == Leading(x)
<1>1. Bytes \in Nat /\ Base \in Nat \ {0} /\ \A i \in 1 .. Bytes : x[i] \in 0 .. Base - 1
  BY BytesAssumption, WeightIs DEF Key, Byte
<1>2. step \in [1 .. Bytes -> [Nat -> Nat]]
  <2>1. ASSUME NEW i \in 1 .. Bytes, NEW s \in Nat PROVE s * Base + x[i] \in Nat
    BY <1>1, TimesGrows
  <2>2. QED
    BY <2>1
<1>3. \E f : f = [i \in 0 .. Bytes |-> IF i = 0 THEN 0 ELSE f[i - 1] * Base + x[i]]
  <2> HIDE DEF step
  <2>1. Recursive(Bytes, Nat, 0, step)
    BY <1>1, <1>2, RecursionUpTo
  <2>2. PICK f \in [0 .. Bytes -> Nat] :
           f[0] = 0 /\ \A i \in 1 .. Bytes : f[i] = step[i][f[i - 1]]
    BY <2>1 DEF Recursive
  <2>3. \A i \in 1 .. Bytes : f[i] = f[i - 1] * Base + x[i]
    <3>1. SUFFICES ASSUME NEW i \in 1 .. Bytes PROVE f[i] = f[i - 1] * Base + x[i]
      OBVIOUS
    <3>2. i - 1 \in 0 .. Bytes
      BY <1>1
    <3>3. f[i - 1] \in Nat
      BY <2>2, <3>2
    <3>4. QED
      BY <2>2, <3>3 DEF step
  <2>4. \A i \in 0 .. Bytes : f[i] = IF i = 0 THEN 0 ELSE f[i - 1] * Base + x[i]
    <3>1. \A i \in 0 .. Bytes : i # 0 => i \in 1 .. Bytes
      BY <1>1
    <3>2. QED
      BY <2>2, <2>3, <3>1
  <2>5. f = [i \in 0 .. Bytes |-> f[i]]
    BY <2>2
  <2>6. f = [i \in 0 .. Bytes |-> IF i = 0 THEN 0 ELSE f[i - 1] * Base + x[i]]
    BY <2>4, <2>5, Zenon
  <2>7. QED
    BY <2>6
<1>4. v = [i \in 0 .. Bytes |-> IF i = 0 THEN 0 ELSE v[i - 1] * Base + x[i]]
  BY <1>3, Zenon DEF Leading
<1> HIDE DEF v
<1>5. v[0] = 0
  <2>1. 0 \in 0 .. Bytes
    BY <1>1
  <2>2. QED
    BY <1>4, <2>1
<1>6. \A i \in 1 .. Bytes : v[i] = v[i - 1] * Base + x[i]
  <2>1. \A i \in 1 .. Bytes : i \in 0 .. Bytes /\ i # 0
    BY <1>1
  <2>2. QED
    BY <1>4, <2>1
<1> DEFINE P == {i \in 0 .. Bytes : v[i] \in Nat /\ v[i] < Weight(i)}
<1>7. 0 \in P
  BY <1>1, <1>5, WeightIs
<1>8. ASSUME NEW i \in 1 .. Bytes, i - 1 \in P
      PROVE  i \in P
  <2> DEFINE l == v[i - 1]
             w == Weight(i - 1)
  <2>1. l \in Nat /\ w \in Nat /\ l + 1 <= w
    BY <1>1, <1>8, WeightIs
  <2>2. Weight(i) = w * Base
    BY WeightIs
  <2>3. v[i] = l * Base + x[i] /\ x[i] \in 0 .. Base - 1
    BY <1>1, <1>6
  <2> HIDE DEF l, w
  <2>4. (l + 1) * Base <= w * Base
    BY <1>1, <2>1, TimesGrows
  <2>5. (l + 1) * Base = l * Base + Base /\ l * Base \in Nat /\ w * Base \in Nat
    BY <1>1, <2>1, TimesGrows, Times
  <2>6. v[i] \in Nat /\ v[i] < Weight(i)
    BY <1>1, <2>2, <2>3, <2>4, <2>5
  <2>7. QED
    BY <2>6
<1>9. \A i \in 0 .. Bytes : i \in P
  <2> HIDE DEF P
  <2>1. QED
    BY <1>1, <1>7, <1>8, InductionUpTo
<1>10. QED
  BY <1>5, <1>6, <1>9 DEF v

LEMMA ValueIs ==
  \A x \in Key : Value(x) \in 0 .. HowMany - 1
<1>1. SUFFICES ASSUME NEW x \in Key PROVE Value(x) \in 0 .. HowMany - 1
  OBVIOUS
<1>2. Bytes \in 0 .. Bytes
  BY BytesAssumption
<1>3. Value(x) \in Nat /\ Value(x) < HowMany /\ HowMany \in Nat
  BY <1>2, LeadingIs, WeightIs DEF Value
<1>4. QED
  BY <1>3

\* What is carried from byte to byte.
LEMMA BorrowsAre ==
  ASSUME NEW x \in Key, NEW y \in Key
  PROVE  /\ Borrows(x, y)[0] = 0
         /\ Borrows(x, y) \in [0 .. Bytes -> {0, 1}]
         /\ \A i \in 1 .. Bytes :
               Borrows(x, y)[i] =
                 IF y[FromEnd(i)] > x[FromEnd(i)] - Borrows(x, y)[i - 1] THEN 1 ELSE 0
<1> DEFINE T == {0, 1}
           step == [i \in 1 .. Bytes |->
                       [s \in T |-> IF y[FromEnd(i)] > x[FromEnd(i)] - s THEN 1 ELSE 0]]
           c == Borrows(x, y)
<1>1. Bytes \in Nat
  BY BytesAssumption
<1>2. step \in [1 .. Bytes -> [T -> T]]
  OBVIOUS
<1>3. \E f : f = [i \in 0 .. Bytes |->
                    IF i = 0 THEN 0
                    ELSE IF y[FromEnd(i)] > x[FromEnd(i)] - f[i - 1] THEN 1 ELSE 0]
  <2>1. 0 \in T
    OBVIOUS
  <2> HIDE DEF step, T
  <2>2. Recursive(Bytes, T, 0, step)
    BY <1>1, <1>2, <2>1, RecursionUpTo
  <2>3. PICK f \in [0 .. Bytes -> T] :
           f[0] = 0 /\ \A i \in 1 .. Bytes : f[i] = step[i][f[i - 1]]
    BY <2>2 DEF Recursive
  <2>4. \A i \in 1 .. Bytes :
           f[i] = IF y[FromEnd(i)] > x[FromEnd(i)] - f[i - 1] THEN 1 ELSE 0
    <3>1. SUFFICES ASSUME NEW i \in 1 .. Bytes
                   PROVE f[i] = IF y[FromEnd(i)] > x[FromEnd(i)] - f[i - 1] THEN 1 ELSE 0
      OBVIOUS
    <3>2. i - 1 \in 0 .. Bytes
      BY <1>1
    <3>3. f[i - 1] \in T
      BY <2>3, <3>2
    <3>4. QED
      BY <2>3, <3>3, Zenon DEF step
  <2>5. \A i \in 0 .. Bytes : i # 0 => i \in 1 .. Bytes
    BY <1>1
  <2>6. f = [i \in 0 .. Bytes |-> f[i]]
    BY <2>3
  <2>7. f = [i \in 0 .. Bytes |->
               IF i = 0 THEN 0
               ELSE IF y[FromEnd(i)] > x[FromEnd(i)] - f[i - 1] THEN 1 ELSE 0]
    BY <2>3, <2>4, <2>5, <2>6, Zenon
  <2>8. QED
    BY <2>7
<1>4. c = [i \in 0 .. Bytes |->
             IF i = 0 THEN 0
             ELSE IF y[FromEnd(i)] > x[FromEnd(i)] - c[i - 1] THEN 1 ELSE 0]
  BY <1>3, Zenon DEF Borrows
<1> HIDE DEF c
<1>5. 0 \in 0 .. Bytes /\ \A i \in 1 .. Bytes : i \in 0 .. Bytes /\ i # 0
  BY <1>1
<1>6. c[0] = 0
  BY <1>4, <1>5, Zenon
<1>7. \A i \in 1 .. Bytes :
         c[i] = IF y[FromEnd(i)] > x[FromEnd(i)] - c[i - 1] THEN 1 ELSE 0
  BY <1>4, <1>5, Zenon
<1>8. c \in [0 .. Bytes -> {0, 1}]
  BY <1>4, Zenon
<1>9. QED
  BY <1>6, <1>7, <1>8 DEF c

LEMMA CarriesAre ==
  ASSUME NEW x \in Key, NEW y \in Key
  PROVE  /\ Carries(x, y)[0] = 0
         /\ Carries(x, y) \in [0 .. Bytes -> {0, 1}]
         /\ \A i \in 1 .. Bytes :
               Carries(x, y)[i] =
                 IF x[FromEnd(i)] + y[FromEnd(i)] + Carries(x, y)[i - 1] >= Base THEN 1 ELSE 0
<1> DEFINE T == {0, 1}
           step == [i \in 1 .. Bytes |->
                       [s \in T |-> IF x[FromEnd(i)] + y[FromEnd(i)] + s >= Base THEN 1 ELSE 0]]
           c == Carries(x, y)
<1>1. Bytes \in Nat
  BY BytesAssumption
<1>2. step \in [1 .. Bytes -> [T -> T]]
  OBVIOUS
<1>3. \E f : f = [i \in 0 .. Bytes |->
                    IF i = 0 THEN 0
                    ELSE IF x[FromEnd(i)] + y[FromEnd(i)] + f[i - 1] >= Base THEN 1 ELSE 0]
  <2>1. 0 \in T
    OBVIOUS
  <2> HIDE DEF step, T
  <2>2. Recursive(Bytes, T, 0, step)
    BY <1>1, <1>2, <2>1, RecursionUpTo
  <2>3. PICK f \in [0 .. Bytes -> T] :
           f[0] = 0 /\ \A i \in 1 .. Bytes : f[i] = step[i][f[i - 1]]
    BY <2>2 DEF Recursive
  <2>4. \A i \in 1 .. Bytes :
           f[i] = IF x[FromEnd(i)] + y[FromEnd(i)] + f[i - 1] >= Base THEN 1 ELSE 0
    <3>1. SUFFICES ASSUME NEW i \in 1 .. Bytes
                   PROVE f[i] = IF x[FromEnd(i)] + y[FromEnd(i)] + f[i - 1] >= Base THEN 1 ELSE 0
      OBVIOUS
    <3>2. i - 1 \in 0 .. Bytes
      BY <1>1
    <3>3. f[i - 1] \in T
      BY <2>3, <3>2
    <3>4. QED
      BY <2>3, <3>3, Zenon DEF step
  <2>5. \A i \in 0 .. Bytes : i # 0 => i \in 1 .. Bytes
    BY <1>1
  <2>6. f = [i \in 0 .. Bytes |-> f[i]]
    BY <2>3
  <2>7. f = [i \in 0 .. Bytes |->
               IF i = 0 THEN 0
               ELSE IF x[FromEnd(i)] + y[FromEnd(i)] + f[i - 1] >= Base THEN 1 ELSE 0]
    BY <2>3, <2>4, <2>5, <2>6, Zenon
  <2>8. QED
    BY <2>7
<1>4. c = [i \in 0 .. Bytes |->
             IF i = 0 THEN 0
             ELSE IF x[FromEnd(i)] + y[FromEnd(i)] + c[i - 1] >= Base THEN 1 ELSE 0]
  BY <1>3, Zenon DEF Carries
<1> HIDE DEF c
<1>5. 0 \in 0 .. Bytes /\ \A i \in 1 .. Bytes : i \in 0 .. Bytes /\ i # 0
  BY <1>1
<1>6. c[0] = 0
  BY <1>4, <1>5, Zenon
<1>7. \A i \in 1 .. Bytes :
         c[i] = IF x[FromEnd(i)] + y[FromEnd(i)] + c[i - 1] >= Base THEN 1 ELSE 0
  BY <1>4, <1>5, Zenon
<1>8. c \in [0 .. Bytes -> {0, 1}]
  BY <1>4, Zenon
<1>9. QED
  BY <1>6, <1>7, <1>8 DEF c

\* Byte by byte z and y make x, with the carries c from the last byte to the first.
AddUp(x, y, z, c) ==
    /\ c \in [0 .. Bytes -> {0, 1}] /\ c[0] = 0
    /\ \A i \in 1 .. Bytes : z[i] + y[i] + c[Bytes - i] = x[i] + Base * c[FromEnd(i)]

\* Then the numbers do, up to what is carried out of the first.
LEMMA Columns ==
  ASSUME NEW x \in Key, NEW y \in Key, NEW z \in Key, NEW c, AddUp(x, y, z, c)
  PROVE  Value(z) + Value(y) = Value(x) + c[Bytes] * HowMany
<1> DEFINE X(i) == Leading(x)[i]
           Y(i) == Leading(y)[i]
           Z(i) == Leading(z)[i]
           k == c[Bytes]
           P == {i \in 0 .. Bytes : Z(i) + Y(i) + c[Bytes - i] = X(i) + k * Weight(i)}
<1>1. Bytes \in Nat /\ Base \in Nat /\ Bytes \in 0 .. Bytes /\ 0 \in 0 .. Bytes
  BY BytesAssumption, WeightIs
<1>2. X(0) = 0 /\ Y(0) = 0 /\ Z(0) = 0
  BY LeadingIs
<1>3. \A i \in 0 .. Bytes : X(i) \in Nat /\ Y(i) \in Nat /\ Z(i) \in Nat
  BY LeadingIs
<1>4. \A i \in 1 .. Bytes : /\ X(i) = X(i - 1) * Base + x[i]
                            /\ Y(i) = Y(i - 1) * Base + y[i]
                            /\ Z(i) = Z(i - 1) * Base + z[i]
  BY LeadingIs
<1>5. k \in {0, 1}
  BY <1>1 DEF AddUp
<1> HIDE DEF X, Y, Z, k
<1>6. 0 \in P
  <2>1. Bytes - 0 = Bytes /\ Weight(0) = 1
    BY <1>1, WeightIs
  <2>2. Z(0) + Y(0) + c[Bytes - 0] = X(0) + k * Weight(0)
    BY <1>2, <1>5, <2>1 DEF k
  <2>3. QED
    BY <1>1, <2>2
<1>7. ASSUME NEW i \in 1 .. Bytes, i - 1 \in P
      PROVE  i \in P
  <2> DEFINE w == Weight(i - 1)
             in == c[Bytes - i]
             out == c[FromEnd(i)]
             p == X(i - 1)
             q == Y(i - 1)
             r == Z(i - 1)
  <2>1. i - 1 \in 0 .. Bytes /\ i \in 0 .. Bytes /\ Bytes - (i - 1) = FromEnd(i)
        /\ Bytes - i \in 0 .. Bytes /\ FromEnd(i) \in 0 .. Bytes
    BY <1>1 DEF FromEnd
  <2>2. r + q + out = p + k * w
    BY <1>7, <2>1
  <2>3. /\ p \in Int /\ q \in Int /\ r \in Int /\ w \in Int
        /\ out \in {0, 1} /\ in \in {0, 1}
    <3>1. out \in {0, 1} /\ in \in {0, 1}
      BY <2>1 DEF AddUp
    <3>2. p \in Int /\ q \in Int /\ r \in Int
      BY <1>3, <2>1
    <3>3. w \in Int
      BY <2>1, WeightIs
    <3>4. QED
      BY <3>1, <3>2, <3>3
  <2>4. /\ X(i) = p * Base + x[i] /\ Y(i) = q * Base + y[i] /\ Z(i) = r * Base + z[i]
        /\ Weight(i) = w * Base
    BY <1>4, WeightIs
  <2>5. z[i] + y[i] + in = x[i] + Base * out
    BY DEF AddUp
  <2>6. x[i] \in Int /\ y[i] \in Int /\ z[i] \in Int
    BY DEF Key, Byte
  <2> HIDE DEF w, in, out, p, q, r
  <2>7. r * Base + q * Base + out * Base = p * Base + (k * w) * Base
    <3>1. (r + q + out) * Base = r * Base + q * Base + out * Base
      BY <1>1, <2>3
    <3>2. k * w \in Int
      BY <1>5, <2>3
    <3>3. (p + k * w) * Base = p * Base + (k * w) * Base
      BY <1>1, <2>3, <3>2, Times
    <3>4. QED
      BY <2>2, <3>1, <3>3
  <2>8. (k * w) * Base = k * Weight(i) /\ out * Base = Base * out
    BY <1>1, <1>5, <2>3, <2>4, Times
  <2>9. Z(i) + Y(i) + in = X(i) + k * Weight(i)
    <3>1. /\ r * Base \in Int /\ q * Base \in Int /\ p * Base \in Int
          /\ Base * out \in Int /\ k * Weight(i) \in Int
      BY <1>1, <1>5, <2>3, <2>4, Times
    <3>2. r * Base + q * Base + Base * out = p * Base + k * Weight(i)
      BY <2>7, <2>8
    <3> DEFINE rb == r * Base
               qb == q * Base
               pb == p * Base
               ob == Base * out
               kw == k * Weight(i)
    <3>3. /\ rb \in Int /\ qb \in Int /\ pb \in Int /\ ob \in Int /\ kw \in Int
          /\ rb + qb + ob = pb + kw
          /\ X(i) = pb + x[i] /\ Y(i) = qb + y[i] /\ Z(i) = rb + z[i]
          /\ z[i] + y[i] + in = x[i] + ob
      BY <2>4, <2>5, <3>1, <3>2
    <3> HIDE DEF rb, qb, pb, ob, kw
    <3> DEFINE xi == x[i]
               yi == y[i]
               zi == z[i]
    <3>4. xi \in Int /\ yi \in Int /\ zi \in Int /\ in \in Int /\ zi + yi + in = xi + ob
      BY <2>3, <2>6, <3>3
    <3> HIDE DEF xi, yi, zi
    <3>5. (rb + zi) + (qb + yi) + in = (pb + xi) + kw
      BY <3>3, <3>4
    <3>6. QED
      BY <3>3, <3>5 DEF kw, xi, yi, zi
  <2>10. QED
    BY <2>1, <2>9 DEF in
<1>8. \A i \in 0 .. Bytes : i \in P
  <2> HIDE DEF P
  <2>1. QED
    BY <1>1, <1>6, <1>7, InductionUpTo
<1>9. Z(Bytes) + Y(Bytes) + c[Bytes - Bytes] = X(Bytes) + k * Weight(Bytes)
  BY <1>1, <1>8
<1>10. c[Bytes - Bytes] = 0
  BY <1>1 DEF AddUp
<1>11. Value(z) + Value(y) + 0 = Value(x) + c[Bytes] * HowMany
  BY <1>9, <1>10, WeightIs DEF X, Y, Z, k, Value
<1>12. QED
  BY <1>11, ValueIs

LEMMA SubIs ==
  ASSUME NEW x \in Key, NEW y \in Key
  PROVE  /\ encSub(x, y) \in Key /\ Sub(x, y).carry \in {0, 1}
         /\ Sub(x, y).bytes = encSub(x, y)
         /\ Value(encSub(x, y)) + Value(y) = Value(x) + Sub(x, y).carry * HowMany
<1> DEFINE c == Borrows(x, y)
           z == encSub(x, y)
<1>1. Bytes \in Nat /\ Base \in Nat
  BY BytesAssumption, WeightIs
<1>2. /\ c[0] = 0
      /\ \A i \in 0 .. Bytes : c[i] \in {0, 1}
      /\ \A i \in 1 .. Bytes :
            c[i] = IF y[FromEnd(i)] > x[FromEnd(i)] - c[i - 1] THEN 1 ELSE 0
  BY BorrowsAre
<1>3. z = [i \in 1 .. Bytes |-> (x[i] - c[Bytes - i]) - (y[i] - Base * c[FromEnd(i)])]
  BY DEF encSub, Sub
<1>4. Sub(x, y).carry = c[Bytes]
  BY DEF Sub
<1>5. c \in [0 .. Bytes -> {0, 1}]
  BY BorrowsAre
<1> HIDE DEF c, z
<1>6. ASSUME NEW i \in 1 .. Bytes
      PROVE  z[i] \in Byte /\ z[i] + y[i] + c[Bytes - i] = x[i] + Base * c[FromEnd(i)]
  <2> DEFINE in == c[Bytes - i]
             out == c[FromEnd(i)]
  <2>1. /\ FromEnd(i) \in 1 .. Bytes /\ FromEnd(FromEnd(i)) = i
        /\ FromEnd(i) - 1 = Bytes - i /\ Bytes - i \in 0 .. Bytes
        /\ FromEnd(i) \in 0 .. Bytes
    BY <1>1 DEF FromEnd
  <2>2. in \in {0, 1} /\ out \in {0, 1} /\ out = IF y[i] > x[i] - in THEN 1 ELSE 0
    BY <1>2, <2>1
  <2>3. x[i] \in 0 .. Base - 1 /\ y[i] \in 0 .. Base - 1
    BY DEF Key, Byte
  <2>4. z[i] = (x[i] - in) - (y[i] - Base * out)
    BY <1>3
  <2> HIDE DEF in, out
  <2>5. Base * 1 = Base /\ Base * 0 = 0
    BY <1>1
  <2>6. z[i] \in 0 .. Base - 1 /\ z[i] + y[i] + in = x[i] + Base * out
    <3>1. CASE y[i] > x[i] - in
      BY <1>1, <2>2, <2>3, <2>4, <2>5, <3>1
    <3>2. CASE ~(y[i] > x[i] - in)
      BY <1>1, <2>2, <2>3, <2>4, <2>5, <3>2
    <3>3. QED
      BY <3>1, <3>2
  <2>7. QED
    BY <2>6 DEF in, out, Byte
<1>7. z \in Key
  BY <1>3, <1>6 DEF Key
<1>8. Value(z) + Value(y) = Value(x) + c[Bytes] * HowMany
  <2>1. AddUp(x, y, z, c)
    BY <1>2, <1>5, <1>6 DEF AddUp
  <2>2. QED
    BY <1>7, <2>1, Columns
<1>9. c[Bytes] \in {0, 1}
  BY <1>1, <1>2
<1>10. QED
  BY <1>4, <1>7, <1>8, <1>9 DEF z, encSub

LEMMA AddIs ==
  ASSUME NEW x \in Key, NEW y \in Key
  PROVE  /\ encAdd(x, y) \in Key /\ Add(x, y).carry \in {0, 1}
         /\ Value(x) + Value(y) = Value(encAdd(x, y)) + Add(x, y).carry * HowMany
<1> DEFINE c == Carries(x, y)
           z == encAdd(x, y)
<1>1. Bytes \in Nat /\ Base \in Nat
  BY BytesAssumption, WeightIs
<1>2. /\ c[0] = 0
      /\ \A i \in 0 .. Bytes : c[i] \in {0, 1}
      /\ \A i \in 1 .. Bytes :
            c[i] = IF x[FromEnd(i)] + y[FromEnd(i)] + c[i - 1] >= Base THEN 1 ELSE 0
  BY CarriesAre
<1>3. z = [i \in 1 .. Bytes |-> (x[i] + y[i] + c[Bytes - i]) - Base * c[FromEnd(i)]]
  BY DEF encAdd, Add
<1>4. Add(x, y).carry = c[Bytes]
  BY DEF Add
<1>5. c \in [0 .. Bytes -> {0, 1}]
  BY CarriesAre
<1> HIDE DEF c, z
<1>6. ASSUME NEW i \in 1 .. Bytes
      PROVE  z[i] \in Byte /\ x[i] + y[i] + c[Bytes - i] = z[i] + Base * c[FromEnd(i)]
  <2> DEFINE in == c[Bytes - i]
             out == c[FromEnd(i)]
  <2>1. /\ FromEnd(i) \in 1 .. Bytes /\ FromEnd(FromEnd(i)) = i
        /\ FromEnd(i) - 1 = Bytes - i /\ Bytes - i \in 0 .. Bytes
        /\ FromEnd(i) \in 0 .. Bytes
    BY <1>1 DEF FromEnd
  <2>2. in \in {0, 1} /\ out \in {0, 1} /\ out = IF x[i] + y[i] + in >= Base THEN 1 ELSE 0
    BY <1>2, <2>1
  <2>3. x[i] \in 0 .. Base - 1 /\ y[i] \in 0 .. Base - 1
    BY DEF Key, Byte
  <2>4. z[i] = (x[i] + y[i] + in) - Base * out
    BY <1>3
  <2> HIDE DEF in, out
  <2>5. Base * 1 = Base /\ Base * 0 = 0
    BY <1>1
  <2>6. z[i] \in 0 .. Base - 1 /\ x[i] + y[i] + in = z[i] + Base * out
    <3>1. CASE x[i] + y[i] + in >= Base
      BY <1>1, <2>2, <2>3, <2>4, <2>5, <3>1
    <3>2. CASE ~(x[i] + y[i] + in >= Base)
      BY <1>1, <2>2, <2>3, <2>4, <2>5, <3>2
    <3>3. QED
      BY <3>1, <3>2
  <2>7. QED
    BY <2>6 DEF in, out, Byte
<1>7. z \in Key
  BY <1>3, <1>6 DEF Key
<1>8. Value(x) + Value(y) = Value(z) + c[Bytes] * HowMany
  <2>1. AddUp(z, y, x, c)
    BY <1>2, <1>5, <1>6 DEF AddUp
  <2>2. QED
    BY <1>7, <2>1, Columns
<1>9. c[Bytes] \in {0, 1}
  BY <1>1, <1>2
<1>10. QED
  BY <1>4, <1>7, <1>8, <1>9 DEF z

-----------------------------------------------------------------------------
(* Keys on the ring.                                                       *)

\* What is left of x without y is how far x lies ahead of y, and the remainder says
\* which is the greater.
LEMMA SubIsAhead ==
  ASSUME NEW x \in Key, NEW y \in Key
  PROVE  /\ Value(encSub(x, y)) = Ring!Ahead(Value(y), Value(x))
         /\ Sub(x, y).carry = IF Value(x) < Value(y) THEN 1 ELSE 0
<1> DEFINE d == Value(encSub(x, y))
           u == Value(x)
           v == Value(y)
           c == Sub(x, y).carry
           n == HowMany
<1>1. d + v = u + c * n /\ c \in {0, 1} /\ encSub(x, y) \in Key
  BY SubIs
<1>2. /\ d \in 0 .. n - 1 /\ u \in 0 .. n - 1 /\ v \in 0 .. n - 1
      /\ n \in Nat
  BY <1>1, ValueIs, WeightIs
<1>3. Ring!Ahead(v, u) = IF v <= u THEN u - v ELSE u - v + n
  BY DEF Ring!Ahead
<1> HIDE DEF d, u, v, c, n
<1>4. 0 * n = 0 /\ 1 * n = n
  BY <1>2
<1>5. CASE c = 0
  <2>1. d + v = u
    BY <1>1, <1>2, <1>4, <1>5
  <2>2. d = Ring!Ahead(v, u) /\ ~(u < v)
    BY <1>2, <1>3, <2>1
  <2>3. QED
    BY <1>5, <2>2 DEF d, u, v, c
<1>6. CASE c = 1
  <2>1. d + v = u + n
    BY <1>1, <1>2, <1>4, <1>6
  <2>2. d = Ring!Ahead(v, u) /\ u < v
    BY <1>2, <1>3, <2>1
  <2>3. QED
    BY <1>6, <2>2 DEF d, u, v, c
<1>7. QED
  BY <1>1, <1>5, <1>6

\* A key is nothing if no byte of it is anything.
LEMMA NoBytes ==
  ASSUME NEW x \in Key
  PROVE  (\E i \in DOMAIN x : x[i] # 0) <=> Value(x) # 0
<1> DEFINE L(i) == Leading(x)[i]
           P == {i \in 0 .. Bytes : L(i) = 0 <=> \A j \in 1 .. i : x[j] = 0}
<1>1. /\ Bytes \in Nat /\ Base \in Nat \ {0} /\ DOMAIN x = 1 .. Bytes
      /\ \A i \in 1 .. Bytes : x[i] \in Nat
  <2>1. Bytes \in Nat /\ Base \in Nat \ {0} /\ DOMAIN x = 1 .. Bytes
    BY BytesAssumption, WeightIs DEF Key
  <2>2. \A i \in 1 .. Bytes : x[i] \in 0 .. Base - 1
    BY DEF Key, Byte
  <2>3. QED
    BY <2>1, <2>2
<1>2. /\ L(0) = 0
      /\ \A i \in 1 .. Bytes : L(i) = L(i - 1) * Base + x[i]
      /\ \A i \in 0 .. Bytes : L(i) \in Nat
  BY LeadingIs
<1> HIDE DEF L
<1>3. 0 \in P
  BY <1>1, <1>2
<1>4. ASSUME NEW i \in 1 .. Bytes, i - 1 \in P
      PROVE  i \in P
  <2> DEFINE l == L(i - 1)
             y == x[i]
  <2>1. i \in 0 .. Bytes /\ i - 1 \in 0 .. Bytes /\ l \in Nat /\ y \in Nat
    BY <1>1, <1>2
  <2>2. L(i) = l * Base + y
    BY <1>2
  <2>3. l = 0 <=> \A j \in 1 .. i - 1 : x[j] = 0
    BY <1>4
  <2>4. (\A j \in 1 .. i : x[j] = 0) <=> (y = 0 /\ \A j \in 1 .. i - 1 : x[j] = 0)
    <3>1. \A j \in 1 .. i : j = i \/ j \in 1 .. i - 1
      BY <2>1
    <3>2. i \in 1 .. i /\ \A j \in 1 .. i - 1 : j \in 1 .. i
      BY <2>1
    <3>3. QED
      BY <3>1, <3>2
  <2> HIDE DEF l, y
  <2>5. l * Base + y = 0 <=> (l = 0 /\ y = 0)
    <3>1. l * Base \in Nat /\ 0 * Base = 0 /\ (l # 0 => l * Base # 0)
      BY <1>1, <2>1, TimesGrows
    <3>2. QED
      BY <2>1, <3>1
  <2>6. L(i) = 0 <=> \A j \in 1 .. i : x[j] = 0
    BY <2>2, <2>3, <2>4, <2>5
  <2>7. QED
    BY <2>1, <2>6
<1>5. \A i \in 0 .. Bytes : i \in P
  <2> HIDE DEF P
  <2>1. QED
    BY <1>1, <1>3, <1>4, InductionUpTo
<1>6. L(Bytes) = 0 <=> \A j \in 1 .. Bytes : x[j] = 0
  BY <1>1, <1>5
<1>7. QED
  BY <1>1, <1>6 DEF L, Value

\* The first byte says how many of its weights there are.
LEMMA FirstByte ==
  ASSUME NEW x \in Key
  PROVE  /\ x[1] * Weight(Bytes - 1) <= Value(x)
         /\ Value(x) < (x[1] + 1) * Weight(Bytes - 1)
<1> DEFINE L(i) == Leading(x)[i]
           k == x[1]
           P == {i \in 0 .. Bytes : i # 0 => /\ k * Weight(i - 1) <= L(i)
                                             /\ L(i) + 1 <= (k + 1) * Weight(i - 1)}
<1>1. /\ Bytes \in Nat \ {0} /\ Base \in Nat \ {0}
      /\ \A i \in 1 .. Bytes : x[i] \in 0 .. Base - 1
  BY BytesAssumption, WeightIs DEF Key, Byte
<1>2. /\ L(0) = 0
      /\ \A i \in 1 .. Bytes : L(i) = L(i - 1) * Base + x[i]
      /\ \A i \in 0 .. Bytes : L(i) \in Nat
  BY LeadingIs
<1>3. k \in Nat
  BY <1>1
<1> HIDE DEF L, k
<1>4. 0 \in P
  BY <1>1
<1>5. ASSUME NEW i \in 1 .. Bytes, i - 1 \in P
      PROVE  i \in P
  <2>1. i \in 0 .. Bytes /\ i - 1 \in 0 .. Bytes
    BY <1>1
  <2>2. CASE i = 1
    <3>1. L(1) = 0 * Base + k /\ Weight(0) = 1
      BY <1>1, <1>2, WeightIs DEF k
    <3>2. L(1) = k
      BY <1>1, <1>3, <3>1
    <3>3. k * Weight(0) = k /\ (k + 1) * Weight(0) = k + 1
      BY <1>3, <3>1
    <3>4. 1 - 1 = 0
      OBVIOUS
    <3>5. QED
      BY <1>3, <2>1, <2>2, <3>2, <3>3, <3>4
  <2>3. CASE i # 1
    <3> DEFINE l == L(i - 1)
               w == Weight((i - 1) - 1)
               y == x[i]
    <3>1. i - 1 \in 1 .. Bytes /\ (i - 1) - 1 \in 0 .. Bytes
      BY <1>1, <2>3
    <3>2. k * w <= l /\ l + 1 <= (k + 1) * w
      BY <1>5, <3>1
    <3>3. l \in Nat /\ w \in Nat /\ y \in 0 .. Base - 1
      BY <1>1, <1>2, <3>1, WeightIs
    <3>4. L(i) = l * Base + y
      BY <1>2
    <3>5. Weight(i - 1) = w * Base
      BY <3>1, WeightIs
    <3> HIDE DEF l, w, y
    <3>6. k * w \in Nat /\ (k + 1) * w \in Nat /\ k + 1 \in Nat
      BY <1>3, <3>3, TimesGrows
    <3>7. (k * w) * Base <= l * Base /\ (l + 1) * Base <= ((k + 1) * w) * Base
      BY <1>1, <3>2, <3>3, <3>6, TimesGrows
    <3>8. (k * w) * Base = k * (w * Base) /\ ((k + 1) * w) * Base = (k + 1) * (w * Base)
      BY <1>1, <1>3, <3>3, <3>6, Times
    <3>9. (l + 1) * Base = l * Base + Base /\ l * Base \in Nat
      BY <1>1, <3>3, TimesGrows
    <3>10. k * (w * Base) \in Int /\ (k + 1) * (w * Base) \in Int
      BY <1>1, <1>3, <3>3, Times
    <3>11. k * (w * Base) <= L(i) /\ L(i) + 1 <= (k + 1) * (w * Base)
      <4> DEFINE lb == l * Base
                 low == k * (w * Base)
                 high == (k + 1) * (w * Base)
      <4>1. /\ lb \in Nat /\ low \in Int /\ high \in Int
            /\ low <= lb /\ lb + Base <= high /\ L(i) = lb + y
        BY <3>4, <3>7, <3>8, <3>9, <3>10
      <4> HIDE DEF lb, low, high
      <4>2. low <= L(i) /\ L(i) + 1 <= high
        BY <1>1, <3>3, <4>1
      <4>3. QED
        BY <4>2 DEF low, high
    <3>12. k * Weight(i - 1) <= L(i) /\ L(i) + 1 <= (k + 1) * Weight(i - 1)
      BY <3>5, <3>11
    <3>13. QED
      BY <2>1, <3>12
  <2>4. QED
    BY <2>2, <2>3
<1>6. \A i \in 0 .. Bytes : i \in P
  <2> HIDE DEF P
  <2>1. QED
    BY <1>1, <1>4, <1>5, InductionUpTo
<1>7. Bytes \in 0 .. Bytes /\ Bytes # 0 /\ Bytes - 1 \in 0 .. Bytes
  BY <1>1
<1>8. k * Weight(Bytes - 1) <= L(Bytes) /\ L(Bytes) + 1 <= (k + 1) * Weight(Bytes - 1)
  BY <1>6, <1>7
<1>9. L(Bytes) \in Nat /\ (k + 1) * Weight(Bytes - 1) \in Nat
  <2>1. Weight(Bytes - 1) \in Nat /\ k + 1 \in Nat
    BY <1>3, <1>7, WeightIs
  <2>2. QED
    BY <1>2, <1>7, <2>1, TimesGrows
<1>10. L(Bytes) < (k + 1) * Weight(Bytes - 1)
  BY <1>8, <1>9
<1>11. QED
  BY <1>8, <1>10 DEF L, k, Value

\* The top bit says whether a key is half the ring or more.
LEMMA NegativeIs ==
  ASSUME NEW x \in Key
  PROVE  Negative(x) <=> 2 * Value(x) >= HowMany
<1> DEFINE h == TwoTo[Bits - 1]
           w == Weight(Bytes - 1)
           k == x[1]
           v == Value(x)
<1>1. Bits \in Nat \ {0} /\ Bytes \in Nat \ {0}
  BY BytesAssumption
<1>2. Bits \in 1 .. Bits * Bytes /\ Bits - 1 \in 0 .. Bits * Bytes
  <2>1. BitsOf(1) <= Bits * Bytes /\ BitsOf(1) = Bits /\ Bits * Bytes \in Nat
    <3>1. 1 \in 0 .. Bytes
      BY <1>1
    <3>2. QED
      BY <3>1, BitsOfIs
  <2>2. QED
    BY <1>1, <2>1
<1>3. Base = 2 * h /\ h \in Nat
  BY <1>2, TwoToIs DEF Base
<1>4. 1 \in 0 .. Bytes /\ Bytes - 1 \in 0 .. Bytes
  BY <1>1
<1>5. HowMany = Base * w /\ w \in Nat
  <2>1. Weight(Bytes) = Weight(1) * Weight(Bytes - 1)
    BY <1>4, WeightIs
  <2>2. QED
    BY <1>4, <2>1, WeightIs
<1>6. k \in Nat /\ v \in Nat
  <2>1. 1 \in 1 .. Bytes
    BY <1>1
  <2>2. QED
    BY <2>1, ValueIs, WeightIs DEF Key, Byte
<1>7. k * w <= v /\ v < (k + 1) * w
  BY FirstByte
<1>8. Base \div 2 = h
  BY <1>3
<1>9. Negative(x) <=> k >= h
  BY <1>8 DEF Negative
<1> HIDE DEF h, w, k, v
<1>10. HowMany = 2 * (h * w) /\ h * w \in Nat /\ k * w \in Nat /\ (k + 1) * w \in Nat
  <2>1. HowMany = (2 * h) * w
    BY <1>3, <1>5
  <2>2. (2 * h) * w = 2 * (h * w)
    BY <1>3, <1>5, Times
  <2>3. QED
    BY <1>3, <1>5, <1>6, <2>1, <2>2, TimesGrows
<1> DEFINE hw == h * w
           low == k * w
           high == (k + 1) * w
<1>11. CASE k >= h
  <2>1. hw <= low
    BY <1>3, <1>5, <1>6, <1>11, TimesGrows
  <2>2. HowMany = 2 * hw /\ hw \in Nat /\ low \in Nat /\ low <= v
    BY <1>7, <1>10
  <2> HIDE DEF hw, low
  <2>3. 2 * v >= HowMany
    BY <1>6, <2>1, <2>2
  <2>4. QED
    BY <1>9, <1>11, <2>3 DEF v
<1>12. CASE ~(k >= h)
  <2>1. k + 1 <= h /\ k + 1 \in Nat
    BY <1>3, <1>6, <1>12
  <2>2. high <= hw
    BY <1>3, <1>5, <2>1, TimesGrows
  <2>3. HowMany = 2 * hw /\ hw \in Nat /\ high \in Nat /\ v < high
    BY <1>7, <1>10
  <2> HIDE DEF hw, high
  <2>4. ~(2 * v >= HowMany)
    BY <1>6, <2>2, <2>3
  <2>5. QED
    BY <1>9, <1>12, <2>4 DEF v
<1>13. QED
  BY <1>11, <1>12

LEMMA ShorterIs ==
  ASSUME NEW x \in Key, NEW y \in Key
  PROVE  /\ Shorter(x, y) \in Key
         /\ Value(Shorter(x, y)) = Ring!Distance(Value(x), Value(y))
<1>1. encSub(x, y) \in Key /\ encSub(y, x) \in Key
  BY SubIs
<1>2. /\ Value(encSub(x, y)) = Ring!Ahead(Value(y), Value(x))
      /\ Value(encSub(y, x)) = Ring!Ahead(Value(x), Value(y))
  BY SubIsAhead
<1>3. Negative(encSub(y, x)) <=> 2 * Value(encSub(y, x)) >= HowMany
  BY <1>1, NegativeIs
<1>4. QED
  BY <1>1, <1>2, <1>3 DEF Shorter, Ring!Distance

-----------------------------------------------------------------------------
(* The three keys of a state.                                              *)

Keys == me \in Key /\ a \in Key /\ b \in Key

LEMMA OneIsKey == One \in Key
<1>1. Bits \in Nat \ {0}
  BY BytesAssumption
<1>2. Bits \in 1 .. Bits * Bytes /\ Bits - 1 \in 0 .. Bits * Bytes
  <2>1. BitsOf(1) <= Bits * Bytes /\ BitsOf(1) = Bits /\ Bits * Bytes \in Nat
    <3>1. 1 \in 0 .. Bytes
      BY BytesAssumption
    <3>2. QED
      BY <3>1, BitsOfIs
  <2>2. QED
    BY <1>1, <2>1
<1>3. Base = 2 * TwoTo[Bits - 1] /\ TwoTo[Bits - 1] \in Nat \ {0}
  BY <1>2, TwoToIs DEF Base
<1>4. 0 \in Byte /\ 1 \in Byte
  BY <1>3 DEF Byte
<1>5. QED
  BY <1>4 DEF One, Key

LEMMA KeysKept == (Init => Keys) /\ (Keys /\ [Next]_vars => Keys')
<1>1. Init => Keys
  BY OneIsKey DEF Init, Keys
<1>2. ASSUME Keys, [Next]_vars PROVE Keys'
  <2>1. CASE Next
    BY <1>2, <2>1, OneIsKey, AddIs DEF Next, Keys
  <2>2. CASE UNCHANGED vars
    BY <1>2, <2>2 DEF vars, Keys
  <2>3. QED
    BY <1>2, <2>1, <2>2
<1>3. QED
  BY <1>1, <1>2

LEMMA CmpHolds == Keys => CmpIsClockwise
<1>1. SUFFICES ASSUME Keys PROVE CmpIsClockwise
  OBVIOUS
<1> DEFINE x == encSub(a, me)
           y == encSub(b, me)
           d == Sub(x, y)
<1>2. x \in Key /\ y \in Key
  BY <1>1, SubIs DEF Keys
<1>3. /\ Value(x) = Ring!Ahead(Value(me), Value(a))
      /\ Value(y) = Ring!Ahead(Value(me), Value(b))
  BY <1>1, SubIsAhead DEF Keys
<1> HIDE DEF x, y
<1>4. /\ d.bytes = encSub(x, y) /\ d.bytes \in Key
      /\ d.carry = IF Value(x) < Value(y) THEN 1 ELSE 0
      /\ Value(d.bytes) + Value(y) = Value(x) + d.carry * HowMany
  BY <1>2, SubIs, SubIsAhead
<1>5. (\E i \in DOMAIN d.bytes : d.bytes[i] # 0) <=> Value(d.bytes) # 0
  BY <1>4, NoBytes
<1>6. encCmp(a, b) = IF d.carry # 0 THEN -1
                     ELSE IF \E i \in DOMAIN d.bytes : d.bytes[i] # 0 THEN 1 ELSE 0
  BY DEF encCmp, x, y
<1> HIDE DEF d
<1>7. encCmp(a, b) = IF Value(x) < Value(y) THEN -1
                     ELSE IF Value(x) = Value(y) THEN 0 ELSE 1
  <2>1. Value(x) \in Nat /\ Value(y) \in Nat /\ Value(d.bytes) \in Nat /\ HowMany \in Nat
    BY <1>2, <1>4, ValueIs, WeightIs
  <2>2. CASE Value(x) < Value(y)
    BY <1>4, <1>6, <2>2
  <2>3. CASE ~(Value(x) < Value(y))
    <3>1. d.carry = 0
      BY <1>4, <2>3
    <3>2. Value(d.bytes) + Value(y) = Value(x)
      BY <1>4, <2>1, <3>1
    <3>3. Value(d.bytes) # 0 <=> Value(x) # Value(y)
      BY <2>1, <3>2
    <3>4. QED
      BY <1>5, <1>6, <2>3, <3>1, <3>3
  <2>4. QED
    BY <2>2, <2>3
<1>8. QED
  BY <1>3, <1>7 DEF CmpIsClockwise

LEMMA CloserHolds == Keys => CloserIsNearer
<1>1. SUFFICES ASSUME Keys PROVE CloserIsNearer
  OBVIOUS
<1> DEFINE x == Shorter(me, b)
           y == Shorter(a, b)
<1>2. x \in Key /\ y \in Key
  BY <1>1, ShorterIs DEF Keys
<1>3. /\ Value(x) = Ring!Distance(Value(me), Value(b))
      /\ Value(y) = Ring!Distance(Value(a), Value(b))
  BY <1>1, ShorterIs DEF Keys
<1> HIDE DEF x, y
<1>4. Sub(x, y).carry = IF Value(x) < Value(y) THEN 1 ELSE 0
  BY <1>2, SubIsAhead
<1>5. Value(x) \in Nat /\ Value(y) \in Nat
  BY <1>2, ValueIs, WeightIs
<1>6. Sub(x, y).carry = 0 <=> Value(y) <= Value(x)
  BY <1>4, <1>5
<1>7. encCloser(a, b) <=> Sub(x, y).carry = 0
  BY DEF encCloser, x, y
<1>8. Ring!Closer(Value(me), Value(a), Value(b)) <=> Value(y) <= Value(x)
  BY <1>3 DEF Ring!Closer
<1>9. encCloser(a, b) \in BOOLEAN /\ Ring!Closer(Value(me), Value(a), Value(b)) \in BOOLEAN
  BY DEF encCloser, Ring!Closer
<1>10. QED
  BY <1>6, <1>7, <1>8, <1>9 DEF CloserIsNearer

-----------------------------------------------------------------------------
(* The offsets.                                                            *)

LEMMA Quotient ==
  ASSUME NEW m \in Nat, NEW n \in Nat \ {0}
  PROVE  /\ m \div n \in Nat /\ m % n \in 0 .. n - 1
         /\ m = n * (m \div n) + (m % n)
OBVIOUS

LEMMA QuotientOfProduct ==
  ASSUME NEW m \in Nat, NEW n \in Nat \ {0}
  PROVE  (n * m) \div n = m
<1> DEFINE d == (n * m) \div n
           r == (n * m) % n
<1>1. n * m \in Nat
  BY TimesGrows
<1>2. d \in Nat /\ r \in 0 .. n - 1 /\ n * m = n * d + r
  BY <1>1, Quotient
<1> HIDE DEF d, r
<1>3. n * m = m * n /\ n * d = d * n /\ d * n \in Nat /\ m * n \in Nat
  BY <1>2, Times, TimesGrows
<1>4. ~(d < m)
  <2>1. SUFFICES ASSUME d + 1 <= m PROVE FALSE
    BY <1>2
  <2>2. (d + 1) * n <= m * n /\ (d + 1) * n = d * n + n
    BY <1>2, <2>1, Times, TimesGrows
  <2> DEFINE dn == d * n
             mn == m * n
  <2>3. dn \in Nat /\ mn \in Nat /\ mn = dn + r /\ dn + n <= mn
    BY <1>2, <1>3, <2>2
  <2> HIDE DEF dn, mn
  <2>4. QED
    BY <1>2, <2>3
<1>5. ~(m < d)
  <2>1. SUFFICES ASSUME m + 1 <= d PROVE FALSE
    BY <1>2
  <2>2. (m + 1) * n <= d * n /\ (m + 1) * n = m * n + n
    BY <1>2, <2>1, Times, TimesGrows
  <2> DEFINE dn == d * n
             mn == m * n
  <2>3. dn \in Nat /\ mn \in Nat /\ mn = dn + r /\ mn + n <= dn
    BY <1>2, <1>3, <2>2
  <2> HIDE DEF dn, mn
  <2>4. QED
    BY <1>2, <2>3
<1>6. QED
  BY <1>2, <1>4, <1>5 DEF d

\* A power of two is a greater one, divided by the one that makes up for it.
LEMMA PartIs ==
  ASSUME NEW by \in 0 .. Bits * Bytes - 1
  PROVE  HowMany \div TwoTo[by + 1] = TwoTo[(Bits * Bytes - 1) - by]
<1> DEFINE N == Bits * Bytes
<1>1. N \in Nat
  BY BitsOfIs
<1>2. /\ by + 1 \in Nat /\ (N - 1) - by \in Nat
      /\ (by + 1) + ((N - 1) - by) = N
      /\ by + 1 \in 0 .. N /\ (N - 1) - by \in 0 .. N
  <2>1. by \in 0 .. N - 1
    OBVIOUS
  <2> HIDE DEF N
  <2>2. QED
    BY <1>1, <2>1
<1>3. TwoTo[(by + 1) + ((N - 1) - by)] = TwoTo[by + 1] * TwoTo[(N - 1) - by]
  <2>1. (by + 1) + ((N - 1) - by) <= N
    <3> HIDE DEF N
    <3>1. QED
      BY <1>1, <1>2
  <2>2. QED
    BY <1>2, <2>1, TwoToSum
<1>4. TwoTo[by + 1] \in Nat \ {0} /\ TwoTo[(N - 1) - by] \in Nat
  BY <1>2, TwoToIs
<1>5. HowMany = TwoTo[by + 1] * TwoTo[(N - 1) - by]
  BY <1>2, <1>3 DEF HowMany
<1>6. QED
  BY <1>4, <1>5, QuotientOfProduct

\* Bit "by" is in byte by \div Bits + 1, and is worth a power of two less than the base.
LEMMA BitIs ==
  ASSUME NEW by \in 0 .. Bits * Bytes - 1
  PROVE  /\ by \div Bits \in 0 .. Bytes - 1 /\ by % Bits \in 0 .. Bits - 1
         /\ by = BitsOf(by \div Bits) + (by % Bits)
         /\ TwoTo[Bits - 1 - (by % Bits)] \in Byte
<1> DEFINE N == Bits * Bytes
           q == by \div Bits
           r == by % Bits
           h == TwoTo[Bits - 1 - r]
           t == TwoTo[r]
<1>1. Bits \in Nat \ {0} /\ Bytes \in Nat \ {0} /\ N \in Nat /\ by \in 0 .. N - 1
  BY BytesAssumption, BitsOfIs
<1>2. q \in Nat /\ r \in 0 .. Bits - 1 /\ by = BitsOf(q) + r
  <2>1. by \in Nat
    <3> HIDE DEF N
    <3>1. QED
      BY <1>1
  <2>2. QED
    BY <1>1, <2>1, Quotient DEF BitsOf
<1>3. q \in 0 .. Bytes - 1
  <2> HIDE DEF q, r
  <2>1. SUFFICES ASSUME Bytes <= q PROVE FALSE
    BY <1>1, <1>2
  <2>2. Bytes * Bits <= q * Bits /\ Bytes * Bits = Bits * Bytes /\ q * Bits = BitsOf(q)
    BY <1>1, <1>2, <2>1, Times, TimesGrows DEF BitsOf
  <2>3. N <= BitsOf(q) /\ BitsOf(q) \in Nat
    BY <1>2, <2>2, BitsOfIs
  <2> HIDE DEF N
  <2>4. QED
    BY <1>1, <1>2, <2>3
<1>4. Bits <= N
  <2>1. BitsOf(1) <= N /\ BitsOf(1) = Bits
    <3>1. 1 \in 0 .. Bytes
      BY <1>1
    <3>2. QED
      BY <3>1, BitsOfIs
  <2>2. QED
    BY <2>1
<1>5. /\ Bits - 1 - r \in Nat /\ r + 1 \in Nat /\ (Bits - 1 - r) + (r + 1) = Bits
      /\ Bits - 1 - r \in 0 .. N /\ r \in 0 .. N /\ r + 1 \in 1 .. N /\ (r + 1) - 1 = r
  <2> HIDE DEF N, r
  <2>1. QED
    BY <1>1, <1>2, <1>4
<1>6. Base = h * TwoTo[r + 1]
  <2>1. (Bits - 1 - r) + (r + 1) <= Bits * Bytes
    BY <1>4, <1>5
  <2>2. QED
    BY <1>5, <2>1, TwoToSum DEF Base
<1>7. h \in Nat \ {0} /\ t \in Nat \ {0} /\ TwoTo[r + 1] = 2 * t
  <2>1. TwoTo[r + 1] = 2 * TwoTo[(r + 1) - 1]
    BY <1>5, TwoToIs
  <2>2. QED
    BY <1>5, <2>1, TwoToIs
<1>8. h \in 0 .. Base - 1
  <2> HIDE DEF h, t
  <2>1. 2 * h <= (2 * t) * h
    <3>1. 2 \in Nat /\ 2 * t \in Nat /\ 2 <= 2 * t
      BY <1>7
    <3>2. QED
      BY <1>7, <3>1, TimesGrows
  <2>2. Base = (2 * t) * h
    <3>1. 2 * t \in Int /\ h \in Int
      BY <1>7
    <3>2. QED
      BY <1>6, <1>7, <3>1, Times
  <2>3. Base \in Nat
    BY WeightIs
  <2> DEFINE x == (2 * t) * h
  <2>4. 2 * h <= x /\ Base = x
    BY <2>1, <2>2
  <2> HIDE DEF x
  <2>5. QED
    BY <1>7, <2>3, <2>4
<1>9. QED
  BY <1>2, <1>3, <1>8 DEF Byte

LEMMA SingleBitIs ==
  ASSUME NEW by \in 0 .. Bits * Bytes - 1
  PROVE  /\ SingleBit(by) \in Key
         /\ Value(SingleBit(by)) = TwoTo[(Bits * Bytes - 1) - by]
<1> DEFINE N == Bits * Bytes
           q == by \div Bits
           r == by % Bits
           h == TwoTo[Bits - 1 - r]
           k == q + 1
           x == SingleBit(by)
           L(i) == Leading(x)[i]
<1>1. Bits \in Nat \ {0} /\ Bytes \in Nat \ {0} /\ N \in Nat /\ Base \in Nat \ {0}
  BY BytesAssumption, BitsOfIs, WeightIs
<1>2. q \in 0 .. Bytes - 1 /\ r \in 0 .. Bits - 1 /\ by = BitsOf(q) + r /\ h \in Byte
  BY BitIs
<1>3. x = [i \in 1 .. Bytes |-> IF i = k THEN h ELSE 0]
  BY DEF SingleBit
<1>4. by \in 0 .. N - 1
  OBVIOUS
<1> HIDE DEF N, q, r, h, x
<1>5. x \in Key
  <2>1. 0 \in Byte
    BY <1>1 DEF Byte
  <2>2. QED
    BY <1>2, <1>3, <2>1 DEF Key
<1>6. /\ L(0) = 0
      /\ \A i \in 1 .. Bytes : L(i) = L(i - 1) * Base + x[i]
  BY <1>5, LeadingIs
<1>7. h \in Nat /\ k \in 1 .. Bytes
  BY <1>1, <1>2 DEF Byte
<1> HIDE DEF L
<1> DEFINE P == {i \in 0 .. Bytes : L(i) = IF i < k THEN 0 ELSE h * Weight(i - k)}
<1>8. 0 \in P
  BY <1>1, <1>6, <1>7
<1>9. ASSUME NEW i \in 1 .. Bytes, i - 1 \in P
      PROVE  i \in P
  <2>1. i \in 0 .. Bytes /\ i - 1 \in 0 .. Bytes /\ L(i) = L(i - 1) * Base + x[i]
    BY <1>1, <1>6
  <2>2. x[i] = IF i = k THEN h ELSE 0
    BY <1>3
  <2>3. 0 * Base = 0
    BY <1>1
  <2>4. CASE i < k
    <3>1. L(i - 1) = 0
      BY <1>7, <1>9, <2>1, <2>4
    <3>2. L(i) = 0
      BY <1>7, <2>1, <2>2, <2>3, <2>4, <3>1
    <3>3. QED
      BY <2>1, <2>4, <3>2
  <2>5. CASE i = k
    <3>1. L(i - 1) = 0 /\ i - k = 0 /\ ~(i < k)
      BY <1>7, <1>9, <2>1, <2>5
    <3>2. L(i) = h
      BY <1>7, <2>1, <2>2, <2>3, <2>5, <3>1
    <3>3. h * Weight(0) = h
      BY <1>7, WeightIs
    <3>4. QED
      BY <2>1, <3>1, <3>2, <3>3
  <2>6. CASE k < i
    <3>1. i - k \in 1 .. Bytes /\ (i - k) - 1 = (i - 1) - k /\ ~(i - 1 < k) /\ ~(i < k)
          /\ (i - 1) - k \in 0 .. Bytes /\ i # k
      BY <1>1, <1>7, <2>6
    <3> DEFINE w == Weight((i - 1) - k)
    <3>2. L(i - 1) = h * w
      BY <1>9, <3>1
    <3>3. Weight(i - k) = w * Base /\ w \in Nat
      BY <3>1, WeightIs
    <3> HIDE DEF w
    <3>4. (h * w) * Base = h * (w * Base) /\ (h * w) * Base \in Nat
      <4>1. h * w \in Nat
        BY <1>7, <3>3, TimesGrows
      <4>2. QED
        BY <1>1, <1>7, <3>3, <4>1, Times, TimesGrows
    <3>5. L(i) = (h * w) * Base + 0
      BY <2>1, <2>2, <3>1, <3>2
    <3>6. L(i) = h * Weight(i - k)
      BY <3>3, <3>4, <3>5
    <3>7. QED
      BY <2>1, <3>1, <3>6
  <2>7. QED
    BY <1>7, <2>4, <2>5, <2>6
<1>10. \A i \in 0 .. Bytes : i \in P
  <2> HIDE DEF P
  <2>1. QED
    BY <1>1, <1>8, <1>9, InductionUpTo
<1>11. Value(x) = h * Weight(Bytes - k)
  <2>1. Bytes \in 0 .. Bytes /\ ~(Bytes < k)
    BY <1>1, <1>7
  <2>2. QED
    BY <1>10, <2>1 DEF Value, L
<1>12. BitsOf(Bytes - k) = (N - Bits) - BitsOf(q)
  <2>1. BitsOf(Bytes - k) + BitsOf(k) = N
    <3>1. ((Bytes - k) + k) * Bits = (Bytes - k) * Bits + k * Bits
      BY <1>1, <1>7, Times
    <3>2. (Bytes - k) + k = Bytes /\ Bytes - k \in Int
      BY <1>1, <1>7
    <3>3. QED
      BY <1>1, <1>7, <3>1, <3>2, Times DEF BitsOf, N
  <2>2. BitsOf(k) = BitsOf(q) + Bits
    BY <1>2, BitsOfIs
  <2>3. BitsOf(q) \in Nat /\ BitsOf(Bytes - k) \in Nat
    <3>1. q \in Nat /\ Bytes - k \in Nat
      BY <1>1, <1>2, <1>7
    <3>2. QED
      BY <3>1, BitsOfIs
  <2>4. QED
    BY <1>1, <2>1, <2>2, <2>3
<1>13. TwoTo[(Bits - 1 - r) + BitsOf(Bytes - k)] = h * Weight(Bytes - k)
  <2>1. BitsOf(Bytes - k) \in Nat /\ BitsOf(q) \in Nat
    <3>1. q \in Nat /\ Bytes - k \in Nat
      BY <1>1, <1>2, <1>7
    <3>2. QED
      BY <3>1, BitsOfIs
  <2>2. Bits - 1 - r \in Nat /\ (Bits - 1 - r) + BitsOf(Bytes - k) <= N
    BY <1>1, <1>2, <1>12, <2>1
  <2>3. QED
    BY <2>1, <2>2, TwoToSum DEF h, N, Weight
<1>14. (Bits - 1 - r) + BitsOf(Bytes - k) = (N - 1) - by
  <2>1. q \in Nat
    BY <1>1, <1>2
  <2>2. BitsOf(q) \in Nat
    BY <2>1, BitsOfIs
  <2>3. QED
    BY <1>1, <1>2, <1>4, <1>12, <2>2
<1>15. QED
  BY <1>5, <1>11, <1>13, <1>14 DEF x, N

LEMMA OffsetsHold == Keys => OffsetsHalve
<1>1. SUFFICES ASSUME Keys, NEW by \in 0 .. Bits * Bytes - 1
               PROVE  LET part == HowMany \div TwoTo[by + 1] IN
                      /\ Ring!Ahead(Value(me), Value(encOffset(by, FALSE))) = part
                      /\ Ring!Ahead(Value(encOffset(by, TRUE)), Value(me)) = part
  BY DEF OffsetsHalve
<1> DEFINE s == SingleBit(by)
           up == encAdd(me, s)
           down == encSub(me, s)
           n == HowMany
<1>2. s \in Key /\ Value(s) = n \div TwoTo[by + 1]
  BY SingleBitIs, PartIs
<1>3. encOffset(by, FALSE) = up /\ encOffset(by, TRUE) = down
  BY DEF encOffset
<1>4. me \in Key
  BY <1>1 DEF Keys
<1> HIDE DEF s
<1>5. /\ up \in Key /\ Add(me, s).carry \in {0, 1}
      /\ Value(me) + Value(s) = Value(up) + Add(me, s).carry * n
  BY <1>2, <1>4, AddIs
<1>6. /\ down \in Key /\ Sub(me, s).carry \in {0, 1}
      /\ Value(down) + Value(s) = Value(me) + Sub(me, s).carry * n
  BY <1>2, <1>4, SubIs
<1> HIDE DEF up, down, n
<1>7. /\ Value(me) \in 0 .. n - 1 /\ Value(s) \in 0 .. n - 1
      /\ Value(up) \in 0 .. n - 1 /\ Value(down) \in 0 .. n - 1 /\ n \in Nat
  BY <1>2, <1>4, <1>5, <1>6, ValueIs, WeightIs DEF n
<1>8. 0 * n = 0 /\ 1 * n = n
  BY <1>7
<1>9. Ring!Ahead(Value(me), Value(up)) = Value(s)
  <2>1. \/ Value(me) + Value(s) = Value(up)
        \/ Value(me) + Value(s) = Value(up) + n
    BY <1>5, <1>7, <1>8
  <2>2. QED
    BY <1>7, <2>1 DEF Ring!Ahead, n
<1>10. Ring!Ahead(Value(down), Value(me)) = Value(s)
  <2>1. \/ Value(down) + Value(s) = Value(me)
        \/ Value(down) + Value(s) = Value(me) + n
    BY <1>6, <1>7, <1>8
  <2>2. QED
    BY <1>7, <2>1 DEF Ring!Ahead, n
<1>11. QED
  BY <1>2, <1>3, <1>9, <1>10 DEF n

-----------------------------------------------------------------------------
(* The theorems.                                                           *)

\* The two subtractions and the look at the remainder of encCmp order any two keys by
\* how far ahead of me they lie, wherever on the ring the three are.
THEOREM CmpClockwise == Spec => []CmpIsClockwise
<1>1. Init => Keys
  BY KeysKept
<1>2. Keys /\ [Next]_vars => Keys'
  BY KeysKept
<1>3. Keys => CmpIsClockwise
  BY CmpHolds
<1>4. QED
  BY <1>1, <1>2, <1>3, PTL DEF Spec

\* encCloser compares the shorter ways round, those that cross the top of the ring and
\* the ones of exactly half of it included.
THEOREM CloserNearer == Spec => []CloserIsNearer
<1>1. Init => Keys
  BY KeysKept
<1>2. Keys /\ [Next]_vars => Keys'
  BY KeysKept
<1>3. Keys => CloserIsNearer
  BY CloserHolds
<1>4. QED
  BY <1>1, <1>2, <1>3, PTL DEF Spec

\* encOffset finds the point a half, a quarter, ... of the ring ahead of me or behind
\* me: the bit it sets is that part, whichever byte it falls in.
THEOREM OffsetsAreParts == Spec => []OffsetsHalve
<1>1. Init => Keys
  BY KeysKept
<1>2. Keys /\ [Next]_vars => Keys'
  BY KeysKept
<1>3. Keys => OffsetsHalve
  BY OffsetsHold
<1>4. QED
  BY <1>1, <1>2, <1>3, PTL DEF Spec

================================================================================
