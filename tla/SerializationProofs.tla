------------------------- MODULE SerializationProofs -------------------------
(***************************************************************************)
(* Rows of any length, with any values and any Char sizes: a buffer of the *)
(* sum of the sizes always suffices, no field disturbs another, a stream   *)
(* that failed keeps failing, and a tuple returns the key and the value it *)
(* was made of if its sizes fit their fields.  A row comes back as it was  *)
(* written, alone or in a tuple, and the bytes of integers keep the order  *)
(* that serialize gives them.                                              *)
(***************************************************************************)
EXTENDS Serialization, SequenceTheorems, WellFoundedInduction, TLAPS

-----------------------------------------------------------------------------
(* Slices *)

LEMMA Elements ==
    ASSUME NEW s \in Seq(Nat)
    PROVE  Len(s) \in Nat /\ \A i \in 1 .. Len(s) : s[i] \in Nat
OBVIOUS

\* n elements behind the first p
Slice(s, p, n) == SubSeq(s, p + 1, p + n)

LEMMA SliceProperties ==
    ASSUME NEW s \in Seq(Nat), NEW p \in Nat, NEW n \in Nat, p + n <= Len(s)
    PROVE  /\ Slice(s, p, n) \in Seq(Nat) /\ Len(Slice(s, p, n)) = n
           /\ \A j \in 1 .. n : Slice(s, p, n)[j] = s[p + j] /\ p + j \in 1 .. Len(s)
<1>0. PICK c : c = Slice(s, p, n)
  OBVIOUS
<1>1. PICK q \in Nat : q = Len(s) /\ \A i \in 1 .. q : s[i] \in Nat
  BY Elements
<1>2. p + n <= q
  BY <1>1
<1>3. PICK x, y : x \in Int /\ y \in Int /\ x = p + 1 /\ y = p + n
  OBVIOUS
<1>9. c = SubSeq(s, x, y)
  BY <1>0, <1>3 DEF Slice
<1>4. \A i \in x .. y : s[i] \in Nat
  BY <1>1, <1>2, <1>3
<1>5. PICK m : m = y - x + 1 /\ m = n
  BY <1>3
<1>6. /\ c \in Seq(Nat) /\ Len(c) = IF x <= y THEN m ELSE 0
      /\ \A j \in 1 .. m : c[j] = s[x + j - 1]
  BY <1>3, <1>4, <1>5, <1>9, SubSeqProperties
<1>7. Len(c) = n
  <2>1. (x <= y /\ m = n) \/ (~(x <= y) /\ n = 0)
    BY <1>3, <1>5
  <2> QED
    BY <1>6, <2>1
<1>8. ASSUME NEW j \in 1 .. n PROVE c[j] = s[p + j] /\ p + j \in 1 .. q
  <2>1. x + j - 1 = p + j /\ p + j \in 1 .. q
    BY <1>2, <1>3
  <2>2. c[j] = s[x + j - 1]
    BY <1>5, <1>6
  <2> QED
    BY <2>1, <2>2
<1> QED
  BY <1>0, <1>1, <1>6, <1>7, <1>8

-----------------------------------------------------------------------------
(* Tuples *)

LEMMA SmallSizes ==
    ASSUME NEW n \in Nat
    PROVE  AsU16(n) \in Nat /\ (n < Word => AsU16(n) = n)
BY WordAssumption DEF WordAssumption, AsU16

\* TupleBuf::new followed by value() or by key().bytes() is the identity as long
\* as the length of the key fits its u16; the length of the value does not matter
\* (tuple.rs, 126-139 and 82-95).
THEOREM TupleRoundTrip ==
    ASSUME NEW key \in Seq(Nat), NEW value \in Seq(Nat), Len(key) < Word
    PROVE  /\ TupleValue(TupleBuf(key, value)) = value
           /\ KeyBytes(TupleKey(TupleBuf(key, value))) = key
<1>1. AsU16(Len(key)) = Len(key) /\ AsU16(Len(key) + Len(value) + 4) \in Nat
  BY SmallSizes
<1>2. TupleKeySize(TupleBuf(key, value)) = Len(key)
  BY <1>1 DEF TupleBuf, SizeField, TupleKeySize
<1>3. TupleValue(TupleBuf(key, value)) = value
  <2>1. PICK t : t = TupleBuf(key, value)
    OBVIOUS
  <2>2. /\ t \in Seq(Nat) /\ Len(t) = Len(key) + Len(value) + 4
        /\ \A i \in 1 .. Len(value) : t[i + (4 + Len(key))] = value[i]
    BY <1>1, <2>1 DEF TupleBuf, SizeField
  <2>3. PICK h \in Nat, n \in Nat : h = 4 + Len(key) /\ n = Len(value)
    OBVIOUS
  <2>4. 5 + TupleKeySize(t) = h + 1 /\ Len(t) = h + n
    <3>1. TupleKeySize(t) = Len(key)
      BY <1>2, <2>1
    <3>2. Len(t) = h + n
      BY <2>2, <2>3
    <3> QED
      BY <2>3, <3>1, <3>2
  <2>5. PICK c : c = Slice(t, h, n)
    OBVIOUS
  <2>6. TupleValue(t) = c
    BY <2>4, <2>5 DEF TupleValue, Slice
  <2>7. t \in Seq(Nat) /\ h + n <= Len(t)
    BY <2>2, <2>4
  <2>8. c \in Seq(Nat) /\ Len(c) = n /\ \A j \in 1 .. n : c[j] = t[h + j]
    BY <2>5, <2>7, SliceProperties
  <2>9. \A j \in 1 .. n : c[j] = value[j]
    <3>1. \A j \in 1 .. n : t[j + h] = value[j]
      BY <2>2, <2>3
    <3>2. \A j \in 1 .. n : j + h = h + j
      OBVIOUS
    <3> QED
      BY <2>8, <3>1, <3>2
  <2> QED
    BY <2>1, <2>3, <2>6, <2>8, <2>9, SeqEqual
<1>4. KeyBytes(TupleKey(TupleBuf(key, value))) = key
  <2> DEFINE t == TupleBuf(key, value)
             k == TupleKey(t)
  <2>1. t \in Seq(Nat) /\ Len(t) = Len(key) + Len(value) + 4
    BY <1>1 DEF TupleBuf, SizeField
  <2>2. \A i \in 1 .. Len(key) : t[i + 4] = key[i]
    BY <1>1 DEF TupleBuf, SizeField
  <2> HIDE DEF t
  <2>3. k = SubSeq(t, 3, 4 + Len(key))
    BY <1>2 DEF TupleKey, t
  <2>4. k \in Seq(Nat) /\ Len(k) = Len(key) + 2 /\ \A i \in 1 .. Len(k) : k[i] = t[i + 2]
    <3>1. \A i \in 3 .. 4 + Len(key) : t[i] \in Nat
      BY <2>1
    <3> HIDE DEF k
    <3> QED
      BY <2>1, <2>3, <3>1, SubSeqProperties
  <2> HIDE DEF k
  <2>5. /\ KeyBytes(k) \in Seq(Nat) /\ Len(KeyBytes(k)) = Len(key)
        /\ \A i \in 1 .. Len(key) : KeyBytes(k)[i] = key[i]
    <3>1. KeyBytes(k) = SubSeq(k, 3, Len(key) + 2) /\ \A i \in 3 .. Len(key) + 2 : k[i] \in Nat
      BY <2>4 DEF KeyBytes
    <3>2. /\ KeyBytes(k) \in Seq(Nat) /\ Len(KeyBytes(k)) = Len(key)
          /\ \A i \in 1 .. Len(key) : KeyBytes(k)[i] = k[i + 2]
      BY <3>1, SubSeqProperties
    <3>3. ASSUME NEW i \in 1 .. Len(key) PROVE k[i + 2] = t[i + 4]
      <4>0. Len(k) = Len(key) + 2
        BY <2>4
      <4>1. i + 2 \in 1 .. Len(k) /\ (i + 2) + 2 = i + 4
        BY <4>0
      <4> QED
        BY <2>4, <4>1
    <3> QED
      BY <2>2, <3>2, <3>3
  <2> QED
    BY <2>5, SeqEqual DEF k, t
<1> QED
  BY <1>3, <1>4

-----------------------------------------------------------------------------
(* Integers as bytes: an integer has 2, 4 or 8 of them. *)

\* A set of naturals has a least element.
LEMMA Least ==
    ASSUME NEW I \in SUBSET Nat, I # {}
    PROVE  \E x \in I : \A y \in I : x <= y
<1> DEFINE R == {ss \in Nat \X Nat : ss[1] < ss[2]}
<1>0. R = OpToRel(<, Nat)
  BY DEF OpToRel
<1>1. IsWellFoundedOn(R, Nat)
  BY <1>0, NatLessThanWellFounded
<1> HIDE DEF R
<1>2. PICK x \in I : \A y \in I : ~(<<y, x>> \in R)
  BY <1>1, WFMin
<1>3. \A y \in I : x <= y
  <2> TAKE y \in I
  <2>1. <<y, x>> \notin R
    BY <1>2
  <2>2. x \in Nat /\ y \in Nat
    OBVIOUS
  <2> QED
    BY <2>1, <2>2 DEF R
<1> QED
  BY <1>3

LEMMA Powers ==
    /\ Byte ^ 0 = 1 /\ Byte ^ 1 = 4 /\ Byte ^ 2 = 16 /\ Byte ^ 3 = 64 /\ Byte ^ 4 = 256
    /\ Byte ^ 5 = 1024 /\ Byte ^ 6 = 4096 /\ Byte ^ 7 = 16384 /\ Byte ^ 8 = 65536
BY DEF Byte

\* A number is four times its number without the last digit, plus that digit.
LEMMA Digits ==
    ASSUME NEW y \in Nat
    PROVE  /\ y = 4 * (y \div 4) + (y % 4)
           /\ y \div 4 = 4 * (y \div 16) + ((y \div 4) % 4)
           /\ y \div 16 = 4 * (y \div 64) + ((y \div 16) % 4)
           /\ y \div 64 = 4 * (y \div 256) + ((y \div 64) % 4)
           /\ y \div 256 = 4 * (y \div 1024) + ((y \div 256) % 4)
           /\ y \div 1024 = 4 * (y \div 4096) + ((y \div 1024) % 4)
           /\ y \div 4096 = 4 * (y \div 16384) + ((y \div 4096) % 4)
           /\ y \div 16384 = 4 * (y \div 65536) + ((y \div 16384) % 4)
OBVIOUS

\* Digit i of n.
Digit(y, n, i) == (y \div Byte ^ (n - i)) % Byte

LEMMA EncodedDigits ==
    ASSUME NEW x \in Int, NEW n \in {2, 4, 8}
    PROVE  \E y \in Nat : /\ y = x % Byte ^ n /\ y < Byte ^ n
                          /\ BigEndian(x, n) = [i \in 1 .. n |-> Digit(y, n, i)]
<1>1. PICK m \in Nat \ {0} : m = Byte ^ n
  BY Powers
<1>2. PICK y \in Nat : y = x % m /\ y < m
  BY <1>1
<1>3. BigEndian(x, n) = [i \in 1 .. n |-> Digit(y, n, i)]
  BY <1>1, <1>2 DEF BigEndian, Digit
<1> QED
  BY <1>1, <1>2, <1>3

\* What is left of y when n - i digits are cut off its end.
Upper(y, n) == [i \in 0 .. n |-> y \div Byte ^ (n - i)]

LEMMA UpperStep ==
    ASSUME NEW n \in {2, 4, 8}, NEW y \in Nat, y < Byte ^ n
    PROVE  /\ Upper(y, n)[0] = 0 /\ Upper(y, n)[n] = y
           /\ \A i \in 1 .. n : Upper(y, n)[i] = Upper(y, n)[i - 1] * Byte + Digit(y, n, i)
<1>1. CASE n = 2
  <2>1. y < 16
    BY <1>1, Powers
  <2> QED
    BY <1>1, <2>1, Powers, Digits DEF Upper, Digit, Byte
<1>2. CASE n = 4
  <2>1. y < 256
    BY <1>2, Powers
  <2> QED
    BY <1>2, <2>1, Powers, Digits DEF Upper, Digit, Byte
<1>3. CASE n = 8
  <2>1. y < 65536
    BY <1>3, Powers
  <2> QED
    BY <1>3, <2>1, Powers, Digits DEF Upper, Digit, Byte
<1> QED
  BY <1>1, <1>2, <1>3

\* from_be_bytes of to_be_bytes: the numbers from_be_bytes sums are its upper parts.
LEMMA Decoded ==
    ASSUME NEW n \in {2, 4, 8}, NEW x \in Ints(n)
    PROVE  FromBigEndian(BigEndian(x, n)) = x
<1>1. PICK h \in Nat : n \in Nat /\ Byte ^ n = 2 * h /\ Byte ^ n \div 2 = h /\ h > 0
  <2>1. \A h \in Nat : (2 * h) \div 2 = h
    OBVIOUS
  <2>2. Byte ^ n \in {2 * 8, 2 * 128, 2 * 32768}
    BY Powers
  <2> QED
    BY <2>1, <2>2
<1>2. x \in Int /\ -h <= x /\ x <= h - 1
  BY <1>1 DEF Ints
<1>3. PICK y \in Nat : /\ y = x % Byte ^ n /\ y < Byte ^ n
                       /\ BigEndian(x, n) = [i \in 1 .. n |-> Digit(y, n, i)]
  BY <1>2, EncodedDigits
<1>4. PICK b : b = BigEndian(x, n) /\ Len(b) = n /\ \A i \in 1 .. n : b[i] = Digit(y, n, i)
  BY <1>1, <1>3
<1> DEFINE IsSum(u) == u = [i \in 0 .. n |-> IF i = 0 THEN 0 ELSE u[i - 1] * Byte + b[i]]
<1>5. PICK f : f = Upper(y, n)
  OBVIOUS
<1>6. IsSum(f)
  <2>1. f = [i \in 0 .. n |-> f[i]]
    BY <1>5 DEF Upper
  <2>2. \A i \in 0 .. n : f[i] = IF i = 0 THEN 0 ELSE f[i - 1] * Byte + b[i]
    <3> TAKE i \in 0 .. n
    <3>1. CASE i = 0
      BY <1>3, <1>5, <3>1, UpperStep
    <3>2. CASE i # 0
      <4>1. i \in 1 .. n
        BY <1>1, <3>2
      <4>2. f[i] = f[i - 1] * Byte + Digit(y, n, i)
        BY <1>3, <1>5, <4>1, UpperStep
      <4> QED
        BY <1>4, <3>2, <4>1, <4>2
    <3> QED
      BY <3>1, <3>2
  <2> QED
    BY <2>1, <2>2
<1>7. PICK u : u = CHOOSE v : IsSum(v)
  OBVIOUS
<1>8. IsSum(u)
  BY <1>6, <1>7
<1>9. /\ u[0] = 0 /\ u[1] = u[0] * Byte + b[1] /\ u[2] = u[1] * Byte + b[2]
      /\ n \in {4, 8} => u[3] = u[2] * Byte + b[3] /\ u[4] = u[3] * Byte + b[4]
      /\ n = 8 => /\ u[5] = u[4] * Byte + b[5] /\ u[6] = u[5] * Byte + b[6]
                  /\ u[7] = u[6] * Byte + b[7] /\ u[8] = u[7] * Byte + b[8]
  BY <1>1, <1>8
<1>10. /\ f[0] = 0 /\ f[1] = f[0] * Byte + b[1] /\ f[2] = f[1] * Byte + b[2]
       /\ n \in {4, 8} => f[3] = f[2] * Byte + b[3] /\ f[4] = f[3] * Byte + b[4]
       /\ n = 8 => /\ f[5] = f[4] * Byte + b[5] /\ f[6] = f[5] * Byte + b[6]
                   /\ f[7] = f[6] * Byte + b[7] /\ f[8] = f[7] * Byte + b[8]
  BY <1>1, <1>6
<1>11. u[n] = y
  <2>1. u[1] = f[1]
    BY <1>9, <1>10
  <2>2. u[2] = f[2]
    BY <2>1, <1>9, <1>10
  <2>3. n \in {4, 8} => u[3] = f[3]
    BY <2>2, <1>9, <1>10
  <2>4. n \in {4, 8} => u[4] = f[4]
    BY <2>3, <1>9, <1>10
  <2>5. n = 8 => u[5] = f[5]
    BY <2>4, <1>9, <1>10
  <2>6. n = 8 => u[6] = f[6]
    BY <2>5, <1>9, <1>10
  <2>7. n = 8 => u[7] = f[7]
    BY <2>6, <1>9, <1>10
  <2>8. n = 8 => u[8] = f[8]
    BY <2>7, <1>9, <1>10
  <2>9. f[n] = y
    BY <1>3, <1>5, UpperStep
  <2> QED
    BY <2>2, <2>4, <2>8, <2>9
<1>12. FromBigEndian(b) = IF u[n] < Byte ^ n \div 2 THEN u[n] ELSE u[n] - Byte ^ n
  BY <1>4, <1>7 DEF FromBigEndian
<1>13. y = IF x >= 0 THEN x ELSE x + Byte ^ n
  <2>1. CASE n = 2
    <3>1. h = 8 /\ y = x % 16
      BY <1>1, <1>3, <2>1, Powers
    <3> QED
      BY <1>1, <1>2, <2>1, <3>1, Powers
  <2>2. CASE n = 4
    <3>1. h = 128 /\ y = x % 256
      BY <1>1, <1>3, <2>2, Powers
    <3> QED
      BY <1>1, <1>2, <2>2, <3>1, Powers
  <2>3. CASE n = 8
    <3>1. h = 32768 /\ y = x % 65536
      BY <1>1, <1>3, <2>3, Powers
    <3> QED
      BY <1>1, <1>2, <2>3, <3>1, Powers
  <2> QED
    BY <2>1, <2>2, <2>3
<1> QED
  BY <1>1, <1>2, <1>4, <1>11, <1>12, <1>13

\* The flip of the middle bit undoes itself.
LEMMA FlipTwice ==
    ASSUME NEW n \in {2, 4, 8}, NEW b \in [1 .. n -> Bytes]
    PROVE  /\ Flip(b) \in [1 .. n -> Bytes] /\ Len(Flip(b)) = n
           /\ Flip(Flip(b)) = b
<1>1. Len(b) = n /\ Len(b) \div 2 + 1 \in 1 .. n
  OBVIOUS
<1>2. PICK m \in 1 .. n : m = Len(b) \div 2 + 1
  BY <1>1
<1>3. PICK c : c = Flip(b)
  OBVIOUS
<1>4. c = [b EXCEPT ![m] = (b[m] + 2) % 4]
  <2>1. Byte \div 2 = 2 /\ Byte = 4
    BY DEF Byte
  <2> QED
    BY <2>1, <1>2, <1>3 DEF Flip
<1>5. \A d \in Bytes : (d + 2) % 4 \in Bytes /\ (((d + 2) % 4) + 2) % 4 = d
  <2>1. Bytes = {0, 1, 2, 3}
    BY DEF Bytes, Byte
  <2>2. (0 + 2) % 4 = 2 /\ (1 + 2) % 4 = 3 /\ (2 + 2) % 4 = 0 /\ (3 + 2) % 4 = 1
    OBVIOUS
  <2> QED
    BY <2>1, <2>2
<1>6. c \in [1 .. n -> Bytes] /\ Len(c) = n /\ c[m] = (b[m] + 2) % 4
  <2>1. b[m] \in Bytes
    BY <1>2
  <2>2. (b[m] + 2) % 4 \in Bytes
    BY <2>1, <1>5
  <2> QED
    BY <2>2, <1>2, <1>4
<1>7. Flip(c) = [c EXCEPT ![m] = (c[m] + 2) % 4]
  <2>1. Byte \div 2 = 2 /\ Byte = 4
    BY DEF Byte
  <2>2. Len(c) \div 2 + 1 = m
    BY <1>1, <1>2, <1>6
  <2> QED
    BY <2>1, <2>2 DEF Flip
<1>8. Flip(c) = b
  <2>1. (c[m] + 2) % 4 = b[m]
    BY <1>2, <1>5, <1>6
  <2> QED
    BY <2>1, <1>2, <1>4, <1>7
<1> QED
  BY <1>3, <1>6, <1>8

LEMMA EncodedBytes ==
    ASSUME NEW x \in Int, NEW n \in {2, 4, 8}
    PROVE  BigEndian(x, n) \in [1 .. n -> Bytes]
<1>1. PICK y \in Nat : BigEndian(x, n) = [i \in 1 .. n |-> Digit(y, n, i)]
  BY EncodedDigits
<1>2. \A i \in 1 .. n : Digit(y, n, i) \in Bytes
  <2> TAKE i \in 1 .. n
  <2>1. Byte ^ (n - i) \in Nat \ {0}
    <3>1. n - i \in 0 .. 7
      OBVIOUS
    <3> QED
      BY <3>1, Powers
  <2> QED
    BY <2>1 DEF Digit, Bytes, Byte
<1> QED
  BY <1>1, <1>2

-----------------------------------------------------------------------------
(* The order of bytes *)

\* Of two numbers the smaller has the smaller digit where they first differ.
LEMMA DigitsOrder ==
    ASSUME NEW n \in {2, 4, 8}, NEW a \in Nat, NEW b \in Nat, a < b, b < Byte ^ n
    PROVE  \E i \in 1 .. n : /\ Digit(a, n, i) < Digit(b, n, i)
                             /\ \A j \in 1 .. i - 1 : Digit(a, n, j) = Digit(b, n, j)
<1>1. PICK f : f = Upper(a, n)
  OBVIOUS
<1>2. PICK g : g = Upper(b, n)
  OBVIOUS
<1>3. /\ \A i \in 0 .. n : f[i] \in Nat /\ g[i] \in Nat
      /\ \A i \in 0 .. n : f[i] <= g[i]
  <2> DEFINE P == {1, 4, 16, 64, 256, 1024, 4096, 16384, 65536}
  <2>0. \A k \in 0 .. 8 : Byte ^ k \in P
    BY Powers
  <2>1. \A q \in P : a \div q \in Nat /\ b \div q \in Nat /\ a \div q <= b \div q
    OBVIOUS
  <2> HIDE DEF P
  <2>2. \A k \in 0 .. 8 : /\ a \div Byte ^ k \in Nat /\ b \div Byte ^ k \in Nat
                          /\ a \div Byte ^ k <= b \div Byte ^ k
    BY <2>0, <2>1
  <2>3. \A i \in 0 .. n : n - i \in 0 .. 8
    OBVIOUS
  <2> QED
    BY <1>1, <1>2, <2>2, <2>3 DEF Upper
<1>4. /\ f[0] = 0 /\ f[n] = a
      /\ \A i \in 1 .. n : f[i] = f[i - 1] * 4 + Digit(a, n, i)
  <2>1. a < Byte ^ n
    BY Powers
  <2>2. Byte = 4
    BY DEF Byte
  <2>3. /\ f[0] = 0 /\ f[n] = a
        /\ \A i \in 1 .. n : f[i] = f[i - 1] * Byte + Digit(a, n, i)
    BY <1>1, <2>1, UpperStep
  <2> QED
    BY <2>2, <2>3
<1>5. /\ g[0] = 0 /\ g[n] = b
      /\ \A i \in 1 .. n : g[i] = g[i - 1] * 4 + Digit(b, n, i)
  <2>1. Byte = 4
    BY DEF Byte
  <2>2. /\ g[0] = 0 /\ g[n] = b
        /\ \A i \in 1 .. n : g[i] = g[i - 1] * Byte + Digit(b, n, i)
    BY <1>2, UpperStep
  <2> QED
    BY <2>1, <2>2
<1>6. \A i \in 1 .. n : Digit(a, n, i) \in Nat /\ Digit(b, n, i) \in Nat
  <2> DEFINE P == {1, 4, 16, 64, 256, 1024, 4096, 16384, 65536}
  <2>0. \A k \in 0 .. 8 : Byte ^ k \in P
    BY Powers
  <2>3. \A q \in P : (a \div q) % 4 \in Nat /\ (b \div q) % 4 \in Nat
    OBVIOUS
  <2> HIDE DEF P
  <2>1. \A k \in 0 .. 8 : (a \div Byte ^ k) % 4 \in Nat /\ (b \div Byte ^ k) % 4 \in Nat
    BY <2>0, <2>3
  <2>2. \A i \in 1 .. n : n - i \in 0 .. 8
    OBVIOUS
  <2> QED
    BY <2>1, <2>2 DEF Digit, Byte
<1>7. \E i \in 1 .. n : f[i] # g[i] /\ \A j \in 0 .. i - 1 : f[j] = g[j]
  <2>1. f[n] # g[n] /\ f[0] = g[0]
    BY <1>4, <1>5
  <2> DEFINE Same(k) == \A j \in 0 .. k : f[j] = g[j]
  <2>2. Same(0) /\ ~Same(n)
    BY <2>1
  <2>3. \E i \in 1 .. n : Same(i - 1) /\ ~Same(i)
    <3> HIDE DEF Same
    <3>1. 0 - 0 = 0 /\ 1 - 1 = 0 /\ 2 - 1 = 1 /\ 3 - 1 = 2 /\ 4 - 1 = 3 /\ 5 - 1 = 4 /\ 6 - 1 = 5
          /\ 7 - 1 = 6 /\ 8 - 1 = 7
      OBVIOUS
    <3>2. CASE n = 2
      BY <2>2, <3>1, <3>2
    <3>3. CASE n = 4
      BY <2>2, <3>1, <3>3
    <3>4. CASE n = 8
      BY <2>2, <3>1, <3>4
    <3> QED
      BY <3>2, <3>3, <3>4
  <2>4. PICK i \in 1 .. n : Same(i - 1) /\ ~Same(i)
    BY <2>3
  <2>5. f[i] # g[i]
    BY <2>4
  <2> QED
    BY <2>4, <2>5
<1>8. PICK i \in 1 .. n : f[i] # g[i] /\ \A j \in 0 .. i - 1 : f[j] = g[j]
  BY <1>7
<1>9. Digit(a, n, i) < Digit(b, n, i)
  <2>1. f[i] < g[i] /\ f[i - 1] = g[i - 1] /\ f[i - 1] \in Nat
    BY <1>3, <1>8
  <2> QED
    BY <2>1, <1>4, <1>5, <1>6
<1>10. ASSUME NEW j \in 1 .. i - 1 PROVE Digit(a, n, j) = Digit(b, n, j)
  <2>1. j \in 1 .. n /\ j \in 0 .. i - 1 /\ j - 1 \in 0 .. i - 1 /\ j - 1 \in 0 .. n
    OBVIOUS
  <2>2. f[j] = g[j] /\ f[j - 1] = g[j - 1] /\ f[j - 1] \in Nat
    BY <2>1, <1>3, <1>8
  <2>3. f[j] = f[j - 1] * 4 + Digit(a, n, j) /\ g[j] = g[j - 1] * 4 + Digit(b, n, j)
    BY <2>1, <1>4, <1>5
  <2>4. Digit(a, n, j) \in Nat /\ Digit(b, n, j) \in Nat
    BY <2>1, <1>6
  <2>5. \A t, d, e \in Nat : t * 4 + d = t * 4 + e => d = e
    OBVIOUS
  <2>6. f[j - 1] * 4 + Digit(a, n, j) = f[j - 1] * 4 + Digit(b, n, j)
    BY <2>2, <2>3
  <2> QED
    BY <2>2, <2>4, <2>5, <2>6
<1> QED
  BY <1>9, <1>10

\* The digit that is flipped, of numbers that are small in absolute value: low
\* without the sign, high with it.
LEMMA MiddleDigit ==
    ASSUME NEW n \in {2, 4, 8}, NEW x \in Int,
           -(Byte ^ (n \div 2) \div 2) <= x, x < Byte ^ (n \div 2) \div 2
    PROVE  Digit(x % Byte ^ n, n, n \div 2 + 1) \in (IF x < 0 THEN {2, 3} ELSE {0, 1})
<1>1. CASE n = 2
  <2>1. n \div 2 = 1 /\ Byte ^ (n \div 2) \div 2 = 2 /\ Byte ^ n = 16 /\ Byte ^ (n - (n \div 2 + 1)) = 1
    BY <1>1, Powers
  <2> QED
    BY <1>1, <2>1 DEF Digit, Byte
<1>2. CASE n = 4
  <2>1. n \div 2 = 2 /\ Byte ^ (n \div 2) \div 2 = 8 /\ Byte ^ n = 256 /\ Byte ^ (n - (n \div 2 + 1)) = 4
    BY <1>2, Powers
  <2> QED
    BY <1>2, <2>1 DEF Digit, Byte
<1>3. CASE n = 8
  <2>1. /\ n \div 2 = 4 /\ Byte ^ (n \div 2) \div 2 = 128 /\ Byte ^ n = 65536
        /\ Byte ^ (n - (n \div 2 + 1)) = 64
    BY <1>3, Powers
  <2> QED
    BY <1>3, <2>1 DEF Digit, Byte
<1> QED
  BY <1>1, <1>2, <1>3

\* The written bytes of two small integers of one sign compare as they do.
LEMMA FlippedOrder ==
    ASSUME NEW n \in {2, 4, 8}, NEW x \in Int, NEW y \in Int, x < y,
           -(Byte ^ (n \div 2) \div 2) <= x, y < Byte ^ (n \div 2) \div 2, 0 <= x \/ y < 0
    PROVE  Below(Flip(BigEndian(x, n)), Flip(BigEndian(y, n)))
<1>1. PICK a \in Nat : /\ a = x % Byte ^ n /\ a < Byte ^ n
                       /\ BigEndian(x, n) = [i \in 1 .. n |-> Digit(a, n, i)]
  BY EncodedDigits
<1>2. PICK b \in Nat : /\ b = y % Byte ^ n /\ b < Byte ^ n
                       /\ BigEndian(y, n) = [i \in 1 .. n |-> Digit(b, n, i)]
  BY EncodedDigits
<1>3. a < b
  <2>1. CASE n = 2
    <3>1. n \div 2 = 1 /\ Byte ^ (n \div 2) \div 2 = 2 /\ Byte ^ n = 16
      BY <2>1, Powers
    <3>2. a = x % 16 /\ b = y % 16
      BY <1>1, <1>2, <3>1
    <3>3. -2 <= x /\ y < 2
      BY <3>1
    <3> QED
      BY <3>2, <3>3
  <2>2. CASE n = 4
    <3>1. n \div 2 = 2 /\ Byte ^ (n \div 2) \div 2 = 8 /\ Byte ^ n = 256
      BY <2>2, Powers
    <3>2. a = x % 256 /\ b = y % 256
      BY <1>1, <1>2, <3>1
    <3>3. -8 <= x /\ y < 8
      BY <3>1
    <3> QED
      BY <3>2, <3>3
  <2>3. CASE n = 8
    <3>1. n \div 2 = 4 /\ Byte ^ (n \div 2) \div 2 = 128 /\ Byte ^ n = 65536
      BY <2>3, Powers
    <3>2. a = x % 65536 /\ b = y % 65536
      BY <1>1, <1>2, <3>1
    <3>3. -128 <= x /\ y < 128
      BY <3>1
    <3> QED
      BY <3>2, <3>3
  <2> QED
    BY <2>1, <2>2, <2>3
<1>4. PICK m \in 1 .. n : m = n \div 2 + 1
  OBVIOUS
<1>5. /\ Digit(a, n, m) \in (IF x < 0 THEN {2, 3} ELSE {0, 1})
      /\ Digit(b, n, m) \in (IF y < 0 THEN {2, 3} ELSE {0, 1})
  <2>1. -(Byte ^ (n \div 2) \div 2) <= y /\ x < Byte ^ (n \div 2) \div 2
    <3>1. Byte ^ (n \div 2) \div 2 \in {2, 8, 128}
      BY Powers
    <3> QED
      BY <3>1
  <2> QED
    BY <1>1, <1>2, <1>4, <2>1, MiddleDigit
<1>6. PICK c : c = BigEndian(x, n)
  OBVIOUS
<1>7. PICK d : d = BigEndian(y, n)
  OBVIOUS
<1>8. Flip(c) = [c EXCEPT ![m] = (c[m] + 2) % 4] /\ Flip(d) = [d EXCEPT ![m] = (d[m] + 2) % 4]
  <2>1. Byte \div 2 = 2 /\ Byte = 4
    BY DEF Byte
  <2>2. Len(c) = n /\ Len(d) = n
    BY <1>1, <1>2, <1>6, <1>7
  <2> QED
    BY <1>4, <2>1, <2>2 DEF Flip
<1>9. /\ DOMAIN Flip(c) = 1 .. n /\ Flip(c)[m] = (Digit(a, n, m) + 2) % 4
      /\ \A i \in 1 .. n : i # m => Flip(c)[i] = Digit(a, n, i)
      /\ Flip(d)[m] = (Digit(b, n, m) + 2) % 4
      /\ \A i \in 1 .. n : i # m => Flip(d)[i] = Digit(b, n, i)
  <2>1. /\ DOMAIN c = 1 .. n /\ \A i \in 1 .. n : c[i] = Digit(a, n, i)
        /\ DOMAIN d = 1 .. n /\ \A i \in 1 .. n : d[i] = Digit(b, n, i)
    BY <1>1, <1>2, <1>6, <1>7
  <2>2. \A f, g, v : g = [f EXCEPT ![m] = v] /\ DOMAIN f = 1 .. n =>
           DOMAIN g = 1 .. n /\ g[m] = v /\ \A i \in 1 .. n : i # m => g[i] = f[i]
    OBVIOUS
  <2>3. /\ DOMAIN Flip(c) = 1 .. n /\ Flip(c)[m] = (c[m] + 2) % 4
        /\ \A i \in 1 .. n : i # m => Flip(c)[i] = c[i]
    BY <1>8, <2>1, <2>2
  <2>4. /\ Flip(d)[m] = (d[m] + 2) % 4
        /\ \A i \in 1 .. n : i # m => Flip(d)[i] = d[i]
    BY <1>8, <2>1, <2>2
  <2> QED
    BY <2>1, <2>3, <2>4
<1>10. PICK i \in 1 .. n : /\ Digit(a, n, i) < Digit(b, n, i)
                           /\ \A j \in 1 .. i - 1 : Digit(a, n, j) = Digit(b, n, j)
  BY <1>2, <1>3, DigitsOrder
<1>11. Flip(c)[i] < Flip(d)[i]
  <2>1. CASE i # m
    BY <1>9, <1>10, <2>1
  <2>2. CASE i = m
    <3>1. (0 + 2) % 4 = 2 /\ (1 + 2) % 4 = 3 /\ (2 + 2) % 4 = 0 /\ (3 + 2) % 4 = 1
      OBVIOUS
    <3>2. x < 0 <=> y < 0
      OBVIOUS
    <3>3. \/ Digit(a, n, m) = 0 /\ Digit(b, n, m) = 1
          \/ Digit(a, n, m) = 2 /\ Digit(b, n, m) = 3
      BY <1>5, <1>10, <2>2, <3>2
    <3> QED
      BY <1>9, <2>2, <3>1, <3>3
  <2> QED
    BY <2>1, <2>2
<1>12. ASSUME NEW j \in 1 .. i - 1 PROVE Flip(c)[j] = Flip(d)[j]
  <2>1. j \in 1 .. n /\ Digit(a, n, j) = Digit(b, n, j)
    BY <1>10
  <2> QED
    BY <1>9, <2>1
<1> QED
  BY <1>6, <1>7, <1>9, <1>11, <1>12 DEF Below

-----------------------------------------------------------------------------
(* Texts *)

\* Zeros behind a text change neither that it is one nor what trimming leaves.
LEMMA PaddedText ==
    ASSUME NEW text \in Seq(Bytes), IsUTF8(text), NEW n \in Nat, Len(text) <= n,
           NEW s, s = [j \in 1 .. n |-> IF j <= Len(text) THEN text[j] ELSE 0]
    PROVE  IsUTF8(s) /\ Trimmed(s) = Trimmed(text)
<1>1. PICK k \in Nat : k = Len(text) /\ k <= n /\ DOMAIN text = 1 .. k
  OBVIOUS
<1>2. /\ Len(s) = n /\ DOMAIN s = 1 .. n
      /\ \A j \in 1 .. k : s[j] = text[j]
      /\ \A j \in k + 1 .. n : s[j] = 0
  BY <1>1
<1>3. IsUTF8(s)
  <2> SUFFICES ASSUME NEW i \in 1 .. n
               PROVE  /\ s[i] = 3 => i < n /\ s[i + 1] = 2
                      /\ s[i] = 2 => i > 1 /\ s[i - 1] = 3
    BY <1>2 DEF IsUTF8
  <2>1. CASE i <= k
    <3>0. i \in 1 .. k
      BY <1>1, <2>1
    <3>1. i \in 1 .. k /\ s[i] = text[i]
      BY <1>2, <3>0
    <3>2. text[i] = 3 => i < k /\ text[i + 1] = 2
      BY <1>1, <3>1 DEF IsUTF8
    <3>3. text[i] = 2 => i > 1 /\ text[i - 1] = 3
      BY <1>1, <3>1 DEF IsUTF8
    <3>4. i < k => s[i + 1] = text[i + 1]
      <4>1. i < k => i + 1 \in 1 .. k
        BY <3>1
      <4> QED
        BY <1>2, <4>1
    <3>5. i > 1 => s[i - 1] = text[i - 1]
      <4>1. i > 1 => i - 1 \in 1 .. k
        BY <3>1
      <4> QED
        BY <1>2, <4>1
    <3> QED
      BY <1>1, <3>1, <3>2, <3>3, <3>4, <3>5
  <2>2. CASE i > k
    <3>1. i \in k + 1 .. n
      BY <1>1, <2>2
    <3>2. s[i] = 0
      BY <1>2, <3>1
    <3> QED
      BY <3>2
  <2> QED
    BY <2>1, <2>2
<1> DEFINE Ends(t, l, m) == (m = 0 \/ t[m] # 0) /\ \A i \in m + 1 .. l : t[i] = 0
<1>4. PICK m \in 0 .. k : Ends(text, k, m)
  <2> DEFINE P == {p \in 0 .. k : \A i \in p + 1 .. k : text[i] = 0}
  <2>1. P \in SUBSET Nat /\ k \in P
    OBVIOUS
  <2>2. PICK p \in P : \A q \in P : p <= q
    <3> HIDE DEF P
    <3> QED
      BY <2>1, Least
  <2>3. p = 0 \/ text[p] # 0
    <3> SUFFICES ASSUME p # 0, text[p] = 0 PROVE FALSE
      OBVIOUS
    <3>1. p - 1 \in 0 .. k /\ p \in Nat
      BY <2>2
    <3>2. ASSUME NEW i \in (p - 1) + 1 .. k PROVE text[i] = 0
      <4>1. i = p \/ i \in p + 1 .. k
        BY <3>1
      <4> QED
        BY <2>2, <4>1
    <3>3. p - 1 \in P
      BY <3>1, <3>2
    <3>4. p <= p - 1
      BY <2>2, <3>3
    <3> QED
      BY <3>1, <3>4
  <2> QED
    BY <2>2, <2>3
<1>5. Ends(s, n, m)
  <2>1. m = 0 \/ s[m] # 0
    <3>1. m \in Nat /\ (m # 0 => m \in 1 .. k)
      OBVIOUS
    <3> QED
      BY <1>2, <1>4, <3>1
  <2>2. ASSUME NEW i \in m + 1 .. n PROVE s[i] = 0
    <3>1. CASE i <= k
      <4>1. i \in 1 .. k /\ i \in m + 1 .. k
        BY <3>1
      <4> QED
        BY <1>2, <1>4, <4>1
    <3>2. CASE i > k
      <4>1. i \in k + 1 .. n
        BY <1>1, <3>2
      <4> QED
        BY <1>2, <4>1
    <3> QED
      BY <1>1, <3>1, <3>2
  <2> QED
    BY <2>1, <2>2
<1>6. \A p \in 0 .. k : Ends(text, k, p) <=> p = m
  <2> TAKE p \in 0 .. k
  <2>1. p < m => m \in p + 1 .. k
    OBVIOUS
  <2>2. m < p => p \in m + 1 .. k
    OBVIOUS
  <2>3. p < m \/ p = m \/ m < p
    OBVIOUS
  <2> QED
    BY <1>4, <2>1, <2>2, <2>3
<1>7. \A p \in 0 .. n : Ends(s, n, p) <=> p = m
  <2> TAKE p \in 0 .. n
  <2>0. m \in 0 .. n
    BY <1>1
  <2>1. p < m => m \in p + 1 .. n /\ m # 0
    BY <2>0
  <2>2. m < p => p \in m + 1 .. n /\ p # 0
    OBVIOUS
  <2>3. p < m \/ p = m \/ m < p
    OBVIOUS
  <2>4. ASSUME Ends(s, n, p) PROVE p = m
    <3>1. ~(p < m)
      BY <1>5, <2>1, <2>4
    <3>2. ~(m < p)
      BY <1>5, <2>2, <2>4
    <3> QED
      BY <2>3, <3>1, <3>2
  <2> HIDE DEF Ends
  <2> QED
    BY <1>5, <2>4
<1>8. Trimmed(text) = SubSeq(text, 1, m)
  <2>1. Trimmed(text) = SubSeq(text, 1, CHOOSE p \in 0 .. k : Ends(text, k, p))
    BY <1>1 DEF Trimmed
  <2> HIDE DEF Ends
  <2>2. (CHOOSE p \in 0 .. k : Ends(text, k, p)) = m
    BY <1>4, <1>6
  <2> QED
    BY <2>1, <2>2
<1>9. Trimmed(s) = SubSeq(s, 1, m)
  <2>1. Trimmed(s) = SubSeq(s, 1, CHOOSE p \in 0 .. n : Ends(s, n, p))
    BY <1>2 DEF Trimmed
  <2>0. m \in 0 .. n
    BY <1>1
  <2> HIDE DEF Ends
  <2>2. (CHOOSE p \in 0 .. n : Ends(s, n, p)) = m
    BY <1>5, <1>7, <2>0
  <2> QED
    BY <2>1, <2>2
<1>10. SubSeq(s, 1, m) = SubSeq(text, 1, m)
  <2>1. PICK t : t = SubSeq(s, 1, m)
    OBVIOUS
  <2>2. PICK u : u = SubSeq(text, 1, m)
    OBVIOUS
  <2>3. \A j \in 1 .. m : s[j] = text[j] /\ s[j] \in Bytes /\ text[j] \in Bytes
    <3> TAKE j \in 1 .. m
    <3>1. j \in 1 .. k
      OBVIOUS
    <3>2. text[j] \in Bytes
      BY <1>1, <3>1
    <3> QED
      BY <1>2, <3>1, <3>2
  <2>4. ASSUME NEW f, \A j \in 1 .. m : f[j] \in Bytes
        PROVE  /\ SubSeq(f, 1, m) \in Seq(Bytes) /\ Len(SubSeq(f, 1, m)) = m
               /\ \A j \in 1 .. m : SubSeq(f, 1, m)[j] = f[j]
    <3>1. 1 \in Int /\ m \in Int
      OBVIOUS
    <3>2. /\ SubSeq(f, 1, m) \in Seq(Bytes)
          /\ Len(SubSeq(f, 1, m)) = IF 1 <= m THEN m - 1 + 1 ELSE 0
          /\ \A j \in 1 .. m - 1 + 1 : SubSeq(f, 1, m)[j] = f[1 + j - 1]
      BY <2>4, <3>1, SubSeqProperties
    <3> QED
      BY <3>2
  <2>5. /\ t \in Seq(Bytes) /\ Len(t) = m /\ \A j \in 1 .. m : t[j] = s[j]
        /\ u \in Seq(Bytes) /\ Len(u) = m /\ \A j \in 1 .. m : u[j] = text[j]
    BY <2>1, <2>2, <2>3, <2>4
  <2>6. \A j \in 1 .. Len(t) : t[j] = u[j]
    BY <2>3, <2>5
  <2>7. t = u
    BY <2>5, <2>6, SeqEqual
  <2> QED
    BY <2>1, <2>2, <2>7
<1> QED
  BY <1>3, <1>8, <1>9, <1>10

-----------------------------------------------------------------------------
(* The write stream *)

USE RowAssumption DEF RowAssumption

LEMMA Sizes ==
    ASSUME NEW type \in DataType
    PROVE  type.size \in Nat /\ (type.kind # "Char" => type.size \in {2, 4, 8})
BY DEF DataType, IntSize, IntKinds

\* What is written before the padding fits the type, and is all of an integer.
LEMMA PayloadSize ==
    ASSUME NEW type \in DataType, NEW value \in DataValue,
           type.kind = value.kind, ~Overflows(type, value)
    PROVE  /\ Len(Payload(type, value)) \in Nat
           /\ Len(Payload(type, value)) <= type.size
           /\ type.kind # "Char" => Len(Payload(type, value)) = type.size
<1>1. CASE type.kind = "Char"
  <2>1. value \in [kind : {"Char"}, text : {t \in Seq(Bytes) : IsUTF8(t)}]
    BY <1>1 DEF DataValue
  <2>2. value.text \in Seq(Bytes)
    BY <2>1
  <2> QED
    BY <1>1, <2>2, Sizes DEF Payload, Overflows
<1>2. CASE type.kind # "Char"
  <2> DEFINE b == BigEndian(value.int, type.size)
  <2>1. Len(b) = type.size /\ DOMAIN b = 1 .. type.size
    BY <1>2, Sizes DEF BigEndian
  <2>2. Len(Flip(b)) = type.size
    BY <1>2, <2>1, Sizes DEF Flip, BigEndian
  <2> QED
    BY <1>2, <2>2, Sizes DEF Payload
<1> QED
  BY <1>1, <1>2

\* A field that starts early enough is written and padded to its whole size.
LEMMA PutWhole ==
    ASSUME NEW type \in DataType, NEW value \in DataValue,
           type.kind = value.kind, ~Overflows(type, value),
           NEW s, Len(s.buffer) \in Nat, DOMAIN s.buffer = 1 .. Len(s.buffer),
           s.position \in Nat, s.position + type.size <= Len(s.buffer)
    PROVE  /\ PutField(s, type, value) =
                  [buffer |-> Copied(s.buffer, s.position, Payload(type, value)),
                   position |-> s.position + type.size]
           /\ Len(PutField(s, type, value).buffer) = Len(s.buffer)
           /\ DOMAIN PutField(s, type, value).buffer = 1 .. Len(s.buffer)
           /\ Fits(PutField(s, type, value))
<1> DEFINE bytes == Payload(type, value)
           copy == Copied(s.buffer, s.position, bytes)
<1>1. Len(bytes) \in Nat /\ Len(bytes) <= type.size /\ type.size \in Nat
  BY PayloadSize, Sizes
<1> HIDE DEF bytes
<1>2. Len(copy) = Len(s.buffer) /\ DOMAIN copy = 1 .. Len(s.buffer)
  BY DEF Copied
<1>3. Write(s, bytes) = [buffer |-> copy, position |-> s.position + Len(bytes)]
  BY <1>1 DEF Write
<1>4. Fits(Write(s, bytes))
  BY <1>1, <1>2, <1>3 DEF Fits
<1>5. PutField(s, type, value) = [buffer |-> copy, position |-> s.position + type.size]
  BY <1>1, <1>3, <1>4 DEF PutField, Pad, bytes
<1> QED
  BY <1>1, <1>2, <1>5 DEF Fits, bytes

-----------------------------------------------------------------------------
(* The invariant: the offsets are the sums of the sizes, and the stream is where *)
(* they say.                                                                     *)

Typed ==
    /\ types \in Seq(DataType) /\ values \in Seq(DataValue)
    /\ at \in {"sizing", "writing", "ok", "failed", "reading", "panicked"}
    /\ fields \in 0 .. Len(types) /\ fields \in 0 .. Len(values)
    /\ r.position \in Nat /\ "position" \in DOMAIN r /\ asked \in Seq(DataType)
    /\ \E S : yields \in Seq(S)

Summed ==
    /\ offsets \in Seq(Nat) /\ Len(offsets) \in 1 .. Len(types) + 1
    /\ at # "sizing" => Len(offsets) = Len(types) + 1
    /\ at = "sizing" => fields = 0
    /\ \A i \in 1 .. Len(offsets) - 1 : offsets[i + 1] = offsets[i] + types[i].size
    /\ \A i, j \in 1 .. Len(offsets) : i <= j => offsets[i] <= offsets[j]
    /\ offsets[1] = 0

Buffered ==
    at # "sizing" =>
        LET cap == offsets[Len(types) + 1] IN
        Len(w.buffer) = cap /\ DOMAIN w.buffer = 1 .. cap

WellFormed ==
    \A i \in 1 .. fields : types[i].kind = values[i].kind /\ ~Overflows(types[i], values[i])

\* The buffer is exactly large enough: each field is written where the sizes of
\* the types before it say a reader will look, and no well-typed row is refused
\* for want of room (the capacity at 281, write and pad at 64-84).
FieldsAligned ==
    /\ at = "writing" => w.position = offsets[fields + 1]
    /\ error # "BufferUnexpectedEnd"

\* A field's bytes, its payload and zeros, stay as they were written: pad writes
\* none of them, so the rest of the buffer must still be as vec![0u8; size] left it.
FieldsKept ==
    at \in {"writing", "ok"} =>
        /\ \A i \in 1 .. fields : \A j \in 1 .. types[i].size :
               LET bytes == Payload(types[i], values[i]) IN
               w.buffer[offsets[i] + j] = IF j <= Len(bytes) THEN bytes[j] ELSE 0
        /\ \A j \in w.position + 1 .. Len(w.buffer) : w.buffer[j] = 0

InPlace == at \in {"writing", "ok"} => w.position = offsets[fields + 1]

IInv == Typed /\ Summed /\ Buffered /\ WellFormed /\ InPlace /\ FieldsKept
        /\ error # "BufferUnexpectedEnd"

LEMMA InitIInv == Init => IInv
<1> SUFFICES ASSUME Init PROVE IInv
  OBVIOUS
<1>1. Typed
  BY DEF Init, Typed, NoStream
<1>2. Summed
  BY <1>1 DEF Init, Summed, Typed
<1> QED
  BY <1>1, <1>2 DEF Init, IInv, Buffered, WellFormed, InPlace, FieldsKept

LEMMA AddSizeIInv == IInv /\ AddSize => IInv'
<1> SUFFICES ASSUME IInv, AddSize PROVE IInv'
  OBVIOUS
<1> USE DEF IInv
<1>1. /\ Len(offsets) \in 1 .. Len(types) /\ offsets \in Seq(Nat) /\ types \in Seq(DataType)
      /\ types' = types /\ at' = at /\ fields' = 0 /\ at = "sizing"
  BY DEF AddSize, Typed, Summed
<1> DEFINE n == Len(offsets)
           new == offsets[n] + types[n].size
<1>2. types[n].size \in Nat /\ offsets[n] \in Nat
  BY <1>1, Sizes
<1>3. offsets' = Append(offsets, new)
  BY <1>1 DEF AddSize, Last
<1> HIDE DEF new
<1>4. new \in Nat /\ new >= offsets[n] /\ new = offsets[n] + types[n].size
  BY <1>2 DEF new
<1>5. /\ offsets' \in Seq(Nat) /\ Len(offsets') = n + 1 /\ offsets'[n + 1] = new
      /\ \A i \in 1 .. n : offsets'[i] = offsets[i]
  BY <1>1, <1>3, <1>4
<1>6. Summed'
  <2>1. /\ \A i \in 1 .. n - 1 : offsets[i + 1] = offsets[i] + types[i].size
        /\ \A i, j \in 1 .. n : i <= j => offsets[i] <= offsets[j]
        /\ \A i \in 1 .. n : offsets[i] \in Nat
    <3>1. Summed
      OBVIOUS
    <3>2. \A i \in 1 .. n : offsets[i] \in Nat
      BY <1>1
    <3> QED
      BY <3>1, <3>2 DEF Summed
  <2>2. \A i \in 1 .. n : offsets'[i + 1] = offsets'[i] + types[i].size
    <3> TAKE i \in 1 .. n
    <3>1. CASE i = n
      BY <1>4, <1>5, <3>1
    <3>2. CASE i # n
      <4>1. i \in 1 .. n - 1 /\ i + 1 \in 1 .. n
        BY <1>1, <3>2
      <4> QED
        BY <1>5, <2>1, <4>1
    <3> QED
      BY <3>1, <3>2
  <2>3. \A i, j \in 1 .. n + 1 : i <= j => offsets'[i] <= offsets'[j]
    <3> SUFFICES ASSUME NEW i \in 1 .. n + 1, NEW j \in 1 .. n + 1, i <= j
                 PROVE  offsets'[i] <= offsets'[j]
      OBVIOUS
    <3>1. CASE j \in 1 .. n
      <4>1. i \in 1 .. n
        BY <3>1
      <4> QED
        BY <1>5, <2>1, <3>1, <4>1
    <3>2. CASE j = n + 1 /\ i \in 1 .. n
      <4>1. n \in 1 .. n
        BY <1>1
      <4>2. offsets[i] <= offsets[n] /\ offsets[i] \in Nat /\ offsets[n] \in Nat
        BY <1>1, <2>1, <3>2, <4>1
      <4> QED
        BY <1>4, <1>5, <3>2, <4>2
    <3>3. CASE j = n + 1 /\ i = n + 1
      BY <1>4, <1>5, <3>3
    <3> QED
      BY <1>1, <3>1, <3>2, <3>3
  <2> QED
    BY <1>1, <1>5, <2>1, <2>2, <2>3 DEF Summed
<1> QED
  BY <1>1, <1>6 DEF AddSize, Typed, Buffered, WellFormed, InPlace, FieldsKept, writing, reading

LEMMA NewStreamIInv == IInv /\ NewStream => IInv'
<1> SUFFICES ASSUME IInv, NewStream PROVE IInv'
  OBVIOUS
<1> USE DEF IInv
<1>1. /\ at = "sizing" /\ at' = "writing" /\ fields = 0 /\ types \in Seq(DataType)
      /\ Len(offsets) = Len(types) + 1 /\ offsets \in Seq(Nat) /\ offsets[1] = 0
      /\ UNCHANGED <<types, values, error, offsets, fields, reading>>
  BY DEF NewStream, Typed, Summed
<1> DEFINE cap == offsets[Len(types) + 1]
<1>2. cap \in Nat /\ w'.buffer = Zeros(cap) /\ w'.position = 0
  BY <1>1 DEF NewStream, Last
<1>3. Len(w'.buffer) = cap /\ DOMAIN w'.buffer = 1 .. cap
      /\ \A j \in 1 .. cap : w'.buffer[j] = 0
  BY <1>2 DEF Zeros
<1>4. Typed' /\ Summed' /\ WellFormed'
  BY <1>1 DEF Typed, Summed, WellFormed, reading
<1>5. Buffered' /\ InPlace' /\ FieldsKept'
  BY <1>1, <1>2, <1>3 DEF Buffered, InPlace, FieldsKept
<1> QED
  BY <1>1, <1>4, <1>5

LEMMA SerializeFieldIInv == IInv /\ SerializeField => IInv'
<1> SUFFICES ASSUME IInv, SerializeField PROVE IInv'
  OBVIOUS
<1> USE DEF IInv
<1> DEFINE f == fields + 1
           bytes == Payload(types[f], values[f])
           cap == offsets[Len(types) + 1]
<1>1. /\ at = "writing" /\ f \in 1 .. Len(types) /\ f \in 1 .. Len(values)
      /\ fields \in Nat /\ types \in Seq(DataType) /\ values \in Seq(DataValue)
      /\ UNCHANGED <<types, values, offsets, reading>>
  BY DEF SerializeField, Typed
<1>2. types[f] \in DataType /\ values[f] \in DataValue /\ types[f].size \in Nat
  BY <1>1, Sizes
<1>3. /\ offsets \in Seq(Nat) /\ Len(offsets) = Len(types) + 1
      /\ f \in 1 .. Len(offsets) /\ f + 1 \in 1 .. Len(offsets)
      /\ Len(types) + 1 \in 1 .. Len(offsets)
  BY <1>1 DEF Summed
<1>4. /\ cap \in Nat /\ offsets[f] \in Nat /\ offsets[f + 1] \in Nat
      /\ offsets[f + 1] = offsets[f] + types[f].size /\ offsets[f + 1] <= cap
  <2>1. cap \in Nat /\ offsets[f] \in Nat /\ offsets[f + 1] \in Nat
    BY <1>3
  <2>2. offsets[f + 1] = offsets[f] + types[f].size
    BY <1>1, <1>3 DEF Summed
  <2>3. offsets[f + 1] <= cap
    BY <1>1, <1>3 DEF Summed
  <2> QED
    BY <2>1, <2>2, <2>3
<1>5. Len(w.buffer) = cap /\ DOMAIN w.buffer = 1 .. cap /\ w.position = offsets[f]
  BY <1>1 DEF Buffered, InPlace
<1>6. ASSUME w' = w, fields' = fields, at' = "failed", error' # "BufferUnexpectedEnd"
      PROVE  IInv'
  BY <1>1, <1>6 DEF Typed, Summed, Buffered, WellFormed, InPlace, FieldsKept, reading
<1>7. ASSUME types[f].kind = values[f].kind, ~Overflows(types[f], values[f]),
             w' = PutField(w, types[f], values[f]),
             Fits(w') => fields' = f /\ UNCHANGED <<at, error>>
      PROVE  IInv'
  <2>1. /\ w' = [buffer |-> Copied(w.buffer, offsets[f], bytes), position |-> offsets[f + 1]]
        /\ Len(w'.buffer) = cap /\ DOMAIN w'.buffer = 1 .. cap /\ Fits(w')
    <3>1. w.position \in Nat /\ w.position + types[f].size <= cap
      BY <1>4, <1>5
    <3> HIDE DEF cap, f
    <3>2. /\ PutField(w, types[f], values[f]) =
                [buffer |-> Copied(w.buffer, w.position, bytes),
                 position |-> w.position + types[f].size]
          /\ Len(PutField(w, types[f], values[f]).buffer) = Len(w.buffer)
          /\ DOMAIN PutField(w, types[f], values[f]).buffer = 1 .. Len(w.buffer)
          /\ Fits(PutField(w, types[f], values[f]))
      BY <1>2, <1>4, <1>5, <1>7, <3>1, PutWhole
    <3> QED
      BY <1>4, <1>5, <1>7, <3>2
  <2>2. fields' = f /\ at' = at /\ error' = error
    BY <1>7, <2>1
  <2>3. Len(bytes) \in Nat /\ Len(bytes) <= types[f].size
    BY <1>2, <1>7, PayloadSize
  <2>4. Typed' /\ Summed'
    BY <1>1, <2>2 DEF Typed, Summed, reading
  <2>5. Buffered' /\ InPlace'
    BY <1>1, <2>1, <2>2 DEF Buffered, InPlace
  <2>6. WellFormed'
    BY <1>1, <1>7, <2>2 DEF WellFormed
  <2>7. \A j \in 1 .. cap :
           w'.buffer[j] = IF j \in offsets[f] + 1 .. offsets[f] + Len(bytes)
                          THEN bytes[j - offsets[f]] ELSE w.buffer[j]
    BY <1>5, <2>1 DEF Copied
  <2> HIDE DEF bytes, cap
  <2>8. ASSUME NEW i \in 1 .. f, NEW j \in 1 .. types[i].size
        PROVE  w'.buffer[offsets[i] + j] =
                   LET b == Payload(types[i], values[i]) IN IF j <= Len(b) THEN b[j] ELSE 0
    <3>1. CASE i = f
      <4>1. offsets[f] + j \in 1 .. cap
        BY <1>2, <1>4, <2>8, <3>1
      <4>2. CASE j <= Len(bytes)
        <5>1. /\ offsets[f] + j \in offsets[f] + 1 .. offsets[f] + Len(bytes)
              /\ offsets[f] + j - offsets[f] = j
          BY <1>2, <1>4, <2>3, <2>8, <3>1, <4>2
        <5>2. \A k \in 1 .. cap : k \in offsets[f] + 1 .. offsets[f] + Len(bytes) =>
                 w'.buffer[k] = bytes[k - offsets[f]]
          BY <2>7
        <5>3. w'.buffer[offsets[f] + j] = bytes[j]
          <6>1. \A k \in 1 .. cap : k = offsets[f] + j => k - offsets[f] = j
            BY <1>2, <1>4, <2>8, <3>1
          <6>2. \A k \in 1 .. cap : k = offsets[f] + j => w'.buffer[k] = bytes[j]
            BY <5>1, <5>2, <6>1
          <6> QED
            BY <4>1, <6>2
        <5> QED
          BY <3>1, <4>2, <5>3 DEF bytes
      <4>3. CASE j > Len(bytes)
        <5>1. w.buffer[offsets[f] + j] = 0
          <6>1. \A k \in offsets[f] + 1 .. Len(w.buffer) : w.buffer[k] = 0
            BY <1>1, <1>5 DEF FieldsKept
          <6>2. offsets[f] + j \in offsets[f] + 1 .. Len(w.buffer)
            <7>1. j \in Nat /\ j >= 1
              BY <1>2, <2>8, <3>1
            <7>2. offsets[f] + j <= cap /\ Len(w.buffer) = cap
              BY <1>4, <1>5, <4>1
            <7> HIDE DEF f, IInv
            <7> QED
              BY <1>4, <7>1, <7>2
          <6> QED
            BY <6>1, <6>2
        <5> QED
          <6>1. offsets[f] + j \notin offsets[f] + 1 .. offsets[f] + Len(bytes)
            BY <1>2, <1>4, <2>3, <2>8, <3>1, <4>3
          <6>2. w'.buffer[offsets[f] + j] = 0 /\ ~(j <= Len(bytes))
            BY <1>2, <2>3, <2>7, <2>8, <3>1, <4>1, <4>3, <5>1, <6>1
          <6> QED
            BY <3>1, <6>2 DEF bytes
      <4> QED
        BY <1>2, <2>3, <2>8, <3>1, <4>2, <4>3
    <3>2. CASE i # f
      <4>1. i \in 1 .. fields /\ i \in 1 .. Len(types) /\ types[i].size \in Nat
        BY <1>1, <2>8, <3>2, Sizes
      <4>2. /\ offsets[i + 1] = offsets[i] + types[i].size
            /\ i \in 1 .. Len(offsets) /\ i + 1 \in 1 .. Len(offsets)
        BY <1>1, <1>3, <4>1 DEF Summed
      <4>3. offsets[i] \in Nat /\ offsets[i + 1] \in Nat /\ offsets[i + 1] <= offsets[f]
        <5>1. offsets[i] \in Nat /\ offsets[i + 1] \in Nat
          BY <1>3, <4>2
        <5>2. i + 1 <= f
          BY <1>1, <4>1
        <5>3. \A k, l \in 1 .. Len(offsets) : k <= l => offsets[k] <= offsets[l]
          BY DEF Summed
        <5> QED
          BY <1>3, <4>2, <5>1, <5>2, <5>3
      <4>4. offsets[i] + j \in 1 .. cap /\ offsets[i] + j <= offsets[f]
        <5>1. j \in Nat /\ 1 <= j /\ j <= types[i].size
          BY <2>8, <4>1
        <5>2. offsets[i] + j <= offsets[i + 1]
          BY <4>1, <4>2, <4>3, <5>1
        <5>3. offsets[f] <= cap
          BY <1>2, <1>4
        <5> QED
          BY <1>4, <4>3, <5>1, <5>2, <5>3
      <4>5. w'.buffer[offsets[i] + j] = w.buffer[offsets[i] + j]
        BY <1>4, <2>3, <2>7, <4>4
      <4> QED
        BY <1>1, <2>8, <4>1, <4>5 DEF FieldsKept
    <3> QED
      BY <3>1, <3>2
  <2>9. \A j \in offsets[f + 1] + 1 .. cap : w'.buffer[j] = 0
    <3> TAKE j \in offsets[f + 1] + 1 .. cap
    <3>1. j \in 1 .. cap /\ j \in offsets[f] + 1 .. cap /\ j > offsets[f] + Len(bytes)
      BY <1>2, <1>4, <2>3
    <3>2. w.buffer[j] = 0
      BY <1>1, <1>5, <3>1 DEF FieldsKept
    <3> QED
      BY <1>4, <2>3, <2>7, <3>1, <3>2
  <2>10. FieldsKept'
    BY <1>1, <2>1, <2>2, <2>8, <2>9 DEF FieldsKept
  <2> QED
    BY <2>2, <2>4, <2>5, <2>6, <2>10
<1> QED
  BY <1>1, <1>6, <1>7 DEF SerializeField

\* Reading changes nothing that was written; its position stays a number.
LEMMA ReadingIInv ==
    ASSUME IInv, UNCHANGED <<types, values, writing>>,
           at' \in {"ok", "reading", "panicked"}, at \in {"writing", "ok", "reading"},
           at' = "ok" => at = "writing",
           r'.position \in Nat, "position" \in DOMAIN r', asked' \in Seq(DataType), \E S : yields' \in Seq(S)
    PROVE  IInv'
<1> USE DEF IInv
<1>1. Typed' /\ Summed' /\ Buffered' /\ WellFormed'
  BY DEF Typed, Summed, Buffered, WellFormed, writing
<1>2. InPlace' /\ FieldsKept' /\ error' # "BufferUnexpectedEnd"
  BY DEF InPlace, FieldsKept, writing
<1> QED
  BY <1>1, <1>2

LEMMA OpenIInv == IInv /\ (OpenBytes \/ OpenTuple \/ OpenFrom) => IInv'
<1> SUFFICES ASSUME IInv, OpenBytes \/ OpenTuple \/ OpenFrom PROVE IInv'
  OBVIOUS
<1>1. at = "ok" /\ UNCHANGED <<types, values, writing>> /\ at' \in {"reading", "panicked"}
  BY DEF OpenBytes, OpenTuple, OpenFrom, Reads
<1>2. ASSUME NEW stream, stream.position = 0, "position" \in DOMAIN stream, NEW ts \in Seq(DataType), Reads(stream, ts)
      PROVE  IInv'
  <2>1. r'.position \in Nat /\ "position" \in DOMAIN r' /\ asked' \in Seq(DataType) /\ \E S : yields' \in Seq(S)
    BY <1>2 DEF Reads, IInv, Typed
  <2> QED
    BY <1>1, <2>1, ReadingIInv
<1>3. CASE OpenBytes
  <2> PICK n \in 0 .. Len(w.buffer) :
          Reads([NoStream EXCEPT !.bytes = SubSeq(w.buffer, 1, n)], <<>>)
    BY <1>3 DEF OpenBytes
  <2> DEFINE stream == [NoStream EXCEPT !.bytes = SubSeq(w.buffer, 1, n)]
  <2>1. stream.position = 0 /\ "position" \in DOMAIN stream /\ Reads(stream, <<>>) /\ <<>> \in Seq(DataType)
    BY DEF NoStream
  <2> HIDE DEF stream
  <2> QED
    BY <1>2, <2>1
<1>4. CASE OpenTuple
  <2>1. PICK bytes, role, key :
            Reads([NoStream EXCEPT !.bytes = bytes, !.role = role, !.key = key], <<>>)
    BY <1>4 DEF OpenTuple
  <2> DEFINE stream == [NoStream EXCEPT !.bytes = bytes, !.role = role, !.key = key]
  <2>2. stream.position = 0 /\ "position" \in DOMAIN stream /\ Reads(stream, <<>>) /\ <<>> \in Seq(DataType)
    BY <2>1 DEF NoStream
  <2> HIDE DEF stream
  <2> QED
    BY <1>2, <2>2
<1>5. CASE OpenFrom
  <2>1. CASE at' = "panicked" /\ UNCHANGED reading
    BY <1>1, <2>1, ReadingIInv DEF IInv, Typed, reading
  <2>2. CASE ~(at' = "panicked" /\ UNCHANGED reading)
    <3> PICK first \in DOMAIN types, ts \in Calls :
            LET start == offsets[first]
                end   == start + SumSizes(ts)
            IN  Reads([NoStream EXCEPT !.bytes = SubSeq(w.buffer, start + 1, end),
                                       !.first = first], ts)
      BY <1>5, <2>2 DEF OpenFrom
    <3> QED
      BY <1>2 DEF NoStream
  <2> QED
    BY <2>1, <2>2
<1> QED
  BY <1>3, <1>4, <1>5

LEMMA CallIInv == IInv /\ (\E ts \in Calls : Call(ts)) => IInv'
<1> SUFFICES ASSUME IInv, NEW ts \in Calls, Call(ts) PROVE IInv'
  OBVIOUS
<1> QED
  BY ReadingIInv DEF Call, IInv, Typed

LEMMA DeserializeFieldIInv == IInv /\ DeserializeField => IInv'
<1> SUFFICES ASSUME IInv, DeserializeField PROVE IInv'
  OBVIOUS
<1>1. asked \in Seq(DataType) /\ asked # <<>> /\ r.position \in Nat
  BY DEF DeserializeField, IInv, Typed
<1>2. Head(asked) \in DataType /\ Tail(asked) \in Seq(DataType)
  BY <1>1
<1>3. r'.position \in Nat /\ "position" \in DOMAIN r'
  BY <1>1, <1>2, Sizes DEF DeserializeField, Advanced, IInv, Typed
<1>4. asked' \in Seq(DataType)
  BY <1>2 DEF DeserializeField
<1>5. UNCHANGED <<types, values, writing>> /\ at = "reading" /\ at' = "reading"
  BY DEF DeserializeField
<1>6. \E S : yields' \in Seq(S)
  <2>1. PICK S : yields \in Seq(S)
    BY DEF IInv, Typed
  <2>2. PICK e : yields' = Append(yields, e)
    BY DEF DeserializeField
  <2>3. yields' \in Seq(S \cup {e})
    BY <2>1, <2>2
  <2> QED
    BY <2>3
<1> QED
  BY <1>3, <1>4, <1>5, <1>6, ReadingIInv

LEMMA NextIInv == IInv /\ [Next]_vars => IInv'
<1> SUFFICES ASSUME IInv, [Next]_vars PROVE IInv'
  OBVIOUS
<1>1. CASE Serialized
  <2>1. at = "writing" /\ at' = "ok" /\ UNCHANGED <<types, values, writing, reading>>
    BY <1>1 DEF Serialized
  <2> QED
    BY <2>1, ReadingIInv DEF IInv, Typed, reading
<1>2. CASE UNCHANGED vars
  BY <1>2 DEF vars, writing, reading, IInv, Typed, Summed, Buffered, WellFormed, InPlace,
              FieldsKept
<1> QED
  BY <1>1, <1>2, AddSizeIInv, NewStreamIInv, SerializeFieldIInv, OpenIInv, CallIInv,
     DeserializeFieldIInv DEF Next, Rest

LEMMA Invariant == Spec => []IInv
BY InitIInv, NextIInv, PTL DEF Spec

\* Serializer::serialize finds room for every row that is well typed, of any
\* length and any sizes, and each field begins at the sum of the sizes before it.
THEOREM AlwaysAligned == Spec => []FieldsAligned
<1>1. IInv => FieldsAligned
  BY DEF IInv, InPlace, FieldsAligned
<1> QED
  BY Invariant, <1>1, PTL

\* No field's bytes are disturbed by the fields after it, and the padding of a
\* Char, which is never written, is zeros.
THEOREM AlwaysKept == Spec => []FieldsKept
<1>1. IInv => FieldsKept
  BY DEF IInv
<1> QED
  BY Invariant, <1>1, PTL

-----------------------------------------------------------------------------
(* A stream after an error *)

\* A read that failed has left the position behind the end.
Spoiled ==
    /\ at # "reading" => yields = <<>>
    /\ \A i \in DOMAIN yields : yields[i].result = End => r.position > Len(r.bytes)

\* Bytes that are there never read as their own absence.
LEMMA BytesAreNoEnd ==
    ASSUME NEW type, NEW bytes
    PROVE  FromBytes(type, bytes) # End
<1>1. DOMAIN End = {"error"}
  BY DEF End, Error
<1>2. CASE type.kind # "Char"
  <2>1. FromBytes(type, bytes) =
            [kind |-> type.kind, int |-> FromBigEndian(Flip(bytes))]
    BY <1>2 DEF FromBytes
  <2>2. "int" \in DOMAIN FromBytes(type, bytes)
    BY <2>1
  <2> QED
    BY <1>1, <2>2
<1>3. CASE type.kind = "Char" /\ IsUTF8(bytes)
  <2>1. FromBytes(type, bytes) = [kind |-> "Char", text |-> Trimmed(bytes)]
    BY <1>3 DEF FromBytes
  <2> QED
    BY <1>1, <2>1
<1>4. CASE type.kind = "Char" /\ ~IsUTF8(bytes)
  <2>1. FromBytes(type, bytes) = Error("StringDeserializeError")
    BY <1>4 DEF FromBytes
  <2> QED
    BY <2>1 DEF Error, End
<1> QED
  BY <1>2, <1>3, <1>4

\* The position moves exactly when a result is added, and past the end exactly
\* when that result is the error.
LEMMA FieldRead ==
    ASSUME IInv, DeserializeField
    PROVE  \E result : /\ yields' = Append(yields, [type |-> Head(asked), result |-> result])
                       /\ result = End <=> r'.position > Len(r'.bytes)
                       /\ r'.position >= r.position /\ r'.bytes = r.bytes
<1> DEFINE type == Head(asked)
           end  == r.position + type.size
           result == IF end > Len(r.bytes) THEN End
                     ELSE FromBytes(type, SubSeq(r.bytes, r.position + 1, end))
<1>1. type.size \in Nat /\ r.position \in Nat
  BY Sizes DEF DeserializeField, IInv, Typed
<1>2. /\ yields' = Append(yields, [type |-> type, result |-> result])
      /\ r' = Advanced(r, type.size)
  BY DEF DeserializeField, End
<1>3. r'.position = end /\ r'.bytes = r.bytes
  BY <1>2 DEF Advanced, IInv, Typed
<1>4. result = End <=> end > Len(r.bytes)
  BY BytesAreNoEnd
<1>5. r'.position >= r.position
  BY <1>1, <1>3
<1>6. result = End <=> r'.position > Len(r'.bytes)
  BY <1>3, <1>4
<1> HIDE DEF result
<1> WITNESS result
<1> QED
  BY <1>2, <1>3, <1>5, <1>6

LEMMA SpoiledStep == IInv /\ Spoiled /\ [Next]_vars => Spoiled'
<1> SUFFICES ASSUME IInv, Spoiled, [Next]_vars PROVE Spoiled'
  OBVIOUS
<1>1. CASE DeserializeField
  <2>1. PICK result : /\ yields' = Append(yields, [type |-> Head(asked), result |-> result])
                      /\ result = End <=> r'.position > Len(r'.bytes)
                      /\ r'.position >= r.position /\ r'.bytes = r.bytes
    BY <1>1, FieldRead
  <2>2. PICK S : yields \in Seq(S)
    BY DEF IInv, Typed
  <2>3. r.position \in Nat /\ r'.position \in Nat /\ at' = "reading"
    BY <1>1, DeserializeFieldIInv DEF DeserializeField, IInv, Typed
  <2>4. ASSUME NEW i \in DOMAIN yields', yields'[i].result = End
        PROVE  r'.position > Len(r'.bytes)
    <3>1. CASE i = Len(yields) + 1
      BY <2>1, <2>2, <2>4, <3>1
    <3>2. CASE i \in DOMAIN yields
      <4>1. yields'[i] = yields[i]
        BY <2>1, <2>2, <3>2
      <4>2. r.position > Len(r.bytes)
        BY <2>4, <3>2, <4>1 DEF Spoiled
      <4>3. CASE result = End
        BY <2>1, <4>3
      <4>4. CASE result # End
        BY <2>1, <2>3, <4>2
      <4> QED
        BY <4>3, <4>4
    <3> QED
      BY <2>1, <2>2, <3>1, <3>2
  <2> QED
    BY <2>3, <2>4 DEF Spoiled
<1>2. CASE ~DeserializeField
  <2>1. CASE Serialized
    BY <2>1 DEF Serialized, reading, Spoiled
  <2>2. CASE AddSize \/ NewStream \/ SerializeField
    BY <2>2 DEF AddSize, NewStream, SerializeField, reading, Spoiled
  <2>3. CASE OpenBytes \/ OpenTuple \/ OpenFrom
    <3>1. at = "ok" /\ yields' = yields
      BY <2>3 DEF OpenBytes, OpenTuple, OpenFrom, Reads, reading
    <3> QED
      BY <3>1 DEF Spoiled
  <2>4. CASE \E ts \in Calls : Call(ts)
    BY <2>4 DEF Call, Spoiled
  <2>5. CASE UNCHANGED vars
    BY <2>5 DEF vars, reading, Spoiled
  <2> QED
    BY <1>2, <2>1, <2>2, <2>3, <2>4, <2>5 DEF Next, Rest
<1> QED
  BY <1>1, <1>2

\* Once a read has passed the end of the bytes, every later one on that stream
\* fails with BufferUnexpectedEnd, whatever type it asks for.
THEOREM StreamStaysSpoiled == Spec => ErrorsStick
<1> DEFINE Step == ((\E i \in DOMAIN yields : yields[i].result = End) /\ yields' # yields) =>
                       Last(yields').result = End
<1>1. Init => Spoiled
  BY DEF Init, Spoiled
<1>2. IInv /\ Spoiled /\ [Next]_vars => [Step]_vars
  <2> SUFFICES ASSUME IInv, Spoiled, [Next]_vars, yields' # yields,
                      NEW i \in DOMAIN yields, yields[i].result = End
               PROVE  Last(yields').result = End
    BY DEF vars
  <2>1. DeserializeField
    BY DEF Next, AddSize, NewStream, SerializeField, Serialized, OpenBytes, OpenTuple,
           OpenFrom, Reads, Call, Rest, vars, reading
  <2>2. PICK S : yields \in Seq(S)
    BY DEF IInv, Typed
  <2>3. PICK result : /\ yields' = Append(yields, [type |-> Head(asked), result |-> result])
                      /\ result = End <=> r'.position > Len(r'.bytes)
                      /\ r'.position >= r.position /\ r'.bytes = r.bytes
    BY <2>1, FieldRead
  <2>4. result = End
    <3>1. r.position > Len(r.bytes) /\ r.position \in Nat /\ r'.position \in Nat
      BY <2>1, DeserializeFieldIInv DEF Spoiled, IInv, Typed
    <3>2. CASE r'.position > Len(r'.bytes)
      BY <2>3, <3>2
    <3> QED
      BY <2>3, <3>1, <3>2
  <2> QED
    BY <2>2, <2>3, <2>4 DEF Last
<1> QED
  BY Invariant, SpoiledStep, <1>1, <1>2, PTL DEF Spec, ErrorsStick

-----------------------------------------------------------------------------
(* Values as bytes *)

LEMMA ValueFacts ==
    ASSUME NEW type \in DataType, NEW value \in DataValue, type.kind = value.kind
    PROVE  /\ type.kind # "Char" =>
                 /\ type.size \in {2, 4, 8} /\ value.int \in Ints(type.size)
                 /\ value = [kind |-> type.kind, int |-> value.int]
           /\ type.kind = "Char" =>
                 /\ type.size \in Nat
                 /\ value.text \in Seq(Bytes) /\ IsUTF8(value.text)
                 /\ value = [kind |-> "Char", text |-> value.text]
<1> DEFINE Texts == {s \in Seq(Bytes) : IsUTF8(s)}
<1>1. /\ type.kind = "SmallInt" => type.size = 2
      /\ type.kind = "Int" => type.size = 4
      /\ type.kind = "BigInt" => type.size = 8
      /\ type.kind \in {"SmallInt", "Int", "BigInt", "Char"}
      /\ type.size \in Nat
  <2>1. IntKinds = {"SmallInt", "Int", "BigInt"}
    BY DEF IntKinds, IntSize
  <2>2. IntSize["SmallInt"] = 2 /\ IntSize["Int"] = 4 /\ IntSize["BigInt"] = 8
    BY DEF IntSize
  <2>3. CASE \E k \in IntKinds : type = [kind |-> k, size |-> IntSize[k]]
    <3>1. PICK k \in IntKinds : type = [kind |-> k, size |-> IntSize[k]]
      BY <2>3
    <3>2. type.kind = k /\ type.size = IntSize[k]
      BY <3>1
    <3> QED
      BY <2>1, <2>2, <3>2
  <2>4. CASE \E n \in CharSizes : type = [kind |-> "Char", size |-> n]
    BY <2>4
  <2> QED
    BY <2>3, <2>4 DEF DataType
<1>2. \/ value \in [kind : {"SmallInt"}, int : Ints(2)]
      \/ value \in [kind : {"Int"}, int : Ints(4)]
      \/ value \in [kind : {"BigInt"}, int : Ints(8)]
      \/ value \in [kind : {"Char"}, text : Texts]
  BY DEF DataValue
<1> HIDE DEF Texts
<1>3. \A K, S : \A v \in [kind : {K}, int : S] : v.kind = K /\ v.int \in S /\ v = [kind |-> K, int |-> v.int]
  OBVIOUS
<1>4. \A v \in [kind : {"Char"}, text : Texts] :
         v.kind = "Char" /\ v.text \in Texts /\ v = [kind |-> "Char", text |-> v.text]
  OBVIOUS
<1>5. \A t \in Texts : t \in Seq(Bytes) /\ IsUTF8(t)
  BY DEF Texts
<1>6. CASE type.kind = "Char"
  <2>1. value \in [kind : {"Char"}, text : Texts]
    BY <1>2, <1>3, <1>6
  <2> QED
    BY <1>1, <1>4, <1>5, <1>6, <2>1
<1>7. CASE type.kind # "Char"
  <2>1. \/ type.size = 2 /\ value \in [kind : {type.kind}, int : Ints(2)]
        \/ type.size = 4 /\ value \in [kind : {type.kind}, int : Ints(4)]
        \/ type.size = 8 /\ value \in [kind : {type.kind}, int : Ints(8)]
    BY <1>1, <1>2, <1>4, <1>7
  <2> QED
    BY <1>3, <1>7, <2>1
<1> QED
  BY <1>6, <1>7

LEMMA IntsAreInt ==
    ASSUME NEW n \in {2, 4, 8}
    PROVE  Ints(n) \subseteq Int
<1>1. Byte ^ n \div 2 \in Int
  BY Powers
<1> QED
  BY <1>1 DEF Ints

LEMMA PayloadBytes ==
    ASSUME NEW type \in DataType, NEW value \in DataValue, type.kind = value.kind
    PROVE  /\ Payload(type, value) \in Seq(Bytes)
           /\ type.kind # "Char" => /\ Payload(type, value) \in [1 .. type.size -> Bytes]
                                    /\ Flip(Payload(type, value)) = BigEndian(value.int, type.size)
<1>1. CASE type.kind = "Char"
  BY <1>1, ValueFacts DEF Payload
<1>2. CASE type.kind # "Char"
  <2>1. PICK n \in {2, 4, 8} : n = type.size
    BY <1>2, ValueFacts
  <2>2. PICK x \in Int : x = value.int
    BY <1>2, <2>1, ValueFacts, IntsAreInt
  <2>3. PICK b \in [1 .. n -> Bytes] : b = BigEndian(x, n)
    BY EncodedBytes
  <2>4. Payload(type, value) = Flip(b)
    BY <1>2, <2>1, <2>2, <2>3 DEF Payload
  <2>5. Flip(b) \in [1 .. n -> Bytes] /\ Flip(Flip(b)) = b
    BY FlipTwice
  <2>6. Flip(b) \in Seq(Bytes)
    BY <2>5
  <2> QED
    BY <2>1, <2>2, <2>3, <2>4, <2>5, <2>6
<1> QED
  BY <1>1, <1>2

\* What a field of the buffer holds once it is written.
Padded(payload, n) == [j \in 1 .. n |-> IF j <= Len(payload) THEN payload[j] ELSE 0]

\* DataType::deserialize of what DataType::serialize wrote and padded.
LEMMA FieldBack ==
    ASSUME NEW type \in DataType, NEW value \in DataValue,
           type.kind = value.kind, ~Overflows(type, value)
    PROVE  FromBytes(type, Padded(Payload(type, value), type.size)) =
               IF type.kind = "Char" THEN [value EXCEPT !.text = Trimmed(@)] ELSE value
<1>1. PICK b : b = Padded(Payload(type, value), type.size)
  OBVIOUS
<1>2. CASE type.kind = "Char"
  <2>1. PICK text \in Seq(Bytes) : text = value.text /\ IsUTF8(text)
    BY <1>2, ValueFacts
  <2>2. PICK n \in Nat : n = type.size /\ Len(text) <= n
    <3>1. type.size \in Nat /\ Len(text) \in Nat
      BY Sizes
    <3>2. ~(Len(text) > type.size)
      BY <1>2, <2>1 DEF Overflows
    <3> QED
      BY <3>1, <3>2
  <2>3. b = [j \in 1 .. n |-> IF j <= Len(text) THEN text[j] ELSE 0]
    BY <1>1, <1>2, <2>1, <2>2 DEF Payload, Padded
  <2>4. IsUTF8(b) /\ Trimmed(b) = Trimmed(text)
    BY <2>1, <2>2, <2>3, PaddedText
  <2>5. FromBytes(type, b) = [kind |-> "Char", text |-> Trimmed(text)]
    BY <1>2, <2>4 DEF FromBytes
  <2>6. value = [kind |-> "Char", text |-> text]
    BY <1>2, <2>1, ValueFacts
  <2>7. [value EXCEPT !.text = Trimmed(@)] = [kind |-> "Char", text |-> Trimmed(text)]
    BY <2>6
  <2> QED
    BY <1>1, <1>2, <2>5, <2>7
<1>3. CASE type.kind # "Char"
  <2>1. PICK n \in {2, 4, 8} : n = type.size
    BY <1>3, ValueFacts
  <2>2. PICK p \in [1 .. n -> Bytes] : p = Payload(type, value) /\ Flip(p) = BigEndian(value.int, n)
    BY <1>3, <2>1, PayloadBytes
  <2>3. b = p
    <3>1. Len(p) = n
      OBVIOUS
    <3> QED
      BY <1>1, <2>1, <2>2, <3>1 DEF Padded
  <2>4. PICK x \in Ints(n) : x = value.int
    BY <1>3, <2>1, ValueFacts
  <2>5. FromBigEndian(BigEndian(x, n)) = x
    BY Decoded
  <2>6. FromBytes(type, b) = [kind |-> type.kind, int |-> FromBigEndian(Flip(b))]
    BY <1>3 DEF FromBytes
  <2> QED
    BY <1>1, <1>3, <2>2, <2>3, <2>4, <2>5, <2>6, ValueFacts
<1> QED
  BY <1>2, <1>3

-----------------------------------------------------------------------------
(* The types of the state *)

Errors == {"none", "TypeMismatch", "StringOverflow", "BufferUnexpectedEnd"}

Bounded == w \in [buffer : Seq(Bytes), position : Nat] /\ error \in Errors

LEMMA CopiedBytes ==
    ASSUME NEW buffer \in Seq(Bytes), NEW start \in Nat, NEW bytes \in Seq(Bytes)
    PROVE  Copied(buffer, start, bytes) \in Seq(Bytes)
<1>1. PICK n \in Nat : n = Len(buffer) /\ DOMAIN buffer = 1 .. n
  OBVIOUS
<1>2. ASSUME NEW i \in 1 .. n
      PROVE  Copied(buffer, start, bytes)[i] \in Bytes
  <2>1. CASE i \in start + 1 .. start + Len(bytes)
    <3>1. i - start \in 1 .. Len(bytes)
      BY <2>1
    <3>2. bytes[i - start] \in Bytes
      BY <3>1
    <3> QED
      BY <1>1, <2>1, <3>2 DEF Copied
  <2>2. CASE i \notin start + 1 .. start + Len(bytes)
    <3>1. buffer[i] \in Bytes
      BY <1>1
    <3> QED
      BY <1>1, <2>2, <3>1 DEF Copied
  <2> QED
    BY <2>1, <2>2
<1>3. Copied(buffer, start, bytes) = [i \in 1 .. n |-> Copied(buffer, start, bytes)[i]]
  BY <1>1 DEF Copied
<1>4. Copied(buffer, start, bytes) \in [1 .. n -> Bytes]
  BY <1>2, <1>3
<1> QED
  BY <1>4

LEMMA BoundedStep == IInv /\ Bounded /\ [Next]_vars => Bounded'
<1> SUFFICES ASSUME IInv, Bounded, [Next]_vars PROVE Bounded'
  OBVIOUS
<1>1. CASE NewStream
  <2>1. PICK n \in Nat : n = Last(offsets)
    <3>1. offsets \in Seq(Nat) /\ Len(offsets) \in 1 .. Len(offsets)
      BY DEF IInv, Summed
    <3> QED
      BY <3>1 DEF Last
  <2>2. w' = [buffer |-> Zeros(n), position |-> 0] /\ error' = error
    BY <1>1, <2>1 DEF NewStream
  <2>3. Zeros(n) \in Seq(Bytes)
    <3>1. 0 \in Bytes
      BY DEF Bytes, Byte
    <3>2. Zeros(n) \in [1 .. n -> Bytes]
      BY <3>1 DEF Zeros
    <3> QED
      BY <3>2
  <2> QED
    BY <2>2, <2>3 DEF Bounded
<1>2. CASE SerializeField
  <2> DEFINE f == fields + 1
  <2>1. /\ types[f] \in DataType /\ values[f] \in DataValue
        /\ w.buffer \in Seq(Bytes) /\ w.position \in Nat /\ error \in Errors
    <3>1. types \in Seq(DataType) /\ values \in Seq(DataValue) /\ f \in 1 .. Len(types) /\ f \in 1 .. Len(values)
      BY <1>2 DEF SerializeField, IInv, Typed
    <3> QED
      BY <3>1 DEF Bounded
  <2>2. error' \in Errors
    BY <1>2, <2>1 DEF SerializeField, Errors
  <2>3. CASE w' = w
    BY <2>2, <2>3 DEF Bounded
  <2>4. CASE w' # w
    <3>1. /\ types[f].kind = values[f].kind /\ ~Overflows(types[f], values[f])
          /\ w' = PutField(w, types[f], values[f])
      BY <1>2, <2>4 DEF SerializeField
    <3>2. PICK p \in Seq(Bytes) : p = Payload(types[f], values[f])
      BY <2>1, <3>1, PayloadBytes
    <3>3. PICK n \in Nat : n = types[f].size /\ Len(p) <= n
      BY <2>1, <3>1, <3>2, PayloadSize, Sizes
    <3>4. PICK s : s = Write(w, p)
      OBVIOUS
    <3>5. Copied(w.buffer, w.position, p) \in Seq(Bytes)
      BY <2>1, CopiedBytes
    <3>6. s \in [buffer : Seq(Bytes), position : Nat]
      BY <2>1, <3>4, <3>5 DEF Write
    <3>7. w' = IF Fits(s) THEN [s EXCEPT !.position = @ + (n - Len(p))] ELSE s
      BY <3>1, <3>2, <3>3, <3>4 DEF PutField, Pad
    <3>8. w' \in [buffer : Seq(Bytes), position : Nat]
      <4>1. PICK m \in Nat : m = n - Len(p)
        BY <3>3
      <4>2. s.position \in Nat /\ s.position + m \in Nat
        BY <3>6
      <4> QED
        BY <3>6, <3>7, <4>1, <4>2
    <3> QED
      BY <2>2, <3>8 DEF Bounded
  <2> QED
    BY <2>3, <2>4
<1>3. CASE ~NewStream /\ ~SerializeField
  <2>1. UNCHANGED <<w, error>>
    BY <1>3 DEF Next, AddSize, Serialized, OpenBytes, OpenTuple, OpenFrom, Reads, Call,
               DeserializeField, Rest, vars, writing
  <2> QED
    BY <2>1 DEF Bounded
<1> QED
  BY <1>1, <1>2, <1>3

\* The state has the types declared for it whatever is written, carried and read:
\* the buffer stays a sequence of bytes through every copy and flip.
THEOREM TypeCorrect == Spec => []TypeOK
<1>1. Init => Bounded
  BY DEF Init, Bounded, Errors
<1>2. IInv /\ Bounded => TypeOK
  <2> SUFFICES ASSUME IInv, Bounded PROVE TypeOK
    OBVIOUS
  <2>1. offsets # <<>>
    BY DEF IInv, Summed
  <2>2. fields \in Nat
    BY DEF IInv, Typed
  <2> QED
    BY <2>1, <2>2 DEF IInv, Typed, Summed, Bounded, Errors, TypeOK
<1> QED
  BY <1>1, <1>2, Invariant, BoundedStep, PTL DEF Spec

-----------------------------------------------------------------------------
(* What a reader finds in the buffer *)

\* Fields that were written hold their value, padded; the others are zeros.
Encoded(i) ==
    IF i <= fields THEN Padded(Payload(types[i], values[i]), types[i].size)
    ELSE [j \in 1 .. types[i].size |-> 0]

Stored ==
    at \in {"ok", "reading"} =>
        /\ fields = Len(types) \/ fields = Len(values)
        /\ \A i \in 1 .. Len(types) : \A j \in 1 .. types[i].size :
               w.buffer[offsets[i] + j] = Encoded(i)[j]

LEMMA StoredFields == IInv /\ Serialized => Stored'
<1> SUFFICES ASSUME IInv, Serialized PROVE Stored'
  OBVIOUS
<1>1. /\ at = "writing" /\ (fields = Len(types) \/ fields = Len(values))
      /\ UNCHANGED <<types, values, w, offsets, fields>>
  BY DEF Serialized, writing
<1>2. /\ types \in Seq(DataType) /\ fields \in 0 .. Len(types)
      /\ offsets \in Seq(Nat) /\ Len(offsets) = Len(types) + 1
      /\ \A i \in 1 .. Len(types) : offsets[i + 1] = offsets[i] + types[i].size
      /\ \A i, j \in 1 .. Len(offsets) : i <= j => offsets[i] <= offsets[j]
      /\ Len(w.buffer) = offsets[Len(types) + 1] /\ w.position = offsets[fields + 1]
      /\ FieldsKept
  <2>1. Typed /\ Summed /\ Buffered /\ InPlace /\ FieldsKept
    BY DEF IInv
  <2>2. types \in Seq(DataType) /\ fields \in 0 .. Len(types)
    BY <2>1 DEF Typed
  <2>3. /\ offsets \in Seq(Nat) /\ Len(offsets) = Len(types) + 1
        /\ \A i \in 1 .. Len(types) : offsets[i + 1] = offsets[i] + types[i].size
        /\ \A i, j \in 1 .. Len(offsets) : i <= j => offsets[i] <= offsets[j]
    BY <1>1, <2>1, <2>2 DEF Summed
  <2>4. Len(w.buffer) = offsets[Len(types) + 1] /\ w.position = offsets[fields + 1]
    BY <1>1, <2>1 DEF Buffered, InPlace
  <2> QED
    BY <2>1, <2>2, <2>3, <2>4
<1>3. ASSUME NEW i \in 1 .. Len(types), NEW j \in 1 .. types[i].size
      PROVE  w.buffer[offsets[i] + j] = Encoded(i)[j]
  <2>0. types[i].size \in Nat /\ j \in Nat
    BY <1>2, Sizes
  <2>1. CASE i <= fields
    <3>1. w.buffer[offsets[i] + j] = LET b == Payload(types[i], values[i]) IN
                                     IF j <= Len(b) THEN b[j] ELSE 0
      <4>1. i \in 1 .. fields
        BY <1>2, <2>1
      <4> QED
        BY <1>1, <1>2, <4>1 DEF FieldsKept
    <3>2. Encoded(i)[j] = LET b == Payload(types[i], values[i]) IN IF j <= Len(b) THEN b[j] ELSE 0
      BY <2>1 DEF Encoded, Padded
    <3> QED
      BY <3>1, <3>2
  <2>2. CASE i > fields
    <3>1. /\ fields + 1 \in 1 .. Len(offsets) /\ i \in 1 .. Len(offsets) /\ i + 1 \in 1 .. Len(offsets)
          /\ Len(types) + 1 \in 1 .. Len(offsets) /\ fields + 1 <= i /\ i + 1 <= Len(types) + 1
      BY <1>2, <2>2
    <3>2. PICK a, b, c, d \in Nat : /\ a = offsets[fields + 1] /\ b = offsets[i]
                                    /\ c = offsets[i + 1] /\ d = offsets[Len(types) + 1]
      <4>1. \A k \in 1 .. Len(offsets) : offsets[k] \in Nat
        <5>1. offsets \in Seq(Nat)
          BY <1>2
        <5> QED
          BY <5>1
      <4> QED
        BY <3>1, <4>1
    <3>3. a <= b /\ c = b + types[i].size /\ c <= d
      BY <1>2, <3>1, <3>2
    <3>4. b + j \in a + 1 .. d
      BY <2>0, <3>3
    <3>5. \A k \in a + 1 .. d : w.buffer[k] = 0
      BY <1>1, <1>2, <3>2 DEF FieldsKept
    <3>6. Encoded(i)[j] = 0
      BY <1>2, <2>2 DEF Encoded
    <3> QED
      BY <3>2, <3>4, <3>5, <3>6
  <2> QED
    BY <1>2, <2>1, <2>2
<1> QED
  BY <1>1, <1>3 DEF Stored, Encoded

LEMMA StoredStep == IInv /\ Stored /\ [Next]_vars => Stored'
<1> SUFFICES ASSUME IInv, Stored, [Next]_vars PROVE Stored'
  OBVIOUS
<1>1. CASE Serialized
  BY <1>1, StoredFields
<1>2. CASE AddSize \/ NewStream \/ SerializeField
  <2>1. at' \notin {"ok", "reading"}
    BY <1>2 DEF AddSize, NewStream, SerializeField
  <2> QED
    BY <2>1 DEF Stored
<1>3. CASE ~Serialized /\ ~(AddSize \/ NewStream \/ SerializeField)
  <2>1. /\ UNCHANGED <<types, values, w, offsets, fields>>
        /\ at' \in {"ok", "reading"} => at \in {"ok", "reading"}
    BY <1>3 DEF Next, OpenBytes, OpenTuple, OpenFrom, Reads, Call, DeserializeField, Rest, vars, writing
  <2> QED
    BY <2>1 DEF Stored, Encoded
<1> QED
  BY <1>1, <1>2, <1>3

\* Read by the type that wrote it, a field gives back what ReadsAs says.
LEMMA FieldReadsAs ==
    ASSUME IInv, Stored, at \in {"ok", "reading"}, NEW i \in 1 .. Len(types),
           NEW bytes, bytes = [j \in 1 .. types[i].size |-> w.buffer[offsets[i] + j]]
    PROVE  FromBytes(types[i], bytes) = ReadsAs(i)
<1>1. /\ types \in Seq(DataType) /\ values \in Seq(DataValue)
      /\ fields \in 0 .. Len(types) /\ fields \in 0 .. Len(values)
      /\ fields = Len(types) \/ fields = Len(values)
      /\ types[i] \in DataType /\ types[i].size \in Nat
  BY Sizes DEF IInv, Typed, Stored
<1>2. \A j \in 1 .. types[i].size : bytes[j] = Encoded(i)[j]
  BY DEF Stored
<1>3. CASE i <= fields
  <2>1. i \in 1 .. fields /\ values[i] \in DataValue /\ ~(i > Len(values))
    BY <1>1, <1>3
  <2>2. types[i].kind = values[i].kind /\ ~Overflows(types[i], values[i])
    BY <2>1 DEF IInv, WellFormed
  <2>3. bytes = Padded(Payload(types[i], values[i]), types[i].size)
    BY <1>2, <1>3 DEF Encoded, Padded
  <2>4. FromBytes(types[i], bytes) =
            IF types[i].kind = "Char" THEN [values[i] EXCEPT !.text = Trimmed(@)] ELSE values[i]
    BY <1>1, <2>1, <2>2, <2>3, FieldBack
  <2> QED
    BY <2>1, <2>4 DEF ReadsAs
<1>4. CASE i > fields
  <2>1. i > Len(values)
    BY <1>1, <1>4
  <2>2. bytes = Zeros(types[i].size)
    <3>1. Encoded(i) = [j \in 1 .. types[i].size |-> 0]
      BY <1>1, <1>4 DEF Encoded
    <3>2. \A j \in 1 .. types[i].size : bytes[j] = 0
      BY <1>2, <3>1
    <3> QED
      BY <3>2 DEF Zeros
  <2> QED
    BY <2>1, <2>2 DEF ReadsAs
<1> QED
  BY <1>1, <1>3, <1>4

-----------------------------------------------------------------------------
(* The streams *)

LEMMA SizesAdd ==
    ASSUME NEW ts \in Seq(DataType)
    PROVE  SumSizes(ts) \in Nat
<1>1. PICK l \in Nat : l = Len(ts) /\ \A i \in 1 .. l : ts[i].size \in Nat
  <2>1. \A i \in 1 .. Len(ts) : ts[i] \in DataType
    OBVIOUS
  <2> QED
    BY <2>1, Sizes
<1> DEFINE IsSum(f, n) == f = [i \in 0 .. n |-> IF i = 0 THEN 0 ELSE f[i - 1] + ts[i].size]
           Has(n) == \E f \in [0 .. n -> Nat] : IsSum(f, n)
           Bad == {n \in 0 .. l : ~Has(n)}
<1>2. Has(0)
  <2> DEFINE f == [i \in 0 .. 0 |-> 0]
  <2>1. f \in [0 .. 0 -> Nat] /\ IsSum(f, 0)
    OBVIOUS
  <2> QED
    BY <2>1
<1>3. ASSUME NEW n \in 1 .. l, Has(n - 1) PROVE Has(n)
  <2>1. PICK f \in [0 .. n - 1 -> Nat] : IsSum(f, n - 1)
    BY <1>3
  <2>2. PICK v \in Nat : v = f[n - 1] + ts[n].size
    <3>1. f[n - 1] \in Nat /\ ts[n].size \in Nat
      BY <1>1
    <3> QED
      BY <3>1
  <2>3. PICK g : g = [i \in 0 .. n |-> IF i = n THEN v ELSE f[i]]
    OBVIOUS
  <2>4. g \in [0 .. n -> Nat]
    BY <2>3
  <2>5. \A i \in 0 .. n : g[i] = IF i = 0 THEN 0 ELSE g[i - 1] + ts[i].size
    <3> TAKE i \in 0 .. n
    <3>1. CASE i = n
      <4>1. n - 1 \in 0 .. n /\ n - 1 # n /\ n # 0
        OBVIOUS
      <4>2. g[n - 1] = f[n - 1] /\ g[n] = v
        BY <2>3, <4>1
      <4> QED
        BY <2>2, <3>1, <4>1, <4>2
    <3>2. CASE i # n
      <4>1. i \in 0 .. n - 1 /\ (i # 0 => i - 1 \in 0 .. n /\ i - 1 # n)
        BY <3>2
      <4>2. f[i] = IF i = 0 THEN 0 ELSE f[i - 1] + ts[i].size
        BY <2>1, <4>1
      <4> QED
        BY <2>3, <3>2, <4>1, <4>2
    <3> QED
      BY <3>1, <3>2
  <2>6. IsSum(g, n)
    <3>1. g = [i \in 0 .. n |-> g[i]]
      BY <2>3
    <3> QED
      BY <2>5, <3>1
  <2> QED
    BY <2>4, <2>6
<1> HIDE DEF Has
<1>4. Has(l)
  <2> SUFFICES ASSUME ~Has(l) PROVE FALSE
    OBVIOUS
  <2>1. Bad \in SUBSET Nat /\ Bad # {}
    BY <1>1
  <2>2. PICK n \in Bad : \A m \in Bad : n <= m
    <3> HIDE DEF Bad
    <3> QED
      BY <2>1, Least
  <2>3. n \in 1 .. l /\ ~Has(n)
    BY <1>1, <1>2, <2>2
  <2>4. n - 1 \notin Bad
    BY <2>1, <2>2, <2>3
  <2>5. Has(n - 1)
    BY <2>3, <2>4
  <2> QED
    BY <1>3, <2>3, <2>5
<1>5. PICK f : f = CHOOSE g : IsSum(g, l)
  OBVIOUS
<1>6. IsSum(f, l)
  <2>1. \E g : IsSum(g, l)
    BY <1>4 DEF Has
  <2> QED
    BY <1>5, <2>1
<1>7. SumSizes(ts) = f[l]
  BY <1>1, <1>5 DEF SumSizes
<1> DEFINE Odd == {n \in 0 .. l : f[n] \notin Nat}
<1>8. Odd = {}
  <2> SUFFICES ASSUME Odd # {} PROVE FALSE
    OBVIOUS
  <2>1. PICK n \in Odd : \A m \in Odd : n <= m
    <3>1. Odd \in SUBSET Nat
      OBVIOUS
    <3> HIDE DEF Odd
    <3> QED
      BY <3>1, Least
  <2>2. f[n] = IF n = 0 THEN 0 ELSE f[n - 1] + ts[n].size
    BY <1>6, <2>1
  <2>3. n # 0 /\ n \in 1 .. l
    BY <2>1, <2>2
  <2>4. n - 1 \in 0 .. l /\ n - 1 \notin Odd
    BY <2>1, <2>3
  <2>5. f[n - 1] \in Nat /\ ts[n].size \in Nat
    BY <1>1, <2>3, <2>4
  <2> QED
    BY <2>1, <2>2, <2>3, <2>5
<1> QED
  BY <1>1, <1>7, <1>8

WithSize(n, s) == SizeField(n) \o s

Follows(p, s) == \A i \in 1 .. Len(s) : p[i + 2] = s[i]

LEMMA Prefixed ==
    ASSUME NEW n \in Nat, NEW s \in Seq(Nat), NEW p, p = WithSize(n, s)
    PROVE  /\ p \in Seq(Nat) /\ Len(p) = Len(s) + 2 /\ p[1] = AsU16(n) /\ p[2] = 0
           /\ Follows(p, s)
<1>1. PICK f \in Seq(Nat) : f = SizeField(n) /\ Len(f) = 2 /\ f[1] = AsU16(n) /\ f[2] = 0
  <2>1. PICK m \in Nat : m = AsU16(n)
    BY SmallSizes
  <2>2. SizeField(n) = <<m, 0>>
    BY <2>1 DEF SizeField
  <2>3. <<m, 0>> \in Seq(Nat) /\ Len(<<m, 0>>) = 2 /\ <<m, 0>>[1] = m /\ <<m, 0>>[2] = 0
    OBVIOUS
  <2> QED
    BY <2>1, <2>2, <2>3
<1>2. p = f \o s
  BY <1>1 DEF WithSize
<1>3. /\ p \in Seq(Nat) /\ Len(p) = Len(f) + Len(s)
      /\ \A i \in 1 .. Len(f) + Len(s) : p[i] = IF i <= Len(f) THEN f[i] ELSE s[i - Len(f)]
  BY <1>2, ConcatProperties
<1>4. \A i \in 1 .. Len(s) : i + 2 \in 1 .. Len(f) + Len(s) /\ ~(i + 2 <= Len(f)) /\ (i + 2) - Len(f) = i
  BY <1>1
<1>5. 1 \in 1 .. Len(f) + Len(s) /\ 2 \in 1 .. Len(f) + Len(s) /\ 1 <= Len(f) /\ 2 <= Len(f)
  BY <1>1
<1>6. \A i \in 1 .. Len(s) : p[i + 2] = s[i]
  BY <1>3, <1>4
<1> QED
  BY <1>1, <1>3, <1>5, <1>6 DEF Follows

LEMMA Behind ==
    ASSUME NEW p \in Seq(Nat), NEW b, b = SubSeq(p, 3, Len(p)), Len(p) >= 2
    PROVE  b \in Seq(Nat) /\ Len(b) = Len(p) - 2 /\ \A i \in 1 .. Len(b) : b[i] = p[i + 2]
<1>1. PICK n \in Int : n = Len(p) /\ n >= 2 /\ \A i \in 3 .. n : p[i] \in Nat
  OBVIOUS
<1>2. /\ b \in Seq(Nat) /\ Len(b) = IF 3 <= n THEN n - 3 + 1 ELSE 0
      /\ \A i \in 1 .. n - 3 + 1 : b[i] = p[3 + i - 1]
  BY <1>1, SubSeqProperties
<1> QED
  BY <1>1, <1>2

\* What a part of a tuple holds are the numbers the tuple was made of, even when
\* a size field is too narrow and the part is cut in the wrong place.
LEMMA PartsOfTuples ==
    ASSUME NEW key \in Seq(Nat), NEW value \in Seq(Nat)
    PROVE  /\ TupleValue(TupleBuf(key, value)) \in Seq(Nat)
           /\ KeyBytes(TupleKey(TupleBuf(key, value))) \in Seq(Nat)
           /\ KeyBytes(KeyToOwned(TupleKey(TupleBuf(key, value)))) \in Seq(Nat)
<1>1. PICK k \in Nat : k = AsU16(Len(key)) /\ k <= Len(key)
  <2>1. ASSUME NEW n \in Nat PROVE AsU16(n) \in Nat /\ AsU16(n) <= n
    <3>1. Word \in Nat /\ AsU16(n) \in 0 .. Word - 1
      BY WordAssumption DEF WordAssumption, AsU16
    <3>2. CASE n < Word
      BY <3>1, <3>2, SmallSizes
    <3>3. CASE ~(n < Word)
      BY <3>1, <3>3
    <3> QED
      BY <3>2, <3>3
  <2> QED
    BY <2>1
<1>2. PICK t \in Seq(Nat) : /\ t = TupleBuf(key, value) /\ Len(t) = Len(key) + Len(value) + 4
                            /\ t[3] = k
  <2>1. AsU16(Len(key) + Len(value) + 4) \in Nat
    BY SmallSizes
  <2>2. /\ TupleBuf(key, value) \in Seq(Nat)
        /\ Len(TupleBuf(key, value)) = Len(key) + Len(value) + 4
        /\ TupleBuf(key, value)[3] = k
    BY <1>1, <2>1 DEF TupleBuf, SizeField
  <2> QED
    BY <2>2
<1>3. \A a, b \in Int : (\A i \in a .. b : i \in 1 .. Len(t)) => SubSeq(t, a, b) \in Seq(Nat)
  <2> SUFFICES ASSUME NEW a \in Int, NEW b \in Int, \A i \in a .. b : i \in 1 .. Len(t)
               PROVE  SubSeq(t, a, b) \in Seq(Nat)
    OBVIOUS
  <2>1. \A i \in a .. b : t[i] \in Nat
    OBVIOUS
  <2> QED
    BY <2>1, SubSeqProperties
<1>4. TupleValue(t) \in Seq(Nat)
  BY <1>1, <1>2, <1>3 DEF TupleValue, TupleKeySize
<1>5. PICK u \in Seq(Nat) : u = TupleKey(t)
  <2>1. TupleKey(t) \in Seq(Nat)
    BY <1>1, <1>2, <1>3 DEF TupleKey, TupleKeySize
  <2> QED
    BY <2>1
<1>6. ASSUME NEW v \in Seq(Nat) PROVE KeyBytes(v) \in Seq(Nat)
  <2>1. \A i \in 3 .. Len(v) : v[i] \in Nat
    OBVIOUS
  <2> QED
    BY <2>1, SubSeqProperties DEF KeyBytes
<1>7. KeyToOwned(u) \in Seq(Nat)
  <2>1. PICK m \in Nat : m = Len(u) + 2
    OBVIOUS
  <2>2. KeyToOwned(u) = WithSize(m, u)
    BY <2>1 DEF KeyToOwned, WithSize
  <2> QED
    BY <2>2, Prefixed
<1> QED
  BY <1>2, <1>4, <1>5, <1>6, <1>7

\* Where an owned key departs from the layout of tuple.rs, 5: its bytes begin with
\* the size field of the borrowed key, for KeyBuf::new is given that key's bytes
\* with the field and prepends another (24-44).
THEOREM OwnedKeyKeepsSize ==
    ASSUME NEW key \in Seq(Nat), NEW value \in Seq(Nat), Len(key) < Word
    PROVE  KeyBytes(KeyToOwned(TupleKey(TupleBuf(key, value)))) = SizeField(Len(key)) \o key
<1>1. AsU16(Len(key)) = Len(key) /\ AsU16(Len(key) + Len(value) + 4) \in Nat
  BY SmallSizes
<1>2. PICK t \in Seq(Nat) : /\ t = TupleBuf(key, value) /\ Len(t) = Len(key) + Len(value) + 4
                            /\ t[3] = Len(key) /\ t[4] = 0
                            /\ \A i \in 1 .. Len(key) : t[i + 4] = key[i]
  <2>1. /\ TupleBuf(key, value) \in Seq(Nat)
        /\ Len(TupleBuf(key, value)) = Len(key) + Len(value) + 4
        /\ TupleBuf(key, value)[3] = Len(key) /\ TupleBuf(key, value)[4] = 0
        /\ \A i \in 1 .. Len(key) : TupleBuf(key, value)[i + 4] = key[i]
    BY <1>1 DEF TupleBuf, SizeField
  <2> QED
    BY <2>1
<1>3. PICK k : k = TupleKey(t)
  OBVIOUS
<1>4. k \in Seq(Nat) /\ Len(k) = Len(key) + 2 /\ \A i \in 1 .. Len(k) : k[i] = t[i + 2]
  <2>1. k = SubSeq(t, 3, 4 + Len(key))
    BY <1>2, <1>3 DEF TupleKey, TupleKeySize
  <2>2. \A i \in 3 .. 4 + Len(key) : t[i] \in Nat
    BY <1>2
  <2> QED
    BY <2>1, <2>2, SubSeqProperties
<1>5. PICK o : o = KeyToOwned(k)
  OBVIOUS
<1>6. o \in Seq(Nat) /\ Len(o) = Len(key) + 4 /\ \A i \in 1 .. Len(k) : o[i + 2] = k[i]
  <2>0. k \in Seq(Nat)
    BY <1>4
  <2>3. PICK m \in Nat : m = Len(k) + 2
    BY <2>0
  <2>1. o = WithSize(m, k)
    BY <1>5, <2>3 DEF KeyToOwned, WithSize
  <2>2. /\ o \in Seq(Nat) /\ Len(o) = Len(k) + 2
        /\ \A i \in 1 .. Len(k) : o[i + 2] = k[i]
    <3>1. o \in Seq(Nat) /\ Len(o) = Len(k) + 2 /\ Follows(o, k)
      BY <2>0, <2>1, Prefixed
    <3> QED
      BY <3>1 DEF Follows
  <2> QED
    BY <1>4, <2>2
<1>7. PICK b : b = KeyBytes(o)
  OBVIOUS
<1>8. b \in Seq(Nat) /\ Len(b) = Len(k) /\ \A i \in 1 .. Len(k) : b[i] = k[i]
  <2>1. b = SubSeq(o, 3, Len(o)) /\ Len(o) >= 2
    BY <1>6, <1>7 DEF KeyBytes
  <2>2. b \in Seq(Nat) /\ Len(b) = Len(o) - 2 /\ \A i \in 1 .. Len(b) : b[i] = o[i + 2]
    BY <1>6, <2>1, Behind
  <2>3. Len(b) = Len(k)
    BY <1>4, <1>6, <2>2
  <2>4. \A i \in 1 .. Len(k) : b[i] = o[i + 2]
    BY <2>2, <2>3
  <2>5. \A i \in 1 .. Len(k) : b[i] = k[i]
    BY <1>6, <2>4
  <2> QED
    BY <2>2, <2>3, <2>5
<1>9. PICK c : c = SizeField(Len(key)) \o key
  OBVIOUS
<1>10. /\ c \in Seq(Nat) /\ Len(c) = Len(key) + 2 /\ c[1] = Len(key) /\ c[2] = 0
       /\ \A i \in 1 .. Len(key) : c[i + 2] = key[i]
  BY <1>1, <1>9 DEF SizeField
<1>11. \A i \in 1 .. Len(b) : b[i] = c[i]
  <2> TAKE i \in 1 .. Len(b)
  <2>1. b[i] = t[i + 2]
    BY <1>4, <1>8
  <2>2. CASE i \in {1, 2}
    <3>1. t[3] = c[1] /\ t[4] = c[2]
      BY <1>2, <1>10
    <3>2. (i = 1 /\ i + 2 = 3) \/ (i = 2 /\ i + 2 = 4)
      BY <2>2
    <3> QED
      BY <2>1, <3>1, <3>2
  <2>3. CASE i \notin {1, 2}
    <3>1. PICK j \in 1 .. Len(key) : i = j + 2
      <4>1. i - 2 \in 1 .. Len(key) /\ i = (i - 2) + 2
        BY <1>4, <1>8, <2>3
      <4> QED
        BY <4>1
    <3>2. i + 2 = j + 4
      BY <3>1
    <3> QED
      BY <1>2, <1>10, <2>1, <3>1, <3>2
  <2> QED
    BY <2>2, <2>3
<1>12. b = c
  BY <1>4, <1>8, <1>10, <1>11, SeqEqual
<1> QED
  BY <1>2, <1>3, <1>5, <1>7, <1>9, <1>12

\* The types of the first n reads are those of the fields they met.
AsWritten(n) ==
    \A j \in 1 .. n : r.first + j - 1 <= Len(types) /\ yields[j].type = types[r.first + j - 1]

\* A stream begins where a field begins, and while it is read by the types that
\* wrote the row its position is where the next field begins.
InStream ==
    /\ at # "reading" => yields = <<>>
    /\ at = "reading" =>
           /\ r.first \in 1 .. Len(types) + 1 /\ r.bytes \in Seq(Nat)
           /\ AsWritten(Len(yields)) =>
                  r.position = offsets[r.first + Len(yields)] - offsets[r.first]

\* A stream as it is opened.
Opened(s, ts) ==
    /\ Reads(s, ts)
    /\ s.first \in 1 .. Len(types) + 1 /\ s.bytes \in Seq(Nat) /\ s.position = 0

LEMMA BytesAreNat == Seq(Bytes) \subseteq Seq(Nat)
<1> SUFFICES ASSUME NEW s \in Seq(Bytes) PROVE s \in Seq(Nat)
  OBVIOUS
<1>1. \A i \in 1 .. Len(s) : s[i] \in Nat
  <2>1. \A b \in Bytes : b \in Nat
    BY DEF Bytes, Byte
  <2> QED
    BY <2>1
<1> QED
  BY <1>1

\* The bytes that the write stream holds are numbers.
LEMMA BufferIsSeq ==
    ASSUME IInv, Bounded, at # "sizing"
    PROVE  /\ w.buffer \in Seq(Bytes) /\ w.buffer \in Seq(Nat)
           /\ offsets \in Seq(Nat) /\ Len(offsets) = Len(types) + 1 /\ Len(types) \in Nat
           /\ Len(w.buffer) = offsets[Len(types) + 1]
<1>1. w.buffer \in Seq(Bytes)
  BY DEF Bounded
<1>2. Seq(Bytes) \subseteq Seq(Nat)
  BY BytesAreNat
<1>3. w.buffer \in Seq(Nat)
  BY <1>1, <1>2
<1> QED
  BY <1>1, <1>3 DEF IInv, Typed, Summed, Buffered

LEMMA OpensAtField ==
    ASSUME IInv, Bounded, OpenBytes \/ OpenTuple \/ (OpenFrom /\ at' # "panicked")
    PROVE  \E s, ts : /\ Opened(s, ts)
                      /\ s.role = "value" => s.key \in Seq(Nat) /\ s.bytes = TupleValue(TupleBuf(s.key, w.buffer))
                      /\ s.role = "key" => s.key \in Seq(Nat) /\ s.bytes = KeyBytes(TupleKey(TupleBuf(w.buffer, s.key)))
                      /\ s.role = "owned" => s.key \in Seq(Nat) /\ s.bytes = KeyBytes(KeyToOwned(TupleKey(TupleBuf(w.buffer, s.key))))
<1>1. PICK b \in Seq(Nat) : b = w.buffer
  <2>1. at = "ok"
    BY DEF OpenBytes, OpenTuple, OpenFrom, Reads
  <2> QED
    BY <2>1, BufferIsSeq
<1>2. Len(types) \in Nat /\ 1 \in 1 .. Len(types) + 1 /\ DOMAIN types = 1 .. Len(types)
  BY DEF IInv, Typed
<1>3. \A m \in Int, n \in Int : 1 <= m /\ n <= Len(b) => SubSeq(b, m, n) \in Seq(Nat)
  <2> SUFFICES ASSUME NEW m \in Int, NEW n \in Int, 1 <= m, n <= Len(b)
               PROVE  SubSeq(b, m, n) \in Seq(Nat)
    OBVIOUS
  <2>1. \A i \in m .. n : b[i] \in Nat
    OBVIOUS
  <2> QED
    BY <2>1, SubSeqProperties
<1>4. CASE OpenBytes
  <2>1. PICK n \in 0 .. Len(b) : Reads([NoStream EXCEPT !.bytes = SubSeq(b, 1, n)], <<>>)
    BY <1>1, <1>4 DEF OpenBytes
  <2>2. PICK s : s = [NoStream EXCEPT !.bytes = SubSeq(b, 1, n)]
    OBVIOUS
  <2>3. s.bytes = SubSeq(b, 1, n) /\ s.first = 1 /\ s.position = 0 /\ s.role = "plain"
    BY <2>2 DEF NoStream
  <2>4. SubSeq(b, 1, n) \in Seq(Nat)
    BY <1>3
  <2>5. Opened(s, <<>>)
    BY <1>2, <2>1, <2>2, <2>3, <2>4 DEF Opened
  <2> QED
    BY <2>3, <2>5
<1>5. CASE OpenTuple
  <2>1. PICK key, role, bytes :
          /\ key \in Keys /\ role \in {"key", "value", "owned"}
          /\ Reads([NoStream EXCEPT !.bytes = bytes, !.role = role, !.key = key], <<>>)
          /\ role = "value" => bytes = TupleValue(TupleBuf(key, w.buffer))
          /\ role = "key" => bytes = KeyBytes(TupleKey(TupleBuf(w.buffer, key)))
          /\ role = "owned" => bytes = KeyBytes(KeyToOwned(TupleKey(TupleBuf(w.buffer, key))))
    BY <1>5 DEF OpenTuple
  <2>2. PICK s : s = [NoStream EXCEPT !.bytes = bytes, !.role = role, !.key = key]
    OBVIOUS
  <2>3. s.bytes = bytes /\ s.first = 1 /\ s.position = 0 /\ s.role = role /\ s.key = key
    BY <2>2 DEF NoStream
  <2>4. key \in Seq(Nat)
    BY <2>1, BytesAreNat
  <2>5. bytes \in Seq(Nat)
    BY <1>1, <2>1, <2>4, PartsOfTuples
  <2>6. Opened(s, <<>>)
    BY <1>2, <2>1, <2>2, <2>3, <2>5 DEF Opened
  <2> QED
    BY <2>1, <2>3, <2>4, <2>6
<1>6. CASE OpenFrom /\ at' # "panicked"
  <2>1. PICK first \in DOMAIN types, ts \in Calls :
          LET start == offsets[first]
              end   == start + SumSizes(ts)
          IN  /\ end <= Len(w.buffer)
              /\ Reads([NoStream EXCEPT !.bytes = SubSeq(w.buffer, start + 1, end), !.first = first], ts)
    BY <1>6 DEF OpenFrom
  <2>2. PICK start \in Nat : start = offsets[first]
    <3>1. offsets \in Seq(Nat) /\ first \in 1 .. Len(offsets)
      BY <1>2, BufferIsSeq, <2>1 DEF Reads
    <3> QED
      BY <3>1
  <2>3. PICK end \in Nat : end = start + SumSizes(ts)
    <3>1. SumSizes(ts) \in Nat
      BY SizesAdd
    <3> QED
      BY <3>1
  <2>4. /\ end <= Len(b)
        /\ Reads([NoStream EXCEPT !.bytes = SubSeq(b, start + 1, end), !.first = first], ts)
    BY <1>1, <2>1, <2>2, <2>3
  <2>5. PICK s : s = [NoStream EXCEPT !.bytes = SubSeq(b, start + 1, end), !.first = first]
    OBVIOUS
  <2>6. s.bytes = SubSeq(b, start + 1, end) /\ s.first = first /\ s.position = 0 /\ s.role = "plain"
    BY <2>5 DEF NoStream
  <2>7. SubSeq(b, start + 1, end) \in Seq(Nat)
    BY <1>3, <2>4
  <2>8. first \in 1 .. Len(types) + 1
    BY <1>2
  <2>9. Opened(s, ts)
    BY <2>4, <2>5, <2>6, <2>7, <2>8 DEF Opened
  <2> QED
    BY <2>6, <2>9
<1> QED
  BY <1>4, <1>5, <1>6

\* A step either opens a stream, or reads a field from it, or leaves it alone.
LEMMA StreamSteps ==
    ASSUME IInv, Bounded, [Next]_vars
    PROVE  \/ /\ at = "ok" /\ UNCHANGED <<types, values, w, offsets, fields, yields>>
              /\ at' = "reading" /\ (OpenBytes \/ OpenTuple \/ (OpenFrom /\ at' # "panicked"))
           \/ /\ at = "reading" /\ DeserializeField
           \/ /\ at = "reading" /\ at' = "reading"
              /\ UNCHANGED <<types, values, w, offsets, fields, yields, r>>
           \/ at # "reading" /\ at' # "reading" /\ yields' = yields
<1>1. CASE OpenBytes \/ OpenTuple \/ OpenFrom
  <2>1. /\ at = "ok" /\ at' \in {"reading", "panicked"}
        /\ UNCHANGED <<types, values, w, offsets, fields, yields>>
    BY <1>1 DEF OpenBytes, OpenTuple, OpenFrom, Reads, writing, reading
  <2> QED
    BY <1>1, <2>1
<1>2. CASE DeserializeField
  BY <1>2 DEF DeserializeField
<1>3. CASE \E ts \in Calls : Call(ts)
  BY <1>3 DEF Call, writing
<1>4. CASE AddSize \/ NewStream \/ SerializeField \/ Serialized
  BY <1>4 DEF AddSize, NewStream, SerializeField, Serialized, reading
<1>5. CASE Rest \/ UNCHANGED vars
  BY <1>5 DEF Rest, vars, writing, reading
<1> QED
  BY <1>1, <1>2, <1>3, <1>4, <1>5 DEF Next

\* The part of a step that reads a field.
LEMMA ReadStep ==
    ASSUME IInv, DeserializeField
    PROVE  \E type \in DataType, m \in Nat :
              /\ m = Len(yields) /\ Len(yields') = m + 1 /\ DOMAIN yields = 1 .. m /\ DOMAIN yields' = 1 .. m + 1
              /\ \A j \in 1 .. m : yields'[j] = yields[j]
              /\ yields'[m + 1].type = type
              /\ yields'[m + 1].result =
                     IF r.position + type.size > Len(r.bytes) THEN Error("BufferUnexpectedEnd")
                     ELSE FromBytes(type, SubSeq(r.bytes, r.position + 1, r.position + type.size))
              /\ r'.position = r.position + type.size /\ r.position \in Nat /\ type.size \in Nat
              /\ r'.bytes = r.bytes /\ r'.first = r.first /\ r'.role = r.role /\ r'.key = r.key
              /\ UNCHANGED <<types, values, w, offsets, fields, at>>
<1>1. PICK type \in DataType : type = Head(asked)
  BY DEF DeserializeField, IInv, Typed
<1>2. PICK S : yields \in Seq(S)
  BY DEF IInv, Typed
<1>3. PICK result : result = IF r.position + type.size > Len(r.bytes) THEN Error("BufferUnexpectedEnd")
                     ELSE FromBytes(type, SubSeq(r.bytes, r.position + 1, r.position + type.size))
  OBVIOUS
<1>4. PICK e : e = [type |-> type, result |-> result]
  OBVIOUS
<1>5. yields' = Append(yields, e)
  BY <1>1, <1>3, <1>4 DEF DeserializeField
<1>6. /\ Len(yields') = Len(yields) + 1 /\ Len(yields) \in Nat
      /\ DOMAIN yields = 1 .. Len(yields) /\ DOMAIN yields' = 1 .. Len(yields) + 1
      /\ \A j \in 1 .. Len(yields) : yields'[j] = yields[j]
      /\ yields'[Len(yields) + 1] = e
  BY <1>2, <1>5
<1>7. r' = [r EXCEPT !.position = @ + type.size] /\ UNCHANGED <<types, values, w, offsets, fields, at>>
  BY <1>1 DEF DeserializeField, Advanced, writing
<1>8. /\ r'.position = r.position + type.size /\ r.position \in Nat /\ type.size \in Nat
      /\ r'.bytes = r.bytes /\ r'.first = r.first /\ r'.role = r.role /\ r'.key = r.key
  BY <1>7, Sizes DEF IInv, Typed
<1>9. PICK m \in Nat : m = Len(yields)
  BY <1>6
<1>10. /\ Len(yields') = m + 1 /\ DOMAIN yields = 1 .. m /\ DOMAIN yields' = 1 .. m + 1
       /\ \A j \in 1 .. m : yields'[j] = yields[j]
       /\ yields'[m + 1] = e
  BY <1>6, <1>9
<1>11. yields'[m + 1].type = type /\ yields'[m + 1].result = result
  BY <1>4, <1>10
<1>12. yields'[m + 1].result = IF r.position + type.size > Len(r.bytes) THEN Error("BufferUnexpectedEnd")
                ELSE FromBytes(type, SubSeq(r.bytes, r.position + 1, r.position + type.size))
  BY <1>3, <1>11
<1>13. UNCHANGED <<types, values, w, offsets, fields, at>>
  BY <1>7
<1>14. yields'[m + 1].type = type
  BY <1>11
<1> WITNESS type \in DataType, m \in Nat
<1> QED
  BY <1>8, <1>9, <1>10, <1>12, <1>13, <1>14

LEMMA InStreamStep == IInv /\ Bounded /\ InStream /\ [Next]_vars => InStream'
<1> SUFFICES ASSUME IInv, Bounded, InStream, [Next]_vars PROVE InStream'
  OBVIOUS
<1>0. at # "sizing" => /\ offsets \in Seq(Nat) /\ Len(offsets) = Len(types) + 1 /\ Len(types) \in Nat
  BY BufferIsSeq
<1>1. CASE /\ at = "ok" /\ UNCHANGED <<types, values, w, offsets, fields, yields>>
           /\ at' = "reading" /\ (OpenBytes \/ OpenTuple \/ (OpenFrom /\ at' # "panicked"))
  <2>1. PICK s, ts : Opened(s, ts)
    BY <1>1, OpensAtField
  <2>2. r' = s /\ s.first \in 1 .. Len(types) + 1 /\ s.bytes \in Seq(Nat) /\ s.position = 0
    BY <2>1 DEF Opened, Reads
  <2>3. yields' = <<>> /\ at' = "reading"
    BY <1>1, <2>1 DEF InStream, Opened, Reads
  <2>4. offsets[s.first] \in Nat
    BY <1>0, <1>1, <2>2
  <2>5. r'.position = offsets'[r'.first + Len(yields')] - offsets'[r'.first]
    BY <1>1, <2>2, <2>3, <2>4
  <2> QED
    BY <1>1, <2>2, <2>3, <2>5 DEF InStream
<1>2. CASE at = "reading" /\ DeserializeField
  <2>1. PICK type \in DataType, m \in Nat :
              /\ m = Len(yields) /\ Len(yields') = m + 1
              /\ \A j \in 1 .. m : yields'[j] = yields[j]
              /\ yields'[m + 1].type = type
              /\ r'.position = r.position + type.size /\ r.position \in Nat /\ type.size \in Nat
              /\ r'.bytes = r.bytes /\ r'.first = r.first
              /\ UNCHANGED <<types, offsets, at>>
    BY <1>2, ReadStep
  <2>2. PICK f \in 1 .. Len(types) + 1 : f = r.first /\ r.bytes \in Seq(Nat)
    BY <1>2 DEF InStream
  <2>3. ASSUME AsWritten(Len(yields))'
        PROVE  r'.position = offsets'[r'.first + Len(yields')] - offsets'[r'.first]
    <3>1. \A j \in 1 .. m + 1 : f + j - 1 <= Len(types) /\ yields'[j].type = types[f + j - 1]
      BY <2>1, <2>2, <2>3 DEF AsWritten
    <3>2. AsWritten(m)
      BY <2>1, <2>2, <3>1 DEF AsWritten
    <3>3. r.position = offsets[f + m] - offsets[f]
      BY <1>2, <2>1, <2>2, <3>2 DEF InStream
    <3>4. f + m \in 1 .. Len(types) /\ type = types[f + m]
      <4>1. m + 1 \in 1 .. m + 1 /\ f + (m + 1) - 1 = f + m
        BY <1>0, <1>2
      <4>2. f + (m + 1) - 1 <= Len(types) /\ yields'[m + 1].type = types[f + (m + 1) - 1]
        BY <3>1, <4>1
      <4>3. f + m <= Len(types) /\ yields'[m + 1].type = types[f + m]
        BY <4>1, <4>2
      <4>4. f + m \in 1 .. Len(types)
        BY <1>0, <1>2, <4>3
      <4> QED
        BY <2>1, <4>3, <4>4
    <3>5. PICK a \in Nat : a = offsets[f]
      BY <1>0, <1>2
    <3>6. PICK b, c \in Nat : b = offsets[f + m] /\ c = offsets[f + m + 1]
      BY <1>0, <1>2, <3>4
    <3>7. c = b + type.size
      <4>1. \A i \in 1 .. Len(offsets) - 1 : offsets[i + 1] = offsets[i] + types[i].size
        BY DEF IInv, Summed
      <4>2. f + m \in 1 .. Len(offsets) - 1
        BY <1>0, <1>2, <3>4
      <4>3. offsets[(f + m) + 1] = offsets[f + m] + types[f + m].size
        BY <4>1, <4>2
      <4> QED
        BY <3>4, <3>6, <4>3
    <3>8. f + (m + 1) = f + m + 1
      OBVIOUS
    <3>9. r'.position = c - a
      <4>1. r.position = b - a
        BY <3>3, <3>5, <3>6
      <4>2. PICK z \in Nat : z = type.size /\ r'.position = r.position + z
        BY <2>1
      <4>3. r'.position = (b - a) + z /\ c = b + z
        BY <3>7, <4>1, <4>2
      <4> QED
        BY <4>3
    <3>10. offsets' = offsets /\ r'.first = f /\ Len(yields') = m + 1
      BY <2>1, <2>2
    <3>11. offsets'[r'.first + Len(yields')] = c /\ offsets'[r'.first] = a
      BY <3>5, <3>6, <3>8, <3>10
    <3> QED
      BY <3>9, <3>11
  <2> QED
    BY <1>2, <2>1, <2>2, <2>3 DEF InStream
<1>3. CASE /\ at = "reading" /\ at' = "reading"
           /\ UNCHANGED <<types, values, w, offsets, fields, yields, r>>
  BY <1>3 DEF InStream, AsWritten
<1>4. CASE at # "reading" /\ at' # "reading" /\ yields' = yields
  BY <1>4 DEF InStream
<1> QED
  BY <1>1, <1>2, <1>3, <1>4, StreamSteps

LEMMA TupleStep == IInv /\ Bounded /\ TupleCarriesRow /\ [Next]_vars => TupleCarriesRow'
<1> SUFFICES ASSUME IInv, Bounded, TupleCarriesRow, [Next]_vars PROVE TupleCarriesRow'
  OBVIOUS
<1>1. CASE /\ at = "ok" /\ UNCHANGED <<types, values, w, offsets, fields, yields>>
           /\ at' = "reading" /\ (OpenBytes \/ OpenTuple \/ (OpenFrom /\ at' # "panicked"))
  <2>1. PICK b \in Seq(Nat) : b = w.buffer /\ b = w'.buffer
    BY <1>1, BufferIsSeq
  <2>2. PICK s, ts :
            /\ Opened(s, ts)
            /\ s.role = "value" => s.key \in Seq(Nat) /\ s.bytes = TupleValue(TupleBuf(s.key, b))
            /\ s.role = "key" => s.key \in Seq(Nat) /\ s.bytes = KeyBytes(TupleKey(TupleBuf(b, s.key)))
            /\ s.role = "owned" => s.key \in Seq(Nat) /\ s.bytes = KeyBytes(KeyToOwned(TupleKey(TupleBuf(b, s.key))))
    BY <1>1, <2>1, OpensAtField
  <2>3. r' = s
    BY <2>2 DEF Opened, Reads
  <2>4. (s.role = "value" /\ Len(s.key) < Word) => s.bytes = b
    BY <2>2, TupleRoundTrip
  <2>5. (s.role = "key" /\ Len(b) < Word) => s.bytes = b
    BY <2>2, TupleRoundTrip
  <2> QED
    BY <2>1, <2>3, <2>4, <2>5 DEF TupleCarriesRow
<1>2. CASE at = "reading" /\ DeserializeField
  <2>1. r'.bytes = r.bytes /\ r'.role = r.role /\ r'.key = r.key /\ w' = w
    BY <1>2, ReadStep
  <2> QED
    BY <1>2, <2>1 DEF TupleCarriesRow
<1>3. CASE /\ at = "reading" /\ at' = "reading"
           /\ UNCHANGED <<types, values, w, offsets, fields, yields, r>>
  BY <1>3 DEF TupleCarriesRow
<1>4. CASE at # "reading" /\ at' # "reading" /\ yields' = yields
  BY <1>4 DEF TupleCarriesRow
<1> QED
  BY <1>1, <1>2, <1>3, <1>4, StreamSteps

-----------------------------------------------------------------------------
(* What comes back *)

LEMMA PrefixBytes ==
    ASSUME NEW s \in Seq(Nat), NEW t \in Seq(Nat), IsPrefix(s, t)
    PROVE  Len(s) <= Len(t) /\ \A i \in 1 .. Len(s) : s[i] = t[i]
<1>1. PICK n \in Nat : n = Len(s) /\ n <= Len(t)
  BY DEF IsPrefix
<1>2. PICK a : a = SubSeq(s, 1, n)
  OBVIOUS
<1>3. PICK b : b = SubSeq(t, 1, n)
  OBVIOUS
<1>4. a = b
  BY <1>1, <1>2, <1>3 DEF IsPrefix
<1>5. ASSUME NEW u \in Seq(Nat), n <= Len(u), NEW c, c = SubSeq(u, 1, n), NEW i \in 1 .. n
      PROVE  c[i] = u[i]
  <2>1. \A j \in 1 .. n : u[j] \in Nat
    BY <1>5
  <2>2. 1 \in Int /\ n \in Int /\ i \in 1 .. n - 1 + 1 /\ 1 + i - 1 = i
    OBVIOUS
  <2> QED
    BY <1>5, <2>1, <2>2, SubSeqProperties
<1>6. ASSUME NEW i \in 1 .. n PROVE s[i] = t[i]
  <2>1. a[i] = s[i]
    BY <1>1, <1>2, <1>5
  <2>2. b[i] = t[i]
    BY <1>1, <1>3, <1>5
  <2> QED
    BY <1>4, <2>1, <2>2
<1> QED
  BY <1>1, <1>6

\* The bytes a read finds, as long as they are there, are those of the field.
LEMMA ReadsField ==
    ASSUME IInv, Bounded, Stored, InStream, at = "reading",
           NEW m \in Nat, m = Len(yields), NEW f \in 1 .. Len(types), f = r.first + m,
           AsWritten(m),
           IsPrefix(r.bytes, SubSeq(w.buffer, offsets[r.first] + 1, Len(w.buffer))),
           NEW end, end = r.position + types[f].size, end <= Len(r.bytes)
    PROVE  FromBytes(types[f], SubSeq(r.bytes, r.position + 1, end)) = ReadsAs(f)
<1>1. /\ w.buffer \in Seq(Nat) /\ offsets \in Seq(Nat) /\ Len(offsets) = Len(types) + 1
      /\ Len(types) \in Nat /\ Len(w.buffer) = offsets[Len(types) + 1]
  BY BufferIsSeq
<1>2. PICK h \in 1 .. Len(types) + 1 : h = r.first /\ r.bytes \in Seq(Nat)
  BY DEF InStream
<1>3. PICK a, b \in Nat : a = offsets[h] /\ b = offsets[f]
  BY <1>1
<1>4. PICK n \in Nat : n = types[f].size
  <2>1. types[f] \in DataType
    BY DEF IInv, Typed
  <2> QED
    BY <2>1, Sizes
<1>5. PICK p \in Nat : p = r.position /\ p = b - a /\ end = p + n
  <2>1. r.position \in Nat
    BY DEF IInv, Typed
  <2>2. r.position = offsets[h + m] - offsets[h]
    BY <1>2 DEF InStream
  <2> QED
    BY <1>2, <1>3, <1>4, <2>1, <2>2
<1>6. PICK g : g = SubSeq(w.buffer, a + 1, Len(w.buffer))
  OBVIOUS
<1>7. PICK l \in Nat : l = Len(w.buffer) /\ \A i \in 1 .. l : w.buffer[i] \in Nat
  BY <1>1, Elements
<1>8. g \in Seq(Nat) /\ \A i \in 1 .. l - a : g[i] = w.buffer[a + i]
  <2>1. \A i \in a + 1 .. l : w.buffer[i] \in Nat
    BY <1>7
  <2>2. /\ g \in Seq(Nat)
        /\ \A i \in 1 .. l - (a + 1) + 1 : g[i] = w.buffer[(a + 1) + i - 1]
    BY <1>6, <1>7, <2>1, SubSeqProperties
  <2>3. \A i \in Int : l - (a + 1) + 1 = l - a /\ (a + 1) + i - 1 = a + i
    OBVIOUS
  <2> QED
    BY <2>2, <2>3
<1>9. Len(g) <= l - a \/ Len(g) = 0
  <2>1. \A i \in a + 1 .. l : w.buffer[i] \in Nat
    BY <1>7
  <2>2. Len(g) = IF a + 1 <= l THEN l - (a + 1) + 1 ELSE 0
    BY <1>6, <1>7, <2>1, SubSeqProperties
  <2> QED
    BY <2>2
<1>10. Len(r.bytes) <= Len(g) /\ \A i \in 1 .. Len(r.bytes) : r.bytes[i] = g[i]
  <2>1. IsPrefix(r.bytes, g)
    BY <1>2, <1>3, <1>6
  <2> QED
    BY <1>2, <1>8, <2>1, PrefixBytes
<1>11. PICK c : c = SubSeq(r.bytes, p + 1, end)
  OBVIOUS
<1>12. PICK q \in Nat : q = Len(r.bytes) /\ p + n <= q
  <2>1. PICK q \in Nat : q = Len(r.bytes)
    BY <1>2, Elements
  <2>2. p + n <= q
    BY <1>5, <2>1
  <2> QED
    BY <2>1, <2>2
<1>13. c \in Seq(Nat) /\ Len(c) = n /\ \A j \in 1 .. n : c[j] = r.bytes[p + j] /\ p + j \in 1 .. q
  <2>1. c = Slice(r.bytes, p, n)
    BY <1>5, <1>11 DEF Slice
  <2>2. PICK s \in Seq(Nat) : s = r.bytes
    BY <1>2
  <2>3. c = Slice(s, p, n)
    BY <2>1, <2>2
  <2>4. p + n <= Len(s)
    BY <1>12, <2>2
  <2>5. Slice(s, p, n) \in Seq(Nat) /\ Len(Slice(s, p, n)) = n
    BY <2>4, SliceProperties
  <2>6. \A j \in 1 .. n : Slice(s, p, n)[j] = s[p + j] /\ p + j \in 1 .. Len(s)
    BY <2>4, SliceProperties
  <2> QED
    BY <1>12, <2>2, <2>3, <2>5, <2>6
<1>14. ASSUME NEW j \in 1 .. n PROVE c[j] = w.buffer[b + j]
  <2>1. c[j] = r.bytes[p + j] /\ p + j \in 1 .. q
    BY <1>13
  <2>2. r.bytes[p + j] = g[p + j]
    BY <1>10, <1>12, <2>1
  <2>3. PICK k \in Nat : k = p + j /\ k >= 1 /\ k <= q /\ a + k = b + j
    <3>1. p = b - a
      BY <1>5
    <3>2. p + j \in Nat /\ p + j >= 1 /\ p + j <= q
      BY <2>1
    <3>3. a + (p + j) = b + j
      BY <3>1
    <3> QED
      BY <3>2, <3>3
  <2>4. Len(g) \in Nat /\ q <= Len(g)
    BY <1>8, <1>10, <1>12
  <2>5. k \in 1 .. l - a
    BY <1>9, <2>3, <2>4
  <2>6. g[k] = w.buffer[a + k]
    BY <1>8, <2>5
  <2> QED
    BY <2>1, <2>2, <2>3, <2>6
<1>15. c = [j \in 1 .. types[f].size |-> w.buffer[offsets[f] + j]]
  <2>1. c = [j \in 1 .. n |-> c[j]]
    BY <1>13
  <2> QED
    BY <1>3, <1>4, <1>14, <2>1
<1>16. FromBytes(types[f], c) = ReadsAs(f)
  BY <1>15, FieldReadsAs
<1> QED
  BY <1>5, <1>11, <1>16

\* The hypothesis and the conclusion of RoundTrip.
Whole == IsPrefix(r.bytes, SubSeq(w.buffer, offsets[r.first] + 1, Len(w.buffer)))
GivesBack(i) ==
    yields[i].result = IF offsets[r.first + i - 1 + 1] - offsets[r.first] <= Len(r.bytes)
                       THEN ReadsAs(r.first + i - 1)
                       ELSE Error("BufferUnexpectedEnd")

LEMMA ByField ==
    RoundTrip <=> ((at = "reading" /\ Whole) =>
                       \A i \in DOMAIN yields : AsWritten(i) => GivesBack(i))
BY DEF RoundTrip, Whole, AsWritten, GivesBack

\* The field read last, if the reads before it followed the types of the row.
LEMMA NextField ==
    ASSUME IInv, Bounded, Stored, InStream, at = "reading", DeserializeField, Whole,
           NEW m \in Nat, m = Len(yields), AsWritten(m + 1)'
    PROVE  GivesBack(m + 1)'
<1>1. PICK type \in DataType :
          /\ Len(yields') = m + 1
          /\ \A j \in 1 .. m : yields'[j] = yields[j]
          /\ yields'[m + 1].type = type
          /\ yields'[m + 1].result =
                 IF r.position + type.size > Len(r.bytes) THEN Error("BufferUnexpectedEnd")
                 ELSE FromBytes(type, SubSeq(r.bytes, r.position + 1, r.position + type.size))
          /\ r.position \in Nat /\ type.size \in Nat
          /\ r'.bytes = r.bytes /\ r'.first = r.first
          /\ UNCHANGED <<types, values, offsets>>
  BY ReadStep
<1>2. PICK h \in 1 .. Len(types) + 1 : h = r.first /\ r.bytes \in Seq(Nat)
  BY DEF InStream
<1>3. \A j \in 1 .. m + 1 : h + j - 1 <= Len(types) /\ yields'[j].type = types[h + j - 1]
  BY <1>1, <1>2 DEF AsWritten
<1>4. AsWritten(m)
  BY <1>1, <1>2, <1>3 DEF AsWritten
<1>5. /\ Len(types) \in Nat /\ offsets \in Seq(Nat) /\ Len(offsets) = Len(types) + 1
      /\ \A i \in 1 .. Len(offsets) - 1 : offsets[i + 1] = offsets[i] + types[i].size
  BY BufferIsSeq DEF IInv, Typed, Summed
<1>6. PICK f \in 1 .. Len(types) : f = h + m /\ type = types[f]
  <2>1. m + 1 \in 1 .. m + 1 /\ h + (m + 1) - 1 = h + m
    OBVIOUS
  <2>2. h + m <= Len(types) /\ yields'[m + 1].type = types[h + m]
    BY <1>3, <2>1
  <2>3. h + m \in 1 .. Len(types)
    BY <1>5, <2>2
  <2> QED
    BY <1>1, <2>2, <2>3
<1>7. PICK a, b, c \in Nat : a = offsets[h] /\ b = offsets[f] /\ c = offsets[f + 1]
  <2>1. h \in 1 .. Len(offsets) /\ f \in 1 .. Len(offsets) /\ f + 1 \in 1 .. Len(offsets)
    BY <1>2, <1>5
  <2>2. \A i \in 1 .. Len(offsets) : offsets[i] \in Nat
    <3>1. offsets \in Seq(Nat)
      BY <1>5
    <3> QED
      BY <3>1
  <2>3. offsets[h] \in Nat /\ offsets[f] \in Nat /\ offsets[f + 1] \in Nat
    BY <2>1, <2>2
  <2> QED
    BY <2>3
<1>8. PICK n \in Nat : n = type.size /\ c = b + n
  <2>1. f \in 1 .. Len(offsets) - 1
    BY <1>5
  <2>2. offsets[f + 1] = offsets[f] + types[f].size
    BY <1>5, <2>1
  <2> QED
    BY <1>1, <1>6, <1>7, <2>2
<1>9. PICK end \in Nat : end = r.position + n /\ end = c - a
  <2>1. r.position = offsets[r.first + Len(yields)] - offsets[r.first]
    BY <1>1, <1>4 DEF InStream
  <2>2. r.position = b - a
    BY <1>1, <1>2, <1>6, <1>7, <2>1
  <2>3. PICK p \in Nat : p = r.position /\ p = b - a
    BY <1>1, <2>2
  <2>4. p + n \in Nat
    OBVIOUS
  <2>5. p + n = c - a
    <3>1. c = b + n /\ p = b - a
      BY <1>8, <2>3
    <3> QED
      BY <3>1
  <2> QED
    BY <2>3, <2>4, <2>5
<1>10. r'.first + (m + 1) - 1 = f /\ r'.first + (m + 1) - 1 + 1 = f + 1
  BY <1>1, <1>2, <1>6
<1>11. yields'[m + 1].result = IF end <= Len(r.bytes) THEN ReadsAs(f) ELSE Error("BufferUnexpectedEnd")
  <2>1. PICK q \in Nat : q = Len(r.bytes)
    BY <1>2
  <2>2. yields'[m + 1].result = IF end > q THEN Error("BufferUnexpectedEnd")
                                ELSE FromBytes(type, SubSeq(r.bytes, r.position + 1, end))
    BY <1>1, <1>8, <1>9, <2>1
  <2>3. CASE end > q
    BY <2>1, <2>2, <2>3
  <2>4. CASE end <= q
    <3>1. FromBytes(types[f], SubSeq(r.bytes, r.position + 1, end)) = ReadsAs(f)
      <4>1. f = r.first + m /\ end = r.position + types[f].size /\ end <= Len(r.bytes) /\ m = Len(yields)
        BY <1>1, <1>2, <1>6, <1>8, <1>9, <2>1, <2>4
      <4>2. IsPrefix(r.bytes, SubSeq(w.buffer, offsets[r.first] + 1, Len(w.buffer)))
        BY DEF Whole
      <4> QED
        BY <1>4, <4>1, <4>2, ReadsField
    <3> QED
      BY <1>6, <2>1, <2>2, <2>4, <3>1
  <2> QED
    BY <2>3, <2>4
<1>12. ReadsAs(f)' = ReadsAs(f)
  BY <1>1 DEF ReadsAs
<1>13. offsets'[f + 1] = c /\ offsets'[r'.first] = a
  BY <1>1, <1>2, <1>7
<1>14. yields'[m + 1].result = IF offsets'[f + 1] - offsets'[r'.first] <= Len(r'.bytes)
                               THEN ReadsAs(f)' ELSE Error("BufferUnexpectedEnd")
  BY <1>1, <1>9, <1>11, <1>12, <1>13
<1> QED
  BY <1>1, <1>10, <1>14 DEF GivesBack

LEMMA RoundTripStep ==
    IInv /\ Bounded /\ Stored /\ InStream /\ RoundTrip /\ [Next]_vars => RoundTrip'
<1> SUFFICES ASSUME IInv, Bounded, Stored, InStream, RoundTrip, [Next]_vars PROVE RoundTrip'
  OBVIOUS
<1>0. RoundTrip' <=> ((at = "reading" /\ Whole) =>
                       \A i \in DOMAIN yields : AsWritten(i) => GivesBack(i))'
  BY ByField, PTL
<1>1. CASE /\ at = "ok" /\ UNCHANGED <<types, values, w, offsets, fields, yields>>
           /\ at' = "reading" /\ (OpenBytes \/ OpenTuple \/ (OpenFrom /\ at' # "panicked"))
  <2>1. yields' = <<>>
    BY <1>1 DEF InStream
  <2>2. DOMAIN yields' = {}
    BY <2>1
  <2> QED
    BY <1>0, <2>2
<1>2. CASE at = "reading" /\ DeserializeField
  <2>1. PICK m \in Nat :
            /\ m = Len(yields) /\ DOMAIN yields = 1 .. m /\ DOMAIN yields' = 1 .. m + 1
            /\ \A j \in 1 .. m : yields'[j] = yields[j]
            /\ r'.bytes = r.bytes /\ r'.first = r.first
            /\ UNCHANGED <<types, values, w, offsets, at>>
    BY <1>2, ReadStep
  <2>2. ASSUME Whole', NEW i \in 1 .. m + 1, AsWritten(i)' PROVE GivesBack(i)'
    <3>1. Whole
      BY <2>1, <2>2 DEF Whole
    <3>2. CASE i = m + 1
      <4>1. AsWritten(m + 1)'
        BY <2>2, <3>2
      <4>2. GivesBack(m + 1)'
        BY <1>2, <2>1, <3>1, <4>1, NextField
      <4> QED
        BY <3>2, <4>2
    <3>3. CASE i \in 1 .. m
      <4>1. \A j \in 1 .. i : yields'[j] = yields[j]
        BY <2>1, <3>3
      <4>2. AsWritten(i)
        BY <2>1, <2>2, <4>1 DEF AsWritten
      <4>3. GivesBack(i)
        BY <1>2, <2>1, <3>1, <3>3, <4>2, ByField
      <4>4. ReadsAs(r.first + i - 1)' = ReadsAs(r.first + i - 1)
        BY <2>1 DEF ReadsAs
      <4>5. i \in 1 .. i
        BY <3>3
      <4> QED
        BY <2>1, <4>1, <4>3, <4>4, <4>5 DEF GivesBack
    <3> QED
      BY <3>2, <3>3
  <2> QED
    BY <1>0, <2>1, <2>2
<1>3. CASE /\ at = "reading" /\ at' = "reading"
           /\ UNCHANGED <<types, values, w, offsets, fields, yields, r>>
  BY <1>3 DEF RoundTrip, ReadsAs
<1>4. CASE at # "reading" /\ at' # "reading" /\ yields' = yields
  BY <1>4 DEF RoundTrip
<1> QED
  BY <1>1, <1>2, <1>3, <1>4, StreamSteps

\* The first field, an integer, begins the buffer with its payload.
LEMMA FirstField ==
    ASSUME IInv, Bounded, at = "ok", fields > 0, types[1].kind # "Char",
           NEW n, n = types[1].size
    PROVE  /\ n \in {2, 4, 8} /\ values[1].int \in Ints(n)
           /\ SubSeq(w.buffer, 1, n) = Flip(BigEndian(values[1].int, n))
<1>1. /\ types \in Seq(DataType) /\ values \in Seq(DataValue)
      /\ fields \in 0 .. Len(types) /\ fields \in 0 .. Len(values)
  BY DEF IInv, Typed
<1>2. 1 \in 1 .. fields /\ types[1] \in DataType /\ values[1] \in DataValue
  BY <1>1
<1>3. types[1].kind = values[1].kind
  BY <1>2 DEF IInv, WellFormed
<1>4. n \in {2, 4, 8} /\ values[1].int \in Ints(n)
  BY <1>2, <1>3, ValueFacts
<1>5. PICK b \in [1 .. n -> Bytes] : b = Payload(types[1], values[1]) /\ Len(b) = n
  BY <1>2, <1>3, <1>4, PayloadBytes
<1>6. b = Flip(BigEndian(values[1].int, n))
  BY <1>5 DEF Payload
<1>7. \A j \in 1 .. n : w.buffer[j] = b[j]
  <2>1. offsets[1] = 0 /\ \A j \in 1 .. n : 0 + j = j /\ j <= n
    BY <1>4 DEF IInv, Summed
  <2>2. \A j \in 1 .. n : w.buffer[offsets[1] + j] = IF j <= Len(b) THEN b[j] ELSE 0
    BY <1>2, <1>5 DEF IInv, FieldsKept
  <2> QED
    BY <1>5, <2>1, <2>2
<1>8. PICK buffer \in Seq(Nat) : buffer = w.buffer /\ n <= Len(buffer)
  <2>1. /\ w.buffer \in Seq(Nat) /\ offsets \in Seq(Nat) /\ Len(offsets) = Len(types) + 1
        /\ Len(types) \in Nat /\ Len(w.buffer) = offsets[Len(types) + 1]
    BY BufferIsSeq
  <2>2. 1 \in 1 .. Len(offsets) - 1 /\ 2 \in 1 .. Len(offsets) /\ Len(types) + 1 \in 1 .. Len(offsets)
    BY <1>1, <1>2, <2>1
  <2>3. offsets[1 + 1] = offsets[1] + types[1].size /\ offsets[1] = 0
    BY <2>2 DEF IInv, Summed
  <2>4. 2 <= Len(types) + 1 /\ offsets[2] <= offsets[Len(types) + 1]
    BY <2>1, <2>2 DEF IInv, Summed
  <2> QED
    BY <1>4, <2>1, <2>3, <2>4
<1>9. PICK c : c = SubSeq(buffer, 1, n)
  OBVIOUS
<1>10. c \in Seq(Nat) /\ Len(c) = n /\ \A j \in 1 .. n : c[j] = buffer[j]
  <2>1. \A j \in 1 .. n : buffer[j] \in Nat
    BY <1>4, <1>8, Elements
  <2>2. 1 \in Int /\ n \in Int /\ 1 <= n /\ n - 1 + 1 = n /\ \A j \in Int : 1 + j - 1 = j
    BY <1>4
  <2>3. /\ c \in Seq(Nat) /\ Len(c) = IF 1 <= n THEN n - 1 + 1 ELSE 0
        /\ \A j \in 1 .. n - 1 + 1 : c[j] = buffer[1 + j - 1]
    BY <1>9, <2>1, <2>2, SubSeqProperties
  <2> QED
    BY <2>2, <2>3
<1>11. c = [j \in 1 .. n |-> c[j]] /\ b = [j \in 1 .. n |-> b[j]]
  <2>1. c = [j \in 1 .. n |-> c[j]]
    BY <1>10
  <2> QED
    BY <1>5, <2>1
<1>12. c = b
  BY <1>7, <1>8, <1>10, <1>11
<1> QED
  BY <1>4, <1>6, <1>8, <1>9, <1>12

LEMMA OrderOfBytes == IInv /\ Bounded => BytesKeepOrder
<1> SUFFICES ASSUME IInv, Bounded, at = "ok", fields > 0, types[1].kind # "Char"
             PROVE  LET n    == types[1].size
                        x    == values[1].int
                        half == Byte ^ (n \div 2) \div 2
                        key(y) == Flip(BigEndian(y, n))
                    IN  \A y \in -half .. half - 1 :
                            (x < y /\ (0 <= x \/ (-half <= x /\ y < 0))) =>
                                Below(SubSeq(w.buffer, 1, n), key(y))
  BY DEF BytesKeepOrder
<1>1. PICK n \in {2, 4, 8} : n = types[1].size
  BY FirstField
<1>2. PICK x \in Int : x = values[1].int
  BY <1>1, FirstField, IntsAreInt
<1>3. PICK half \in Nat \ {0} : half = Byte ^ (n \div 2) \div 2
  <2>1. n \div 2 \in {1, 2, 4}
    OBVIOUS
  <2>2. Byte ^ 1 \div 2 = 2 /\ Byte ^ 2 \div 2 = 8 /\ Byte ^ 4 \div 2 = 128
    BY Powers
  <2> QED
    BY <2>1, <2>2
<1>4. ASSUME NEW y \in -half .. half - 1, x < y, 0 <= x \/ (-half <= x /\ y < 0)
      PROVE  Below(SubSeq(w.buffer, 1, n), Flip(BigEndian(y, n)))
  <2>1. -half <= x /\ y < half /\ (0 <= x \/ y < 0) /\ y \in Int
    BY <1>3, <1>4
  <2>2. -(Byte ^ (n \div 2) \div 2) <= x /\ y < Byte ^ (n \div 2) \div 2
    BY <1>3, <2>1
  <2>3. Below(Flip(BigEndian(x, n)), Flip(BigEndian(y, n)))
    BY <1>4, <2>1, <2>2, FlippedOrder
  <2> QED
    BY <1>1, <1>2, <2>3, FirstField
<1> QED
  BY <1>1, <1>2, <1>3, <1>4

-----------------------------------------------------------------------------

\* The round trip of the tests (363-398), for every row: read back by the types
\* that wrote it, in one call of next or several, from the start of the buffer or
\* from a field on, each value comes back if its bytes are there, and the end of
\* the buffer is reported if they are not (serialize, 271-291, and deserialize).
THEOREM RowsComeBack == Spec => []RoundTrip
<1>1. Init => Bounded /\ Stored /\ InStream /\ RoundTrip
  BY DEF Init, Bounded, Errors, Stored, InStream, RoundTrip
<1> QED
  BY <1>1, Invariant, BoundedStep, StoredStep, InStreamStep, RoundTripStep, PTL DEF Spec

\* A row that travels as the key or the value of a tuple (TupleBuf::new, 126-139,
\* Tuple::key and value) is intact if the key is short enough for its size field;
\* an owned copy of the key (to_owned) has the size field before it.
THEOREM TuplesCarryRows == Spec => []TupleCarriesRow
<1>1. Init => Bounded /\ TupleCarriesRow
  BY DEF Init, Bounded, Errors, TupleCarriesRow
<1> QED
  BY <1>1, Invariant, BoundedStep, TupleStep, PTL DEF Spec

\* Keys are compared by their bytes (page.rs), and the bytes of two integers of
\* one sign are in the order of the integers while both fit in the lower half of
\* their bytes: the bit that serialize flips is the top one of the middle byte.
THEOREM BytesOrdered == Spec => []BytesKeepOrder
<1>1. Init => Bounded
  BY DEF Init, Bounded, Errors
<1> QED
  BY <1>1, Invariant, BoundedStep, OrderOfBytes, PTL DEF Spec
=============================================================================
