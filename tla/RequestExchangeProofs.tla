----------------------- MODULE RequestExchangeProofs -----------------------
(***************************************************************************)
(* Theorems about RequestExchange, for any requests and responses, any     *)
(* capacities of the buffers, and wherever TCP cuts what is sent.          *)
(*                                                                         *)
(* First, that every class is read as it was written, whatever its fields  *)
(* hold; then, that the bytes of one object and no others are read.        *)
(***************************************************************************)
EXTENDS RequestExchange, SequenceTheorems, WellFoundedInduction, TLAPS

ByteString == Seq(Byte)

(* The bytes s are in buffer b, from position p up to position q.          *)
At(b, p, s, q) ==
  /\ p \in Nat \ {0} /\ q = p + Len(s) /\ q - 1 <= Len(b)
  /\ \A i \in 1 .. Len(s) : b[p + i - 1] = s[i]

(* s are bytes; where they are, r is the result of reading them and        *)
(* nothing else, and it is v.                                              *)
Reads(b, p, s, q, r, v) ==
  s \in ByteString /\ (At(b, p, s, q) => r = Got(v, q))

-----------------------------------------------------------------------------
(* Bytes, one after the other.                                             *)

(* Bytes put after bytes are bytes.                                        *)
LEMMA ConcatBytes ==
  ASSUME NEW s, NEW t, s \in ByteString, t \in ByteString
  PROVE  /\ s \o t \in ByteString /\ Len(s \o t) = Len(s) + Len(t)
         /\ Len(s) \in Nat /\ Len(t) \in Nat
BY ConcatProperties, LenProperties DEF ByteString

(* One after the other: opaque to the provers, who unfold \o too eagerly.  *)
Join(s, t) == s \o t

(* The same of Join.                                                       *)
LEMMA JoinBytes ==
  ASSUME NEW s, NEW t, s \in ByteString, t \in ByteString
  PROVE  Join(s, t) \in ByteString
BY ConcatBytes DEF Join

(* What is put after one another is found after one another.               *)
LEMMA AtTwo ==
  ASSUME NEW b, NEW p, NEW s, NEW t, NEW q,
         b \in ByteString, s \in ByteString, t \in ByteString, At(b, p, Join(s, t), q)
  PROVE  \E m : At(b, p, s, m) /\ At(b, m, t, q)
<1> DEFINE c == Join(s, t)
           m == p + Len(s)
<1>1. /\ Len(c) = Len(s) + Len(t)
      /\ \A i \in 1 .. Len(s) + Len(t) :
           c[i] = IF i <= Len(s) THEN s[i] ELSE t[i - Len(s)]
      /\ Len(s) \in Nat /\ Len(t) \in Nat /\ Len(b) \in Nat
  BY ConcatProperties, LenProperties DEF ByteString, Join
<1>2. /\ p \in Nat \ {0} /\ q = p + Len(c) /\ q - 1 <= Len(b)
      /\ \A i \in 1 .. Len(c) : b[p + i - 1] = c[i]
  BY DEF At
<1> HIDE DEF c
<1>3. \A i \in 1 .. Len(s) : b[p + i - 1] = s[i]
  BY <1>1, <1>2
<1>4. \A i \in 1 .. Len(t) : b[m + i - 1] = t[i]
  <2> SUFFICES ASSUME NEW i \in 1 .. Len(t)
               PROVE  b[m + i - 1] = t[i]
    OBVIOUS
  <2> DEFINE j == Len(s) + i
  <2>1. j \in 1 .. Len(s) + Len(t) /\ ~(j <= Len(s)) /\ j - Len(s) = i
    BY <1>1
  <2>2. c[j] = t[i] /\ b[p + j - 1] = c[j]
    BY <1>1, <1>2, <2>1
  <2>3. p + j - 1 = m + i - 1
    BY <1>1, <1>2
  <2> QED
    BY <2>2, <2>3
<1>5. m \in Nat \ {0} /\ m - 1 <= Len(b) /\ q = m + Len(t)
  BY <1>1, <1>2
<1>6. At(b, p, s, m) /\ At(b, m, t, q)
  BY <1>2, <1>3, <1>4, <1>5 DEF At
<1> QED
  BY <1>6

(* A single byte is at its position.                                       *)
LEMMA OneByte ==
  ASSUME NEW b, NEW p, NEW x, NEW q, At(b, p, <<x>>, q)
  PROVE  b[p] = x /\ q = p + 1 /\ p \in Nat
<1>1. p \in Nat /\ q = p + 1 /\ b[p + 1 - 1] = x
  BY DEF At
<1> QED
  BY <1>1

(* The same of three parts,                                                *)
LEMMA AtThree ==
  ASSUME NEW b, NEW p, NEW s, NEW t, NEW w, NEW q,
         b \in ByteString, s \in ByteString, t \in ByteString, w \in ByteString,
         At(b, p, Join(Join(s, t), w), q)
  PROVE  \E m, n : At(b, p, s, m) /\ At(b, m, t, n) /\ At(b, n, w, q)
<1>1. PICK n : At(b, p, Join(s, t), n) /\ At(b, n, w, q)
  BY AtTwo, JoinBytes
<1>2. PICK m : At(b, p, s, m) /\ At(b, m, t, n)
  BY <1>1, AtTwo
<1> QED
  BY <1>1, <1>2

(* of four,                                                                *)
LEMMA AtFour ==
  ASSUME NEW b, NEW p, NEW s1, NEW s2, NEW s3, NEW s4, NEW q,
         b \in ByteString, s1 \in ByteString, s2 \in ByteString, s3 \in ByteString,
         s4 \in ByteString, At(b, p, Join(Join(Join(s1, s2), s3), s4), q)
  PROVE  \E m1, m2, m3 : /\ At(b, p, s1, m1) /\ At(b, m1, s2, m2)
                        /\ At(b, m2, s3, m3) /\ At(b, m3, s4, q)
<1>1. PICK m3 : At(b, p, Join(Join(s1, s2), s3), m3) /\ At(b, m3, s4, q)
  BY AtTwo, JoinBytes
<1>2. PICK m1, m2 : At(b, p, s1, m1) /\ At(b, m1, s2, m2) /\ At(b, m2, s3, m3)
  BY <1>1, AtThree
<1> QED
  BY <1>1, <1>2

(* of five,                                                                *)
LEMMA AtFive ==
  ASSUME NEW b, NEW p, NEW s1, NEW s2, NEW s3, NEW s4, NEW s5, NEW q,
         b \in ByteString, s1 \in ByteString, s2 \in ByteString, s3 \in ByteString,
         s4 \in ByteString, s5 \in ByteString,
         At(b, p, Join(Join(Join(Join(s1, s2), s3), s4), s5), q)
  PROVE  \E m1, m2, m3, m4 :
           /\ At(b, p, s1, m1) /\ At(b, m1, s2, m2) /\ At(b, m2, s3, m3)
           /\ At(b, m3, s4, m4) /\ At(b, m4, s5, q)
<1>1. PICK m4 : /\ At(b, p, Join(Join(Join(s1, s2), s3), s4), m4)
                /\ At(b, m4, s5, q)
  BY AtTwo, JoinBytes
<1>2. PICK m1, m2, m3 : /\ At(b, p, s1, m1) /\ At(b, m1, s2, m2)
                        /\ At(b, m2, s3, m3) /\ At(b, m3, s4, m4)
  BY <1>1, AtFour
<1> QED
  BY <1>1, <1>2

(* and of six: each is found where the one before it ends.                 *)
LEMMA AtSix ==
  ASSUME NEW b, NEW p, NEW s1, NEW s2, NEW s3, NEW s4, NEW s5, NEW s6, NEW q,
         b \in ByteString, s1 \in ByteString, s2 \in ByteString, s3 \in ByteString,
         s4 \in ByteString, s5 \in ByteString, s6 \in ByteString,
         At(b, p, Join(Join(Join(Join(Join(s1, s2), s3), s4), s5), s6), q)
  PROVE  \E m1, m2, m3, m4, m5 :
           /\ At(b, p, s1, m1) /\ At(b, m1, s2, m2) /\ At(b, m2, s3, m3)
           /\ At(b, m3, s4, m4) /\ At(b, m4, s5, m5) /\ At(b, m5, s6, q)
<1>1. PICK m5 : /\ At(b, p, Join(Join(Join(Join(s1, s2), s3), s4), s5), m5)
                /\ At(b, m5, s6, q)
  BY AtTwo, JoinBytes
<1>2. PICK m1, m2, m3, m4 :
        /\ At(b, p, s1, m1) /\ At(b, m1, s2, m2) /\ At(b, m2, s3, m3)
        /\ At(b, m3, s4, m4) /\ At(b, m4, s5, m5)
  BY <1>1, AtFive
<1> QED
  BY <1>1, <1>2

-----------------------------------------------------------------------------
(* Numbers.                                                                *)

(* The range of an int.                                                    *)
LEMMA JavaIntRange ==
  ASSUME NEW i, i \in JavaInt
  PROVE  i \in Int /\ -2147483648 <= i /\ i <= 2147483647
<1>1. MaxInt \in Int
  BY SMT DEF MaxInt
<1>2. i \in Int /\ -MaxInt - 1 <= i /\ i <= MaxInt
  BY <1>1, SMT DEF JavaInt
<1> QED
  BY <1>2, SMT DEF MaxInt

(* A number is its last byte, and the rest of it.                          *)
LEMMA Digits ==
  ASSUME NEW i \in Int
  PROVE  /\ i \div 256 \in Int /\ i % 256 \in Int
         /\ 0 <= i % 256 /\ i % 256 <= 255
         /\ i = 256 * (i \div 256) + (i % 256)
<1>1. i \div 256 \in Int /\ i % 256 \in 0 .. 255
  BY SMT
<1>2. i = 256 * (i \div 256) + (i % 256)
  BY SMT
<1> QED
  BY <1>1, <1>2

(* The high byte is signed, the others are not.                            *)
LEMMA FourDigits ==
  ASSUME NEW i \in Int, NEW u \in Int, NEW v \in Int, NEW w \in Int,
         NEW x \in Int, NEW y \in Int, NEW z \in Int,
         -2147483648 <= i, i <= 2147483647,
         0 <= x, x <= 255, 0 <= y, y <= 255, 0 <= z, z <= 255,
         i = 256 * u + x, u = 256 * v + y, v = 256 * w + z
  PROVE  /\ -128 <= w /\ w <= 127
         /\ ((w * 256 + z) * 256 + y) * 256 + x = i
<1>1. -8388608 <= u /\ u <= 8388607
  BY SMT
<1>2. -32768 <= v /\ v <= 32767
  BY <1>1, SMT
<1>3. -128 <= w /\ w <= 127
  BY <1>2, SMT
<1>4. ((w * 256 + z) * 256 + y) * 256 + x = i
  BY SMT
<1> QED
  BY <1>3, <1>4

(* A signed high byte, from the unsigned one.                              *)
LEMMA HighDigit ==
  ASSUME NEW w \in Int, -128 <= w, w <= 127
  PROVE  w = IF w % 256 > 127 THEN (w % 256) - 256 ELSE w % 256
BY SMT

(* Four bytes, of which IntAt makes the number again.                      *)
LEMMA Int32Digits ==
  ASSUME NEW i, i \in JavaInt
  PROVE  \E h, z, y, x \in Byte :
           /\ Int32(i) = <<h, z, y, x>>
           /\ (((IF h > 127 THEN h - 256 ELSE h) * 256 + z) * 256 + y) * 256 + x = i
<1> DEFINE u == i \div 256
           v == u \div 256
           w == v \div 256
<1>1. i \in Int
  BY JavaIntRange
<1>2. /\ u \in Int
      /\ i % 256 \in Int /\ 0 <= i % 256 /\ i % 256 <= 255 /\ i = 256 * u + (i % 256)
  BY <1>1, Digits
<1>3. /\ v \in Int
      /\ u % 256 \in Int /\ 0 <= u % 256 /\ u % 256 <= 255 /\ u = 256 * v + (u % 256)
  <2> HIDE DEF u
  <2> QED BY <1>2, Digits
<1>4. /\ w \in Int /\ v % 256 \in Int /\ 0 <= v % 256 /\ v % 256 <= 255
      /\ v = 256 * w + (v % 256) /\ w % 256 \in Int /\ 0 <= w % 256 /\ w % 256 <= 255
  <2> HIDE DEF v
  <2>1. /\ w \in Int
        /\ v % 256 \in Int /\ 0 <= v % 256 /\ v % 256 <= 255 /\ v = 256 * w + (v % 256)
    BY <1>3, Digits
  <2> HIDE DEF w
  <2> QED BY <2>1, Digits
<1>5. Int32(i) = <<w % 256, v % 256, u % 256, i % 256>>
  BY DEF Int32
<1> HIDE DEF u, v, w
<1> DEFINE x == i % 256
           y == u % 256
           z == v % 256
           h == w % 256
<1>6. -128 <= w /\ w <= 127 /\ ((w * 256 + z) * 256 + y) * 256 + x = i
  <2>1. -2147483648 <= i /\ i <= 2147483647
    BY JavaIntRange
  <2>2. /\ x \in Int /\ y \in Int /\ z \in Int
        /\ 0 <= x /\ x <= 255 /\ 0 <= y /\ y <= 255 /\ 0 <= z /\ z <= 255
        /\ i = 256 * u + x /\ u = 256 * v + y /\ v = 256 * w + z
    BY <1>2, <1>3, <1>4
  <2> HIDE DEF x, y, z
  <2> QED
    BY <2>1, <2>2, <1>1, <1>2, <1>3, <1>4, FourDigits
<1>7. w = IF h > 127 THEN h - 256 ELSE h
  BY <1>4, <1>6, HighDigit
<1>8. Int32(i) = <<h, z, y, x>>
  BY <1>5
<1>9. h \in Byte /\ x \in Byte /\ y \in Byte /\ z \in Byte
  BY <1>2, <1>3, <1>4 DEF Byte
<1> HIDE DEF x, y, z, h
<1> QED
  BY <1>6, <1>7, <1>8, <1>9

(* Four bytes hold an int.                                                 *)
LEMMA Int32Bytes ==
  ASSUME NEW i, i \in JavaInt
  PROVE  Int32(i) \in ByteString /\ Len(Int32(i)) = 4
<1>1. PICK h, z, y, x \in Byte : Int32(i) = <<h, z, y, x>>
  BY Int32Digits
<1> QED
  BY <1>1 DEF ByteString

(* putInt and getInt: a number of the width of int is what is read ...     *)
LEMMA IntRead ==
  ASSUME NEW b, NEW p, NEW i, NEW q, i \in JavaInt, At(b, p, Int32(i), q)
  PROVE  IntAt(b, p) = i
<1>1. PICK h, z, y, x \in Byte :
        /\ Int32(i) = <<h, z, y, x>>
        /\ (((IF h > 127 THEN h - 256 ELSE h) * 256 + z) * 256 + y) * 256 + x = i
  BY Int32Digits
<1> DEFINE s == Int32(i)
<1>2. p \in Nat /\ Len(s) = 4 /\ \A k \in 1 .. Len(s) : b[p + k - 1] = s[k]
  BY Int32Bytes DEF At
<1>3. s[1] = h /\ s[2] = z /\ s[3] = y /\ s[4] = x
  BY <1>1
<1> HIDE DEF s
<1>4. b[p + 1 - 1] = h /\ b[p + 2 - 1] = z /\ b[p + 3 - 1] = y /\ b[p + 4 - 1] = x
  BY <1>2, <1>3
<1>5. p + 1 - 1 = p /\ p + 2 - 1 = p + 1 /\ p + 3 - 1 = p + 2 /\ p + 4 - 1 = p + 3
  BY <1>2
<1>6. b[p] = h /\ b[p + 1] = z /\ b[p + 2] = y /\ b[p + 3] = x
  BY <1>4, <1>5
<1> QED
  BY <1>1, <1>6 DEF IntAt

(* ... and nothing else is.                                                *)
LEMMA IntCodec ==
  ASSUME NEW b, NEW p, NEW q, NEW i, i \in JavaInt
  PROVE  Reads(b, p, Int32(i), q, GetInt(b, p), i)
<1>1. Int32(i) \in ByteString /\ Len(Int32(i)) = 4
  BY Int32Bytes
<1>2. At(b, p, Int32(i), q) => IntAt(b, p) = i
  BY IntRead
<1>3. At(b, p, Int32(i), q) => q = p + 4
  BY <1>1 DEF At
<1> QED
  BY <1>1, <1>2, <1>3 DEF Reads, GetInt

(* putLong and getLong, within the range of int.                           *)
LEMMA LongCodec ==
  ASSUME NEW b, NEW p, NEW q, NEW l, b \in ByteString, l \in JavaInt
  PROVE  Reads(b, p, PutLong(l), q, GetLong(b, p), l)
<1> DEFINE sign == IF l < 0 THEN <<255, 255, 255, 255>> ELSE <<0, 0, 0, 0>>
           low  == Int32(l)
<1>1. PutLong(l) = Join(sign, low)
  BY DEF PutLong, Join
<1>2. sign \in ByteString /\ Len(sign) = 4
  <2>1. <<255, 255, 255, 255>> \in ByteString /\ <<0, 0, 0, 0>> \in ByteString
    BY DEF ByteString, Byte
  <2> QED
    BY <2>1
<1>3. low \in ByteString /\ Len(low) = 4
  BY Int32Bytes
<1> HIDE DEF sign, low
<1>4. PutLong(l) \in ByteString
  BY <1>1, <1>2, <1>3, JoinBytes
<1>5. ASSUME At(b, p, PutLong(l), q)
      PROVE  GetLong(b, p) = Got(l, q)
  <2>1. PICK m : At(b, p, sign, m) /\ At(b, m, low, q)
    BY <1>1, <1>2, <1>3, <1>5, AtTwo
  <2>2. m = p + 4 /\ q = m + 4 /\ p \in Nat
    BY <1>2, <1>3, <2>1 DEF At
  <2>3. IntAt(b, m) = l
    BY <2>1, IntRead DEF low
  <2>4. q = p + 8
    BY <2>2
  <2> QED
    BY <2>2, <2>3, <2>4 DEF GetLong
<1> QED
  BY <1>4, <1>5 DEF Reads

(* putBoolean and getBoolean.                                              *)
LEMMA BooleanCodec ==
  ASSUME NEW b, NEW p, NEW q, NEW v, v \in BOOLEAN
  PROVE  Reads(b, p, PutBoolean(v), q, GetBoolean(b, p), v)
<1> DEFINE x == IF v THEN TrueByte ELSE FalseByte
<1>1. PutBoolean(v) = <<x>> /\ x \in Byte /\ (x = TrueByte) = v
  BY DEF PutBoolean, TrueByte, FalseByte, Byte
<1> HIDE DEF x
<1>2. <<x>> \in ByteString
  BY <1>1 DEF ByteString
<1>3. At(b, p, <<x>>, q) => b[p] = x /\ q = p + 1
  BY OneByte
<1> QED
  BY <1>1, <1>2, <1>3 DEF Reads, GetBoolean

-----------------------------------------------------------------------------
(* Values that may be null.                                                *)

(* A value that is there is not null.                                      *)
LEMMA SomeValue ==
  ASSUME NEW x
  PROVE  Some(x) # Null /\ Some(x)[1] = x
BY DEF Some, Null

(* What may be null is null or there.                                      *)
LEMMA OrNullCases ==
  ASSUME NEW S, NEW v, v \in OrNull(S)
  PROVE  v = Null \/ \E x \in S : v = Some(x)
<1>1. CASE Len(v) = 0
  BY <1>1 DEF OrNull, Null
<1>2. CASE Len(v) = 1
  <2>1. v \in Seq(S) /\ DOMAIN v = 1 .. 1 /\ v[1] \in S
    BY <1>2 DEF OrNull
  <2>2. v = <<v[1]>>
    BY <1>2, <2>1
  <2> QED
    BY <2>1, <2>2 DEF Some
<1> QED
  BY <1>1, <1>2 DEF OrNull

(* The bytes of an array are found where they were put.                    *)
LEMMA SubSeqAt ==
  ASSUME NEW b, NEW p, NEW s, NEW q, b \in ByteString, s \in ByteString, At(b, p, s, q)
  PROVE  SubSeq(b, p, q - 1) = s
<1>1. /\ p \in Nat \ {0} /\ q = p + Len(s) /\ q - 1 <= Len(b)
      /\ \A i \in 1 .. Len(s) : b[p + i - 1] = s[i]
      /\ Len(s) \in Nat /\ Len(b) \in Nat
  BY DEF At, ByteString
<1> DEFINE c == SubSeq(b, p, q - 1)
<1>2. /\ c \in Seq(Byte) /\ Len(c) = Len(s)
      /\ \A i \in 1 .. Len(s) : c[i] = b[p + i - 1]
  BY <1>1 DEF ByteString
<1>3. \A i \in 1 .. Len(s) : c[i] = s[i]
  BY <1>1, <1>2
<1> HIDE DEF c
<1>4. c = s
  BY <1>2, <1>3, SeqEqual DEF ByteString
<1> QED
  BY <1>4 DEF c

(* The length of an array fits into its four bytes.                        *)
LEMMA ArrayLength ==
  ASSUME NEW S, NEW s, s \in Array(S)
  PROVE  s \in Seq(S) /\ Len(s) \in JavaInt /\ Len(s) >= 0
<1>1. MaxInt \in Nat
  BY SMT DEF MaxInt
<1>2. s \in Seq(S) /\ Len(s) \in Nat /\ Len(s) <= MaxInt
  BY DEF Array
<1> QED
  BY <1>1, <1>2 DEF JavaInt

(* A length, and as many bytes.                                            *)
LEMMA CountedBytes ==
  ASSUME NEW b, NEW p, NEW q, NEW s, b \in ByteString, s \in Array(Byte)
  PROVE  /\ Int32(Len(s)) \o s \in ByteString
         /\ At(b, p, Int32(Len(s)) \o s, q) =>
              GetBytes(b, p) = Got(Some(s), q)
<1> DEFINE n == Int32(Len(s))
<1>1. s \in ByteString /\ Len(s) \in JavaInt /\ Len(s) >= 0 /\ Len(s) \in Nat
  BY ArrayLength, LenProperties DEF ByteString
<1>2. n \in ByteString /\ Len(n) = 4
  BY <1>1, Int32Bytes
<1> HIDE DEF n
<1>3. Join(n, s) \in ByteString
  BY <1>1, <1>2, JoinBytes
<1>4. ASSUME At(b, p, Join(n, s), q)
      PROVE  GetBytes(b, p) = Got(Some(s), q)
  <2>1. PICK m : At(b, p, n, m) /\ At(b, m, s, q)
    BY <1>1, <1>2, <1>4, AtTwo
  <2>2. m = p + 4 /\ q = m + Len(s) /\ p \in Nat
    BY <1>2, <2>1 DEF At
  <2>3. IntAt(b, p) = Len(s)
    BY <1>1, <2>1, IntRead DEF n
  <2>4. SubSeq(b, m, q - 1) = s
    BY <1>1, <2>1, SubSeqAt
  <2>5. m = p + 4 /\ q - 1 = p + 3 + Len(s) /\ q = p + 4 + Len(s)
    BY <1>1, <2>2
  <2> QED
    BY <1>1, <2>3, <2>4, <2>5 DEF GetBytes
<1> QED
  BY <1>3, <1>4 DEF Join, n

(* putString and getString, also of null.                                  *)
LEMMA BytesCodec ==
  ASSUME NEW b, NEW p, NEW q, NEW v, b \in ByteString, v \in String
  PROVE  Reads(b, p, PutBytes(v), q, GetBytes(b, p), v)
<1>1. CASE v = Null
  <2>1. -1 \in JavaInt
    <3>1. MaxInt \in Nat
      BY SMT DEF MaxInt
    <3> QED
      BY <3>1 DEF JavaInt
  <2>2. PutBytes(v) = Int32(-1)
    BY <1>1 DEF PutBytes
  <2>3. Reads(b, p, Int32(-1), q, GetInt(b, p), -1)
    BY <2>1, IntCodec
  <2>4. ASSUME At(b, p, PutBytes(v), q)
        PROVE  GetBytes(b, p) = Got(v, q)
    <3>1. IntAt(b, p) = -1 /\ q = p + 4
      BY <2>2, <2>3, <2>4 DEF Reads, GetInt, Got
    <3> QED
      BY <1>1, <3>1 DEF GetBytes
  <2> QED
    BY <2>2, <2>3, <2>4 DEF Reads
<1>2. ASSUME NEW x \in Array(Byte), v = Some(x)
      PROVE  Reads(b, p, PutBytes(v), q, GetBytes(b, p), v)
  <2>1. PutBytes(v) = Int32(Len(x)) \o x
    BY <1>2, SomeValue DEF PutBytes
  <2> QED
    BY <1>2, <2>1, CountedBytes DEF Reads
<1> QED
  BY <1>1, <1>2, OrNullCases DEF String

(* serializeAny and deserializeAny.                                        *)
LEMMA AnyCodec ==
  ASSUME NEW b, NEW p, NEW q, NEW v, b \in ByteString, v \in Array(Byte)
  PROVE  Reads(b, p, PutAny(v), q, GetAny(b, p), v)
BY CountedBytes, SomeValue DEF Reads, PutAny, GetAny, Got

(* What else may be null: a flag, and s unless it is; r reads s.           *)
Flagged(v, s) == IF v = Null THEN <<FalseByte>> ELSE Join(<<TrueByte>>, s)
Unflagged(b, p, r) ==
  IF b[p] = TrueByte THEN Got(Some(r.value), r.next) ELSE Got(Null, p + 1)

(* If a value is read as it was written, so is one that may be null.       *)
LEMMA FlaggedCodec ==
  ASSUME NEW S, NEW b, NEW p, NEW q, NEW v, NEW s, NEW r,
         b \in ByteString, v \in OrNull(S),
         v # Null => Reads(b, p + 1, s, q, r, v[1])
  PROVE  Reads(b, p, Flagged(v, s), q, Unflagged(b, p, r), v)
<1>1. /\ <<FalseByte>> \in ByteString
      /\ <<TrueByte>> \in ByteString /\ FalseByte # TrueByte
  BY DEF ByteString, Byte, FalseByte, TrueByte
<1>2. CASE v = Null
  <2>1. ASSUME At(b, p, <<FalseByte>>, q)
        PROVE  b[p] = FalseByte /\ q = p + 1
    BY <2>1, OneByte
  <2> QED
    BY <1>1, <1>2, <2>1 DEF Reads, Flagged, Unflagged
<1>3. ASSUME NEW x, v = Some(x)
      PROVE  Reads(b, p, Flagged(v, s), q, Unflagged(b, p, r), v)
  <2>1. v # Null /\ v[1] = x /\ Reads(b, p + 1, s, q, r, x)
    BY <1>3, SomeValue
  <2>2. s \in ByteString /\ Flagged(v, s) = Join(<<TrueByte>>, s)
    BY <2>1 DEF Reads, Flagged
  <2>3. ASSUME At(b, p, Join(<<TrueByte>>, s), q)
        PROVE  Unflagged(b, p, r) = Got(v, q)
    <3>1. PICK m : At(b, p, <<TrueByte>>, m) /\ At(b, m, s, q)
      BY <1>1, <2>2, <2>3, AtTwo
    <3>2. b[p] = TrueByte /\ m = p + 1
      BY <3>1, OneByte
    <3>3. r = Got(x, q)
      BY <2>1, <3>1, <3>2 DEF Reads
    <3> QED
      BY <1>3, <3>2, <3>3 DEF Unflagged, Got
  <2> QED
    BY <1>1, <2>2, <2>3, JoinBytes DEF Reads
<1> QED
  BY <1>2, <1>3, OrNullCases

(* putInteger and getInteger, also of null.                                *)
LEMMA IntegerCodec ==
  ASSUME NEW b, NEW p, NEW q, NEW v, b \in ByteString, v \in OrNull(JavaInt)
  PROVE  Reads(b, p, PutInteger(v), q, GetInteger(b, p), v)
<1>1. PutInteger(v) = Flagged(v, Int32(v[1]))
  BY DEF PutInteger, PutNullable, Flagged, Join
<1>2. GetInteger(b, p) = Unflagged(b, p, GetInt(b, p + 1))
  BY DEF GetInteger, GetNullable, Unflagged
<1>3. v # Null => v[1] \in JavaInt
  BY OrNullCases, SomeValue
<1>4. v # Null => Reads(b, p + 1, Int32(v[1]), q, GetInt(b, p + 1), v[1])
  BY <1>3, IntCodec
<1> QED
  BY <1>1, <1>2, <1>4, FlaggedCodec

(* putLong and getLong of an object, also of null.                         *)
LEMMA LongObjectCodec ==
  ASSUME NEW b, NEW p, NEW q, NEW v, b \in ByteString, v \in OrNull(JavaInt)
  PROVE  Reads(b, p, PutLongObject(v), q, GetLongObject(b, p), v)
<1>1. PutLongObject(v) = Flagged(v, PutLong(v[1]))
  BY DEF PutLongObject, PutNullable, Flagged, Join
<1>2. GetLongObject(b, p) = Unflagged(b, p, GetLong(b, p + 1))
  BY DEF GetLongObject, GetNullable, Unflagged
<1>3. v # Null => v[1] \in JavaInt
  BY OrNullCases, SomeValue
<1>4. v # Null => Reads(b, p + 1, PutLong(v[1]), q, GetLong(b, p + 1), v[1])
  BY <1>3, LongCodec
<1> QED
  BY <1>1, <1>2, <1>4, FlaggedCodec

-----------------------------------------------------------------------------
(* Lists.                                                                  *)

(* A set of numbers that is not empty has a least one: how a recursion is  *)
(* followed here.                                                          *)
LEMMA NatLeast ==
  ASSUME NEW T, T \subseteq Nat, T # {}
  PROVE  \E m \in T : \A k \in T : m <= k
<1>1. PICK m \in T : \A k \in T : <<k, m>> \notin OpToRel(<, Nat)
  BY WFMin, NatLessThanWellFounded
<1>2. ASSUME NEW k \in T
      PROVE  m <= k
  <2>1. k \in Nat /\ m \in Nat
    OBVIOUS
  <2>2. k < m => <<k, m>> \in OpToRel(<, Nat)
    BY <2>1 DEF OpToRel
  <2>3. <<k, m>> \notin OpToRel(<, Nat)
    BY <1>1
  <2>4. ~(k < m)
    BY <2>2, <2>3
  <2> QED
    BY <2>1, <2>4
<1> QED
  BY <1>2

(* The sequences s[1], s[1] \o s[2], ... of FlattenSeq, up to the k-th.    *)
Flattening(s, k, g) ==
  g = [i \in 1 .. k |-> IF i = 1 THEN s[i] ELSE g[i - 1] \o s[i]]

(* The recursive function FlattenSeq chooses exists up to any length:      *)
(* there is no least one for which it does not ...                         *)
LEMMA FlatteningExists ==
  ASSUME NEW s, NEW n, n \in Nat, n >= 1
  PROVE  \E g : Flattening(s, n, g)
<1> SUFFICES ASSUME ~ \E g : Flattening(s, n, g)
             PROVE  FALSE
  OBVIOUS
<1> DEFINE T == {k \in Nat : k >= 1 /\ ~ \E g : Flattening(s, k, g)}
<1>1. T \subseteq Nat /\ n \in T
  OBVIOUS
<1>2. PICK m \in T : \A k \in T : m <= k
  <2> HIDE DEF T
  <2> QED
    BY <1>1, NatLeast
<1>3. m \in Nat /\ m >= 1 /\ ~ \E g : Flattening(s, m, g)
  BY <1>2
<1>4. CASE m = 1
  <2> DEFINE g == [i \in 1 .. 1 |-> s[i]]
  <2>1. g = [i \in 1 .. 1 |-> IF i = 1 THEN s[i] ELSE g[i - 1] \o s[i]]
    OBVIOUS
  <2> HIDE DEF g
  <2>2. Flattening(s, 1, g)
    BY <2>1 DEF Flattening
  <2> QED
    BY <1>3, <1>4, <2>2
<1>5. CASE m > 1
  <2>1. m - 1 \in Nat /\ m - 1 >= 1 /\ ~(m <= m - 1)
    BY <1>3, <1>5
  <2>2. PICK g : Flattening(s, m - 1, g)
    BY <1>2, <2>1
  <2>3. \A i \in 1 .. m - 1 : g[i] = IF i = 1 THEN s[i] ELSE g[i - 1] \o s[i]
    BY <2>2, <2>1 DEF Flattening
  <2> DEFINE last == g[m - 1] \o s[m]
             h == [i \in 1 .. m |-> IF i = m THEN last ELSE g[i]]
  <2>4. ASSUME NEW i \in 1 .. m
        PROVE  h[i] = IF i = 1 THEN s[i] ELSE h[i - 1] \o s[i]
    <3>1. CASE i = m
      <4>1. i - 1 \in 1 .. m /\ i - 1 # m /\ i - 1 = m - 1 /\ i # 1
        BY <1>3, <1>5, <3>1
      <4>2. h[i] = last /\ h[i - 1] = g[m - 1]
        BY <3>1, <4>1
      <4> QED
        BY <3>1, <4>1, <4>2
    <3>2. CASE i # m
      <4>1. i \in 1 .. m - 1 /\ h[i] = g[i]
        BY <1>3, <3>2
      <4>2. i # 1 => h[i - 1] = g[i - 1]
        BY <1>3, <3>2
      <4> QED
        BY <2>3, <4>1, <4>2
    <3> QED
      BY <3>1, <3>2
  <2>5. h = [i \in 1 .. m |-> h[i]]
    OBVIOUS
  <2> HIDE DEF h
  <2>6. Flattening(s, m, h)
    BY <2>4, <2>5 DEF Flattening
  <2> QED
    BY <1>3, <2>6
<1> QED
  BY <1>3, <1>4, <1>5

(* f are the flattened prefixes of s. *)
Flattens(s, f) ==
  /\ FlattenSeq(s) = f[Len(s)] /\ f[1] = s[1]
  /\ \A i \in 2 .. Len(s) : f[i] = Join(f[i - 1], s[i])

(* ... so FlattenSeq has the value its definition states.                  *)
LEMMA Flattened ==
  ASSUME NEW s, Len(s) \in Nat, Len(s) >= 1
  PROVE  \E f : Flattens(s, f)
<1> DEFINE n == Len(s)
           f == CHOOSE g : g = [i \in 1 .. n |-> IF i = 1 THEN s[i] ELSE g[i - 1] \o s[i]]
<1>1. FlattenSeq(s) = f[n]
  BY DEF FlattenSeq
<1>2. Flattening(s, n, f)
  <2>1. f = CHOOSE g : Flattening(s, n, g)
    BY DEF Flattening
  <2> HIDE DEF f
  <2> QED
    BY <2>1, FlatteningExists
<1> HIDE DEF f
<1>3. \A i \in 1 .. n : f[i] = IF i = 1 THEN s[i] ELSE Join(f[i - 1], s[i])
  BY <1>2 DEF Flattening, Join
<1>4. f[1] = s[1]
  BY <1>3
<1>5. ASSUME NEW i \in 2 .. n
      PROVE  f[i] = Join(f[i - 1], s[i])
  <2>1. i \in 1 .. n /\ i # 1
    OBVIOUS
  <2> QED
    BY <1>3, <2>1
<1> QED
  BY <1>1, <1>4, <1>5 DEF Flattens

(* Sequences of bytes, one after the other, are bytes.                     *)
LEMMA FlattenBytes ==
  ASSUME NEW s, s \in Seq(ByteString)
  PROVE  FlattenSeq(s) \in ByteString
<1> DEFINE n == Len(s)
<1>1. n \in Nat /\ \A i \in 1 .. n : s[i] \in ByteString
  BY LenProperties, ElementOfSeq
<1>2. CASE n = 0
  <2>1. s = <<>> /\ FlattenSeq(s) = s
    BY <1>2 DEF FlattenSeq
  <2>2. <<>> \in ByteString
    BY DEF ByteString
  <2> QED
    BY <2>1, <2>2
<1>3. CASE n >= 1
  <2>0. PICK f : Flattens(s, f)
    BY <1>1, <1>3, Flattened
  <2>1. /\ FlattenSeq(s) = f[n] /\ f[1] = s[1]
        /\ \A i \in 2 .. n : f[i] = Join(f[i - 1], s[i])
    BY <2>0 DEF Flattens
  <2> DEFINE T == {k \in Nat : k >= 1 /\ k <= n /\ f[k] \notin ByteString}
  <2>2. ASSUME T # {}
        PROVE  FALSE
    <3>1. PICK m \in T : \A k \in T : m <= k
      <4>1. T \subseteq Nat
        OBVIOUS
      <4> HIDE DEF T
      <4> QED
        BY <2>2, <4>1, NatLeast
    <3>2. m \in Nat /\ m >= 1 /\ m <= n /\ f[m] \notin ByteString
      BY <3>1
    <3>3. m # 1
      BY <1>1, <1>3, <2>1, <3>2
    <3>4. /\ m \in 2 .. n
          /\ m \in 1 .. n /\ m - 1 \in Nat /\ m - 1 >= 1 /\ m - 1 <= n /\ ~(m <= m - 1)
      BY <1>1, <3>2, <3>3
    <3>5. f[m - 1] \in ByteString
      BY <3>1, <3>4
    <3> QED
      BY <1>1, <2>1, <3>2, <3>4, <3>5, JoinBytes
  <2> QED
    BY <1>1, <1>3, <2>1, <2>2
<1> QED
  BY <1>1, <1>2, <1>3

(* The i-th item of s is found from o[i - 1] to o[i].                      *)
Offsets(b, p, s, n, q, o) ==
  /\ o[0] = p /\ o[n] = q
  /\ \A i \in 1 .. n : At(b, o[i - 1], s[i], o[i])

(* Where they are, each item is where the one before it ends.              *)
LEMMA FlattenAt ==
  ASSUME NEW b, NEW p, NEW q, NEW s, NEW n,
         b \in ByteString, s \in Seq(ByteString), Len(s) = n,
         At(b, p, FlattenSeq(s), q)
  PROVE  \E o : Offsets(b, p, s, n, q, o)
<1>1. n \in Nat /\ \A i \in 1 .. n : s[i] \in ByteString
  BY LenProperties, ElementOfSeq
<1>2. CASE n = 0
  <2>1. FlattenSeq(s) = s
    BY <1>2 DEF FlattenSeq
  <2>2. p \in Nat /\ q = p + 0
    BY <1>2, <2>1 DEF At
  <2> DEFINE o == [i \in {0} |-> p]
  <2>3. o[0] = p /\ o[n] = q /\ 1 .. n = {}
    BY <1>2, <2>2
  <2> HIDE DEF o
  <2>4. Offsets(b, p, s, n, q, o)
    BY <2>3 DEF Offsets
  <2> QED
    BY <2>4
<1>3. CASE n >= 1
  <2>0. PICK f : Flattens(s, f)
    BY <1>1, <1>3, Flattened
  <2>1. /\ FlattenSeq(s) = f[n] /\ f[1] = s[1]
        /\ \A i \in 2 .. n : f[i] = Join(f[i - 1], s[i])
    BY <2>0 DEF Flattens
  <2> DEFINE o == [i \in 0 .. n |-> IF i = 0 THEN p ELSE p + Len(f[i])]
             Split(k) == \A i \in 1 .. k : At(b, o[i - 1], s[i], o[i])
             T == {k \in Nat : k >= 1 /\ k <= n /\ At(b, p, f[k], o[k]) /\ ~Split(k)}
  <2>2. o[0] = p /\ \A i \in 1 .. n : o[i] = p + Len(f[i])
    BY <1>1
  <2> HIDE DEF o
  <2>3. \A k \in 1 .. n : f[k] \in ByteString
    <3> DEFINE U == {k \in Nat : k >= 1 /\ k <= n /\ f[k] \notin ByteString}
    <3>1. ASSUME U # {}
          PROVE  FALSE
      <4>1. PICK m \in U : \A k \in U : m <= k
        <5>1. U \subseteq Nat
          OBVIOUS
        <5> HIDE DEF U
        <5> QED
          BY <3>1, <5>1, NatLeast
      <4>2. m \in Nat /\ m >= 1 /\ m <= n /\ f[m] \notin ByteString
        BY <4>1
      <4>3. m # 1
        BY <1>1, <1>3, <2>1, <4>2
      <4>4. /\ m \in 2 .. n
            /\ m \in 1 .. n /\ m - 1 \in Nat /\ m - 1 >= 1 /\ m - 1 <= n /\ ~(m <= m - 1)
        BY <1>1, <4>2, <4>3
      <4>5. f[m - 1] \in ByteString
        BY <4>1, <4>4
      <4> QED
        BY <1>1, <2>1, <4>2, <4>4, <4>5, JoinBytes
    <3> QED
      BY <1>1, <3>1
  <2>4. ASSUME T # {}
        PROVE  FALSE
    <3>1. PICK m \in T : \A k \in T : m <= k
      <4>1. T \subseteq Nat
        OBVIOUS
      <4> HIDE DEF T
      <4> QED
        BY <2>4, <4>1, NatLeast
    <3>2. m \in Nat /\ m >= 1 /\ m <= n /\ At(b, p, f[m], o[m]) /\ ~Split(m)
      BY <3>1
    <3>3. CASE m = 1
      <4>1. At(b, o[1 - 1], s[1], o[1])
        BY <2>1, <2>2, <3>2, <3>3
      <4>2. Split(1)
        BY <4>1
      <4> QED
        BY <3>2, <3>3, <4>2
    <3>4. CASE m # 1
      <4>1. /\ m \in 2 .. n /\ m \in 1 .. n /\ m - 1 \in 1 .. n
            /\ m - 1 \in Nat /\ m - 1 >= 1 /\ m - 1 <= n /\ ~(m <= m - 1)
        BY <1>1, <3>2, <3>4
      <4>2. PICK x : At(b, p, f[m - 1], x) /\ At(b, x, s[m], o[m])
        <5>1. At(b, p, Join(f[m - 1], s[m]), o[m])
          BY <2>1, <3>2, <4>1
        <5> QED
          BY <1>1, <2>3, <4>1, <5>1, AtTwo
      <4>3. x = o[m - 1]
        <5>1. x = p + Len(f[m - 1])
          BY <4>2 DEF At
        <5> QED
          BY <2>2, <4>1, <5>1
      <4>4. Split(m - 1)
        BY <3>1, <4>1, <4>2, <4>3
      <4>5. ASSUME NEW i \in 1 .. m
            PROVE  At(b, o[i - 1], s[i], o[i])
        <5>1. CASE i = m
          BY <4>2, <4>3, <5>1
        <5>2. CASE i # m
          <6>1. i \in 1 .. m - 1
            BY <3>2, <5>2
          <6> QED
            BY <4>4, <6>1
        <5> QED
          BY <5>1, <5>2
      <4> QED
        BY <3>2, <4>5
    <3> QED
      BY <3>3, <3>4
  <2>5. o[n] = q /\ At(b, p, f[n], o[n])
    <3>1. q = p + Len(f[n]) /\ n \in 1 .. n
      BY <1>1, <1>3, <2>1 DEF At
    <3> QED
      BY <2>1, <2>2, <3>1
  <2>6. Split(n)
    BY <1>1, <1>3, <2>4, <2>5
  <2>7. Offsets(b, p, s, n, q, o)
    BY <2>2, <2>5, <2>6 DEF Offsets
  <2> QED
    BY <2>7
<1> QED
  BY <1>1, <1>2, <1>3

(* Offsets that go on in the same way are the same.                        *)
SameSteps(f, o, n) ==
  f[0] = o[0] /\ \A i \in 1 .. n : f[i - 1] = o[i - 1] => f[i] = o[i]

(* The positions GetList goes through are those of the items, if one step  *)
(* of both is the same.                                                    *)
LEMMA SameOffsets ==
  ASSUME NEW f, NEW o, NEW n, n \in Nat, SameSteps(f, o, n)
  PROVE  \A i \in 0 .. n : f[i] = o[i]
<1> USE DEF SameSteps
<1> DEFINE T == {k \in Nat : k <= n /\ f[k] # o[k]}
<1>1. ASSUME T # {}
      PROVE  FALSE
  <2>1. PICK m \in T : \A k \in T : m <= k
    <3>1. T \subseteq Nat
      OBVIOUS
    <3> HIDE DEF T
    <3> QED
      BY <1>1, <3>1, NatLeast
  <2>2. m \in Nat /\ m <= n /\ f[m] # o[m]
    BY <2>1
  <2>3. m # 0
    BY <2>2
  <2>4. m \in 1 .. n /\ m - 1 \in Nat /\ m - 1 <= n /\ ~(m <= m - 1)
    BY <2>2, <2>3
  <2>5. f[m - 1] = o[m - 1]
    BY <2>1, <2>4
  <2> QED
    BY <2>2, <2>4, <2>5
<1> QED
  BY <1>1

(* The list of queue ids of a SendMessageRequest, of any length.           *)
LEMMA LongObjectsCodec ==
  ASSUME NEW b, NEW p, NEW q, NEW v, b \in ByteString, v \in Array(OrNull(JavaInt))
  PROVE  Reads(b, p, PutList(PutLongObject, v), q, GetList(GetLongObject, b, p), v)
<1> DEFINE n == Len(v)
           items == [i \in DOMAIN v |-> PutLongObject(v[i])]
           count == Int32(n)
           flat  == FlattenSeq(items)
<1>1. v \in Seq(OrNull(JavaInt)) /\ n \in JavaInt /\ n \in Nat /\ DOMAIN v = 1 .. n
  BY ArrayLength, LenProperties
<1>2. \A i \in 1 .. n : v[i] \in OrNull(JavaInt)
  BY <1>1
<1>3. PutList(PutLongObject, v) = Join(count, flat)
  BY DEF PutList, Join
<1>4. \A i \in 1 .. n : items[i] = PutLongObject(v[i]) /\ items[i] \in ByteString
  <2> SUFFICES ASSUME NEW i \in 1 .. n
               PROVE  items[i] = PutLongObject(v[i]) /\ items[i] \in ByteString
    OBVIOUS
  <2>1. items[i] = PutLongObject(v[i])
    BY <1>1
  <2>2. Reads(b, p, PutLongObject(v[i]), q, GetLongObject(b, p), v[i])
    BY <1>2, LongObjectCodec
  <2> QED
    BY <2>1, <2>2 DEF Reads
<1>5. items \in Seq(ByteString) /\ Len(items) = n
  <2>1. items = [i \in 1 .. n |-> items[i]]
    BY <1>1
  <2> HIDE DEF items, n
  <2> QED
    BY <1>1, <1>4, <2>1
<1> HIDE DEF n, items, count, flat
<1>6. flat \in ByteString
  BY <1>1, <1>5, FlattenBytes DEF flat
<1>7. count \in ByteString /\ Len(count) = 4
  BY <1>1, Int32Bytes DEF count
<1>8. ASSUME At(b, p, Join(count, flat), q)
      PROVE  GetList(GetLongObject, b, p) = Got(v, q)
  <2>1. PICK m : At(b, p, count, m) /\ At(b, m, flat, q)
    BY <1>6, <1>7, <1>8, AtTwo
  <2>2. m = p + 4
    BY <1>7, <2>1 DEF At
  <2>3. IntAt(b, p) = n
    BY <1>1, <2>1, IntRead DEF count
  <2>0. PICK o : Offsets(b, m, items, n, q, o)
    BY <1>5, <2>1, FlattenAt DEF flat
  <2>4. /\ o[0] = m /\ o[n] = q
        /\ \A i \in 1 .. n : At(b, o[i - 1], items[i], o[i])
    BY <2>0 DEF Offsets
  <2>5. ASSUME NEW i \in 1 .. n
        PROVE  GetLongObject(b, o[i - 1]) = Got(v[i], o[i])
    <3>1. Reads(b, o[i - 1], PutLongObject(v[i]), o[i],
                GetLongObject(b, o[i - 1]), v[i])
      BY <1>2, LongObjectCodec
    <3>2. At(b, o[i - 1], PutLongObject(v[i]), o[i])
      BY <1>4, <2>4
    <3> QED
      BY <3>1, <3>2 DEF Reads
  <2>6. CASE n = 0
    <3>1. v = <<>>
      BY <1>1, <2>6 DEF n
    <3>2. GetList(GetLongObject, b, p) = Got(<<>>, p + 4)
      BY <2>3, <2>6 DEF GetList
    <3> QED
      BY <2>2, <2>4, <2>6, <3>1, <3>2
  <2>7. CASE n # 0
    <3> DEFINE Starts(g) ==
                 g = [i \in 0 .. n |-> IF i = 0 THEN p + 4 ELSE GetLongObject(b, g[i - 1]).next]
               start == CHOOSE g : Starts(g)
    <3>1. GetList(GetLongObject, b, p)
            = Got([i \in 1 .. n |-> GetLongObject(b, start[i - 1]).value], start[n])
      <4>1. ~(n <= 0)
        BY <1>1, <2>7
      <4> QED
        BY <2>3, <4>1 DEF GetList
    <3>2. Starts([i \in 0 .. n |-> o[i]])
      <4> DEFINE h == [i \in 0 .. n |-> o[i]]
      <4>1. ASSUME NEW i \in 0 .. n
            PROVE  o[i] = IF i = 0 THEN p + 4 ELSE GetLongObject(b, h[i - 1]).next
        <5>1. CASE i = 0
          BY <2>2, <2>4, <5>1
        <5>2. CASE i # 0
          <6>1. i \in 1 .. n /\ i - 1 \in 0 .. n
            BY <1>1, <5>2
          <6>2. h[i - 1] = o[i - 1]
            BY <6>1
          <6> HIDE DEF h
          <6>3. GetLongObject(b, h[i - 1]) = Got(v[i], o[i])
            BY <2>5, <6>1, <6>2
          <6> QED
            BY <5>2, <6>3 DEF Got
        <5> QED
          BY <5>1, <5>2
      <4> QED
        BY <4>1
    <3>3. Starts(start)
      <4> HIDE DEF Starts
      <4> QED
        BY <3>2
    <3>4. SameSteps(start, o, n)
      <4> HIDE DEF start
      <4>1. \A i \in 0 .. n :
              start[i] = IF i = 0 THEN p + 4 ELSE GetLongObject(b, start[i - 1]).next
        BY <3>3
      <4>2. start[0] = p + 4
        BY <1>1, <4>1
      <4>3. ASSUME NEW i \in 1 .. n, start[i - 1] = o[i - 1]
            PROVE  start[i] = o[i]
        <5>1. i \in 0 .. n /\ i # 0
          BY <1>1
        <5>2. start[i] = GetLongObject(b, o[i - 1]).next
          BY <4>1, <4>3, <5>1
        <5>3. GetLongObject(b, o[i - 1]) = Got(v[i], o[i])
          BY <2>5
        <5> QED
          BY <5>2, <5>3 DEF Got
      <4> QED
        BY <2>2, <2>4, <4>2, <4>3 DEF SameSteps
    <3> HIDE DEF start
    <3>5. \A i \in 0 .. n : start[i] = o[i]
      BY <1>1, <3>4, SameOffsets
    <3>6. ASSUME NEW i \in 1 .. n
          PROVE  GetLongObject(b, start[i - 1]).value = v[i]
      <4>1. i - 1 \in 0 .. n
        BY <1>1
      <4>2. GetLongObject(b, start[i - 1]) = Got(v[i], o[i])
        BY <2>5, <3>5, <4>1
      <4> QED
        BY <4>2 DEF Got
    <3>7. [i \in 1 .. n |-> GetLongObject(b, start[i - 1]).value] = v
      <4>1. v = [i \in 1 .. n |-> v[i]]
        BY <1>1
      <4> QED
        BY <3>6, <4>1
    <3>8. start[n] = q
      BY <1>1, <2>4, <3>5
    <3> QED
      BY <3>1, <3>7, <3>8
  <2> QED
    BY <2>6, <2>7
<1> QED
  BY <1>3, <1>6, <1>7, <1>8, JoinBytes DEF Reads

-----------------------------------------------------------------------------
(* Data transfer objects: a value for each field, in the same order.       *)

(* A QueueDto is read as it was written,                                   *)
LEMMA QueueDtoCodec ==
  ASSUME NEW b, NEW p, NEW q, NEW v,
         b \in ByteString, v \in QueueDto
  PROVE  Reads(b, p, PutQueueDto(v), q, GetQueueDto(b, p), v)
<1> DEFINE s1 == PutLong(v.id)
           s2 == PutBytes(v.name)
<1>1. v.id \in JavaInt /\ v.name \in String
  BY DEF QueueDto
<1>2. v = [id |-> v.id, name |-> v.name]
  BY DEF QueueDto
<1>3. PutQueueDto(v) = Join(s1, s2)
  BY DEF PutQueueDto, Join
<1>4. s1 \in ByteString /\ s2 \in ByteString
  <2>1. Reads(b, p, s1, q, GetLong(b, p), v.id)
    BY <1>1, LongCodec
  <2>2. Reads(b, p, s2, q, GetBytes(b, p), v.name)
    BY <1>1, BytesCodec
  <2> QED
    BY <2>1, <2>2 DEF Reads
<1> HIDE DEF s1, s2
<1>5. PutQueueDto(v) \in ByteString
  BY <1>3, <1>4, JoinBytes
<1>6. ASSUME At(b, p, PutQueueDto(v), q)
      PROVE  GetQueueDto(b, p) = Got(v, q)
  <2>1. PICK m1 :
          At(b, p, s1, m1) /\ At(b, m1, s2, q)
    BY <1>3, <1>4, <1>6, AtTwo
  <2>2. GetLong(b, p).value = v.id /\ GetLong(b, p).next = m1
    <3>1. Reads(b, p, PutLong(v.id), m1, GetLong(b, p), v.id)
      BY <1>1, LongCodec
    <3> QED
      BY <2>1, <3>1 DEF Reads, s1, Got
  <2>3. GetBytes(b, m1).value = v.name /\ GetBytes(b, m1).next = q
    <3>1. Reads(b, m1, PutBytes(v.name), q, GetBytes(b, m1), v.name)
      BY <1>1, BytesCodec
    <3> QED
      BY <2>1, <3>1 DEF Reads, s2, Got
  <2>4. GetQueueDto(b, p) = Got([id |-> v.id, name |-> v.name], q)
    BY <2>2, <2>3 DEF GetQueueDto
  <2> QED
    BY <1>2, <2>4
<1> QED
  BY <1>5, <1>6 DEF Reads

(* a ClientDto,                                                            *)
LEMMA ClientDtoCodec ==
  ASSUME NEW b, NEW p, NEW q, NEW v,
         b \in ByteString, v \in ClientDto
  PROVE  Reads(b, p, PutClientDto(v), q, GetClientDto(b, p), v)
<1> DEFINE s1 == PutLong(v.id)
           s2 == PutBytes(v.name)
<1>1. v.id \in JavaInt /\ v.name \in String
  BY DEF ClientDto
<1>2. v = [id |-> v.id, name |-> v.name]
  BY DEF ClientDto
<1>3. PutClientDto(v) = Join(s1, s2)
  BY DEF PutClientDto, Join
<1>4. s1 \in ByteString /\ s2 \in ByteString
  <2>1. Reads(b, p, s1, q, GetLong(b, p), v.id)
    BY <1>1, LongCodec
  <2>2. Reads(b, p, s2, q, GetBytes(b, p), v.name)
    BY <1>1, BytesCodec
  <2> QED
    BY <2>1, <2>2 DEF Reads
<1> HIDE DEF s1, s2
<1>5. PutClientDto(v) \in ByteString
  BY <1>3, <1>4, JoinBytes
<1>6. ASSUME At(b, p, PutClientDto(v), q)
      PROVE  GetClientDto(b, p) = Got(v, q)
  <2>1. PICK m1 :
          At(b, p, s1, m1) /\ At(b, m1, s2, q)
    BY <1>3, <1>4, <1>6, AtTwo
  <2>2. GetLong(b, p).value = v.id /\ GetLong(b, p).next = m1
    <3>1. Reads(b, p, PutLong(v.id), m1, GetLong(b, p), v.id)
      BY <1>1, LongCodec
    <3> QED
      BY <2>1, <3>1 DEF Reads, s1, Got
  <2>3. GetBytes(b, m1).value = v.name /\ GetBytes(b, m1).next = q
    <3>1. Reads(b, m1, PutBytes(v.name), q, GetBytes(b, m1), v.name)
      BY <1>1, BytesCodec
    <3> QED
      BY <2>1, <3>1 DEF Reads, s2, Got
  <2>4. GetClientDto(b, p) = Got([id |-> v.id, name |-> v.name], q)
    BY <2>2, <2>3 DEF GetClientDto
  <2> QED
    BY <1>2, <2>4
<1> QED
  BY <1>5, <1>6 DEF Reads

(* a queue that may be null,                                               *)
LEMMA QueueCodec ==
  ASSUME NEW b, NEW p, NEW q, NEW v, b \in ByteString, v \in OrNull(QueueDto)
  PROVE  Reads(b, p, PutQueue(v), q, GetQueue(b, p), v)
<1>1. PutQueue(v) = Flagged(v, PutQueueDto(v[1]))
  BY DEF PutQueue, PutNullable, Flagged, Join
<1>2. GetQueue(b, p) = Unflagged(b, p, GetQueueDto(b, p + 1))
  BY DEF GetQueue, GetNullable, Unflagged
<1>3. v # Null => v[1] \in QueueDto
  BY OrNullCases, SomeValue
<1>4. v # Null => Reads(b, p + 1, PutQueueDto(v[1]), q, GetQueueDto(b, p + 1), v[1])
  BY <1>3, QueueDtoCodec
<1> QED
  BY <1>1, <1>2, <1>4, FlaggedCodec

(* a client that may be null,                                              *)
LEMMA ClientCodec ==
  ASSUME NEW b, NEW p, NEW q, NEW v, b \in ByteString, v \in OrNull(ClientDto)
  PROVE  Reads(b, p, PutClient(v), q, GetClient(b, p), v)
<1>1. PutClient(v) = Flagged(v, PutClientDto(v[1]))
  BY DEF PutClient, PutNullable, Flagged, Join
<1>2. GetClient(b, p) = Unflagged(b, p, GetClientDto(b, p + 1))
  BY DEF GetClient, GetNullable, Unflagged
<1>3. v # Null => v[1] \in ClientDto
  BY OrNullCases, SomeValue
<1>4. v # Null => Reads(b, p + 1, PutClientDto(v[1]), q,
                        GetClientDto(b, p + 1), v[1])
  BY <1>3, ClientDtoCodec
<1> QED
  BY <1>1, <1>2, <1>4, FlaggedCodec

(* a list of queues, of any length,                                        *)
LEMMA QueuesCodec ==
  ASSUME NEW b, NEW p, NEW q, NEW v, b \in ByteString, v \in Array(OrNull(QueueDto))
  PROVE  Reads(b, p, PutList(PutQueue, v), q, GetList(GetQueue, b, p), v)
<1> DEFINE n == Len(v)
           items == [i \in DOMAIN v |-> PutQueue(v[i])]
           count == Int32(n)
           flat  == FlattenSeq(items)
<1>1. v \in Seq(OrNull(QueueDto)) /\ n \in JavaInt /\ n \in Nat /\ DOMAIN v = 1 .. n
  BY ArrayLength, LenProperties
<1>2. \A i \in 1 .. n : v[i] \in OrNull(QueueDto)
  BY <1>1
<1>3. PutList(PutQueue, v) = Join(count, flat)
  BY DEF PutList, Join
<1>4. \A i \in 1 .. n : items[i] = PutQueue(v[i]) /\ items[i] \in ByteString
  <2> SUFFICES ASSUME NEW i \in 1 .. n
               PROVE  items[i] = PutQueue(v[i]) /\ items[i] \in ByteString
    OBVIOUS
  <2>1. items[i] = PutQueue(v[i])
    BY <1>1
  <2>2. Reads(b, p, PutQueue(v[i]), q, GetQueue(b, p), v[i])
    BY <1>2, QueueCodec
  <2> QED
    BY <2>1, <2>2 DEF Reads
<1>5. items \in Seq(ByteString) /\ Len(items) = n
  <2>1. items = [i \in 1 .. n |-> items[i]]
    BY <1>1
  <2> HIDE DEF items, n
  <2> QED
    BY <1>1, <1>4, <2>1
<1> HIDE DEF n, items, count, flat
<1>6. flat \in ByteString
  BY <1>1, <1>5, FlattenBytes DEF flat
<1>7. count \in ByteString /\ Len(count) = 4
  BY <1>1, Int32Bytes DEF count
<1>8. ASSUME At(b, p, Join(count, flat), q)
      PROVE  GetList(GetQueue, b, p) = Got(v, q)
  <2>1. PICK m : At(b, p, count, m) /\ At(b, m, flat, q)
    BY <1>6, <1>7, <1>8, AtTwo
  <2>2. m = p + 4
    BY <1>7, <2>1 DEF At
  <2>3. IntAt(b, p) = n
    BY <1>1, <2>1, IntRead DEF count
  <2>0. PICK o : Offsets(b, m, items, n, q, o)
    BY <1>5, <2>1, FlattenAt DEF flat
  <2>4. /\ o[0] = m /\ o[n] = q
        /\ \A i \in 1 .. n : At(b, o[i - 1], items[i], o[i])
    BY <2>0 DEF Offsets
  <2>5. ASSUME NEW i \in 1 .. n
        PROVE  GetQueue(b, o[i - 1]) = Got(v[i], o[i])
    <3>1. Reads(b, o[i - 1], PutQueue(v[i]), o[i], GetQueue(b, o[i - 1]), v[i])
      BY <1>2, QueueCodec
    <3>2. At(b, o[i - 1], PutQueue(v[i]), o[i])
      BY <1>4, <2>4
    <3> QED
      BY <3>1, <3>2 DEF Reads
  <2>6. CASE n = 0
    <3>1. v = <<>>
      BY <1>1, <2>6 DEF n
    <3>2. GetList(GetQueue, b, p) = Got(<<>>, p + 4)
      BY <2>3, <2>6 DEF GetList
    <3> QED
      BY <2>2, <2>4, <2>6, <3>1, <3>2
  <2>7. CASE n # 0
    <3> DEFINE Starts(g) ==
                 g = [i \in 0 .. n |-> IF i = 0 THEN p + 4 ELSE GetQueue(b, g[i - 1]).next]
               start == CHOOSE g : Starts(g)
    <3>1. GetList(GetQueue, b, p)
            = Got([i \in 1 .. n |-> GetQueue(b, start[i - 1]).value], start[n])
      <4>1. ~(n <= 0)
        BY <1>1, <2>7
      <4> QED
        BY <2>3, <4>1 DEF GetList
    <3>2. Starts([i \in 0 .. n |-> o[i]])
      <4> DEFINE h == [i \in 0 .. n |-> o[i]]
      <4>1. ASSUME NEW i \in 0 .. n
            PROVE  o[i] = IF i = 0 THEN p + 4 ELSE GetQueue(b, h[i - 1]).next
        <5>1. CASE i = 0
          BY <2>2, <2>4, <5>1
        <5>2. CASE i # 0
          <6>1. i \in 1 .. n /\ i - 1 \in 0 .. n
            BY <1>1, <5>2
          <6>2. h[i - 1] = o[i - 1]
            BY <6>1
          <6> HIDE DEF h
          <6>3. GetQueue(b, h[i - 1]) = Got(v[i], o[i])
            BY <2>5, <6>1, <6>2
          <6> QED
            BY <5>2, <6>3 DEF Got
        <5> QED
          BY <5>1, <5>2
      <4> QED
        BY <4>1
    <3>3. Starts(start)
      <4> HIDE DEF Starts
      <4> QED
        BY <3>2
    <3>4. SameSteps(start, o, n)
      <4> HIDE DEF start
      <4>1. \A i \in 0 .. n :
              start[i] = IF i = 0 THEN p + 4 ELSE GetQueue(b, start[i - 1]).next
        BY <3>3
      <4>2. start[0] = p + 4
        BY <1>1, <4>1
      <4>3. ASSUME NEW i \in 1 .. n, start[i - 1] = o[i - 1]
            PROVE  start[i] = o[i]
        <5>1. i \in 0 .. n /\ i # 0
          BY <1>1
        <5>2. start[i] = GetQueue(b, o[i - 1]).next
          BY <4>1, <4>3, <5>1
        <5>3. GetQueue(b, o[i - 1]) = Got(v[i], o[i])
          BY <2>5
        <5> QED
          BY <5>2, <5>3 DEF Got
      <4> QED
        BY <2>2, <2>4, <4>2, <4>3 DEF SameSteps
    <3> HIDE DEF start
    <3>5. \A i \in 0 .. n : start[i] = o[i]
      BY <1>1, <3>4, SameOffsets
    <3>6. ASSUME NEW i \in 1 .. n
          PROVE  GetQueue(b, start[i - 1]).value = v[i]
      <4>1. i - 1 \in 0 .. n
        BY <1>1
      <4>2. GetQueue(b, start[i - 1]) = Got(v[i], o[i])
        BY <2>5, <3>5, <4>1
      <4> QED
        BY <4>2 DEF Got
    <3>7. [i \in 1 .. n |-> GetQueue(b, start[i - 1]).value] = v
      <4>1. v = [i \in 1 .. n |-> v[i]]
        BY <1>1
      <4> QED
        BY <3>6, <4>1
    <3>8. start[n] = q
      BY <1>1, <2>4, <3>5
    <3> QED
      BY <3>1, <3>7, <3>8
  <2> QED
    BY <2>6, <2>7
<1> QED
  BY <1>3, <1>6, <1>7, <1>8, JoinBytes DEF Reads

(* a MessageDto,                                                           *)
LEMMA MessageDtoCodec ==
  ASSUME NEW b, NEW p, NEW q, NEW v,
         b \in ByteString, v \in MessageDto
  PROVE  Reads(b, p, PutMessageDto(v), q, GetMessageDto(b, p), v)
<1> DEFINE s1 == PutLong(v.id)
           s2 == PutQueue(v.queue)
           s3 == PutBytes(v.content)
           s4 == Int32(v.prio)
           s5 == PutClient(v.sender)
           s6 == PutInteger(v.conversationContext)
<1>1. /\ v.id \in JavaInt
      /\ v.queue \in OrNull(QueueDto)
      /\ v.content \in String
      /\ v.prio \in JavaInt
      /\ v.sender \in OrNull(ClientDto)
      /\ v.conversationContext \in OrNull(JavaInt)
  BY DEF MessageDto
<1>2. v = [id |-> v.id, queue |-> v.queue, content |-> v.content,
           prio |-> v.prio, sender |-> v.sender,
           conversationContext |-> v.conversationContext]
  BY DEF MessageDto
<1>3. PutMessageDto(v) = Join(Join(Join(Join(Join(s1, s2), s3), s4), s5), s6)
  BY DEF PutMessageDto, Join
<1>4. /\ s1 \in ByteString
      /\ s2 \in ByteString
      /\ s3 \in ByteString
      /\ s4 \in ByteString
      /\ s5 \in ByteString
      /\ s6 \in ByteString
  <2>1. Reads(b, p, s1, q, GetLong(b, p), v.id)
    BY <1>1, LongCodec
  <2>2. Reads(b, p, s2, q, GetQueue(b, p), v.queue)
    BY <1>1, QueueCodec
  <2>3. Reads(b, p, s3, q, GetBytes(b, p), v.content)
    BY <1>1, BytesCodec
  <2>4. Reads(b, p, s4, q, GetInt(b, p), v.prio)
    BY <1>1, IntCodec
  <2>5. Reads(b, p, s5, q, GetClient(b, p), v.sender)
    BY <1>1, ClientCodec
  <2>6. Reads(b, p, s6, q, GetInteger(b, p), v.conversationContext)
    BY <1>1, IntegerCodec
  <2> QED
    BY <2>1, <2>2, <2>3, <2>4, <2>5, <2>6 DEF Reads
<1> HIDE DEF s1, s2, s3, s4, s5, s6
<1>5. PutMessageDto(v) \in ByteString
  BY <1>3, <1>4, JoinBytes
<1>6. ASSUME At(b, p, PutMessageDto(v), q)
      PROVE  GetMessageDto(b, p) = Got(v, q)
  <2>1. PICK m1, m2, m3, m4, m5 :
          /\ At(b, p, s1, m1)
          /\ At(b, m1, s2, m2)
          /\ At(b, m2, s3, m3)
          /\ At(b, m3, s4, m4)
          /\ At(b, m4, s5, m5)
          /\ At(b, m5, s6, q)
    BY <1>3, <1>4, <1>6, AtSix
  <2>2. GetLong(b, p).value = v.id /\ GetLong(b, p).next = m1
    <3>1. Reads(b, p, PutLong(v.id), m1, GetLong(b, p), v.id)
      BY <1>1, LongCodec
    <3> QED
      BY <2>1, <3>1 DEF Reads, s1, Got
  <2>3. GetQueue(b, m1).value = v.queue /\ GetQueue(b, m1).next = m2
    <3>1. Reads(b, m1, PutQueue(v.queue), m2, GetQueue(b, m1), v.queue)
      BY <1>1, QueueCodec
    <3> QED
      BY <2>1, <3>1 DEF Reads, s2, Got
  <2>4. GetBytes(b, m2).value = v.content /\ GetBytes(b, m2).next = m3
    <3>1. Reads(b, m2, PutBytes(v.content), m3, GetBytes(b, m2), v.content)
      BY <1>1, BytesCodec
    <3> QED
      BY <2>1, <3>1 DEF Reads, s3, Got
  <2>5. GetInt(b, m3).value = v.prio /\ GetInt(b, m3).next = m4
    <3>1. Reads(b, m3, Int32(v.prio), m4, GetInt(b, m3), v.prio)
      BY <1>1, IntCodec
    <3> QED
      BY <2>1, <3>1 DEF Reads, s4, Got
  <2>6. GetClient(b, m4).value = v.sender /\ GetClient(b, m4).next = m5
    <3>1. Reads(b, m4, PutClient(v.sender), m5, GetClient(b, m4), v.sender)
      BY <1>1, ClientCodec
    <3> QED
      BY <2>1, <3>1 DEF Reads, s5, Got
  <2>7. /\ GetInteger(b, m5).value = v.conversationContext
        /\ GetInteger(b, m5).next = q
    <3>1. Reads(b, m5, PutInteger(v.conversationContext), q,
                GetInteger(b, m5), v.conversationContext)
      BY <1>1, IntegerCodec
    <3> QED
      BY <2>1, <3>1 DEF Reads, s6, Got
  <2>8. GetMessageDto(b, p) = Got([id |-> v.id, queue |-> v.queue, content |-> v.content,
                                   prio |-> v.prio, sender |-> v.sender,
                                   conversationContext |-> v.conversationContext], q)
    BY <2>2, <2>3, <2>4, <2>5, <2>6, <2>7 DEF GetMessageDto
  <2> QED
    BY <1>2, <2>8
<1> QED
  BY <1>5, <1>6 DEF Reads

(* a MessageQueryInfoDto,                                                  *)
LEMMA MessageQueryInfoDtoCodec ==
  ASSUME NEW b, NEW p, NEW q, NEW v,
         b \in ByteString, v \in MessageQueryInfoDto
  PROVE  Reads(b, p, PutMessageQueryInfoDto(v), q, GetMessageQueryInfoDto(b, p), v)
<1> DEFINE s1 == PutQueue(v.queue)
           s2 == PutClient(v.sender)
           s3 == PutBoolean(v.shouldOrderByPriority)
           s4 == PutInteger(v.conversationContext)
<1>1. /\ v.queue \in OrNull(QueueDto)
      /\ v.sender \in OrNull(ClientDto)
      /\ v.shouldOrderByPriority \in BOOLEAN
      /\ v.conversationContext \in OrNull(JavaInt)
  BY DEF MessageQueryInfoDto
<1>2. v = [queue |-> v.queue, sender |-> v.sender,
           shouldOrderByPriority |-> v.shouldOrderByPriority,
           conversationContext |-> v.conversationContext]
  BY DEF MessageQueryInfoDto
<1>3. PutMessageQueryInfoDto(v) = Join(Join(Join(s1, s2), s3), s4)
  BY DEF PutMessageQueryInfoDto, Join
<1>4. /\ s1 \in ByteString
      /\ s2 \in ByteString
      /\ s3 \in ByteString
      /\ s4 \in ByteString
  <2>1. Reads(b, p, s1, q, GetQueue(b, p), v.queue)
    BY <1>1, QueueCodec
  <2>2. Reads(b, p, s2, q, GetClient(b, p), v.sender)
    BY <1>1, ClientCodec
  <2>3. Reads(b, p, s3, q, GetBoolean(b, p), v.shouldOrderByPriority)
    BY <1>1, BooleanCodec
  <2>4. Reads(b, p, s4, q, GetInteger(b, p), v.conversationContext)
    BY <1>1, IntegerCodec
  <2> QED
    BY <2>1, <2>2, <2>3, <2>4 DEF Reads
<1> HIDE DEF s1, s2, s3, s4
<1>5. PutMessageQueryInfoDto(v) \in ByteString
  BY <1>3, <1>4, JoinBytes
<1>6. ASSUME At(b, p, PutMessageQueryInfoDto(v), q)
      PROVE  GetMessageQueryInfoDto(b, p) = Got(v, q)
  <2>1. PICK m1, m2, m3 :
          /\ At(b, p, s1, m1)
          /\ At(b, m1, s2, m2)
          /\ At(b, m2, s3, m3)
          /\ At(b, m3, s4, q)
    BY <1>3, <1>4, <1>6, AtFour
  <2>2. GetQueue(b, p).value = v.queue /\ GetQueue(b, p).next = m1
    <3>1. Reads(b, p, PutQueue(v.queue), m1, GetQueue(b, p), v.queue)
      BY <1>1, QueueCodec
    <3> QED
      BY <2>1, <3>1 DEF Reads, s1, Got
  <2>3. GetClient(b, m1).value = v.sender /\ GetClient(b, m1).next = m2
    <3>1. Reads(b, m1, PutClient(v.sender), m2, GetClient(b, m1), v.sender)
      BY <1>1, ClientCodec
    <3> QED
      BY <2>1, <3>1 DEF Reads, s2, Got
  <2>4. /\ GetBoolean(b, m2).value = v.shouldOrderByPriority
        /\ GetBoolean(b, m2).next = m3
    <3>1. Reads(b, m2, PutBoolean(v.shouldOrderByPriority), m3,
                GetBoolean(b, m2), v.shouldOrderByPriority)
      BY <1>1, BooleanCodec
    <3> QED
      BY <2>1, <3>1 DEF Reads, s3, Got
  <2>5. /\ GetInteger(b, m3).value = v.conversationContext
        /\ GetInteger(b, m3).next = q
    <3>1. Reads(b, m3, PutInteger(v.conversationContext), q,
                GetInteger(b, m3), v.conversationContext)
      BY <1>1, IntegerCodec
    <3> QED
      BY <2>1, <3>1 DEF Reads, s4, Got
  <2>6. GetMessageQueryInfoDto(b, p) = Got([queue |-> v.queue, sender |-> v.sender,
                                            shouldOrderByPriority |-> v.shouldOrderByPriority,
                                            conversationContext |-> v.conversationContext], q)
    BY <2>2, <2>3, <2>4, <2>5 DEF GetMessageQueryInfoDto
  <2> QED
    BY <1>2, <2>6
<1> QED
  BY <1>5, <1>6 DEF Reads

(* a query that may be null,                                               *)
LEMMA QueryCodec ==
  ASSUME NEW b, NEW p, NEW q, NEW v, b \in ByteString, v \in OrNull(MessageQueryInfoDto)
  PROVE  Reads(b, p, PutQuery(v), q, GetQuery(b, p), v)
<1>1. PutQuery(v) = Flagged(v, PutMessageQueryInfoDto(v[1]))
  BY DEF PutQuery, PutNullable, Flagged, Join
<1>2. GetQuery(b, p) = Unflagged(b, p, GetMessageQueryInfoDto(b, p + 1))
  BY DEF GetQuery, GetNullable, Unflagged
<1>3. v # Null => v[1] \in MessageQueryInfoDto
  BY OrNullCases, SomeValue
<1>4. v # Null => Reads(b, p + 1, PutMessageQueryInfoDto(v[1]), q,
                        GetMessageQueryInfoDto(b, p + 1), v[1])
  BY <1>3, MessageQueryInfoDtoCodec
<1> QED
  BY <1>1, <1>2, <1>4, FlaggedCodec

(* and a message that may be null.                                         *)
LEMMA MessageCodec ==
  ASSUME NEW b, NEW p, NEW q, NEW v, b \in ByteString, v \in OrNull(MessageDto)
  PROVE  Reads(b, p, PutMessage(v), q, GetMessage(b, p), v)
<1>1. PutMessage(v) = Flagged(v, PutMessageDto(v[1]))
  BY DEF PutMessage, PutNullable, Flagged, Join
<1>2. GetMessage(b, p) = Unflagged(b, p, GetMessageDto(b, p + 1))
  BY DEF GetMessage, GetNullable, Unflagged
<1>3. v # Null => v[1] \in MessageDto
  BY OrNullCases, SomeValue
<1>4. v # Null => Reads(b, p + 1, PutMessageDto(v[1]), q,
                        GetMessageDto(b, p + 1), v[1])
  BY <1>3, MessageDtoCodec
<1> QED
  BY <1>1, <1>2, <1>4, FlaggedCodec

-----------------------------------------------------------------------------
(* The fields of each request and of each response.                        *)

(* A CreateQueueRequest is read as it was written.                         *)
LEMMA CreateQueueRequestCodec ==
  ASSUME NEW b, NEW p, NEW q, NEW v,
         b \in ByteString, v \in [queueName : String]
  PROVE  Reads(b, p, PutCreateQueueRequest(v), q, GetCreateQueueRequest(b, p), v)
<1>1. v.queueName \in String /\ v = [queueName |-> v.queueName]
  OBVIOUS
<1>2. Reads(b, p, PutBytes(v.queueName), q, GetBytes(b, p), v.queueName)
  BY <1>1, BytesCodec
<1> QED
  BY <1>1, <1>2 DEF Reads, PutCreateQueueRequest, GetCreateQueueRequest, Got

(* A DeleteQueueRequest is read as it was written.                         *)
LEMMA DeleteQueueRequestCodec ==
  ASSUME NEW b, NEW p, NEW q, NEW v,
         b \in ByteString, v \in [queue : OrNull(QueueDto)]
  PROVE  Reads(b, p, PutDeleteQueueRequest(v), q, GetDeleteQueueRequest(b, p), v)
<1>1. v.queue \in OrNull(QueueDto) /\ v = [queue |-> v.queue]
  OBVIOUS
<1>2. Reads(b, p, PutQueue(v.queue), q, GetQueue(b, p), v.queue)
  BY <1>1, QueueCodec
<1> QED
  BY <1>1, <1>2 DEF Reads, PutDeleteQueueRequest, GetDeleteQueueRequest, Got

(* A DequeueMessageRequest is read as it was written.                      *)
LEMMA DequeueMessageRequestCodec ==
  ASSUME NEW b, NEW p, NEW q, NEW v,
         b \in ByteString,
         v \in [messageQueryInfo : OrNull(MessageQueryInfoDto)]
  PROVE  Reads(b, p, PutDequeueMessageRequest(v), q,
               GetDequeueMessageRequest(b, p), v)
<1>1. /\ v.messageQueryInfo \in OrNull(MessageQueryInfoDto)
      /\ v = [messageQueryInfo |-> v.messageQueryInfo]
  OBVIOUS
<1>2. Reads(b, p, PutQuery(v.messageQueryInfo), q,
            GetQuery(b, p), v.messageQueryInfo)
  BY <1>1, QueryCodec
<1> QED
  BY <1>1, <1>2 DEF Reads, PutDequeueMessageRequest, GetDequeueMessageRequest, Got

(* A PeekMessageRequest is read as it was written.                         *)
LEMMA PeekMessageRequestCodec ==
  ASSUME NEW b, NEW p, NEW q, NEW v,
         b \in ByteString,
         v \in [messageQueryInfo : OrNull(MessageQueryInfoDto)]
  PROVE  Reads(b, p, PutPeekMessageRequest(v), q, GetPeekMessageRequest(b, p), v)
<1>1. /\ v.messageQueryInfo \in OrNull(MessageQueryInfoDto)
      /\ v = [messageQueryInfo |-> v.messageQueryInfo]
  OBVIOUS
<1>2. Reads(b, p, PutQuery(v.messageQueryInfo), q,
            GetQuery(b, p), v.messageQueryInfo)
  BY <1>1, QueryCodec
<1> QED
  BY <1>1, <1>2 DEF Reads, PutPeekMessageRequest, GetPeekMessageRequest, Got

(* A QueuesWithPendingMessagesRequest is read as it was written.           *)
LEMMA QueuesWithPendingMessagesRequestCodec ==
  ASSUME NEW b, NEW p, NEW q, NEW v,
         b \in ByteString, v \in [maxNumQueues : JavaInt]
  PROVE  Reads(b, p, PutQueuesWithPendingMessagesRequest(v), q,
               GetQueuesWithPendingMessagesRequest(b, p), v)
<1>1. v.maxNumQueues \in JavaInt /\ v = [maxNumQueues |-> v.maxNumQueues]
  OBVIOUS
<1>2. Reads(b, p, Int32(v.maxNumQueues), q, GetInt(b, p), v.maxNumQueues)
  BY <1>1, IntCodec
<1> QED
  BY <1>1, <1>2 DEF Reads, PutQueuesWithPendingMessagesRequest,
                    GetQueuesWithPendingMessagesRequest, Got

(* A RegistrationRequest is read as it was written.                        *)
LEMMA RegistrationRequestCodec ==
  ASSUME NEW b, NEW p, NEW q, NEW v,
         b \in ByteString, v \in [clientName : String]
  PROVE  Reads(b, p, PutRegistrationRequest(v), q, GetRegistrationRequest(b, p), v)
<1>1. v.clientName \in String /\ v = [clientName |-> v.clientName]
  OBVIOUS
<1>2. Reads(b, p, PutBytes(v.clientName), q, GetBytes(b, p), v.clientName)
  BY <1>1, BytesCodec
<1> QED
  BY <1>1, <1>2 DEF Reads, PutRegistrationRequest, GetRegistrationRequest, Got

(* A SendClientMessageRequest is read as it was written.                   *)
LEMMA SendClientMessageRequestCodec ==
  ASSUME NEW b, NEW p, NEW q, NEW v,
         b \in ByteString,
         v \in [clientId : JavaInt, prio : JavaInt,
                conversation : BOOLEAN,
                conversationContext : OrNull(JavaInt),
                content : String]
  PROVE  Reads(b, p, PutSendClientMessageRequest(v), q,
               GetSendClientMessageRequest(b, p), v)
<1> DEFINE s1 == PutLong(v.clientId)
           s2 == Int32(v.prio)
           s3 == PutBoolean(v.conversation)
           s4 == PutLongObject(v.conversationContext)
           s5 == PutBytes(v.content)
<1>1. /\ v.clientId \in JavaInt
      /\ v.prio \in JavaInt
      /\ v.conversation \in BOOLEAN
      /\ v.conversationContext \in OrNull(JavaInt)
      /\ v.content \in String
  OBVIOUS
<1>2. v = [clientId |-> v.clientId, prio |-> v.prio,
           conversation |-> v.conversation,
           conversationContext |-> v.conversationContext,
           content |-> v.content]
  OBVIOUS
<1>3. PutSendClientMessageRequest(v) = Join(Join(Join(Join(s1, s2), s3), s4), s5)
  BY DEF PutSendClientMessageRequest, Join
<1>4. /\ s1 \in ByteString
      /\ s2 \in ByteString
      /\ s3 \in ByteString
      /\ s4 \in ByteString
      /\ s5 \in ByteString
  <2>1. Reads(b, p, s1, q, GetLong(b, p), v.clientId)
    BY <1>1, LongCodec
  <2>2. Reads(b, p, s2, q, GetInt(b, p), v.prio)
    BY <1>1, IntCodec
  <2>3. Reads(b, p, s3, q, GetBoolean(b, p), v.conversation)
    BY <1>1, BooleanCodec
  <2>4. Reads(b, p, s4, q, GetLongObject(b, p), v.conversationContext)
    BY <1>1, LongObjectCodec
  <2>5. Reads(b, p, s5, q, GetBytes(b, p), v.content)
    BY <1>1, BytesCodec
  <2> QED
    BY <2>1, <2>2, <2>3, <2>4, <2>5 DEF Reads
<1> HIDE DEF s1, s2, s3, s4, s5
<1>5. PutSendClientMessageRequest(v) \in ByteString
  BY <1>3, <1>4, JoinBytes
<1>6. ASSUME At(b, p, PutSendClientMessageRequest(v), q)
      PROVE  GetSendClientMessageRequest(b, p) = Got(v, q)
  <2>1. PICK m1, m2, m3, m4 :
          /\ At(b, p, s1, m1)
          /\ At(b, m1, s2, m2)
          /\ At(b, m2, s3, m3)
          /\ At(b, m3, s4, m4)
          /\ At(b, m4, s5, q)
    BY <1>3, <1>4, <1>6, AtFive
  <2>2. GetLong(b, p).value = v.clientId /\ GetLong(b, p).next = m1
    <3>1. Reads(b, p, PutLong(v.clientId), m1, GetLong(b, p), v.clientId)
      BY <1>1, LongCodec
    <3> QED
      BY <2>1, <3>1 DEF Reads, s1, Got
  <2>3. GetInt(b, m1).value = v.prio /\ GetInt(b, m1).next = m2
    <3>1. Reads(b, m1, Int32(v.prio), m2, GetInt(b, m1), v.prio)
      BY <1>1, IntCodec
    <3> QED
      BY <2>1, <3>1 DEF Reads, s2, Got
  <2>4. GetBoolean(b, m2).value = v.conversation /\ GetBoolean(b, m2).next = m3
    <3>1. Reads(b, m2, PutBoolean(v.conversation), m3,
                GetBoolean(b, m2), v.conversation)
      BY <1>1, BooleanCodec
    <3> QED
      BY <2>1, <3>1 DEF Reads, s3, Got
  <2>5. /\ GetLongObject(b, m3).value = v.conversationContext
        /\ GetLongObject(b, m3).next = m4
    <3>1. Reads(b, m3, PutLongObject(v.conversationContext), m4,
                GetLongObject(b, m3), v.conversationContext)
      BY <1>1, LongObjectCodec
    <3> QED
      BY <2>1, <3>1 DEF Reads, s4, Got
  <2>6. GetBytes(b, m4).value = v.content /\ GetBytes(b, m4).next = q
    <3>1. Reads(b, m4, PutBytes(v.content), q, GetBytes(b, m4), v.content)
      BY <1>1, BytesCodec
    <3> QED
      BY <2>1, <3>1 DEF Reads, s5, Got
  <2>7. GetSendClientMessageRequest(b, p) = Got([clientId |-> v.clientId, prio |-> v.prio,
                                                 conversation |-> v.conversation,
                                                 conversationContext |-> v.conversationContext,
                                                 content |-> v.content], q)
    BY <2>2, <2>3, <2>4, <2>5, <2>6 DEF GetSendClientMessageRequest
  <2> QED
    BY <1>2, <2>7
<1> QED
  BY <1>5, <1>6 DEF Reads

(* A SendMessageRequest is read as it was written.                         *)
LEMMA SendMessageRequestCodec ==
  ASSUME NEW b, NEW p, NEW q, NEW v,
         b \in ByteString,
         v \in [queueIds : Array(OrNull(JavaInt)),
                content : String, prio : JavaInt]
  PROVE  Reads(b, p, PutSendMessageRequest(v), q, GetSendMessageRequest(b, p), v)
<1> DEFINE s1 == PutList(PutLongObject, v.queueIds)
           s2 == PutBytes(v.content)
           s3 == Int32(v.prio)
<1>1. /\ v.queueIds \in Array(OrNull(JavaInt))
      /\ v.content \in String
      /\ v.prio \in JavaInt
  OBVIOUS
<1>2. v = [queueIds |-> v.queueIds, content |-> v.content, prio |-> v.prio]
  OBVIOUS
<1>3. PutSendMessageRequest(v) = Join(Join(s1, s2), s3)
  BY DEF PutSendMessageRequest, Join
<1>4. s1 \in ByteString /\ s2 \in ByteString /\ s3 \in ByteString
  <2>1. Reads(b, p, s1, q, GetList(GetLongObject, b, p), v.queueIds)
    BY <1>1, LongObjectsCodec
  <2>2. Reads(b, p, s2, q, GetBytes(b, p), v.content)
    BY <1>1, BytesCodec
  <2>3. Reads(b, p, s3, q, GetInt(b, p), v.prio)
    BY <1>1, IntCodec
  <2> QED
    BY <2>1, <2>2, <2>3 DEF Reads
<1> HIDE DEF s1, s2, s3
<1>5. PutSendMessageRequest(v) \in ByteString
  BY <1>3, <1>4, JoinBytes
<1>6. ASSUME At(b, p, PutSendMessageRequest(v), q)
      PROVE  GetSendMessageRequest(b, p) = Got(v, q)
  <2>1. PICK m1, m2 :
          At(b, p, s1, m1) /\ At(b, m1, s2, m2) /\ At(b, m2, s3, q)
    BY <1>3, <1>4, <1>6, AtThree
  <2>2. /\ GetList(GetLongObject, b, p).value = v.queueIds
        /\ GetList(GetLongObject, b, p).next = m1
    <3>1. Reads(b, p, PutList(PutLongObject, v.queueIds), m1,
                GetList(GetLongObject, b, p), v.queueIds)
      BY <1>1, LongObjectsCodec
    <3> QED
      BY <2>1, <3>1 DEF Reads, s1, Got
  <2>3. GetBytes(b, m1).value = v.content /\ GetBytes(b, m1).next = m2
    <3>1. Reads(b, m1, PutBytes(v.content), m2, GetBytes(b, m1), v.content)
      BY <1>1, BytesCodec
    <3> QED
      BY <2>1, <3>1 DEF Reads, s2, Got
  <2>4. GetInt(b, m2).value = v.prio /\ GetInt(b, m2).next = q
    <3>1. Reads(b, m2, Int32(v.prio), q, GetInt(b, m2), v.prio)
      BY <1>1, IntCodec
    <3> QED
      BY <2>1, <3>1 DEF Reads, s3, Got
  <2>5. GetSendMessageRequest(b, p) =
          Got([queueIds |-> v.queueIds, content |-> v.content, prio |-> v.prio], q)
    BY <2>2, <2>3, <2>4 DEF GetSendMessageRequest
  <2> QED
    BY <1>2, <2>5
<1> QED
  BY <1>5, <1>6 DEF Reads

(* A LookupQueueRequest is read as it was written.                         *)
LEMMA LookupQueueRequestCodec ==
  ASSUME NEW b, NEW p, NEW q, NEW v,
         b \in ByteString,
         v \in [queueName : String, clientId : OrNull(JavaInt)]
  PROVE  Reads(b, p, PutLookupQueueRequest(v), q, GetLookupQueueRequest(b, p), v)
<1> DEFINE s1 == PutBytes(v.queueName)
           s2 == PutLongObject(v.clientId)
<1>1. v.queueName \in String /\ v.clientId \in OrNull(JavaInt)
  OBVIOUS
<1>2. v = [queueName |-> v.queueName, clientId |-> v.clientId]
  OBVIOUS
<1>3. PutLookupQueueRequest(v) = Join(s1, s2)
  BY DEF PutLookupQueueRequest, Join
<1>4. s1 \in ByteString /\ s2 \in ByteString
  <2>1. Reads(b, p, s1, q, GetBytes(b, p), v.queueName)
    BY <1>1, BytesCodec
  <2>2. Reads(b, p, s2, q, GetLongObject(b, p), v.clientId)
    BY <1>1, LongObjectCodec
  <2> QED
    BY <2>1, <2>2 DEF Reads
<1> HIDE DEF s1, s2
<1>5. PutLookupQueueRequest(v) \in ByteString
  BY <1>3, <1>4, JoinBytes
<1>6. ASSUME At(b, p, PutLookupQueueRequest(v), q)
      PROVE  GetLookupQueueRequest(b, p) = Got(v, q)
  <2>1. PICK m1 :
          At(b, p, s1, m1) /\ At(b, m1, s2, q)
    BY <1>3, <1>4, <1>6, AtTwo
  <2>2. GetBytes(b, p).value = v.queueName /\ GetBytes(b, p).next = m1
    <3>1. Reads(b, p, PutBytes(v.queueName), m1, GetBytes(b, p), v.queueName)
      BY <1>1, BytesCodec
    <3> QED
      BY <2>1, <3>1 DEF Reads, s1, Got
  <2>3. GetLongObject(b, m1).value = v.clientId /\ GetLongObject(b, m1).next = q
    <3>1. Reads(b, m1, PutLongObject(v.clientId), q,
                GetLongObject(b, m1), v.clientId)
      BY <1>1, LongObjectCodec
    <3> QED
      BY <2>1, <3>1 DEF Reads, s2, Got
  <2>4. GetLookupQueueRequest(b, p) =
          Got([queueName |-> v.queueName, clientId |-> v.clientId], q)
    BY <2>2, <2>3 DEF GetLookupQueueRequest
  <2> QED
    BY <1>2, <2>4
<1> QED
  BY <1>5, <1>6 DEF Reads

(* A LookupClientRequest is read as it was written.                        *)
LEMMA LookupClientRequestCodec ==
  ASSUME NEW b, NEW p, NEW q, NEW v,
         b \in ByteString, v \in [clientName : String]
  PROVE  Reads(b, p, PutLookupClientRequest(v), q, GetLookupClientRequest(b, p), v)
<1>1. v.clientName \in String /\ v = [clientName |-> v.clientName]
  OBVIOUS
<1>2. Reads(b, p, PutBytes(v.clientName), q, GetBytes(b, p), v.clientName)
  BY <1>1, BytesCodec
<1> QED
  BY <1>1, <1>2 DEF Reads, PutLookupClientRequest, GetLookupClientRequest, Got

(* A ClientResponse is read as it was written.                             *)
LEMMA ClientResponseCodec ==
  ASSUME NEW b, NEW p, NEW q, NEW v,
         b \in ByteString, v \in [client : OrNull(ClientDto)]
  PROVE  Reads(b, p, PutClientResponse(v), q, GetClientResponse(b, p), v)
<1>1. v.client \in OrNull(ClientDto) /\ v = [client |-> v.client]
  OBVIOUS
<1>2. Reads(b, p, PutClient(v.client), q, GetClient(b, p), v.client)
  BY <1>1, ClientCodec
<1> QED
  BY <1>1, <1>2 DEF Reads, PutClientResponse, GetClientResponse, Got

(* A QueueResponse is read as it was written.                              *)
LEMMA QueueResponseCodec ==
  ASSUME NEW b, NEW p, NEW q, NEW v,
         b \in ByteString, v \in [queue : OrNull(QueueDto)]
  PROVE  Reads(b, p, PutQueueResponse(v), q, GetQueueResponse(b, p), v)
<1>1. v.queue \in OrNull(QueueDto) /\ v = [queue |-> v.queue]
  OBVIOUS
<1>2. Reads(b, p, PutQueue(v.queue), q, GetQueue(b, p), v.queue)
  BY <1>1, QueueCodec
<1> QED
  BY <1>1, <1>2 DEF Reads, PutQueueResponse, GetQueueResponse, Got

(* A ExceptionResponse is read as it was written.                          *)
LEMMA ExceptionResponseCodec ==
  ASSUME NEW b, NEW p, NEW q, NEW v,
         b \in ByteString, v \in [exception : Array(Byte)]
  PROVE  Reads(b, p, PutExceptionResponse(v), q, GetExceptionResponse(b, p), v)
<1>1. v.exception \in Array(Byte) /\ v = [exception |-> v.exception]
  OBVIOUS
<1>2. Reads(b, p, PutAny(v.exception), q, GetAny(b, p), v.exception)
  BY <1>1, AnyCodec
<1> QED
  BY <1>1, <1>2 DEF Reads, PutExceptionResponse, GetExceptionResponse, Got

(* A MessageResponse is read as it was written.                            *)
LEMMA MessageResponseCodec ==
  ASSUME NEW b, NEW p, NEW q, NEW v,
         b \in ByteString, v \in [messageDto : OrNull(MessageDto)]
  PROVE  Reads(b, p, PutMessageResponse(v), q, GetMessageResponse(b, p), v)
<1>1. v.messageDto \in OrNull(MessageDto) /\ v = [messageDto |-> v.messageDto]
  OBVIOUS
<1>2. Reads(b, p, PutMessage(v.messageDto), q, GetMessage(b, p), v.messageDto)
  BY <1>1, MessageCodec
<1> QED
  BY <1>1, <1>2 DEF Reads, PutMessageResponse, GetMessageResponse, Got

(* A QueuesWithPendingMessagesResponse is read as it was written.          *)
LEMMA QueuesWithPendingMessagesResponseCodec ==
  ASSUME NEW b, NEW p, NEW q, NEW v,
         b \in ByteString,
         v \in [numMessagesInMyQueue : JavaInt,
                queues : Array(OrNull(QueueDto))]
  PROVE  Reads(b, p, PutQueuesWithPendingMessagesResponse(v), q,
               GetQueuesWithPendingMessagesResponse(b, p), v)
<1> DEFINE s1 == Int32(v.numMessagesInMyQueue)
           s2 == PutList(PutQueue, v.queues)
<1>1. /\ v.numMessagesInMyQueue \in JavaInt
      /\ v.queues \in Array(OrNull(QueueDto))
  OBVIOUS
<1>2. v = [numMessagesInMyQueue |-> v.numMessagesInMyQueue,
           queues |-> v.queues]
  OBVIOUS
<1>3. PutQueuesWithPendingMessagesResponse(v) = Join(s1, s2)
  BY DEF PutQueuesWithPendingMessagesResponse, Join
<1>4. s1 \in ByteString /\ s2 \in ByteString
  <2>1. Reads(b, p, s1, q, GetInt(b, p), v.numMessagesInMyQueue)
    BY <1>1, IntCodec
  <2>2. Reads(b, p, s2, q, GetList(GetQueue, b, p), v.queues)
    BY <1>1, QueuesCodec
  <2> QED
    BY <2>1, <2>2 DEF Reads
<1> HIDE DEF s1, s2
<1>5. PutQueuesWithPendingMessagesResponse(v) \in ByteString
  BY <1>3, <1>4, JoinBytes
<1>6. ASSUME At(b, p, PutQueuesWithPendingMessagesResponse(v), q)
      PROVE  GetQueuesWithPendingMessagesResponse(b, p) = Got(v, q)
  <2>1. PICK m1 :
          At(b, p, s1, m1) /\ At(b, m1, s2, q)
    BY <1>3, <1>4, <1>6, AtTwo
  <2>2. GetInt(b, p).value = v.numMessagesInMyQueue /\ GetInt(b, p).next = m1
    <3>1. Reads(b, p, Int32(v.numMessagesInMyQueue), m1,
                GetInt(b, p), v.numMessagesInMyQueue)
      BY <1>1, IntCodec
    <3> QED
      BY <2>1, <3>1 DEF Reads, s1, Got
  <2>3. /\ GetList(GetQueue, b, m1).value = v.queues
        /\ GetList(GetQueue, b, m1).next = q
    <3>1. Reads(b, m1, PutList(PutQueue, v.queues), q,
                GetList(GetQueue, b, m1), v.queues)
      BY <1>1, QueuesCodec
    <3> QED
      BY <2>1, <3>1 DEF Reads, s2, Got
  <2>4. GetQueuesWithPendingMessagesResponse(b, p) = Got([numMessagesInMyQueue |-> v.numMessagesInMyQueue,
                                                          queues |-> v.queues], q)
    BY <2>2, <2>3 DEF GetQueuesWithPendingMessagesResponse
  <2> QED
    BY <1>2, <2>4
<1> QED
  BY <1>5, <1>6 DEF Reads

(* A RegistrationResponse is read as it was written.                       *)
LEMMA RegistrationResponseCodec ==
  ASSUME NEW b, NEW p, NEW q, NEW v,
         b \in ByteString,
         v \in [clientDto : OrNull(ClientDto),
                isNewClient : BOOLEAN]
  PROVE  Reads(b, p, PutRegistrationResponse(v), q,
               GetRegistrationResponse(b, p), v)
<1> DEFINE s1 == PutClient(v.clientDto)
           s2 == PutBoolean(v.isNewClient)
<1>1. v.clientDto \in OrNull(ClientDto) /\ v.isNewClient \in BOOLEAN
  OBVIOUS
<1>2. v = [clientDto |-> v.clientDto, isNewClient |-> v.isNewClient]
  OBVIOUS
<1>3. PutRegistrationResponse(v) = Join(s1, s2)
  BY DEF PutRegistrationResponse, Join
<1>4. s1 \in ByteString /\ s2 \in ByteString
  <2>1. Reads(b, p, s1, q, GetClient(b, p), v.clientDto)
    BY <1>1, ClientCodec
  <2>2. Reads(b, p, s2, q, GetBoolean(b, p), v.isNewClient)
    BY <1>1, BooleanCodec
  <2> QED
    BY <2>1, <2>2 DEF Reads
<1> HIDE DEF s1, s2
<1>5. PutRegistrationResponse(v) \in ByteString
  BY <1>3, <1>4, JoinBytes
<1>6. ASSUME At(b, p, PutRegistrationResponse(v), q)
      PROVE  GetRegistrationResponse(b, p) = Got(v, q)
  <2>1. PICK m1 :
          At(b, p, s1, m1) /\ At(b, m1, s2, q)
    BY <1>3, <1>4, <1>6, AtTwo
  <2>2. GetClient(b, p).value = v.clientDto /\ GetClient(b, p).next = m1
    <3>1. Reads(b, p, PutClient(v.clientDto), m1, GetClient(b, p), v.clientDto)
      BY <1>1, ClientCodec
    <3> QED
      BY <2>1, <3>1 DEF Reads, s1, Got
  <2>3. GetBoolean(b, m1).value = v.isNewClient /\ GetBoolean(b, m1).next = q
    <3>1. Reads(b, m1, PutBoolean(v.isNewClient), q,
                GetBoolean(b, m1), v.isNewClient)
      BY <1>1, BooleanCodec
    <3> QED
      BY <2>1, <3>1 DEF Reads, s2, Got
  <2>4. GetRegistrationResponse(b, p) =
          Got([clientDto |-> v.clientDto, isNewClient |-> v.isNewClient], q)
    BY <2>2, <2>3 DEF GetRegistrationResponse
  <2> QED
    BY <1>2, <2>4
<1> QED
  BY <1>5, <1>6 DEF Reads

(* A SendClientMessageResponse is read as it was written.                  *)
LEMMA SendClientMessageResponseCodec ==
  ASSUME NEW b, NEW p, NEW q, NEW v,
         b \in ByteString, v \in [conversationContext : OrNull(JavaInt)]
  PROVE  Reads(b, p, PutSendClientMessageResponse(v), q,
               GetSendClientMessageResponse(b, p), v)
<1>1. /\ v.conversationContext \in OrNull(JavaInt)
      /\ v = [conversationContext |-> v.conversationContext]
  OBVIOUS
<1>2. Reads(b, p, PutLongObject(v.conversationContext), q,
            GetLongObject(b, p), v.conversationContext)
  BY <1>1, LongObjectCodec
<1> QED
  BY <1>1, <1>2 DEF Reads, PutSendClientMessageResponse,
                    GetSendClientMessageResponse, Got

-----------------------------------------------------------------------------
(* Objects.                                                                *)

(* A response without fields takes no byte.                                *)
LEMMA NothingCodec ==
  ASSUME NEW b, NEW p, NEW q
  PROVE  Reads(b, p, <<>>, q, GetNothing(b, p), <<>>)
<1>1. <<>> \in ByteString /\ Len(<<>>) = 0
  BY DEF ByteString
<1>2. At(b, p, <<>>, q) => q = p
  BY <1>1 DEF At
<1> QED
  BY <1>1, <1>2 DEF Reads, GetNothing

(* The bounds of int, as numbers.                                          *)
LEMMA InJavaInt ==
  ASSUME NEW i, i \in Int, -2147483648 <= i, i <= 2147483647
  PROVE  i \in JavaInt
<1>1. MaxInt \in Int
  BY SMT DEF MaxInt
<1>2. -MaxInt - 1 <= i /\ i <= MaxInt
  BY SMT DEF MaxInt
<1> QED
  BY <1>1, <1>2 DEF JavaInt

(* The class decides how its fields are put and read.                      *)
LEMMA RequestCodec ==
  ASSUME NEW b, NEW p, NEW q, NEW o, b \in ByteString, o \in RequestObject
  PROVE  /\ o.class \in DOMAIN RequestTypes /\ o = Object(o.class, o.fields)
         /\ Reads(b, p, PutRequest(o.class, o.fields), q,
                  GetRequest(o.class, b, p), o.fields)
<1> DEFINE class == o.class
           f     == o.fields
           Good  == /\ class \in DOMAIN RequestTypes /\ o = Object(class, f)
                    /\ Reads(b, p, PutRequest(class, f), q,
                             GetRequest(class, b, p), f)
<1>1. CASE o \in Objects("CreateQueueRequest", [queueName : String])
  <2>1. /\ class = "CreateQueueRequest" /\ o = Object(class, f)
        /\ f \in [queueName : String]
    BY <1>1 DEF Objects, Object
  <2>2. Reads(b, p, PutCreateQueueRequest(f), q, GetCreateQueueRequest(b, p), f)
    BY <2>1, CreateQueueRequestCodec
  <2>3. /\ PutRequest(class, f) = PutCreateQueueRequest(f)
        /\ GetRequest(class, b, p) = GetCreateQueueRequest(b, p)
    BY <2>1 DEF PutRequest, GetRequest
  <2>4. class \in DOMAIN RequestTypes
    BY <2>1 DEF RequestTypes
  <2> QED
    BY <2>1, <2>2, <2>3, <2>4
<1>2. CASE o \in Objects("DeleteQueueRequest", [queue : OrNull(QueueDto)])
  <2>1. /\ class = "DeleteQueueRequest" /\ o = Object(class, f)
        /\ f \in [queue : OrNull(QueueDto)]
    BY <1>2 DEF Objects, Object
  <2>2. Reads(b, p, PutDeleteQueueRequest(f), q, GetDeleteQueueRequest(b, p), f)
    BY <2>1, DeleteQueueRequestCodec
  <2>3. /\ PutRequest(class, f) = PutDeleteQueueRequest(f)
        /\ GetRequest(class, b, p) = GetDeleteQueueRequest(b, p)
    BY <2>1 DEF PutRequest, GetRequest
  <2>4. class \in DOMAIN RequestTypes
    BY <2>1 DEF RequestTypes
  <2> QED
    BY <2>1, <2>2, <2>3, <2>4
<1>3. CASE o \in Objects("DequeueMessageRequest",
                   [messageQueryInfo : OrNull(MessageQueryInfoDto)])
  <2>1. /\ class = "DequeueMessageRequest" /\ o = Object(class, f)
        /\ f \in [messageQueryInfo : OrNull(MessageQueryInfoDto)]
    BY <1>3 DEF Objects, Object
  <2>2. Reads(b, p, PutDequeueMessageRequest(f), q,
              GetDequeueMessageRequest(b, p), f)
    BY <2>1, DequeueMessageRequestCodec
  <2>3. /\ PutRequest(class, f) = PutDequeueMessageRequest(f)
        /\ GetRequest(class, b, p) = GetDequeueMessageRequest(b, p)
    BY <2>1 DEF PutRequest, GetRequest
  <2>4. class \in DOMAIN RequestTypes
    BY <2>1 DEF RequestTypes
  <2> QED
    BY <2>1, <2>2, <2>3, <2>4
<1>4. CASE o \in Objects("PeekMessageRequest",
                   [messageQueryInfo : OrNull(MessageQueryInfoDto)])
  <2>1. /\ class = "PeekMessageRequest" /\ o = Object(class, f)
        /\ f \in [messageQueryInfo : OrNull(MessageQueryInfoDto)]
    BY <1>4 DEF Objects, Object
  <2>2. Reads(b, p, PutPeekMessageRequest(f), q, GetPeekMessageRequest(b, p), f)
    BY <2>1, PeekMessageRequestCodec
  <2>3. /\ PutRequest(class, f) = PutPeekMessageRequest(f)
        /\ GetRequest(class, b, p) = GetPeekMessageRequest(b, p)
    BY <2>1 DEF PutRequest, GetRequest
  <2>4. class \in DOMAIN RequestTypes
    BY <2>1 DEF RequestTypes
  <2> QED
    BY <2>1, <2>2, <2>3, <2>4
<1>5. CASE o \in Objects("QueuesWithPendingMessagesRequest",
                   [maxNumQueues : JavaInt])
  <2>1. /\ class = "QueuesWithPendingMessagesRequest" /\ o = Object(class, f)
        /\ f \in [maxNumQueues : JavaInt]
    BY <1>5 DEF Objects, Object
  <2>2. Reads(b, p, PutQueuesWithPendingMessagesRequest(f), q,
              GetQueuesWithPendingMessagesRequest(b, p), f)
    BY <2>1, QueuesWithPendingMessagesRequestCodec
  <2>3. /\ PutRequest(class, f) = PutQueuesWithPendingMessagesRequest(f)
        /\ GetRequest(class, b, p) = GetQueuesWithPendingMessagesRequest(b, p)
    BY <2>1 DEF PutRequest, GetRequest
  <2>4. class \in DOMAIN RequestTypes
    BY <2>1 DEF RequestTypes
  <2> QED
    BY <2>1, <2>2, <2>3, <2>4
<1>6. CASE o \in Objects("RegistrationRequest", [clientName : String])
  <2>1. /\ class = "RegistrationRequest" /\ o = Object(class, f)
        /\ f \in [clientName : String]
    BY <1>6 DEF Objects, Object
  <2>2. Reads(b, p, PutRegistrationRequest(f), q, GetRegistrationRequest(b, p), f)
    BY <2>1, RegistrationRequestCodec
  <2>3. /\ PutRequest(class, f) = PutRegistrationRequest(f)
        /\ GetRequest(class, b, p) = GetRegistrationRequest(b, p)
    BY <2>1 DEF PutRequest, GetRequest
  <2>4. class \in DOMAIN RequestTypes
    BY <2>1 DEF RequestTypes
  <2> QED
    BY <2>1, <2>2, <2>3, <2>4
<1>7. CASE o \in Objects("SendClientMessageRequest",
                   [clientId : JavaInt, prio : JavaInt, conversation : BOOLEAN,
                    conversationContext : OrNull(JavaInt), content : String])
  <2>1. /\ class = "SendClientMessageRequest" /\ o = Object(class, f)
        /\ f \in [clientId : JavaInt, prio : JavaInt, conversation : BOOLEAN,
             conversationContext : OrNull(JavaInt), content : String]
    BY <1>7 DEF Objects, Object
  <2>2. Reads(b, p, PutSendClientMessageRequest(f), q,
              GetSendClientMessageRequest(b, p), f)
    BY <2>1, SendClientMessageRequestCodec
  <2>3. /\ PutRequest(class, f) = PutSendClientMessageRequest(f)
        /\ GetRequest(class, b, p) = GetSendClientMessageRequest(b, p)
    BY <2>1 DEF PutRequest, GetRequest
  <2>4. class \in DOMAIN RequestTypes
    BY <2>1 DEF RequestTypes
  <2> QED
    BY <2>1, <2>2, <2>3, <2>4
<1>8. CASE o \in Objects("SendMessageRequest",
                   [queueIds : Array(OrNull(JavaInt)), content : String,
                    prio : JavaInt])
  <2>1. /\ class = "SendMessageRequest" /\ o = Object(class, f)
        /\ f \in [queueIds : Array(OrNull(JavaInt)), content : String,
             prio : JavaInt]
    BY <1>8 DEF Objects, Object
  <2>2. Reads(b, p, PutSendMessageRequest(f), q, GetSendMessageRequest(b, p), f)
    BY <2>1, SendMessageRequestCodec
  <2>3. /\ PutRequest(class, f) = PutSendMessageRequest(f)
        /\ GetRequest(class, b, p) = GetSendMessageRequest(b, p)
    BY <2>1 DEF PutRequest, GetRequest
  <2>4. class \in DOMAIN RequestTypes
    BY <2>1 DEF RequestTypes
  <2> QED
    BY <2>1, <2>2, <2>3, <2>4
<1>9. CASE o \in Objects("LookupQueueRequest",
                   [queueName : String, clientId : OrNull(JavaInt)])
  <2>1. /\ class = "LookupQueueRequest" /\ o = Object(class, f)
        /\ f \in [queueName : String, clientId : OrNull(JavaInt)]
    BY <1>9 DEF Objects, Object
  <2>2. Reads(b, p, PutLookupQueueRequest(f), q, GetLookupQueueRequest(b, p), f)
    BY <2>1, LookupQueueRequestCodec
  <2>3. /\ PutRequest(class, f) = PutLookupQueueRequest(f)
        /\ GetRequest(class, b, p) = GetLookupQueueRequest(b, p)
    BY <2>1 DEF PutRequest, GetRequest
  <2>4. class \in DOMAIN RequestTypes
    BY <2>1 DEF RequestTypes
  <2> QED
    BY <2>1, <2>2, <2>3, <2>4
<1>10. CASE o \in Objects("LookupClientRequest", [clientName : String])
  <2>1. /\ class = "LookupClientRequest" /\ o = Object(class, f)
        /\ f \in [clientName : String]
    BY <1>10 DEF Objects, Object
  <2>2. Reads(b, p, PutLookupClientRequest(f), q, GetLookupClientRequest(b, p), f)
    BY <2>1, LookupClientRequestCodec
  <2>3. /\ PutRequest(class, f) = PutLookupClientRequest(f)
        /\ GetRequest(class, b, p) = GetLookupClientRequest(b, p)
    BY <2>1 DEF PutRequest, GetRequest
  <2>4. class \in DOMAIN RequestTypes
    BY <2>1 DEF RequestTypes
  <2> QED
    BY <2>1, <2>2, <2>3, <2>4
<1> QED
  BY <1>1, <1>2, <1>3, <1>4, <1>5, <1>6, <1>7, <1>8, <1>9, <1>10 DEF RequestObject

(* No two classes have the same type id, and each is an int.               *)
LEMMA RequestTypeIds ==
  ASSUME NEW c, c \in DOMAIN RequestTypes
  PROVE  RequestTypes[c] \in JavaInt /\ ClassOf(RequestTypes, RequestTypes[c]) = c
<1>1. \A n \in DOMAIN RequestTypes :
        /\ RequestTypes[n] \in Int
        /\ -2147483648 <= RequestTypes[n] /\ RequestTypes[n] <= 2147483647
  BY SMT DEF RequestTypes
<1>2. \A n, m \in DOMAIN RequestTypes : RequestTypes[n] = RequestTypes[m] => n = m
  BY SMT DEF RequestTypes
<1>3. RequestTypes[c] \in JavaInt
  BY <1>1, InJavaInt
<1>4. ClassOf(RequestTypes, RequestTypes[c]) = c
  BY <1>2 DEF ClassOf
<1> QED
  BY <1>3, <1>4

(* serializeRequest and deserializeRequest: the class is found by its id,  *)
(* and no byte is left over.                                               *)
LEMMA SerializedRequest ==
  ASSUME NEW b, NEW p, NEW q, NEW o, b \in ByteString, o \in RequestObject
  PROVE  Reads(b, p, SerializeRequest(o), q, DeserializeRequest(b, p), o)
<1> DEFINE class == o.class
           id    == RequestTypes[class]
           type  == Int32(id)
           body  == PutRequest(class, o.fields)
<1>1. /\ class \in DOMAIN RequestTypes /\ o = Object(class, o.fields)
      /\ body \in ByteString
  BY RequestCodec DEF Reads
<1>2. id \in JavaInt /\ ClassOf(RequestTypes, id) = class
  BY <1>1, RequestTypeIds
<1>3. SerializeRequest(o) = Join(type, body)
  BY DEF SerializeRequest, Join
<1>4. type \in ByteString /\ Len(type) = 4
  BY <1>2, Int32Bytes
<1> HIDE DEF id, type, body
<1>5. ASSUME At(b, p, Join(type, body), q)
      PROVE  DeserializeRequest(b, p) = Got(o, q)
  <2>1. PICK m : At(b, p, type, m) /\ At(b, m, body, q)
    BY <1>1, <1>4, <1>5, AtTwo
  <2>2. IntAt(b, p) = id
    BY <1>2, <2>1, IntRead DEF type
  <2>3. m = p + 4
    BY <1>4, <2>1 DEF At
  <2>4. Reads(b, m, body, q, GetRequest(class, b, m), o.fields)
    BY RequestCodec DEF body
  <2>5. GetRequest(class, b, p + 4) = Got(o.fields, q)
    BY <2>1, <2>3, <2>4 DEF Reads
  <2>6. DeserializeRequest(b, p) = Got(Object(class, o.fields), q)
    BY <1>2, <2>2, <2>5 DEF DeserializeRequest, Got
  <2> QED
    BY <1>1, <2>6
<1> QED
  BY <1>1, <1>3, <1>4, <1>5, JoinBytes DEF Reads

(* The class decides how its fields are put and read.                      *)
LEMMA ResponseCodec ==
  ASSUME NEW b, NEW p, NEW q, NEW o, b \in ByteString, o \in ResponseObject
  PROVE  /\ o.class \in DOMAIN ResponseTypes /\ o = Object(o.class, o.fields)
         /\ Reads(b, p, PutResponse(o.class, o.fields), q,
                  GetResponse(o.class, b, p), o.fields)
<1> DEFINE class == o.class
           f     == o.fields
           Good  == /\ class \in DOMAIN ResponseTypes /\ o = Object(class, f)
                    /\ Reads(b, p, PutResponse(class, f), q,
                             GetResponse(class, b, p), f)
<1>1. CASE o \in Objects("ClientResponse", [client : OrNull(ClientDto)])
  <2>1. /\ class = "ClientResponse" /\ o = Object(class, f)
        /\ f \in [client : OrNull(ClientDto)]
    BY <1>1 DEF Objects, Object
  <2>2. Reads(b, p, PutClientResponse(f), q, GetClientResponse(b, p), f)
    BY <2>1, ClientResponseCodec
  <2>3. /\ PutResponse(class, f) = PutClientResponse(f)
        /\ GetResponse(class, b, p) = GetClientResponse(b, p)
    BY <2>1 DEF PutResponse, GetResponse
  <2>4. class \in DOMAIN ResponseTypes
    BY <2>1 DEF ResponseTypes
  <2> QED
    BY <2>1, <2>2, <2>3, <2>4
<1>2. CASE o \in Objects("QueueResponse", [queue : OrNull(QueueDto)])
  <2>1. /\ class = "QueueResponse" /\ o = Object(class, f)
        /\ f \in [queue : OrNull(QueueDto)]
    BY <1>2 DEF Objects, Object
  <2>2. Reads(b, p, PutQueueResponse(f), q, GetQueueResponse(b, p), f)
    BY <2>1, QueueResponseCodec
  <2>3. /\ PutResponse(class, f) = PutQueueResponse(f)
        /\ GetResponse(class, b, p) = GetQueueResponse(b, p)
    BY <2>1 DEF PutResponse, GetResponse
  <2>4. class \in DOMAIN ResponseTypes
    BY <2>1 DEF ResponseTypes
  <2> QED
    BY <2>1, <2>2, <2>3, <2>4
<1>3. CASE o \in Objects("DeleteQueueResponse", {<<>>})
  <2>1. /\ class = "DeleteQueueResponse" /\ o = Object(class, f)
        /\ f = <<>>
    BY <1>3 DEF Objects, Object
  <2>2. Reads(b, p, <<>>, q, GetNothing(b, p), f)
    BY <2>1, NothingCodec
  <2>3. PutResponse(class, f) = <<>> /\ GetResponse(class, b, p) = GetNothing(b, p)
    BY <2>1 DEF PutResponse, GetResponse
  <2>4. class \in DOMAIN ResponseTypes
    BY <2>1 DEF ResponseTypes
  <2> QED
    BY <2>1, <2>2, <2>3, <2>4
<1>4. CASE o \in Objects("ExceptionResponse", [exception : Array(Byte)])
  <2>1. /\ class = "ExceptionResponse" /\ o = Object(class, f)
        /\ f \in [exception : Array(Byte)]
    BY <1>4 DEF Objects, Object
  <2>2. Reads(b, p, PutExceptionResponse(f), q, GetExceptionResponse(b, p), f)
    BY <2>1, ExceptionResponseCodec
  <2>3. /\ PutResponse(class, f) = PutExceptionResponse(f)
        /\ GetResponse(class, b, p) = GetExceptionResponse(b, p)
    BY <2>1 DEF PutResponse, GetResponse
  <2>4. class \in DOMAIN ResponseTypes
    BY <2>1 DEF ResponseTypes
  <2> QED
    BY <2>1, <2>2, <2>3, <2>4
<1>5. CASE o \in Objects("MessageResponse", [messageDto : OrNull(MessageDto)])
  <2>1. /\ class = "MessageResponse" /\ o = Object(class, f)
        /\ f \in [messageDto : OrNull(MessageDto)]
    BY <1>5 DEF Objects, Object
  <2>2. Reads(b, p, PutMessageResponse(f), q, GetMessageResponse(b, p), f)
    BY <2>1, MessageResponseCodec
  <2>3. /\ PutResponse(class, f) = PutMessageResponse(f)
        /\ GetResponse(class, b, p) = GetMessageResponse(b, p)
    BY <2>1 DEF PutResponse, GetResponse
  <2>4. class \in DOMAIN ResponseTypes
    BY <2>1 DEF ResponseTypes
  <2> QED
    BY <2>1, <2>2, <2>3, <2>4
<1>6. CASE o \in Objects("QueuesWithPendingMessagesResponse",
                   [numMessagesInMyQueue : JavaInt,
                    queues : Array(OrNull(QueueDto))])
  <2>1. /\ class = "QueuesWithPendingMessagesResponse" /\ o = Object(class, f)
        /\ f \in [numMessagesInMyQueue : JavaInt,
             queues : Array(OrNull(QueueDto))]
    BY <1>6 DEF Objects, Object
  <2>2. Reads(b, p, PutQueuesWithPendingMessagesResponse(f), q,
              GetQueuesWithPendingMessagesResponse(b, p), f)
    BY <2>1, QueuesWithPendingMessagesResponseCodec
  <2>3. /\ PutResponse(class, f) = PutQueuesWithPendingMessagesResponse(f)
        /\ GetResponse(class, b, p) = GetQueuesWithPendingMessagesResponse(b, p)
    BY <2>1 DEF PutResponse, GetResponse
  <2>4. class \in DOMAIN ResponseTypes
    BY <2>1 DEF ResponseTypes
  <2> QED
    BY <2>1, <2>2, <2>3, <2>4
<1>7. CASE o \in Objects("RegistrationResponse",
                   [clientDto : OrNull(ClientDto), isNewClient : BOOLEAN])
  <2>1. /\ class = "RegistrationResponse" /\ o = Object(class, f)
        /\ f \in [clientDto : OrNull(ClientDto), isNewClient : BOOLEAN]
    BY <1>7 DEF Objects, Object
  <2>2. Reads(b, p, PutRegistrationResponse(f), q, GetRegistrationResponse(b, p), f)
    BY <2>1, RegistrationResponseCodec
  <2>3. /\ PutResponse(class, f) = PutRegistrationResponse(f)
        /\ GetResponse(class, b, p) = GetRegistrationResponse(b, p)
    BY <2>1 DEF PutResponse, GetResponse
  <2>4. class \in DOMAIN ResponseTypes
    BY <2>1 DEF ResponseTypes
  <2> QED
    BY <2>1, <2>2, <2>3, <2>4
<1>8. CASE o \in Objects("SendClientMessageResponse",
                   [conversationContext : OrNull(JavaInt)])
  <2>1. /\ class = "SendClientMessageResponse" /\ o = Object(class, f)
        /\ f \in [conversationContext : OrNull(JavaInt)]
    BY <1>8 DEF Objects, Object
  <2>2. Reads(b, p, PutSendClientMessageResponse(f), q,
              GetSendClientMessageResponse(b, p), f)
    BY <2>1, SendClientMessageResponseCodec
  <2>3. /\ PutResponse(class, f) = PutSendClientMessageResponse(f)
        /\ GetResponse(class, b, p) = GetSendClientMessageResponse(b, p)
    BY <2>1 DEF PutResponse, GetResponse
  <2>4. class \in DOMAIN ResponseTypes
    BY <2>1 DEF ResponseTypes
  <2> QED
    BY <2>1, <2>2, <2>3, <2>4
<1>9. CASE o \in Objects("SendMessageResponse", {<<>>})
  <2>1. /\ class = "SendMessageResponse" /\ o = Object(class, f)
        /\ f = <<>>
    BY <1>9 DEF Objects, Object
  <2>2. Reads(b, p, <<>>, q, GetNothing(b, p), f)
    BY <2>1, NothingCodec
  <2>3. PutResponse(class, f) = <<>> /\ GetResponse(class, b, p) = GetNothing(b, p)
    BY <2>1 DEF PutResponse, GetResponse
  <2>4. class \in DOMAIN ResponseTypes
    BY <2>1 DEF ResponseTypes
  <2> QED
    BY <2>1, <2>2, <2>3, <2>4
<1> QED
  BY <1>1, <1>2, <1>3, <1>4, <1>5, <1>6, <1>7, <1>8, <1>9 DEF ResponseObject

(* No two classes have the same type id, and each is an int.               *)
LEMMA ResponseTypeIds ==
  ASSUME NEW c, c \in DOMAIN ResponseTypes
  PROVE  ResponseTypes[c] \in JavaInt /\ ClassOf(ResponseTypes, ResponseTypes[c]) = c
<1>1. \A n \in DOMAIN ResponseTypes :
        /\ ResponseTypes[n] \in Int
        /\ -2147483648 <= ResponseTypes[n] /\ ResponseTypes[n] <= 2147483647
  BY SMT DEF ResponseTypes
<1>2. \A n, m \in DOMAIN ResponseTypes : ResponseTypes[n] = ResponseTypes[m] => n = m
  BY SMT DEF ResponseTypes
<1>3. ResponseTypes[c] \in JavaInt
  BY <1>1, InJavaInt
<1>4. ClassOf(ResponseTypes, ResponseTypes[c]) = c
  BY <1>2 DEF ClassOf
<1> QED
  BY <1>3, <1>4

(* serializeResponse and deserializeResponse.                              *)
LEMMA SerializedResponse ==
  ASSUME NEW b, NEW p, NEW q, NEW o, b \in ByteString, o \in ResponseObject
  PROVE  Reads(b, p, SerializeResponse(o), q, DeserializeResponse(b, p), o)
<1> DEFINE class == o.class
           id    == ResponseTypes[class]
           type  == Int32(id)
           body  == PutResponse(class, o.fields)
<1>1. /\ class \in DOMAIN ResponseTypes /\ o = Object(class, o.fields)
      /\ body \in ByteString
  BY ResponseCodec DEF Reads
<1>2. id \in JavaInt /\ ClassOf(ResponseTypes, id) = class
  BY <1>1, ResponseTypeIds
<1>3. SerializeResponse(o) = Join(type, body)
  BY DEF SerializeResponse, Join
<1>4. type \in ByteString /\ Len(type) = 4
  BY <1>2, Int32Bytes
<1> HIDE DEF id, type, body
<1>5. ASSUME At(b, p, Join(type, body), q)
      PROVE  DeserializeResponse(b, p) = Got(o, q)
  <2>1. PICK m : At(b, p, type, m) /\ At(b, m, body, q)
    BY <1>1, <1>4, <1>5, AtTwo
  <2>2. IntAt(b, p) = id
    BY <1>2, <2>1, IntRead DEF type
  <2>3. m = p + 4
    BY <1>4, <2>1 DEF At
  <2>4. Reads(b, m, body, q, GetResponse(class, b, m), o.fields)
    BY ResponseCodec DEF body
  <2>5. GetResponse(class, b, p + 4) = Got(o.fields, q)
    BY <2>1, <2>3, <2>4 DEF Reads
  <2>6. DeserializeResponse(b, p) = Got(Object(class, o.fields), q)
    BY <1>2, <2>2, <2>5 DEF DeserializeResponse, Got
  <2> QED
    BY <1>1, <2>6
<1> QED
  BY <1>1, <1>3, <1>4, <1>5, JoinBytes DEF Reads

-----------------------------------------------------------------------------
(* Frames: a length, and as many bytes.                                    *)

Frame(r) == WithHeader(SerializeRequest(r))
Reply(r) == WithHeader(SerializeResponse(r))

(* The header has four bytes.                                              *)
LEMMA LengthBytes ==
  ASSUME NEW i, i \in Nat
  PROVE  Int32(i) \in ByteString /\ Len(Int32(i)) = 4
<1> DEFINE u == i \div 256
           v == u \div 256
           w == v \div 256
<1>1. i \in Int /\ u \in Int /\ i % 256 \in Byte
  BY Digits DEF Byte
<1> HIDE DEF u
<1>2. v \in Int /\ u % 256 \in Byte
  BY <1>1, Digits DEF Byte
<1> HIDE DEF v
<1>3. w \in Int /\ v % 256 \in Byte
  BY <1>2, Digits DEF Byte
<1> HIDE DEF w
<1>4. w % 256 \in Byte
  BY <1>3, Digits DEF Byte
<1>5. Int32(i) = <<w % 256, v % 256, u % 256, i % 256>>
  BY DEF Int32, u, v, w
<1> QED
  BY <1>1, <1>2, <1>3, <1>4, <1>5 DEF ByteString

ByteAt(s, i) == s[i]

(* The first bytes are those of the first part.                            *)
LEMMA JoinHead ==
  ASSUME NEW s, NEW t, NEW i, s \in ByteString, t \in ByteString, i \in 1 .. Len(s)
  PROVE  ByteAt(Join(s, t), i) = ByteAt(s, i)
<1>1. /\ Len(s) \in Nat /\ Len(t) \in Nat
      /\ \A k \in 1 .. Len(s) + Len(t) :
           (s \o t)[k] = IF k <= Len(s) THEN s[k] ELSE t[k - Len(s)]
  BY ConcatProperties, LenProperties DEF ByteString
<1>2. i \in 1 .. Len(s) + Len(t) /\ i <= Len(s)
  BY <1>1
<1> QED
  BY <1>1, <1>2 DEF Join, ByteAt

(* A frame is its header and its payload.                                  *)
LEMMA FrameBytes ==
  ASSUME NEW s, s \in ByteString
  PROVE  /\ WithHeader(s) = Join(Int32(Len(s)), s)
         /\ WithHeader(s) \in ByteString /\ Len(WithHeader(s)) = 4 + Len(s)
         /\ Len(s) \in Nat
<1> DEFINE n == Int32(Len(s))
<1>1. WithHeader(s) = n \o s
  BY DEF WithHeader
<1>2. Len(s) \in Nat
  BY LenProperties DEF ByteString
<1>3. n \in ByteString /\ Len(n) = 4
  BY <1>2, LengthBytes
<1> HIDE DEF n
<1>4. n \o s \in ByteString /\ Len(n \o s) = 4 + Len(s)
  BY <1>3, ConcatBytes
<1> QED
  BY <1>1, <1>2, <1>4 DEF Join, n

(* The first four bytes tell how many follow, however many are there.      *)
LEMMA FrameHeader ==
  ASSUME NEW s, NEW b, NEW t, s \in ByteString, b \in ByteString, t \in ByteString,
         Len(s) \in JavaInt, Join(b, t) = WithHeader(s), Len(b) >= 4
  PROVE  IntAt(b, 1) = Len(s)
<1> DEFINE n == Int32(Len(s))
<1>1. /\ n \in ByteString /\ Len(n) = 4
      /\ Len(s) \in Nat /\ Len(b) \in Nat /\ Len(t) \in Nat
  BY Int32Bytes, LenProperties DEF ByteString
<1>2. Join(b, t) = Join(n, s)
  BY DEF WithHeader, Join
<1> HIDE DEF n
<1>3. ASSUME NEW i \in 1 .. 4
      PROVE  ByteAt(Join(b, t), i) = ByteAt(b, i)
  <2>1. i \in 1 .. Len(b)
    BY <1>1
  <2> QED
    BY <2>1, JoinHead
<1>4. ASSUME NEW i \in 1 .. 4
      PROVE  ByteAt(Join(n, s), i) = ByteAt(n, i)
  <2>1. i \in 1 .. Len(n)
    BY <1>1
  <2> QED
    BY <1>1, <2>1, JoinHead
<1>5. \A i \in 1 .. 4 : b[1 + i - 1] = n[i]
  <2> SUFFICES ASSUME NEW i \in 1 .. 4
               PROVE  b[1 + i - 1] = n[i]
    OBVIOUS
  <2>1. 1 + i - 1 = i
    OBVIOUS
  <2>2. ByteAt(b, i) = ByteAt(n, i)
    BY <1>2, <1>3, <1>4
  <2> QED
    BY <2>1, <2>2 DEF ByteAt
<1>6. At(b, 1, n, 5)
  BY <1>1, <1>5 DEF At
<1> QED
  BY <1>6, IntRead DEF n

(* In a whole frame, the bytes that follow are from position 5 to the end. *)
LEMMA FrameBody ==
  ASSUME NEW s, NEW b, s \in ByteString, b = WithHeader(s)
  PROVE  At(b, 5, s, Len(b) + 1)
<1> DEFINE n == Int32(Len(s))
<1>1. b = Join(n, s) /\ b \in ByteString /\ Len(b) \in Nat
  BY FrameBytes, LenProperties DEF ByteString
<1>2. n \in ByteString /\ Len(n) = 4
  BY FrameBytes, LengthBytes
<1> HIDE DEF n
<1>3. At(b, 1, b, Len(b) + 1)
  BY <1>1 DEF At
<1>4. PICK m : At(b, 1, n, m) /\ At(b, m, s, Len(b) + 1)
  BY <1>1, <1>2, <1>3, AtTwo
<1>5. m = 5
  BY <1>2, <1>4 DEF At
<1> QED
  BY <1>4, <1>5

-----------------------------------------------------------------------------
(* Reading a piece of the stream.                                          *)

(* What is read and what is left, of what TCP has.                         *)
LEMMA SplitBytes ==
  ASSUME NEW t, NEW n, t \in ByteString, n \in 1 .. Len(t)
  PROVE  /\ SubSeq(t, 1, n) \in ByteString /\ Len(SubSeq(t, 1, n)) = n
         /\ SubSeq(t, n + 1, Len(t)) \in ByteString
         /\ Len(SubSeq(t, n + 1, Len(t))) = Len(t) - n
<1>1. Len(t) \in Nat /\ n \in Nat /\ n <= Len(t) /\ n >= 1
  BY LenProperties DEF ByteString
<1> QED
  BY <1>1 DEF ByteString

(* What is read behind the buffer, and then what is left, is what was      *)
(* there.                                                                  *)
LEMMA ConcatSplit ==
  ASSUME NEW b, NEW t, NEW n, b \in ByteString, t \in ByteString, n \in 1 .. Len(t)
  PROVE  (b \o SubSeq(t, 1, n)) \o SubSeq(t, n + 1, Len(t)) = b \o t
<1> DEFINE x == SubSeq(t, 1, n)
           y == SubSeq(t, n + 1, Len(t))
<1>1. Len(b) \in Nat /\ Len(t) \in Nat /\ n \in Nat /\ n <= Len(t) /\ n >= 1
  BY LenProperties DEF ByteString
<1>2. x \in ByteString /\ Len(x) = n /\ \A i \in 1 .. n : x[i] = t[i]
  BY <1>1 DEF ByteString
<1>3. /\ y \in ByteString /\ Len(y) = Len(t) - n
      /\ \A i \in 1 .. Len(t) - n : y[i] = t[n + i]
  BY <1>1 DEF ByteString
<1> HIDE DEF x, y
<1> DEFINE l == (b \o x) \o y
           r == b \o t
<1>4. /\ b \o x \in Seq(Byte) /\ Len(b \o x) = Len(b) + n
      /\ \A i \in 1 .. Len(b) + n :
           (b \o x)[i] = IF i <= Len(b) THEN b[i] ELSE x[i - Len(b)]
  BY <1>1, <1>2, ConcatProperties DEF ByteString
<1>5. /\ l \in Seq(Byte) /\ Len(l) = Len(b) + Len(t)
      /\ \A i \in 1 .. Len(b) + Len(t) :
           l[i] = IF i <= Len(b) + n THEN (b \o x)[i] ELSE y[i - (Len(b) + n)]
  <2> DEFINE c == b \o x
  <2>1. c \in Seq(Byte) /\ Len(c) = Len(b) + n
    BY <1>4
  <2> HIDE DEF c
  <2>2. /\ c \o y \in Seq(Byte) /\ Len(c \o y) = Len(c) + Len(y)
        /\ \A i \in 1 .. Len(c) + Len(y) :
             (c \o y)[i] = IF i <= Len(c) THEN c[i] ELSE y[i - Len(c)]
    BY <1>3, <2>1, ConcatProperties DEF ByteString
  <2>3. Len(c) + Len(y) = Len(b) + Len(t)
    BY <1>1, <1>3, <2>1
  <2> QED
    BY <2>1, <2>2, <2>3 DEF c
<1>6. /\ r \in Seq(Byte) /\ Len(r) = Len(b) + Len(t)
      /\ \A i \in 1 .. Len(b) + Len(t) :
           r[i] = IF i <= Len(b) THEN b[i] ELSE t[i - Len(b)]
  BY <1>1, ConcatProperties DEF ByteString
<1> HIDE DEF l, r
<1>7. ASSUME NEW i \in 1 .. Len(b) + Len(t)
      PROVE  l[i] = r[i]
  <2>1. CASE i <= Len(b)
    <3>1. i \in 1 .. Len(b) + n /\ i <= Len(b) + n
      BY <1>1, <2>1
    <3> QED
      BY <1>4, <1>5, <1>6, <2>1, <3>1
  <2>2. CASE Len(b) < i /\ i <= Len(b) + n
    <3>1. i \in 1 .. Len(b) + n /\ ~(i <= Len(b)) /\ i - Len(b) \in 1 .. n
      BY <1>1, <2>2
    <3> QED
      BY <1>2, <1>4, <1>5, <1>6, <2>2, <3>1
  <2>3. CASE Len(b) + n < i
    <3>1. /\ ~(i <= Len(b)) /\ ~(i <= Len(b) + n)
          /\ i - (Len(b) + n) \in 1 .. Len(t) - n
          /\ n + (i - (Len(b) + n)) = i - Len(b)
      BY <1>1, <2>3
    <3> QED
      BY <1>3, <1>5, <1>6, <3>1
  <2> QED
    BY <1>1, <2>1, <2>2, <2>3
<1>8. l = r
  BY <1>1, <1>5, <1>6, <1>7, SeqEqual
<1> QED
  BY <1>8 DEF l, r, x, y

(* filled is what Filled(n) makes of buffer b at position p, with t in the *)
(* stream; rest is what Take(n) leaves.                                    *)
Filling(b, p, t, n) ==
  SubSeq(b, 1, p) \o SubSeq(t, 1, n) \o SubSeq(b, p + n + 1, Len(b))
Rest(t, n) == SubSeq(t, n + 1, Len(t))

(* At the end of what the buffer holds, nothing is overwritten.            *)
LEMMA FillAtEnd ==
  ASSUME NEW b, NEW p, NEW t, NEW n,
         b \in ByteString, t \in ByteString, n \in 1 .. Len(t), p = Len(b)
  PROVE  /\ Filling(b, p, t, n) \in ByteString /\ Rest(t, n) \in ByteString
         /\ Len(Filling(b, p, t, n)) = p + n /\ Len(Rest(t, n)) = Len(t) - n
         /\ Join(Filling(b, p, t, n), Rest(t, n)) = Join(b, t)
<1> DEFINE x == SubSeq(t, 1, n)
<1>1. Len(b) \in Nat /\ n \in Nat /\ Len(t) \in Nat
  BY LenProperties DEF ByteString
<1>2. x \in ByteString /\ Len(x) = n
  BY SplitBytes
<1>3. SubSeq(b, 1, p) = b
  <2>1. \A i \in 1 .. Len(b) : SubSeq(b, 1, p)[i] = b[i]
    BY <1>1
  <2>2. SubSeq(b, 1, p) \in Seq(Byte) /\ Len(SubSeq(b, 1, p)) = Len(b)
    BY <1>1 DEF ByteString
  <2> QED
    BY <2>1, <2>2, SeqEqual DEF ByteString
<1>4. SubSeq(b, p + n + 1, Len(b)) = <<>>
  BY <1>1, SubSeqEmpty
<1> HIDE DEF x
<1>5. b \o x \in ByteString /\ Len(b \o x) = p + n
  BY <1>2, ConcatBytes
<1>6. Filling(b, p, t, n) = (b \o x) \o <<>>
  BY <1>3, <1>4 DEF Filling, x
<1>7. (b \o x) \o <<>> = b \o x
  <2> DEFINE c == b \o x
  <2>1. c \in Seq(Byte)
    BY <1>5 DEF ByteString
  <2> HIDE DEF c
  <2>2. c \o <<>> = c
    BY <2>1, ConcatProperties
  <2> QED
    BY <2>2 DEF c
<1>8. Rest(t, n) \in ByteString /\ Len(Rest(t, n)) = Len(t) - n
  BY SplitBytes DEF Rest
<1>9. Join(b \o x, Rest(t, n)) = Join(b, t)
  BY ConcatSplit DEF Rest, Join, x
<1> QED
  BY <1>5, <1>6, <1>7, <1>8, <1>9

(* Behind the header, the header is not overwritten.                       *)
LEMMA FillBehindHeader ==
  ASSUME NEW b, NEW t, NEW n,
         b \in ByteString, t \in ByteString, n \in 1 .. Len(t), Len(b) >= 4
  PROVE  /\ Filling(b, 4, t, n) \in ByteString /\ Rest(t, n) \in ByteString
         /\ Len(Filling(b, 4, t, n)) >= 4 + n /\ Len(Rest(t, n)) = Len(t) - n
         /\ IntAt(Filling(b, 4, t, n), 1) = IntAt(b, 1)
<1> DEFINE x == SubSeq(t, 1, n)
           h == SubSeq(b, 1, 4)
           y == SubSeq(b, 4 + n + 1, Len(b))
<1>1. Len(b) \in Nat /\ n \in Nat /\ Len(t) \in Nat
  BY LenProperties DEF ByteString
<1>2. x \in ByteString /\ Len(x) = n
  BY SplitBytes
<1>3. h \in ByteString /\ Len(h) = 4 /\ \A i \in 1 .. 4 : h[i] = b[i]
  BY <1>1 DEF ByteString
<1>4. y \in ByteString
  BY <1>1 DEF ByteString
<1>5. Filling(b, 4, t, n) = (h \o x) \o y
  BY DEF Filling
<1> HIDE DEF x, h, y
<1> DEFINE c == Join(h, x)
           d == Join(c, y)
<1>6. /\ c \in ByteString /\ Len(c) = 4 + n
      /\ \A i \in 1 .. 4 : ByteAt(c, i) = ByteAt(h, i)
  <2>1. c \in ByteString /\ Len(c) = 4 + n
    BY <1>2, <1>3, ConcatBytes DEF Join
  <2>2. ASSUME NEW i \in 1 .. 4
        PROVE  ByteAt(c, i) = ByteAt(h, i)
    <3>1. i \in 1 .. Len(h)
      BY <1>3
    <3> QED
      BY <1>2, <1>3, <3>1, JoinHead
  <2> QED
    BY <2>1, <2>2
<1>7. Filling(b, 4, t, n) = d
  BY <1>5 DEF Join
<1> HIDE DEF c
<1>8. /\ d \in ByteString /\ Len(d) >= 4 + n
      /\ \A i \in 1 .. 4 : ByteAt(d, i) = ByteAt(c, i)
  <2>1. d \in ByteString /\ Len(d) = 4 + n + Len(y) /\ Len(y) \in Nat
    BY <1>1, <1>4, <1>6, ConcatBytes DEF Join
  <2>2. ASSUME NEW i \in 1 .. 4
        PROVE  ByteAt(d, i) = ByteAt(c, i)
    <3>1. i \in 1 .. Len(c)
      BY <1>1, <1>6
    <3> QED
      BY <1>4, <1>6, <3>1, JoinHead
  <2> QED
    BY <1>1, <2>1, <2>2
<1> HIDE DEF d
<1>9. \A i \in 1 .. 4 : Filling(b, 4, t, n)[i] = b[i]
  BY <1>3, <1>6, <1>7, <1>8 DEF ByteAt
<1>10. IntAt(Filling(b, 4, t, n), 1) = IntAt(b, 1)
  <2>1. \A i \in {1, 2, 3, 4} : Filling(b, 4, t, n)[i] = b[i]
    BY <1>9
  <2> QED
    BY <2>1 DEF IntAt
<1>11. Rest(t, n) \in ByteString /\ Len(Rest(t, n)) = Len(t) - n
  BY SplitBytes DEF Rest
<1> QED
  BY <1>7, <1>8, <1>10, <1>11

(* Buffer c holds the first end bytes of the frame of s, stream r the rest. *)
Cut(s, c, r, end) ==
  /\ c \in ByteString /\ r \in ByteString
  /\ Len(c) = end /\ end \in Nat /\ Len(s) \in Nat
  /\ Join(c, r) = WithHeader(s)
  /\ Len(r) = 4 + Len(s) - end /\ end <= 4 + Len(s)
  /\ end >= 4 => IntAt(c, 1) = Len(s)
  /\ end >= 4 + Len(s) => c = WithHeader(s) /\ r = <<>>
  /\ end < 4 + Len(s) => r # <<>>

(* A piece more of a frame of which all that was read is in the buffer.    *)
LEMMA FrameRead ==
  ASSUME NEW s, NEW b, NEW p, NEW t, NEW n,
         s \in ByteString, b \in ByteString, t \in ByteString, Len(s) \in JavaInt,
         Join(b, t) = WithHeader(s), p = Len(b), n \in 1 .. Len(t)
  PROVE  Cut(s, Filling(b, p, t, n), Rest(t, n), p + n)
<1> DEFINE c == Filling(b, p, t, n)
           r == Rest(t, n)
<1>1. /\ c \in ByteString /\ r \in ByteString /\ Len(c) = p + n
      /\ Len(r) = Len(t) - n /\ Join(c, r) = WithHeader(s)
  BY FillAtEnd
<1> HIDE DEF c, r
<1>2. /\ Len(WithHeader(s)) = 4 + Len(s) /\ Len(s) \in Nat
      /\ Len(c) \in Nat /\ Len(r) \in Nat
  BY <1>1, FrameBytes, LenProperties DEF ByteString
<1>3. Len(Join(c, r)) = Len(c) + Len(r)
  BY <1>1, ConcatBytes DEF Join
<1>4. Len(r) = 4 + Len(s) - (p + n) /\ p + n <= 4 + Len(s) /\ p + n \in Nat
  <2> DEFINE k == Len(Join(c, r))
  <2>1. k = Len(c) + Len(r) /\ k = 4 + Len(s)
    BY <1>1, <1>2, <1>3
  <2> HIDE DEF k
  <2>2. Len(c) = p + n /\ Len(c) \in Nat /\ Len(r) \in Nat /\ Len(s) \in Nat
    BY <1>1, <1>2
  <2> QED
    BY <2>1, <2>2
<1>5. p + n >= 4 => IntAt(c, 1) = Len(s)
  BY <1>1, FrameHeader
<1>6. ASSUME p + n >= 4 + Len(s)
      PROVE  c = WithHeader(s) /\ r = <<>>
  <2>1. Len(r) = 0
    BY <1>2, <1>4, <1>6
  <2>2. r = <<>>
    BY <1>1, <2>1 DEF ByteString
  <2>3. Join(c, <<>>) = c
    BY <1>1, ConcatProperties DEF ByteString, Join
  <2> QED
    BY <1>1, <2>2, <2>3
<1>7. ASSUME p + n < 4 + Len(s)
      PROVE  r # <<>>
  <2>1. Len(r) # 0
    BY <1>2, <1>4, <1>7
  <2>2. Len(<<>>) = 0
    OBVIOUS
  <2> QED
    BY <2>1, <2>2
<1> QED
  BY <1>1, <1>2, <1>4, <1>5, <1>6, <1>7 DEF c, r, Cut

-----------------------------------------------------------------------------
(* The invariant.                                                          *)

(* All that was read of the frame is in the buffer, the rest in the stream. *)
Intact(frame) == Join(buffer, stream) = frame /\ position = Len(buffer)

(* hasReceivedMessage put the position back to 4 while the request was not *)
(* complete: the header stays, and less than the length it states is left, *)
(* so that the request will never be complete.                             *)
Overtaken(payload) ==
  /\ position = 4 /\ Len(buffer) >= 4
  /\ IntAt(buffer, 1) = Len(payload) /\ Len(stream) < Len(payload)

(* The types, with what both buffers hold.                                 *)
Types ==
  /\ pc \in {"idle", "sending", "working", "replying", "silent", "failed"}
  /\ request \in Requests \cup {NONE} /\ response \in Responses \cup {NONE}
  /\ stream \in ByteString /\ buffer \in ByteString
  /\ position \in 0 .. Len(buffer) /\ pieces \in 0 .. MaxPieces

(* Nothing is left between exchanges.                                      *)
AtRest == pc = "idle" => stream = <<>> /\ position = 0

(* A request under way fits into the buffer of its client.                 *)
Submitted ==
  pc \in {"sending", "working"} =>
    request \in Requests /\ Len(Frame(request)) <= ClientCapacity

(* A request that the broker reads is intact, and then no more than its    *)
(* header has been looked at; or it is lost.                               *)
Sending ==
  pc = "sending" => \/ position <= 4 /\ Intact(Frame(request))
                    \/ Overtaken(SerializeRequest(request))

(* The reactor hands over the whole request, from behind its length.       *)
Working == pc = "working" => buffer = Frame(request) /\ position = 4

(* The worker has decoded the request; the response is intact, and some of *)
(* it is still to come.                                                    *)
Replying ==
  pc = "replying" =>
    /\ handed = request /\ response \in Responses
    /\ Len(Reply(response)) <= MaxMessageSize
    /\ Intact(Reply(response)) /\ stream # <<>>

(* The client has decoded the response.                                    *)
Answered == result[1] = result[2]

(* Inductive for Spec. Without Overtaken the invariant would not be true   *)
(* of the broker, without its last part a request that was overtaken could *)
(* still become complete.                                                  *)
IInv == Types /\ AtRest /\ Submitted /\ Sending /\ Working /\ Replying /\ Answered

(* The capacities are numbers of the width of int.                         *)
LEMMA Capacities ==
  /\ MaxPieces \in Nat
  /\ \A n \in Nat : n <= ClientCapacity \/ n <= MaxMessageSize => n \in JavaInt
<1>1. MaxInt \in Nat
  BY SMT DEF MaxInt
<1> QED
  BY <1>1, ExchangeAssumption DEF JavaInt

(* The bytes of a request; if they fit the buffer, the header can state    *)
(* their number.                                                           *)
LEMMA RequestBytes ==
  ASSUME NEW r, r \in Requests
  PROVE  /\ SerializeRequest(r) \in ByteString /\ Frame(r) \in ByteString
         /\ Len(Frame(r)) = 4 + Len(SerializeRequest(r))
         /\ Len(Frame(r)) <= ClientCapacity => Len(SerializeRequest(r)) \in JavaInt
<1>1. <<>> \in ByteString
  BY DEF ByteString
<1>2. r \in RequestObject
  BY ExchangeAssumption
<1>3. Reads(<<>>, 1, SerializeRequest(r), 1, DeserializeRequest(<<>>, 1), r)
  BY <1>1, <1>2, SerializedRequest
<1>4. SerializeRequest(r) \in ByteString
  BY <1>3 DEF Reads
<1>5. /\ Frame(r) \in ByteString /\ Len(Frame(r)) = 4 + Len(SerializeRequest(r))
      /\ Len(SerializeRequest(r)) \in Nat
  BY <1>4, FrameBytes DEF Frame
<1>6. ASSUME Len(Frame(r)) <= ClientCapacity
      PROVE  Len(SerializeRequest(r)) <= ClientCapacity
  BY <1>5, <1>6, ExchangeAssumption
<1> QED
  BY <1>4, <1>5, <1>6, Capacities

(* The bytes of a response.                                                *)
LEMMA ResponseBytes ==
  ASSUME NEW r, r \in Responses
  PROVE  /\ SerializeResponse(r) \in ByteString /\ Reply(r) \in ByteString
         /\ Len(Reply(r)) = 4 + Len(SerializeResponse(r)) /\ Reply(r) # <<>>
         /\ Len(Reply(r)) <= MaxMessageSize => Len(SerializeResponse(r)) \in JavaInt
<1>1. <<>> \in ByteString
  BY DEF ByteString
<1>2. r \in ResponseObject
  BY ExchangeAssumption
<1>3. Reads(<<>>, 1, SerializeResponse(r), 1, DeserializeResponse(<<>>, 1), r)
  BY <1>1, <1>2, SerializedResponse
<1>4. SerializeResponse(r) \in ByteString
  BY <1>3 DEF Reads
<1>5. /\ Reply(r) \in ByteString /\ Len(Reply(r)) = 4 + Len(SerializeResponse(r))
      /\ Len(SerializeResponse(r)) \in Nat
  BY <1>4, FrameBytes DEF Reply
<1>6. ASSUME Len(Reply(r)) <= MaxMessageSize
      PROVE  Len(SerializeResponse(r)) <= MaxMessageSize
  BY <1>5, <1>6, ExchangeAssumption
<1>7. Reply(r) # <<>>
  BY <1>5
<1> QED
  BY <1>4, <1>5, <1>6, <1>7, Capacities

(* Nothing is under way.                                                   *)
LEMMA InitIInv == Init => IInv
<1> SUFFICES ASSUME Init PROVE IInv
  OBVIOUS
<1>1. <<>> \in ByteString /\ Len(<<>>) = 0
  BY DEF ByteString
<1>2. Types
  BY <1>1, Capacities DEF Init, Types
<1>3. Answered
  BY DEF Init, Answered
<1> QED
  BY <1>2, <1>3 DEF Init, IInv, AtRest, Submitted, Sending, Working, Replying

(* A client submits a request: all of it is in the stream.                 *)
LEMMA SubmitIInv ==
  ASSUME IInv, NEW r \in Requests, SubmitRequest(r)
  PROVE  IInv'
<1>1. /\ Len(Frame(r)) <= ClientCapacity /\ stream' = Frame(r) /\ request' = r
      /\ pc' = "sending" /\ buffer' = <<>> /\ position' = 0 /\ pieces' = 0
      /\ result' = <<NONE, NONE>> /\ response' = response
  BY DEF SubmitRequest, Clear, Frame
<1>2. Frame(r) \in ByteString /\ <<>> \in ByteString /\ Len(<<>>) = 0
  BY RequestBytes DEF ByteString
<1>3. Join(<<>>, Frame(r)) = Frame(r)
  BY <1>2, ConcatProperties DEF ByteString, Join
<1>4. Types'
  BY <1>1, <1>2, Capacities DEF IInv, Types
<1>5. Sending'
  BY <1>1, <1>2, <1>3 DEF Sending, Intact
<1> QED
  BY <1>1, <1>4, <1>5 DEF IInv, AtRest, Submitted, Working, Replying, Answered

(* The broker reads a piece: the request is complete only if no earlier    *)
(* piece has moved the position back.                                      *)
LEMMA SelectReadIInv ==
  ASSUME IInv, NEW n \in 1 .. Len(stream), SelectRead(n)
  PROVE  IInv'
<1> DEFINE s == SerializeRequest(request)
           end == position + n
<1>1. /\ pc = "sending" /\ pieces < MaxPieces /\ pieces' = pieces + 1
      /\ buffer' = Filling(buffer, position, stream, n) /\ stream' = Rest(stream, n)
      /\ request' = request /\ handed' = handed /\ response' = response
      /\ result' = result
  BY DEF SelectRead, Fits, Filled, Take, Filling, Rest
<1>2. \/ end < 4 /\ pc' = "sending" /\ position' = end
      \/ /\ end >= 4 /\ position' = 4
         /\ pc' = IF IntAt(buffer', 1) <= end - 4 THEN "working" ELSE "sending"
  BY <1>1 DEF SelectRead, HeaderLength, IInv, Types
<1>3. /\ request \in Requests /\ s \in ByteString /\ Len(s) \in JavaInt
      /\ Frame(request) = WithHeader(s) /\ Len(Frame(request)) <= ClientCapacity
  BY <1>1, RequestBytes DEF IInv, Submitted, Frame
<1>4. /\ stream \in ByteString /\ buffer \in ByteString /\ position \in Nat
      /\ Len(buffer) \in Nat /\ Len(stream) \in Nat /\ pieces' \in 0 .. MaxPieces
      /\ Len(s) \in Nat
  BY <1>1, <1>3, LenProperties, Capacities DEF IInv, Types, ByteString
<1> HIDE DEF s
<1>5. Submitted' /\ Answered' /\ (request \in Requests \cup {NONE})'
        /\ (response \in Responses \cup {NONE})'
  BY <1>1, <1>3 DEF IInv, Types, Submitted, Answered
<1>6. CASE position <= 4 /\ Intact(Frame(request))
  <2>1. Join(buffer, stream) = WithHeader(s) /\ position = Len(buffer)
    BY <1>3, <1>6 DEF Intact
  <2>0. Cut(s, buffer', stream', end)
    BY <1>1, <1>3, <1>4, <2>1, FrameRead
  <2>2. /\ buffer' \in ByteString /\ stream' \in ByteString
        /\ Len(buffer') = end /\ end \in Nat
        /\ Join(buffer', stream') = WithHeader(s)
        /\ Len(stream') = 4 + Len(s) - end /\ end <= 4 + Len(s)
        /\ end >= 4 => IntAt(buffer', 1) = Len(s)
        /\ end >= 4 + Len(s) => buffer' = WithHeader(s) /\ stream' = <<>>
    BY <2>0 DEF Cut
  <2> HIDE DEF end
  <2>3. CASE end < 4
    <3>1. pc' = "sending" /\ position' = end
      BY <1>2, <2>2, <2>3
    <3>2. Types'
      BY <1>4, <1>5, <2>2, <3>1 DEF Types
    <3>3. (position <= 4 /\ Intact(Frame(request)))'
      BY <1>1, <1>3, <2>2, <2>3, <3>1 DEF Intact
    <3> QED
      BY <1>5, <3>1, <3>2, <3>3 DEF IInv, AtRest, Sending, Working, Replying
  <2>4. CASE end >= 4 /\ Len(s) <= end - 4
    <3>1. pc' = "working" /\ position' = 4
      BY <1>2, <2>2, <2>4
    <3>2. Types'
      BY <1>4, <1>5, <2>2, <2>4, <3>1 DEF Types
    <3>3. buffer' = Frame(request')
      BY <1>1, <1>3, <1>4, <2>2, <2>4
    <3> QED
      BY <1>5, <3>1, <3>2, <3>3 DEF IInv, AtRest, Sending, Working, Replying
  <2>5. CASE end >= 4 /\ ~(Len(s) <= end - 4)
    <3>1. pc' = "sending" /\ position' = 4
      BY <1>2, <2>2, <2>5
    <3>2. Types'
      BY <1>4, <1>5, <2>2, <2>5, <3>1 DEF Types
    <3>3. CASE end = 4
      <4>1. (position <= 4 /\ Intact(Frame(request)))'
        BY <1>1, <1>3, <2>2, <3>1, <3>3 DEF Intact
      <4> QED
        BY <1>5, <3>1, <3>2, <4>1 DEF IInv, AtRest, Sending, Working, Replying
    <3>4. CASE end # 4
      <4>1. Len(buffer') >= 4 /\ Len(stream') < Len(s) /\ IntAt(buffer', 1) = Len(s)
        BY <1>4, <2>2, <2>5, <3>4
      <4>2. Overtaken(SerializeRequest(request))'
        BY <1>1, <3>1, <4>1 DEF Overtaken, s
      <4> QED
        BY <1>5, <3>1, <3>2, <4>2 DEF IInv, AtRest, Sending, Working, Replying
    <3> QED
      BY <3>3, <3>4
  <2> QED
    BY <1>4, <2>2, <2>3, <2>4, <2>5
<1>7. CASE Overtaken(SerializeRequest(request))
  <2>1. /\ position = 4 /\ Len(buffer) >= 4 /\ IntAt(buffer, 1) = Len(s)
        /\ Len(stream) < Len(s)
    BY <1>7 DEF Overtaken, s
  <2>2. /\ buffer' \in ByteString /\ stream' \in ByteString
        /\ Len(buffer') >= 4 + n /\ Len(stream') = Len(stream) - n
        /\ IntAt(buffer', 1) = Len(s)
    BY <1>1, <1>4, <2>1, FillBehindHeader
  <2>3. end = 4 + n /\ end >= 4 /\ ~(end < 4) /\ ~(Len(s) <= end - 4)
    BY <1>4, <2>1
  <2>4. pc' = "sending" /\ position' = 4
    BY <1>2, <2>2, <2>3
  <2>5. Len(buffer') \in Nat /\ Len(buffer') >= 4 /\ Len(stream') < Len(s)
    BY <1>4, <2>1, <2>2, LenProperties DEF ByteString
  <2>6. Types'
    BY <1>4, <1>5, <2>2, <2>4, <2>5 DEF Types
  <2>7. Overtaken(SerializeRequest(request))'
    BY <1>1, <2>2, <2>4, <2>5 DEF Overtaken, s
  <2> QED
    BY <1>5, <2>4, <2>6, <2>7 DEF IInv, AtRest, Sending, Working, Replying
<1> QED
  BY <1>1, <1>6, <1>7 DEF IInv, Sending

(* A worker decodes what was submitted.                                    *)
LEMMA RespondIInv ==
  ASSUME IInv, Respond
  PROVE  IInv'
<1>1. PICK r \in Answers :
        /\ stream' = Reply(r) /\ Len(stream') <= MaxMessageSize /\ response' = r
  BY DEF Respond, Reply
<1>2. /\ pc = "working" /\ handed' = Received /\ pc' = "replying"
      /\ buffer' = <<>> /\ position' = 0 /\ pieces' = 0
      /\ request' = request /\ result' = result
  BY DEF Respond, Clear
<1>3. r \in Responses
  BY DEF Answers
<1> DEFINE s == SerializeRequest(request)
<1>4. /\ request \in Requests /\ s \in ByteString /\ buffer = WithHeader(s)
      /\ position = 4
  BY <1>2, RequestBytes DEF IInv, Submitted, Working, Frame
<1>5. handed' = request
  <2>1. At(buffer, 5, s, Len(buffer) + 1)
    BY <1>4, FrameBody
  <2>2. Reads(buffer, 5, s, Len(buffer) + 1, DeserializeRequest(buffer, 5), request)
    BY <1>4, FrameBytes, SerializedRequest, ExchangeAssumption
  <2>3. DeserializeRequest(buffer, 5) = Got(request, Len(buffer) + 1)
    BY <2>1, <2>2 DEF Reads
  <2> QED
    BY <1>2, <1>4, <2>3 DEF Received, Got
<1>6. /\ Reply(r) \in ByteString
      /\ Reply(r) # <<>> /\ <<>> \in ByteString /\ Len(<<>>) = 0
  BY <1>3, ResponseBytes DEF ByteString
<1>7. Join(<<>>, Reply(r)) = Reply(r)
  BY <1>6, ConcatProperties DEF ByteString, Join
<1>8. Types'
  BY <1>1, <1>2, <1>3, <1>6, Capacities DEF IInv, Types
<1>9. Replying'
  BY <1>1, <1>2, <1>3, <1>5, <1>6, <1>7 DEF Replying, Intact
<1> QED
  BY <1>2, <1>8, <1>9 DEF IInv, AtRest, Submitted, Sending, Working, Answered

(* The client's reads. *)
LEMMA ClientRead ==
  ASSUME IInv, NEW n \in 1 .. Len(stream), pc = "replying"
  PROVE  /\ Filled(n) \in ByteString /\ Rest(stream, n) \in ByteString
         /\ Join(Filled(n), Rest(stream, n)) = Reply(response)
         /\ Len(Filled(n)) = position + n /\ position + n \in Nat
         /\ Complete(Filled(n), position + n) =>
              /\ Rest(stream, n) = <<>> /\ Filled(n) = Reply(response)
              /\ DeserializeResponse(Filled(n), 5) = Got(response, position + n + 1)
         /\ ~Complete(Filled(n), position + n) => Rest(stream, n) # <<>>
<1> DEFINE s == SerializeResponse(response)
           c == Filled(n)
           end == position + n
<1>1. /\ stream \in ByteString /\ buffer \in ByteString /\ response \in Responses
      /\ Len(Reply(response)) <= MaxMessageSize
      /\ Join(buffer, stream) = Reply(response) /\ position = Len(buffer)
  BY DEF IInv, Types, Replying, Intact
<1>2. s \in ByteString /\ Len(s) \in JavaInt /\ Reply(response) = WithHeader(s)
  BY <1>1, ResponseBytes DEF Reply
<1>3. c = Filling(buffer, position, stream, n)
  BY DEF Filled, Filling
<1> HIDE DEF s, c
<1>0. Cut(s, c, Rest(stream, n), end)
  BY <1>1, <1>2, <1>3, FrameRead
<1>4. /\ c \in ByteString /\ Rest(stream, n) \in ByteString
      /\ Len(c) = end /\ end \in Nat /\ Len(s) \in Nat
      /\ Join(c, Rest(stream, n)) = WithHeader(s)
      /\ end >= 4 => IntAt(c, 1) = Len(s)
      /\ end >= 4 + Len(s) => c = WithHeader(s) /\ Rest(stream, n) = <<>>
      /\ end < 4 + Len(s) => Rest(stream, n) # <<>>
  BY <1>0 DEF Cut
<1> HIDE DEF end
<1>5. ASSUME Complete(c, end)
      PROVE  /\ Rest(stream, n) = <<>> /\ c = WithHeader(s)
             /\ DeserializeResponse(c, 5) = Got(response, end + 1)
  <2>1. end >= 4 + Len(s)
    BY <1>4, <1>5 DEF Complete, HeaderLength
  <2>2. c = WithHeader(s) /\ Rest(stream, n) = <<>>
    BY <1>4, <2>1
  <2>3. At(c, 5, s, end + 1)
    BY <1>2, <1>4, <2>2, FrameBody
  <2>4. Reads(c, 5, s, end + 1, DeserializeResponse(c, 5), response)
    BY <1>1, <1>4, SerializedResponse, ExchangeAssumption DEF s
  <2> QED
    BY <2>2, <2>3, <2>4 DEF Reads
<1>6. ASSUME ~Complete(c, end)
      PROVE  Rest(stream, n) # <<>>
  <2>1. end < 4 + Len(s)
    BY <1>4, <1>6 DEF Complete, HeaderLength
  <2> QED
    BY <1>4, <2>1
<1> QED
  BY <1>2, <1>4, <1>5, <1>6 DEF c, end

(* The client reads a piece: the length at the beginning says that more is *)
(* to come.                                                                *)
LEMMA ReadMoreIInv ==
  ASSUME IInv, NEW n \in 1 .. Len(stream), ReadMore(n)
  PROVE  IInv'
<1>1. /\ pc = "replying" /\ pieces < MaxPieces /\ ~Complete(Filled(n), position + n)
      /\ stream' = Rest(stream, n) /\ buffer' = Filled(n) /\ position' = position + n
      /\ pieces' = pieces + 1 /\ pc' = pc /\ request' = request /\ handed' = handed
      /\ response' = response /\ result' = result
  BY DEF ReadMore, Fits, Take, Rest
<1>2. /\ buffer' \in ByteString /\ stream' \in ByteString
      /\ Join(buffer', stream') = Reply(response)
      /\ Len(buffer') = position' /\ position' \in Nat /\ stream' # <<>>
  BY <1>1, ClientRead
<1>3. Types'
  BY <1>1, <1>2, Capacities DEF IInv, Types
<1>4. Replying'
  BY <1>1, <1>2 DEF IInv, Replying, Intact
<1> QED
  BY <1>1, <1>3, <1>4 DEF IInv, AtRest, Submitted, Sending, Working, Answered

(* The client reads the last piece and decodes what was answered.          *)
LEMMA ReadLastIInv ==
  ASSUME IInv, NEW n \in 1 .. Len(stream), ReadLast(n)
  PROVE  IInv'
<1> DEFINE d == DeserializeResponse(Filled(n), 5)
           end == position + n
<1>1. /\ pc = "replying" /\ Complete(Filled(n), end)
      /\ stream' = Rest(stream, n) /\ result' = <<d.value, response>>
      /\ buffer' = SubSeq(Filled(n), d.next, end) /\ position' = Len(buffer')
      /\ pieces' = 0 /\ pc' = "idle" /\ request' = NONE /\ response' = NONE
  BY DEF ReadLast, Take, Rest, HeaderLength
<1>2. d = Got(response, end + 1) /\ stream' = <<>> /\ end \in Nat
  BY <1>1, ClientRead
<1>3. d.value = response /\ d.next = end + 1
  BY <1>2 DEF Got
<1> HIDE DEF d, end
<1>4. buffer' = <<>>
  BY <1>1, <1>2, <1>3, SubSeqEmpty
<1>5. <<>> \in ByteString /\ Len(<<>>) = 0
  BY DEF ByteString
<1>6. Types'
  <2>1. position' = 0 /\ Len(buffer') = 0
    BY <1>1, <1>4, <1>5
  <2>2. 0 \in 0 .. MaxPieces
    BY Capacities
  <2>3. buffer' \in ByteString /\ stream' \in ByteString
    BY <1>2, <1>4, <1>5
  <2>4. pc' = "idle" /\ pieces' = 0 /\ request' = NONE /\ response' = NONE
    BY <1>1
  <2> QED
    BY ONLY <2>1, <2>2, <2>3, <2>4 DEF Types
<1>7. Answered'
  BY <1>1, <1>3 DEF Answered
<1> QED
  BY <1>1, <1>2, <1>4, <1>5, <1>6, <1>7
     DEF IInv, AtRest, Submitted, Sending, Working, Replying

(* The invariant is inductive.                                             *)
LEMMA NextIInv == IInv /\ [Next]_vars => IInv'
<1> SUFFICES ASSUME IInv, [Next]_vars PROVE IInv'
  OBVIOUS
<1>1. ASSUME NEW r \in Requests, SubmitRequest(r)
      PROVE  IInv'
  BY <1>1, SubmitIInv
<1>2. ASSUME NEW r \in Requests, RequestTooLarge(r)
      PROVE  IInv'
  <2>1. /\ pc' = "failed"
        /\ UNCHANGED <<request, response, result, stream, buffer, position, pieces>>
    BY <1>2 DEF RequestTooLarge
  <2> QED
    BY <2>1 DEF IInv, Types, AtRest, Submitted, Sending, Working, Replying, Answered
<1>3. ASSUME NEW n \in 1 .. Len(stream), SelectRead(n)
      PROVE  IInv'
  BY <1>3, SelectReadIInv
<1>4. CASE Respond
  BY <1>4, RespondIInv
<1>5. CASE ResponseTooLarge
  <2>1. /\ pc' = "silent"
        /\ UNCHANGED <<request, response, result, stream, buffer, position, pieces>>
    BY <1>5 DEF ResponseTooLarge
  <2> QED
    BY <2>1 DEF IInv, Types, AtRest, Submitted, Sending, Working, Replying, Answered
<1>6. ASSUME NEW n \in 1 .. Len(stream), ReadMore(n)
      PROVE  IInv'
  BY <1>6, ReadMoreIInv
<1>7. ASSUME NEW n \in 1 .. Len(stream), ReadLast(n)
      PROVE  IInv'
  BY <1>7, ReadLastIInv
<1>8. CASE UNCHANGED vars
  BY <1>8 DEF vars, IInv, Types, AtRest, Submitted, Sending, Working, Replying,
              Answered, Intact, Overtaken
<1> QED
  BY <1>1, <1>2, <1>3, <1>4, <1>5, <1>6, <1>7, <1>8
     DEF Next, Client, Reactor, Worker

(* The invariant holds in every reachable state.                           *)
LEMMA Invariance == Spec => []IInv
BY InitIInv, NextIInv, PTL DEF Spec

-----------------------------------------------------------------------------
(* Theorems                                                                *)

(* The bytes of a request are read as that request ...                     *)
THEOREM RequestRoundTrip ==
  ASSUME NEW r, r \in RequestObject
  PROVE  DeserializeRequest(SerializeRequest(r), 1)
           = Got(r, Len(SerializeRequest(r)) + 1)
<1> DEFINE s == SerializeRequest(r)
           q == Len(s) + 1
<1>1. <<>> \in ByteString
  BY DEF ByteString
<1>2. Reads(<<>>, 1, s, q, DeserializeRequest(<<>>, 1), r)
  BY <1>1, SerializedRequest
<1>3. s \in ByteString
  BY <1>2 DEF Reads
<1>4. Reads(s, 1, s, q, DeserializeRequest(s, 1), r)
  BY <1>3, SerializedRequest
<1> HIDE DEF s
<1>5. At(s, 1, s, q)
  BY <1>3 DEF At, ByteString
<1> QED
  BY <1>4, <1>5 DEF Reads, s

(* ... and those of a response as that response, whatever their fields are. *)
THEOREM ResponseRoundTrip ==
  ASSUME NEW r, r \in ResponseObject
  PROVE  DeserializeResponse(SerializeResponse(r), 1)
           = Got(r, Len(SerializeResponse(r)) + 1)
<1> DEFINE s == SerializeResponse(r)
           q == Len(s) + 1
<1>1. <<>> \in ByteString
  BY DEF ByteString
<1>2. Reads(<<>>, 1, s, q, DeserializeResponse(<<>>, 1), r)
  BY <1>1, SerializedResponse
<1>3. s \in ByteString
  BY <1>2 DEF Reads
<1>4. Reads(s, 1, s, q, DeserializeResponse(s, 1), r)
  BY <1>3, SerializedResponse
<1> HIDE DEF s
<1>5. At(s, 1, s, q)
  BY <1>3 DEF At, ByteString
<1> QED
  BY <1>4, <1>5 DEF Reads, s

(* The types; the position is within what the buffer holds, and only bytes *)
(* are sent.                                                               *)
THEOREM TypesHold == Spec => []TypeOK
<1>1. IInv => TypeOK
  <2> SUFFICES ASSUME IInv PROVE TypeOK
    OBVIOUS
  <2>1. \A i \in DOMAIN stream : stream[i] \in Byte
    <3>1. stream \in Seq(Byte)
      BY DEF IInv, Types, ByteString
    <3> QED
      BY <3>1
  <2> QED
    BY <2>1 DEF IInv, Types, TypeOK
<1> QED
  BY <1>1, Invariance, PTL

(* What the worker decodes is what the client submitted, and what the      *)
(* client decodes is what the worker answered.                             *)
THEOREM ExchangeIntact == Spec => []BothIntact
<1>1. IInv => BothIntact
  BY DEF IInv, Replying, Answered, BothIntact
<1> QED
  BY <1>1, Invariance, PTL

(* The client waits while something is to come, and keeps nothing of one   *)
(* response for the next.                                                  *)
THEOREM ResponseRead == Spec => []ResponseCompletes
<1>1. IInv => ResponseCompletes
  BY DEF IInv, AtRest, Replying, ResponseCompletes
<1> QED
  BY <1>1, Invariance, PTL

=============================================================================
