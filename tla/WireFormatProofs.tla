-------------------------- MODULE WireFormatProofs --------------------------
(***************************************************************************)
(* For every Base and every length of a name: what the encoders of         *)
(* WireFormat write is what the decoders read back, and a file written     *)
(* part after part holds each part at the place where it was written.      *)
(***************************************************************************)
EXTENDS WireFormat, SequenceTheorems, WellFoundedInduction, TLAPS

-----------------------------------------------------------------------------
(* Natural numbers and sequences.                                          *)

\* A non-empty set of natural numbers has a least element.
LEMMA LeastNat ==
  ASSUME NEW S \in SUBSET Nat, S # {} PROVE \E m \in S : \A k \in S : m <= k
<1>1. PICK m \in S : \A k \in S : ~(<<k, m>> \in OpToRel(<, Nat))
  BY NatLessThanWellFounded, WFMin
<1>2. \A k \in S : ~(k < m)
  BY <1>1 DEF OpToRel
<1> QED BY <1>2

\* A function on 1 .. n is a sequence of length n.
LEMMA TupleIsSeq ==
  ASSUME NEW n \in Nat, NEW D, NEW c \in [1 .. n -> D]
  PROVE  c \in Seq(D) /\ Len(c) = n
<1>1. c \in Seq(D)
  BY SeqDef
<1> QED BY <1>1, LenProperties

-----------------------------------------------------------------------------
(* Integers.                                                               *)

\* The quotient of a multiple and a remainder.
LEMMA Quotient ==
  ASSUME NEW K \in Nat \ {0}, NEW e \in Nat, NEW r \in 0 .. K - 1
  PROVE  (r + e * K) \div K = e
  OBVIOUS

\* One more digit: the quotient by P is its last digit and the next quotient.
LEMMA NextDigit ==
  ASSUME NEW v \in Nat, NEW P \in Nat \ {0}
  PROVE  P * (v \div P) = ((v \div P) % Base) * P + (P * Base) * (v \div (P * Base))
<1> DEFINE q == v \div P
           r == v % P
           d == q % Base
           e == q \div Base
<1>0. Base \in Nat /\ Base >= 2
  BY WireAssumption
<1>1. v = P * q + r /\ r \in 0 .. P - 1 /\ q \in Nat
  OBVIOUS
<1> HIDE DEF q, r
<1>2. q = Base * e + d /\ d \in 0 .. Base - 1 /\ e \in Nat
  BY <1>0, <1>1
<1> HIDE DEF d, e
<1>3. P * q = d * P + (P * Base) * e
  BY <1>0, <1>1, <1>2
<1>4. v = (d * P + r) + e * (P * Base)
  BY <1>0, <1>1, <1>2, <1>3
<1>5. d * P + r \in 0 .. P * Base - 1 /\ P * Base \in Nat \ {0}
  BY <1>0, <1>1, <1>2
<1>6. v \div (P * Base) = e
  <2> DEFINE K == P * Base
             z == d * P + r
  <2>1. K \in Nat \ {0} /\ z \in 0 .. K - 1 /\ v = z + e * K
    BY <1>4, <1>5
  <2> HIDE DEF K, z
  <2>2. v \div K = e
    BY <1>2, <2>1, Quotient
  <2> QED BY <2>2 DEF K
<1> QED BY <1>3, <1>6 DEF q, d

\* One more byte: a number below P and a byte at place P make one below P * Base.
LEMMA NextByte ==
  ASSUME NEW P \in Nat, NEW s \in 0 .. P - 1, NEW x \in Byte
  PROVE  s + x * P \in 0 .. P * Base - 1
  BY WireAssumption DEF Byte

\* The place values are positive.
LEMMA PlaceTypes ==
  /\ Base \in Nat \ {0} /\ Base2 \in Nat \ {0} /\ Base3 \in Nat \ {0}
  /\ Base4 \in Nat \ {0} /\ Base5 \in Nat \ {0} /\ Base6 \in Nat \ {0}
  /\ Base7 \in Nat \ {0} /\ Base8 \in Nat \ {0}
<1>0. \A a, b \in Nat \ {0} : a * b \in Nat \ {0}
  OBVIOUS
<1>1. Base \in Nat \ {0}
  BY WireAssumption
<1> QED BY <1>0, <1>1 DEF Base2, Base3, Base4, Base5, Base6, Base7, Base8

\* What the decoders return are integers of their width.
LEMMA DecodedInRange ==
  ASSUME NEW in
  PROVE  /\ (\A i \in 1 .. 2 : in[i] \in Byte) => decode_u16(in) \in U16
         /\ (\A i \in 1 .. 4 : in[i] \in Byte) => decode_u32(in) \in U32
         /\ (\A i \in 1 .. 8 : in[i] \in Byte) => decode_u64(in) \in U64
<1> USE PlaceTypes
<1>1. ASSUME in[1] \in Byte, in[2] \in Byte
      PROVE  in[1] + in[2] * Base \in 0 .. Base2 - 1
  BY <1>1, NextByte DEF Byte, Base2
<1>2. ASSUME in[1] \in Byte, in[2] \in Byte, in[3] \in Byte, in[4] \in Byte
      PROVE  in[1] + in[2] * Base + in[3] * Base2 + in[4] * Base3 \in 0 .. Base4 - 1
  <2>1. in[1] + in[2] * Base + in[3] * Base2 \in 0 .. Base3 - 1
    BY <1>1, <1>2, NextByte DEF Base3
  <2> QED BY <1>2, <2>1, NextByte DEF Base4
<1>3. ASSUME in[1] \in Byte, in[2] \in Byte, in[3] \in Byte, in[4] \in Byte,
             in[5] \in Byte, in[6] \in Byte, in[7] \in Byte, in[8] \in Byte
      PROVE  decode_u64(in) \in U64
  <2> DEFINE s4 == in[1] + in[2] * Base + in[3] * Base2 + in[4] * Base3
             s5 == s4 + in[5] * Base4
             s6 == s5 + in[6] * Base5
             s7 == s6 + in[7] * Base6
             s8 == s7 + in[8] * Base7
  <2>1. s4 \in 0 .. Base4 - 1
    BY <1>2, <1>3
  <2>9. decode_u64(in) = s8
    BY DEF decode_u64
  <2> HIDE DEF s4
  <2>2. s5 \in 0 .. Base5 - 1
    BY <1>3, <2>1, NextByte DEF Base5
  <2> HIDE DEF s5
  <2>3. s6 \in 0 .. Base6 - 1
    BY <1>3, <2>2, NextByte DEF Base6
  <2> HIDE DEF s6
  <2>4. s7 \in 0 .. Base7 - 1
    BY <1>3, <2>3, NextByte DEF Base7
  <2> HIDE DEF s7
  <2>5. s8 \in 0 .. Base8 - 1
    BY <1>3, <2>4, NextByte DEF Base8
  <2> QED BY <2>5, <2>9 DEF U64
<1> QED BY <1>1, <1>2, <1>3 DEF decode_u16, decode_u32, U16, U32

\* The encoders write bytes, as many as the integer has.
LEMMA EncodedAreBytes ==
  ASSUME NEW v \in Nat
  PROVE  /\ encode_u16(v) \in Seq(Byte) /\ Len(encode_u16(v)) = 2
         /\ encode_u32(v) \in Seq(Byte) /\ Len(encode_u32(v)) = 4
         /\ encode_u64(v) \in Seq(Byte) /\ Len(encode_u64(v)) = 8
<1>1. \A P \in Nat \ {0} : (v \div P) % Base \in Byte
  BY PlaceTypes DEF Byte
<1>2. v % Base \in Byte
  BY PlaceTypes DEF Byte
<1>3. encode_u16(v) \in Seq(Byte) /\ Len(encode_u16(v)) = 2
  BY <1>1, <1>2, PlaceTypes DEF encode_u16
<1>4. encode_u32(v) \in Seq(Byte) /\ Len(encode_u32(v)) = 4
  BY <1>1, <1>2, PlaceTypes DEF encode_u32
<1>5. \A i \in 1 .. 8 : Place[i] \in Nat \ {0}
  BY PlaceTypes DEF Place
<1>6. encode_u64(v) \in [1 .. 8 -> Byte]
  BY <1>1, <1>5 DEF encode_u64
<1>7. encode_u64(v) \in Seq(Byte) /\ Len(encode_u64(v)) = 8
  BY <1>6, TupleIsSeq
<1> QED BY <1>3, <1>4, <1>7

\* Decoding what was encoded gives the integer back.
LEMMA IntegersRoundTrip ==
  /\ \A v \in U16 : decode_u16(encode_u16(v)) = v
  /\ \A v \in U32 : decode_u32(encode_u32(v)) = v
  /\ \A v \in U64 : decode_u64(encode_u64(v)) = v
<1> USE PlaceTypes
<1>0. \A P, v \in Nat : v < P => v \div P = 0
  OBVIOUS
<1>1. ASSUME NEW v \in U16 PROVE decode_u16(encode_u16(v)) = v
  <2>0. v \in Nat /\ v \div Base2 = 0
    BY <1>0 DEF U16
  <2> DEFINE t1 == Base * (v \div Base)
             t2 == Base2 * (v \div Base2)
             d0 == v % Base
             d1 == (v \div Base) % Base
  <2>1. v = d0 + t1
    BY <2>0
  <2>2. t1 = d1 * Base + t2
    BY <2>0, NextDigit DEF Base2
  <2>3. t2 = 0
    BY <2>0
  <2>4. decode_u16(encode_u16(v)) = d0 + d1 * Base
    BY DEF decode_u16, encode_u16
  <2>5. d0 \in Nat /\ d1 \in Nat /\ t1 \in Nat
    BY <2>0
  <2> HIDE DEF t1, t2, d0, d1
  <2> QED BY <2>1, <2>2, <2>3, <2>4, <2>5
<1>2. ASSUME NEW v \in U32 PROVE decode_u32(encode_u32(v)) = v
  <2>0. v \in Nat /\ v \div Base4 = 0
    BY <1>0 DEF U32
  <2> DEFINE t1 == Base * (v \div Base)
             t2 == Base2 * (v \div Base2)
             t3 == Base3 * (v \div Base3)
             t4 == Base4 * (v \div Base4)
             e0 == v % Base
             e1 == ((v \div Base) % Base) * Base
             e2 == ((v \div Base2) % Base) * Base2
             e3 == ((v \div Base3) % Base) * Base3
  <2>1. v = e0 + t1
    BY <2>0
  <2>2. t1 = e1 + t2
    BY <2>0, NextDigit DEF Base2
  <2>3. t2 = e2 + t3
    BY <2>0, NextDigit DEF Base3
  <2>4. t3 = e3 + t4
    BY <2>0, NextDigit DEF Base4
  <2>5. t4 = 0
    BY <2>0
  <2>6. decode_u32(encode_u32(v)) = e0 + e1 + e2 + e3
    BY DEF decode_u32, encode_u32
  <2>7. e0 \in Nat /\ e1 \in Nat /\ e2 \in Nat /\ e3 \in Nat
    BY <2>0
  <2>8. t1 \in Nat /\ t2 \in Nat /\ t3 \in Nat
    BY <2>0
  <2> HIDE DEF t1, t2, t3, t4, e0, e1, e2, e3
  <2> QED BY <2>1, <2>2, <2>3, <2>4, <2>5, <2>6, <2>7, <2>8
<1>3. ASSUME NEW v \in U64 PROVE decode_u64(encode_u64(v)) = v
  <2>0. v \in Nat /\ v \div Base8 = 0
    BY <1>0 DEF U64
  <2> DEFINE t(P) == P * (v \div P)
             e(P) == ((v \div P) % Base) * P
             b == encode_u64(v)
  <2>1. \A P \in Nat \ {0} : t(P) = e(P) + t(P * Base) /\ t(P) \in Nat /\ e(P) \in Nat
    <3> SUFFICES ASSUME NEW P \in Nat \ {0}
                 PROVE  t(P) = e(P) + t(P * Base) /\ t(P) \in Nat /\ e(P) \in Nat
      OBVIOUS
    <3>0. \A x, y \in Nat : x * y \in Nat
      OBVIOUS
    <3>1. v \div P \in Nat /\ (v \div P) % Base \in Nat
      BY <2>0
    <3>2. t(P) \in Nat /\ e(P) \in Nat
      BY <3>0, <3>1
    <3>3. t(P) = e(P) + t(P * Base)
      BY <2>0, NextDigit
    <3> QED BY <3>2, <3>3
  <2>2. t(Base8) = 0
    BY <2>0
  <2>3. v = (v % Base) + t(Base) /\ v % Base \in Nat
    BY <2>0
  <2>4. /\ b[1] = v % Base /\ b[2] * Base = e(Base) /\ b[3] * Base2 = e(Base2)
        /\ b[4] * Base3 = e(Base3) /\ b[5] * Base4 = e(Base4) /\ b[6] * Base5 = e(Base5)
        /\ b[7] * Base6 = e(Base6) /\ b[8] * Base7 = e(Base7)
    <3>1. v \div 1 = v
      BY <2>0
    <3> QED BY <3>1 DEF encode_u64, Place
  <2>5. decode_u64(b) = (v % Base) + e(Base) + e(Base2) + e(Base3) + e(Base4) + e(Base5)
                          + e(Base6) + e(Base7)
    BY <2>4 DEF decode_u64
  <2> HIDE DEF t, e, b
  <2>6. /\ t(Base) = e(Base) + t(Base2) /\ t(Base2) = e(Base2) + t(Base3)
        /\ t(Base3) = e(Base3) + t(Base4) /\ t(Base4) = e(Base4) + t(Base5)
        /\ t(Base5) = e(Base5) + t(Base6) /\ t(Base6) = e(Base6) + t(Base7)
        /\ t(Base7) = e(Base7) + t(Base8)
    BY <2>1 DEF Base2, Base3, Base4, Base5, Base6, Base7, Base8
  <2> QED BY <2>1, <2>2, <2>3, <2>5, <2>6 DEF b
<1> QED BY <1>1, <1>2, <1>3

-----------------------------------------------------------------------------
(* Parts of a buffer.                                                      *)

\* The buffer in holds part at offset off.
Holds(in, off, part) ==
  /\ off + Len(part) <= Len(in)
  /\ \A i \in 1 .. Len(part) : in[off + i] = part[i]

\* A part of two holds each of them.
LEMMA HoldsBoth ==
  ASSUME NEW D, NEW in \in Seq(D), NEW off \in Nat, NEW a \in Seq(D), NEW b \in Seq(D),
         Holds(in, off, a \o b)
  PROVE  Holds(in, off, a) /\ Holds(in, off + Len(a), b)
<1>1. /\ Len(a) \in Nat /\ Len(b) \in Nat /\ Len(a \o b) = Len(a) + Len(b)
      /\ \A i \in 1 .. Len(a) : (a \o b)[i] = a[i]
      /\ \A i \in 1 .. Len(b) : (a \o b)[Len(a) + i] = b[i]
  BY ConcatProperties, LenProperties
<1>2. Holds(in, off, a)
  <2>1. off + Len(a) <= Len(in)
    BY <1>1, LenProperties DEF Holds
  <2>2. ASSUME NEW i \in 1 .. Len(a) PROVE in[off + i] = a[i]
    <3>1. i \in 1 .. Len(a \o b)
      BY <1>1
    <3> QED BY <1>1, <3>1 DEF Holds
  <2> QED BY <2>1, <2>2 DEF Holds
<1>3. Holds(in, off + Len(a), b)
  <2>1. off + Len(a) + Len(b) <= Len(in)
    BY <1>1, LenProperties DEF Holds
  <2>2. ASSUME NEW i \in 1 .. Len(b) PROVE in[off + Len(a) + i] = b[i]
    <3>1. Len(a) + i \in 1 .. Len(a \o b)
      BY <1>1
    <3>2. in[off + (Len(a) + i)] = (a \o b)[Len(a) + i]
      BY <3>1 DEF Holds
    <3>3. off + (Len(a) + i) = off + Len(a) + i
      BY <1>1
    <3> QED BY <1>1, <3>2, <3>3
  <2> QED BY <2>1, <2>2 DEF Holds
<1> QED BY <1>2, <1>3

\* in + n: what From sees of a buffer.
LEMMA FromBuffer ==
  ASSUME NEW D, NEW in \in Seq(D), NEW n \in 0 .. Len(in)
  PROVE  /\ From(in, n) \in Seq(D)
         /\ Len(From(in, n)) = Len(in) - n
         /\ \A i \in 1 .. Len(in) - n : From(in, n)[i] = in[n + i]
<1>0. Len(in) \in Nat /\ DOMAIN in = 1 .. Len(in)
  BY LenProperties
<1>1. n + 1 \in 1 .. Len(in) + 1 /\ Len(in) \in n .. Len(in)
  BY <1>0
<1>2. From(in, n) = [i \in 1 .. Len(in) - (n + 1) + 1 |-> in[i + (n + 1) - 1]]
  BY <1>0 DEF From
<1>3. Len(in) - (n + 1) + 1 = Len(in) - n /\ Len(in) - n \in Nat
  BY <1>0
<1>4. From(in, n) \in [1 .. Len(in) - n -> D]
  <2>1. \A i \in 1 .. Len(in) - n : i + (n + 1) - 1 \in 1 .. Len(in)
    BY <1>0
  <2>2. \A i \in 1 .. Len(in) : in[i] \in D
    BY ElementOfSeq
  <2> QED BY <1>2, <1>3, <2>1, <2>2
<1>5. \A i \in 1 .. Len(in) - n : i + (n + 1) - 1 = n + i
  BY <1>0
<1> QED BY <1>2, <1>3, <1>4, <1>5, TupleIsSeq

\* A part of what From sees is a part of the buffer.
LEMMA HoldsFrom ==
  ASSUME NEW D, NEW in \in Seq(D), NEW n \in Nat, NEW off \in Nat, NEW part \in Seq(D),
         Holds(in, n + off, part)
  PROVE  /\ n \in 0 .. Len(in) /\ From(in, n) \in Seq(D)
         /\ Holds(From(in, n), off, part)
<1>0. Len(in) \in Nat /\ Len(part) \in Nat
  BY LenProperties
<1>1. n \in 0 .. Len(in)
  BY <1>0 DEF Holds
<1>2. /\ From(in, n) \in Seq(D) /\ Len(From(in, n)) = Len(in) - n
      /\ \A i \in 1 .. Len(in) - n : From(in, n)[i] = in[n + i]
  BY <1>1, FromBuffer
<1>3. off + Len(part) <= Len(in) - n
  BY <1>0 DEF Holds
<1>4. ASSUME NEW i \in 1 .. Len(part) PROVE From(in, n)[off + i] = part[i]
  <2>1. off + i \in 1 .. Len(in) - n
    BY <1>0, <1>3
  <2>2. n + (off + i) = n + off + i
    BY <1>0
  <2> QED BY <1>2, <2>1, <2>2 DEF Holds
<1> QED BY <1>1, <1>2, <1>3, <1>4 DEF Holds

\* Reading an integer where it was written gives it back.
LEMMA ReadInteger ==
  ASSUME NEW in \in Seq(Byte), NEW off \in Nat
  PROVE  /\ \A v \in U16 : Holds(in, off, encode_u16(v)) => decode_u16(From(in, off)) = v
         /\ \A v \in U32 : Holds(in, off, encode_u32(v)) => decode_u32(From(in, off)) = v
         /\ \A v \in U64 : Holds(in, off, encode_u64(v)) => decode_u64(From(in, off)) = v
<1>0. /\ \A v \in U16 : v \in Nat
      /\ \A v \in U32 : v \in Nat
      /\ \A v \in U64 : v \in Nat
  BY PlaceTypes DEF U16, U32, U64
<1>1. ASSUME NEW part \in Seq(Byte), Holds(in, off, part)
      PROVE  \A i \in 1 .. Len(part) : From(in, off)[i] = part[i]
  <2>1. off + 0 = off
    OBVIOUS
  <2>2. Holds(From(in, off), 0, part)
    BY <1>1, <2>1, HoldsFrom
  <2> QED BY <2>2 DEF Holds
<1>2. ASSUME NEW v \in U16, Holds(in, off, encode_u16(v))
      PROVE  decode_u16(From(in, off)) = v
  <2>1. \A i \in 1 .. 2 : From(in, off)[i] = encode_u16(v)[i]
    BY <1>0, <1>1, <1>2, EncodedAreBytes
  <2>2. decode_u16(From(in, off)) = decode_u16(encode_u16(v))
    BY <2>1 DEF decode_u16
  <2> QED BY <2>2, IntegersRoundTrip
<1>3. ASSUME NEW v \in U32, Holds(in, off, encode_u32(v))
      PROVE  decode_u32(From(in, off)) = v
  <2>1. \A i \in 1 .. 4 : From(in, off)[i] = encode_u32(v)[i]
    BY <1>0, <1>1, <1>3, EncodedAreBytes
  <2>2. decode_u32(From(in, off)) = decode_u32(encode_u32(v))
    BY <2>1 DEF decode_u32
  <2> QED BY <2>2, IntegersRoundTrip
<1>4. ASSUME NEW v \in U64, Holds(in, off, encode_u64(v))
      PROVE  decode_u64(From(in, off)) = v
  <2>1. \A i \in 1 .. 8 : From(in, off)[i] = encode_u64(v)[i]
    BY <1>0, <1>1, <1>4, EncodedAreBytes
  <2>2. decode_u64(From(in, off)) = decode_u64(encode_u64(v))
    BY <2>1 DEF decode_u64
  <2> QED BY <2>2, IntegersRoundTrip
<1> QED BY <1>2, <1>3, <1>4

\* Whatever the bytes, what is read inside a buffer has its width.
LEMMA ReadInRange ==
  ASSUME NEW in \in Seq(Byte), NEW off \in Nat
  PROVE  /\ off + 2 <= Len(in) => decode_u16(From(in, off)) \in U16
         /\ off + 4 <= Len(in) => decode_u32(From(in, off)) \in U32
         /\ off + 8 <= Len(in) => decode_u64(From(in, off)) \in U64
<1>0. Len(in) \in Nat
  BY LenProperties
<1>1. ASSUME NEW n \in Nat, off + n <= Len(in)
      PROVE  \A i \in 1 .. n : From(in, off)[i] \in Byte
  <2>1. off \in 0 .. Len(in) /\ \A i \in 1 .. n : i \in 1 .. Len(in) - off
    BY <1>0, <1>1
  <2>2. From(in, off) \in Seq(Byte) /\ Len(From(in, off)) = Len(in) - off
    BY <2>1, FromBuffer
  <2> QED BY <2>1, <2>2, ElementOfSeq
<1> QED BY <1>1, DecodedInRange

-----------------------------------------------------------------------------
(* The structures of a recording.                                          *)

\* Integers are natural numbers.
LEMMA WidthsAreNat ==
  /\ \A v \in U16 : v \in Nat
  /\ \A v \in U32 : v \in Nat
  /\ \A v \in U64 : v \in Nat
  BY PlaceTypes DEF U16, U32, U64

\* Writing one part after another.
LEMMA TwoParts ==
  ASSUME NEW a \in Seq(Byte), NEW b \in Seq(Byte)
  PROVE  a \o b \in Seq(Byte) /\ Len(a \o b) = Len(a) + Len(b)
  BY ConcatProperties

\* The whole buffer.
LEMMA FromStart ==
  ASSUME NEW D, NEW in \in Seq(D) PROVE From(in, 0) = in
<1>0. Len(in) \in Nat
  BY LenProperties
<1>1. /\ From(in, 0) \in Seq(D) /\ Len(From(in, 0)) = Len(in)
      /\ \A i \in 1 .. Len(in) : From(in, 0)[i] = in[0 + i]
  BY <1>0, FromBuffer
<1>2. \A i \in 1 .. Len(in) : 0 + i = i
  BY <1>0
<1> QED BY <1>1, <1>2, SeqEqual

\* Padding.
LEMMA ZerosAreBytes ==
  ASSUME NEW n \in Nat
  PROVE  /\ Zeros(n) \in Seq(Byte) /\ Len(Zeros(n)) = n
         /\ \A i \in 1 .. n : Zeros(n)[i] = 0
<1>1. 0 \in Byte
  BY WireAssumption DEF Byte
<1>2. Zeros(n) \in [1 .. n -> Byte]
  BY <1>1 DEF Zeros
<1> QED BY <1>2, TupleIsSeq DEF Zeros

\* The header of a record has its fixed size.
LEMMA RecordHeaderSize ==
  ASSUME NEW h \in RecordHeaderType
  PROVE  /\ SerializeRecordHeader(h) \in Seq(Byte)
         /\ Len(SerializeRecordHeader(h)) = kRecordHeaderWireSize
<1>1. h.topic_id \in Nat /\ h.stamp_ns \in Nat /\ h.seq \in Nat
  BY WidthsAreNat DEF RecordHeaderType
<1> DEFINE a == encode_u16(h.topic_id)
           b == encode_u64(h.stamp_ns)
           c == encode_u64(h.seq)
<1>2. /\ a \in Seq(Byte) /\ Len(a) = 2 /\ b \in Seq(Byte) /\ Len(b) = 8
      /\ c \in Seq(Byte) /\ Len(c) = 8
  BY <1>1, EncodedAreBytes
<1>3. SerializeRecordHeader(h) = (a \o b) \o c
  BY DEF SerializeRecordHeader
<1> HIDE DEF a, b, c
<1>4. a \o b \in Seq(Byte) /\ Len(a \o b) = 10
  <2>1. a \o b \in Seq(Byte) /\ Len(a \o b) = Len(a) + Len(b)
    BY <1>2, TwoParts
  <2> QED BY <1>2, <2>1
<1>5. (a \o b) \o c \in Seq(Byte) /\ Len((a \o b) \o c) = 18
  <2>1. (a \o b) \o c \in Seq(Byte) /\ Len((a \o b) \o c) = Len(a \o b) + Len(c)
    BY <1>2, <1>4, TwoParts
  <2> QED BY <1>2, <1>4, <2>1
<1> QED BY <1>3, <1>5 DEF kRecordHeaderWireSize

\* RecordHeader::Deserialize reads what RecordHeader::Serialize wrote.
LEMMA ReadRecordHeader ==
  ASSUME NEW in \in Seq(Byte), NEW h \in RecordHeaderType,
         Holds(in, 0, SerializeRecordHeader(h))
  PROVE  DeserializeRecordHeader(in) = h
<1>1. /\ h.topic_id \in U16 /\ h.stamp_ns \in U64 /\ h.seq \in U64
      /\ h = [topic_id |-> h.topic_id, stamp_ns |-> h.stamp_ns, seq |-> h.seq]
  BY DEF RecordHeaderType
<1> DEFINE a == encode_u16(h.topic_id)
           b == encode_u64(h.stamp_ns)
           c == encode_u64(h.seq)
<1>2. /\ a \in Seq(Byte) /\ Len(a) = 2 /\ b \in Seq(Byte) /\ Len(b) = 8
      /\ c \in Seq(Byte) /\ Len(c) = 8
  BY <1>1, EncodedAreBytes, WidthsAreNat
<1>3. Holds(in, 0, (a \o b) \o c)
  BY DEF SerializeRecordHeader
<1> HIDE DEF a, b, c
<1>4. a \o b \in Seq(Byte) /\ Len(a \o b) = 10
  <2>1. a \o b \in Seq(Byte) /\ Len(a \o b) = Len(a) + Len(b)
    BY <1>2, TwoParts
  <2> QED BY <1>2, <2>1
<1>5. Holds(in, 0, a \o b) /\ Holds(in, 0 + 10, c)
  BY <1>2, <1>3, <1>4, HoldsBoth
<1>6. Holds(in, 0, a) /\ Holds(in, 0 + 2, b)
  BY <1>2, <1>5, HoldsBoth
<1>7. 0 + 2 = 2 /\ 0 + 10 = 10
  OBVIOUS
<1>8. decode_u16(From(in, 0)) = h.topic_id
  BY <1>1, <1>6, ReadInteger DEF a
<1>9. decode_u64(From(in, 2)) = h.stamp_ns
  BY <1>1, <1>6, <1>7, ReadInteger DEF b
<1>10. decode_u64(From(in, 10)) = h.seq
  BY <1>1, <1>5, <1>7, ReadInteger DEF c
<1> QED BY <1>1, <1>8, <1>9, <1>10, FromStart DEF DeserializeRecordHeader

\* The file header has its fixed size.
LEMMA FileHeaderSize ==
  ASSUME NEW h \in FileHeaderType
  PROVE  /\ SerializeFileHeader(h) \in Seq(Byte)
         /\ Len(SerializeFileHeader(h)) = kFileHeaderWireSize
<1>1. h.version \in Nat /\ h.topic_count \in Nat /\ h.created_at_ns \in Nat
  BY WidthsAreNat DEF FileHeaderType
<1> DEFINE m == kMagic
           a == encode_u32(h.version)
           b == encode_u32(h.topic_count)
           c == encode_u64(h.created_at_ns)
           z == Zeros(8)
<1>2. /\ m \in Seq(Byte) /\ Len(m) = 8 /\ a \in Seq(Byte) /\ Len(a) = 4
      /\ b \in Seq(Byte) /\ Len(b) = 4 /\ c \in Seq(Byte) /\ Len(c) = 8
      /\ z \in Seq(Byte) /\ Len(z) = 8
  BY <1>1, EncodedAreBytes, ZerosAreBytes, WireAssumption DEF Byte
<1>3. SerializeFileHeader(h) = (((m \o a) \o b) \o c) \o z
  BY DEF SerializeFileHeader
<1> HIDE DEF m, a, b, c, z
<1>4. m \o a \in Seq(Byte) /\ Len(m \o a) = 12
  <2>1. m \o a \in Seq(Byte) /\ Len(m \o a) = Len(m) + Len(a)
    BY <1>2, TwoParts
  <2> QED BY <1>2, <2>1
<1> DEFINE ma == m \o a
<1> HIDE DEF ma
<1>5. ma \o b \in Seq(Byte) /\ Len(ma \o b) = 16
  <2>1. ma \o b \in Seq(Byte) /\ Len(ma \o b) = Len(ma) + Len(b)
    BY <1>2, <1>4, TwoParts DEF ma
  <2> QED BY <1>2, <1>4, <2>1 DEF ma
<1> DEFINE mb == ma \o b
<1> HIDE DEF mb
<1>6. mb \o c \in Seq(Byte) /\ Len(mb \o c) = 24
  <2>1. mb \o c \in Seq(Byte) /\ Len(mb \o c) = Len(mb) + Len(c)
    BY <1>2, <1>5, TwoParts DEF mb
  <2> QED BY <1>2, <1>5, <2>1 DEF mb
<1> DEFINE mc == mb \o c
<1> HIDE DEF mc
<1>7. mc \o z \in Seq(Byte) /\ Len(mc \o z) = 32
  <2>1. mc \o z \in Seq(Byte) /\ Len(mc \o z) = Len(mc) + Len(z)
    BY <1>2, <1>6, TwoParts DEF mc
  <2> QED BY <1>2, <1>6, <2>1 DEF mc
<1> QED BY <1>3, <1>7 DEF kFileHeaderWireSize, ma, mb, mc

\* FileHeader::Deserialize reads what FileHeader::Serialize wrote.
LEMMA ReadFileHeader ==
  ASSUME NEW in \in Seq(Byte), NEW h \in FileHeaderType,
         Holds(in, 0, SerializeFileHeader(h))
  PROVE  HasMagic(in) /\ DeserializeFileHeader(in) = h
<1>1. /\ h.version \in U32 /\ h.topic_count \in U32 /\ h.created_at_ns \in U64
      /\ h = [version |-> h.version, topic_count |-> h.topic_count,
              created_at_ns |-> h.created_at_ns]
  BY DEF FileHeaderType
<1> DEFINE m == kMagic
           a == encode_u32(h.version)
           b == encode_u32(h.topic_count)
           c == encode_u64(h.created_at_ns)
           z == Zeros(8)
           ma == m \o a
           mb == ma \o b
           mc == mb \o c
<1>2. /\ m \in Seq(Byte) /\ Len(m) = 8 /\ a \in Seq(Byte) /\ Len(a) = 4
      /\ b \in Seq(Byte) /\ Len(b) = 4 /\ c \in Seq(Byte) /\ Len(c) = 8
      /\ z \in Seq(Byte) /\ Len(z) = 8
  BY <1>1, WidthsAreNat, EncodedAreBytes, ZerosAreBytes, WireAssumption DEF Byte
<1>3. Holds(in, 0, mc \o z)
  BY DEF SerializeFileHeader
<1> HIDE DEF m, a, b, c, z, mb, mc
<1>4. ma \in Seq(Byte) /\ Len(ma) = 12
  <2>1. m \o a \in Seq(Byte) /\ Len(m \o a) = Len(m) + Len(a)
    BY <1>2, TwoParts
  <2> QED BY <1>2, <2>1
<1> HIDE DEF ma
<1>5. mb \in Seq(Byte) /\ Len(mb) = 16
  <2>1. ma \o b \in Seq(Byte) /\ Len(ma \o b) = Len(ma) + Len(b)
    BY <1>2, <1>4, TwoParts
  <2> QED BY <1>2, <1>4, <2>1 DEF mb
<1>6. mc \in Seq(Byte)
  BY <1>2, <1>5, TwoParts DEF mc
<1>7. Holds(in, 0, mc)
  BY <1>2, <1>3, <1>6, HoldsBoth
<1>8. Holds(in, 0, mb) /\ Holds(in, 0 + 16, c)
  BY <1>2, <1>5, <1>7, HoldsBoth DEF mc
<1>9. Holds(in, 0, ma) /\ Holds(in, 0 + 12, b)
  BY <1>2, <1>4, <1>8, HoldsBoth DEF mb
<1>10. Holds(in, 0, m) /\ Holds(in, 0 + 8, a)
  BY <1>2, <1>9, HoldsBoth DEF ma
<1>11. 0 + 8 = 8 /\ 0 + 12 = 12 /\ 0 + 16 = 16
  OBVIOUS
<1>12. decode_u32(From(in, 8)) = h.version
  BY <1>1, <1>10, <1>11, ReadInteger DEF a
<1>13. decode_u32(From(in, 12)) = h.topic_count
  BY <1>1, <1>9, <1>11, ReadInteger DEF b
<1>14. decode_u64(From(in, 16)) = h.created_at_ns
  BY <1>1, <1>8, <1>11, ReadInteger DEF c
<1>15. HasMagic(in)
  <2>1. Len(in) \in Nat /\ 8 <= Len(in) /\ \A i \in 1 .. 8 : in[0 + i] = kMagic[i]
    BY <1>2, <1>10, LenProperties DEF Holds, m
  <2>2. \A i \in 1 .. 8 : in[i] = kMagic[i]
    BY <2>1
  <2>3. SubSeq(in, 1, 8) = [i \in 1 .. 8 |-> in[i]]
    BY <2>1
  <2>4. kMagic = [i \in 1 .. 8 |-> kMagic[i]]
    BY <1>2 DEF m
  <2> QED BY <2>2, <2>3, <2>4 DEF HasMagic
<1> QED BY <1>1, <1>12, <1>13, <1>14, <1>15 DEF DeserializeFileHeader

\* A prefix of a sequence.
LEMMA PrefixOf ==
  ASSUME NEW D, NEW in \in Seq(D), NEW n \in 0 .. Len(in)
  PROVE  /\ SubSeq(in, 1, n) \in Seq(D) /\ Len(SubSeq(in, 1, n)) = n
         /\ \A i \in 1 .. n : SubSeq(in, 1, n)[i] = in[i]
<1>0. Len(in) \in Nat /\ n \in Nat
  BY LenProperties
<1>1. \A i \in 1 .. n : i \in 1 .. Len(in) /\ in[i] \in D
  BY <1>0, ElementOfSeq
<1>2. SubSeq(in, 1, n) = [i \in 1 .. n |-> in[i]]
  BY <1>0
<1>3. SubSeq(in, 1, n) \in [1 .. n -> D]
  BY <1>1, <1>2
<1> QED BY <1>0, <1>2, <1>3, TupleIsSeq

\* What is kept of a name leaves room for its terminating zero.
LEMMA TruncatedFits ==
  ASSUME NEW name \in Seq(Byte \ {0})
  PROVE  /\ Truncated(name) \in Seq(Byte \ {0}) /\ Truncated(name) \in Seq(Byte)
         /\ Len(Truncated(name)) \in 0 .. NameBytes - 1
<1> DEFINE n == IF Len(name) < NameBytes THEN Len(name) ELSE NameBytes - 1
<1>1. n \in 0 .. Len(name) /\ n \in 0 .. NameBytes - 1
  BY WireAssumption, LenProperties
<1>2. Truncated(name) = SubSeq(name, 1, n)
  BY DEF Truncated
<1> HIDE DEF n
<1>3. Truncated(name) \in Seq(Byte \ {0}) /\ Len(Truncated(name)) = n
  BY <1>1, <1>2, PrefixOf
<1>4. Truncated(name) \in Seq(Byte)
  <2>1. DOMAIN Truncated(name) = 1 .. n /\ \A i \in 1 .. n : Truncated(name)[i] \in Byte
    BY <1>3, LenProperties, ElementOfSeq
  <2>2. Truncated(name) \in [1 .. n -> Byte] /\ n \in Nat
    BY <1>1, <1>3, <2>1, SeqDef
  <2> QED BY <2>2, TupleIsSeq
<1> QED BY <1>1, <1>3, <1>4

\* The string before the first zero byte of a field has no zero byte, whatever
\* the field holds.
LEMMA CStringType ==
  ASSUME NEW f \in Seq(Byte) PROVE CString(f) \in Seq(Byte \ {0})
<1> DEFINE End(k) == (\A j \in 1 .. k : f[j] # 0) /\ (k = Len(f) \/ f[k + 1] = 0)
           n == CHOOSE k \in 0 .. Len(f) : End(k)
           S == {k \in 0 .. Len(f) : k = Len(f) \/ f[k + 1] = 0}
<1>0. Len(f) \in Nat
  BY LenProperties
<1>1. PICK m \in S : \A k \in S : m <= k
  <2>1. S \in SUBSET Nat /\ Len(f) \in S
    BY <1>0
  <2> HIDE DEF S
  <2> QED BY <2>1, LeastNat
<1>2. ASSUME NEW j \in 1 .. m PROVE f[j] # 0
  <2>1. j - 1 \notin S
    <3>1. m \in Nat /\ ~(m <= j - 1)
      BY <1>0, <1>1
    <3> HIDE DEF S
    <3> QED BY <1>1, <3>1
  <2>2. j - 1 \in 0 .. Len(f) /\ j - 1 + 1 = j
    BY <1>0, <1>1
  <2> QED BY <2>1, <2>2
<1>3. m \in 0 .. Len(f) /\ End(m)
  BY <1>1, <1>2
<1> HIDE DEF S
<1>4. n \in 0 .. Len(f) /\ End(n)
  <2> HIDE DEF End
  <2> QED BY <1>3
<1>5. CString(f) = SubSeq(f, 1, n)
  BY DEF CString
<1> HIDE DEF n
<1>6. /\ CString(f) \in Seq(Byte) /\ Len(CString(f)) = n
      /\ \A i \in 1 .. n : CString(f)[i] = f[i]
  BY <1>4, <1>5, PrefixOf
<1>7. \A i \in 1 .. n : CString(f)[i] \in Byte \ {0}
  BY <1>4, <1>6, ElementOfSeq
<1>8. CString(f) \in [1 .. n -> Byte \ {0}]
  BY <1>6, <1>7, SeqDef, LenProperties
<1> QED BY <1>0, <1>4, <1>8, TupleIsSeq

\* A name that is followed by a zero byte is read back.
LEMMA CStringReads ==
  ASSUME NEW f \in Seq(Byte), NEW t \in Seq(Byte \ {0}), Len(t) < Len(f),
         \A i \in 1 .. Len(t) : f[i] = t[i], f[Len(t) + 1] = 0
  PROVE  CString(f) = t
<1> DEFINE End(k) == (\A j \in 1 .. k : f[j] # 0) /\ (k = Len(f) \/ f[k + 1] = 0)
           n == CHOOSE k \in 0 .. Len(f) : End(k)
<1>0. Len(f) \in Nat /\ Len(t) \in Nat
  BY LenProperties
<1>1. \A j \in 1 .. Len(t) : f[j] # 0
  BY ElementOfSeq
<1>2. Len(t) \in 0 .. Len(f) /\ End(Len(t))
  BY <1>0, <1>1
<1>3. ASSUME NEW k \in 0 .. Len(f), End(k) PROVE k = Len(t)
  <2>1. ~(k < Len(t))
    <3> SUFFICES ASSUME k < Len(t) PROVE FALSE
      OBVIOUS
    <3>1. k # Len(f) /\ k + 1 \in 1 .. Len(t)
      BY <1>0
    <3> QED BY <1>1, <1>3, <3>1
  <2>2. ~(Len(t) < k)
    <3> SUFFICES ASSUME Len(t) < k PROVE FALSE
      OBVIOUS
    <3>1. Len(t) + 1 \in 1 .. k
      BY <1>0
    <3> QED BY <1>3, <3>1
  <2> QED BY <1>0, <2>1, <2>2
<1>4. n = Len(t)
  <2> HIDE DEF End
  <2> QED BY <1>2, <1>3
<1>5. CString(f) = SubSeq(f, 1, n)
  BY DEF CString
<1> HIDE DEF n, End
<1>6. /\ CString(f) \in Seq(Byte) /\ Len(CString(f)) = Len(t)
      /\ \A i \in 1 .. Len(t) : CString(f)[i] = t[i]
  BY <1>2, <1>4, <1>5, PrefixOf
<1> QED BY <1>6, SeqEqual

\* The entry of a topic has its fixed size.
LEMMA TopicMetaSize ==
  ASSUME NEW t \in TopicMetaType
  PROVE  /\ SerializeTopicMeta(t) \in Seq(Byte)
         /\ Len(SerializeTopicMeta(t)) = kTopicMetaWireSize
<1>1. t.topic_id \in Nat /\ t.struct_size \in Nat /\ t.name \in Seq(Byte \ {0})
  BY WidthsAreNat DEF TopicMetaType
<1> DEFINE a == encode_u16(t.topic_id)
           b == encode_u32(t.struct_size)
           n == Truncated(t.name)
           z == Zeros(NameBytes - Len(n))
<1>2. /\ a \in Seq(Byte) /\ Len(a) = 2 /\ b \in Seq(Byte) /\ Len(b) = 4
      /\ n \in Seq(Byte) /\ Len(n) \in 0 .. NameBytes - 1
  BY <1>1, EncodedAreBytes, TruncatedFits
<1>3. NameBytes \in Nat /\ NameBytes - Len(n) \in Nat /\ Len(n) \in Nat
  BY <1>2, WireAssumption
<1>4. z \in Seq(Byte) /\ Len(z) = NameBytes - Len(n)
  BY <1>3, ZerosAreBytes
<1>5. SerializeTopicMeta(t) = ((a \o b) \o n) \o z
  BY DEF SerializeTopicMeta
<1> HIDE DEF a, b, n, z
<1>6. a \o b \in Seq(Byte) /\ Len(a \o b) = 6
  <2>1. a \o b \in Seq(Byte) /\ Len(a \o b) = Len(a) + Len(b)
    BY <1>2, TwoParts
  <2> QED BY <1>2, <2>1
<1> DEFINE ab == a \o b
<1> HIDE DEF ab
<1>7. ab \o n \in Seq(Byte) /\ Len(ab \o n) = 6 + Len(n)
  <2>1. ab \o n \in Seq(Byte) /\ Len(ab \o n) = Len(ab) + Len(n)
    BY <1>2, <1>6, TwoParts DEF ab
  <2> QED BY <1>6, <2>1 DEF ab
<1> DEFINE abn == ab \o n
<1> HIDE DEF abn
<1>8. abn \o z \in Seq(Byte) /\ Len(abn \o z) = 6 + NameBytes
  <2>1. abn \o z \in Seq(Byte) /\ Len(abn \o z) = Len(abn) + Len(z)
    BY <1>4, <1>7, TwoParts DEF abn
  <2> QED BY <1>3, <1>4, <1>7, <2>1 DEF abn
<1>9. 6 + NameBytes = kTopicMetaWireSize
  BY <1>3 DEF kTopicMetaWireSize
<1> QED BY <1>5, <1>8, <1>9 DEF ab, abn

\* TopicMetaEntry::Deserialize reads what TopicMetaEntry::Serialize wrote, except
\* for what was cut off the name.
LEMMA ReadTopicMeta ==
  ASSUME NEW in \in Seq(Byte), NEW t \in TopicMetaType,
         Holds(in, 0, SerializeTopicMeta(t))
  PROVE  DeserializeTopicMeta(in) = [t EXCEPT !.name = Truncated(t.name)]
<1>1. /\ t.topic_id \in U16 /\ t.struct_size \in U32 /\ t.name \in Seq(Byte \ {0})
      /\ [t EXCEPT !.name = Truncated(t.name)]
           = [topic_id |-> t.topic_id, struct_size |-> t.struct_size,
              name |-> Truncated(t.name)]
  BY DEF TopicMetaType
<1> DEFINE a == encode_u16(t.topic_id)
           b == encode_u32(t.struct_size)
           n == Truncated(t.name)
           z == Zeros(NameBytes - Len(n))
           ab == a \o b
           abn == ab \o n
<1>2. /\ a \in Seq(Byte) /\ Len(a) = 2 /\ b \in Seq(Byte) /\ Len(b) = 4
      /\ n \in Seq(Byte) /\ n \in Seq(Byte \ {0}) /\ Len(n) \in 0 .. NameBytes - 1
  BY <1>1, WidthsAreNat, EncodedAreBytes, TruncatedFits
<1>3. NameBytes \in Nat \ {0} /\ NameBytes - Len(n) \in Nat \ {0} /\ Len(n) \in Nat
  BY <1>2, WireAssumption
<1>4. /\ z \in Seq(Byte) /\ Len(z) = NameBytes - Len(n)
      /\ z[1] = 0
  BY <1>3, ZerosAreBytes
<1>5. Holds(in, 0, abn \o z)
  BY DEF SerializeTopicMeta
<1> HIDE DEF a, b, n, z, abn
<1>6. ab \in Seq(Byte) /\ Len(ab) = 6
  <2>1. a \o b \in Seq(Byte) /\ Len(a \o b) = Len(a) + Len(b)
    BY <1>2, TwoParts
  <2> QED BY <1>2, <2>1
<1> HIDE DEF ab
<1>7. abn \in Seq(Byte) /\ Len(abn) = 6 + Len(n)
  <2>1. ab \o n \in Seq(Byte) /\ Len(ab \o n) = Len(ab) + Len(n)
    BY <1>2, <1>6, TwoParts
  <2> QED BY <1>6, <2>1 DEF abn
<1>8. Holds(in, 0, abn) /\ Holds(in, 0 + (6 + Len(n)), z)
  BY <1>4, <1>5, <1>7, HoldsBoth
<1>9. Holds(in, 0, ab) /\ Holds(in, 0 + 6, n)
  BY <1>2, <1>6, <1>8, HoldsBoth DEF abn
<1>10. Holds(in, 0, a) /\ Holds(in, 0 + 2, b)
  BY <1>2, <1>9, HoldsBoth DEF ab
<1>11. 0 + 2 = 2 /\ 0 + 6 = 6 /\ 0 + (6 + Len(n)) = 6 + Len(n)
  BY <1>3
<1>12. decode_u16(From(in, 0)) = t.topic_id
  BY <1>1, <1>10, ReadInteger DEF a
<1>13. decode_u32(From(in, 2)) = t.struct_size
  BY <1>1, <1>10, <1>11, ReadInteger DEF b
<1> DEFINE f == SubSeq(in, 7, 6 + NameBytes)
<1>14. /\ Len(in) \in Nat /\ 6 + NameBytes <= Len(in)
       /\ \A i \in 1 .. Len(n) : in[6 + i] = n[i]
       /\ in[6 + Len(n) + 1] = 0
  <2>1. Len(in) \in Nat
    BY LenProperties
  <2>2. 6 + Len(n) + Len(z) <= Len(in) /\ in[6 + Len(n) + 1] = z[1]
    BY <1>3, <1>4, <1>8, <1>11 DEF Holds
  <2>3. \A i \in 1 .. Len(n) : in[6 + i] = n[i]
    BY <1>9, <1>11 DEF Holds
  <2> QED BY <1>3, <1>4, <2>1, <2>2, <2>3
<1>15. f \in Seq(Byte) /\ Len(f) = NameBytes /\ \A i \in 1 .. NameBytes : f[i] = in[6 + i]
  <2>1. f = [i \in 1 .. NameBytes |-> in[6 + i]]
    <3>1. 6 + NameBytes - 7 + 1 = NameBytes /\ \A i \in 1 .. NameBytes : i + 7 - 1 = 6 + i
      BY <1>3
    <3> QED BY <1>3, <1>14, <3>1
  <2>2. \A i \in 1 .. NameBytes : in[6 + i] \in Byte
    BY <1>3, <1>14, ElementOfSeq
  <2>3. f \in [1 .. NameBytes -> Byte]
    BY <2>1, <2>2
  <2> QED BY <1>3, <2>1, <2>3, TupleIsSeq
<1> HIDE DEF f
<1>16. CString(f) = n
  <2>1. Len(n) < Len(f) /\ Len(n) + 1 \in 1 .. NameBytes
    BY <1>2, <1>3, <1>15
  <2>2. \A i \in 1 .. Len(n) : f[i] = n[i]
    <3>1. \A i \in 1 .. Len(n) : i \in 1 .. NameBytes
      BY <1>2, <1>3
    <3> QED BY <1>14, <1>15, <3>1
  <2>3. f[Len(n) + 1] = 0
    <3>1. 6 + (Len(n) + 1) = 6 + Len(n) + 1
      BY <1>3
    <3> QED BY <1>14, <1>15, <2>1, <3>1
  <2> QED BY <1>2, <1>15, <2>1, <2>2, <2>3, CStringReads
<1> QED BY <1>1, <1>12, <1>13, <1>16, FromStart DEF DeserializeTopicMeta, f, n

-----------------------------------------------------------------------------
(* A file written part after part.                                         *)

\* A part of a part.
LEMMA HoldsInner ==
  ASSUME NEW D, NEW in \in Seq(D), NEW off \in Nat, NEW mid \in Seq(D), NEW at \in Nat,
         NEW part \in Seq(D), Holds(in, off, mid), Holds(mid, at, part)
  PROVE  Holds(in, off + at, part)
<1>0. Len(in) \in Nat /\ Len(mid) \in Nat /\ Len(part) \in Nat
  BY LenProperties
<1>1. off + at + Len(part) <= Len(in)
  BY <1>0 DEF Holds
<1>2. ASSUME NEW i \in 1 .. Len(part) PROVE in[off + at + i] = part[i]
  <2>1. at + i \in 1 .. Len(mid)
    BY <1>0 DEF Holds
  <2>2. in[off + (at + i)] = mid[at + i] /\ mid[at + i] = part[i]
    BY <2>1 DEF Holds
  <2>3. off + (at + i) = off + at + i
    BY <1>0
  <2> QED BY <2>2, <2>3
<1> QED BY <1>1, <1>2 DEF Holds

\* A sequence holds itself; of two, each is where it was put.
LEMMA HoldsItself ==
  ASSUME NEW D, NEW a \in Seq(D), NEW b \in Seq(D)
  PROVE  Holds(a, 0, a) /\ Holds(a \o b, 0, a) /\ Holds(a \o b, Len(a), b)
<1>1. Len(a) \in Nat /\ a \o b \in Seq(D)
  BY LenProperties, ConcatProperties
<1>2. \A c \in Seq(D) : Holds(c, 0, c)
  <2> SUFFICES ASSUME NEW c \in Seq(D) PROVE Holds(c, 0, c)
    OBVIOUS
  <2>1. Len(c) \in Nat
    BY LenProperties
  <2>2. 0 + Len(c) <= Len(c) /\ \A i \in 1 .. Len(c) : 0 + i = i
    BY <2>1
  <2> QED BY <2>2 DEF Holds
<1>3. Holds(a \o b, 0, a) /\ Holds(a \o b, 0 + Len(a), b)
  BY <1>1, <1>2, HoldsBoth
<1>4. 0 + Len(a) = Len(a)
  BY <1>1
<1> QED BY <1>2, <1>3, <1>4

\* The equation of Appended.
Accumulates(A, D, first, parts) ==
  /\ A \in [0 .. Len(parts) -> Seq(D)]
  /\ A[0] = first
  /\ \A i \in 1 .. Len(parts) : A[i] = A[i - 1] \o parts[i]

\* Appended is what its equation says: by induction on the number of parts it
\* exists, and by a second one it consists of sequences.
LEMMA AppendedUnfolds ==
  ASSUME NEW D, NEW first \in Seq(D), NEW parts \in Seq(Seq(D))
  PROVE  Accumulates(Appended(first, parts), D, first, parts)
<1> DEFINE n == Len(parts)
           Rec(f, m) == /\ f \in [0 .. m -> Seq(D)]
                        /\ f[0] = first
                        /\ \A i \in 1 .. m : f[i] = f[i - 1] \o parts[i]
           Exists(m) == \E f : Rec(f, m)
           S == {m \in 0 .. n : ~Exists(m)}
<1>0. n \in Nat /\ \A i \in 1 .. n : parts[i] \in Seq(D)
  OBVIOUS
<1> HIDE DEF n
<1>1. Exists(0)
  <2>1. Rec([i \in 0 .. 0 |-> first], 0)
    OBVIOUS
  <2> QED BY <2>1
<1>2. ASSUME NEW m \in 1 .. n, Exists(m - 1) PROVE Exists(m)
  <2>0. PICK f : Rec(f, m - 1)
    BY <1>2
  <2> DEFINE last == f[m - 1] \o parts[m]
             g == [i \in 0 .. m |-> IF i = m THEN last ELSE f[i]]
  <2>1. m \in Nat \ {0} /\ m - 1 \in 0 .. m - 1 /\ f[m - 1] \in Seq(D) /\ parts[m] \in Seq(D)
    BY <1>0, <2>0
  <2>2. last \in Seq(D)
    BY <2>1, ConcatProperties
  <2>7. last = f[m - 1] \o parts[m]
    OBVIOUS
  <2> HIDE DEF last
  <2>3. g \in [0 .. m -> Seq(D)]
    BY <2>0, <2>1, <2>2
  <2>4. g[0] = first
    BY <2>0, <2>1
  <2>5. ASSUME NEW i \in 1 .. m PROVE g[i] = g[i - 1] \o parts[i]
    <3>0. i \in 0 .. m /\ i - 1 \in 0 .. m /\ i - 1 # m
      BY <2>1
    <3>1. CASE i = m
      BY <3>0, <2>7, <3>1
    <3>2. CASE i # m
      <4>1. i \in 1 .. m - 1
        BY <2>1, <3>2
      <4>2. g[i] = f[i] /\ g[i - 1] = f[i - 1]
        BY <3>0, <3>2
      <4> HIDE DEF g
      <4> QED BY <4>1, <4>2, <2>0
    <3> QED BY <3>1, <3>2
  <2> HIDE DEF g
  <2>6. Rec(g, m)
    BY <2>3, <2>4, <2>5
  <2> QED BY <2>6
<1> HIDE DEF Exists
<1>3. S = {}
  <2> SUFFICES ASSUME S # {} PROVE FALSE
    OBVIOUS
  <2>1. S \in SUBSET Nat
    BY <1>0
  <2>2. PICK m \in S : \A k \in S : m <= k
    BY <2>1, LeastNat
  <2>3. m \in 1 .. n
    BY <2>2, <1>0, <1>1
  <2>4. m - 1 \in 0 .. n /\ m - 1 \notin S
    BY <2>2, <2>3, <1>0
  <2> QED BY <2>2, <2>3, <2>4, <1>2
<1>4. PICK f : Rec(f, n)
  <2>1. Exists(n)
    BY <1>3, <1>0
  <2> QED BY <2>1 DEF Exists
<1>5. f = [i \in 0 .. Len(parts) |-> IF i = 0 THEN first ELSE f[i - 1] \o parts[i]]
  <2>1. ASSUME NEW i \in 0 .. n
        PROVE  f[i] = IF i = 0 THEN first ELSE f[i - 1] \o parts[i]
    <3>1. CASE i = 0
      BY <1>4, <3>1
    <3>2. CASE i # 0
      <4>1. i \in 1 .. n
        BY <1>0, <3>2
      <4> QED BY <4>1, <3>2, <1>4
    <3> QED BY <3>1, <3>2
  <2> QED BY <2>1, <1>4, <1>0 DEF n
<1> DEFINE h == CHOOSE h : h = [i \in 0 .. Len(parts) |-> IF i = 0 THEN first ELSE h[i - 1] \o parts[i]]
<1>6. h = [i \in 0 .. Len(parts) |-> IF i = 0 THEN first ELSE h[i - 1] \o parts[i]]
  <2> HIDE DEF Rec, S
  <2> QED BY <1>5
<1>7. Appended(first, parts) = h
  BY DEF Appended, h
<1> HIDE DEF h, Rec, S
<1>8. DOMAIN h = 0 .. n /\ h[0] = first /\ \A i \in 1 .. n : h[i] = h[i - 1] \o parts[i]
  <2>1. DOMAIN h = 0 .. n
    BY <1>6 DEF n
  <2>2. \A i \in 0 .. n : h[i] = IF i = 0 THEN first ELSE h[i - 1] \o parts[i]
    BY <1>6 DEF n
  <2>3. 0 \in 0 .. n /\ \A i \in 1 .. n : i \in 0 .. n /\ i # 0
    BY <1>0
  <2> QED BY <2>1, <2>2, <2>3
<1>9. h \in [0 .. n -> Seq(D)]
  <2> DEFINE T == {m \in 0 .. n : h[m] \notin Seq(D)}
  <2>1. SUFFICES ASSUME T # {} PROVE FALSE
    <3>1. \A m \in 0 .. n : h[m] \in Seq(D)
      BY <2>1
    <3>2. h = [i \in 0 .. n |-> h[i]]
      BY <1>6 DEF n
    <3> QED BY <3>1, <3>2
  <2>2. PICK m \in T : \A k \in T : m <= k
    <3>1. T \in SUBSET Nat
      BY <1>0
    <3> QED BY <2>1, <3>1, LeastNat
  <2>3. m \in 1 .. n /\ m - 1 \in 0 .. n /\ m - 1 \notin T
    BY <2>2, <1>8, <1>0
  <2>4. h[m - 1] \in Seq(D) /\ parts[m] \in Seq(D) /\ h[m] = h[m - 1] \o parts[m]
    BY <2>3, <1>8, <1>0
  <2>5. h[m - 1] \o parts[m] \in Seq(D)
    BY <2>4, ConcatProperties
  <2>6. h[m] \notin Seq(D)
    BY <2>2
  <2> QED BY <2>4, <2>5, <2>6
<1> QED BY <1>7, <1>8, <1>9 DEF n, Accumulates

\* What was in the file after i parts is still there after j.
LEMMA AppendedKeeps ==
  ASSUME NEW D, NEW first \in Seq(D), NEW parts \in Seq(Seq(D)),
         NEW i \in 0 .. Len(parts), NEW j \in i .. Len(parts)
  PROVE  Holds(Appended(first, parts)[j], 0, Appended(first, parts)[i])
<1> DEFINE A == Appended(first, parts)
           n == Len(parts)
           T == {k \in i .. n : ~Holds(A[k], 0, A[i])}
<1>0. n \in Nat /\ \A k \in 1 .. n : parts[k] \in Seq(D)
  BY LenProperties, ElementOfSeq
<1>1. A \in [0 .. n -> Seq(D)] /\ \A k \in 1 .. n : A[k] = A[k - 1] \o parts[k]
  <2>1. Accumulates(A, D, first, parts)
    BY AppendedUnfolds
  <2> QED BY <2>1 DEF Accumulates
<1> HIDE DEF A, n
<1>2. SUFFICES ASSUME T # {} PROVE FALSE
  BY <1>2 DEF A, n
<1>3. PICK m \in T : \A k \in T : m <= k
  <2>1. T \in SUBSET Nat
    BY <1>0 DEF n
  <2> HIDE DEF T
  <2> QED BY <1>2, <2>1, LeastNat
<1>4. i \in 0 .. n /\ m \in i .. n /\ A[i] \in Seq(D)
  BY <1>1, <1>3 DEF n
<1>5. m # i
  BY <1>3, <1>4, HoldsItself
<1>6. m - 1 \in i .. n /\ m \in 1 .. n /\ m - 1 \in 0 .. n
  BY <1>0, <1>4, <1>5
<1>7. Holds(A[m - 1], 0, A[i])
  <2>1. ~(m <= m - 1)
    BY <1>0, <1>4
  <2>2. m - 1 \notin T
    <3> HIDE DEF T
    <3> QED BY <1>3, <2>1
  <2> QED BY <1>6, <2>2
<1>8. A[m] = A[m - 1] \o parts[m] /\ A[m - 1] \in Seq(D) /\ parts[m] \in Seq(D)
  BY <1>0, <1>1, <1>6
<1>9. Holds(A[m], 0, A[m - 1]) /\ A[m] \in Seq(D)
  BY <1>8, HoldsItself, ConcatProperties
<1>10. Holds(A[m], 0 + 0, A[i])
  BY <1>4, <1>7, <1>8, <1>9, HoldsInner
<1> QED BY <1>3, <1>10

\* After j parts the file holds the i-th at the place where the i - 1 before it
\* ended.
LEMMA AppendedHolds ==
  ASSUME NEW D, NEW first \in Seq(D), NEW parts \in Seq(Seq(D)),
         NEW i \in 1 .. Len(parts), NEW j \in i .. Len(parts)
  PROVE  Holds(Appended(first, parts)[j], Len(Appended(first, parts)[i - 1]), parts[i])
<1> DEFINE A == Appended(first, parts)
           n == Len(parts)
<1>0. n \in Nat /\ parts[i] \in Seq(D)
  BY LenProperties, ElementOfSeq
<1>1. A \in [0 .. n -> Seq(D)] /\ A[i] = A[i - 1] \o parts[i]
  <2>1. Accumulates(A, D, first, parts)
    BY AppendedUnfolds
  <2> QED BY <2>1 DEF Accumulates
<1>2. i \in 0 .. n /\ j \in 0 .. n /\ i - 1 \in 0 .. n
  BY <1>0
<1>3. Holds(A[j], 0, A[i])
  BY <1>2, AppendedKeeps
<1> HIDE DEF A, n
<1>4. A[i] \in Seq(D) /\ A[j] \in Seq(D) /\ A[i - 1] \in Seq(D)
  BY <1>1, <1>2
<1>5. Holds(A[i], Len(A[i - 1]), parts[i])
  BY <1>0, <1>1, <1>4, HoldsItself
<1>6. Len(A[i - 1]) \in Nat /\ 0 + Len(A[i - 1]) = Len(A[i - 1])
  BY <1>4, LenProperties
<1>7. Holds(A[j], 0 + Len(A[i - 1]), parts[i])
  BY <1>0, <1>3, <1>4, <1>5, <1>6, HoldsInner
<1> QED BY <1>6, <1>7 DEF A

-----------------------------------------------------------------------------
(* The codec.                                                              *)

\* What is written into a buffer is at its start, whatever follows.
LEMMA AtStart ==
  ASSUME NEW a \in Seq(Byte), NEW rest \in Seq(Byte)
  PROVE  a \o rest \in Seq(Byte) /\ Holds(a \o rest, 0, a)
  BY HoldsItself, TwoParts

\* IndexEntry::Deserialize reads what IndexEntry::Serialize wrote.
LEMMA ReadIndexEntry ==
  ASSUME NEW e \in IndexEntryType, NEW rest \in Seq(Byte)
  PROVE  /\ SerializeIndexEntry(e) \in Seq(Byte)
         /\ Len(SerializeIndexEntry(e)) = kIndexEntryWireSize
         /\ DeserializeIndexEntry(SerializeIndexEntry(e) \o rest) = e
<1>1. /\ e.stamp_ns \in U64 /\ e.byte_offset \in U64 /\ e.topic_id \in U16
      /\ e = [stamp_ns |-> e.stamp_ns, byte_offset |-> e.byte_offset,
              topic_id |-> e.topic_id]
  BY DEF IndexEntryType
<1> DEFINE a == encode_u64(e.stamp_ns)
           b == encode_u64(e.byte_offset)
           c == encode_u16(e.topic_id)
           ab == a \o b
           abc == ab \o c
           in == abc \o rest
<1>2. /\ a \in Seq(Byte) /\ Len(a) = 8 /\ b \in Seq(Byte) /\ Len(b) = 8
      /\ c \in Seq(Byte) /\ Len(c) = 2
  BY <1>1, EncodedAreBytes, WidthsAreNat
<1>3. SerializeIndexEntry(e) = abc
  BY DEF SerializeIndexEntry
<1> HIDE DEF a, b, c, ab, abc, in
<1>4. ab \in Seq(Byte) /\ Len(ab) = 16
  <2>1. ab \in Seq(Byte) /\ Len(ab) = Len(a) + Len(b)
    BY <1>2, TwoParts DEF ab
  <2> QED BY <1>2, <2>1
<1>5. abc \in Seq(Byte) /\ Len(abc) = 18
  <2>1. abc \in Seq(Byte) /\ Len(abc) = Len(ab) + Len(c)
    BY <1>2, <1>4, TwoParts DEF abc
  <2> QED BY <1>2, <1>4, <2>1
<1>6. in \in Seq(Byte) /\ Holds(in, 0, abc)
  BY <1>5, AtStart DEF in
<1>7. Holds(in, 0, ab) /\ Holds(in, 0 + 16, c)
  BY <1>2, <1>4, <1>6, HoldsBoth DEF abc
<1>8. Holds(in, 0, a) /\ Holds(in, 0 + 8, b)
  BY <1>2, <1>6, <1>7, HoldsBoth DEF ab
<1>9. 0 + 8 = 8 /\ 0 + 16 = 16
  OBVIOUS
<1>10. decode_u64(From(in, 0)) = e.stamp_ns
  BY <1>1, <1>6, <1>8, ReadInteger DEF a
<1>11. decode_u64(From(in, 8)) = e.byte_offset
  BY <1>1, <1>6, <1>8, <1>9, ReadInteger DEF b
<1>12. decode_u16(From(in, 16)) = e.topic_id
  BY <1>1, <1>6, <1>7, <1>9, ReadInteger DEF c
<1>13. DeserializeIndexEntry(in) = e
  BY <1>1, <1>6, <1>10, <1>11, <1>12, FromStart DEF DeserializeIndexEntry
<1> QED BY <1>3, <1>5, <1>13 DEF kIndexEntryWireSize, in

(***************************************************************************)
(* For every Base, size of names and value: the fixed-size structures of   *)
(* wire_format.hpp have the size the reader steps over, and Deserialize    *)
(* gives back what Serialize wrote, whatever bytes follow it in the file;  *)
(* only a name longer than its field loses its end.                        *)
(***************************************************************************)
THEOREM StructuresRoundTrip ==
  \A rest \in Seq(Byte) :
    /\ \A h \in FileHeaderType :
         /\ Len(SerializeFileHeader(h)) = kFileHeaderWireSize
         /\ HasMagic(SerializeFileHeader(h) \o rest)
         /\ DeserializeFileHeader(SerializeFileHeader(h) \o rest) = h
    /\ \A t \in TopicMetaType :
         /\ Len(SerializeTopicMeta(t)) = kTopicMetaWireSize
         /\ DeserializeTopicMeta(SerializeTopicMeta(t) \o rest)
              = [t EXCEPT !.name = Truncated(t.name)]
    /\ \A h \in RecordHeaderType :
         /\ Len(SerializeRecordHeader(h)) = kRecordHeaderWireSize
         /\ DeserializeRecordHeader(SerializeRecordHeader(h) \o rest) = h
    /\ \A e \in IndexEntryType :
         /\ Len(SerializeIndexEntry(e)) = kIndexEntryWireSize
         /\ DeserializeIndexEntry(SerializeIndexEntry(e) \o rest) = e
<1> TAKE rest \in Seq(Byte)
<1>1. ASSUME NEW h \in FileHeaderType
      PROVE  /\ Len(SerializeFileHeader(h)) = kFileHeaderWireSize
             /\ HasMagic(SerializeFileHeader(h) \o rest)
             /\ DeserializeFileHeader(SerializeFileHeader(h) \o rest) = h
  <2>1. /\ SerializeFileHeader(h) \in Seq(Byte)
        /\ Len(SerializeFileHeader(h)) = kFileHeaderWireSize
    BY FileHeaderSize
  <2>2. /\ SerializeFileHeader(h) \o rest \in Seq(Byte)
        /\ Holds(SerializeFileHeader(h) \o rest, 0, SerializeFileHeader(h))
    BY <2>1, AtStart
  <2> QED BY <2>1, <2>2, ReadFileHeader
<1>2. ASSUME NEW t \in TopicMetaType
      PROVE  /\ Len(SerializeTopicMeta(t)) = kTopicMetaWireSize
             /\ DeserializeTopicMeta(SerializeTopicMeta(t) \o rest)
                  = [t EXCEPT !.name = Truncated(t.name)]
  <2>1. /\ SerializeTopicMeta(t) \in Seq(Byte)
        /\ Len(SerializeTopicMeta(t)) = kTopicMetaWireSize
    BY TopicMetaSize
  <2>2. /\ SerializeTopicMeta(t) \o rest \in Seq(Byte)
        /\ Holds(SerializeTopicMeta(t) \o rest, 0, SerializeTopicMeta(t))
    BY <2>1, AtStart
  <2> QED BY <2>1, <2>2, ReadTopicMeta
<1>3. ASSUME NEW h \in RecordHeaderType
      PROVE  /\ Len(SerializeRecordHeader(h)) = kRecordHeaderWireSize
             /\ DeserializeRecordHeader(SerializeRecordHeader(h) \o rest) = h
  <2>1. /\ SerializeRecordHeader(h) \in Seq(Byte)
        /\ Len(SerializeRecordHeader(h)) = kRecordHeaderWireSize
    BY RecordHeaderSize
  <2>2. /\ SerializeRecordHeader(h) \o rest \in Seq(Byte)
        /\ Holds(SerializeRecordHeader(h) \o rest, 0, SerializeRecordHeader(h))
    BY <2>1, AtStart
  <2> QED BY <2>1, <2>2, ReadRecordHeader
<1> QED BY <1>1, <1>2, <1>3, ReadIndexEntry

\* The buttons have different names.
LEMMA ButtonsDiffer ==
  \A i, j \in 1 .. 6 : JoyButtons[i] = JoyButtons[j] => i = j
  BY DEF JoyButtons

(***************************************************************************)
(* For every Base and value: EncodePayload writes wire_size bytes, and     *)
(* DecodePayload gives back the message, whatever follows it in the file.  *)
(***************************************************************************)
THEOREM PayloadRoundTrips ==
  \A v \in JoyMsgsType : \A rest \in Seq(Byte) :
    /\ EncodePayload(v) \in Seq(Byte) /\ Len(EncodePayload(v)) = JoyWireSize
    /\ DecodePayload(EncodePayload(v) \o rest) = v
<1> TAKE v \in JoyMsgsType
<1> TAKE rest \in Seq(Byte)
<1> DEFINE Buttons == {JoyButtons[i] : i \in 1 .. 6}
<1>1. /\ v.timestamp \in U64 /\ v.axis0 \in U32 /\ v.axis2 \in U32
      /\ v.buttons \in [Buttons -> BOOLEAN]
      /\ v = [timestamp |-> v.timestamp, axis0 |-> v.axis0, axis2 |-> v.axis2,
              buttons |-> v.buttons]
  BY DEF JoyMsgsType
<1> DEFINE a == encode_u64(v.timestamp)
           b == encode_u32(v.axis0)
           c == encode_u32(v.axis2)
           d == [i \in 1 .. 6 |-> IF v.buttons[JoyButtons[i]] THEN 1 ELSE 0]
           ab == a \o b
           abc == ab \o c
           abcd == abc \o d
           in == abcd \o rest
<1>2. /\ a \in Seq(Byte) /\ Len(a) = 8 /\ b \in Seq(Byte) /\ Len(b) = 4
      /\ c \in Seq(Byte) /\ Len(c) = 4
  BY <1>1, EncodedAreBytes, WidthsAreNat
<1>3. d \in Seq(Byte) /\ Len(d) = 6
  <2>1. 0 \in Byte /\ 1 \in Byte
    BY WireAssumption DEF Byte
  <2>2. d \in [1 .. 6 -> Byte]
    BY <2>1
  <2> HIDE DEF d
  <2> QED BY <2>2, TupleIsSeq
<1>4. EncodePayload(v) = abcd
  BY DEF EncodePayload
<1>5. \A i \in 1 .. 6 : d[i] # 0 <=> v.buttons[JoyButtons[i]]
  OBVIOUS
<1> HIDE DEF a, b, c, d, ab, abc, abcd, in
<1>6. ab \in Seq(Byte) /\ Len(ab) = 12
  <2>1. ab \in Seq(Byte) /\ Len(ab) = Len(a) + Len(b)
    BY <1>2, TwoParts DEF ab
  <2> QED BY <1>2, <2>1
<1>7. abc \in Seq(Byte) /\ Len(abc) = 16
  <2>1. abc \in Seq(Byte) /\ Len(abc) = Len(ab) + Len(c)
    BY <1>2, <1>6, TwoParts DEF abc
  <2> QED BY <1>2, <1>6, <2>1
<1>8. abcd \in Seq(Byte) /\ Len(abcd) = 22
  <2>1. abcd \in Seq(Byte) /\ Len(abcd) = Len(abc) + Len(d)
    BY <1>3, <1>7, TwoParts DEF abcd
  <2> QED BY <1>3, <1>7, <2>1
<1>9. in \in Seq(Byte) /\ Holds(in, 0, abcd)
  BY <1>8, AtStart DEF in
<1>10. Holds(in, 0, abc) /\ Holds(in, 0 + 16, d)
  BY <1>3, <1>7, <1>9, HoldsBoth DEF abcd
<1>11. Holds(in, 0, ab) /\ Holds(in, 0 + 12, c)
  BY <1>2, <1>6, <1>9, <1>10, HoldsBoth DEF abc
<1>12. Holds(in, 0, a) /\ Holds(in, 0 + 8, b)
  BY <1>2, <1>9, <1>11, HoldsBoth DEF ab
<1>13. 0 + 8 = 8 /\ 0 + 12 = 12 /\ 0 + 16 = 16
  OBVIOUS
<1>14. decode_u64(From(in, 0)) = v.timestamp
  BY <1>1, <1>9, <1>12, ReadInteger DEF a
<1>15. decode_u32(From(in, 8)) = v.axis0
  BY <1>1, <1>9, <1>12, <1>13, ReadInteger DEF b
<1>16. decode_u32(From(in, 12)) = v.axis2
  BY <1>1, <1>9, <1>11, <1>13, ReadInteger DEF c
<1> DEFINE bit(x) == in[16 + (CHOOSE i \in 1 .. 6 : JoyButtons[i] = x)] # 0
<1>17. ASSUME NEW x \in Buttons PROVE bit(x) = v.buttons[x]
  <2>1. PICK i \in 1 .. 6 : JoyButtons[i] = x
    OBVIOUS
  <2>2. (CHOOSE j \in 1 .. 6 : JoyButtons[j] = x) = i
    BY <2>1, ButtonsDiffer
  <2>3. in[16 + i] = d[i]
    BY <1>3, <1>10, <1>13 DEF Holds
  <2>4. v.buttons[x] \in BOOLEAN
    BY <1>1
  <2> QED BY <1>5, <2>1, <2>2, <2>3, <2>4
<1>18. [x \in Buttons |-> bit(x)] = v.buttons
  <2> HIDE DEF bit, Buttons
  <2> QED BY <1>1, <1>17
<1>19. DecodePayload(in) = v
  <2>1. DecodePayload(in) = [timestamp |-> decode_u64(in), axis0 |-> decode_u32(From(in, 8)),
                             axis2 |-> decode_u32(From(in, 12)),
                             buttons |-> [x \in Buttons |-> bit(x)]]
    BY DEF DecodePayload
  <2>2. decode_u64(in) = v.timestamp
    BY <1>9, <1>14, FromStart
  <2> HIDE DEF bit, Buttons
  <2> QED BY <1>1, <1>15, <1>16, <1>18, <2>1, <2>2
<1> QED BY <1>4, <1>8, <1>19 DEF JoyWireSize, in

=============================================================================
