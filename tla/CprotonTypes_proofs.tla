------------------------ MODULE CprotonTypes_proofs ------------------------
(***************************************************************************)
(* Facts about the conversions of CprotonTypes, for all widths of C's      *)
(* integers and all values: what a conversion that succeeds gives to the   *)
(* library, and what Ruby gets back.  The model's powers of two enter      *)
(* through PowersAssumption.                                               *)
(***************************************************************************)
EXTENDS CprotonTypes, TLAPS

-----------------------------------------------------------------------------
(* Division                                                                 *)

LEMMA Division ==
  \A a \in Int : \A m \in Nat \ {0} :
    /\ a \div m \in Int
    /\ a % m \in 0 .. m - 1
    /\ a = m * (a \div m) + (a % m)
  <1>1. \A a \in Int : \A m \in Nat \ {0} : a \div m \in Int /\ a % m \in 0 .. m - 1
    OBVIOUS
  <1>2. \A a \in Int : \A m \in Nat \ {0} : a = m * (a \div m) + (a % m)
    BY Z3
  <1> QED
    BY <1>1, <1>2

LEMMA MultipleIsZero == \A z \in Int : \A m \in Nat \ {0} : (m * z) % m = 0
  BY Z3

LEMMA SmallIsItself == \A m \in Nat \ {0} : \A a \in 0 .. m - 1 : a % m = a
  OBVIOUS

LEMMA NegativeWraps == \A m \in Nat \ {0} : \A a \in -m .. -1 : a % m = a + m
  OBVIOUS

(* A remainder is congruent to the number, also modulo a divisor of the     *)
(* modulus.                                                                 *)
LEMMA RemainderIsCongruent ==
  ASSUME NEW a \in Int, NEW m \in Nat \ {0}
  PROVE  ((a % m) - a) % m = 0
  <1>1. a \div m \in Int /\ a % m \in Int /\ a = m * (a \div m) + (a % m)
    BY Division
  <1>2. (a % m) - a = m * (-(a \div m))
    BY <1>1
  <1> QED
    BY <1>1, <1>2, MultipleIsZero

LEMMA ProductIsPositive == \A m, k \in Nat \ {0} : m * k \in Nat \ {0} /\ m <= m * k
  OBVIOUS

LEMMA RemainderOfMultiple ==
  ASSUME NEW a \in Int, NEW m \in Nat \ {0}, NEW k \in Nat \ {0}
  PROVE  (((a % (m * k)) % m) - a) % m = 0
  <1> DEFINE n == m * k
             r == a % n
             q == a \div n
             s == r \div m
  <1>1. n \in Nat \ {0}
    BY ProductIsPositive
  <1> HIDE DEF n
  <1>2. q \in Int /\ r \in Int /\ a = n * q + r
    BY <1>1, Division
  <1> HIDE DEF r, q
  <1>3. s \in Int /\ r % m \in Int /\ r = m * s + (r % m)
    BY <1>2, Division
  <1> HIDE DEF s
  <1>4. n * q = m * (k * q) /\ k * q \in Int
    BY <1>2 DEF n
  <1>5. (r % m) - a = m * (-(k * q) - s) /\ -(k * q) - s \in Int
    BY <1>2, <1>3, <1>4
  <1>6. ((r % m) - a) % m = 0
    BY <1>5, MultipleIsZero
  <1> QED
    BY <1>6 DEF r, n

-----------------------------------------------------------------------------
(* The widths                                                               *)

Widths == {CharBits, ShortBits, IntBits, LongBits}

LEMMA Powers ==
  ASSUME NEW b \in Widths
  PROVE  /\ b \in Nat \ {0}
         /\ 2^b \in Nat \ {0}
         /\ 2^(b - 1) \in Nat \ {0}
         /\ 2^b = 2 * 2^(b - 1)
  <1>1. b \in 1 .. LongBits /\ b - 1 \in 0 .. LongBits /\ 1 \in 0 .. b /\ LongBits \in Nat
    BY WidthsAssumption DEF Widths
  <1>2. 2^b \in Nat \ {0} /\ 2^(b - 1) \in Nat \ {0}
    BY <1>1, PowersAssumption
  <1>3. \A m \in 0 .. b : 2^b = 2^m * 2^(b - m)
    BY <1>1, PowersAssumption
  <1>4. 2^b = 2^1 * 2^(b - 1)
    BY <1>1, <1>3, Zenon
  <1>5. 2^1 = 2
    OBVIOUS
  <1> QED
    BY <1>1, <1>2, <1>4, <1>5

(* A narrower type's numbers are at most half of a wider type's.            *)
LEMMA NarrowIsHalf ==
  ASSUME NEW b \in Widths, NEW c \in Widths, b < c
  PROVE  2^b <= 2^(c - 1)
  <1>1. b \in 0 .. c - 1 /\ c - 1 \in 0 .. LongBits /\ (c - 1) - b \in 0 .. LongBits
    BY WidthsAssumption DEF Widths
  <1>2. 2^(c - 1) = 2^b * 2^((c - 1) - b) /\ 2^((c - 1) - b) \in Nat \ {0}
    BY <1>1, PowersAssumption
  <1>3. 2^b \in Nat \ {0}
    BY Powers
  <1> QED
    BY <1>2, <1>3, ProductIsPositive

LEMMA IntDividesLong == \E k \in Nat \ {0} : 2^LongBits = 2^IntBits * k
  <1>1. /\ LongBits \in 0 .. LongBits /\ IntBits \in 0 .. LongBits
        /\ LongBits - IntBits \in 0 .. LongBits
    BY WidthsAssumption
  <1>2. 2^LongBits = 2^IntBits * 2^(LongBits - IntBits) /\ 2^(LongBits - IntBits) \in Nat \ {0}
    BY <1>1, PowersAssumption
  <1> QED
    BY <1>2

LEMMA SignedIsInt ==
  ASSUME NEW b \in Widths
  PROVE  Signed(b) \subseteq Int /\ Unsigned(b) \subseteq Nat
  BY Powers DEF Signed, Unsigned

-----------------------------------------------------------------------------
(* What the library receives of an integer                                  *)

(* int, short, signed char: the number, or an exception.                    *)
LEMMA SignedIsIntact ==
  ASSUME NEW v, NEW range, v.type = "Integer", Within(range, AsLong(v)).code = "OK"
  PROVE  Within(range, AsLong(v)).c.val = v.val
  BY DEF Within, AsLong, Ok, Fail, Number

(* unsigned short and char: a negative number wraps in the wider type and   *)
(* is out of the range of the narrower one.                                 *)
LEMMA UnsignedIsIntact ==
  ASSUME NEW v, NEW b \in Widths, b < LongBits, v.type = "Integer", v.val \in Int,
         Within(Unsigned(b), AsUnsignedLong(v)).code = "OK"
  PROVE  Within(Unsigned(b), AsUnsignedLong(v)).c.val = v.val
  <1> DEFINE n == v.val
  <1>1. LongBits \in Widths
    BY DEF Widths
  <1>2. /\ n \in Signed(LongBits) \cup Unsigned(LongBits)
        /\ n % 2^LongBits \in Unsigned(b)
        /\ Within(Unsigned(b), AsUnsignedLong(v)).c.val = n % 2^LongBits
    BY DEF Within, AsUnsignedLong, Ok, Fail, Number
  <1>3. /\ 2^LongBits \in Nat \ {0} /\ 2^(LongBits - 1) \in Nat \ {0}
        /\ 2^LongBits = 2 * 2^(LongBits - 1)
        /\ 2^b \in Nat \ {0} /\ 2^b <= 2^(LongBits - 1)
    BY <1>1, Powers, NarrowIsHalf
  <1>4. n \in -(2^(LongBits - 1)) .. 2^LongBits - 1
    BY <1>2, <1>3 DEF Signed, Unsigned
  <1>5. CASE n >= 0
    BY <1>2, <1>3, <1>4, <1>5, SmallIsItself
  <1>6. CASE n < 0
    <2>1. n % 2^LongBits = n + 2^LongBits
      BY <1>3, <1>4, <1>6, NegativeWraps
    <2>2. n % 2^LongBits <= 2^b - 1
      BY <1>2, <1>3 DEF Unsigned
    <2> QED
      BY <1>3, <1>4, <2>1, <2>2
  <1> QED
    BY <1>4, <1>5, <1>6

(* unsigned long and size_t: congruent modulo the width.                    *)
LEMMA WideIsCongruent ==
  ASSUME NEW v, v.type = "Integer", v.val \in Int, AsUnsignedLong(v).code = "OK"
  PROVE  /\ AsUnsignedLong(v).c.val \in 0 .. 2^LongBits - 1
         /\ (AsUnsignedLong(v).c.val - v.val) % 2^LongBits = 0
  <1>1. AsUnsignedLong(v).c.val = v.val % 2^LongBits
    BY DEF AsUnsignedLong, Ok, Fail, Number
  <1>2. 2^LongBits \in Nat \ {0}
    BY Powers DEF Widths
  <1> QED
    BY <1>1, <1>2, Division, RemainderIsCongruent

LEMMA ToSignedIsCongruent ==
  ASSUME NEW n \in Int
  PROVE  (ToSigned(n) - n) % 2^IntBits = 0
  <1> DEFINE w == 2^IntBits
  <1>1. w \in Nat \ {0}
    BY Powers DEF Widths
  <1>2. ToSigned(n) = n % w \/ ToSigned(n) = (n % w) - w
    BY DEF ToSigned
  <1> HIDE DEF w
  <1>3. n \div w \in Int /\ n % w \in Int /\ n = w * (n \div w) + (n % w)
    BY <1>1, Division
  <1>4. \E z \in Int : ToSigned(n) - n = w * z
    <2>1. (n % w) - n = w * (-(n \div w)) /\ ((n % w) - w) - n = w * (-(n \div w) - 1)
      BY <1>1, <1>3
    <2> QED
      BY <1>2, <1>3, <2>1
  <1>5. (ToSigned(n) - n) % w = 0
    BY <1>1, <1>4, MultipleIsZero
  <1> QED
    BY <1>5 DEF w

(* What fits in an int arrives.                                             *)
LEMMA ToSignedIsItself == \A n \in Signed(IntBits) : ToSigned(n) = n
  <1>1. /\ 2^IntBits \in Nat \ {0} /\ 2^(IntBits - 1) \in Nat \ {0}
        /\ 2^IntBits = 2 * 2^(IntBits - 1)
    BY Powers DEF Widths
  <1> SUFFICES ASSUME NEW n \in Signed(IntBits) PROVE ToSigned(n) = n
    OBVIOUS
  <1>2. n \in -(2^(IntBits - 1)) .. 2^(IntBits - 1) - 1
    BY DEF Signed
  <1>3. CASE n >= 0
    <2>1. n % 2^IntBits = n
      BY <1>1, <1>2, <1>3, SmallIsItself
    <2> QED
      BY <1>1, <1>2, <2>1 DEF ToSigned
  <1>4. CASE n < 0
    <2>1. n % 2^IntBits = n + 2^IntBits
      BY <1>1, <1>2, <1>4, NegativeWraps
    <2> QED
      BY <1>1, <1>2, <2>1 DEF ToSigned
  <1> QED
    BY <1>2, <1>3, <1>4

(* The conversion of an integer, by the kind of the parameter: the number   *)
(* arrives, or one that is congruent to it.                                 *)
Arrives(kind, given, n) ==
  /\ kind \in {"int", "error_code", "sasl_outcome", "int8", "int16", "int64"} => n = given
  /\ kind \in {"uint8", "uint16"} => n = given
  /\ kind \in {"uint64", "ulong", "size"} => n >= 0 /\ (n - given) % 2^LongBits = 0
  /\ kind \in {"uint32", "int32", "atom"} => (n - given) % 2^IntBits = 0

LEMMA IntegerArrives ==
  ASSUME NEW kind, NEW v, v.type = "Integer", v.val \in Int, Convert(kind, v).code = "OK"
  PROVE  Arrives(kind, v.val, Convert(kind, v).c.val)
  <1>1. CASE kind \in {"int", "error_code", "sasl_outcome"}
    <2>1. Convert(kind, v) = Within(Signed(IntBits), AsLong(v))
      BY <1>1 DEF Convert
    <2>2. Convert(kind, v).c.val = v.val
      BY <2>1, SignedIsIntact
    <2> QED
      BY <1>1, <2>2 DEF Arrives
  <1>2. CASE kind = "int8"
    <2>1. Convert(kind, v) = Within(Signed(CharBits), AsLong(v))
      BY <1>2 DEF Convert
    <2>2. Convert(kind, v).c.val = v.val
      BY <2>1, SignedIsIntact
    <2> QED
      BY <1>2, <2>2 DEF Arrives
  <1>3. CASE kind = "int16"
    <2>1. Convert(kind, v) = Within(Signed(ShortBits), AsLong(v))
      BY <1>3 DEF Convert
    <2>2. Convert(kind, v).c.val = v.val
      BY <2>1, SignedIsIntact
    <2> QED
      BY <1>3, <2>2 DEF Arrives
  <1>4. CASE kind = "int64"
    <2>1. Convert(kind, v) = AsLong(v)
      BY <1>4 DEF Convert
    <2>2. Convert(kind, v).c.val = v.val
      BY <2>1 DEF AsLong, Ok, Fail, Number
    <2> QED
      BY <1>4, <2>2 DEF Arrives
  <1>5. CASE kind = "uint8"
    <2>1. Convert(kind, v) = Within(Unsigned(CharBits), AsUnsignedLong(v))
      BY <1>5 DEF Convert
    <2>2. CharBits \in Widths /\ CharBits < LongBits
      BY WidthsAssumption DEF Widths
    <2>3. Convert(kind, v).c.val = v.val
      BY <2>1, <2>2, UnsignedIsIntact
    <2> QED
      BY <1>5, <2>3 DEF Arrives
  <1>6. CASE kind = "uint16"
    <2>1. Convert(kind, v) = Within(Unsigned(ShortBits), AsUnsignedLong(v))
      BY <1>6 DEF Convert
    <2>2. ShortBits \in Widths /\ ShortBits < LongBits
      BY WidthsAssumption DEF Widths
    <2>3. Convert(kind, v).c.val = v.val
      BY <2>1, <2>2, UnsignedIsIntact
    <2> QED
      BY <1>6, <2>3 DEF Arrives
  <1>7. CASE kind \in {"uint64", "ulong", "size"}
    <2>1. Convert(kind, v) = AsUnsignedLong(v)
      BY <1>7 DEF Convert
    <2>2. /\ Convert(kind, v).c.val \in 0 .. 2^LongBits - 1
          /\ (Convert(kind, v).c.val - v.val) % 2^LongBits = 0
      BY <2>1, WideIsCongruent
    <2>3. Convert(kind, v).c.val >= 0
      BY <2>2
    <2> QED
      BY <1>7, <2>2, <2>3 DEF Arrives
  <1>8. CASE kind = "uint32"
    <2>1. Convert(kind, v) = Cast(AsUnsignedLong(v)) /\ AsUnsignedLong(v).code = "OK"
      BY <1>8 DEF Convert, Cast, AsUnsignedLong, Ok, Fail
    <2>2. Convert(kind, v).c.val = (v.val % 2^LongBits) % 2^IntBits
      BY <2>1 DEF Cast, AsUnsignedLong, Ok, Fail, Number
    <2>3. PICK k \in Nat \ {0} : 2^LongBits = 2^IntBits * k
      BY IntDividesLong
    <2>4. 2^IntBits \in Nat \ {0}
      BY Powers DEF Widths
    <2>5. (Convert(kind, v).c.val - v.val) % 2^IntBits = 0
      <3> DEFINE w == 2^IntBits
      <3>1. Convert(kind, v).c.val = (v.val % (w * k)) % w
        BY <2>2, <2>3
      <3> HIDE DEF w
      <3>2. w \in Nat \ {0}
        BY <2>4 DEF w
      <3>3. (((v.val % (w * k)) % w) - v.val) % w = 0
        BY <3>2, RemainderOfMultiple
      <3> QED
        BY <3>1, <3>3 DEF w
    <2> QED
      BY <1>8, <2>5 DEF Arrives
  <1>9. CASE kind = "int32"
    <2>1. Convert(kind, v) = CastSigned(AsLong(v)) /\ AsLong(v).code = "OK"
      BY <1>9 DEF Convert, CastSigned, AsLong, Ok, Fail
    <2>2. Convert(kind, v).c.val = ToSigned(v.val)
      BY <2>1 DEF CastSigned, AsLong, Ok, Fail, Number
    <2> QED
      BY <1>9, <2>2, ToSignedIsCongruent DEF Arrives
  <1>10. CASE kind = "atom"
    <2>1. Convert(kind, v).c.val = ToSigned(v.val)
      BY <1>10 DEF Convert, AsAtom, Ok, Number
    <2> QED
      BY <1>10, <2>1, ToSignedIsCongruent DEF Arrives
  <1> QED
    BY <1>1, <1>2, <1>3, <1>4, <1>5, <1>6, <1>7, <1>8, <1>9, <1>10 DEF Arrives

(* A string's bytes, and a buffer's, are all there, but for a NULL string   *)
(* and for a size whose successor is 0.                                     *)
LEMMA BytesAreThere ==
  ASSUME NEW v, v.type = "String" => v.val \in Nat, v.type = "char" => v.val \in Nat \ {0},
         v.type # "NilClass", AsBytes(v).code = "OK"
  PROVE  AsBytes(v).c.told < AsBytes(v).c.room
  <1> DEFINE w == 2^LongBits
             s == AsCharPtrAndSize(v)
  <1>1. w \in Nat \ {0}
    BY Powers DEF Widths
  <1>2. /\ s.code = "OK"
        /\ AsBytes(v).c.told = (s.c.told - 1) % w
        /\ AsBytes(v).c.room = s.c.room
    BY DEF AsBytes, Ok, AsCharPtrAndSize, Fail, Block
  <1>3. s.c.told \in Nat \ {0} /\ s.c.room = s.c.told
    <2>1. CASE v.type = "String"
      BY <2>1 DEF AsCharPtrAndSize, Ok, Block
    <2>2. CASE v.type # "String"
      <3>1. ConvertPtr(v, "char").code = "OK"
        BY <1>2, <2>2 DEF AsCharPtrAndSize, Fail
      <3>2. v.type = "char" /\ ConvertPtr(v, "char").c.val = v.val
        BY <3>1 DEF ConvertPtr, Ok, Fail, Number, Plain, Guarded
      <3>3. s = Ok(Block(v.val, 1, 1))
        BY <2>2, <3>1, <3>2 DEF AsCharPtrAndSize
      <3> QED
        BY <3>3 DEF Ok, Block
    <2> QED
      BY <2>1, <2>2
  <1> HIDE DEF w, s
  <1>4. s.c.told - 1 \in Nat /\ (s.c.told - 1) % w <= s.c.told - 1
    <2>1. \A n \in Nat : n % w <= n
      BY <1>1
    <2> QED
      BY <1>3, <2>1
  <1>5. (s.c.told - 1) % w \in Int
    BY <1>1, <1>4, Division
  <1> QED
    BY <1>2, <1>3, <1>4, <1>5 DEF s

LEMMA BufferIsThere ==
  ASSUME NEW v, v.type = "Integer" => v.val \in Int, AsBuffer(v).code = "OK",
         AsBuffer(v).c.room # 0
  PROVE  AsBuffer(v).c.told < AsBuffer(v).c.room
  <1> DEFINE w == 2^LongBits
             n == AsUnsignedLong(v).c.val
  <1>1. w \in Nat \ {0}
    BY Powers DEF Widths
  <1>2. AsUnsignedLong(v).code = "OK" /\ AsBuffer(v).c.told = n /\ AsBuffer(v).c.room = (n + 1) % w
    BY DEF AsBuffer, Ok, Block
  <1>3. v.type = "Integer"
    BY <1>2 DEF AsUnsignedLong, Fail
  <1>4. n \in 0 .. w - 1
    BY <1>2, <1>3, WideIsCongruent
  <1> HIDE DEF w, n
  <1>5. CASE n + 1 = w
    BY <1>1, <1>2, <1>4, <1>5, MultipleIsZero
  <1>6. CASE n + 1 < w
    <2>1. (n + 1) % w = n + 1
      BY <1>1, <1>4, <1>6, SmallIsItself
    <2> QED
      BY <1>2, <1>4, <2>1
  <1> QED
    BY <1>1, <1>4, <1>5, <1>6

(* A time to live of 32 bits passes the conversion to uint32_t.             *)
LEMMA TtlPasses ==
  ASSUME NEW n \in 0 .. 2^IntBits - 1
  PROVE  Convert("uint32", Integer(n)).c.val = n
  <1>1. IntBits \in Widths /\ LongBits \in Widths /\ IntBits < LongBits
    BY WidthsAssumption DEF Widths
  <1>2. /\ 2^IntBits \in Nat \ {0} /\ 2^LongBits \in Nat \ {0} /\ 2^(LongBits - 1) \in Nat \ {0}
        /\ 2^LongBits = 2 * 2^(LongBits - 1) /\ 2^IntBits <= 2^(LongBits - 1)
    BY <1>1, Powers, NarrowIsHalf
  <1>3. n \in 0 .. 2^LongBits - 1
    BY <1>2
  <1>4. n \in Unsigned(LongBits)
    BY <1>3 DEF Unsigned
  <1>5. n % 2^LongBits = n /\ n % 2^IntBits = n
    BY <1>2, <1>3, SmallIsItself
  <1>6. AsUnsignedLong(Integer(n)) = Ok(Number(n))
    BY <1>4, <1>5 DEF AsUnsignedLong, Integer, Val
  <1>7. Convert("uint32", Integer(n)) = Cast(AsUnsignedLong(Integer(n)))
    BY DEF Convert
  <1> QED
    BY <1>5, <1>6, <1>7 DEF Cast, Ok, Number

(* A number that the library returns arrives in Ruby, but for a size that   *)
(* does not fit in an int.                                                  *)
LEMMA ResultArrives ==
  ASSUME NEW kind \in Numeric, NEW n
  PROVE  FromResult(kind, n) = Integer(n) \/ (kind = "ssize" /\ n \notin Signed(IntBits))
  <1>1. CASE kind = "ssize"
    BY <1>1, ToSignedIsItself DEF FromResult
  <1>2. CASE kind # "ssize"
    BY <1>2 DEF FromResult, Numeric
  <1> QED
    BY <1>1, <1>2
=============================================================================
