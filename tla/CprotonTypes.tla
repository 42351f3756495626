---------------------------- MODULE CprotonTypes ----------------------------
(***************************************************************************)
(* How the cproton extension carries a value over the border between Ruby  *)
(* and the Proton library: the conversions that SWIG generated, and the    *)
(* exceptions they end in.  Every wrapper function of cproton.c is a list  *)
(* of these conversions; the modules Cproton<Part> hold the lists, and     *)
(* Cproton makes calls of them.                                            *)
(*                                                                         *)
(* A C integer has its width, as a constant, so that TLC meets each bound  *)
(* with small numbers.  An object is its class and an address; what it     *)
(* points to is the library's.                                             *)
(***************************************************************************)
EXTENDS Integers, Sequences, FiniteSets

CONSTANTS CharBits, ShortBits, IntBits, LongBits  \* the widths of C's integers

ASSUME WidthsAssumption ==
  /\ {CharBits, ShortBits, IntBits, LongBits} \subseteq Nat \ {0}
  /\ CharBits < ShortBits /\ ShortBits < IntBits /\ IntBits < LongBits

\* What the proofs use of powers of two, of which tlapm knows nothing; TLC evaluates it.
ASSUME PowersAssumption ==
  \A n \in 0 .. LongBits : /\ 2^n \in Nat \ {0}
                           /\ \A m \in 0 .. n : 2^n = 2^m * 2^(n - m)

(* Values of Ruby.  "type" is the class; "val" the value of a number, the  *)
(* length of a string, the address that an object wraps (0: none yet).     *)
Val(type, n) == [type |-> type, val |-> n]
Nil          == Val("NilClass", 0)
Integer(n)   == Val("Integer", n)
String(n)    == Val("String", n)
Bool(b)      == IF b THEN Val("TrueClass", 0) ELSE Val("FalseClass", 0)
Other        == Val("Object", 0)            \* an object that wraps no pointer

\* The classes of Ruby that wrap no pointer; any other class wraps one.
Plain == {"NilClass", "Integer", "Float", "String", "TrueClass", "FalseClass", "Object", "Array"}

(* Values of C: a number or an address (0: NULL) and, for a block of       *)
(* bytes, the size the library is told and the room there really is.       *)
Number(n)               == [val |-> n, told |-> 0, room |-> 0]
Block(addr, told, room) == [val |-> addr, told |-> told, room |-> room]
Address == 1                                \* of a string or of a buffer

\* What a conversion ends with: a C value and SWIG's code.
Ok(c)      == [code |-> "OK", c |-> c]
Fail(code) == [code |-> code, c |-> Number(0)]

Signed(bits)   == -(2^(bits - 1)) .. 2^(bits - 1) - 1
Unsigned(bits) == 0 .. 2^bits - 1

\* SWIG_AsVal_long and the 64-bit ones: anything else than an integer that fits,
\* the RangeError of rb_big2long too, is a TypeError.
AsLong(v) == IF v.type = "Integer" /\ v.val \in Signed(LongBits)
             THEN Ok(Number(v.val)) ELSE Fail("TypeError")

\* SWIG_AsVal_unsigned_long and size_t: a negative number wraps.
AsUnsignedLong(v) == IF v.type = "Integer" /\ v.val \in Signed(LongBits) \cup Unsigned(LongBits)
                     THEN Ok(Number(v.val % 2^LongBits)) ELSE Fail("TypeError")

\* Mutated form: the range is not checked, the value is cast.
WithinByCast(range, res) == [res EXCEPT !.c.val = @ % 2^IntBits]

\* SWIG_AsVal_int, short, signed char and their unsigned kin: the range is checked.
Within(range, res) ==
  IF res.code = "OK" /\ res.c.val \notin range THEN Fail("OverflowError") ELSE res

\* A C cast to 32 bits, which is not checked: to pn_millis_t, pn_seconds_t, uint32_t.
Cast(res) == [res EXCEPT !.c.val = @ % 2^IntBits]

\* To int32_t, not checked either.
ToSigned(n) == LET m == n % 2^IntBits IN IF m >= 2^(IntBits - 1) THEN m - 2^IntBits ELSE m
CastSigned(res) == [res EXCEPT !.c.val = ToSigned(@)]

\* SWIG_AsVal_double and float; the range of a float is left out.
AsReal(v) == IF v.type \in {"Float", "Integer"} THEN Ok(Number(v.val)) ELSE Fail("TypeError")

AsBool(v) ==
  CASE v.type = "TrueClass"  -> Ok(Number(1))
    [] v.type = "FalseClass" -> Ok(Number(0))
    [] OTHER -> LET i == Within(Signed(IntBits), AsLong(v))
                IN  IF i.code = "OK" THEN Ok(Number(IF i.c.val = 0 THEN 0 ELSE 1))
                    ELSE Fail("TypeError")

\* SWIG_ConvertPtr.  The two classes with methods of their own notice an object that
\* was allocated and not initialised.
Guarded == {"Pn_rbkey_t", "Pni_rbhandler_t"}
ConvertPtr(v, class) ==
  IF v.type = "NilClass" THEN Ok(Number(0))
  ELSE IF v.type \in Plain \/ class \notin {"void", v.type} THEN Fail("ERROR")
  ELSE IF v.val = 0 /\ class \in Guarded THEN Fail("ObjectPreviouslyDeletedError")
  ELSE Ok(Number(v.val))

\* SWIG_AsCharPtrAndSize: the size counts the final NUL, and is 0 for NULL.
AsCharPtrAndSize(v) ==
  IF v.type = "String" THEN Ok(Block(Address, v.val + 1, v.val + 1))
  ELSE IF ConvertPtr(v, "char").code = "OK"
       THEN LET p == ConvertPtr(v, "char").c.val
            IN  Ok(Block(p, IF p = 0 THEN 0 ELSE 1, IF p = 0 THEN 0 ELSE 1))
       ELSE Fail("TypeError")

\* Mutated form: the final NUL is counted.
AsBytesWithNul(v) == AsCharPtrAndSize(v)

\* The typemap (char *STRING, size_t LENGTH): the length is size - 1, in size_t.
AsBytes(v) ==
  LET s == AsCharPtrAndSize(v)
  IN  IF s.code = "OK" THEN Ok([s.c EXCEPT !.told = (@ - 1) % 2^LongBits]) ELSE s

\* The typemap (char *OUTPUT, size_t *OUTPUT_SIZE): malloc of n + 1 bytes, in size_t.
AsBuffer(v) ==
  LET n == AsUnsignedLong(v)
  IN  IF n.code = "OK" THEN Ok(Block(Address, n.c.val, (n.c.val + 1) % 2^LongBits)) ELSE n

\* pn_atom_t, for an id: the value goes by its type, and a Fixnum, which may have 63
\* bits, is stored in 32.
AsAtom(v) ==
  IF v.type = "Integer" THEN Ok(Number(ToSigned(v.val)))
  ELSE Ok(Number(IF v.type = "TrueClass" THEN 1 ELSE v.val))

\* pn_bytes_t: nil is NULL with length 0, and a string is its bytes.
AsData(v) ==
  IF v.type = "NilClass" THEN Ok(Number(0)) ELSE Ok(Block(Address, v.val, v.val + 1))

\* FIX2UINT and NUM2ULL: nil raises a TypeError, and the range is checked.
AsDecimal(v, bits) ==
  IF v.type \notin {"Integer", "Float"} THEN Fail("TypeError")
  ELSE IF v.val \notin Signed(bits) \cup Unsigned(bits) THEN Fail("OverflowError")
  ELSE Ok(Number(v.val % 2^bits))

\* The conversion that each kind of parameter has.
Convert(kind, v) ==
  CASE kind = "int"          -> Within(Signed(IntBits), AsLong(v))
    [] kind = "error_code"   -> Within(Signed(IntBits), AsLong(v))
    [] kind = "sasl_outcome" -> Within(Signed(IntBits), AsLong(v))
    [] kind = "int8"         -> Within(Signed(CharBits), AsLong(v))
    [] kind = "int16"        -> Within(Signed(ShortBits), AsLong(v))
    [] kind = "int32"        -> CastSigned(AsLong(v))
    [] kind = "int64"        -> AsLong(v)
    [] kind = "uint8"        -> Within(Unsigned(CharBits), AsUnsignedLong(v))
    [] kind = "uint16"       -> Within(Unsigned(ShortBits), AsUnsignedLong(v))
    [] kind = "uint32"       -> Cast(AsUnsignedLong(v))
    [] kind \in {"uint64", "ulong", "size"} -> AsUnsignedLong(v)
    [] kind \in {"float", "double"} -> AsReal(v)
    [] kind = "bool"         -> AsBool(v)
    [] kind = "chars"        -> AsCharPtrAndSize(v)
    [] kind = "bytes"        -> AsBytes(v)
    [] kind = "buffer"       -> AsBuffer(v)
    [] kind = "atom"         -> AsAtom(v)
    [] kind = "data"         -> AsData(v)
    [] kind = "decimal32"    -> AsDecimal(v, IntBits)
    [] kind = "decimal64"    -> AsDecimal(v, LongBits)
    [] kind \in {"value", "array"} -> Ok(Number(Address))
    [] OTHER -> ConvertPtr(v, kind)

(* A wrapper function: the arguments that its contract requires not to be  *)
(* NULL, its parameters and its result.  "receiver" says that the first    *)
(* parameter is the object that the method is called on, "varargs" that    *)
(* more arguments may follow, which are dropped, and "ensures" what the    *)
(* contract says of the result.                                            *)
Fn(required, params, result) ==
  [required |-> required, params |-> params, result |-> result,
   receiver |-> FALSE, varargs |-> FALSE, ensures |-> "nothing"]
Method(params, result) == [Fn({}, params, result) EXCEPT !.receiver = TRUE]
Varargs(fn)            == [fn EXCEPT !.varargs = TRUE]
Ensures(fn, what)      == [fn EXCEPT !.ensures = what]

\* What the contract checks before the library is entered.  check_error and
\* check_sasl_outcome compare with a list of codes.
ErrorCodes   == -7 .. -1
SaslOutcomes == -1 .. 4
Required(fn, received) ==
  /\ \A i \in fn.required : received[i].val # 0
  /\ \A i \in DOMAIN fn.params :
       /\ fn.params[i] = "error_code" => received[i].val \in ErrorCodes
       /\ fn.params[i] = "sasl_outcome" => received[i].val \in SaslOutcomes

\* ... and after it has returned.
Ensured(fn, result) ==
  /\ fn.ensures = "notNull" => result # 0
  /\ fn.ensures = "notNegative" => result >= 0

\* The results that the library can give, for TLC the ends of each range.
Ends(range) == {n \in range : n - 1 \notin range \/ n + 1 \notin range} \cup {0}
Numeric == {"int", "ssize", "int8", "int16", "int32", "int64", "uint8", "uint16", "uint32",
            "uint64", "ulong", "size"}
RangeOf(kind) ==
  CASE kind \in {"int", "int32", "error_code", "sasl_outcome"} -> Signed(IntBits)
    [] kind \in {"ssize", "int64"} -> Signed(LongBits)
    [] kind = "int8"   -> Signed(CharBits)
    [] kind = "int16"  -> Signed(ShortBits)
    [] kind = "uint8"  -> Unsigned(CharBits)
    [] kind = "uint16" -> Unsigned(ShortBits)
    [] kind = "uint32" -> Unsigned(IntBits)
    [] OTHER           -> Unsigned(LongBits)
Results(kind) ==
  CASE kind \in Numeric -> Ends(RangeOf(kind))
    [] kind \in {"nothing", "uninitialised"} -> {0}
    [] kind \in {"self_object", "array", "value", "intptr_t", "pn_cid_t"} -> {Address}
    [] OTHER -> {0, Address}

\* Mutated form: every number is cast to int.
FromResultAsInt(kind, n) ==
  IF kind \in Numeric THEN Integer(ToSigned(n)) ELSE IF n = 0 THEN Nil ELSE Val(kind, n)

\* How a result becomes a value of Ruby: ssize_t is cast to int first, a string is
\* copied, NULL is nil, and an object wraps the pointer.
FromResult(kind, n) ==
  CASE kind = "ssize"    -> Integer(ToSigned(n))
    [] kind \in Numeric \ {"ssize"} -> Integer(n)
    [] kind = "bool"     -> Bool(n # 0)
    [] kind \in {"float", "double"} -> Val("Float", n)
    [] kind = "nothing"  -> Nil
    [] kind \in {"chars", "atom"} -> IF n = 0 THEN Nil ELSE String(n)
    [] kind \in {"bytes", "tag"} -> String(n)
    [] kind = "array"    -> Val("Array", 0)
    [] kind = "value"    -> Other
    [] kind \in {"self_object", "uninitialised"} -> Val("Pn_rbkey_t", n)
    [] OTHER -> IF n = 0 THEN Nil ELSE Val(kind, n)

\* Mutated form: the code is taken for the class.
ErrorTypeUnmapped(code) == code

\* SWIG_Ruby_ErrorType: the class that is raised for a code of SWIG.
ErrorType(code) ==
  CASE code = "OverflowError" -> "RangeError"
    [] code = "RuntimeError"  -> "RuntimeError"
    [] code = "ValueError"    -> "ArgumentError"
    [] code = "ObjectPreviouslyDeletedError" -> "ObjectPreviouslyDeleted"
    [] OTHER -> "TypeError"
=============================================================================
