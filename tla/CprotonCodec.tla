---------------------------- MODULE CprotonCodec ----------------------------
(***************************************************************************)
(* The wrapper functions of cproton.c for the AMQP data codec.  Each       *)
(* record has a field per function, in the order of the file; CprotonTypes *)
(* says what the kinds of parameters and results stand for.                *)
(***************************************************************************)
EXTENDS CprotonTypes, TLC

DataNew ==
  [pn_type_name  |-> Fn({}, <<"int">>, "chars"),
   pn_data       |-> Fn({}, <<"size">>, "pn_data_t"),
   pn_data_free  |-> Fn({}, <<"pn_data_t">>, "nothing"),
   pn_data_errno |-> Fn({}, <<"pn_data_t">>, "int"),
   pn_data_error |-> Fn({}, <<"pn_data_t">>, "pn_error_t")]

DataFill ==
  [pn_data_fill   |-> Varargs(Fn({}, <<"pn_data_t", "chars">>, "int")),
   pn_data_scan   |-> Varargs(Fn({}, <<"pn_data_t", "chars">>, "int")),
   pn_data_clear  |-> Fn({}, <<"pn_data_t">>, "nothing"),
   pn_data_size   |-> Fn({}, <<"pn_data_t">>, "size"),
   pn_data_rewind |-> Fn({}, <<"pn_data_t">>, "nothing")]

DataWalk ==
  [pn_data_next   |-> Fn({}, <<"pn_data_t">>, "bool"),
   pn_data_prev   |-> Fn({}, <<"pn_data_t">>, "bool"),
   pn_data_enter  |-> Fn({}, <<"pn_data_t">>, "bool"),
   pn_data_exit   |-> Fn({}, <<"pn_data_t">>, "bool"),
   pn_data_lookup |-> Fn({}, <<"pn_data_t", "chars">>, "bool")]

DataFormat ==
  [pn_data_type   |-> Fn({}, <<"pn_data_t">>, "int"),
   pn_data_print  |-> Fn({}, <<"pn_data_t">>, "int"),
   pn_data_format |-> Fn({}, <<"pn_data_t", "chars", "unsigned_int">>, "int"),
   pn_data_encode |-> Fn({}, <<"pn_data_t", "chars", "size">>, "ssize")]

DataPutList ==
  [pn_data_encoded_size |-> Fn({}, <<"pn_data_t">>, "ssize"),
   pn_data_decode       |-> Fn({}, <<"pn_data_t", "chars", "size">>, "ssize"),
   pn_data_put_list     |-> Fn({}, <<"pn_data_t">>, "int"),
   pn_data_put_map      |-> Fn({}, <<"pn_data_t">>, "int")]

DataPutSmall ==
  [pn_data_put_array     |-> Fn({}, <<"pn_data_t", "bool", "int">>, "int"),
   pn_data_put_described |-> Fn({}, <<"pn_data_t">>, "int"),
   pn_data_put_null      |-> Fn({}, <<"pn_data_t">>, "int"),
   pn_data_put_bool      |-> Fn({}, <<"pn_data_t", "bool">>, "int"),
   pn_data_put_ubyte     |-> Fn({}, <<"pn_data_t", "uint8">>, "int")]

DataPutShort ==
  [pn_data_put_byte   |-> Fn({}, <<"pn_data_t", "int8">>, "int"),
   pn_data_put_ushort |-> Fn({}, <<"pn_data_t", "uint16">>, "int"),
   pn_data_put_short  |-> Fn({}, <<"pn_data_t", "int16">>, "int"),
   pn_data_put_uint   |-> Fn({}, <<"pn_data_t", "uint32">>, "int")]

DataPutWide ==
  [pn_data_put_int   |-> Fn({}, <<"pn_data_t", "int32">>, "int"),
   pn_data_put_char  |-> Fn({}, <<"pn_data_t", "uint32">>, "int"),
   pn_data_put_ulong |-> Fn({}, <<"pn_data_t", "uint64">>, "int"),
   pn_data_put_long  |-> Fn({}, <<"pn_data_t", "int64">>, "int")]

DataPutReal ==
  [pn_data_put_timestamp |-> Fn({}, <<"pn_data_t", "int64">>, "int"),
   pn_data_put_float     |-> Fn({}, <<"pn_data_t", "float">>, "int"),
   pn_data_put_double    |-> Fn({}, <<"pn_data_t", "double">>, "int"),
   pn_data_put_decimal32 |-> Fn({}, <<"pn_data_t", "decimal32">>, "int"),
   pn_data_put_decimal64 |-> Fn({}, <<"pn_data_t", "decimal64">>, "int")]

DataPutArrays ==
  [pn_data_put_decimal128 |-> Fn({}, <<"pn_data_t", "array">>, "int"),
   pn_data_put_uuid       |-> Fn({}, <<"pn_data_t", "array">>, "int"),
   pn_data_put_binary     |-> Fn({}, <<"pn_data_t", "data">>, "int"),
   pn_data_put_string     |-> Fn({}, <<"pn_data_t", "data">>, "int")]

DataGetCompound ==
  [pn_data_put_symbol         |-> Fn({}, <<"pn_data_t", "data">>, "int"),
   pn_data_get_list           |-> Fn({}, <<"pn_data_t">>, "size"),
   pn_data_get_map            |-> Fn({}, <<"pn_data_t">>, "size"),
   pn_data_get_array          |-> Fn({}, <<"pn_data_t">>, "size"),
   pn_data_is_array_described |-> Fn({}, <<"pn_data_t">>, "bool")]

DataGetSmall ==
  [pn_data_get_array_type |-> Fn({}, <<"pn_data_t">>, "int"),
   pn_data_is_described   |-> Fn({}, <<"pn_data_t">>, "bool"),
   pn_data_is_null        |-> Fn({}, <<"pn_data_t">>, "bool"),
   pn_data_get_bool       |-> Fn({}, <<"pn_data_t">>, "bool"),
   pn_data_get_ubyte      |-> Fn({}, <<"pn_data_t">>, "uint8"),
   pn_data_get_byte       |-> Fn({}, <<"pn_data_t">>, "int8")]

DataGetInt ==
  [pn_data_get_ushort |-> Fn({}, <<"pn_data_t">>, "uint16"),
   pn_data_get_short  |-> Fn({}, <<"pn_data_t">>, "int16"),
   pn_data_get_uint   |-> Fn({}, <<"pn_data_t">>, "uint32"),
   pn_data_get_int    |-> Fn({}, <<"pn_data_t">>, "int32"),
   pn_data_get_char   |-> Fn({}, <<"pn_data_t">>, "uint32"),
   pn_data_get_ulong  |-> Fn({}, <<"pn_data_t">>, "uint64")]

DataGetReal ==
  [pn_data_get_long      |-> Fn({}, <<"pn_data_t">>, "int64"),
   pn_data_get_timestamp |-> Fn({}, <<"pn_data_t">>, "int64"),
   pn_data_get_float     |-> Fn({}, <<"pn_data_t">>, "float"),
   pn_data_get_double    |-> Fn({}, <<"pn_data_t">>, "double"),
   pn_data_get_decimal32 |-> Fn({}, <<"pn_data_t">>, "uint64"),
   pn_data_get_decimal64 |-> Fn({}, <<"pn_data_t">>, "uint64")]

DataGetBytes ==
  [pn_data_get_decimal128 |-> Fn({}, <<"pn_data_t">>, "array"),
   pn_data_get_uuid       |-> Fn({}, <<"pn_data_t">>, "array"),
   pn_data_get_binary     |-> Fn({}, <<"pn_data_t">>, "bytes"),
   pn_data_get_string     |-> Fn({}, <<"pn_data_t">>, "bytes"),
   pn_data_get_symbol     |-> Fn({}, <<"pn_data_t">>, "bytes")]

DataCopy ==
  [pn_data_get_bytes |-> Fn({}, <<"pn_data_t">>, "bytes"),
   pn_data_copy      |-> Fn({}, <<"pn_data_t", "pn_data_t">>, "int"),
   pn_data_append    |-> Fn({}, <<"pn_data_t", "pn_data_t">>, "int"),
   pn_data_appendn   |-> Fn({}, <<"pn_data_t", "pn_data_t", "int">>, "int"),
   pn_data_narrow    |-> Fn({}, <<"pn_data_t">>, "nothing")]

DataPoint ==
  [pn_data_widen   |-> Fn({}, <<"pn_data_t">>, "nothing"),
   pn_data_point   |-> Fn({}, <<"pn_data_t">>, "ulong"),
   pn_data_restore |-> Fn({}, <<"pn_data_t", "ulong">>, "bool"),
   pn_data_dump    |-> Fn({}, <<"pn_data_t">>, "nothing")]

CodecFunctions ==
  DataNew @@ DataFill @@ DataWalk @@ DataFormat @@ DataPutList @@ DataPutSmall
  @@ DataPutShort @@ DataPutWide @@ DataPutReal @@ DataPutArrays @@ DataGetCompound
  @@ DataGetSmall @@ DataGetInt @@ DataGetReal @@ DataGetBytes @@ DataCopy @@ DataPoint
=============================================================================
