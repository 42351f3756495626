--------------------------- MODULE CprotonObject ----------------------------
(***************************************************************************)
(* The wrapper functions of cproton.c for the Ruby helpers of the binding  *)
(* and Proton's own object system: keys, classes, reference counts, lists, *)
(* maps, hashes, strings, iterators, records and tracing.  Each record has *)
(* a field per function, in the order of the file; CprotonTypes says what  *)
(* the kinds of parameters and results stand for.                          *)
(***************************************************************************)
EXTENDS CprotonTypes, TLC

RubyKeyRegistry ==
  [Pn_rbkey_t_registry_set |-> Method(<<"Pn_rbkey_t", "void">>, "nothing"),
   Pn_rbkey_t_registry_get |-> Method(<<"Pn_rbkey_t">>, "void")]

RubyKeyMethod ==
  [Pn_rbkey_t_method_set |-> Method(<<"Pn_rbkey_t", "chars">>, "nothing"),
   Pn_rbkey_t_method_get |-> Method(<<"Pn_rbkey_t">>, "chars")]

RubyKeyValue ==
  [Pn_rbkey_t_key_value_set |-> Method(<<"Pn_rbkey_t", "chars">>, "nothing"),
   Pn_rbkey_t_key_value_get |-> Method(<<"Pn_rbkey_t">>, "chars"),
   Pn_rbkey_t_allocate      |-> Fn({}, <<>>, "uninitialised")]

RubyKeyLifecycle ==
  [new_Pn_rbkey_t           |-> Fn({}, <<>>, "self_object"),
   Pn_rbkey_initialize      |-> Fn({}, <<"Pn_rbkey_t">>, "nothing"),
   Pn_rbkey_finalize        |-> Fn({}, <<"Pn_rbkey_t">>, "nothing"),
   Pn_rbkey_initialize_cast |-> Fn({}, <<"void">>, "nothing"),
   Pn_rbkey_finalize_cast   |-> Fn({}, <<"void">>, "nothing")]

RubyKeyClass ==
  [Pn_rbkey_hashcode_cast |-> Fn({}, <<"void">>, "ulong"),
   Pn_rbkey_compare_cast  |-> Fn({}, <<"void", "void">>, "intptr_t"),
   Pn_rbkey_inspect_cast  |-> Fn({}, <<"void", "pn_string_t">>, "int"),
   Pn_rbkey__class        |-> Fn({}, <<>>, "pn_class_t")]

RubyKeyNew ==
  [Pn_rbkey_new          |-> Fn({}, <<>>, "Pn_rbkey_t"),
   Pn_rbkey_set_registry |-> Fn({}, <<"Pn_rbkey_t", "void">>, "nothing"),
   Pn_rbkey_get_registry |-> Fn({}, <<"Pn_rbkey_t">>, "void")]

RubyKeyAccessors ==
  [Pn_rbkey_set_method    |-> Fn({}, <<"Pn_rbkey_t", "chars">>, "nothing"),
   Pn_rbkey_get_method    |-> Fn({}, <<"Pn_rbkey_t">>, "chars"),
   Pn_rbkey_set_key_value |-> Fn({}, <<"Pn_rbkey_t", "chars">>, "nothing"),
   Pn_rbkey_get_key_value |-> Fn({}, <<"Pn_rbkey_t">>, "chars")]

RubyConversions ==
  [pni_void2rbkey |-> Fn({}, <<"void">>, "Pn_rbkey_t"),
   pn_void2rb     |-> Fn({}, <<"void">>, "value"),
   pn_rb2void     |-> Fn({}, <<"value">>, "void"),
   pni_address_of |-> Fn({}, <<"void">>, "value")]

RubyRegistry ==
  [pni_ruby_get_proton_module    |-> Fn({}, <<>>, "value"),
   pni_ruby_add_to_registry      |-> Fn({}, <<"value", "value">>, "nothing"),
   pni_ruby_get_from_registry    |-> Fn({}, <<"value">>, "value"),
   pni_ruby_delete_from_registry |-> Fn({}, <<"value">>, "nothing")]

RubyHandlerStruct ==
  [Pni_rbhandler_t_handler_key_set |-> Method(<<"Pni_rbhandler_t", "value">>, "nothing"),
   Pni_rbhandler_t_handler_key_get |-> Method(<<"Pni_rbhandler_t">>, "value"),
   Pni_rbhandler_t_allocate        |-> Fn({}, <<>>, "uninitialised"),
   new_Pni_rbhandler_t             |-> Fn({}, <<>>, "self_object")]

RubyHandlers ==
  [pni_rbhandler          |-> Fn({}, <<"pn_handler_t">>, "Pni_rbhandler_t"),
   pni_rbdispatch         |-> Fn({}, <<"pn_handler_t", "pn_event_t", "int">>, "nothing"),
   pni_rbhandler_finalize |-> Fn({}, <<"pn_handler_t">>, "nothing"),
   pn_rbhandler           |-> Fn({}, <<"value">>, "pn_handler_t")]

ByteStrings ==
  [pn_bytes       |-> Fn({}, <<"size", "chars">>, "bytes"),
   PN_OBJECT_get  |-> Fn({}, <<>>, "pn_class_t"),
   PN_VOID_get    |-> Fn({}, <<>>, "pn_class_t"),
   PN_WEAKREF_get |-> Fn({}, <<>>, "pn_class_t")]

ClassNew ==
  [pn_class_id   |-> Fn({}, <<"pn_class_t">>, "pn_cid_t"),
   pn_class_name |-> Fn({}, <<"pn_class_t">>, "chars"),
   pn_class_new  |-> Fn({}, <<"pn_class_t", "size">>, "void")]

ClassCounting ==
  [pn_class_incref   |-> Fn({}, <<"pn_class_t", "void">>, "void"),
   pn_class_refcount |-> Fn({}, <<"pn_class_t", "void">>, "int"),
   pn_class_decref   |-> Fn({}, <<"pn_class_t", "void">>, "int"),
   pn_class_free     |-> Fn({}, <<"pn_class_t", "void">>, "nothing"),
   pn_class_reify    |-> Fn({}, <<"pn_class_t", "void">>, "pn_class_t")]

ClassMethods ==
  [pn_class_hashcode |-> Fn({}, <<"pn_class_t", "void">>, "ulong"),
   pn_class_compare  |-> Fn({}, <<"pn_class_t", "void", "void">>, "intptr_t"),
   pn_class_equals   |-> Fn({}, <<"pn_class_t", "void", "void">>, "bool"),
   pn_class_inspect  |-> Fn({}, <<"pn_class_t", "void", "pn_string_t">>, "int")]

VoidMethods ==
  [pn_void_hashcode |-> Fn({}, <<"void">>, "ulong"),
   pn_void_compare  |-> Fn({}, <<"void", "void">>, "intptr_t"),
   pn_void_inspect  |-> Fn({}, <<"void", "pn_string_t">>, "int")]

ObjectNew ==
  [pn_object_new   |-> Fn({}, <<"pn_class_t", "size">>, "void"),
   pn_object_reify |-> Fn({}, <<"void">>, "pn_class_t")]

ObjectCounting ==
  [pn_object_incref   |-> Fn({}, <<"void">>, "nothing"),
   pn_object_refcount |-> Fn({}, <<"void">>, "int"),
   pn_object_decref   |-> Fn({}, <<"void">>, "nothing"),
   pn_object_free     |-> Fn({}, <<"void">>, "nothing")]

Counting ==
  [pn_incref   |-> Fn({}, <<"void">>, "void"),
   pn_decref   |-> Fn({}, <<"void">>, "int"),
   pn_refcount |-> Fn({}, <<"void">>, "int"),
   pn_free     |-> Fn({}, <<"void">>, "nothing"),
   pn_class    |-> Fn({}, <<"void">>, "pn_class_t")]

ObjectMethods ==
  [pn_hashcode |-> Fn({}, <<"void">>, "ulong"),
   pn_compare  |-> Fn({}, <<"void", "void">>, "intptr_t"),
   pn_equals   |-> Fn({}, <<"void", "void">>, "bool"),
   pn_inspect  |-> Fn({}, <<"void", "pn_string_t">>, "int")]

ListNew ==
  [pn_list      |-> Fn({}, <<"pn_class_t", "size">>, "pn_list_t"),
   pn_list_size |-> Fn({}, <<"pn_list_t">>, "size"),
   pn_list_get  |-> Fn({}, <<"pn_list_t", "int">>, "void"),
   pn_list_set  |-> Fn({}, <<"pn_list_t", "int", "void">>, "nothing")]

ListChange ==
  [pn_list_add    |-> Fn({}, <<"pn_list_t", "void">>, "int"),
   pn_list_pop    |-> Fn({}, <<"pn_list_t">>, "void"),
   pn_list_index  |-> Fn({}, <<"pn_list_t", "void">>, "ssize"),
   pn_list_remove |-> Fn({}, <<"pn_list_t", "void">>, "bool"),
   pn_list_del    |-> Fn({}, <<"pn_list_t", "int", "int">>, "nothing")]

ListOrder ==
  [pn_list_clear    |-> Fn({}, <<"pn_list_t">>, "nothing"),
   pn_list_iterator |-> Fn({}, <<"pn_list_t", "pn_iterator_t">>, "nothing"),
   pn_list_minpush  |-> Fn({}, <<"pn_list_t", "void">>, "nothing"),
   pn_list_minpop   |-> Fn({}, <<"pn_list_t">>, "void")]

MapNew ==
  [pn_map      |-> Fn({}, <<"pn_class_t", "pn_class_t", "size", "float">>, "pn_map_t"),
   pn_map_size |-> Fn({}, <<"pn_map_t">>, "size"),
   pn_map_put  |-> Fn({}, <<"pn_map_t", "void", "void">>, "int")]

MapEntries ==
  [pn_map_get  |-> Fn({}, <<"pn_map_t", "void">>, "void"),
   pn_map_del  |-> Fn({}, <<"pn_map_t", "void">>, "nothing"),
   pn_map_head |-> Fn({}, <<"pn_map_t">>, "ulong"),
   pn_map_next |-> Fn({}, <<"pn_map_t", "ulong">>, "ulong")]

MapWalk ==
  [pn_map_key   |-> Fn({}, <<"pn_map_t", "ulong">>, "void"),
   pn_map_value |-> Fn({}, <<"pn_map_t", "ulong">>, "void")]

HashNew ==
  [pn_hash      |-> Fn({}, <<"pn_class_t", "size", "float">>, "pn_hash_t"),
   pn_hash_size |-> Fn({}, <<"pn_hash_t">>, "size"),
   pn_hash_put  |-> Fn({}, <<"pn_hash_t", "ulong", "void">>, "int")]

HashEntries ==
  [pn_hash_get  |-> Fn({}, <<"pn_hash_t", "ulong">>, "void"),
   pn_hash_del  |-> Fn({}, <<"pn_hash_t", "ulong">>, "nothing"),
   pn_hash_head |-> Fn({}, <<"pn_hash_t">>, "ulong"),
   pn_hash_next |-> Fn({}, <<"pn_hash_t", "ulong">>, "ulong")]

HashWalk ==
  [pn_hash_key   |-> Fn({}, <<"pn_hash_t", "ulong">>, "ulong"),
   pn_hash_value |-> Fn({}, <<"pn_hash_t", "ulong">>, "void")]

StringNew ==
  [pn_string      |-> Fn({}, <<"chars">>, "pn_string_t"),
   pn_stringn     |-> Fn({}, <<"chars", "size">>, "pn_string_t"),
   pn_string_get  |-> Fn({}, <<"pn_string_t">>, "chars"),
   pn_string_size |-> Fn({}, <<"pn_string_t">>, "size")]

StringSet ==
  [pn_string_set  |-> Fn({}, <<"pn_string_t", "chars">>, "int"),
   pn_string_setn |-> Fn({}, <<"pn_string_t", "chars", "size">>, "int"),
   pn_string_put  |-> Fn({}, <<"pn_string_t", "chars">>, "ssize")]

StringFormat ==
  [pn_string_clear  |-> Fn({}, <<"pn_string_t">>, "nothing"),
   pn_string_format |-> Varargs(Fn({}, <<"pn_string_t", "chars">>, "int")),
   pn_string_addf   |-> Varargs(Fn({}, <<"pn_string_t", "chars">>, "int"))]

StringSpace ==
  [pn_string_grow     |-> Fn({}, <<"pn_string_t", "size">>, "int"),
   pn_string_buffer   |-> Fn({}, <<"pn_string_t">>, "chars"),
   pn_string_capacity |-> Fn({}, <<"pn_string_t">>, "size"),
   pn_string_resize   |-> Fn({}, <<"pn_string_t", "size">>, "int"),
   pn_string_copy     |-> Fn({}, <<"pn_string_t", "pn_string_t">>, "int")]

Iterators ==
  [pn_iterator       |-> Fn({}, <<>>, "pn_iterator_t"),
   pn_iterator_start |-> Fn({}, <<"pn_iterator_t", "function", "size">>, "void"),
   pn_iterator_next  |-> Fn({}, <<"pn_iterator_t">>, "void")]

Records ==
  [pn_record     |-> Fn({}, <<>>, "pn_record_t"),
   pn_record_def |-> Fn({}, <<"pn_record_t", "ulong", "pn_class_t">>, "nothing"),
   pn_record_has |-> Fn({}, <<"pn_record_t", "ulong">>, "bool")]

RecordFields ==
  [pn_record_get   |-> Fn({}, <<"pn_record_t", "ulong">>, "void"),
   pn_record_set   |-> Fn({}, <<"pn_record_t", "ulong", "void">>, "nothing"),
   pn_record_clear |-> Fn({}, <<"pn_record_t">>, "nothing")]

Tracers ==
  [pn_set_fnc_entry_tracer |-> Fn({}, <<"function">>, "nothing"),
   pn_set_fnc_data_tracer  |-> Fn({}, <<"function">>, "nothing"),
   pn_set_fnc_exit_tracer  |-> Fn({}, <<"function">>, "nothing"),
   pn_fnc_entry            |-> Fn({}, <<"chars">>, "nothing"),
   pn_fnc_data_string      |-> Fn({}, <<"chars", "chars">>, "nothing")]

TraceNumbers ==
  [pn_fnc_data_bool   |-> Fn({}, <<"chars", "bool">>, "nothing"),
   pn_fnc_data_double |-> Fn({}, <<"chars", "double">>, "nothing"),
   pn_fnc_data_float  |-> Fn({}, <<"chars", "float">>, "nothing"),
   pn_fnc_data_int8_t |-> Fn({}, <<"chars", "int8">>, "nothing")]

TraceSigned ==
  [pn_fnc_data_int16_t |-> Fn({}, <<"chars", "int16">>, "nothing"),
   pn_fnc_data_int32_t |-> Fn({}, <<"chars", "int32">>, "nothing"),
   pn_fnc_data_int64_t |-> Fn({}, <<"chars", "int64">>, "nothing"),
   pn_fnc_data_pointer |-> Fn({}, <<"chars", "void">>, "nothing")]

TraceUnsigned ==
  [pn_fnc_data_uint8_t  |-> Fn({}, <<"chars", "uint8">>, "nothing"),
   pn_fnc_data_uint16_t |-> Fn({}, <<"chars", "uint16">>, "nothing"),
   pn_fnc_data_uint32_t |-> Fn({}, <<"chars", "uint32">>, "nothing"),
   pn_fnc_data_uint64_t |-> Fn({}, <<"chars", "uint64">>, "nothing")]

TraceExit ==
  [pn_fnc_exit_string       |-> Fn({}, <<"chars", "chars">>, "chars"),
   pn_fnc_exit_const_string |-> Fn({}, <<"chars", "chars">>, "chars"),
   pn_fnc_exit_bool         |-> Fn({}, <<"chars", "bool">>, "bool"),
   pn_fnc_exit_double       |-> Fn({}, <<"chars", "double">>, "double")]

TraceExitSmall ==
  [pn_fnc_exit_float   |-> Fn({}, <<"chars", "float">>, "float"),
   pn_fnc_exit_int8_t  |-> Fn({}, <<"chars", "int8">>, "int8"),
   pn_fnc_exit_int16_t |-> Fn({}, <<"chars", "int16">>, "int16"),
   pn_fnc_exit_int32_t |-> Fn({}, <<"chars", "int32">>, "int32")]

TraceExitWide ==
  [pn_fnc_exit_int64_t       |-> Fn({}, <<"chars", "int64">>, "int64"),
   pn_fnc_exit_pointer       |-> Fn({}, <<"chars", "void">>, "void"),
   pn_fnc_exit_const_pointer |-> Fn({}, <<"chars", "void">>, "void"),
   pn_fnc_exit_uint8_t       |-> Fn({}, <<"chars", "uint8">>, "uint8")]

TraceExitUnsigned ==
  [pn_fnc_exit_uint16_t |-> Fn({}, <<"chars", "uint16">>, "uint16"),
   pn_fnc_exit_uint32_t |-> Fn({}, <<"chars", "uint32">>, "uint32"),
   pn_fnc_exit_uint64_t |-> Fn({}, <<"chars", "uint64">>, "uint64"),
   pn_fnc_exit_void     |-> Fn({}, <<"chars">>, "nothing")]

ObjectFunctions ==
  RubyKeyRegistry @@ RubyKeyMethod @@ RubyKeyValue @@ RubyKeyLifecycle @@ RubyKeyClass
  @@ RubyKeyNew @@ RubyKeyAccessors @@ RubyConversions @@ RubyRegistry @@ RubyHandlerStruct
  @@ RubyHandlers @@ ByteStrings @@ ClassNew @@ ClassCounting @@ ClassMethods
  @@ VoidMethods @@ ObjectNew @@ ObjectCounting @@ Counting @@ ObjectMethods @@ ListNew
  @@ ListChange @@ ListOrder @@ MapNew @@ MapEntries @@ MapWalk @@ HashNew @@ HashEntries
  @@ HashWalk @@ StringNew @@ StringSet @@ StringFormat @@ StringSpace @@ Iterators
  @@ Records @@ RecordFields @@ Tracers @@ TraceNumbers @@ TraceSigned @@ TraceUnsigned
  @@ TraceExit @@ TraceExitSmall @@ TraceExitWide @@ TraceExitUnsigned
=============================================================================
