-------------------------- MODULE CprotonTransfer ---------------------------
(***************************************************************************)
(* The wrapper functions of cproton.c for termini, deliveries,             *)
(* dispositions, transports and events of the protocol engine.  Each       *)
(* record has a field per function, in the order of the file; CprotonTypes *)
(* says what the kinds of parameters and results stand for.                *)
(***************************************************************************)
EXTENDS CprotonTypes, TLC

TerminusAddress ==
  [pn_terminus_get_type    |-> Fn({}, <<"pn_terminus_t">>, "int"),
   pn_terminus_set_type    |-> Fn({}, <<"pn_terminus_t", "int">>, "int"),
   pn_terminus_get_address |-> Fn({}, <<"pn_terminus_t">>, "chars")]

TerminusMode ==
  [pn_terminus_set_address           |-> Fn({}, <<"pn_terminus_t", "chars">>, "int"),
   pn_terminus_get_distribution_mode |-> Fn({}, <<"pn_terminus_t">>, "int"),
   pn_terminus_set_distribution_mode |-> Fn({}, <<"pn_terminus_t", "int">>, "int"),
   pn_terminus_get_durability        |-> Fn({}, <<"pn_terminus_t">>, "int")]

TerminusExpiry ==
  [pn_terminus_set_durability    |-> Fn({}, <<"pn_terminus_t", "int">>, "int"),
   pn_terminus_get_expiry_policy |-> Fn({}, <<"pn_terminus_t">>, "int"),
   pn_terminus_set_expiry_policy |-> Fn({}, <<"pn_terminus_t", "int">>, "int"),
   pn_terminus_get_timeout       |-> Fn({}, <<"pn_terminus_t">>, "uint32")]

TerminusTimeout ==
  [pn_terminus_set_timeout  |-> Fn({}, <<"pn_terminus_t", "uint32">>, "int"),
   pn_terminus_is_dynamic   |-> Fn({}, <<"pn_terminus_t">>, "bool"),
   pn_terminus_set_dynamic  |-> Fn({}, <<"pn_terminus_t", "bool">>, "int"),
   pn_terminus_properties   |-> Fn({}, <<"pn_terminus_t">>, "pn_data_t"),
   pn_terminus_capabilities |-> Fn({}, <<"pn_terminus_t">>, "pn_data_t")]

TerminusData ==
  [pn_terminus_outcomes |-> Fn({}, <<"pn_terminus_t">>, "pn_data_t"),
   pn_terminus_filter   |-> Fn({}, <<"pn_terminus_t">>, "pn_data_t"),
   pn_terminus_copy     |-> Fn({}, <<"pn_terminus_t", "pn_terminus_t">>, "int")]

DeliveryContext ==
  [pn_delivery_get_context |-> Fn({}, <<"pn_delivery_t">>, "void"),
   pn_delivery_set_context |-> Fn({}, <<"pn_delivery_t", "void">>, "nothing"),
   pn_delivery_attachments |-> Fn({}, <<"pn_delivery_t">>, "pn_record_t"),
   pn_delivery_link        |-> Fn({1}, <<"pn_delivery_t">>, "pn_link_t"),
   pn_delivery_local       |-> Fn({}, <<"pn_delivery_t">>, "pn_disposition_t"),
   pn_delivery_local_state |-> Fn({1}, <<"pn_delivery_t">>, "uint64")]

DeliveryState ==
  [pn_delivery_remote       |-> Fn({}, <<"pn_delivery_t">>, "pn_disposition_t"),
   pn_delivery_remote_state |-> Fn({1}, <<"pn_delivery_t">>, "uint64"),
   pn_delivery_settled      |-> Fn({1}, <<"pn_delivery_t">>, "bool"),
   pn_delivery_pending      |-> Fn({1}, <<"pn_delivery_t">>, "size")]

DeliveryReadiness ==
  [pn_delivery_partial  |-> Fn({}, <<"pn_delivery_t">>, "bool"),
   pn_delivery_writable |-> Fn({1}, <<"pn_delivery_t">>, "bool"),
   pn_delivery_readable |-> Fn({1}, <<"pn_delivery_t">>, "bool"),
   pn_delivery_updated  |-> Fn({1}, <<"pn_delivery_t">>, "bool")]

DeliverySettle ==
  [pn_delivery_update  |-> Fn({}, <<"pn_delivery_t", "uint64">>, "nothing"),
   pn_delivery_clear   |-> Fn({1}, <<"pn_delivery_t">>, "nothing"),
   pn_delivery_current |-> Fn({}, <<"pn_delivery_t">>, "bool"),
   pn_delivery_settle  |-> Fn({1}, <<"pn_delivery_t">>, "nothing")]

DeliveryWork ==
  [pn_delivery_dump     |-> Fn({1}, <<"pn_delivery_t">>, "nothing"),
   pn_delivery_buffered |-> Fn({}, <<"pn_delivery_t">>, "bool"),
   pn_work_head         |-> Fn({1}, <<"pn_connection_t">>, "pn_delivery_t"),
   pn_work_next         |-> Fn({1}, <<"pn_delivery_t">>, "pn_delivery_t")]

DispositionType ==
  [pn_disposition_type               |-> Fn({}, <<"pn_disposition_t">>, "uint64"),
   pn_disposition_condition          |-> Fn({}, <<"pn_disposition_t">>, "pn_condition_t"),
   pn_disposition_data               |-> Fn({}, <<"pn_disposition_t">>, "pn_data_t"),
   pn_disposition_get_section_number |-> Fn({}, <<"pn_disposition_t">>, "uint32")]

DispositionSection ==
  [pn_disposition_set_section_number |-> Fn({}, <<"pn_disposition_t", "uint32">>, "nothing"),
   pn_disposition_get_section_offset |-> Fn({}, <<"pn_disposition_t">>, "uint64"),
   pn_disposition_set_section_offset |-> Fn({}, <<"pn_disposition_t", "uint64">>, "nothing"),
   pn_disposition_is_failed          |-> Fn({}, <<"pn_disposition_t">>, "bool")]

DispositionFlags ==
  [pn_disposition_set_failed        |-> Fn({}, <<"pn_disposition_t", "bool">>, "nothing"),
   pn_disposition_is_undeliverable  |-> Fn({}, <<"pn_disposition_t">>, "bool"),
   pn_disposition_set_undeliverable |-> Fn({}, <<"pn_disposition_t", "bool">>, "nothing"),
   pn_disposition_annotations       |-> Fn({}, <<"pn_disposition_t">>, "pn_data_t")]

TransportNew ==
  [pn_transport            |-> Fn({}, <<>>, "pn_transport_t"),
   pn_transport_set_server |-> Fn({}, <<"pn_transport_t">>, "nothing"),
   pn_transport_free       |-> Fn({1}, <<"pn_transport_t">>, "nothing"),
   pn_transport_get_user   |-> Fn({}, <<"pn_transport_t">>, "chars")]

TransportSecurity ==
  [pn_transport_require_auth       |-> Fn({}, <<"pn_transport_t", "bool">>, "nothing"),
   pn_transport_is_authenticated   |-> Fn({}, <<"pn_transport_t">>, "bool"),
   pn_transport_require_encryption |-> Fn({}, <<"pn_transport_t", "bool">>, "nothing"),
   pn_transport_is_encrypted       |-> Fn({}, <<"pn_transport_t">>, "bool"),
   pn_transport_condition          |-> Fn({}, <<"pn_transport_t">>, "pn_condition_t")]

TransportBind ==
  [pn_transport_error  |-> Fn({1}, <<"pn_transport_t">>, "pn_error_t"),
   pn_transport_bind   |-> Fn({}, <<"pn_transport_t", "pn_connection_t">>, "int"),
   pn_transport_unbind |-> Fn({}, <<"pn_transport_t">>, "int")]

TransportTrace ==
  [pn_transport_trace       |-> Fn({1}, <<"pn_transport_t", "int">>, "nothing"),
   pn_transport_set_tracer  |-> Fn({}, <<"pn_transport_t", "function">>, "nothing"),
   pn_transport_get_tracer  |-> Fn({}, <<"pn_transport_t">>, "function"),
   pn_transport_get_context |-> Fn({}, <<"pn_transport_t">>, "void"),
   pn_transport_set_context |-> Fn({}, <<"pn_transport_t", "void">>, "nothing")]

TransportLog ==
  [pn_transport_attachments     |-> Fn({}, <<"pn_transport_t">>, "pn_record_t"),
   pn_transport_log             |-> Fn({}, <<"pn_transport_t", "chars">>, "nothing"),
   pn_transport_logf            |-> Varargs(Fn({}, <<"pn_transport_t", "chars">>, "nothing")),
   pn_transport_get_channel_max |-> Fn({}, <<"pn_transport_t">>, "uint16"),
   pn_transport_set_channel_max |-> Fn({}, <<"pn_transport_t", "uint16">>, "int")]

TransportFrames ==
  [pn_transport_remote_channel_max   |-> Fn({}, <<"pn_transport_t">>, "uint16"),
   pn_transport_get_max_frame        |-> Fn({}, <<"pn_transport_t">>, "uint32"),
   pn_transport_set_max_frame        |-> Fn({}, <<"pn_transport_t", "uint32">>, "nothing"),
   pn_transport_get_remote_max_frame |-> Fn({}, <<"pn_transport_t">>, "uint32"),
   pn_transport_get_idle_timeout     |-> Fn({}, <<"pn_transport_t">>, "uint32")]

TransportInput ==
  [pn_transport_set_idle_timeout        |-> Fn({}, <<"pn_transport_t", "uint32">>, "nothing"),
   pn_transport_get_remote_idle_timeout |-> Fn({}, <<"pn_transport_t">>, "uint32"),
   pn_transport_capacity                |-> Fn({}, <<"pn_transport_t">>, "ssize"),
   pn_transport_tail                    |-> Fn({}, <<"pn_transport_t">>, "chars"),
   pn_transport_push                    |-> Fn({}, <<"pn_transport_t", "chars", "size">>, "ssize")]

TransportOutput ==
  [pn_transport_process    |-> Fn({}, <<"pn_transport_t", "size">>, "int"),
   pn_transport_close_tail |-> Fn({}, <<"pn_transport_t">>, "int"),
   pn_transport_pending    |-> Fn({}, <<"pn_transport_t">>, "ssize"),
   pn_transport_head       |-> Fn({}, <<"pn_transport_t">>, "chars"),
   pn_transport_pop        |-> Fn({}, <<"pn_transport_t", "size">>, "nothing")]

TransportCounters ==
  [pn_transport_close_head        |-> Fn({}, <<"pn_transport_t">>, "int"),
   pn_transport_quiesced          |-> Fn({}, <<"pn_transport_t">>, "bool"),
   pn_transport_closed            |-> Fn({}, <<"pn_transport_t">>, "bool"),
   pn_transport_tick              |-> Fn({}, <<"pn_transport_t", "int64">>, "int64"),
   pn_transport_get_frames_output |-> Fn({}, <<"pn_transport_t">>, "uint64"),
   pn_transport_get_frames_input  |-> Fn({}, <<"pn_transport_t">>, "uint64")]

EventCollector ==
  [pn_transport_connection |-> Fn({}, <<"pn_transport_t">>, "pn_connection_t"),
   pn_event_type_name      |-> Fn({}, <<"int">>, "chars"),
   pn_collector            |-> Fn({}, <<>>, "pn_collector_t"),
   pn_collector_free       |-> Fn({}, <<"pn_collector_t">>, "nothing"),
   pn_collector_release    |-> Fn({}, <<"pn_collector_t">>, "nothing"),
   pn_collector_put        |-> Fn({}, <<"pn_collector_t", "pn_class_t", "void", "int">>, "pn_event_t")]

EventQueue ==
  [pn_collector_peek |-> Fn({}, <<"pn_collector_t">>, "pn_event_t"),
   pn_collector_pop  |-> Fn({}, <<"pn_collector_t">>, "bool"),
   pn_collector_more |-> Fn({}, <<"pn_collector_t">>, "bool"),
   pn_event_type     |-> Fn({}, <<"pn_event_t">>, "int"),
   pn_event_class    |-> Fn({}, <<"pn_event_t">>, "pn_class_t"),
   pn_event_context  |-> Fn({}, <<"pn_event_t">>, "void")]

EventContext ==
  [pn_event_connection  |-> Fn({}, <<"pn_event_t">>, "pn_connection_t"),
   pn_event_session     |-> Fn({}, <<"pn_event_t">>, "pn_session_t"),
   pn_event_link        |-> Fn({}, <<"pn_event_t">>, "pn_link_t"),
   pn_event_delivery    |-> Fn({}, <<"pn_event_t">>, "pn_delivery_t"),
   pn_event_transport   |-> Fn({}, <<"pn_event_t">>, "pn_transport_t"),
   pn_event_attachments |-> Fn({}, <<"pn_event_t">>, "pn_record_t")]

EngineBuffers ==
  [pn_transport_input  |-> Fn({}, <<"pn_transport_t", "bytes">>, "ssize"),
   pn_transport_output |-> Fn({}, <<"pn_transport_t", "buffer">>, "int"),
   pn_transport_peek   |-> Fn({}, <<"pn_transport_t", "buffer">>, "int")]

DeliveryTags ==
  [pn_delivery     |-> Fn({}, <<"pn_link_t", "bytes">>, "pn_delivery_t"),
   pn_delivery_tag |-> Fn({}, <<"pn_delivery_t">>, "tag")]

TransferFunctions ==
  TerminusAddress @@ TerminusMode @@ TerminusExpiry @@ TerminusTimeout @@ TerminusData
  @@ DeliveryContext @@ DeliveryState @@ DeliveryReadiness @@ DeliverySettle
  @@ DeliveryWork @@ DispositionType @@ DispositionSection @@ DispositionFlags
  @@ TransportNew @@ TransportSecurity @@ TransportBind @@ TransportTrace @@ TransportLog
  @@ TransportFrames @@ TransportInput @@ TransportOutput @@ TransportCounters
  @@ EventCollector @@ EventQueue @@ EventContext @@ EngineBuffers @@ DeliveryTags
=============================================================================
