--------------------------- MODULE CprotonMessage ---------------------------
(***************************************************************************)
(* The wrapper functions of cproton.c for messages and authentication.     *)
(* Each record has a field per function, in the order of the file;         *)
(* CprotonTypes says what the kinds of parameters and results stand for.   *)
(***************************************************************************)
EXTENDS CprotonTypes, TLC

MessageNew ==
  [pn_message       |-> Fn({}, <<>>, "pn_message_t"),
   pn_message_copy  |-> Fn({}, <<"pn_message_t", "pn_message_t">>, "int"),
   pn_message_free  |-> Fn({1}, <<"pn_message_t">>, "nothing"),
   pn_message_clear |-> Fn({1}, <<"pn_message_t">>, "nothing"),
   pn_message_errno |-> Fn({1}, <<"pn_message_t">>, "int"),
   pn_message_error |-> Fn({1}, <<"pn_message_t">>, "pn_error_t")]

MessageHeader ==
  [pn_message_is_inferred  |-> Fn({}, <<"pn_message_t">>, "bool"),
   pn_message_set_inferred |-> Fn({}, <<"pn_message_t", "bool">>, "int"),
   pn_message_is_durable   |-> Fn({1}, <<"pn_message_t">>, "bool"),
   pn_message_set_durable  |-> Fn({1}, <<"pn_message_t", "bool">>, "int"),
   pn_message_get_priority |-> Fn({1}, <<"pn_message_t">>, "uint8")]

MessageTtl ==
  [pn_message_set_priority      |-> Fn({1}, <<"pn_message_t", "uint8">>, "int"),
   pn_message_get_ttl           |-> Fn({1}, <<"pn_message_t">>, "uint32"),
   pn_message_set_ttl           |-> Fn({1}, <<"pn_message_t", "uint32">>, "int"),
   pn_message_is_first_acquirer |-> Fn({1}, <<"pn_message_t">>, "bool")]

MessageCount ==
  [pn_message_set_first_acquirer |-> Fn({1}, <<"pn_message_t", "bool">>, "int"),
   pn_message_get_delivery_count |-> Fn({1}, <<"pn_message_t">>, "uint32"),
   pn_message_set_delivery_count |-> Fn({1}, <<"pn_message_t", "uint32">>, "int"),
   pn_message_id                 |-> Fn({}, <<"pn_message_t">>, "pn_data_t")]

MessageGetId ==
  [pn_message_get_id |-> Fn({1}, <<"pn_message_t">>, "atom")]

MessageSetId ==
  [pn_message_set_id      |-> Fn({1}, <<"pn_message_t", "atom">>, "int"),
   pn_message_get_user_id |-> Fn({1}, <<"pn_message_t">>, "bytes"),
   pn_message_set_user_id |-> Fn({1}, <<"pn_message_t", "data">>, "int")]

MessageAddress ==
  [pn_message_get_address  |-> Fn({1}, <<"pn_message_t">>, "chars"),
   pn_message_set_address  |-> Fn({1}, <<"pn_message_t", "chars">>, "int"),
   pn_message_get_subject  |-> Fn({1}, <<"pn_message_t">>, "chars"),
   pn_message_set_subject  |-> Fn({1}, <<"pn_message_t", "chars">>, "int"),
   pn_message_get_reply_to |-> Fn({1}, <<"pn_message_t">>, "chars")]

MessageCorrelation ==
  [pn_message_set_reply_to       |-> Fn({1}, <<"pn_message_t", "chars">>, "int"),
   pn_message_correlation_id     |-> Fn({}, <<"pn_message_t">>, "pn_data_t"),
   pn_message_get_correlation_id |-> Fn({1}, <<"pn_message_t">>, "atom")]

MessageContentType ==
  [pn_message_set_correlation_id |-> Fn({1}, <<"pn_message_t", "atom">>, "int"),
   pn_message_get_content_type   |-> Fn({1}, <<"pn_message_t">>, "chars"),
   pn_message_set_content_type   |-> Fn({1}, <<"pn_message_t", "chars">>, "int")]

MessageTimes ==
  [pn_message_get_content_encoding |-> Fn({1}, <<"pn_message_t">>, "chars"),
   pn_message_set_content_encoding |-> Fn({1}, <<"pn_message_t", "chars">>, "int"),
   pn_message_get_expiry_time      |-> Fn({1}, <<"pn_message_t">>, "int64"),
   pn_message_set_expiry_time      |-> Fn({1}, <<"pn_message_t", "int64">>, "int"),
   pn_message_get_creation_time    |-> Fn({1}, <<"pn_message_t">>, "int64")]

MessageGroup ==
  [pn_message_set_creation_time  |-> Fn({1}, <<"pn_message_t", "int64">>, "int"),
   pn_message_get_group_id       |-> Fn({1}, <<"pn_message_t">>, "chars"),
   pn_message_set_group_id       |-> Fn({1}, <<"pn_message_t", "chars">>, "int"),
   pn_message_get_group_sequence |-> Fn({1}, <<"pn_message_t">>, "int32")]

MessageParts ==
  [pn_message_set_group_sequence    |-> Fn({1}, <<"pn_message_t", "int32">>, "int"),
   pn_message_get_reply_to_group_id |-> Fn({1}, <<"pn_message_t">>, "chars"),
   pn_message_set_reply_to_group_id |-> Fn({1}, <<"pn_message_t", "chars">>, "int"),
   pn_message_instructions          |-> Fn({}, <<"pn_message_t">>, "pn_data_t"),
   pn_message_annotations           |-> Fn({}, <<"pn_message_t">>, "pn_data_t")]

MessageDecode ==
  [pn_message_properties |-> Fn({}, <<"pn_message_t">>, "pn_data_t"),
   pn_message_body       |-> Fn({}, <<"pn_message_t">>, "pn_data_t"),
   pn_message_decode     |-> Fn({1}, <<"pn_message_t", "chars", "size">>, "int"),
   pn_message_data       |-> Fn({}, <<"pn_message_t", "pn_data_t">>, "int")]

SaslState ==
  [pn_sasl          |-> Fn({}, <<"pn_transport_t">>, "pn_sasl_t"),
   pn_sasl_extended |-> Fn({}, <<>>, "bool"),
   pn_sasl_done     |-> Fn({1}, <<"pn_sasl_t", "sasl_outcome">>, "nothing"),
   pn_sasl_get_user |-> Fn({}, <<"pn_sasl_t">>, "chars")]

SaslMechanisms ==
  [pn_sasl_get_mech                 |-> Fn({}, <<"pn_sasl_t">>, "chars"),
   pn_sasl_allowed_mechs            |-> Fn({1}, <<"pn_sasl_t", "chars">>, "nothing"),
   pn_sasl_set_allow_insecure_mechs |-> Fn({}, <<"pn_sasl_t", "bool">>, "nothing")]

SaslConfig ==
  [pn_sasl_get_allow_insecure_mechs |-> Fn({}, <<"pn_sasl_t">>, "bool"),
   pn_sasl_config_name              |-> Fn({}, <<"pn_sasl_t", "chars">>, "nothing"),
   pn_sasl_config_path              |-> Fn({}, <<"pn_sasl_t", "chars">>, "nothing")]

MessageTransfer ==
  [pn_message_encode |-> Fn({}, <<"pn_message_t", "buffer">>, "int"),
   pn_link_send      |-> Fn({}, <<"pn_link_t", "bytes">>, "ssize"),
   pn_link_recv      |-> Fn({}, <<"pn_link_t", "buffer">>, "int")]

SaslOutcome ==
  [pn_transport_get_sasl |-> Fn({}, <<"pn_transport_t">>, "pn_sasl_t"),
   pn_sasl_outcome       |-> Fn({}, <<"pn_transport_t">>, "int")]

MessageFunctions ==
  MessageNew @@ MessageHeader @@ MessageTtl @@ MessageCount @@ MessageGetId @@ MessageSetId
  @@ MessageAddress @@ MessageCorrelation @@ MessageContentType @@ MessageTimes
  @@ MessageGroup @@ MessageParts @@ MessageDecode @@ SaslState @@ SaslMechanisms
  @@ SaslConfig @@ MessageTransfer @@ SaslOutcome
=============================================================================
