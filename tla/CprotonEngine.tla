--------------------------- MODULE CprotonEngine ----------------------------
(***************************************************************************)
(* The wrapper functions of cproton.c for errors, conditions, connections, *)
(* sessions and links of the protocol engine.  Each record has a field per *)
(* function, in the order of the file; CprotonTypes says what the kinds of *)
(* parameters and results stand for.                                       *)
(***************************************************************************)
EXTENDS CprotonTypes, TLC

ErrorSet ==
  [pn_code        |-> Fn({}, <<"error_code">>, "chars"),
   pn_error       |-> Fn({}, <<>>, "pn_error_t"),
   pn_error_free  |-> Fn({1}, <<"pn_error_t">>, "nothing"),
   pn_error_clear |-> Fn({1}, <<"pn_error_t">>, "nothing"),
   pn_error_set   |-> Fn({1}, <<"pn_error_t", "int", "chars">>, "int")]

ErrorText ==
  [pn_error_code |-> Fn({1}, <<"pn_error_t">>, "int"),
   pn_error_text |-> Fn({1}, <<"pn_error_t">>, "chars"),
   pn_error_copy |-> Fn({}, <<"pn_error_t", "pn_error_t">>, "int")]

ConditionText ==
  [pn_condition_is_set          |-> Fn({}, <<"pn_condition_t">>, "bool"),
   pn_condition_clear           |-> Fn({}, <<"pn_condition_t">>, "nothing"),
   pn_condition_get_name        |-> Fn({}, <<"pn_condition_t">>, "chars"),
   pn_condition_set_name        |-> Fn({}, <<"pn_condition_t", "chars">>, "int"),
   pn_condition_get_description |-> Fn({}, <<"pn_condition_t">>, "chars")]

ConditionRedirect ==
  [pn_condition_set_description |-> Fn({}, <<"pn_condition_t", "chars">>, "int"),
   pn_condition_info            |-> Fn({}, <<"pn_condition_t">>, "pn_data_t"),
   pn_condition_is_redirect     |-> Fn({}, <<"pn_condition_t">>, "bool"),
   pn_condition_redirect_host   |-> Fn({}, <<"pn_condition_t">>, "chars"),
   pn_condition_redirect_port   |-> Fn({}, <<"pn_condition_t">>, "int")]

ConnectionLifecycle ==
  [pn_connection         |-> Ensures(Fn({}, <<>>, "pn_connection_t"), "notNull"),
   pn_connection_free    |-> Fn({1}, <<"pn_connection_t">>, "nothing"),
   pn_connection_release |-> Fn({}, <<"pn_connection_t">>, "nothing"),
   pn_connection_error   |-> Fn({1}, <<"pn_connection_t">>, "pn_error_t")]

ConnectionContext ==
  [pn_connection_collect     |-> Fn({}, <<"pn_connection_t", "pn_collector_t">>, "nothing"),
   pn_connection_get_context |-> Fn({}, <<"pn_connection_t">>, "void"),
   pn_connection_set_context |-> Fn({}, <<"pn_connection_t", "void">>, "nothing"),
   pn_connection_attachments |-> Fn({}, <<"pn_connection_t">>, "pn_record_t")]

ConnectionState ==
  [pn_connection_state            |-> Fn({1}, <<"pn_connection_t">>, "int"),
   pn_connection_open             |-> Fn({1}, <<"pn_connection_t">>, "nothing"),
   pn_connection_close            |-> Fn({1}, <<"pn_connection_t">>, "nothing"),
   pn_connection_reset            |-> Fn({}, <<"pn_connection_t">>, "nothing"),
   pn_connection_condition        |-> Fn({}, <<"pn_connection_t">>, "pn_condition_t"),
   pn_connection_remote_condition |-> Fn({}, <<"pn_connection_t">>, "pn_condition_t")]

ConnectionIdentity ==
  [pn_connection_get_container |-> Fn({1}, <<"pn_connection_t">>, "chars"),
   pn_connection_set_container |-> Fn({1}, <<"pn_connection_t", "chars">>, "nothing"),
   pn_connection_set_user      |-> Fn({}, <<"pn_connection_t", "chars">>, "nothing"),
   pn_connection_set_password  |-> Fn({}, <<"pn_connection_t", "chars">>, "nothing"),
   pn_connection_get_user      |-> Fn({}, <<"pn_connection_t">>, "chars")]

ConnectionHost ==
  [pn_connection_get_hostname         |-> Fn({1}, <<"pn_connection_t">>, "chars"),
   pn_connection_set_hostname         |-> Fn({1}, <<"pn_connection_t", "chars">>, "nothing"),
   pn_connection_remote_container     |-> Fn({1}, <<"pn_connection_t">>, "chars"),
   pn_connection_remote_hostname      |-> Fn({1}, <<"pn_connection_t">>, "chars"),
   pn_connection_offered_capabilities |-> Fn({}, <<"pn_connection_t">>, "pn_data_t")]

ConnectionRemote ==
  [pn_connection_desired_capabilities        |-> Fn({}, <<"pn_connection_t">>, "pn_data_t"),
   pn_connection_properties                  |-> Fn({}, <<"pn_connection_t">>, "pn_data_t"),
   pn_connection_remote_offered_capabilities |-> Fn({}, <<"pn_connection_t">>, "pn_data_t"),
   pn_connection_remote_desired_capabilities |-> Fn({}, <<"pn_connection_t">>, "pn_data_t"),
   pn_connection_remote_properties           |-> Fn({}, <<"pn_connection_t">>, "pn_data_t"),
   pn_connection_transport                   |-> Fn({}, <<"pn_connection_t">>, "pn_transport_t")]

SessionLifecycle ==
  [pn_session             |-> Fn({1}, <<"pn_connection_t">>, "pn_session_t"),
   pn_session_free        |-> Fn({1}, <<"pn_session_t">>, "nothing"),
   pn_session_get_context |-> Fn({}, <<"pn_session_t">>, "void"),
   pn_session_set_context |-> Fn({}, <<"pn_session_t", "void">>, "nothing"),
   pn_session_attachments |-> Fn({}, <<"pn_session_t">>, "pn_record_t"),
   pn_session_state       |-> Fn({1}, <<"pn_session_t">>, "int")]

SessionState ==
  [pn_session_error            |-> Fn({1}, <<"pn_session_t">>, "pn_error_t"),
   pn_session_condition        |-> Fn({}, <<"pn_session_t">>, "pn_condition_t"),
   pn_session_remote_condition |-> Fn({}, <<"pn_session_t">>, "pn_condition_t"),
   pn_session_connection       |-> Ensures(Fn({1}, <<"pn_session_t">>, "pn_connection_t"), "notNull"),
   pn_session_open             |-> Fn({1}, <<"pn_session_t">>, "nothing"),
   pn_session_close            |-> Fn({1}, <<"pn_session_t">>, "nothing")]

SessionWindows ==
  [pn_session_get_incoming_capacity |-> Fn({}, <<"pn_session_t">>, "size"),
   pn_session_set_incoming_capacity |-> Fn({}, <<"pn_session_t", "size">>, "nothing"),
   pn_session_get_outgoing_window   |-> Fn({}, <<"pn_session_t">>, "size"),
   pn_session_set_outgoing_window   |-> Fn({}, <<"pn_session_t", "size">>, "nothing"),
   pn_session_outgoing_bytes        |-> Fn({}, <<"pn_session_t">>, "size")]

SessionWalk ==
  [pn_session_incoming_bytes |-> Fn({}, <<"pn_session_t">>, "size"),
   pn_session_head           |-> Fn({1}, <<"pn_connection_t", "int">>, "pn_session_t"),
   pn_session_next           |-> Fn({1}, <<"pn_session_t", "int">>, "pn_session_t")]

LinkNew ==
  [pn_sender    |-> Ensures(Fn({1}, <<"pn_session_t", "chars">>, "pn_link_t"), "notNull"),
   pn_receiver  |-> Ensures(Fn({1}, <<"pn_session_t", "chars">>, "pn_link_t"), "notNull"),
   pn_link_free |-> Fn({1}, <<"pn_link_t">>, "nothing")]

LinkContext ==
  [pn_link_get_context |-> Fn({}, <<"pn_link_t">>, "void"),
   pn_link_set_context |-> Fn({}, <<"pn_link_t", "void">>, "nothing"),
   pn_link_attachments |-> Fn({}, <<"pn_link_t">>, "pn_record_t"),
   pn_link_name        |-> Fn({1}, <<"pn_link_t">>, "chars")]

LinkState ==
  [pn_link_is_sender   |-> Fn({1}, <<"pn_link_t">>, "bool"),
   pn_link_is_receiver |-> Fn({1}, <<"pn_link_t">>, "bool"),
   pn_link_state       |-> Fn({1}, <<"pn_link_t">>, "int"),
   pn_link_error       |-> Fn({1}, <<"pn_link_t">>, "pn_error_t")]

LinkWalk ==
  [pn_link_condition        |-> Fn({}, <<"pn_link_t">>, "pn_condition_t"),
   pn_link_remote_condition |-> Fn({}, <<"pn_link_t">>, "pn_condition_t"),
   pn_link_session          |-> Ensures(Fn({1}, <<"pn_link_t">>, "pn_session_t"), "notNull"),
   pn_link_head             |-> Fn({1}, <<"pn_connection_t", "int">>, "pn_link_t"),
   pn_link_next             |-> Fn({1}, <<"pn_link_t", "int">>, "pn_link_t")]

LinkOpen ==
  [pn_link_open            |-> Fn({1}, <<"pn_link_t">>, "nothing"),
   pn_link_close           |-> Fn({1}, <<"pn_link_t">>, "nothing"),
   pn_link_detach          |-> Fn({}, <<"pn_link_t">>, "nothing"),
   pn_link_detached        |-> Fn({}, <<"pn_link_t">>, "bool"),
   pn_link_remote_detached |-> Fn({}, <<"pn_link_t">>, "bool"),
   pn_link_source          |-> Fn({}, <<"pn_link_t">>, "pn_terminus_t")]

LinkTermini ==
  [pn_link_target        |-> Fn({}, <<"pn_link_t">>, "pn_terminus_t"),
   pn_link_remote_source |-> Fn({1}, <<"pn_link_t">>, "pn_terminus_t"),
   pn_link_remote_target |-> Fn({1}, <<"pn_link_t">>, "pn_terminus_t"),
   pn_link_current       |-> Fn({1}, <<"pn_link_t">>, "pn_delivery_t"),
   pn_link_advance       |-> Fn({1}, <<"pn_link_t">>, "bool")]

LinkCredit ==
  [pn_link_credit        |-> Fn({1}, <<"pn_link_t">>, "int"),
   pn_link_queued        |-> Fn({1}, <<"pn_link_t">>, "int"),
   pn_link_remote_credit |-> Fn({}, <<"pn_link_t">>, "int"),
   pn_link_get_drain     |-> Fn({}, <<"pn_link_t">>, "bool"),
   pn_link_drained       |-> Fn({1}, <<"pn_link_t">>, "int"),
   pn_link_available     |-> Fn({}, <<"pn_link_t">>, "int")]

LinkSettleModes ==
  [pn_link_snd_settle_mode        |-> Fn({}, <<"pn_link_t">>, "int"),
   pn_link_rcv_settle_mode        |-> Fn({}, <<"pn_link_t">>, "int"),
   pn_link_set_snd_settle_mode    |-> Fn({}, <<"pn_link_t", "int">>, "nothing"),
   pn_link_set_rcv_settle_mode    |-> Fn({}, <<"pn_link_t", "int">>, "nothing"),
   pn_link_remote_snd_settle_mode |-> Fn({}, <<"pn_link_t">>, "int")]

LinkUnsettled ==
  [pn_link_remote_rcv_settle_mode |-> Fn({}, <<"pn_link_t">>, "int"),
   pn_link_unsettled              |-> Fn({1}, <<"pn_link_t">>, "int"),
   pn_unsettled_head              |-> Fn({1}, <<"pn_link_t">>, "pn_delivery_t"),
   pn_unsettled_next              |-> Fn({1}, <<"pn_delivery_t">>, "pn_delivery_t"),
   pn_link_offered                |-> Fn({}, <<"pn_link_t", "int">>, "nothing")]

LinkFlow ==
  [pn_link_flow      |-> Fn({1}, <<"pn_link_t", "int">>, "nothing"),
   pn_link_drain     |-> Fn({1}, <<"pn_link_t", "int">>, "nothing"),
   pn_link_set_drain |-> Fn({}, <<"pn_link_t", "bool">>, "nothing"),
   pn_link_draining  |-> Fn({}, <<"pn_link_t">>, "bool")]

EngineFunctions ==
  ErrorSet @@ ErrorText @@ ConditionText @@ ConditionRedirect @@ ConnectionLifecycle
  @@ ConnectionContext @@ ConnectionState @@ ConnectionIdentity @@ ConnectionHost
  @@ ConnectionRemote @@ SessionLifecycle @@ SessionState @@ SessionWindows @@ SessionWalk
  @@ LinkNew @@ LinkContext @@ LinkState @@ LinkWalk @@ LinkOpen @@ LinkTermini
  @@ LinkCredit @@ LinkSettleModes @@ LinkUnsettled @@ LinkFlow
=============================================================================
