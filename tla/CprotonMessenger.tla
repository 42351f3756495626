-------------------------- MODULE CprotonMessenger --------------------------
(***************************************************************************)
(* The wrapper functions of cproton.c for the messenger, with which MQ     *)
(* Light sends and receives, its subscriptions and the calls that IBM      *)
(* added to it.  Each record has a field per function, in the order of the *)
(* file; CprotonTypes says what the kinds of parameters and results stand  *)
(* for.                                                                    *)
(***************************************************************************)
EXTENDS CprotonTypes, TLC

MessengerNew ==
  [pn_messenger                 |-> Fn({}, <<"chars">>, "pn_messenger_t"),
   pn_messenger_name            |-> Ensures(Fn({1}, <<"pn_messenger_t">>, "chars"), "notNull"),
   pn_messenger_set_certificate |-> Fn({}, <<"pn_messenger_t", "chars">>, "int")]

MessengerKeys ==
  [pn_messenger_get_certificate |-> Fn({}, <<"pn_messenger_t">>, "chars"),
   pn_messenger_set_private_key |-> Fn({}, <<"pn_messenger_t", "chars">>, "int"),
   pn_messenger_get_private_key |-> Fn({}, <<"pn_messenger_t">>, "chars")]

MessengerTrust ==
  [pn_messenger_set_password             |-> Fn({}, <<"pn_messenger_t", "chars">>, "int"),
   pn_messenger_get_password             |-> Fn({}, <<"pn_messenger_t">>, "chars"),
   pn_messenger_set_trusted_certificates |-> Fn({}, <<"pn_messenger_t", "chars">>, "int"),
   pn_messenger_get_trusted_certificates |-> Fn({}, <<"pn_messenger_t">>, "chars")]

MessengerBlocking ==
  [pn_messenger_set_timeout  |-> Fn({1}, <<"pn_messenger_t", "int">>, "int"),
   pn_messenger_get_timeout  |-> Fn({1}, <<"pn_messenger_t">>, "int"),
   pn_messenger_is_blocking  |-> Fn({}, <<"pn_messenger_t">>, "bool"),
   pn_messenger_set_blocking |-> Fn({}, <<"pn_messenger_t", "bool">>, "int"),
   pn_messenger_is_passive   |-> Fn({}, <<"pn_messenger_t">>, "bool")]

MessengerErrors ==
  [pn_messenger_set_passive         |-> Fn({}, <<"pn_messenger_t", "bool">>, "int"),
   pn_messenger_free                |-> Fn({1}, <<"pn_messenger_t">>, "nothing"),
   pn_messenger_errno               |-> Fn({1}, <<"pn_messenger_t">>, "int"),
   pn_messenger_error               |-> Fn({1}, <<"pn_messenger_t">>, "pn_error_t"),
   pn_messenger_get_outgoing_window |-> Fn({}, <<"pn_messenger_t">>, "int")]

MessengerWindows ==
  [pn_messenger_set_outgoing_window |-> Fn({}, <<"pn_messenger_t", "int">>, "int"),
   pn_messenger_get_incoming_window |-> Fn({}, <<"pn_messenger_t">>, "int"),
   pn_messenger_set_incoming_window |-> Fn({}, <<"pn_messenger_t", "int">>, "int")]

MessengerStart ==
  [pn_messenger_start   |-> Fn({1}, <<"pn_messenger_t">>, "int"),
   pn_messenger_stop    |-> Fn({1}, <<"pn_messenger_t">>, "int"),
   pn_messenger_stopped |-> Fn({}, <<"pn_messenger_t">>, "bool")]

MessengerSubscribe ==
  [pn_messenger_subscribe       |-> Fn({1, 2}, <<"pn_messenger_t", "chars">>, "pn_subscription_t"),
   pn_messenger_subscribe_ttl   |-> Fn({}, <<"pn_messenger_t", "chars", "uint32">>, "pn_subscription_t"),
   pn_messenger_get_stated_link |-> Fn({}, <<"pn_messenger_t", "chars", "bool", "int">>, "pn_link_t")]

MessengerLinks ==
  [pn_messenger_get_link       |-> Fn({}, <<"pn_messenger_t", "chars", "bool">>, "pn_link_t"),
   pn_subscription_get_context |-> Fn({}, <<"pn_subscription_t">>, "void"),
   pn_subscription_set_context |-> Fn({}, <<"pn_subscription_t", "void">>, "nothing"),
   pn_subscription_address     |-> Fn({}, <<"pn_subscription_t">>, "chars"),
   pn_messenger_put            |-> Fn({1, 2}, <<"pn_messenger_t", "pn_message_t">>, "int")]

MessengerStatus ==
  [pn_messenger_status   |-> Fn({}, <<"pn_messenger_t", "int64">>, "int"),
   pn_messenger_delivery |-> Fn({}, <<"pn_messenger_t", "int64">>, "pn_delivery_t"),
   pn_messenger_buffered |-> Fn({}, <<"pn_messenger_t", "int64">>, "bool"),
   pn_messenger_settle   |-> Fn({}, <<"pn_messenger_t", "int64", "int">>, "int")]

MessengerGet ==
  [pn_messenger_outgoing_tracker |-> Fn({}, <<"pn_messenger_t">>, "int64"),
   pn_messenger_interrupt        |-> Fn({}, <<"pn_messenger_t">>, "int"),
   pn_messenger_receiving        |-> Fn({}, <<"pn_messenger_t">>, "int"),
   pn_messenger_get              |-> Fn({1}, <<"pn_messenger_t", "pn_message_t">>, "int"),
   pn_messenger_incoming_tracker |-> Fn({}, <<"pn_messenger_t">>, "int64")]

MessengerAccept ==
  [pn_messenger_incoming_subscription |-> Fn({}, <<"pn_messenger_t">>, "pn_subscription_t"),
   pn_messenger_accept                |-> Fn({}, <<"pn_messenger_t", "int64", "int">>, "int"),
   pn_messenger_reject                |-> Fn({}, <<"pn_messenger_t", "int64", "int">>, "int"),
   pn_messenger_tracker_link          |-> Fn({}, <<"pn_messenger_t", "int64">>, "pn_link_t")]

MessengerQueues ==
  [pn_messenger_outgoing |-> Ensures(Fn({1}, <<"pn_messenger_t">>, "int"), "notNegative"),
   pn_messenger_incoming |-> Ensures(Fn({1}, <<"pn_messenger_t">>, "int"), "notNegative"),
   pn_messenger_route    |-> Fn({}, <<"pn_messenger_t", "chars", "chars">>, "int"),
   pn_messenger_rewrite  |-> Fn({}, <<"pn_messenger_t", "chars", "chars">>, "int")]

MessengerFlags ==
  [pn_messenger_selectable          |-> Fn({}, <<"pn_messenger_t">>, "pn_selectable_t"),
   pn_messenger_deadline            |-> Fn({}, <<"pn_messenger_t">>, "int64"),
   pn_messenger_set_flags           |-> Fn({}, <<"pn_messenger_t", "int">>, "int"),
   pn_messenger_get_flags           |-> Fn({}, <<"pn_messenger_t">>, "int"),
   pn_messenger_set_snd_settle_mode |-> Fn({}, <<"pn_messenger_t", "int">>, "int")]

MessengerModes ==
  [pn_messenger_set_rcv_settle_mode              |-> Fn({}, <<"pn_messenger_t", "int">>, "int"),
   pn_messenger_set_tracer                       |-> Fn({}, <<"pn_messenger_t", "function">>, "nothing"),
   pn_messenger_get_remote_idle_timeout          |-> Fn({}, <<"pn_messenger_t", "chars">>, "uint32"),
   pn_messenger_set_ssl_peer_authentication_mode |-> Fn({}, <<"pn_messenger_t", "int">>, "int")]

MessengerPush ==
  [pn_messenger_pending_outbound    |-> Fn({}, <<"pn_messenger_t", "chars">>, "bool"),
   pn_messenger_set_external_socket |-> Fn({}, <<"pn_messenger_t">>, "int"),
   pn_connection_push               |-> Fn({}, <<"pn_connection_t", "chars", "size">>, "int"),
   pn_connection_pop                |-> Fn({}, <<"pn_connection_t", "size">>, "bool")]

MessengerStarted ==
  [pn_connection_was_closed  |-> Fn({}, <<"pn_messenger_t", "pn_connection_t">>, "nothing"),
   pn_messenger_started      |-> Fn({}, <<"pn_messenger_t">>, "bool"),
   pn_messenger_reclaim_link |-> Fn({}, <<"pn_messenger_t", "pn_link_t">>, "nothing")]

MessengerWork ==
  [pn_messenger_send |-> Fn({}, <<"pn_messenger_t", "int">>, "int"),
   pn_messenger_recv |-> Fn({}, <<"pn_messenger_t", "int">>, "int"),
   pn_messenger_work |-> Fn({}, <<"pn_messenger_t", "int">>, "int")]

MessengerResolve ==
  [pn_messenger_resolve |-> Fn({}, <<"pn_messenger_t", "chars">>, "pn_connection_t")]

MessengerFunctions ==
  MessengerNew @@ MessengerKeys @@ MessengerTrust @@ MessengerBlocking @@ MessengerErrors
  @@ MessengerWindows @@ MessengerStart @@ MessengerSubscribe @@ MessengerLinks
  @@ MessengerStatus @@ MessengerGet @@ MessengerAccept @@ MessengerQueues
  @@ MessengerFlags @@ MessengerModes @@ MessengerPush @@ MessengerStarted @@ MessengerWork
  @@ MessengerResolve
=============================================================================
