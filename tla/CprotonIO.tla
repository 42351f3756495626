----------------------------- MODULE CprotonIO ------------------------------
(***************************************************************************)
(* The wrapper functions of cproton.c for sockets, selectables, SSL and    *)
(* URLs.  Each record has a field per function, in the order of the file;  *)
(* CprotonTypes says what the kinds of parameters and results stand for.   *)
(***************************************************************************)
EXTENDS CprotonTypes, TLC

IoLifecycle ==
  [pn_io       |-> Fn({}, <<>>, "pn_io_t"),
   pn_io_free  |-> Fn({}, <<"pn_io_t">>, "nothing"),
   pn_io_error |-> Fn({}, <<"pn_io_t">>, "pn_error_t")]

IoConnect ==
  [pn_socket_error |-> Fn({}, <<"pn_io_t", "int">>, "pn_error_t"),
   pn_connect      |-> Fn({}, <<"pn_io_t", "chars", "chars">>, "int"),
   pn_listen       |-> Fn({}, <<"pn_io_t", "chars", "chars">>, "int")]

IoAccept ==
  [pn_accept |-> Fn({}, <<"pn_io_t", "int", "chars", "size">>, "int"),
   pn_close  |-> Fn({}, <<"pn_io_t", "int">>, "nothing"),
   pn_send   |-> Fn({}, <<"pn_io_t", "int", "void", "size">>, "ssize")]

IoReceive ==
  [pn_recv |-> Fn({}, <<"pn_io_t", "int", "void", "size">>, "ssize"),
   pn_pipe |-> Fn({}, <<"pn_io_t", "int">>, "int"),
   pn_read |-> Fn({}, <<"pn_io_t", "int", "void", "size">>, "ssize")]

IoWrite ==
  [pn_write       |-> Fn({}, <<"pn_io_t", "int", "void", "size">>, "ssize"),
   pn_wouldblock  |-> Fn({}, <<"pn_io_t">>, "bool"),
   pn_io_selector |-> Fn({}, <<"pn_io_t">>, "pn_selector_t")]

Selectables ==
  [pn_selectables            |-> Fn({}, <<>>, "pn_iterator_t"),
   pn_selectables_next       |-> Fn({}, <<"pn_iterator_t">>, "pn_selectable_t"),
   pn_selectables_free       |-> Fn({}, <<"pn_iterator_t">>, "nothing"),
   pn_selectable             |-> Fn({}, <<>>, "pn_selectable_t"),
   pn_selectable_on_readable |-> Fn({}, <<"pn_selectable_t", "function">>, "nothing")]

SelectableCallbacks ==
  [pn_selectable_on_writable |-> Fn({}, <<"pn_selectable_t", "function">>, "nothing"),
   pn_selectable_on_expired  |-> Fn({}, <<"pn_selectable_t", "function">>, "nothing"),
   pn_selectable_on_error    |-> Fn({}, <<"pn_selectable_t", "function">>, "nothing"),
   pn_selectable_on_release  |-> Fn({}, <<"pn_selectable_t", "function">>, "nothing"),
   pn_selectable_on_finalize |-> Fn({}, <<"pn_selectable_t", "function">>, "nothing")]

SelectableContext ==
  [pn_selectable_attachments |-> Fn({}, <<"pn_selectable_t">>, "pn_record_t"),
   pn_selectable_get_fd      |-> Fn({}, <<"pn_selectable_t">>, "int"),
   pn_selectable_set_fd      |-> Fn({}, <<"pn_selectable_t", "int">>, "nothing")]

SelectableInterest ==
  [pn_selectable_is_reading   |-> Fn({}, <<"pn_selectable_t">>, "bool"),
   pn_selectable_set_reading  |-> Fn({}, <<"pn_selectable_t", "bool">>, "nothing"),
   pn_selectable_is_writing   |-> Fn({}, <<"pn_selectable_t">>, "bool"),
   pn_selectable_set_writing  |-> Fn({}, <<"pn_selectable_t", "bool">>, "nothing"),
   pn_selectable_get_deadline |-> Fn({}, <<"pn_selectable_t">>, "int64")]

SelectableEvents ==
  [pn_selectable_set_deadline  |-> Fn({}, <<"pn_selectable_t", "int64">>, "nothing"),
   pn_selectable_readable      |-> Fn({}, <<"pn_selectable_t">>, "nothing"),
   pn_selectable_writable      |-> Fn({}, <<"pn_selectable_t">>, "nothing"),
   pn_selectable_error         |-> Fn({}, <<"pn_selectable_t">>, "nothing"),
   pn_selectable_expired       |-> Fn({}, <<"pn_selectable_t">>, "nothing"),
   pn_selectable_is_registered |-> Fn({}, <<"pn_selectable_t">>, "bool")]

SelectableEnd ==
  [pn_selectable_set_registered |-> Fn({}, <<"pn_selectable_t", "bool">>, "nothing"),
   pn_selectable_is_terminal    |-> Fn({}, <<"pn_selectable_t">>, "bool"),
   pn_selectable_terminate      |-> Fn({}, <<"pn_selectable_t">>, "nothing"),
   pn_selectable_release        |-> Fn({}, <<"pn_selectable_t">>, "nothing"),
   pn_selectable_free           |-> Fn({}, <<"pn_selectable_t">>, "nothing"),
   pn_selectable_collect        |-> Fn({}, <<"pn_selectable_t", "pn_collector_t">>, "nothing")]

SslDomain ==
  [pn_ssl_present                |-> Fn({}, <<>>, "bool"),
   pn_ssl_domain                 |-> Fn({}, <<"int">>, "pn_ssl_domain_t"),
   pn_ssl_domain_free            |-> Fn({}, <<"pn_ssl_domain_t">>, "nothing"),
   pn_ssl_domain_set_credentials |-> Fn({}, <<"pn_ssl_domain_t", "chars", "chars", "chars">>, "int")]

SslTrust ==
  [pn_ssl_domain_set_trusted_ca_db       |-> Fn({}, <<"pn_ssl_domain_t", "chars">>, "int"),
   pn_ssl_domain_set_peer_authentication |-> Fn({}, <<"pn_ssl_domain_t", "int", "chars">>, "int"),
   pn_ssl_domain_allow_unsecured_client  |-> Fn({}, <<"pn_ssl_domain_t">>, "int"),
   pn_ssl                                |-> Fn({}, <<"pn_transport_t">>, "pn_ssl_t")]

SslSession ==
  [pn_ssl_init               |-> Fn({}, <<"pn_ssl_t", "pn_ssl_domain_t", "chars">>, "int"),
   pn_ssl_get_ssf            |-> Fn({}, <<"pn_ssl_t">>, "int"),
   pn_ssl_resume_status      |-> Fn({}, <<"pn_ssl_t">>, "int"),
   pn_ssl_set_peer_hostname  |-> Fn({}, <<"pn_ssl_t", "chars">>, "int"),
   pn_ssl_get_remote_subject |-> Fn({}, <<"pn_ssl_t">>, "chars")]

UrlNew ==
  [pn_url            |-> Fn({}, <<>>, "pn_url_t"),
   pn_url_parse      |-> Fn({}, <<"chars">>, "pn_url_t"),
   pn_url_free       |-> Fn({}, <<"pn_url_t">>, "nothing"),
   pn_url_clear      |-> Fn({}, <<"pn_url_t">>, "nothing"),
   pn_url_str        |-> Fn({}, <<"pn_url_t">>, "chars"),
   pn_url_get_scheme |-> Fn({}, <<"pn_url_t">>, "chars")]

UrlParts ==
  [pn_url_get_username |-> Fn({}, <<"pn_url_t">>, "chars"),
   pn_url_get_password |-> Fn({}, <<"pn_url_t">>, "chars"),
   pn_url_get_host     |-> Fn({}, <<"pn_url_t">>, "chars"),
   pn_url_get_port     |-> Fn({}, <<"pn_url_t">>, "chars"),
   pn_url_get_path     |-> Fn({}, <<"pn_url_t">>, "chars")]

UrlSetParts ==
  [pn_url_set_scheme   |-> Fn({}, <<"pn_url_t", "chars">>, "nothing"),
   pn_url_set_username |-> Fn({}, <<"pn_url_t", "chars">>, "nothing"),
   pn_url_set_password |-> Fn({}, <<"pn_url_t", "chars">>, "nothing")]

UrlSetRest ==
  [pn_url_set_host |-> Fn({}, <<"pn_url_t", "chars">>, "nothing"),
   pn_url_set_port |-> Fn({}, <<"pn_url_t", "chars">>, "nothing"),
   pn_url_set_path |-> Fn({}, <<"pn_url_t", "chars">>, "nothing")]

SslNames ==
  [pn_ssl_get_cipher_name   |-> Fn({}, <<"pn_ssl_t", "buffer">>, "bool"),
   pn_ssl_get_protocol_name |-> Fn({}, <<"pn_ssl_t", "buffer">>, "bool")]

SslPeer ==
  [pn_ssl_get_peer_hostname |-> Fn({}, <<"pn_ssl_t", "buffer">>, "int")]

IOFunctions ==
  IoLifecycle @@ IoConnect @@ IoAccept @@ IoReceive @@ IoWrite @@ Selectables
  @@ SelectableCallbacks @@ SelectableContext @@ SelectableInterest @@ SelectableEvents
  @@ SelectableEnd @@ SslDomain @@ SslTrust @@ SslSession @@ UrlNew @@ UrlParts
  @@ UrlSetParts @@ UrlSetRest @@ SslNames @@ SslPeer
=============================================================================
