--------------------------- MODULE CprotonReactor ---------------------------
(***************************************************************************)
(* The wrapper functions of cproton.c for casts, handlers, the reactor and *)
(* its timer.  Each record has a field per function, in the order of the   *)
(* file; CprotonTypes says what the kinds of parameters and results stand  *)
(* for.                                                                    *)
(***************************************************************************)
EXTENDS CprotonTypes, TLC

Casts ==
  [pn_cast_pn_connection |-> Fn({}, <<"void">>, "pn_connection_t"),
   pn_cast_pn_session    |-> Fn({}, <<"void">>, "pn_session_t"),
   pn_cast_pn_link       |-> Fn({}, <<"void">>, "pn_link_t"),
   pn_cast_pn_delivery   |-> Fn({}, <<"void">>, "pn_delivery_t"),
   pn_cast_pn_transport  |-> Fn({}, <<"void">>, "pn_transport_t")]

CastsReactor ==
  [pn_cast_pn_reactor    |-> Fn({}, <<"void">>, "pn_reactor_t"),
   pn_cast_pn_task       |-> Fn({}, <<"void">>, "pn_task_t"),
   pn_cast_pn_selectable |-> Fn({}, <<"void">>, "pn_selectable_t")]

HandlerNew ==
  [pn_handler      |-> Fn({}, <<"function">>, "pn_handler_t"),
   pn_handler_new  |-> Fn({}, <<"function", "size", "function">>, "pn_handler_t"),
   pn_handler_free |-> Fn({}, <<"pn_handler_t">>, "nothing"),
   pn_handler_mem  |-> Fn({}, <<"pn_handler_t">>, "void")]

HandlerDispatch ==
  [pn_handler_add      |-> Fn({}, <<"pn_handler_t", "pn_handler_t">>, "nothing"),
   pn_handler_clear    |-> Fn({}, <<"pn_handler_t">>, "nothing"),
   pn_handler_dispatch |-> Fn({}, <<"pn_handler_t", "pn_event_t", "int">>, "nothing")]

ReactorNew ==
  [pn_reactor             |-> Fn({}, <<>>, "pn_reactor_t"),
   pn_reactor_attachments |-> Fn({}, <<"pn_reactor_t">>, "pn_record_t"),
   pn_reactor_get_timeout |-> Fn({}, <<"pn_reactor_t">>, "uint32")]

ReactorTime ==
  [pn_reactor_set_timeout |-> Fn({}, <<"pn_reactor_t", "uint32">>, "nothing"),
   pn_reactor_mark        |-> Fn({}, <<"pn_reactor_t">>, "int64"),
   pn_reactor_now         |-> Fn({}, <<"pn_reactor_t">>, "int64"),
   pn_reactor_yield       |-> Fn({}, <<"pn_reactor_t">>, "nothing"),
   pn_reactor_free        |-> Fn({}, <<"pn_reactor_t">>, "nothing"),
   pn_reactor_collector   |-> Fn({}, <<"pn_reactor_t">>, "pn_collector_t")]

ReactorHandlers ==
  [pn_reactor_get_global_handler |-> Fn({}, <<"pn_reactor_t">>, "pn_handler_t"),
   pn_reactor_set_global_handler |-> Fn({}, <<"pn_reactor_t", "pn_handler_t">>, "nothing"),
   pn_reactor_get_handler        |-> Fn({}, <<"pn_reactor_t">>, "pn_handler_t"),
   pn_reactor_set_handler        |-> Fn({}, <<"pn_reactor_t", "pn_handler_t">>, "nothing"),
   pn_reactor_io                 |-> Fn({}, <<"pn_reactor_t">>, "pn_io_t")]

ReactorChildren ==
  [pn_reactor_children   |-> Fn({}, <<"pn_reactor_t">>, "pn_list_t"),
   pn_reactor_selectable |-> Fn({}, <<"pn_reactor_t">>, "pn_selectable_t"),
   pn_reactor_update     |-> Fn({}, <<"pn_reactor_t", "pn_selectable_t">>, "nothing"),
   pn_reactor_acceptor   |-> Fn({}, <<"pn_reactor_t", "chars", "chars", "pn_handler_t">>, "pn_acceptor_t")]

ReactorRun ==
  [pn_reactor_connection |-> Fn({}, <<"pn_reactor_t", "pn_handler_t">>, "pn_connection_t"),
   pn_reactor_wakeup     |-> Fn({}, <<"pn_reactor_t">>, "int"),
   pn_reactor_start      |-> Fn({}, <<"pn_reactor_t">>, "nothing"),
   pn_reactor_quiesced   |-> Fn({}, <<"pn_reactor_t">>, "bool"),
   pn_reactor_process    |-> Fn({}, <<"pn_reactor_t">>, "bool"),
   pn_reactor_stop       |-> Fn({}, <<"pn_reactor_t">>, "nothing")]

ReactorSchedule ==
  [pn_reactor_run             |-> Fn({}, <<"pn_reactor_t">>, "nothing"),
   pn_reactor_schedule        |-> Fn({}, <<"pn_reactor_t", "int", "pn_handler_t">>, "pn_task_t"),
   pn_acceptor_set_ssl_domain |-> Fn({}, <<"pn_acceptor_t", "pn_ssl_domain_t">>, "nothing"),
   pn_acceptor_close          |-> Fn({}, <<"pn_acceptor_t">>, "nothing")]

Timers ==
  [pn_timer          |-> Fn({}, <<"pn_collector_t">>, "pn_timer_t"),
   pn_timer_deadline |-> Fn({}, <<"pn_timer_t">>, "int64"),
   pn_timer_tick     |-> Fn({}, <<"pn_timer_t", "int64">>, "nothing"),
   pn_timer_schedule |-> Fn({}, <<"pn_timer_t", "int64">>, "pn_task_t"),
   pn_timer_tasks    |-> Fn({}, <<"pn_timer_t">>, "int")]

TimerTasks ==
  [pn_task_attachments |-> Fn({}, <<"pn_task_t">>, "pn_record_t"),
   pn_task_cancel      |-> Fn({}, <<"pn_task_t">>, "nothing"),
   pn_class_reactor    |-> Fn({}, <<"pn_class_t", "void">>, "pn_reactor_t"),
   pn_object_reactor   |-> Fn({}, <<"void">>, "pn_reactor_t")]

ReactorCasts ==
  [pn_event_reactor      |-> Fn({}, <<"pn_event_t">>, "pn_reactor_t"),
   pn_record_get_handler |-> Fn({}, <<"pn_record_t">>, "pn_handler_t"),
   pn_record_set_handler |-> Fn({}, <<"pn_record_t", "pn_handler_t">>, "nothing"),
   pn_handshaker         |-> Fn({}, <<>>, "pn_handler_t"),
   pn_iohandler          |-> Fn({}, <<>>, "pn_handler_t"),
   pn_flowcontroller     |-> Fn({}, <<"int">>, "pn_handler_t")]

ReactorFunctions ==
  Casts @@ CastsReactor @@ HandlerNew @@ HandlerDispatch @@ ReactorNew @@ ReactorTime
  @@ ReactorHandlers @@ ReactorChildren @@ ReactorRun @@ ReactorSchedule @@ Timers
  @@ TimerTasks @@ ReactorCasts
=============================================================================
