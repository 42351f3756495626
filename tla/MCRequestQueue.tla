--------------------------- MODULE MCRequestQueue ---------------------------
(* Small instances of RequestQueue for TLC: the calls that each application *)
(* thread makes in the configurations.                                      *)
EXTENDS RequestQueue, TLC

CONSTANTS u1, u2

(* Two threads that make requests, of which one also stops and starts.      *)
Sessions  == u1 :> Requests @@ u2 :> {"receive", "stop", "start"}
Timed     == {"send", "subscribe"}
Untimed   == {}

(* Every thread makes the same requests.                                    *)
Replied   == [u \in Users |-> {"subscribe", "receive"}]
Receives  == [u \in Users |-> {"receive"}]
Restarts  == [u \in Users |-> {"send", "start"}]
=============================================================================
