---------------------------- MODULE MCConnection ----------------------------
(* Small instances of Connection for TLC: the sets of calls of the          *)
(* configurations, and where they stop: nothing is said of what follows an  *)
(* overlap of two sessions.                                                 *)
EXTENDS Connection

Starts   == {"start"}
Sessions == {"start", "stop"}

Apart == ~overlap
=============================================================================
