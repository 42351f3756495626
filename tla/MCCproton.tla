----------------------------- MODULE MCCproton -----------------------------
(* Instances of Cproton for TLC. *)
EXTENDS Cproton

CONSTANTS t1, t2, t3

\* One thread that calls everything; two of the client beside one of the application.
EveryCall == t1 :> "any" @@ t2 :> "nothing" @@ t3 :> "nothing"
ItsCalls  == t1 :> "client" @@ t2 :> "client" @@ t3 :> "user"
Loads == {<<EveryCall, "releases">>, <<ItsCalls, "releases">>, <<ItsCalls, "holds">>}
=============================================================================
