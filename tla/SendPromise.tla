---------------------------- MODULE SendPromise ----------------------------
(***************************************************************************)
(* What BlockingClient#send promises, without threads, messengers and      *)
(* trackers.  Calls are numbered in the order in which they are made.  The *)
(* message of a call reaches the server once over the connection that the  *)
(* call began with, at most twice over each one that replaces it while the *)
(* call is under way (a send that meets a connection being set up is       *)
(* repeated when it is), over no other, and never after a later message.   *)
(* A call that reports success for an "at least once" message has reached  *)
(* the server, unless the connection was replaced while it was under way.  *)
(***************************************************************************)
EXTENDS Naturals, Sequences, FiniteSets

CONSTANT MaxCalls

VARIABLES
  connection,  \* the number of the connection in use
  result,      \* call -> "none" | "open" | "ok" | "error" | "timeout"
  quality,     \* call -> 0 | 1, its quality of service
  began,       \* call -> the connection in use when the call was made
  ended,       \* call -> the connection in use when the call returned
  log          \* what reached the server: a sequence of <<call, connection>>

vars == <<connection, result, quality, began, ended, log>>

Calls == 1 .. MaxCalls

Copies(c) == {i \in DOMAIN log : log[i] = <<c, connection>>}

Reached(c) == \E i \in DOMAIN log : log[i][1] = c

Init ==
  /\ connection = 1
  /\ result = [c \in Calls |-> "none"]
  /\ quality = [c \in Calls |-> 0]
  /\ began = [c \in Calls |-> 0]
  /\ ended = [c \in Calls |-> 0]
  /\ log = <<>>

Begin(c, q) ==
  /\ result[c] = "none"
  /\ \A b \in Calls : (b < c => result[b] # "open") /\ (b > c => result[b] = "none")
  /\ result' = [result EXCEPT ![c] = "open"]
  /\ quality' = [quality EXCEPT ![c] = q]
  /\ began' = [began EXCEPT ![c] = connection]
  /\ UNCHANGED <<connection, ended, log>>

Arrive(c) ==
  /\ result[c] = "open" \/ (result[c] # "none" /\ ended[c] = connection)
  /\ \A i \in DOMAIN log : log[i][1] <= c
  /\ Cardinality(Copies(c)) < IF connection = began[c] THEN 1 ELSE 2
  /\ log' = Append(log, <<c, connection>>)
  /\ UNCHANGED <<connection, result, quality, began, ended>>

Reconnect ==
  /\ connection' = connection + 1
  /\ UNCHANGED <<result, quality, began, ended, log>>

End(c, r) ==
  /\ result[c] = "open"
  /\ r = "ok" => quality[c] = 0 \/ Reached(c) \/ connection > began[c]
  /\ result' = [result EXCEPT ![c] = r]
  /\ ended' = [ended EXCEPT ![c] = connection]
  /\ UNCHANGED <<connection, quality, began, log>>

Next ==
  \/ \E c \in Calls, q \in {0, 1} : Begin(c, q)
  \/ \E c \in Calls : Arrive(c)
  \/ Reconnect
  \/ \E c \in Calls, r \in {"ok", "error", "timeout"} : End(c, r)

Spec == Init /\ [][Next]_vars
=============================================================================
