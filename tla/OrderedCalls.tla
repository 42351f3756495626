---------------------------- MODULE OrderedCalls ----------------------------
(***************************************************************************)
(* What the hand-off to the command thread promises its callers: requests  *)
(* are served one at a time and in the order in which they were accepted,  *)
(* each exactly once, and a caller goes on only when its request is over.  *)
(* Requests that are refused are never seen.                               *)
(***************************************************************************)
EXTENDS Sequences

CONSTANT Users

VARIABLES
  pending,  \* the callers whose requests have been accepted, in that order
  phase     \* of each caller: "idle", "submitted" or "served"

vars == <<pending, phase>>

Init ==
  /\ pending = <<>>
  /\ phase = [u \in Users |-> "idle"]

Submit(u) ==
  /\ phase[u] = "idle"
  /\ pending' = Append(pending, u)
  /\ phase' = [phase EXCEPT ![u] = "submitted"]

Serve ==
  /\ pending # <<>>
  /\ pending' = Tail(pending)
  /\ phase' = [phase EXCEPT ![Head(pending)] = "served"]

Return(u) ==
  /\ phase[u] = "served"
  /\ phase' = [phase EXCEPT ![u] = "idle"]
  /\ UNCHANGED pending

Next == Serve \/ \E u \in Users : Submit(u) \/ Return(u)

Spec == Init /\ [][Next]_vars

=============================================================================
