------------------------- MODULE RequestQueue_proofs -------------------------
(***************************************************************************)
(* Proofs about RequestQueue, for every set of callers and of command      *)
(* threads and every bound: TypeOK, the invariants of the hand-off, and    *)
(* what callers find on the queue of replies.                              *)
(*                                                                         *)
(* OwnerBlocked is not inductive by itself.  A caller could be sent on by  *)
(* a stray signal if a thread that has left the wait set were still in     *)
(* waiters, so the wait set is exact and without duplicates (WaitSet); and *)
(* its request could be overtaken by a second command thread if one could  *)
(* execute without the mutex (MutexIsHeld).                                 *)
(***************************************************************************)
EXTENDS RequestQueue, FiniteSetTheorems, TLAPS

(* Everything in the wait set waits, and is in it once.                     *)
WaitSet(ws, p) ==
  /\ \A i \in DOMAIN ws : p[ws[i]] = "waiting"
  /\ \A i, j \in DOMAIN ws : ws[i] = ws[j] => i = j

USE ThreadsAssumption

-----------------------------------------------------------------------------
(* The condition variable                                                   *)

(* Only a waiting thread is moved by a signal, and it is then woken.        *)
LEMMA SignalLemma ==
  ASSUME TypeOK, WaitSet(waiters, pc)
  PROVE  /\ Unsignalled \in Seq(Threads)
         /\ Signalled(pc) \in [Threads -> UserPCs \cup WorkerPCs]
         /\ WaitSet(Unsignalled, Signalled(pc))
         /\ \A t \in Threads : \/ Signalled(pc)[t] = pc[t]
                               \/ pc[t] = "waiting" /\ Signalled(pc)[t] = "woken"
<1>1. CASE waiters = <<>>
  BY <1>1 DEF TypeOK, Unsignalled, Signalled, WaitSet
<1>2. CASE waiters # <<>>
  <2> DEFINE h == Head(waiters)
  <2>1. h \in Threads /\ h = waiters[1] /\ pc[h] = "waiting" /\ 1 \in DOMAIN waiters
    BY <1>2 DEF TypeOK, WaitSet
  <2>2. Unsignalled = Tail(waiters) /\ Signalled(pc) = [pc EXCEPT ![h] = "woken"]
    BY <1>2 DEF Unsignalled, Signalled
  <2>3. /\ Tail(waiters) \in Seq(Threads)
        /\ DOMAIN Tail(waiters) = 1..(Len(waiters) - 1)
        /\ \A i \in DOMAIN Tail(waiters) : /\ Tail(waiters)[i] = waiters[i + 1]
                                           /\ i + 1 \in DOMAIN waiters
    BY <1>2 DEF TypeOK
  <2>4. \A i \in DOMAIN Tail(waiters) : Tail(waiters)[i] # h /\ Tail(waiters)[i] \in Threads
    BY <2>1, <2>3 DEF TypeOK, WaitSet
  <2>5. WaitSet(Tail(waiters), [pc EXCEPT ![h] = "woken"])
    BY <2>1, <2>3, <2>4 DEF TypeOK, WaitSet
  <2> QED
    BY <2>1, <2>2, <2>3, <2>5 DEF TypeOK, UserPCs
<1> QED
  BY <1>1, <1>2

(* A thread that was not waiting joins the wait set.                        *)
LEMMA WaitLemma ==
  ASSUME NEW ws \in Seq(Threads), NEW p \in [Threads -> UserPCs \cup WorkerPCs],
         NEW t \in Threads, WaitSet(ws, p), p[t] # "waiting"
  PROVE  /\ Append(ws, t) \in Seq(Threads)
         /\ WaitSet(Append(ws, t), [p EXCEPT ![t] = "waiting"])
  BY DEF WaitSet

(* What happens to threads that do not wait leaves the wait set alone.      *)
LEMMA OthersLemma ==
  ASSUME NEW ws \in Seq(Threads), NEW p, NEW q, WaitSet(ws, p),
         \A t \in Threads : p[t] = "waiting" => q[t] = "waiting"
  PROVE  WaitSet(ws, q)
  BY DEF WaitSet

(* A thread that is killed leaves the wait set.                             *)
LEMMA WithoutLemma ==
  ASSUME NEW ws \in Seq(Threads), NEW i \in DOMAIN ws, NEW p, NEW q,
         WaitSet(ws, p),
         \A t \in Threads : p[t] = "waiting" /\ t # ws[i] => q[t] = "waiting"
  PROVE  /\ Without(ws, i) \in Seq(Threads)
         /\ WaitSet(Without(ws, i), q)
<1> DEFINE s == Without(ws, i)
<1>0. Len(ws) \in Nat /\ DOMAIN ws = 1..Len(ws) /\ Len(ws) >= 1
  OBVIOUS
<1>1. /\ DOMAIN s = 1..(Len(ws) - 1)
      /\ \A j \in DOMAIN s : s[j] = IF j < i THEN ws[j] ELSE ws[j + 1]
  BY <1>0 DEF Without
<1>2. \A j \in 1..(Len(ws) - 1) :
        (IF j < i THEN ws[j] ELSE ws[j + 1]) \in Threads
  BY <1>0
<1>3. s \in Seq(Threads)
  BY <1>0, <1>2 DEF Without
<1>4. \A j \in DOMAIN s : s[j] # ws[i] /\ s[j] \in Threads /\ p[s[j]] = "waiting"
  BY <1>0, <1>1, <1>2 DEF WaitSet
<1>5. \A j, k \in DOMAIN s : s[j] = s[k] => j = k
  BY <1>0, <1>1 DEF WaitSet
<1> QED
  BY <1>3, <1>4, <1>5 DEF WaitSet

-----------------------------------------------------------------------------
(* The inductive invariant                                                  *)

(* The command thread that executes a request holds the mutex.              *)
MutexIsHeld ==
  /\ \A w \in Workers : pc[w] \in Executing \cup {"done"} <=> mutex = w
  /\ \A w \in Workers : op[w] # Nobody <=> mutex = w

HandOff ==
  /\ WaitSet(waiters, pc)
  /\ MutexIsHeld
  /\ ProcessingWhileExecuting
  /\ OwnerBlocked

IInv == TypeOK /\ HandOff

PCsOK(p) ==
  /\ p \in [Threads -> UserPCs \cup WorkerPCs]
  /\ \A u \in Users : p[u] \in UserPCs
  /\ \A w \in Workers : p[w] \in WorkerPCs

(* Where every thread is, but for a command thread that change_state woke.  *)
Resembles(p) ==
  /\ PCsOK(p)
  /\ \A t \in Threads : \/ p[t] = pc[t]
                        \/ pc[t] = "stateWait" /\ p[t] = "retrying?"

LEMMA PCsOKLemma == TypeOK => PCsOK(pc) /\ Resembles(pc)
<1>1. TypeOK => PCsOK(pc)
  BY DEF TypeOK, PCsOK
<1>2. PCsOK(pc) => Resembles(pc)
  BY DEF Resembles
<1> QED
  BY <1>1, <1>2

(* A user is nowhere a command thread can be in the middle of a request.    *)
LEMMA PCSets ==
  /\ UserPCs \cap (Executing \cup {"done"}) = {}
  /\ \A x \in Executing :
       x \in WorkerPCs /\ x \notin {"waiting", "woken", "done", "lock", "dead", "new"}
  /\ {"stateWait", "retrying?"} \subseteq Executing
  /\ {"lock", "waiting", "woken", "done", "dead"} \subseteq WorkerPCs
  /\ {"waiting", "woken"} \subseteq UserPCs
  BY DEF UserPCs, WorkerPCs, Executing

(* No user waits for a change of state.                                     *)
LEMMA UsersStay ==
  ASSUME TypeOK, NEW p, Resembles(p), NEW v \in Users
  PROVE  v \in Threads /\ p[v] = pc[v]
<1>1. v \in Threads /\ pc[v] # "stateWait"
  BY DEF TypeOK, UserPCs, Threads
<1> QED
  BY <1>1 DEF Resembles

LEMMA StateSignalLemma ==
  ASSUME TypeOK, NEW new
  PROVE  Resembles(StateSignalled(pc, new))
<1>1. CASE new = state
  BY <1>1, PCsOKLemma DEF StateSignalled
<1>2. CASE new # state
  <2>1. \A u \in Users : pc[u] # "stateWait"
    BY DEF TypeOK, UserPCs
  <2> QED
    BY <1>2, <2>1, PCSets, PCsOKLemma DEF StateSignalled, Resembles, PCsOK, Threads
<1> QED
  BY <1>1, <1>2

(* Executing a request: the mutex is held, and somebody owns the request.   *)
LEMMA ExecutingLemma ==
  ASSUME IInv, NEW w \in Workers, pc[w] \in Executing \cup {"done"}
  PROVE  mutex = w /\ op[w] \in Users /\ processing
  BY DEF IInv, HandOff, MutexIsHeld, ProcessingWhileExecuting, TypeOK

LEMMA PushedLemma ==
  ASSUME TypeOK, NEW u \in Users, NEW kind \in Kinds
  PROVE  Pushed(u, kind) \in Seq(Replies)
  BY DEF TypeOK, Pushed, Replies

(* A caller moves between places outside push_request's waits.              *)
LEMMA CallerMoves ==
  ASSUME IInv, NEW u \in Users, NEW x \in UserPCs, NEW p,
         Resembles(p), pc' = [p EXCEPT ![u] = x],
         pc[u] \notin {"waiting", "woken"}, x \notin {"waiting", "woken"},
         UNCHANGED <<command, processing>>
  PROVE  HandOff' /\ PCsOK(pc')
<1> USE DEF IInv, HandOff, command
<1>1. PCsOK(pc')
  BY DEF PCsOK, Resembles, Threads
<1>2. /\ pc'[u] = x
      /\ \A t \in Threads : t # u => pc'[t] = p[t]
  BY DEF Resembles, PCsOK, Threads
<1>3. WaitSet(waiters, pc)'
  <2>1. \A t \in Threads : pc[t] = "waiting" => pc'[t] = "waiting"
    BY <1>2 DEF Resembles
  <2> QED
    BY <2>1, OthersLemma DEF TypeOK, WaitSet
<1>4. \A w \in Workers : pc'[w] \in Executing \cup {"done"}
                         <=> pc[w] \in Executing \cup {"done"}
  BY <1>2, PCSets DEF Resembles, Threads
<1>5. MutexIsHeld' /\ ProcessingWhileExecuting'
  BY <1>4 DEF MutexIsHeld, ProcessingWhileExecuting
<1>6. ~InHand(u)
  BY DEF OwnerBlocked
<1>7. \A v \in Users : v # u => pc'[v] = pc[v]
  BY <1>2, UsersStay
<1>8. OwnerBlocked'
  BY <1>6, <1>7 DEF OwnerBlocked, InHand
<1> QED
  BY <1>1, <1>3, <1>5, <1>8

(* A command thread moves on while it executes a request.                   *)
LEMMA CommandThreadMoves ==
  ASSUME IInv, NEW w \in Workers, NEW x \in Executing \cup {"done"},
         pc' = [pc EXCEPT ![w] = x], pc[w] \in Executing,
         UNCHANGED <<command, processing>>
  PROVE  HandOff' /\ PCsOK(pc')
<1> USE DEF IInv, HandOff, command
<1>1. PCsOK(pc')
  BY PCSets, PCsOKLemma DEF PCsOK, Threads
<1>2. /\ pc'[w] = x
      /\ \A t \in Threads : t # w => pc'[t] = pc[t]
  BY DEF TypeOK, Threads
<1>3. WaitSet(waiters, pc)'
  <2>1. \A t \in Threads : pc[t] = "waiting" => pc'[t] = "waiting"
    BY <1>2, PCSets
  <2> QED
    BY <2>1, OthersLemma DEF TypeOK, WaitSet
<1>4. MutexIsHeld' /\ ProcessingWhileExecuting'
  BY <1>2, PCSets DEF MutexIsHeld, ProcessingWhileExecuting, Threads
<1>5. OwnerBlocked'
  BY <1>2 DEF OwnerBlocked, InHand, Threads
<1> QED
  BY <1>1, <1>3, <1>4, <1>5

(* The connection changes, and with it the state.                           *)
LEMMA ConnectionMoves ==
  ASSUME IInv, Resembles(pc'), UNCHANGED <<command, processing>>
  PROVE  HandOff' /\ PCsOK(pc')
<1> USE DEF IInv, HandOff, command, Resembles
<1>1. WaitSet(waiters, pc)'
  BY OthersLemma DEF TypeOK, WaitSet
<1>2. MutexIsHeld' /\ ProcessingWhileExecuting'
  BY PCSets DEF MutexIsHeld, ProcessingWhileExecuting, Threads
<1>3. \A v \in Users : pc'[v] = pc[v]
  BY UsersStay
<1>4. OwnerBlocked'
  BY <1>3 DEF OwnerBlocked, InHand
<1> QED
  BY <1>1, <1>2, <1>4

-----------------------------------------------------------------------------
(* Every action of a caller preserves the invariant                         *)

LEMMA OutcomeLemma ==
  ASSUME NEW a \in Requests \cup {"stop", "start"}, NEW kind \in Kinds
  PROVE  OutcomeOf(a, kind) \in Outcomes
  BY DEF OutcomeOf, Kinds, Outcomes

LEMMA BeginRequestStep ==
  ASSUME IInv, NEW u \in Users, NEW a \in Requests, BeginRequest(u, a)
  PROVE  IInv'
<1> USE DEF BeginRequest, MakeCall, Return, Goto, threadVars
<1>1. PICK x \in {"idle", "clear", "push"} : pc' = [pc EXCEPT ![u] = x]
  BY Zenon
<1>2. HandOff' /\ PCsOK(pc')
  BY <1>1, CallerMoves, PCsOKLemma DEF IInv, UserPCs
<1>3. outcome' \in [Users -> Outcomes]
  BY DEF IInv, TypeOK, Outcomes
<1>4. TypeOK'
  BY <1>2, <1>3 DEF IInv, TypeOK, PCsOK, command
<1> QED
  BY <1>2, <1>4 DEF IInv

LEMMA ClearRepliesStep ==
  ASSUME IInv, NEW u \in Users, ClearReplies(u)
  PROVE  IInv'
<1> USE DEF ClearReplies, Goto
<1>1. HandOff' /\ PCsOK(pc')
  BY CallerMoves, PCsOKLemma DEF IInv, UserPCs
<1>2. TypeOK'
  BY <1>1 DEF IInv, TypeOK, PCsOK, command, callers
<1> QED
  BY <1>1, <1>2 DEF IInv

LEMMA PushRequestStep ==
  ASSUME IInv, NEW u \in Users, PushRequest(u)
  PROVE  IInv'
<1> USE DEF PushRequest, threadVars
<1>1. CASE shutdown
  <2>1. HandOff' /\ PCsOK(pc')
    BY <1>1, CallerMoves, PCsOKLemma DEF IInv, UserPCs, Return, Goto, command
  <2>2. TypeOK'
    BY <1>1, <2>1 DEF IInv, TypeOK, PCsOK, Return, Outcomes
  <2> QED
    BY <2>1, <2>2 DEF IInv
<1>2. CASE ~shutdown
  <2> DEFINE p == Signalled(pc)
  <2> USE DEF IInv, HandOff
  <2>1. /\ pc[u] = "push" /\ mutex = Nobody
        /\ queue' = Append(queue, u)
        /\ waiters' = Append(Unsignalled, u)
        /\ pc' = [p EXCEPT ![u] = "waiting"]
        /\ UNCHANGED <<mutex, op, processing>>
    BY <1>2 DEF Unlocked
  <2>2. /\ Unsignalled \in Seq(Threads)
        /\ p \in [Threads -> UserPCs \cup WorkerPCs]
        /\ WaitSet(Unsignalled, p)
        /\ \A t \in Threads : \/ p[t] = pc[t]
                              \/ pc[t] = "waiting" /\ p[t] = "woken"
    BY SignalLemma
  <2> HIDE DEF p
  <2>3. u \in Threads /\ p[u] = "push"
    BY <2>1, <2>2 DEF Threads
  <2>4. waiters' \in Seq(Threads) /\ WaitSet(waiters', pc')
    BY <2>1, <2>2, <2>3, WaitLemma
  <2>5. /\ pc'[u] = "waiting"
        /\ \A t \in Threads : t # u => \/ pc'[t] = pc[t]
                                       \/ pc[t] = "waiting" /\ pc'[t] = "woken"
    BY <2>1, <2>2, <2>3
  <2>6. PCsOK(pc')
    BY <2>1, <2>2, <2>3, <2>5, PCSets, PCsOKLemma DEF PCsOK, Threads
  <2>7. MutexIsHeld' /\ ProcessingWhileExecuting'
    BY <2>1, <2>5, PCSets DEF MutexIsHeld, ProcessingWhileExecuting, Threads
  <2>8. ~InHand(u)
    BY <2>1 DEF OwnerBlocked
  <2>9. queue' \in Seq(Users) /\ OwnerBlocked'
    BY <2>1, <2>5, <2>8 DEF OwnerBlocked, InHand, Threads, TypeOK
  <2>10. TypeOK'
    BY <1>2, <2>4, <2>6, <2>9 DEF TypeOK, PCsOK
  <2> QED
    BY <2>4, <2>7, <2>9, <2>10
<1> QED
  BY <1>1, <1>2

LEMMA WaitAgainStep ==
  ASSUME IInv, NEW u \in Users, WaitAgain(u)
  PROVE  IInv'
<1> USE DEF IInv, HandOff, WaitAgain, Goto, threadVars, callers
<1>1. u \in Threads /\ pc'[u] = "waiting" /\ \A t \in Threads : t # u => pc'[t] = pc[t]
  BY DEF TypeOK, Threads
<1>2. waiters' \in Seq(Threads) /\ WaitSet(waiters', pc')
  BY <1>1, WaitLemma DEF TypeOK
<1>3. PCsOK(pc')
  BY <1>1, PCSets, PCsOKLemma DEF PCsOK, Threads
<1>4. MutexIsHeld' /\ ProcessingWhileExecuting'
  BY <1>1, PCSets DEF MutexIsHeld, ProcessingWhileExecuting, Threads
<1>5. OwnerBlocked'
  BY <1>1 DEF OwnerBlocked, InHand, Threads
<1>6. TypeOK'
  BY <1>2, <1>3 DEF TypeOK, PCsOK
<1> QED
  BY <1>2, <1>4, <1>5, <1>6

(* A caller that signals goes elsewhere; the queue is as it was.            *)
LEMMA SignalMoves ==
  ASSUME IInv, NEW u \in Users, NEW x \in UserPCs,
         pc[u] # "waiting", x \notin {"waiting", "woken"}, ~InHand(u),
         waiters' = Unsignalled, pc' = [Signalled(pc) EXCEPT ![u] = x],
         UNCHANGED <<mutex, queue, op, processing>>
  PROVE  HandOff' /\ PCsOK(pc') /\ waiters' \in Seq(Threads)
<1> DEFINE p == Signalled(pc)
<1> USE DEF IInv, HandOff
<1>1. /\ Unsignalled \in Seq(Threads)
      /\ p \in [Threads -> UserPCs \cup WorkerPCs]
      /\ WaitSet(Unsignalled, p)
      /\ \A t \in Threads : \/ p[t] = pc[t]
                            \/ pc[t] = "waiting" /\ p[t] = "woken"
  BY SignalLemma
<1>2. pc' = [p EXCEPT ![u] = x]
  OBVIOUS
<1> HIDE DEF p
<1>3. u \in Threads /\ p[u] # "waiting"
  BY <1>1 DEF Threads
<1>4. /\ pc'[u] = x
      /\ \A t \in Threads : t # u => pc'[t] = p[t]
      /\ \A t \in Threads : t # u => \/ pc'[t] = pc[t]
                                     \/ pc[t] = "waiting" /\ pc'[t] = "woken"
  BY <1>1, <1>2, <1>3
<1>5. WaitSet(waiters', pc')
  <2>1. \A t \in Threads : p[t] = "waiting" => pc'[t] = "waiting"
    BY <1>3, <1>4
  <2>2. WaitSet(Unsignalled, pc')
    BY <1>1, <2>1, OthersLemma DEF WaitSet
  <2> QED
    BY <2>2
<1>6. PCsOK(pc')
  BY <1>1, <1>2, <1>3, <1>4, PCSets, PCsOKLemma DEF PCsOK, Threads
<1>7. MutexIsHeld' /\ ProcessingWhileExecuting'
  BY <1>4, PCSets DEF MutexIsHeld, ProcessingWhileExecuting, Threads
<1>8. OwnerBlocked'
  BY <1>4 DEF OwnerBlocked, InHand, Threads, TypeOK
<1> QED
  BY <1>1, <1>5, <1>6, <1>7, <1>8

LEMMA LeavePushRequestStep ==
  ASSUME IInv, NEW u \in Users, LeavePushRequest(u)
  PROVE  IInv'
<1> USE DEF LeavePushRequest
<1>1. ~InHand(u)
  BY DEF IInv, HandOff, InHand, MutexIsHeld, Unlocked
<1>2. PICK x \in {"idle", "pop"} : pc' = [Signalled(pc) EXCEPT ![u] = x]
  BY Zenon
<1>3. HandOff' /\ PCsOK(pc') /\ waiters' \in Seq(Threads)
  BY <1>1, <1>2, SignalMoves DEF UserPCs
<1>4. outcome' \in [Users -> Outcomes] /\ subscribed' \in BOOLEAN
  BY DEF IInv, TypeOK, Outcomes
<1>5. TypeOK'
  BY <1>3, <1>4 DEF IInv, TypeOK, PCsOK
<1> QED
  BY <1>3, <1>5 DEF IInv

LEMMA PopReplyStep ==
  ASSUME IInv, NEW u \in Users, PopReply(u)
  PROVE  IInv'
<1> USE DEF PopReply, Return, Goto
<1>1. HandOff' /\ PCsOK(pc')
  BY CallerMoves, PCsOKLemma DEF IInv, UserPCs
<1>2. Tail(replyQueue) \in Seq(Replies) /\ Head(replyQueue).kind \in Kinds
  <2>1. replyQueue \in Seq(Replies) /\ replyQueue # <<>>
    BY DEF IInv, TypeOK
  <2>2. Head(replyQueue) \in Replies /\ Tail(replyQueue) \in Seq(Replies)
    BY <2>1
  <2> QED
    BY <2>2 DEF Replies
<1>3. outcome' \in [Users -> Outcomes]
  BY <1>2, OutcomeLemma DEF IInv, TypeOK
<1>4. TypeOK'
  BY <1>1, <1>2, <1>3 DEF IInv, TypeOK, PCsOK, command
<1> QED
  BY <1>1, <1>4 DEF IInv

LEMMA BeginStopStep ==
  ASSUME IInv, NEW u \in Users, BeginStop(u)
  PROVE  IInv'
<1> USE DEF BeginStop, MakeCall
<1>1. CASE state = "stopped"
  <2>1. HandOff' /\ PCsOK(pc')
    BY <1>1, CallerMoves, PCsOKLemma DEF IInv, UserPCs, Return, Goto
  <2>2. outcome' \in [Users -> Outcomes] /\ state' = state
    BY <1>1 DEF IInv, TypeOK, Return, Outcomes
  <2>3. /\ calls' \in [Users -> Nat]
        /\ call' \in [Users -> Requests \cup {"stop", "start"}]
    BY DEF IInv, TypeOK
  <2>4. TypeOK'
    BY <2>1, <2>2, <2>3 DEF IInv, TypeOK, PCsOK, command
  <2> QED
    BY <2>1, <2>4 DEF IInv
<1>2. CASE state = "started"
  <2>1. Resembles(StateSignalled(pc, "stopping"))
    BY StateSignalLemma DEF IInv
  <2>2. pc' = [StateSignalled(pc, "stopping") EXCEPT ![u] = "close"] /\ state' = "stopping"
    BY <1>2
  <2>3. HandOff' /\ PCsOK(pc')
    BY <2>1, <2>2, CallerMoves DEF UserPCs, IInv
  <2>4. state' \in States
    BY <2>2 DEF States
  <2>5. TypeOK'
    BY <1>2, <2>3, <2>4 DEF IInv, TypeOK, PCsOK, command
  <2> QED
    BY <2>3, <2>5 DEF IInv
<1>3. CASE state \notin {"stopped", "started"}
  <2>1. HandOff' /\ PCsOK(pc')
    BY <1>3, CallerMoves, PCsOKLemma DEF IInv, UserPCs, Goto
  <2>2. TypeOK'
    BY <1>3, <2>1 DEF IInv, TypeOK, PCsOK, command
  <2> QED
    BY <2>1, <2>2 DEF IInv
<1> QED
  BY <1>1, <1>2, <1>3

LEMMA CloseConnectionStep ==
  ASSUME IInv, NEW u \in Users, CloseConnection(u)
  PROVE  IInv'
<1> USE DEF CloseConnection, Return, Goto, threadVars
<1>1. PICK x \in {"stop", "idle"} : pc' = [pc EXCEPT ![u] = x]
  BY Zenon
<1>2. HandOff' /\ PCsOK(pc')
  BY <1>1, CallerMoves, PCsOKLemma DEF IInv, UserPCs
<1>3. faults' \in Nat
  BY DEF IInv, TypeOK, Fault
<1>4. outcome' = outcome \/ outcome' = [outcome EXCEPT ![u] = "raised"]
  BY Zenon
<1>5. outcome' \in [Users -> Outcomes]
  BY <1>4 DEF IInv, TypeOK, Outcomes
<1>6. TypeOK'
  BY <1>2, <1>3, <1>5 DEF IInv, TypeOK, PCsOK, command
<1> QED
  BY <1>2, <1>6 DEF IInv

LEMMA SetStoppedStep ==
  ASSUME IInv, NEW u \in Users, SetStopped(u)
  PROVE  IInv'
<1> USE DEF SetStopped
<1>1. HandOff' /\ PCsOK(pc')
  BY StateSignalLemma, CallerMoves DEF UserPCs, IInv
<1>2. state' \in States
  BY DEF States
<1>3. TypeOK'
  BY <1>1, <1>2 DEF IInv, TypeOK, PCsOK, command, callers
<1> QED
  BY <1>1, <1>3 DEF IInv

LEMMA ClearSubscriptionsStep ==
  ASSUME IInv, NEW u \in Users, ClearSubscriptions(u)
  PROVE  IInv'
<1> USE DEF ClearSubscriptions, Goto
<1>1. HandOff' /\ PCsOK(pc')
  BY CallerMoves, PCsOKLemma DEF IInv, UserPCs
<1>2. TypeOK'
  BY <1>1 DEF IInv, TypeOK, PCsOK, command, callers
<1> QED
  BY <1>1, <1>2 DEF IInv

LEMMA JoinProtonStep ==
  ASSUME IInv, NEW u \in Users, JoinProton(u)
  PROVE  IInv'
<1> USE DEF JoinProton, Goto, threadVars
<1>1. HandOff' /\ PCsOK(pc')
  BY CallerMoves, PCsOKLemma DEF IInv, UserPCs
<1>2. TypeOK'
  BY <1>1 DEF IInv, TypeOK, PCsOK, command, callers
<1> QED
  BY <1>1, <1>2 DEF IInv

LEMMA SignalStopStep ==
  ASSUME IInv, NEW u \in Users, SignalStop(u)
  PROVE  IInv'
<1> USE DEF SignalStop, threadVars
<1>1. ~InHand(u)
  BY DEF IInv, HandOff, OwnerBlocked
<1>2. HandOff' /\ PCsOK(pc') /\ waiters' \in Seq(Threads)
  BY <1>1, SignalMoves DEF UserPCs
<1>3. TypeOK'
  BY <1>2 DEF IInv, TypeOK, PCsOK, callers
<1> QED
  BY <1>2, <1>3 DEF IInv

LEMMA JoinedStep ==
  ASSUME IInv, NEW u \in Users, Joined(u)
  PROVE  IInv'
<1> USE DEF Joined, Return, Goto, threadVars
<1>1. HandOff' /\ PCsOK(pc')
  BY CallerMoves, PCsOKLemma DEF IInv, UserPCs
<1>2. TypeOK'
  BY <1>1 DEF IInv, TypeOK, PCsOK, command, Outcomes
<1> QED
  BY <1>1, <1>2 DEF IInv

(* The killed thread leaves the wait set, the mutex and its request.        *)
LEMMA KillCommandThreadStep ==
  ASSUME IInv, NEW u \in Users, KillCommandThread(u)
  PROVE  IInv'
<1> DEFINE w == commandThread
<1> USE DEF IInv, HandOff
<1>1. /\ pc[u] = "joining" /\ pc[w] # "dead"
      /\ pc' = [pc EXCEPT ![u] = "idle", ![w] = "dead"]
      /\ outcome' = [outcome EXCEPT ![u] = "returned"]
      /\ mutex' = IF mutex = w THEN Nobody ELSE mutex
      /\ processing' = IF mutex = w THEN FALSE ELSE processing
      /\ op' = [op EXCEPT ![w] = Nobody]
      /\ UNCHANGED <<state, subscribed, replyQueue, queue, shutdown, commandThread,
                     call, calls, faults>>
  BY DEF KillCommandThread
<1>2. w \in Workers /\ w \in Threads /\ u \in Threads /\ w # u
  BY DEF TypeOK, Threads
<1>3. /\ pc'[u] = "idle" /\ pc'[w] = "dead"
      /\ \A t \in Threads : t # u /\ t # w => pc'[t] = pc[t]
  BY <1>1, <1>2 DEF TypeOK
<1>4. waiters' \in Seq(Threads) /\ WaitSet(waiters', pc')
  <2>1. CASE pc[w] = "waiting"
    <3>1. PICK i \in DOMAIN waiters : waiters[i] = w /\ waiters' = Without(waiters, i)
      BY <2>1 DEF KillCommandThread
    <3>2. \A t \in Threads : pc[t] = "waiting" /\ t # waiters[i] => pc'[t] = "waiting"
      BY <1>1, <1>3, <3>1
    <3> QED
      BY <3>1, <3>2, WithoutLemma DEF TypeOK
  <2>2. CASE pc[w] # "waiting"
    <3>1. waiters' = waiters
      BY <2>2 DEF KillCommandThread
    <3>2. \A t \in Threads : pc[t] = "waiting" => pc'[t] = "waiting"
      BY <1>1, <1>3, <2>2
    <3> QED
      BY <3>1, <3>2, OthersLemma DEF TypeOK
  <2> QED
    BY <2>1, <2>2
<1>5. PCsOK(pc')
  <2>1. "idle" \in UserPCs
    BY DEF UserPCs
  <2> QED
    BY <1>1, <1>2, <1>3, <2>1, PCSets, PCsOKLemma DEF PCsOK, Threads
<1>6. /\ op'[w] = Nobody /\ op' \in [Workers -> Users \cup {Nobody}]
      /\ \A v \in Workers : v # w => op'[v] = op[v]
  BY <1>1, <1>2 DEF TypeOK
<1>7. MutexIsHeld'
  BY <1>1, <1>2, <1>3, <1>6, PCSets DEF MutexIsHeld, Threads
<1>8. ProcessingWhileExecuting'
  <2>1. \A v \in Workers : v # w => pc'[v] = pc[v]
    BY <1>2, <1>3 DEF Threads
  <2>2. pc'[w] \notin Executing \cup {"done"}
    BY <1>3, PCSets
  <2>3. CASE mutex = w
    <3>1. processing' = FALSE
      BY <1>1, <2>3
    <3>2. \A v \in Workers : pc'[v] \notin Executing \cup {"done"}
      BY <2>1, <2>2, <2>3 DEF MutexIsHeld
    <3> QED
      BY <3>1, <3>2 DEF ProcessingWhileExecuting
  <2>4. CASE mutex # w
    <3>1. processing' = processing
      BY <1>1, <2>4
    <3>2. \A v \in Workers : pc'[v] \in Executing \cup {"done"}
                              <=> pc[v] \in Executing \cup {"done"}
      BY <1>2, <2>1, <2>2, <2>4 DEF MutexIsHeld
    <3> QED
      BY <3>1, <3>2 DEF ProcessingWhileExecuting
  <2> QED
    BY <2>3, <2>4
<1>9. ~InHand(u)
  BY <1>1 DEF OwnerBlocked
<1>10. \A v \in Users : v # u => pc'[v] = pc[v]
  BY <1>2, <1>3 DEF Threads
<1>11. OwnerBlocked'
  <2>1. queue' = queue /\ \A v \in Workers : op'[v] = op[v] \/ op'[v] = Nobody
    BY <1>1, <1>2, <1>6
  <2>2. \A v \in Users : InHand(v)' => InHand(v)
    BY <2>1 DEF InHand
  <2>3. \A v \in Users : InHand(v)' => pc'[v] \in {"waiting", "woken"}
    BY <1>9, <1>10, <2>2 DEF OwnerBlocked
  <2>4. \A i \in DOMAIN queue : queue[i] # Nobody
    BY DEF TypeOK
  <2>5. \A v \in Workers, i \in DOMAIN queue' : queue'[i] # op'[v]
    BY <2>1, <2>4 DEF OwnerBlocked
  <2>6. \A i, j \in DOMAIN queue' : queue'[i] = queue'[j] => i = j
    BY <2>1 DEF OwnerBlocked
  <2> QED
    BY <2>3, <2>5, <2>6 DEF OwnerBlocked
<1>12. TypeOK'
  BY <1>1, <1>4, <1>5, <1>6 DEF TypeOK, PCsOK, Outcomes
<1> QED
  BY <1>4, <1>7, <1>8, <1>11, <1>12

LEMMA BeginStartStep ==
  ASSUME IInv, NEW u \in Users, BeginStart(u)
  PROVE  IInv'
<1>1. PICK x \in {"idle", "start"} : pc' = [pc EXCEPT ![u] = x]
  BY DEF BeginStart, Return, Goto
<1>2. /\ pc[u] = "idle" /\ UNCHANGED <<threadVars, command, faults>>
      /\ calls' = [calls EXCEPT ![u] = @ + 1]
      /\ call' = [call EXCEPT ![u] = "start"]
      /\ outcome' = [outcome EXCEPT ![u] = "returned"] \/ outcome' = outcome
  BY DEF BeginStart, MakeCall, Return
<1>3. HandOff' /\ PCsOK(pc')
  BY <1>1, <1>2, CallerMoves, PCsOKLemma DEF IInv, UserPCs, threadVars
<1>4. /\ outcome' \in [Users -> Outcomes]
      /\ calls' \in [Users -> Nat]
      /\ call' \in [Users -> Requests \cup {"stop", "start"}]
  BY <1>2 DEF IInv, TypeOK, Outcomes
<1>5. TypeOK'
  BY <1>2, <1>3, <1>4 DEF IInv, TypeOK, PCsOK, command, threadVars
<1> QED
  BY <1>3, <1>5 DEF IInv

(* A new command thread stands at the top of its loop.                      *)
LEMMA StartThreadsStep ==
  ASSUME IInv, NEW u \in Users, StartThreads(u)
  PROVE  IInv'
<1> DEFINE p == StateSignalled(pc, "starting")
<1> USE DEF IInv, HandOff
<1>1. PICK w \in Workers : /\ pc[w] = "new"
                           /\ commandThread' = w
                           /\ pc' = [p EXCEPT ![u] = "await", ![w] = "lock"]
  BY DEF StartThreads
<1>2. /\ pc[u] = "start" /\ state' = "starting"
      /\ UNCHANGED <<processing, subscribed, replyQueue, mutex, waiters, queue,
                     shutdown, op, call, calls, outcome, faults>>
  BY DEF StartThreads, callers
<1>3. Resembles(p)
  BY StateSignalLemma
<1> HIDE DEF p
<1>4. u \in Threads /\ w \in Threads /\ u # w
  BY DEF Threads
<1>5. /\ pc'[u] = "await" /\ pc'[w] = "lock"
      /\ \A t \in Threads : t # u /\ t # w => pc'[t] = p[t]
  BY <1>1, <1>3, <1>4 DEF Resembles, PCsOK
<1>6. PCsOK(pc')
  <2>1. "await" \in UserPCs
    BY DEF UserPCs
  <2> QED
    BY <1>1, <1>3, <1>4, <1>5, <2>1, PCSets DEF Resembles, PCsOK, Threads
<1>7. \A t \in Threads : pc[t] = "waiting" => pc'[t] = "waiting"
  BY <1>1, <1>2, <1>3, <1>5 DEF Resembles
<1>8. WaitSet(waiters, pc)'
  BY <1>2, <1>7, OthersLemma DEF TypeOK, WaitSet
<1>9. \A v \in Workers : pc'[v] \in Executing \cup {"done"}
                         <=> pc[v] \in Executing \cup {"done"}
  BY <1>1, <1>3, <1>4, <1>5, PCSets DEF Resembles, Threads
<1>10. MutexIsHeld' /\ ProcessingWhileExecuting'
  BY <1>2, <1>9 DEF MutexIsHeld, ProcessingWhileExecuting
<1>11. ~InHand(u) /\ \A v \in Users : v # u => pc'[v] = pc[v]
  BY <1>2, <1>3, <1>4, <1>5, UsersStay DEF OwnerBlocked
<1>12. OwnerBlocked'
  BY <1>2, <1>11 DEF OwnerBlocked, InHand
<1>13. TypeOK'
  BY <1>1, <1>2, <1>6 DEF TypeOK, PCsOK, States
<1> QED
  BY <1>8, <1>10, <1>12, <1>13

LEMMA EndStartStep ==
  ASSUME IInv, NEW u \in Users, EndStart(u)
  PROVE  IInv'
<1> USE DEF EndStart, Return, Goto, threadVars
<1>1. HandOff' /\ PCsOK(pc')
  BY CallerMoves, PCsOKLemma DEF IInv, UserPCs
<1>2. TypeOK'
  BY <1>1 DEF IInv, TypeOK, PCsOK, command, Outcomes
<1> QED
  BY <1>1, <1>2 DEF IInv

-----------------------------------------------------------------------------
(* Every action of a command thread preserves the invariant                 *)

LEMMA AwaitRequestStep ==
  ASSUME IInv, NEW w \in Workers, AwaitRequest(w)
  PROVE  IInv'
<1> USE DEF IInv, HandOff, AwaitRequest, Goto, threadVars, callers
<1>1. w \in Threads /\ pc'[w] = "waiting" /\ \A t \in Threads : t # w => pc'[t] = pc[t]
  BY DEF TypeOK, Threads
<1>2. waiters' \in Seq(Threads) /\ WaitSet(waiters', pc')
  BY <1>1, WaitLemma DEF TypeOK
<1>3. PCsOK(pc')
  BY <1>1, PCSets, PCsOKLemma DEF PCsOK, Threads
<1>4. MutexIsHeld' /\ ProcessingWhileExecuting'
  BY <1>1, PCSets DEF MutexIsHeld, ProcessingWhileExecuting, Threads
<1>5. OwnerBlocked'
  BY <1>1 DEF OwnerBlocked, InHand, Threads
<1>6. TypeOK'
  BY <1>2, <1>3 DEF TypeOK, PCsOK
<1> QED
  BY <1>2, <1>4, <1>5, <1>6

LEMMA LeaveLoopStep ==
  ASSUME IInv, NEW w \in Workers, LeaveLoop(w)
  PROVE  IInv'
<1> USE DEF IInv, HandOff, LeaveLoop, Goto, threadVars, command, callers
<1>1. w \in Threads /\ pc'[w] = "dead" /\ \A t \in Threads : t # w => pc'[t] = pc[t]
  BY DEF TypeOK, Threads
<1>2. WaitSet(waiters, pc)'
  <2>1. \A t \in Threads : pc[t] = "waiting" => pc'[t] = "waiting"
    BY <1>1
  <2> QED
    BY <2>1, OthersLemma DEF TypeOK, WaitSet
<1>3. PCsOK(pc')
  BY <1>1, PCSets, PCsOKLemma DEF PCsOK, Threads
<1>4. MutexIsHeld' /\ ProcessingWhileExecuting'
  BY <1>1, PCSets DEF MutexIsHeld, ProcessingWhileExecuting, Threads
<1>5. OwnerBlocked'
  BY <1>1 DEF OwnerBlocked, InHand, Threads
<1>6. TypeOK'
  BY <1>3 DEF TypeOK, PCsOK
<1> QED
  BY <1>2, <1>4, <1>5, <1>6

(* The request leaves the queue for the command thread, with its owner      *)
(* still inside push_request.                                               *)
LEMMA TakeRequestStep ==
  ASSUME IInv, NEW w \in Workers, TakeRequest(w)
  PROVE  IInv'
<1> USE DEF IInv, HandOff
<1>1. /\ pc[w] \in {"lock", "woken"} /\ mutex = Nobody /\ queue # <<>>
      /\ mutex' = w /\ processing' = TRUE
      /\ op' = [op EXCEPT ![w] = Head(queue)]
      /\ queue' = Tail(queue)
      /\ pc' = [pc EXCEPT ![w] = "retrying?"]
      /\ UNCHANGED <<state, subscribed, replyQueue, waiters, shutdown,
                     commandThread, callers, faults>>
  BY DEF TakeRequest, Unlocked, Goto
<1>2. w \in Threads /\ pc'[w] = "retrying?" /\ \A t \in Threads : t # w => pc'[t] = pc[t]
  BY <1>1 DEF TypeOK, Threads
<1>3. WaitSet(waiters, pc)'
  <2>1. \A t \in Threads : pc[t] = "waiting" => pc'[t] = "waiting"
    BY <1>1, <1>2
  <2> QED
    BY <1>1, <2>1, OthersLemma DEF TypeOK, WaitSet
<1>4. PCsOK(pc')
  BY <1>1, <1>2, PCSets, PCsOKLemma DEF PCsOK, Threads
<1>5. \A v \in Workers : op[v] = Nobody /\ pc[v] \notin Executing \cup {"done"}
  BY <1>1 DEF MutexIsHeld
<1>6. /\ Head(queue) \in Users /\ Head(queue) = queue[1] /\ 1 \in DOMAIN queue
      /\ queue' \in Seq(Users)
      /\ \A i \in DOMAIN queue' : queue'[i] = queue[i + 1] /\ i + 1 \in DOMAIN queue
      /\ \A i \in DOMAIN queue' : i \in Nat /\ i + 1 # 1
  BY <1>1 DEF TypeOK
<1>7. /\ op'[w] = Head(queue) /\ op' \in [Workers -> Users \cup {Nobody}]
      /\ \A v \in Workers : v # w => op'[v] = Nobody
  BY <1>1, <1>5, <1>6 DEF TypeOK
<1>8. MutexIsHeld' /\ ProcessingWhileExecuting'
  BY <1>1, <1>2, <1>5, <1>6, <1>7, PCSets DEF MutexIsHeld, ProcessingWhileExecuting, Threads
<1>9. \A u \in Users : InHand(u)' => InHand(u)
  BY <1>6, <1>7 DEF InHand
<1>10. \A u \in Users : InHand(u)' => pc'[u] \in {"waiting", "woken"}
  BY <1>2, <1>9 DEF OwnerBlocked, Threads
<1>11. \A i, j \in DOMAIN queue' : queue'[i] = queue'[j] => i = j
  BY <1>6 DEF OwnerBlocked
<1>12. \A v \in Workers, i \in DOMAIN queue' : queue'[i] # op'[v]
  <2>1. \A i \in DOMAIN queue' : queue'[i] \in Users /\ queue'[i] # Head(queue)
    BY <1>6 DEF OwnerBlocked
  <2> QED
    BY <1>7, <2>1
<1>13. OwnerBlocked'
  BY <1>10, <1>11, <1>12 DEF OwnerBlocked
<1>14. TypeOK'
  BY <1>1, <1>4, <1>6, <1>7 DEF TypeOK, PCsOK, callers
<1> QED
  BY <1>3, <1>8, <1>13, <1>14

(* The next place of a request that executes is not outside of it.          *)
LEMMA AwaitConnectionStep ==
  ASSUME IInv, NEW w \in Workers, AwaitConnection(w)
  PROVE  IInv'
<1>1. /\ pc[w] \in Executing
      /\ UNCHANGED <<threadVars, command, callers, faults>>
  BY DEF AwaitConnection, Step, Executing
<1>2. PICK x \in Executing \cup {"done"} : pc' = [pc EXCEPT ![w] = x]
  BY DEF AwaitConnection, Step, Goto, Executing
<1>3. HandOff' /\ PCsOK(pc')
  BY <1>1, <1>2, CommandThreadMoves DEF threadVars
<1>4. TypeOK'
  BY <1>1, <1>3 DEF IInv, TypeOK, PCsOK, threadVars, command, callers
<1> QED
  BY <1>3, <1>4 DEF IInv

(* The reply is the caller's that is in push_request.                       *)
LEMMA SendStep ==
  ASSUME IInv, NEW w \in Workers, Send(w)
  PROVE  IInv'
<1>1. pc[w] \in Executing /\ UNCHANGED <<command, processing>>
  BY DEF Send, Executes, Executing, threadVars
<1>2. PICK x \in {"replied"} : pc' = [pc EXCEPT ![w] = x]
  BY DEF Send, Goto
<1>3. HandOff' /\ PCsOK(pc')
  BY <1>1, <1>2, CommandThreadMoves DEF Executing
<1>4. replyQueue' \in Seq(Replies)
  <2>1. PICK kind \in Kinds : replyQueue' = Pushed(op[w], kind)
    BY DEF Send, Reply, Kinds
  <2> QED
    BY <1>1, <2>1, ExecutingLemma, PushedLemma DEF IInv
<1>5. TypeOK'
  BY <1>1, <1>3, <1>4
     DEF Send, Fault, IInv, TypeOK, PCsOK, command, callers, threadVars
<1> QED
  BY <1>3, <1>5 DEF IInv

LEMMA SendFailsStep ==
  ASSUME IInv, NEW w \in Workers, SendFails(w)
  PROVE  IInv'
<1>1. pc[w] \in Executing /\ UNCHANGED <<command, processing>>
  BY DEF SendFails, Executes, Executing, threadVars
<1>2. PICK x \in {"replied"} : pc' = [pc EXCEPT ![w] = x]
  BY DEF SendFails, Goto
<1>3. HandOff' /\ PCsOK(pc')
  BY <1>1, <1>2, CommandThreadMoves DEF Executing
<1>4. replyQueue' \in Seq(Replies)
  <2>1. PICK kind \in Kinds : replyQueue' = Pushed(op[w], kind)
    BY DEF SendFails, Reply, Kinds
  <2> QED
    BY <1>1, <2>1, ExecutingLemma, PushedLemma DEF IInv
<1>5. TypeOK'
  BY <1>1, <1>3, <1>4
     DEF SendFails, Fault, IInv, TypeOK, PCsOK, command, callers, threadVars
<1> QED
  BY <1>3, <1>5 DEF IInv

LEMMA SendAgainStep ==
  ASSUME IInv, NEW w \in Workers, SendAgain(w)
  PROVE  IInv'
<1>1. pc[w] \in Executing /\ UNCHANGED <<command, processing>>
  BY DEF SendAgain, Executes, Executing, threadVars
<1>2. PICK x \in {"retrying?"} : pc' = [pc EXCEPT ![w] = x]
  BY DEF SendAgain, Goto
<1>3. HandOff' /\ PCsOK(pc')
  BY <1>1, <1>2, CommandThreadMoves DEF Executing
<1>4. subscribed' \in BOOLEAN /\ UNCHANGED <<state, replyQueue>>
  BY DEF SendAgain, IInv, TypeOK, threadVars
<1>5. TypeOK'
  BY <1>1, <1>3, <1>4
     DEF SendAgain, Fault, IInv, TypeOK, PCsOK, command, callers, threadVars
<1> QED
  BY <1>3, <1>5 DEF IInv

LEMMA SubscribeStep ==
  ASSUME IInv, NEW w \in Workers, Subscribe(w)
  PROVE  IInv'
<1>1. pc[w] \in Executing /\ UNCHANGED <<command, processing>>
  BY DEF Subscribe, Executes, Executing, threadVars
<1>2. PICK x \in {"replied"} : pc' = [pc EXCEPT ![w] = x]
  BY DEF Subscribe, Goto
<1>3. HandOff' /\ PCsOK(pc')
  BY <1>1, <1>2, CommandThreadMoves DEF Executing
<1>4. replyQueue' \in Seq(Replies)
  <2>1. PICK kind \in Kinds : replyQueue' = Pushed(op[w], kind)
    BY DEF Subscribe, Reply, Kinds
  <2> QED
    BY <1>1, <2>1, ExecutingLemma, PushedLemma DEF IInv
<1>5. TypeOK'
  BY <1>1, <1>3, <1>4
     DEF Subscribe, Fault, IInv, TypeOK, PCsOK, command, callers, threadVars
<1> QED
  BY <1>3, <1>5 DEF IInv

LEMMA UnsubscribeStep ==
  ASSUME IInv, NEW w \in Workers, Unsubscribe(w)
  PROVE  IInv'
<1>1. pc[w] \in Executing /\ UNCHANGED <<command, processing>>
  BY DEF Unsubscribe, Executes, Executing, threadVars
<1>2. PICK x \in {"done"} : pc' = [pc EXCEPT ![w] = x]
  BY DEF Unsubscribe, Goto
<1>3. HandOff' /\ PCsOK(pc')
  BY <1>1, <1>2, CommandThreadMoves DEF Executing
<1>4. subscribed' \in BOOLEAN /\ UNCHANGED <<state, replyQueue>>
  BY DEF Unsubscribe, IInv, TypeOK, threadVars
<1>5. TypeOK'
  BY <1>1, <1>3, <1>4
     DEF Unsubscribe, Fault, IInv, TypeOK, PCsOK, command, callers, threadVars
<1> QED
  BY <1>3, <1>5 DEF IInv

LEMMA ReceiveStep ==
  ASSUME IInv, NEW w \in Workers, Receive(w)
  PROVE  IInv'
<1>1. pc[w] \in Executing /\ UNCHANGED <<command, processing>>
  BY DEF Receive, Executes, Executing, threadVars
<1>2. PICK x \in {"replied", "done"} : pc' = [pc EXCEPT ![w] = x]
  BY DEF Receive, Goto
<1>3. HandOff' /\ PCsOK(pc')
  BY <1>1, <1>2, CommandThreadMoves DEF Executing
<1>4. replyQueue' \in Seq(Replies)
  <2>1. PICK kind \in Kinds : replyQueue' = Pushed(op[w], kind)
    BY DEF Receive, Reply, Kinds
  <2> QED
    BY <1>1, <2>1, ExecutingLemma, PushedLemma DEF IInv
<1>5. TypeOK'
  BY <1>1, <1>3, <1>4
     DEF Receive, Fault, IInv, TypeOK, PCsOK, command, callers, threadVars
<1> QED
  BY <1>3, <1>5 DEF IInv

LEMMA AbortedStep ==
  ASSUME IInv, NEW w \in Workers, Aborted(w)
  PROVE  IInv'
<1>1. pc[w] \in Executing /\ UNCHANGED <<threadVars, command, callers>>
  BY DEF Aborted, Executes, Executing
<1>2. pc' = [pc EXCEPT ![w] = "aborted"]
  BY DEF Aborted, Goto
<1>3. HandOff' /\ PCsOK(pc')
  BY <1>1, <1>2, CommandThreadMoves DEF Executing, threadVars
<1>4. TypeOK'
  BY <1>1, <1>3 DEF Aborted, Fault, IInv, TypeOK, PCsOK, command, callers, threadVars
<1> QED
  BY <1>3, <1>4 DEF IInv

LEMMA NetworkErrorStep ==
  ASSUME IInv, NEW w \in Workers, NetworkError(w)
  PROVE  IInv'
<1>1. pc[w] \in Executing /\ UNCHANGED <<command, processing>>
  BY DEF NetworkError, Executing
<1>2. pc' = [pc EXCEPT ![w] = "retrying?"]
  BY DEF NetworkError, Goto
<1>3. HandOff' /\ PCsOK(pc')
  BY <1>1, <1>2, CommandThreadMoves DEF Executing
<1>4. TypeOK'
  BY <1>1, <1>3 DEF NetworkError, IInv, TypeOK, PCsOK, command, callers, States
<1> QED
  BY <1>3, <1>4 DEF IInv

LEMMA StateErrorStep ==
  ASSUME IInv, NEW w \in Workers, StateError(w)
  PROVE  IInv'
<1>1. pc[w] \in Executing /\ UNCHANGED <<command, processing>>
  BY DEF StateError, Executes, Executing, threadVars
<1>2. PICK x \in {"retrying?"} : pc' = [pc EXCEPT ![w] = x]
  BY DEF StateError, Goto
<1>3. HandOff' /\ PCsOK(pc')
  BY <1>1, <1>2, CommandThreadMoves DEF Executing
<1>4. state' \in States
  BY DEF StateError, States, IInv, TypeOK
<1>5. TypeOK'
  BY <1>1, <1>3, <1>4
     DEF StateError, Fault, IInv, TypeOK, PCsOK, command, callers, threadVars
<1> QED
  BY <1>3, <1>5 DEF IInv

LEMMA OtherErrorStep ==
  ASSUME IInv, NEW w \in Workers, OtherError(w)
  PROVE  IInv'
<1>1. pc[w] \in Executing /\ UNCHANGED <<command, processing>>
  BY DEF OtherError, Executes, Executing, threadVars
<1>2. PICK x \in {"done"} : pc' = [pc EXCEPT ![w] = x]
  BY DEF OtherError, Goto
<1>3. HandOff' /\ PCsOK(pc')
  BY <1>1, <1>2, CommandThreadMoves DEF Executing
<1>4. replyQueue' \in Seq(Replies)
  <2>1. PICK kind \in Kinds : replyQueue' = Pushed(op[w], kind)
    BY DEF OtherError, Reply, Kinds
  <2> QED
    BY <1>1, <2>1, ExecutingLemma, PushedLemma DEF IInv
<1>5. TypeOK'
  BY <1>1, <1>3, <1>4
     DEF OtherError, Fault, IInv, TypeOK, PCsOK, command, callers, threadVars
<1> QED
  BY <1>3, <1>5 DEF IInv

LEMMA ExpireStep ==
  ASSUME IInv, NEW w \in Workers, Expire(w)
  PROVE  IInv'
<1>1. pc[w] \in Executing /\ UNCHANGED <<command, processing>>
  BY DEF Expire, Executes, Executing, threadVars
<1>2. PICK x \in {"done"} : pc' = [pc EXCEPT ![w] = x]
  BY DEF Expire, Goto
<1>3. HandOff' /\ PCsOK(pc')
  BY <1>1, <1>2, CommandThreadMoves DEF Executing
<1>4. replyQueue' \in Seq(Replies)
  <2>1. PICK kind \in Kinds : replyQueue' = Pushed(op[w], kind)
    BY DEF Expire, Reply, Kinds
  <2> QED
    BY <1>1, <2>1, ExecutingLemma, PushedLemma DEF IInv
<1>5. TypeOK'
  BY <1>1, <1>3, <1>4
     DEF Expire, Fault, IInv, TypeOK, PCsOK, command, callers, threadVars
<1> QED
  BY <1>3, <1>5 DEF IInv

LEMMA FinishRequestStep ==
  ASSUME IInv, NEW w \in Workers, FinishRequest(w)
  PROVE  IInv'
<1>1. pc[w] \in Executing /\ UNCHANGED <<command, processing>>
  BY DEF FinishRequest, Executes, Executing, threadVars
<1>2. PICK x \in {"done"} : pc' = [pc EXCEPT ![w] = x]
  BY DEF FinishRequest, Goto
<1>3. HandOff' /\ PCsOK(pc')
  BY <1>1, <1>2, CommandThreadMoves DEF Executing
<1>4. subscribed' \in BOOLEAN /\ UNCHANGED <<state, replyQueue>>
  BY DEF FinishRequest, IInv, TypeOK, threadVars
<1>5. TypeOK'
  BY <1>1, <1>3, <1>4
     DEF FinishRequest, Fault, IInv, TypeOK, PCsOK, command, callers, threadVars
<1> QED
  BY <1>3, <1>5 DEF IInv

(* The mutex is released, and nobody owns a request that executes any more. *)
LEMMA EndRequestStep ==
  ASSUME IInv, NEW w \in Workers, EndRequest(w)
  PROVE  IInv'
<1> DEFINE p == Signalled(pc)
<1> USE DEF IInv, HandOff
<1>1. PICK x \in {"dead", "lock"} :
        /\ pc[w] = "done"
        /\ processing' = FALSE
        /\ op' = [op EXCEPT ![w] = Nobody]
        /\ waiters' = Unsignalled
        /\ mutex' = Nobody
        /\ shutdown' \in BOOLEAN
        /\ pc' = [p EXCEPT ![w] = x]
        /\ UNCHANGED <<state, subscribed, replyQueue, queue, commandThread, callers, faults>>
  BY DEF EndRequest, TypeOK
<1>2. /\ Unsignalled \in Seq(Threads)
      /\ p \in [Threads -> UserPCs \cup WorkerPCs]
      /\ WaitSet(Unsignalled, p)
      /\ \A t \in Threads : \/ p[t] = pc[t]
                            \/ pc[t] = "waiting" /\ p[t] = "woken"
  BY SignalLemma
<1> HIDE DEF p
<1>3. /\ w \in Threads /\ pc'[w] = x /\ p[w] = "done"
      /\ \A t \in Threads : t # w => \/ pc'[t] = pc[t]
                                     \/ pc[t] = "waiting" /\ pc'[t] = "woken"
      /\ \A t \in Threads : p[t] = "waiting" => pc'[t] = "waiting"
  BY <1>1, <1>2 DEF Threads
<1>4. waiters' \in Seq(Threads) /\ WaitSet(waiters', pc')
  <2>1. WaitSet(Unsignalled, pc')
    BY <1>2, <1>3, OthersLemma DEF WaitSet
  <2> QED
    BY <1>1, <1>2, <2>1
<1>5. PCsOK(pc')
  BY <1>1, <1>2, <1>3, PCSets, PCsOKLemma DEF PCsOK, Threads
<1>6. mutex = w
  BY <1>1 DEF MutexIsHeld
<1>7. /\ op' \in [Workers -> Users \cup {Nobody}]
      /\ \A v \in Workers : op'[v] = Nobody
  BY <1>1, <1>6 DEF TypeOK, MutexIsHeld
<1>8. \A v \in Workers : pc'[v] \notin Executing \cup {"done"}
  BY <1>1, <1>3, <1>6, PCSets DEF MutexIsHeld, Threads
<1>9. MutexIsHeld' /\ ProcessingWhileExecuting'
  BY <1>1, <1>7, <1>8 DEF MutexIsHeld, ProcessingWhileExecuting
<1>10. \A u \in Users : InHand(u)' => InHand(u)
  BY <1>1, <1>7 DEF InHand
<1>11. \A u \in Users : InHand(u)' => pc'[u] \in {"waiting", "woken"}
  BY <1>3, <1>10 DEF OwnerBlocked, Threads
<1>12. OwnerBlocked'
  <2>1. \A i \in DOMAIN queue : queue[i] # Nobody
    BY DEF TypeOK
  <2> QED
    BY <1>1, <1>7, <1>11, <2>1 DEF OwnerBlocked
<1>13. TypeOK'
  BY <1>1, <1>4, <1>5, <1>7 DEF TypeOK, PCsOK, callers
<1> QED
  BY <1>4, <1>9, <1>12, <1>13

-----------------------------------------------------------------------------
(* What the connection does preserves the invariant                         *)

LEMMA ConnectionStep ==
  ASSUME IInv, Connection
  PROVE  IInv'
<1>1. PICK new \in {"started", "starting", "retrying", "stopped"} : ConnectionChanges(new)
  BY DEF Connection, Connect, Reconnect, LoseConnection, Takeover
<1>2. faults' \in Nat
  BY DEF Connection, Connect, Reconnect, LoseConnection, Takeover, Fault, IInv, TypeOK
<1>3. HandOff' /\ PCsOK(pc')
  BY <1>1, StateSignalLemma, ConnectionMoves DEF IInv, ConnectionChanges
<1>4. TypeOK'
  BY <1>1, <1>2, <1>3
     DEF IInv, TypeOK, PCsOK, ConnectionChanges, command, callers, States
<1> QED
  BY <1>3, <1>4 DEF IInv

LEMMA QuiescentStep ==
  ASSUME IInv, UNCHANGED vars
  PROVE  IInv'
BY DEF IInv, HandOff, TypeOK, WaitSet, MutexIsHeld, ProcessingWhileExecuting,
       OwnerBlocked, InHand, vars, threadVars, command, callers

-----------------------------------------------------------------------------
(* The theorems                                                             *)

LEMMA InitialInvariant == Init => IInv
<1> SUFFICES ASSUME Init PROVE IInv
  OBVIOUS
<1>1. commandThread \in Workers
  BY DEF Init
<1>2. TypeOK
  <2>1. PCsOK(pc)
    BY <1>1 DEF Init, PCsOK, UserPCs, WorkerPCs, Threads
  <2>2. call \in [Users -> Requests \cup {"stop", "start"}]
    <3>1. call \in [Users -> {"send"}] /\ {"send"} \subseteq Requests \cup {"stop", "start"}
      BY DEF Init, Requests
    <3> QED
      BY <3>1
  <2>3. op \in [Workers -> Users \cup {Nobody}]
    BY DEF Init
  <2>4. calls \in [Users -> Nat] /\ outcome \in [Users -> Outcomes]
    BY DEF Init, Outcomes
  <2>5. /\ replyQueue \in Seq(Replies) /\ waiters \in Seq(Threads) /\ queue \in Seq(Users)
        /\ state \in States
    BY DEF Init, States
  <2> QED
    BY <1>1, <2>1, <2>2, <2>3, <2>4, <2>5 DEF Init, TypeOK, PCsOK
<1>3. \A w \in Workers : pc[w] \in {"lock", "new"}
  BY DEF Init, Threads
<1>4. MutexIsHeld /\ ProcessingWhileExecuting
  BY <1>3, PCSets DEF Init, MutexIsHeld, ProcessingWhileExecuting
<1>5. WaitSet(waiters, pc) /\ OwnerBlocked
  BY DEF Init, WaitSet, OwnerBlocked, InHand
<1> QED
  BY <1>2, <1>4, <1>5 DEF IInv, HandOff

LEMMA StepInvariant == IInv /\ [Next]_vars => IInv'
<1> SUFFICES ASSUME IInv, [Next]_vars PROVE IInv'
  OBVIOUS
<1>1. ASSUME NEW u \in Users, NewCall(u) PROVE IInv'
  BY <1>1, BeginRequestStep, BeginStopStep, BeginStartStep DEF NewCall
<1>2. ASSUME NEW u \in Users, Caller(u) PROVE IInv'
  BY <1>2, ClearRepliesStep, PushRequestStep, WaitAgainStep, LeavePushRequestStep,
     PopReplyStep, SetStoppedStep, ClearSubscriptionsStep, SignalStopStep, JoinedStep,
     KillCommandThreadStep, StartThreadsStep, EndStartStep DEF Caller
<1>3. ASSUME NEW w \in Workers, CommandThread(w) \/ Operation(w) PROVE IInv'
  BY <1>3, AwaitRequestStep, LeaveLoopStep, TakeRequestStep, AwaitConnectionStep,
     SendStep, SendFailsStep, SendAgainStep, SubscribeStep, UnsubscribeStep,
     ReceiveStep, AbortedStep, NetworkErrorStep, StateErrorStep, OtherErrorStep, ExpireStep,
     FinishRequestStep, EndRequestStep DEF CommandThread, Operation
<1>4. CASE Connection
  BY <1>4, ConnectionStep
<1>5. CASE UNCHANGED vars
  BY <1>5, QuiescentStep
<1>6. ASSUME NEW u \in Users, Closing(u) PROVE IInv'
  BY <1>6, CloseConnectionStep, JoinProtonStep DEF Closing
<1> QED
  BY <1>1, <1>2, <1>3, <1>4, <1>5, <1>6 DEF Next, Quiescent

(* The inductive invariant holds throughout.                                *)
THEOREM Invariance == Spec => []IInv
<1> QED
  BY InitialInvariant, StepInvariant, PTL DEF Spec

(* Every variable keeps its type, for any number of threads and calls.      *)
THEOREM TypeCorrect == Spec => []TypeOK
<1>1. IInv => TypeOK
  BY DEF IInv
<1> QED
  BY <1>1, Invariance, PTL

(* A caller never goes on while its request is queued or executed, and has  *)
(* one request at a time (command.rb, push_request).                        *)
THEOREM OwnerStaysBlocked == Spec => []OwnerBlocked
<1>1. IInv => OwnerBlocked
  BY DEF IInv, HandOff
<1> QED
  BY <1>1, Invariance, PTL

(* Requests are executed one at a time, by the thread that has the mutex,   *)
(* however many command threads are alive (command.rb, command_loop).       *)
THEOREM MutualExclusion == Spec => []OneAtATime
<1>1. IInv => OneAtATime
  BY DEF IInv, HandOff, MutexIsHeld, OneAtATime
<1> QED
  BY <1>1, Invariance, PTL

(* processing_command tells the proton thread the truth, also when the      *)
(* command thread is killed (command.rb, process_request_queue).            *)
THEOREM ProcessingIsExact == Spec => []ProcessingWhileExecuting
<1>1. IInv => ProcessingWhileExecuting
  BY DEF IInv, HandOff
<1> QED
  BY <1>1, Invariance, PTL

-----------------------------------------------------------------------------
(* The replies                                                              *)

(* A signal is felt by a waiting thread only.                               *)
Woken(p, q, t) ==
  \/ q[t] = p[t]
  \/ p[t] = "waiting" /\ q[t] = "woken"

LEMMA NewCallMoves ==
  ASSUME IInv, NEW u \in Users, NewCall(u)
  PROVE  \E p, x : /\ Resembles(p)
                   /\ x \in {"idle", "clear", "push", "close", "stop", "start"}
                   /\ pc' = [p EXCEPT ![u] = x]
<1>1. ASSUME NEW a \in Requests, BeginRequest(u, a)
      PROVE  \E x \in {"idle", "clear", "push"} : pc' = [pc EXCEPT ![u] = x]
  BY <1>1 DEF BeginRequest, Return, Goto
<1>2. CASE BeginStop(u)
  <2>1. \/ \E x \in {"idle", "stop"} : pc' = [pc EXCEPT ![u] = x]
        \/ pc' = [StateSignalled(pc, "stopping") EXCEPT ![u] = "close"]
    BY <1>2 DEF BeginStop, Return, Goto
  <2> QED
    BY <2>1, StateSignalLemma, PCsOKLemma DEF IInv
<1>3. CASE BeginStart(u)
  <2>1. \E x \in {"idle", "start"} : pc' = [pc EXCEPT ![u] = x]
    BY <1>3 DEF BeginStart, Return, Goto
  <2> QED
    BY <2>1, PCsOKLemma DEF IInv
<1> QED
  BY <1>1, <1>2, <1>3, PCsOKLemma DEF NewCall, IInv

(* What a caller does moves no other caller, but by a signal.               *)
LEMMA CallerMovesItself ==
  ASSUME IInv, NEW u \in Users, NEW v \in Users \ {u}, Caller(v) \/ Closing(v)
  PROVE  Woken(pc, pc', u)
<1>0. u \in Threads /\ v \in Threads /\ pc \in [Threads -> UserPCs \cup WorkerPCs]
  BY DEF IInv, TypeOK, Threads
<1>1. CASE ClearReplies(v) \/ WaitAgain(v) \/ PopReply(v) \/ Joined(v) \/ EndStart(v)
           \/ ClearSubscriptions(v) \/ Closing(v)
  BY <1>0, <1>1 DEF ClearReplies, WaitAgain, PopReply, Joined, EndStart, ClearSubscriptions,
     Closing, CloseConnection, JoinProton, Return, Goto, Woken
<1>2. CASE PushRequest(v) \/ LeavePushRequest(v) \/ SignalStop(v)
  <2>1. PICK p, x : (p = pc \/ p = Signalled(pc)) /\ pc' = [p EXCEPT ![v] = x]
    <3>1. CASE PushRequest(v)
      BY <3>1 DEF PushRequest, Return, Goto
    <3>2. CASE LeavePushRequest(v)
      BY <3>2, Zenon DEF LeavePushRequest
    <3>3. CASE SignalStop(v)
      BY <3>3 DEF SignalStop
    <3> QED
      BY <1>2, <3>1, <3>2, <3>3
  <2>2. p \in [Threads -> UserPCs \cup WorkerPCs] /\ Woken(pc, p, u)
    BY <1>0, <2>1, SignalLemma DEF IInv, HandOff, Woken
  <2> QED
    BY <1>0, <2>1, <2>2 DEF Woken
<1>3. CASE SetStopped(v) \/ StartThreads(v)
  <2>1. PICK p : Resembles(p) /\ pc'[u] = p[u]
    <3>1. CASE SetStopped(v)
      <4>1. Resembles(StateSignalled(pc, "stopped"))
        BY StateSignalLemma DEF IInv
      <4> QED
        BY <1>0, <3>1, <4>1 DEF SetStopped, Resembles, PCsOK
    <3>2. CASE StartThreads(v)
      <4>1. Resembles(StateSignalled(pc, "starting"))
        BY StateSignalLemma DEF IInv
      <4> DEFINE p == StateSignalled(pc, "starting")
      <4>2. PICK w \in Workers : pc' = [p EXCEPT ![v] = "await", ![w] = "lock"]
        BY <3>2 DEF StartThreads
      <4> HIDE DEF p
      <4>3. u # w /\ w \in Threads
        BY DEF Threads
      <4> QED
        BY <1>0, <4>1, <4>2, <4>3 DEF Resembles, PCsOK, p
    <3> QED
      BY <1>3, <3>1, <3>2
  <2> QED
    BY <2>1, UsersStay DEF IInv, Woken
<1>4. CASE KillCommandThread(v)
  <2>1. /\ pc' = [pc EXCEPT ![v] = "idle", ![commandThread] = "dead"]
        /\ commandThread \in Workers
    BY <1>4 DEF KillCommandThread, IInv, TypeOK
  <2> QED
    BY <1>0, <2>1 DEF Woken
<1> QED
  BY <1>1, <1>2, <1>3, <1>4 DEF Caller

(* A command thread moves itself, and at most one waiting thread.           *)
LEMMA CommandThreadMovesItself ==
  ASSUME IInv, NEW w \in Workers, CommandThread(w) \/ Operation(w)
  PROVE  /\ UNCHANGED callers
         /\ \A t \in Threads \ {w} : Woken(pc, pc', t)
         /\ ~EndRequest(w) => \E x : pc' = [pc EXCEPT ![w] = x]
<1>0. w \in Threads /\ pc \in [Threads -> UserPCs \cup WorkerPCs]
  BY DEF IInv, TypeOK, Threads
<1>1. CASE EndRequest(w)
  <2>1. /\ UNCHANGED callers
        /\ \E x : pc' = [Signalled(pc) EXCEPT ![w] = x]
    BY <1>1 DEF EndRequest
  <2>2. /\ Signalled(pc) \in [Threads -> UserPCs \cup WorkerPCs]
        /\ \A t \in Threads : Woken(pc, Signalled(pc), t)
    BY SignalLemma DEF IInv, HandOff, Woken
  <2> QED
    BY <1>1, <2>1, <2>2 DEF Woken
<1>2. CASE ~EndRequest(w)
  <2> USE DEF CommandThread, Operation, Goto
  <2>1. UNCHANGED callers
    <3>1. CASE AwaitRequest(w) \/ LeaveLoop(w) \/ AwaitConnection(w) \/ TakeRequest(w)
      BY <3>1 DEF AwaitRequest, LeaveLoop, AwaitConnection, Step, TakeRequest
    <3>2. CASE ~(AwaitRequest(w) \/ LeaveLoop(w) \/ AwaitConnection(w) \/ TakeRequest(w))
      BY <1>2, <3>2 DEF Send, SendFails, SendAgain, Subscribe, Unsubscribe, Receive, Aborted,
         NetworkError, StateError, OtherError, Expire, FinishRequest
    <3> QED
      BY <3>1, <3>2
  <2>2. \E x : pc' = [pc EXCEPT ![w] = x]
    <3>1. CASE AwaitRequest(w) \/ LeaveLoop(w) \/ AwaitConnection(w) \/ TakeRequest(w)
      BY <3>1 DEF AwaitRequest, LeaveLoop, AwaitConnection, Step, TakeRequest
    <3>2. CASE ~(AwaitRequest(w) \/ LeaveLoop(w) \/ AwaitConnection(w) \/ TakeRequest(w))
      BY <1>2, <3>2 DEF Send, SendFails, SendAgain, Subscribe, Unsubscribe, Receive, Aborted,
         NetworkError, StateError, OtherError, Expire, FinishRequest
    <3> QED
      BY <3>1, <3>2
  <2> QED
    BY <1>0, <2>1, <2>2 DEF Woken
<1> QED
  BY <1>1, <1>2

(* Between its own steps a caller is at most woken, and its call is as it   *)
(* was.                                                                     *)
LEMMA UserSteps ==
  ASSUME IInv, NEW u \in Users, [Next]_vars, ~NewCall(u)
  PROVE  /\ call'[u] = call[u] /\ calls'[u] = calls[u]
         /\ Caller(u) \/ Closing(u) \/ Woken(pc, pc', u)
<1>0. u \in Threads /\ u \notin Workers
  BY DEF Threads
<1>1. ASSUME NEW v \in Users, NewCall(v)
      PROVE  call'[u] = call[u] /\ calls'[u] = calls[u] /\ Woken(pc, pc', u)
  <2>1. u # v
    BY <1>1
  <2>2. PICK p, x : Resembles(p) /\ pc' = [p EXCEPT ![v] = x]
    BY <1>1, NewCallMoves
  <2>3. pc'[u] = pc[u]
    BY <2>1, <2>2, UsersStay DEF Resembles, PCsOK, Threads, IInv
  <2>4. /\ calls' = [calls EXCEPT ![v] = @ + 1]
        /\ \E a : call' = [call EXCEPT ![v] = a]
    BY <1>1 DEF NewCall, BeginRequest, BeginStop, BeginStart, MakeCall
  <2>5. call'[u] = call[u] /\ calls'[u] = calls[u]
    BY <2>1, <2>4 DEF IInv, TypeOK
  <2> QED
    BY <2>3, <2>5 DEF Woken
<1>2. ASSUME NEW v \in Users, Caller(v) \/ Closing(v)
      PROVE  UNCHANGED <<call, calls>> /\ (Caller(u) \/ Closing(u) \/ Woken(pc, pc', u))
  <2>1. UNCHANGED <<call, calls>>
    <3>1. CASE Caller(v)
      BY <3>1 DEF Caller, ClearReplies, PushRequest, WaitAgain, LeavePushRequest, PopReply,
         SetStopped, ClearSubscriptions, SignalStop, Joined, KillCommandThread, StartThreads,
         EndStart, callers
    <3>2. CASE Closing(v)
      BY <3>2 DEF Closing, CloseConnection, JoinProton, callers
    <3> QED
      BY <1>2, <3>1, <3>2
  <2> QED
    BY <1>2, <2>1, CallerMovesItself
<1>3. ASSUME NEW w \in Workers, CommandThread(w) \/ Operation(w)
      PROVE  UNCHANGED <<call, calls>> /\ Woken(pc, pc', u)
  BY <1>0, <1>3, CommandThreadMovesItself DEF callers
<1>4. CASE Connection
  <2>1. PICK new : ConnectionChanges(new)
    BY <1>4 DEF Connection, Connect, Reconnect, LoseConnection, Takeover
  <2> QED
    BY <2>1, StateSignalLemma, UsersStay DEF ConnectionChanges, IInv, callers, Woken
<1>5. CASE UNCHANGED vars
  BY <1>5 DEF vars, callers, Woken
<1> QED
  BY <1>1, <1>2, <1>3, <1>4, <1>5 DEF Next, Quiescent

-----------------------------------------------------------------------------
(* The reply to this very call                                              *)

(* From the moment send has cleared the queue of replies, what is pushed    *)
(* on it for its caller is for this call: its caller stays in push_request  *)
(* as long as its request is executed (OwnerBlocked).                       *)
Sending(u) == call[u] = "send" /\ pc[u] \in {"push", "waiting", "woken", "pop"}

Own(i, u) == replyQueue[i].caller = u => replyQueue[i].call = calls[u]

Fresh == \A u \in Users : Sending(u) => \A i \in DOMAIN replyQueue : Own(i, u)

(* A command thread pushes a reply to the request it executes, or nothing.  *)
LEMMA RepliesOfThread ==
  ASSUME IInv, NEW w \in Workers, CommandThread(w) \/ Operation(w)
  PROVE  \/ replyQueue' = replyQueue
         \/ /\ pc[w] \in Executing
            /\ \E kind \in Kinds : replyQueue' = Pushed(op[w], kind)
<1>1. CASE AwaitRequest(w) \/ LeaveLoop(w) \/ AwaitConnection(w) \/ TakeRequest(w)
           \/ EndRequest(w)
  BY <1>1 DEF AwaitRequest, LeaveLoop, AwaitConnection, Step, TakeRequest, EndRequest, threadVars
<1>2. CASE SendAgain(w) \/ Unsubscribe(w) \/ Aborted(w) \/ NetworkError(w) \/ StateError(w)
           \/ FinishRequest(w)
  BY <1>2 DEF SendAgain, Unsubscribe, Aborted, NetworkError, StateError, FinishRequest, threadVars
<1>3. CASE Send(w) \/ SendFails(w) \/ Subscribe(w) \/ Receive(w) \/ OtherError(w) \/ Expire(w)
  BY <1>3 DEF Send, SendFails, Subscribe, Receive, OtherError, Expire, Executes, Reply,
     Executing, Kinds
<1> QED
  BY <1>1, <1>2, <1>3 DEF CommandThread, Operation

(* A caller takes the oldest reply, clears them all, or leaves them alone.  *)
LEMMA RepliesOfCaller ==
  ASSUME NEW u \in Users, Caller(u) \/ Closing(u)
  PROVE  \/ replyQueue' = replyQueue
         \/ ClearReplies(u)
         \/ PopReply(u)
<1>1. CASE Caller(u)
  BY <1>1 DEF Caller, PushRequest, WaitAgain, LeavePushRequest, SetStopped, ClearSubscriptions,
     SignalStop, Joined, KillCommandThread, StartThreads, EndStart, threadVars
<1>2. CASE Closing(u)
  BY <1>2 DEF Closing, CloseConnection, JoinProton, threadVars
<1> QED
  BY <1>1, <1>2

LEMMA SendingStays ==
  ASSUME IInv, NEW u \in Users, [Next]_vars, ~ClearReplies(u), Sending(u)'
  PROVE  Sending(u) /\ calls'[u] = calls[u]
<1>0. u \in Threads /\ pc \in [Threads -> UserPCs \cup WorkerPCs]
  BY DEF IInv, TypeOK, Threads
<1>1. ~NewCall(u)
  <2>1. SUFFICES ASSUME NewCall(u) PROVE FALSE
    OBVIOUS
  <2>2. ASSUME NEW a \in Requests, BeginRequest(u, a) PROVE FALSE
    <3>1. pc'[u] = "idle" \/ pc'[u] = IF a = "send" THEN "clear" ELSE "push"
      BY <1>0, <2>2 DEF BeginRequest, Return, Goto
    <3>2. call'[u] = a
      BY <2>2 DEF BeginRequest, MakeCall, IInv, TypeOK
    <3> QED
      BY <3>1, <3>2 DEF Sending
  <2>3. CASE BeginStop(u) \/ BeginStart(u)
    <3>1. call'[u] \in {"stop", "start"}
      BY <2>3 DEF BeginStop, BeginStart, MakeCall, IInv, TypeOK
    <3> QED
      BY <3>1 DEF Sending
  <2> QED
    BY <2>1, <2>2, <2>3 DEF NewCall
<1>2. call'[u] = call[u] /\ calls'[u] = calls[u] /\ (Caller(u) \/ Closing(u) \/ Woken(pc, pc', u))
  BY <1>1, UserSteps
<1>3. CASE Woken(pc, pc', u)
  BY <1>2, <1>3 DEF Sending, Woken
<1>4. CASE Caller(u) \/ Closing(u)
  <2>1. CASE PushRequest(u) \/ WaitAgain(u) \/ LeavePushRequest(u) \/ PopReply(u)
    BY <1>2, <2>1 DEF Sending, PushRequest, WaitAgain, LeavePushRequest, PopReply
  <2>2. pc'[u] \notin {"push", "waiting", "woken", "pop"}
        \/ PushRequest(u) \/ WaitAgain(u) \/ LeavePushRequest(u) \/ PopReply(u)
    <3>1. CASE Joined(u) \/ EndStart(u) \/ ClearSubscriptions(u) \/ Closing(u)
      BY <1>0, <3>1 DEF Joined, EndStart, ClearSubscriptions, Closing, CloseConnection,
         JoinProton, Return, Goto
    <3>2. CASE SetStopped(u)
      <4>1. Resembles(StateSignalled(pc, "stopped"))
        BY StateSignalLemma DEF IInv
      <4> QED
        BY <1>0, <3>2, <4>1 DEF SetStopped, Resembles, PCsOK
    <3>3. CASE SignalStop(u)
      <4>1. Signalled(pc) \in [Threads -> UserPCs \cup WorkerPCs]
        BY SignalLemma DEF IInv, HandOff
      <4> QED
        BY <1>0, <3>3, <4>1 DEF SignalStop
    <3>4. CASE KillCommandThread(u) \/ StartThreads(u)
      <4>1. \E p, x, y : \E w \in Workers :
              /\ p \in [Threads -> UserPCs \cup WorkerPCs]
              /\ x \in {"idle", "await"}
              /\ pc' = [p EXCEPT ![u] = x, ![w] = y]
        <5>1. CASE KillCommandThread(u)
          BY <1>0, <5>1 DEF KillCommandThread, IInv, TypeOK
        <5>2. CASE StartThreads(u)
          <6>1. StateSignalled(pc, "starting") \in [Threads -> UserPCs \cup WorkerPCs]
            BY StateSignalLemma DEF IInv, Resembles, PCsOK
          <6> QED
            BY <5>2, <6>1 DEF StartThreads
        <5> QED
          BY <3>4, <5>1, <5>2
      <4>2. \A w \in Workers : w # u
        OBVIOUS
      <4> QED
        BY <1>0, <4>1, <4>2
    <3> QED
      BY <1>4, <3>1, <3>2, <3>3, <3>4 DEF Caller
  <2> QED
    BY <2>1, <2>2 DEF Sending
<1> QED
  BY <1>2, <1>3, <1>4

LEMMA FreshStep ==
  ASSUME IInv, Fresh, [Next]_vars
  PROVE  Fresh'
<1> SUFFICES ASSUME NEW u \in Users, Sending(u)',
                    NEW i \in DOMAIN replyQueue'
             PROVE  Own(i, u)'
  BY DEF Fresh
<1>1. CASE \E v \in Users : ClearReplies(v)
  BY <1>1 DEF ClearReplies
<1>2. CASE \A v \in Users : ~ClearReplies(v)
  <2>1. Sending(u) /\ calls'[u] = calls[u] /\ replyQueue \in Seq(Replies)
    BY <1>2, SendingStays DEF IInv, TypeOK
  <2>2. \A j \in DOMAIN replyQueue : Own(j, u)
    BY <2>1 DEF Fresh
  <2>3. CASE replyQueue' = replyQueue
    BY <2>1, <2>2, <2>3 DEF Own
  <2>4. ASSUME NEW v \in Users, PopReply(v) PROVE Own(i, u)'
    <3>1. replyQueue # <<>> /\ replyQueue' = Tail(replyQueue)
      BY <2>4 DEF PopReply
    <3>2. i + 1 \in DOMAIN replyQueue /\ replyQueue'[i] = replyQueue[i + 1]
      BY <2>1, <3>1
    <3> QED
      BY <2>1, <2>2, <3>2 DEF Own
  <2>5. ASSUME NEW w \in Workers, pc[w] \in Executing,
               NEW kind \in Kinds, replyQueue' = Pushed(op[w], kind)
        PROVE  Own(i, u)'
    <3> DEFINE r == [caller |-> op[w], call |-> calls[op[w]], kind |-> kind]
    <3>2. replyQueue' = Append(replyQueue, r)
      BY <2>5 DEF Pushed
    <3>3. r.caller = u => r.call = calls[u]
      OBVIOUS
    <3> HIDE DEF r
    <3>4. \/ i \in DOMAIN replyQueue /\ replyQueue'[i] = replyQueue[i]
          \/ replyQueue'[i] = r
      BY <2>1, <3>2
    <3> QED
      BY <2>1, <2>2, <3>3, <3>4 DEF Own
  <2>6. \/ replyQueue' = replyQueue
        \/ \E v \in Users : PopReply(v)
        \/ \E w \in Workers : /\ pc[w] \in Executing
                              /\ \E kind \in Kinds : replyQueue' = Pushed(op[w], kind)
    <3>1. ASSUME NEW v \in Users, NewCall(v) PROVE replyQueue' = replyQueue
      BY <3>1 DEF NewCall, BeginRequest, BeginStop, BeginStart, threadVars
    <3>2. ASSUME NEW v \in Users, Caller(v) \/ Closing(v)
          PROVE  replyQueue' = replyQueue \/ PopReply(v)
      BY <1>2, <3>2, RepliesOfCaller
    <3>3. CASE Connection
      BY <3>3 DEF Connection, Connect, Reconnect, LoseConnection, Takeover, ConnectionChanges
    <3>4. CASE UNCHANGED vars
      BY <3>4 DEF vars, threadVars
    <3> QED
      BY <3>1, <3>2, <3>3, <3>4, RepliesOfThread DEF Next, Quiescent
  <2> QED
    BY <2>3, <2>4, <2>5, <2>6
<1> QED
  BY <1>1, <1>2

(* Whatever requests executed twice, failed unsubscribes and late timeouts  *)
(* have left on the queue of replies, and whoever else uses the client, a   *)
(* send that collects its reply finds none of an earlier call of its own    *)
(* (blocking_client.rb, send; command.rb, process_request_queue).           *)
THEOREM SendFindsItsReply == Spec => []SendGetsItsReply
<1>1. Init => Fresh
  BY DEF Init, Fresh
<1>2. IInv /\ Fresh /\ [Next]_vars => Fresh'
  BY FreshStep
<1>3. Fresh => SendGetsItsReply
  BY DEF Fresh, Own, Sending, SendGetsItsReply
<1> QED
  BY <1>1, <1>2, <1>3, Invariance, PTL DEF Spec

-----------------------------------------------------------------------------
(* As many replies as callers that look for one                             *)

(* The callers' calls come to an end in a reply: no operation fails once    *)
(* its reply is pushed, nothing stops the client, and send, which clears    *)
(* the queue of replies, is only used where no other thread uses the        *)
(* client.  Losses of the connection and failing operations are not         *)
(* excluded.                                                                *)
InConcert ==
  /\ StrayReplies = FALSE
  /\ Takeovers = FALSE
  /\ \A u \in Users : /\ "stop" \notin Calls[u]
                      /\ "send" \in Calls[u] => \A v \in Users : v = u

Working ==
  /\ state # "stopped"
  /\ \A u \in Users :
       /\ pc[u] \in {"idle", "clear", "push", "waiting", "woken", "pop"}
       /\ pc[u] = "clear" => "send" \in Calls[u]
       /\ pc[u] = "pop" => call[u] # "unsubscribe"

Balanced == IsFiniteSet(Owed) /\ RepliesMatchCallers

IsOwed(u) ==
  /\ call[u] # "unsubscribe"
  /\ pc[u] = "pop" \/ (pc[u] \in {"waiting", "woken"} /\ Finished(u))

(* Past the point where the reply is pushed.                                *)
Answered(x) == x \in {"replied", "done"}

LEMMA OwedIs == \A u \in Users : u \in Owed <=> IsOwed(u)
  BY DEF Owed, IsOwed

LEMMA OwedStays ==
  ASSUME \A u \in Users : IsOwed(u)' <=> IsOwed(u)
  PROVE  Owed' = Owed
  BY DEF Owed, IsOwed

(* Nobody stops the client, and its callers are about requests.             *)
LEMMA WorkingStep ==
  ASSUME IInv, Working, InConcert, [Next]_vars
  PROVE  Working'
<1>0. pc \in [Threads -> UserPCs \cup WorkerPCs] /\ \A u \in Users : u \in Threads
  BY DEF IInv, TypeOK, Threads
<1>1. ASSUME NEW u \in Users PROVE ~BeginStop(u) /\ ~Closing(u)
  <2>1. ~BeginStop(u)
    BY Zenon DEF BeginStop, MakeCall, InConcert
  <2>2. ~Closing(u)
    BY DEF Closing, CloseConnection, JoinProton, Working
  <2> QED
    BY <2>1, <2>2
<1>2. ASSUME NEW u \in Users, NewCall(u)
      PROVE  /\ state' = state
             /\ \/ pc'[u] \in {"idle", "push"}
                \/ pc'[u] = "clear" /\ "send" \in Calls[u]
  <2>1. ASSUME NEW a \in Requests, BeginRequest(u, a)
        PROVE  /\ state' = state
               /\ \/ pc'[u] \in {"idle", "push"}
                  \/ pc'[u] = "clear" /\ "send" \in Calls[u]
    BY <1>0, <2>1 DEF BeginRequest, MakeCall, Return, Goto, threadVars
  <2>2. CASE BeginStart(u)
    BY <1>0, <2>2 DEF BeginStart, Return, Goto, Working, threadVars
  <2> QED
    BY <1>1, <1>2, <2>1, <2>2 DEF NewCall
<1>3. ASSUME NEW u \in Users, Caller(u)
      PROVE  /\ state' = state
             /\ pc'[u] \in {"idle", "push", "waiting", "pop"}
             /\ pc'[u] = "pop" => call[u] # "unsubscribe"
  <2>1. ClearReplies(u) \/ PushRequest(u) \/ WaitAgain(u) \/ LeavePushRequest(u) \/ PopReply(u)
    BY <1>3 DEF Caller, Working, SetStopped, ClearSubscriptions, SignalStop, Joined,
       KillCommandThread, StartThreads, EndStart
  <2>2. Signalled(pc) \in [Threads -> UserPCs \cup WorkerPCs]
    BY SignalLemma DEF IInv, HandOff
  <2>3. CASE ClearReplies(u) \/ WaitAgain(u) \/ PopReply(u)
    BY <1>0, <2>3 DEF ClearReplies, WaitAgain, PopReply, Return, Goto, threadVars
  <2>4. CASE PushRequest(u)
    BY <1>0, <2>2, <2>4 DEF PushRequest, Return, Goto, threadVars
  <2>5. CASE LeavePushRequest(u)
    BY <1>0, <2>2, <2>5 DEF LeavePushRequest
  <2> QED
    BY <2>1, <2>3, <2>4, <2>5
<1>4. state' # "stopped"
  <2>1. ASSUME NEW w \in Workers, CommandThread(w) \/ Operation(w) PROVE state' # "stopped"
    <3>1. CASE NetworkError(w) \/ StateError(w)
      BY <3>1 DEF NetworkError, StateError, Working, InConcert
    <3>2. CASE AwaitRequest(w) \/ LeaveLoop(w) \/ AwaitConnection(w) \/ TakeRequest(w)
               \/ EndRequest(w) \/ FinishRequest(w)
      BY <3>2 DEF AwaitRequest, LeaveLoop, AwaitConnection, Step, TakeRequest, EndRequest,
         FinishRequest, threadVars, Working
    <3>3. CASE Send(w) \/ SendFails(w) \/ SendAgain(w) \/ Subscribe(w) \/ Unsubscribe(w)
               \/ Receive(w) \/ Aborted(w) \/ OtherError(w) \/ Expire(w)
      BY <3>3 DEF Send, SendFails, SendAgain, Subscribe, Unsubscribe, Receive, Aborted,
         OtherError, Expire, threadVars, Working
    <3> QED
      BY <2>1, <3>1, <3>2, <3>3 DEF CommandThread, Operation
  <2>2. CASE Connection
    BY <2>2 DEF Connection, Connect, Reconnect, LoseConnection, Takeover, ConnectionChanges,
       InConcert
  <2>3. CASE UNCHANGED vars
    BY <2>3 DEF vars, threadVars, Working
  <2> QED
    BY <1>1, <1>2, <1>3, <2>1, <2>2, <2>3 DEF Next, Quiescent, Working
<1>5. ASSUME NEW u \in Users
      PROVE  /\ pc'[u] \in {"idle", "clear", "push", "waiting", "woken", "pop"}
             /\ pc'[u] = "clear" => "send" \in Calls[u]
             /\ pc'[u] = "pop" => call'[u] # "unsubscribe"
  <2>1. CASE NewCall(u)
    BY <1>2, <2>1
  <2>2. CASE ~NewCall(u)
    <3>1. call'[u] = call[u] /\ (Caller(u) \/ Woken(pc, pc', u))
      BY <1>1, <2>2, UserSteps
    <3>2. CASE Caller(u)
      BY <1>3, <3>1, <3>2
    <3>3. CASE Woken(pc, pc', u)
      BY <3>1, <3>3 DEF Woken, Working
    <3> QED
      BY <3>1, <3>2, <3>3
  <2> QED
    BY <2>1, <2>2
<1> QED
  BY <1>4, <1>5 DEF Working

(* Whether a request is finished depends on the queue, on who executes it   *)
(* and on how far that thread is.                                           *)
LEMMA FinishedStays ==
  ASSUME IInv, NEW u \in Users, UNCHANGED <<queue, op>>,
         \A w \in Workers : op[w] # Nobody => pc'[w] = pc[w]
  PROVE  Finished(u)' <=> Finished(u)
  BY DEF Finished

(* Only the owner of the executed request is concerned.                     *)
LEMMA FinishedMoves ==
  ASSUME IInv, NEW w \in Workers, NEW x, NEW u \in Users,
         pc[w] \in Executing \cup {"done"},
         pc' = [pc EXCEPT ![w] = x], UNCHANGED <<queue, op>>
  PROVE  /\ op[w] # u => (Finished(u)' <=> Finished(u))
         /\ op[w] = u => (Finished(u) <=> Answered(pc[w]))
         /\ op[w] = u => (Finished(u)' <=> Answered(x))
<1>1. /\ pc'[w] = x
      /\ \A v \in Workers : v # w => pc'[v] = pc[v] /\ op[v] = Nobody
  BY ExecutingLemma DEF IInv, HandOff, MutexIsHeld, TypeOK, Threads
<1>2. op[w] = u => \A i \in DOMAIN queue : queue[i] # u
  BY DEF IInv, HandOff, OwnerBlocked
<1> QED
  BY <1>1, <1>2 DEF Finished, Answered

(* The command thread moves on without a reply: it has not come to the      *)
(* reply, has passed it, or the request needs none.                         *)
LEMMA NoReplyLemma ==
  ASSUME IInv, Balanced, NEW w \in Workers, NEW x,
         pc[w] \in Executing \cup {"done"},
         pc' = [pc EXCEPT ![w] = x], UNCHANGED <<queue, op, call, replyQueue>>,
         (Answered(x) <=> Answered(pc[w])) \/ call[op[w]] = "unsubscribe"
  PROVE  Balanced'
<1>1. op[w] \in Users /\ \A u \in Users : pc'[u] = pc[u]
  BY ExecutingLemma DEF IInv, TypeOK, Threads
<1>2. \A u \in Users : IsOwed(u)' <=> IsOwed(u)
  BY <1>1, FinishedMoves DEF IsOwed
<1> QED
  BY <1>2, OwedStays DEF Balanced, RepliesMatchCallers

(* The command thread replies: one more reply, one more caller owed one.    *)
LEMMA ReplyLemma ==
  ASSUME IInv, Balanced, NEW w \in Workers, NEW x, NEW kind \in Kinds,
         pc[w] \in Executing, ~Answered(pc[w]), Answered(x),
         pc' = [pc EXCEPT ![w] = x], UNCHANGED <<queue, op, call>>,
         replyQueue' = Pushed(op[w], kind), call[op[w]] # "unsubscribe"
  PROVE  Balanced'
<1>1. op[w] \in Users /\ \A u \in Users : pc'[u] = pc[u]
  BY ExecutingLemma DEF IInv, TypeOK, Threads
<1>2. PICK h \in Users : h = op[w]
  BY <1>1
<1>3. InHand(h) /\ pc[h] \in {"waiting", "woken"}
  BY <1>2 DEF IInv, HandOff, OwnerBlocked, InHand
<1>4. \A u \in Users \ {h} : IsOwed(u)' <=> IsOwed(u)
  BY <1>1, <1>2, FinishedMoves DEF IsOwed
<1>5. ~IsOwed(h) /\ IsOwed(h)'
  BY <1>1, <1>2, <1>3, FinishedMoves DEF IsOwed
<1>6. Owed' = Owed \cup {h} /\ h \notin Owed
  BY <1>4, <1>5 DEF Owed, IsOwed
<1>7. IsFiniteSet(Owed') /\ Cardinality(Owed') = Cardinality(Owed) + 1
  BY <1>6, FS_AddElement DEF Balanced
<1>8. Len(replyQueue') = Len(replyQueue) + 1
  <2> DEFINE r == [caller |-> op[w], call |-> calls[op[w]], kind |-> kind]
  <2>1. replyQueue' = Append(replyQueue, r) /\ replyQueue \in Seq(Replies)
    BY DEF Pushed, IInv, TypeOK
  <2> HIDE DEF r
  <2> QED
    BY <2>1
<1> QED
  BY <1>7, <1>8 DEF Balanced, RepliesMatchCallers

(* A call that begins is not owed anything, and changes nobody's due.       *)
LEMMA NewCallBalance ==
  ASSUME IInv, Working, Balanced, InConcert, NEW u \in Users, NewCall(u)
  PROVE  Balanced'
<1>0. pc \in [Threads -> UserPCs \cup WorkerPCs] /\ u \in Threads /\ pc[u] = "idle"
  BY DEF IInv, TypeOK, Threads, NewCall, BeginRequest, BeginStop, BeginStart, MakeCall
<1>1. ~BeginStop(u)
  BY Zenon DEF BeginStop, MakeCall, InConcert
<1>2. PICK x \in {"idle", "clear", "push"} : pc' = [pc EXCEPT ![u] = x]
  <2>1. ASSUME NEW a \in Requests, BeginRequest(u, a)
        PROVE  \E x \in {"idle", "clear", "push"} : pc' = [pc EXCEPT ![u] = x]
    BY <2>1 DEF BeginRequest, Return, Goto
  <2>2. CASE BeginStart(u)
    BY <2>2 DEF BeginStart, Return, Goto, Working
  <2> QED
    BY <1>1, <2>1, <2>2 DEF NewCall
<1>3. /\ UNCHANGED <<replyQueue, queue, op>>
      /\ \E a : call' = [call EXCEPT ![u] = a]
  BY <1>1 DEF NewCall, BeginRequest, BeginStart, MakeCall, threadVars, command
<1>4. \A t \in Threads \ {u} : pc'[t] = pc[t]
  BY <1>0, <1>2
<1>5. \A v \in Users : Finished(v)' <=> Finished(v)
  BY <1>3, <1>4, FinishedStays DEF Threads
<1>6. \A v \in Users \ {u} : IsOwed(v)' <=> IsOwed(v)
  BY <1>3, <1>4, <1>5 DEF IsOwed, Threads, IInv, TypeOK
<1>7. ~IsOwed(u) /\ ~IsOwed(u)'
  BY <1>0, <1>2 DEF IsOwed
<1>8. Owed' = Owed
  BY <1>6, <1>7, OwedStays
<1> QED
  BY <1>3, <1>8 DEF Balanced, RepliesMatchCallers

(* send clears an empty queue: it is the only caller, and owed nothing yet. *)
LEMMA ClearRepliesBalance ==
  ASSUME IInv, Working, Balanced, InConcert, NEW u \in Users, ClearReplies(u)
  PROVE  Balanced'
<1>0. pc \in [Threads -> UserPCs \cup WorkerPCs] /\ u \in Threads
  BY DEF IInv, TypeOK, Threads
<1>1. /\ pc[u] = "clear" /\ replyQueue' = <<>>
      /\ pc' = [pc EXCEPT ![u] = "push"]
      /\ UNCHANGED <<queue, op, call>>
  BY DEF ClearReplies, Goto, command, callers
<1>2. \A v \in Users : v = u
  BY <1>1 DEF Working, InConcert
<1>3. \A v \in Users : ~IsOwed(v) /\ ~IsOwed(v)'
  BY <1>0, <1>1, <1>2 DEF IsOwed
<1>4. Owed = {} /\ Owed' = {}
  BY <1>3 DEF Owed, IsOwed
<1> QED
  BY <1>1, <1>4, FS_EmptySet DEF Balanced, RepliesMatchCallers

(* A signal changes nobody's due.                                           *)
LEMMA SignalBalance ==
  ASSUME IInv, NEW v \in Users, UNCHANGED <<op, call>>,
         \A w \in Workers : Woken(pc, pc', w), Woken(pc, pc', v),
         \A i \in DOMAIN queue' : queue'[i] = v <=> /\ i \in DOMAIN queue
                                                    /\ queue[i] = v,
         DOMAIN queue \subseteq DOMAIN queue'
  PROVE  IsOwed(v)' <=> IsOwed(v)
<1>1. \A w \in Workers : op[w] = v => pc'[w] = pc[w]
  BY PCSets DEF Woken, IInv, HandOff, MutexIsHeld, TypeOK
<1>2. Finished(v)' <=> Finished(v)
  BY <1>1 DEF Finished
<1> QED
  BY <1>2 DEF IsOwed, Woken

LEMMA PushRequestBalance ==
  ASSUME IInv, Balanced, NEW u \in Users, PushRequest(u)
  PROVE  Balanced'
<1>0. /\ pc \in [Threads -> UserPCs \cup WorkerPCs] /\ u \in Threads
      /\ pc[u] = "push" /\ queue \in Seq(Users)
      /\ UNCHANGED <<op, call, replyQueue>>
  BY DEF IInv, TypeOK, Threads, PushRequest, threadVars
<1>1. PICK p, x : /\ p \in {pc, Signalled(pc)} /\ x \in {"idle", "waiting"}
                  /\ pc' = [p EXCEPT ![u] = x]
                  /\ x = "waiting" => queue' = Append(queue, u)
                  /\ x = "idle" => queue' = queue
  BY DEF PushRequest, Return, Goto
<1>2. /\ p \in [Threads -> UserPCs \cup WorkerPCs]
      /\ \A t \in Threads : Woken(pc, p, t)
  BY <1>0, <1>1, SignalLemma DEF IInv, HandOff, Woken
<1>3. pc'[u] = x /\ \A t \in Threads \ {u} : Woken(pc, pc', t)
  BY <1>0, <1>1, <1>2 DEF Woken
<1>4. /\ DOMAIN queue = 1..Len(queue) /\ Len(queue) \in Nat
      /\ DOMAIN queue \subseteq DOMAIN queue'
      /\ \A i \in DOMAIN queue : queue'[i] = queue[i]
      /\ \A i \in DOMAIN queue' \ DOMAIN queue : queue'[i] = u
  BY <1>0, <1>1
<1>5. \A w \in Workers : Woken(pc, pc', w)
  BY <1>3 DEF Threads
<1>6. \A v \in Users \ {u} : IsOwed(v)' <=> IsOwed(v)
  <2> SUFFICES ASSUME NEW v \in Users \ {u} PROVE IsOwed(v)' <=> IsOwed(v)
    OBVIOUS
  <2>1. Woken(pc, pc', v)
    BY <1>3 DEF Threads
  <2>2. \A i \in DOMAIN queue' : queue'[i] = v <=> /\ i \in DOMAIN queue
                                                   /\ queue[i] = v
    BY <1>4
  <2> QED
    BY <1>0, <1>4, <1>5, <2>1, <2>2, SignalBalance
<1>7. ~IsOwed(u) /\ ~IsOwed(u)'
  <2>1. ~IsOwed(u)
    BY <1>0 DEF IsOwed
  <2>2. CASE x = "idle"
    BY <1>3, <2>1, <2>2 DEF IsOwed
  <2>3. CASE x = "waiting"
    <3>1. Len(queue) + 1 \in DOMAIN queue' /\ queue'[Len(queue) + 1] = u
      BY <1>0, <1>1, <2>3
    <3> QED
      BY <1>3, <2>1, <2>3, <3>1 DEF IsOwed, Finished
  <2> QED
    BY <1>1, <2>2, <2>3
<1>8. Owed' = Owed
  BY <1>6, <1>7, OwedStays
<1> QED
  BY <1>0, <1>8 DEF Balanced, RepliesMatchCallers

LEMMA WaitAgainBalance ==
  ASSUME IInv, Balanced, NEW u \in Users, WaitAgain(u)
  PROVE  Balanced'
<1>0. /\ pc \in [Threads -> UserPCs \cup WorkerPCs] /\ u \in Threads
      /\ pc[u] = "woken" /\ pc' = [pc EXCEPT ![u] = "waiting"]
      /\ UNCHANGED <<queue, op, call, replyQueue>>
  BY DEF IInv, TypeOK, Threads, WaitAgain, Goto, threadVars, callers
<1>1. pc'[u] = "waiting" /\ \A t \in Threads \ {u} : pc'[t] = pc[t]
  BY <1>0
<1>2. \A v \in Users : Finished(v)' <=> Finished(v)
  BY <1>0, <1>1, FinishedStays DEF Threads
<1>3. \A v \in Users : IsOwed(v)' <=> IsOwed(v)
  BY <1>0, <1>1, <1>2 DEF IsOwed, Threads
<1>4. Owed' = Owed
  BY <1>3, OwedStays
<1> QED
  BY <1>0, <1>4 DEF Balanced, RepliesMatchCallers

(* The reply of a caller that leaves push_request has been pushed.          *)
LEMMA LeavePushRequestBalance ==
  ASSUME IInv, Balanced, NEW u \in Users, LeavePushRequest(u)
  PROVE  Balanced'
<1> DEFINE p == Signalled(pc)
<1>0. /\ pc \in [Threads -> UserPCs \cup WorkerPCs] /\ u \in Threads
      /\ pc[u] = "woken" /\ queue = <<>> /\ mutex = Nobody
      /\ UNCHANGED <<queue, op, call, replyQueue>>
  BY DEF IInv, TypeOK, Threads, LeavePushRequest, Unlocked
<1>1. PICK x \in {"idle", "pop"} : /\ pc' = [p EXCEPT ![u] = x]
                                   /\ x = "idle" <=> call[u] = "unsubscribe"
  BY Zenon DEF LeavePushRequest
<1>2. /\ p \in [Threads -> UserPCs \cup WorkerPCs]
      /\ \A t \in Threads : Woken(pc, p, t)
  BY SignalLemma DEF IInv, HandOff, Woken
<1> HIDE DEF p
<1>3. pc'[u] = x /\ \A t \in Threads \ {u} : Woken(pc, pc', t)
  BY <1>0, <1>1, <1>2 DEF Woken
<1>4. \A w \in Workers : Woken(pc, pc', w)
  BY <1>3 DEF Threads
<1>5. \A v \in Users \ {u} : IsOwed(v)' <=> IsOwed(v)
  <2> SUFFICES ASSUME NEW v \in Users \ {u} PROVE IsOwed(v)' <=> IsOwed(v)
    OBVIOUS
  <2>1. Woken(pc, pc', v)
    BY <1>3 DEF Threads
  <2> QED
    BY <1>0, <1>4, <2>1, SignalBalance
<1>6. Finished(u)
  BY <1>0 DEF Finished, IInv, HandOff, MutexIsHeld
<1>7. IsOwed(u)' <=> IsOwed(u)
  BY <1>0, <1>1, <1>3, <1>6 DEF IsOwed
<1>8. Owed' = Owed
  BY <1>5, <1>7, OwedStays
<1> QED
  BY <1>0, <1>8 DEF Balanced, RepliesMatchCallers

LEMMA PopReplyBalance ==
  ASSUME IInv, Working, Balanced, NEW u \in Users, PopReply(u)
  PROVE  Balanced'
<1>0. /\ pc \in [Threads -> UserPCs \cup WorkerPCs] /\ u \in Threads
      /\ pc[u] = "pop" /\ pc' = [pc EXCEPT ![u] = "idle"]
      /\ replyQueue \in Seq(Replies) /\ replyQueue # <<>>
      /\ replyQueue' = Tail(replyQueue)
      /\ UNCHANGED <<queue, op, call>>
  BY DEF IInv, TypeOK, Threads, PopReply, Return, Goto, command
<1>1. pc'[u] = "idle" /\ \A t \in Threads \ {u} : pc'[t] = pc[t]
  BY <1>0
<1>2. \A v \in Users : Finished(v)' <=> Finished(v)
  BY <1>0, <1>1, FinishedStays DEF Threads
<1>3. \A v \in Users \ {u} : IsOwed(v)' <=> IsOwed(v)
  BY <1>0, <1>1, <1>2 DEF IsOwed, Threads
<1>4. IsOwed(u) /\ ~IsOwed(u)'
  BY <1>0, <1>1 DEF IsOwed, Working
<1>5. u \in Owed /\ Owed' = Owed \ {u}
  BY <1>3, <1>4 DEF Owed, IsOwed
<1>6. IsFiniteSet(Owed') /\ Cardinality(Owed') = Cardinality(Owed) - 1
  BY <1>5, FS_RemoveElement DEF Balanced
<1>7. Len(replyQueue') = Len(replyQueue) - 1
  BY <1>0
<1> QED
  BY <1>6, <1>7 DEF Balanced, RepliesMatchCallers

(* A command thread outside process_request_queue is owed nothing, and what *)
(* it does there is no answer.                                              *)
LEMMA LoopBalance ==
  ASSUME IInv, Working, Balanced, NEW w \in Workers,
         AwaitRequest(w) \/ LeaveLoop(w)
  PROVE  Balanced'
<1>1. /\ pc[w] \in {"lock", "woken"} /\ pc' = [pc EXCEPT ![w] = "waiting"]
      /\ UNCHANGED <<queue, op, call, replyQueue>>
  BY DEF AwaitRequest, LeaveLoop, Working, Goto, threadVars, callers
<1>2. \A t \in Threads : t # w => pc'[t] = pc[t]
  BY <1>1 DEF IInv, TypeOK
<1>3. op[w] = Nobody
  BY <1>1, PCSets DEF IInv, HandOff, MutexIsHeld
<1>4. \A v \in Users : Finished(v)' <=> Finished(v)
  BY <1>1, <1>2, <1>3, FinishedStays DEF Threads
<1>5. \A v \in Users : pc'[v] = pc[v]
  BY <1>2 DEF Threads
<1>6. \A v \in Users : IsOwed(v)' <=> IsOwed(v)
  BY <1>1, <1>4, <1>5 DEF IsOwed
<1> QED
  BY <1>1, <1>6, OwedStays DEF Balanced, RepliesMatchCallers

(* A request that is taken is not answered.                                 *)
LEMMA TakeRequestBalance ==
  ASSUME IInv, Balanced, NEW w \in Workers, TakeRequest(w)
  PROVE  Balanced'
<1>1. /\ mutex = Nobody /\ queue # <<>>
      /\ op' = [op EXCEPT ![w] = Head(queue)]
      /\ queue' = Tail(queue)
      /\ pc' = [pc EXCEPT ![w] = "retrying?"]
      /\ UNCHANGED <<call, replyQueue>>
  BY DEF TakeRequest, Unlocked, Goto, callers
<1>2. /\ pc'[w] = "retrying?"
      /\ \A v \in Users : pc'[v] = pc[v]
  BY <1>1 DEF IInv, TypeOK, Threads
<1>3. /\ op'[w] = Head(queue)
      /\ \A v \in Workers : op[v] = Nobody /\ (v # w => op'[v] = Nobody)
  BY <1>1 DEF IInv, TypeOK, HandOff, MutexIsHeld
<1>4. /\ Len(queue) \in Nat \ {0} /\ DOMAIN queue = 1..Len(queue)
      /\ Head(queue) = queue[1] /\ 1 \in DOMAIN queue
      /\ DOMAIN Tail(queue) = 1..(Len(queue) - 1)
      /\ \A i \in 1..(Len(queue) - 1) : Tail(queue)[i] = queue[i + 1]
  BY <1>1 DEF IInv, TypeOK
<1>5. ASSUME NEW v \in Users PROVE Finished(v)' <=> Finished(v)
  <2>1. CASE v = Head(queue)
    BY <1>2, <1>3, <1>4, <2>1 DEF Finished
  <2>2. CASE v # Head(queue)
    <3>1. ASSUME NEW i \in DOMAIN queue, queue[i] = v
          PROVE  \E j \in DOMAIN Tail(queue) : Tail(queue)[j] = v
      <4>1. i - 1 \in 1..(Len(queue) - 1) /\ (i - 1) + 1 = i
        BY <1>4, <2>2, <3>1
      <4> QED
        BY <1>4, <3>1, <4>1
    <3>2. ASSUME NEW j \in DOMAIN Tail(queue), Tail(queue)[j] = v
          PROVE  \E i \in DOMAIN queue : queue[i] = v
      <4>1. j + 1 \in DOMAIN queue
        BY <1>4
      <4> QED
        BY <1>4, <3>2, <4>1
    <3> QED
      BY <1>1, <1>3, <2>2, <3>1, <3>2 DEF Finished
  <2> QED
    BY <2>1, <2>2
<1>6. \A v \in Users : IsOwed(v)' <=> IsOwed(v)
  BY <1>1, <1>2, <1>5 DEF IsOwed
<1> QED
  BY <1>1, <1>6, OwedStays DEF Balanced, RepliesMatchCallers

(* A request that ends has been answered, if it is to be.                   *)
LEMMA EndRequestBalance ==
  ASSUME IInv, Balanced, NEW w \in Workers, EndRequest(w)
  PROVE  Balanced'
<1>1. /\ pc[w] = "done" /\ op' = [op EXCEPT ![w] = Nobody]
      /\ UNCHANGED <<queue, call, replyQueue>>
  BY DEF EndRequest, callers
<1>2. /\ \A v \in Workers : op'[v] = Nobody
      /\ \A v \in Workers : v # w => op[v] = Nobody
  BY <1>1, ExecutingLemma DEF IInv, TypeOK, HandOff, MutexIsHeld
<1>3. \A v \in Users : Woken(pc, pc', v)
  <2>1. CommandThread(w)
    BY DEF CommandThread
  <2> QED
    BY <2>1, CommandThreadMovesItself DEF Threads
<1>4. \A v \in Users : Finished(v)' <=> Finished(v)
  BY <1>1, <1>2 DEF Finished
<1>5. \A v \in Users : IsOwed(v)' <=> IsOwed(v)
  BY <1>1, <1>3, <1>4 DEF IsOwed, Woken
<1> QED
  BY <1>1, <1>5, OwedStays DEF Balanced, RepliesMatchCallers

(* A request is answered once, wherever that happens.                       *)
LEMMA ExecutionBalance ==
  ASSUME IInv, Working, Balanced, InConcert, NEW w \in Workers,
         CommandThread(w) \/ Operation(w),
         ~(AwaitRequest(w) \/ LeaveLoop(w) \/ TakeRequest(w) \/ EndRequest(w))
  PROVE  Balanced'
<1> USE DEF Answered, Executes, command, callers, threadVars
<1>1. CASE AwaitConnection(w)
  <2>1. PICK x : /\ pc[w] \in Executing /\ ~Answered(pc[w]) /\ ~Answered(x)
                 /\ pc' = [pc EXCEPT ![w] = x]
    BY <1>1 DEF AwaitConnection, Step, Goto, Executing, Working
  <2>2. UNCHANGED <<queue, op, call, replyQueue>>
    BY <1>1 DEF AwaitConnection, Step
  <2> QED
    BY <2>1, <2>2, NoReplyLemma
<1>2. CASE SendAgain(w) \/ Aborted(w) \/ NetworkError(w) \/ StateError(w) \/ FinishRequest(w)
  <2>1. PICK x : /\ pc[w] \in Executing /\ (Answered(x) <=> Answered(pc[w]))
                 /\ pc' = [pc EXCEPT ![w] = x]
    BY <1>2 DEF SendAgain, Aborted, NetworkError, StateError, FinishRequest, Goto, Executing,
       InConcert
  <2>2. UNCHANGED <<queue, op, call, replyQueue>>
    BY <1>2 DEF SendAgain, Aborted, NetworkError, StateError, FinishRequest
  <2> QED
    BY <2>1, <2>2, NoReplyLemma
<1>3. CASE Unsubscribe(w)
  BY <1>3, NoReplyLemma DEF Unsubscribe, Action, Goto, Executing
<1>4. CASE Send(w) \/ SendFails(w) \/ Subscribe(w) \/ Receive(w) \/ OtherError(w) \/ Expire(w)
  <2>1. PICK x : /\ pc[w] \in Executing /\ ~Answered(pc[w]) /\ Answered(x)
                 /\ pc' = [pc EXCEPT ![w] = x]
    BY <1>4 DEF Send, SendFails, Subscribe, Receive, OtherError, Expire, Goto, Executing,
       InConcert
  <2>2. UNCHANGED <<queue, op, call>>
    BY <1>4 DEF Send, SendFails, Subscribe, Receive, OtherError, Expire
  <2>3. PICK kind \in Kinds : replyQueue' = Pushed(op[w], kind)
    BY <1>4 DEF Send, SendFails, Subscribe, Receive, OtherError, Expire, Reply, Kinds
  <2>4. call[op[w]] # "unsubscribe"
    BY <1>4, CallsAssumption DEF Send, SendFails, Subscribe, Receive, OtherError, Expire,
       Action, InConcert
  <2> QED
    BY <2>1, <2>2, <2>3, <2>4, ReplyLemma
<1> QED
  BY <1>1, <1>2, <1>3, <1>4 DEF CommandThread, Operation

LEMMA BalanceStep ==
  ASSUME IInv, Working, Balanced, InConcert, [Next]_vars
  PROVE  Balanced'
<1>1. ASSUME NEW u \in Users, NewCall(u) PROVE Balanced'
  BY <1>1, NewCallBalance
<1>2. ASSUME NEW u \in Users, Caller(u) PROVE Balanced'
  <2>1. ClearReplies(u) \/ PushRequest(u) \/ WaitAgain(u) \/ LeavePushRequest(u) \/ PopReply(u)
    BY <1>2 DEF Caller, Working, SetStopped, ClearSubscriptions, SignalStop, Joined,
       KillCommandThread, StartThreads, EndStart
  <2> QED
    BY <2>1, ClearRepliesBalance, PushRequestBalance, WaitAgainBalance,
       LeavePushRequestBalance, PopReplyBalance
<1>3. ASSUME NEW w \in Workers, CommandThread(w) \/ Operation(w) PROVE Balanced'
  BY <1>3, LoopBalance, TakeRequestBalance, EndRequestBalance, ExecutionBalance
<1>4. CASE Connection
  <2>1. PICK new : ConnectionChanges(new)
    BY <1>4 DEF Connection, Connect, Reconnect, LoseConnection, Takeover
  <2>2. UNCHANGED <<queue, op, call, replyQueue>> /\ Resembles(pc')
    BY <2>1, StateSignalLemma DEF ConnectionChanges, command, callers, IInv
  <2>3. \A w \in Workers : Answered(pc'[w]) <=> Answered(pc[w])
    BY <2>2 DEF Resembles, Answered, Threads
  <2>4. \A v \in Users : Finished(v)' <=> Finished(v)
    BY <2>2, <2>3 DEF Finished, Answered
  <2>5. \A v \in Users : IsOwed(v)' <=> IsOwed(v)
    BY <2>2, <2>4, UsersStay DEF IsOwed, IInv
  <2> QED
    BY <2>2, <2>5, OwedStays DEF Balanced, RepliesMatchCallers
<1>5. CASE UNCHANGED vars
  BY <1>5 DEF vars, threadVars, command, callers, Balanced, RepliesMatchCallers, Owed, Finished
<1>6. ASSUME NEW u \in Users PROVE ~Closing(u)
  BY DEF Closing, CloseConnection, JoinProton, Working
<1> QED
  BY <1>1, <1>2, <1>3, <1>4, <1>5, <1>6 DEF Next, Quiescent

(* Callers that wait for their replies at the same time find as many as     *)
(* they are, whatever connections are lost: a request is answered once,     *)
(* also when it has to be executed again (blocking_client.rb, send,         *)
(* subscribe and receive; command.rb, process_request_queue).               *)
THEOREM RepliesBalance ==
  ASSUME InConcert
  PROVE  Spec => []RepliesMatchCallers
<1>1. Init => Working /\ Balanced
  <2> SUFFICES ASSUME Init PROVE Working /\ Balanced
    OBVIOUS
  <2>1. \A u \in Users : pc[u] = "idle"
    BY DEF Init, Threads
  <2>2. Owed = {}
    BY <2>1 DEF Owed
  <2> QED
    BY <2>1, <2>2, FS_EmptySet DEF Init, Working, Balanced, RepliesMatchCallers
<1>2. IInv /\ (Working /\ Balanced) /\ [Next]_vars => (Working /\ Balanced)'
  BY WorkingStep, BalanceStep
<1>3. Working /\ Balanced => RepliesMatchCallers
  BY DEF Balanced
<1> QED
  BY <1>1, <1>2, <1>3, Invariance, PTL DEF Spec

=============================================================================
