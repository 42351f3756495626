------------------------- MODULE OrderedCalls_proofs -------------------------
(***************************************************************************)
(* The hand-off to the command thread keeps the promise of OrderedCalls,   *)
(* for every number of callers and of command threads: each step of        *)
(* RequestQueue is a step of OrderedCalls or changes nothing there.        *)
(*                                                                         *)
(* A request is accepted when it is put on the queue, is still pending     *)
(* while the command thread that took it holds the mutex, and is over when *)
(* that thread releases the mutex or is killed.  The invariant of          *)
(* RequestQueue_proofs carries the argument: who is pending waits inside   *)
(* push_request, is pending once, and only the thread with the mutex can   *)
(* serve.                                                                  *)
(***************************************************************************)
EXTENDS RequestQueue_proofs

(* The caller has handed its request over and not returned.                 *)
Waits(p, u) == p[u] \in {"waiting", "woken", "pop"}

PhaseOf(p, u) ==
  IF InHand(u) THEN "submitted" ELSE IF Waits(p, u) THEN "served" ELSE "idle"

USE ThreadsAssumption

-----------------------------------------------------------------------------
(* The abstract state                                                       *)

(* A request is pending while it is on the queue or is executed.            *)
LEMMA PendingIsInHand ==
  ASSUME IInv, NEW u \in Users
  PROVE  (\E i \in DOMAIN Pending : Pending[i] = u) <=> InHand(u)
<1>0. /\ \A w \in Workers : op[w] # Nobody <=> mutex = w
      /\ op \in [Workers -> Users \cup {Nobody}]
      /\ mutex \in Workers \cup {Nobody}
      /\ queue \in Seq(Users)
  BY DEF IInv, HandOff, MutexIsHeld, TypeOK
<1>1. CASE mutex = Nobody
  <2>1. \A w \in Workers : op[w] # u
    BY <1>0, <1>1
  <2> QED
    BY <1>1, <2>1 DEF Pending, InHand
<1>2. CASE mutex # Nobody
  <2> DEFINE s == <<op[mutex]>> \o queue
  <2>1. mutex \in Workers /\ op[mutex] \in Users /\ Pending = s
    BY <1>0, <1>2 DEF Pending
  <2>2. /\ Len(queue) \in Nat /\ DOMAIN queue = 1..Len(queue)
        /\ DOMAIN s = 1..(Len(queue) + 1)
        /\ s[1] = op[mutex]
        /\ \A i \in 1..Len(queue) : s[i + 1] = queue[i]
    BY <1>0, <2>1
  <2> HIDE DEF s
  <2>3. \A w \in Workers : op[w] = u => w = mutex
    BY <1>0
  <2>4. (\E w \in Workers : op[w] = u) <=> op[mutex] = u
    BY <2>1, <2>3
  <2>5. ASSUME NEW i \in DOMAIN s, s[i] = u
        PROVE  op[mutex] = u \/ \E j \in DOMAIN queue : queue[j] = u
    <3>1. CASE i = 1
      BY <2>2, <2>5, <3>1
    <3>2. CASE i # 1
      <4>1. i - 1 \in DOMAIN queue /\ s[(i - 1) + 1] = queue[i - 1] /\ (i - 1) + 1 = i
        BY <2>2, <3>2
      <4> QED
        BY <2>5, <4>1
    <3> QED
      BY <3>1, <3>2
  <2>6. ASSUME op[mutex] = u \/ \E j \in DOMAIN queue : queue[j] = u
        PROVE  \E i \in DOMAIN s : s[i] = u
    <3>1. CASE op[mutex] = u
      BY <2>2, <3>1
    <3>2. ASSUME NEW j \in DOMAIN queue, queue[j] = u PROVE \E i \in DOMAIN s : s[i] = u
      <4>1. j + 1 \in DOMAIN s /\ s[j + 1] = queue[j]
        BY <2>2
      <4> QED
        BY <3>2, <4>1
    <3> QED
      BY <2>6, <3>1, <3>2
  <2> QED
    BY <2>1, <2>4, <2>5, <2>6 DEF InHand
<1> QED
  BY <1>1, <1>2

LEMMA PhaseIs ==
  IInv => Phase = [u \in Users |-> PhaseOf(pc, u)]
<1> SUFFICES ASSUME IInv PROVE Phase = [u \in Users |-> PhaseOf(pc, u)]
  OBVIOUS
<1>1. \A u \in Users : (\E i \in DOMAIN Pending : Pending[i] = u) <=> InHand(u)
  BY PendingIsInHand
<1> QED
  BY <1>1 DEF Phase, PhaseOf, Waits

(* Before and after a step.                                                 *)
LEMMA PhasesAre ==
  ASSUME IInv, IInv'
  PROVE  /\ Phase = [u \in Users |-> PhaseOf(pc, u)]
         /\ Phase' = [u \in Users |-> PhaseOf(pc, u)']
<1>1. Phase = [u \in Users |-> PhaseOf(pc, u)]
  BY PhaseIs
<1>2. (IInv => Phase = [u \in Users |-> PhaseOf(pc, u)])'
  BY PhaseIs, PTL
<1> QED
  BY <1>1, <1>2

(* Nothing happens to OrderedCalls.                                         *)
Stutters == UNCHANGED <<Pending, Phase>>

LEMMA QuietLemma ==
  ASSUME IInv, IInv', UNCHANGED <<mutex, queue, op>>,
         \A u \in Users : Waits(pc', u) <=> Waits(pc, u)
  PROVE  Stutters
<1>1. Pending' = Pending
  BY DEF Pending
<1>2. \A u \in Users : InHand(u)' <=> InHand(u)
  BY DEF InHand
<1>3. \A u \in Users : PhaseOf(pc, u)' = PhaseOf(pc, u)
  BY <1>2 DEF PhaseOf, Waits
<1> QED
  BY <1>1, <1>3, PhasesAre DEF Stutters

(* A caller takes its reply, or needs none.                                 *)
LEMMA ReturnLemma ==
  ASSUME IInv, IInv', NEW u \in Users, UNCHANGED <<mutex, queue, op>>,
         ~InHand(u), Waits(pc, u), ~Waits(pc', u),
         \A v \in Users \ {u} : Waits(pc', v) <=> Waits(pc, v)
  PROVE  Abstract!Return(u)
<1>1. Pending' = Pending
  BY DEF Pending
<1>2. \A v \in Users : InHand(v)' <=> InHand(v)
  BY DEF InHand
<1>3. PhaseOf(pc, u) = "served" /\ PhaseOf(pc, u)' = "idle"
  BY <1>2 DEF PhaseOf, Waits
<1>4. \A v \in Users \ {u} : PhaseOf(pc, v)' = PhaseOf(pc, v)
  BY <1>2 DEF PhaseOf, Waits
<1>5. Phase[u] = "served" /\ Phase' = [Phase EXCEPT ![u] = "idle"]
  BY <1>3, <1>4, PhasesAre
<1> QED
  BY <1>1, <1>5 DEF Abstract!Return

(* A signal only moves threads inside the wait.                             *)
LEMMA SignalKeeps ==
  ASSUME IInv, NEW v \in Users
  PROVE  Waits(Signalled(pc), v) <=> Waits(pc, v)
<1>1. v \in Threads
  BY DEF Threads
<1>2. \/ Signalled(pc)[v] = pc[v]
      \/ pc[v] = "waiting" /\ Signalled(pc)[v] = "woken"
  BY <1>1, SignalLemma DEF IInv, HandOff
<1> QED
  BY <1>2 DEF Waits

(* The request at the head is over.                                         *)
LEMMA ServeLemma ==
  ASSUME IInv, IInv', NEW w \in Workers, mutex = w, mutex' = Nobody,
         op' = [op EXCEPT ![w] = Nobody], UNCHANGED queue,
         \A v \in Users : Waits(pc', v) <=> Waits(pc, v)
  PROVE  Abstract!Serve
<1>1. /\ w # Nobody /\ queue \in Seq(Users) /\ op[w] \in Users
      /\ op \in [Workers -> Users \cup {Nobody}]
      /\ \A v \in Workers : v # w => op[v] = Nobody
  BY DEF IInv, HandOff, MutexIsHeld, TypeOK
<1>2. PICK h \in Users : h = op[w]
  BY <1>1
<1>3. Pending = <<h>> \o queue /\ Pending' = queue
  BY <1>1, <1>2 DEF Pending
<1>4. Pending # <<>> /\ Head(Pending) = h /\ Tail(Pending) = queue
  BY <1>1, <1>3
<1>5. \A v \in Workers : op'[v] = Nobody
  BY <1>1
<1>6. InHand(h) /\ pc[h] \in {"waiting", "woken"} /\ \A i \in DOMAIN queue : queue[i] # h
  BY <1>2 DEF InHand, IInv, HandOff, OwnerBlocked
<1>7. \A v \in Users \ {h} : InHand(v)' <=> InHand(v)
  BY <1>1, <1>2, <1>5 DEF InHand
<1>8. ~InHand(h)'
  BY <1>5, <1>6 DEF InHand
<1>9. PhaseOf(pc, h)' = "served"
  BY <1>6, <1>8 DEF PhaseOf, Waits
<1>10. \A v \in Users \ {h} : PhaseOf(pc, v)' = PhaseOf(pc, v)
  BY <1>7 DEF PhaseOf, Waits
<1>11. Phase' = [Phase EXCEPT ![h] = "served"]
  BY <1>9, <1>10, PhasesAre
<1> QED
  BY <1>3, <1>4, <1>11 DEF Abstract!Serve

-----------------------------------------------------------------------------
(* The callers                                                              *)

LEMMA NewCallKeeps ==
  ASSUME IInv, IInv', NEW u \in Users, NewCall(u)
  PROVE  Stutters
<1>1. UNCHANGED command /\ pc[u] = "idle"
  BY DEF NewCall, BeginRequest, BeginStop, BeginStart, MakeCall
<1>2. PICK p, x : /\ Resembles(p) /\ x \in {"idle", "clear", "push", "close", "stop", "start"}
                  /\ pc' = [p EXCEPT ![u] = x]
  BY NewCallMoves
<1>3. \A v \in Users : pc'[v] = IF v = u THEN x ELSE pc[v]
  BY <1>2, UsersStay DEF Resembles, PCsOK, Threads, IInv
<1>4. \A v \in Users : Waits(pc', v) <=> Waits(pc, v)
  BY <1>1, <1>2, <1>3 DEF Waits
<1> QED
  BY <1>1, <1>4, QuietLemma DEF command

(* The request is accepted when it is put on the queue.                     *)
LEMMA PushRequestServes ==
  ASSUME IInv, IInv', NEW u \in Users, PushRequest(u)
  PROVE  Abstract!Submit(u) \/ Stutters
<1> USE DEF PushRequest, Unlocked
<1>0. u \in Threads /\ pc \in [Threads -> UserPCs \cup WorkerPCs] /\ queue \in Seq(Users)
  BY DEF IInv, TypeOK, Threads
<1>1. CASE shutdown
  <2>1. pc' = [pc EXCEPT ![u] = "idle"]
    BY <1>1 DEF Return, Goto
  <2>2. \A v \in Users : Waits(pc', v) <=> Waits(pc, v)
    BY <1>0, <2>1 DEF Waits, Threads
  <2> QED
    BY <1>1, <2>2, QuietLemma
<1>2. CASE ~shutdown
  <2> DEFINE p == Signalled(pc)
  <2>1. /\ queue' = Append(queue, u) /\ pc' = [p EXCEPT ![u] = "waiting"]
        /\ UNCHANGED <<mutex, op>>
    BY <1>2
  <2>2. p \in [Threads -> UserPCs \cup WorkerPCs] /\ \A v \in Users : Waits(p, v) <=> Waits(pc, v)
    BY SignalLemma, SignalKeeps DEF IInv, HandOff
  <2> HIDE DEF p
  <2>3. \A v \in Users : pc'[v] = IF v = u THEN "waiting" ELSE p[v]
    BY <2>1, <2>2 DEF Threads
  <2>4. \A v \in Users \ {u} : Waits(pc', v) <=> Waits(pc, v)
    BY <2>2, <2>3 DEF Waits
  <2>5. Pending' = Append(Pending, u)
    BY <2>1 DEF Pending
  <2>6. ~InHand(u) /\ InHand(u)'
    <3>1. Len(queue) + 1 \in DOMAIN queue' /\ queue'[Len(queue) + 1] = u
      BY <1>0, <2>1
    <3> QED
      BY <3>1 DEF InHand, IInv, HandOff, OwnerBlocked
  <2>7. \A v \in Users \ {u} : InHand(v)' <=> InHand(v)
    <3>1. /\ DOMAIN queue = 1..Len(queue) /\ Len(queue) \in Nat
          /\ DOMAIN queue' = 1..(Len(queue) + 1)
          /\ queue'[Len(queue) + 1] = u
          /\ \A i \in DOMAIN queue : queue'[i] = queue[i] /\ i \in DOMAIN queue'
          /\ \A i \in DOMAIN queue' : i \in DOMAIN queue \/ i = Len(queue) + 1
      BY <1>0, <2>1
    <3>2. \A v \in Users \ {u} : (\E i \in DOMAIN queue' : queue'[i] = v)
                                   <=> \E i \in DOMAIN queue : queue[i] = v
      BY <3>1
    <3> QED
      BY <2>1, <3>2 DEF InHand
  <2>8. PhaseOf(pc, u) = "idle" /\ PhaseOf(pc, u)' = "submitted"
    BY <2>6 DEF PhaseOf, Waits
  <2>9. \A v \in Users \ {u} : PhaseOf(pc, v)' = PhaseOf(pc, v)
    BY <2>4, <2>7 DEF PhaseOf, Waits
  <2>10. Phase[u] = "idle" /\ Phase' = [Phase EXCEPT ![u] = "submitted"]
    BY <2>8, <2>9, PhasesAre
  <2> QED
    BY <2>5, <2>10 DEF Abstract!Submit
<1> QED
  BY <1>1, <1>2

(* The caller leaves push_request with its request served: with its reply   *)
(* to come, or for good.                                                    *)
LEMMA LeavePushRequestServes ==
  ASSUME IInv, IInv', NEW u \in Users, LeavePushRequest(u)
  PROVE  Abstract!Return(u) \/ Stutters
<1> DEFINE p == Signalled(pc)
<1>1. ~InHand(u)
  BY DEF LeavePushRequest, IInv, HandOff, InHand, MutexIsHeld, Unlocked
<1>2. /\ pc[u] = "woken" /\ UNCHANGED <<mutex, queue, op>>
      /\ \E x \in {"idle", "pop"} : pc' = [p EXCEPT ![u] = x]
  BY Zenon DEF LeavePushRequest
<1>3. p \in [Threads -> UserPCs \cup WorkerPCs] /\ \A v \in Users : Waits(p, v) <=> Waits(pc, v)
  BY SignalLemma, SignalKeeps DEF IInv, HandOff
<1> HIDE DEF p
<1>4. PICK x \in {"idle", "pop"} : pc' = [p EXCEPT ![u] = x]
  BY <1>2
<1>5. \A v \in Users : pc'[v] = IF v = u THEN x ELSE p[v]
  BY <1>3, <1>4 DEF Threads
<1>6. \A v \in Users \ {u} : Waits(pc', v) <=> Waits(pc, v)
  BY <1>3, <1>5 DEF Waits
<1>7. Waits(pc, u)
  BY <1>2 DEF Waits
<1>8. CASE x = "idle"
  <2>1. ~Waits(pc', u)
    BY <1>5, <1>8 DEF Waits
  <2> QED
    BY <1>1, <1>2, <1>6, <1>7, <2>1, ReturnLemma
<1>9. CASE x = "pop"
  <2>1. Waits(pc', u)
    BY <1>5, <1>9 DEF Waits
  <2> QED
    BY <1>2, <1>6, <1>7, <2>1, QuietLemma
<1> QED
  BY <1>8, <1>9

LEMMA PopReplyReturns ==
  ASSUME IInv, IInv', NEW u \in Users, PopReply(u)
  PROVE  Abstract!Return(u)
<1>1. /\ pc[u] = "pop" /\ UNCHANGED <<mutex, queue, op>>
      /\ pc' = [pc EXCEPT ![u] = "idle"]
  BY DEF PopReply, Return, Goto, command
<1>2. \A v \in Users : pc'[v] = IF v = u THEN "idle" ELSE pc[v]
  BY <1>1 DEF IInv, TypeOK, Threads
<1>3. ~InHand(u)
  BY <1>1 DEF IInv, HandOff, OwnerBlocked
<1>4. Waits(pc, u) /\ ~Waits(pc', u) /\ \A v \in Users \ {u} : Waits(pc', v) <=> Waits(pc, v)
  BY <1>1, <1>2 DEF Waits
<1> QED
  BY <1>1, <1>3, <1>4, ReturnLemma

(* The killed thread's request, if it executed one, is over.                *)
LEMMA KillCommandThreadServes ==
  ASSUME IInv, IInv', NEW u \in Users, KillCommandThread(u)
  PROVE  Abstract!Serve \/ Stutters
<1> DEFINE w == commandThread
<1>0. pc[u] = "joining"
  BY DEF KillCommandThread
<1>1. /\ pc' = [pc EXCEPT ![u] = "idle", ![w] = "dead"]
      /\ mutex' = IF mutex = w THEN Nobody ELSE mutex
      /\ op' = [op EXCEPT ![w] = Nobody]
      /\ UNCHANGED queue
  BY DEF KillCommandThread
<1>2. w \in Workers /\ pc \in [Threads -> UserPCs \cup WorkerPCs]
  BY DEF IInv, TypeOK
<1>3. \A v \in Users : pc'[v] = IF v = u THEN "idle" ELSE pc[v]
  BY <1>1, <1>2 DEF Threads
<1>4. \A v \in Users : Waits(pc', v) <=> Waits(pc, v)
  BY <1>0, <1>3 DEF Waits
<1>5. CASE mutex = w
  BY <1>1, <1>2, <1>4, <1>5, ServeLemma
<1>6. CASE mutex # w
  <2>1. op[w] = Nobody /\ op \in [Workers -> Users \cup {Nobody}]
    BY <1>2, <1>6 DEF IInv, HandOff, MutexIsHeld, TypeOK
  <2>2. op' = op /\ mutex' = mutex
    BY <1>1, <1>6, <2>1
  <2> QED
    BY <1>1, <1>4, <2>2, QuietLemma
<1> QED
  BY <1>5, <1>6

(* The rest of a caller's steps are not about its request.                  *)
LEMMA CallerKeeps ==
  ASSUME IInv, IInv', NEW u \in Users,
         \/ ClearReplies(u)
         \/ WaitAgain(u)
         \/ SetStopped(u)
         \/ ClearSubscriptions(u)
         \/ Closing(u)
         \/ SignalStop(u)
         \/ Joined(u)
         \/ StartThreads(u)
         \/ EndStart(u)
  PROVE  Stutters
<1>0. u \in Threads /\ pc \in [Threads -> UserPCs \cup WorkerPCs]
  BY DEF IInv, TypeOK, Threads
<1>1. UNCHANGED <<mutex, queue, op>>
  BY DEF ClearReplies, WaitAgain, SetStopped, ClearSubscriptions, Closing, CloseConnection,
     JoinProton, SignalStop, Joined, StartThreads, EndStart, command
<1>2. \A v \in Users : Waits(pc', v) <=> Waits(pc, v)
  <2>1. CASE ClearReplies(u) \/ WaitAgain(u) \/ Joined(u) \/ EndStart(u)
             \/ ClearSubscriptions(u) \/ Closing(u)
    BY <1>0, <2>1 DEF ClearReplies, WaitAgain, Joined, EndStart, ClearSubscriptions, Closing,
       CloseConnection, JoinProton, Return, Goto, Waits, Threads
  <2>2. CASE SetStopped(u)
    <3>1. PICK p : Resembles(p) /\ pc' = [p EXCEPT ![u] = "forget"] /\ pc[u] = "stop"
      BY <2>2, StateSignalLemma DEF SetStopped, IInv
    <3>2. \A v \in Users : pc'[v] = IF v = u THEN "forget" ELSE pc[v]
      BY <3>1, UsersStay DEF Resembles, PCsOK, Threads, IInv
    <3> QED
      BY <3>1, <3>2 DEF Waits
  <2>3. CASE SignalStop(u)
    <3> DEFINE p == Signalled(pc)
    <3>1. pc' = [p EXCEPT ![u] = "joining"] /\ pc[u] = "join"
      BY <2>3 DEF SignalStop
    <3>2. p \in [Threads -> UserPCs \cup WorkerPCs]
          /\ \A v \in Users : Waits(p, v) <=> Waits(pc, v)
      BY SignalLemma, SignalKeeps DEF IInv, HandOff
    <3> HIDE DEF p
    <3>3. \A v \in Users : pc'[v] = IF v = u THEN "joining" ELSE p[v]
      BY <3>1, <3>2 DEF Threads
    <3> QED
      BY <3>1, <3>2, <3>3 DEF Waits
  <2>4. CASE StartThreads(u)
    <3>1. PICK w \in Workers : /\ pc[u] = "start"
                               /\ pc' = [StateSignalled(pc, "starting") EXCEPT
                                          ![u] = "await", ![w] = "lock"]
      BY <2>4 DEF StartThreads
    <3> DEFINE p == StateSignalled(pc, "starting")
    <3>3. Resembles(p) /\ pc' = [p EXCEPT ![u] = "await", ![w] = "lock"]
      BY <3>1, StateSignalLemma DEF IInv
    <3> HIDE DEF p
    <3>2. \A v \in Users : pc'[v] = IF v = u THEN "await" ELSE pc[v]
      BY <3>3, UsersStay DEF Resembles, PCsOK, Threads, IInv
    <3> QED
      BY <3>1, <3>2 DEF Waits
  <2> QED
    BY <2>1, <2>2, <2>3, <2>4
<1> QED
  BY <1>1, <1>2, QuietLemma

-----------------------------------------------------------------------------
(* The command thread and the connection                                    *)

(* What becomes of a command thread is not about any caller.                *)
LEMMA WorkerMoves ==
  ASSUME IInv, NEW w \in Workers, NEW x, pc' = [pc EXCEPT ![w] = x]
  PROVE  \A v \in Users : Waits(pc', v) <=> Waits(pc, v)
  BY DEF IInv, TypeOK, Threads, Waits

(* A request that is taken from the queue keeps its place.                  *)
LEMMA TakeRequestKeeps ==
  ASSUME IInv, IInv', NEW w \in Workers, TakeRequest(w)
  PROVE  Stutters
<1>1. /\ mutex = Nobody /\ queue # <<>> /\ mutex' = w
      /\ op' = [op EXCEPT ![w] = Head(queue)]
      /\ queue' = Tail(queue)
      /\ pc' = [pc EXCEPT ![w] = "retrying?"]
  BY DEF TakeRequest, Unlocked, Goto
<1>2. /\ op'[w] = Head(queue) /\ w # Nobody
      /\ \A v \in Workers : op[v] = Nobody /\ (v # w => op'[v] = Nobody)
  BY <1>1 DEF IInv, TypeOK, HandOff, MutexIsHeld
<1>3. <<Head(queue)>> \o Tail(queue) = queue
  BY <1>1 DEF IInv, TypeOK
<1>4. Pending' = Pending
  BY <1>1, <1>2, <1>3 DEF Pending
<1>5. /\ Len(queue) \in Nat \ {0} /\ DOMAIN queue = 1..Len(queue)
      /\ Head(queue) = queue[1]
      /\ DOMAIN Tail(queue) = 1..(Len(queue) - 1)
      /\ \A i \in 1..(Len(queue) - 1) : Tail(queue)[i] = queue[i + 1]
  BY <1>1 DEF IInv, TypeOK
<1>6. \A u \in Users : InHand(u)' <=> InHand(u)
  <2> SUFFICES ASSUME NEW u \in Users PROVE InHand(u)' <=> InHand(u)
    OBVIOUS
  <2>1. InHand(u) <=> \E i \in DOMAIN queue : queue[i] = u
    BY <1>2 DEF InHand
  <2>2. InHand(u)' <=> u = Head(queue) \/ \E i \in DOMAIN Tail(queue) : Tail(queue)[i] = u
    BY <1>1, <1>2 DEF InHand
  <2>3. (\E i \in DOMAIN queue : queue[i] = u)
        <=> u = Head(queue) \/ \E i \in DOMAIN Tail(queue) : Tail(queue)[i] = u
    <3>1. ASSUME NEW i \in DOMAIN queue, queue[i] = u, i # 1
          PROVE  \E j \in DOMAIN Tail(queue) : Tail(queue)[j] = u
      <4>1. i - 1 \in 1..(Len(queue) - 1) /\ (i - 1) + 1 = i
        BY <1>5, <3>1
      <4> QED
        BY <1>5, <3>1, <4>1
    <3>2. ASSUME NEW j \in DOMAIN Tail(queue), Tail(queue)[j] = u
          PROVE  \E i \in DOMAIN queue : queue[i] = u
      <4>1. j + 1 \in DOMAIN queue
        BY <1>5
      <4> QED
        BY <1>5, <3>2, <4>1
    <3> QED
      BY <1>5, <3>1, <3>2
  <2> QED
    BY <2>1, <2>2, <2>3
<1>7. \A v \in Users : Waits(pc', v) <=> Waits(pc, v)
  BY <1>1, WorkerMoves
<1>8. \A u \in Users : PhaseOf(pc, u)' = PhaseOf(pc, u)
  BY <1>6, <1>7 DEF PhaseOf, Waits
<1> QED
  BY <1>4, <1>8, PhasesAre DEF Stutters

(* The request is over when its command thread releases the mutex.          *)
LEMMA EndRequestServes ==
  ASSUME IInv, IInv', NEW w \in Workers, EndRequest(w)
  PROVE  Abstract!Serve
<1> DEFINE p == Signalled(pc)
<1>1. /\ pc[w] = "done" /\ mutex' = Nobody /\ UNCHANGED queue
      /\ op' = [op EXCEPT ![w] = Nobody]
      /\ \E x : pc' = [p EXCEPT ![w] = x]
  BY DEF EndRequest
<1>2. p \in [Threads -> UserPCs \cup WorkerPCs] /\ \A v \in Users : Waits(p, v) <=> Waits(pc, v)
  BY SignalLemma, SignalKeeps DEF IInv, HandOff
<1> HIDE DEF p
<1>3. \A v \in Users : pc'[v] = p[v]
  BY <1>1, <1>2 DEF Threads
<1>4. \A v \in Users : Waits(pc', v) <=> Waits(pc, v)
  BY <1>2, <1>3 DEF Waits
<1>5. mutex = w
  BY <1>1, ExecutingLemma
<1> QED
  BY <1>1, <1>4, <1>5, ServeLemma

LEMMA CommandThreadKeeps ==
  ASSUME IInv, IInv', NEW w \in Workers, CommandThread(w) \/ Operation(w),
         ~TakeRequest(w), ~EndRequest(w)
  PROVE  Stutters
<1> USE DEF CommandThread, Operation, Goto, command
<1>1. UNCHANGED <<mutex, queue, op>>
  <2>1. CASE AwaitRequest(w) \/ LeaveLoop(w) \/ AwaitConnection(w)
    BY <2>1 DEF AwaitRequest, LeaveLoop, AwaitConnection, Step
  <2>2. CASE ~(AwaitRequest(w) \/ LeaveLoop(w) \/ AwaitConnection(w))
    BY <2>2 DEF Send, SendFails, SendAgain, Subscribe, Unsubscribe, Receive, Aborted,
       NetworkError, StateError, OtherError, Expire, FinishRequest
  <2> QED
    BY <2>1, <2>2
<1>2. \E x : pc' = [pc EXCEPT ![w] = x]
  BY CommandThreadMovesItself
<1> QED
  BY <1>1, <1>2, WorkerMoves, QuietLemma

LEMMA ConnectionKeeps ==
  ASSUME IInv, IInv', Connection
  PROVE  Stutters
<1>1. PICK new : ConnectionChanges(new)
  BY DEF Connection, Connect, Reconnect, LoseConnection, Takeover
<1>2. Resembles(pc') /\ UNCHANGED <<mutex, queue, op>>
  BY <1>1, StateSignalLemma DEF ConnectionChanges, IInv, command
<1>3. \A v \in Users : pc'[v] = pc[v]
  BY <1>2, UsersStay DEF IInv
<1> QED
  BY <1>2, <1>3, QuietLemma DEF Waits

-----------------------------------------------------------------------------
LEMMA InitialPromise == Init => Abstract!Init
<1> SUFFICES ASSUME Init PROVE Abstract!Init
  OBVIOUS
<1>1. IInv
  BY InitialInvariant
<1>2. Pending = <<>>
  BY DEF Init, Pending
<1>3. \A u \in Users : PhaseOf(pc, u) = "idle"
  BY DEF Init, PhaseOf, InHand, Waits, Threads
<1> QED
  BY <1>1, <1>2, <1>3, PhaseIs DEF Abstract!Init

LEMMA StepPromise ==
  ASSUME IInv, IInv', [Next]_vars
  PROVE  Abstract!Next \/ Stutters
<1>1. ASSUME NEW u \in Users, NewCall(u) PROVE Stutters
  BY <1>1, NewCallKeeps
<1>2. ASSUME NEW u \in Users, Caller(u) \/ Closing(u) PROVE Abstract!Next \/ Stutters
  BY <1>2, PushRequestServes, LeavePushRequestServes, PopReplyReturns,
     KillCommandThreadServes, CallerKeeps DEF Caller, Abstract!Next
<1>3. ASSUME NEW w \in Workers, CommandThread(w) \/ Operation(w) PROVE Abstract!Next \/ Stutters
  BY <1>3, TakeRequestKeeps, EndRequestServes, CommandThreadKeeps DEF Abstract!Next
<1>4. CASE Connection
  BY <1>4, ConnectionKeeps
<1>5. CASE UNCHANGED vars
  BY <1>5, QuietLemma DEF vars, command, Waits
<1> QED
  BY <1>1, <1>2, <1>3, <1>4, <1>5 DEF Next, Quiescent

(* Requests are served in the order in which they were accepted, one at a   *)
(* time and once each, and no caller goes on before its own is over, also   *)
(* when command threads are killed and replaced (command.rb, push_request,  *)
(* command_loop and join).                                                  *)
THEOREM RequestsInOrder == Spec => ServedInOrder
<1>1. Init => Abstract!Init
  BY InitialPromise
<1>2. IInv /\ IInv' /\ [Next]_vars => [Abstract!Next]_(Abstract!vars)
  BY StepPromise DEF Stutters, Abstract!vars
<1> QED
  BY <1>1, <1>2, Invariance, PTL DEF Spec, ServedInOrder, Abstract!Spec

=============================================================================
