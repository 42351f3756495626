-------------------------- MODULE StateCallbacks --------------------------
(***************************************************************************)
(* How changes of state are reported: ThreadVars#change_state, which any   *)
(* thread calls and which takes no lock, the callback queue, the callback  *)
(* threads that run the application's state callback, and start, which     *)
(* raises the reason of a change.  What makes the threads call it is       *)
(* Connection's and RequestQueue's subject; here they may at any time that *)
(* their own checks of the state allow.                                    *)
(*                                                                         *)
(* The interpreter can switch threads at a branch or a call: between the   *)
(* comparison of the states and the assignment, and between the assignment *)
(* and the push.  Between reading @state for a report and its push it can  *)
(* where Queue#push is Ruby code that takes a mutex (Ruby 1.9 and 2.0,     *)
(* which the gem supports), but not where it is C code.                    *)
(***************************************************************************)
EXTENDS Naturals, Sequences

CONSTANTS
  Users,      \* application threads
  Protons,    \* proton threads: start makes one
  IOThreads,  \* I/O threads of the end points
  Callbacks,  \* callback threads: start makes one
  MaxCalls,   \* bound: calls of start, stop and requests
  MaxChanges, \* bound: changes of state that the network or the server causes
  MaxAttempts,\* bound: attempts to connect; two proton threads that a quick restart
              \* leaves can undo each other's for ever
  Nil         \* the reason of a change that has none

\* The command thread.
Command == "command"

Threads == Users \cup Protons \cup IOThreads \cup {Command}

ASSUME CallbackBounds == MaxCalls \in Nat /\ MaxChanges \in Nat /\ MaxAttempts \in Nat

ASSUME ThreadsAssumption ==
  /\ Users \cap Protons = {} /\ Users \cap IOThreads = {} /\ Protons \cap IOThreads = {}
  /\ Command \notin Users \cup Protons \cup IOThreads
  /\ Nil \notin {"network", "fatal", "nothing"}

VARIABLES
  state,           \* @state
  lastStateError,  \* @last_state_error
  callbackQueue,   \* @callback_queue
  pushInC,         \* is Queue#push one step of the interpreter that runs the gem?
  pc,              \* where each thread is
  target,          \* new_state, of a thread inside change_state; once @state has
                   \* been read for the report, what was read
  back,            \* where it goes on when change_state returns
  callback,        \* where each callback thread is: "none" | "check" | "empty" |
                   \* "pop" | "call" | "dead"
  argv,            \* what a callback thread has popped
  raised,          \* what start raised last, to each user; "nothing" at first
  calls,           \* how many calls users have made
  changes,         \* how many changes the network and the server have caused
  attempts,        \* how many attempts to connect were made
  pushed,          \* history: how many reports were pushed
  lastReport,      \* history: the state that the last of them named
  delivered,       \* history: the number of the report that the application's
                   \* callback was given last
  overlap          \* history: a start has made its threads beside an old proton thread

change == <<state, lastStateError, pc, target, back>>
queues == <<callbackQueue, pushed, lastReport>>
runner == <<callback, argv, delivered, overlap>>
\* The bounds' counters, and what is fixed from the start.
bounds == <<calls, changes, attempts, pushInC>>
vars   == <<change, queues, runner, raised, bounds>>

States  == {"starting", "started", "retrying", "stopping", "stopped"}

\* "fatal" stands for a SecurityError, a ReplacedError, a SubscribedError and a
\* list of services that is refused.
Reasons == {"network", "fatal"} \cup {Nil}

\* Reports are numbered in the order of their pushes; 0 is no report.
Report   == [number : Nat, state : States]
NoReport == [number |-> 0, state |-> "stopped"]

UserPCs   == {"idle", "threads", "wait", "decide", "stop", "join", "request"}
ProtonPCs == {"none", "loop", "attempt", "outcome", "monitor", "dead"}
IOPCs     == {"idle", "lost"}

PCs == UserPCs \cup ProtonPCs \cup IOPCs \cup {"assign", "push", "queue"}

TypeOK ==
  /\ state \in States
  /\ lastStateError \in Reasons
  /\ callbackQueue \in Seq(Report)
  /\ pc \in [Threads -> PCs]
  /\ target \in [Threads -> States]
  /\ back \in [Threads -> PCs \ {"assign", "push", "queue"}]
  /\ callback \in [Callbacks -> {"none", "check", "empty", "pop", "call", "dead"}]
  /\ argv \in [Callbacks -> Report]
  /\ raised \in [Users -> Reasons \cup {"nothing"}]
  /\ calls \in Nat /\ changes \in Nat /\ attempts \in Nat
  /\ pushed \in Nat /\ lastReport \in States /\ delivered \in Nat
  /\ overlap \in BOOLEAN
  /\ pushInC \in BOOLEAN

Init ==
  /\ pushInC \in BOOLEAN
  /\ state = "stopped" /\ lastStateError = Nil
  /\ callbackQueue = <<>>
  /\ pc = [t \in Threads |-> IF t \in Protons THEN "none" ELSE "idle"]
  /\ target = [t \in Threads |-> "stopped"]
  /\ back = [t \in Threads |-> "idle"]
  /\ callback = [c \in Callbacks |-> "none"]
  /\ argv = [c \in Callbacks |-> NoReport]
  /\ raised = [u \in Users |-> "nothing"]
  /\ calls = 0 /\ changes = 0 /\ attempts = 0
  /\ pushed = 0 /\ lastReport = "stopped" /\ delivered = 0
  /\ overlap = FALSE

-----------------------------------------------------------------------------
(* change_state *)

\* The reason is kept even when the state does not change.
Enter(t, new, why, next) ==
  /\ lastStateError' = why
  /\ IF state = new
       THEN /\ pc' = [pc EXCEPT ![t] = next]
            /\ UNCHANGED <<target, back>>
       ELSE /\ pc' = [pc EXCEPT ![t] = "assign"]
            /\ target' = [target EXCEPT ![t] = new]
            /\ back' = [back EXCEPT ![t] = next]
  /\ UNCHANGED <<state, queues, runner, raised>>

Assign(t) ==
  /\ pc[t] = "assign"
  /\ state' = target[t]
  /\ pc' = [pc EXCEPT ![t] = "push"]
  /\ UNCHANGED <<lastStateError, target, back, queues, runner, raised, bounds>>

\* The report's three elements are read, where they are not pushed at once.
ReadState(t) ==
  /\ ~pushInC /\ pc[t] = "push"
  /\ target' = [target EXCEPT ![t] = state]
  /\ pc' = [pc EXCEPT ![t] = "queue"]
  /\ UNCHANGED <<state, lastStateError, back, queues, runner, raised, bounds>>

PushReport(t, named) ==
  /\ pc[t] = IF pushInC THEN "push" ELSE "queue"
  /\ pushed' = pushed + 1
  /\ lastReport' = named
  /\ callbackQueue' = Append(callbackQueue, [number |-> pushed', state |-> named])
  /\ pc' = [pc EXCEPT ![t] = back[t]]
  /\ target' = [target EXCEPT ![t] = "stopped"]
  /\ back' = [back EXCEPT ![t] = "idle"]
  /\ UNCHANGED <<state, lastStateError, runner, raised, bounds>>

\* Mutated form: the report names the state that this thread assigned.
PushTarget(t) == PushReport(t, target[t])

\* The report names the state of the moment when it was read, with this thread's
\* reason.
Push(t) == PushReport(t, IF pushInC THEN state ELSE target[t])

Goto(t, label) ==
  /\ pc' = [pc EXCEPT ![t] = label]
  /\ UNCHANGED <<state, lastStateError, target, back>>

-----------------------------------------------------------------------------
(* The application: start, stop and requests *)

NewCall(u) ==
  pc[u] = "idle" /\ calls < MaxCalls /\ calls' = calls + 1 /\ UNCHANGED <<changes, attempts, pushInC>>

Start(u) ==
  /\ NewCall(u)
  /\ state = "stopped"
  /\ Enter(u, "starting", Nil, "threads")

\* The command thread, the proton thread and the callback thread; the old ones
\* may still be there. The names of threads mean nothing: they are used in a
\* fixed order.
NextProton   == CHOOSE p \in Protons : pc[p] = "none"
NextCallback == CHOOSE c \in Callbacks : callback[c] = "none"

CreateThreads(u) ==
  /\ pc[u] = "threads"
  /\ \E p \in Protons, c \in Callbacks :
       /\ pc[p] = "none" /\ callback[c] = "none"
       /\ p = NextProton /\ c = NextCallback
       /\ pc' = [pc EXCEPT ![u] = "wait", ![p] = "loop"]
       /\ callback' = [callback EXCEPT ![c] = "check"]
  /\ overlap' = (overlap \/ \E p \in Protons : pc[p] \notin {"none", "dead"})
  /\ UNCHANGED <<state, lastStateError, target, back, queues, argv, delivered, raised, bounds>>

AwaitChange(u) ==
  /\ pc[u] = "wait" /\ state \in {"retrying", "started", "stopped"}
  /\ Goto(u, IF state = "stopped" THEN "decide" ELSE "idle")
  /\ UNCHANGED <<queues, runner, raised, bounds>>

\* "fail last_state_error if stopped?", once the wait has seen a stopped client.
Raise(u) ==
  /\ pc[u] = "decide"
  /\ raised' = [raised EXCEPT ![u] = IF state = "stopped" THEN lastStateError ELSE @]
  /\ Goto(u, "idle")
  /\ UNCHANGED <<queues, runner, bounds>>

Stop(u) ==
  /\ NewCall(u)
  /\ state # "stopped"
  /\ IF state = "started" THEN Enter(u, "stopping", Nil, "stop")
                          ELSE Goto(u, "stop") /\ UNCHANGED <<queues, runner, raised>>

\* Mutated form: the symbol of the last state is misspelt.
SetStop(u) ==
  /\ pc[u] = "stop"
  /\ Enter(u, "stop", Nil, "join")
  /\ UNCHANGED bounds

SetStopped(u) ==
  /\ pc[u] = "stop"
  /\ Enter(u, "stopped", Nil, "join")
  /\ UNCHANGED bounds

JoinProton(u) ==
  /\ pc[u] = "join" /\ \A p \in Protons : pc[p] \in {"none", "dead"}
  /\ Goto(u, "idle")
  /\ UNCHANGED <<queues, runner, raised, bounds>>

Request(u) ==
  /\ NewCall(u)
  /\ state # "stopped"
  /\ Goto(u, "request")
  /\ UNCHANGED <<queues, runner, raised>>

EndRequest(u) ==
  /\ pc[u] = "request"
  /\ Goto(u, "idle")
  /\ UNCHANGED <<queues, runner, raised, bounds>>

-----------------------------------------------------------------------------
(* The client's threads *)

Cause == changes < MaxChanges /\ changes' = changes + 1 /\ UNCHANGED <<calls, attempts, pushInC>>

\* proton_loop: it connects a client that is starting, or retrying with
\* something to do.
Loop(p) ==
  /\ pc[p] = "loop"
  /\ \/ state = "stopped" /\ Goto(p, "dead")
     \/ state \in {"starting", "retrying"} /\ Goto(p, "attempt")
     \/ state # "stopped" /\ state # "starting" /\ Goto(p, "monitor")
  /\ UNCHANGED <<queues, runner, raised, bounds>>

Attempt(p) ==
  /\ pc[p] = "attempt" /\ attempts < MaxAttempts
  /\ attempts' = attempts + 1
  /\ Enter(p, "starting", Nil, "outcome")
  /\ UNCHANGED <<calls, changes, pushInC>>

\* The list of services cannot be had: the client is not even starting.
NoServices(p) ==
  /\ pc[p] = "attempt" /\ Cause
  /\ \/ Enter(p, "retrying", "network", "monitor")
     \/ Enter(p, "stopped", "fatal", "monitor")

Connected(p) ==
  /\ pc[p] = "outcome"
  /\ Enter(p, "started", Nil, "monitor")
  /\ UNCHANGED bounds

\* Mutated form: the error is not passed on.
FailWithoutReason(p) ==
  /\ pc[p] = "outcome" /\ Cause
  /\ \/ Enter(p, "retrying", "network", "monitor")
     \/ Enter(p, "stopped", Nil, "monitor")

ConnectFails(p) ==
  /\ pc[p] = "outcome" /\ Cause
  /\ \/ Enter(p, "retrying", "network", "monitor")
     \/ Enter(p, "stopped", "fatal", "monitor")

\* check_for_out_of_sequence_messages: nothing, a closed socket or an error, or
\* the server's message that another client took over.
Monitor(p) ==
  /\ pc[p] = "monitor"
  /\ \/ Goto(p, "loop") /\ UNCHANGED <<queues, runner, raised, bounds>>
     \/ state = "started" /\ Cause /\ Enter(p, "retrying", "network", "loop")
     \/ state = "started" /\ Cause /\ Enter(p, "stopped", "fatal", "loop")

\* incoming_thread: the state is looked at half a second before the report.
LoseConnection(i) ==
  /\ pc[i] = "idle" /\ Cause
  /\ state \notin {"stopped", "stopping"}
  /\ Goto(i, "lost")
  /\ UNCHANGED <<queues, runner, raised>>

ReportLoss(i) ==
  /\ pc[i] = "lost"
  /\ Enter(i, "retrying", "network", "idle")
  /\ UNCHANGED bounds

\* A request has failed with a NetworkError: no reason is given.
RequestFails ==
  /\ pc[Command] = "idle" /\ \E u \in Users : pc[u] = "request"
  /\ Cause
  /\ Enter(Command, "retrying", Nil, "idle")

-----------------------------------------------------------------------------
(* The callback threads: callback_loop until stopped? && callback_queue.empty? *)

KeepChange == UNCHANGED <<change, pushed, lastReport, raised, bounds, overlap>>

CheckStopped(c) ==
  /\ callback[c] = "check"
  /\ callback' = [callback EXCEPT ![c] = IF state = "stopped" THEN "empty" ELSE "pop"]
  /\ UNCHANGED <<callbackQueue, argv, delivered>>
  /\ KeepChange

\* Mutated form: the loop begins anew, whatever is left in the queue.
CheckAgain(c) ==
  /\ callback[c] = "empty"
  /\ callback' = [callback EXCEPT ![c] = IF callbackQueue = <<>> THEN "dead" ELSE "check"]
  /\ UNCHANGED <<callbackQueue, argv, delivered>>
  /\ KeepChange

CheckEmpty(c) ==
  /\ callback[c] = "empty"
  /\ callback' = [callback EXCEPT ![c] = IF callbackQueue = <<>> THEN "dead" ELSE "pop"]
  /\ UNCHANGED <<callbackQueue, argv, delivered>>
  /\ KeepChange

\* Mutated form: the queue is a stack.
PopLast(c) ==
  /\ callback[c] = "pop" /\ callbackQueue # <<>>
  /\ argv' = [argv EXCEPT ![c] = callbackQueue[Len(callbackQueue)]]
  /\ callbackQueue' = SubSeq(callbackQueue, 1, Len(callbackQueue) - 1)
  /\ callback' = [callback EXCEPT ![c] = "call"]
  /\ UNCHANGED delivered
  /\ KeepChange

Pop(c) ==
  /\ callback[c] = "pop" /\ callbackQueue # <<>>
  /\ argv' = [argv EXCEPT ![c] = Head(callbackQueue)]
  /\ callbackQueue' = Tail(callbackQueue)
  /\ callback' = [callback EXCEPT ![c] = "call"]
  /\ UNCHANGED delivered
  /\ KeepChange

\* Whatever the application's callback raises is printed and forgotten.
CallBack(c) ==
  /\ callback[c] = "call"
  /\ delivered' = argv[c].number
  /\ argv' = [argv EXCEPT ![c] = NoReport]
  /\ callback' = [callback EXCEPT ![c] = "check"]
  /\ UNCHANGED callbackQueue
  /\ KeepChange

-----------------------------------------------------------------------------
User(u) == CreateThreads(u) \/ AwaitChange(u) \/ Raise(u) \/ SetStopped(u) \/ JoinProton(u) \/ EndRequest(u)

Proton(p) ==
  Loop(p) \/ Attempt(p) \/ NoServices(p) \/ Connected(p) \/ ConnectFails(p) \/ Monitor(p)

CallbackThread(c) == CheckStopped(c) \/ CheckEmpty(c) \/ Pop(c) \/ CallBack(c)

Next ==
  \/ \E u \in Users : Start(u) \/ Stop(u) \/ Request(u) \/ User(u)
  \/ \E p \in Protons : Proton(p)
  \/ \E i \in IOThreads : LoseConnection(i) \/ ReportLoss(i)
  \/ RequestFails
  \/ \E t \in Threads : Assign(t) \/ ReadState(t) \/ Push(t)
  \/ \E c \in Callbacks : CallbackThread(c)

Spec == Init /\ [][Next]_vars

\* Every thread that can run is scheduled; nothing makes the network fail.
Fairness ==
  /\ \A u \in Users : WF_vars(User(u))
  /\ \A p \in Protons : WF_vars(Proton(p))
  /\ \A i \in IOThreads : WF_vars(ReportLoss(i))
  /\ \A t \in Threads : WF_vars(Assign(t) \/ ReadState(t) \/ Push(t))
  /\ \A c \in Callbacks : WF_vars(CallbackThread(c))

FairSpec == Spec /\ Fairness

-----------------------------------------------------------------------------
(* Properties *)

Reporting(t) == pc[t] \in {"push", "queue"}

\* Safety. However the threads interleave inside change_state, when none of them
\* is between its assignment and its push the last report pushed names the state
\* the client is in (thread_vars.rb:156-161): an application that follows the
\* reports ends up with the right state. So it is where Queue#push is C code; in
\* Ruby 1.9 and 2.0 a thread that has read the state can be overtaken.
LastReportIsState ==
  pushInC /\ (\A t \in Threads : ~Reporting(t)) => state = lastReport

\* Safety. As long as no second start has made another callback thread, the
\* application's callback gets the reports one by one in the order they were
\* pushed (blocking_client.rb:250-253, 725-735).
InOrder ==
  [][\A c \in Callbacks :
       CallBack(c) /\ (\A d \in Callbacks \ {c} : callback[d] = "none") => delivered' = delivered + 1]_vars

\* Safety. A start that fails because the client was stopped raises a reason:
\* the one who stopped it has left it in last_state_error before the state
\* changed (blocking_client.rb:262, thread_vars.rb:155-157). A stop by another
\* thread, which has no reason, breaks this, and so does the attempt of an old
\* proton thread, which clears the reason of the new one's failure.
FailedStartHasReason ==
  overlap \/ \A u \in Users : raised[u] # Nil

\* Liveness. A report is delivered, unless the callback threads have ended: the
\* last one may find the client stopped and the queue empty just before the
\* stopped state is pushed.
ReportsAreDelivered ==
  callbackQueue # <<>> ~>
    callbackQueue = <<>> \/ \A c \in Callbacks : callback[c] \in {"none", "dead"}
=============================================================================
