---------------------------- MODULE RequestQueue ----------------------------
(***************************************************************************)
(* The hand-off of requests from the threads that call BlockingClient      *)
(* (send, subscribe, unsubscribe, receive, stop, start) to the command     *)
(* thread of Command, and of replies back to them.                         *)
(*                                                                         *)
(* Callers and the command thread share one mutex, request_queue_mutex,    *)
(* and ONE condition variable, request_queue_resource, used in both        *)
(* directions.  Ruby's ConditionVariable#signal wakes the longest waiting  *)
(* thread, so the condition variable is the FIFO sequence waiters.  The    *)
(* command thread keeps the mutex while it executes a request; a caller's  *)
(* critical sections end in a wait or in leaving, read nothing that is     *)
(* written outside the mutex, and are one step each.                       *)
(*                                                                         *)
(* The connection to the server (connection.rb, proton_container.rb) is    *)
(* seen only through the client's state, which it may change at any time.  *)
(***************************************************************************)
EXTENDS Naturals, Sequences, FiniteSets

CONSTANTS
  Users,       \* the application threads that share one client
  Workers,     \* the command threads that successive start calls may create
  Nobody,      \* no thread
  Calls,       \* of each application thread, the API calls it makes
  TimedCalls,  \* those calls that are given a timeout option
  MaxCalls,    \* bound: calls each application thread makes
  MaxFaults,   \* bound: connection losses, takeovers and failing operations
  Takeovers,   \* may the server replace or refuse the client (state stopped)?
  StrayReplies \* may an operation fail once its reply is pushed, or without one?

Requests == {"send", "subscribe", "unsubscribe", "receive"}

ASSUME ThreadsAssumption ==
  /\ Workers # {}
  /\ Users \cap Workers = {}
  /\ Nobody \notin Users \cup Workers

ASSUME CallsAssumption ==
  /\ Calls \in [Users -> SUBSET (Requests \cup {"stop", "start"})]
  /\ TimedCalls \subseteq {"send", "subscribe"}

ASSUME BoundsAssumption ==
  /\ MaxCalls \in Nat
  /\ MaxFaults \in Nat
  /\ Takeovers \in BOOLEAN
  /\ StrayReplies \in BOOLEAN

VARIABLES
  \* ThreadVars
  state,          \* the client's state
  processing,     \* processing_command
  subscribed,     \* is any destination in the list of destinations?
  replyQueue,     \* reply_queue, shared by every caller
  \* Command
  mutex,          \* the command thread that holds request_queue_mutex
  waiters,        \* the threads in request_queue_resource.wait, oldest first
  queue,          \* request_queue: the callers whose request is on it
  shutdown,       \* @shutdown
  commandThread,  \* @command_thread, the one created last
  op,             \* the caller whose request a command thread executes
  \* the threads
  pc,             \* where each thread is
  call,           \* the call a caller has made last
  calls,          \* how many calls a caller has made
  outcome,        \* how the caller's last call ended
  faults          \* faults so far

threadVars == <<state, processing, subscribed, replyQueue>>
command    == <<mutex, waiters, queue, shutdown, commandThread, op>>
callers    == <<call, calls, outcome>>
vars       == <<threadVars, command, pc, callers, faults>>

Threads == Users \cup Workers

States == {"starting", "started", "retrying", "stopping", "stopped"}

(* What a reply carries: nil or a message ("value"), a bare exception, an   *)
(* ExceptionContainer, or an ExceptionContainer of a TimeoutError.          *)
Kinds == {"value", "exception", "container", "timeout"}

Outcomes == {"none", "returned", "nil", "raised", "StoppedError", "TypeError"}

Executing == {"retrying?", "starting?", "toStateWait", "stateWait", "stopped?",
              "execute", "aborted", "replied"}

UserPCs   == {"idle", "clear", "push", "waiting", "woken", "pop",
              "close", "stop", "forget", "proton", "join", "joining",
              "start", "await"}
WorkerPCs == {"new", "lock", "waiting", "woken", "done", "dead"} \cup Executing

Replies == [caller : Users, call : Nat, kind : Kinds]

TypeOK ==
  /\ state \in States
  /\ processing \in BOOLEAN
  /\ subscribed \in BOOLEAN
  /\ replyQueue \in Seq(Replies)
  /\ mutex \in Workers \cup {Nobody}
  /\ waiters \in Seq(Threads)
  /\ queue \in Seq(Users)
  /\ shutdown \in BOOLEAN
  /\ commandThread \in Workers
  /\ op \in [Workers -> Users \cup {Nobody}]
  /\ pc \in [Threads -> UserPCs \cup WorkerPCs]
  /\ \A u \in Users : pc[u] \in UserPCs
  /\ \A w \in Workers : pc[w] \in WorkerPCs
  /\ call \in [Users -> Requests \cup {"stop", "start"}]
  /\ calls \in [Users -> Nat]
  /\ outcome \in [Users -> Outcomes]
  /\ faults \in Nat

-----------------------------------------------------------------------------
(* The constructor has returned: it has started a command thread and the    *)
(* connection is up.  Destinations may have been subscribed to since.       *)
Init ==
  /\ state = "started"
  /\ processing = FALSE
  /\ subscribed \in BOOLEAN
  /\ replyQueue = <<>>
  /\ mutex = Nobody
  /\ waiters = <<>>
  /\ queue = <<>>
  /\ shutdown = FALSE
  /\ commandThread = CHOOSE w \in Workers : TRUE
  /\ op = [w \in Workers |-> Nobody]
  /\ pc = [t \in Threads |-> IF t \in Users THEN "idle"
                             ELSE IF t = commandThread THEN "lock" ELSE "new"]
  /\ call \in [Users -> {"send"}]
  /\ calls = [u \in Users |-> 0]
  /\ outcome = [u \in Users |-> "none"]
  /\ faults = 0

-----------------------------------------------------------------------------
(* request_queue_resource and request_queue_mutex                           *)

Unlocked == mutex = Nobody

(* signal: the oldest waiter leaves the wait set; it goes on once it has    *)
(* the mutex again.                                                         *)
Signalled(p) == IF waiters = <<>> THEN p ELSE [p EXCEPT ![Head(waiters)] = "woken"]
Unsignalled  == IF waiters = <<>> THEN <<>> ELSE Tail(waiters)

Without(s, i) == [j \in 1..(Len(s) - 1) |-> IF j < i THEN s[j] ELSE s[j + 1]]

Pushed(u, kind) ==
  Append(replyQueue, [caller |-> u, call |-> calls[u], kind |-> kind])

(* change_state: nothing happens if the state is the same; otherwise the    *)
(* command thread that waits for a change of state is woken.                *)
StateSignalled(p, new) ==
  IF new = state THEN p
  ELSE [t \in Threads |-> IF p[t] = "stateWait" THEN "retrying?" ELSE p[t]]

Fault == faults < MaxFaults /\ faults' = faults + 1

-----------------------------------------------------------------------------
(* Callers: BlockingClient                                                  *)

Goto(u, label) == pc' = [pc EXCEPT ![u] = label]

Return(u, how) ==
  /\ Goto(u, "idle")
  /\ outcome' = [outcome EXCEPT ![u] = how]

MakeCall(u, a) ==
  /\ pc[u] = "idle"
  /\ a \in Calls[u]
  /\ calls[u] < MaxCalls
  /\ calls' = [calls EXCEPT ![u] = @ + 1]
  /\ call' = [call EXCEPT ![u] = a]

(* The checks a request makes before it is handed over: the state, then,    *)
(* for a request that needs one, a matching destination.                    *)
Refused(a)      == IF a = "unsubscribe" THEN state # "started" ELSE state = "stopped"
NoDestination(a) == a \in {"unsubscribe", "receive"} /\ ~subscribed

BeginRequest(u, a) ==
  /\ MakeCall(u, a)
  /\ a \in Requests
  /\ \/ Refused(a) /\ Return(u, "StoppedError")
     \/ ~Refused(a) /\ NoDestination(a) /\ Return(u, "raised")
     \/ /\ ~Refused(a) /\ ~NoDestination(a)
        /\ Goto(u, IF a = "send" THEN "clear" ELSE "push")
        /\ outcome' = [outcome EXCEPT ![u] = "none"]
  /\ UNCHANGED <<threadVars, command, faults>>

(* Mutated form: send no longer clears the reply queue.                     *)
ClearNothing(u) ==
  /\ pc[u] = "clear"
  /\ Goto(u, "push")
  /\ UNCHANGED <<threadVars, command, callers, faults>>

(* send clears the queue of replies before it hands its request over.       *)
ClearReplies(u) ==
  /\ pc[u] = "clear"
  /\ replyQueue' = <<>>
  /\ Goto(u, "push")
  /\ UNCHANGED <<state, processing, subscribed, command, callers, faults>>

(* Mutated form: push_request does not wait for its request to be served.   *)
PushAndLeave(u) ==
  /\ pc[u] = "push"
  /\ Unlocked
  /\ \/ /\ shutdown
        /\ Return(u, "StoppedError")
        /\ UNCHANGED <<waiters, queue>>
     \/ /\ ~shutdown
        /\ queue' = Append(queue, u)
        /\ waiters' = Unsignalled
        /\ pc' = [Signalled(pc) EXCEPT ![u] = "pop"]
        /\ UNCHANGED outcome
  /\ UNCHANGED <<threadVars, mutex, shutdown, commandThread, op, call, calls, faults>>

(* push_request, up to its first wait.                                      *)
PushRequest(u) ==
  /\ pc[u] = "push"
  /\ Unlocked
  /\ \/ /\ shutdown
        /\ Return(u, "StoppedError")
        /\ UNCHANGED <<waiters, queue>>
     \/ /\ ~shutdown
        /\ queue' = Append(queue, u)
        /\ waiters' = Append(Unsignalled, u)
        /\ pc' = [Signalled(pc) EXCEPT ![u] = "waiting"]
        /\ UNCHANGED outcome
  /\ UNCHANGED <<threadVars, mutex, shutdown, commandThread, op, call, calls, faults>>

(* push_request, woken while requests are still on the queue.               *)
WaitAgain(u) ==
  /\ pc[u] = "woken"
  /\ Unlocked
  /\ queue # <<>>
  /\ waiters' = Append(waiters, u)
  /\ Goto(u, "waiting")
  /\ UNCHANGED <<threadVars, mutex, queue, shutdown, commandThread, op, callers, faults>>

(* Mutated form: any signal sends the caller on, without another look at    *)
(* the queue.                                                               *)
LeaveOnSignal(u) ==
  /\ pc[u] = "woken"
  /\ Unlocked
  /\ waiters' = Unsignalled
  /\ pc' = [Signalled(pc) EXCEPT ![u] = "pop"]
  /\ UNCHANGED <<threadVars, mutex, queue, shutdown, commandThread, op, callers, faults>>

(* push_request, woken with an empty queue: it passes the signal on and     *)
(* returns.  unsubscribe then deletes its destination, the others collect   *)
(* a reply.                                                                 *)
LeavePushRequest(u) ==
  /\ pc[u] = "woken"
  /\ Unlocked
  /\ queue = <<>>
  /\ waiters' = Unsignalled
  /\ \/ /\ call[u] = "unsubscribe"
        /\ pc' = [Signalled(pc) EXCEPT ![u] = "idle"]
        /\ outcome' = [outcome EXCEPT ![u] = "returned"]
        /\ subscribed' \in BOOLEAN
     \/ /\ call[u] # "unsubscribe"
        /\ pc' = [Signalled(pc) EXCEPT ![u] = "pop"]
        /\ UNCHANGED <<outcome, subscribed>>
  /\ UNCHANGED <<state, processing, replyQueue, mutex, queue, shutdown,
                 commandThread, op, call, calls, faults>>

(* What the caller makes of a reply.  send and subscribe raise whatever is  *)
(* not nil: an ExceptionContainer is no exception, so Ruby raises a         *)
(* TypeError instead.  receive unwraps containers, takes a timeout for nil  *)
(* and returns anything else.                                               *)
OutcomeOf(a, kind) ==
  CASE kind = "value"                                  -> "returned"
    [] a = "receive" /\ kind = "exception"             -> "returned"
    [] a = "receive" /\ kind = "timeout"               -> "nil"
    [] a = "receive" /\ kind = "container"             -> "raised"
    [] a # "receive" /\ kind = "exception"             -> "raised"
    [] a # "receive" /\ kind \in {"timeout", "container"} -> "TypeError"

PopReply(u) ==
  /\ pc[u] = "pop"
  /\ replyQueue # <<>>
  /\ replyQueue' = Tail(replyQueue)
  /\ Return(u, OutcomeOf(call[u], Head(replyQueue).kind))
  /\ UNCHANGED <<state, processing, subscribed, command, call, calls, faults>>

-----------------------------------------------------------------------------
(* stop and start                                                           *)

(* stop: nothing in a stopped client; a started one is stopping, and its    *)
(* connection is closed first.                                              *)
BeginStop(u) ==
  /\ MakeCall(u, "stop")
  /\ \/ state = "stopped" /\ Return(u, "returned") /\ UNCHANGED state
     \/ /\ state = "started"
        /\ state' = "stopping"
        /\ pc' = [StateSignalled(pc, "stopping") EXCEPT ![u] = "close"]
        /\ UNCHANGED outcome
     \/ /\ state \notin {"stopped", "started"}
        /\ Goto(u, "stop")
        /\ UNCHANGED <<state, outcome>>
  /\ UNCHANGED <<processing, subscribed, replyQueue, command, faults>>

(* ProtonContainer#stop has seen the server close the connection, for which *)
(* it waits without limit; or there is no messenger any more and it raises, *)
(* which leaves the client stopping.                                        *)
CloseConnection(u) ==
  /\ pc[u] = "close"
  /\ \/ Goto(u, "stop") /\ UNCHANGED <<outcome, faults>>
     \/ Fault /\ Return(u, "raised")
  /\ UNCHANGED <<threadVars, command, call, calls>>

(* Mutated form: the symbol of the last state is misspelt.                  *)
SetStop(u) ==
  /\ pc[u] = "stop"
  /\ state' = "stop"
  /\ pc' = [StateSignalled(pc, "stop") EXCEPT ![u] = "forget"]
  /\ UNCHANGED <<processing, subscribed, replyQueue, command, callers, faults>>

SetStopped(u) ==
  /\ pc[u] = "stop"
  /\ state' = "stopped"
  /\ pc' = [StateSignalled(pc, "stopped") EXCEPT ![u] = "forget"]
  /\ UNCHANGED <<processing, subscribed, replyQueue, command, callers, faults>>

ClearSubscriptions(u) ==
  /\ pc[u] = "forget"
  /\ subscribed' = FALSE
  /\ Goto(u, "proton")
  /\ UNCHANGED <<state, processing, replyQueue, command, callers, faults>>

(* stop_thread: the proton thread, which leaves its loop when it sees a     *)
(* stopped client, has ended, for which the caller waits without limit; its *)
(* I/O threads have been killed.                                            *)
JoinProton(u) ==
  /\ pc[u] = "proton"
  /\ Goto(u, "join")
  /\ UNCHANGED <<threadVars, command, callers, faults>>

(* Command#join, first part: wake a waiting command thread.                 *)
SignalStop(u) ==
  /\ pc[u] = "join"
  /\ Unlocked
  /\ waiters' = Unsignalled
  /\ pc' = [Signalled(pc) EXCEPT ![u] = "joining"]
  /\ UNCHANGED <<threadVars, mutex, queue, shutdown, commandThread, op, callers, faults>>

(* Command#join, second part: the command thread has terminated.            *)
Joined(u) ==
  /\ pc[u] = "joining"
  /\ pc[commandThread] = "dead"
  /\ Return(u, "returned")
  /\ UNCHANGED <<threadVars, command, call, calls, faults>>

(* Mutated form: Command#join waits for the command thread without limit.   *)
WaitForever(u) ==
  /\ pc[u] = "joining"
  /\ FALSE
  /\ UNCHANGED vars

(* Command#join, after 5 seconds: the command thread is killed, wherever it *)
(* is.  Its ensure clauses run: it leaves the wait set, releases the mutex  *)
(* and, inside process_request_queue, clears processing_command.            *)
KillCommandThread(u) ==
  LET w == commandThread IN
  /\ pc[u] = "joining"
  /\ pc[w] # "dead"
  /\ pc' = [pc EXCEPT ![u] = "idle", ![w] = "dead"]
  /\ outcome' = [outcome EXCEPT ![u] = "returned"]
  /\ IF pc[w] = "waiting"
       THEN \E i \in DOMAIN waiters : waiters[i] = w /\ waiters' = Without(waiters, i)
       ELSE UNCHANGED waiters
  /\ mutex' = IF mutex = w THEN Nobody ELSE mutex
  /\ processing' = IF mutex = w THEN FALSE ELSE processing
  /\ op' = [op EXCEPT ![w] = Nobody]
  /\ UNCHANGED <<state, subscribed, replyQueue, queue, shutdown, commandThread,
                 call, calls, faults>>

(* start, first part: nothing unless the client is stopped.                 *)
BeginStart(u) ==
  /\ MakeCall(u, "start")
  /\ \/ state # "stopped" /\ Return(u, "returned")
     \/ /\ state = "stopped"
        /\ Cardinality({w \in Workers : pc[w] = "new"})
             > Cardinality({v \in Users : pc[v] = "start"})
        /\ Goto(u, "start")
        /\ UNCHANGED outcome
  /\ UNCHANGED <<threadVars, command, faults>>

(* start, second part: a new command thread and a new proton thread.        *)
StartThreads(u) ==
  /\ pc[u] = "start"
  /\ state' = "starting"
  /\ \E w \in Workers :
       /\ pc[w] = "new"
       /\ commandThread' = w
       /\ pc' = [StateSignalled(pc, "starting") EXCEPT ![u] = "await", ![w] = "lock"]
  /\ UNCHANGED <<processing, subscribed, replyQueue, mutex, waiters, queue, shutdown,
                 op, callers, faults>>

(* start, last part: the first connection attempt has ended.                *)
EndStart(u) ==
  /\ pc[u] = "await"
  /\ state \in {"retrying", "started", "stopped"}
  /\ Return(u, IF state = "stopped" THEN "raised" ELSE "returned")
  /\ UNCHANGED <<threadVars, command, call, calls, faults>>

-----------------------------------------------------------------------------
(* The command thread: Command#command_loop                                 *)

(* At the top of the loop, and woken in it, with an empty queue.            *)
AwaitRequest(w) ==
  /\ pc[w] \in {"lock", "woken"}
  /\ pc[w] = "woken" => state # "stopped"
  /\ Unlocked
  /\ queue = <<>>
  /\ waiters' = Append(waiters, w)
  /\ Goto(w, "waiting")
  /\ UNCHANGED <<threadVars, mutex, queue, shutdown, commandThread, op, callers, faults>>

(* Woken in a stopped client: the loop is left, and @shutdown stays as it is. *)
LeaveLoop(w) ==
  /\ pc[w] = "woken"
  /\ Unlocked
  /\ state = "stopped"
  /\ Goto(w, "dead")
  /\ UNCHANGED <<threadVars, command, callers, faults>>

(* Mutated form: the mutex is released while the request is executed, so    *)
(* that other callers are not held up by it.                                *)
TakeAndUnlock(w) ==
  /\ pc[w] \in {"lock", "woken"}
  /\ pc[w] = "woken" => state # "stopped"
  /\ Unlocked
  /\ queue # <<>>
  /\ processing' = TRUE
  /\ op' = [op EXCEPT ![w] = Head(queue)]
  /\ queue' = Tail(queue)
  /\ Goto(w, "retrying?")
  /\ UNCHANGED <<state, subscribed, replyQueue, mutex, waiters, shutdown, commandThread,
                 callers, faults>>

(* Mutated form: the newest request is taken.                               *)
TakeNewest(w) ==
  /\ pc[w] \in {"lock", "woken"}
  /\ pc[w] = "woken" => state # "stopped"
  /\ Unlocked
  /\ queue # <<>>
  /\ mutex' = w
  /\ processing' = TRUE
  /\ op' = [op EXCEPT ![w] = queue[Len(queue)]]
  /\ queue' = Without(queue, Len(queue))
  /\ Goto(w, "retrying?")
  /\ UNCHANGED <<state, subscribed, replyQueue, waiters, shutdown, commandThread,
                 callers, faults>>

(* process_request_queue takes the oldest request.                          *)
TakeRequest(w) ==
  /\ pc[w] \in {"lock", "woken"}
  /\ pc[w] = "woken" => state # "stopped"
  /\ Unlocked
  /\ queue # <<>>
  /\ mutex' = w
  /\ processing' = TRUE
  /\ op' = [op EXCEPT ![w] = Head(queue)]
  /\ queue' = Tail(queue)
  /\ Goto(w, "retrying?")
  /\ UNCHANGED <<state, subscribed, replyQueue, waiters, shutdown, commandThread,
                 callers, faults>>

-----------------------------------------------------------------------------
(* The command thread: Command#process_request_queue                        *)

Action(w) == call[op[w]]

Step(w, from, to) ==
  /\ pc[w] = from
  /\ Goto(w, to)
  /\ UNCHANGED <<threadVars, command, callers, faults>>

(* Wait for a change of state while retrying or starting: two reads of the  *)
(* state, then, outside the lock that protects it, the wait; return when    *)
(* stopped, without a reply.                                                *)
AwaitConnection(w) ==
  \/ Step(w, "retrying?", IF state = "retrying" THEN "toStateWait" ELSE "starting?")
  \/ Step(w, "starting?", IF state = "starting" THEN "toStateWait" ELSE "stopped?")
  \/ Step(w, "toStateWait", "stateWait")
  \/ Step(w, "stopped?", IF state = "stopped" THEN "done" ELSE "execute")

Reply(w, kind) == replyQueue' = Pushed(op[w], kind)

Executes(w, a) == pc[w] = "execute" /\ Action(w) = a

(* process_queued_send: the message is settled, or refused by the server,   *)
(* while the client is started...                                           *)
Send(w) ==
  /\ Executes(w, "send")
  /\ state = "started"
  /\ \E kind \in {"value", "container"} : Reply(w, kind)
  /\ Goto(w, "replied")
  /\ UNCHANGED <<state, processing, subscribed, command, callers, faults>>

(* ...the messenger fails: its timeout is a bare exception, any other error *)
(* of its own, a StateError among them, a container...                      *)
SendFails(w) ==
  /\ Executes(w, "send")
  /\ Fault
  /\ \E kind \in {"exception", "container"} : Reply(w, kind)
  /\ Goto(w, "replied")
  /\ UNCHANGED <<state, processing, subscribed, command, callers>>

(* ...or the client is no longer started: RetryError.                       *)
SendAgain(w) ==
  /\ Executes(w, "send")
  /\ state # "started"
  /\ Goto(w, "retrying?")
  /\ UNCHANGED <<threadVars, command, callers, faults>>

(* process_queued_subscription: the link comes up, or the error that was    *)
(* captured instead is the reply.                                           *)
Subscribe(w) ==
  /\ Executes(w, "subscribe")
  /\ \E kind \in {"value", "exception"} : Reply(w, kind)
  /\ Goto(w, "replied")
  /\ UNCHANGED <<state, processing, subscribed, command, callers, faults>>

(* process_queued_unsubscribe: no reply.                                    *)
Unsubscribe(w) ==
  /\ Executes(w, "unsubscribe")
  /\ Goto(w, "done")
  /\ UNCHANGED <<threadVars, command, callers, faults>>

(* Mutated form: no message, no reply.                                      *)
ReceiveNothing(w) ==
  /\ Executes(w, "receive")
  /\ Goto(w, IF state = "started" THEN "replied" ELSE "done")
  /\ UNCHANGED <<threadVars, command, callers, faults>>

(* check_for_messages: a message, or nil because the timeout has passed or  *)
(* the client is not started any more.                                      *)
Receive(w) ==
  /\ Executes(w, "receive")
  /\ Reply(w, "value")
  /\ Goto(w, IF state = "started" THEN "replied" ELSE "done")
  /\ UNCHANGED <<state, processing, subscribed, command, callers, faults>>

(* The send was aborted, or a received message cannot be accepted (after it *)
(* was handed to the caller): NetworkError.                                 *)
Aborted(w) ==
  /\ \/ Executes(w, "send") /\ state = "started"
     \/ pc[w] = "replied" /\ Action(w) = "receive" /\ StrayReplies
  /\ Fault
  /\ Goto(w, "aborted")
  /\ UNCHANGED <<threadVars, command, callers>>

(* The client is made to retry, whatever its state is by now, and the       *)
(* request is executed again.                                               *)
NetworkError(w) ==
  /\ pc[w] = "aborted"
  /\ state' = "retrying"
  /\ Goto(w, "retrying?")
  /\ UNCHANGED <<processing, subscribed, replyQueue, command, callers, faults>>

(* The messenger refuses to receive: StateError.  The command thread looks  *)
(* for a message of the server about it and executes the request again.     *)
StateError(w) ==
  /\ Executes(w, "receive")
  /\ Fault
  /\ \/ UNCHANGED state
     \/ state = "started" /\ state' = "retrying"
     \/ state = "started" /\ Takeovers /\ state' = "stopped"
  /\ Goto(w, "retrying?")
  /\ UNCHANGED <<processing, subscribed, replyQueue, command, callers>>

(* Any other error becomes the reply, also that of an unsubscribe, which    *)
(* nobody collects.                                                         *)
OtherError(w) ==
  /\ pc[w] = "execute"
  /\ Action(w) = "unsubscribe" => StrayReplies
  /\ Fault
  /\ Reply(w, "container")
  /\ Goto(w, "done")
  /\ UNCHANGED <<state, processing, subscribed, command, callers>>

(* Timeout strikes wherever process_request_queue is, also between the      *)
(* reply and the end of the request.                                        *)
Expire(w) ==
  /\ pc[w] \in Executing
  /\ pc[w] = "replied" => StrayReplies
  /\ Action(w) \in TimedCalls
  /\ Reply(w, "timeout")
  /\ Goto(w, "done")
  /\ UNCHANGED <<state, processing, subscribed, command, callers, faults>>

(* A subscription is remembered after its reply, whatever that was.         *)
FinishRequest(w) ==
  /\ pc[w] = "replied"
  /\ subscribed' = (subscribed \/ Action(w) = "subscribe")
  /\ Goto(w, "done")
  /\ UNCHANGED <<state, processing, replyQueue, command, callers, faults>>

(* Mutated form: the command thread does not signal that it is done.        *)
EndSilently(w) ==
  /\ pc[w] = "done"
  /\ processing' = FALSE
  /\ op' = [op EXCEPT ![w] = Nobody]
  /\ mutex' = Nobody
  /\ shutdown' = (shutdown \/ state = "stopped")
  /\ Goto(w, IF state = "stopped" THEN "dead" ELSE "lock")
  /\ UNCHANGED <<state, subscribed, replyQueue, waiters, queue, commandThread, callers,
                 faults>>

(* Mutated form: processing_command stays set.                              *)
EndStillProcessing(w) ==
  /\ pc[w] = "done"
  /\ op' = [op EXCEPT ![w] = Nobody]
  /\ waiters' = Unsignalled
  /\ mutex' = Nobody
  /\ shutdown' = (shutdown \/ state = "stopped")
  /\ pc' = [Signalled(pc) EXCEPT ![w] = IF state = "stopped" THEN "dead" ELSE "lock"]
  /\ UNCHANGED <<threadVars, queue, commandThread, callers, faults>>

(* The request is over: processing_command is cleared, the oldest waiter is *)
(* woken, and in a stopped client the loop ends.                            *)
EndRequest(w) ==
  /\ pc[w] = "done"
  /\ processing' = FALSE
  /\ op' = [op EXCEPT ![w] = Nobody]
  /\ waiters' = Unsignalled
  /\ mutex' = Nobody
  /\ shutdown' = (shutdown \/ state = "stopped")
  /\ pc' = [Signalled(pc) EXCEPT ![w] = IF state = "stopped" THEN "dead" ELSE "lock"]
  /\ UNCHANGED <<state, subscribed, replyQueue, queue, commandThread, callers, faults>>

-----------------------------------------------------------------------------
(* The connection                                                           *)

ConnectionChanges(new) ==
  /\ state' = new
  /\ pc' = StateSignalled(pc, new)
  /\ UNCHANGED <<processing, subscribed, replyQueue, command, callers>>

Connect == state = "starting" /\ ConnectionChanges("started") /\ UNCHANGED faults

(* The proton thread reconnects only for a request or for subscriptions.    *)
Reconnects == state = "retrying" /\ (processing \/ subscribed)
Reconnect  == Reconnects /\ ConnectionChanges("starting") /\ UNCHANGED faults

(* An I/O thread reports the loss of the connection, whatever the state is  *)
(* by then, as long as stop has not killed it.                              *)
LoseConnection ==
  /\ \/ state \in {"starting", "started", "stopping"}
     \/ state = "stopped" /\ \E u \in Users : pc[u] \in {"forget", "proton"}
  /\ Fault
  /\ ConnectionChanges("retrying")

(* Another client takes this one's place, or the server refuses it.         *)
Takeover ==
  /\ Takeovers
  /\ state \in {"starting", "started"} \/ Reconnects
  /\ Fault
  /\ ConnectionChanges("stopped")

-----------------------------------------------------------------------------
Caller(u) ==
  \/ ClearReplies(u)
  \/ PushRequest(u)
  \/ WaitAgain(u)
  \/ LeavePushRequest(u)
  \/ PopReply(u)
  \/ SetStopped(u)
  \/ ClearSubscriptions(u)
  \/ SignalStop(u)
  \/ Joined(u)
  \/ KillCommandThread(u)
  \/ StartThreads(u)
  \/ EndStart(u)

(* What stop waits for outside the hand-off.                                *)
Closing(u) == CloseConnection(u) \/ JoinProton(u)

NewCall(u) ==
  \/ \E a \in Requests : BeginRequest(u, a)
  \/ BeginStop(u)
  \/ BeginStart(u)

CommandThread(w) ==
  \/ AwaitRequest(w)
  \/ LeaveLoop(w)
  \/ TakeRequest(w)
  \/ AwaitConnection(w)
  \/ SendAgain(w)
  \/ NetworkError(w)
  \/ Expire(w)
  \/ FinishRequest(w)
  \/ EndRequest(w)

(* What comes of a request that is executed: it takes an answer of the      *)
(* server, a message, or an error.                                          *)
Operation(w) ==
  \/ Send(w)
  \/ SendFails(w)
  \/ Subscribe(w)
  \/ Unsubscribe(w)
  \/ Receive(w)
  \/ Aborted(w)
  \/ StateError(w)
  \/ OtherError(w)

Connection == Connect \/ Reconnect \/ LoseConnection \/ Takeover

(* Every thread rests: the application makes no further call, a command     *)
(* thread waits for a request that does not come.                           *)
Quiescent ==
  /\ \A u \in Users : pc[u] = "idle" /\ calls[u] = MaxCalls
  /\ UNCHANGED vars

Next ==
  \/ \E u \in Users : NewCall(u) \/ Caller(u) \/ Closing(u)
  \/ \E w \in Workers : CommandThread(w) \/ Operation(w)
  \/ Connection
  \/ Quiescent

Spec == Init /\ [][Next]_vars

(* Ruby schedules every runnable thread, and its mutexes are handed over in *)
(* order.  Nothing forces the application to make a call, the server to     *)
(* answer, a message to arrive, or the connection to come back.             *)
Fairness ==
  /\ \A u \in Users : WF_vars(Caller(u))
  /\ \A w \in Workers : WF_vars(CommandThread(w))

FairSpec == Spec /\ Fairness

-----------------------------------------------------------------------------
(* Properties                                                               *)

(* What the callers see of the hand-off: requests served in order, once     *)
(* each, and nobody going on before (command.rb, push_request,              *)
(* process_request_queue and command_loop).  A request is over when the     *)
(* command thread has ended it or was killed.                               *)
Pending == IF mutex = Nobody THEN queue ELSE <<op[mutex]>> \o queue
Phase == [u \in Users |->
            IF \E i \in DOMAIN Pending : Pending[i] = u THEN "submitted"
            ELSE IF pc[u] \in {"waiting", "woken", "pop"} THEN "served" ELSE "idle"]
Abstract == INSTANCE OrderedCalls WITH pending <- Pending, phase <- Phase
ServedInOrder == Abstract!Spec

InHand(u) == (\E i \in DOMAIN queue : queue[i] = u) \/ (\E w \in Workers : op[w] = u)

(* A caller stays inside push_request as long as its request is on the      *)
(* queue or is being executed, and it has one request at a time.  So a      *)
(* caller never looks for a reply before its request is finished, and the   *)
(* request's parameters cannot change while the command thread reads them   *)
(* (command.rb, push_request and command_loop).                             *)
OwnerBlocked ==
  /\ \A u \in Users : InHand(u) => pc[u] \in {"waiting", "woken"}
  /\ \A i, j \in DOMAIN queue : queue[i] = queue[j] => i = j
  /\ \A w \in Workers, i \in DOMAIN queue : queue[i] # op[w]

(* processing_command is exactly as long as some command thread executes a  *)
(* request: it is what makes the proton thread reconnect a client without   *)
(* subscriptions, so a request that waits for the connection must show it,  *)
(* and a client with nothing to do must not (connection.rb, proton_loop).   *)
ProcessingWhileExecuting ==
  processing <=> \E w \in Workers : pc[w] \in Executing \cup {"done"}

(* Requests are executed one at a time, whatever the number of callers and  *)
(* of command threads: a takeover leaves the command thread of the session  *)
(* in its wait, and the next start adds another (command.rb, command_loop,  *)
(* process_request_queue).                                                  *)
OneAtATime ==
  \A v, w \in Workers : pc[v] \in Executing \cup {"done"} /\ pc[w] \in Executing \cup {"done"}
                         => v = w

(* When send collects its reply, none that an earlier call of its own left  *)
(* behind is on the reply queue: the second reply of a request executed     *)
(* twice, that of a failed unsubscribe, a timeout that struck after the     *)
(* reply have been cleared, and nothing is executed any more that could add *)
(* one.  A lone caller so gets the reply to this very call (blocking_client *)
(* send).                                                                   *)
SendGetsItsReply ==
  \A u \in Users : pc[u] = "pop" /\ call[u] = "send" =>
    \A i \in DOMAIN replyQueue : replyQueue[i].caller = u => replyQueue[i].call = calls[u]

(* The callers that are owed a reply: they wait for it, or are about to.    *)
Finished(u) ==
  /\ \A i \in DOMAIN queue : queue[i] # u
  /\ \A w \in Workers : op[w] = u => pc[w] \in {"replied", "done"}
Owed == {u \in Users : /\ call[u] # "unsubscribe"
                       /\ \/ pc[u] = "pop"
                          \/ pc[u] \in {"waiting", "woken"} /\ Finished(u)}

(* Callers in concert: there are as many replies as callers that look for   *)
(* one, so none blocks in reply_queue.pop and none leaves a reply behind    *)
(* (it may still be another caller's reply).                                *)
RepliesMatchCallers == Len(replyQueue) = Cardinality(Owed)

(* The environment does its part: no request is executed for ever (what a   *)
(* receive without timeout does until a message arrives), a client that     *)
(* connects comes to a result, the server closes a connection in the end,   *)
(* and the proton thread ends in a stopped client.                          *)
Connecting == state = "starting" \/ Reconnects
EnvironmentActs ==
  /\ \A w \in Workers : []<>(pc[w] # "execute")
  /\ []<>~Connecting
  /\ \A u \in Users : []<>(pc[u] \notin {"close", "proton"})

(* Every call returns, if the environment does its part (blocking_client.rb, *)
(* all calls).                                                              *)
CallsReturn == EnvironmentActs => \A u \in Users : pc[u] # "idle" ~> pc[u] = "idle"

(* stop returns, if the environment does its part, whatever requests other  *)
(* callers make meanwhile: the command thread lets go of the mutex that     *)
(* Command#join takes, then ends or is killed.  One case is excepted: a     *)
(* command thread that waits, with the mutex, for a change of state, which  *)
(* may be the one it has just missed (blocking_client.rb, stop; command.rb, *)
(* join).                                                                   *)
StopReturns ==
  EnvironmentActs =>
    \A u \in Users : pc[u] \in {"close", "stop", "forget", "proton", "join", "joining"}
                       ~> \/ pc[u] = "idle"
                          \/ \E w \in Workers : mutex = w /\ pc[w] = "stateWait"

(* A call whose request the command thread has dealt with when the client   *)
(* stops returns, if the environment does its part.                         *)
StoppedCallsReturn ==
  EnvironmentActs =>
    \A u \in Users : state = "stopped" /\ pc[u] = "pop"
                       ~> pc[u] = "idle" \/ state # "stopped"

(* A caller collects the reply to its own call.                             *)
OwnReply ==
  [][\A u \in Users : pc[u] = "pop" /\ pc'[u] = "idle" =>
       Head(replyQueue).caller = u /\ Head(replyQueue).call = calls[u]]_vars

(* While the client is started no request is turned away as stopped.        *)
StartedAccepts ==
  [][\A u \in Users : pc[u] = "push" /\ pc'[u] = "idle" => state # "started"]_vars

=============================================================================
