----------------------------- MODULE Connection -----------------------------
(***************************************************************************)
(* The life of one client's connection: the proton thread, which connects  *)
(* and reconnects (Connection), the two I/O threads of the current end     *)
(* point (UnsecureEndPoint, SecureEndPoint), the application threads in    *)
(* start and stop (BlockingClient), and the server and the network.  They  *)
(* share the client's state (ThreadVars), the messenger and the flag       *)
(* sockets_open (ProtonContainer); each reads and writes the state with no *)
(* lock around both.                                                       *)
(*                                                                         *)
(* The command thread is seen through processing_command, the list of      *)
(* destinations and the changes of state it makes (RequestQueue has the    *)
(* other side).  The contents of the AMQP stream are abstracted to what    *)
(* the messenger's error says (errno).  Pauses (the table of delays        *)
(* between two attempts, the half second before a loss is reported) take   *)
(* any time.                                                               *)
(***************************************************************************)
EXTENDS Naturals, FiniteSets

CONSTANTS
  Users,        \* the application threads that start and stop the client
  Protons,      \* the proton threads that successive start calls may create
  EndPoints,    \* names for the end points that exist at a time
  None,         \* no end point, no thread
  Calls,        \* the calls the application makes: "start", "stop"
  Services,     \* bound: the length of the list of services
  MaxCalls,     \* bound: calls each application thread makes
  MaxFaults,    \* bound: things that go wrong
  Takeovers,    \* may another client take this one's place?
  BadOptions    \* may the TLS options be such that the context is refused?

ASSUME SetsAssumption ==
  /\ Users \cap Protons = {}
  /\ None \notin EndPoints \cup Protons
  /\ Calls \subseteq {"start", "stop"}

ASSUME BoundsAssumption ==
  /\ Services \in Nat \ {0}
  /\ MaxCalls \in Nat
  /\ MaxFaults \in Nat
  /\ {Takeovers, BadOptions} \subseteq BOOLEAN

VARIABLES
  \* ThreadVars
  state,        \* the client's state
  lastError,    \* the kind of last_state_error
  command,      \* what the command thread does with a request
  subscribed,   \* is any destination in the list of destinations?
  \* ProtonContainer
  messenger,    \* is there a messenger?
  errno,        \* the error the messenger holds
  socketsOpen,  \* @sockets_open
  \* Connection
  endPoint,     \* @end_point
  io,           \* the incoming and the outgoing thread of each end point
  protonThread, \* @proton_thread, the one created last
  left,         \* items_left_in_service_list, of each proton thread
  joining,      \* the proton thread that a caller of stop joins
  \* the threads
  pc,           \* where each proton and each application thread is
  calls,        \* how many calls an application thread has made
  outcome,      \* how its last call ended
  faults,       \* faults so far
  overlap       \* history: has a proton thread been created while another one
                \* ran, or while a call of stop was under way?

threadVars == <<state, lastError, command, subscribed>>
container  == <<messenger, errno, socketsOpen>>
connection == <<endPoint, io, protonThread, left>>
callers    == <<calls, outcome, joining, overlap>>
vars       == <<threadVars, container, connection, pc, callers, faults>>

Sides  == {"incoming", "outgoing"}
States == {"starting", "started", "retrying", "stopping", "stopped"}
Errors == {"none", "network", "security", "replaced", "subscribed", "other"}

(* An I/O thread has not been created, runs, has found the connection lost  *)
(* and pauses before it says so, or is dead.                                *)
IOStates == {"none", "run", "lost", "dead"}

ProtonPCs == {"new", "loop", "services", "dial", "open", "connect", "threads",
              "handshake", "reinstate", "up", "unreachable", "refused", "rejected",
              "tried", "oos", "interpret", "sockets", "closed", "dead"}
UserPCs   == {"idle", "start", "create", "await",
              "started?", "stopping", "close", "closing", "stop", "forget", "join",
              "release", "command"}

TypeOK ==
  /\ state \in States
  /\ lastError \in Errors
  /\ command \in {"idle", "waiting", "executing"}
  /\ subscribed \in BOOLEAN
  /\ messenger \in BOOLEAN
  /\ errno \in {"none", "takeover", "lost"}
  /\ socketsOpen \in BOOLEAN
  /\ endPoint \in EndPoints \cup {None}
  /\ io \in [EndPoints -> [Sides -> IOStates]]
  /\ protonThread \in Protons \cup {None}
  /\ left \in [Protons -> Nat]
  /\ pc \in [Users \cup Protons -> UserPCs \cup ProtonPCs]
  /\ \A u \in Users : pc[u] \in UserPCs
  /\ \A p \in Protons : pc[p] \in ProtonPCs
  /\ calls \in [Users -> Nat]
  /\ outcome \in [Users -> {"none", "returned", "raised", "TypeError"}]
  /\ joining \in [Users -> Protons \cup {None}]
  /\ faults \in Nat
  /\ overlap \in BOOLEAN

Threads(status) == [side \in Sides |-> status]

(* The client as it is before its constructor calls start.                  *)
Init ==
  /\ state = "stopped"
  /\ lastError = "none"
  /\ command = "idle"
  /\ subscribed = FALSE
  /\ messenger = FALSE
  /\ errno = "none"
  /\ socketsOpen = FALSE
  /\ endPoint = None
  /\ io = [e \in EndPoints |-> Threads("dead")]
  /\ protonThread = None
  /\ left = [p \in Protons |-> 0]
  /\ pc = [t \in Users \cup Protons |-> IF t \in Users THEN "idle" ELSE "new"]
  /\ calls = [u \in Users |-> 0]
  /\ outcome = [u \in Users |-> "none"]
  /\ joining = [u \in Users |-> None]
  /\ faults = 0
  /\ overlap = FALSE

-----------------------------------------------------------------------------
Goto(t, label) == pc' = [pc EXCEPT ![t] = label]

Fault == faults < MaxFaults /\ faults' = faults + 1

(* change_state: the reason is kept even if the state stays the same.       *)
ChangeState(new, reason) ==
  /\ state' = new
  /\ lastError' = reason
  /\ UNCHANGED <<command, subscribed>>

(* The proton thread holds the container's mutex while it looks for errors. *)
ContainerFree == \A p \in Protons : pc[p] \notin {"interpret", "sockets", "closed"}

(* The messenger goes, and with it its error.                               *)
DropMessenger == messenger' = FALSE /\ errno' = "none"

Live(e) == \E side \in Sides : io[e][side] \in {"run", "lost"}

(* close_end_point: both threads of the end point are killed.  It raises a  *)
(* NoMethodError if they have not been created yet.                         *)
Closable == endPoint # None => io[endPoint]["incoming"] # "none"
CloseEndPoint ==
  /\ endPoint' = None
  /\ io' = IF endPoint = None THEN io ELSE [io EXCEPT ![endPoint] = Threads("dead")]

(* An error that connect_to_a_server does not rescue ends the proton        *)
(* thread, after the ensure clause; the state is left as it is.             *)
Dies(p) ==
  /\ Goto(p, "dead")
  /\ IF state = "stopped" /\ Closable THEN CloseEndPoint ELSE UNCHANGED <<endPoint, io>>

-----------------------------------------------------------------------------
(* The proton thread: proton_loop                                           *)

(* processing_command is set from the moment a request is taken to its end. *)
NeedsConnection == subscribed \/ command # "idle"

(* Mutated form: a request that waits for the connection is not enough to   *)
(* reconnect.                                                               *)
LoopForSubscriptions(p) ==
  /\ pc[p] = "loop"
  /\ Goto(p, CASE state = "stopped"                        -> "dead"
               [] state = "starting"                       -> "services"
               [] state = "retrying" /\ subscribed         -> "services"
               [] OTHER                                    -> "oos")
  /\ UNCHANGED <<threadVars, container, connection, callers, faults>>

(* The top of the loop, once a second or less often: in a stopped client    *)
(* the thread ends; a client that is starting, or retrying with something   *)
(* to do, is connected.                                                     *)
ProtonLoop(p) ==
  /\ pc[p] = "loop"
  /\ Goto(p, CASE state = "stopped"                        -> "dead"
               [] state = "starting"                       -> "services"
               [] state = "retrying" /\ NeedsConnection    -> "services"
               [] OTHER                                    -> "oos")
  /\ UNCHANGED <<threadVars, container, connection, callers, faults>>

(* connect_to_a_server, first part: the list of services, possibly from an  *)
(* HTTP service, which may be unreachable, answer nonsense or be empty.     *)
GetServices(p) ==
  /\ pc[p] = "services"
  /\ \/ /\ \E n \in 1..Services : left' = [left EXCEPT ![p] = n]
        /\ ChangeState("starting", "none")
        /\ Goto(p, "dial")
        /\ UNCHANGED faults
     \/ /\ Fault
        /\ \/ ChangeState("retrying", "network")
           \/ ChangeState("stopped", "other")
           \/ UNCHANGED threadVars
        /\ Goto(p, "oos")
        /\ UNCHANGED left
  /\ UNCHANGED <<container, endPoint, io, protonThread, callers>>

(* Mutated form: the last end point is forgotten instead of closed.         *)
DialOver(p) ==
  /\ pc[p] = "dial"
  /\ left' = [left EXCEPT ![p] = @ - 1]
  /\ endPoint' = None
  /\ Goto(p, "open")
  /\ UNCHANGED <<threadVars, container, io, protonThread, callers, faults>>

(* The next service: whatever is left of the last end point is closed.      *)
Dial(p) ==
  /\ pc[p] = "dial"
  /\ left' = [left EXCEPT ![p] = @ - 1]
  /\ \/ Closable /\ CloseEndPoint /\ Goto(p, "open")
     \/ ~Closable /\ Dies(p)
  /\ UNCHANGED <<threadVars, container, protonThread, callers, faults>>

(* A new end point: its TCP connection and, for amqps, its TLS session.     *)
Open(p) ==
  /\ pc[p] = "open"
  /\ \E e \in EndPoints :
       /\ e # endPoint /\ ~Live(e)
       /\ endPoint' = e
       /\ io' = [io EXCEPT ![e] = Threads("none")]
  /\ socketsOpen' = TRUE
  /\ Goto(p, "connect")
  /\ UNCHANGED <<threadVars, messenger, errno, protonThread, left, callers, faults>>

(* TCP fails; TLS fails, which leaves sockets_open set; or the TLS options  *)
(* raise an ArgumentError, which nothing in the proton thread catches.      *)
OpenFails(p) ==
  /\ pc[p] = "open"
  /\ Fault
  /\ \/ Goto(p, "unreachable") /\ UNCHANGED <<socketsOpen, endPoint, io>>
     \/ /\ socketsOpen' = TRUE
        /\ \E next \in {"unreachable", "refused"} : Goto(p, next)
        /\ UNCHANGED <<endPoint, io>>
     \/ BadOptions /\ socketsOpen' = TRUE /\ Dies(p)
  /\ UNCHANGED <<threadVars, messenger, errno, protonThread, left, callers>>

(* ProtonContainer#connect: a new messenger...                              *)
Connect(p) ==
  /\ pc[p] = "connect"
  /\ ContainerFree
  /\ messenger' = TRUE
  /\ errno' = "none"
  /\ Goto(p, "threads")
  /\ UNCHANGED <<threadVars, socketsOpen, connection, callers, faults>>

(* ...which may not start, or not resolve the service: a ProtonError or an  *)
(* InternalError, which nothing in the proton thread catches.               *)
ConnectFails(p) ==
  /\ pc[p] = "connect"
  /\ ContainerFree
  /\ Fault
  /\ messenger' = TRUE
  /\ errno' \in {"none", "lost"}
  /\ Dies(p)
  /\ UNCHANGED <<threadVars, socketsOpen, protonThread, left, callers>>

(* start_connection_threads.  The outgoing thread needs the messenger.      *)
StartIO(p) ==
  /\ pc[p] = "threads"
  /\ \/ endPoint = None /\ Dies(p)
     \/ /\ endPoint # None
        /\ io' = [io EXCEPT ![endPoint] = [incoming |-> "run",
                                           outgoing |-> IF messenger THEN "run" ELSE "dead"]]
        /\ Goto(p, "handshake")
        /\ UNCHANGED endPoint
  /\ UNCHANGED <<threadVars, container, protonThread, left, callers, faults>>

(* wait_messenger_started: the server accepts the client.                   *)
Accepted(p) ==
  /\ pc[p] = "handshake"
  /\ ContainerFree
  /\ messenger /\ errno = "none" /\ socketsOpen
  /\ Goto(p, IF subscribed THEN "reinstate" ELSE "up")
  /\ UNCHANGED <<threadVars, container, connection, callers, faults>>

(* wait_messenger_started fails: the messenger holds an error or does not   *)
(* start in time, and is dropped; the error is about security, or not.  If  *)
(* only the socket has been closed meanwhile the messenger stays.           *)
HandshakeFails(p) ==
  /\ pc[p] = "handshake"
  /\ ContainerFree /\ messenger
  /\ \/ /\ errno # "none" \/ ~socketsOpen
        /\ DropMessenger
        /\ Goto(p, "unreachable")
        /\ UNCHANGED faults
     \/ /\ ~socketsOpen
        /\ Goto(p, "unreachable")
        /\ UNCHANGED <<messenger, errno, faults>>
     \/ /\ errno = "none"
        /\ Fault
        /\ DropMessenger
        /\ \E next \in {"unreachable", "refused"} : Goto(p, next)
  /\ UNCHANGED <<threadVars, socketsOpen, connection, callers>>

(* reinstate_links: every destination is subscribed to again, or the server *)
(* refuses one.  There is no limit to the wait for its answer.              *)
Reinstate(p) ==
  /\ pc[p] = "reinstate"
  /\ ContainerFree
  /\ messenger /\ errno = "none"
  /\ \/ Goto(p, "up") /\ UNCHANGED faults
     \/ Goto(p, "rejected") /\ Fault
  /\ UNCHANGED <<threadVars, container, connection, callers>>

(* Any error of the messenger counts as a refusal, also that of the idle    *)
(* timeout on a connection that is dead.                                    *)
ReinstateFails(p) ==
  /\ pc[p] = "reinstate"
  /\ ContainerFree
  /\ messenger /\ errno # "none"
  /\ Goto(p, "rejected")
  /\ UNCHANGED <<threadVars, container, connection, callers, faults>>

(* Another thread, in stop, has freed the messenger: a RuntimeError, which  *)
(* nothing in the proton thread catches.                                    *)
MessengerGone(p) ==
  /\ pc[p] \in {"handshake", "reinstate"}
  /\ ContainerFree
  /\ ~messenger
  /\ Dies(p)
  /\ UNCHANGED <<threadVars, container, protonThread, left, callers, faults>>

(* What comes of the attempt.  Nothing is checked before the client is      *)
(* started, and only the last service's network error makes it retry.       *)
Outcome(p) ==
  /\ \/ pc[p] = "up" /\ ChangeState("started", "none")
     \/ pc[p] = "refused" /\ ChangeState("stopped", "security")
     \/ pc[p] = "rejected" /\ ChangeState("stopped", "subscribed")
     \/ pc[p] = "unreachable" /\ left[p] = 0 /\ ChangeState("retrying", "network")
     \/ pc[p] = "unreachable" /\ left[p] > 0 /\ UNCHANGED threadVars
  /\ Goto(p, "tried")
  /\ UNCHANGED <<container, connection, callers, faults>>

(* Mutated form: one service too many.                                      *)
EndAttemptLate(p) ==
  /\ pc[p] = "tried"
  /\ IF state = "stopped" /\ Closable THEN CloseEndPoint ELSE UNCHANGED <<endPoint, io>>
  /\ Goto(p, CASE state = "stopped" /\ ~Closable                       -> "dead"
               [] state \notin {"stopped", "started"} /\ left[p] >= 0  -> "dial"
               [] OTHER                                                -> "oos")
  /\ UNCHANGED <<threadVars, container, protonThread, left, callers, faults>>

(* The end of the attempt: a stopped client's end point is closed; the next *)
(* service follows unless the client is stopped or started.                 *)
EndAttempt(p) ==
  /\ pc[p] = "tried"
  /\ IF state = "stopped" /\ Closable THEN CloseEndPoint ELSE UNCHANGED <<endPoint, io>>
  /\ Goto(p, CASE state = "stopped" /\ ~Closable                       -> "dead"
               [] state \notin {"stopped", "started"} /\ left[p] > 0   -> "dial"
               [] OTHER                                                -> "oos")
  /\ UNCHANGED <<threadVars, container, protonThread, left, callers, faults>>

(* check_for_out_of_sequence_messages takes the container's mutex and, in   *)
(* a client that is started, looks for an error of the messenger...         *)
CheckMessenger(p) ==
  /\ pc[p] = "oos"
  /\ ContainerFree
  /\ Goto(p, IF ~messenger THEN "loop"
             ELSE IF errno # "none" /\ state = "started" THEN "interpret" ELSE "sockets")
  /\ UNCHANGED <<threadVars, container, connection, callers, faults>>

(* interpret_message: the error is cleared and changes the state.           *)
Interpret ==
  /\ errno' = "none"
  /\ IF errno = "takeover" THEN ChangeState("stopped", "replaced")
                           ELSE ChangeState("retrying", "network")
  /\ UNCHANGED <<messenger, socketsOpen>>

InterpretMessage(p) ==
  /\ pc[p] = "interpret"
  /\ Interpret
  /\ Goto(p, "sockets")
  /\ UNCHANGED <<connection, callers, faults>>

(* Mutated form: the socket is not looked at.                               *)
TrustSockets(p) ==
  /\ pc[p] = "sockets"
  /\ Goto(p, "loop")
  /\ UNCHANGED <<threadVars, container, connection, callers, faults>>

(* ...then for a closed socket.                                             *)
CheckSockets(p) ==
  /\ pc[p] = "sockets"
  /\ Goto(p, IF ~socketsOpen /\ state = "started" THEN "closed" ELSE "loop")
  /\ UNCHANGED <<threadVars, container, connection, callers, faults>>

ReportClosed(p) ==
  /\ pc[p] = "closed"
  /\ ChangeState("retrying", "network")
  /\ Goto(p, "loop")
  /\ UNCHANGED <<container, connection, callers, faults>>

-----------------------------------------------------------------------------
(* The I/O threads                                                          *)

IO(e, side, status) == io' = [io EXCEPT ![e][side] = status]

KeepIO == UNCHANGED <<endPoint, protonThread, left, pc, callers>>

(* The loop ends in a stopped client or with a closed socket.               *)
EndIO(e, side) ==
  /\ io[e][side] = "run"
  /\ state = "stopped" \/ ~socketsOpen
  /\ IO(e, side, "dead")
  /\ socketsOpen' = (socketsOpen /\ side = "outgoing")
  /\ UNCHANGED <<threadVars, messenger, errno, faults>> /\ KeepIO

(* Mutated form: the flag stays set.                                        *)
QuietEnd(e) ==
  /\ io[e]["incoming"] = "run"
  /\ Fault
  /\ IO(e, "incoming", "dead")
  /\ UNCHANGED <<threadVars, container>> /\ KeepIO

(* The server closes the connection: recv returns an empty string.  Nobody  *)
(* is told, but for the flag.                                               *)
EndOfStream(e) ==
  /\ io[e]["incoming"] = "run"
  /\ Fault
  /\ IO(e, "incoming", "dead")
  /\ socketsOpen' = FALSE
  /\ UNCHANGED <<threadVars, messenger, errno>> /\ KeepIO

(* ECONNRESET, or EOFError of TLS, while reading.                           *)
Reset(e) ==
  /\ io[e]["incoming"] = "run"
  /\ Fault
  /\ IO(e, "incoming", IF state \in {"stopping", "stopped"} THEN "dead" ELSE "lost")
  /\ socketsOpen' = FALSE
  /\ UNCHANGED <<threadVars, messenger, errno>> /\ KeepIO

(* EPIPE while writing.                                                     *)
BrokenPipe(e) ==
  /\ io[e]["outgoing"] = "run"
  /\ Fault
  /\ IO(e, "outgoing", "lost")
  /\ socketsOpen' = FALSE
  /\ UNCHANGED <<threadVars, messenger, errno>> /\ KeepIO

(* Half a second later the client is made to retry, whatever its state is.  *)
ReportLoss(e, side) ==
  /\ io[e][side] = "lost"
  /\ ChangeState("retrying", "network")
  /\ IO(e, side, IF side = "incoming" THEN "dead" ELSE "run")
  /\ socketsOpen' = (socketsOpen /\ side = "outgoing")
  /\ UNCHANGED <<messenger, errno, faults>> /\ KeepIO

(* The server says why it closes the connection: the incoming thread hands  *)
(* it to the messenger.                                                     *)
ServerCloses ==
  /\ messenger /\ errno = "none" /\ socketsOpen
  /\ endPoint # None /\ io[endPoint]["incoming"] = "run"
  /\ Fault
  /\ errno' \in {"lost"} \cup IF Takeovers THEN {"takeover"} ELSE {}
  /\ UNCHANGED <<threadVars, messenger, socketsOpen, io>> /\ KeepIO

(* The messenger may find out by itself that nothing arrives any more.      *)
IdleTimeout ==
  /\ messenger /\ errno = "none" /\ ~socketsOpen
  /\ ContainerFree
  /\ errno' = "lost"
  /\ UNCHANGED <<threadVars, messenger, socketsOpen, io, faults>> /\ KeepIO

-----------------------------------------------------------------------------
(* The command thread and the calls that use it, as far as they matter here *)

KeepConnection == UNCHANGED <<connection, pc, callers>>

(* process_request_queue takes a request...                                 *)
TakeRequest ==
  /\ command = "idle"
  /\ protonThread # None /\ state # "stopped"
  /\ command' = "waiting"
  /\ UNCHANGED <<state, lastError, subscribed, container, faults>> /\ KeepConnection

(* ...executes it while the client is neither connecting nor stopped...     *)
Execute ==
  /\ command = "waiting"
  /\ state \in {"started", "stopping"}
  /\ command' = "executing"
  /\ UNCHANGED <<state, lastError, subscribed, container, faults>> /\ KeepConnection

(* ...and is done with it, having added a destination if it subscribed,     *)
(* whatever the state is by then.                                           *)
EndRequest ==
  /\ command # "idle"
  /\ command' = "idle"
  /\ \/ UNCHANGED subscribed
     \/ command = "executing" /\ subscribed' = TRUE
  /\ UNCHANGED <<state, lastError, container, faults>> /\ KeepConnection

(* The application thread that unsubscribes removes the destination.        *)
Unsubscribe ==
  /\ subscribed
  /\ subscribed' = FALSE
  /\ UNCHANGED <<state, lastError, command, container, faults>> /\ KeepConnection

(* A request is to be executed again: the client is not started any more    *)
(* (RetryError), or the request failed with a NetworkError.                 *)
Retry ==
  /\ command = "executing"
  /\ command' = "waiting"
  /\ \/ state # "started" /\ UNCHANGED <<state, lastError, faults>>
     \/ Fault /\ state' = "retrying" /\ lastError' = "none"
  /\ UNCHANGED <<subscribed, container>> /\ KeepConnection

(* A request fails with a StateError, or a message cannot be settled: the   *)
(* command thread interprets the messenger's error, or finds the socket     *)
(* closed.                                                                  *)
CommandInterprets ==
  /\ command = "executing"
  /\ ContainerFree /\ messenger
  /\ \/ errno # "none" /\ Interpret
     \/ /\ state = "started" /\ ~socketsOpen
        /\ ChangeState("retrying", "network")
        /\ UNCHANGED container
  /\ UNCHANGED faults /\ KeepConnection

-----------------------------------------------------------------------------
(* The application threads: start                                           *)

Alive(p) == pc[p] \notin {"new", "dead"}
Stopping == \E u \in Users : pc[u] \in {"started?", "stopping", "close", "closing", "stop",
                                       "forget", "join", "release", "command"}

MakeCall(u, a) ==
  /\ pc[u] = "idle"
  /\ a \in Calls
  /\ calls[u] < MaxCalls
  /\ calls' = [calls EXCEPT ![u] = @ + 1]
  /\ UNCHANGED <<joining, overlap>>

Return(u, how) ==
  /\ Goto(u, "idle")
  /\ outcome' = [outcome EXCEPT ![u] = how]

BeginStart(u) ==
  /\ MakeCall(u, "start")
  /\ \/ state # "stopped" /\ Return(u, "returned")
     \/ /\ state = "stopped"
        /\ Cardinality({p \in Protons : pc[p] = "new"})
             > Cardinality({v \in Users : pc[v] \in {"start", "create"}})
        /\ Goto(u, "start")
        /\ UNCHANGED outcome
  /\ UNCHANGED <<threadVars, container, connection, faults>>

SetStarting(u) ==
  /\ pc[u] = "start"
  /\ ChangeState("starting", "none")
  /\ Goto(u, "create")
  /\ UNCHANGED <<container, connection, callers, faults>>

(* The new proton thread (the command and callback threads are created with *)
(* it).                                                                     *)
CreateThread(u) ==
  /\ pc[u] = "create"
  /\ \E p \in Protons :
       /\ pc[p] = "new"
       /\ protonThread' = p
       /\ pc' = [pc EXCEPT ![u] = "await", ![p] = "loop"]
  /\ overlap' = (overlap \/ (\E p \in Protons : Alive(p)) \/ Stopping)
  /\ UNCHANGED <<threadVars, container, endPoint, io, left, calls, outcome, joining, faults>>

(* Mutated form: start waits until the client is connected.                 *)
AwaitStarted(u) ==
  /\ pc[u] = "await"
  /\ state \in {"started", "stopped"}
  /\ Return(u, IF state # "stopped" THEN "returned"
               ELSE IF lastError = "none" THEN "TypeError" ELSE "raised")
  /\ UNCHANGED <<threadVars, container, connection, calls, joining, overlap, faults>>

(* A client that is stopped again fails with the reason, which may be nil.  *)
EndStart(u) ==
  /\ pc[u] = "await"
  /\ state \in {"retrying", "started", "stopped"}
  /\ Return(u, IF state # "stopped" THEN "returned"
               ELSE IF lastError = "none" THEN "TypeError" ELSE "raised")
  /\ UNCHANGED <<threadVars, container, connection, calls, joining, overlap, faults>>

(* stop                                                                     *)
BeginStop(u) ==
  /\ MakeCall(u, "stop")
  /\ \/ state = "stopped" /\ Return(u, "returned")
     \/ state # "stopped" /\ Goto(u, "started?") /\ UNCHANGED outcome
  /\ UNCHANGED <<threadVars, container, connection, faults>>

IfStarted(u) ==
  /\ pc[u] = "started?"
  /\ Goto(u, IF state = "started" THEN "stopping" ELSE "stop")
  /\ UNCHANGED <<threadVars, container, connection, callers, faults>>

SetStopping(u) ==
  /\ pc[u] = "stopping"
  /\ ChangeState("stopping", "none")
  /\ Goto(u, "close")
  /\ UNCHANGED <<container, connection, callers, faults>>

(* ProtonContainer#stop: the connection is closed in order...               *)
CloseConnection(u) ==
  /\ pc[u] = "close"
  /\ ContainerFree /\ messenger
  /\ Goto(u, "closing")
  /\ UNCHANGED <<threadVars, container, connection, callers, faults>>

(* ...and the messenger freed, when the server has closed it as well, for   *)
(* which there is no limit.                                                 *)
FreeMessenger(u) ==
  /\ pc[u] = "closing"
  /\ ContainerFree /\ messenger
  /\ DropMessenger
  /\ Goto(u, "stop")
  /\ UNCHANGED <<threadVars, socketsOpen, connection, callers, faults>>

(* Without a messenger it raises, and the client stays stopping.            *)
NothingToStop(u) ==
  /\ pc[u] \in {"close", "closing"}
  /\ ContainerFree /\ ~messenger
  /\ Return(u, "raised")
  /\ UNCHANGED <<threadVars, container, connection, calls, joining, overlap, faults>>

SetStopped(u) ==
  /\ pc[u] = "stop"
  /\ ChangeState("stopped", "none")
  /\ Goto(u, "forget")
  /\ UNCHANGED <<container, connection, callers, faults>>

(* The list is cleared, and stop_thread looks up the thread to join.        *)
ClearSubscriptions(u) ==
  /\ pc[u] = "forget"
  /\ subscribed' = FALSE
  /\ joining' = [joining EXCEPT ![u] = protonThread]
  /\ Goto(u, "join")
  /\ UNCHANGED <<state, lastError, command, container, connection, calls, outcome, overlap,
                 faults>>

(* stop_thread: the proton thread has ended...  (what is raised for want of *)
(* a thread is ignored)                                                     *)
JoinThread(u) ==
  /\ pc[u] = "join"
  /\ \/ joining[u] = None /\ Goto(u, "command")
     \/ joining[u] # None /\ pc[joining[u]] = "dead" /\ Goto(u, "release")
  /\ UNCHANGED <<threadVars, container, connection, callers, faults>>

(* ...and the end point is closed, whosever it is by now.                   *)
ReleaseEndPoint(u) ==
  /\ pc[u] = "release"
  /\ IF Closable THEN CloseEndPoint ELSE UNCHANGED <<endPoint, io>>
  /\ Goto(u, "command")
  /\ UNCHANGED <<threadVars, container, protonThread, left, callers, faults>>

(* Command#join: the command thread has ended, or is killed after five      *)
(* seconds.                                                                 *)
JoinCommand(u) ==
  /\ pc[u] = "command"
  /\ command' = "idle"
  /\ Return(u, "returned")
  /\ UNCHANGED <<state, lastError, subscribed, container, connection, calls, joining, overlap,
                 faults>>

-----------------------------------------------------------------------------
Proton(p) ==
  \/ ProtonLoop(p)
  \/ GetServices(p)
  \/ Dial(p)
  \/ Connect(p)
  \/ ConnectFails(p)
  \/ StartIO(p)
  \/ Accepted(p)
  \/ HandshakeFails(p)
  \/ ReinstateFails(p)
  \/ MessengerGone(p)
  \/ Outcome(p)
  \/ EndAttempt(p)
  \/ CheckMessenger(p)
  \/ InterpretMessage(p)
  \/ CheckSockets(p)
  \/ ReportClosed(p)

(* What a proton thread, or a caller of stop, waits for without limit: the  *)
(* server's part in a TLS session, in a subscription, in closing.           *)
Server == \/ \E p \in Protons : Open(p) \/ OpenFails(p) \/ Reinstate(p)
          \/ \E u \in Users : FreeMessenger(u)

NewCall(u) == BeginStart(u) \/ BeginStop(u)

User(u) ==
  \/ SetStarting(u)
  \/ CreateThread(u)
  \/ EndStart(u)
  \/ IfStarted(u)
  \/ SetStopping(u)
  \/ CloseConnection(u)
  \/ NothingToStop(u)
  \/ SetStopped(u)
  \/ ClearSubscriptions(u)
  \/ JoinThread(u)
  \/ ReleaseEndPoint(u)
  \/ JoinCommand(u)

Network == \/ \E e \in EndPoints : EndOfStream(e) \/ Reset(e) \/ BrokenPipe(e)
           \/ ServerCloses

IOThread(e, side) == EndIO(e, side) \/ ReportLoss(e, side)

Command ==
  \/ TakeRequest
  \/ Execute
  \/ EndRequest
  \/ Unsubscribe
  \/ Retry
  \/ CommandInterprets

Next ==
  \/ \E p \in Protons : Proton(p)
  \/ \E u \in Users : NewCall(u) \/ User(u)
  \/ \E e \in EndPoints, side \in Sides : IOThread(e, side)
  \/ Server
  \/ Network
  \/ IdleTimeout
  \/ Command

Spec == Init /\ [][Next]_vars

(* Every thread that can go on does; the first answer of a server (Accepted) *)
(* comes within the eight seconds after which the attempt fails.  The       *)
(* application, the requests, the server and the network are free.          *)
Fairness ==
  /\ \A p \in Protons : WF_vars(Proton(p))
  /\ \A u \in Users : WF_vars(User(u))
  /\ \A e \in EndPoints, side \in Sides : WF_vars(IOThread(e, side))

FairSpec == Spec /\ Fairness

-----------------------------------------------------------------------------
(* Properties                                                               *)

(* As long as no session has begun before the last one had ended, the I/O   *)
(* threads that are alive are those of @end_point: none is left behind that *)
(* could report the loss of a connection that is long gone, or clear        *)
(* sockets_open under a new one (connection.rb, connect_to_a_server,        *)
(* close_end_point).                                                        *)
ThreadsOfEndPoint == overlap \/ \A e \in EndPoints : Live(e) => e = endPoint

(* On the same condition, while the client is started, and nobody is        *)
(* stopping it, there are a messenger, an end point and a proton thread     *)
(* that watches over them, and unless the socket is known to be closed      *)
(* somebody reads from it (connection.rb; proton_container.rb,              *)
(* sockets_open).                                                           *)
StartedIsServed ==
  \/ overlap
  \/ state = "started" /\ ~Stopping =>
       /\ messenger
       /\ pc[protonThread] # "dead"
       /\ endPoint # None
       /\ socketsOpen => io[endPoint]["incoming"] = "run"

(* A closed socket does not go unnoticed, not even when the server closes   *)
(* the stream without an error: the client does not stay started            *)
(* (proton_container.rb, check_for_out_of_sequence_messages).               *)
ClosedIsNoticed ==
  state = "started" /\ ~socketsOpen ~> state # "started" \/ socketsOpen

(* The server does its part: no proton thread waits for ever for its TLS    *)
(* session or for its answer to a subscription.                             *)
ServerAnswers == \A p \in Protons : []<>(pc[p] \notin {"open", "reinstate"})

(* An error that connect_to_a_server does not rescue has ended the proton   *)
(* thread of a client that is not stopped: nothing connects it any more.    *)
Broken ==
  /\ protonThread # None /\ pc[protonThread] = "dead" /\ state # "stopped"
  /\ \A u \in Users : pc[u] # "create"

(* A client that has lost its connection, and has subscriptions or a        *)
(* request to process, connects again or is stopped, if the server does its *)
(* part and no error has ended its proton thread (connection.rb,            *)
(* proton_loop).                                                            *)
Reconnects ==
  ServerAnswers =>
    (state = "retrying" /\ NeedsConnection
       ~> state \in {"started", "stopped"} \/ ~NeedsConnection \/ Broken)

(* start, and so the constructor, returns, on the same conditions           *)
(* (blocking_client.rb, start).                                             *)
StartReturns ==
  ServerAnswers =>
    \A u \in Users : pc[u] \in {"start", "create", "await"} ~> pc[u] = "idle" \/ Broken

(* stop returns, and leaves a stopped client (blocking_client.rb, stop).    *)
StopStops ==
  ServerAnswers =>
    \A u \in Users : pc[u] \in {"stop", "forget", "join", "release", "command"}
                       ~> pc[u] = "idle" /\ state = "stopped"

(* When a client is replaced by another one the server says so before it    *)
(* closes the connection, and an I/O thread reports the loss only when that *)
(* message has been processed, so that the client stops, and does not       *)
(* retry (connection.rb, incoming_thread, outgoing_thread).                 *)
Reports(e, side) == io[e][side] = "lost" /\ io'[e][side] # "lost"
CloseIsFirst ==
  [][\A e \in EndPoints, side \in Sides :
       Reports(e, side) /\ state # "retrying" /\ errno = "takeover" =>
         state' # "retrying"]_vars

(* When subscriptions are reinstated, a failure of the network makes the    *)
(* client retry, as it does anywhere else in connect_to_a_server; only a    *)
(* subscription that the server rejects stops it (connection.rb,            *)
(* connect_to_a_server; proton_container.rb, reinstate_links).              *)
LossDoesNotStop ==
  [][lastError' = "subscribed" /\ state # "stopped" /\ state' = "stopped" =>
       errno # "lost" /\ socketsOpen]_vars

=============================================================================
