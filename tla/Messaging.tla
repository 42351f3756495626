----------------------------- MODULE Messaging -----------------------------
(***************************************************************************)
(* What a request does once the command thread has taken it: sending with  *)
(* its trackers, subscriptions and their links, receiving with credit,     *)
(* accept and settle, unsubscribing, and the confirmation of a delivery by *)
(* the application, while connections to the server are lost and replaced. *)
(* One application thread calls, another may confirm; how several callers  *)
(* share the command thread is RequestQueue's subject, and how a           *)
(* connection is made Connection's.                                        *)
(*                                                                         *)
(* A step is a section under the container's monitor, or a read of the     *)
(* state.  The messenger (a C object, new for each connection), the        *)
(* network and the server are external.                                    *)
(***************************************************************************)
EXTENDS Naturals, Sequences, FiniteSets, SequencesExt

CONSTANTS
  Destinations,  \* the topic patterns that the application subscribes to
  AtLeastOnce,   \* those subscribed to with QoS 1
  Manual,        \* those of QoS 1 with auto_confirm false
  Refused,       \* those the server refuses
  SendQoS,       \* the qualities of service of sends; {} for none
  Resubscribe,   \* may the application subscribe to a destination again?
  MaxCalls,      \* bound: calls of the application
  MaxPublished,  \* bound: messages that other clients publish
  MaxFaults,     \* bound: lost connections and requests that time out
  None

ASSUME DestinationsAssumption ==
  /\ Manual \subseteq AtLeastOnce
  /\ AtLeastOnce \subseteq Destinations
  /\ Refused \subseteq Destinations
  /\ SendQoS \subseteq {0, 1}
  /\ Resubscribe \in BOOLEAN

ASSUME MessagingBounds ==
  MaxCalls \in Nat /\ MaxPublished \in Nat /\ MaxFaults \in Nat

VARIABLES
  \* ThreadVars
  state,         \* "started" | "retrying" | "stopped"
  destinations,  \* the destinations remembered, oldest first
  replies,       \* reply_queue
  \* the application
  user,          \* "idle" | "called" | "wait": before the call, before push_request, in it
  request,       \* the request of the current call
  sends,         \* how many sends have been made
  calls,         \* how many calls of any kind have been made
  held,          \* the messages the application was given and can confirm
  \* the command thread
  pc,            \* where it is in the request
  status,        \* the status of the tracker that it has read
  message,       \* the message that it has fetched
  handle,        \* the link it holds: None, "current", or one of a lost messenger: "up" | "down"
  \* the messenger of the current connection
  reinstating,   \* how many destinations a connection attempt has subscribed to again,
                 \* and the one whose link it waits for; None when there is no attempt
  gen,           \* its number
  alive,         \* is its connection up?
  errno,         \* the error that it holds: "none" | "aborted" | "refused"
  mode,          \* its settle modes: "default" | "settled" (QoS 0) | "unsettled" (QoS 1)
  outgoing,      \* what was put on it
  link,          \* its links: "none" | "opening" | "open" | "closing" | "refused"
  linkMode,      \* the settle mode each link was created with
  credit,        \* the credit of each link
  incoming,      \* messages that arrived and were not fetched
  fetched,       \* the message fetched last: the one the incoming tracker names
  \* the server
  inbox,         \* the messages waiting at their destinations
  unsettled,     \* messages given to this client and not settled
  settled,       \* messages that the client has settled
  presettled,    \* messages that the server considered settled as it sent them
  published,     \* how many messages were published
  \* history
  given,         \* the messages pushed to the reply queue, in order
  promise,       \* the record of sends that SendPromise speaks of
  strays,        \* replies that no caller is owed: since the last send, how many
                 \* replies unsubscribe had and receives had to one request too many
  faults         \* how many faults have happened

threadVars  == <<state, destinations, replies>>
application == <<user, request, sends, calls, held>>
command     == <<pc, status, message, handle>>
transport   == <<reinstating, gen, alive, errno, mode>>
links       == <<link, linkMode, credit>>
arrived     == <<incoming, fetched>>
messenger   == <<transport, outgoing, links, arrived>>
server      == <<inbox, unsettled, settled, presettled, published>>
history     == <<given, promise, strays>>
vars        == <<threadVars, application, command, messenger, server, history, faults>>

\* "rejected" stands for released, modified and unexpected statuses too, and
\* "accepted" for settled.
Statuses == {"unknown", "pending", "accepted", "rejected", "aborted"}

NoRequest == [op |-> "none"]

QoS(d) == IF d \in AtLeastOnce THEN 1 ELSE 0

Modes == {"default", "settled", "unsettled"}

SettleMode(qos) == IF qos = 0 THEN "settled" ELSE "unsettled"

\* A message published to a destination has a number of its own.
Message == [dest : Destinations, id : 1 .. MaxPublished]

\* An entry of the outgoing store.  "tracked" says whether its tracker is still
\* known: a settled one is not.
Entry == [call : 1 .. MaxCalls, tracked : BOOLEAN,
          place : {"buffered", "sent", "arrived"}, status : Statuses]

\* A reply is nil, an error, a timeout, or a delivery.
Results == {"ok", "error", "timeout"}
Reply   == [result : Results, message : Message \cup {None}]
Plain(result) == [result |-> result, message |-> None]

Requests ==
  [op : {"send"}, qos : SendQoS, dest : {None}, timed : BOOLEAN]
    \cup [op : {"subscribe", "unsubscribe", "receive"}, qos : {0, 1}, dest : Destinations, timed : BOOLEAN]

\* What is recorded of the sends, for SendPromise: of each call, its result, its
\* quality of service, the connections it began and ended with; and what arrived.
Records ==
  [result : [1 .. MaxCalls -> {"none", "open"} \cup Results], quality : [1 .. MaxCalls -> {0, 1}],
   began : [1 .. MaxCalls -> Nat], ended : [1 .. MaxCalls -> Nat], log : Seq((1 .. MaxCalls) \X Nat)]

TypeOK ==
  /\ state \in {"started", "retrying", "stopped"}
  /\ destinations \in Seq(Destinations)
  /\ replies \in Seq(Reply)
  /\ user \in {"idle", "called", "wait"}
  /\ request \in Requests \cup {NoRequest}
  /\ sends \in 0 .. MaxCalls /\ calls \in 0 .. MaxCalls
  /\ held \subseteq Message
  /\ pc \in {"idle", "ready", "perform", "buffered", "status", "judge", "linkUp", "closing",
             "open", "await", "awaited", "drain", "collect", "push", "accept"}
  /\ status \in Statuses
  /\ message \in Message \cup {None}
  /\ handle \in {None, "current", "up", "down"}
  /\ reinstating \in [count : Nat, dest : Destinations \cup {None}] \cup {None}
  /\ gen \in Nat \ {0}
  /\ alive \in BOOLEAN
  /\ errno \in {"none", "aborted", "refused"}
  /\ mode \in Modes
  /\ outgoing \in Seq(Entry)
  /\ link \in [Destinations -> {"none", "opening", "open", "closing", "refused"}]
  /\ linkMode \in [Destinations -> Modes]
  /\ credit \in [Destinations -> 0 .. 2]
  /\ incoming \in Seq(Message)
  /\ fetched \in Message \cup {None}
  /\ inbox \subseteq Message
  /\ unsettled \subseteq Message /\ settled \subseteq Message /\ presettled \subseteq Message
  /\ published \in 0 .. MaxPublished
  /\ given \in Seq(Message)
  /\ promise \in Records
  /\ strays \in Nat
  /\ faults \in 0 .. MaxFaults

All(value) == [d \in Destinations |-> value]

Init ==
  /\ state = "started" /\ destinations = <<>> /\ replies = <<>>
  /\ user = "idle" /\ request = NoRequest /\ sends = 0 /\ calls = 0 /\ held = {}
  /\ pc = "idle" /\ status = "unknown" /\ message = None /\ handle = None
  /\ reinstating = None /\ gen = 1 /\ alive = TRUE /\ errno = "none" /\ mode = "default"
  /\ outgoing = <<>>
  /\ link = All("none") /\ linkMode = All("default") /\ credit = All(0)
  /\ incoming = <<>> /\ fetched = None
  /\ inbox = {} /\ unsettled = {} /\ settled = {} /\ presettled = {} /\ published = 0
  /\ given = <<>>
  /\ promise = [result |-> [c \in 1 .. MaxCalls |-> "none"],
                quality |-> [c \in 1 .. MaxCalls |-> 0],
                began |-> [c \in 1 .. MaxCalls |-> 0],
                ended |-> [c \in 1 .. MaxCalls |-> 0],
                log |-> <<>>]
  /\ strays = 0
  /\ faults = 0

Fault == faults < MaxFaults /\ faults' = faults + 1

-----------------------------------------------------------------------------
(* The application *)

Call(op, qos, dest, timed) ==
  /\ user = "idle" /\ calls < MaxCalls /\ state # "stopped"
  /\ calls' = calls + 1
  /\ request' = [op |-> op, qos |-> qos, dest |-> dest, timed |-> timed]
  /\ user' = "called"
  /\ UNCHANGED <<threadVars, held, command, reinstating, gen, alive, errno, outgoing, links, arrived,
                 server, given, strays, faults>>

\* The settle modes are the messenger's: they are set before the request is
\* pushed, for every link made from then on.
CallSend(q, timed) ==
  /\ Call("send", q, None, timed)
  /\ mode' = SettleMode(q)
  /\ sends' = sends + 1
  /\ promise' = [promise EXCEPT !.result[sends'] = "open", !.quality[sends'] = q,
                                !.began[sends'] = gen]

CallSubscribe(d, timed) ==
  /\ Call("subscribe", QoS(d), d, timed)
  /\ Resubscribe \/ d \notin ToSet(destinations)
  /\ mode' = SettleMode(QoS(d))
  /\ UNCHANGED <<sends, promise>>

CallReceive(d, timed) ==
  /\ Call("receive", QoS(d), d, timed)
  /\ d \in ToSet(destinations)
  /\ UNCHANGED <<sends, mode, promise>>

CallUnsubscribe(d) ==
  /\ Call("unsubscribe", QoS(d), d, FALSE)
  /\ state = "started"
  /\ d \in ToSet(destinations)
  /\ UNCHANGED <<sends, mode, promise>>

Push ==
  /\ user = "called"
  /\ user' = "wait"
  /\ pc' = "ready"
  /\ IF request.op = "send" THEN replies' = <<>> /\ strays' = 0 ELSE UNCHANGED <<replies, strays>>
  /\ UNCHANGED <<state, destinations, request, sends, calls, held, status, message, handle,
                 messenger, server, given, promise, faults>>

\* push_request has returned.  unsubscribe forgets the destination whatever
\* came of it; the others pop their reply.
Return ==
  /\ user = "wait" /\ pc = "idle"
  /\ user' = "idle"
  /\ request' = NoRequest
  /\ IF request.op = "unsubscribe"
       THEN /\ destinations' = RemoveFirst(destinations, request.dest)
            /\ UNCHANGED <<replies, held, promise>>
       ELSE /\ replies # <<>>
            /\ replies' = Tail(replies)
            /\ held' = held \cup ({Head(replies).message} \ {None})
            /\ promise' = IF request.op # "send" THEN promise
                          ELSE [promise EXCEPT !.result[sends] = Head(replies).result,
                                               !.ended[sends] = gen]
            /\ UNCHANGED destinations
  /\ UNCHANGED <<state, sends, calls, command, messenger, server, given, strays, faults>>

\* Delivery#confirm, in any application thread at any time: the tracker it was
\* made with is not used, the message fetched last is settled.
Settle(m) ==
  IF m # None /\ alive /\ m \in unsettled
    THEN /\ unsettled' = unsettled \ {m}
         /\ settled' = settled \cup {m}
    ELSE UNCHANGED <<unsettled, settled>>

\* interpret_message: an error that the messenger holds is cleared and makes
\* the client retry.
Interpret ==
  /\ errno' = "none"
  /\ state' = IF errno = "none" THEN state ELSE "retrying"

Confirm(m) ==
  /\ m \in held /\ m.dest \in Manual
  /\ state = "started"
  /\ held' = held \ {m}
  /\ Settle(fetched)
  /\ Interpret
  /\ UNCHANGED <<destinations, replies, user, request, sends, calls, command, reinstating, gen, alive, mode,
                 outgoing, links, arrived, inbox, presettled, published, history, faults>>

-----------------------------------------------------------------------------
(* The command thread: process_request_queue *)

Goto(label) == pc' = label

\* The request is over: its reply is pushed and the command thread is free.
Finish(result) ==
  /\ Goto("idle")
  /\ replies' = Append(replies, Plain(result))
  /\ handle' = None

KeepAll == UNCHANGED <<application, server, history, faults>>

\* Requests wait while the client retries; a stopped client drops them.
Ready ==
  /\ pc = "ready" /\ state # "retrying"
  /\ Goto(IF state = "stopped" THEN "idle" ELSE "perform")
  /\ UNCHANGED <<threadVars, status, message, handle, messenger>>
  /\ KeepAll

\* The timeout of the request strikes wherever the thread is.
Expire ==
  /\ pc \notin {"idle", "accept"} /\ request.op \in {"send", "subscribe"} /\ request.timed
  /\ Fault
  /\ Finish("timeout")
  /\ UNCHANGED <<state, destinations, application, status, message, messenger, server, history>>

\* NetworkError, RetryError: the request will be executed again.
RetryRequest == Goto("ready") /\ handle' = None

-----------------------------------------------------------------------------
(* process_queued_send *)

Put ==
  /\ pc = "perform" /\ request.op = "send"
  /\ outgoing' = Append(outgoing, [call |-> sends, tracked |-> request.qos = 1,
                                   place |-> "buffered", status |-> "pending"])
  /\ Goto("buffered")
  /\ UNCHANGED <<threadVars, status, message, handle, transport, links, arrived>>
  /\ KeepAll

\* pn_messenger_put, settle or send refuses on a broken connection: any error
\* of the messenger is the caller's.
PutFails ==
  /\ pc = "perform" /\ request.op = "send" /\ ~alive
  /\ Finish("error")
  /\ UNCHANGED <<state, destinations, status, message, messenger>>
  /\ KeepAll

\* What the outgoing tracker of the messenger in use, the one of the message put
\* last, says. A messenger knows nothing of what was put on the one before it.
Tracked    == outgoing # <<>> /\ Last(outgoing).tracked
IsBuffered == Tracked /\ Last(outgoing).place = "buffered"
Status     == IF Tracked THEN Last(outgoing).status ELSE "unknown"

OutboundPending ==
  /\ pc = "buffered" /\ ~IsBuffered
  /\ Goto("status")
  /\ UNCHANGED <<threadVars, status, message, handle, messenger>>
  /\ KeepAll

TrackerStatus ==
  /\ pc = "status"
  /\ ~(Status = "pending" /\ state = "started")
  /\ status' = Status
  /\ Goto("judge")
  /\ UNCHANGED <<threadVars, message, handle, messenger>>
  /\ KeepAll

\* Mutated form: a rejected message is sent again.
JudgeWithRetry ==
  /\ pc = "judge"
  /\ IF state # "started" \/ status \in {"aborted", "rejected"}
       THEN RetryRequest /\ UNCHANGED <<state, replies>>
       ELSE Finish("ok") /\ UNCHANGED state
  /\ UNCHANGED <<destinations, status, message, messenger>>
  /\ KeepAll

\* The state has changed: repeat the send. Otherwise the status decides;
\* an aborted message is a lost connection, unknown counts as sent.
Judge ==
  /\ pc = "judge"
  /\ \/ /\ state # "started"
        /\ RetryRequest
        /\ UNCHANGED <<state, replies>>
     \/ /\ state = "started" /\ status = "aborted"
        /\ state' = "retrying"
        /\ RetryRequest
        /\ UNCHANGED replies
     \/ /\ state = "started" /\ status # "aborted"
        /\ Finish(IF status = "rejected" THEN "error" ELSE "ok")
        /\ UNCHANGED state
  /\ UNCHANGED <<destinations, status, message, messenger>>
  /\ KeepAll

-----------------------------------------------------------------------------
(* process_queued_subscription, process_queued_unsubscribe *)

\* pn_messenger_subscribe_ttl: a link with the settle mode of the moment, or
\* the one that exists.
NewLink(d) ==
  /\ link' = [link EXCEPT ![d] = IF @ = "none" THEN "opening" ELSE @]
  /\ linkMode' = [linkMode EXCEPT ![d] = IF link[d] = "none" THEN mode ELSE @]
  /\ UNCHANGED credit

CreateSubscription ==
  /\ pc = "perform" /\ request.op = "subscribe"
  /\ NewLink(request.dest)
  /\ handle' = "current"
  /\ Goto("linkUp")
  /\ UNCHANGED <<threadVars, status, message, transport, outgoing, arrived>>
  /\ KeepAll

\* What link_up? sees of the link it was given, and of the messenger in use.
HandleUp == handle = "up" \/ (handle = "current" /\ link[request.dest] = "open")

\* The link is up, or the messenger holds an error. Either way the destination
\* is remembered.
LinkUp ==
  /\ pc = "linkUp"
  /\ HandleUp \/ errno # "none"
  /\ Finish(IF HandleUp THEN "ok" ELSE "error")
  /\ destinations' = Append(destinations, request.dest)
  /\ UNCHANGED <<state, status, message, messenger>>
  /\ KeepAll

\* No link: InternalError, replied to a caller that does not collect it.
CloseLinkFails ==
  /\ pc = "perform" /\ request.op = "unsubscribe"
  /\ link[request.dest] \in {"none", "closing"}
  /\ Finish("error")
  /\ strays' = strays + 1
  /\ UNCHANGED <<state, destinations, status, message, messenger, application, server, given, promise, faults>>

\* Mutated form: the close is not sent.
CloseLinkQuietly ==
  /\ pc = "perform" /\ request.op = "unsubscribe"
  /\ link[request.dest] \notin {"none", "closing"}
  /\ handle' = "current"
  /\ Goto("closing")
  /\ UNCHANGED <<threadVars, status, message, messenger>>
  /\ KeepAll

\* A detached or a closed link: this thread waits for the server's answer in
\* either case.
CloseLink ==
  /\ pc = "perform" /\ request.op = "unsubscribe"
  /\ link[request.dest] \notin {"none", "closing"}
  /\ link' = [link EXCEPT ![request.dest] = "closing"]
  /\ handle' = "current"
  /\ Goto("closing")
  /\ UNCHANGED <<threadVars, status, message, transport, outgoing, linkMode, credit, arrived>>
  /\ KeepAll

\* Mutated form: unsubscribe is replied to as well.
LinkClosedWithReply ==
  /\ pc = "closing" /\ handle = "current" /\ link[request.dest] = "none"
  /\ Finish("ok")
  /\ UNCHANGED <<state, destinations, status, message, messenger>>
  /\ KeepAll

LinkClosed ==
  /\ pc = "closing" /\ handle = "current" /\ link[request.dest] = "none"
  /\ Goto("idle") /\ handle' = None
  /\ UNCHANGED <<threadVars, status, message, messenger>>
  /\ KeepAll

-----------------------------------------------------------------------------
(* check_for_messages *)

\* check_for_out_of_sequence_messages: an error of the messenger or closed
\* sockets make a started client retry; the request goes on all the same.
CheckMessenger ==
  /\ errno' = IF state = "started" THEN "none" ELSE errno
  /\ state' = IF state = "started" /\ (errno # "none" \/ ~alive) THEN "retrying" ELSE state

CheckOutOfSequence ==
  /\ pc = "perform" /\ request.op = "receive"
  /\ CheckMessenger
  /\ Goto("open")
  /\ UNCHANGED <<destinations, replies, status, message, handle, reinstating, gen, alive, mode, outgoing, links,
                 arrived>>
  /\ KeepAll

\* A link without credit gets one.
OpenForMessage ==
  /\ pc = "open" /\ link[request.dest] # "none"
  /\ credit' = [credit EXCEPT ![request.dest] = IF @ = 0 THEN 1 ELSE @]
  /\ handle' = "current"
  /\ Goto("await")
  /\ UNCHANGED <<threadVars, status, message, transport, outgoing, link, linkMode, arrived>>
  /\ KeepAll

NoLink ==
  /\ pc = "open" /\ link[request.dest] = "none"
  /\ Finish("error")
  /\ UNCHANGED <<state, destinations, status, message, messenger>>
  /\ KeepAll

\* pn_messenger_recv finds the connection gone: StateError. The messenger is
\* checked again and the request repeated.
RecvFails ==
  /\ pc = "open" /\ link[request.dest] # "none" /\ ~alive
  /\ CheckMessenger
  /\ RetryRequest
  /\ UNCHANGED <<destinations, replies, status, message, reinstating, gen, alive, mode, outgoing, links, arrived>>
  /\ KeepAll

\* A message of any link, or a state that is no longer started, ends the wait...
Await ==
  /\ pc = "await"
  /\ incoming # <<>> \/ state # "started"
  /\ Goto("awaited")
  /\ UNCHANGED <<threadVars, status, message, handle, messenger>>
  /\ KeepAll

\* ... and the state is read again to tell which.
Awaited ==
  /\ pc = "awaited"
  /\ IF state = "started" THEN Goto("collect") /\ UNCHANGED <<replies, handle>>
                          ELSE Finish("ok")
  /\ UNCHANGED <<state, destinations, status, message, messenger>>
  /\ KeepAll

\* Mutated form: the credit is left to the link.
AwaitTimeoutUndrained ==
  /\ pc = "await" /\ request.timed
  /\ Finish("ok")
  /\ UNCHANGED <<state, destinations, status, message, messenger>>
  /\ KeepAll

\* The time to wait is over: the credit is taken back first.
AwaitTimeout ==
  /\ pc = "await" /\ request.timed
  /\ IF state = "started" THEN Goto("drain") /\ UNCHANGED <<replies, handle>>
                          ELSE Finish("ok")
  /\ UNCHANGED <<state, destinations, status, message, messenger>>
  /\ KeepAll

\* Draining ends with the credit of the link it began on.
Drained ==
  /\ pc = "drain"
  /\ (handle = "current" /\ credit[request.dest] = 0) \/ state # "started"
  /\ IF incoming # <<>> THEN Goto("collect") /\ UNCHANGED <<replies, handle>>
                        ELSE Finish("ok")
  /\ UNCHANGED <<state, destinations, status, message, messenger>>
  /\ KeepAll

\* Mutated forms: the message is settled as it is fetched; it is looked at only.
CollectAndSettle ==
  /\ pc = "collect" /\ incoming # <<>>
  /\ incoming' = Tail(incoming)
  /\ fetched' = Head(incoming)
  /\ message' = Head(incoming)
  /\ Settle(Head(incoming))
  /\ Goto("push")
  /\ UNCHANGED <<threadVars, status, handle, transport, outgoing, links, application, inbox,
                 presettled, published, history, faults>>

CollectFirst ==
  /\ pc = "collect" /\ incoming # <<>>
  /\ fetched' = Head(incoming)
  /\ message' = Head(incoming)
  /\ Goto("push")
  /\ UNCHANGED <<threadVars, status, handle, transport, outgoing, links, incoming>>
  /\ KeepAll

\* collect_message, and its failure when the messenger has no message.
Collect ==
  /\ pc = "collect" /\ incoming # <<>>
  /\ incoming' = Tail(incoming)
  /\ fetched' = Head(incoming)
  /\ message' = Head(incoming)
  /\ Goto("push")
  /\ UNCHANGED <<threadVars, status, handle, transport, outgoing, links>>
  /\ KeepAll

CollectFails ==
  /\ pc = "collect" /\ incoming = <<>>
  /\ Finish("error")
  /\ UNCHANGED <<state, destinations, status, message, messenger>>
  /\ KeepAll

\* Mutated form: the bare message is pushed.
PushMessage ==
  /\ pc = "push"
  /\ replies' = Append(replies, message)
  /\ given' = Append(given, message)
  /\ message' = None
  /\ Goto("idle") /\ handle' = None
  /\ UNCHANGED <<state, destinations, application, status, messenger, server, promise, strays, faults>>

\* The delivery is pushed before the message is accepted or settled.
PushDelivery ==
  /\ pc = "push"
  /\ replies' = Append(replies, [result |-> "ok", message |-> message])
  /\ given' = Append(given, message)
  /\ message' = None
  /\ IF request.dest \in Manual THEN Goto("idle") /\ handle' = None
                                ELSE Goto("accept") /\ UNCHANGED handle
  /\ UNCHANGED <<state, destinations, application, status, messenger, server, promise, strays, faults>>

\* QoS 0: an error of the messenger is a NetworkError, and the request is repeated
\* although it has been replied to.
Accept ==
  /\ pc = "accept" /\ request.qos = 0
  /\ Settle(fetched)
  /\ IF errno = "none" THEN Goto("idle") /\ handle' = None /\ UNCHANGED <<state, strays>>
                       ELSE RetryRequest /\ state' = "retrying" /\ strays' = strays + 1
  /\ UNCHANGED <<destinations, replies, application, status, message, messenger, inbox, presettled, published,
                 given, promise, faults>>

\* QoS 1 with auto_confirm.
SettleDelivery ==
  /\ pc = "accept" /\ request.qos = 1
  /\ Settle(fetched)
  /\ Interpret
  /\ Goto("idle") /\ handle' = None
  /\ UNCHANGED <<destinations, replies, application, status, message, reinstating, gen, alive, mode,
                 outgoing, links, arrived, inbox, presettled, published, history, faults>>

Command ==
  \/ Ready
  \/ Put \/ PutFails \/ OutboundPending \/ TrackerStatus \/ Judge
  \/ CreateSubscription \/ LinkUp \/ CloseLink \/ CloseLinkFails \/ LinkClosed
  \/ CheckOutOfSequence \/ OpenForMessage \/ NoLink \/ RecvFails \/ Await \/ Awaited
  \/ AwaitTimeout \/ Drained \/ Collect \/ CollectFails \/ PushDelivery \/ Accept \/ SettleDelivery

-----------------------------------------------------------------------------
(* The other threads of the client *)

KeepCommand == UNCHANGED <<application, command>>

\* The proton thread finds an error or a closed socket, or an I/O thread
\* reports the loss.
CheckForLoss ==
  /\ state = "started" /\ (errno # "none" \/ ~alive)
  /\ state' = "retrying"
  /\ errno' \in {errno, "none"}
  /\ UNCHANGED <<destinations, replies, reinstating, gen, alive, mode, outgoing, links, arrived,
                 server, history, faults>>
  /\ KeepCommand

\* What the server does with the messages this client had not settled when its
\* connection goes: they wait at their destinations again.
PutBack ==
  /\ inbox' = inbox \cup unsettled
  /\ unsettled' = {}
  /\ UNCHANGED <<settled, presettled, published>>

\* Mutated form: a request that waits is not enough to connect for.
ConnectForSubscriptions ==
  /\ state = "retrying" /\ reinstating = None
  /\ destinations # <<>>
  /\ reinstating' = [count |-> 0, dest |-> None]
  /\ gen' = gen + 1 /\ alive' = TRUE /\ errno' = "none" /\ mode' = "default"
  /\ outgoing' = <<>>
  /\ link' = All("none") /\ linkMode' = All("default") /\ credit' = All(0)
  /\ incoming' = <<>> /\ fetched' = None
  /\ handle' = IF handle # "current" THEN handle ELSE IF HandleUp THEN "up" ELSE "down"
  /\ PutBack
  /\ UNCHANGED <<threadVars, application, pc, status, message, history, faults>>

\* connect_to_a_server, as far as the messenger is replaced: the last end point
\* is closed and nothing of the last messenger is kept. The command thread may
\* still hold one of its links.
Connect ==
  /\ state = "retrying" /\ reinstating = None
  /\ destinations # <<>> \/ pc # "idle"
  /\ reinstating' = [count |-> 0, dest |-> None]
  /\ gen' = gen + 1 /\ alive' = TRUE /\ errno' = "none" /\ mode' = "default"
  /\ outgoing' = <<>>
  /\ link' = All("none") /\ linkMode' = All("default") /\ credit' = All(0)
  /\ incoming' = <<>> /\ fetched' = None
  /\ handle' = IF handle # "current" THEN handle ELSE IF HandleUp THEN "up" ELSE "down"
  /\ PutBack
  /\ UNCHANGED <<threadVars, application, pc, status, message, history, faults>>

\* reinstate_links: subscribes to each destination and waits for its link.
ReinstateLink ==
  /\ reinstating # None /\ reinstating.dest = None
  /\ reinstating.count < Len(destinations)
  /\ LET i == reinstating.count + 1
     IN  /\ NewLink(destinations[i])
         /\ reinstating' = [count |-> i, dest |-> destinations[i]]
  /\ UNCHANGED <<threadVars, gen, alive, errno, mode, outgoing, arrived, server, history, faults>>
  /\ KeepCommand

Waiting == reinstating # None /\ reinstating.dest # None

LinkReinstated ==
  /\ Waiting /\ link[reinstating.dest] = "open"
  /\ reinstating' = [reinstating EXCEPT !.dest = None]
  /\ UNCHANGED <<threadVars, gen, alive, errno, mode, outgoing, links, arrived, server, history,
                 faults>>
  /\ KeepCommand

EndAttempt(new) ==
  /\ state' = new
  /\ reinstating' = None
  /\ UNCHANGED <<destinations, replies, gen, alive, errno, mode, outgoing, links, arrived, server,
                 history, faults>>
  /\ KeepCommand

\* SubscribedError, for whatever error: the client stops.
ReinstateFails ==
  /\ Waiting /\ link[reinstating.dest] # "open" /\ errno # "none"
  /\ EndAttempt("stopped")

Reconnected ==
  /\ reinstating # None /\ reinstating.dest = None
  /\ reinstating.count >= Len(destinations)
  /\ EndAttempt("started")

Proton ==
  CheckForLoss \/ Connect \/ ReinstateLink \/ LinkReinstated \/ ReinstateFails \/ Reconnected

-----------------------------------------------------------------------------
(* The messenger's own work, the network and the server *)

KeepClient == UNCHANGED <<threadVars, reinstating, gen, mode, given, strays>> /\ KeepCommand

LoseConnection ==
  /\ alive /\ Fault
  /\ alive' = FALSE
  /\ PutBack
  /\ UNCHANGED <<errno, outgoing, links, arrived, promise>>
  /\ KeepClient

\* The messenger notices: its error, and that of what it was sending.
Abort ==
  /\ ~alive /\ errno = "none"
  /\ errno' = "aborted"
  /\ outgoing' = [i \in DOMAIN outgoing |->
                    [outgoing[i] EXCEPT !.status = IF @ = "pending" THEN "aborted" ELSE @]]
  /\ UNCHANGED <<alive, links, arrived, server, promise, faults>>
  /\ KeepClient

\* The first entry at one place goes on to the next.
First(place) == SelectInSeq(outgoing, LAMBDA e : e.place = place)

KeepLinks == UNCHANGED <<alive, links, arrived, server>>

Transmit ==
  /\ alive /\ First("buffered") # 0
  /\ outgoing' = [outgoing EXCEPT ![First("buffered")].place = "sent"]
  /\ UNCHANGED <<errno, promise, faults>>
  /\ KeepLinks /\ KeepClient

Arrive ==
  /\ alive /\ First("sent") # 0
  /\ outgoing' = [outgoing EXCEPT ![First("sent")].place = "arrived"]
  /\ promise' = [promise EXCEPT !.log = Append(@, <<outgoing[First("sent")].call, gen>>)]
  /\ UNCHANGED <<errno, faults>>
  /\ KeepLinks /\ KeepClient

Respond ==
  \E i \in DOMAIN outgoing, answer \in {"accepted", "rejected"} :
    /\ alive /\ outgoing[i].place = "arrived" /\ outgoing[i].tracked
    /\ outgoing[i].status = "pending"
    /\ outgoing' = [outgoing EXCEPT ![i].status = answer]
    /\ UNCHANGED <<errno, promise, faults>>
    /\ KeepLinks /\ KeepClient

KeepSending == UNCHANGED <<alive, outgoing, promise>>

OpenLink(d) ==
  /\ alive /\ link[d] = "opening" /\ d \notin Refused
  /\ link' = [link EXCEPT ![d] = "open"]
  /\ UNCHANGED <<errno, linkMode, credit, arrived, server, faults>>
  /\ KeepSending /\ KeepClient

RefuseLink(d) ==
  /\ alive /\ link[d] = "opening" /\ d \in Refused
  /\ link' = [link EXCEPT ![d] = "refused"]
  /\ errno' = "refused"
  /\ UNCHANGED <<linkMode, credit, arrived, server, faults>>
  /\ KeepSending /\ KeepClient

AnswerClose(d) ==
  /\ alive /\ link[d] = "closing"
  /\ link' = [link EXCEPT ![d] = "none"]
  /\ credit' = [credit EXCEPT ![d] = 0]
  /\ UNCHANGED <<errno, linkMode, arrived, server, faults>>
  /\ KeepSending /\ KeepClient

\* Another client publishes to a destination that exists.
Publish(d) ==
  /\ published < MaxPublished
  /\ d \in ToSet(destinations) \ Refused
  /\ published' = published + 1
  /\ inbox' = inbox \cup {[dest |-> d, id |-> published']}
  /\ UNCHANGED <<errno, links, arrived, unsettled, settled, presettled, faults>>
  /\ KeepSending /\ KeepClient

\* The messages that wait at a destination; they leave it in the order in which
\* they were published.
Inbox(d)  == {m \in inbox : m.dest = d}
Oldest(d) == {m \in Inbox(d) : \A n \in Inbox(d) : m.id <= n.id}

\* The server uses a credit: on a link of QoS 0 the message is settled as it is
\* sent.
Deliver(d) ==
  /\ alive /\ link[d] = "open" /\ credit[d] > 0
  /\ \E m \in Oldest(d) :
       /\ incoming' = Append(incoming, m)
       /\ inbox' = inbox \ {m}
       /\ IF linkMode[d] = "settled"
            THEN presettled' = presettled \cup {m} /\ UNCHANGED unsettled
            ELSE unsettled' = unsettled \cup {m} /\ UNCHANGED presettled
  /\ credit' = [credit EXCEPT ![d] = @ - 1]
  /\ UNCHANGED <<errno, link, linkMode, fetched, settled, published, faults>>
  /\ KeepSending /\ KeepClient

Drain(d) ==
  /\ alive /\ pc = "drain" /\ handle = "current" /\ request.dest = d
  /\ link[d] = "open" /\ credit[d] > 0 /\ Inbox(d) = {}
  /\ credit' = [credit EXCEPT ![d] = 0]
  /\ UNCHANGED <<errno, link, linkMode, arrived, server, faults>>
  /\ KeepSending /\ KeepClient

Network ==
  \/ Abort \/ Transmit \/ Arrive \/ Respond
  \/ \E d \in Destinations : OpenLink(d) \/ RefuseLink(d) \/ AnswerClose(d) \/ Deliver(d) \/ Drain(d)

User ==
  \/ \E q \in SendQoS, timed \in BOOLEAN : CallSend(q, timed)
  \/ \E d \in Destinations, timed \in BOOLEAN : CallSubscribe(d, timed) \/ CallReceive(d, timed)
  \/ \E d \in Destinations : CallUnsubscribe(d)
  \/ \E m \in held : Confirm(m)

Next ==
  \/ User \/ Push \/ Return
  \/ Command \/ Expire
  \/ Proton
  \/ Network \/ LoseConnection
  \/ \E d \in Destinations : Publish(d)

Spec == Init /\ [][Next]_vars

\* Ruby's threads are scheduled; a server on a live connection answers.
Fairness ==
  /\ WF_vars(Push) /\ WF_vars(Return) /\ WF_vars(Command) /\ WF_vars(Proton)
  /\ WF_vars(Abort) /\ WF_vars(Transmit) /\ WF_vars(Arrive) /\ WF_vars(Respond)
  /\ \A d \in Destinations : WF_vars(OpenLink(d) \/ RefuseLink(d) \/ AnswerClose(d))

FairSpec == Spec /\ Fairness

-----------------------------------------------------------------------------
(* Properties *)

Promise == INSTANCE SendPromise WITH
  connection <- gen, result <- promise.result, quality <- promise.quality,
  began <- promise.began, ended <- promise.ended, log <- promise.log

\* Refinement. Whatever is repeated, lost or timed out, what reaches the server
\* is what SendPromise allows: process_queued_send with its retries keeps the
\* order of sends and bounds the copies of a message (command.rb:64-127).
KeepsSendPromise == Promise!Spec

\* An attempt that waits for a link which an unsubscribe has closed meanwhile
\* waits for ever.
AttemptIsStuck == Waiting /\ link[reinstating.dest] \in {"none", "closing"}

\* Liveness. A send returns, also when the connection is lost while the command
\* thread polls its tracker, unless the client stops or reinstate_links waits for
\* a link that is closed (command.rb:73-83, proton_container.rb:212-227).
SendReturns ==
  user = "wait" /\ request.op = "send" ~>
    user = "idle" \/ state = "stopped" \/ AttemptIsStuck

\* Safety. On the first connection receive collects messages of its own
\* destination only, although message? and collect_message look at all links: a
\* receive that times out drains its link before another can be called
\* (command.rb:204-212). A link that got its credit while the client was
\* retrying is not drained, so it does not hold on the next connection.
OwnDestination == gen = 1 /\ pc = "push" => message.dest = request.dest

\* Safety. With automatic confirmation the server is told to forget a message
\* only after the application's reply was pushed (command.rb:218-228), also when
\* the tracker that settle uses names a message fetched on another connection.
SettledIsGiven == Manual = {} => settled \subseteq ToSet(given)

Count(m) == Cardinality({i \in DOMAIN given : given[i] = m})

\* Safety. A message is given to the application at most once over each
\* connection: only the loss of one between the push and the settlement can
\* repeat it (command.rb:214-228, proton_container.rb:597).
OncePerConnection == \A m \in ToSet(given) : Count(m) <= gen

\* Is the caller waiting for a reply that its request may have had?
Owed == user = "wait" /\ pc \in {"idle", "accept"} /\ request.op # "unsubscribe"

\* Safety. Whatever is lost, refused, repeated or timed out, a request that is
\* over was replied to, unless the client stopped; and the reply queue holds no
\* more than that reply and the replies that nobody is owed, which have two
\* sources only: an unsubscribe that fails, and a receive repeated after it was
\* replied to. Where neither has happened since the last send, no call collects
\* the reply of an earlier one (command.rb:177-234, 264-325).
OneReply ==
  /\ Len(replies) <= strays + (IF Owed THEN 1 ELSE 0)
  /\ Owed /\ state # "stopped" => replies # <<>>

\* Liveness. The command thread does not wait for a link for ever, unless the
\* link belongs to a messenger that was replaced before the link was up or
\* closed (command.rb:147, proton_container.rb:443-454).
LinkRequestsEnd ==
  pc \in {"linkUp", "closing"} ~> pc \notin {"linkUp", "closing"} \/ handle = "down"

\* Documented, not kept: "the message is confirmed" means that the server has
\* received it. After a reconnect the new messenger is asked about the tracker
\* of the old one (proton_container.rb:294-315) and knows nothing.
ConfirmedMeansReceived ==
  \A c \in 1 .. MaxCalls :
    promise.result[c] = "ok" /\ promise.quality[c] = 1 =>
      \E i \in DOMAIN promise.log : promise.log[i][1] = c

\* Documented, not kept: a message of QoS 1 is never sent settled. Settle modes
\* are the messenger's, and links are created again with the latest.
SettledByQoS0 == \A m \in presettled : QoS(m.dest) = 0

\* Documented, not kept: a client that has reconnected has its links back, but
\* unsubscribe removes from the destinations that reinstate_links iterates over.
ReinstatesAll ==
  [][state = "retrying" /\ state' = "started" =>
       \A d \in ToSet(destinations) :
         link[d] = "open" \/ (request.op = "unsubscribe" /\ request.dest = d)]_vars

\* Documented, not kept: confirm settles the message it is called for.
ConfirmsOwn == [][\A m \in held : Confirm(m) => settled' \ settled \subseteq {m}]_vars
=============================================================================
