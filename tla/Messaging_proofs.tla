-------------------------- MODULE Messaging_proofs --------------------------
(***************************************************************************)
(* Theorems about Messaging, for any destinations and every value of the   *)
(* bounds.                                                                 *)
(***************************************************************************)
EXTENDS Messaging, FiniteSetTheorems, SequenceTheorems, WellFoundedInduction, TLAPS

-----------------------------------------------------------------------------
(* The operators on sequences                                              *)

LEMMA LeastExists ==
  ASSUME NEW S \in SUBSET Nat, S # {}
  PROVE  \E i \in S : \A j \in S : i <= j
  <1> DEFINE Below == OpToRel(<, Nat)
  <1>1. \A m, n \in Nat : m < n => <<m, n>> \in Below
    BY DEF OpToRel
  <1>2. IsWellFoundedOn(Below, Nat)
    BY NatLessThanWellFounded
  <1> HIDE DEF Below
  <1>3. PICK i \in S : \A j \in S : <<j, i>> \notin Below
    BY <1>2, WFMin
  <1>4. \A j \in S : ~(j < i)
    BY <1>1, <1>3
  <1> HIDE <1>3
  <1> QED
    BY <1>4

LEMMA MinIsLeast ==
  ASSUME NEW S \in SUBSET Nat, S # {}
  PROVE  Min(S) \in S /\ \A j \in S : Min(S) <= j
  BY LeastExists DEF Min

\* The first entry of the outgoing store at a place.
LEMMA FirstEntry ==
  ASSUME TypeOK, NEW place, First(place) # 0
  PROVE  /\ First(place) \in DOMAIN outgoing /\ outgoing[First(place)].place = place
         /\ \A i \in DOMAIN outgoing : i < First(place) => outgoing[i].place # place
  <1> DEFINE I == {i \in 1 .. Len(outgoing) : outgoing[i].place = place}
             m == Min(I)
  <1>1. First(place) = IF I # {} THEN m ELSE 0
    BY DEF First, SelectInSeq
  <1>2. DOMAIN outgoing = 1 .. Len(outgoing)
    BY DEF TypeOK
  <1>3. I \in SUBSET Nat /\ I # {}
    BY <1>1
  <1>4. m \in I /\ \A j \in I : m <= j
    <2> HIDE DEF I
    <2> QED
      BY <1>3, MinIsLeast
  <1> HIDE DEF m
  <1>5. \A i \in 1 .. Len(outgoing) : outgoing[i].place = place => m <= i
    BY <1>4
  <1>6. m \in 1 .. Len(outgoing) /\ outgoing[m].place = place
    BY <1>4
  <1>7. First(place) = m
    BY <1>1, <1>3
  <1>8. Len(outgoing) \in Nat
    BY DEF TypeOK
  <1> HIDE DEF I
  <1> QED
    BY <1>2, <1>5, <1>6, <1>7, <1>8

\* A sequence without one of its elements.
LEMMA Removed ==
  ASSUME NEW S, NEW s \in Seq(S), NEW m \in 1 .. Len(s)
  PROVE  /\ RemoveAt(s, m) \in Seq(S) /\ Len(RemoveAt(s, m)) = Len(s) - 1
         /\ \A i \in 1 .. Len(s) - 1 : RemoveAt(s, m)[i] = IF i < m THEN s[i] ELSE s[i + 1]
  <1> DEFINE n == Len(s)
             before == SubSeq(s, 1, m - 1)
             after  == SubSeq(s, m + 1, n)
  <1>1. n \in Nat /\ m \in Nat /\ 1 <= m /\ m <= n
    OBVIOUS
  <1>2. \A i \in 1 .. n : s[i] \in S
    OBVIOUS
  <1>3. RemoveAt(s, m) = before \o after
    BY DEF RemoveAt
  <1>4. \A i \in 1 .. m - 1 : s[i] \in S
    BY <1>1, <1>2
  <1>5. \A i \in m + 1 .. n : s[i] \in S
    BY <1>1, <1>2
  <1> HIDE DEF n
  <1>6. /\ before \in Seq(S)
        /\ Len(before) = IF 1 <= m - 1 THEN m - 1 - 1 + 1 ELSE 0
        /\ \A i \in 1 .. m - 1 - 1 + 1 : before[i] = s[1 + i - 1]
    <2>1. 1 \in Int /\ m - 1 \in Int
      BY <1>1
    <2> QED
      BY <1>4, <2>1, SubSeqProperties
  <1>7. /\ after \in Seq(S)
        /\ Len(after) = IF m + 1 <= n THEN n - (m + 1) + 1 ELSE 0
        /\ \A i \in 1 .. n - (m + 1) + 1 : after[i] = s[m + 1 + i - 1]
    <2>1. m + 1 \in Int /\ n \in Int
      BY <1>1
    <2> QED
      BY <1>5, <2>1, SubSeqProperties
  <1> HIDE DEF before, after
  <1>8. Len(before) = m - 1 /\ Len(after) = n - m
    BY <1>1, <1>6, <1>7
  <1>9. \A i \in 1 .. m - 1 : before[i] = s[i]
    BY <1>1, <1>6
  <1>10. \A i \in m .. n - 1 : after[i - (m - 1)] = s[i + 1]
    <2> SUFFICES ASSUME NEW i \in m .. n - 1 PROVE after[i - (m - 1)] = s[i + 1]
      OBVIOUS
    <2>1. i - (m - 1) \in 1 .. n - (m + 1) + 1 /\ m + 1 + (i - (m - 1)) - 1 = i + 1
      BY <1>1
    <2> QED
      BY <1>7, <2>1
  <1> DEFINE t == before \o after
  <1>11. t \in Seq(S) /\ Len(t) = n - 1
    <2>1. t \in Seq(S) /\ Len(t) = Len(before) + Len(after)
      BY <1>6, <1>7, ConcatProperties
    <2> HIDE DEF t
    <2> QED
      BY <1>1, <1>8, <2>1
  <1>12. \A i \in 1 .. n - 1 : t[i] = IF i < m THEN before[i] ELSE after[i - (m - 1)]
    BY <1>1, <1>6, <1>7, <1>8
  <1>13. \A i \in 1 .. n - 1 : t[i] = IF i < m THEN s[i] ELSE s[i + 1]
    <2> HIDE DEF t
    <2>1. \A i \in 1 .. n - 1 : i < m => i \in 1 .. m - 1
      BY <1>1
    <2>2. \A i \in 1 .. n - 1 : ~(i < m) => i \in m .. n - 1
      BY <1>1
    <2> QED
      BY <1>9, <1>10, <1>12, <2>1, <2>2
  <1> QED
    <2>1. RemoveAt(s, m) = t
      BY <1>3
    <2> HIDE DEF t
    <2> QED
      BY <1>11, <1>13, <2>1 DEF n

\* A destination is forgotten once.
LEMMA Forgotten ==
  ASSUME NEW S, NEW s \in Seq(S), NEW e
  PROVE  /\ RemoveFirst(s, e) \in Seq(S)
         /\ ToSet(RemoveFirst(s, e)) \subseteq ToSet(s)
         /\ (\A i, j \in DOMAIN s : s[i] = s[j] => i = j) =>
              /\ e \notin ToSet(RemoveFirst(s, e))
              /\ \A i, j \in DOMAIN RemoveFirst(s, e) :
                   RemoveFirst(s, e)[i] = RemoveFirst(s, e)[j] => i = j
  <1> DEFINE I == {i \in 1 .. Len(s) : s[i] = e}
             m == Min(I)
             t == RemoveAt(s, m)
  <1>1. CASE I = {}
    <2>1. RemoveFirst(s, e) = s
      BY <1>1 DEF RemoveFirst
    <2> QED
      BY <1>1, <2>1 DEF ToSet
  <1>2. CASE I # {}
    <2>1. RemoveFirst(s, e) = t
      BY <1>2 DEF RemoveFirst, SelectInSeq
    <2>2. m \in I
      <3>1. I \in SUBSET Nat
        OBVIOUS
      <3> HIDE DEF I
      <3> QED
        BY <1>2, <3>1, MinIsLeast
    <2>3. m \in 1 .. Len(s) /\ s[m] = e
      BY <2>2
    <2> HIDE DEF m, I
    <2>4. Len(s) \in Nat /\ DOMAIN s = 1 .. Len(s) /\ m \in Nat
      BY <2>3
    <2>5. /\ t \in Seq(S) /\ Len(t) = Len(s) - 1
          /\ \A i \in 1 .. Len(s) - 1 : t[i] = IF i < m THEN s[i] ELSE s[i + 1]
      BY <2>3, Removed
    <2> HIDE DEF t
    <2>6. DOMAIN t = 1 .. Len(s) - 1
      BY <2>5
    <2> DEFINE at(i) == IF i < m THEN i ELSE i + 1
    <2>7. \A i \in 1 .. Len(s) - 1 : at(i) \in 1 .. Len(s) /\ at(i) # m /\ t[i] = s[at(i)]
      BY <2>3, <2>4, <2>5
    <2>8. \A i, j \in 1 .. Len(s) - 1 : at(i) = at(j) => i = j
      BY <2>3, <2>4
    <2> HIDE DEF at
    <2>9. ToSet(t) \subseteq ToSet(s)
      BY <2>4, <2>6, <2>7 DEF ToSet
    <2>10. ASSUME \A i, j \in DOMAIN s : s[i] = s[j] => i = j
           PROVE  e \notin ToSet(t) /\ \A i, j \in DOMAIN t : t[i] = t[j] => i = j
      <3>1. \A i, j \in 1 .. Len(s) : s[i] = s[j] => i = j
        BY <2>4, <2>10
      <3>2. \A i \in 1 .. Len(s) - 1 : t[i] # e
        BY <2>3, <2>7, <3>1
      <3>3. \A i, j \in 1 .. Len(s) - 1 : t[i] = t[j] => i = j
        BY <2>7, <2>8, <3>1
      <3> QED
        BY <2>6, <3>2, <3>3 DEF ToSet
    <2> QED
      BY <2>1, <2>5, <2>9, <2>10
  <1> QED
    BY <1>1, <1>2

-----------------------------------------------------------------------------
(* Types, and where the threads are in a request.                          *)

Control ==
  /\ user # "wait" => pc = "idle"
  /\ user = "idle" <=> request = NoRequest
  /\ pc \in {"buffered", "status", "judge"} => request.op = "send"
  /\ pc = "linkUp" => request.op = "subscribe"
  /\ pc = "closing" => request.op = "unsubscribe"
  /\ pc \in {"open", "await", "awaited", "drain", "collect", "push", "accept"} => request.op = "receive"
  /\ request.op = "send" => sends >= 1
  /\ pc = "push" => message \in Message
  /\ sends <= calls

\* The parts of TypeOK that one kind of step changes.
ThreadTypes ==
  /\ state \in {"started", "retrying", "stopped"}
  /\ destinations \in Seq(Destinations)
  /\ replies \in Seq(Reply)
ApplicationTypes ==
  /\ user \in {"idle", "called", "wait"}
  /\ request \in Requests \cup {NoRequest}
  /\ sends \in 0 .. MaxCalls /\ calls \in 0 .. MaxCalls
  /\ held \subseteq Message
CommandTypes ==
  /\ pc \in {"idle", "ready", "perform", "buffered", "status", "judge", "linkUp", "closing",
             "open", "await", "awaited", "drain", "collect", "push", "accept"}
  /\ status \in Statuses
  /\ message \in Message \cup {None}
  /\ handle \in {None, "current", "up", "down"}
TransportTypes ==
  /\ reinstating \in [count : Nat, dest : Destinations \cup {None}] \cup {None}
  /\ gen \in Nat \ {0}
  /\ alive \in BOOLEAN
  /\ errno \in {"none", "aborted", "refused"}
  /\ mode \in Modes
  /\ outgoing \in Seq(Entry)
LinkTypes ==
  /\ link \in [Destinations -> {"none", "opening", "open", "closing", "refused"}]
  /\ linkMode \in [Destinations -> Modes]
  /\ credit \in [Destinations -> 0 .. 2]
  /\ incoming \in Seq(Message)
  /\ fetched \in Message \cup {None}
ServerTypes ==
  /\ inbox \subseteq Message
  /\ unsettled \subseteq Message /\ settled \subseteq Message /\ presettled \subseteq Message
  /\ published \in 0 .. MaxPublished
HistoryTypes ==
  /\ given \in Seq(Message)
  /\ promise \in Records
  /\ strays \in Nat
  /\ faults \in 0 .. MaxFaults

Typed ==
  /\ ThreadTypes /\ ApplicationTypes /\ CommandTypes /\ TransportTypes /\ LinkTypes
  /\ ServerTypes /\ HistoryTypes

LEMMA TypedIs == TypeOK <=> Typed
  BY DEF TypeOK, Typed, ThreadTypes, ApplicationTypes, CommandTypes, TransportTypes, LinkTypes,
         ServerTypes, HistoryTypes

\* What a part is about does not change.
LEMMA PartsStay ==
  /\ ThreadTypes /\ UNCHANGED threadVars => ThreadTypes'
  /\ ApplicationTypes /\ UNCHANGED application => ApplicationTypes'
  /\ CommandTypes /\ UNCHANGED command => CommandTypes'
  /\ TransportTypes /\ UNCHANGED <<transport, outgoing>> => TransportTypes'
  /\ LinkTypes /\ UNCHANGED <<links, arrived>> => LinkTypes'
  /\ ServerTypes /\ UNCHANGED server => ServerTypes'
  /\ HistoryTypes /\ UNCHANGED <<history, faults>> => HistoryTypes'
  <1>1. ThreadTypes /\ UNCHANGED threadVars => ThreadTypes'
    BY DEF ThreadTypes, threadVars
  <1>2. ApplicationTypes /\ UNCHANGED application => ApplicationTypes'
    BY DEF ApplicationTypes, application
  <1>3. CommandTypes /\ UNCHANGED command => CommandTypes'
    BY DEF CommandTypes, command
  <1>4. TransportTypes /\ UNCHANGED <<transport, outgoing>> => TransportTypes'
    BY DEF TransportTypes, transport
  <1>5. LinkTypes /\ UNCHANGED <<links, arrived>> => LinkTypes'
    BY DEF LinkTypes, links, arrived
  <1>6. ServerTypes /\ UNCHANGED server => ServerTypes'
    BY DEF ServerTypes, server
  <1>7. HistoryTypes /\ UNCHANGED <<history, faults>> => HistoryTypes'
    BY DEF HistoryTypes, history
  <1> QED
    BY <1>1, <1>2, <1>3, <1>4, <1>5, <1>6, <1>7

LEMMA FinishTyped ==
  ASSUME ThreadTypes, NEW result \in Results, Finish(result)
  PROVE  replies' \in Seq(Reply) /\ pc' = "idle" /\ handle' = None
  <1>1. Plain(result) \in Reply
    BY DEF Plain, Reply
  <1> QED
    BY <1>1 DEF Finish, Goto, ThreadTypes

\* What a request is, and its destination.
LEMMA RequestIs ==
  ASSUME ApplicationTypes
  PROVE  /\ request.op \in {"none", "send", "subscribe", "unsubscribe", "receive"}
         /\ request.op # "none" => request \in Requests /\ request.qos \in {0, 1} /\ request.timed \in BOOLEAN
         /\ request.op \in {"subscribe", "unsubscribe", "receive"} => request.dest \in Destinations
         /\ request = NoRequest <=> request.op = "none"
  <1>1. NoRequest.op = "none"
    BY DEF NoRequest
  <1>2. CASE request \in [op : {"send"}, qos : SendQoS, dest : {None}, timed : BOOLEAN]
    <2>1. request.op = "send" /\ request.qos \in SendQoS /\ request.timed \in BOOLEAN
      BY <1>2
    <2>2. request \in Requests
      BY <1>2 DEF Requests
    <2> QED
      BY <1>1, <2>1, <2>2, DestinationsAssumption
  <1>3. CASE request \in [op : {"subscribe", "unsubscribe", "receive"}, qos : {0, 1},
                          dest : Destinations, timed : BOOLEAN]
    <2>1. /\ request.op \in {"subscribe", "unsubscribe", "receive"} /\ request.qos \in {0, 1}
          /\ request.dest \in Destinations /\ request.timed \in BOOLEAN
      BY <1>3
    <2>2. request \in Requests
      BY <1>3 DEF Requests
    <2> QED
      BY <1>1, <2>1, <2>2
  <1>4. CASE request = NoRequest
    BY <1>1, <1>4
  <1> QED
    BY <1>2, <1>3, <1>4 DEF ApplicationTypes, Requests

LEMMA CommandTyped ==
  ASSUME Typed, Control, Command \/ Expire
  PROVE  Typed' /\ Control'
  <1> USE DEF Typed, Control, ThreadTypes, ApplicationTypes, CommandTypes, TransportTypes,
          LinkTypes, ServerTypes, HistoryTypes, threadVars, application, command, transport,
          links, arrived, messenger, server, history, KeepAll, Goto, RetryRequest
  <1>2. CASE Expire
    <2>1. replies' \in Seq(Reply) /\ pc' = "idle" /\ handle' = None
      BY <1>2, FinishTyped DEF Expire, Results
    <2>2. faults' \in 0 .. MaxFaults
      BY <1>2, MessagingBounds DEF Expire, Fault
    <2> QED
      BY <1>2, <2>1, <2>2 DEF Expire
  <1>3. CASE Put
    <2>1. outgoing' \in Seq(Entry)
      <3> DEFINE e == [call |-> sends, tracked |-> request.qos = 1, place |-> "buffered", status |-> "pending"]
      <3>1. e \in Entry
        BY <1>3 DEF Put, Entry, Statuses
      <3>2. outgoing' = Append(outgoing, e)
        BY <1>3 DEF Put
      <3> HIDE DEF e
      <3> QED
        BY <3>1, <3>2
    <2> QED
      BY <1>3, <2>1 DEF Put
  <1>4. CASE TrackerStatus
    <2>1. Status \in Statuses
      <3>1. CASE Tracked
        <4>1. Last(outgoing) \in Entry
          BY <3>1 DEF Tracked, Last
        <4> QED
          BY <3>1, <4>1 DEF Status, Entry
      <3>2. CASE ~Tracked
        BY <3>2 DEF Status, Statuses
      <3> QED
        BY <3>1, <3>2
    <2> QED
      BY <1>4, <2>1 DEF TrackerStatus
  <1>5. CASE Judge
    <2>1. /\ state' \in {"started", "retrying", "stopped"}
          /\ UNCHANGED <<destinations, status, message, messenger>> /\ KeepAll
          /\ pc = "judge" /\ pc' \in {"idle", "ready"} /\ handle' = None
      BY <1>5 DEF Judge, Finish
    <2>2. replies' \in Seq(Reply)
      BY <1>5, FinishTyped DEF Judge, Results
    <2> QED
      BY <2>1, <2>2
  <1>6. CASE LinkUp
    <2>1. replies' \in Seq(Reply) /\ pc' = "idle" /\ handle' = None
      BY <1>6, FinishTyped DEF LinkUp, Results
    <2>2. destinations' \in Seq(Destinations)
      BY <1>6, RequestIs DEF LinkUp
    <2> QED
      BY <1>6, <2>1, <2>2 DEF LinkUp
  <1>7. CASE OpenForMessage
    <2>1. credit' \in [Destinations -> 0 .. 2]
      <3>1. request.dest \in Destinations
        BY <1>7, RequestIs DEF OpenForMessage
      <3>2. credit' = [credit EXCEPT ![request.dest] =
                         IF credit[request.dest] = 0 THEN 1 ELSE credit[request.dest]]
        BY <1>7 DEF OpenForMessage
      <3>3. credit[request.dest] \in 0 .. 2 /\ 1 \in 0 .. 2
        BY <3>1
      <3>4. PICK n \in 0 .. 2 : n = IF credit[request.dest] = 0 THEN 1 ELSE credit[request.dest]
        BY <3>3
      <3> QED
        BY <3>2, <3>4
    <2> QED
      BY <1>7, <2>1 DEF OpenForMessage
  <1>8. CASE Awaited \/ AwaitTimeout \/ Drained
    <2>1. /\ pc' \in {"collect", "drain", "idle"}
          /\ pc \in {"await", "awaited", "drain"}
          /\ handle' \in {handle, None}
          /\ UNCHANGED <<state, destinations, status, message, messenger>> /\ KeepAll
      BY <1>8 DEF Awaited, AwaitTimeout, Drained, Finish
    <2>2. replies' \in Seq(Reply)
      BY <1>8, FinishTyped DEF Awaited, AwaitTimeout, Drained, Results
    <2> QED
      BY <2>1, <2>2
  <1>9. CASE Ready \/ OutboundPending \/ Await
    <2>1. /\ UNCHANGED <<threadVars, status, message, handle, messenger>> /\ KeepAll
          /\ pc' \in {"idle", "perform", "status", "awaited"}
          /\ pc' = "status" => pc = "buffered"
          /\ pc' = "awaited" => pc = "await"
          /\ pc \in {"ready", "buffered", "await"}
      BY <1>9 DEF Ready, OutboundPending, Await
    <2> QED
      BY <2>1
  <1>10. CASE PutFails \/ CloseLinkFails \/ NoLink \/ CollectFails
    <2>1. replies' \in Seq(Reply) /\ pc' = "idle" /\ handle' = None
      BY <1>10, FinishTyped DEF PutFails, CloseLinkFails, NoLink, CollectFails, Results
    <2>2. strays' \in Nat
      BY <1>10 DEF PutFails, CloseLinkFails, NoLink, CollectFails
    <2> QED
      BY <1>10, <2>1, <2>2 DEF PutFails, CloseLinkFails, NoLink, CollectFails
  <1>11. CASE CreateSubscription
    BY <1>11 DEF CreateSubscription, NewLink
  <1>12. CASE CloseLink \/ LinkClosed
    BY <1>12 DEF CloseLink, LinkClosed
  <1>13. CASE CheckOutOfSequence
    BY <1>13 DEF CheckOutOfSequence, CheckMessenger
  <1>14. CASE RecvFails
    BY <1>14 DEF RecvFails, CheckMessenger
  <1>15. CASE Collect
    BY <1>15 DEF Collect
  <1>16. CASE PushDelivery
    BY <1>16 DEF PushDelivery, Reply, Results
  <1>17. CASE Accept
    BY <1>17 DEF Accept, Settle
  <1>18. CASE SettleDelivery
    BY <1>18 DEF SettleDelivery, Settle, Interpret
  <1> QED
    BY <1>2, <1>3, <1>4, <1>5, <1>6, <1>7, <1>8, <1>9, <1>10, <1>11, <1>12, <1>13, <1>14,
       <1>15, <1>16, <1>17, <1>18 DEF Command

LEMMA ProtonTyped ==
  ASSUME Typed, Control, Proton
  PROVE  Typed' /\ Control'
  <1> USE DEF Typed, Control, ThreadTypes, ApplicationTypes, CommandTypes, TransportTypes,
          LinkTypes, ServerTypes, HistoryTypes, threadVars, application, command, transport,
          links, arrived, messenger, server, history, KeepCommand
  <1>1. CASE CheckForLoss
    BY <1>1 DEF CheckForLoss
  <1>2. CASE Connect
    <2>1. LinkTypes'
      BY <1>2 DEF Connect, All, Modes
    <2>2. TransportTypes'
      BY <1>2 DEF Connect, Modes
    <2>3. ServerTypes'
      BY <1>2 DEF Connect, PutBack
    <2> QED
      BY <1>2, <2>1, <2>2, <2>3 DEF Connect
  <1>3. CASE ReinstateLink
    BY <1>3 DEF ReinstateLink, NewLink
  <1>4. CASE LinkReinstated
    <2>1. reinstating' \in [count : Nat, dest : Destinations \cup {None}]
      BY <1>4 DEF LinkReinstated, Waiting
    <2> QED
      BY <1>4, <2>1 DEF LinkReinstated
  <1>5. CASE ReinstateFails \/ Reconnected
    BY <1>5 DEF ReinstateFails, Reconnected, EndAttempt
  <1> QED
    BY <1>1, <1>2, <1>3, <1>4, <1>5 DEF Proton

\* What an arrival is recorded as.
LEMMA Recorded ==
  ASSUME promise \in Records, NEW entry \in (1 .. MaxCalls) \X Nat
  PROVE  [promise EXCEPT !.log = Append(@, entry)] \in Records
  <1> DEFINE Entries == (1 .. MaxCalls) \X Nat
             l == Append(promise.log, entry)
  <1>1. promise.log \in Seq(Entries)
    BY DEF Records
  <1>2. entry \in Entries
    OBVIOUS
  <1>3. l \in Seq(Entries)
    <2> HIDE DEF Entries
    <2> QED
      BY <1>1, <1>2
  <1>4. [promise EXCEPT !.log = l] \in Records
    <2> HIDE DEF l
    <2> QED
      BY <1>3 DEF Records
  <1> QED
    BY <1>4

LEMMA NetworkTyped ==
  ASSUME Typed, Control, Network \/ LoseConnection \/ \E d \in Destinations : Publish(d)
  PROVE  Typed' /\ Control'
  <1> USE DEF Typed, Control, ThreadTypes, ApplicationTypes, CommandTypes, TransportTypes,
          LinkTypes, ServerTypes, HistoryTypes, threadVars, application, command, transport,
          links, arrived, messenger, server, history, KeepCommand, KeepClient, KeepLinks, KeepSending
  <1>1. CASE LoseConnection
    <2>1. faults' \in 0 .. MaxFaults
      BY <1>1, MessagingBounds DEF LoseConnection, Fault
    <2>2. ServerTypes'
      BY <1>1 DEF LoseConnection, PutBack
    <2>3. alive' \in BOOLEAN
      BY <1>1 DEF LoseConnection
    <2> QED
      BY <1>1, <2>1, <2>2, <2>3 DEF LoseConnection
  <1>2. CASE Abort
    <2>1. outgoing' \in Seq(Entry)
      <3> DEFINE e(i) == [outgoing[i] EXCEPT !.status = IF @ = "pending" THEN "aborted" ELSE @]
      <3>1. \A i \in 1 .. Len(outgoing) : e(i) \in Entry
        <4> SUFFICES ASSUME NEW i \in 1 .. Len(outgoing) PROVE e(i) \in Entry
          OBVIOUS
        <4>1. outgoing[i] \in Entry
          OBVIOUS
        <4>2. PICK st \in Statuses : e(i) = [outgoing[i] EXCEPT !.status = st]
          BY <4>1 DEF Entry, Statuses
        <4> HIDE DEF e
        <4> QED
          BY <4>1, <4>2 DEF Entry
      <3>2. outgoing' = [i \in 1 .. Len(outgoing) |-> e(i)]
        BY <1>2 DEF Abort
      <3> HIDE DEF e
      <3> QED
        BY <3>1, <3>2
    <2> QED
      BY <1>2, <2>1 DEF Abort
  <1>3. CASE Transmit
    <2>1. outgoing' \in Seq(Entry)
      <3>1. First("buffered") \in DOMAIN outgoing
        BY <1>3, FirstEntry, TypedIs DEF Transmit
      <3>2. outgoing[First("buffered")] \in Entry
        BY <3>1
      <3>3. [outgoing[First("buffered")] EXCEPT !.place = "sent"] \in Entry
        BY <3>2 DEF Entry
      <3> QED
        BY <1>3, <3>1, <3>3 DEF Transmit
    <2> QED
      BY <1>3, <2>1 DEF Transmit
  <1>4. CASE Arrive
    <2>1. First("sent") \in DOMAIN outgoing
      BY <1>4, FirstEntry, TypedIs DEF Arrive
    <2>2. outgoing[First("sent")] \in Entry
      BY <2>1
    <2>3. outgoing' \in Seq(Entry)
      <3>1. [outgoing[First("sent")] EXCEPT !.place = "arrived"] \in Entry
        BY <2>2 DEF Entry
      <3> QED
        BY <1>4, <2>1, <3>1 DEF Arrive
    <2>4. promise' \in Records
      <3>1. <<outgoing[First("sent")].call, gen>> \in (1 .. MaxCalls) \X Nat
        BY <2>2 DEF Entry
      <3> QED
        BY <1>4, <3>1, Recorded DEF Arrive
    <2> QED
      BY <1>4, <2>3, <2>4 DEF Arrive
  <1>5. CASE Respond
    <2>1. PICK i \in DOMAIN outgoing, answer \in {"accepted", "rejected"} :
            outgoing' = [outgoing EXCEPT ![i].status = answer]
      BY <1>5 DEF Respond
    <2>2. outgoing' \in Seq(Entry)
      <3>1. outgoing[i] \in Entry
        OBVIOUS
      <3>2. [outgoing[i] EXCEPT !.status = answer] \in Entry
        BY <3>1 DEF Entry, Statuses
      <3> QED
        BY <2>1, <3>2
    <2> QED
      BY <1>5, <2>2 DEF Respond
  <1>6. ASSUME NEW d \in Destinations, OpenLink(d) \/ RefuseLink(d) \/ AnswerClose(d) \/ Drain(d)
        PROVE  Typed' /\ Control'
    <2>1. /\ UNCHANGED <<linkMode, arrived, server, faults>> /\ KeepSending /\ KeepClient
          /\ errno' \in {errno, "refused"}
      BY <1>6 DEF OpenLink, RefuseLink, AnswerClose, Drain
    <2>2. link' \in [Destinations -> {"none", "opening", "open", "closing", "refused"}]
      BY <1>6 DEF OpenLink, RefuseLink, AnswerClose, Drain
    <2>3. credit' \in [Destinations -> 0 .. 2]
      BY <1>6 DEF OpenLink, RefuseLink, AnswerClose, Drain
    <2> QED
      BY <2>1, <2>2, <2>3
  <1>7. ASSUME NEW d \in Destinations, Deliver(d) PROVE Typed' /\ Control'
    <2>1. PICK m \in Oldest(d) :
            /\ incoming' = Append(incoming, m) /\ inbox' = inbox \ {m}
            /\ \/ presettled' = presettled \cup {m} /\ UNCHANGED unsettled
               \/ unsettled' = unsettled \cup {m} /\ UNCHANGED presettled
      BY <1>7 DEF Deliver
    <2>2. m \in Message
      BY DEF Oldest, Inbox
    <2>3. credit' \in [Destinations -> 0 .. 2]
      BY <1>7 DEF Deliver
    <2> QED
      BY <1>7, <2>1, <2>2, <2>3 DEF Deliver
  <1>8. ASSUME NEW d \in Destinations, Publish(d) PROVE Typed' /\ Control'
    <2>1. published' \in 1 .. MaxPublished
      BY <1>8, MessagingBounds DEF Publish
    <2>2. [dest |-> d, id |-> published'] \in Message
      BY <2>1 DEF Message
    <2> QED
      BY <1>8, <2>1, <2>2 DEF Publish
  <1> QED
    BY <1>1, <1>2, <1>3, <1>4, <1>5, <1>6, <1>7, <1>8 DEF Network

\* The record of a call that begins, and of one that ends.
LEMMA RecordedCall ==
  ASSUME promise \in Records, NEW c \in 1 .. MaxCalls, NEW q \in {0, 1}, gen \in Nat,
         NEW r \in Results
  PROVE  /\ [promise EXCEPT !.result[c] = "open", !.quality[c] = q, !.began[c] = gen] \in Records
         /\ [promise EXCEPT !.result[c] = r, !.ended[c] = gen] \in Records
  BY DEF Records

LEMMA UserTyped ==
  ASSUME Typed, Control, User \/ Push \/ Return
  PROVE  Typed' /\ Control'
  <1> USE DEF Typed, Control, ThreadTypes, ApplicationTypes, CommandTypes, TransportTypes,
          LinkTypes, ServerTypes, HistoryTypes, threadVars, application, command, transport,
          links, arrived, messenger, server, history
  <1>1. ASSUME NEW op, NEW q, NEW d, NEW timed, Call(op, q, d, timed),
               [op |-> op, qos |-> q, dest |-> d, timed |-> timed] \in Requests
        PROVE  /\ calls' \in 0 .. MaxCalls /\ calls' = calls + 1
               /\ request' \in Requests /\ request'.op = op
               /\ user' = "called" /\ pc = "idle"
               /\ ThreadTypes' /\ CommandTypes' /\ LinkTypes' /\ ServerTypes'
               /\ UNCHANGED <<pc, held, message, reinstating, gen, alive, errno, outgoing, given, strays, faults>>
    <2>1. calls' \in 0 .. MaxCalls /\ calls' = calls + 1
      BY <1>1, MessagingBounds DEF Call
    <2>2. request' = [op |-> op, qos |-> q, dest |-> d, timed |-> timed]
      BY <1>1 DEF Call
    <2>3. user = "idle" /\ user' = "called"
      BY <1>1 DEF Call
    <2>4. /\ UNCHANGED <<threadVars, command, links, arrived, server>>
          /\ UNCHANGED <<pc, held, message, reinstating, gen, alive, errno, outgoing, given, strays, faults>>
      BY <1>1 DEF Call
    <2>5. ThreadTypes' /\ CommandTypes' /\ LinkTypes' /\ ServerTypes'
      BY <2>4
    <2> QED
      BY <1>1, <2>1, <2>2, <2>3, <2>4, <2>5
  <1>8. ASSUME NEW op \in {"send", "subscribe", "receive", "unsubscribe"}, request' \in Requests, request'.op = op,
               calls' \in 0 .. MaxCalls, calls' = calls + 1, user' = "called", pc = "idle",
               sends' \in 0 .. MaxCalls, sends' <= calls', op = "send" => sends' >= 1,
               mode' \in Modes, promise' \in Records,
               ThreadTypes', CommandTypes', LinkTypes', ServerTypes',
               UNCHANGED <<pc, held, message, reinstating, gen, alive, errno, outgoing, given, strays, faults>>
        PROVE  Typed' /\ Control'
    <2>1. request' # NoRequest
      BY <1>8 DEF NoRequest
    <2>2. ApplicationTypes' /\ TransportTypes' /\ HistoryTypes'
      BY <1>8
    <2>3. Control'
      BY <1>8, <2>1
    <2> QED
      BY <1>8, <2>2, <2>3
  <1>2. ASSUME NEW q \in SendQoS, NEW timed \in BOOLEAN, CallSend(q, timed) PROVE Typed' /\ Control'
    <2>1. [op |-> "send", qos |-> q, dest |-> None, timed |-> timed] \in Requests
      BY DEF Requests
    <2>2. Call("send", q, None, timed) /\ calls < MaxCalls
      BY <1>2 DEF CallSend, Call
    <2>3. q \in {0, 1} /\ sends' = sends + 1 /\ sends' \in 1 .. MaxCalls
      BY <1>2, <2>2, DestinationsAssumption, MessagingBounds DEF CallSend
    <2>4. promise' \in Records
      BY <1>2, <2>3, RecordedCall DEF CallSend, Results
    <2>5. mode' \in Modes
      BY <1>2 DEF CallSend, SettleMode, Modes
    <2>6. sends' <= calls + 1
      BY <2>3
    <2> HIDE DEF Typed, Control, ThreadTypes, CommandTypes, LinkTypes, ServerTypes
    <2> QED
      BY <1>1, <1>8, <2>1, <2>2, <2>3, <2>4, <2>5, <2>6
  <1>3. ASSUME NEW d \in Destinations, NEW timed \in BOOLEAN, CallSubscribe(d, timed) \/ CallReceive(d, timed)
        PROVE  Typed' /\ Control'
    <2>1. PICK op \in {"subscribe", "receive"} : Call(op, QoS(d), d, timed)
      BY <1>3 DEF CallSubscribe, CallReceive
    <2>2. [op |-> op, qos |-> QoS(d), dest |-> d, timed |-> timed] \in Requests
      BY DEF Requests, QoS
    <2>3. mode' \in Modes
      BY <1>3 DEF CallSubscribe, CallReceive, SettleMode, Modes
    <2>4. UNCHANGED <<sends, promise>>
      BY <1>3 DEF CallSubscribe, CallReceive
    <2>5. sends' \in 0 .. MaxCalls /\ sends' <= calls + 1 /\ promise' \in Records
      BY <2>4
    <2> HIDE DEF Typed, Control, ThreadTypes, CommandTypes, LinkTypes, ServerTypes
    <2> QED
      BY <1>1, <1>8, <2>1, <2>2, <2>3, <2>5
  <1>4. ASSUME NEW d \in Destinations, CallUnsubscribe(d) PROVE Typed' /\ Control'
    <2>1. Call("unsubscribe", QoS(d), d, FALSE) /\ UNCHANGED <<sends, mode, promise>>
      BY <1>4 DEF CallUnsubscribe
    <2>2. [op |-> "unsubscribe", qos |-> QoS(d), dest |-> d, timed |-> FALSE] \in Requests
      BY DEF Requests, QoS
    <2>3. sends' \in 0 .. MaxCalls /\ sends' <= calls + 1 /\ promise' \in Records /\ mode' \in Modes
      BY <2>1
    <2> HIDE DEF Typed, Control, ThreadTypes, CommandTypes, LinkTypes, ServerTypes
    <2> QED
      BY <1>1, <1>8, <2>1, <2>2, <2>3
  <1>5. ASSUME NEW m \in held, Confirm(m) PROVE Typed' /\ Control'
    BY <1>5 DEF Confirm, Settle, Interpret
  <1>6. CASE Push
    <2>1. (replies' = <<>> /\ strays' = 0) \/ UNCHANGED <<replies, strays>>
      BY <1>6 DEF Push
    <2>2. replies' \in Seq(Reply) /\ strays' \in Nat
      <3>1. replies \in Seq(Reply) /\ strays \in Nat
        OBVIOUS
      <3> HIDE DEF Typed, Control, Reply
      <3>2. <<>> \in Seq(Reply) /\ 0 \in Nat
        OBVIOUS
      <3> QED
        BY <2>1, <3>1, <3>2
    <2>3. /\ user = "called" /\ user' = "wait" /\ pc' = "ready"
          /\ UNCHANGED <<state, destinations, request, sends, calls, held, status, message, handle,
                         messenger, server, given, promise, faults>>
      BY <1>6 DEF Push
    <2>4. request # NoRequest
      BY <2>3
    <2> QED
      BY <2>2, <2>3, <2>4
  <1>7. CASE Return
    <2>1. CASE request.op = "unsubscribe"
      <3>1. destinations' \in Seq(Destinations)
        BY <1>7, <2>1, Forgotten DEF Return
      <3> QED
        BY <1>7, <2>1, <3>1 DEF Return, NoRequest
    <2>2. CASE request.op # "unsubscribe"
      <3>1. Head(replies) \in Reply /\ replies' \in Seq(Reply)
        <4>1. replies # <<>> /\ replies' = Tail(replies)
          BY <1>7, <2>2 DEF Return
        <4> HIDE DEF Typed
        <4>2. replies \in Seq(Reply)
          BY DEF Typed
        <4> HIDE DEF Reply
        <4> QED
          BY <4>1, <4>2
      <3>2. held' \subseteq Message
        BY <1>7, <2>2, <3>1 DEF Return, Reply
      <3>3. promise' \in Records
        <4>1. CASE request.op # "send"
          BY <1>7, <2>2, <4>1 DEF Return
        <4>2. CASE request.op = "send"
          <5>1. sends \in 1 .. MaxCalls /\ gen \in Nat /\ Head(replies).result \in Results
            BY <3>1, <4>2 DEF Reply
          <5>2. promise' = [promise EXCEPT !.result[sends] = Head(replies).result, !.ended[sends] = gen]
            BY <1>7, <2>2, <4>2 DEF Return
          <5>3. promise \in Records
            OBVIOUS
          <5> HIDE DEF Typed
          <5> QED
            BY <5>1, <5>2, <5>3, RecordedCall
        <4> QED
          BY <4>1, <4>2
      <3> QED
        BY <1>7, <2>2, <3>1, <3>2, <3>3 DEF Return, NoRequest
    <2> QED
      BY <2>1, <2>2
  <1> QED
    BY <1>2, <1>3, <1>4, <1>5, <1>6, <1>7 DEF User

LEMMA InitTyped == Init => Typed /\ Control
  <1> SUFFICES ASSUME Init PROVE Typed /\ Control
    OBVIOUS
  <1>1. ThreadTypes /\ ApplicationTypes /\ CommandTypes /\ TransportTypes
    BY MessagingBounds DEF Init, ThreadTypes, ApplicationTypes, CommandTypes, TransportTypes, Modes, Statuses
  <1>2. LinkTypes /\ ServerTypes
    BY MessagingBounds DEF Init, LinkTypes, ServerTypes, All, Modes
  <1>3. HistoryTypes
    BY MessagingBounds DEF Init, HistoryTypes, Records
  <1>4. Control
    BY DEF Init, Control, NoRequest
  <1> QED
    BY <1>1, <1>2, <1>3, <1>4 DEF Typed

LEMMA NextTyped == Typed /\ Control /\ [Next]_vars => (Typed /\ Control)'
  <1> SUFFICES ASSUME Typed, Control, [Next]_vars PROVE Typed' /\ Control'
    OBVIOUS
  <1>1. CASE User \/ Push \/ Return
    BY <1>1, UserTyped
  <1>2. CASE Command \/ Expire
    BY <1>2, CommandTyped
  <1>3. CASE Proton
    BY <1>3, ProtonTyped
  <1>4. CASE Network \/ LoseConnection \/ \E d \in Destinations : Publish(d)
    BY <1>4, NetworkTyped
  <1>5. CASE UNCHANGED vars
    BY <1>5, PartsStay DEF vars, messenger, Typed, Control, application, command, history
  <1> QED
    BY <1>1, <1>2, <1>3, <1>4, <1>5 DEF Next

LEMMA AlwaysTyped == Spec => [](Typed /\ Control)
  BY InitTyped, NextTyped, PTL DEF Spec

\* Every variable keeps its type.
THEOREM TypeCorrect == Spec => []TypeOK
  <1>1. Typed /\ Control => TypeOK
    BY TypedIs
  <1> QED
    BY <1>1, AlwaysTyped, PTL

-----------------------------------------------------------------------------
(* What is settled was given                                               *)

LEMMA AppendedSet ==
  ASSUME NEW S, NEW s \in Seq(S), NEW e \in S
  PROVE  ToSet(Append(s, e)) = ToSet(s) \cup {e}
  <1> DEFINE t == Append(s, e)
  <1>1. /\ DOMAIN t = 1 .. Len(s) + 1 /\ DOMAIN s = 1 .. Len(s) /\ Len(s) \in Nat
        /\ \A i \in 1 .. Len(s) : t[i] = s[i]
        /\ t[Len(s) + 1] = e
    OBVIOUS
  <1> HIDE DEF t
  <1>2. \A i \in 1 .. Len(s) + 1 : i \in 1 .. Len(s) \/ i = Len(s) + 1
    BY <1>1
  <1>3. \A i \in 1 .. Len(s) : i \in 1 .. Len(s) + 1
    BY <1>1
  <1>4. Len(s) + 1 \in 1 .. Len(s) + 1
    BY <1>1
  <1>5. ToSet(t) \subseteq ToSet(s) \cup {e}
    BY <1>1, <1>2 DEF ToSet
  <1>6. ToSet(s) \cup {e} \subseteq ToSet(t)
    BY <1>1, <1>3, <1>4 DEF ToSet
  <1>7. ToSet(t) = ToSet(s) \cup {e}
    BY <1>5, <1>6
  <1> QED
    BY <1>7 DEF t

\* The message that the incoming tracker names was given to the application, or is
\* just about to be.
FetchedIsGiven == fetched # None => fetched \in ToSet(given) \/ (pc = "push" /\ fetched = message)

LEMMA SettledNext ==
  ASSUME Manual = {}, Typed, Control, FetchedIsGiven, SettledIsGiven, [Next]_vars
  PROVE  FetchedIsGiven' /\ SettledIsGiven'
  <1> USE DEF threadVars, application, command, transport, links, arrived, messenger, server,
          history, KeepAll, KeepCommand, KeepClient, KeepSending, KeepLinks
  <1>1. CASE Collect
    BY <1>1 DEF Collect, Goto, FetchedIsGiven, SettledIsGiven
  <1>2. CASE PushDelivery
    <2>1. /\ given' = Append(given, message) /\ UNCHANGED <<fetched, settled>> /\ pc = "push"
      BY <1>2 DEF PushDelivery
    <2>2. ToSet(given') = ToSet(given) \cup {message}
      BY <2>1, AppendedSet DEF Typed, HistoryTypes, Control
    <2> QED
      BY <2>1, <2>2 DEF FetchedIsGiven, SettledIsGiven
  <1>3. CASE Accept \/ SettleDelivery
    <2>1. /\ UNCHANGED <<fetched, given>> /\ pc = "accept"
          /\ settled' = settled \/ (settled' = settled \cup {fetched} /\ fetched # None)
      BY <1>3 DEF Accept, SettleDelivery, Settle
    <2> QED
      BY <2>1 DEF FetchedIsGiven, SettledIsGiven
  <1>4. CASE Connect
    BY <1>4 DEF Connect, PutBack, FetchedIsGiven, SettledIsGiven
  <1>5. CASE \E m \in held : Confirm(m)
    BY <1>5 DEF Confirm
  <1>6. ASSUME UNCHANGED <<fetched, message, given, settled>>, pc = "push" => pc' = "push"
        PROVE  FetchedIsGiven' /\ SettledIsGiven'
    BY <1>6 DEF FetchedIsGiven, SettledIsGiven
  <1>7. CASE UNCHANGED vars
    BY <1>6, <1>7 DEF vars
  <1>8. CASE Push \/ Return \/ Expire
    BY <1>6, <1>8 DEF Push, Return, Expire, Control
  <1>9. CASE Ready \/ Put \/ PutFails \/ OutboundPending \/ TrackerStatus \/ Judge
             \/ CreateSubscription \/ LinkUp \/ CloseLink \/ CloseLinkFails \/ LinkClosed
    BY <1>6, <1>9 DEF Ready, Put, PutFails, OutboundPending, TrackerStatus, Judge,
       CreateSubscription, LinkUp, CloseLink, CloseLinkFails, LinkClosed, NewLink
  <1>10. CASE CheckOutOfSequence \/ OpenForMessage \/ NoLink \/ RecvFails \/ Await \/ Awaited
              \/ AwaitTimeout \/ Drained \/ CollectFails
    BY <1>6, <1>10 DEF CheckOutOfSequence, OpenForMessage, NoLink, RecvFails, Await, Awaited,
       AwaitTimeout, Drained, CollectFails
  <1>11. CASE CheckForLoss \/ ReinstateLink \/ LinkReinstated \/ ReinstateFails \/ Reconnected
    BY <1>6, <1>11 DEF CheckForLoss, ReinstateLink, LinkReinstated, ReinstateFails, Reconnected, EndAttempt
  <1>12. CASE LoseConnection \/ Abort \/ Transmit \/ Arrive \/ Respond
    BY <1>6, <1>12 DEF LoseConnection, Abort, Transmit, Arrive, Respond, PutBack
  <1>13. ASSUME NEW d \in Destinations,
                OpenLink(d) \/ RefuseLink(d) \/ AnswerClose(d) \/ Deliver(d) \/ Drain(d) \/ Publish(d)
         PROVE  FetchedIsGiven' /\ SettledIsGiven'
    BY <1>6, <1>13 DEF OpenLink, RefuseLink, AnswerClose, Deliver, Drain, Publish
  <1>14. ASSUME NEW d, NEW q, NEW timed,
                CallSend(q, timed) \/ CallSubscribe(d, timed) \/ CallReceive(d, timed) \/ CallUnsubscribe(d)
         PROVE  FetchedIsGiven' /\ SettledIsGiven'
    BY <1>6, <1>14 DEF CallSend, CallSubscribe, CallReceive, CallUnsubscribe, Call
  <1> QED
    BY <1>1, <1>2, <1>3, <1>4, <1>5, <1>7, <1>8, <1>9, <1>10, <1>11, <1>12, <1>13, <1>14
    DEF Next, User, Command, Proton, Network

\* With automatic confirmation the server is told to forget only what the application
\* was given (command.rb:218-228).
THEOREM ForgottenWasGiven == Spec => []SettledIsGiven
  <1> DEFINE Inv == Manual = {} => FetchedIsGiven /\ SettledIsGiven
  <1>1. Init => Inv
    BY DEF Init, FetchedIsGiven, SettledIsGiven
  <1>2. Typed /\ Control /\ Inv /\ [Next]_vars => Inv'
    BY SettledNext
  <1>3. Inv => SettledIsGiven
    BY DEF SettledIsGiven
  <1> QED
    BY <1>1, <1>2, <1>3, AlwaysTyped, PTL DEF Spec

-----------------------------------------------------------------------------
(* A message is given at most once over each connection                    *)

Apart(s) == \A i, j \in DOMAIN s : s[i] = s[j] => i = j

LEMMA TailSet ==
  ASSUME NEW S, NEW s \in Seq(S), s # <<>>
  PROVE  /\ Head(s) \in S /\ Head(s) \in ToSet(s)
         /\ ToSet(s) = ToSet(Tail(s)) \cup {Head(s)}
         /\ Apart(s) => Apart(Tail(s)) /\ Head(s) \notin ToSet(Tail(s))
  <1> DEFINE t == Tail(s)
             h == Head(s)
             n == Len(s)
  <1>1. /\ n \in Nat \ {0} /\ DOMAIN s = 1 .. n /\ DOMAIN t = 1 .. n - 1
        /\ \A i \in 1 .. n - 1 : t[i] = s[i + 1]
        /\ h = s[1] /\ h \in S
    OBVIOUS
  <1> HIDE DEF t, h, n
  <1>2. \A i \in 1 .. n : i = 1 \/ i - 1 \in 1 .. n - 1
    BY <1>1
  <1>3. \A i \in 1 .. n - 1 : i + 1 \in 1 .. n /\ i + 1 # 1
    BY <1>1
  <1>4. 1 \in 1 .. n
    BY <1>1
  <1>5. h \in ToSet(s) /\ ToSet(t) \subseteq ToSet(s)
    BY <1>1, <1>3, <1>4 DEF ToSet
  <1>6. ToSet(s) \subseteq ToSet(t) \cup {h}
    <2> SUFFICES ASSUME NEW i \in 1 .. n PROVE s[i] \in ToSet(t) \cup {h}
      BY <1>1 DEF ToSet
    <2>1. CASE i = 1
      BY <1>1, <2>1
    <2>2. CASE i # 1
      <3>1. i - 1 \in 1 .. n - 1 /\ t[i - 1] = s[i]
        BY <1>1, <1>2, <2>2
      <3> QED
        BY <1>1, <3>1 DEF ToSet
    <2> QED
      BY <2>1, <2>2
  <1>7. ASSUME Apart(s) PROVE Apart(t) /\ h \notin ToSet(t)
    <2>1. \A i, j \in 1 .. n : s[i] = s[j] => i = j
      BY <1>1, <1>7 DEF Apart
    <2>2. \A i, j \in 1 .. n - 1 : t[i] = t[j] => i + 1 = j + 1
      BY <1>1, <1>3, <2>1
    <2>3. \A i, j \in 1 .. n - 1 : t[i] = t[j] => i = j
      BY <2>2
    <2>4. \A i \in 1 .. n - 1 : t[i] # h
      BY <1>1, <1>3, <1>4, <2>1
    <2> QED
      BY <1>1, <2>3, <2>4 DEF Apart, ToSet
  <1> QED
    BY <1>1, <1>5, <1>6, <1>7 DEF t, h

LEMMA AppendedApart ==
  ASSUME NEW S, NEW s \in Seq(S), NEW e \in S, Apart(s), e \notin ToSet(s)
  PROVE  Apart(Append(s, e))
  <1> DEFINE t == Append(s, e)
  <1>1. /\ DOMAIN t = 1 .. Len(s) + 1 /\ DOMAIN s = 1 .. Len(s) /\ Len(s) \in Nat
        /\ \A i \in 1 .. Len(s) : t[i] = s[i]
        /\ t[Len(s) + 1] = e
    OBVIOUS
  <1> HIDE DEF t
  <1>2. \A i \in 1 .. Len(s) + 1 : i \in 1 .. Len(s) \/ i = Len(s) + 1
    BY <1>1
  <1>3. \A i \in 1 .. Len(s) : s[i] # e
    BY <1>1 DEF ToSet
  <1>4. Apart(t)
    BY <1>1, <1>2, <1>3 DEF Apart
  <1> QED
    BY <1>4 DEF t

\* Where something is in a sequence.
At(s, x) == {i \in DOMAIN s : s[i] = x}

LEMMA Counted ==
  ASSUME NEW S, NEW s \in Seq(S), NEW x
  PROVE  /\ IsFiniteSet(At(s, x))
         /\ Cardinality(At(s, x)) \in Nat
         /\ x \notin ToSet(s) => Cardinality(At(s, x)) = 0
  <1> DEFINE I == At(s, x)
  <1>1. I \in SUBSET (1 .. Len(s)) /\ Len(s) \in Int /\ 1 \in Int
    BY DEF At
  <1>2. x \notin ToSet(s) => I = {}
    BY DEF ToSet, At
  <1> HIDE DEF I
  <1>3. IsFiniteSet(I)
    BY <1>1, FS_Interval, FS_Subset
  <1>4. Cardinality(I) \in Nat /\ (I = {} => Cardinality(I) = 0)
    BY <1>3, FS_CardinalityType, FS_EmptySet
  <1>5. IsFiniteSet(I) /\ Cardinality(I) \in Nat /\ (x \notin ToSet(s) => Cardinality(I) = 0)
    BY <1>2, <1>3, <1>4
  <1> QED
    BY <1>5 DEF I

LEMMA AppendedCount ==
  ASSUME NEW S, NEW s \in Seq(S), NEW e \in S, NEW x
  PROVE  Cardinality(At(Append(s, e), x)) = IF e = x THEN Cardinality(At(s, x)) + 1 ELSE Cardinality(At(s, x))
  <1> DEFINE t == Append(s, e)
             I == At(s, x)
             J == At(t, x)
             n == Len(s) + 1
  <1>1. J = (IF e = x THEN I \cup {n} ELSE I) /\ n \notin I
    <2>1. /\ DOMAIN t = 1 .. n /\ DOMAIN s = 1 .. Len(s) /\ Len(s) \in Nat
          /\ \A i \in 1 .. Len(s) : t[i] = s[i]
          /\ t[n] = e
      OBVIOUS
    <2>2. \A i \in 1 .. n : i \in 1 .. Len(s) \/ i = n
      BY <2>1
    <2>3. n \in 1 .. n /\ n \notin 1 .. Len(s) /\ \A i \in 1 .. Len(s) : i \in 1 .. n
      BY <2>1
    <2> HIDE DEF n, t
    <2> QED
      BY <2>1, <2>2, <2>3 DEF At
  <1>2. IsFiniteSet(I)
    BY Counted
  <1> HIDE DEF I, J, n
  <1>3. Cardinality(J) = IF e = x THEN Cardinality(I) + 1 ELSE Cardinality(I)
    BY <1>1, <1>2, FS_AddElement
  <1> QED
    BY <1>3 DEF I, J

LEMMA CountIs ==
  ASSUME given \in Seq(Message), NEW m
  PROVE  Count(m) \in Nat /\ (m \notin ToSet(given) => Count(m) = 0)
  <1>1. Count(m) = Cardinality(At(given, m))
    BY DEF Count, At
  <1> QED
    BY <1>1, Counted

LEMMA CountGrows ==
  ASSUME given \in Seq(Message), NEW e \in Message, given' = Append(given, e), NEW m
  PROVE  Count(m)' = IF e = m THEN Count(m) + 1 ELSE Count(m)
  <1>1. Count(m) = Cardinality(At(given, m)) /\ Count(m)' = Cardinality(At(given', m))
    BY DEF Count, At
  <1>2. Cardinality(At(Append(given, e), m)) =
          IF e = m THEN Cardinality(At(given, m)) + 1 ELSE Cardinality(At(given, m))
    BY AppendedCount
  <1> QED
    BY <1>1, <1>2

\* The messages on their way to the application, and the one just fetched.
Coming(m)  == m \in ToSet(incoming) \/ (alive /\ m \in inbox)
Fetched(m) == pc = "push" /\ message = m

Known(m) == m \in inbox \/ m \in unsettled \/ m \in ToSet(incoming) \/ m \in ToSet(given) \/ Fetched(m)

\* A connection gives the messages that wait at its beginning one more way to the
\* application each.
Counts(m) ==
  /\ Count(m) <= gen
  /\ Coming(m) \/ Fetched(m) => Count(m) + 1 <= gen
  /\ Coming(m) /\ Fetched(m) => Count(m) + 2 <= gen

Once ==
  /\ \A m \in Message : Known(m) => m.id <= published
  /\ Apart(incoming)
  /\ alive => inbox \cap ToSet(incoming) = {}
  /\ \A m \in Message : Counts(m)

\* Steps that give no message another way.
LEMMA OnceStays ==
  ASSUME Typed, Once, given' = given, published' = published, gen' = gen,
         incoming' = incoming,
         UNCHANGED <<alive, inbox>> \/ (~alive' /\ inbox' = inbox \cup unsettled),
         unsettled' \subseteq unsettled,
         pc' = "push" => pc = "push" /\ message' = message
  PROVE  Once'
  <1>1. \A m \in Message : Known(m)' => Known(m)
    BY DEF Known, Fetched
  <1>2. \A m \in Message : (Coming(m)' => Coming(m)) /\ (Fetched(m)' => Fetched(m)) /\ Count(m)' = Count(m)
    BY DEF Coming, Fetched, Count
  <1>3. \A m \in Message : Counts(m) => Counts(m)'
    <2> SUFFICES ASSUME NEW m \in Message, Counts(m) PROVE Counts(m)'
      OBVIOUS
    <2>1. Count(m) \in Nat /\ gen \in Nat
      BY CountIs DEF Typed, HistoryTypes, TransportTypes
    <2> QED
      BY <1>2, <2>1 DEF Counts
  <1> QED
    BY <1>1, <1>3 DEF Once

LEMMA OnceNext ==
  ASSUME Typed, Control, Once, [Next]_vars
  PROVE  Once'
  <1> USE DEF threadVars, application, command, transport, links, arrived, messenger, server,
          history, KeepAll, KeepCommand, KeepClient, KeepSending, KeepLinks, Goto
  <1>0. /\ incoming \in Seq(Message) /\ given \in Seq(Message) /\ inbox \subseteq Message
        /\ unsettled \subseteq Message /\ gen \in Nat \ {0} /\ published \in Nat
        /\ (pc = "push" => message \in Message)
        /\ \A m \in Message : Count(m) \in Nat
    <2>1. given \in Seq(Message)
      BY DEF Typed, HistoryTypes
    <2>2. \A m \in Message : Count(m) \in Nat
      BY <2>1, CountIs
    <2> QED
      BY <2>1, <2>2, MessagingBounds DEF Typed, LinkTypes, ServerTypes, TransportTypes, Control
  <1>1. CASE Collect
    <2>1. /\ incoming # <<>> /\ pc = "collect" /\ pc' = "push"
          /\ incoming' = Tail(incoming) /\ message' = Head(incoming)
          /\ UNCHANGED <<given, published, gen, alive, inbox, unsettled>>
      BY <1>1 DEF Collect
    <2>2. /\ Head(incoming) \in Message /\ Head(incoming) \in ToSet(incoming)
          /\ ToSet(incoming) = ToSet(incoming') \cup {Head(incoming)}
          /\ Apart(incoming') /\ Head(incoming) \notin ToSet(incoming')
      BY <1>0, <2>1, TailSet DEF Once
    <2>3. \A m \in Message : (Known(m)' => Known(m)) /\ ~Fetched(m) /\ Count(m)' = Count(m)
      BY <2>1, <2>2 DEF Known, Fetched, Count
    <2>4. \A m \in Message : /\ Coming(m)' => Coming(m)
                             /\ Fetched(m)' => Coming(m) /\ ~Coming(m)'
      BY <2>1, <2>2 DEF Once, Coming, Fetched
    <2>5. \A m \in Message : Counts(m)'
      <3> SUFFICES ASSUME NEW m \in Message PROVE Counts(m)'
        OBVIOUS
      <3>1. Counts(m)
        BY DEF Once
      <3> QED
        BY <2>1, <2>3, <2>4, <3>1 DEF Counts
    <2> QED
      BY <2>1, <2>2, <2>3, <2>5 DEF Once
  <1>2. CASE PushDelivery
    <2>1. /\ given' = Append(given, message) /\ pc = "push" /\ pc' # "push"
          /\ UNCHANGED <<incoming, published, gen, alive, inbox, unsettled>>
      BY <1>2 DEF PushDelivery
    <2>2. ToSet(given') = ToSet(given) \cup {message}
      BY <1>0, <2>1, AppendedSet
    <2>3. \A m \in Message : (Known(m)' => Known(m)) /\ ~Fetched(m)' /\ (Coming(m)' <=> Coming(m))
      BY <2>1, <2>2 DEF Known, Fetched, Coming
    <2>4. \A m \in Message : Count(m)' = IF message = m THEN Count(m) + 1 ELSE Count(m)
      BY <1>0, <2>1, CountGrows
    <2>5. \A m \in Message : Counts(m)'
      <3> SUFFICES ASSUME NEW m \in Message PROVE Counts(m)'
        OBVIOUS
      <3>1. Counts(m)
        BY DEF Once
      <3>2. CASE message = m
        <4>1. Fetched(m) /\ Count(m)' = Count(m) + 1
          BY <2>1, <2>4, <3>2 DEF Fetched
        <4> QED
          BY <1>0, <2>1, <2>3, <3>1, <4>1 DEF Counts
      <3>3. CASE message # m
        <4>1. Count(m)' = Count(m)
          BY <2>4, <3>3
        <4> QED
          BY <1>0, <2>1, <2>3, <3>1, <4>1 DEF Counts
      <3> QED
        BY <3>2, <3>3
    <2> QED
      BY <2>1, <2>3, <2>5 DEF Once
  <1>3. CASE Connect
    <2>1. /\ gen' = gen + 1 /\ incoming' = <<>> /\ inbox' = inbox \cup unsettled /\ unsettled' = {}
          /\ UNCHANGED <<given, published, pc, message>>
      BY <1>3 DEF Connect, PutBack
    <2>2. ToSet(incoming') = {} /\ Apart(incoming')
      BY <2>1 DEF ToSet, Apart
    <2>3. \A m \in Message : (Known(m)' => Known(m)) /\ (Fetched(m)' <=> Fetched(m)) /\ Count(m)' = Count(m)
      BY <2>1, <2>2 DEF Known, Fetched, Count
    <2>4. \A m \in Message : Counts(m)'
      <3> SUFFICES ASSUME NEW m \in Message PROVE Counts(m)'
        OBVIOUS
      <3>1. Counts(m)
        BY DEF Once
      <3> QED
        BY <1>0, <2>1, <2>3, <3>1 DEF Counts
    <2> QED
      BY <2>1, <2>2, <2>3, <2>4 DEF Once
  <1>4. ASSUME NEW d \in Destinations, Deliver(d) PROVE Once'
    <2>1. PICK m \in Oldest(d) :
            /\ alive /\ incoming' = Append(incoming, m) /\ inbox' = inbox \ {m}
            /\ unsettled' \subseteq unsettled \cup {m}
            /\ UNCHANGED <<given, published, gen, alive, pc, message>>
      BY <1>4 DEF Deliver
    <2>2. m \in inbox /\ m \in Message /\ m \notin ToSet(incoming)
      BY <1>0, <2>1 DEF Oldest, Inbox, Once
    <2>3. ToSet(incoming') = ToSet(incoming) \cup {m} /\ Apart(incoming')
      BY <1>0, <2>1, <2>2, AppendedSet, AppendedApart DEF Once
    <2>4. \A x \in Message :
            (Known(x)' => Known(x)) /\ (Fetched(x)' <=> Fetched(x)) /\ (Coming(x)' => Coming(x)) /\ Count(x)' = Count(x)
      BY <2>1, <2>2, <2>3 DEF Known, Fetched, Coming, Count
    <2>5. \A x \in Message : Counts(x)'
      <3> SUFFICES ASSUME NEW x \in Message PROVE Counts(x)'
        OBVIOUS
      <3>1. Counts(x)
        BY DEF Once
      <3> QED
        BY <1>0, <2>1, <2>4, <3>1 DEF Counts
    <2>6. inbox' \cap ToSet(incoming') = {}
      BY <2>1, <2>3 DEF Once
    <2> QED
      BY <2>1, <2>3, <2>4, <2>5, <2>6 DEF Once
  <1>5. ASSUME NEW d \in Destinations, Publish(d) PROVE Once'
    <2>1. PICK new \in Message :
            /\ published' = published + 1 /\ inbox' = inbox \cup {new} /\ new.id = published + 1
            /\ UNCHANGED <<incoming, given, gen, alive, unsettled, pc, message>>
      <3> DEFINE x == [dest |-> d, id |-> published + 1]
      <3>1. x \in Message /\ x.id = published + 1
        BY <1>0, <1>5, MessagingBounds DEF Publish, Message
      <3>2. /\ published' = published + 1 /\ inbox' = inbox \cup {x}
            /\ UNCHANGED <<incoming, given, gen, alive, unsettled, pc, message>>
        BY <1>5 DEF Publish
      <3> HIDE DEF x
      <3> QED
        BY <3>1, <3>2
    <2>2. ~Known(new)
      <3>1. ~(new.id <= published)
        BY <1>0, <2>1
      <3> QED
        BY <2>1, <3>1 DEF Once
    <2>3. new \notin ToSet(given) /\ new \notin ToSet(incoming) /\ ~Fetched(new)
      BY <2>2 DEF Known
    <2>4. \A x \in Message : x # new =>
            /\ (Known(x)' => Known(x)) /\ (Fetched(x)' <=> Fetched(x)) /\ (Coming(x)' => Coming(x))
      BY <2>1 DEF Known, Fetched, Coming
    <2>5. \A x \in Message : Count(x)' = Count(x)
      BY <2>1 DEF Count
    <2>6. Count(new) = 0 /\ ~Fetched(new)'
      <3>1. Count(new) = 0
        BY <1>0, <2>3, CountIs
      <3>2. ~Fetched(new)'
        BY <2>1, <2>3 DEF Fetched
      <3> QED
        BY <3>1, <3>2
    <2>7. \A x \in Message : Counts(x)'
      <3> SUFFICES ASSUME NEW x \in Message PROVE Counts(x)'
        OBVIOUS
      <3>1. Counts(x)
        BY DEF Once
      <3>2. CASE x = new
        <4>1. Count(x)' = 0 /\ ~Fetched(x)'
          BY <2>5, <2>6, <3>2
        <4> QED
          BY <1>0, <2>1, <4>1 DEF Counts
      <3>3. CASE x # new
        BY <1>0, <2>1, <2>4, <2>5, <3>1, <3>3 DEF Counts
      <3> QED
        BY <3>2, <3>3
    <2>8. \A x \in Message : Known(x)' => x.id <= published'
      <3> SUFFICES ASSUME NEW x \in Message, Known(x)' PROVE x.id <= published'
        OBVIOUS
      <3>1. CASE x = new
        BY <1>0, <2>1, <3>1
      <3>2. CASE x # new
        <4>1. x.id \in Nat /\ x.id <= published
          BY <2>4, <3>2 DEF Once, Message
        <4> QED
          BY <1>0, <2>1, <4>1
      <3> QED
        BY <3>1, <3>2
    <2>9. alive' => inbox' \cap ToSet(incoming') = {}
      BY <2>1, <2>3 DEF Once
    <2> QED
      BY <2>1, <2>7, <2>8, <2>9 DEF Once
  <1>6. ASSUME UNCHANGED <<given, published, gen, incoming>>,
               UNCHANGED <<alive, inbox>> \/ (~alive' /\ inbox' = inbox \cup unsettled),
               unsettled' \subseteq unsettled, pc' = "push" => pc = "push" /\ message' = message
        PROVE  Once'
    BY <1>6, OnceStays
  <1>7. CASE UNCHANGED vars
    BY <1>6, <1>7 DEF vars
  <1>8. CASE Push \/ Return \/ Expire
    BY <1>6, <1>8 DEF Push, Return, Expire, Finish
  <1>9. CASE Ready \/ Put \/ PutFails \/ OutboundPending \/ TrackerStatus \/ Judge
             \/ CreateSubscription \/ LinkUp \/ CloseLink \/ CloseLinkFails \/ LinkClosed
    BY <1>6, <1>9 DEF Ready, Put, PutFails, OutboundPending, TrackerStatus, Judge, RetryRequest, Finish,
       CreateSubscription, LinkUp, CloseLink, CloseLinkFails, LinkClosed, NewLink
  <1>10. CASE CheckOutOfSequence \/ OpenForMessage \/ NoLink \/ RecvFails \/ Await \/ Awaited
              \/ AwaitTimeout \/ Drained \/ CollectFails
    BY <1>6, <1>10 DEF CheckOutOfSequence, OpenForMessage, NoLink, RecvFails, Await, Awaited,
       AwaitTimeout, Drained, CollectFails, RetryRequest, Finish
  <1>11. CASE CheckForLoss \/ ReinstateLink \/ LinkReinstated \/ ReinstateFails \/ Reconnected
    BY <1>6, <1>11 DEF CheckForLoss, ReinstateLink, LinkReinstated, ReinstateFails, Reconnected, EndAttempt
  <1>12. CASE LoseConnection \/ Abort \/ Transmit \/ Arrive \/ Respond
    BY <1>6, <1>12 DEF LoseConnection, Abort, Transmit, Arrive, Respond, PutBack
  <1>13. ASSUME NEW d \in Destinations, OpenLink(d) \/ RefuseLink(d) \/ AnswerClose(d) \/ Drain(d) PROVE Once'
    BY <1>6, <1>13 DEF OpenLink, RefuseLink, AnswerClose, Drain
  <1>14. ASSUME NEW d, NEW q, NEW timed,
                CallSend(q, timed) \/ CallSubscribe(d, timed) \/ CallReceive(d, timed) \/ CallUnsubscribe(d)
         PROVE  Once'
    BY <1>6, <1>14 DEF CallSend, CallSubscribe, CallReceive, CallUnsubscribe, Call
  <1>15. CASE Accept \/ SettleDelivery \/ \E m \in held : Confirm(m)
    BY <1>6, <1>15 DEF Accept, SettleDelivery, Confirm, Settle, RetryRequest
  <1> QED
    BY <1>1, <1>2, <1>3, <1>4, <1>5, <1>7, <1>8, <1>9, <1>10, <1>11, <1>12, <1>13, <1>14, <1>15
    DEF Next, User, Command, Proton, Network

\* Only the loss of a connection can make the application get a message again
\* (command.rb:214-228, proton_container.rb:597).
THEOREM GivenOncePerConnection == Spec => []OncePerConnection
  <1>1. Init => Once
    <2> SUFFICES ASSUME Init PROVE Once
      OBVIOUS
    <2>1. /\ incoming = <<>> /\ given = <<>> /\ inbox = {} /\ unsettled = {} /\ pc = "idle" /\ gen = 1
      BY DEF Init
    <2>2. ToSet(incoming) = {} /\ ToSet(given) = {} /\ Apart(incoming)
      BY <2>1 DEF ToSet, Apart
    <2>3. \A m \in Message : ~Known(m) /\ ~Coming(m) /\ ~Fetched(m)
      BY <2>1, <2>2 DEF Known, Coming, Fetched
    <2>4. \A m \in Message : Count(m) = 0
      <3>1. given \in Seq(Message)
        BY <2>1
      <3> QED
        BY <2>2, <3>1, CountIs
    <2>5. \A m \in Message : Counts(m)
      BY <2>1, <2>3, <2>4 DEF Counts
    <2> QED
      BY <2>1, <2>2, <2>3, <2>5 DEF Once
  <1>2. Typed /\ Control /\ Once /\ [Next]_vars => Once'
    BY OnceNext
  <1>3. Typed /\ Once => OncePerConnection
    <2> SUFFICES ASSUME Typed, Once, NEW m \in ToSet(given) PROVE Count(m) <= gen
      BY DEF OncePerConnection
    <2>1. m \in Message
      BY DEF Typed, HistoryTypes, ToSet
    <2> QED
      BY <2>1 DEF Once, Counts
  <1> QED
    BY <1>1, <1>2, <1>3, AlwaysTyped, PTL DEF Spec

-----------------------------------------------------------------------------
(* Messages of the own destination                                         *)

Receiving == {"await", "awaited", "drain", "collect"}

\* On the first connection one link has a credit or a message at a time: the one of the
\* receive under way.
Credits(d, n) == \A c \in Destinations : credit[c] = IF c = d THEN n ELSE 0
Clean == incoming = <<>> /\ \A c \in Destinations : credit[c] = 0
Granted(d) == incoming = <<>> /\ Credits(d, 1)
Got(d) == Len(incoming) = 1 /\ incoming[1].dest = d /\ \A c \in Destinations : credit[c] = 0

\* A receive that ends while the client retries leaves its credit, and then the client
\* needs another connection.
Own ==
  gen = 1 =>
    /\ reinstating = None /\ state # "stopped"
    /\ pc \in Receiving => Clean \/ Granted(request.dest) \/ Got(request.dest)
    /\ pc = "collect" => Got(request.dest)
    /\ pc = "awaited" /\ state = "started" => Got(request.dest)
    /\ pc = "push" => message.dest = request.dest /\ Clean
    /\ pc \notin Receiving => Clean \/ (state = "retrying" /\ pc \in {"idle", "ready"})

\* Steps that leave the credits and the messages alone.
LEMMA OwnStays ==
  ASSUME Own, UNCHANGED <<gen, incoming, credit, reinstating>>,
         gen = 1 => state' \in {state, "retrying"},
         \/ UNCHANGED <<pc, request, message>>
         \/ /\ pc \notin Receiving \cup {"push"} /\ pc' \notin Receiving \cup {"push"}
            /\ pc \in {"idle", "ready"} => pc' \in {"idle", "ready"} \/ state # "retrying"
  PROVE  Own'
  BY DEF Own, Clean, Granted, Got, Credits, Receiving

LEMMA OwnCommand ==
  ASSUME Typed, Control, Own, Command \/ Expire
  PROVE  Own'
  <1> USE DEF threadVars, application, command, transport, links, arrived, messenger, server,
          history, KeepAll, Goto
  <1>1. CASE OpenForMessage
    <2>1. /\ pc = "open" /\ pc' = "await" /\ UNCHANGED <<gen, reinstating, state, request, incoming>>
          /\ credit' = [credit EXCEPT ![request.dest] = IF @ = 0 THEN 1 ELSE @]
          /\ credit \in [Destinations -> 0 .. 2]
      BY <1>1 DEF OpenForMessage, Typed, LinkTypes
    <2>2. ASSUME gen = 1 PROVE Granted(request.dest)'
      <3>1. Clean
        BY <2>1, <2>2 DEF Own, Receiving
      <3>2. \A c \in Destinations : credit'[c] = IF c = request.dest THEN 1 ELSE 0
        BY <2>1, <3>1 DEF Clean
      <3> QED
        BY <2>1, <3>1, <3>2 DEF Clean, Granted, Credits
    <2> QED
      BY <2>1, <2>2 DEF Own, Receiving
  <1>2. CASE Await
    <2>1. /\ pc = "await" /\ pc' = "awaited"
          /\ incoming # <<>> \/ state # "started"
          /\ UNCHANGED <<gen, reinstating, state, request, incoming, credit>>
      BY <1>2 DEF Await
    <2> QED
      BY <2>1 DEF Own, Receiving, Clean, Granted, Got, Credits
  <1>3. CASE Awaited
    <2>1. /\ pc = "awaited" /\ UNCHANGED <<gen, reinstating, state, request, incoming, credit>>
          /\ \/ state = "started" /\ pc' = "collect"
             \/ state # "started" /\ pc' = "idle"
      BY <1>3 DEF Awaited, Finish
    <2> QED
      BY <2>1 DEF Own, Receiving, Clean, Granted, Got, Credits, Typed, ThreadTypes
  <1>4. CASE AwaitTimeout
    <2>1. /\ pc = "await" /\ UNCHANGED <<gen, reinstating, state, request, incoming, credit>>
          /\ \/ state = "started" /\ pc' = "drain"
             \/ state # "started" /\ pc' = "idle"
      BY <1>4 DEF AwaitTimeout, Finish
    <2> QED
      BY <2>1 DEF Own, Receiving, Clean, Granted, Got, Credits, Typed, ThreadTypes
  <1>5. CASE Drained
    <2>1. /\ pc = "drain" /\ UNCHANGED <<gen, reinstating, state, request, incoming, credit>>
          /\ credit[request.dest] = 0 \/ state # "started"
          /\ \/ incoming # <<>> /\ pc' = "collect"
             \/ incoming = <<>> /\ pc' = "idle"
      BY <1>5 DEF Drained, Finish
    <2>2. request.dest \in Destinations
      BY <2>1, RequestIs DEF Typed, Control
    <2>3. Granted(request.dest) => credit[request.dest] = 1
      BY <2>2 DEF Granted, Credits
    <2>4. Got(request.dest) => incoming # <<>>
      BY DEF Got
    <2>5. state # "stopped" /\ state # "started" => state = "retrying"
      BY DEF Typed, ThreadTypes
    <2>6. CASE incoming # <<>>
      BY <2>1, <2>6 DEF Own, Receiving, Clean, Granted, Got, Credits
    <2>7. CASE incoming = <<>>
      <3>1. gen = 1 => Clean \/ state = "retrying"
        BY <2>1, <2>3, <2>4, <2>5, <2>7 DEF Own, Receiving
      <3> QED
        BY <2>1, <2>7, <3>1 DEF Own, Receiving, Clean
    <2> QED
      BY <2>6, <2>7
  <1>6. CASE Collect
    <2>1. /\ pc = "collect" /\ pc' = "push" /\ UNCHANGED <<gen, reinstating, state, request, credit>>
          /\ incoming # <<>> /\ incoming' = Tail(incoming) /\ message' = Head(incoming)
          /\ incoming \in Seq(Message)
      BY <1>6 DEF Collect, Typed, LinkTypes
    <2>2. Got(request.dest) => message'.dest = request'.dest /\ Clean'
      <3> SUFFICES ASSUME Got(request.dest) PROVE message'.dest = request'.dest /\ Clean'
        OBVIOUS
      <3>1. Len(incoming) = 1 /\ incoming[1].dest = request.dest
        BY DEF Got
      <3>2. Head(incoming) = incoming[1] /\ Len(Tail(incoming)) = 0 /\ Tail(incoming) \in Seq(Message)
        BY <2>1, <3>1
      <3>3. Tail(incoming) = <<>>
        BY <3>2, EmptySeq
      <3> QED
        BY <2>1, <3>1, <3>2, <3>3 DEF Got, Clean
    <2> QED
      BY <2>1, <2>2 DEF Own, Receiving
  <1>7. CASE CollectFails
    <2>1. /\ pc = "collect" /\ incoming = <<>> /\ UNCHANGED <<gen>>
      BY <1>7 DEF CollectFails
    <2> QED
      BY <1>7, <2>1 DEF Own, Got, CollectFails, Finish
  <1>8. CASE PushDelivery
    <2>1. /\ pc = "push" /\ pc' \in {"idle", "accept"} /\ UNCHANGED <<gen, reinstating, state, incoming, credit>>
      BY <1>8 DEF PushDelivery
    <2> QED
      BY <2>1 DEF Own, Receiving, Clean
  <1>9. CASE Accept \/ SettleDelivery
    <2>1. /\ UNCHANGED <<gen, incoming, credit, reinstating>> /\ state' \in {state, "retrying"}
          /\ pc = "accept" /\ pc' \in {"idle", "ready"}
      BY <1>9 DEF Accept, SettleDelivery, Interpret, RetryRequest
    <2> QED
      BY <2>1, OwnStays DEF Receiving
  <1>10. CASE Ready \/ Put \/ PutFails \/ OutboundPending \/ TrackerStatus \/ Judge
             \/ CreateSubscription \/ LinkUp \/ CloseLink \/ CloseLinkFails \/ LinkClosed
    <2>1. /\ UNCHANGED <<gen, incoming, credit, reinstating>> /\ state' \in {state, "retrying"}
          /\ pc \in {"ready", "perform", "buffered", "status", "judge", "linkUp", "closing"}
          /\ pc' \in {"ready", "idle", "perform", "buffered", "status", "judge", "linkUp", "closing"}
          /\ pc = "ready" => state # "retrying"
      BY <1>10 DEF Ready, Put, PutFails, OutboundPending, TrackerStatus, Judge, RetryRequest, Finish,
         CreateSubscription, LinkUp, CloseLink, CloseLinkFails, LinkClosed, NewLink
    <2> QED
      BY <2>1, OwnStays DEF Receiving
  <1>11. CASE CheckOutOfSequence \/ NoLink \/ RecvFails
    <2>1. /\ UNCHANGED <<gen, incoming, credit, reinstating>> /\ state' \in {state, "retrying"}
          /\ pc \in {"perform", "open"} /\ pc' \in {"ready", "idle", "open"}
      BY <1>11 DEF CheckOutOfSequence, NoLink, RecvFails, CheckMessenger, RetryRequest, Finish
    <2> QED
      BY <2>1, OwnStays DEF Receiving
  <1>12. CASE Expire
    <2>1. /\ UNCHANGED <<gen, incoming, credit, reinstating, state>>
          /\ pc \notin Receiving \cup {"push"} /\ pc' = "idle"
      BY <1>12 DEF Expire, Finish, Control, Receiving
    <2> QED
      BY <2>1, OwnStays DEF Receiving
  <1> QED
    BY <1>1, <1>2, <1>3, <1>4, <1>5, <1>6, <1>7, <1>8, <1>9, <1>10, <1>11, <1>12 DEF Command

LEMMA OwnNext ==
  ASSUME Typed, Control, Own, [Next]_vars
  PROVE  Own'
  <1> USE DEF threadVars, application, command, transport, links, arrived, messenger, server,
          history, KeepCommand, KeepClient, KeepSending, KeepLinks
  <1>1. CASE Command \/ Expire
    BY <1>1, OwnCommand
  <1>2. CASE Connect
    <2>1. gen \in Nat \ {0} /\ gen' = gen + 1
      BY <1>2 DEF Connect, Typed, TransportTypes
    <2>2. gen' # 1
      BY <2>1
    <2> QED
      BY <2>2 DEF Own
  <1>3. CASE ReinstateLink \/ LinkReinstated \/ ReinstateFails \/ Reconnected
    <2>1. reinstating # None /\ UNCHANGED gen
      BY <1>3 DEF ReinstateLink, LinkReinstated, ReinstateFails, Reconnected, EndAttempt, Waiting
    <2> QED
      BY <2>1 DEF Own
  <1>4. ASSUME NEW d \in Destinations, Deliver(d) PROVE Own'
    <2>1. PICK m \in Oldest(d) :
            /\ credit[d] > 0 /\ incoming' = Append(incoming, m)
            /\ credit' = [credit EXCEPT ![d] = @ - 1]
            /\ UNCHANGED <<gen, reinstating, state, pc, request, message>>
            /\ m \in Message /\ m.dest = d
            /\ credit \in [Destinations -> 0 .. 2]
      BY <1>4 DEF Deliver, Oldest, Inbox, Typed, LinkTypes, ServerTypes
    <2>2. ~Clean /\ \A c : ~Got(c)
      BY <2>1 DEF Clean, Got
    <2>3. \A c : Granted(c) => c = d /\ Got(c)'
      <3> SUFFICES ASSUME NEW c, Granted(c) PROVE c = d /\ Got(c)'
        OBVIOUS
      <3>1. c = d /\ credit[d] = 1 /\ \A x \in Destinations : x # d => credit[x] = 0
        BY <2>1 DEF Granted, Credits
      <3>2. Len(incoming') = 1 /\ incoming'[1] = m
        BY <2>1 DEF Granted
      <3>3. \A x \in Destinations : credit'[x] = 0
        BY <2>1, <3>1
      <3> QED
        BY <2>1, <3>1, <3>2, <3>3 DEF Got
    <2> QED
      BY <2>1, <2>2, <2>3 DEF Own, Receiving
  <1>5. ASSUME NEW d \in Destinations, AnswerClose(d) \/ Drain(d) PROVE Own'
    <2>1. /\ credit' = [credit EXCEPT ![d] = 0] /\ credit \in [Destinations -> 0 .. 2]
          /\ UNCHANGED <<gen, reinstating, state, pc, request, message, incoming>>
      BY <1>5 DEF AnswerClose, Drain, Typed, LinkTypes
    <2>2. \A c \in Destinations : credit'[c] = IF c = d THEN 0 ELSE credit[c]
      BY <2>1
    <2>3. Clean => Clean'
      BY <2>1, <2>2 DEF Clean
    <2>4. \A c : Got(c) => Got(c)'
      BY <2>1, <2>2 DEF Got
    <2>5. \A c : Granted(c) => Granted(c)' \/ Clean'
      <3> SUFFICES ASSUME NEW c, Granted(c) PROVE Granted(c)' \/ Clean'
        OBVIOUS
      <3>1. CASE c = d
        BY <2>1, <2>2, <3>1 DEF Granted, Credits, Clean
      <3>2. CASE c # d
        BY <2>1, <2>2, <3>2 DEF Granted, Credits
      <3> QED
        BY <3>1, <3>2
    <2> QED
      BY <2>1, <2>3, <2>4, <2>5 DEF Own, Receiving
  <1>6. ASSUME UNCHANGED <<gen, incoming, credit, reinstating, pc, request, message>>,
               state' \in {state, "retrying"}
        PROVE  Own'
    BY <1>6, OwnStays
  <1>7. CASE UNCHANGED vars
    BY <1>6, <1>7 DEF vars
  <1>8. CASE Push \/ Return
    <2>1. /\ UNCHANGED <<gen, incoming, credit, reinstating, state>>
          /\ pc = "idle" /\ pc' \in {"idle", "ready"}
      BY <1>8 DEF Push, Return, Control
    <2> QED
      BY <2>1, OwnStays DEF Receiving
  <1>9. ASSUME NEW d, NEW q, NEW timed,
               CallSend(q, timed) \/ CallSubscribe(d, timed) \/ CallReceive(d, timed) \/ CallUnsubscribe(d)
        PROVE  Own'
    <2>1. UNCHANGED <<gen, incoming, credit, reinstating, state, pc>> /\ pc = "idle"
      BY <1>9 DEF CallSend, CallSubscribe, CallReceive, CallUnsubscribe, Call, Control
    <2> QED
      BY <2>1, OwnStays DEF Receiving
  <1>10. CASE CheckForLoss \/ LoseConnection \/ Abort \/ Transmit \/ Arrive \/ Respond \/ \E m \in held : Confirm(m)
    BY <1>6, <1>10 DEF CheckForLoss, LoseConnection, Abort, Transmit, Arrive, Respond, Confirm, Interpret
  <1>11. ASSUME NEW d \in Destinations, OpenLink(d) \/ RefuseLink(d) \/ Publish(d) PROVE Own'
    BY <1>6, <1>11 DEF OpenLink, RefuseLink, Publish
  <1> QED
    BY <1>1, <1>2, <1>3, <1>4, <1>5, <1>7, <1>8, <1>9, <1>10, <1>11 DEF Next, User, Proton, Network

\* Until a connection is lost receive collects messages of its own destination only
\* (command.rb:204-212).
THEOREM OwnMessagesOnly == Spec => []OwnDestination
  <1>1. Init => Own
    BY DEF Init, Own, Clean, Receiving, All
  <1>2. Typed /\ Control /\ Own /\ [Next]_vars => Own'
    BY OwnNext
  <1>3. Own => OwnDestination
    BY DEF Own, OwnDestination
  <1> QED
    BY <1>1, <1>2, <1>3, AlwaysTyped, PTL DEF Spec

-----------------------------------------------------------------------------
(* One reply to a request                                                  *)

\* What a caller waits for and the replies there are. A delivery is accepted after
\* it was pushed, and no connection is attempted for a client that has stopped.
Answered ==
  /\ OneReply
  /\ pc = "accept" => replies # <<>>
  /\ state = "stopped" => reinstating = None

\* Steps that touch neither the request nor the replies.
LEMMA AnsweredStays ==
  ASSUME Answered, UNCHANGED <<user, request, pc, replies, strays>>,
         state' = "stopped" => reinstating' = None,
         state = "stopped" => state' = "stopped"
  PROVE  Answered'
  BY DEF Answered, OneReply, Owed

\* A request that is not over is owed nothing yet.
LEMMA NotOver ==
  ASSUME Answered, UNCHANGED <<replies, strays>>, pc \notin {"idle", "accept"}, pc' \notin {"idle", "accept"},
         state' = "stopped" => reinstating' = None
  PROVE  Answered'
  BY DEF Answered, OneReply, Owed

\* The reply that ends a request.
LEMMA AnsweredFinish ==
  ASSUME Typed, Control, Answered, NEW r, replies' = Append(replies, r), pc' \in {"idle", "accept"},
         UNCHANGED <<user, request, state, reinstating>>, pc \notin {"idle", "accept"},
         \/ request.op # "unsubscribe" /\ UNCHANGED strays
         \/ request.op = "unsubscribe" /\ strays' = strays + 1 /\ pc' = "idle"
  PROVE  Answered'
  <1>1. user = "wait" /\ replies \in Seq(Reply) /\ strays \in Nat
    BY DEF Control, Typed, ThreadTypes, HistoryTypes
  <1>2. Len(replies') = Len(replies) + 1 /\ replies' # <<>> /\ Len(replies) \in Nat
    BY <1>1
  <1>3. Len(replies) <= strays
    BY <1>1, <1>2 DEF Answered, OneReply, Owed
  <1> QED
    BY <1>1, <1>2, <1>3 DEF Answered, OneReply, Owed

LEMMA AnsweredCommand ==
  ASSUME Typed, Control, Answered, Command \/ Expire
  PROVE  Answered'
  <1> USE DEF threadVars, application, command, transport, links, arrived, messenger, server,
          history, KeepAll, Goto
  <1>0. strays \in Nat /\ Len(replies) \in Nat
    BY DEF Typed, ThreadTypes, HistoryTypes
  <1>1. CASE Ready
    <2>1. /\ pc = "ready" /\ UNCHANGED <<user, request, state, replies, strays, reinstating>>
          /\ pc' = IF state = "stopped" THEN "idle" ELSE "perform"
      BY <1>1 DEF Ready
    <2> QED
      BY <1>0, <2>1 DEF Answered, OneReply, Owed
  <1>2. ASSUME NEW result, Finish(result), UNCHANGED <<user, request, state, reinstating, strays>>,
               pc \notin {"idle", "accept"}, request.op # "unsubscribe"
        PROVE  Answered'
    <2>1. replies' = Append(replies, Plain(result)) /\ pc' = "idle"
      BY <1>2 DEF Finish
    <2> QED
      BY <1>2, <2>1, AnsweredFinish
  <1>3. CASE PutFails \/ NoLink \/ CollectFails \/ LinkUp \/ Expire
    <2>1. /\ pc \notin {"idle", "accept"} /\ request.op # "unsubscribe"
          /\ UNCHANGED <<user, request, state, reinstating, strays>>
      BY <1>3 DEF PutFails, NoLink, CollectFails, LinkUp, Expire, Control
    <2>2. Finish("error") \/ Finish("ok") \/ Finish("timeout")
      BY <1>3 DEF PutFails, NoLink, CollectFails, LinkUp, Expire
    <2> QED
      BY <1>2, <2>1, <2>2
  <1>4. CASE CloseLinkFails
    <2>1. /\ pc = "perform" /\ request.op = "unsubscribe" /\ strays' = strays + 1
          /\ UNCHANGED <<user, request, state, reinstating>>
          /\ replies' = Append(replies, Plain("error")) /\ pc' = "idle"
      BY <1>4 DEF CloseLinkFails, Finish
    <2> QED
      BY <2>1, AnsweredFinish
  <1>5. CASE \/ Put \/ OutboundPending \/ TrackerStatus \/ CreateSubscription \/ CloseLink \/ CheckOutOfSequence
             \/ OpenForMessage \/ RecvFails \/ Await \/ Collect
    <2>1. /\ pc \notin {"idle", "accept"} /\ pc' \notin {"idle", "accept"}
          /\ UNCHANGED <<replies, strays, reinstating>>
      BY <1>5 DEF Put, OutboundPending, TrackerStatus, CreateSubscription, CloseLink, CheckOutOfSequence,
         OpenForMessage, RecvFails, Await, Collect, RetryRequest
    <2>2. state' \in {state, "retrying"}
      BY <1>5 DEF Put, OutboundPending, TrackerStatus, CreateSubscription, CloseLink, CheckOutOfSequence,
         OpenForMessage, RecvFails, Await, Collect, CheckMessenger
    <2> QED
      BY <2>1, <2>2, NotOver DEF Answered
  <1>6. CASE Judge
    <2>1. /\ pc = "judge" /\ request.op = "send" /\ UNCHANGED <<user, request, reinstating, strays>>
      BY <1>6 DEF Judge, Control
    <2>2. CASE state = "started" /\ status # "aborted"
      BY <1>2, <1>6, <2>1, <2>2 DEF Judge
    <2>3. CASE state # "started" \/ status = "aborted"
      <3>1. pc' = "ready" /\ UNCHANGED replies /\ state' \in {state, "retrying"}
        BY <1>6, <2>3 DEF Judge, RetryRequest
      <3> QED
        BY <2>1, <3>1, NotOver DEF Answered
    <2> QED
      BY <2>2, <2>3
  <1>7. CASE Awaited \/ AwaitTimeout \/ Drained
    <2>1. /\ pc \in {"await", "awaited", "drain"} /\ request.op = "receive"
          /\ UNCHANGED <<user, request, state, reinstating, strays>>
      BY <1>7 DEF Awaited, AwaitTimeout, Drained, Control
    <2>2. Finish("ok") \/ (pc' \in {"collect", "drain"} /\ UNCHANGED replies)
      BY <1>7 DEF Awaited, AwaitTimeout, Drained
    <2> QED
      BY <1>2, <2>1, <2>2, NotOver DEF Answered
  <1>8. CASE LinkClosed
    <2>1. /\ pc = "closing" /\ pc' = "idle" /\ request.op = "unsubscribe"
          /\ UNCHANGED <<replies, strays, state, reinstating, request>>
      BY <1>8 DEF LinkClosed, Control
    <2> QED
      BY <2>1 DEF Answered, OneReply, Owed
  <1>9. CASE PushDelivery
    <2>1. /\ pc = "push" /\ request.op = "receive" /\ pc' \in {"idle", "accept"}
          /\ UNCHANGED <<user, request, state, reinstating, strays>>
          /\ replies' = Append(replies, [result |-> "ok", message |-> message])
      BY <1>9 DEF PushDelivery, Control
    <2> QED
      BY <2>1, AnsweredFinish
  <1>10. CASE Accept \/ SettleDelivery
    <2>1. /\ pc = "accept" /\ request.op = "receive" /\ user = "wait" /\ replies # <<>>
          /\ UNCHANGED <<user, request, reinstating, replies>> /\ state' \in {state, "retrying"}
      BY <1>10 DEF Accept, SettleDelivery, Interpret, Control, Answered
    <2>2. (pc' = "idle" /\ UNCHANGED strays) \/ (pc' = "ready" /\ strays' = strays + 1)
      BY <1>10 DEF Accept, SettleDelivery, RetryRequest
    <2> QED
      BY <1>0, <2>1, <2>2 DEF Answered, OneReply, Owed
  <1> QED
    BY <1>1, <1>3, <1>4, <1>5, <1>6, <1>7, <1>8, <1>9, <1>10 DEF Command

LEMMA AnsweredNext == Typed /\ Control /\ Answered /\ [Next]_vars => Answered'
  <1> SUFFICES ASSUME Typed, Control, Answered, [Next]_vars PROVE Answered'
    OBVIOUS
  <1> USE DEF threadVars, application, command, transport, links, arrived, messenger, server,
          history, KeepCommand, KeepClient, KeepSending, KeepLinks
  <1>1. CASE Command \/ Expire
    BY <1>1, AnsweredCommand
  <1>2. CASE CheckForLoss \/ Connect \/ ReinstateLink \/ LinkReinstated \/ \E m \in held : Confirm(m)
    <2>1. UNCHANGED <<user, request, pc, replies, strays>>
      BY <1>2 DEF CheckForLoss, Connect, ReinstateLink, LinkReinstated, Confirm
    <2>2. state' # "stopped" \/ UNCHANGED <<state, reinstating>>
      BY <1>2 DEF CheckForLoss, Connect, ReinstateLink, LinkReinstated, Confirm, Interpret, Waiting, Answered
    <2>3. state = "stopped" => state' = "stopped"
      BY <1>2 DEF CheckForLoss, Connect, ReinstateLink, LinkReinstated, Confirm
    <2> QED
      BY <2>1, <2>2, <2>3, AnsweredStays DEF Answered
  <1>3. CASE ReinstateFails \/ Reconnected
    <2>1. UNCHANGED <<user, request, pc, replies, strays>> /\ reinstating # None /\ reinstating' = None
      BY <1>3 DEF ReinstateFails, Reconnected, EndAttempt, Waiting
    <2> QED
      BY <2>1, AnsweredStays DEF Answered
  <1>4. CASE Network \/ LoseConnection \/ (\E d \in Destinations : Publish(d)) \/ UNCHANGED vars
    <2>1. UNCHANGED <<user, request, pc, replies, strays, state, reinstating>>
      BY <1>4 DEF Network, LoseConnection, Publish, vars, Abort, Transmit, Arrive, Respond, OpenLink,
         RefuseLink, AnswerClose, Deliver, Drain
    <2> QED
      BY <2>1, AnsweredStays DEF Answered
  <1>5. CASE \/ \E q \in SendQoS, timed \in BOOLEAN : CallSend(q, timed)
             \/ \E d \in Destinations, timed \in BOOLEAN : CallSubscribe(d, timed) \/ CallReceive(d, timed)
             \/ \E d \in Destinations : CallUnsubscribe(d)
    <2>1. user' = "called" /\ user = "idle" /\ UNCHANGED <<pc, replies, strays, state, reinstating>>
      BY <1>5 DEF CallSend, CallSubscribe, CallReceive, CallUnsubscribe, Call
    <2> QED
      BY <2>1 DEF Answered, OneReply, Owed
  <1>6. CASE Push
    <2>1. /\ user = "called" /\ pc' = "ready" /\ UNCHANGED <<state, reinstating>>
          /\ (replies' = <<>> /\ strays' = 0) \/ UNCHANGED <<replies, strays>>
      BY <1>6 DEF Push
    <2> QED
      BY <2>1 DEF Answered, OneReply, Owed
  <1>7. CASE Return
    <2>1. /\ user = "wait" /\ pc = "idle" /\ user' = "idle" /\ UNCHANGED <<pc, strays, state, reinstating>>
      BY <1>7 DEF Return
    <2>2. replies \in Seq(Reply) /\ strays \in Nat
      BY DEF Typed, ThreadTypes, HistoryTypes
    <2>3. CASE request.op = "unsubscribe"
      BY <1>7, <2>1, <2>3 DEF Return, Answered, OneReply, Owed
    <2>4. CASE request.op # "unsubscribe"
      <3>1. replies # <<>> /\ replies' = Tail(replies)
        BY <1>7, <2>4 DEF Return
      <3>2. Len(replies') = Len(replies) - 1 /\ Len(replies) \in Nat
        BY <2>2, <3>1
      <3> QED
        BY <2>1, <2>2, <2>4, <3>2 DEF Answered, OneReply, Owed
    <2> QED
      BY <2>3, <2>4
  <1> QED
    BY <1>1, <1>2, <1>3, <1>4, <1>5, <1>6, <1>7 DEF Next, User, Proton

\* A request that is over was replied to, unless the client stopped, and there are
\* no other replies than those of a failed unsubscribe and of a receive repeated
\* after its reply: whatever is lost, refused or timed out (command.rb:177-234, 264-325).
THEOREM OneReplyToARequest == Spec => []OneReply
  <1>1. Init => Answered
    BY DEF Init, Answered, OneReply, Owed
  <1>2. Answered => OneReply
    BY DEF Answered
  <1> QED
    BY <1>1, <1>2, AnsweredNext, AlwaysTyped, PTL DEF Spec
=============================================================================
