------------------------- MODULE SendPromise_proofs -------------------------
(***************************************************************************)
(* Messaging implements SendPromise, for every value of the constants: the *)
(* refinement that KeepsSendPromise states.                                *)
(***************************************************************************)
EXTENDS Messaging_proofs

\* What was put on the messenger in use for a call, what of it has arrived, and how
\* often a call may be put on the messenger in use.
Puts(c)    == {i \in DOMAIN outgoing : outgoing[i].call = c}
Arrived(c) == {i \in Puts(c) : outgoing[i].place = "arrived"}
Bound(c)   == IF gen = promise.began[c] THEN 1 ELSE 2

-----------------------------------------------------------------------------
(* The invariant: what is recorded of the sends, and the outgoing store    *)

\* The calls are made one after the other.
Ledger ==
  /\ \A c \in 1 .. MaxCalls :
       /\ c > sends => promise.result[c] = "none"
       /\ c < sends => promise.result[c] \in Results
       /\ promise.began[c] <= gen
  /\ sends > 0 /\ request.op # "send" => promise.result[sends] \in Results
  /\ request.op = "send" => promise.result[sends] = "open" /\ promise.quality[sends] = request.qos

\* The outgoing store keeps the order of the calls, and so does the network.
Store ==
  /\ \A i \in DOMAIN outgoing :
       /\ outgoing[i].call <= sends
       /\ promise.result[outgoing[i].call] \in Results => promise.ended[outgoing[i].call] = gen
       /\ outgoing[i].status # "unknown"
       /\ outgoing[i].status = "accepted" => outgoing[i].place = "arrived"
  /\ \A i, j \in DOMAIN outgoing : i <= j =>
       /\ outgoing[j].place = "arrived" => outgoing[i].place = "arrived"
       /\ outgoing[j].place = "sent" => outgoing[i].place # "buffered"
       /\ outgoing[i].call <= outgoing[j].call

\* What has reached the server comes before what will.
Logged ==
  /\ \A k \in DOMAIN promise.log :
       /\ promise.log[k][1] <= sends /\ promise.log[k][2] <= gen
       /\ \A i \in DOMAIN outgoing :
            outgoing[i].place # "arrived" => promise.log[k][1] <= outgoing[i].call
  /\ \A c \in 1 .. MaxCalls : Cardinality(Promise!Copies(c)) = Cardinality(Arrived(c))

Bounded == \A c \in 1 .. MaxCalls : Cardinality(Puts(c)) <= Bound(c)

Books == Ledger /\ Store /\ Logged /\ Bounded

-----------------------------------------------------------------------------
(* ... and the send that is under way                                      *)

Attempt == state = "started" => reinstating = None

Polling == {"buffered", "status", "judge"}

\* The connection has been replaced since the call was made.
Replaced == gen > promise.began[sends]

\* A send is put once on the connection it began with, and on each later one once while
\* it is set up and once afterwards.
Sending ==
  request.op = "send" /\ (user = "called" \/ pc # "idle") =>
    /\ user = "called" => Puts(sends) = {}
    /\ pc = "perform" \/ (pc = "ready" /\ state = "started") => Cardinality(Puts(sends)) < Bound(sends)
    /\ reinstating # None =>
         /\ Cardinality(Puts(sends)) <= 1
         /\ Puts(sends) # {} => Replaced /\ pc # "perform"
         /\ pc \in Polling \cup {"perform"} => Replaced
    /\ pc \in Polling /\ ~Replaced =>
         /\ outgoing # <<>>
         /\ Last(outgoing).call = sends
         /\ Last(outgoing).tracked = (request.qos = 1)
    /\ pc = "judge" /\ request.qos = 1 /\ ~Replaced =>
         /\ status # "unknown"
         /\ status = "pending" => state # "started"
         /\ status = "accepted" => Last(outgoing).place = "arrived"

\* What success means.
Kept == request.qos = 0 \/ Replaced \/ Promise!Reached(sends)

Replied ==
  request.op = "send" /\ user = "wait" => \A r \in ToSet(replies) : r.result = "ok" => Kept

SendInv == Books /\ Attempt /\ Sending /\ Replied

-----------------------------------------------------------------------------
(* Types                                                                   *)

LEMMA Entries ==
  ASSUME Typed
  PROVE  /\ gen \in Nat /\ gen >= 1 /\ sends \in Nat /\ sends <= MaxCalls /\ MaxCalls \in Nat
         /\ outgoing \in Seq(Entry) /\ Len(outgoing) \in Nat /\ DOMAIN outgoing = 1 .. Len(outgoing)
         /\ \A i \in DOMAIN outgoing :
              /\ outgoing[i].call \in 1 .. MaxCalls
              /\ outgoing[i].place \in {"buffered", "sent", "arrived"}
  <1>1. /\ gen \in Nat /\ gen >= 1 /\ sends \in Nat /\ sends <= MaxCalls /\ MaxCalls \in Nat
    BY MessagingBounds DEF Typed, TransportTypes, ApplicationTypes
  <1>2. outgoing \in Seq(Entry) /\ Len(outgoing) \in Nat /\ DOMAIN outgoing = 1 .. Len(outgoing)
    BY DEF Typed, TransportTypes
  <1>3. \A i \in DOMAIN outgoing : outgoing[i] \in Entry
    BY <1>2
  <1>4. \A e \in Entry : e.call \in 1 .. MaxCalls /\ e.place \in {"buffered", "sent", "arrived"}
    BY DEF Entry
  <1> QED
    BY <1>1, <1>2, <1>3, <1>4

LEMMA Recording ==
  ASSUME Typed
  PROVE  /\ promise.result \in [1 .. MaxCalls -> {"none", "open"} \cup Results]
         /\ promise.quality \in [1 .. MaxCalls -> {0, 1}]
         /\ promise.began \in [1 .. MaxCalls -> Nat] /\ promise.ended \in [1 .. MaxCalls -> Nat]
         /\ promise.log \in Seq((1 .. MaxCalls) \X Nat)
         /\ Len(promise.log) \in Nat /\ DOMAIN promise.log = 1 .. Len(promise.log)
         /\ \A k \in DOMAIN promise.log : promise.log[k] \in (1 .. MaxCalls) \X Nat
  <1>1. promise \in Records
    BY DEF Typed, HistoryTypes
  <1>2. /\ promise.result \in [1 .. MaxCalls -> {"none", "open"} \cup Results]
        /\ promise.quality \in [1 .. MaxCalls -> {0, 1}]
        /\ promise.began \in [1 .. MaxCalls -> Nat] /\ promise.ended \in [1 .. MaxCalls -> Nat]
        /\ promise.log \in Seq((1 .. MaxCalls) \X Nat)
    BY <1>1 DEF Records
  <1> QED
    BY <1>2

LEMMA SameCardinality == \A S : Promise!Cardinality(S) = Cardinality(S)
  BY DEF Promise!Cardinality, Cardinality

LEMMA FinitePuts ==
  ASSUME Typed, NEW c
  PROVE  /\ IsFiniteSet(Puts(c)) /\ IsFiniteSet(Arrived(c))
         /\ Cardinality(Puts(c)) \in Nat /\ Cardinality(Arrived(c)) \in Nat
         /\ Arrived(c) \subseteq Puts(c) /\ Puts(c) \subseteq DOMAIN outgoing
  <1>1. IsFiniteSet(1 .. Len(outgoing))
    BY Entries, FS_Interval
  <1>2. Puts(c) \subseteq 1 .. Len(outgoing) /\ Arrived(c) \subseteq Puts(c)
    BY Entries DEF Puts, Arrived
  <1>3. IsFiniteSet(Puts(c)) /\ IsFiniteSet(Arrived(c))
    BY <1>1, <1>2, FS_Subset
  <1> QED
    BY <1>2, <1>3, Entries, FS_CardinalityType

LEMMA FiniteCopies ==
  ASSUME Typed, NEW c
  PROVE  IsFiniteSet(Promise!Copies(c)) /\ Cardinality(Promise!Copies(c)) \in Nat
         /\ Promise!Copies(c) \subseteq DOMAIN promise.log
  <1>1. Promise!Copies(c) \subseteq 1 .. Len(promise.log)
    BY Recording DEF Promise!Copies
  <1>2. IsFiniteSet(1 .. Len(promise.log))
    BY Recording, FS_Interval
  <1>3. IsFiniteSet(Promise!Copies(c))
    BY <1>1, <1>2, FS_Subset
  <1> QED
    BY <1>1, <1>3, Recording, FS_CardinalityType

-----------------------------------------------------------------------------
(* Steps of the books                                                      *)

LEMMA BooksStay ==
  ASSUME Books, UNCHANGED <<gen, promise, sends, outgoing>>,
         UNCHANGED request \/ (request.op # "send" /\ request'.op # "send")
  PROVE  Books'
  <1>1. Ledger'
    BY DEF Books, Ledger
  <1>2. Store'
    BY DEF Books, Store
  <1>3. \A c : UNCHANGED <<Puts(c), Arrived(c), Bound(c), Promise!Copies(c)>>
    BY DEF Puts, Arrived, Bound, Promise!Copies
  <1>4. Logged'
    BY <1>3 DEF Books, Logged
  <1>5. Bounded'
    BY <1>3 DEF Books, Bounded
  <1> QED
    BY <1>1, <1>2, <1>4, <1>5 DEF Books

\* Abort, Respond and Transmit: the arrived entries stay the same ones.
LEMMA BooksMove ==
  ASSUME Typed, Books, UNCHANGED <<gen, promise, sends, request>>,
         DOMAIN outgoing' = DOMAIN outgoing,
         \A i \in DOMAIN outgoing :
           /\ outgoing'[i].call = outgoing[i].call
           /\ outgoing'[i].place = "arrived" <=> outgoing[i].place = "arrived"
           /\ outgoing'[i].status # "unknown"
           /\ outgoing'[i].status = "accepted" => outgoing[i].place = "arrived",
         \A i, j \in DOMAIN outgoing :
           i <= j /\ outgoing'[j].place = "sent" => outgoing'[i].place # "buffered"
  PROVE  Books'
  <1>1. Ledger'
    BY DEF Books, Ledger
  <1>2. Store'
    BY DEF Books, Store
  <1>3. \A c : UNCHANGED Puts(c)
    BY DEF Puts
  <1>4. \A c : UNCHANGED Arrived(c)
    BY <1>3, FinitePuts DEF Arrived
  <1>5. \A c : UNCHANGED <<Bound(c), Promise!Copies(c)>>
    BY DEF Bound, Promise!Copies
  <1>6. Logged'
    BY <1>4, <1>5 DEF Books, Logged
  <1>7. Bounded'
    BY <1>3, <1>5 DEF Books, Bounded
  <1> QED
    BY <1>1, <1>2, <1>6, <1>7 DEF Books

\* One field of one entry is set.
LEMMA SetPlace ==
  ASSUME Typed, NEW n \in DOMAIN outgoing, NEW place,
         outgoing' = [outgoing EXCEPT ![n].place = place]
  PROVE  /\ DOMAIN outgoing' = DOMAIN outgoing
         /\ \A i \in DOMAIN outgoing :
              /\ outgoing'[i].call = outgoing[i].call /\ outgoing'[i].status = outgoing[i].status
              /\ outgoing'[i].tracked = outgoing[i].tracked
              /\ outgoing'[i].place = IF i = n THEN place ELSE outgoing[i].place
  <1>1. \A i \in DOMAIN outgoing : outgoing[i] \in Entry
    BY Entries
  <1> QED
    BY <1>1 DEF Entry

LEMMA SetStatus ==
  ASSUME Typed, NEW n \in DOMAIN outgoing, NEW answer,
         outgoing' = [outgoing EXCEPT ![n].status = answer]
  PROVE  /\ DOMAIN outgoing' = DOMAIN outgoing
         /\ \A i \in DOMAIN outgoing :
              /\ outgoing'[i].call = outgoing[i].call /\ outgoing'[i].place = outgoing[i].place
              /\ outgoing'[i].tracked = outgoing[i].tracked
              /\ outgoing'[i].status = IF i = n THEN answer ELSE outgoing[i].status
  <1>1. \A i \in DOMAIN outgoing : outgoing[i] \in Entry
    BY Entries
  <1> QED
    BY <1>1 DEF Entry

\* A lost connection aborts what is pending.
LEMMA SetAborted ==
  ASSUME Typed, outgoing' = [i \in DOMAIN outgoing |->
                    [outgoing[i] EXCEPT !.status = IF @ = "pending" THEN "aborted" ELSE @]]
  PROVE  /\ DOMAIN outgoing' = DOMAIN outgoing
         /\ \A i \in DOMAIN outgoing :
              /\ outgoing'[i].call = outgoing[i].call /\ outgoing'[i].place = outgoing[i].place
              /\ outgoing'[i].tracked = outgoing[i].tracked
              /\ outgoing'[i].status = IF outgoing[i].status = "pending" THEN "aborted" ELSE outgoing[i].status
  <1>1. \A i \in DOMAIN outgoing : outgoing[i] \in Entry
    BY Entries
  <1> QED
    BY <1>1 DEF Entry

LEMMA BooksTransmit ==
  ASSUME Typed, Books, Transmit
  PROVE  Books'
  <1> DEFINE n == First("buffered")
  <1>1. /\ n \in DOMAIN outgoing /\ outgoing[n].place = "buffered"
        /\ \A i \in DOMAIN outgoing : i < n => outgoing[i].place # "buffered"
    BY TypedIs, FirstEntry DEF Transmit
  <1>2. outgoing' = [outgoing EXCEPT ![n].place = "sent"]
    BY DEF Transmit
  <1> HIDE DEF n
  <1>3. /\ DOMAIN outgoing' = DOMAIN outgoing
        /\ \A i \in DOMAIN outgoing :
             /\ outgoing'[i].call = outgoing[i].call /\ outgoing'[i].status = outgoing[i].status
             /\ outgoing'[i].place = IF i = n THEN "sent" ELSE outgoing[i].place
    BY <1>1, <1>2, SetPlace
  <1>4. \A i, j \in DOMAIN outgoing :
          i <= j /\ outgoing'[j].place = "sent" => outgoing'[i].place # "buffered"
    BY <1>1, <1>3, Entries DEF Books, Store
  <1>5. \A i \in DOMAIN outgoing :
           /\ outgoing'[i].call = outgoing[i].call
           /\ outgoing'[i].place = "arrived" <=> outgoing[i].place = "arrived"
           /\ outgoing'[i].status # "unknown"
           /\ outgoing'[i].status = "accepted" => outgoing[i].place = "arrived"
    BY <1>1, <1>3 DEF Books, Store
  <1>6. UNCHANGED <<gen, promise, sends, request>>
    BY DEF Transmit, KeepClient, KeepCommand, application
  <1> QED
    BY <1>3, <1>4, <1>5, <1>6, BooksMove

LEMMA BooksAnswer ==
  ASSUME Typed, Books, Respond \/ Abort
  PROVE  Books'
  <1>1. UNCHANGED <<gen, promise, sends, request>>
    BY DEF Respond, Abort, KeepClient, KeepCommand, application
  <1>2. /\ DOMAIN outgoing' = DOMAIN outgoing
        /\ \A i \in DOMAIN outgoing :
             /\ outgoing'[i].call = outgoing[i].call /\ outgoing'[i].place = outgoing[i].place
             /\ outgoing'[i].status # "unknown"
             /\ outgoing'[i].status = "accepted" => outgoing[i].place = "arrived"
    <2>1. CASE Respond
      <3>1. PICK n \in DOMAIN outgoing, answer \in {"accepted", "rejected"} :
              outgoing[n].place = "arrived" /\ outgoing' = [outgoing EXCEPT ![n].status = answer]
        BY <2>1 DEF Respond
      <3> QED
        BY <3>1, SetStatus DEF Books, Store
    <2>2. CASE Abort
      <3>1. outgoing' = [i \in DOMAIN outgoing |->
                    [outgoing[i] EXCEPT !.status = IF @ = "pending" THEN "aborted" ELSE @]]
        BY <2>2 DEF Abort
      <3> QED
        BY <3>1, SetAborted DEF Books, Store
    <2> QED
      BY <2>1, <2>2
  <1>3. \A i, j \in DOMAIN outgoing :
           i <= j /\ outgoing'[j].place = "sent" => outgoing'[i].place # "buffered"
    BY <1>2 DEF Books, Store
  <1> QED
    BY <1>1, <1>2, <1>3, BooksMove

\* The first entry sent is the one that arrives.
LEMMA BooksArrive ==
  ASSUME Typed, Typed', Books, Arrive
  PROVE  /\ Books'
         /\ \E c \in 1 .. MaxCalls : Promise!Arrive(c)
  <1> DEFINE n == First("sent")
             c == outgoing[n].call
  <1>1. /\ n \in DOMAIN outgoing /\ outgoing[n].place = "sent"
        /\ \A i \in DOMAIN outgoing : i < n => outgoing[i].place # "sent"
    BY TypedIs, FirstEntry DEF Arrive
  <1>2. /\ outgoing' = [outgoing EXCEPT ![n].place = "arrived"]
        /\ promise' = [promise EXCEPT !.log = Append(@, <<c, gen>>)]
        /\ UNCHANGED <<gen, sends, request>>
    BY DEF Arrive, KeepClient, KeepCommand, application
  <1> HIDE DEF n
  <1>3. /\ DOMAIN outgoing' = DOMAIN outgoing
        /\ \A i \in DOMAIN outgoing :
             /\ outgoing'[i].call = outgoing[i].call /\ outgoing'[i].status = outgoing[i].status
             /\ outgoing'[i].place = IF i = n THEN "arrived" ELSE outgoing[i].place
    BY <1>1, <1>2, SetPlace
  <1>4. c \in 1 .. MaxCalls
    BY <1>1, Entries
  <1> HIDE DEF c
  <1>5. c = outgoing[n].call
    BY DEF c
  <1>6. /\ promise'.log = Append(promise.log, <<c, gen>>)
        /\ promise'.result = promise.result /\ promise'.quality = promise.quality
        /\ promise'.began = promise.began /\ promise'.ended = promise.ended
    <2>1. promise \in Records
      BY DEF Typed, HistoryTypes
    <2> QED
      BY <1>2, <2>1 DEF Records
  <1> DEFINE m == Len(promise.log) + 1
  <1>7. /\ DOMAIN promise'.log = 1 .. m /\ DOMAIN promise.log = 1 .. Len(promise.log) /\ Len(promise.log) \in Nat
        /\ \A k \in 1 .. Len(promise.log) : promise'.log[k] = promise.log[k]
        /\ promise'.log[m] = <<c, gen>>
    BY <1>6, Recording
  <1>8. \A k \in 1 .. m : k \in DOMAIN promise.log \/ k = m
    BY <1>7
  <1>9. m \notin DOMAIN promise.log /\ m \in 1 .. m /\ \A k \in DOMAIN promise.log : k \in 1 .. m
    BY <1>7
  <1> HIDE DEF m
  \* what has not arrived after it comes later
  <1>10. \A i \in DOMAIN outgoing : i # n /\ outgoing[i].place # "arrived" => n <= i
    BY <1>1, Entries DEF Books, Store
  <1>11. \A i \in DOMAIN outgoing : i <= n => i = n \/ outgoing[i].place = "arrived"
    BY <1>10, <1>1, Entries
  <1>12. Ledger'
    BY <1>2, <1>6 DEF Books, Ledger
  <1>13. Store'
    <2>1. \A i \in DOMAIN outgoing' :
            /\ outgoing'[i].call <= sends'
            /\ promise'.result[outgoing'[i].call] \in Results => promise'.ended[outgoing'[i].call] = gen'
            /\ outgoing'[i].status # "unknown"
            /\ outgoing'[i].status = "accepted" => outgoing'[i].place = "arrived"
      BY <1>2, <1>3, <1>6 DEF Books, Store
    <2>2. \A i, j \in DOMAIN outgoing' : i <= j =>
            /\ outgoing'[j].place = "arrived" => outgoing'[i].place = "arrived"
            /\ outgoing'[j].place = "sent" => outgoing'[i].place # "buffered"
            /\ outgoing'[i].call <= outgoing'[j].call
      BY <1>3, <1>11 DEF Books, Store
    <2> QED
      BY <2>1, <2>2 DEF Store
  <1>14. \A k \in DOMAIN promise'.log :
           /\ promise'.log[k][1] <= sends' /\ promise'.log[k][2] <= gen'
           /\ \A i \in DOMAIN outgoing' :
                outgoing'[i].place # "arrived" => promise'.log[k][1] <= outgoing'[i].call
    <2> SUFFICES ASSUME NEW k \in 1 .. m
                 PROVE  /\ promise'.log[k][1] <= sends' /\ promise'.log[k][2] <= gen'
                        /\ \A i \in DOMAIN outgoing' :
                             outgoing'[i].place # "arrived" => promise'.log[k][1] <= outgoing'[i].call
      BY <1>7
    <2>1. CASE k \in DOMAIN promise.log
      BY <1>2, <1>3, <1>7, <2>1 DEF Books, Logged
    <2>2. CASE k = m
      <3>1. c <= sends /\ gen \in Nat
        BY <1>1, <1>5, Entries DEF Books, Store
      <3>2. \A i \in DOMAIN outgoing : i # n /\ outgoing[i].place # "arrived" => c <= outgoing[i].call
        BY <1>1, <1>5, <1>10 DEF Books, Store
      <3> QED
        BY <1>2, <1>3, <1>7, <2>2, <3>1, <3>2
    <2> QED
      BY <1>8, <2>1, <2>2
  <1>15. \A b : /\ Arrived(b)' = IF b = c THEN Arrived(b) \cup {n} ELSE Arrived(b)
                /\ Puts(b)' = Puts(b)
                /\ Promise!Copies(b)' = IF b = c THEN Promise!Copies(b) \cup {m} ELSE Promise!Copies(b)
    <2> TAKE b
    <2>1. Puts(b)' = Puts(b)
      BY <1>3 DEF Puts
    <2>2. n \in Puts(b) <=> b = c
      BY <1>1, <1>5 DEF Puts
    <2>3. Arrived(b)' = IF b = c THEN Arrived(b) \cup {n} ELSE Arrived(b)
      BY <1>3, <2>1, <2>2, FinitePuts DEF Arrived
    <2>4. Promise!Copies(b) = {k \in DOMAIN promise.log : promise.log[k] = <<b, gen>>}
      BY DEF Promise!Copies
    <2>5. Promise!Copies(b)' = {k \in 1 .. m : promise'.log[k] = <<b, gen>>}
      BY <1>2, <1>7 DEF Promise!Copies
    <2>6. \A k \in DOMAIN promise.log : promise'.log[k] = promise.log[k]
      BY <1>7
    <2>7. promise'.log[m] = <<b, gen>> <=> b = c
      BY <1>7
    <2>8. Promise!Copies(b)' = IF b = c THEN Promise!Copies(b) \cup {m} ELSE Promise!Copies(b)
      BY <1>8, <1>9, <2>4, <2>5, <2>6, <2>7
    <2> QED
      BY <2>1, <2>3, <2>8
  <1>16. n \notin Arrived(c) /\ m \notin Promise!Copies(c)
    BY <1>1, <1>9, FiniteCopies DEF Arrived
  <1>17. /\ Cardinality(Arrived(c) \cup {n}) = Cardinality(Arrived(c)) + 1
         /\ Cardinality(Promise!Copies(c) \cup {m}) = Cardinality(Promise!Copies(c)) + 1
    BY <1>16, FinitePuts, FiniteCopies, FS_AddElement
  <1>18. Logged'
    BY <1>14, <1>15, <1>17 DEF Books, Logged
  <1>19. Bounded'
    BY <1>2, <1>6, <1>15 DEF Books, Bounded, Bound
  <1>20. Cardinality(Promise!Copies(c)) < Bound(c)
    <2>1. Arrived(c) \cup {n} \subseteq Puts(c)
      BY <1>1, <1>5, FinitePuts DEF Puts
    <2>2. Cardinality(Arrived(c) \cup {n}) <= Cardinality(Puts(c))
      BY <2>1, FinitePuts, FS_Subset
    <2>3. Cardinality(Puts(c)) <= Bound(c) /\ Cardinality(Promise!Copies(c)) = Cardinality(Arrived(c))
      BY <1>4 DEF Books, Bounded, Logged
    <2>4. Bound(c) \in Nat /\ Cardinality(Puts(c)) \in Nat /\ Cardinality(Arrived(c)) \in Nat
      BY FinitePuts DEF Bound
    <2> QED
      BY <1>17, <2>2, <2>3, <2>4
  <1>21. promise.result[c] = "open" \/ (promise.result[c] # "none" /\ promise.ended[c] = gen)
    <2>1. c <= sends /\ c \in Nat /\ sends \in Nat /\ c >= 1
      BY <1>1, <1>4, <1>5, Entries DEF Books, Store
    <2>2. promise.result[c] \in Results => promise.ended[c] = gen
      BY <1>1, <1>5 DEF Books, Store
    <2>3. promise.result[c] \in Results \/ promise.result[c] = "open"
      <3>1. CASE c = sends
        BY <2>1, <3>1 DEF Books, Ledger
      <3>2. CASE c # sends
        BY <1>4, <2>1, <3>2 DEF Books, Ledger
      <3> QED
        BY <3>1, <3>2
    <2>4. "none" \notin Results
      BY DEF Results
    <2> QED
      BY <2>2, <2>3, <2>4
  <1>22. \A k \in DOMAIN promise.log : promise.log[k][1] <= c
    BY <1>1, <1>5 DEF Books, Logged
  <1>23. Promise!Arrive(c)
    BY <1>2, <1>6, <1>20, <1>21, <1>22, SameCardinality DEF Promise!Arrive, Bound
  <1> QED
    BY <1>4, <1>12, <1>13, <1>18, <1>19, <1>23 DEF Books

\* A new entry for the call under way.
LEMMA BooksPut ==
  ASSUME Typed, Control, Books, Sending, Put
  PROVE  /\ Books'
         /\ \A c : Puts(c)' = IF c = sends THEN Puts(c) \cup {Len(outgoing) + 1} ELSE Puts(c)
         /\ Cardinality(Puts(sends))' = Cardinality(Puts(sends)) + 1
         /\ Last(outgoing)' = [call |-> sends, tracked |-> request.qos = 1,
                               place |-> "buffered", status |-> "pending"]
         /\ outgoing' # <<>>
  <1> DEFINE e == [call |-> sends, tracked |-> request.qos = 1, place |-> "buffered", status |-> "pending"]
             n == Len(outgoing) + 1
  <1>1. /\ pc = "perform" /\ request.op = "send" /\ outgoing' = Append(outgoing, e)
        /\ UNCHANGED <<gen, promise, sends, request>>
    BY DEF Put, KeepAll, transport, application, history
  <1>2. /\ e.call = sends /\ e.place = "buffered" /\ e.status = "pending"
    OBVIOUS
  <1> HIDE DEF e
  <1>3. /\ DOMAIN outgoing' = 1 .. n /\ DOMAIN outgoing = 1 .. Len(outgoing) /\ Len(outgoing) \in Nat
        /\ \A i \in DOMAIN outgoing : outgoing'[i] = outgoing[i]
        /\ outgoing'[n] = e /\ Len(outgoing') = n /\ outgoing' # <<>>
    BY <1>1, Entries
  <1>4. \A i \in 1 .. n : i \in DOMAIN outgoing \/ i = n
    BY <1>3
  <1>5. n \notin DOMAIN outgoing /\ n \in 1 .. n /\ \A i \in DOMAIN outgoing : i \in 1 .. n /\ i <= n /\ ~(n <= i)
    BY <1>3
  <1> HIDE DEF n
  <1>6. \A c : Puts(c)' = IF c = sends THEN Puts(c) \cup {n} ELSE Puts(c)
    BY <1>2, <1>3, <1>4, <1>5 DEF Puts
  <1>7. \A c : Arrived(c)' = Arrived(c)
    <2> TAKE c
    <2>1. Arrived(c) = {i \in DOMAIN outgoing : outgoing[i].call = c /\ outgoing[i].place = "arrived"}
      BY DEF Arrived, Puts
    <2>2. Arrived(c)' = {i \in 1 .. n : outgoing'[i].call = c /\ outgoing'[i].place = "arrived"}
      BY <1>3 DEF Arrived, Puts
    <2> QED
      BY <1>2, <1>3, <1>4, <1>5, <2>1, <2>2
  <1>8. n \notin Puts(sends)
    BY <1>5, FinitePuts
  <1>9. Cardinality(Puts(sends) \cup {n}) = Cardinality(Puts(sends)) + 1
    BY <1>8, FinitePuts, FS_AddElement
  <1>10. sends \in 1 .. MaxCalls
    BY <1>1, Entries DEF Control
  <1>11. Cardinality(Puts(sends)) < Bound(sends)
    BY <1>1 DEF Sending
  <1>12. \A c : Bound(c)' = Bound(c) /\ Promise!Copies(c)' = Promise!Copies(c)
    BY <1>1 DEF Bound, Promise!Copies
  <1>13. Bounded'
    <2> SUFFICES ASSUME NEW c \in 1 .. MaxCalls PROVE Cardinality(Puts(c)') <= Bound(c)
      BY <1>12 DEF Bounded
    <2>1. CASE c = sends
      <3>1. Cardinality(Puts(sends)) \in Nat /\ Bound(sends) \in Nat
        BY FinitePuts DEF Bound
      <3> QED
        BY <1>6, <1>9, <1>11, <2>1, <3>1
    <2>2. CASE c # sends
      BY <1>6, <2>2 DEF Books, Bounded
    <2> QED
      BY <2>1, <2>2
  <1>14. Ledger'
    BY <1>1 DEF Books, Ledger
  <1>15. Store'
    <2>1. promise.result[sends] \notin Results
      BY <1>1 DEF Books, Ledger, Results
    <2>2. \A i \in DOMAIN outgoing' :
            /\ outgoing'[i].call <= sends'
            /\ promise'.result[outgoing'[i].call] \in Results => promise'.ended[outgoing'[i].call] = gen'
            /\ outgoing'[i].status # "unknown"
            /\ outgoing'[i].status = "accepted" => outgoing'[i].place = "arrived"
      <3> SUFFICES ASSUME NEW i \in 1 .. n
                   PROVE  /\ outgoing'[i].call <= sends
                          /\ promise.result[outgoing'[i].call] \in Results =>
                               promise.ended[outgoing'[i].call] = gen
                          /\ outgoing'[i].status # "unknown"
                          /\ outgoing'[i].status = "accepted" => outgoing'[i].place = "arrived"
        BY <1>1, <1>3
      <3>1. CASE i \in DOMAIN outgoing
        BY <1>3, <3>1 DEF Books, Store
      <3>2. CASE i = n
        BY <1>2, <1>3, <2>1, <3>2, Entries
      <3> QED
        BY <1>4, <3>1, <3>2
    <2>3. \A i, j \in DOMAIN outgoing' : i <= j =>
            /\ outgoing'[j].place = "arrived" => outgoing'[i].place = "arrived"
            /\ outgoing'[j].place = "sent" => outgoing'[i].place # "buffered"
            /\ outgoing'[i].call <= outgoing'[j].call
      <3> SUFFICES ASSUME NEW i \in 1 .. n, NEW j \in 1 .. n, i <= j
                   PROVE  /\ outgoing'[j].place = "arrived" => outgoing'[i].place = "arrived"
                          /\ outgoing'[j].place = "sent" => outgoing'[i].place # "buffered"
                          /\ outgoing'[i].call <= outgoing'[j].call
        BY <1>3
      <3>1. CASE j \in DOMAIN outgoing
        <4>1. i \in DOMAIN outgoing
          BY <1>4, <1>5, <3>1
        <4> QED
          BY <1>3, <3>1, <4>1 DEF Books, Store
      <3>2. CASE j = n
        <4>1. outgoing'[i].call <= sends
          BY <1>1, <2>2, <1>3
        <4> QED
          BY <1>2, <1>3, <3>2, <4>1
      <3> QED
        BY <1>4, <3>1, <3>2
    <2> QED
      BY <2>2, <2>3 DEF Store
  <1>16. Logged'
    <2>1. \A k \in DOMAIN promise.log, i \in 1 .. n :
            outgoing'[i].place # "arrived" => promise.log[k][1] <= outgoing'[i].call
      <3> SUFFICES ASSUME NEW k \in DOMAIN promise.log, NEW i \in 1 .. n, outgoing'[i].place # "arrived"
                   PROVE  promise.log[k][1] <= outgoing'[i].call
        OBVIOUS
      <3>1. CASE i \in DOMAIN outgoing
        BY <1>3, <3>1 DEF Books, Logged
      <3>2. CASE i = n
        BY <1>2, <1>3, <3>2 DEF Books, Logged
      <3> QED
        BY <1>4, <3>1, <3>2
    <2> QED
      BY <1>1, <1>3, <1>7, <1>12, <2>1 DEF Books, Logged
  <1>17. Last(outgoing)' = e
    BY <1>3 DEF Last
  <1>18. Books'
    BY <1>13, <1>14, <1>15, <1>16 DEF Books
  <1>19. Cardinality(Puts(sends))' = Cardinality(Puts(sends)) + 1
    BY <1>1, <1>6, <1>9
  <1> QED
    BY <1>3, <1>6, <1>17, <1>18, <1>19 DEF e, n

\* Nothing of the last messenger is kept.
LEMMA BooksConnect ==
  ASSUME Typed, Books, Connect
  PROVE  /\ Books'
         /\ \A c : Puts(c)' = {}
         /\ \A c \in 1 .. MaxCalls : promise.began[c] < gen'
         /\ Promise!Reconnect
  <1>1. gen' = gen + 1 /\ outgoing' = <<>> /\ UNCHANGED <<promise, sends, request>>
    BY DEF Connect, application, history
  <1>2. DOMAIN outgoing' = {}
    BY <1>1
  <1>3. \A c : Puts(c)' = {} /\ Arrived(c)' = {}
    BY <1>2 DEF Puts, Arrived
  <1>4. Cardinality({}) = 0
    BY FS_EmptySet
  <1>5. \A c \in 1 .. MaxCalls : promise.began[c] < gen' /\ promise.began[c] <= gen + 1
    <2> SUFFICES ASSUME NEW c \in 1 .. MaxCalls PROVE promise.began[c] < gen + 1 /\ promise.began[c] <= gen + 1
      BY <1>1
    <2>1. promise.began[c] <= gen
      BY DEF Books, Ledger
    <2>2. promise.began[c] \in Nat /\ gen \in Nat
      BY Entries, Recording
    <2> QED
      BY <2>1, <2>2
  <1>6. \A c : Promise!Copies(c)' = {}
    <2> SUFFICES ASSUME NEW c, NEW k \in DOMAIN promise.log, promise.log[k] = <<c, gen'>> PROVE FALSE
      BY <1>1 DEF Promise!Copies
    <2>1. promise.log[k][2] <= gen
      BY DEF Books, Logged
    <2> QED
      BY <1>1, <2>1, Entries
  <1>7. Ledger'
    <2>1. \A c \in 1 .. MaxCalls : promise.began[c] <= gen'
      BY <1>1, <1>5
    <2> QED
      BY <1>1, <2>1 DEF Books, Ledger
  <1>8. Store'
    BY <1>2 DEF Store
  <1>9. Logged'
    <2>1. \A k \in DOMAIN promise.log : promise.log[k][1] <= sends /\ promise.log[k][2] <= gen + 1
      <3> SUFFICES ASSUME NEW k \in DOMAIN promise.log
                   PROVE  promise.log[k][1] <= sends /\ promise.log[k][2] <= gen + 1
        OBVIOUS
      <3>1. promise.log[k][1] <= sends /\ promise.log[k][2] <= gen /\ promise.log[k][2] \in Nat
        BY Recording DEF Books, Logged
      <3> QED
        BY <3>1, Entries
    <2> QED
      BY <1>1, <1>2, <1>3, <1>6, <2>1 DEF Logged
  <1>10. Bounded'
    BY <1>3, <1>4 DEF Bounded, Bound
  <1>12. Promise!Reconnect
    BY <1>1 DEF Promise!Reconnect
  <1> QED
    BY <1>3, <1>5, <1>7, <1>8, <1>9, <1>10, <1>12 DEF Books

LEMMA BooksCallSend ==
  ASSUME Typed, Control, Books, NEW q \in SendQoS, NEW timed \in BOOLEAN, CallSend(q, timed)
  PROVE  /\ Books' /\ Puts(sends)' = {}
         /\ \E c \in 1 .. MaxCalls, p \in {0, 1} : Promise!Begin(c, p)
  <1> DEFINE c == sends + 1
  <1>1. /\ request' = [op |-> "send", qos |-> q, dest |-> None, timed |-> timed]
        /\ sends' = c /\ user = "idle" /\ calls < MaxCalls
        /\ promise' = [promise EXCEPT !.result[c] = "open", !.quality[c] = q, !.began[c] = gen]
        /\ UNCHANGED <<gen, outgoing>>
    BY DEF CallSend, Call
  <1>2. request'.op = "send" /\ request'.qos = q
    BY <1>1
  <1>3. c \in 1 .. MaxCalls /\ q \in {0, 1} /\ sends \in Nat /\ c > sends
    BY <1>1, Entries, DestinationsAssumption DEF Control, Typed, ApplicationTypes
  <1>4. request.op # "send"
    BY <1>1 DEF Control, NoRequest
  <1>5. /\ promise'.result = [promise.result EXCEPT ![c] = "open"]
        /\ promise'.quality = [promise.quality EXCEPT ![c] = q]
        /\ promise'.began = [promise.began EXCEPT ![c] = gen]
        /\ promise'.ended = promise.ended /\ promise'.log = promise.log
    <2>1. promise \in Records
      BY DEF Typed, HistoryTypes
    <2> HIDE DEF c
    <2> QED
      BY <1>1, <2>1 DEF Records
  <1>6. \A b \in 1 .. MaxCalls :
          /\ promise'.result[b] = IF b = c THEN "open" ELSE promise.result[b]
          /\ promise'.quality[b] = IF b = c THEN q ELSE promise.quality[b]
          /\ promise'.began[b] = IF b = c THEN gen ELSE promise.began[b]
    BY <1>5, Recording
  <1>7. /\ \A b \in 1 .. MaxCalls : b < c => promise.result[b] \in Results
        /\ \A b \in 1 .. MaxCalls : b >= c => promise.result[b] = "none"
    <2>1. \A b \in 1 .. MaxCalls : b < c => b < sends \/ (b = sends /\ sends > 0)
      BY <1>3
    <2>2. \A b \in 1 .. MaxCalls : b >= c => b > sends
      BY <1>3
    <2> QED
      BY <1>4, <2>1, <2>2 DEF Books, Ledger
  <1>8. \A i \in DOMAIN outgoing : outgoing[i].call # c /\ outgoing[i].call <= sends /\ outgoing[i].call <= c
    BY <1>3, Entries DEF Books, Store
  <1> HIDE DEF c
  <1>9. \A b : Puts(b)' = Puts(b) /\ Arrived(b)' = Arrived(b) /\ Promise!Copies(b)' = Promise!Copies(b)
    BY <1>1, <1>5 DEF Puts, Arrived, Promise!Copies
  <1>10. Puts(c) = {}
    BY <1>8 DEF Puts
  <1>11. Ledger'
    BY <1>1, <1>2, <1>3, <1>6, <1>7, Entries DEF Books, Ledger
  <1>12. Store'
    <2>1. \A i \in DOMAIN outgoing : promise'.result[outgoing[i].call] = promise.result[outgoing[i].call]
      BY <1>6, <1>8, Entries
    <2> QED
      BY <1>1, <1>5, <1>8, <2>1 DEF Books, Store
  <1>13. Logged'
    <2>1. \A k \in DOMAIN promise.log : promise.log[k][1] <= c
      <3> SUFFICES ASSUME NEW k \in DOMAIN promise.log PROVE promise.log[k][1] <= c
        OBVIOUS
      <3>1. promise.log[k][1] <= sends /\ promise.log[k][1] \in 1 .. MaxCalls
        BY Recording DEF Books, Logged
      <3> QED
        BY <1>3, <3>1
    <2> QED
      BY <1>1, <1>5, <1>9, <2>1 DEF Books, Logged
  <1>14. Bounded'
    <2> SUFFICES ASSUME NEW b \in 1 .. MaxCalls PROVE Cardinality(Puts(b)') <= Bound(b)'
      BY DEF Bounded
    <2>1. CASE b = c
      <3>1. Cardinality(Puts(b)') = 0
        BY <1>9, <1>10, <2>1, FS_EmptySet
      <3> QED
        BY <3>1 DEF Bound
    <2>2. CASE b # c
      BY <1>1, <1>6, <1>9, <2>2 DEF Books, Bounded, Bound
    <2> QED
      BY <2>1, <2>2
  <1>15. Promise!Begin(c, q)
    <2>1. "open" \notin Results
      BY DEF Results
    <2>2. \A b \in 1 .. MaxCalls : (b < c => promise.result[b] # "open") /\ (b > c => promise.result[b] = "none")
      BY <1>3, <1>7, <2>1
    <2>3. promise.result[c] = "none"
      BY <1>3, <1>7
    <2> QED
      BY <1>1, <1>5, <2>2, <2>3 DEF Promise!Begin, Promise!Calls
  <1> QED
    BY <1>1, <1>3, <1>9, <1>10, <1>11, <1>12, <1>13, <1>14, <1>15 DEF Books

LEMMA BooksReturn ==
  ASSUME Typed, Control, Books, Replied, Return
  PROVE  /\ Books'
         /\ \/ UNCHANGED promise
            \/ \E c \in 1 .. MaxCalls, r \in {"ok", "error", "timeout"} : Promise!End(c, r)
  <1>1. /\ user = "wait" /\ request' = NoRequest /\ UNCHANGED <<gen, sends, outgoing>>
    BY DEF Return, messenger, transport
  <1>2. request'.op = "none"
    BY <1>1 DEF NoRequest
  <1>3. CASE request.op # "send"
    <2>1. UNCHANGED promise
      BY <1>3 DEF Return
    <2> QED
      BY <1>1, <1>2, <1>3, <2>1, BooksStay
  <1>4. CASE request.op = "send"
    <2> DEFINE r == Head(replies).result
    <2>1. /\ replies # <<>>
          /\ promise' = [promise EXCEPT !.result[sends] = r, !.ended[sends] = gen]
      BY <1>4 DEF Return
    <2>2. Head(replies) \in Reply /\ Head(replies) \in ToSet(replies)
      BY <2>1, TailSet DEF Typed, ThreadTypes
    <2>3. r \in Results
      BY <2>2 DEF Reply
    <2> HIDE DEF r
    <2>4. sends \in 1 .. MaxCalls
      BY <1>4, Entries DEF Control
    <2>5. /\ promise'.result = [promise.result EXCEPT ![sends] = r]
          /\ promise'.ended = [promise.ended EXCEPT ![sends] = gen]
          /\ promise'.quality = promise.quality /\ promise'.began = promise.began /\ promise'.log = promise.log
      <3>1. promise \in Records
        BY DEF Typed, HistoryTypes
      <3> QED
        BY <2>1, <3>1 DEF Records
    <2>6. \A b \in 1 .. MaxCalls :
            /\ promise'.result[b] = IF b = sends THEN r ELSE promise.result[b]
            /\ promise'.ended[b] = IF b = sends THEN gen ELSE promise.ended[b]
      BY <2>5, Recording
    <2>7. Ledger'
      BY <1>1, <1>2, <2>3, <2>4, <2>5, <2>6, Entries DEF Books, Ledger
    <2>8. Store'
      <3>1. \A i \in DOMAIN outgoing : promise'.result[outgoing[i].call] \in Results =>
                                         promise'.ended[outgoing[i].call] = gen
        BY <2>6, Entries DEF Books, Store
      <3> QED
        BY <1>1, <3>1 DEF Books, Store
    <2>9. \A b : /\ Puts(b)' = Puts(b) /\ Arrived(b)' = Arrived(b)
                 /\ Promise!Copies(b)' = Promise!Copies(b) /\ Bound(b)' = Bound(b)
      BY <1>1, <2>5 DEF Puts, Arrived, Promise!Copies, Bound
    <2>10. Logged'
      BY <1>1, <2>5, <2>9 DEF Books, Logged
    <2>11. Bounded'
      BY <2>9 DEF Books, Bounded
    <2>12. Promise!End(sends, r)
      <3>1. r = "ok" => Kept
        BY <1>1, <1>4, <2>2 DEF Replied, r
      <3>2. Kept => promise.quality[sends] = 0 \/ Promise!Reached(sends) \/ gen > promise.began[sends]
        BY <1>4 DEF Kept, Replaced, Books, Ledger
      <3>3. promise.result[sends] = "open"
        BY <1>4 DEF Books, Ledger
      <3> QED
        BY <1>1, <2>5, <3>1, <3>2, <3>3 DEF Promise!End
    <2> QED
      BY <2>3, <2>4, <2>7, <2>8, <2>10, <2>11, <2>12 DEF Books, Results
  <1> QED
    BY <1>3, <1>4

-----------------------------------------------------------------------------
(* Steps of the send under way                                             *)

LEMMA LastEntry ==
  ASSUME Typed, outgoing # <<>>
  PROVE  Len(outgoing) \in DOMAIN outgoing /\ Last(outgoing) = outgoing[Len(outgoing)]
  <1>1. Len(outgoing) # 0
    BY Entries, EmptySeq
  <1> QED
    BY <1>1, Entries DEF Last

LEMMA BeganBefore ==
  ASSUME Typed, Control, Books, request.op = "send"
  PROVE  /\ promise.began[sends] <= gen /\ promise.began[sends] \in Nat /\ sends \in 1 .. MaxCalls
         /\ Replaced <=> gen # promise.began[sends]
         /\ Bound(sends) = IF Replaced THEN 2 ELSE 1
         /\ Cardinality(Puts(sends)) \in Nat /\ (Puts(sends) = {} <=> Cardinality(Puts(sends)) = 0)
  <1>1. sends \in 1 .. MaxCalls
    BY Entries DEF Control
  <1>2. promise.began[sends] <= gen
    BY <1>1 DEF Books, Ledger
  <1>3. promise.began[sends] \in Nat /\ gen \in Nat
    BY <1>1, Recording, Entries
  <1>4. Replaced <=> gen # promise.began[sends]
    BY <1>2, <1>3 DEF Replaced
  <1>5. Cardinality(Puts(sends)) \in Nat /\ (Puts(sends) = {} <=> Cardinality(Puts(sends)) = 0)
    BY FinitePuts, FS_EmptySet
  <1> QED
    BY <1>1, <1>2, <1>3, <1>4, <1>5 DEF Bound

LEMMA NotSending ==
  ASSUME request'.op # "send"
  PROVE  Sending' /\ Replied'
  BY DEF Sending, Replied

\* Steps that leave the send and what was put alone.
LEMMA SendingStays ==
  ASSUME Sending, UNCHANGED <<promise, gen, sends, request, user, pc, status, outgoing>>,
         state' = "started" => state = "started", reinstating' # None => reinstating # None
  PROVE  Sending'
  <1>1. Puts(sends)' = Puts(sends) /\ Bound(sends)' = Bound(sends) /\ (Replaced' <=> Replaced)
    BY DEF Puts, Bound, Replaced
  <1> QED
    BY <1>1 DEF Sending

\* The network moves entries on or answers them.
LEMMA SendingMoves ==
  ASSUME Typed, Sending, UNCHANGED <<promise.began, gen, sends, request, user, pc, status, state, reinstating>>,
         DOMAIN outgoing' = DOMAIN outgoing, outgoing' \in Seq(Entry),
         \A i \in DOMAIN outgoing :
           /\ outgoing'[i].call = outgoing[i].call /\ outgoing'[i].tracked = outgoing[i].tracked
           /\ outgoing[i].place = "arrived" => outgoing'[i].place = "arrived"
  PROVE  Sending'
  <1>1. Puts(sends)' = Puts(sends)
    BY DEF Puts
  <1>2. Bound(sends)' = Bound(sends) /\ (Replaced' <=> Replaced)
    BY DEF Bound, Replaced
  <1>3. ASSUME outgoing # <<>>
        PROVE  /\ outgoing' # <<>>
               /\ Last(outgoing)'.call = Last(outgoing).call /\ Last(outgoing)'.tracked = Last(outgoing).tracked
               /\ Last(outgoing).place = "arrived" => Last(outgoing)'.place = "arrived"
    <2>1. Len(outgoing) \in DOMAIN outgoing /\ Last(outgoing) = outgoing[Len(outgoing)]
      BY <1>3, LastEntry
    <2>2. Len(outgoing') = Len(outgoing)
      BY Entries, LenProperties
    <2> QED
      BY <2>1, <2>2, Entries DEF Last
  <1> QED
    BY <1>1, <1>2, <1>3 DEF Sending

LEMMA KeptStays ==
  ASSUME Typed, Control, Books, request.op = "send", Kept, UNCHANGED <<sends, request>>,
         promise'.began = promise.began, gen' \in {gen, gen + 1},
         \A k \in DOMAIN promise.log : k \in DOMAIN promise'.log /\ promise'.log[k] = promise.log[k]
  PROVE  Kept'
  <1>1. Replaced => Replaced'
    BY BeganBefore, Entries DEF Replaced
  <1>2. Promise!Reached(sends) => Promise!Reached(sends)'
    BY DEF Promise!Reached
  <1> QED
    BY <1>1, <1>2 DEF Kept

LEMMA RepliedStays ==
  ASSUME Typed, Control, Books, Replied, UNCHANGED <<sends, request, user, replies>>,
         promise'.began = promise.began, gen' \in {gen, gen + 1},
         \A k \in DOMAIN promise.log : k \in DOMAIN promise'.log /\ promise'.log[k] = promise.log[k]
  PROVE  Replied'
  BY KeptStays DEF Replied

\* The end of a request that has not succeeded, or whose success is what it means.
LEMMA SendFinished ==
  ASSUME Typed, Control, Books, Replied, NEW result \in Results, Finish(result),
         UNCHANGED <<user, request, sends, promise, gen>>, user = "wait", result = "ok" => Kept
  PROVE  Sending' /\ Replied'
  <1>1. pc' = "idle" /\ replies' = Append(replies, Plain(result))
    BY DEF Finish, Goto
  <1>2. Sending'
    BY <1>1 DEF Sending
  <1>3. Plain(result) \in Reply /\ Plain(result).result = result
    BY DEF Plain, Reply
  <1>4. ToSet(replies') = ToSet(replies) \cup {Plain(result)}
    BY <1>1, <1>3, AppendedSet DEF Typed, ThreadTypes
  <1>5. request.op = "send" /\ Kept => Kept'
    BY Entries, KeptStays
  <1>6. Replied'
    BY <1>3, <1>4, <1>5 DEF Replied
  <1> QED
    BY <1>2, <1>6

LEMMA CommandKeeps ==
  ASSUME Command \/ Expire
  PROVE  /\ UNCHANGED <<user, request, sends, promise, gen, reinstating>>
         /\ Put \/ UNCHANGED outgoing
  <1> USE DEF threadVars, application, command, transport, links, arrived, messenger, server,
          history, KeepAll
  <1>1. CASE Expire
    BY <1>1 DEF Expire
  <1>2. CASE Ready \/ Put \/ PutFails \/ OutboundPending \/ TrackerStatus \/ Judge
             \/ CreateSubscription \/ LinkUp \/ CloseLink \/ CloseLinkFails \/ LinkClosed
    BY <1>2 DEF Ready, Put, PutFails, OutboundPending, TrackerStatus, Judge,
       CreateSubscription, LinkUp, CloseLink, CloseLinkFails, LinkClosed
  <1>3. CASE CheckOutOfSequence \/ OpenForMessage \/ NoLink \/ RecvFails \/ Await \/ Awaited
             \/ AwaitTimeout \/ Drained \/ Collect \/ CollectFails \/ PushDelivery
    BY <1>3 DEF CheckOutOfSequence, OpenForMessage, NoLink, RecvFails, Await, Awaited,
       AwaitTimeout, Drained, Collect, CollectFails, PushDelivery
  <1>4. CASE Accept \/ SettleDelivery
    BY <1>4 DEF Accept, SettleDelivery
  <1> QED
    BY <1>1, <1>2, <1>3, <1>4 DEF Command

LEMMA SendCommand ==
  ASSUME Typed, Control, Books, Attempt, Sending, Replied, Command \/ Expire
  PROVE  Sending' /\ Replied'
  <1>1. /\ UNCHANGED <<user, request, sends, promise, gen, reinstating>>
        /\ Put \/ UNCHANGED outgoing
    BY CommandKeeps
  <1>2. CASE request.op # "send"
    BY <1>1, <1>2, NotSending
  <1> SUFFICES ASSUME request.op = "send" PROVE Sending' /\ Replied'
    BY <1>2
  <1>3. pc # "idle" /\ user = "wait"
    <2>1. pc # "idle"
      BY DEF Expire, Command, Ready, Put, PutFails, OutboundPending, TrackerStatus, Judge, CreateSubscription,
         LinkUp, CloseLink, CloseLinkFails, LinkClosed, CheckOutOfSequence, OpenForMessage, NoLink, RecvFails,
         Await, Awaited, AwaitTimeout, Drained, Collect, CollectFails, PushDelivery, Accept, SettleDelivery
    <2> QED
      BY <2>1 DEF Control
  <1>4. gen' \in {gen, gen + 1} /\ promise'.began = promise.began
        /\ \A k \in DOMAIN promise.log : k \in DOMAIN promise'.log /\ promise'.log[k] = promise.log[k]
    BY <1>1
  <1>5. ASSUME UNCHANGED replies PROVE Replied'
    BY <1>1, <1>4, <1>5, RepliedStays
  <1>6. UNCHANGED outgoing => /\ Puts(sends)' = Puts(sends) /\ Bound(sends)' = Bound(sends)
                              /\ Last(outgoing)' = Last(outgoing)
    BY <1>1 DEF Puts, Bound
  <1>7. Replaced' <=> Replaced
    BY <1>1 DEF Replaced
  <1>8. CASE Expire
    BY <1>1, <1>3, <1>8, SendFinished DEF Expire, Results
  <1>9. CASE PutFails
    BY <1>1, <1>3, <1>9, SendFinished DEF PutFails, Results
  <1>10. CASE Ready
    <2>1. /\ pc = "ready" /\ pc' \in {"idle", "perform"} /\ UNCHANGED <<replies, outgoing>>
          /\ pc' = "perform" => state = "started"
      BY <1>10 DEF Ready, Goto, threadVars, messenger, Typed, ThreadTypes
    <2>2. Replied'
      BY <1>5, <2>1
    <2>3. Sending'
      BY <1>1, <1>3, <1>6, <2>1 DEF Sending, Attempt, Polling
    <2> QED
      BY <2>2, <2>3
  <1>11. CASE Put
    <2>1. /\ pc = "perform" /\ pc' = "buffered" /\ UNCHANGED replies
      BY <1>11 DEF Put, Goto, threadVars
    <2>2. /\ Puts(sends)' # {} /\ Cardinality(Puts(sends))' = Cardinality(Puts(sends)) + 1
          /\ Last(outgoing)'.call = sends /\ Last(outgoing)'.tracked = (request.qos = 1) /\ outgoing' # <<>>
      BY <1>1, <1>11, BooksPut
    <2>3. reinstating # None => Replaced /\ Cardinality(Puts(sends)) = 0
      BY <1>3, <2>1, BeganBefore DEF Sending
    <2>4. Replied'
      BY <1>5, <2>1
    <2>5. Sending'
      BY <1>1, <1>3, <1>7, <2>1, <2>2, <2>3 DEF Sending
    <2> QED
      BY <2>4, <2>5
  <1>12. CASE OutboundPending
    <2>1. /\ pc = "buffered" /\ pc' = "status" /\ UNCHANGED <<replies, outgoing>>
      BY <1>12 DEF OutboundPending, Goto, threadVars, messenger
    <2>2. Sending'
      BY <1>1, <1>3, <1>6, <1>7, <2>1 DEF Sending, Polling
    <2> QED
      BY <1>5, <2>1, <2>2
  <1>13. CASE TrackerStatus
    <2>1. /\ pc = "status" /\ pc' = "judge" /\ UNCHANGED <<replies, outgoing, state>>
          /\ ~(Status = "pending" /\ state = "started") /\ status' = Status
      BY <1>13 DEF TrackerStatus, Goto, threadVars, messenger
    <2>2. ASSUME request.qos = 1, ~Replaced
          PROVE  /\ Status # "unknown"
                 /\ Status = "accepted" => Last(outgoing).place = "arrived"
      <3>1. outgoing # <<>> /\ Last(outgoing).tracked
        BY <1>3, <2>1, <2>2 DEF Sending, Polling
      <3>2. Status = Last(outgoing).status
        BY <3>1 DEF Status, Tracked
      <3> QED
        BY <3>1, <3>2, LastEntry DEF Books, Store
    <2>3. Sending'
      BY <1>1, <1>3, <1>6, <1>7, <2>1, <2>2 DEF Sending, Polling
    <2> QED
      BY <1>5, <2>1, <2>3
  <1>14. CASE Judge
    <2>1. pc = "judge"
      BY <1>14 DEF Judge
    <2>2. CASE RetryRequest /\ UNCHANGED replies /\ state' # "started"
      <3>1. pc' = "ready" /\ UNCHANGED outgoing
        BY <1>14, <2>2 DEF RetryRequest, Goto, Judge, messenger
      <3>2. Sending'
        BY <1>1, <1>3, <1>6, <1>7, <2>1, <2>2, <3>1 DEF Sending, Polling
      <3> QED
        BY <1>5, <2>2, <3>2
    <2>3. CASE state = "started" /\ status # "aborted" /\ Finish(IF status = "rejected" THEN "error" ELSE "ok")
      <3>1. CASE status = "rejected"
        BY <1>1, <1>3, <2>3, <3>1, SendFinished DEF Results
      <3>2. CASE status # "rejected"
        <4>1. Kept
          <5> SUFFICES ASSUME request.qos # 0, ~Replaced PROVE Promise!Reached(sends)
            BY DEF Kept
          <5>1. request.qos = 1
            BY RequestIs DEF Typed
          <5>2. status = "accepted"
            BY <1>3, <2>1, <2>3, <3>2, <5>1 DEF Sending, Typed, CommandTypes, Statuses
          <5>3. outgoing # <<>> /\ Last(outgoing).call = sends /\ Last(outgoing).place = "arrived"
            BY <1>3, <2>1, <5>1, <5>2 DEF Sending, Polling
          <5>4. Len(outgoing) \in Arrived(sends)
            BY <5>3, LastEntry DEF Arrived, Puts
          <5>5. Cardinality(Arrived(sends)) # 0
            BY <5>4, FinitePuts, FS_EmptySet
          <5>6. Cardinality(Promise!Copies(sends)) # 0
            BY <5>5, BeganBefore DEF Books, Logged
          <5>7. Promise!Copies(sends) # {}
            BY <5>6, FS_EmptySet
          <5>8. PICK k \in DOMAIN promise.log : promise.log[k] = <<sends, gen>>
            BY <5>7 DEF Promise!Copies
          <5> QED
            BY <5>8 DEF Promise!Reached
        <4> QED
          BY <1>1, <1>3, <2>3, <3>2, <4>1, SendFinished DEF Results
      <3> QED
        BY <3>1, <3>2
    <2> QED
      BY <1>14, <2>2, <2>3 DEF Judge, KeepAll
  <1> QED
    BY <1>8, <1>9, <1>10, <1>11, <1>12, <1>13, <1>14 DEF Command, Control, CreateSubscription, LinkUp,
       CloseLink, CloseLinkFails, LinkClosed, CheckOutOfSequence, OpenForMessage, NoLink, RecvFails,
       Await, Awaited, AwaitTimeout, Drained, Collect, CollectFails, PushDelivery, Accept, SettleDelivery

LEMMA SendConnect ==
  ASSUME Typed, Control, Books, Replied, Connect
  PROVE  Sending' /\ Replied'
  <1>1. /\ UNCHANGED <<user, request, sends, promise, replies, pc, state>> /\ gen' = gen + 1
        /\ state = "retrying"
    BY DEF Connect, application, history, threadVars
  <1>2. CASE request.op # "send"
    BY <1>1, <1>2, NotSending
  <1>3. CASE request.op = "send"
    <2>1. Puts(sends)' = {} /\ Cardinality({}) = 0
      BY BooksConnect, FS_EmptySet
    <2>2. Replaced'
      BY <1>1, <1>3, BooksConnect, BeganBefore DEF Replaced
    <2>3. 0 < Bound(sends)'
      BY DEF Bound
    <2>4. Sending'
      BY <2>1, <2>2, <2>3 DEF Sending
    <2>5. Replied'
      BY <1>1, RepliedStays
    <2> QED
      BY <2>4, <2>5
  <1> QED
    BY <1>2, <1>3

LEMMA SendReconnected ==
  ASSUME Typed, Control, Books, Sending, Replied, Reconnected
  PROVE  Sending' /\ Replied'
  <1>1. /\ UNCHANGED <<user, request, sends, promise, replies, pc, status, gen, outgoing>>
        /\ reinstating # None /\ reinstating' = None
    BY DEF Reconnected, EndAttempt, KeepCommand, application, command, history
  <1>2. CASE request.op # "send"
    BY <1>1, <1>2, NotSending
  <1>3. CASE request.op = "send"
    <2>1. Puts(sends)' = Puts(sends) /\ Bound(sends)' = Bound(sends) /\ (Replaced' <=> Replaced)
      BY <1>1 DEF Puts, Bound, Replaced
    <2>2. Replied'
      BY <1>1, RepliedStays
    <2> SUFFICES ASSUME user = "called" \/ pc # "idle" PROVE Sending'
      BY <1>1, <2>2 DEF Sending
    <2>3. /\ Cardinality(Puts(sends)) <= 1 /\ (Puts(sends) # {} => Replaced)
          /\ pc \in Polling \cup {"perform"} => Replaced
      BY <1>1, <1>3 DEF Sending
    <2>4. Cardinality(Puts(sends)) < Bound(sends)
      BY <1>3, <2>3, BeganBefore
    <2> QED
      BY <1>1, <1>3, <2>1, <2>3, <2>4 DEF Sending, Polling
  <1> QED
    BY <1>2, <1>3

\* The invariant, and what each step is for SendPromise.
LEMMA SendNext ==
  ASSUME Typed, Typed', Control, SendInv, [Next]_vars
  PROVE  SendInv' /\ [Promise!Next]_(Promise!vars)
  <1> USE DEF threadVars, application, command, transport, links, arrived, messenger, server,
          history, KeepCommand, KeepClient, KeepSending, KeepLinks
  <1>1. ASSUME UNCHANGED <<gen, promise>> PROVE [Promise!Next]_(Promise!vars)
    BY <1>1 DEF Promise!vars
  <1>2. ASSUME UNCHANGED <<gen, promise, sends, outgoing, request, user, pc, status, replies>>,
               state' = "started" => state = "started" /\ reinstating' = reinstating,
               reinstating' # None => reinstating # None
        PROVE  SendInv' /\ [Promise!Next]_(Promise!vars)
    <2>1. Books'
      BY <1>2, BooksStay DEF SendInv
    <2>2. Sending'
      BY <1>2, SendingStays DEF SendInv
    <2>3. Replied'
      BY <1>2, RepliedStays DEF SendInv
    <2>4. Attempt'
      BY <1>2 DEF SendInv, Attempt
    <2> QED
      BY <1>1, <1>2, <2>1, <2>2, <2>3, <2>4 DEF SendInv
  <1>3. CASE Command \/ Expire
    <2>1. /\ UNCHANGED <<user, request, sends, promise, gen, reinstating>>
          /\ Put \/ UNCHANGED outgoing
      BY <1>3, CommandKeeps
    <2>2. Books'
      BY <2>1, BooksPut, BooksStay DEF SendInv
    <2>3. Sending' /\ Replied'
      BY <1>3, SendCommand DEF SendInv
    <2>4. state' = "started" => state = "started"
      <3> USE DEF KeepAll
      <3>1. CASE UNCHANGED state
        BY <3>1
      <3>2. CASE Judge \/ CheckOutOfSequence \/ RecvFails \/ Accept \/ SettleDelivery
        BY <3>2 DEF Judge, CheckOutOfSequence, RecvFails, CheckMessenger, Accept, SettleDelivery, Interpret
      <3> QED
        BY <1>3, <3>1, <3>2 DEF Command, Expire, Ready, Put, PutFails, OutboundPending, TrackerStatus,
           CreateSubscription, LinkUp, CloseLink, CloseLinkFails, LinkClosed, OpenForMessage, NoLink, Await,
           Awaited, AwaitTimeout, Drained, Collect, CollectFails, PushDelivery
    <2>5. Attempt'
      BY <2>1, <2>4 DEF SendInv, Attempt
    <2> QED
      BY <1>1, <2>1, <2>2, <2>3, <2>5 DEF SendInv
  <1>4. CASE Connect
    <2>1. Attempt'
      BY <1>4 DEF Connect, Attempt
    <2>2. Promise!Next
      BY <1>4, BooksConnect DEF SendInv, Promise!Next
    <2> QED
      BY <1>4, <2>1, <2>2, BooksConnect, SendConnect DEF SendInv
  <1>5. CASE Reconnected
    <2>1. UNCHANGED <<gen, promise, sends, outgoing, request>> /\ reinstating' = None
      BY <1>5 DEF Reconnected, EndAttempt
    <2>2. Books'
      BY <2>1, BooksStay DEF SendInv
    <2>3. Attempt'
      BY <2>1 DEF Attempt
    <2> QED
      BY <1>1, <1>5, <2>1, <2>2, <2>3, SendReconnected DEF SendInv
  <1>6. CASE CheckForLoss \/ ReinstateLink \/ LinkReinstated \/ ReinstateFails
    <2>1. UNCHANGED <<gen, promise, sends, outgoing, request, user, pc, status, replies>>
      BY <1>6 DEF CheckForLoss, ReinstateLink, LinkReinstated, ReinstateFails, EndAttempt
    <2>2. reinstating' # None => reinstating # None
      BY <1>6 DEF CheckForLoss, ReinstateLink, LinkReinstated, ReinstateFails, EndAttempt, Waiting
    <2>3. state' = "started" => state = "started" /\ reinstating' = reinstating
      BY <1>6 DEF CheckForLoss, ReinstateLink, LinkReinstated, ReinstateFails, EndAttempt, Waiting,
         SendInv, Attempt
    <2> QED
      BY <1>2, <2>1, <2>2, <2>3
  <1>7. CASE Transmit \/ Respond \/ Abort
    <2>1. UNCHANGED <<gen, promise, sends, request, user, pc, status, state, reinstating, replies>>
      BY <1>7 DEF Transmit, Respond, Abort
    <2>2. Books'
      BY <1>7, BooksTransmit, BooksAnswer DEF SendInv
    <2>3. /\ DOMAIN outgoing' = DOMAIN outgoing
          /\ \A i \in DOMAIN outgoing :
               /\ outgoing'[i].call = outgoing[i].call /\ outgoing'[i].tracked = outgoing[i].tracked
               /\ outgoing[i].place = "arrived" => outgoing'[i].place = "arrived"
      <3>1. CASE Transmit
        <4>1. /\ First("buffered") \in DOMAIN outgoing /\ outgoing[First("buffered")].place = "buffered"
              /\ outgoing' = [outgoing EXCEPT ![First("buffered")].place = "sent"]
          BY <3>1, TypedIs, FirstEntry DEF Transmit
        <4> QED
          BY <4>1, SetPlace
      <3>2. CASE Respond
        <4>1. PICK n \in DOMAIN outgoing, answer \in {"accepted", "rejected"} :
                outgoing' = [outgoing EXCEPT ![n].status = answer]
          BY <3>2 DEF Respond
        <4> QED
          BY <4>1, SetStatus
      <3>3. CASE Abort
        <4>1. outgoing' = [i \in DOMAIN outgoing |->
                    [outgoing[i] EXCEPT !.status = IF @ = "pending" THEN "aborted" ELSE @]]
          BY <3>3 DEF Abort
        <4> QED
          BY <4>1, SetAborted
      <3> QED
        BY <1>7, <3>1, <3>2, <3>3
    <2>4. Sending'
      BY <2>1, <2>3, SendingMoves, Entries DEF SendInv, Typed, TransportTypes
    <2>5. Replied'
      BY <2>1, RepliedStays DEF SendInv
    <2>6. Attempt'
      BY <2>1 DEF SendInv, Attempt
    <2> QED
      BY <1>1, <2>1, <2>2, <2>4, <2>5, <2>6 DEF SendInv
  <1>8. CASE Arrive
    <2>1. /\ UNCHANGED <<gen, sends, request, user, pc, status, state, reinstating, replies>>
          /\ promise' = [promise EXCEPT !.log = Append(@, <<outgoing[First("sent")].call, gen>>)]
          /\ First("sent") # 0 /\ outgoing' = [outgoing EXCEPT ![First("sent")].place = "arrived"]
      BY <1>8 DEF Arrive
    <2>2. Books' /\ Promise!Next
      BY <1>8, BooksArrive DEF SendInv, Promise!Next, Promise!Calls
    <2>3. /\ promise'.began = promise.began
          /\ promise'.log = Append(promise.log, <<outgoing[First("sent")].call, gen>>)
      <3>1. promise \in Records
        BY DEF Typed, HistoryTypes
      <3> QED
        BY <2>1, <3>1 DEF Records
    <2>4. \A k \in DOMAIN promise.log : k \in DOMAIN promise'.log /\ promise'.log[k] = promise.log[k]
      <3> DEFINE S == (1 .. MaxCalls) \X Nat
                 e == <<outgoing[First("sent")].call, gen>>
      <3>1. e \in S /\ promise.log \in Seq(S)
        BY <2>1, TypedIs, FirstEntry, Entries, Recording
      <3> HIDE DEF e, S
      <3>2. promise'.log = Append(promise.log, e)
        BY <2>3 DEF e
      <3> QED
        BY <3>1, <3>2
    <2>5. /\ DOMAIN outgoing' = DOMAIN outgoing
          /\ \A i \in DOMAIN outgoing :
               /\ outgoing'[i].call = outgoing[i].call /\ outgoing'[i].tracked = outgoing[i].tracked
               /\ outgoing[i].place = "arrived" => outgoing'[i].place = "arrived"
      <3>1. First("sent") \in DOMAIN outgoing
        BY <2>1, TypedIs, FirstEntry
      <3> QED
        BY <2>1, <3>1, SetPlace
    <2>6. Sending'
      BY <2>1, <2>3, <2>5, SendingMoves DEF SendInv, Typed, TransportTypes
    <2>7. Replied'
      BY <2>1, <2>3, <2>4, RepliedStays DEF SendInv
    <2>8. Attempt'
      BY <2>1 DEF SendInv, Attempt
    <2> QED
      BY <2>2, <2>6, <2>7, <2>8 DEF SendInv
  <1>9. ASSUME NEW d \in Destinations,
               OpenLink(d) \/ RefuseLink(d) \/ AnswerClose(d) \/ Deliver(d) \/ Drain(d) \/ Publish(d)
        PROVE  SendInv' /\ [Promise!Next]_(Promise!vars)
    BY <1>2, <1>9 DEF OpenLink, RefuseLink, AnswerClose, Deliver, Drain, Publish
  <1>10. CASE LoseConnection
    BY <1>2, <1>10 DEF LoseConnection
  <1>11. CASE \E m \in held : Confirm(m)
    BY <1>2, <1>11 DEF Confirm, Interpret
  <1>12. CASE UNCHANGED vars
    BY <1>2, <1>12 DEF vars
  <1>13. CASE Push
    <2>1. /\ UNCHANGED <<gen, promise, sends, outgoing, request, status, state, reinstating>>
          /\ user = "called" /\ user' = "wait" /\ pc = "idle" /\ pc' = "ready"
          /\ request.op = "send" => replies' = <<>>
      BY <1>13 DEF Push, Control
    <2>2. Books' /\ Attempt'
      BY <2>1, BooksStay DEF SendInv, Attempt
    <2>3. CASE request.op # "send"
      BY <1>1, <2>1, <2>2, <2>3, NotSending DEF SendInv
    <2>4. CASE request.op = "send"
      <3>1. Puts(sends)' = {} /\ Cardinality({}) = 0
        BY <2>1, <2>4, FS_EmptySet DEF SendInv, Sending, Puts
      <3>2. 0 < Bound(sends)'
        BY DEF Bound
      <3>3. Sending'
        BY <2>1, <3>1, <3>2 DEF Sending, Polling
      <3>4. Replied'
        BY <2>1, <2>4 DEF Replied, ToSet
      <3> QED
        BY <1>1, <2>1, <2>2, <3>3, <3>4 DEF SendInv
    <2> QED
      BY <2>3, <2>4
  <1>14. CASE Return
    <2>1. request' = NoRequest /\ UNCHANGED <<gen, state, reinstating>>
      BY <1>14 DEF Return
    <2>2. request'.op # "send"
      BY <2>1 DEF NoRequest
    <2>3. Books' /\ Attempt' /\ Sending' /\ Replied'
      BY <1>14, <2>1, <2>2, BooksReturn, NotSending DEF SendInv, Attempt
    <2>4. CASE UNCHANGED promise
      BY <1>1, <2>1, <2>3, <2>4 DEF SendInv
    <2>5. CASE \E c \in 1 .. MaxCalls, r \in {"ok", "error", "timeout"} : Promise!End(c, r)
      BY <2>3, <2>5 DEF SendInv, Promise!Next, Promise!Calls
    <2> QED
      BY <1>14, <2>4, <2>5, BooksReturn DEF SendInv
  <1>15. ASSUME NEW q \in SendQoS, NEW timed \in BOOLEAN, CallSend(q, timed)
         PROVE  SendInv' /\ [Promise!Next]_(Promise!vars)
    <2>1. /\ user' = "called" /\ pc' = pc /\ pc = "idle" /\ UNCHANGED <<state, reinstating, gen>>
          /\ request' = [op |-> "send", qos |-> q, dest |-> None, timed |-> timed]
      BY <1>15 DEF CallSend, Call, Control
    <2>2. /\ Books' /\ Puts(sends)' = {}
          /\ \E c \in 1 .. MaxCalls, p \in {0, 1} : Promise!Begin(c, p)
      BY <1>15, BooksCallSend DEF SendInv
    <2>3. Sending'
      BY <2>1, <2>2, FS_EmptySet DEF Sending, Polling
    <2>4. Replied' /\ Attempt'
      BY <2>1 DEF SendInv, Replied, Attempt
    <2> QED
      BY <2>2, <2>3, <2>4 DEF SendInv, Promise!Next, Promise!Calls
  <1>16. ASSUME NEW d, NEW timed, CallSubscribe(d, timed) \/ CallReceive(d, timed) \/ CallUnsubscribe(d)
         PROVE  SendInv' /\ [Promise!Next]_(Promise!vars)
    <2>0. PICK op \in {"subscribe", "receive", "unsubscribe"} : \E t : Call(op, QoS(d), d, t)
      BY <1>16 DEF CallSubscribe, CallReceive, CallUnsubscribe
    <2>1. PICK t : Call(op, QoS(d), d, t)
      BY <2>0
    <2>2. /\ request' = [op |-> op, qos |-> QoS(d), dest |-> d, timed |-> t] /\ user = "idle"
          /\ UNCHANGED <<state, reinstating, gen, outgoing>>
      BY <2>1 DEF Call
    <2>3. UNCHANGED <<promise, sends>>
      BY <1>16 DEF CallSubscribe, CallReceive, CallUnsubscribe
    <2>4. request.op # "send" /\ request'.op # "send"
      BY <2>2 DEF Control, NoRequest
    <2>5. Books' /\ Attempt' /\ Sending' /\ Replied'
      BY <2>2, <2>3, <2>4, BooksStay, NotSending DEF SendInv, Attempt
    <2> QED
      BY <1>1, <2>2, <2>3, <2>5 DEF SendInv
  <1> QED
    BY <1>3, <1>4, <1>5, <1>6, <1>7, <1>8, <1>9, <1>10, <1>11, <1>12, <1>13, <1>14, <1>15, <1>16
    DEF Next, User, Proton, Network

LEMMA SendInit == Init => SendInv /\ Promise!Init
  <1> SUFFICES ASSUME Init PROVE SendInv /\ Promise!Init
    OBVIOUS
  <1>1. /\ request.op = "none" /\ state = "started" /\ reinstating = None /\ gen = 1 /\ outgoing = <<>>
        /\ sends = 0 /\ replies = <<>>
    BY DEF Init, NoRequest
  <1>2. /\ promise.result = [c \in 1 .. MaxCalls |-> "none"] /\ promise.quality = [c \in 1 .. MaxCalls |-> 0]
        /\ promise.began = [c \in 1 .. MaxCalls |-> 0] /\ promise.ended = [c \in 1 .. MaxCalls |-> 0]
        /\ promise.log = <<>>
    BY DEF Init
  <1>3. DOMAIN outgoing = {} /\ DOMAIN promise.log = {}
    BY <1>1, <1>2
  <1>4. \A c : Puts(c) = {} /\ Arrived(c) = {} /\ Promise!Copies(c) = {}
    BY <1>3 DEF Puts, Arrived, Promise!Copies
  <1>5. Cardinality({}) = 0 /\ MaxCalls \in Nat
    BY FS_EmptySet, MessagingBounds
  <1>6. Ledger
    BY <1>1, <1>2, <1>5 DEF Ledger
  <1>7. Store
    BY <1>3 DEF Store
  <1>8. Logged
    BY <1>3, <1>4, <1>5 DEF Logged
  <1>9. Bounded
    BY <1>4, <1>5 DEF Bounded, Bound
  <1>10. Attempt /\ Sending /\ Replied
    BY <1>1 DEF Attempt, Sending, Replied
  <1>11. Promise!Init
    BY <1>1, <1>2 DEF Promise!Init, Promise!Calls
  <1> QED
    BY <1>6, <1>7, <1>8, <1>9, <1>10, <1>11 DEF SendInv, Books

\* Whatever is repeated, lost or timed out, what reaches the server is what SendPromise
\* allows: process_queued_send and its retries (command.rb:64-127) implement it.
THEOREM SendsArePromised == Spec => KeepsSendPromise
  <1>1. Init => SendInv /\ Promise!Init
    BY SendInit
  <1>2. Typed /\ Control /\ Typed' /\ SendInv /\ [Next]_vars => SendInv' /\ [Promise!Next]_(Promise!vars)
    BY SendNext
  <1> QED
    BY <1>1, <1>2, AlwaysTyped, PTL DEF Spec, KeepsSendPromise, Promise!Spec
=============================================================================
