------------------------- MODULE Connection_proofs -------------------------
(***************************************************************************)
(* Theorems about Connection, for any number of application threads, of    *)
(* proton threads and of end points, for every value of the bounds and any *)
(* order of the calls: the types, that an I/O thread is never left behind  *)
(* and that a started client is served.  None has a hypothesis.  The last  *)
(* two end where a session begins before the one before it has ended, which *)
(* nothing in start prevents: overlap says that it has happened, and what  *)
(* is proved by induction is what holds until then.                        *)
(***************************************************************************)
EXTENDS Connection, TLAPS

(* The steps of a proton thread and of an application thread, those that    *)
(* wait for the server included, and all others.                            *)
ProtonStep(p) == Proton(p) \/ Open(p) \/ OpenFails(p) \/ Reinstate(p)
UserStep(u)   == NewCall(u) \/ User(u) \/ FreeMessenger(u)
Elsewhere ==
  \/ \E e \in EndPoints, side \in Sides : IOThread(e, side)
  \/ Network
  \/ IdleTimeout
  \/ Command

LEMMA Steps ==
  Next => (\E p \in Protons : ProtonStep(p)) \/ (\E u \in Users : UserStep(u)) \/ Elsewhere
  BY DEF Next, Server, ProtonStep, UserStep, Elsewhere

-----------------------------------------------------------------------------
(* Types.  A service is dialled only while the list has one left.           *)

DialHasService == \A p \in Protons : pc[p] = "dial" => left[p] > 0

Typed == TypeOK /\ DialHasService

(* The part of it that says where the threads are, and the rest.            *)
Positions ==
  /\ pc \in [Users \cup Protons -> UserPCs \cup ProtonPCs]
  /\ \A u \in Users : pc[u] \in UserPCs
  /\ \A p \in Protons : pc[p] \in ProtonPCs

Data ==
  /\ state \in States
  /\ lastError \in Errors
  /\ command \in {"idle", "waiting", "executing"}
  /\ subscribed \in BOOLEAN
  /\ messenger \in BOOLEAN
  /\ errno \in {"none", "takeover", "lost"}
  /\ socketsOpen \in BOOLEAN
  /\ endPoint \in EndPoints \cup {None}
  /\ io \in [EndPoints -> [Sides -> IOStates]]
  /\ protonThread \in Protons \cup {None}
  /\ left \in [Protons -> Nat]
  /\ calls \in [Users -> Nat]
  /\ outcome \in [Users -> {"none", "returned", "raised", "TypeError"}]
  /\ joining \in [Users -> Protons \cup {None}]
  /\ faults \in Nat
  /\ overlap \in BOOLEAN

LEMMA Parts == Typed <=> Data /\ Positions /\ DialHasService
  BY DEF Typed, TypeOK, Data, Positions

(* A step that moves one proton thread only, or one application thread only. *)
LEMMA MoveProton ==
  ASSUME Positions, NEW p \in Protons, NEW label \in ProtonPCs, Goto(p, label)
  PROVE  /\ Positions'
         /\ \A u \in Users : pc'[u] = pc[u]
         /\ \A q \in Protons : pc'[q] = IF q = p THEN label ELSE pc[q]
  BY SetsAssumption DEF Positions, Goto

LEMMA MoveUser ==
  ASSUME Positions, NEW u \in Users, NEW label \in UserPCs, Goto(u, label)
  PROVE  /\ Positions'
         /\ \A v \in Users : pc'[v] = IF v = u THEN label ELSE pc[v]
         /\ \A p \in Protons : pc'[p] = pc[p]
  BY SetsAssumption DEF Positions, Goto

LEMMA CloseTyped ==
  ASSUME Data, CloseEndPoint
  PROVE  /\ endPoint' \in EndPoints \cup {None}
         /\ io' \in [EndPoints -> [Sides -> IOStates]]
  BY DEF Data, CloseEndPoint, Threads, IOStates

LEMMA DiesTyped ==
  ASSUME Data, NEW p, Dies(p)
  PROVE  /\ endPoint' \in EndPoints \cup {None}
         /\ io' \in [EndPoints -> [Sides -> IOStates]]
  BY CloseTyped DEF Data, Dies

LEMMA TypedInit == Init => Typed
  <1> SUFFICES ASSUME Init PROVE Typed
    OBVIOUS
  <1>1. io \in [EndPoints -> [Sides -> IOStates]]
    BY DEF Init, Threads, IOStates
  <1>2. Positions /\ DialHasService
    BY SetsAssumption DEF Init, Positions, DialHasService, UserPCs, ProtonPCs
  <1>3. Data
    BY <1>1 DEF Init, Data, States, Errors
  <1> QED
    BY <1>2, <1>3, Parts

(* The steps of a proton thread: where it goes...                           *)
LEMMA GoesProton ==
  ASSUME NEW p \in Protons, ProtonStep(p)
  PROVE  \E label \in ProtonPCs : Goto(p, label)
  <1>1. CASE ProtonLoop(p) BY <1>1 DEF ProtonLoop, ProtonPCs
  <1>2. CASE GetServices(p) BY <1>2 DEF GetServices, ProtonPCs
  <1>3. CASE Dial(p) BY <1>3 DEF Dial, Dies, ProtonPCs
  <1>4. CASE Open(p) BY <1>4 DEF Open, ProtonPCs
  <1>5. CASE OpenFails(p) BY <1>5 DEF OpenFails, Dies, ProtonPCs
  <1>6. CASE Connect(p) BY <1>6 DEF Connect, ProtonPCs
  <1>7. CASE StartIO(p) BY <1>7 DEF StartIO, Dies, ProtonPCs
  <1>8. CASE Accepted(p) BY <1>8 DEF Accepted, ProtonPCs
  <1>9. CASE HandshakeFails(p) BY <1>9 DEF HandshakeFails, ProtonPCs
  <1>10. CASE Reinstate(p) BY <1>10 DEF Reinstate, ProtonPCs
  <1>11. CASE Outcome(p) BY <1>11 DEF Outcome, ProtonPCs
  <1>12. CASE EndAttempt(p) BY <1>12 DEF EndAttempt, ProtonPCs
  <1>13. CASE CheckMessenger(p) BY <1>13 DEF CheckMessenger, ProtonPCs
  <1>14. CASE InterpretMessage(p) BY <1>14 DEF InterpretMessage, ProtonPCs
  <1>15. CASE CheckSockets(p) BY <1>15 DEF CheckSockets, ProtonPCs
  <1>16. CASE ReportClosed(p) BY <1>16 DEF ReportClosed, ProtonPCs
  <1>17. CASE ConnectFails(p) BY <1>17 DEF ConnectFails, Dies, ProtonPCs
  <1>18. CASE ReinstateFails(p) BY <1>18 DEF ReinstateFails, ProtonPCs
  <1>19. CASE MessengerGone(p) BY <1>19 DEF MessengerGone, Dies, ProtonPCs
  <1> QED
    BY <1>1, <1>2, <1>3, <1>4, <1>5, <1>6, <1>7, <1>8, <1>9, <1>10, <1>11, <1>12, <1>13,
       <1>14, <1>15, <1>16, <1>17, <1>18, <1>19 DEF ProtonStep, Proton

(* ...and what it changes.                                                  *)
LEMMA DataProton ==
  ASSUME Typed, NEW p \in Protons, ProtonStep(p)
  PROVE  Data'
  <1> Data /\ DialHasService
    BY Parts
  <1> USE DEF Data, States, Errors, threadVars, container, connection, callers, ChangeState, Fault
  <1>1. CASE ProtonLoop(p) BY <1>1 DEF ProtonLoop
  <1>2. CASE GetServices(p)
    <2>1. left' \in [Protons -> Nat] BY <1>2, BoundsAssumption DEF GetServices
    <2> QED BY <1>2, <2>1 DEF GetServices
  <1>3. CASE Dial(p)
    <2>1. left' \in [Protons -> Nat] BY <1>3 DEF Dial, DialHasService
    <2>2. endPoint' \in EndPoints \cup {None} /\ io' \in [EndPoints -> [Sides -> IOStates]]
      BY <1>3, CloseTyped, DiesTyped DEF Dial
    <2> QED BY <1>3, <2>1, <2>2 DEF Dial
  <1>4. CASE Open(p)
    <2>1. io' \in [EndPoints -> [Sides -> IOStates]] BY <1>4 DEF Open, Threads, IOStates
    <2> QED BY <1>4, <2>1 DEF Open
  <1>5. CASE OpenFails(p)
    <2>1. faults' \in Nat BY <1>5 DEF OpenFails
    <2>2. socketsOpen' \in BOOLEAN BY <1>5 DEF OpenFails
    <2>3. endPoint' \in EndPoints \cup {None} /\ io' \in [EndPoints -> [Sides -> IOStates]]
      BY <1>5, DiesTyped DEF OpenFails
    <2> QED BY <1>5, <2>1, <2>2, <2>3 DEF OpenFails
  <1>6. CASE Connect(p) BY <1>6 DEF Connect
  <1>7. CASE StartIO(p)
    <2>1. endPoint' \in EndPoints \cup {None} /\ io' \in [EndPoints -> [Sides -> IOStates]]
      BY <1>7, DiesTyped DEF StartIO, Sides, IOStates
    <2> QED BY <1>7, <2>1 DEF StartIO
  <1>8. CASE Accepted(p) BY <1>8 DEF Accepted
  <1>9. CASE HandshakeFails(p)
    <2>1. faults' \in Nat
      <3>1. faults' = faults \/ faults' = faults + 1 BY <1>9 DEF HandshakeFails
      <3> QED BY <3>1
    <2>2. messenger' \in BOOLEAN /\ errno' \in {"none", "takeover", "lost"}
      BY <1>9 DEF HandshakeFails, DropMessenger
    <2> QED BY <1>9, <2>1, <2>2 DEF HandshakeFails
  <1>10. CASE Reinstate(p) BY <1>10 DEF Reinstate
  <1>11. CASE Outcome(p) BY <1>11 DEF Outcome
  <1>12. CASE EndAttempt(p)
    <2>1. endPoint' \in EndPoints \cup {None} /\ io' \in [EndPoints -> [Sides -> IOStates]]
      BY <1>12, CloseTyped DEF EndAttempt
    <2> QED BY <1>12, <2>1 DEF EndAttempt
  <1>13. CASE CheckMessenger(p) BY <1>13 DEF CheckMessenger
  <1>14. CASE InterpretMessage(p) BY <1>14 DEF InterpretMessage, Interpret
  <1>15. CASE CheckSockets(p) BY <1>15 DEF CheckSockets
  <1>16. CASE ReportClosed(p) BY <1>16 DEF ReportClosed
  <1>17. CASE ConnectFails(p)
    <2>1. faults' \in Nat BY <1>17 DEF ConnectFails
    <2>2. messenger' \in BOOLEAN /\ errno' \in {"none", "takeover", "lost"}
      BY <1>17 DEF ConnectFails
    <2>3. endPoint' \in EndPoints \cup {None} /\ io' \in [EndPoints -> [Sides -> IOStates]]
      BY <1>17, DiesTyped DEF ConnectFails
    <2> QED BY <1>17, <2>1, <2>2, <2>3 DEF ConnectFails
  <1>18. CASE ReinstateFails(p) BY <1>18 DEF ReinstateFails
  <1>19. CASE MessengerGone(p)
    <2>1. endPoint' \in EndPoints \cup {None} /\ io' \in [EndPoints -> [Sides -> IOStates]]
      BY <1>19, DiesTyped DEF MessengerGone
    <2> QED BY <1>19, <2>1 DEF MessengerGone
  <1> QED
    BY <1>1, <1>2, <1>3, <1>4, <1>5, <1>6, <1>7, <1>8, <1>9, <1>10, <1>11, <1>12, <1>13,
       <1>14, <1>15, <1>16, <1>17, <1>18, <1>19 DEF ProtonStep, Proton

(* The service list of a proton thread that dials is not empty.             *)
LEMMA DialProton ==
  ASSUME Typed, NEW p \in Protons, ProtonStep(p)
  PROVE  DialHasService'
  <1>1. Data /\ Positions /\ DialHasService
    BY Parts
  <1>2. PICK label \in ProtonPCs : Goto(p, label)
    BY GoesProton
  <1>3. \A q \in Protons : pc'[q] = IF q = p THEN label ELSE pc[q]
    BY <1>1, <1>2, MoveProton
  <1>4. \A q \in Protons \ {p} : left'[q] = left[q]
    BY <1>1
    DEF Data, ProtonStep, Proton, ProtonLoop, GetServices, Dial, Open, OpenFails, Connect,
        ConnectFails, StartIO, Accepted, HandshakeFails, Reinstate, ReinstateFails,
        MessengerGone, Outcome, EndAttempt, CheckMessenger, InterpretMessage, CheckSockets,
        ReportClosed, connection
  <1>5. label = "dial" => left'[p] > 0
    <2>1. CASE GetServices(p)
      BY <2>1, <1>1, <1>3, BoundsAssumption DEF GetServices, Data, Goto, Positions
    <2>2. CASE EndAttempt(p)
      BY <2>2, <1>1, <1>2 DEF EndAttempt, Goto, Positions
    <2>3. pc'[p] = label
      BY <1>3
    <2>4. CASE ~GetServices(p) /\ ~EndAttempt(p)
      BY <2>3, <2>4, <1>1
      DEF Goto, Dies, Positions, ProtonStep, Proton, ProtonLoop, Dial, Open, OpenFails, Connect,
          ConnectFails, StartIO, Accepted, HandshakeFails, Reinstate, ReinstateFails,
          MessengerGone, Outcome, CheckMessenger, InterpretMessage, CheckSockets, ReportClosed
    <2> QED
      BY <2>1, <2>2, <2>4
  <1> QED
    BY <1>1, <1>3, <1>4, <1>5 DEF DialHasService

LEMMA TypedProton ==
  ASSUME Typed, NEW p \in Protons, ProtonStep(p)
  PROVE  Typed'
  <1>1. PICK label \in ProtonPCs : Goto(p, label)
    BY GoesProton
  <1>2. Positions'
    BY <1>1, MoveProton, Parts
  <1> QED
    BY <1>2, DataProton, DialProton, PTL, Parts

(* The steps of an application thread.                                      *)
LEMMA TypedUser ==
  ASSUME Typed, NEW u \in Users, UserStep(u)
  PROVE  Typed'
  <1>1. Data /\ Positions /\ DialHasService
    BY Parts
  <1>2. CASE CreateThread(u)
    <2>1. PICK p \in Protons : /\ pc[p] = "new" /\ protonThread' = p
                               /\ pc' = [pc EXCEPT ![u] = "await", ![p] = "loop"]
      BY <1>2 DEF CreateThread
    <2>2. Positions' /\ DialHasService'
      BY <1>1, <1>2, <2>1, SetsAssumption
      DEF Positions, DialHasService, UserPCs, ProtonPCs, CreateThread
    <2>3. Data'
      BY <1>1, <1>2, <2>1 DEF Data, CreateThread, threadVars, container, callers
    <2> QED
      BY <2>2, <2>3 DEF Typed, TypeOK, Data, Positions
  <1>3. CASE ~CreateThread(u)
    <2>1. PICK label \in UserPCs : Goto(u, label)
      BY <1>3 DEF UserStep, NewCall, User, BeginStart, BeginStop, SetStarting, EndStart,
         IfStarted, SetStopping, CloseConnection, FreeMessenger, NothingToStop, SetStopped,
         ClearSubscriptions, JoinThread, ReleaseEndPoint, JoinCommand, Return, UserPCs
    <2>2. Positions' /\ \A p \in Protons : pc'[p] = pc[p]
      BY <1>1, <2>1, MoveUser
    <2>3. left' = left
      BY <1>3 DEF UserStep, NewCall, User, BeginStart, BeginStop, SetStarting, EndStart,
         IfStarted, SetStopping, CloseConnection, FreeMessenger, NothingToStop, SetStopped,
         ClearSubscriptions, JoinThread, ReleaseEndPoint, JoinCommand, connection
    <2>4. DialHasService'
      BY <1>1, <2>2, <2>3 DEF DialHasService
    <2>5. Data'
      <3> USE <1>1 DEF Data, States, Errors, threadVars, container, connection, callers,
              ChangeState, Return, MakeCall
      <3>1. CASE BeginStart(u) BY <3>1 DEF BeginStart
      <3>2. CASE SetStarting(u) BY <3>2 DEF SetStarting
      <3>3. CASE EndStart(u)
        <4>1. PICK how \in {"returned", "TypeError", "raised"} : outcome' = [outcome EXCEPT ![u] = how]
          BY <3>3 DEF EndStart
        <4> QED BY <3>3, <4>1 DEF EndStart
      <3>4. CASE BeginStop(u)
        <4>1. outcome' = [outcome EXCEPT ![u] = "returned"] \/ outcome' = outcome
          BY <3>4 DEF BeginStop
        <4>2. outcome' \in [Users -> {"none", "returned", "raised", "TypeError"}]
          BY <4>1
        <4>3. calls' \in [Users -> Nat]
          BY <3>4 DEF BeginStop
        <4>4. UNCHANGED <<state, lastError, command, subscribed, messenger, errno, socketsOpen,
                          endPoint, io, protonThread, left, joining, overlap, faults>>
          BY <3>4 DEF BeginStop
        <4> QED BY <4>2, <4>3, <4>4
      <3>5. CASE IfStarted(u) BY <3>5 DEF IfStarted
      <3>6. CASE SetStopping(u) BY <3>6 DEF SetStopping
      <3>7. CASE FreeMessenger(u) BY <3>7 DEF FreeMessenger, DropMessenger
      <3>8. CASE SetStopped(u) BY <3>8 DEF SetStopped
      <3>9. CASE ClearSubscriptions(u)
        <4>1. joining' \in [Users -> Protons \cup {None}]
          BY <3>9 DEF ClearSubscriptions
        <4>2. UNCHANGED <<state, lastError, command, messenger, errno, socketsOpen, endPoint, io,
                          protonThread, left, calls, outcome, overlap, faults>>
          BY <3>9 DEF ClearSubscriptions
        <4>3. subscribed' \in BOOLEAN
          BY <3>9 DEF ClearSubscriptions
        <4> QED BY <4>1, <4>2, <4>3
      <3>10. CASE JoinThread(u) BY <3>10 DEF JoinThread
      <3>11. CASE ReleaseEndPoint(u)
        <4>1. endPoint' \in EndPoints \cup {None} /\ io' \in [EndPoints -> [Sides -> IOStates]]
          BY <3>11, CloseTyped DEF ReleaseEndPoint
        <4> QED BY <3>11, <4>1 DEF ReleaseEndPoint
      <3>12. CASE CloseConnection(u) BY <3>12 DEF CloseConnection
      <3>13. CASE NothingToStop(u) BY <3>13 DEF NothingToStop
      <3>14. CASE JoinCommand(u) BY <3>14 DEF JoinCommand
      <3> QED
        BY <1>3, <3>1, <3>2, <3>3, <3>4, <3>5, <3>6, <3>7, <3>8, <3>9, <3>10, <3>11, <3>12,
           <3>13, <3>14 DEF UserStep, NewCall, User
    <2> QED
      BY <2>2, <2>4, <2>5 DEF Typed, TypeOK, Data, Positions
  <1> QED
    BY <1>2, <1>3

(* All other steps leave the threads of the client's and the application's  *)
(* calls where they are.                                                    *)
LEMMA ElsewhereStays ==
  ASSUME Elsewhere
  PROVE  UNCHANGED <<endPoint, protonThread, left, pc, callers>>
  BY DEF Elsewhere, IOThread, EndIO, ReportLoss, Network, EndOfStream, Reset, BrokenPipe,
     ServerCloses, IdleTimeout, Command, TakeRequest, Execute, EndRequest, Unsubscribe, Retry,
     CommandInterprets, KeepIO, KeepConnection, connection, callers

LEMMA TypedElsewhere ==
  ASSUME Typed,
         Elsewhere
  PROVE  Typed'
  <1>1. Data /\ Positions /\ DialHasService
    BY Parts
  <1>2. UNCHANGED <<endPoint, protonThread, left, pc, callers>>
    BY ElsewhereStays
  <1>3. Positions' /\ DialHasService'
    BY <1>1, <1>2 DEF Positions, DialHasService
  <1>4. Data'
    <2> USE <1>1, <1>2 DEF Data, States, Errors, threadVars, container, callers, ChangeState, Fault
    <2> DEFINE IOTyped == io' \in [EndPoints -> [Sides -> IOStates]]
    <2>1. ASSUME NEW e \in EndPoints, NEW side \in Sides, IOThread(e, side) PROVE Data'
      <3>1. IOTyped
        BY <2>1 DEF IOThread, EndIO, ReportLoss, IO, Sides, IOStates
      <3>2. socketsOpen' \in BOOLEAN
        BY <2>1 DEF IOThread, EndIO, ReportLoss
      <3> QED
        BY <2>1, <3>1, <3>2 DEF IOThread, EndIO, ReportLoss
    <2>2. ASSUME NEW e \in EndPoints, EndOfStream(e) \/ Reset(e) \/ BrokenPipe(e) PROVE Data'
      <3>1. IOTyped
        BY <2>2 DEF EndOfStream, Reset, BrokenPipe, IO, Sides, IOStates
      <3>2. faults' \in Nat
        BY <2>2 DEF EndOfStream, Reset, BrokenPipe
      <3>3. socketsOpen' \in BOOLEAN
        BY <2>2 DEF EndOfStream, Reset, BrokenPipe
      <3> QED
        BY <2>2, <3>1, <3>2, <3>3 DEF EndOfStream, Reset, BrokenPipe
    <2>3. CASE ServerCloses
      BY <2>3, BoundsAssumption DEF ServerCloses
    <2>4. CASE IdleTimeout
      BY <2>4 DEF IdleTimeout
    <2>5. CASE Command
      <3>1. UNCHANGED <<io, messenger, socketsOpen, endPoint, protonThread, left>>
        BY <2>5 DEF Command, TakeRequest, Execute, EndRequest, Unsubscribe, Retry,
           CommandInterprets, Interpret, KeepConnection, connection
      <3>2. faults' \in Nat
        BY <2>5 DEF Command, TakeRequest, Execute, EndRequest, Unsubscribe, Retry,
           CommandInterprets
      <3>3. subscribed' \in BOOLEAN /\ command' \in {"idle", "waiting", "executing"}
        BY <2>5 DEF Command, TakeRequest, Execute, EndRequest, Unsubscribe, Retry,
           CommandInterprets, Interpret
      <3>4. state' \in States /\ lastError' \in Errors /\ errno' \in {"none", "takeover", "lost"}
        BY <2>5 DEF Command, TakeRequest, Execute, EndRequest, Unsubscribe, Retry,
           CommandInterprets, Interpret
      <3> QED
        BY <3>1, <3>2, <3>3, <3>4
    <2> QED
      BY <2>1, <2>2, <2>3, <2>4, <2>5 DEF Elsewhere, Network
  <1> QED
    BY <1>3, <1>4 DEF Typed, TypeOK, Data, Positions

LEMMA TypedStep == Typed /\ [Next]_vars => Typed'
  <1> SUFFICES ASSUME Typed, [Next]_vars PROVE Typed'
    OBVIOUS
  <1>1. CASE UNCHANGED vars
    BY <1>1 DEF vars, threadVars, container, connection, callers, Typed, TypeOK, DialHasService
  <1> QED
    BY <1>1, Steps, TypedProton, TypedUser, TypedElsewhere

(* Every variable keeps its type, and the service that is dialled is one of *)
(* the list: items_left_in_service_list does not go below zero              *)
(* (connection.rb, connect_to_a_server).                                    *)
THEOREM TypeCorrect == Spec => []TypeOK
  <1>1. Typed => TypeOK
    BY DEF Typed
  <1> QED
    BY <1>1, TypedInit, TypedStep, PTL DEF Spec

-----------------------------------------------------------------------------
(* Until two sessions overlap                                               *)

LEMMA OverlapStays == overlap /\ [Next]_vars => overlap'
  <1> SUFFICES ASSUME overlap, [Next]_vars PROVE overlap'
    OBVIOUS
  <1>1. CASE UNCHANGED vars
    BY <1>1 DEF vars, callers
  <1>2. ASSUME NEW p \in Protons, ProtonStep(p) PROVE overlap'
    BY <1>2
    DEF ProtonStep, Proton, ProtonLoop, GetServices, Dial, Open, OpenFails, Connect,
        ConnectFails, StartIO, Accepted, HandshakeFails, Reinstate, ReinstateFails,
        MessengerGone, Outcome, EndAttempt, CheckMessenger, InterpretMessage, CheckSockets,
        ReportClosed, callers
  <1>3. ASSUME NEW u \in Users, UserStep(u) PROVE overlap'
    BY <1>3
    DEF UserStep, NewCall, User, MakeCall, BeginStart, BeginStop, SetStarting, CreateThread,
        EndStart, IfStarted, SetStopping, CloseConnection, FreeMessenger, NothingToStop,
        SetStopped, ClearSubscriptions, JoinThread, ReleaseEndPoint, JoinCommand, callers
  <1>4. CASE Elsewhere
    BY <1>4, ElsewhereStays DEF callers
  <1> QED
    BY <1>1, <1>2, <1>3, <1>4, Steps

(* There is one proton thread at a time, the one created last...            *)
OneAlive == \A p \in Protons : Alive(p) => p = protonThread

(* ...and it is the one that stop joins; behind the join there is none.     *)
JoinsLast ==
  \A u \in Users :
    /\ pc[u] = "join" => joining[u] = protonThread
    /\ pc[u] \in {"release", "command"} => \A p \in Protons : ~Alive(p)

Alone == OneAlive /\ JoinsLast

LEMMA ProtonIsAlive ==
  ASSUME NEW p \in Protons, ProtonStep(p)
  PROVE  Alive(p) /\ UNCHANGED <<protonThread, callers>>
  BY DEF Alive, ProtonStep, Proton, ProtonLoop, GetServices, Dial, Open, OpenFails, Connect,
     ConnectFails, StartIO, Accepted, HandshakeFails, Reinstate, ReinstateFails, MessengerGone,
     Outcome, EndAttempt, CheckMessenger, InterpretMessage, CheckSockets, ReportClosed,
     connection

LEMMA OthersAreDead ==
  ASSUME Typed, OneAlive, NEW p \in Protons, ProtonStep(p)
  PROVE  /\ p = protonThread
         /\ \A q \in Protons \ {p} : ~Alive(q) /\ pc'[q] = pc[q]
         /\ \A u \in Users : pc'[u] = pc[u]
  BY ProtonIsAlive, GoesProton, MoveProton, Parts DEF OneAlive

LEMMA AloneInit == Init => Alone
  BY SetsAssumption DEF Init, Alone, OneAlive, JoinsLast, Alive

LEMMA AloneStep == Typed /\ Alone /\ ~overlap' /\ [Next]_vars => Alone'
  <1> SUFFICES ASSUME Typed, Alone, ~overlap', [Next]_vars PROVE Alone'
    OBVIOUS
  <1> Data /\ Positions
    BY Parts
  <1> USE DEF Alone, OneAlive, JoinsLast, Alive
  <1>1. CASE UNCHANGED <<pc, protonThread, joining>>
    BY <1>1
  <1>2. ASSUME NEW p \in Protons, ProtonStep(p) PROVE Alone'
    BY <1>2, OthersAreDead, ProtonIsAlive DEF callers
  <1>3. ASSUME NEW u \in Users, UserStep(u) PROVE Alone'
    <2>1. CASE CreateThread(u)
      <3>1. PICK p \in Protons : /\ pc[p] = "new" /\ protonThread' = p
                                 /\ pc' = [pc EXCEPT ![u] = "await", ![p] = "loop"]
        BY <2>1 DEF CreateThread
      <3>2. /\ \A q \in Protons : pc'[q] = IF q = p THEN "loop" ELSE pc[q]
            /\ \A v \in Users : pc'[v] = IF v = u THEN "await" ELSE pc[v]
        BY <3>1, SetsAssumption DEF Positions
      <3>3. (\A q \in Protons : ~Alive(q)) /\ ~Stopping
        BY <2>1 DEF CreateThread
      <3>4. \A v \in Users : pc'[v] \notin {"join", "release", "command"}
        BY <3>2, <3>3 DEF Stopping
      <3> QED
        BY <3>1, <3>2, <3>3, <3>4
    <2>2. CASE ClearSubscriptions(u)
      <3>1. /\ \A v \in Users : pc'[v] = IF v = u THEN "join" ELSE pc[v]
            /\ \A p \in Protons : pc'[p] = pc[p]
        BY <2>2, MoveUser DEF ClearSubscriptions, UserPCs
      <3>2. protonThread' = protonThread /\ joining' = [joining EXCEPT ![u] = protonThread]
        BY <2>2 DEF ClearSubscriptions, connection
      <3> QED
        BY <3>1, <3>2 DEF Data
    <2>3. CASE JoinThread(u)
      <3>1. \A p \in Protons : ~Alive(p)
        BY <2>3, SetsAssumption DEF JoinThread
      <3>2. \A p \in Protons : pc'[p] = pc[p]
        BY <2>3, MoveUser DEF JoinThread, UserPCs
      <3>3. /\ pc'[u] \in {"command", "release"}
            /\ \A v \in Users \ {u} : pc'[v] = pc[v]
            /\ UNCHANGED <<protonThread, joining>>
        BY <2>3 DEF JoinThread, Goto, Positions, connection, callers
      <3> QED
        BY <3>1, <3>2, <3>3
    <2>4. CASE ~CreateThread(u) /\ ~ClearSubscriptions(u) /\ ~JoinThread(u)
      <3>1. PICK label \in UserPCs :
              /\ Goto(u, label)
              /\ label # "join"
              /\ label \in {"release", "command"} => pc[u] = "release"
        BY <1>3, <2>4
        DEF UserStep, NewCall, User, BeginStart, BeginStop, SetStarting, EndStart, IfStarted,
            SetStopping, CloseConnection, FreeMessenger, NothingToStop, SetStopped,
            ReleaseEndPoint, JoinCommand, Return, UserPCs
      <3>2. UNCHANGED <<protonThread, joining>>
        BY <1>3, <2>4
        DEF UserStep, NewCall, User, MakeCall, BeginStart, BeginStop, SetStarting, EndStart,
            IfStarted, SetStopping, CloseConnection, FreeMessenger, NothingToStop, SetStopped,
            ReleaseEndPoint, JoinCommand, connection, callers
      <3> QED
        BY <3>1, <3>2, MoveUser
    <2> QED
      BY <2>1, <2>2, <2>3, <2>4
  <1>4. CASE Elsewhere
    BY <1>1, <1>4, ElsewhereStays DEF callers
  <1>5. CASE UNCHANGED vars
    BY <1>1, <1>5 DEF vars, connection, callers
  <1> QED
    BY <1>2, <1>3, <1>4, <1>5, Steps

-----------------------------------------------------------------------------
(* No I/O thread is left behind                                             *)

LivesAtEndPoint == \A e \in EndPoints : Live(e) => e = endPoint

(* What makes it inductive: when a new end point is about to be opened the  *)
(* last one has been closed.                                                *)
OpensAfterClose == \A p \in Protons : pc[p] = "open" => endPoint = None

NoneLeft == OpensAfterClose /\ LivesAtEndPoint

LEMMA CloseKillsAll ==
  ASSUME Data, LivesAtEndPoint, CloseEndPoint
  PROVE  endPoint' = None /\ \A e \in EndPoints : ~Live(e)'
  BY SetsAssumption DEF Data, LivesAtEndPoint, CloseEndPoint, Live, Threads, Sides

LEMMA NoneLeftInit == Init => NoneLeft
  BY SetsAssumption
  DEF Init, NoneLeft, OpensAfterClose, LivesAtEndPoint, Live, Threads, Sides

(* No step but those of the proton thread gives a thread of an end point    *)
(* life.                                                                    *)
LEMMA NoneLeftProton ==
  ASSUME Typed, OneAlive, NoneLeft, NEW p \in Protons, ProtonStep(p)
  PROVE  NoneLeft'
  <1> Data /\ Positions
    BY Parts
  <1> USE DEF NoneLeft, OpensAfterClose, LivesAtEndPoint
  <1>1. \A q \in Protons \ {p} : pc'[q] # "open"
    BY OthersAreDead DEF Alive
  <1>2. ASSUME CloseEndPoint PROVE NoneLeft'
    BY <1>2, CloseKillsAll
  <1>3. CASE UNCHANGED <<endPoint, io>> /\ pc'[p] # "open"
    BY <1>1, <1>3 DEF Live
  <1>4. ASSUME Dies(p) PROVE NoneLeft'
    <2>1. pc'[p] # "open"
      BY <1>4 DEF Dies, Goto, Positions
    <2> QED
      BY <1>2, <1>3, <1>4, <2>1 DEF Dies
  <1>5. CASE Dial(p)
    BY <1>2, <1>4, <1>5 DEF Dial
  <1>6. CASE Open(p)
    <2>1. \A e \in EndPoints : ~Live(e)
      BY <1>6, SetsAssumption DEF Open
    <2>2. PICK e \in EndPoints : endPoint' = e /\ io' = [io EXCEPT ![e] = Threads("none")]
      BY <1>6 DEF Open
    <2>3. \A f \in EndPoints : ~Live(f)'
      BY <2>1, <2>2 DEF Data, Live, Threads, Sides
    <2>4. pc'[p] # "open"
      BY <1>6 DEF Open, Goto, Positions
    <2> QED
      BY <1>1, <2>3, <2>4
  <1>7. CASE StartIO(p)
    <2>1. CASE Dies(p)
      BY <1>4, <2>1
    <2>2. CASE ~Dies(p)
      <3>1. endPoint' = endPoint /\ \A e \in EndPoints : e # endPoint => io'[e] = io[e]
        BY <1>7, <2>2 DEF StartIO, Data
      <3>2. pc'[p] # "open"
        BY <1>7, <2>2 DEF StartIO, Goto, Positions
      <3> QED
        BY <1>1, <3>1, <3>2 DEF Live
    <2> QED
      BY <2>1, <2>2
  <1>8. CASE EndAttempt(p)
    <2>1. pc'[p] # "open"
      BY <1>8 DEF EndAttempt, Goto, Positions
    <2> QED
      BY <1>2, <1>3, <1>8, <2>1 DEF EndAttempt
  <1>9. CASE OpenFails(p) \/ ConnectFails(p) \/ MessengerGone(p)
    <2>1. Dies(p) \/ (UNCHANGED <<endPoint, io>> /\ pc'[p] # "open")
      BY <1>9 DEF OpenFails, ConnectFails, MessengerGone, Goto, Positions
    <2> QED
      BY <1>3, <1>4, <2>1
  <1>10. CASE ~(Dial(p) \/ Open(p) \/ StartIO(p) \/ EndAttempt(p) \/ OpenFails(p)
                \/ ConnectFails(p) \/ MessengerGone(p))
    <2>1. UNCHANGED <<endPoint, io>> /\ pc'[p] # "open"
      BY <1>10
      DEF ProtonStep, Proton, ProtonLoop, GetServices, Connect, Accepted, HandshakeFails,
          Reinstate, ReinstateFails, Outcome, CheckMessenger, InterpretMessage, CheckSockets,
          ReportClosed, connection, Goto, Positions
    <2> QED
      BY <1>3, <2>1
  <1> QED
    BY <1>5, <1>6, <1>7, <1>8, <1>9, <1>10

LEMMA NoneLeftUser ==
  ASSUME Typed, NoneLeft, NEW u \in Users, UserStep(u)
  PROVE  NoneLeft'
  <1> Data /\ Positions
    BY Parts
  <1>1. \A p \in Protons : pc'[p] = "open" => pc[p] = "open"
    BY SetsAssumption
    DEF UserStep, NewCall, User, BeginStart, BeginStop, SetStarting, CreateThread, EndStart,
        IfStarted, SetStopping, CloseConnection, FreeMessenger, NothingToStop, SetStopped,
        ClearSubscriptions, JoinThread, ReleaseEndPoint, JoinCommand, Return, Goto, Positions
  <1>2. CASE UNCHANGED <<endPoint, io>>
    BY <1>1, <1>2 DEF NoneLeft, OpensAfterClose, LivesAtEndPoint, Live
  <1>3. CASE CloseEndPoint
    BY <1>3, CloseKillsAll DEF NoneLeft, OpensAfterClose, LivesAtEndPoint
  <1>4. UNCHANGED <<endPoint, io>> \/ CloseEndPoint
    BY DEF UserStep, NewCall, User, BeginStart, BeginStop, SetStarting, CreateThread, EndStart,
       IfStarted, SetStopping, CloseConnection, FreeMessenger, NothingToStop, SetStopped,
       ClearSubscriptions, JoinThread, ReleaseEndPoint, JoinCommand, connection
  <1> QED
    BY <1>2, <1>3, <1>4

LEMMA NoneLeftElsewhere ==
  ASSUME Typed, NoneLeft, Elsewhere
  PROVE  NoneLeft'
  <1> Data
    BY Parts
  <1>1. UNCHANGED <<endPoint, pc>>
    BY ElsewhereStays
  <1>2. \A e \in EndPoints : Live(e)' => Live(e)
    <2>1. CASE UNCHANGED io
      BY <2>1 DEF Live
    <2>2. ASSUME NEW f \in EndPoints, NEW side \in Sides, NEW status,
                 io[f][side] \in {"run", "lost"}, IO(f, side, status)
          PROVE  \A e \in EndPoints : Live(e)' => Live(e)
      BY <2>2 DEF Live, IO, Data, Sides
    <2> QED
      BY <2>1, <2>2
      DEF Elsewhere, IOThread, EndIO, ReportLoss, Network, EndOfStream, Reset, BrokenPipe,
          ServerCloses, IdleTimeout, Command, TakeRequest, Execute, EndRequest, Unsubscribe,
          Retry, CommandInterprets, KeepConnection, connection, Sides
  <1> QED
    BY <1>1, <1>2 DEF NoneLeft, OpensAfterClose, LivesAtEndPoint

LEMMA NoneLeftStep == Typed /\ OneAlive /\ NoneLeft /\ [Next]_vars => NoneLeft'
  <1> SUFFICES ASSUME Typed, OneAlive, NoneLeft, [Next]_vars PROVE NoneLeft'
    OBVIOUS
  <1>1. CASE UNCHANGED vars
    BY <1>1 DEF vars, connection, NoneLeft, OpensAfterClose, LivesAtEndPoint, Live
  <1> QED
    BY <1>1, Steps, NoneLeftProton, NoneLeftUser, NoneLeftElsewhere

(* What an I/O thread left behind would show, in any execution that has not *)
(* seen two sessions overlap: however often the connection is lost, taken   *)
(* over, stopped and started again, the I/O threads that are alive are      *)
(* those of @end_point (connection.rb, connect_to_a_server,                 *)
(* close_end_point).                                                        *)
THEOREM NoThreadLeftBehind == Spec => []ThreadsOfEndPoint
  <1> DEFINE IInv == Typed /\ (overlap \/ (Alone /\ NoneLeft))
  <1>1. Init => IInv
    BY TypedInit, AloneInit, NoneLeftInit
  <1>2. IInv /\ [Next]_vars => IInv'
    BY TypedStep, OverlapStays, AloneStep, NoneLeftStep DEF Alone
  <1>3. IInv => ThreadsOfEndPoint
    BY DEF NoneLeft, LivesAtEndPoint, ThreadsOfEndPoint
  <1> QED
    BY <1>1, <1>2, <1>3, PTL DEF Spec

-----------------------------------------------------------------------------
(* A started client is served                                               *)

(* The attempt to connect, from its first step to its outcome.              *)
Attempting == {"services", "dial", "open", "connect", "threads", "handshake", "reinstate",
               "up", "unreachable", "refused", "rejected"}

AttemptIsNotStarted == \A p \in Protons : pc[p] \in Attempting => state # "started"

StartedIsAlive == state = "started" => protonThread \in Protons /\ Alive(protonThread)

(* From the creation of the I/O threads on, and as long as the client is    *)
(* started, there is a reader until the socket is known to be closed.       *)
Serving == state = "started" \/ \E p \in Protons : pc[p] \in {"handshake", "reinstate", "up"}
HasReader ==
  Serving => endPoint # None /\ (socketsOpen => io[endPoint]["incoming"] = "run")

(* The messenger is there, unless a thread in stop has freed it.            *)
Freed == \E u \in Users : pc[u] \in {"stop", "forget", "join", "release", "command"}
HasMessenger ==
  state = "started" \/ (\E p \in Protons : pc[p] = "up") => messenger \/ Freed

Served == AttemptIsNotStarted /\ StartedIsAlive /\ HasReader /\ HasMessenger

LEMMA ServedInit == Init => Served
  BY SetsAssumption
  DEF Init, Served, AttemptIsNotStarted, StartedIsAlive, Serving, HasReader, HasMessenger,
      Attempting

LEMMA ServedProton ==
  ASSUME Typed, OneAlive, Served, NEW p \in Protons, ProtonStep(p)
  PROVE  Served'
  <1> Data /\ Positions
    BY Parts
  <1>1. PICK label \in ProtonPCs : Goto(p, label)
    BY GoesProton
  <1>2. /\ \A q \in Protons : pc'[q] = IF q = p THEN label ELSE pc[q]
        /\ \A u \in Users : pc'[u] = pc[u]
        /\ \A q \in Protons \ {p} : pc[q] \in {"new", "dead"}
        /\ p = protonThread /\ protonThread' = protonThread
    BY <1>1, MoveProton, OthersAreDead, ProtonIsAlive DEF Alive
  <1>3. Freed' = Freed
    BY <1>2 DEF Freed
  <1> DEFINE Serves == label \in {"handshake", "reinstate", "up"}
             Read   == endPoint # None /\ (socketsOpen => io[endPoint]["incoming"] = "run")
  <1>4. SUFFICES /\ label \in Attempting => state' # "started"
                 /\ state' = "started" => label \notin {"new", "dead"}
                 /\ state' = "started" \/ Serves => Read'
                 /\ state' = "started" \/ label = "up" => messenger' \/ Freed
    BY <1>2, <1>3
    DEF Served, AttemptIsNotStarted, StartedIsAlive, Serving, HasReader, HasMessenger,
        Attempting, Alive
  <1>5. /\ pc[p] \in Attempting => state # "started"
        /\ state = "started" => Read
        /\ pc[p] \in {"handshake", "reinstate", "up"} => Read
        /\ state = "started" \/ pc[p] = "up" => messenger \/ Freed
    BY <1>2 DEF Served, AttemptIsNotStarted, Serving, HasReader, HasMessenger
  <1>6. pc'[p] = label
    BY <1>2
  <1> USE <1>5, <1>6 DEF Attempting, Goto, Positions, threadVars, container, connection, ChangeState
  <1>7. CASE ProtonLoop(p) BY <1>7 DEF ProtonLoop
  <1>8. CASE GetServices(p) BY <1>8 DEF GetServices
  <1>9. CASE Dial(p) BY <1>9 DEF Dial, Dies
  <1>10. CASE Open(p) BY <1>10 DEF Open
  <1>11. CASE OpenFails(p) BY <1>11 DEF OpenFails, Dies
  <1>12. CASE Connect(p) BY <1>12 DEF Connect
  <1>13. CASE StartIO(p) BY <1>13 DEF StartIO, Dies, Data
  <1>14. CASE Accepted(p) BY <1>14 DEF Accepted
  <1>15. CASE HandshakeFails(p) BY <1>15 DEF HandshakeFails
  <1>16. CASE Reinstate(p) BY <1>16 DEF Reinstate
  <1>17. CASE Outcome(p) BY <1>17 DEF Outcome
  <1>18. CASE EndAttempt(p) BY <1>18 DEF EndAttempt
  <1>19. CASE CheckMessenger(p) BY <1>19 DEF CheckMessenger
  <1>20. CASE InterpretMessage(p) BY <1>20 DEF InterpretMessage, Interpret
  <1>21. CASE CheckSockets(p) BY <1>21 DEF CheckSockets
  <1>22. CASE ReportClosed(p) BY <1>22 DEF ReportClosed
  <1>23. CASE ConnectFails(p) BY <1>23 DEF ConnectFails, Dies
  <1>24. CASE ReinstateFails(p) BY <1>24 DEF ReinstateFails
  <1>25. CASE MessengerGone(p) BY <1>25 DEF MessengerGone, Dies
  <1> QED
    BY <1>7, <1>8, <1>9, <1>10, <1>11, <1>12, <1>13, <1>14, <1>15, <1>16, <1>17, <1>18, <1>19,
       <1>20, <1>21, <1>22, <1>23, <1>24, <1>25 DEF ProtonStep, Proton

(* An application thread never makes the client started; the steps of stop  *)
(* that close the end point, and forget that the messenger was freed, come  *)
(* after the end of the proton thread.                                      *)
LEMMA ServedUser ==
  ASSUME Typed, Alone, Served, NEW u \in Users, UserStep(u)
  PROVE  Served'
  <1> Data /\ Positions
    BY Parts
  <1>1. \A p \in Protons : pc'[p] = pc[p] \/ (pc[p] = "new" /\ pc'[p] = "loop")
    BY SetsAssumption
    DEF UserStep, NewCall, User, BeginStart, BeginStop, SetStarting, CreateThread, EndStart,
        IfStarted, SetStopping, CloseConnection, FreeMessenger, NothingToStop, SetStopped,
        ClearSubscriptions, JoinThread, ReleaseEndPoint, JoinCommand, Return, Goto, Positions
  <1>2. state' = "started" => state = "started"
    BY DEF UserStep, NewCall, User, BeginStart, BeginStop, SetStarting, CreateThread, EndStart,
       IfStarted, SetStopping, CloseConnection, FreeMessenger, NothingToStop, SetStopped,
       ClearSubscriptions, JoinThread, ReleaseEndPoint, JoinCommand, threadVars, ChangeState
  <1>3. AttemptIsNotStarted'
    BY <1>1, <1>2 DEF Served, AttemptIsNotStarted, Attempting
  <1>4. CASE ReleaseEndPoint(u) \/ JoinCommand(u)
    <2>1. \A p \in Protons : pc[p] \in {"new", "dead"}
      BY <1>4 DEF Alone, JoinsLast, Alive, ReleaseEndPoint, JoinCommand
    <2>2. state # "started"
      BY <2>1 DEF Served, StartedIsAlive, Alive
    <2> QED
      BY <1>1, <1>2, <1>3, <2>1, <2>2
      DEF Served, StartedIsAlive, Serving, HasReader, HasMessenger
  <1>5. CASE ~ReleaseEndPoint(u) /\ ~JoinCommand(u)
    <2>1. UNCHANGED <<endPoint, io, socketsOpen>>
      BY <1>5
      DEF UserStep, NewCall, User, BeginStart, BeginStop, SetStarting, CreateThread, EndStart,
          IfStarted, SetStopping, CloseConnection, FreeMessenger, NothingToStop, SetStopped,
          ClearSubscriptions, JoinThread, container, connection
    <2>2. HasReader'
      BY <1>1, <1>2, <2>1 DEF Served, Serving, HasReader
    <2>3. StartedIsAlive'
      BY <1>1, <1>2, <1>5, SetsAssumption
      DEF UserStep, NewCall, User, BeginStart, BeginStop, SetStarting, CreateThread, EndStart,
          IfStarted, SetStopping, CloseConnection, FreeMessenger, NothingToStop, SetStopped,
          ClearSubscriptions, JoinThread, Served, StartedIsAlive, Alive, connection, Positions
    <2>4. Freed => Freed'
      BY <1>5, SetsAssumption
      DEF UserStep, NewCall, User, BeginStart, BeginStop, SetStarting, CreateThread, EndStart,
          IfStarted, SetStopping, CloseConnection, FreeMessenger, NothingToStop, SetStopped,
          ClearSubscriptions, JoinThread, MakeCall, Freed, Goto, Return, Positions
    <2>5. messenger' = messenger \/ Freed'
      BY <1>5, SetsAssumption
      DEF UserStep, NewCall, User, BeginStart, BeginStop, SetStarting, CreateThread, EndStart,
          IfStarted, SetStopping, CloseConnection, FreeMessenger, NothingToStop, SetStopped,
          ClearSubscriptions, JoinThread, Freed, Goto, Positions, container
    <2>6. HasMessenger'
      BY <1>1, <1>2, <2>4, <2>5 DEF Served, HasMessenger
    <2> QED
      BY <1>3, <2>2, <2>3, <2>6 DEF Served
  <1> QED
    BY <1>4, <1>5

(* The reader of the current end point ends only with the flag cleared.     *)
LEMMA ServedElsewhere ==
  ASSUME Typed, Served,
         Elsewhere
  PROVE  Served'
  <1> Data
    BY Parts
  <1>1. UNCHANGED <<endPoint, pc, protonThread>>
    BY ElsewhereStays
  <1>2. state' = "started" => state = "started"
    BY DEF Elsewhere, IOThread, EndIO, ReportLoss, Network, EndOfStream, Reset, BrokenPipe,
       ServerCloses, IdleTimeout, Command, TakeRequest, Execute, EndRequest, Unsubscribe, Retry,
       CommandInterprets, Interpret, ChangeState, threadVars
  <1>3. messenger' = messenger
    BY DEF Elsewhere, IOThread, EndIO, ReportLoss, Network, EndOfStream, Reset, BrokenPipe,
       ServerCloses, IdleTimeout, Command, TakeRequest, Execute, EndRequest, Unsubscribe, Retry,
       CommandInterprets, Interpret, container
  <1>4. socketsOpen' /\ endPoint # None /\ (socketsOpen => io[endPoint]["incoming"] = "run")
          => io'[endPoint]["incoming"] = "run"
    <2>1. CASE UNCHANGED <<io, socketsOpen>>
      BY <2>1
    <2>2. ASSUME NEW f \in EndPoints, NEW status, socketsOpen' = socketsOpen,
                 IO(f, "outgoing", status)
          PROVE  endPoint # None => io'[endPoint]["incoming"] = io[endPoint]["incoming"]
      BY <2>2 DEF IO, Data, Sides
    <2>3. ASSUME NEW e \in EndPoints, NEW side \in Sides, IOThread(e, side)
          PROVE  ~socketsOpen' \/ \E status : IO(e, "outgoing", status) /\ socketsOpen' = socketsOpen
      BY <2>3 DEF IOThread, EndIO, ReportLoss, Sides, Data
    <2>4. Network => ~socketsOpen' \/ UNCHANGED <<io, socketsOpen>>
      BY DEF Network, EndOfStream, Reset, BrokenPipe, ServerCloses
    <2>5. IdleTimeout \/ Command => UNCHANGED <<io, socketsOpen>>
      BY DEF IdleTimeout, Command, TakeRequest, Execute, EndRequest, Unsubscribe, Retry,
         CommandInterprets, Interpret, KeepConnection, connection, container
    <2> QED
      BY <2>1, <2>2, <2>3, <2>4, <2>5 DEF Elsewhere
  <1> QED
    BY <1>1, <1>2, <1>3, <1>4
    DEF Served, AttemptIsNotStarted, StartedIsAlive, Alive, Serving, HasReader, HasMessenger, Freed

LEMMA ServedStep == Typed /\ Alone /\ Served /\ [Next]_vars => Served'
  <1> SUFFICES ASSUME Typed, Alone, Served, [Next]_vars PROVE Served'
    OBVIOUS
  <1>1. CASE UNCHANGED vars
    BY <1>1 DEF vars, threadVars, container, connection, Served, AttemptIsNotStarted,
       StartedIsAlive, Alive, Serving, HasReader, HasMessenger, Freed
  <1> QED
    BY <1>1, Steps, ServedProton, ServedUser, ServedElsewhere DEF Alone

(* In any execution that has not seen two sessions overlap, a client that   *)
(* is started and not being stopped has a messenger, an end point, a proton *)
(* thread that watches over them and, unless the socket is known to be      *)
(* closed, a thread that reads from it (connection.rb; proton_container.rb, *)
(* sockets_open).                                                           *)
THEOREM StartedServed == Spec => []StartedIsServed
  <1> DEFINE IInv == Typed /\ (overlap \/ (Alone /\ Served))
  <1>1. Init => IInv
    BY TypedInit, AloneInit, ServedInit
  <1>2. IInv /\ [Next]_vars => IInv'
    BY TypedStep, OverlapStays, AloneStep, ServedStep
  <1>3. IInv => StartedIsServed
    BY DEF Served, StartedIsAlive, Alive, Serving, HasReader, HasMessenger, Freed, Stopping,
       StartedIsServed
  <1> QED
    BY <1>1, <1>2, <1>3, PTL DEF Spec

=============================================================================
