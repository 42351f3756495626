----------------------- MODULE StateCallbacks_proofs -----------------------
(***************************************************************************)
(* For any number of threads: the types of StateCallbacks; that the last   *)
(* report pushed names the client's state once every thread that has       *)
(* assigned the state has pushed its report, where Queue#push is C code,   *)
(* which needs only that a thread that has assigned stays at its push      *)
(* until it pushes; that one callback thread delivers the reports in their *)
(* order; and, with one application thread, that a failed start is         *)
(* explained.                                                              *)
(***************************************************************************)
EXTENDS StateCallbacks, TLAPS

\* The steps that neither assign the state nor push: the state, the last report
\* and the set of threads that are reporting stay as they are.
Quiet ==
  /\ UNCHANGED <<state, lastReport>>
  /\ \A t \in Threads : Reporting(t)' <=> Reporting(t)

LEMMA ThreadsAre ==
  /\ \A u \in Users : u \in Threads
  /\ \A p \in Protons : p \in Threads
  /\ \A i \in IOThreads : i \in Threads
  /\ Command \in Threads
  BY DEF Threads

LEMMA GotoIsQuiet ==
  ASSUME TypeOK, NEW t \in Threads, NEW label \in PCs \ {"push", "queue"}, ~Reporting(t),
         Goto(t, label), UNCHANGED lastReport
  PROVE  Quiet
  BY DEF TypeOK, Goto, Quiet, Reporting

LEMMA EnterIsQuiet ==
  ASSUME TypeOK, NEW t \in Threads, NEW new \in States, NEW why \in Reasons,
         NEW next \in PCs \ {"push", "queue"}, ~Reporting(t), Enter(t, new, why, next)
  PROVE  Quiet
  BY DEF TypeOK, Enter, Quiet, Reporting, queues

LEMMA GotoTypes ==
  ASSUME TypeOK, NEW t \in Threads, NEW label \in PCs, Goto(t, label)
  PROVE  /\ pc' \in [Threads -> PCs]
         /\ UNCHANGED <<state, lastStateError, target, back>>
  BY DEF TypeOK, Goto

LEMMA EnterTypes ==
  ASSUME TypeOK, NEW t \in Threads, NEW new \in States, NEW why \in Reasons,
         NEW next \in PCs \ {"assign", "push", "queue"}, Enter(t, new, why, next)
  PROVE  /\ state' \in States /\ lastStateError' \in Reasons
         /\ pc' \in [Threads -> PCs]
         /\ target' \in [Threads -> States]
         /\ back' \in [Threads -> PCs \ {"assign", "push", "queue"}]
         /\ UNCHANGED <<queues, runner, raised>>
  <1>1. "assign" \in PCs
    BY DEF PCs
  <1>2. CASE state = new
    BY <1>2 DEF TypeOK, Enter
  <1>3. CASE state # new
    BY <1>1, <1>3 DEF TypeOK, Enter
  <1> QED
    BY <1>2, <1>3

\* What is left of TypeOK when the change of state is typed.
LEMMA RestTypes ==
  ASSUME TypeOK, UNCHANGED <<queues, runner>>,
         state' \in States, lastStateError' \in Reasons,
         pc' \in [Threads -> PCs], target' \in [Threads -> States],
         back' \in [Threads -> PCs \ {"assign", "push", "queue"}],
         raised' \in [Users -> Reasons \cup {"nothing"}],
         calls' \in Nat, changes' \in Nat, attempts' \in Nat, pushInC' \in BOOLEAN
  PROVE  TypeOK'
  BY DEF TypeOK, queues, runner

\* One step of a thread that only moves on, or that enters change_state.
Moves(t) == \E label \in PCs \ {"assign", "push", "queue"} : Goto(t, label) /\ UNCHANGED <<queues, runner, raised>>

Enters(t) ==
  \E new \in States, why \in Reasons, next \in PCs \ {"assign", "push", "queue"} : Enter(t, new, why, next)

Counts == calls' \in Nat /\ changes' \in Nat /\ attempts' \in Nat /\ pushInC' = pushInC

LEMMA MovesOrEnters ==
  ASSUME TypeOK, NEW t \in Threads, ~Reporting(t), Moves(t) \/ Enters(t), Counts
  PROVE  TypeOK' /\ Quiet
  <1>1. CASE Moves(t)
    <2>1. PICK label \in PCs \ {"assign", "push", "queue"} : Goto(t, label) /\ UNCHANGED <<queues, runner, raised>>
      BY <1>1 DEF Moves
    <2>2. UNCHANGED lastReport
      BY <2>1 DEF queues
    <2>3. Quiet
      BY <2>1, <2>2, GotoIsQuiet
    <2>4. pc' \in [Threads -> PCs] /\ UNCHANGED <<state, lastStateError, target, back>>
      BY <2>1, GotoTypes
    <2>5. TypeOK'
      BY <2>1, <2>4, RestTypes DEF Counts, TypeOK
    <2> QED
      BY <2>3, <2>5
  <1>2. CASE Enters(t)
    <2>1. PICK new \in States, why \in Reasons, next \in PCs \ {"assign", "push", "queue"} : Enter(t, new, why, next)
      BY <1>2 DEF Enters
    <2>2. Quiet
      BY <2>1, EnterIsQuiet
    <2>3. TypeOK'
      BY <2>1, EnterTypes, RestTypes DEF Counts, TypeOK
    <2> QED
      BY <2>2, <2>3
  <1> QED
    BY <1>1, <1>2

LEMMA Labels ==
  /\ {"idle", "threads", "wait", "decide", "stop", "join", "request", "none", "loop", "attempt",
      "outcome", "monitor", "dead", "lost"} \subseteq PCs \ {"assign", "push", "queue"}
  /\ {"assign", "push", "queue"} \subseteq PCs
  /\ {"starting", "started", "retrying", "stopping", "stopped"} \subseteq States
  /\ {Nil, "network", "fatal"} \subseteq Reasons
  BY DEF PCs, UserPCs, ProtonPCs, IOPCs, States, Reasons

\* start, stop and the requests, except for the creation of threads and the
\* raising of a reason.
LEMMA UserSteps ==
  ASSUME TypeOK, NEW u \in Users,
         Start(u) \/ AwaitChange(u) \/ Stop(u) \/ SetStopped(u) \/ JoinProton(u) \/ Request(u) \/ EndRequest(u)
  PROVE  TypeOK' /\ Quiet
  <1>1. u \in Threads
    BY DEF Threads
  <1>2. ~Reporting(u) /\ Counts
    BY DEF Start, AwaitChange, Stop, SetStopped, JoinProton, Request, EndRequest, NewCall, Reporting,
           Counts, TypeOK, bounds
  <1>3. ASSUME Start(u) PROVE Enters(u)
    BY <1>3, Labels DEF Start, Enters
  <1>4. ASSUME AwaitChange(u) PROVE Moves(u)
    BY <1>4, Labels DEF AwaitChange, Moves
  <1>5. ASSUME Stop(u) PROVE Moves(u) \/ Enters(u)
    BY <1>5, Labels DEF Stop, Moves, Enters
  <1>6. ASSUME SetStopped(u) PROVE Enters(u)
    BY <1>6, Labels DEF SetStopped, Enters
  <1>7. ASSUME JoinProton(u) \/ Request(u) \/ EndRequest(u) PROVE Moves(u)
    BY <1>7, Labels DEF JoinProton, Request, EndRequest, Moves
  <1>8. Moves(u) \/ Enters(u)
    BY <1>3, <1>4, <1>5, <1>6, <1>7
  <1> QED
    BY <1>1, <1>2, <1>8, MovesOrEnters

LEMMA ProtonSteps ==
  ASSUME TypeOK, NEW p \in Protons, Proton(p)
  PROVE  TypeOK' /\ Quiet
  <1>1. p \in Threads
    BY DEF Threads
  <1>2. ~Reporting(p)
    BY DEF Proton, Loop, Attempt, NoServices, Connected, ConnectFails, Monitor, Reporting
  <1>3. Counts
    BY DEF Proton, Loop, Attempt, NoServices, Connected, ConnectFails, Monitor, Cause, Counts, TypeOK, bounds
  <1>4. ASSUME Loop(p) PROVE Moves(p)
    BY <1>4, Labels DEF Loop, Moves
  <1>5. ASSUME Attempt(p) \/ NoServices(p) \/ Connected(p) \/ ConnectFails(p) PROVE Enters(p)
    BY <1>5, Labels DEF Attempt, NoServices, Connected, ConnectFails, Enters
  <1>6. ASSUME Monitor(p) PROVE Moves(p) \/ Enters(p)
    BY <1>6, Labels DEF Monitor, Moves, Enters
  <1>7. Moves(p) \/ Enters(p)
    BY <1>4, <1>5, <1>6 DEF Proton
  <1> QED
    BY <1>1, <1>2, <1>3, <1>7, MovesOrEnters

LEMMA IOSteps ==
  ASSUME TypeOK, NEW i \in IOThreads, LoseConnection(i) \/ ReportLoss(i)
  PROVE  TypeOK' /\ Quiet
  <1>1. i \in Threads
    BY DEF Threads
  <1>2. ~Reporting(i) /\ Counts
    BY DEF LoseConnection, ReportLoss, Reporting, Cause, Counts, TypeOK, bounds
  <1>3. ASSUME LoseConnection(i) PROVE Moves(i)
    BY <1>3, Labels DEF LoseConnection, Moves
  <1>4. ASSUME ReportLoss(i) PROVE Enters(i)
    BY <1>4, Labels DEF ReportLoss, Enters
  <1> QED
    BY <1>1, <1>2, <1>3, <1>4, MovesOrEnters

LEMMA RequestFailsStep ==
  ASSUME TypeOK, RequestFails
  PROVE  TypeOK' /\ Quiet
  <1>1. Command \in Threads
    BY DEF Threads
  <1>2. ~Reporting(Command) /\ Counts
    BY DEF RequestFails, Reporting, Cause, Counts, TypeOK, bounds
  <1>3. Enters(Command)
    BY Labels DEF RequestFails, Enters
  <1> QED
    BY <1>1, <1>2, <1>3, MovesOrEnters

LEMMA CreateThreadsStep ==
  ASSUME TypeOK, NEW u \in Users, CreateThreads(u)
  PROVE  TypeOK' /\ Quiet
  <1>1. PICK p \in Protons, c \in Callbacks :
          /\ pc[p] = "none" /\ callback[c] = "none"
          /\ pc' = [pc EXCEPT ![u] = "wait", ![p] = "loop"]
          /\ callback' = [callback EXCEPT ![c] = "check"]
    BY DEF CreateThreads
  <1>2. u \in Threads /\ p \in Threads /\ pc[u] = "threads"
    BY DEF Threads, CreateThreads
  <1>3. pc' \in [Threads -> PCs]
    BY <1>1, <1>2, Labels DEF TypeOK
  <1>4. \A t \in Threads : Reporting(t)' <=> Reporting(t)
    BY <1>1, <1>2 DEF Reporting, TypeOK
  <1>5. TypeOK'
    BY <1>1, <1>3 DEF CreateThreads, TypeOK, queues, bounds
  <1> QED
    BY <1>4, <1>5 DEF Quiet, CreateThreads, queues

LEMMA RaiseStep ==
  ASSUME TypeOK, NEW u \in Users, Raise(u)
  PROVE  TypeOK' /\ Quiet
  <1>1. u \in Threads /\ ~Reporting(u) /\ Goto(u, "idle") /\ "idle" \in PCs \ {"push", "queue"}
    BY Labels DEF Threads, Raise, Reporting
  <1>2. Quiet
    BY <1>1, GotoIsQuiet DEF Raise, queues
  <1>3. raised' \in [Users -> Reasons \cup {"nothing"}]
    BY DEF Raise, TypeOK
  <1>4. TypeOK'
    BY <1>1, <1>3, GotoTypes, RestTypes DEF Raise, bounds, TypeOK
  <1> QED
    BY <1>2, <1>4

LEMMA AssignStep ==
  ASSUME TypeOK, NEW t \in Threads, Assign(t)
  PROVE  TypeOK' /\ Reporting(t)'
  <1>1. state' \in States /\ pc' \in [Threads -> PCs] /\ pc'[t] = "push"
    BY Labels DEF Assign, TypeOK
  <1>2. TypeOK'
    BY <1>1, RestTypes DEF Assign, bounds, TypeOK
  <1> QED
    BY <1>1, <1>2 DEF Reporting

LEMMA ReadStep ==
  ASSUME TypeOK, NEW t \in Threads, ReadState(t)
  PROVE  TypeOK' /\ Reporting(t)'
  <1>1. /\ pc' \in [Threads -> PCs] /\ pc'[t] = "queue"
        /\ target' \in [Threads -> States]
    BY Labels DEF ReadState, TypeOK
  <1>2. TypeOK'
    BY <1>1, RestTypes DEF ReadState, bounds, TypeOK
  <1> QED
    BY <1>1, <1>2 DEF Reporting

LEMMA PushStep ==
  ASSUME TypeOK, NEW t \in Threads, Push(t)
  PROVE  TypeOK' /\ (pushInC => lastReport' = state')
  <1> DEFINE named == IF pushInC THEN state ELSE target[t]
  <1>1. pushed + 1 \in Nat /\ named \in States
    BY DEF TypeOK
  <1> HIDE DEF named
  <1>2. PushReport(t, named)
    BY DEF Push, named
  <1>3. callbackQueue' \in Seq(Report)
    BY <1>1, <1>2 DEF PushReport, TypeOK, Report
  <1>4. /\ pc' \in [Threads -> PCs]
        /\ target' \in [Threads -> States]
        /\ back' \in [Threads -> PCs \ {"assign", "push", "queue"}]
    BY <1>2, Labels DEF PushReport, TypeOK
  <1>5. TypeOK'
    BY <1>1, <1>2, <1>3, <1>4 DEF PushReport, TypeOK, runner, bounds
  <1> QED
    BY <1>2, <1>5 DEF PushReport, named

LEMMA CallbackSteps ==
  ASSUME TypeOK, NEW c \in Callbacks, CallbackThread(c)
  PROVE  TypeOK' /\ Quiet
  <1>1. UNCHANGED <<change, pushed, lastReport, raised, bounds>>
    BY DEF CallbackThread, CheckStopped, CheckEmpty, Pop, CallBack, KeepChange
  <1>2. Quiet
    BY <1>1 DEF Quiet, Reporting, change
  <1>3. callback' \in [Callbacks -> {"none", "check", "empty", "pop", "call", "dead"}]
    BY DEF CallbackThread, CheckStopped, CheckEmpty, Pop, CallBack, TypeOK
  <1>4. callbackQueue' \in Seq(Report) /\ argv' \in [Callbacks -> Report] /\ delivered' \in Nat
    <2>1. NoReport \in Report
      BY Labels DEF NoReport, Report
    <2>2. argv[c] \in Report /\ argv[c].number \in Nat
      BY DEF TypeOK, Report
    <2>3. ASSUME callbackQueue # <<>>
          PROVE  Head(callbackQueue) \in Report /\ Tail(callbackQueue) \in Seq(Report)
      BY <2>3 DEF TypeOK
    <2>4. CASE CheckStopped(c) \/ CheckEmpty(c)
      BY <2>4 DEF CheckStopped, CheckEmpty, TypeOK
    <2>5. CASE Pop(c)
      BY <2>3, <2>5 DEF Pop, TypeOK
    <2>6. CASE CallBack(c)
      BY <2>1, <2>2, <2>6 DEF CallBack, TypeOK
    <2> QED
      BY <2>4, <2>5, <2>6 DEF CallbackThread
  <1>5. overlap' \in BOOLEAN
    BY DEF CallbackThread, CheckStopped, CheckEmpty, Pop, CallBack, KeepChange, TypeOK
  <1>6. TypeOK'
    BY <1>1, <1>3, <1>4, <1>5 DEF TypeOK, change, bounds
  <1> QED
    BY <1>2, <1>6

-----------------------------------------------------------------------------
LEMMA InitTypes == Init => TypeOK
  <1> SUFFICES ASSUME Init PROVE TypeOK
    OBVIOUS
  <1>1. pc \in [Threads -> PCs] /\ target \in [Threads -> States]
        /\ back \in [Threads -> PCs \ {"assign", "push", "queue"}]
    BY Labels DEF Init
  <1>2. argv \in [Callbacks -> Report] /\ callbackQueue \in Seq(Report)
    BY Labels DEF Init, NoReport, Report
  <1> QED
    BY <1>1, <1>2, Labels DEF Init, TypeOK

LEMMA NextTypes ==
  ASSUME TypeOK, [Next]_vars
  PROVE  /\ TypeOK'
         /\ \/ Quiet
            \/ \E t \in Threads : Reporting(t)'
            \/ pushInC => lastReport' = state'
  <1>1. CASE UNCHANGED vars
    BY <1>1 DEF vars, change, queues, runner, bounds, TypeOK, Quiet, Reporting
  <1>2. ASSUME NEW u \in Users, Start(u) \/ Stop(u) \/ Request(u) \/ User(u)
        PROVE  TypeOK' /\ Quiet
    BY <1>2, UserSteps, CreateThreadsStep, RaiseStep DEF User
  <1>3. ASSUME NEW t \in Threads, Assign(t) \/ ReadState(t) \/ Push(t)
        PROVE  TypeOK' /\ (Reporting(t)' \/ (pushInC => lastReport' = state'))
    BY <1>3, AssignStep, ReadStep, PushStep
  <1>4. CASE Next
    BY <1>2, <1>3, <1>4, ProtonSteps, IOSteps, RequestFailsStep, CallbackSteps DEF Next
  <1> QED
    BY <1>1, <1>4

\* The interpreter is the same throughout.
LEMMA SameInterpreter == [Next]_vars => pushInC' = pushInC
  <1> SUFFICES ASSUME [Next]_vars PROVE pushInC' = pushInC
    OBVIOUS
  <1>1. CASE UNCHANGED vars
    BY <1>1 DEF vars, bounds
  <1>2. ASSUME NEW u \in Users, Start(u) \/ Stop(u) \/ Request(u) \/ User(u) PROVE pushInC' = pushInC
    BY <1>2 DEF Start, Stop, Request, User, CreateThreads, AwaitChange, Raise, SetStopped, JoinProton,
       EndRequest, NewCall, bounds
  <1>3. ASSUME NEW p \in Protons, Proton(p) PROVE pushInC' = pushInC
    BY <1>3 DEF Proton, Loop, Attempt, NoServices, Connected, ConnectFails, Monitor, Cause, bounds
  <1>4. ASSUME NEW i \in IOThreads, LoseConnection(i) \/ ReportLoss(i) PROVE pushInC' = pushInC
    BY <1>4 DEF LoseConnection, ReportLoss, Cause, bounds
  <1>5. CASE RequestFails
    BY <1>5 DEF RequestFails, Cause
  <1>6. ASSUME NEW t \in Threads, Assign(t) \/ ReadState(t) \/ Push(t) PROVE pushInC' = pushInC
    BY <1>6 DEF Assign, ReadState, Push, PushReport, bounds
  <1>7. ASSUME NEW c \in Callbacks, CallbackThread(c) PROVE pushInC' = pushInC
    BY <1>7 DEF CallbackThread, CheckStopped, CheckEmpty, Pop, CallBack, KeepChange, bounds
  <1> QED
    BY <1>1, <1>2, <1>3, <1>4, <1>5, <1>6, <1>7 DEF Next

\* Types: whatever the threads do, all variables keep theirs.
THEOREM TypesHold == Spec => []TypeOK
  <1>1. TypeOK /\ [Next]_vars => TypeOK'
    BY NextTypes
  <1> QED
    BY <1>1, InitTypes, PTL DEF Spec

\* Reports: with any number of threads inside change_state, which takes no lock,
\* the last report pushed is the state once they have left (thread_vars.rb:156-161),
\* where Queue#push is C code.
THEOREM ReportsCatchUp == Spec => []LastReportIsState
  <1>1. Init => LastReportIsState
    BY DEF Init, LastReportIsState
  <1>2. TypeOK /\ LastReportIsState /\ [Next]_vars => LastReportIsState'
    <2> SUFFICES ASSUME TypeOK, LastReportIsState, [Next]_vars, pushInC,
                        \A t \in Threads : ~Reporting(t)'
                 PROVE  state' = lastReport'
      BY SameInterpreter DEF LastReportIsState
    <2>1. Quiet \/ lastReport' = state'
      BY NextTypes
    <2>2. CASE Quiet
      BY <2>2 DEF Quiet, LastReportIsState
    <2> QED
      BY <2>1, <2>2
  <1> QED
    BY <1>1, <1>2, TypesHold, PTL DEF Spec

-----------------------------------------------------------------------------
(* The order of the reports                                                 *)

Only(c) == \A d \in Callbacks \ {c} : callback[d] = "none"

\* The queue holds the last reports, in the order of their numbers.
Numbered ==
  \A i \in 1 .. Len(callbackQueue) : callbackQueue[i].number = (pushed - Len(callbackQueue)) + i

\* While there is one callback thread, all the reports before those of the queue
\* are delivered, but for the one it has taken.
Taken ==
  \A c \in Callbacks : Only(c) =>
    /\ callback[c] # "call" => pushed = delivered + Len(callbackQueue)
    /\ callback[c] = "call" => /\ argv[c].number = delivered + 1
                               /\ pushed = delivered + 1 + Len(callbackQueue)

LEMMA OrderInit == Init => Numbered /\ Taken
  <1> SUFFICES ASSUME Init PROVE Numbered /\ Taken
    OBVIOUS
  <1>1. Len(callbackQueue) = 0 /\ pushed = 0 /\ delivered = 0
    BY DEF Init
  <1>2. \A c \in Callbacks : callback[c] # "call"
    BY DEF Init
  <1> QED
    BY <1>1, <1>2 DEF Numbered, Taken

LEMMA PushOrder ==
  ASSUME TypeOK, Numbered, Taken, NEW t \in Threads, Push(t)
  PROVE  Numbered' /\ Taken'
  <1> DEFINE q == callbackQueue
             r == [number |-> pushed + 1, state |-> IF pushInC THEN state ELSE target[t]]
  <1>1. q \in Seq(Report) /\ pushed \in Nat /\ delivered \in Nat /\ r \in Report
    BY DEF TypeOK, Report
  <1>2. q' = Append(q, r) /\ pushed' = pushed + 1
        /\ callback' = callback /\ argv' = argv /\ delivered' = delivered
    BY DEF Push, PushReport, runner
  <1> HIDE DEF r
  <1>3. Len(q') = Len(q) + 1 /\ Len(q) \in Nat
        /\ q'[Len(q) + 1] = r /\ \A i \in 1 .. Len(q) : q'[i] = q[i]
    BY <1>1, <1>2
  <1>4. r.number = pushed + 1
    BY DEF r
  <1>5. Numbered'
    <2> SUFFICES ASSUME NEW i \in 1 .. Len(q')
                 PROVE  q'[i].number = (pushed' - Len(q')) + i
      BY DEF Numbered
    <2>1. CASE i = Len(q) + 1
      BY <1>1, <1>2, <1>3, <1>4, <2>1
    <2>2. CASE i # Len(q) + 1
      <3>1. i \in 1 .. Len(q) /\ q'[i] = q[i]
        BY <1>3, <2>2
      <3>2. q[i].number = (pushed - Len(q)) + i
        BY <3>1 DEF Numbered
      <3> QED
        BY <1>1, <1>2, <1>3, <3>1, <3>2
    <2> QED
      BY <2>1, <2>2
  <1>6. Taken'
    <2>1. \A c \in Callbacks : Only(c)' => Only(c)
      BY <1>2 DEF Only
    <2>2. pushed' = pushed + 1 /\ Len(q') = Len(q) + 1 /\ Len(q) \in Nat
          /\ callback' = callback /\ argv' = argv /\ delivered' = delivered
      BY <1>2, <1>3
    <2> HIDE DEF q
    <2>3. ASSUME NEW c \in Callbacks, Only(c)
          PROVE  /\ callback[c] # "call" => pushed + 1 = delivered + (Len(q) + 1)
                 /\ callback[c] = "call" => /\ argv[c].number = delivered + 1
                                            /\ pushed + 1 = delivered + 1 + (Len(q) + 1)
      BY <1>1, <2>2, <2>3 DEF Taken, q
    <2> QED
      BY <2>1, <2>2, <2>3 DEF Taken, q
  <1> QED
    BY <1>5, <1>6

LEMMA CallbackOrder ==
  ASSUME TypeOK, Numbered, Taken, NEW c \in Callbacks, CallbackThread(c)
  PROVE  Numbered' /\ Taken'
  <1> DEFINE q == callbackQueue
  <1>1. /\ q \in Seq(Report) /\ pushed \in Nat /\ delivered \in Nat
        /\ callback \in [Callbacks -> {"none", "check", "empty", "pop", "call", "dead"}]
        /\ argv \in [Callbacks -> Report]
    BY DEF TypeOK
  <1>2. pushed' = pushed
    BY DEF CallbackThread, CheckStopped, CheckEmpty, Pop, CallBack, KeepChange
  <1>3. /\ callback'[c] # "none" /\ callback[c] # "none"
        /\ \A d \in Callbacks \ {c} : callback'[d] = callback[d] /\ argv'[d] = argv[d]
    BY <1>1 DEF CallbackThread, CheckStopped, CheckEmpty, Pop, CallBack
  <1>4. \A d \in Callbacks : Only(d)' => d = c /\ Only(c)
    BY <1>3 DEF Only
  <1>5. CASE CheckStopped(c) \/ CheckEmpty(c)
    <2>1. q' = q /\ delivered' = delivered /\ callback[c] # "call" /\ callback'[c] # "call"
      BY <1>1, <1>5 DEF CheckStopped, CheckEmpty
    <2> QED
      BY <1>2, <1>4, <2>1 DEF Numbered, Taken
  <1>6. CASE Pop(c)
    <2>1. /\ q # <<>> /\ q' = Tail(q) /\ argv'[c] = Head(q) /\ delivered' = delivered
          /\ callback[c] = "pop" /\ callback'[c] = "call"
      BY <1>1, <1>6 DEF Pop
    <2>2. /\ Len(q) \in Nat \ {0} /\ Len(q') = Len(q) - 1 /\ Head(q) = q[1]
          /\ \A i \in 1 .. Len(q') : q'[i] = q[i + 1]
      BY <1>1, <2>1
    <2>3. Numbered'
      <3> SUFFICES ASSUME NEW i \in 1 .. Len(q')
                   PROVE  q'[i].number = (pushed' - Len(q')) + i
        BY DEF Numbered
      <3>1. i + 1 \in 1 .. Len(q) /\ q'[i] = q[i + 1] /\ i \in Nat
        BY <2>2
      <3>2. q[i + 1].number = (pushed - Len(q)) + (i + 1)
        BY <3>1 DEF Numbered
      <3> QED
        BY <1>1, <1>2, <2>2, <3>1, <3>2
    <2>4. Only(c) => pushed = delivered + Len(q)
      BY <2>1 DEF Taken
    <2>5. q[1].number = (pushed - Len(q)) + 1
      BY <2>2 DEF Numbered
    <2>6. Only(c) => argv'[c].number = delivered + 1 /\ pushed = delivered + 1 + Len(q')
      BY <1>1, <2>1, <2>2, <2>4, <2>5
    <2> QED
      BY <1>2, <1>4, <2>1, <2>3, <2>6 DEF Taken
  <1>7. CASE CallBack(c)
    <2>1. /\ q' = q /\ delivered' = argv[c].number
          /\ callback[c] = "call" /\ callback'[c] = "check"
      BY <1>1, <1>7 DEF CallBack
    <2>2. Numbered'
      BY <1>2, <2>1 DEF Numbered
    <2>3. Only(c) => argv[c].number = delivered + 1 /\ pushed = delivered + 1 + Len(q)
      BY <2>1 DEF Taken
    <2>4. Only(c) => pushed' = delivered' + Len(q')
      BY <1>2, <2>1, <2>3
    <2> QED
      BY <1>4, <2>1, <2>2, <2>4 DEF Taken
  <1> QED
    BY <1>5, <1>6, <1>7 DEF CallbackThread

LEMMA CreateOrder ==
  ASSUME TypeOK, Numbered, Taken, NEW u \in Users, CreateThreads(u)
  PROVE  Numbered' /\ Taken'
  <1>1. PICK c \in Callbacks : callback[c] = "none" /\ callback' = [callback EXCEPT ![c] = "check"]
    BY DEF CreateThreads
  <1>2. UNCHANGED <<callbackQueue, pushed, argv, delivered>>
    BY DEF CreateThreads, queues
  <1>3. callback'[c] = "check" /\ \A d \in Callbacks \ {c} : callback'[d] = callback[d]
    BY <1>1 DEF TypeOK
  <1>4. \A d \in Callbacks : Only(d)' => d = c /\ Only(c)
    BY <1>3 DEF Only
  <1> QED
    BY <1>1, <1>2, <1>3, <1>4 DEF Numbered, Taken

LEMMA OrderNext == TypeOK /\ Numbered /\ Taken /\ [Next]_vars => (Numbered /\ Taken)'
  <1> SUFFICES ASSUME TypeOK, Numbered, Taken, [Next]_vars PROVE Numbered' /\ Taken'
    OBVIOUS
  <1>1. CASE UNCHANGED <<queues, runner>>
    BY <1>1 DEF Numbered, Taken, Only, queues, runner
  <1>2. ASSUME NEW u \in Users, Start(u) \/ Stop(u) \/ Request(u) \/ User(u), ~CreateThreads(u)
        PROVE  UNCHANGED <<queues, runner>>
    BY <1>2 DEF Start, Stop, Request, User, AwaitChange, Raise, SetStopped, JoinProton, EndRequest, Enter
  <1>3. ASSUME NEW p \in Protons, Proton(p)
        PROVE  UNCHANGED <<queues, runner>>
    BY <1>3 DEF Proton, Loop, Attempt, NoServices, Connected, ConnectFails, Monitor, Enter
  <1>4. ASSUME NEW i \in IOThreads, LoseConnection(i) \/ ReportLoss(i)
        PROVE  UNCHANGED <<queues, runner>>
    BY <1>4 DEF LoseConnection, ReportLoss, Enter
  <1>5. ASSUME RequestFails PROVE UNCHANGED <<queues, runner>>
    BY <1>5 DEF RequestFails, Enter
  <1>6. ASSUME NEW t \in Threads, Assign(t) \/ ReadState(t) PROVE UNCHANGED <<queues, runner>>
    BY <1>6 DEF Assign, ReadState
  <1>7. CASE UNCHANGED vars
    BY <1>1, <1>7 DEF vars
  <1> QED
    BY <1>1, <1>2, <1>3, <1>4, <1>5, <1>6, <1>7, PushOrder, CallbackOrder, CreateOrder DEF Next

\* Order: while there is one callback thread, the application is given every report,
\* one by one, in the order in which they were pushed (blocking_client.rb:725-735).
THEOREM ReportsComeInOrder == Spec => InOrder
  <1>1. TypeOK /\ Numbered /\ Taken /\ [Next]_vars =>
          [\A c \in Callbacks :
             CallBack(c) /\ (\A d \in Callbacks \ {c} : callback[d] = "none") => delivered' = delivered + 1]_vars
    BY DEF Taken, Only, CallBack
  <1> QED
    BY <1>1, OrderInit, OrderNext, TypesHold, PTL DEF Spec, InOrder

-----------------------------------------------------------------------------
(* The reason of a failed start, with one application thread                *)

InChange(t) == pc[t] \in {"assign", "push", "queue"}
Alive(p)    == pc[p] \notin {"none", "dead"}

\* A user that has stopped the client, and waits for its proton thread.
Stopping(u) == pc[u] = "join" \/ (InChange(u) /\ back[u] = "join")

\* A user that is starting the client, and one whose start has changed the state.
Starting(u) == pc[u] \in {"threads", "wait", "decide"} \/ (InChange(u) /\ back[u] = "threads")
HasStarted(u) == pc[u] \in {"threads", "wait", "decide"} \/ (pc[u] \in {"push", "queue"} /\ back[u] = "threads")

\* Where the threads are, and what they change the state to.
UserPlaces(u) ==
  /\ pc[u] \in UserPCs \cup {"assign", "push", "queue"}
  /\ InChange(u) => back[u] \in {"threads", "stop", "join"}
  /\ pc[u] = "assign" => /\ back[u] = "threads" => target[u] = "starting"
                         /\ back[u] = "stop" => target[u] = "stopping"
ProtonPlaces(p) ==
  /\ pc[p] \in ProtonPCs \cup {"assign", "push", "queue"}
  /\ InChange(p) => back[p] \in {"outcome", "monitor", "loop"}
  /\ pc[p] = "assign" /\ back[p] = "outcome" => target[p] = "starting"
OtherPlaces(t) ==
  /\ pc[t] \in IOPCs \cup {"assign", "push", "queue"}
  /\ InChange(t) => back[t] = "idle"
  /\ pc[t] = "assign" => target[t] = "retrying"
Places ==
  /\ \A u \in Users : UserPlaces(u)
  /\ \A p \in Protons : ProtonPlaces(p)
  /\ \A t \in IOThreads \cup {Command} : OtherPlaces(t)

\* As long as starts do not overlap there is one proton thread at a time; it attempts to
\* connect a client that is not stopped, and only it and a user's stop stop the client;
\* so a reason that it has left stays until the start that waits has raised it.
OneAlive == \A p, q \in Protons : Alive(p) /\ Alive(q) => p = q
NotStopped ==
  (\A u \in Users : ~Stopping(u)) =>
    \A p \in Protons :
      /\ pc[p] \in {"attempt", "outcome", "assign"} => state # "stopped"
      /\ pc[p] \in {"push", "queue"} /\ back[p] = "outcome" => state # "stopped"
ReasonKept ==
  \A u \in Users :
    /\ HasStarted(u) /\ state = "stopped" => lastStateError # Nil
    /\ Starting(u) => \A p \in Protons :
         pc[p] = "assign" /\ target[p] = "stopped" => lastStateError # Nil
Raised == \A u \in Users : raised[u] # Nil

Core == OneAlive /\ NotStopped /\ ReasonKept /\ Raised

OneUser == \A u, v \in Users : u = v

\* What the steps do to the places of the threads.
OnlyOf(t) == \A x \in Threads \ {t} : pc'[x] = pc[x] /\ target'[x] = target[x] /\ back'[x] = back[x]
Does(t, new, why, next) ==
  /\ OnlyOf(t) /\ state' = state /\ lastStateError' = why
  /\ \/ state = new /\ pc'[t] = next
     \/ state # new /\ pc'[t] = "assign" /\ target'[t] = new /\ back'[t] = next
Goes(t, label) ==
  OnlyOf(t) /\ state' = state /\ lastStateError' = lastStateError /\ pc'[t] = label

LEMMA EnterDoes ==
  ASSUME TypeOK, NEW t \in Threads, NEW new, NEW why, NEW next, Enter(t, new, why, next)
  PROVE  Does(t, new, why, next) /\ raised' = raised /\ overlap' = overlap
  <1>1. CASE state = new
    BY <1>1 DEF TypeOK, Enter, Does, OnlyOf, runner
  <1>2. CASE state # new
    BY <1>2 DEF TypeOK, Enter, Does, OnlyOf, runner
  <1> QED
    BY <1>1, <1>2

LEMMA GotoGoes ==
  ASSUME TypeOK, NEW t \in Threads, NEW label, Goto(t, label)
  PROVE  Goes(t, label)
  BY DEF TypeOK, Goto, Goes, OnlyOf

LEMMA AssignDoes ==
  ASSUME TypeOK, NEW t \in Threads, Assign(t)
  PROVE  /\ OnlyOf(t) /\ pc[t] = "assign" /\ state' = target[t]
         /\ pc'[t] = "push" /\ back'[t] = back[t]
         /\ UNCHANGED <<lastStateError, raised, overlap>>
  BY DEF TypeOK, Assign, OnlyOf, runner

LEMMA PushDoes ==
  ASSUME TypeOK, NEW t \in Threads, Push(t)
  PROVE  /\ OnlyOf(t) /\ pc[t] \in {"push", "queue"} /\ pc'[t] = back[t]
         /\ UNCHANGED <<state, lastStateError, raised, overlap>>
  BY DEF TypeOK, Push, PushReport, OnlyOf, runner

LEMMA ReadDoes ==
  ASSUME TypeOK, NEW t \in Threads, ReadState(t)
  PROVE  /\ OnlyOf(t) /\ pc[t] = "push" /\ pc'[t] = "queue" /\ back'[t] = back[t]
         /\ UNCHANGED <<state, lastStateError, raised, overlap>>
  BY DEF TypeOK, ReadState, OnlyOf, runner

\* Whose place has changed.
LEMMA PlacesOf ==
  ASSUME Places, NEW t \in Threads, OnlyOf(t),
         t \in Users => UserPlaces(t)',
         t \in Protons => ProtonPlaces(t)',
         t \in IOThreads \cup {Command} => OtherPlaces(t)'
  PROVE  Places'
  <1>1. ASSUME NEW u \in Users PROVE UserPlaces(u)'
    <2>1. CASE u = t
      BY <2>1
    <2>2. CASE u # t
      BY <2>2 DEF Places, UserPlaces, OnlyOf, InChange, Threads
    <2> QED
      BY <2>1, <2>2
  <1>2. ASSUME NEW p \in Protons PROVE ProtonPlaces(p)'
    <2>1. CASE p = t
      BY <2>1
    <2>2. CASE p # t
      BY <2>2 DEF Places, ProtonPlaces, OnlyOf, InChange, Threads
    <2> QED
      BY <2>1, <2>2
  <1>3. ASSUME NEW x \in IOThreads \cup {Command} PROVE OtherPlaces(x)'
    <2>1. CASE x = t
      BY <2>1
    <2>2. CASE x # t
      BY <2>2 DEF Places, OtherPlaces, OnlyOf, InChange, Threads
    <2> QED
      BY <2>1, <2>2
  <1> QED
    BY <1>1, <1>2, <1>3 DEF Places

\* The kinds of threads are distinct.
LEMMA Distinct ==
  /\ \A u \in Users : u \in Threads /\ u \notin Protons /\ u \notin IOThreads \cup {Command}
  /\ \A p \in Protons : p \in Threads /\ p \notin Users /\ p \notin IOThreads \cup {Command}
  /\ \A t \in IOThreads \cup {Command} : t \in Threads /\ t \notin Users /\ t \notin Protons
  BY ThreadsAssumption DEF Threads

\* A user's step leaves the proton threads where they are, an I/O thread's the users too.
LEMMA ProtonsStay ==
  ASSUME NEW t \in Threads, t \notin Protons, OnlyOf(t)
  PROVE  /\ \A p \in Protons : pc'[p] = pc[p] /\ target'[p] = target[p] /\ back'[p] = back[p]
         /\ OneAlive => OneAlive'
  BY Distinct DEF OnlyOf, OneAlive, Alive

LEMMA UsersStay ==
  ASSUME NEW t \in Threads, t \notin Users, OnlyOf(t)
  PROVE  \A u \in Users : /\ pc'[u] = pc[u] /\ back'[u] = back[u]
                          /\ Stopping(u)' <=> Stopping(u)
                          /\ Starting(u)' <=> Starting(u)
                          /\ HasStarted(u)' <=> HasStarted(u)
  BY Distinct DEF OnlyOf, Stopping, Starting, HasStarted, InChange

\* What a step of the only user has to show.
LEMMA UserCore ==
  ASSUME OneUser, TypeOK, Core, NEW u \in Users, OnlyOf(u),
         ~Stopping(u)' => ~Stopping(u) \/ \A p \in Protons : ~Alive(p),
         state' = state \/ state' # "stopped" \/ Stopping(u)',
         HasStarted(u)' /\ state' = "stopped" => lastStateError' # Nil,
         Starting(u)' => \A p \in Protons :
           pc[p] = "assign" /\ target[p] = "stopped" => lastStateError' # Nil,
         raised' = raised \/ (raised' = [raised EXCEPT ![u] = lastStateError] /\ lastStateError # Nil)
  PROVE  Core'
  <1>1. u \in Threads /\ u \notin Protons /\ \A v \in Users : v = u
    BY Distinct DEF OneUser
  <1>2. /\ \A p \in Protons : pc'[p] = pc[p] /\ target'[p] = target[p] /\ back'[p] = back[p]
        /\ OneAlive'
    BY <1>1, ProtonsStay DEF Core
  <1>3. NotStopped'
    <2> SUFFICES ASSUME ~Stopping(u)', NEW p \in Protons
                 PROVE  /\ pc[p] \in {"attempt", "outcome", "assign"} => state' # "stopped"
                        /\ pc[p] \in {"push", "queue"} /\ back[p] = "outcome" => state' # "stopped"
      BY <1>1, <1>2 DEF NotStopped
    <2>1. CASE ~Alive(p)
      BY <2>1 DEF Alive
    <2>2. CASE Alive(p)
      <3>1. ~Stopping(u)
        BY <2>2
      <3>2. /\ pc[p] \in {"attempt", "outcome", "assign"} => state # "stopped"
            /\ pc[p] \in {"push", "queue"} /\ back[p] = "outcome" => state # "stopped"
        BY <1>1, <3>1 DEF Core, NotStopped
      <3> QED
        BY <3>2
    <2> QED
      BY <2>1, <2>2
  <1>4. ReasonKept'
    BY <1>1, <1>2 DEF ReasonKept
  <1>5. Raised'
    BY <1>1 DEF Core, Raised, TypeOK
  <1> QED
    BY <1>2, <1>3, <1>4, <1>5 DEF Core

\* What a step of another thread has to show.
LEMMA OtherCore ==
  ASSUME Core, NEW t \in IOThreads \cup {Command}, OnlyOf(t), raised' = raised,
         state' = state \/ state' = "retrying",
         lastStateError' # Nil \/ \A u \in Users : ~Starting(u)
           \/ lastStateError' = lastStateError
  PROVE  Core'
  <1>1. t \in Threads /\ t \notin Protons /\ t \notin Users
    BY Distinct
  <1>2. /\ \A p \in Protons : pc'[p] = pc[p] /\ target'[p] = target[p] /\ back'[p] = back[p]
        /\ OneAlive'
    BY <1>1, ProtonsStay DEF Core
  <1>3. \A u \in Users : /\ Stopping(u)' <=> Stopping(u)
                         /\ Starting(u)' <=> Starting(u)
                         /\ HasStarted(u)' <=> HasStarted(u)
    BY <1>1, UsersStay
  <1>4. NotStopped'
    BY <1>2, <1>3 DEF Core, NotStopped
  <1>5. \A u \in Users : HasStarted(u) => Starting(u)
    BY DEF HasStarted, Starting, InChange
  <1>6. ReasonKept'
    <2> SUFFICES ASSUME NEW u \in Users
                 PROVE  /\ HasStarted(u) /\ state' = "stopped" => lastStateError' # Nil
                        /\ Starting(u) => \A p \in Protons :
                             pc[p] = "assign" /\ target[p] = "stopped" => lastStateError' # Nil
      BY <1>2, <1>3 DEF ReasonKept
    <2>1. CASE lastStateError' # Nil \/ ~Starting(u)
      BY <1>5, <2>1
    <2>2. CASE lastStateError' = lastStateError
      BY <2>2 DEF Core, ReasonKept
    <2> QED
      BY <2>1, <2>2
  <1>7. Raised'
    BY DEF Core, Raised
  <1> QED
    BY <1>2, <1>4, <1>6, <1>7 DEF Core

\* What a step of the proton thread has to show.
LEMMA ProtonCore ==
  ASSUME OneUser, Core, NEW p \in Protons, Alive(p), OnlyOf(p), raised' = raised,
         (\A u \in Users : ~Stopping(u)) =>
            /\ pc'[p] \in {"attempt", "outcome", "assign"} => state' # "stopped"
            /\ pc'[p] \in {"push", "queue"} /\ back'[p] = "outcome" => state' # "stopped",
         \/ lastStateError' # Nil
         \/ state' # "stopped"
         \/ state' = state /\ lastStateError' = lastStateError
         \/ \A u \in Users : ~Starting(u)
         \/ \E u \in Users : Stopping(u),
         pc'[p] = "assign" /\ target'[p] = "stopped" => lastStateError' # Nil
  PROVE  Core'
  <1>1. p \in Threads /\ p \notin Users
    BY Distinct
  <1>2. \A q \in Protons \ {p} : /\ ~Alive(q) /\ ~Alive(q)'
                                 /\ pc'[q] = pc[q] /\ target'[q] = target[q] /\ back'[q] = back[q]
    BY Distinct DEF Core, OneAlive, Alive, OnlyOf
  <1>3. \A u \in Users : /\ Stopping(u)' <=> Stopping(u)
                         /\ Starting(u)' <=> Starting(u)
                         /\ HasStarted(u)' <=> HasStarted(u)
    BY <1>1, UsersStay
  <1>4. \A u \in Users : (HasStarted(u) => Starting(u)) /\ ~(Starting(u) /\ Stopping(u))
    BY DEF HasStarted, Starting, Stopping, InChange
  <1>5. OneAlive'
    BY <1>2 DEF OneAlive
  <1>6. NotStopped'
    BY <1>2, <1>3 DEF NotStopped, Alive
  <1>7. ReasonKept'
    <2> SUFFICES ASSUME NEW u \in Users
                 PROVE  /\ HasStarted(u) /\ state' = "stopped" => lastStateError' # Nil
                        /\ Starting(u) => \A q \in Protons :
                             pc'[q] = "assign" /\ target'[q] = "stopped" => lastStateError' # Nil
      BY <1>3 DEF ReasonKept
    <2>1. HasStarted(u) /\ state' = "stopped" => lastStateError' # Nil
      <3>1. \A v \in Users : v = u
        BY DEF OneUser
      <3>2. HasStarted(u) /\ state = "stopped" => lastStateError # Nil
        BY DEF Core, ReasonKept
      <3> QED
        BY <1>4, <3>1, <3>2
    <2>2. \A q \in Protons : pc'[q] = "assign" /\ target'[q] = "stopped" => lastStateError' # Nil
      BY <1>2 DEF Alive
    <2> QED
      BY <2>1, <2>2
  <1>8. Raised'
    BY DEF Core, Raised
  <1> QED
    BY <1>5, <1>6, <1>7, <1>8 DEF Core

Sensible == Places /\ (overlap \/ Core)

\* The steps of the only user that move on or enter change_state.
LEMMA SensibleUser ==
  ASSUME OneUser, TypeOK, Sensible, NEW u \in Users,
         \/ Start(u) \/ AwaitChange(u) \/ Raise(u) \/ Stop(u) \/ SetStopped(u) \/ JoinProton(u)
         \/ Request(u) \/ EndRequest(u)
  PROVE  Sensible'
  <1>1. u \in Threads /\ \A v \in Users : v = u
    BY DEF Threads, OneUser
  <1>3. Start(u) =>
          /\ pc[u] = "idle" /\ state = "stopped"
          /\ Does(u, "starting", Nil, "threads") /\ raised' = raised /\ overlap' = overlap
    BY <1>1, EnterDoes DEF Start, NewCall
  <1>4. SetStopped(u) =>
          /\ pc[u] = "stop"
          /\ Does(u, "stopped", Nil, "join") /\ raised' = raised /\ overlap' = overlap
    BY <1>1, EnterDoes DEF SetStopped
  <1>5. Stop(u) =>
          /\ pc[u] = "idle" /\ raised' = raised /\ overlap' = overlap
          /\ \/ state = "started" /\ Does(u, "stopping", Nil, "stop")
             \/ Goes(u, "stop")
    <2>1. CASE state = "started"
      BY <1>1, <2>1, EnterDoes DEF Stop, NewCall
    <2>2. CASE state # "started"
      BY <1>1, <2>2, GotoGoes DEF Stop, NewCall, runner
    <2> QED
      BY <2>1, <2>2
  <1>6. AwaitChange(u) =>
          /\ pc[u] = "wait" /\ raised' = raised /\ overlap' = overlap
          /\ Goes(u, "decide") \/ Goes(u, "idle")
    BY <1>1, GotoGoes DEF AwaitChange, runner
  <1>7. JoinProton(u) =>
          /\ pc[u] = "join" /\ raised' = raised /\ overlap' = overlap
          /\ \A p \in Protons : ~Alive(p)
          /\ Goes(u, "idle")
    BY <1>1, GotoGoes DEF JoinProton, runner, Alive
  <1>8. Request(u) => pc[u] = "idle" /\ raised' = raised /\ overlap' = overlap /\ Goes(u, "request")
    BY <1>1, GotoGoes DEF Request, NewCall, runner
  <1>9. EndRequest(u) => pc[u] = "request" /\ raised' = raised /\ overlap' = overlap /\ Goes(u, "idle")
    BY <1>1, GotoGoes DEF EndRequest, runner
  <1>10. Raise(u) =>
           /\ pc[u] = "decide" /\ overlap' = overlap /\ Goes(u, "idle")
           /\ \/ raised' = raised
              \/ raised' = [raised EXCEPT ![u] = lastStateError] /\ state = "stopped"
    BY <1>1, GotoGoes DEF Raise, runner, TypeOK
  <1>11. overlap' = overlap /\ OnlyOf(u)
    BY <1>3, <1>4, <1>5, <1>6, <1>7, <1>8, <1>9, <1>10 DEF Does, Goes
  <1>12. Places'
    <2>1. UserPlaces(u)'
      <3>1. CASE Start(u)
        BY <1>3, <3>1 DEF Does, UserPlaces, InChange, UserPCs
      <3>2. CASE SetStopped(u)
        BY <1>4, <3>2 DEF Does, UserPlaces, InChange, UserPCs
      <3>3. CASE Stop(u)
        BY <1>5, <3>3 DEF Does, Goes, UserPlaces, InChange, UserPCs
      <3>4. CASE AwaitChange(u) \/ JoinProton(u) \/ Request(u) \/ EndRequest(u) \/ Raise(u)
        BY <1>6, <1>7, <1>8, <1>9, <1>10, <3>4 DEF Goes, UserPlaces, InChange, UserPCs
      <3> QED
        BY <3>1, <3>2, <3>3, <3>4
    <2> QED
      BY <1>1, <1>11, <2>1, Distinct, PlacesOf DEF Sensible
  <1>13. ASSUME Core PROVE Core'
    <2>1. /\ HasStarted(u) /\ state = "stopped" => lastStateError # Nil
          /\ Starting(u) => \A p \in Protons :
               pc[p] = "assign" /\ target[p] = "stopped" => lastStateError # Nil
      BY <1>13 DEF Core, ReasonKept
    <2>2. CASE Start(u)
      <3>1. ~Stopping(u)
        BY <1>3, <2>2 DEF Stopping, InChange
      <3>2. \A p \in Protons : pc[p] # "assign"
        BY <1>1, <1>3, <1>13, <2>2, <3>1 DEF Core, NotStopped
      <3>3. ~HasStarted(u)'
        BY <1>3, <2>2 DEF Does, HasStarted
      <3> QED
        BY <1>3, <1>11, <1>13, <2>2, <3>1, <3>2, <3>3, UserCore DEF Does
    <2>3. CASE SetStopped(u)
      <3>1. Stopping(u)' /\ ~HasStarted(u)' /\ ~Starting(u)'
        BY <1>4, <2>3 DEF Does, Stopping, HasStarted, Starting, InChange
      <3> QED
        BY <1>4, <1>11, <1>13, <2>3, <3>1, UserCore
    <2>4. CASE Stop(u)
      <3>1. ~Stopping(u) /\ ~HasStarted(u)' /\ ~Starting(u)'
        BY <1>5, <2>4 DEF Does, Goes, Stopping, HasStarted, Starting, InChange
      <3>2. state' = state
        BY <1>5, <2>4 DEF Does, Goes
      <3> QED
        BY <1>5, <1>11, <1>13, <2>4, <3>1, <3>2, UserCore
    <2>5. CASE AwaitChange(u)
      <3>1. ~Stopping(u) /\ HasStarted(u) /\ Starting(u)
        BY <1>6, <2>5 DEF Stopping, HasStarted, Starting, InChange
      <3> QED
        BY <1>6, <1>11, <1>13, <2>1, <2>5, <3>1, UserCore DEF Goes
    <2>6. CASE JoinProton(u)
      <3>1. ~HasStarted(u)' /\ ~Starting(u)'
        BY <1>7, <2>6 DEF Goes, HasStarted, Starting, InChange
      <3> QED
        BY <1>7, <1>11, <1>13, <2>6, <3>1, UserCore DEF Goes
    <2>7. CASE Request(u) \/ EndRequest(u)
      <3>1. ~Stopping(u) /\ ~HasStarted(u)' /\ ~Starting(u)' /\ state' = state
        BY <1>8, <1>9, <2>7 DEF Goes, Stopping, HasStarted, Starting, InChange
      <3> QED
        BY <1>8, <1>9, <1>11, <1>13, <2>7, <3>1, UserCore
    <2>8. CASE Raise(u)
      <3>1. ~Stopping(u) /\ HasStarted(u) /\ ~HasStarted(u)' /\ ~Starting(u)' /\ state' = state
        BY <1>10, <2>8 DEF Goes, Stopping, HasStarted, Starting, InChange
      <3> QED
        BY <1>10, <1>11, <1>13, <2>1, <2>8, <3>1, UserCore
    <2> QED
      BY <2>2, <2>3, <2>4, <2>5, <2>6, <2>7, <2>8
  <1> QED
    BY <1>11, <1>12, <1>13 DEF Sensible

LEMMA SensibleCreate ==
  ASSUME OneUser, TypeOK, Sensible, NEW u \in Users, CreateThreads(u)
  PROVE  Sensible'
  <1>1. PICK p \in Protons : pc[p] = "none" /\ pc' = [pc EXCEPT ![u] = "wait", ![p] = "loop"]
    BY DEF CreateThreads
  <1>2. u \in Threads /\ p \in Threads /\ u # p /\ pc[u] = "threads" /\ \A v \in Users : v = u
    BY Distinct DEF OneUser, CreateThreads
  <1>3. /\ pc'[u] = "wait" /\ pc'[p] = "loop" /\ \A x \in Threads \ {u, p} : pc'[x] = pc[x]
        /\ UNCHANGED <<state, lastStateError, target, back, raised>>
    BY <1>1, <1>2 DEF CreateThreads, TypeOK
  <1>4. Places'
    <2>1. \A v \in Users : UserPlaces(v)'
      BY <1>2, <1>3 DEF UserPlaces, UserPCs, InChange
    <2>2. \A q \in Protons : ProtonPlaces(q)'
      BY <1>2, <1>3, Distinct DEF Sensible, Places, ProtonPlaces, ProtonPCs, InChange
    <2>3. \A x \in IOThreads \cup {Command} : OtherPlaces(x)'
      BY <1>2, <1>3, Distinct DEF Sensible, Places, OtherPlaces, InChange
    <2> QED
      BY <2>1, <2>2, <2>3 DEF Places
  <1>5. ASSUME ~overlap' PROVE Core'
    <2>1. ~overlap /\ \A q \in Protons : ~Alive(q)
      BY <1>5 DEF CreateThreads, Alive
    <2>2. Core
      BY <2>1 DEF Sensible
    <2>3. \A q \in Protons : pc'[q] \in {"none", "dead", "loop"} /\ (Alive(q)' => q = p)
      BY <1>3, <2>1, <1>2, Distinct DEF Alive
    <2>4. HasStarted(u)
      BY <1>2 DEF HasStarted
    <2> QED
      BY <1>2, <1>3, <2>2, <2>3, <2>4 DEF Core, OneAlive, NotStopped, ReasonKept, Raised
  <1> QED
    BY <1>4, <1>5 DEF Sensible

LEMMA SensibleProton ==
  ASSUME OneUser, TypeOK, Sensible, NEW p \in Protons, Proton(p)
  PROVE  Sensible'
  <1>1. p \in Threads /\ Nil \notin {"network", "fatal"}
    BY ThreadsAssumption DEF Threads
  <1>2. Loop(p) =>
          /\ pc[p] = "loop" /\ raised' = raised /\ overlap' = overlap
          /\ \/ Goes(p, "dead") \/ Goes(p, "monitor")
             \/ Goes(p, "attempt") /\ state \in {"starting", "retrying"}
    BY <1>1, GotoGoes DEF Loop, runner
  <1>3. Attempt(p) =>
          /\ pc[p] = "attempt" /\ raised' = raised /\ overlap' = overlap
          /\ Does(p, "starting", Nil, "outcome")
    BY <1>1, EnterDoes DEF Attempt
  <1>4. Connected(p) =>
          /\ pc[p] = "outcome" /\ raised' = raised /\ overlap' = overlap
          /\ Does(p, "started", Nil, "monitor")
    BY <1>1, EnterDoes DEF Connected
  <1>5. NoServices(p) \/ ConnectFails(p) =>
          /\ pc[p] \in {"attempt", "outcome"} /\ raised' = raised /\ overlap' = overlap
          /\ Does(p, "retrying", "network", "monitor") \/ Does(p, "stopped", "fatal", "monitor")
    BY <1>1, EnterDoes DEF NoServices, ConnectFails
  <1>6. Monitor(p) =>
          /\ pc[p] = "monitor" /\ raised' = raised /\ overlap' = overlap
          /\ \/ Goes(p, "loop")
             \/ state = "started" /\ Does(p, "retrying", "network", "loop")
             \/ state = "started" /\ Does(p, "stopped", "fatal", "loop")
    BY <1>1, EnterDoes, GotoGoes DEF Monitor, runner
  <1>7. /\ OnlyOf(p) /\ raised' = raised /\ overlap' = overlap /\ state' = state /\ Alive(p)
    BY <1>2, <1>3, <1>4, <1>5, <1>6 DEF Does, Goes, Proton, Alive
  <1>8. Places'
    <2>1. ProtonPlaces(p)'
      <3>1. CASE Loop(p)
        BY <1>2, <3>1 DEF Goes, ProtonPlaces, ProtonPCs, InChange
      <3>2. CASE Attempt(p)
        BY <1>3, <3>2 DEF Does, ProtonPlaces, ProtonPCs, InChange
      <3>3. CASE Connected(p)
        BY <1>4, <3>3 DEF Does, ProtonPlaces, ProtonPCs, InChange
      <3>4. CASE NoServices(p) \/ ConnectFails(p)
        BY <1>5, <3>4 DEF Does, ProtonPlaces, ProtonPCs, InChange
      <3>5. CASE Monitor(p)
        BY <1>6, <3>5 DEF Does, Goes, ProtonPlaces, ProtonPCs, InChange
      <3> QED
        BY <3>1, <3>2, <3>3, <3>4, <3>5 DEF Proton
    <2> QED
      BY <1>1, <1>7, <2>1, Distinct, PlacesOf DEF Sensible
  <1>9. ASSUME Core PROVE Core'
    <2>1. (\A u \in Users : ~Stopping(u)) /\ pc[p] \in {"attempt", "outcome"} => state # "stopped"
      BY <1>9 DEF Core, NotStopped
    <2>2. CASE Loop(p)
      BY <1>2, <1>7, <1>9, <2>2, ProtonCore DEF Goes
    <2>3. CASE Attempt(p)
      <3>1. pc'[p] = "outcome" \/ (pc'[p] = "assign" /\ target'[p] = "starting")
        BY <1>3, <2>3 DEF Does
      <3>2. state' # "stopped" \/ \E u \in Users : Stopping(u)
        BY <1>3, <1>7, <2>1, <2>3
      <3> QED
        BY <1>3, <1>7, <1>9, <2>3, <3>1, <3>2, ProtonCore
    <2>4. CASE Connected(p)
      <3>1. pc'[p] = "monitor" \/ (pc'[p] = "assign" /\ target'[p] = "started")
        BY <1>4, <2>4 DEF Does
      <3>2. state' # "stopped" \/ \E u \in Users : Stopping(u)
        BY <1>4, <1>7, <2>1, <2>4
      <3> QED
        BY <1>4, <1>7, <1>9, <2>4, <3>1, <3>2, ProtonCore
    <2>5. CASE NoServices(p) \/ ConnectFails(p)
      <3>1. lastStateError' # Nil /\ pc'[p] \in {"monitor", "assign"}
        BY <1>1, <1>5, <2>5 DEF Does
      <3>2. state' # "stopped" \/ \E u \in Users : Stopping(u)
        BY <1>5, <1>7, <2>1, <2>5
      <3> QED
        BY <1>5, <1>7, <1>9, <2>5, <3>1, <3>2, ProtonCore
    <2>6. CASE Monitor(p)
      <3>1. CASE Goes(p, "loop")
        BY <1>7, <1>9, <3>1, ProtonCore DEF Goes
      <3>2. CASE ~Goes(p, "loop")
        <4>1. state' # "stopped" /\ lastStateError' # Nil /\ pc'[p] \in {"loop", "assign"}
          BY <1>1, <1>6, <1>7, <2>6, <3>2 DEF Does
        <4> QED
          BY <1>7, <1>9, <4>1, ProtonCore
      <3> QED
        BY <3>1, <3>2
    <2> QED
      BY <2>2, <2>3, <2>4, <2>5, <2>6 DEF Proton
  <1> QED
    BY <1>7, <1>8, <1>9 DEF Sensible

LEMMA SensibleOther ==
  ASSUME OneUser, TypeOK, Sensible, NEW t \in IOThreads \cup {Command},
         (t \in IOThreads /\ (LoseConnection(t) \/ ReportLoss(t))) \/ (t = Command /\ RequestFails)
  PROVE  Sensible'
  <1>1. t \in Threads /\ Nil \notin {"network", "fatal"}
    BY ThreadsAssumption, Distinct
  <1>2. CASE LoseConnection(t)
    <2>1. Goes(t, "lost") /\ raised' = raised /\ overlap' = overlap
      BY <1>1, <1>2, GotoGoes DEF LoseConnection, runner
    <2>2. OtherPlaces(t)'
      BY <2>1 DEF Goes, OtherPlaces, IOPCs, InChange
    <2>3. Places'
      BY <1>1, <2>1, <2>2, Distinct, PlacesOf DEF Goes, Sensible
    <2>4. Core => Core'
      BY <2>1, OtherCore DEF Goes
    <2> QED
      BY <2>1, <2>3, <2>4 DEF Sensible
  <1>3. CASE ReportLoss(t)
    <2>1. Does(t, "retrying", "network", "idle") /\ raised' = raised /\ overlap' = overlap
      BY <1>1, <1>3, EnterDoes DEF ReportLoss
    <2>2. OtherPlaces(t)'
      BY <2>1 DEF Does, OtherPlaces, IOPCs, InChange
    <2>3. Places'
      BY <1>1, <2>1, <2>2, Distinct, PlacesOf DEF Does, Sensible
    <2>4. Core => Core'
      BY <1>1, <2>1, OtherCore DEF Does
    <2> QED
      BY <2>1, <2>3, <2>4 DEF Sensible
  <1>4. CASE t = Command /\ RequestFails
    <2>1. Does(t, "retrying", Nil, "idle") /\ raised' = raised /\ overlap' = overlap
      BY <1>1, <1>4, EnterDoes DEF RequestFails
    <2>2. OtherPlaces(t)'
      BY <2>1 DEF Does, OtherPlaces, IOPCs, InChange
    <2>3. Places'
      BY <1>1, <2>1, <2>2, Distinct, PlacesOf DEF Does, Sensible
    <2>4. \A u \in Users : ~Starting(u)
      BY <1>4 DEF RequestFails, OneUser, Starting, InChange
    <2>5. Core => Core'
      BY <2>1, <2>4, OtherCore DEF Does
    <2> QED
      BY <2>1, <2>3, <2>5 DEF Sensible
  <1> QED
    BY <1>2, <1>3, <1>4

\* The two steps inside change_state.
LEMMA SensibleAssign ==
  ASSUME OneUser, TypeOK, Sensible, NEW t \in Threads, Assign(t)
  PROVE  Sensible'
  <1>1. /\ OnlyOf(t) /\ pc[t] = "assign" /\ state' = target[t]
        /\ pc'[t] = "push" /\ back'[t] = back[t]
        /\ UNCHANGED <<lastStateError, raised, overlap>>
    BY AssignDoes
  <1>2. Places'
    <2>1. t \in Users => UserPlaces(t)'
      BY <1>1 DEF Sensible, Places, UserPlaces, InChange
    <2>2. t \in Protons => ProtonPlaces(t)'
      BY <1>1 DEF Sensible, Places, ProtonPlaces, InChange
    <2>3. t \in IOThreads \cup {Command} => OtherPlaces(t)'
      BY <1>1 DEF Sensible, Places, OtherPlaces, InChange
    <2> QED
      BY <1>1, <2>1, <2>2, <2>3, PlacesOf DEF Sensible
  <1>3. ASSUME Core, t \in Users PROVE Core'
    <2>1. /\ back[t] \in {"threads", "stop", "join"}
          /\ back[t] = "threads" => target[t] = "starting"
          /\ back[t] = "stop" => target[t] = "stopping"
      BY <1>1, <1>3 DEF Sensible, Places, UserPlaces, InChange
    <2>2. /\ Stopping(t) <=> back[t] = "join"
          /\ Stopping(t)' <=> back[t] = "join"
          /\ HasStarted(t)' <=> back[t] = "threads"
          /\ Starting(t)' <=> back[t] = "threads"
          /\ Starting(t) <=> back[t] = "threads"
      BY <1>1 DEF Stopping, HasStarted, Starting, InChange
    <2>3. Starting(t) => \A p \in Protons :
            pc[p] = "assign" /\ target[p] = "stopped" => lastStateError # Nil
      BY <1>3 DEF Core, ReasonKept
    <2> QED
      BY <1>1, <1>3, <2>1, <2>2, <2>3, UserCore
  <1>4. ASSUME Core, t \in Protons PROVE Core'
    <2>1. back[t] \in {"outcome", "monitor", "loop"} /\ (back[t] = "outcome" => target[t] = "starting")
      BY <1>1, <1>4 DEF Sensible, Places, ProtonPlaces, InChange
    <2>2. \A u \in Users : Starting(u) => (target[t] = "stopped" => lastStateError # Nil)
      BY <1>1, <1>4 DEF Core, ReasonKept
    <2>3. Alive(t)
      BY <1>1 DEF Alive
    <2>4. \/ lastStateError' # Nil
          \/ state' # "stopped"
          \/ \A u \in Users : ~Starting(u)
      BY <1>1, <2>2
    <2> QED
      BY <1>1, <1>4, <2>1, <2>3, <2>4, ProtonCore
  <1>5. ASSUME Core, t \in IOThreads \cup {Command} PROVE Core'
    <2>1. state' = "retrying"
      BY <1>1, <1>5 DEF Sensible, Places, OtherPlaces
    <2> QED
      BY <1>1, <1>5, <2>1, OtherCore
  <1> QED
    BY <1>1, <1>2, <1>3, <1>4, <1>5 DEF Sensible, Threads

LEMMA SensiblePush ==
  ASSUME OneUser, TypeOK, Sensible, NEW t \in Threads, Push(t)
  PROVE  Sensible'
  <1>1. /\ OnlyOf(t) /\ pc[t] \in {"push", "queue"} /\ pc'[t] = back[t]
        /\ UNCHANGED <<state, lastStateError, raised, overlap>>
    BY PushDoes
  <1>2. /\ t \in Users => back[t] \in {"threads", "stop", "join"}
        /\ t \in Protons => back[t] \in {"outcome", "monitor", "loop"}
        /\ t \in IOThreads \cup {Command} => back[t] = "idle"
    BY <1>1 DEF Sensible, Places, UserPlaces, ProtonPlaces, OtherPlaces, InChange
  <1>3. Places'
    <2>1. t \in Users => UserPlaces(t)'
      BY <1>1, <1>2 DEF UserPlaces, InChange, UserPCs
    <2>2. t \in Protons => ProtonPlaces(t)'
      BY <1>1, <1>2 DEF ProtonPlaces, InChange, ProtonPCs
    <2>3. t \in IOThreads \cup {Command} => OtherPlaces(t)'
      BY <1>1, <1>2 DEF OtherPlaces, InChange, IOPCs
    <2> QED
      BY <1>1, <2>1, <2>2, <2>3, PlacesOf DEF Sensible
  <1>4. ASSUME Core, t \in Users PROVE Core'
    <2>1. /\ Stopping(t) <=> back[t] = "join"
          /\ Stopping(t)' <=> back[t] = "join"
          /\ HasStarted(t) <=> back[t] = "threads"
          /\ HasStarted(t)' <=> back[t] = "threads"
          /\ Starting(t)' <=> back[t] = "threads"
          /\ Starting(t) <=> back[t] = "threads"
      BY <1>1, <1>2, <1>4 DEF Stopping, HasStarted, Starting, InChange
    <2>2. /\ HasStarted(t) /\ state = "stopped" => lastStateError # Nil
          /\ Starting(t) => \A p \in Protons :
               pc[p] = "assign" /\ target[p] = "stopped" => lastStateError # Nil
      BY <1>4 DEF Core, ReasonKept
    <2> QED
      BY <1>1, <1>4, <2>1, <2>2, UserCore
  <1>5. ASSUME Core, t \in Protons PROVE Core'
    <2>1. (\A u \in Users : ~Stopping(u)) => (back[t] = "outcome" => state # "stopped")
      BY <1>1, <1>5 DEF Core, NotStopped
    <2>2. Alive(t)
      BY <1>1 DEF Alive
    <2> QED
      BY <1>1, <1>2, <1>5, <2>1, <2>2, ProtonCore
  <1>6. ASSUME Core, t \in IOThreads \cup {Command} PROVE Core'
    BY <1>1, <1>6, OtherCore
  <1> QED
    BY <1>1, <1>3, <1>4, <1>5, <1>6 DEF Sensible, Threads

LEMMA SensibleRead ==
  ASSUME OneUser, TypeOK, Sensible, NEW t \in Threads, ReadState(t)
  PROVE  Sensible'
  <1>1. /\ OnlyOf(t) /\ pc[t] = "push" /\ pc'[t] = "queue" /\ back'[t] = back[t]
        /\ UNCHANGED <<state, lastStateError, raised, overlap>>
    BY ReadDoes
  <1>2. Places'
    <2>1. t \in Users => UserPlaces(t)'
      BY <1>1 DEF Sensible, Places, UserPlaces, InChange
    <2>2. t \in Protons => ProtonPlaces(t)'
      BY <1>1 DEF Sensible, Places, ProtonPlaces, InChange
    <2>3. t \in IOThreads \cup {Command} => OtherPlaces(t)'
      BY <1>1 DEF Sensible, Places, OtherPlaces, InChange
    <2> QED
      BY <1>1, <2>1, <2>2, <2>3, PlacesOf DEF Sensible
  <1>3. ASSUME Core, t \in Users PROVE Core'
    <2>1. /\ Stopping(t)' <=> Stopping(t)
          /\ HasStarted(t)' <=> HasStarted(t)
          /\ Starting(t)' <=> Starting(t)
      BY <1>1 DEF Stopping, HasStarted, Starting, InChange
    <2>2. /\ HasStarted(t) /\ state = "stopped" => lastStateError # Nil
          /\ Starting(t) => \A p \in Protons :
               pc[p] = "assign" /\ target[p] = "stopped" => lastStateError # Nil
      BY <1>3 DEF Core, ReasonKept
    <2> QED
      BY <1>1, <1>3, <2>1, <2>2, UserCore
  <1>4. ASSUME Core, t \in Protons PROVE Core'
    <2>1. (\A u \in Users : ~Stopping(u)) => (back[t] = "outcome" => state # "stopped")
      BY <1>1, <1>4 DEF Core, NotStopped
    <2>2. Alive(t)
      BY <1>1 DEF Alive
    <2> QED
      BY <1>1, <1>4, <2>1, <2>2, ProtonCore
  <1>5. ASSUME Core, t \in IOThreads \cup {Command} PROVE Core'
    BY <1>1, <1>5, OtherCore
  <1> QED
    BY <1>1, <1>2, <1>3, <1>4, <1>5 DEF Sensible, Threads

LEMMA SensibleInit == Init => Sensible
  <1> SUFFICES ASSUME Init PROVE Sensible
    OBVIOUS
  <1>1. /\ \A u \in Users : pc[u] = "idle" /\ u \notin Protons /\ raised[u] # Nil
        /\ \A p \in Protons : pc[p] = "none"
        /\ \A t \in IOThreads \cup {Command} : pc[t] = "idle"
    <2>1. pc = [t \in Threads |-> IF t \in Protons THEN "none" ELSE "idle"]
      BY DEF Init
    <2>2. \A t \in IOThreads \cup {Command} : t \in Threads /\ t \notin Protons
      BY Distinct
    <2>3. \A u \in Users : u \in Threads /\ u \notin Protons
      BY Distinct
    <2>4. \A p \in Protons : p \in Threads
      BY DEF Threads
    <2>5. \A u \in Users : raised[u] # Nil
      BY ThreadsAssumption DEF Init
    <2>6. \A t \in Threads : pc[t] = IF t \in Protons THEN "none" ELSE "idle"
      BY <2>1
    <2> QED
      BY <2>2, <2>3, <2>4, <2>5, <2>6
  <1>2. Places
    BY <1>1 DEF Places, UserPlaces, ProtonPlaces, OtherPlaces, UserPCs, ProtonPCs, IOPCs, InChange
  <1>3. Core
    BY <1>1 DEF Core, OneAlive, NotStopped, ReasonKept, Raised, Alive, Starting, HasStarted, InChange
  <1> QED
    BY <1>2, <1>3 DEF Sensible

\* A step that leaves change_state's variables alone.
LEMMA SensibleStays ==
  ASSUME Sensible, UNCHANGED <<change, raised, overlap>>
  PROVE  Sensible'
  BY DEF change, Sensible, Places, UserPlaces, ProtonPlaces, OtherPlaces, InChange,
         Core, OneAlive, NotStopped, ReasonKept, Raised, Alive, Stopping, Starting, HasStarted

LEMMA SensibleNext ==
  ASSUME OneUser, TypeOK, Sensible, [Next]_vars
  PROVE  Sensible'
  <1>1. CASE \E u \in Users : Start(u) \/ Stop(u) \/ Request(u) \/ User(u)
    BY <1>1, SensibleUser, SensibleCreate DEF User
  <1>2. CASE \E p \in Protons : Proton(p)
    BY <1>2, SensibleProton
  <1>3. CASE (\E i \in IOThreads : LoseConnection(i) \/ ReportLoss(i)) \/ RequestFails
    BY <1>3, SensibleOther
  <1>4. CASE \E t \in Threads : Assign(t) \/ ReadState(t) \/ Push(t)
    BY <1>4, SensibleAssign, SensibleRead, SensiblePush
  <1>5. CASE \E c \in Callbacks : CallbackThread(c)
    BY <1>5, SensibleStays DEF CallbackThread, CheckStopped, CheckEmpty, Pop, CallBack, KeepChange
  <1>6. CASE UNCHANGED vars
    BY <1>6, SensibleStays DEF vars, runner
  <1> QED
    BY <1>1, <1>2, <1>3, <1>4, <1>5, <1>6 DEF Next

\* When one application thread uses the client, a start that fails because the
\* client was stopped raises a reason, unless a start was made beside a proton
\* thread that a stop by the network or the server has left
\* (blocking_client.rb:262, thread_vars.rb:155-157).
THEOREM FailedStartsAreExplained ==
  ASSUME OneUser
  PROVE  Spec => []FailedStartHasReason
  <1>1. Sensible => FailedStartHasReason
    BY DEF Sensible, Core, Raised, FailedStartHasReason
  <1>2. TypeOK /\ Sensible /\ [Next]_vars => Sensible'
    BY SensibleNext
  <1> QED
    BY <1>1, <1>2, SensibleInit, TypesHold, PTL DEF Spec

=============================================================================
