------------------------------ MODULE Cproton ------------------------------
(***************************************************************************)
(* The cproton extension at work: threads of Ruby call its functions, each *)
(* call converts its arguments, enters the Proton library and converts the *)
(* result, under Ruby's global lock (GVL), which the wrappers of the calls *)
(* that may wait release when the extension was built for Ruby 1.9 to 2.1. *)
(* The calls that the client makes come under the monitor of its           *)
(* ProtonContainer; the application sets the time to live of its messages  *)
(* outside of it.                                                          *)
(*                                                                         *)
(* The library is external: a call of it returns any result of its type.   *)
(***************************************************************************)
EXTENDS CprotonObject, CprotonEngine, CprotonTransfer, CprotonMessage, CprotonMessenger,
        CprotonIO, CprotonCodec, CprotonReactor

CONSTANTS
  Threads,       \* threads of Ruby
  Workloads,     \* what they do, and how the extension was built
  MsPerSecond,   \* 1000 in the code
  None

Roles  == {"any", "client", "user", "nothing"}
Builds == {"releases", "holds"}

ASSUME CprotonAssumption ==
  /\ Workloads \subseteq [Threads -> Roles] \X Builds
  /\ MsPerSecond \in Nat \ {0}
  /\ None \notin Threads

VARIABLES
  role,       \* what each thread does
  build,      \* "releases": built for Ruby 1.9 to 2.1; "holds": for a later one
  gvl,        \* the thread that has the global lock
  container,  \* the thread that has the monitor of the ProtonContainer
  blocking,   \* is the messenger blocking?
  call        \* the call that each thread is in

vars == <<role, build, gvl, container, blocking, call>>

Functions ==
  ObjectFunctions @@ EngineFunctions @@ TransferFunctions @@ MessageFunctions
  @@ MessengerFunctions @@ IOFunctions @@ CodecFunctions @@ ReactorFunctions

\* Those that the client's threads call, of all that set up and use a connection the ones
\* that differ in their arguments or in the locks.
ClientFunctions ==
  {"pn_messenger_work", "pn_messenger_put", "pn_messenger_send", "pn_messenger_recv",
   "pn_messenger_set_timeout", "pn_messenger_outgoing_tracker", "pn_messenger_subscribe_ttl",
   "pn_messenger_error", "pn_connection_push", "pn_transport_peek"}

\* What the proofs use of the tables.  It has no parameter: TLC's evaluation of it is
\* complete.  A buffer is the last argument, of a function that has no contract.
ASSUME FunctionsAssumption ==
  /\ ClientFunctions \cup {"pn_message_set_ttl"} \subseteq DOMAIN Functions
  /\ \A name \in ClientFunctions \ {"pn_transport_peek"} :
       \A i \in DOMAIN Functions[name].params : Functions[name].params[i] # "buffer"
  /\ \A name \in DOMAIN Functions :
       LET fn == Functions[name]
       IN  /\ fn.params \in Seq(STRING)
           /\ \A i \in DOMAIN fn.params :
                /\ fn.params[i] \notin Plain
                /\ fn.params[i] = "buffer" =>
                     /\ i = Len(fn.params) /\ fn.required = {} /\ fn.ensures = "nothing"
                     /\ \A j \in DOMAIN fn.params :
                          fn.params[j] \notin {"error_code", "sasl_outcome"}
  /\ Functions["pn_message_set_ttl"].params = <<"pn_message_t", "uint32">>
  /\ Functions["pn_messenger_subscribe_ttl"].params = <<"pn_messenger_t", "chars", "uint32">>
  /\ Functions["pn_connection_push"].params = <<"pn_connection_t", "chars", "size">>
  /\ Functions["pn_transport_peek"].params = <<"pn_transport_t", "buffer">>

(* A call: how far it is, the function and its arguments, the milliseconds *)
(* that a time to live was asked for, what the library received (once it   *)
(* was entered) and gave, what Ruby gets, and the buffers allocated for it.*)
Idle == [step |-> "idle", fn |-> "", given |-> <<>>, asked |-> -1, received |-> <<>>,
         entered |-> FALSE, result |-> 0, outcome |-> Nil, raised |-> "", buffers |-> 0]

Steps == {"idle", "called", "inside", "back", "done"}

-----------------------------------------------------------------------------
(* Which calls are made.                                                   *)

\* Arguments of each kind that tell its conversion apart: the ends of its range and the
\* numbers next to them, nil, and values of other classes.
Width(kind) ==
  CASE kind \in {"int8", "uint8"}   -> CharBits
    [] kind \in {"int16", "uint16"} -> ShortBits
    [] kind \in {"int64", "uint64", "ulong", "size", "buffer", "decimal64"} -> LongBits
    [] OTHER -> IntBits
Numbers(kind) ==
  LET w == Width(kind)
  IN  {-(2^(w - 1)) - 1, -(2^(w - 1)), -1, 0, 2^(w - 1) - 1, 2^(w - 1), 2^w - 1, 2^w}
Integers_ == {"int", "error_code", "sasl_outcome", "int8", "int16", "int32", "int64", "uint8",
              "uint16", "uint32", "uint64", "ulong", "size", "buffer", "decimal32", "decimal64"}
Samples(kind) ==
  CASE kind \in Integers_ -> {Integer(n) : n \in Numbers(kind)} \cup {Nil}
    [] kind \in {"float", "double"} -> {Val("Float", 0), Integer(1), Nil}
    [] kind = "bool" -> {Bool(TRUE), Bool(FALSE), Integer(2), Integer(2^IntBits), Nil}
    [] kind \in {"chars", "bytes"} -> {String(0), String(2), Nil, Val("char", Address), Integer(0)}
    [] kind = "atom"  -> {Nil, Bool(TRUE), String(2), Integer(2^(IntBits - 1))}
    [] kind = "data"  -> {Nil, String(2)}
    [] kind = "array" -> {Val("Array", 0)}
    [] kind = "value" -> {Nil, Other}
    [] OTHER -> {Val(kind, Address), Nil, IF kind = "void" THEN Other ELSE Val("pn_cid_t", Address)}
                \cup (IF kind \in Guarded THEN {Val(kind, 0)} ELSE {})

\* One of them that every conversion takes.
Usual(kind) ==
  CASE kind = "error_code" -> Integer(-1)
    [] kind \in Integers_ \ {"error_code"} -> Integer(1)
    [] kind \in {"float", "double"} -> Val("Float", 0)
    [] kind = "bool" -> Bool(FALSE)
    [] kind \in {"chars", "bytes", "data", "atom"} -> String(2)
    [] kind = "array" -> Val("Array", 0)
    [] kind = "value" -> Other
    [] OTHER -> Val(kind, Address)

\* Any function, with its usual arguments, with one of them replaced, with one too few
\* or too many.
Arguments(fn) ==
  LET usual == [i \in DOMAIN fn.params |-> Usual(fn.params[i])]
      fewer == IF Len(usual) > (IF fn.receiver THEN 1 ELSE 0)
               THEN {SubSeq(usual, 1, Len(usual) - 1)} ELSE {}
  IN  {usual, Append(usual, Nil)} \cup fewer
      \cup UNION {{[usual EXCEPT ![i] = v] : v \in Samples(fn.params[i])} : i \in DOMAIN usual}

\* A time to live in milliseconds is at most 2^32 - 1.
MaxTtl == 2^IntBits - 1
Least(m, n) == IF m < n THEN m ELSE n
Asked == {0, 1, MsPerSecond - 1, MsPerSecond, MaxTtl, MaxTtl + 1, 2^LongBits}

\* Mutated form: no cap.
UncappedTtl(ms) == ms

\* Destination: the time to live is capped and becomes seconds.
DestinationTtl(ms) == Least(ms, MaxTtl) \div MsPerSecond

\* BlockingClient.send: a time to live is positive, and capped.
SendTtl(ms) == Least(ms, MaxTtl)

Messenger  == Val("pn_messenger_t", Address)
Connection == Val("pn_connection_t", Address)
Transport  == Val("pn_transport_t", Address)
\* The message that a client's thread puts, and the one that an application makes.
ItsMessage == Val("pn_message_t", 1)
OwnMessage == Val("pn_message_t", 2)

Made(name, given, ms) == [fn |-> name, given |-> given, asked |-> ms]

\* How many bytes a read of the socket gives, or are left of it after a part was taken.
Lengths == {1, 2}

\* ProtonContainer and its DeliveryMessage.  The messenger may have been freed, and is nil
\* then.  proton_push says how long the string is.  ProtonContainer#error does not take the
\* monitor, but all that call it, check_for_error of the calls below, have it.
ClientCalls ==
  {Made("pn_transport_peek", <<Transport, Integer(1)>>, -1)}
  \cup {Made("pn_connection_push", <<Connection, String(n), Integer(n)>>, -1) : n \in Lengths}
  \cup UNION {{Made("pn_messenger_error", <<m>>, -1),
               Made("pn_messenger_work", <<m, Integer(1)>>, -1),
               Made("pn_messenger_put", <<m, ItsMessage>>, -1),
               Made("pn_messenger_send", <<m, Integer(1)>>, -1),
               Made("pn_messenger_recv", <<m, Integer(-2)>>, -1),
               Made("pn_messenger_set_timeout", <<m, Integer(-1)>>, -1),
               Made("pn_messenger_outgoing_tracker", <<m>>, -1)}
              \cup {Made("pn_messenger_subscribe_ttl",
                         <<m, String(2), Integer(DestinationTtl(ms))>>, ms) : ms \in Asked}
              : m \in {Messenger, Nil}}

UserCalls == {Made("pn_message_set_ttl", <<OwnMessage, Integer(SendTtl(ms))>>, ms)
              : ms \in Asked \ {0}}

AllCalls == UNION {{Made(name, given, -1) : given \in Arguments(Functions[name])}
                   : name \in DOMAIN Functions}

CallsOf(r) ==
  CASE r = "any" -> AllCalls [] r = "client" -> ClientCalls [] r = "user" -> UserCalls
    [] OTHER -> {}

-----------------------------------------------------------------------------
(* What a call does.                                                       *)

FnOf(c) == Functions[c.fn]

Converted(c) == [i \in DOMAIN FnOf(c).params |-> Convert(FnOf(c).params[i], c.given[i])]

CountIsRight(c) ==
  LET n == Len(FnOf(c).params)
  IN  IF FnOf(c).varargs THEN Len(c.given) >= n ELSE Len(c.given) = n

\* The arguments are converted in order, up to the first that fails.
Refused(c) == {i \in DOMAIN FnOf(c).params : Converted(c)[i].code # "OK"}
First(S)   == CHOOSE i \in S : \A j \in S : i <= j

Received(c) == [i \in DOMAIN FnOf(c).params |-> Converted(c)[i].c]

\* Mutated form: a buffer is allocated before its size is converted.
AllocatedEarly(c, n) ==
  Cardinality({i \in DOMAIN FnOf(c).params : i <= n + 1 /\ FnOf(c).params[i] = "buffer"})

\* The buffers allocated for the first n arguments.
Allocated(c, n) == Cardinality({i \in 1 .. n : FnOf(c).params[i] = "buffer"})

\* What is raised instead of entering the library, and how many buffers there are then.
Refusal(c) ==
  CASE ~CountIsRight(c) -> [code |-> "ValueError", buffers |-> 0]
    [] CountIsRight(c) /\ Refused(c) # {} ->
         LET i == First(Refused(c))
         IN  [code |-> Converted(c)[i].code, buffers |-> Allocated(c, i - 1)]
    [] CountIsRight(c) /\ Refused(c) = {} /\ ~Required(FnOf(c), Received(c)) ->
         [code |-> "RuntimeError", buffers |-> Allocated(c, Len(FnOf(c).params))]
    [] OTHER -> [code |-> "OK", buffers |-> 0]

\* The calls that may wait for the network.
MayWait(c) ==
  \/ c.fn \in {"pn_messenger_send", "pn_messenger_recv"} /\ blocking
  \/ c.fn = "pn_messenger_work" /\ c.received[2].val # 0

\* Mutated form: pn_messenger_work keeps the lock.
ReleasesForTransfers(c) == build = "releases" /\ MayWait(c) /\ c.fn # "pn_messenger_work"

\* wrap_pn_messenger_send, _recv and _work: only a call that may wait gives up the lock.
Releases(c) == build = "releases" /\ MayWait(c)

\* In that build the send of a messenger that is not blocking is left out.
Skipped(c) == build = "releases" /\ c.fn = "pn_messenger_send" /\ ~blocking

Init ==
  /\ \E w \in Workloads : role = w[1] /\ build = w[2]
  /\ gvl = None
  /\ container = None
  /\ blocking = TRUE
  /\ call = [t \in Threads |-> Idle]

Unchanged == UNCHANGED <<role, build>>

\* A thread of Ruby runs only with the global lock; a call of the library that gave it up
\* takes it again to come back.
TakeGVL(t) ==
  /\ gvl = None /\ call[t].step # "inside" /\ role[t] # "nothing"
  /\ gvl' = t
  /\ UNCHANGED <<container, blocking, call>> /\ Unchanged

\* Ruby switches threads between calls, never in the wrapper.
YieldGVL(t) ==
  /\ gvl = t /\ call[t].step \in {"idle", "done"}
  /\ gvl' = None
  /\ UNCHANGED <<container, blocking, call>> /\ Unchanged

\* @container.synchronize
Lock(t) ==
  /\ gvl = t /\ role[t] = "client" /\ call[t].step = "idle"
  /\ container = None /\ container' = t
  /\ UNCHANGED <<gvl, blocking, call>> /\ Unchanged

Unlock(t) ==
  /\ gvl = t /\ container = t /\ call[t].step = "idle"
  /\ container' = None
  /\ UNCHANGED <<gvl, blocking, call>> /\ Unchanged

\* Mutated form: no synchronized block.
MayCallAnyTime(t) == TRUE

\* Every call of the client that is listed comes from a synchronized block.
MayCall(t) == role[t] = "client" => container = t

Call(t) ==
  /\ gvl = t /\ call[t].step = "idle" /\ MayCall(t)
  /\ \E made \in CallsOf(role[t]) :
       call' = [call EXCEPT ![t] = [Idle EXCEPT !.step = "called", !.fn = made.fn,
                                                !.given = made.given, !.asked = made.asked]]
  /\ UNCHANGED <<gvl, container, blocking>> /\ Unchanged

\* An exception jumps out of the wrapper: what stands after "fail:" is not executed.
Raise(t) ==
  LET refusal == Refusal(call[t])
  IN  /\ call[t].step = "called" /\ refusal.code # "OK"
      /\ call' = [call EXCEPT ![t] = [Idle EXCEPT !.step = "done", !.fn = call[t].fn,
                                                  !.raised = ErrorType(refusal.code),
                                                  !.buffers = refusal.buffers]]
      /\ UNCHANGED <<gvl, container, blocking>> /\ Unchanged

Enter(t) ==
  LET c == [call[t] EXCEPT !.step = "inside", !.entered = TRUE,
                           !.received = Received(call[t]),
                           !.buffers = Allocated(call[t], Len(FnOf(call[t]).params))]
  IN  /\ call[t].step = "called" /\ Refusal(call[t]).code = "OK" /\ ~Skipped(call[t])
      /\ call' = [call EXCEPT ![t] = c]
      /\ gvl' = IF Releases(c) THEN None ELSE gvl
      /\ UNCHANGED <<container, blocking>> /\ Unchanged

Skip(t) ==
  /\ call[t].step = "called" /\ Refusal(call[t]).code = "OK" /\ Skipped(call[t])
  /\ call' = [call EXCEPT ![t] = [Idle EXCEPT !.step = "back", !.fn = call[t].fn]]
  /\ UNCHANGED <<gvl, container, blocking>> /\ Unchanged

\* External; the arguments are not used again.  pn_messenger_set_blocking is the one call
\* whose effect the wrappers of later calls depend on.
LibraryReturns(t) ==
  /\ call[t].step = "inside"
  /\ \E r \in Results(FnOf(call[t]).result) :
       call' = [call EXCEPT ![t] = [@ EXCEPT !.step = "back", !.given = <<>>, !.received = <<>>,
                                             !.asked = -1, !.result = r]]
  /\ blocking' = IF call[t].fn = "pn_messenger_set_blocking" /\ call[t].received[1].val # 0
                 THEN call[t].received[2].val # 0 ELSE blocking
  /\ UNCHANGED <<gvl, container>> /\ Unchanged

Return(t) ==
  LET fn == FnOf(call[t])
  IN  /\ gvl = t /\ call[t].step = "back"
      /\ IF Ensured(fn, call[t].result)
         THEN call' = [call EXCEPT ![t].step = "done", ![t].buffers = 0,
                                   ![t].outcome = FromResult(fn.result, call[t].result)]
         ELSE call' = [call EXCEPT ![t].step = "done", ![t].raised = ErrorType("RuntimeError")]
      /\ UNCHANGED <<gvl, container, blocking>> /\ Unchanged

\* Ruby goes on with the value or the exception.
Forget(t) ==
  /\ gvl = t /\ call[t].step = "done"
  /\ call' = [call EXCEPT ![t] = Idle]
  /\ UNCHANGED <<gvl, container, blocking>> /\ Unchanged

Next == \E t \in Threads :
  TakeGVL(t) \/ YieldGVL(t) \/ Lock(t) \/ Unlock(t) \/ Call(t) \/ Raise(t) \/ Enter(t)
    \/ Skip(t) \/ LibraryReturns(t) \/ Return(t) \/ Forget(t)

Spec == Init /\ [][Next]_vars

(* Ruby hands the global lock on, to every thread that waits for it.  A    *)
(* call of the library that does not wait for the network ends; nothing is *)
(* assumed of one that may.                                                *)
ReturnsSoon(t) == LibraryReturns(t) /\ ~MayWait(call[t])
Fairness == \A t \in Threads :
  /\ SF_vars(TakeGVL(t)) /\ SF_vars(YieldGVL(t))
  /\ WF_vars(Raise(t) \/ Enter(t) \/ Skip(t)) /\ WF_vars(ReturnsSoon(t))
  /\ WF_vars(Return(t))
FairSpec == Spec /\ Fairness

-----------------------------------------------------------------------------
(* Properties.                                                             *)

TypeOK ==
  /\ <<role, build>> \in Workloads
  /\ gvl \in Threads \cup {None} /\ container \in Threads \cup {None}
  /\ blocking \in BOOLEAN
  /\ \A t \in Threads :
       /\ call[t].step \in Steps
       /\ call[t].step # "idle" => call[t].fn \in DOMAIN Functions
       /\ call[t].raised \in {"", "TypeError", "RangeError", "RuntimeError", "ArgumentError",
                              "ObjectPreviouslyDeleted"}
       /\ call[t].buffers \in Nat

(* The library receives the number that Ruby passed, for every function    *)
(* and argument, whatever the order and types of the conversions; where    *)
(* the binding is known to wrap (a negative number for an unsigned long,   *)
(* and everything that is cast to 32 bits) it is congruent.  The values    *)
(* next to the ends of each range are passed.                              *)
ArgumentsIntact ==
  \A t \in Threads : call[t].step = "inside" =>
    \A i \in DOMAIN call[t].received :
      LET kind == FnOf(call[t]).params[i]
          v    == call[t].given[i]
          n    == call[t].received[i].val
      IN  v.type = "Integer" =>
            /\ kind \in {"int", "error_code", "sasl_outcome", "int8", "int16", "int64"}
                 => n = v.val
            /\ kind \in {"uint8", "uint16"} => n = v.val
            /\ kind \in {"uint64", "ulong", "size"}
                 => n >= 0 /\ (n - v.val) % 2^LongBits = 0
            /\ kind \in {"uint32", "int32", "atom"} => (n - v.val) % 2^IntBits = 0

(* Where the wrapper makes a string and its length, or a buffer for output *)
(* and its size, of one argument, the library is never told of more bytes  *)
(* than there are, except for nil passed as such a string, and for the     *)
(* size -1, whose buffer has no byte.  Where a function takes a string and *)
(* a size apart the wrapper checks nothing, and nothing is claimed of any  *)
(* size: but those that the client passes are right (connection.rb:377,    *)
(* proton_container.rb:718, :836), and its buffers have room.              *)
BoundsHold ==
  \A t \in Threads : call[t].step = "inside" =>
    /\ \A i \in DOMAIN call[t].received :
         LET kind == FnOf(call[t]).params[i]
             c    == call[t].received[i]
         IN  /\ kind = "bytes" /\ call[t].given[i] # Nil => c.told < c.room
             /\ kind = "buffer" /\ (c.room # 0 \/ role[t] = "client") => c.told < c.room
    /\ role[t] = "client" /\ call[t].fn = "pn_connection_push" =>
         call[t].received[3].val < call[t].received[2].room

(* A call that raises has left nothing behind: no buffer, as the jump      *)
(* passes over the code that frees it, and, the functions that check their *)
(* result apart, no effect in the library.  One that returns has been in   *)
(* it, unless it was a send that the wrapper leaves out.                   *)
RaiseLeavesNothing ==
  \A t \in Threads :
    LET c == call[t] IN
    c.step = "done" =>
      /\ c.buffers = 0
      /\ c.raised # "" /\ c.entered => FnOf(c).ensures # "nothing"
      /\ c.raised = "" /\ ~c.entered =>
           build = "releases" /\ ~blocking /\ c.fn = "pn_messenger_send"

(* Ruby gets the number that the library returned.  A size (ssize_t) is    *)
(* cast to int on the way: it arrives if it fits.                          *)
ResultsIntact ==
  \A t \in Threads :
    LET c == call[t]
        kind == FnOf(c).result
    IN  c.step = "done" /\ c.raised = "" /\ kind \in Numeric =>
          \/ c.outcome = Integer(c.result)
          \/ kind = "ssize" /\ c.result \notin Signed(IntBits)

(* Only one thread at a time works in the library on an object, though the *)
(* global lock is given up during the calls that wait: the monitor of the  *)
(* ProtonContainer sees to it.                                             *)
ObjectsOf(c) == {c.given[i] : i \in {j \in DOMAIN c.given : c.given[j].type \notin Plain}}
OneThreadInProton ==
  \A t, u \in Threads :
    t # u /\ call[t].step = "inside" /\ call[u].step = "inside" =>
      ObjectsOf(call[t]) \cap ObjectsOf(call[u]) = {}

(* The time to live that an application gives in milliseconds is capped    *)
(* and not wrapped by the cast to 32 bits on its way.  That of a message   *)
(* reaches Proton to the millisecond; that of a destination, which Proton  *)
(* takes in seconds, if it is a whole number of them.  Of any other the    *)
(* code drops the milliseconds (destination.rb:85): 1 to 999 become 0,     *)
(* which means none, and nothing is claimed of them here.                  *)
TtlIsHonoured ==
  \A t \in Threads :
    LET c   == call[t]
        ttl == c.received[Len(c.received)].val
    IN  c.step = "inside" /\ c.asked >= 0 =>
          /\ c.fn = "pn_message_set_ttl" => ttl = Least(c.asked, MaxTtl)
          /\ c.fn = "pn_messenger_subscribe_ttl" =>
               /\ c.asked > MaxTtl => ttl = MaxTtl \div MsPerSecond
               /\ c.asked <= MaxTtl /\ c.asked % MsPerSecond = 0 => ttl * MsPerSecond = c.asked

(* The application gets the global lock again and again, even if a call of *)
(* the client waits in the library for ever: in the builds that release    *)
(* the lock for it.                                                        *)
OthersGetTheirTurn ==
  \A t \in Threads :
    [](build = "releases" /\ role[t] = "user" /\ gvl # t => <>(gvl = t))
=============================================================================
