--------------------------- MODULE Cproton_proofs ---------------------------
(***************************************************************************)
(* Theorems about Cproton, for all threads, workloads and widths of C's    *)
(* integers.  What a call carries over the border (arguments, sizes,       *)
(* results, times to live, buffers) depends on the call alone; that no two *)
(* threads work in the library on an object, and that a send is left out   *)
(* only as the wrapper says, depends on the locks, and needs that a thread *)
(* which calls everything has the extension for itself.                    *)
(***************************************************************************)
EXTENDS Cproton, CprotonTypes_proofs, FiniteSetTheorems, WellFoundedInduction

-----------------------------------------------------------------------------
(* The first argument that is refused                                       *)

LEMMA LeastExists ==
  ASSUME NEW S \in SUBSET Nat, S # {}
  PROVE  \E i \in S : \A j \in S : i <= j
  <1> DEFINE Below == OpToRel(<, Nat)
  <1>1. \A m, n \in Nat : m < n => <<m, n>> \in Below
    BY DEF OpToRel
  <1>2. IsWellFoundedOn(Below, Nat)
    BY NatLessThanWellFounded
  <1> HIDE DEF Below
  <1>3. PICK i \in S : \A j \in S : <<j, i>> \notin Below
    BY <1>2, WFMin
  <1>4. \A j \in S : ~(j < i)
    BY <1>1, <1>3
  <1> HIDE <1>3
  <1> QED
    BY <1>4

LEMMA FirstIsLeast ==
  ASSUME NEW S \in SUBSET Nat, S # {}
  PROVE  First(S) \in S /\ \A j \in S : First(S) <= j
  BY LeastExists DEF First

-----------------------------------------------------------------------------
(* The values that are passed                                               *)

Sound(v) ==
  /\ v.type = "Integer" => v.val \in Int
  /\ v.type = "String" => v.val \in Nat
  /\ v.type = "char" => v.val \in Nat \ {0}
  /\ v.type = "NilClass" => v = Nil

(* A list of arguments.                                                     *)
SoundList(given) ==
  /\ Len(given) \in Nat /\ DOMAIN given = 1 .. Len(given)
  /\ \A i \in DOMAIN given : Sound(given[i])

LEMMA SoundSeq ==
  ASSUME NEW S, \A v \in S : Sound(v), NEW given \in Seq(S)
  PROVE  SoundList(given)
  BY DEF SoundList

LEMMA SoundVal ==
  ASSUME NEW type, NEW n \in Int, type # "NilClass", type \in {"String", "char"} => n > 0
  PROVE  Sound(Val(type, n))
  BY DEF Val, Sound

LEMMA SoundInteger == \A n \in Int : Sound(Integer(n))
  BY SoundVal DEF Integer

LEMMA SoundConstants ==
  /\ Sound(Nil) /\ Sound(Other) /\ Sound(Bool(TRUE)) /\ Sound(Bool(FALSE))
  /\ Sound(String(0)) /\ Sound(String(2)) /\ Sound(Val("Float", 0)) /\ Sound(Val("Array", 0))
  <1>1. Sound(Nil) /\ Sound(String(0))
    BY DEF Nil, String, Val, Sound
  <1> QED
    BY <1>1, SoundVal DEF Other, Bool, String

LEMMA SoundSamples ==
  ASSUME NEW kind, kind \notin Plain
  PROVE  Sound(Usual(kind)) /\ \A v \in Samples(kind) : Sound(v)
  <1>1. Address \in Int /\ Address > 0
    BY DEF Address
  <1>2. kind # "NilClass"
    BY DEF Plain
  <1>3. Sound(Val(kind, Address)) /\ Sound(Val("pn_cid_t", Address)) /\ Sound(Val("char", Address))
    BY <1>1, <1>2, SoundVal
  <1>a. \A n \in {-1, 0, 1, 2, 2^IntBits, 2^(IntBits - 1)} : Sound(Integer(n))
    <2>1. 2^IntBits \in Int /\ 2^(IntBits - 1) \in Int
      BY Powers DEF Widths
    <2> QED
      BY <2>1, SoundInteger
  <1>4. Sound(Usual(kind))
    <2>1. Usual(kind) \in {Integer(-1), Integer(1), Val("Float", 0), Bool(FALSE), String(2),
                           Val("Array", 0), Other, Val(kind, Address)}
      BY DEF Usual
    <2> QED
      BY <2>1, <1>3, <1>a, SoundConstants
  <1>5. \A n \in Numbers(kind) : n \in Int
    <2>1. Width(kind) \in Widths
      BY DEF Width, Widths
    <2>2. 2^Width(kind) \in Nat /\ 2^(Width(kind) - 1) \in Nat
      BY <2>1, Powers
    <2> QED
      BY <2>2 DEF Numbers
  <1>7. \A v \in Samples(kind) : \/ \E n \in Numbers(kind) : v = Integer(n)
                                 \/ v \in {Nil, Val("Float", 0), Integer(1), Bool(TRUE), Bool(FALSE)}
                                 \/ v \in {Integer(2), Integer(2^IntBits), Integer(0), String(0)}
                                 \/ v \in {Integer(2^(IntBits - 1)), String(2), Val("Array", 0)}
                                 \/ v \in {Val("char", Address), Val("pn_cid_t", Address)}
                                 \/ v \in {Other, Val(kind, Address)}
                                 \/ v = Val(kind, 0) /\ kind \in Guarded
    BY DEF Samples
  <1>8. kind \in Guarded => Sound(Val(kind, 0))
    BY SoundVal DEF Guarded
  <1>9. \A v \in Samples(kind) : Sound(v)
    <2>1. \A n \in Numbers(kind) : Sound(Integer(n))
      BY <1>5, SoundInteger
    <2> QED
      BY <1>3, <1>a, <1>7, <1>8, <2>1, SoundConstants
  <1> QED
    BY <1>4, <1>9

LEMMA SoundArguments ==
  ASSUME NEW name \in DOMAIN Functions, NEW given \in Arguments(Functions[name])
  PROVE  SoundList(given)
  <1> DEFINE fn     == Functions[name]
             params == fn.params
             usual  == [i \in DOMAIN params |-> Usual(params[i])]
             n      == Len(params)
             Values == {Nil} \cup UNION {{Usual(params[i])} \cup Samples(params[i]) : i \in 1 .. n}
  <1>1. params \in Seq(STRING) /\ \A i \in DOMAIN params : params[i] \notin Plain
    BY FunctionsAssumption
  <1>2. n \in Nat /\ DOMAIN params = 1 .. n
    BY <1>1
  <1>3. \A v \in Values : Sound(v)
    BY <1>1, <1>2, SoundSamples, SoundConstants
  <1>4. usual \in Seq(Values) /\ Len(usual) = n /\ DOMAIN usual = 1 .. n
    BY <1>2
  <1>5. Append(usual, Nil) \in Seq(Values)
    BY <1>4
  <1>6. n > 0 => SubSeq(usual, 1, n - 1) \in Seq(Values)
    BY <1>2, <1>4
  <1>7. \A i \in 1 .. n : \A v \in Samples(params[i]) : [usual EXCEPT ![i] = v] \in Seq(Values)
    BY <1>4
  <1>8. \/ given = usual
        \/ given = Append(usual, Nil)
        \/ n > 0 /\ given = SubSeq(usual, 1, n - 1)
        \/ \E i \in 1 .. n : \E v \in Samples(params[i]) : given = [usual EXCEPT ![i] = v]
    <2> DEFINE fewer == IF Len(usual) > (IF fn.receiver THEN 1 ELSE 0)
                        THEN {SubSeq(usual, 1, Len(usual) - 1)} ELSE {}
               others == UNION {{[usual EXCEPT ![i] = v] : v \in Samples(params[i])} : i \in DOMAIN usual}
    <2>1. given \in {usual, Append(usual, Nil)} \/ given \in fewer \/ given \in others
      BY DEF Arguments
    <2>2. given \in fewer => n > 0 /\ given = SubSeq(usual, 1, n - 1)
      <3>1. (IF fn.receiver THEN 1 ELSE 0) \in Nat
        OBVIOUS
      <3>2. ~(Len(usual) > (IF fn.receiver THEN 1 ELSE 0)) => fewer = {}
        OBVIOUS
      <3>3. Len(usual) > (IF fn.receiver THEN 1 ELSE 0) => fewer = {SubSeq(usual, 1, n - 1)}
        BY <1>4
      <3>4. Len(usual) > (IF fn.receiver THEN 1 ELSE 0) => n > 0
        BY <1>2, <1>4, <3>1
      <3> QED
        BY <3>2, <3>3, <3>4
    <2>3. given \in others => \E i \in 1 .. n : \E v \in Samples(params[i]) : given = [usual EXCEPT ![i] = v]
      BY <1>4
    <2> QED
      BY <2>1, <2>2, <2>3
  <1>9. given \in Seq(Values)
    BY <1>4, <1>5, <1>6, <1>7, <1>8
  <1> QED
    BY <1>3, <1>9, SoundSeq

-----------------------------------------------------------------------------
(* The buffers                                                              *)

LEMMA AllocatedIsNumber ==
  ASSUME NEW c, NEW n \in Int
  PROVE  /\ Allocated(c, n) \in Nat
         /\ (\A i \in 1 .. n : FnOf(c).params[i] # "buffer") => Allocated(c, n) = 0
  <1> DEFINE S == {i \in 1 .. n : FnOf(c).params[i] = "buffer"}
  <1>1. IsFiniteSet(1 .. n)
    BY FS_Interval
  <1>2. IsFiniteSet(S)
    BY <1>1, FS_Subset
  <1>3. Cardinality(S) \in Nat
    BY <1>2, FS_CardinalityType
  <1>4. S = {} => Cardinality(S) = 0
    BY FS_EmptySet
  <1> QED
    BY <1>3, <1>4 DEF Allocated

(* Nothing is allocated yet when a call is refused: a buffer's size is the  *)
(* last argument, and its function has no contract.                         *)
LEMMA RefusedBeforeBuffers ==
  ASSUME NEW c, c.fn \in DOMAIN Functions, Refusal(c).code # "OK"
  PROVE  Refusal(c).buffers = 0
  <1> DEFINE params == FnOf(c).params
             n      == Len(params)
  <1>1. /\ n \in Nat /\ DOMAIN params = 1 .. n
        /\ \A i \in DOMAIN params : params[i] = "buffer" =>
             /\ i = n /\ FnOf(c).required = {}
             /\ \A j \in DOMAIN params : params[j] \notin {"error_code", "sasl_outcome"}
    BY FunctionsAssumption DEF FnOf
  <1>2. CASE ~CountIsRight(c)
    BY <1>2 DEF Refusal
  <1>3. CASE CountIsRight(c) /\ Refused(c) # {}
    <2> DEFINE i == First(Refused(c))
    <2>1. Refused(c) \in SUBSET Nat
      BY <1>1 DEF Refused
    <2>2. i \in Refused(c)
      BY <1>3, <2>1, FirstIsLeast
    <2>3. i \in 1 .. n
      BY <1>1, <2>2 DEF Refused
    <2> HIDE DEF i
    <2>4. \A j \in 1 .. i - 1 : params[j] # "buffer"
      BY <1>1, <2>3
    <2>5. Allocated(c, i - 1) = 0
      BY <2>3, <2>4, AllocatedIsNumber
    <2>6. Refusal(c).buffers = Allocated(c, i - 1)
      BY <1>3 DEF Refusal, i
    <2> QED
      BY <2>5, <2>6
  <1>4. CASE CountIsRight(c) /\ Refused(c) = {} /\ ~Required(FnOf(c), Received(c))
    <2>1. \A i \in 1 .. n : params[i] # "buffer"
      <3> SUFFICES ASSUME NEW i \in 1 .. n, params[i] = "buffer" PROVE Required(FnOf(c), Received(c))
        BY <1>4
      <3> QED
        BY <1>1 DEF Required
    <2>2. Allocated(c, n) = 0
      BY <1>1, <2>1, AllocatedIsNumber
    <2> QED
      BY <1>4, <2>2 DEF Refusal
  <1>5. CASE CountIsRight(c) /\ Refused(c) = {} /\ Required(FnOf(c), Received(c))
    BY <1>5 DEF Refusal
  <1> QED
    BY <1>2, <1>3, <1>4, <1>5

LEMMA NotRefused ==
  ASSUME NEW c, c.fn \in DOMAIN Functions, Refusal(c).code = "OK"
  PROVE  CountIsRight(c) /\ Refused(c) = {}
  <1>1. CASE ~CountIsRight(c)
    BY <1>1 DEF Refusal
  <1>2. CASE CountIsRight(c) /\ Refused(c) # {}
    <2> DEFINE i == First(Refused(c))
    <2>1. Refusal(c).code = Converted(c)[i].code
      BY <1>2 DEF Refusal
    <2>2. i \in Refused(c)
      <3>1. DOMAIN FnOf(c).params = 1 .. Len(FnOf(c).params)
        BY FunctionsAssumption DEF FnOf
      <3>2. Refused(c) \in SUBSET Nat
        BY <3>1 DEF Refused
      <3> QED
        BY <1>2, <3>2, FirstIsLeast
    <2> QED
      BY <2>1, <2>2 DEF Refused
  <1> QED
    BY <1>1, <1>2

-----------------------------------------------------------------------------
(* What holds of every call by itself                                       *)

Exceptions == {"", "TypeError", "RangeError", "RuntimeError", "ArgumentError",
               "ObjectPreviouslyDeleted"}

(* A call that was asked for a time to live.                                *)
TtlCall(c) ==
  \/ c.fn = "pn_message_set_ttl" /\ c.given = <<OwnMessage, Integer(SendTtl(c.asked))>>
  \/ /\ c.fn = "pn_messenger_subscribe_ttl"
     /\ \E m \in {Messenger, Nil} : c.given = <<m, String(2), Integer(DestinationTtl(c.asked))>>

Passed(c) ==
  /\ SoundList(c.given)
  /\ c.asked \in Int
  /\ c.asked >= 0 => TtlCall(c)

(* The inductive invariant of a call.  The properties speak of what the     *)
(* library received: it is what the arguments were converted to, and they   *)
(* are kept for as long as it is inside.                                    *)
Local(c) ==
  /\ DOMAIN c = DOMAIN Idle
  /\ c.step \in Steps
  /\ c.step # "idle" => c.fn \in DOMAIN Functions
  /\ c.raised \in Exceptions
  /\ c.buffers \in Nat
  /\ c.step \in {"called", "inside"} => Passed(c)
  /\ c.step = "called" => c.buffers = 0 /\ ~c.entered /\ c.raised = ""
  /\ c.step = "inside" => /\ c.entered
                          /\ Refused(c) = {} /\ CountIsRight(c)
                          /\ c.received = Received(c)
  /\ c.step \in {"inside", "back"} => /\ c.raised = ""
                                      /\ c.buffers # 0 => FnOf(c).ensures = "nothing"
  /\ c.step = "done" => /\ c.buffers = 0
                        /\ c.raised # "" /\ c.entered => FnOf(c).ensures # "nothing"
                        /\ c.raised = "" => c.outcome = FromResult(FnOf(c).result, c.result)

EachLocal == DOMAIN call = Threads /\ \A t \in Threads : Local(call[t])

LEMMA IdleLocal == Local(Idle)
  BY DEF Local, Idle, Steps, Exceptions

LEMMA TtlIsNumber ==
  ASSUME NEW ms \in Nat
  PROVE  SendTtl(ms) \in 0 .. MaxTtl /\ DestinationTtl(ms) \in 0 .. MaxTtl
  <1>1. MaxTtl \in Nat
    BY Powers DEF MaxTtl, Widths
  <1>2. Least(ms, MaxTtl) \in 0 .. MaxTtl
    BY <1>1 DEF Least
  <1>3. \A n \in Nat : \A m \in Nat \ {0} : n \div m \in 0 .. n
    BY Z3
  <1>4. Least(ms, MaxTtl) \div MsPerSecond \in 0 .. Least(ms, MaxTtl)
    BY <1>2, <1>3, CprotonAssumption
  <1> QED
    BY <1>1, <1>2, <1>4 DEF SendTtl, DestinationTtl

LEMMA AskedIsNumber == Asked \subseteq Nat
  <1>1. 2^IntBits \in Nat \ {0} /\ 2^LongBits \in Nat
    BY Powers DEF Widths
  <1> QED
    BY <1>1, CprotonAssumption DEF Asked, MaxTtl

(* The calls that the client makes.                                         *)
PlainCalls(m) == {Made("pn_messenger_error", <<m>>, -1),
                  Made("pn_messenger_work", <<m, Integer(1)>>, -1),
                  Made("pn_messenger_put", <<m, ItsMessage>>, -1),
                  Made("pn_messenger_send", <<m, Integer(1)>>, -1),
                  Made("pn_messenger_recv", <<m, Integer(-2)>>, -1),
                  Made("pn_messenger_set_timeout", <<m, Integer(-1)>>, -1),
                  Made("pn_messenger_outgoing_tracker", <<m>>, -1)}
Subscribe(m, ms) ==
  Made("pn_messenger_subscribe_ttl", <<m, String(2), Integer(DestinationTtl(ms))>>, ms)
Peek    == Made("pn_transport_peek", <<Transport, Integer(1)>>, -1)
Push(n) == Made("pn_connection_push", <<Connection, String(n), Integer(n)>>, -1)

LEMMA CallOfClient ==
  ASSUME NEW made \in CallsOf("client")
  PROVE  \/ \E m \in {Messenger, Nil} :
              made \in PlainCalls(m) \/ \E ms \in Asked : made = Subscribe(m, ms)
         \/ made = Peek
         \/ \E n \in Lengths : made = Push(n)
  <1> DEFINE WithTtl(m) == {Subscribe(m, ms) : ms \in Asked}
             Pushes     == {Push(n) : n \in Lengths}
             All        == {PlainCalls(m) \cup WithTtl(m) : m \in {Messenger, Nil}}
  <1>1. made \in ClientCalls
    BY DEF CallsOf
  <1>2. ClientCalls = {Peek} \cup Pushes \cup UNION All
    BY Zenon DEF ClientCalls, Peek, Push, PlainCalls, Subscribe
  <1>3. made = Peek \/ made \in Pushes \/ made \in UNION All
    <2> HIDE DEF All, Pushes
    <2> QED
      BY <1>1, <1>2
  <1>4. made \in UNION All => \E m \in {Messenger, Nil} : made \in PlainCalls(m) \cup WithTtl(m)
    <2>1. made \in UNION All => \E S \in All : made \in S
      OBVIOUS
    <2>2. \A S \in All : \E m \in {Messenger, Nil} : S = PlainCalls(m) \cup WithTtl(m)
      OBVIOUS
    <2> HIDE DEF All
    <2> QED
      BY <2>1, <2>2
  <1> QED
    BY <1>3, <1>4

(* What the program passes to a call.                                       *)
LEMMA CallIsSound ==
  ASSUME NEW r, NEW made \in CallsOf(r)
  PROVE  made.fn \in DOMAIN Functions /\ Passed(made)
  <1>1. CASE r = "any"
    <2>1. PICK name \in DOMAIN Functions : \E given \in Arguments(Functions[name]) : made = Made(name, given, -1)
      BY <1>1 DEF CallsOf, AllCalls
    <2> QED
      BY <2>1, SoundArguments DEF Made, Passed
  <1>2. CASE r = "client"
    <2>1. /\ Sound(Messenger) /\ Sound(ItsMessage) /\ Sound(Transport) /\ Sound(Connection)
          /\ Sound(Nil) /\ Sound(String(1)) /\ Sound(String(2))
      BY SoundVal, SoundConstants
      DEF Messenger, ItsMessage, Transport, Connection, Address, String
    <2>2. \A n \in Int : Sound(Integer(n))
      BY SoundInteger
    <2>3. CASE \E m \in {Messenger, Nil} : made \in PlainCalls(m)
      <3>1. PICK m \in {Messenger, Nil} : made \in PlainCalls(m)
        BY <2>3
      <3>2. made.fn \in DOMAIN Functions /\ made.asked = -1
        BY <3>1, FunctionsAssumption DEF PlainCalls, Made, ClientFunctions
      <3>3. Sound(Integer(1)) /\ Sound(Integer(-2)) /\ Sound(Integer(-1)) /\ Sound(m)
        BY <2>1, <2>2
      <3>4. PICK a : Sound(a) /\ (made.given = <<m>> \/ made.given = <<m, a>>)
        BY <2>1, <3>1, <3>3 DEF PlainCalls, Made
      <3>5. SoundList(made.given)
        BY <3>3, <3>4 DEF SoundList
      <3> QED
        BY <3>2, <3>5 DEF Passed
    <2>4. CASE \E m \in {Messenger, Nil} : \E ms \in Asked : made = Subscribe(m, ms)
      <3>1. PICK m \in {Messenger, Nil}, ms \in Asked : made = Subscribe(m, ms)
        BY <2>4
      <3>2. ms \in Nat /\ DestinationTtl(ms) \in Int
        BY AskedIsNumber, TtlIsNumber, Powers DEF MaxTtl, Widths
      <3>3. Sound(Integer(DestinationTtl(ms))) /\ Sound(String(2)) /\ Sound(m)
        BY <2>1, <3>2, SoundInteger, SoundConstants
      <3>4. SoundList(<<m, String(2), Integer(DestinationTtl(ms))>>)
        BY <3>3 DEF SoundList
      <3> QED
        BY <3>1, <3>2, <3>4, FunctionsAssumption
        DEF Subscribe, Made, Passed, TtlCall, ClientFunctions
    <2>5. CASE made = Peek
      <3>1. SoundList(<<Transport, Integer(1)>>)
        BY <2>1, <2>2 DEF SoundList
      <3> QED
        BY <2>5, <3>1, FunctionsAssumption DEF Peek, Made, Passed, ClientFunctions
    <2>6. CASE \E n \in Lengths : made = Push(n)
      <3>1. PICK n \in Lengths : made = Push(n)
        BY <2>6
      <3>2. Sound(Connection) /\ Sound(String(n)) /\ Sound(Integer(n))
        BY <2>1, <2>2 DEF Lengths
      <3>3. SoundList(<<Connection, String(n), Integer(n)>>)
        BY <3>2 DEF SoundList
      <3> QED
        BY <3>1, <3>3, FunctionsAssumption DEF Push, Made, Passed, ClientFunctions
    <2> QED
      BY <1>2, <2>3, <2>4, <2>5, <2>6, CallOfClient
  <1>3. CASE r = "user"
    <2>1. PICK ms \in Asked : made = Made("pn_message_set_ttl", <<OwnMessage, Integer(SendTtl(ms))>>, ms)
      BY <1>3 DEF CallsOf, UserCalls
    <2>2. ms \in Nat /\ SendTtl(ms) \in Int
      BY AskedIsNumber, TtlIsNumber, Powers DEF MaxTtl, Widths
    <2>3. Sound(OwnMessage) /\ Sound(Integer(SendTtl(ms)))
      BY <2>2, SoundInteger, SoundVal DEF OwnMessage
    <2>4. SoundList(<<OwnMessage, Integer(SendTtl(ms))>>)
      BY <2>3 DEF SoundList
    <2> QED
      BY <2>1, <2>2, <2>4, FunctionsAssumption DEF Made, Passed, TtlCall
  <1> QED
    BY <1>1, <1>2, <1>3 DEF CallsOf

LEMMA ParametersOf ==
  ASSUME NEW c, c.fn \in DOMAIN Functions
  PROVE  /\ Len(FnOf(c).params) \in Nat
         /\ DOMAIN FnOf(c).params = 1 .. Len(FnOf(c).params)
         /\ \A i \in DOMAIN FnOf(c).params :
              FnOf(c).params[i] = "buffer" => FnOf(c).ensures = "nothing"
  BY FunctionsAssumption DEF FnOf

LEMMA SameCall ==
  ASSUME NEW c, NEW d, d.fn = c.fn, d.given = c.given
  PROVE  /\ FnOf(d) = FnOf(c) /\ Received(d) = Received(c)
         /\ Refused(d) = Refused(c) /\ (CountIsRight(d) <=> CountIsRight(c))
  <1>1. FnOf(d) = FnOf(c)
    BY DEF FnOf
  <1>2. Converted(d) = Converted(c)
    BY <1>1 DEF Converted
  <1> QED
    BY <1>1, <1>2 DEF Received, Refused, CountIsRight

LEMMA CallLocal ==
  ASSUME NEW r, NEW made \in CallsOf(r)
  PROVE  Local([Idle EXCEPT !.step = "called", !.fn = made.fn, !.given = made.given,
                            !.asked = made.asked])
  <1> DEFINE c == [Idle EXCEPT !.step = "called", !.fn = made.fn, !.given = made.given,
                               !.asked = made.asked]
  <1>1. made.fn \in DOMAIN Functions /\ Passed(made)
    BY CallIsSound
  <1>2. /\ c.step = "called" /\ c.fn = made.fn /\ c.given = made.given /\ c.asked = made.asked
        /\ c.raised = "" /\ c.buffers = 0 /\ c.buffers \in Nat /\ ~c.entered
        /\ DOMAIN c = DOMAIN Idle
    BY DEF Idle
  <1> HIDE DEF c
  <1>3. Passed(c)
    BY <1>1, <1>2 DEF Passed, TtlCall
  <1>4. Local(c)
    BY <1>1, <1>2, <1>3 DEF Local, Steps, Exceptions
  <1> QED
    BY <1>4 DEF c

LEMMA RaiseLocal ==
  ASSUME NEW c, Local(c), c.step = "called", Refusal(c).code # "OK",
         NEW d, d = [Idle EXCEPT !.step = "done", !.fn = c.fn,
                                 !.raised = ErrorType(Refusal(c).code),
                                 !.buffers = Refusal(c).buffers]
  PROVE  Local(d)
  <1>1. c.fn \in DOMAIN Functions
    BY DEF Local
  <1>2. Refusal(c).buffers = 0
    BY <1>1, RefusedBeforeBuffers
  <1>3. \A code : ErrorType(code) \in Exceptions \ {""}
    BY DEF ErrorType, Exceptions
  <1>4. /\ d.step = "done" /\ d.fn = c.fn /\ d.raised = ErrorType(Refusal(c).code)
        /\ d.buffers = 0 /\ ~d.entered /\ DOMAIN d = DOMAIN Idle
    BY <1>2 DEF Idle
  <1> QED
    BY <1>1, <1>3, <1>4 DEF Local, Steps

LEMMA EnterLocal ==
  ASSUME NEW c, Local(c), c.step = "called", Refusal(c).code = "OK"
  PROVE  Local([c EXCEPT !.step = "inside", !.entered = TRUE, !.received = Received(c),
                         !.buffers = Allocated(c, Len(FnOf(c).params))])
  <1> DEFINE n == Len(FnOf(c).params)
             d == [c EXCEPT !.step = "inside", !.entered = TRUE, !.received = Received(c),
                            !.buffers = Allocated(c, n)]
  <1>1. c.fn \in DOMAIN Functions /\ Passed(c) /\ c.raised = "" /\ DOMAIN c = DOMAIN Idle
    BY DEF Local
  <1>2. CountIsRight(c) /\ Refused(c) = {}
    BY <1>1, NotRefused
  <1>3. n \in Nat /\ DOMAIN FnOf(c).params = 1 .. n
    BY <1>1, ParametersOf
  <1>4. Allocated(c, n) \in Nat
    BY <1>3, AllocatedIsNumber
  <1>5. Allocated(c, n) # 0 => FnOf(c).ensures = "nothing"
    <2>1. Allocated(c, n) # 0 => \E i \in 1 .. n : FnOf(c).params[i] = "buffer"
      BY <1>3, AllocatedIsNumber
    <2> QED
      BY <1>1, <1>3, <2>1, ParametersOf
  <1>6. /\ d.step = "inside" /\ d.fn = c.fn /\ d.given = c.given /\ d.asked = c.asked
        /\ d.entered /\ d.received = Received(c) /\ d.buffers = Allocated(c, n)
        /\ d.raised = "" /\ DOMAIN d = DOMAIN Idle
    BY <1>1 DEF Idle
  <1> HIDE DEF d, n
  <1>7. Passed(d)
    BY <1>1, <1>6 DEF Passed, TtlCall
  <1>8. /\ FnOf(d) = FnOf(c) /\ Received(d) = Received(c)
        /\ Refused(d) = Refused(c) /\ (CountIsRight(d) <=> CountIsRight(c))
    BY <1>6, SameCall
  <1>9. d.buffers \in Nat /\ (d.buffers # 0 => FnOf(d).ensures = "nothing")
    BY <1>4, <1>5, <1>6, <1>8
  <1>10. CountIsRight(d) /\ Refused(d) = {} /\ d.received = Received(d)
    BY <1>2, <1>6, <1>8
  <1>11. Local(d)
    BY <1>1, <1>6, <1>7, <1>9, <1>10 DEF Local, Steps, Exceptions
  <1> QED
    BY <1>11 DEF d, n

LEMMA SkipLocal ==
  ASSUME NEW c, Local(c), c.step = "called", NEW d, d = [Idle EXCEPT !.step = "back", !.fn = c.fn]
  PROVE  Local(d)
  <1>1. c.fn \in DOMAIN Functions
    BY DEF Local
  <1>2. d.step = "back" /\ d.fn = c.fn /\ d.raised = "" /\ d.buffers = 0 /\ DOMAIN d = DOMAIN Idle
    BY DEF Idle
  <1> QED
    BY <1>1, <1>2 DEF Local, Steps, Exceptions

LEMMA LibraryLocal ==
  ASSUME NEW c, Local(c), c.step = "inside", NEW r,
         NEW d, d = [c EXCEPT !.step = "back", !.given = <<>>, !.received = <<>>, !.asked = -1,
                              !.result = r]
  PROVE  Local(d)
  <1>1. /\ c.fn \in DOMAIN Functions /\ c.raised = "" /\ c.buffers \in Nat
        /\ c.buffers # 0 => FnOf(c).ensures = "nothing"
        /\ DOMAIN c = DOMAIN Idle
    BY DEF Local
  <1>2. d.step = "back" /\ d.fn = c.fn /\ d.raised = "" /\ d.buffers = c.buffers /\ DOMAIN d = DOMAIN Idle
    BY <1>1 DEF Idle
  <1> QED
    BY <1>1, <1>2 DEF Local, Steps, Exceptions, FnOf

LEMMA ReturnLocal ==
  ASSUME NEW c, Local(c), c.step = "back"
  PROVE  Local(IF Ensured(FnOf(c), c.result)
               THEN [c EXCEPT !.step = "done", !.buffers = 0,
                              !.outcome = FromResult(FnOf(c).result, c.result)]
               ELSE [c EXCEPT !.step = "done", !.raised = ErrorType("RuntimeError")])
  <1> DEFINE returned == [c EXCEPT !.step = "done", !.buffers = 0,
                                   !.outcome = FromResult(FnOf(c).result, c.result)]
             failed   == [c EXCEPT !.step = "done", !.raised = ErrorType("RuntimeError")]
  <1>1. /\ c.fn \in DOMAIN Functions /\ c.raised = "" /\ c.buffers \in Nat
        /\ c.buffers # 0 => FnOf(c).ensures = "nothing"
        /\ DOMAIN c = DOMAIN Idle
    BY DEF Local
  <1>2. Local(returned)
    <2> DEFINE d == returned
    <2>1. /\ d.step = "done" /\ d.fn = c.fn /\ d.raised = "" /\ d.buffers = 0 /\ d.buffers \in Nat
          /\ DOMAIN d = DOMAIN Idle
          /\ d.outcome = FromResult(FnOf(c).result, c.result) /\ d.result = c.result
      BY <1>1 DEF Idle
    <2> HIDE DEF d
    <2>2. FnOf(d) = FnOf(c)
      BY <2>1 DEF FnOf
    <2>3. Local(d)
      BY <1>1, <2>1, <2>2 DEF Local, Steps, Exceptions
    <2> QED
      BY <2>3 DEF d
  <1>3. ~Ensured(FnOf(c), c.result) => Local(failed)
    <2> SUFFICES ASSUME ~Ensured(FnOf(c), c.result) PROVE Local(failed)
      OBVIOUS
    <2> DEFINE d == failed
    <2>1. FnOf(c).ensures # "nothing"
      BY DEF Ensured
    <2>2. c.buffers = 0
      BY <1>1, <2>1
    <2>3. /\ d.step = "done" /\ d.fn = c.fn /\ d.raised = "RuntimeError" /\ d.buffers = 0
          /\ d.buffers \in Nat /\ DOMAIN d = DOMAIN Idle
      BY <1>1, <2>2 DEF Idle, ErrorType
    <2> HIDE DEF d
    <2>4. FnOf(d) = FnOf(c)
      BY <2>3 DEF FnOf
    <2>5. Local(d)
      BY <1>1, <2>1, <2>3, <2>4 DEF Local, Steps, Exceptions
    <2> QED
      BY <2>5 DEF d
  <1> QED
    BY <1>2, <1>3

-----------------------------------------------------------------------------
(* ... in every behaviour                                                   *)

LEMMA EachLocalInit == Init => EachLocal
  BY IdleLocal DEF Init, EachLocal

LEMMA EachLocalNext == EachLocal /\ [Next]_vars => EachLocal'
  <1> SUFFICES ASSUME EachLocal, [Next]_vars PROVE EachLocal'
    OBVIOUS
  <1>1. DOMAIN call = Threads /\ \A t \in Threads : Local(call[t])
    BY DEF EachLocal
  <1>2. CASE UNCHANGED call
    BY <1>1, <1>2 DEF EachLocal
  <1>3. CASE \E t \in Threads : \E d : call' = [call EXCEPT ![t] = d] /\ Local(d)
    BY <1>1, <1>3 DEF EachLocal
  <1>4. ASSUME NEW t \in Threads, Call(t)
        PROVE  \E d : call' = [call EXCEPT ![t] = d] /\ Local(d)
    BY <1>4, CallLocal DEF Call
  <1>5. ASSUME NEW t \in Threads, Raise(t)
        PROVE  \E d : call' = [call EXCEPT ![t] = d] /\ Local(d)
    BY <1>1, <1>5, RaiseLocal DEF Raise
  <1>6. ASSUME NEW t \in Threads, Enter(t)
        PROVE  \E d : call' = [call EXCEPT ![t] = d] /\ Local(d)
    BY <1>1, <1>6, EnterLocal DEF Enter
  <1>7. ASSUME NEW t \in Threads, Skip(t)
        PROVE  \E d : call' = [call EXCEPT ![t] = d] /\ Local(d)
    BY <1>1, <1>7, SkipLocal DEF Skip
  <1>8. ASSUME NEW t \in Threads, LibraryReturns(t)
        PROVE  \E d : call' = [call EXCEPT ![t] = d] /\ Local(d)
    <2>1. PICK r : call' = [call EXCEPT ![t] = [call[t] EXCEPT !.step = "back", !.given = <<>>,
                              !.received = <<>>, !.asked = -1, !.result = r]]
      BY <1>1, <1>8 DEF LibraryReturns
    <2> QED
      BY <1>1, <1>8, <2>1, LibraryLocal DEF LibraryReturns
  <1>9. ASSUME NEW t \in Threads, Return(t)
        PROVE  \E d : call' = [call EXCEPT ![t] = d] /\ Local(d)
    <2> DEFINE c == call[t]
               d == IF Ensured(FnOf(c), c.result)
                    THEN [c EXCEPT !.step = "done", !.buffers = 0,
                                   !.outcome = FromResult(FnOf(c).result, c.result)]
                    ELSE [c EXCEPT !.step = "done", !.raised = ErrorType("RuntimeError")]
    <2>1. call' = [call EXCEPT ![t] = d]
      BY <1>1, <1>9 DEF Return
    <2>2. c.step = "back" /\ Local(c)
      BY <1>1, <1>9 DEF Return
    <2>3. Local(d)
      BY <2>2, ReturnLocal
    <2> QED
      BY <2>1, <2>3
  <1>10. ASSUME NEW t \in Threads, Forget(t)
         PROVE  \E d : call' = [call EXCEPT ![t] = d] /\ Local(d)
    BY <1>10, IdleLocal DEF Forget
  <1>11. ASSUME NEW t \in Threads, TakeGVL(t) \/ YieldGVL(t) \/ Lock(t) \/ Unlock(t)
         PROVE  UNCHANGED call
    BY <1>11 DEF TakeGVL, YieldGVL, Lock, Unlock
  <1> QED
    BY <1>2, <1>3, <1>4, <1>5, <1>6, <1>7, <1>8, <1>9, <1>10, <1>11 DEF Next, vars

(* The variables that no call is about.                                     *)
Rest ==
  /\ <<role, build>> \in Workloads
  /\ gvl \in Threads \cup {None} /\ container \in Threads \cup {None}
  /\ blocking \in BOOLEAN

LEMMA RestInit == Init => Rest
  <1> SUFFICES ASSUME Init PROVE Rest
    OBVIOUS
  <1>1. PICK w \in Workloads : role = w[1] /\ build = w[2]
    BY DEF Init
  <1>2. w = <<w[1], w[2]>>
    BY CprotonAssumption
  <1> QED
    BY <1>1, <1>2 DEF Init, Rest

LEMMA RestNext == Rest /\ [Next]_vars => Rest'
  <1> SUFFICES ASSUME Rest, [Next]_vars PROVE Rest'
    OBVIOUS
  <1>1. CASE UNCHANGED vars
    BY <1>1 DEF Rest, vars
  <1>2. CASE Next
    <2>1. PICK t \in Threads : \/ TakeGVL(t) \/ YieldGVL(t) \/ Lock(t) \/ Unlock(t) \/ Call(t)
                               \/ Raise(t) \/ Enter(t) \/ Skip(t) \/ LibraryReturns(t)
                               \/ Return(t) \/ Forget(t)
      BY <1>2 DEF Next
    <2>2. UNCHANGED <<role, build>>
      BY <2>1 DEF TakeGVL, YieldGVL, Lock, Unlock, Call, Raise, Enter, Skip, LibraryReturns,
         Return, Forget, Unchanged
    <2>3. gvl' \in {gvl, t, None} /\ container' \in {container, t, None}
      BY <2>1 DEF TakeGVL, YieldGVL, Lock, Unlock, Call, Raise, Enter, Skip, LibraryReturns,
         Return, Forget
    <2>4. blocking' \in BOOLEAN
      BY <2>1 DEF Rest, TakeGVL, YieldGVL, Lock, Unlock, Call, Raise, Enter, Skip,
         LibraryReturns, Return, Forget
    <2> QED
      BY <2>2, <2>3, <2>4 DEF Rest
  <1> QED
    BY <1>1, <1>2

(* The calls and the locks are what they should be: a call in progress is   *)
(* of a function that the extension has, and holds a number of buffers.     *)
THEOREM TypeCorrect == Spec => []TypeOK
  <1>1. Init => EachLocal /\ Rest
    BY EachLocalInit, RestInit
  <1>2. EachLocal /\ Rest /\ [Next]_vars => (EachLocal /\ Rest)'
    BY EachLocalNext, RestNext
  <1>3. EachLocal /\ Rest => TypeOK
    BY DEF EachLocal, Local, Exceptions, Rest, TypeOK
  <1> QED
    BY <1>1, <1>2, <1>3, PTL DEF Spec

LEMMA AlwaysLocal == Spec => []EachLocal
  BY EachLocalInit, EachLocalNext, PTL DEF Spec

-----------------------------------------------------------------------------
(* What crosses the border                                                  *)

LEMMA InsideIsConverted ==
  ASSUME NEW c, Local(c), c.step = "inside", NEW i \in DOMAIN c.received
  PROVE  /\ i \in DOMAIN FnOf(c).params
         /\ Sound(c.given[i])
         /\ Convert(FnOf(c).params[i], c.given[i]).code = "OK"
         /\ c.received[i] = Convert(FnOf(c).params[i], c.given[i]).c
  <1>1. c.fn \in DOMAIN Functions /\ Passed(c) /\ CountIsRight(c) /\ Refused(c) = {}
        /\ c.received = Received(c)
    BY DEF Local
  <1>2. i \in DOMAIN FnOf(c).params
    BY <1>1 DEF Received
  <1>3. i \in DOMAIN c.given
    <2>1. Len(FnOf(c).params) \in Nat /\ DOMAIN FnOf(c).params = 1 .. Len(FnOf(c).params)
      BY <1>1, ParametersOf
    <2>2. Len(c.given) \in Nat /\ DOMAIN c.given = 1 .. Len(c.given)
      BY <1>1 DEF Passed, SoundList
    <2>3. Len(c.given) >= Len(FnOf(c).params)
      BY <1>1, <2>1, <2>2 DEF CountIsRight
    <2> QED
      BY <1>2, <2>1, <2>2, <2>3
  <1>4. Sound(c.given[i])
    BY <1>1, <1>3 DEF Passed, SoundList
  <1>5. Converted(c)[i] = Convert(FnOf(c).params[i], c.given[i])
    BY <1>2 DEF Converted
  <1>6. Converted(c)[i].code = "OK"
    BY <1>1, <1>2 DEF Refused
  <1>7. Received(c)[i] = Converted(c)[i].c
    BY <1>2 DEF Received
  <1> QED
    BY <1>1, <1>2, <1>4, <1>5, <1>6, <1>7

(* An integer arrives in the library as Ruby passed it, or wrapped as the   *)
(* binding is known to wrap, for every function of the extension.           *)
THEOREM ArgumentsArrive == Spec => []ArgumentsIntact
  <1>1. EachLocal => ArgumentsIntact
    <2> SUFFICES ASSUME EachLocal, NEW t \in Threads, call[t].step = "inside",
                        NEW i \in DOMAIN call[t].received, call[t].given[i].type = "Integer"
                 PROVE  Arrives(FnOf(call[t]).params[i], call[t].given[i].val, call[t].received[i].val)
      BY DEF ArgumentsIntact, Arrives
    <2> DEFINE c == call[t]
    <2>1. /\ Sound(c.given[i])
          /\ Convert(FnOf(c).params[i], c.given[i]).code = "OK"
          /\ c.received[i] = Convert(FnOf(c).params[i], c.given[i]).c
      BY InsideIsConverted DEF EachLocal
    <2>2. c.given[i].val \in Int
      BY <2>1 DEF Sound
    <2> QED
      BY <2>1, <2>2, IntegerArrives
  <1> QED
    BY <1>1, AlwaysLocal, PTL

(* What the client passes to the functions that take a size.                *)
ClientGives(c) ==
  /\ c.fn \in ClientFunctions
  /\ c.fn = "pn_connection_push" => \E n \in Lengths : c.given = <<Connection, String(n), Integer(n)>>
  /\ c.fn = "pn_transport_peek" => c.given = <<Transport, Integer(1)>>

ClientsGive ==
  \A t \in Threads : role[t] = "client" /\ call[t].step \in {"called", "inside"} => ClientGives(call[t])

LEMMA ClientMade ==
  ASSUME NEW made \in CallsOf("client")
  PROVE  ClientGives(made)
  <1>1. \/ \E m \in {Messenger, Nil} :
             made \in PlainCalls(m) \/ \E ms \in Asked : made = Subscribe(m, ms)
        \/ made = Peek
        \/ \E n \in Lengths : made = Push(n)
    BY CallOfClient
  <1> QED
    BY <1>1 DEF ClientGives, ClientFunctions, PlainCalls, Subscribe, Peek, Push, Made

LEMMA ClientsGiveNext == EachLocal /\ ClientsGive /\ [Next]_vars => ClientsGive'
  <1> SUFFICES ASSUME EachLocal, ClientsGive, [Next]_vars PROVE ClientsGive'
    OBVIOUS
  <1>1. DOMAIN call = Threads /\ \A t \in Threads : DOMAIN call[t] = DOMAIN Idle
    BY DEF EachLocal, Local
  <1>2. CASE UNCHANGED <<role, call>>
    BY <1>2 DEF ClientsGive
  <1>3. ASSUME NEW t \in Threads, NEW d, role' = role, call' = [call EXCEPT ![t] = d],
               role[t] = "client" /\ d.step \in {"called", "inside"} => ClientGives(d)
        PROVE  ClientsGive'
    BY <1>1, <1>3 DEF ClientsGive
  <1>4. ASSUME NEW t \in Threads, Call(t) PROVE ClientsGive'
    <2>1. PICK made \in CallsOf(role[t]) :
            call' = [call EXCEPT ![t] = [Idle EXCEPT !.step = "called", !.fn = made.fn,
                                           !.given = made.given, !.asked = made.asked]]
      BY <1>4 DEF Call
    <2>2. role' = role
      BY <1>4 DEF Call, Unchanged
    <2>3. role[t] = "client" => ClientGives(made)
      BY ClientMade
    <2> QED
      BY <1>3, <2>1, <2>2, <2>3 DEF ClientGives, Idle
  <1>5. ASSUME NEW t \in Threads, Enter(t) PROVE ClientsGive'
    <2> DEFINE d == [call[t] EXCEPT !.step = "inside", !.entered = TRUE,
                                    !.received = Received(call[t]),
                                    !.buffers = Allocated(call[t], Len(FnOf(call[t]).params))]
    <2>1. call' = [call EXCEPT ![t] = d] /\ role' = role /\ call[t].step = "called"
      BY <1>5 DEF Enter, Unchanged
    <2>2. d.fn = call[t].fn /\ d.given = call[t].given
      BY <1>1 DEF Idle
    <2> HIDE DEF d
    <2>3. role[t] = "client" => ClientGives(d)
      BY <2>1, <2>2 DEF ClientsGive, ClientGives
    <2> QED
      BY <1>3, <2>1, <2>3
  <1>6. ASSUME NEW t \in Threads, Raise(t) \/ Skip(t) \/ LibraryReturns(t) \/ Return(t) \/ Forget(t)
        PROVE  ClientsGive'
    <2>1. role' = role
      BY <1>6 DEF Raise, Skip, LibraryReturns, Return, Forget, Unchanged
    <2>2. \E d : call' = [call EXCEPT ![t] = d] /\ d.step \notin {"called", "inside"}
      <3> DEFINE c        == call[t]
                 returned == [c EXCEPT !.step = "done", !.buffers = 0,
                                       !.outcome = FromResult(FnOf(c).result, c.result)]
                 failed   == [c EXCEPT !.step = "done", !.raised = ErrorType("RuntimeError")]
      <3>1. CASE Raise(t) \/ Skip(t) \/ Forget(t)
        <4> DEFINE raised == [Idle EXCEPT !.step = "done", !.fn = c.fn,
                                          !.raised = ErrorType(Refusal(c).code),
                                          !.buffers = Refusal(c).buffers]
                   left   == [Idle EXCEPT !.step = "back", !.fn = c.fn]
        <4>1. Raise(t) => call' = [call EXCEPT ![t] = raised]
          BY Zenon DEF Raise
        <4>2. Skip(t) => call' = [call EXCEPT ![t] = left]
          BY Zenon DEF Skip
        <4>3. Forget(t) => call' = [call EXCEPT ![t] = Idle]
          BY Zenon DEF Forget
        <4>4. raised.step = "done" /\ left.step = "back" /\ Idle.step = "idle"
          BY DEF Idle
        <4> HIDE DEF raised, left
        <4> QED
          BY <3>1, <4>1, <4>2, <4>3, <4>4
      <3>2. CASE LibraryReturns(t)
        <4>1. PICK r : call' = [call EXCEPT ![t] = [c EXCEPT !.step = "back", !.given = <<>>,
                                  !.received = <<>>, !.asked = -1, !.result = r]]
          BY <1>1, <3>2 DEF LibraryReturns
        <4> DEFINE d == [c EXCEPT !.step = "back", !.given = <<>>,
                                  !.received = <<>>, !.asked = -1, !.result = r]
        <4>2. d.step = "back"
          BY <1>1 DEF Idle
        <4>3. call' = [call EXCEPT ![t] = d]
          BY <4>1
        <4> HIDE DEF d
        <4> QED
          BY <4>2, <4>3
      <3>3. CASE Return(t)
        <4>1. call' = [call EXCEPT ![t] = returned] \/ call' = [call EXCEPT ![t] = failed]
          BY <1>1, <3>3 DEF Return
        <4>2. returned.step = "done" /\ failed.step = "done"
          BY <1>1 DEF Idle
        <4> HIDE DEF returned, failed
        <4> QED
          BY <4>1, <4>2
      <3> QED
        BY <1>6, <3>1, <3>2, <3>3
    <2> QED
      BY <1>3, <2>1, <2>2
  <1>7. ASSUME NEW t \in Threads, TakeGVL(t) \/ YieldGVL(t) \/ Lock(t) \/ Unlock(t)
        PROVE  ClientsGive'
    BY <1>2, <1>7 DEF TakeGVL, YieldGVL, Lock, Unlock, Unchanged
  <1> QED
    BY <1>2, <1>4, <1>5, <1>6, <1>7 DEF Next, vars

LEMMA AlwaysGive == Spec => [](EachLocal /\ ClientsGive)
  <1>1. Init => ClientsGive
    <2> SUFFICES ASSUME Init, NEW t \in Threads PROVE call[t].step = "idle"
      BY DEF ClientsGive
    <2>1. call[t] = Idle
      BY Zenon DEF Init
    <2>2. Idle.step = "idle"
      BY DEF Idle
    <2> QED
      BY <2>1, <2>2, Zenon
  <1> QED
    BY <1>1, EachLocalInit, EachLocalNext, ClientsGiveNext, PTL DEF Spec

(* A string of which the wrapper makes the length, and a buffer of which it *)
(* makes the room, have the bytes that the library is told of, whoever      *)
(* calls, but for nil and for a size whose successor wraps to 0.  Of the    *)
(* functions that take a size apart this is claimed of the client's calls,  *)
(* whose buffers have room as well.                                         *)
THEOREM BytesAreTheirs == Spec => []BoundsHold
  <1>1. EachLocal /\ ClientsGive => BoundsHold
    <2> SUFFICES ASSUME EachLocal, ClientsGive, NEW t \in Threads, call[t].step = "inside"
                 PROVE  /\ \A i \in DOMAIN call[t].received :
                             LET kind == FnOf(call[t]).params[i]
                                 c    == call[t].received[i]
                             IN  /\ kind = "bytes" /\ call[t].given[i] # Nil => c.told < c.room
                                 /\ kind = "buffer" /\ (c.room # 0 \/ role[t] = "client")
                                      => c.told < c.room
                        /\ role[t] = "client" /\ call[t].fn = "pn_connection_push"
                             => call[t].received[3].val < call[t].received[2].room
      BY DEF BoundsHold
    <2> DEFINE c == call[t]
    <2>0. Local(c) /\ c.fn \in DOMAIN Functions /\ c.received = Received(c)
      BY DEF EachLocal, Local
    <2>1. ASSUME NEW i \in DOMAIN c.received
          PROVE  /\ Sound(c.given[i]) /\ Convert(FnOf(c).params[i], c.given[i]).code = "OK"
                 /\ c.received[i] = Convert(FnOf(c).params[i], c.given[i]).c
      BY <2>1, InsideIsConverted DEF EachLocal
    <2>2. role[t] = "client" => ClientGives(c)
      BY DEF ClientsGive
    <2>w. 2^LongBits \in Nat \ {0} /\ 2^LongBits > 2
      <3>1. LongBits \in Widths /\ CharBits \in Widths /\ CharBits < LongBits
        BY WidthsAssumption DEF Widths
      <3> QED
        BY <3>1, Powers, NarrowIsHalf
    <2> HIDE DEF c
    <2>3. ASSUME NEW i \in DOMAIN c.received, FnOf(c).params[i] = "bytes", c.given[i] # Nil
          PROVE  c.received[i].told < c.received[i].room
      <3> DEFINE v == c.given[i]
      <3>1. Convert("bytes", v) = AsBytes(v)
        BY DEF Convert
      <3>2. Sound(v) /\ AsBytes(v).code = "OK" /\ c.received[i] = AsBytes(v).c /\ v # Nil
        BY <2>1, <2>3, <3>1
      <3> HIDE DEF v
      <3> QED
        BY <3>2, BytesAreThere DEF Sound
    <2>4. ASSUME NEW i \in DOMAIN c.received, FnOf(c).params[i] = "buffer",
                 c.received[i].room # 0 \/ role[t] = "client"
          PROVE  c.received[i].told < c.received[i].room
      <3> DEFINE v == c.given[i]
      <3>1. Convert("buffer", v) = AsBuffer(v)
        BY DEF Convert
      <3>2. Sound(v) /\ AsBuffer(v).code = "OK" /\ c.received[i] = AsBuffer(v).c
        BY <2>1, <2>4, <3>1
      <3>3. CASE role[t] = "client"
        <4>1. c.fn = "pn_transport_peek"
          BY <2>0, <2>2, <2>4, <3>3, FunctionsAssumption DEF ClientGives, FnOf, Received
        <4>2. i = 2 /\ c.given = <<Transport, Integer(1)>>
          BY <2>0, <2>2, <2>4, <3>3, <4>1, FunctionsAssumption DEF ClientGives, FnOf, Received
        <4>3. v = Integer(1)
          BY <4>2
        <4>4. AsBuffer(v).c.room = ((1 % 2^LongBits) + 1) % 2^LongBits
          BY <3>2, <4>3 DEF AsBuffer, AsUnsignedLong, Integer, Val, Ok, Fail, Number, Block
        <4>5. ((1 % 2^LongBits) + 1) % 2^LongBits = 2
          <5>1. 1 % 2^LongBits = 1 /\ 2 % 2^LongBits = 2
            BY <2>w, SmallIsItself
          <5> QED
            BY <5>1
        <4> HIDE DEF v
        <4> QED
          BY <3>2, <4>4, <4>5, BufferIsThere DEF Sound
      <3>4. CASE role[t] # "client"
        <4> HIDE DEF v
        <4> QED
          BY <2>4, <3>2, <3>4, BufferIsThere DEF Sound
      <3> QED
        BY <3>3, <3>4
    <2>5. ASSUME role[t] = "client", c.fn = "pn_connection_push"
          PROVE  c.received[3].val < c.received[2].room
      <3>1. PICK n \in Lengths : c.given = <<Connection, String(n), Integer(n)>>
        BY <2>2, <2>5 DEF ClientGives
      <3>2. FnOf(c).params = <<"pn_connection_t", "chars", "size">>
        BY <2>5, FunctionsAssumption DEF FnOf
      <3>3. DOMAIN c.received = DOMAIN FnOf(c).params
        BY <2>0 DEF Received
      <3>4. 2 \in DOMAIN c.received /\ 3 \in DOMAIN c.received
        BY <3>2, <3>3
      <3>5. /\ c.received[2] = Convert("chars", String(n)).c
            /\ Convert("size", Integer(n)).code = "OK"
            /\ c.received[3] = Convert("size", Integer(n)).c
        <4>1. FnOf(c).params[2] = "chars" /\ FnOf(c).params[3] = "size"
          BY <3>2
        <4>2. c.given[2] = String(n) /\ c.given[3] = Integer(n)
          BY <3>1
        <4> QED
          BY <2>1, <3>4, <4>1, <4>2
      <3>6. c.received[2].room = n + 1
        <4>1. Convert("chars", String(n)) = AsCharPtrAndSize(String(n))
          BY DEF Convert
        <4> QED
          BY <3>5, <4>1 DEF AsCharPtrAndSize, String, Val, Ok, Block
      <3>7. c.received[3].val = n % 2^LongBits
        <4>1. Convert("size", Integer(n)) = AsUnsignedLong(Integer(n))
          BY DEF Convert
        <4> QED
          BY <3>5, <4>1 DEF AsUnsignedLong, Integer, Val, Ok, Fail, Number
      <3>8. n % 2^LongBits = n /\ n < n + 1
        <4>1. n \in 0 .. 2^LongBits - 1 /\ n \in Nat
          BY <2>w DEF Lengths
        <4> QED
          BY <2>w, <4>1, SmallIsItself
      <3> QED
        BY <3>6, <3>7, <3>8
    <2> QED
      BY <2>3, <2>4, <2>5 DEF c
  <1> QED
    BY <1>1, AlwaysGive, PTL

(* Ruby gets the number that the library returned, but for a size that does *)
(* not fit in an int.                                                       *)
THEOREM ResultsArrive == Spec => []ResultsIntact
  <1>1. EachLocal => ResultsIntact
    BY ResultArrives DEF EachLocal, Local, ResultsIntact
  <1> QED
    BY <1>1, AlwaysLocal, PTL

LEMMA LengthOfReceived ==
  ASSUME NEW c, c.fn \in DOMAIN Functions
  PROVE  Len(Received(c)) = Len(FnOf(c).params)
  <1> DEFINE n == Len(FnOf(c).params)
             S == {Converted(c)[i].c : i \in 1 .. n}
  <1>1. n \in Nat /\ DOMAIN FnOf(c).params = 1 .. n
    BY ParametersOf
  <1>2. Received(c) = [i \in 1 .. n |-> Converted(c)[i].c]
    BY <1>1 DEF Received
  <1> HIDE DEF n
  <1>3. Received(c) \in [1 .. n -> S]
    BY <1>2
  <1>4. \A T : \A k \in Nat : \A s \in [1 .. k -> T] : Len(s) = k
    OBVIOUS
  <1> QED
    BY <1>1, <1>3, <1>4 DEF n

(* A time to live reaches Proton capped and not wrapped: a message's to the *)
(* millisecond, and a destination's if it is a whole number of seconds.     *)
THEOREM TtlArrives == Spec => []TtlIsHonoured
  <1>1. EachLocal => TtlIsHonoured
    <2> SUFFICES ASSUME EachLocal, NEW t \in Threads, call[t].step = "inside", call[t].asked >= 0
                 PROVE  LET c   == call[t]
                            ttl == c.received[Len(c.received)].val
                        IN  /\ c.fn = "pn_message_set_ttl" => ttl = Least(c.asked, MaxTtl)
                            /\ c.fn = "pn_messenger_subscribe_ttl" =>
                                 /\ c.asked > MaxTtl => ttl = MaxTtl \div MsPerSecond
                                 /\ c.asked <= MaxTtl /\ c.asked % MsPerSecond = 0
                                      => ttl * MsPerSecond = c.asked
      BY DEF TtlIsHonoured
    <2> DEFINE c   == call[t]
               n   == Len(c.received)
               ttl == c.received[n].val
               ms  == Least(c.asked, MaxTtl)
    <2>0. Local(c)
      BY DEF EachLocal
    <2>a. c.fn \in DOMAIN Functions /\ Passed(c) /\ c.received = Received(c)
      BY <2>0 DEF Local
    <2>1. /\ Local(c) /\ c.fn \in DOMAIN Functions /\ c.asked \in Nat /\ TtlCall(c)
          /\ c.received = Received(c)
      <3>1. c.asked \in Nat
        BY <2>a DEF Passed
      <3> QED
        BY <2>0, <2>a, <3>1 DEF Passed
    <2>2. n = Len(FnOf(c).params) /\ DOMAIN c.received = DOMAIN FnOf(c).params
      BY <2>1, LengthOfReceived DEF Received
    <2>3. SendTtl(c.asked) \in 0 .. 2^IntBits - 1 /\ DestinationTtl(c.asked) \in 0 .. 2^IntBits - 1
      BY <2>1, TtlIsNumber DEF MaxTtl
    <2>4. n \in DOMAIN c.received
          => c.received[n] = Convert(FnOf(c).params[n], c.given[n]).c
      BY <2>1, InsideIsConverted
    <2> HIDE DEF c, n
    <2>5. CASE /\ c.fn = "pn_message_set_ttl"
               /\ c.given = <<OwnMessage, Integer(SendTtl(c.asked))>>
      <3>1. FnOf(c).params = <<"pn_message_t", "uint32">>
        BY <2>5, FunctionsAssumption DEF FnOf
      <3>2. n = 2 /\ n \in DOMAIN c.received
        BY <2>2, <3>1
      <3>3. FnOf(c).params[n] = "uint32" /\ c.given[n] = Integer(SendTtl(c.asked))
        BY <2>5, <3>1, <3>2
      <3>4. ttl = SendTtl(c.asked)
        BY <2>3, <2>4, <3>2, <3>3, TtlPasses
      <3> QED
        BY <2>5, <3>4 DEF SendTtl, c, n
    <2>6. CASE /\ c.fn = "pn_messenger_subscribe_ttl"
               /\ \E m \in {Messenger, Nil} :
                    c.given = <<m, String(2), Integer(DestinationTtl(c.asked))>>
      <3>1. FnOf(c).params = <<"pn_messenger_t", "chars", "uint32">>
        BY <2>6, FunctionsAssumption DEF FnOf
      <3>2. n = 3 /\ n \in DOMAIN c.received
        BY <2>2, <3>1
      <3>3. FnOf(c).params[n] = "uint32" /\ c.given[n] = Integer(DestinationTtl(c.asked))
        BY <2>6, <3>1, <3>2
      <3>4. ttl = ms \div MsPerSecond
        <4>1. ttl = DestinationTtl(c.asked)
          BY <2>3, <2>4, <3>2, <3>3, TtlPasses
        <4> QED
          BY <4>1 DEF DestinationTtl
      <3>5. MaxTtl \in Nat /\ MsPerSecond \in Nat \ {0} /\ c.asked \in Nat
        BY <2>1, Powers, CprotonAssumption DEF MaxTtl, Widths, c
      <3>6. c.asked > MaxTtl => ttl = MaxTtl \div MsPerSecond
        BY <3>4, <3>5 DEF Least, c
      <3>7. c.asked <= MaxTtl /\ c.asked % MsPerSecond = 0 => ttl * MsPerSecond = c.asked
        <4> SUFFICES ASSUME c.asked <= MaxTtl, c.asked % MsPerSecond = 0
                     PROVE  ttl * MsPerSecond = c.asked
          OBVIOUS
        <4>1. ms = c.asked
          <5>1. \A m, k \in Nat : m <= k => Least(m, k) = m
            BY DEF Least
          <5> QED
            BY <3>5, <5>1 DEF c
        <4>2. /\ c.asked \div MsPerSecond \in Int
              /\ c.asked = MsPerSecond * (c.asked \div MsPerSecond) + (c.asked % MsPerSecond)
          <5>1. c.asked \in Int
            BY <3>5
          <5> QED
            BY <3>5, <5>1, Division, Zenon
        <4>3. \A a, m, q \in Int : a = m * q + 0 => q * m = a
          OBVIOUS
        <4> QED
          BY <3>4, <3>5, <4>1, <4>2, <4>3
      <3> QED
        BY <2>6, <3>6, <3>7 DEF c, n
    <2> QED
      BY <2>1, <2>5, <2>6 DEF TtlCall
  <1> QED
    BY <1>1, AlwaysLocal, PTL

-----------------------------------------------------------------------------
(* What depends on the locks                                                *)

(* A thread that calls anything has the extension for itself: it would not  *)
(* keep to the monitor of the ProtonContainer, and may make the messenger   *)
(* blocking again.                                                          *)
AnyIsAlone ==
  \A w \in Workloads : \A t, u \in Threads : t # u /\ w[1][t] = "any" => w[1][u] = "nothing"

Waiting == {"pn_messenger_work", "pn_messenger_send", "pn_messenger_recv"}

(* The inductive invariant of a thread.  A call has the global lock until   *)
(* it waits in the library; only a client's thread does, and keeps the      *)
(* monitor meanwhile; an application's thread passes a message of its own.  *)
Scheduled(t) ==
  LET c == call[t] IN
  /\ c.step = "called" => gvl = t
  /\ c.step = "inside" /\ gvl # t => c.fn \in Waiting
  /\ role[t] = "nothing" => c.step = "idle"
  /\ role[t] = "client" /\ c.step # "idle" => container = t
  /\ role[t] = "client" /\ c.step \in {"called", "inside"} =>
       \A i \in DOMAIN c.given : c.given[i] # OwnMessage
  /\ role[t] = "user" /\ c.step # "idle" => c.fn = "pn_message_set_ttl"
  /\ role[t] = "user" /\ c.step \in {"called", "inside"} =>
       \E n : c.given = <<OwnMessage, Integer(n)>>
  /\ role[t] # "any" /\ c.step # "idle" => c.fn # "pn_messenger_set_blocking"
  /\ c.step \in {"back", "done"} /\ c.raised = "" /\ ~c.entered =>
       build = "releases" /\ ~blocking /\ c.fn = "pn_messenger_send"

EachScheduled == \A t \in Threads : Scheduled(t)

LEMMA RolesOfThreads ==
  ASSUME Rest
  PROVE  /\ role \in [Threads -> Roles]
         /\ AnyIsAlone => \A t, u \in Threads : t # u /\ role[t] = "any" => role[u] = "nothing"
  <1>1. role \in [Threads -> Roles]
    BY CprotonAssumption DEF Rest
  <1>2. \E w \in Workloads : w[1] = role
    BY DEF Rest
  <1> QED
    BY <1>1, <1>2 DEF AnyIsAlone

LEMMA OwnMessageIsOwn ==
  /\ \A n : Integer(n) # OwnMessage /\ String(n) # OwnMessage
  /\ Nil # OwnMessage /\ Messenger # OwnMessage /\ ItsMessage # OwnMessage
  /\ Transport # OwnMessage /\ Connection # OwnMessage
  <1>1. OwnMessage.type = "pn_message_t" /\ OwnMessage.val = 2
    BY DEF OwnMessage, Val
  <1>2. \A n : Integer(n).type = "Integer" /\ String(n).type = "String"
    BY DEF Integer, String, Val
  <1>3. /\ Nil.type = "NilClass" /\ Messenger.type = "pn_messenger_t" /\ ItsMessage.val = 1
        /\ Transport.type = "pn_transport_t" /\ Connection.type = "pn_connection_t"
    BY DEF Nil, Messenger, ItsMessage, Transport, Connection, Val
  <1> QED
    BY <1>1, <1>2, <1>3

(* The calls by the role of the thread.                                     *)
LEMMA CallByRole ==
  ASSUME NEW r, NEW made \in CallsOf(r)
  PROVE  /\ r \in {"any", "client", "user"}
         /\ r = "client" => \A i \in DOMAIN made.given : made.given[i] # OwnMessage
         /\ r = "user" => /\ made.fn = "pn_message_set_ttl"
                          /\ \E n : made.given = <<OwnMessage, Integer(n)>>
         /\ r # "any" => made.fn # "pn_messenger_set_blocking"
  <1>1. CASE r = "any"
    BY <1>1
  <1>2. CASE r = "client"
    <2>1. \/ \E m \in {Messenger, Nil} :
               made \in PlainCalls(m) \/ \E ms \in Asked : made = Subscribe(m, ms)
          \/ made = Peek
          \/ \E n \in Lengths : made = Push(n)
      BY <1>2, CallOfClient
    <2>2. made.fn # "pn_messenger_set_blocking"
      BY <2>1 DEF PlainCalls, Subscribe, Peek, Push, Made
    <2>3. PICK a, b, c : /\ a # OwnMessage /\ b # OwnMessage /\ c # OwnMessage
                         /\ made.given = <<a>> \/ made.given = <<a, b>> \/ made.given = <<a, b, c>>
      BY <2>1, OwnMessageIsOwn DEF PlainCalls, Subscribe, Peek, Push, Made
    <2> QED
      BY <1>2, <2>2, <2>3
  <1>3. CASE r = "user"
    <2>1. PICK ms \in Asked : made = Made("pn_message_set_ttl", <<OwnMessage, Integer(SendTtl(ms))>>, ms)
      BY <1>3 DEF CallsOf, UserCalls
    <2> QED
      BY <1>3, <2>1 DEF Made
  <1> QED
    BY <1>1, <1>2, <1>3 DEF CallsOf

(* A step that leaves a thread's call alone need only respect its locks.    *)
LEMMA Undisturbed ==
  ASSUME NEW u \in Threads, Scheduled(u), role' = role, build' = build, call'[u] = call[u],
         call[u].step = "called" => gvl' = u,
         call[u].step = "inside" => gvl' = gvl \/ gvl # u,
         role[u] = "client" /\ call[u].step # "idle" => container' = u,
         blocking' = blocking \/ call[u].step = "idle"
  PROVE  Scheduled(u)'
  <1> DEFINE c == call[u]
  <1>1. /\ c.step = "called" => gvl = u
        /\ c.step = "inside" /\ gvl # u => c.fn \in Waiting
        /\ role[u] = "nothing" => c.step = "idle"
        /\ role[u] = "client" /\ c.step # "idle" => container = u
        /\ role[u] = "client" /\ c.step \in {"called", "inside"} =>
             \A i \in DOMAIN c.given : c.given[i] # OwnMessage
        /\ role[u] = "user" /\ c.step # "idle" => c.fn = "pn_message_set_ttl"
        /\ role[u] = "user" /\ c.step \in {"called", "inside"} =>
             \E n : c.given = <<OwnMessage, Integer(n)>>
        /\ role[u] # "any" /\ c.step # "idle" => c.fn # "pn_messenger_set_blocking"
    BY DEF Scheduled
  <1>2. c.step \in {"back", "done"} /\ c.raised = "" /\ ~c.entered =>
          build = "releases" /\ ~blocking /\ c.fn = "pn_messenger_send"
    BY DEF Scheduled
  <1>3. c.step \in {"back", "done"} /\ c.raised = "" /\ ~c.entered =>
          build' = "releases" /\ ~blocking' /\ c.fn = "pn_messenger_send"
    BY <1>2
  <1>4. /\ c.step = "called" => gvl' = u
        /\ c.step = "inside" /\ gvl' # u => c.fn \in Waiting
        /\ role[u] = "client" /\ c.step # "idle" => container' = u
    BY <1>1
  <1>5. c' = c
    OBVIOUS
  <1> HIDE DEF c
  <1> QED
    BY <1>1, <1>3, <1>4, <1>5 DEF Scheduled, c

(* The inductive invariant as a whole.                                      *)
Inv == Rest /\ EachLocal /\ EachScheduled

LEMMA ScheduledLocks ==
  ASSUME Inv, NEW t \in Threads,
         TakeGVL(t) \/ YieldGVL(t) \/ Lock(t) \/ Unlock(t)
  PROVE  EachScheduled'
  <1> SUFFICES ASSUME NEW u \in Threads PROVE Scheduled(u)'
    BY DEF EachScheduled
  <1>1. Scheduled(u) /\ None \notin Threads
    BY CprotonAssumption DEF Inv, EachScheduled
  <1>2. call'[u] = call[u] /\ role' = role /\ build' = build /\ blocking' = blocking
    BY DEF TakeGVL, YieldGVL, Lock, Unlock, Unchanged
  <1>3. /\ call[u].step = "called" => gvl' = u
        /\ call[u].step = "inside" => gvl' = gvl \/ gvl # u
        /\ role[u] = "client" /\ call[u].step # "idle" => container' = u
    <2>1. CASE TakeGVL(t)
      BY <1>1, <2>1 DEF TakeGVL, Scheduled
    <2>2. CASE YieldGVL(t)
      BY <1>1, <2>2 DEF YieldGVL, Scheduled
    <2>3. CASE Lock(t)
      BY <1>1, <2>3 DEF Lock, Scheduled
    <2>4. CASE Unlock(t)
      BY <1>1, <2>4 DEF Unlock, Scheduled
    <2> QED
      BY <2>1, <2>2, <2>3, <2>4
  <1> QED
    BY <1>1, <1>2, <1>3, Undisturbed

(* The steps of a call: the other threads' are not disturbed.               *)
LEMMA ScheduledOthers ==
  ASSUME AnyIsAlone, Inv, NEW t \in Threads, NEW u \in Threads, u # t,
         Call(t) \/ Raise(t) \/ Enter(t) \/ Skip(t) \/ LibraryReturns(t) \/ Return(t) \/ Forget(t)
  PROVE  Scheduled(u)'
  <1>1. /\ Scheduled(u) /\ Scheduled(t) /\ None \notin Threads
        /\ DOMAIN call = Threads
    BY CprotonAssumption DEF Inv, EachScheduled, EachLocal
  <1>2. call'[u] = call[u]
    <2>1. \E d : call' = [call EXCEPT ![t] = d]
      <3>1. CASE LibraryReturns(t)
        BY <1>1, <3>1 DEF LibraryReturns
      <3>2. CASE Return(t)
        BY <1>1, <3>2 DEF Return
      <3>3. CASE Call(t) \/ Raise(t) \/ Enter(t) \/ Skip(t) \/ Forget(t)
        BY <3>3 DEF Call, Raise, Enter, Skip, Forget
      <3> QED
        BY <3>1, <3>2, <3>3
    <2> QED
      BY <1>1, <2>1
  <1>3. role' = role /\ build' = build /\ container' = container
    BY DEF Call, Raise, Enter, Skip, LibraryReturns, Return, Forget, Unchanged
  <1>4. /\ call[u].step = "called" => gvl' = u
        /\ call[u].step = "inside" => gvl' = gvl \/ gvl # u
    <2>1. CASE Enter(t)
      <3>1. gvl = t
        BY <1>1, <2>1 DEF Enter, Scheduled
      <3> QED
        BY <1>1, <3>1 DEF Scheduled
    <2>2. CASE Call(t) \/ Raise(t) \/ Skip(t) \/ LibraryReturns(t) \/ Return(t) \/ Forget(t)
      <3>1. gvl' = gvl
        BY <2>2 DEF Call, Raise, Skip, LibraryReturns, Return, Forget
      <3> QED
        BY <1>1, <3>1 DEF Scheduled
    <2> QED
      BY <2>1, <2>2
  <1>5. blocking' = blocking \/ call[u].step = "idle"
    <2>1. CASE LibraryReturns(t)
      <3>1. blocking' = blocking \/ call[t].fn = "pn_messenger_set_blocking"
        BY <2>1 DEF LibraryReturns
      <3>2. call[t].fn = "pn_messenger_set_blocking" => role[t] = "any"
        BY <1>1, <2>1 DEF Scheduled, LibraryReturns
      <3>3. role[t] = "any" => role[u] = "nothing"
        BY RolesOfThreads DEF Inv
      <3> QED
        BY <1>1, <3>1, <3>2, <3>3 DEF Scheduled
    <2>2. CASE Call(t) \/ Raise(t) \/ Enter(t) \/ Skip(t) \/ Return(t) \/ Forget(t)
      BY <2>2 DEF Call, Raise, Enter, Skip, Return, Forget
    <2> QED
      BY <2>1, <2>2
  <1>6. role[u] = "client" /\ call[u].step # "idle" => container' = u
    BY <1>1, <1>3 DEF Scheduled
  <1> QED
    BY <1>1, <1>2, <1>3, <1>4, <1>5, <1>6, Undisturbed

(* A call that goes on is still of the same function, in the same role.     *)
LEMMA GoesOn ==
  ASSUME NEW t \in Threads, Scheduled(t), role' = role, container' = container,
         NEW c, c = call[t], NEW d, d = call'[t],
         c.step # "idle", d.fn = c.fn, d.step \in {"inside", "back", "done"},
         d.step = "inside" => /\ c.step = "called" /\ d.given = c.given
                              /\ gvl' # t => c.fn \in Waiting,
         d.step \in {"back", "done"} /\ d.raised = "" /\ ~d.entered =>
           build' = "releases" /\ ~blocking' /\ c.fn = "pn_messenger_send"
  PROVE  Scheduled(t)'
  <1>1. /\ role[t] # "nothing"
        /\ role[t] = "client" => container = t
        /\ role[t] = "client" /\ c.step = "called" =>
             \A i \in DOMAIN c.given : c.given[i] # OwnMessage
        /\ role[t] = "user" => c.fn = "pn_message_set_ttl"
        /\ role[t] = "user" /\ c.step = "called" =>
             \E n : c.given = <<OwnMessage, Integer(n)>>
        /\ role[t] # "any" => c.fn # "pn_messenger_set_blocking"
    BY DEF Scheduled
  <1>2. /\ d.step # "called"
        /\ d.step = "inside" /\ gvl' # t => d.fn \in Waiting
        /\ role'[t] # "nothing"
        /\ role'[t] = "client" => container' = t
        /\ role'[t] # "any" => d.fn # "pn_messenger_set_blocking"
        /\ role'[t] = "user" => d.fn = "pn_message_set_ttl"
    BY <1>1
  <1>3. role'[t] = "client" /\ d.step = "inside" => \A i \in DOMAIN d.given : d.given[i] # OwnMessage
    BY <1>1
  <1>4. role'[t] = "user" /\ d.step = "inside" => \E n : d.given = <<OwnMessage, Integer(n)>>
    BY <1>1
  <1>5. d.step \in {"back", "done"} /\ d.raised = "" /\ ~d.entered =>
          build' = "releases" /\ ~blocking' /\ d.fn = "pn_messenger_send"
    OBVIOUS
  <1> QED
    BY <1>2, <1>3, <1>4, <1>5 DEF Scheduled

LEMMA ScheduledSelf ==
  ASSUME Inv, NEW t \in Threads,
         Call(t) \/ Raise(t) \/ Enter(t) \/ Skip(t) \/ LibraryReturns(t) \/ Return(t) \/ Forget(t)
  PROVE  Scheduled(t)'
  <1> DEFINE c == call[t]
             d == call'[t]
  <1>1. Scheduled(t) /\ Local(c) /\ DOMAIN c = DOMAIN Idle /\ DOMAIN call = Threads
    BY DEF Inv, EachScheduled, EachLocal, Local
  <1>2. role' = role /\ (~Call(t) => container' = container)
    BY DEF Call, Raise, Enter, Skip, LibraryReturns, Return, Forget, Unchanged
  <1>3. CASE Call(t)
    <2>1. PICK made \in CallsOf(role[t]) :
            d = [Idle EXCEPT !.step = "called", !.fn = made.fn, !.given = made.given,
                             !.asked = made.asked]
      BY <1>1, <1>3 DEF Call
    <2>2. d.step = "called" /\ d.fn = made.fn /\ d.given = made.given
      BY <2>1 DEF Idle
    <2>3. gvl' = t /\ (role[t] = "client" => container' = t)
      BY <1>3 DEF Call, MayCall
    <2> HIDE DEF d
    <2>4. /\ role[t] \in {"any", "client", "user"}
          /\ role[t] = "client" => \A i \in DOMAIN d.given : d.given[i] # OwnMessage
          /\ role[t] = "user" => d.fn = "pn_message_set_ttl"
          /\ role[t] = "user" => \E n : d.given = <<OwnMessage, Integer(n)>>
          /\ role[t] # "any" => d.fn # "pn_messenger_set_blocking"
      BY <2>2, CallByRole
    <2> QED
      BY <1>2, <2>2, <2>3, <2>4 DEF Scheduled, d
  <1>4. CASE Raise(t)
    <2>1. \A code : ErrorType(code) # ""
      BY DEF ErrorType
    <2>2. d.step = "done" /\ d.fn = c.fn /\ d.raised # "" /\ c.step = "called"
      BY <1>1, <1>4, <2>1 DEF Raise, Idle
    <2> HIDE DEF c, d
    <2> QED
      BY <1>1, <1>2, <1>4, <2>2, GoesOn DEF c, d, Raise
  <1>5. CASE Enter(t)
    <2>1. d.step = "inside" /\ d.fn = c.fn /\ d.given = c.given /\ c.step = "called"
      BY <1>1, <1>5 DEF Enter, Idle
    <2>2. gvl' # t => c.fn \in Waiting
      <3>1. gvl = t
        BY <1>1, <2>1 DEF Scheduled
      <3>2. gvl' # t => \E x : x.fn = c.fn /\ MayWait(x)
        <4> DEFINE x == [c EXCEPT !.step = "inside", !.entered = TRUE, !.received = Received(c),
                                  !.buffers = Allocated(c, Len(FnOf(c).params))]
        <4>1. gvl' = IF Releases(x) THEN None ELSE gvl
          BY <1>5 DEF Enter
        <4>2. x.fn = c.fn
          BY <1>1 DEF Idle
        <4> HIDE DEF x
        <4> QED
          BY <3>1, <4>1, <4>2 DEF Releases
      <3> QED
        BY <3>2 DEF MayWait, Waiting
    <2> QED
      BY <1>1, <1>2, <1>5, <2>1, <2>2, GoesOn DEF Enter
  <1>6. CASE Skip(t)
    <2>1. d.step = "back" /\ d.fn = c.fn /\ c.step = "called"
      BY <1>1, <1>6 DEF Skip, Idle
    <2>2. build' = "releases" /\ ~blocking' /\ c.fn = "pn_messenger_send"
      BY <1>6 DEF Skip, Skipped, Unchanged
    <2> QED
      BY <1>1, <1>2, <1>6, <2>1, <2>2, GoesOn DEF Skip
  <1>7. CASE LibraryReturns(t)
    <2>1. c.step = "inside" /\ c.entered
      BY <1>1, <1>7 DEF LibraryReturns, Local
    <2>2. PICK r : d = [c EXCEPT !.step = "back", !.given = <<>>, !.received = <<>>, !.asked = -1,
                                 !.result = r]
      BY <1>1, <1>7 DEF LibraryReturns
    <2>3. d.step = "back" /\ d.fn = c.fn /\ d.entered
      BY <1>1, <2>1, <2>2 DEF Idle
    <2> QED
      BY <1>1, <1>2, <1>7, <2>1, <2>3, GoesOn DEF LibraryReturns
  <1>8. CASE Return(t)
    <2>1. c.step = "back" /\ build' = build /\ blocking' = blocking
      BY <1>8 DEF Return, Unchanged
    <2>2. /\ d.step = "done" /\ d.fn = c.fn
          /\ d.raised = "" => c.raised = "" /\ (~d.entered => ~c.entered)
      <3>1. \/ d = [c EXCEPT !.step = "done", !.buffers = 0,
                             !.outcome = FromResult(FnOf(c).result, c.result)]
            \/ d = [c EXCEPT !.step = "done", !.raised = ErrorType("RuntimeError")]
        BY <1>1, <1>8 DEF Return
      <3>2. ErrorType("RuntimeError") # ""
        BY DEF ErrorType
      <3> QED
        BY <1>1, <3>1, <3>2 DEF Idle
    <2>3. d.raised = "" /\ ~d.entered =>
            build' = "releases" /\ ~blocking' /\ c.fn = "pn_messenger_send"
      BY <1>1, <2>1, <2>2 DEF Scheduled
    <2> QED
      BY <1>1, <1>2, <1>8, <2>1, <2>2, <2>3, GoesOn DEF Return
  <1>9. CASE Forget(t)
    <2>1. d.step = "idle"
      BY <1>1, <1>9 DEF Forget, Idle
    <2> QED
      BY <2>1 DEF Scheduled
  <1> QED
    BY <1>3, <1>4, <1>5, <1>6, <1>7, <1>8, <1>9

LEMMA InvInit == Init => Inv
  <1>1. Init => EachScheduled
    <2>1. Idle.step = "idle"
      BY DEF Idle
    <2>2. Init => \A t \in Threads : call[t].step = "idle"
      BY <2>1 DEF Init
    <2> QED
      BY <2>2 DEF EachScheduled, Scheduled
  <1> QED
    BY <1>1, RestInit, EachLocalInit DEF Inv

LEMMA InvNext ==
  ASSUME AnyIsAlone
  PROVE  Inv /\ [Next]_vars => Inv'
  <1> SUFFICES ASSUME Inv, [Next]_vars PROVE Inv'
    OBVIOUS
  <1>1. Rest' /\ EachLocal'
    BY RestNext, EachLocalNext DEF Inv
  <1>2. CASE UNCHANGED vars
    BY <1>1, <1>2 DEF Inv, EachScheduled, Scheduled, vars
  <1>3. CASE Next
    <2>1. PICK t \in Threads : \/ TakeGVL(t) \/ YieldGVL(t) \/ Lock(t) \/ Unlock(t)
                               \/ Call(t) \/ Raise(t) \/ Enter(t) \/ Skip(t)
                               \/ LibraryReturns(t) \/ Return(t) \/ Forget(t)
      BY <1>3 DEF Next
    <2>2. CASE TakeGVL(t) \/ YieldGVL(t) \/ Lock(t) \/ Unlock(t)
      BY <1>1, <2>2, ScheduledLocks DEF Inv
    <2>3. CASE \/ Call(t) \/ Raise(t) \/ Enter(t) \/ Skip(t) \/ LibraryReturns(t)
               \/ Return(t) \/ Forget(t)
      <3>1. \A u \in Threads : Scheduled(u)'
        BY <2>3, ScheduledSelf, ScheduledOthers
      <3> QED
        BY <1>1, <3>1 DEF Inv, EachScheduled
    <2> QED
      BY <2>1, <2>2, <2>3
  <1> QED
    BY <1>2, <1>3

(* Only one thread at a time works in the library on an object: of two that *)
(* are inside, one waits without the global lock, so that it is a client's  *)
(* and has the monitor; the other is no client's, and its objects are the   *)
(* application's own.                                                       *)
THEOREM OneThreadAtATime ==
  ASSUME AnyIsAlone
  PROVE  Spec => []OneThreadInProton
  <1>1. Inv => OneThreadInProton
    <2>1. ASSUME Inv, NEW t \in Threads, NEW u \in Threads, t # u, gvl # t,
                 call[t].step = "inside", call[u].step = "inside"
          PROVE  ObjectsOf(call[t]) \cap ObjectsOf(call[u]) = {}
      <3>1. Scheduled(t) /\ Scheduled(u)
        BY <2>1 DEF Inv, EachScheduled
      <3>2. role[t] \in Roles /\ role[u] \in Roles
            /\ ~(role[t] = "any" /\ role[u] # "nothing") /\ ~(role[u] = "any" /\ role[t] # "nothing")
        BY <2>1, RolesOfThreads DEF Inv
      <3>3. call[t].fn \in Waiting
        BY <2>1, <3>1 DEF Scheduled
      <3>4. role[t] = "client" /\ container = t
        BY <2>1, <3>1, <3>2, <3>3 DEF Scheduled, Roles, Waiting
      <3>5. role[u] = "user"
        BY <2>1, <3>1, <3>2, <3>4 DEF Scheduled, Roles
      <3>6. PICK n : call[u].given = <<OwnMessage, Integer(n)>>
        BY <2>1, <3>1, <3>5 DEF Scheduled
      <3>7. ObjectsOf(call[u]) \subseteq {OwnMessage}
        <4>1. Integer(n).type \in Plain
          BY DEF Integer, Val, Plain
        <4> QED
          BY <3>6, <4>1 DEF ObjectsOf
      <3>8. OwnMessage \notin ObjectsOf(call[t])
        BY <2>1, <3>1, <3>4 DEF Scheduled, ObjectsOf
      <3> QED
        BY <3>7, <3>8
    <2>2. ASSUME Inv, NEW t \in Threads, NEW u \in Threads, t # u,
                 call[t].step = "inside", call[u].step = "inside"
          PROVE  ObjectsOf(call[t]) \cap ObjectsOf(call[u]) = {}
      <3>1. gvl # t \/ gvl # u
        BY <2>2
      <3>2. ObjectsOf(call[t]) \cap ObjectsOf(call[u]) = {}
            \/ ObjectsOf(call[u]) \cap ObjectsOf(call[t]) = {}
        BY <2>1, <2>2, <3>1
      <3> QED
        BY <3>2
    <2> QED
      BY <2>2 DEF OneThreadInProton
  <1> QED
    BY <1>1, InvInit, InvNext, PTL DEF Spec

(* A call that raises has left no buffer and no effect behind, and one that *)
(* returns without having been in the library is a send that the wrapper    *)
(* leaves out.                                                              *)
THEOREM RaiseIsClean ==
  ASSUME AnyIsAlone
  PROVE  Spec => []RaiseLeavesNothing
  <1>1. Inv => RaiseLeavesNothing
    <2> SUFFICES ASSUME Inv, NEW t \in Threads, call[t].step = "done"
                 PROVE  LET c == call[t] IN
                          /\ c.buffers = 0
                          /\ c.raised # "" /\ c.entered => FnOf(c).ensures # "nothing"
                          /\ c.raised = "" /\ ~c.entered =>
                               build = "releases" /\ ~blocking /\ c.fn = "pn_messenger_send"
      BY DEF RaiseLeavesNothing
    <2>1. Local(call[t]) /\ Scheduled(t)
      BY DEF Inv, EachLocal, EachScheduled
    <2>2. /\ call[t].buffers = 0
          /\ call[t].raised # "" /\ call[t].entered => FnOf(call[t]).ensures # "nothing"
      BY <2>1 DEF Local
    <2>3. call[t].raised = "" /\ ~call[t].entered =>
            build = "releases" /\ ~blocking /\ call[t].fn = "pn_messenger_send"
      BY <2>1 DEF Scheduled
    <2> QED
      BY <2>2, <2>3
  <1> QED
    BY <1>1, InvInit, InvNext, PTL DEF Spec
=============================================================================
