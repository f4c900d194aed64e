------------------------------ MODULE Invocation ------------------------------
(***************************************************************************)
(* One invocation, end to end: the data a client packs, what               *)
(* _default_on_packet_invoke reads from it, what the application makes of  *)
(* the arguments, and the data of the packets that go back.  Rpc has the   *)
(* order and the ids of many; its classes of arguments are the ones found  *)
(* here.                                                                   *)
(***************************************************************************)
EXTENDS PyValues

CONSTANTS Apps,      \* the applications: "twisted", "demo"
          Methods,   \* the values a client sends as the name of a method
          Arguments, \* the lists of arguments it sends
          Ids,       \* the request ids it uses
          Stale      \* the bytes that may follow the data in memory

ASSUME InvocationAssumption == /\ Apps \subseteq {"twisted", "demo"}
                               /\ Ids \subseteq 1 .. 50 /\ Stale \subseteq Byte

\* A client sends what can be read: no string of 32K, no END in a table.
ASSUME ReadableAssumption == /\ Methods \subseteq Readable[MaxDepth]
                             /\ Arguments \subseteq Seq(Readable[MaxDepth])

VARIABLES
  app, call,   \* the application, what the client invokes
  memory,      \* the data of the packet, and what follows it in memory
  pc,          \* "head", "arguments", "dispatch", "done", "aborted" or "crashed"
  src,         \* how much has been read
  id, argv,    \* what it was
  out          \* the data of the packets that go to the client

vars == << app, call, memory, pc, src, id, argv, out >>

\* Names, each of one byte here.
String(c) == Value(AMF_STRING, << c >>)
add       == String(65)
connect   == String(67)
greeting  == String(71)
_result   == String(82)

\* A Flash player ends an associative array like a hash, wherever it is; the library does
\* not.
FlashPackTo[d \in Nat] ==
  IF d = 0 THEN << >>
  ELSE [av \in AVs[d] |-> PackValue(FlashPackTo[d - 1], av)
                            \o IF av.type = AMF_ASSOC_ARRAY THEN EndMarker ELSE << >>]

FlashPack(av) == FlashPackTo[Depth(av)][av]

ClientPack(c) ==
  LET values == << c.method, NumberAV(c.id), Nil >> \o c.args
  IN FlattenSeq([i \in 1 .. Len(values) |->
                   IF c.flash THEN FlashPack(values[i]) ELSE Pack(values[i])])

Invocations == [method : Methods, id : Ids, args : Arguments, flash : BOOLEAN]

\* Each array and each table takes a byte of the packet, and those that are made of them
\* are at most in one more.
ASSUME DepthAssumption == \A c \in Invocations : Len(ClientPack(c)) + 2 <= MaxDepth

Init ==
  /\ app \in Apps
  /\ call \in Invocations
  /\ \E stale \in Stale : memory = [data |-> ClientPack(call), stale |-> stale]
  /\ pc = "head" /\ src = 0 /\ id = 0
  /\ argv = << >> /\ out = << >>

-----------------------------------------------------------------------------
(* _default_on_packet_invoke.                                              *)

Abort == pc' = "aborted" /\ UNCHANGED << app, call, memory, src, id, argv, out >>
Crash == pc' = "crashed" /\ UNCHANGED << app, call, memory, src, id, argv, out >>

\* What was read has used memory that it must not use.
Crashes(one) == one.next >= Nowhere

\* The method name, the request id and the first argument, which is not used.
ReadHead ==
  LET method == Unpack(memory, 0)
      number == Unpack(memory, method.next)
      first  == Unpack(memory, number.next)
  IN /\ pc = "head"
     /\ IF Crashes(method) THEN Crash
        ELSE IF method.av.type # AMF_STRING THEN Abort
        ELSE IF Crashes(number) THEN Crash
        ELSE IF number.av.type # AMF_NUMBER THEN Abort
        ELSE IF Crashes(first) THEN Crash
        ELSE /\ pc' = "arguments"
             /\ src' = first.next
             /\ id' = Number(number.av.value)
             /\ UNCHANGED << app, call, memory, argv, out >>

\* The loop of amf_ap_read_arguments.
ReadArgument ==
  LET one == Unpack(memory, src)
  IN /\ pc = "arguments" /\ src < Len(memory.data)
     /\ IF Crashes(one) THEN Crash
        ELSE /\ src' = one.next
             /\ argv' = Append(argv, one.av)
             /\ UNCHANGED << app, call, memory, pc, id, out >>

ArgumentsRead ==
  /\ pc = "arguments" /\ src >= Len(memory.data)
  /\ pc' = "dispatch"
  /\ UNCHANGED << app, call, memory, src, id, argv, out >>

Dispatch(method) == pc = "dispatch" /\ Unpack(memory, 0).av = method

\* Packets are sent, unless the room set aside for one of them is not what it takes.
Sends(packets) ==
  IF \E i \in 1 .. Len(packets) : packets[i].room # Len(packets[i].data)
    THEN Abort
    ELSE /\ pc' = "done"
         /\ out' = [i \in 1 .. Len(packets) |-> packets[i].data]
         /\ UNCHANGED << app, call, memory, src, id, argv >>

Return(value) == PackArguments(<< _result, NumberAV(id), Nil, value >>)

\* The id that follows, as this is the first request of the connection.
Calls(method, value) == PackCall(method, NumberAV(id + 1), << value >>)

\* level, code and description.
ConnectSuccess == Value(AMF_HASH, [i \in 1 .. 3 |-> Elem(<< i >>, String(100 + i))])

OnConnect == Dispatch(connect) /\ Sends(<< Return(ConnectSuccess) >>)

\* A method the application does not have.
OnUnknown == /\ pc = "dispatch" /\ Unpack(memory, 0).av \notin {add, connect}
             /\ Sends(<< >>)

-----------------------------------------------------------------------------
(* add.                                                                    *)

\* The number in a value: of a value of another type, whatever its memory holds.
NumbersIn(av) == IF av.type = AMF_NUMBER THEN {Number(av.value)} ELSE {0, Unknown}

\* _on_amf_call of aux/connection.cpp.
OnAddDemo ==
  /\ Dispatch(add) /\ app = "demo"
  /\ IF Len(argv) # 2 THEN Abort
     ELSE \E v1 \in NumbersIn(argv[1]), v2 \in NumbersIn(argv[2]) :
            Sends(<< Return(NumberAV(v1 + v2)), Calls(greeting, String(104)) >>)

\* Values whose memory nobody wrote: nothing, some number, or a pointer into nowhere.
Left == {Nil, NumberAV(Unknown)}

\* Broken: a value that is false is returned like any other.
AnsweredAlways(ret) == {TRUE}

\* Whether `if ret` holds: of a number that is not known, it may or may not.
Answered(ret) ==
  IF ret.type \in Numeric /\ Uncertain(ret.value) THEN BOOLEAN ELSE {Truthy(ret)}

\* amf_add of testbad.py, and what handleInvoke does with its value.  The wrong number
\* of arguments and arguments that do not add up raise an exception before anything is
\* sent; nobody sees it.
OnAddTwisted ==
  LET a == av_2_py(argv[1])
      b == av_2_py(argv[2])
      sum == PlusTimes(a, b, 2)
      ret == PlusTimes(a, b, 7)
      answer == Py("dict", << Elem(<< 97 >>, sum) >>)
  IN /\ Dispatch(add) /\ app = "twisted"
     /\ IF Len(argv) # 2 THEN Sends(<< >>)
        ELSE IF ~Addable(a, b) THEN Sends(<< >>)
        ELSE \/ \E left1, left2 \in Left, answered \in Answered(ret) :
                  Sends(<< Calls(greeting, py_2_av(answer, left1)) >>
                          \o IF answered THEN << Return(py_2_av(ret, left2)) >> ELSE << >>)
             \/ Unwritten(sum) /\ Abort

Next == \/ ReadHead \/ ReadArgument \/ ArgumentsRead
        \/ OnConnect \/ OnUnknown \/ OnAddDemo \/ OnAddTwisted

Spec == Init /\ [][Next]_vars

-----------------------------------------------------------------------------
(* Properties.                                                             *)

\* A Flash player has put an end marker somewhere in this value, or, last, at its very end
\* and nowhere else.
Marked(v)     == call.flash /\ v \notin Plain[Depth(v)]
MarkedLast(v) == /\ v.type = AMF_ASSOC_ARRAY
                 /\ \A i \in 1 .. Len(v.value) : v.value[i].value \in Plain[Depth(v) - 1]

\* The arguments arrive as they were sent, up to the first that a Flash player has put the
\* end marker of an associative array in, and that one too if the marker is at its end: a
\* marker is left in the data and read as whatever comes next.  Otherwise all of them
\* arrive, and nothing is read behind them.
ArgumentsArrive ==
  LET marked == { i \in 1 .. Len(call.args) : Marked(call.args[i]) }
  IN pc \in {"dispatch", "done"} =>
       IF marked = {} THEN argv = call.args /\ src = Len(memory.data)
       ELSE \A i \in 1 .. Min(marked) :
              i < Min(marked) \/ MarkedLast(call.args[i]) => argv[i] = call.args[i]

\* No assertion fails and no memory that nobody wrote is followed, unless the method is
\* no string, the demo server is given other than two arguments, or Python has added
\* integers, which the binding does not convert: above all, each packet takes exactly
\* the room that was computed for it.  And no size or count leads the reader out of its
\* memory, unless a Flash player has sent an associative array.
OnlyKnownAborts ==
  /\ pc = "aborted" =>
       \/ call.method.type # AMF_STRING
       \/ app = "demo" /\ Len(argv) # 2
       \/ app = "twisted" /\ Len(argv) = 2 /\ \A i \in {1, 2} : argv[i].type # AMF_NUMBER
  /\ pc = "crashed" =>
       \/ Marked(call.method)
       \/ \E i \in 1 .. Len(call.args) : Marked(call.args[i])

\* What the client reads in the packets it is sent, with the same codec: one more value in
\* each round.
ReadFrom(m) ==
  LET read[n \in Nat] ==
        IF n = 0 THEN [value |-> << >>, next |-> 0]
        ELSE LET sofar == read[n - 1]
                 one   == Unpack(m, sofar.next)
             IN IF sofar.next >= Len(m.data) THEN sofar
                ELSE [value |-> Append(sofar.value, one.av), next |-> one.next]
  IN read

ReadAll(m) == ReadFrom(m)[Len(m.data)].value

Packets == [i \in 1 .. Len(out) |-> ReadAll([data |-> out[i], stale |-> 0])]

\* The classes of arguments of Rpc.
Numbers == {AMF_NUMBER, AMF_BOOLEAN, AMF_LINK}
Wrong(args) ==
  \/ Len(args) # 2
  \/ ~ \/ \A i \in {1, 2} : args[i].type \in Numbers
       \/ args[1].type = args[2].type /\ args[1].type \in {AMF_STRING, AMF_ARRAY}
Amount(av) == IF av.type = AMF_NUMBER THEN Number(av.value) ELSE av.value[1]
Sum(args) == Amount(args[1]) + 7 * Amount(args[2])
Open(args) == args[1].type \in Numbers /\ Uncertain(Sum(args))
Zero(args) == IF args[1].type \in Numbers THEN Sum(args) = 0
              ELSE args[1].value = << >> /\ args[2].value = << >>

\* add is answered as Rpc has it for the class of its arguments: by which packets, in
\* which order, under which ids.  Of numbers that are not known here the class is not known.
AnsweredAsInRpc ==
  LET ids    == [i \in 1 .. Len(out) |-> SubSeq(Packets[i], 1, 2)]
      called == << greeting, NumberAV(call.id + 1) >>
      reply  == << _result, NumberAV(call.id) >>
  IN pc = "done" /\ call.method = add /\ argv = call.args =>
       ids \in IF app = "demo" THEN {<< reply, called >>}
               ELSE IF Wrong(argv) THEN {<< >>}
               ELSE IF Open(argv) THEN {<< called >>, << called, reply >>}
               ELSE IF Zero(argv) THEN {<< called >>}
               ELSE {<< called, reply >>}

\* A client that adds two whole numbers sees their sum, or what testbad.py makes of them, in
\* the reply and in the call that comes with it, as long as all of these are known here and
\* what is returned is not 0; one that connects is told that it is connected.
RightAnswers ==
  LET n == Number(call.args[1].value)
      k == Number(call.args[2].value)
      Result(value)   == << _result, NumberAV(call.id), Nil, value >>
      Greeting(value) == << greeting, NumberAV(call.id + 1), Nil, value >>
      AddsNumbers == /\ call.method = add /\ Len(call.args) = 2
                     /\ \A i \in {1, 2} : call.args[i].type = AMF_NUMBER
                     /\ ~Zero(call.args)
                     /\ {n, k, n + k, n + 2 * k, n + 7 * k} \subseteq Known
      Answers ==
        IF ~AddsNumbers THEN << Result(ConnectSuccess) >>
        ELSE IF app = "demo" THEN << Result(NumberAV(n + k)), Greeting(String(104)) >>
        ELSE << Greeting(Value(AMF_HASH, << Elem(<< 97 >>, NumberAV(n + 2 * k)) >>)),
                Result(NumberAV(n + 7 * k)) >>
  IN pc = "done" /\ (AddsNumbers \/ call.method = connect) => Packets = Answers

=============================================================================
