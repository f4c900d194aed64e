------------------------------ MODULE RpcProofs ------------------------------
(***************************************************************************)
(* Theorems about requests and replies, for either application, every set  *)
(* of request ids the client may use and any number of packets: the ids    *)
(* the server gives out are fresh, and its table of Deferreds implements   *)
(* calls that are answered at most once.                                   *)
(***************************************************************************)
EXTENDS Rpc, SequenceTheorems, WellFoundedInduction, TLAPS

-----------------------------------------------------------------------------
(* Packets.                                                                *)

\* The packets the two sides make are packets.
LEMMA PacketTypes ==
  /\ CallChannel \in Channels
  /\ \A method \in Methods, id \in Nat, args \in {"some", "zero", "wrong", "none"},
       channel \in Channels : Invoke(method, id, args, channel) \in Packet
  /\ \A id \in Nat, channel \in Channels : Result(id, channel) \in Packet
  /\ \A id \in Nat : Greeting(id) \in Packet
  /\ PlainPackets \subseteq Packet
<1>1. CallChannel \in Channels
  BY DEF CallChannel, Channels
<1>2. \A method \in Methods, id \in Nat, args \in {"some", "zero", "wrong", "none"},
        channel \in Channels : Invoke(method, id, args, channel) \in Packet
  BY DEF Invoke, Packet
<1>3. \A id \in Nat, channel \in Channels : Result(id, channel) \in Packet
  BY <1>2 DEF Result, Methods
<1>4. \A id \in Nat : Greeting(id) \in Packet
  BY <1>1, <1>2 DEF Greeting, Methods
<1>5. PlainPackets \subseteq Packet
  BY DEF PlainPackets, Plain, Packet, CallChannel, Channels
<1> QED BY <1>1, <1>2, <1>3, <1>4, <1>5

\* A packet under way to the client.
LEMMA SentTypes ==
  ASSUME NEW p \in Packet, NEW channel \in Channels
  PROVE  /\ Sent(p, channel) \in Outgoing
         /\ Sent(p, channel).packet = p /\ Sent(p, channel).header = channel
BY DEF Sent, Outgoing

\* The packet that is handled, and what is left of the queue.
LEMMA Handled ==
  ASSUME IInv, NEW type, Handling(type)
  PROVE  /\ Head(inq) \in Packet /\ inq' \in Seq(Packet)
         /\ Head(inq).channel \in Channels
         /\ type = "invoke" => Head(inq).id \in Nat
<1>1. inq \in Seq(Packet) /\ inq # << >>
  BY DEF IInv, TypeOK, Handling
<1>2. Head(inq) \in Packet /\ Tail(inq) \in Seq(Packet)
  BY <1>1, HeadTailProperties
<1>3. ASSUME type = "invoke" PROVE Head(inq).id \in Nat
  BY <1>2, <1>3 DEF Handling, Packet
<1>4. Head(inq).channel \in Channels
  BY <1>2 DEF Packet
<1> QED BY <1>2, <1>3, <1>4 DEF Handling

\* The counter, once a packet is taken note of, is above its id and not lower.
LEMMA NotedBound ==
  ASSUME NEW p, p.id \in Nat, next_request_id \in Nat
  PROVE  /\ Noted(p) \in Nat /\ next_request_id <= Noted(p)
         /\ p.method # "_result" => p.id < Noted(p)
  BY DEF Noted

-----------------------------------------------------------------------------
(* The log.                                                                *)

\* What the log promises: types, fresh ids, and all of them below a bound.
LogBelow(l, n) ==
  /\ l \in Seq(Logged)
  /\ \A i \in 1 .. Len(l) : l[i].id < n
  /\ \A i, j \in 1 .. Len(l) : i < j /\ l[j].by = "server" => l[i].id < l[j].id

\* A higher bound is one as well.
LEMMA LogBelowHigher ==
  ASSUME NEW l, NEW n \in Nat, NEW m \in Nat, LogBelow(l, n), n <= m
  PROVE  LogBelow(l, m)
<1>1. ASSUME NEW i \in 1 .. Len(l) PROVE l[i].id < m
  <2>1. l[i] \in Logged
    BY ElementOfSeq DEF LogBelow
  <2>2. l[i].id \in Nat
    BY <2>1 DEF Logged
  <2>3. l[i].id < n
    BY DEF LogBelow
  <2> QED BY <2>2, <2>3
<1> QED BY <1>1 DEF LogBelow

\* An entry may be added below a bound that is no lower, if it is the client's or at
\* the old bound.
LEMMA LogAppend ==
  ASSUME NEW l, NEW n \in Nat, NEW m \in Nat, NEW e \in Logged, LogBelow(l, n),
         n <= m, e.id < m, e.by = "server" => n <= e.id
  PROVE  LogBelow(Append(l, e), m)
<1> DEFINE k == Append(l, e)
<1>1. l \in Seq(Logged) /\ e.id \in Nat
  BY DEF LogBelow, Logged
<1>2. /\ k \in Seq(Logged) /\ Len(l) \in Nat /\ Len(k) = Len(l) + 1
      /\ \A i \in 1 .. Len(l) : k[i] = l[i]
      /\ k[Len(l) + 1] = e
  BY <1>1, AppendProperties
<1>3. \A i \in 1 .. Len(l) : l[i].id \in Nat /\ l[i].id < n
  <2>1. ASSUME NEW i \in 1 .. Len(l) PROVE l[i] \in Logged
    BY <1>1, ElementOfSeq
  <2> QED BY <2>1 DEF LogBelow, Logged
<1> HIDE DEF k
<1>4. ASSUME NEW i \in 1 .. Len(k) PROVE k[i].id < m
  <2>1. CASE i \in 1 .. Len(l)
    BY <1>2, <1>3, <2>1
  <2>2. CASE i = Len(l) + 1
    BY <1>1, <1>2, <2>2
  <2> QED BY <1>2, <2>1, <2>2
<1>5. ASSUME NEW i \in 1 .. Len(k), NEW j \in 1 .. Len(k), i < j, k[j].by = "server"
      PROVE  k[i].id < k[j].id
  <2>1. i \in 1 .. Len(l) /\ k[i] = l[i]
    BY <1>2, <1>5
  <2>2. CASE j \in 1 .. Len(l)
    BY <1>2, <1>5, <2>1, <2>2 DEF LogBelow
  <2>3. CASE j = Len(l) + 1
    BY <1>1, <1>2, <1>3, <1>5, <2>1, <2>3
  <2> QED BY <1>2, <2>2, <2>3
<1>6. LogBelow(k, m)
  BY <1>2, <1>4, <1>5 DEF LogBelow
<1> QED BY <1>6 DEF k

\* Taking note of a packet keeps the log below the counter.
LEMMA LearntBelow ==
  ASSUME NEW p \in Packet, p.type = "invoke", LogBelow(log, next_request_id),
         next_request_id \in Nat
  PROVE  LogBelow(Learnt(p), Noted(p))
<1>1. p.id \in Nat
  BY DEF Packet
<1>2. Noted(p) \in Nat /\ next_request_id <= Noted(p)
  BY <1>1, NotedBound
<1>3. CASE p.method = "_result"
  BY <1>2, <1>3, LogBelowHigher DEF Learnt
<1>4. CASE p.method # "_result"
  <2> DEFINE e == [by |-> "client", id |-> p.id, request |-> p]
  <2>1. e \in Logged /\ e.id = p.id /\ e.by = "client"
    BY <1>1 DEF Logged
  <2>2. p.id < Noted(p)
    BY <1>1, <1>4, NotedBound
  <2>3. Learnt(p) = Append(log, e)
    BY <1>4 DEF Learnt
  <2> HIDE DEF e
  <2>4. LogBelow(Append(log, e), Noted(p))
    BY <1>2, <2>1, <2>2, LogAppend
  <2> QED BY <2>3, <2>4
<1> QED BY <1>3, <1>4

-----------------------------------------------------------------------------
(* The invariant.                                                          *)

\* The part of the invariant that is about ids.
IdsOK ==
  /\ next_request_id \in Nat /\ LogBelow(log, next_request_id)
  /\ calls \subseteq Nat /\ fired \subseteq Nat /\ calls \cap fired = {}
  /\ \A id \in calls \cup fired : id < next_request_id

\* The part that is only types.
LinkTypes ==
  /\ inq \in Seq(Packet) /\ outq \in Seq(Outgoing) /\ connected \in BOOLEAN
  /\ app \in Apps /\ aborted \in BOOLEAN /\ sent \in 0 .. MaxPackets /\ asked \subseteq Nat
  /\ got \in Seq(Nat)

\* The two parts are the invariant.
LEMMA Parts == IInv <=> IdsOK /\ LinkTypes
BY DEF IInv, IdsOK, LinkTypes, TypeOK, FreshIds, LogBelow

\* And so they are after a step.
LEMMA PartsNext == IdsOK' /\ LinkTypes' => IInv'
BY DEF IInv, IdsOK, LinkTypes, TypeOK, FreshIds, LogBelow

\* It holds at the start.
LEMMA InitIInv == Init => IInv
<1> SUFFICES ASSUME Init PROVE IdsOK /\ LinkTypes
  BY Parts
<1>1. << >> \in Seq(Packet) /\ << >> \in Seq(Outgoing) /\ << >> \in Seq(Logged) /\ << >> \in Seq(Nat) /\ Len(<< >>) = 0
  BY EmptySeq
<1>2. IdsOK
  BY <1>1 DEF Init, IdsOK, LogBelow
<1>3. LinkTypes
  <2>1. 0 \in 0 .. MaxPackets
    BY RpcAssumption DEF RpcAssumption
  <2> QED BY <1>1, <2>1, Zenon DEF Init, LinkTypes
<1> QED BY <1>2, <1>3

\* What the server does not touch keeps its ids.
LEMMA IdsKept ==
  ASSUME IdsOK, UNCHANGED << next_request_id, calls, log, fired >>
  PROVE  IdsOK'
BY DEF IdsOK, LogBelow

\* The client puts a packet into the queue.
LEMMA ClientSendsTypes ==
  ASSUME IInv, NEW p \in Packet, ClientSends(p), asked' \subseteq Nat
  PROVE  IInv'
<1>1. IdsOK /\ LinkTypes
  BY Parts
<1>2. inq' \in Seq(Packet)
  BY <1>1, AppendProperties DEF ClientSends, LinkTypes
<1>3. sent' \in 0 .. MaxPackets
  BY <1>1, RpcAssumption DEF ClientSends, LinkTypes, RpcAssumption
<1>4. LinkTypes'
  BY <1>1, <1>2, <1>3 DEF ClientSends, LinkTypes, server
<1>5. IdsOK'
  BY <1>1, IdsKept DEF ClientSends, server
<1> QED BY <1>4, <1>5, PartsNext

\* A step of the client preserves the invariant.
LEMMA ClientStep ==
  ASSUME IInv, \/ ClientRequest \/ ClientAnswer \/ ClientPlain \/ ClientReceives
  PROVE  IInv'
<1>1. IdsOK /\ LinkTypes
  BY Parts
<1>2. CASE ClientRequest
  <2>1. PICK id \in ClientIds, args \in {"some", "zero", "wrong"},
             method \in {"connect", "add", "unknown"} :
               ClientSends(Invoke(method, id, args, CallChannel)) /\ UNCHANGED asked
    BY <1>2 DEF ClientRequest
  <2>2. Invoke(method, id, args, CallChannel) \in Packet
    BY PacketTypes, RpcAssumption DEF RpcAssumption, Methods
  <2> QED BY <1>1, <2>1, <2>2, ClientSendsTypes DEF LinkTypes
<1>3. CASE ClientAnswer
  <2>1. PICK id \in asked \cup ClientIds, args \in {"some", "none"} :
               ClientSends(Invoke("_result", id, args, CallChannel)) /\ asked' = asked \ {id}
    BY <1>3 DEF ClientAnswer
  <2>2. Invoke("_result", id, args, CallChannel) \in Packet
    BY <1>1, PacketTypes, RpcAssumption DEF RpcAssumption, Methods, LinkTypes
  <2> QED BY <1>1, <2>1, <2>2, ClientSendsTypes DEF LinkTypes
<1>4. CASE ClientPlain
  BY <1>1, <1>4, PacketTypes, ClientSendsTypes DEF ClientPlain, LinkTypes
<1>5. CASE ClientReceives
  <2> DEFINE p == Head(outq).packet
  <2>1. p \in Packet /\ outq' \in Seq(Outgoing)
    <3>1. Head(outq) \in Outgoing /\ outq' \in Seq(Outgoing)
      BY <1>1, <1>5, HeadTailProperties DEF ClientReceives, LinkTypes
    <3> QED BY <3>1 DEF Outgoing
  <2>2. p.type = "invoke" => p.id \in Nat
    BY <2>1 DEF Packet
  <2>3. \/ UNCHANGED << asked, got >>
        \/ p.type = "invoke" /\ got' = Append(got, p.id) /\ UNCHANGED asked
        \/ p.type = "invoke" /\ asked' = asked \cup {p.id} /\ UNCHANGED got
    BY <1>5 DEF ClientReceives
  <2>4. UNCHANGED << inq, connected, server, sent >>
    BY <1>5 DEF ClientReceives
  <2> HIDE DEF p
  <2>5. asked' \subseteq Nat /\ got' \in Seq(Nat)
    <3>1. asked \subseteq Nat /\ got \in Seq(Nat)
      BY <1>1 DEF LinkTypes
    <3>2. ASSUME p.type = "invoke" PROVE Append(got, p.id) \in Seq(Nat)
      BY <2>2, <3>1, <3>2, AppendProperties
    <3> QED BY <2>2, <2>3, <3>1, <3>2
  <2>6. LinkTypes'
    BY <1>1, <2>1, <2>4, <2>5 DEF LinkTypes, server
  <2>7. IdsOK'
    BY <1>1, <2>4, IdsKept DEF server
  <2> QED BY <2>6, <2>7, PartsNext
<1> QED BY <1>2, <1>3, <1>4, <1>5

\* Losing the connection preserves it.
LEMMA LostStep ==
  ASSUME IInv, ConnectionLost
  PROVE  IInv'
<1>1. IdsOK /\ LinkTypes
  BY Parts
<1>2. LinkTypes'
  BY <1>1, EmptySeq DEF ConnectionLost, LinkTypes, server, client
<1>3. IdsOK'
  BY <1>1, IdsKept DEF ConnectionLost, server
<1> QED BY <1>2, <1>3, PartsNext

\* For an action of the server only what it writes remains to be shown.
LEMMA Served ==
  ASSUME IInv, NEW type, Handling(type),
         IdsOK', outq' \in Seq(Outgoing), aborted' \in BOOLEAN
  PROVE  IInv'
<1>1. IdsOK /\ LinkTypes
  BY Parts
<1>2. inq' \in Seq(Packet)
  BY Handled
<1>3. LinkTypes'
  BY <1>1, <1>2 DEF Handling, LinkTypes, client
<1> QED BY <1>3, PartsNext

\* The server takes note of an invocation and calls nobody.
LEMMA NotesIds ==
  ASSUME IInv, NEW p \in Packet, p.type = "invoke",
         next_request_id' = Noted(p), log' = Learnt(p), UNCHANGED << calls, fired >>
  PROVE  IdsOK'
<1>1. IdsOK
  BY Parts
<1>2. LogBelow(Learnt(p), Noted(p))
  BY <1>1, LearntBelow DEF IdsOK
<1>3. p.id \in Nat
  BY DEF Packet
<1>4. Noted(p) \in Nat /\ next_request_id <= Noted(p)
  BY <1>1, <1>3, NotedBound DEF IdsOK
<1>5. LogBelow(log', next_request_id')
  BY <1>2
<1>6. LogBelow(log, next_request_id)'
  BY <1>5 DEF LogBelow
<1>7. \A id \in calls \cup fired : id < Noted(p)
  BY <1>1, <1>4 DEF IdsOK
<1> QED BY <1>1, <1>4, <1>6, <1>7 DEF IdsOK

\* The server takes note of an invocation and calls the other side.
LEMMA CallsIds ==
  ASSUME IInv, NEW p \in Packet, p.type = "invoke", Calls(p), UNCHANGED fired
  PROVE  IdsOK' /\ Noted(p) \in Nat /\ Noted(p) \notin calls \cup fired
<1> DEFINE n == Noted(p)
           e == [by |-> "server", id |-> n, request |-> Greeting(n)]
<1>1. IdsOK
  BY Parts
<1>2. p.id \in Nat
  BY DEF Packet
<1>3. n \in Nat /\ next_request_id <= n
  BY <1>1, <1>2, NotedBound DEF IdsOK
<1>4. LogBelow(Learnt(p), n)
  BY <1>1, LearntBelow DEF IdsOK
<1>5. e \in Logged /\ e.id = n /\ e.by = "server"
  BY <1>3, PacketTypes DEF Logged
<1>6. log' = Append(Learnt(p), e) /\ next_request_id' = n + 1 /\ calls' \subseteq calls \cup {n}
  BY DEF Calls
<1> HIDE DEF n, e
<1>7. LogBelow(Append(Learnt(p), e), n + 1)
  BY <1>3, <1>4, <1>5, LogAppend
<1>8. LogBelow(log', next_request_id')
  BY <1>6, <1>7
<1>9. LogBelow(log, next_request_id)'
  BY <1>8 DEF LogBelow
<1>10. \A id \in calls \cup fired : id \in Nat /\ id < n
  BY <1>1, <1>3 DEF IdsOK
<1>11. calls' \subseteq Nat /\ calls' \cap fired' = {}
       /\ \A id \in calls' \cup fired' : id < next_request_id'
  BY <1>1, <1>3, <1>6, <1>10 DEF IdsOK
<1>12. IdsOK'
  BY <1>1, <1>3, <1>6, <1>9, <1>11 DEF IdsOK
<1> QED BY <1>3, <1>10, <1>12 DEF n

\* A step of the server preserves the invariant.
LEMMA ServerStep ==
  ASSUME IInv, Serve
  PROVE  IInv'
<1> DEFINE p == Head(inq)
<1>1. IdsOK /\ LinkTypes /\ outq \in Seq(Outgoing) /\ aborted \in BOOLEAN
  BY Parts DEF LinkTypes
<1>2. ASSUME Handling("invoke")
      PROVE  p \in Packet /\ p.type = "invoke" /\ p.id \in Nat /\ p.channel \in Channels
  BY <1>2, Handled DEF Handling
<1>3. CASE OnConnect
  <2>1. Handling("invoke")
    BY <1>3 DEF OnConnect, Invoked
  <2>2. p \in Packet /\ p.type = "invoke" /\ p.id \in Nat /\ p.channel \in Channels
    BY <1>2, <2>1
  <2>3. /\ next_request_id' = Noted(p)
        /\ outq' = Append(outq, Sent(Result(p.id, p.channel), p.channel))
        /\ log' = Learnt(p) /\ UNCHANGED << calls, aborted, fired >>
    BY <1>3 DEF OnConnect
  <2> HIDE DEF p
  <2>4. outq' \in Seq(Outgoing)
    BY <1>1, <2>2, <2>3, PacketTypes, SentTypes, AppendProperties
  <2>5. IdsOK'
    BY <2>2, <2>3, NotesIds
  <2> QED BY <1>1, <2>1, <2>3, <2>4, <2>5, Served
<1>4. CASE OnAdd
  <2> DEFINE call  == Sent(Greeting(Noted(p)), p.channel)
             reply(channel) == Sent(Result(p.id, channel), p.channel)
  <2>1. Handling("invoke")
    BY <1>4 DEF OnAdd, Invoked
  <2>2. p \in Packet /\ p.type = "invoke" /\ p.id \in Nat /\ p.channel \in Channels
    BY <1>2, <2>1
  <2>3. /\ Calls(p) /\ UNCHANGED << aborted, fired >>
        /\ \/ outq' = outq \o << reply(p.channel), call >>
           \/ outq' = outq \o << call, reply(CallChannel) >>
           \/ outq' = outq \o << call >>
    BY <1>4 DEF OnAdd
  <2>4. IdsOK' /\ Noted(p) \in Nat
    BY <2>2, <2>3, CallsIds
  <2>5. call \in Outgoing /\ \A channel \in Channels : reply(channel) \in Outgoing
    BY <2>2, <2>4, PacketTypes, SentTypes
  <2> HIDE DEF call, reply
  <2>6. \A a, b \in Outgoing : << a, b >> \in Seq(Outgoing) /\ << a >> \in Seq(Outgoing)
    OBVIOUS
  <2>7. outq' \in Seq(Outgoing)
    BY <1>1, <2>2, <2>3, <2>5, <2>6, PacketTypes, ConcatProperties
  <2> QED BY <1>1, <2>1, <2>3, <2>4, <2>7, Served
<1>5. CASE OnAddWrong
  <2>1. Handling("invoke")
    BY <1>5 DEF OnAddWrong, Invoked
  <2>2. p \in Packet /\ p.type = "invoke" /\ p.id \in Nat
    BY <1>2, <2>1
  <2>3. CASE app = "demo"
    BY <1>1, <1>5, <2>1, <2>3, IdsKept, Served DEF OnAddWrong, Abort
  <2>4. CASE app # "demo"
    <3>1. /\ next_request_id' = Noted(p) /\ log' = Learnt(p)
          /\ UNCHANGED << outq, calls, aborted, fired >>
      BY <1>5, <2>4 DEF OnAddWrong
    <3> HIDE DEF p
    <3>2. IdsOK'
      BY <2>2, <3>1, NotesIds
    <3> QED BY <1>1, <2>1, <3>1, <3>2, Served
  <2> QED BY <2>3, <2>4
<1>6. CASE OnResult
  <2>1. Handling("invoke") /\ UNCHANGED << outq, next_request_id, aborted, log >>
    BY <1>6 DEF OnResult, Invoked
  <2>2. \/ p.id \in calls /\ fired' = fired \cup {p.id} /\ calls' = calls \ {p.id}
        \/ UNCHANGED << fired, calls >>
    BY <1>6 DEF OnResult
  <2> HIDE DEF p
  <2>3. IdsOK'
    <3>1. LogBelow(log, next_request_id)'
      BY <1>1, <2>1 DEF IdsOK, LogBelow
    <3> QED BY <1>1, <2>1, <2>2, <3>1 DEF IdsOK
  <2> QED BY <1>1, <2>1, <2>3, Served
<1>7. CASE OnUnknown
  <2>1. Handling("invoke")
    BY <1>7 DEF OnUnknown
  <2>2. p \in Packet /\ p.type = "invoke" /\ p.id \in Nat
    BY <1>2, <2>1
  <2>3. /\ next_request_id' = Noted(p) /\ log' = Learnt(p)
        /\ UNCHANGED << outq, calls, aborted, fired >>
    BY <1>7 DEF OnUnknown
  <2> HIDE DEF p
  <2>4. IdsOK'
    BY <2>2, <2>3, NotesIds
  <2> QED BY <1>1, <2>1, <2>3, <2>4, Served
<1>8. CASE OnMalformed
  BY <1>1, <1>8, IdsKept, Served DEF OnMalformed, Abort
<1>9. CASE OnPing
  <2>1. outq' \in Seq(Outgoing)
    BY <1>1, <1>9, Handled, SentTypes, AppendProperties DEF OnPing
  <2> QED BY <1>1, <1>9, <2>1, IdsKept, Served DEF OnPing, server
<1>10. CASE OnBytesRead
  BY <1>1, <1>10, IdsKept, Served DEF OnBytesRead, Abort, Ignore, server
<1>11. CASE OnChunkSize
  BY <1>1, <1>11, IdsKept, Served DEF OnChunkSize, Ignore, server
<1>12. CASE OnMedia
  BY <1>1, <1>12, IdsKept, Served DEF OnMedia, Ignore, server
<1> QED BY <1>3, <1>4, <1>5, <1>6, <1>7, <1>8, <1>9, <1>10, <1>11, <1>12 DEF Serve

\* A step that changes nothing preserves it.
LEMMA StutterStep ==
  ASSUME IInv, UNCHANGED vars
  PROVE  IInv'
BY DEF vars, server, client, IInv, TypeOK, FreshIds

\* The invariant is inductive.
LEMMA NextIInv == IInv /\ [Next]_vars => IInv'
BY ClientStep, LostStep, ServerStep, StutterStep DEF Next

-----------------------------------------------------------------------------
(* Channels.                                                               *)

\* Inductive: invocations arrive on the channel of calls.
InvokedOnCallChannel ==
  \A i \in 1 .. Len(inq) : inq[i].type = "invoke" => inq[i].channel = CallChannel

ChannelInv == SendsOnOwnChannel /\ InvokedOnCallChannel

\* What is sent next is under a header of its own channel, too.
LEMMA SendsMore ==
  ASSUME IInv, SendsOnOwnChannel, NEW o \in Outgoing, o.packet.channel = o.header
  PROVE  /\ outq' = Append(outq, o) => SendsOnOwnChannel'
         /\ outq' = outq \o << o >> => SendsOnOwnChannel'
         /\ \A u \in Outgoing : u.packet.channel = u.header /\ outq' = outq \o << o, u >>
                                 => SendsOnOwnChannel'
<1>1. outq \in Seq(Outgoing)
  BY DEF IInv, TypeOK
<1> QED BY <1>1, SMTT(30) DEF SendsOnOwnChannel

\* A packet of the client's keeps to the channels.
LEMMA ClientSendsChannel ==
  ASSUME IInv, ChannelInv, NEW p \in Packet, ClientSends(p),
         p.type = "invoke" => p.channel = CallChannel
  PROVE  ChannelInv'
<1>1. inq \in Seq(Packet)
  BY DEF IInv, TypeOK
<1>2. InvokedOnCallChannel'
  BY <1>1 DEF ClientSends, ChannelInv, InvokedOnCallChannel
<1> QED BY <1>2 DEF ClientSends, ChannelInv, SendsOnOwnChannel

\* The packet that is handled is on the channel of calls, if it is an invocation.
LEMMA HandledChannel ==
  ASSUME IInv, ChannelInv, NEW type, Handling(type)
  PROVE  /\ InvokedOnCallChannel'
         /\ type = "invoke" => Head(inq).channel = CallChannel
<1>1. inq \in Seq(Packet) /\ inq # << >>
  BY DEF IInv, TypeOK, Handling
<1>2. Len(inq) \in Nat /\ Len(inq) >= 1 /\ Head(inq) = inq[1]
  BY <1>1
<1>3. /\ inq' = Tail(inq) /\ Len(Tail(inq)) = Len(inq) - 1
      /\ \A i \in 1 .. Len(inq) - 1 : Tail(inq)[i] = inq[i + 1]
  BY <1>1 DEF Handling
<1>4. InvokedOnCallChannel'
  BY <1>2, <1>3 DEF ChannelInv, InvokedOnCallChannel
<1> QED BY <1>2, <1>4 DEF Handling, ChannelInv, InvokedOnCallChannel

\* A step preserves it.
LEMMA NextChannelInv ==
  ASSUME IInv, ChannelInv, [Next]_vars
  PROVE  ChannelInv'
<1> DEFINE p == Head(inq)
<1>1. ASSUME NEW type, Handling(type), UNCHANGED outq PROVE ChannelInv'
  BY <1>1, HandledChannel DEF ChannelInv, SendsOnOwnChannel
<1>2. ASSUME NEW type, Handling(type), SendsOnOwnChannel' PROVE ChannelInv'
  BY <1>2, HandledChannel DEF ChannelInv
<1>3. CASE ClientRequest
  <2>1. PICK id \in ClientIds, args \in {"some", "zero", "wrong"},
             method \in {"connect", "add", "unknown"} :
               ClientSends(Invoke(method, id, args, CallChannel))
    BY <1>3 DEF ClientRequest
  <2>2. /\ Invoke(method, id, args, CallChannel) \in Packet
        /\ Invoke(method, id, args, CallChannel).channel = CallChannel
    BY PacketTypes, RpcAssumption DEF RpcAssumption, Methods, Invoke
  <2> QED BY <2>1, <2>2, ClientSendsChannel
<1>4. CASE ClientAnswer
  <2>1. PICK id \in asked \cup ClientIds, args \in {"some", "none"} :
               ClientSends(Invoke("_result", id, args, CallChannel))
    BY <1>4 DEF ClientAnswer
  <2>2. /\ Invoke("_result", id, args, CallChannel) \in Packet
        /\ Invoke("_result", id, args, CallChannel).channel = CallChannel
    BY PacketTypes, RpcAssumption DEF RpcAssumption, Methods, Invoke, IInv, TypeOK
  <2> QED BY <2>1, <2>2, ClientSendsChannel
<1>5. CASE ClientPlain
  <2>1. PICK q \in PlainPackets : ClientSends(q)
    BY <1>5 DEF ClientPlain
  <2>2. q \in Packet /\ q.type # "invoke"
    BY PacketTypes DEF PlainPackets, Plain
  <2> QED BY <2>1, <2>2, ClientSendsChannel
<1>6. CASE ClientReceives
  <2>1. outq \in Seq(Outgoing) /\ outq # << >> /\ outq' = Tail(outq) /\ UNCHANGED inq
    BY <1>6 DEF ClientReceives, IInv, TypeOK
  <2>2. /\ Len(outq) \in Nat /\ Len(Tail(outq)) = Len(outq) - 1
        /\ \A i \in 1 .. Len(outq) - 1 : Tail(outq)[i] = outq[i + 1]
    BY <2>1
  <2>3. SendsOnOwnChannel'
    BY <2>1, <2>2 DEF ChannelInv, SendsOnOwnChannel
  <2> QED BY <2>1, <2>3 DEF ChannelInv, InvokedOnCallChannel
<1>7. CASE ConnectionLost
  BY <1>7 DEF ConnectionLost, ChannelInv, SendsOnOwnChannel, InvokedOnCallChannel
<1>8. CASE OnConnect
  <2>1. /\ Handling("invoke")
        /\ outq' = Append(outq, Sent(Result(p.id, p.channel), p.channel))
    BY <1>8 DEF OnConnect, Invoked
  <2>2. p.id \in Nat /\ p.channel \in Channels
    BY <2>1, Handled
  <2>3. /\ Sent(Result(p.id, p.channel), p.channel) \in Outgoing
        /\ Sent(Result(p.id, p.channel), p.channel).packet = Result(p.id, p.channel)
        /\ Sent(Result(p.id, p.channel), p.channel).header = p.channel
    BY <2>2, PacketTypes, SentTypes
  <2>4. Result(p.id, p.channel).channel = p.channel
    BY DEF Result, Invoke
  <2> QED BY <1>2, <2>1, <2>3, <2>4, SendsMore DEF ChannelInv
<1>9. CASE OnAdd
  <2> DEFINE call  == Sent(Greeting(Noted(p)), p.channel)
             reply(channel) == Sent(Result(p.id, channel), p.channel)
  <2>1. Handling("invoke") /\ Calls(p) /\ UNCHANGED fired
    BY <1>9 DEF OnAdd, Invoked
  <2>2. p \in Packet /\ p.type = "invoke" /\ p.id \in Nat /\ p.channel = CallChannel
    BY <2>1, Handled, HandledChannel DEF Handling
  <2>3. \/ outq' = outq \o << reply(p.channel), call >>
        \/ outq' = outq \o << call, reply(CallChannel) >>
        \/ outq' = outq \o << call >>
    BY <1>9 DEF OnAdd
  <2>4. Noted(p) \in Nat
    BY <2>1, <2>2, CallsIds
  <2>5. call \in Outgoing /\ call.packet.channel = call.header
    <3>1. Greeting(Noted(p)) \in Packet /\ Greeting(Noted(p)).channel = CallChannel
      BY <2>4, PacketTypes DEF Greeting, Invoke
    <3> QED BY <2>2, <3>1, PacketTypes, SentTypes
  <2>6. /\ reply(CallChannel) \in Outgoing
        /\ reply(CallChannel).packet.channel = reply(CallChannel).header
    <3>1. /\ Result(p.id, CallChannel) \in Packet
          /\ Result(p.id, CallChannel).channel = CallChannel
      BY <2>2, PacketTypes DEF Result, Invoke
    <3> QED BY <2>2, <3>1, PacketTypes, SentTypes
  <2> HIDE DEF call, reply
  <2> QED BY <1>2, <2>1, <2>2, <2>3, <2>5, <2>6, SendsMore DEF ChannelInv
<1>10. CASE OnPing
  <2>1. Handling("ping") /\ outq' = Append(outq, Sent(p, p.channel))
    BY <1>10 DEF OnPing
  <2>2. p \in Packet /\ p.channel \in Channels
    BY <2>1, Handled
  <2>3. /\ Sent(p, p.channel) \in Outgoing
        /\ Sent(p, p.channel).packet.channel = Sent(p, p.channel).header
    BY <2>2, SentTypes
  <2> QED BY <1>2, <2>1, <2>3, SendsMore DEF ChannelInv
<1>11. CASE OnAddWrong
  BY <1>1, <1>11 DEF OnAddWrong, Abort, Invoked
<1>12. CASE \/ OnResult \/ OnUnknown \/ OnMalformed \/ OnBytesRead \/ OnChunkSize \/ OnMedia
  BY <1>1, <1>12 DEF OnResult, OnUnknown, OnMalformed, OnBytesRead, OnChunkSize, OnMedia,
                     Abort, Ignore, Invoked
<1>13. CASE UNCHANGED vars
  BY <1>13 DEF vars, ChannelInv, SendsOnOwnChannel, InvokedOnCallChannel
<1> QED BY <1>3, <1>4, <1>5, <1>6, <1>7, <1>8, <1>9, <1>10, <1>11, <1>12, <1>13
        DEF Next, Serve

-----------------------------------------------------------------------------
(* Induction, with a set in the place of a predicate.                      *)

\* Every set of natural numbers that is not empty has a least element.
LEMMA LeastElement ==
  ASSUME NEW T, T \subseteq Nat, T # {}
  PROVE  \E x \in T : \A y \in T : x <= y
<1> DEFINE R == {ss \in Nat \X Nat : ss[1] < ss[2]}
<1>1. IsWellFoundedOn(R, Nat)
  BY NatLessThanWellFounded DEF OpToRel
<1>2. \A x, y \in Nat : <<y, x>> \in R <=> y < x
  OBVIOUS
<1> HIDE DEF R
<1>3. PICK x \in T : \A y \in T : ~ (<<y, x>> \in R)
  BY <1>1, WFMin
<1>4. ASSUME NEW y \in T PROVE x <= y
  <2>1. ~(y < x) /\ y \in Nat /\ x \in Nat
    BY <1>2, <1>3
  <2> QED BY <2>1
<1> QED BY <1>4

\* A set that has 0, and with each number the next one, has them all.
LEMMA InductionOnNat ==
  ASSUME NEW T, 0 \in T, \A n \in Nat : n \in T => n + 1 \in T
  PROVE  \A n \in Nat : n \in T
<1> DEFINE U == Nat \ T
<1> SUFFICES ASSUME U # {} PROVE FALSE
  OBVIOUS
<1>1. U \subseteq Nat
  OBVIOUS
<1> HIDE DEF U
<1>2. PICK x \in U : \A y \in U : x <= y
  BY <1>1, LeastElement
<1>3. x \in Nat /\ x # 0 /\ x \notin T /\ x - 1 \in Nat
  BY <1>2 DEF U
<1>4. x - 1 \in T
  <2>1. ~(x <= x - 1)
    BY <1>3
  <2> QED BY <1>2, <1>3, <2>1 DEF U
<1> QED BY <1>3, <1>4

-----------------------------------------------------------------------------
(* Picked.                                                                 *)

\* The function that Picked is the last value of.
IsPicking(f, s, T) ==
  f = [n \in 0 .. Len(s) |->
         IF n = 0 THEN << >>
         ELSE IF s[n] \in T THEN Append(f[n - 1], s[n]) ELSE f[n - 1]]

\* It gets longer with the sequence.
LEMMA PickingMore ==
  ASSUME NEW S, NEW s \in Seq(S), NEW e \in S, NEW T, NEW f, IsPicking(f, s, T)
  PROVE  LET n == Len(s)
             g == [i \in 0 .. n + 1 |->
                     IF i <= n THEN f[i] ELSE IF e \in T THEN Append(f[n], e) ELSE f[n]]
         IN IsPicking(g, Append(s, e), T)
<1> DEFINE n == Len(s)
           k == Append(s, e)
           g == [i \in 0 .. n + 1 |->
                   IF i <= n THEN f[i] ELSE IF e \in T THEN Append(f[n], e) ELSE f[n]]
           v(i) == IF i = 0 THEN << >>
                   ELSE IF k[i] \in T THEN Append(g[i - 1], k[i]) ELSE g[i - 1]
<1>1. n \in Nat /\ Len(k) = n + 1 /\ k[n + 1] = e /\ \A i \in 1 .. n : k[i] = s[i]
  BY AppendProperties
<1>2. \A i \in 0 .. n : f[i] = IF i = 0 THEN << >>
        ELSE IF s[i] \in T THEN Append(f[i - 1], s[i]) ELSE f[i - 1]
  BY DEF IsPicking
<1>3. /\ DOMAIN g = 0 .. n + 1 /\ \A i \in 0 .. n : g[i] = f[i]
      /\ g[n + 1] = IF e \in T THEN Append(f[n], e) ELSE f[n]
  BY <1>1
<1> HIDE DEF k, n
<1>4. ASSUME NEW i \in 0 .. n + 1 PROVE g[i] = v(i)
  <2>1. CASE i = 0
    BY <1>1, <1>2, <1>3, <2>1
  <2>2. CASE i \in 1 .. n
    <3>1. i \in 0 .. n /\ i - 1 \in 0 .. n /\ i # 0
      BY <1>1, <2>2
    <3>2. g[i] = f[i] /\ g[i - 1] = f[i - 1] /\ k[i] = s[i]
      BY <1>1, <1>3, <2>2, <3>1
    <3> HIDE DEF g
    <3> QED BY <1>2, <3>1, <3>2
  <2>3. CASE i = n + 1
    <3>1. n \in 0 .. n /\ i # 0 /\ i - 1 = n
      BY <1>1, <2>3
    <3>2. g[i - 1] = f[n] /\ k[i] = e
      BY <1>1, <1>3, <2>3, <3>1
    <3> HIDE DEF g
    <3> QED BY <1>3, <2>3, <3>1, <3>2
  <2> QED BY <1>1, <2>1, <2>2, <2>3
<1>5. g = [i \in 0 .. n + 1 |-> v(i)]
  <2> DEFINE h == [i \in 0 .. n + 1 |-> v(i)]
  <2>1. h = [i \in 0 .. n + 1 |-> g[i]]
    BY <1>4
  <2>2. g = [i \in 0 .. n + 1 |-> g[i]]
    BY <1>3
  <2> QED BY <2>1, <2>2
<1> QED BY <1>1, <1>5 DEF IsPicking, n, k

\* There is such a function for every sequence.
LEMMA PickingExists ==
  ASSUME NEW S, NEW T
  PROVE  \A s \in Seq(S) : \E f : IsPicking(f, s, T)
<1> DEFINE Z == {n \in Nat : \A s \in Seq(S) : Len(s) = n => \E f : IsPicking(f, s, T)}
<1>1. 0 \in Z
  <2> SUFFICES ASSUME NEW s \in Seq(S), Len(s) = 0 PROVE \E f : IsPicking(f, s, T)
    OBVIOUS
  <2> DEFINE f == [n \in 0 .. Len(s) |-> << >>]
  <2>1. IsPicking(f, s, T)
    BY DEF IsPicking
  <2> QED BY <2>1
<1>2. ASSUME NEW n \in Nat, n \in Z PROVE n + 1 \in Z
  <2> SUFFICES ASSUME NEW s \in Seq(S), Len(s) = n + 1 PROVE \E f : IsPicking(f, s, T)
    BY <1>2
  <2> DEFINE t == SubSeq(s, 1, n)
  <2>1. t \in Seq(S) /\ Len(t) = n /\ s[n + 1] \in S /\ s = Append(t, s[n + 1])
    BY <1>2
  <2> HIDE DEF t
  <2>2. PICK f : IsPicking(f, t, T)
    BY <1>2, <2>1
  <2> QED BY <2>1, <2>2, PickingMore
<1> HIDE DEF Z
<1>3. \A n \in Nat : n \in Z
  BY <1>1, <1>2, InductionOnNat
<1> QED BY <1>3 DEF Z

\* Nothing is picked from nothing.
LEMMA PickedEmpty == \A T : Picked(<< >>, T) = << >>
<1> SUFFICES ASSUME NEW T PROVE Picked(<< >>, T) = << >>
  OBVIOUS
<1> DEFINE f == CHOOSE x : IsPicking(x, << >>, T)
<1>1. Picked(<< >>, T) = f[Len(<< >>)]
  BY DEF Picked, IsPicking
<1>2. IsPicking(f, << >>, T)
  BY PickingExists, EmptySeq
<1> HIDE DEF f
<1> QED BY <1>1, <1>2 DEF IsPicking

\* Two such functions of the same sequence are equal.
LEMMA PickingUnique ==
  ASSUME NEW s, Len(s) \in Nat, NEW T, NEW f, NEW g, IsPicking(f, s, T), IsPicking(g, s, T)
  PROVE  f[Len(s)] = g[Len(s)]
<1> DEFINE Z == {n \in Nat : n <= Len(s) => f[n] = g[n]}
<1>1. 0 \in Z
  BY DEF IsPicking
<1>2. ASSUME NEW n \in Nat, n \in Z PROVE n + 1 \in Z
  <2> SUFFICES ASSUME n + 1 <= Len(s) PROVE f[n + 1] = g[n + 1]
    BY <1>2
  <2>1. f[n] = g[n] /\ n + 1 \in 0 .. Len(s) /\ n + 1 # 0 /\ (n + 1) - 1 = n
    BY <1>2
  <2>2. ASSUME NEW u, IsPicking(u, s, T)
        PROVE  u[n + 1] = IF s[n + 1] \in T THEN Append(u[n], s[n + 1]) ELSE u[n]
    BY <2>1, <2>2 DEF IsPicking
  <2> QED BY <2>1, <2>2
<1> HIDE DEF Z
<1>3. \A n \in Nat : n \in Z
  BY <1>1, <1>2, InductionOnNat
<1> QED BY <1>3 DEF Z

\* What is picked of a sequence with one more element.
LEMMA PickedAppend ==
  ASSUME NEW S, NEW s \in Seq(S), NEW e \in S, NEW T
  PROVE  Picked(Append(s, e), T) =
           IF e \in T THEN Append(Picked(s, T), e) ELSE Picked(s, T)
<1> DEFINE k == Append(s, e)
           f == CHOOSE x : IsPicking(x, s, T)
           h == CHOOSE x : IsPicking(x, k, T)
           n == Len(s)
           g == [i \in 0 .. n + 1 |->
                   IF i <= n THEN f[i] ELSE IF e \in T THEN Append(f[n], e) ELSE f[n]]
<1>1. k \in Seq(S) /\ Len(k) = n + 1 /\ n \in Nat
  BY AppendProperties
<1>2. Picked(s, T) = f[n] /\ Picked(k, T) = h[Len(k)]
  BY DEF Picked, IsPicking
<1>3. IsPicking(f, s, T) /\ IsPicking(h, k, T)
  BY <1>1, PickingExists
<1> HIDE DEF f, h
<1>4. IsPicking(g, k, T)
  BY <1>3, PickingMore
<1>5. g[n + 1] = IF e \in T THEN Append(f[n], e) ELSE f[n]
  BY <1>1
<1> HIDE DEF g, k, n
<1>6. h[Len(k)] = g[Len(k)]
  BY <1>1, <1>3, <1>4, PickingUnique
<1> QED BY <1>1, <1>2, <1>5, <1>6 DEF k

\* A sequence that is not empty has a last element after a shorter one.
LEMMA LastOf ==
  ASSUME NEW S, NEW s \in Seq(S), s # << >>
  PROVE  \E t \in Seq(S), e \in S : Len(t) = Len(s) - 1 /\ s = Append(t, e)
<1> DEFINE n == Len(s) - 1
           t == SubSeq(s, 1, n)
<1>1. n \in Nat /\ Len(s) = n + 1
  BY EmptySeq
<1> HIDE DEF n
<1>2. t \in Seq(S) /\ Len(t) = n /\ s[n + 1] \in S /\ s = Append(t, s[n + 1])
  BY <1>1
<1> QED BY <1>1, <1>2 DEF n

\* What is picked is a sequence of elements that were to be picked.
LEMMA PickedType ==
  ASSUME NEW S, NEW T
  PROVE  \A s \in Seq(S) : Picked(s, T) \in Seq(S \cap T)
<1> DEFINE Z == {n \in Nat : \A s \in Seq(S) : Len(s) = n => Picked(s, T) \in Seq(S \cap T)}
<1>1. 0 \in Z
  <2>1. \A s \in Seq(S) : Len(s) = 0 => s = << >>
    BY EmptySeq
  <2> QED BY <2>1, PickedEmpty, EmptySeq
<1>2. ASSUME NEW n \in Nat, n \in Z PROVE n + 1 \in Z
  <2> SUFFICES ASSUME NEW s \in Seq(S), Len(s) = n + 1 PROVE Picked(s, T) \in Seq(S \cap T)
    BY <1>2
  <2>1. PICK t \in Seq(S), e \in S : Len(t) = n /\ s = Append(t, e)
    <3>1. s # << >> /\ Len(s) - 1 = n
      BY EmptySeq
    <3> QED BY <3>1, LastOf
  <2>2. Picked(t, T) \in Seq(S \cap T)
    BY <1>2, <2>1
  <2>3. e \in T => Append(Picked(t, T), e) \in Seq(S \cap T)
    BY <2>2, AppendProperties
  <2> QED BY <2>1, <2>2, <2>3, PickedAppend
<1> HIDE DEF Z
<1>3. \A n \in Nat : n \in Z
  BY <1>1, <1>2, InductionOnNat
<1> QED BY <1>3, LenProperties DEF Z

\* What is picked of a sequence without its head.
LEMMA PickedTail ==
  ASSUME NEW S, NEW T
  PROVE  \A s \in Seq(S) :
           s # << >> =>
             Picked(s, T) = IF Head(s) \in T THEN << Head(s) >> \o Picked(Tail(s), T)
                            ELSE Picked(Tail(s), T)
<1> DEFINE P(s) == Picked(s, T) = IF Head(s) \in T THEN << Head(s) >> \o Picked(Tail(s), T)
                                  ELSE Picked(Tail(s), T)
           Z == {n \in Nat : \A s \in Seq(S) : Len(s) = n + 1 => P(s)}
<1>1. 0 \in Z
  <2> SUFFICES ASSUME NEW s \in Seq(S), Len(s) = 0 + 1 PROVE P(s)
    OBVIOUS
  <2>1. Head(s) \in S /\ s = Append(<< >>, Head(s)) /\ Tail(s) = << >>
    <3>1. Len(s) = 1 /\ s # << >>
      OBVIOUS
    <3>2. Head(s) = s[1] /\ Tail(s) \in Seq(S) /\ Len(Tail(s)) = 0 /\ s[1] \in S
      BY <3>1, HeadTailProperties
    <3>3. s = Append(<< >>, s[1])
      BY <3>1, <3>2
    <3> QED BY <3>2, <3>3, EmptySeq
  <2>2. Picked(s, T) = IF Head(s) \in T THEN Append(<< >>, Head(s)) ELSE << >>
    <3> DEFINE e == Head(s)
    <3> HIDE DEF e
    <3>1. << >> \in Seq(S) /\ e \in S /\ s = Append(<< >>, e)
      BY <2>1 DEF e
    <3>2. Picked(Append(<< >>, e), T) =
            IF e \in T THEN Append(Picked(<< >>, T), e) ELSE Picked(<< >>, T)
      BY <3>1, PickedAppend
    <3> QED BY <3>1, <3>2, PickedEmpty DEF e
  <2>3. << Head(s) >> \o << >> = Append(<< >>, Head(s))
    BY <2>1, ConcatEmptySeq
  <2> QED BY <2>1, <2>2, <2>3, PickedEmpty
<1>2. ASSUME NEW n \in Nat, n \in Z PROVE n + 1 \in Z
  <2> SUFFICES ASSUME NEW s \in Seq(S), Len(s) = (n + 1) + 1 PROVE P(s)
    BY <1>2
  <2>1. PICK t \in Seq(S), e \in S : Len(t) = n + 1 /\ s = Append(t, e)
    <3>1. s # << >> /\ Len(s) - 1 = n + 1
      BY EmptySeq
    <3> QED BY <3>1, LastOf, SMTT(30)
  <2>2. /\ Head(s) = Head(t) /\ Tail(s) = Append(Tail(t), e)
        /\ Head(t) \in S /\ Tail(t) \in Seq(S)
    BY <2>1
  <2>3. P(t)
    BY <1>2, <2>1
  <2> DEFINE x == Picked(Tail(t), T)
             d == Head(t)
  <2>4. x \in Seq(S)
    <3>1. x \in Seq(S \cap T)
      BY <2>2, PickedType
    <3> HIDE DEF x
    <3> QED BY <3>1
  <2>5. Picked(s, T) = IF e \in T THEN Append(Picked(t, T), e) ELSE Picked(t, T)
    BY <2>1, PickedAppend
  <2>6. Picked(Tail(s), T) = IF e \in T THEN Append(x, e) ELSE x
    <3>1. Picked(Append(Tail(t), e), T) = IF e \in T THEN Append(x, e) ELSE x
      BY <2>2, PickedAppend
    <3> QED BY <2>2, <3>1
  <2>7. Append(<< d >> \o x, e) = << d >> \o Append(x, e)
    BY <2>2, <2>4
  <2>8. Picked(t, T) = IF d \in T THEN << d >> \o x ELSE x
    BY <2>3
  <2> HIDE DEF x, d
  <2>9. Head(s) = d
    BY <2>2 DEF d
  <2> QED BY <2>5, <2>6, <2>7, <2>8, <2>9
<1> HIDE DEF Z
<1>3. \A n \in Nat : n \in Z
  BY <1>1, <1>2, InductionOnNat
<1>4. ASSUME NEW s \in Seq(S), s # << >> PROVE P(s)
  <2>1. Len(s) \in Nat /\ Len(s) # 0
    BY <1>4, EmptySeq
  <2>2. Len(s) - 1 \in Nat /\ Len(s) = (Len(s) - 1) + 1
    BY <2>1
  <2> QED BY <1>3, <2>2 DEF Z
<1> QED BY <1>4
-----------------------------------------------------------------------------
(* Replies.                                                                *)

\* What Requests and Replies pick, and the ids of what they have picked.
OwedSet     == {e \in Logged : Owed(e)}
ReplySet    == {o \in Outgoing : IsReply(o)}
Asked(l)    == LET s == Picked(l, OwedSet) IN [i \in 1 .. Len(s) |-> s[i].id]
Answered(q) == LET s == Picked(q, ReplySet) IN [i \in 1 .. Len(s) |-> s[i].packet.id]

\* The property, in their terms.
LEMMA OneReplyEachIs == OneReplyEach <=> (connected => got \o Answered(outq) = Asked(log))
BY DEF OneReplyEach, Replies, Requests, Answered, Asked, OwedSet, ReplySet

\* A request is added to the log: it is owed a reply or not.
LEMMA AskedAppend ==
  ASSUME NEW l \in Seq(Logged), NEW e \in Logged
  PROVE  /\ Asked(l) \in Seq(Nat)
         /\ Asked(Append(l, e)) = IF Owed(e) THEN Append(Asked(l), e.id) ELSE Asked(l)
<1> DEFINE s == Picked(l, OwedSet)
           k == Picked(Append(l, e), OwedSet)
<1>1. e \in OwedSet <=> Owed(e)
  BY DEF OwedSet
<1>2. k = IF Owed(e) THEN Append(s, e) ELSE s
  BY <1>1, PickedAppend
<1>3. s \in Seq(Logged)
  <2>1. s \in Seq(Logged \cap OwedSet)
    BY PickedType
  <2> HIDE DEF s
  <2> QED BY <2>1
<1> HIDE DEF s, k
<1>4. \A d \in Logged : d.id \in Nat
  BY DEF Logged
<1>5. [i \in 1 .. Len(s) |-> s[i].id] \in Seq(Nat)
  BY <1>3, <1>4
<1>6. LET m == Append(s, e)
      IN  [i \in 1 .. Len(m) |-> m[i].id] = Append([i \in 1 .. Len(s) |-> s[i].id], e.id)
  BY <1>3
<1> QED BY <1>2, <1>5, <1>6 DEF Asked, s, k

\* Replies have ids.
LEMMA AnsweredType ==
  ASSUME NEW q \in Seq(Outgoing)
  PROVE  Answered(q) \in Seq(Nat)
<1> DEFINE s == Picked(q, ReplySet)
<1>1. s \in Seq(ReplySet)
  <2>1. s \in Seq(Outgoing \cap ReplySet)
    BY PickedType
  <2> HIDE DEF s
  <2> QED BY <2>1
<1>2. \A d \in ReplySet : d.packet.id \in Nat
  BY DEF ReplySet, IsReply, Outgoing, Packet
<1> HIDE DEF s
<1> QED BY <1>1, <1>2 DEF Answered, s

\* A packet is sent: it is a reply or not.
LEMMA AnsweredAppend ==
  ASSUME NEW q \in Seq(Outgoing), NEW o \in Outgoing
  PROVE  Answered(Append(q, o)) =
           IF IsReply(o) THEN Append(Answered(q), o.packet.id) ELSE Answered(q)
<1> DEFINE s == Picked(q, ReplySet)
           k == Picked(Append(q, o), ReplySet)
<1>1. o \in ReplySet <=> IsReply(o)
  BY DEF ReplySet
<1>2. k = IF IsReply(o) THEN Append(s, o) ELSE s
  BY <1>1, PickedAppend
<1>3. s \in Seq(ReplySet)
  <2>1. s \in Seq(Outgoing \cap ReplySet)
    BY PickedType
  <2> HIDE DEF s
  <2> QED BY <2>1
<1> HIDE DEF s, k
<1>4. LET m == Append(s, o)
      IN  [i \in 1 .. Len(m) |-> m[i].packet.id]
            = Append([i \in 1 .. Len(s) |-> s[i].packet.id], o.packet.id)
  BY <1>3
<1> QED BY <1>2, <1>4 DEF Answered, s, k

\* A packet arrives: it is a reply or not.
LEMMA AnsweredTail ==
  ASSUME NEW q \in Seq(Outgoing), q # << >>
  PROVE  Answered(q) = IF IsReply(Head(q))
                         THEN << Head(q).packet.id >> \o Answered(Tail(q))
                         ELSE Answered(Tail(q))
<1> DEFINE h == Head(q)
           s == Picked(Tail(q), ReplySet)
           k == Picked(q, ReplySet)
<1>1. h \in Outgoing /\ Tail(q) \in Seq(Outgoing)
  BY HeadTailProperties
<1>2. h \in ReplySet <=> IsReply(h)
  BY <1>1 DEF ReplySet
<1>3. k = IF IsReply(h) THEN << h >> \o s ELSE s
  BY <1>2, PickedTail
<1>4. s \in Seq(ReplySet)
  <2>1. s \in Seq(Outgoing \cap ReplySet)
    BY <1>1, PickedType
  <2> HIDE DEF s
  <2> QED BY <2>1
<1> HIDE DEF s, k, h
<1>5. LET m == << h >> \o s
      IN  [i \in 1 .. Len(m) |-> m[i].packet.id]
            = << h.packet.id >> \o [i \in 1 .. Len(s) |-> s[i].packet.id]
  BY <1>4
<1> QED BY <1>3, <1>5 DEF Answered, s, k, h

\* The balance is kept: nothing is owed and nothing replied, or one thing is.
LEMMA Balanced ==
  ASSUME IInv, OneReplyEach, UNCHANGED << app, got >>, connected' => connected,
         \/ Asked(log') = Asked(log) /\ Answered(outq') = Answered(outq)
         \/ \E id \in Nat : /\ Asked(log') = Append(Asked(log), id)
                            /\ Answered(outq') = Append(Answered(outq), id)
  PROVE  OneReplyEach'
<1>1. Asked(log)' = Asked(log')
  BY DEF Asked, OwedSet, Owed
<1>2. Answered(outq)' = Answered(outq')
  BY DEF Answered, ReplySet, IsReply
<1>3. got \in Seq(Nat) /\ Answered(outq) \in Seq(Nat)
  <2>1. outq \in Seq(Outgoing) /\ got \in Seq(Nat)
    BY DEF IInv, TypeOK
  <2> QED BY <2>1, AnsweredType
<1>4. \A id \in Nat : got \o Append(Answered(outq), id) = Append(got \o Answered(outq), id)
  BY <1>3
<1>5. connected' => got \o Answered(outq') = Asked(log')
  BY <1>4, OneReplyEachIs
<1>6. OneReplyEach' <=> (connected' => got' \o Answered(outq)' = Asked(log)')
  BY DEF OneReplyEach, Replies, Requests, Answered, Asked, OwedSet, ReplySet
<1> QED BY <1>1, <1>2, <1>5, <1>6

\* What the server sends and notes.
LEMMA ReplyKinds ==
  /\ \A id, channel, header : /\ IsReply(Sent(Result(id, channel), header))
                              /\ Sent(Result(id, channel), header).packet.id = id
  /\ \A id, header : ~IsReply(Sent(Greeting(id), header))
  /\ \A p, header : p.type # "invoke" => ~IsReply(Sent(p, header))
BY DEF IsReply, Sent, Result, Greeting, Invoke

\* The client's request is noted.
LEMMA LearntAsked ==
  ASSUME IInv, NEW p \in Packet, p.type = "invoke", p.method # "_result"
  PROVE  LET e == [by |-> "client", id |-> p.id, request |-> p]
         IN  /\ e \in Logged /\ Learnt(p) \in Seq(Logged)
             /\ Asked(Learnt(p)) = IF Owed(e) THEN Append(Asked(log), p.id) ELSE Asked(log)
<1> DEFINE e == [by |-> "client", id |-> p.id, request |-> p]
<1>1. e \in Logged /\ e.id = p.id /\ log \in Seq(Logged) /\ Learnt(p) = Append(log, e)
  BY DEF Logged, Packet, Learnt, IInv, TypeOK
<1> HIDE DEF e
<1>2. Append(log, e) \in Seq(Logged)
  BY <1>1, AppendProperties
<1> QED BY <1>1, <1>2, AskedAppend DEF e

\* A step keeps the balance.
LEMMA NextOneReply ==
  ASSUME IInv, OneReplyEach, [Next]_vars
  PROVE  OneReplyEach'
<1> DEFINE p == Head(inq)
           e == [by |-> "client", id |-> p.id, request |-> p]
<1>1. outq \in Seq(Outgoing) /\ log \in Seq(Logged) /\ got \in Seq(Nat) /\ app \in Apps
  BY DEF IInv, TypeOK
<1>2. ASSUME Handling("invoke")
      PROVE  /\ p \in Packet /\ p.type = "invoke" /\ p.id \in Nat /\ p.channel \in Channels
             /\ UNCHANGED << app, got >> /\ connected' = connected
  BY <1>2, Handled DEF Handling, client
<1>3. ASSUME UNCHANGED << app, got, log, outq >>, connected' => connected
      PROVE  OneReplyEach'
  BY <1>3, Balanced
<1>4. CASE \/ ClientRequest \/ ClientAnswer \/ ClientPlain
  BY <1>3, <1>4 DEF ClientRequest, ClientAnswer, ClientPlain, ClientSends, server
<1>5. CASE ClientReceives
  <2> DEFINE o == Head(outq)
  <2>1. connected /\ outq # << >> /\ outq' = Tail(outq) /\ UNCHANGED << log, app, connected >>
    BY <1>5 DEF ClientReceives, server
  <2>2. got' = IF IsReply(o) THEN Append(got, o.packet.id) ELSE got
    BY <1>5 DEF ClientReceives, IsReply
  <2>3. o \in Outgoing /\ Tail(outq) \in Seq(Outgoing)
    BY <1>1, <2>1, HeadTailProperties
  <2>4. IsReply(o) => o.packet.id \in Nat
    BY <2>3 DEF IsReply, Outgoing, Packet
  <2>5. Answered(outq) = IF IsReply(o) THEN << o.packet.id >> \o Answered(outq')
                         ELSE Answered(outq')
    BY <1>1, <2>1, AnsweredTail
  <2>6. Answered(outq') \in Seq(Nat)
    BY <2>1, <2>3, AnsweredType
  <2> DEFINE a == Answered(outq')
  <2> HIDE DEF o, a
  <2>7. \A id \in Nat : Append(got, id) \o a = got \o (<< id >> \o a)
    BY <1>1, <2>6 DEF a
  <2>8. got' \o Answered(outq') = got \o Answered(outq)
    BY <2>2, <2>4, <2>5, <2>7 DEF a
  <2>9. got' \o Answered(outq') = Asked(log)
    BY <2>1, <2>8, OneReplyEachIs
  <2>10. Asked(log)' = Asked(log)
    BY <2>1 DEF Asked, OwedSet, Owed
  <2>11. Answered(outq)' = Answered(outq')
    BY DEF Answered, ReplySet, IsReply
  <2>12. OneReplyEach' <=> (connected' => got' \o Answered(outq)' = Asked(log)')
    BY DEF OneReplyEach, Replies, Requests, Answered, Asked, OwedSet, ReplySet
  <2> QED BY <2>9, <2>10, <2>11, <2>12
<1>6. CASE ConnectionLost
  BY <1>6 DEF ConnectionLost, OneReplyEach
<1>7. CASE OnConnect
  <2> DEFINE o == Sent(Result(p.id, p.channel), p.channel)
  <2>1. Handling("invoke") /\ p.method = "connect"
        /\ outq' = Append(outq, o) /\ log' = Learnt(p)
    BY <1>7 DEF OnConnect, Invoked
  <2>2. Owed(e)
    BY <2>1 DEF Owed
  <2>3. Asked(log') = Append(Asked(log), p.id)
    BY <1>2, <2>1, <2>2, LearntAsked
  <2>4. o \in Outgoing /\ IsReply(o) /\ o.packet.id = p.id
    BY <1>2, <2>1, ReplyKinds, PacketTypes, SentTypes
  <2> HIDE DEF o, e
  <2>5. Answered(outq') = Append(Answered(outq), p.id)
    BY <1>1, <2>1, <2>4, AnsweredAppend
  <2> QED BY <1>2, <2>1, <2>3, <2>5, Balanced
<1>8. CASE OnAdd
  <2> DEFINE call == Sent(Greeting(Noted(p)), p.channel)
             reply(channel) == Sent(Result(p.id, channel), p.channel)
             d == [by |-> "server", id |-> Noted(p), request |-> Greeting(Noted(p))]
  <2>1. Handling("invoke") /\ p.method = "add" /\ p.args # "wrong" /\ Calls(p)
        /\ UNCHANGED fired
    BY <1>8 DEF OnAdd, Invoked
  <2>2. p \in Packet /\ p.type = "invoke" /\ p.id \in Nat /\ p.channel \in Channels
    BY <1>2, <2>1
  <2>3. Noted(p) \in Nat
    BY <2>1, <2>2, CallsIds
  <2>4. call \in Outgoing /\ ~IsReply(call)
    BY <2>2, <2>3, ReplyKinds, PacketTypes, SentTypes
  <2>5. \A channel \in Channels : /\ reply(channel) \in Outgoing /\ IsReply(reply(channel))
                                  /\ reply(channel).packet.id = p.id
    BY <2>2, ReplyKinds, PacketTypes, SentTypes
  <2>6. d \in Logged /\ ~Owed(d)
    BY <2>3, PacketTypes DEF Logged, Owed
  <2>7. log' = Append(Learnt(p), d)
    BY <2>1 DEF Calls
  <2>8. /\ Learnt(p) \in Seq(Logged)
        /\ Asked(Learnt(p)) = IF Owed(e) THEN Append(Asked(log), p.id) ELSE Asked(log)
    BY <2>1, <2>2, LearntAsked
  <2>9. Owed(e) <=> (app = "demo" \/ p.args # "zero")
    BY <1>1, <2>1, RpcAssumption DEF Owed, RpcAssumption
  <2>10. /\ Owed(e) => \/ outq' = outq \o << reply(p.channel), call >>
                       \/ outq' = outq \o << call, reply(CallChannel) >>
         /\ ~Owed(e) => outq' = outq \o << call >>
    BY <1>8, <2>9 DEF OnAdd
  <2> DEFINE owed == Owed(e)
  <2> HIDE DEF call, reply, d, e, owed
  <2>11. Asked(log') = IF owed THEN Append(Asked(log), p.id) ELSE Asked(log)
    BY <2>6, <2>7, <2>8, AskedAppend DEF owed
  <2>12. \A a, b \in Outgoing : /\ outq \o << a >> = Append(outq, a)
                                /\ outq \o << a, b >> = Append(Append(outq, a), b)
                                /\ Append(outq, a) \in Seq(Outgoing)
    BY <1>1
  <2>13. \A a \in Outgoing :
           /\ IsReply(a) /\ a.packet.id = p.id =>
                /\ Answered(Append(Append(outq, a), call)) = Append(Answered(outq), p.id)
                /\ Answered(Append(Append(outq, call), a)) = Append(Answered(outq), p.id)
           /\ Answered(Append(outq, call)) = Answered(outq)
    BY <1>1, <2>4, <2>12, AnsweredAppend
  <2>14. CallChannel \in Channels
    BY PacketTypes
  <2>15. Answered(outq') = IF owed THEN Append(Answered(outq), p.id) ELSE Answered(outq)
    <3>1. ASSUME NEW a \in Outgoing, IsReply(a), a.packet.id = p.id,
                 outq' = outq \o << a, call >> \/ outq' = outq \o << call, a >>
          PROVE  Answered(outq') = Append(Answered(outq), p.id)
      BY <2>4, <2>12, <2>13, <3>1
    <3>2. CASE owed
      <4>1. \/ outq' = outq \o << reply(p.channel), call >>
            \/ outq' = outq \o << call, reply(CallChannel) >>
        BY <2>10, <3>2 DEF owed
      <4> QED BY <2>2, <2>5, <2>14, <3>1, <3>2, <4>1
    <3>3. CASE ~owed
      <4>1. outq' = Append(outq, call)
        BY <2>4, <2>10, <2>12, <3>3 DEF owed
      <4> QED BY <2>4, <2>13, <3>3, <4>1
    <3> QED BY <3>2, <3>3
  <2> QED BY <1>2, <2>1, <2>2, <2>11, <2>15, Balanced
<1>9. CASE OnAddWrong
  <2>1. Handling("invoke") /\ p.method = "add" /\ p.args = "wrong" /\ UNCHANGED outq
        /\ (log' = log \/ log' = Learnt(p))
    BY <1>9 DEF OnAddWrong, Invoked, Abort
  <2>2. ~Owed(e)
    BY <2>1 DEF Owed
  <2>3. Asked(Learnt(p)) = Asked(log)
    BY <1>2, <2>1, <2>2, LearntAsked
  <2> HIDE DEF e
  <2> QED BY <1>2, <2>1, <2>3, Balanced
<1>10. CASE OnUnknown
  <2>1. Handling("invoke") /\ p.method \notin {"connect", "add", "_result"} /\ UNCHANGED outq
        /\ log' = Learnt(p)
    BY <1>10 DEF OnUnknown
  <2>2. ~Owed(e)
    BY <2>1 DEF Owed
  <2>3. Asked(Learnt(p)) = Asked(log)
    BY <1>2, <2>1, <2>2, LearntAsked
  <2> HIDE DEF e
  <2> QED BY <1>2, <2>1, <2>3, Balanced
<1>11. CASE OnPing
  <2> DEFINE o == Sent(p, p.channel)
  <2>1. Handling("ping") /\ outq' = Append(outq, o) /\ UNCHANGED << log, app >>
    BY <1>11 DEF OnPing, server
  <2>2. p \in Packet /\ p.channel \in Channels /\ p.type = "ping"
        /\ UNCHANGED << got, connected >>
    BY <2>1, Handled DEF Handling, client
  <2>3. o \in Outgoing /\ ~IsReply(o)
    BY <2>2, ReplyKinds, SentTypes
  <2> HIDE DEF o
  <2>4. Answered(outq') = Answered(outq)
    BY <1>1, <2>1, <2>3, AnsweredAppend
  <2> QED BY <2>1, <2>2, <2>4, Balanced
<1>12. CASE \/ OnResult \/ OnMalformed \/ OnBytesRead \/ OnChunkSize \/ OnMedia
  BY <1>3, <1>12 DEF OnResult, OnMalformed, OnBytesRead, OnChunkSize, OnMedia, Invoked,
                     Handling, client, Abort, Ignore, server
<1>13. CASE UNCHANGED vars
  BY <1>3, <1>13 DEF vars, server, client
<1> QED BY <1>4, <1>5, <1>6, <1>7, <1>8, <1>9, <1>10, <1>11, <1>12, <1>13 DEF Next, Serve

-----------------------------------------------------------------------------
(* Theorems.                                                               *)

\* The inductive invariant holds: the counter of request ids is above every id the
\* server has received a request under or given out.
THEOREM RpcInvariant == Spec => []IInv
BY InitIInv, NextIInv, PTL DEF Spec

\* The variables keep their types, whatever the client sends.
THEOREM RpcTypeOK == Spec => []TypeOK
<1>1. IInv => TypeOK
  BY DEF IInv
<1> QED BY <1>1, RpcInvariant, PTL

\* rtmp_proto_call never uses a request id that was used before by either side.
THEOREM RpcFreshIds == Spec => []FreshIds
<1>1. IInv => FreshIds
  BY DEF IInv
<1> QED BY <1>1, RpcInvariant, PTL

\* Whatever the client sends, each packet it is sent has the header channel it is
\* compressed for, if the client calls on the channel of calls.
THEOREM RpcSendsOnOwnChannel == Spec => []SendsOnOwnChannel
<1>1. Init => ChannelInv
  BY DEF Init, ChannelInv, SendsOnOwnChannel, InvokedOnCallChannel
<1>2. ChannelInv => SendsOnOwnChannel
  BY DEF ChannelInv
<1> QED BY <1>1, <1>2, NextChannelInv, RpcInvariant, PTL DEF Spec

\* Each request that is owed a reply gets exactly one, under its own id and in the order
\* of the requests, in either application: counted over what the client has received
\* and what is on its way.
THEOREM RpcOneReplyEach == Spec => []OneReplyEach
<1>1. Init => OneReplyEach
  <2> SUFFICES ASSUME Init PROVE OneReplyEach
    OBVIOUS
  <2>1. Asked(<< >>) = << >> /\ Answered(<< >>) = << >>
    BY PickedEmpty DEF Asked, Answered
  <2> QED BY <2>1, OneReplyEachIs DEF Init
<1> QED BY <1>1, NextOneReply, RpcInvariant, PTL DEF Spec

\* The table of Deferreds in testbad.py implements calls that are each under a name
\* of their own and called back at most once, while they are open.
THEOREM RpcCallsAnsweredOnce == Spec => CallsAnsweredOnce
<1>1. Init => Table!Init
  BY DEF Init, Table!Init
<1>2. IInv /\ [Next]_vars => [Table!Next]_Table!vars
  <2> SUFFICES ASSUME IInv, [Next]_vars
               PROVE  Table!Next \/ UNCHANGED << calls, fired >>
    BY DEF Table!vars
  <2>1. CASE OnAdd
    <3> DEFINE p == Head(inq)
    <3>1. Handling("invoke") /\ Calls(p) /\ UNCHANGED fired
      BY <2>1 DEF OnAdd, Invoked
    <3>2. p \in Packet /\ p.type = "invoke"
      BY <3>1, Handled DEF Handling
    <3> HIDE DEF p
    <3>3. Noted(p) \notin calls \cup fired
      BY <3>1, <3>2, CallsIds
    <3>4. calls' = calls \cup {Noted(p)} \/ calls' = calls
      BY <3>1 DEF Calls
    <3>5. CASE calls' = calls \cup {Noted(p)}
      <4>1. Table!Issue(Noted(p)) /\ Noted(p) \in calls'
        BY <3>1, <3>3, <3>5 DEF Table!Issue
      <4> QED BY <4>1 DEF Table!Next
    <3> QED BY <3>1, <3>4, <3>5
  <2>2. CASE OnResult
    <3> DEFINE id == Head(inq).id
    <3>1. \/ id \in calls /\ fired' = fired \cup {id} /\ calls' = calls \ {id}
          \/ UNCHANGED << fired, calls >>
      BY <2>2 DEF OnResult
    <3> HIDE DEF id
    <3>2. CASE id \in calls /\ fired' = fired \cup {id} /\ calls' = calls \ {id}
      <4>1. Table!Answer(id)
        BY <3>2 DEF Table!Answer
      <4> QED BY <3>2, <4>1 DEF Table!Next
    <3> QED BY <3>1, <3>2
  <2>3. CASE \/ ClientRequest \/ ClientAnswer \/ ClientPlain \/ ClientReceives
             \/ ConnectionLost \/ UNCHANGED vars
    BY <2>3 DEF ClientRequest, ClientAnswer, ClientPlain, ClientSends, ClientReceives,
                ConnectionLost, vars, server
  <2>4. CASE \/ OnConnect \/ OnAddWrong \/ OnUnknown \/ OnMalformed \/ OnPing
             \/ OnBytesRead \/ OnChunkSize \/ OnMedia
    BY <2>4 DEF OnConnect, OnAddWrong, OnUnknown, OnMalformed, OnPing, OnBytesRead,
                OnChunkSize, OnMedia, Abort, Ignore, server
  <2> QED BY <2>1, <2>2, <2>3, <2>4 DEF Next, Serve
<1> QED BY <1>1, <1>2, RpcInvariant, PTL DEF Spec, CallsAnsweredOnce, Table!Spec

=============================================================================
