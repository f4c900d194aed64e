--------------------------------- MODULE Rpc ---------------------------------
(***************************************************************************)
(* Requests and replies over one connection: a rushkit server endpoint     *)
(* (core/src/protocol.c with one of its two applications, the Twisted      *)
(* server of testbad.py or the demo server of aux/connection.cpp) and a    *)
(* client, which is not part of the repository: a Flash player running     *)
(* aux/as/App.as, or anything else that can connect.                       *)
(*                                                                         *)
(* Packets travel through two queues, which is what ChunkStream is shown   *)
(* to implement for the packets sent here.  The server is single threaded: *)
(* it handles one packet at a time, and everything it sends or allocates   *)
(* it does from inside the callback of that packet.                        *)
(***************************************************************************)
EXTENDS Naturals, Sequences

CONSTANTS Apps,         \* the applications: "twisted", "demo" or both
          ClientIds,    \* the request ids the client may use
          MaxPackets    \* bound on the packets the client sends

ASSUME RpcAssumption == /\ Apps \subseteq {"twisted", "demo"}
                        /\ ClientIds \subseteq Nat
                        /\ MaxPackets \in Nat

VARIABLES
  \* the connection
  inq, outq,         \* packets to the server, packets to the client
  connected,         \* connectionLost has not happened
  \* the server
  app,               \* its application
  next_request_id,
  calls,             \* testbad.py: the ids that have a Deferred in self._calls
  aborted,           \* an assertion has failed
  \* the client
  sent,              \* how many packets it has sent
  asked,             \* the calls of the server it has not answered yet
  \* history, read by no action of the server
  log,               \* the requests the server has received and made, in order
  fired,             \* the ids whose Deferred was called back
  got                \* the ids of the replies the client has received, in order

server == << app, next_request_id, calls, aborted, log, fired >>
client == << sent, asked, got >>
vars   == << inq, outq, connected, server, client >>

\* rtmp_proto_init, connectionMade.
Init ==
  /\ inq = << >> /\ outq = << >> /\ connected = TRUE
  /\ app \in Apps /\ next_request_id = 1 /\ calls = {} /\ aborted = FALSE
  /\ sent = 0 /\ asked = {}
  /\ log = << >> /\ fired = {} /\ got = << >>

-----------------------------------------------------------------------------
(* Packets.                                                                *)

\* An invocation; its arguments as far as the handlers tell them apart: "some" of
\* the right number, "zero" when they add up to 0, "wrong" in number or "none".
Invoke(method, id, args, channel) ==
  [type |-> "invoke", method |-> method, id |-> id, args |-> args, channel |-> channel]

\* Any other packet, with the length of its data.
Plain(type, len, channel) == [type |-> type, len |-> len, channel |-> channel]

\* The channel of rtmp_proto_call and amf_return, and that a client uses to call.
CallChannel == 3

\* Broken: the client knows no such method.
ResultMisnamed(id, channel) == Invoke("result", id, "some", channel)

Result(id, channel) == Invoke("_result", id, "some", channel)
Greeting(id)        == Invoke("greeting", id, "some", CallChannel)

\* Packets on their way to the client.  They are compressed for their own channel; the
\* channel in their header is the one of the packet that is being handled.
Sent(p, channel) == [packet |-> p, header |-> channel]

-----------------------------------------------------------------------------
(* The client.                                                             *)

ClientSends(p) == /\ connected /\ sent < MaxPackets
                  /\ inq' = Append(inq, p)
                  /\ sent' = sent + 1
                  /\ UNCHANGED << outq, connected, server, got >>

ClientRequest ==
  \E id \in ClientIds, args \in {"some", "zero", "wrong"},
     method \in {"connect", "add", "unknown"} :
    /\ (method # "add" => args = "some")
    /\ ClientSends(Invoke(method, id, args, CallChannel))
    /\ UNCHANGED asked

\* An answer to a call of the server, or to none.
ClientAnswer ==
  \E id \in asked \cup ClientIds, args \in {"some", "none"} :
    /\ ClientSends(Invoke("_result", id, args, CallChannel))
    /\ asked' = asked \ {id}

\* Everything else a client may send; "malformed" is an invocation whose method is
\* not a string, "media" stands for audio, video and types nobody handles.
PlainPackets ==
  { Plain("ping", 6, channel) : channel \in {2, 3} }
    \cup { Plain("bytes_read", 4, 2), Plain("bytes_read", 3, 2), Plain("chunk_size", 4, 2),
           Plain("malformed", 4, CallChannel), Plain("media", 4, 3) }

ClientPlain ==
  \E p \in PlainPackets : ClientSends(p) /\ UNCHANGED asked

ClientReceives ==
  /\ connected /\ outq # << >>
  /\ outq' = Tail(outq)
  /\ LET p == Head(outq).packet
     IN IF p.type # "invoke" THEN UNCHANGED << asked, got >>
        ELSE IF p.method = "_result" THEN got' = Append(got, p.id) /\ UNCHANGED asked
        ELSE asked' = asked \cup {p.id} /\ UNCHANGED got
  /\ UNCHANGED << inq, connected, server, sent >>

\* The connection is lost, with all that is under way; the Deferreds stay.
ConnectionLost ==
  /\ connected
  /\ connected' = FALSE /\ inq' = << >> /\ outq' = << >>
  /\ UNCHANGED << server, client >>

-----------------------------------------------------------------------------
(* The server.                                                             *)

\* The server's callback is given this packet.
Handling(type) == /\ connected /\ ~aborted
                  /\ inq # << >> /\ Head(inq).type = type
                  /\ inq' = Tail(inq)
                  /\ UNCHANGED << connected, app, client >>

\* An assertion fails: the process is gone.
Abort == /\ aborted' = TRUE
         /\ UNCHANGED << outq, next_request_id, calls, log, fired >>

Ignore == UNCHANGED << outq, server >>

\* Broken: the counter takes no notice of the ids of the other side.
NotedNever(p) == next_request_id

\* _default_on_packet_invoke: the counter stays above the ids of the other side.
Noted(p) == IF p.method # "_result" /\ next_request_id < p.id + 1
              THEN p.id + 1
              ELSE next_request_id

\* What the server has learnt of the requests of the other side.
Learnt(p) == IF p.method = "_result" THEN log
             ELSE Append(log, [by |-> "client", id |-> p.id, request |-> p])

\* The method table has a handler for an invocation of this method.
Invoked(method) == Handling("invoke") /\ Head(inq).method = method

\* Broken: the reply goes out under the server's own counter.
OnConnectCounter ==
  LET p == Head(inq)
  IN /\ Invoked("connect")
     /\ next_request_id' = Noted(p)
     /\ outq' = Append(outq, Sent(Result(next_request_id, p.channel), p.channel))
     /\ log' = Learnt(p)
     /\ UNCHANGED << calls, aborted, fired >>

OnConnect ==
  LET p == Head(inq)
  IN /\ Invoked("connect")
     /\ next_request_id' = Noted(p)
     /\ outq' = Append(outq, Sent(Result(p.id, p.channel), p.channel))
     /\ log' = Learnt(p)
     /\ UNCHANGED << calls, aborted, fired >>

\* rtmp_proto_call under the next id, and what the application does about it.
Calls(p) ==
  /\ next_request_id' = Noted(p) + 1
  /\ log' = Append(Learnt(p), [by |-> "server", id |-> Noted(p),
                                     request |-> Greeting(Noted(p))])
  /\ calls' = IF app = "twisted" THEN calls \cup {Noted(p)} ELSE calls

\* amf_add calls the client and then returns its value, which is sent unless it is
\* false; _on_amf_call sends the value and then calls the client.
OnAdd ==
  LET p       == Head(inq)
      call    == Sent(Greeting(Noted(p)), p.channel)
      replied == app = "demo" \/ p.args # "zero"
  IN /\ Invoked("add") /\ p.args # "wrong"
     /\ Calls(p)
     /\ outq' = CASE app = "demo" -> outq \o << Sent(Result(p.id, p.channel), p.channel), call >>
                  [] app # "demo" /\ replied ->
                       outq \o << call, Sent(Result(p.id, CallChannel), p.channel) >>
                  [] OTHER -> outq \o << call >>
     /\ UNCHANGED << aborted, fired >>

\* The wrong number of arguments: an assertion of the demo server, an exception
\* that nobody sees of the other.
OnAddWrong ==
  LET p == Head(inq)
  IN /\ Invoked("add") /\ p.args = "wrong"
     /\ IF app = "demo"
          THEN Abort
          ELSE /\ next_request_id' = Noted(p)
               /\ log' = Learnt(p)
               /\ UNCHANGED << outq, calls, aborted, fired >>

\* Broken: the Deferred stays in the table.
OnResultKeeps ==
  LET p == Head(inq)
  IN /\ Invoked("_result")
     /\ IF p.id \in calls /\ p.args = "some"
          THEN fired' = fired \cup {p.id}
          ELSE UNCHANGED fired
     /\ UNCHANGED << outq, next_request_id, calls, aborted, log >>

\* Broken: the entry of the table is deleted first.
OnResultDeletesFirst ==
  LET p == Head(inq)
  IN /\ Invoked("_result")
     /\ calls' = calls \ {p.id}
     /\ UNCHANGED << outq, next_request_id, aborted, log, fired >>

\* handleInvoke: the Deferred of this id is called back, if there is one; a reply
\* without a value raises an exception first.
OnResult ==
  LET p == Head(inq)
  IN /\ Invoked("_result")
     /\ IF p.id \in calls /\ p.args = "some"
          THEN fired' = fired \cup {p.id} /\ calls' = calls \ {p.id}
          ELSE UNCHANGED << fired, calls >>
     /\ UNCHANGED << outq, next_request_id, aborted, log >>

\* A method that the application does not have.
OnUnknown ==
  LET p == Head(inq)
  IN /\ Handling("invoke") /\ p.method \notin {"connect", "add", "_result"}
     /\ next_request_id' = Noted(p)
     /\ log' = Learnt(p)
     /\ UNCHANGED << outq, calls, aborted, fired >>

\* The assertions on the types of the method name and the request id.
OnMalformed == Handling("malformed") /\ Abort

\* Broken: the pong takes the channel of calls.
OnPingElsewhere ==
  /\ Handling("ping")
  /\ outq' = Append(outq, Sent([Head(inq) EXCEPT !.channel = CallChannel], Head(inq).channel))
  /\ UNCHANGED server

OnPing ==
  /\ Handling("ping")
  /\ outq' = Append(outq, Sent(Head(inq), Head(inq).channel))
  /\ UNCHANGED server

OnBytesRead == /\ Handling("bytes_read")
               /\ IF Head(inq).len = 4 THEN Ignore ELSE Abort

\* The buffer for bytes kept between two feeds is replaced, at a time when there are
\* none (ChunkStream, ReturnsOnBoundary); the size of chunks stays what it was.
OnChunkSize == Handling("chunk_size") /\ Ignore

\* No callback is set: a warning is logged.
OnMedia == Handling("media") /\ Ignore

Serve == \/ OnConnect \/ OnAdd \/ OnAddWrong \/ OnResult \/ OnUnknown
         \/ OnMalformed \/ OnPing \/ OnBytesRead \/ OnChunkSize \/ OnMedia

Next == \/ ClientRequest \/ ClientAnswer \/ ClientPlain \/ ClientReceives
        \/ ConnectionLost
        \/ Serve

\* The event loop serves what has arrived, and a client reads what it is sent.
Spec == Init /\ [][Next]_vars /\ WF_vars(Serve) /\ WF_vars(ClientReceives)

-----------------------------------------------------------------------------
(* Properties.                                                             *)

Methods == {"connect", "add", "unknown", "_result", "greeting"}
Channels == 0 .. 63
Packet ==
  [type : {"invoke"}, method : Methods, id : Nat,
   args : {"some", "zero", "wrong", "none"}, channel : Channels]
    \cup [type : {"ping", "bytes_read", "chunk_size", "malformed", "media"}, len : Nat,
          channel : Channels]
Outgoing == [packet : Packet, header : Channels]
Logged == [by : {"client", "server"}, id : Nat, request : Packet]

\* The variables have their types.
TypeOK ==
  /\ inq \in Seq(Packet) /\ outq \in Seq(Outgoing) /\ connected \in BOOLEAN
  /\ app \in Apps /\ next_request_id \in Nat /\ calls \subseteq Nat /\ aborted \in BOOLEAN
  /\ sent \in 0 .. MaxPackets /\ asked \subseteq Nat
  /\ log \in Seq(Logged) /\ fired \subseteq Nat /\ got \in Seq(Nat)

\* A call of the server goes out under an id that is above every request id it has
\* received or given out before: no two of its calls share one, and none shares one
\* with an earlier request of the other side.
FreshIds ==
  \A i, j \in 1 .. Len(log) :
    i < j /\ log[j].by = "server" => log[i].id < log[j].id

\* The server owes a reply: to connect, and to add unless it gets no arguments it
\* can add or, under Twisted, the value is false.
Owed(e) ==
  /\ e.by = "client"
  /\ \/ e.request.method = "connect"
     \/ /\ e.request.method = "add" /\ e.request.args # "wrong"
        /\ app = "twisted" => e.request.args # "zero"

IsReply(o) == o.packet.type = "invoke" /\ o.packet.method = "_result"

\* The elements of a sequence that are in T, in their order.
Picked(s, T) ==
  LET f[n \in 0 .. Len(s)] ==
        IF n = 0 THEN << >>
        ELSE IF s[n] \in T THEN Append(f[n - 1], s[n]) ELSE f[n - 1]
  IN f[Len(s)]

Requests == Picked(log, {e \in Logged : Owed(e)})
Replies  == Picked(outq, {o \in Outgoing : IsReply(o)})

\* Every request that is owed a reply gets exactly one, under its own id, in the
\* order of the requests.
OneReplyEach ==
  connected =>
    got \o [i \in 1 .. Len(Replies) |-> Replies[i].packet.id]
      = [i \in 1 .. Len(Requests) |-> Requests[i].id]

\* A client that calls on CallChannel is sent every packet under a header of the channel
\* it is compressed for, whatever else it sends on whatever channel: which is what
\* ChunkStream demands of the calls for which it is a pair of queues.
SendsOnOwnChannel ==
  \A i \in 1 .. Len(outq) : outq[i].packet.channel = outq[i].header

\* Inductive: the counter is above every id so far.
IInv ==
  /\ TypeOK /\ FreshIds
  /\ \A i \in 1 .. Len(log) : log[i].id < next_request_id
  /\ \A id \in calls \cup fired : id < next_request_id
  /\ calls \cap fired = {}

\* The table of Deferreds implements calls that are each answered at most once.
Table == INSTANCE CallTable WITH open <- calls, answered <- fired
CallsAnsweredOnce == Table!Spec

\* The server keeps serving.
Gone == aborted \/ ~connected

\* A reply with a value, once it has arrived, calls back the Deferred of its call.
AnswersArrive ==
  \A id \in 1 .. 2 * MaxPackets :
    id \in calls /\ (\E i \in 1 .. Len(inq) : inq[i] = Result(id, CallChannel))
      ~> id \in fired \/ Gone

\* A client that asks for a connection is told that it has one.
ConnectAnswered ==
  \A id \in ClientIds :
    (\E i \in 1 .. Len(inq) : inq[i] = Invoke("connect", id, "some", CallChannel))
      ~> (\E i \in 1 .. Len(got) : got[i] = id) \/ Gone

=============================================================================
