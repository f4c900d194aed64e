----------------------------- MODULE ChunkStream -----------------------------
(***************************************************************************)
(* One direction of an RTMP connection after its handshake: a sending      *)
(* endpoint that writes packets as chunks into a byte stream (packet.c,    *)
(* rtmp_packet_write_packet), a transport that hands the stream over in    *)
(* segments of its own choosing, and a receiving endpoint that parses each *)
(* segment with the state machine r0 .. r6 of packet.c inside the loop of  *)
(* rtmp_proto_feed.  The two endpoints share nothing but the bytes.        *)
(*                                                                         *)
(* A failed assertion ends the process of its endpoint: the endpoint joins *)
(* `aborted` and takes no further step.  So does a receiver that uses      *)
(* memory outside its channel table, which is "astray" if it lives on:      *)
(* from there on it may do anything, and the model ends.                   *)
(***************************************************************************)
EXTENDS PacketHeader, FiniteSets

CONSTANTS
  NumChannels,   \* entries of each channel table: 64
  ChunkSize,     \* proto->read_chunk_size: it stays 128
  BufSize,       \* BUFFER_SZ: 8192
  LargeSize,     \* packets of this size are not read: 32 * 1024
  SocketSpace,   \* the bytes that may be written before they are read
  Sends,         \* the calls of rtmp_proto_send_packet that may happen
  MaxPackets,    \* bound on the number of calls
  Segmentation   \* "any": bytes; "packets": segments of whole packets

\* The chosen fields of a packet.
Packet == [channel_id : 0 .. NumChannels - 1, timer : Nat, data_type : Byte,
           stream_id : Nat, data : Seq(Byte)]

\* A call sends `pac` while the sender's own parser is on channel `rx`: the
\* channel of the packet whose callback is running, or 0 outside a callback.  Its chunks
\* have `chunk` bytes: 128 here, another size for a client that has announced one.
Call == [rx : 0 .. NumChannels - 1, relative : BOOLEAN, chunk : Nat \ {0}, pac : Packet]

ASSUME SizesAssumption ==
  /\ NumChannels \in 4 .. 64
  /\ ChunkSize \in Nat \ {0}
  /\ BufSize \in Nat \ {0}
  /\ LargeSize \in Nat /\ SocketSpace \in Nat
  /\ BufSize < LargeSize /\ LargeSize <= ExtendedTimer
ASSUME SendsAssumption == Sends \subseteq Call
ASSUME BoundsAssumption == /\ MaxPackets \in Nat
                           /\ Segmentation \in {"any", "packets"}

VARIABLES
  \* the sending endpoint
  channels_out,  \* the last header written, per channel
  \* the transport
  stream,        \* every byte written so far
  taken,         \* how many of them the receiver's reads have returned
  \* the receiving endpoint
  feeding,       \* rtmp_proto_feed is running
  rbuf,          \* the unread bytes of its READ_BUFFER
  need_more,     \* READ_BUFFER.need_more
  last_data,     \* bytes kept for the next feed
  state,         \* the parser's state, 0 .. 6
  packet_mask, channel_id, data_buffer,
  channels_in,   \* the last header read, per channel
  pac,           \* the packet get_packet has returned: none or one
  \* both
  aborted,       \* the endpoints that failed an assertion, and "astray"
  \* history, read by no action
  log,           \* per call: the call, the channel table and the stream after it,
                 \* and whether the socket took all of it
  delivered      \* the packets passed to on_packet

sender    == << channels_out, stream, log >>
reader    == << rbuf, need_more >>
parser    == << state, packet_mask, channel_id, data_buffer >>
vars      == << sender, taken, feeding, reader, last_data, parser, channels_in,
                pac, aborted, delivered >>

\* rtmp_packet_init and the clear_out_channel calls set up channels 0 .. 3 only.
InitChannels ==
  [c \in 0 .. NumChannels - 1 |->
     IF c <= 3 THEN InitChannel ELSE [InitChannel EXCEPT !.used = 0]]

Init ==
  /\ channels_out = InitChannels /\ channels_in = InitChannels
  /\ stream = << >> /\ taken = 0
  /\ feeding = FALSE /\ rbuf = << >> /\ need_more = 0 /\ last_data = << >>
  /\ state = 0 /\ packet_mask = 0 /\ channel_id = 0 /\ data_buffer = 0
  /\ pac = << >> /\ aborted = {} /\ log = << >> /\ delivered = << >>

-----------------------------------------------------------------------------
(* The sender: rtmp_proto_send_packet.                                     *)

\* The bytes of a packet, compressed against channel `ch`.
Encode(s, ch) ==
  LET mask  == PacketMask(ch, s.pac)
      dtime == s.pac.timer - (IF s.relative THEN OutChannel(ch).timer ELSE 0)
  IN HeaderBytes(s.rx, mask) \o HeaderFields(s.pac, mask, dtime)
       \o Chunked(s.pac.data, s.chunk, HeaderBytes(s.rx, CHANNEL_CONTINUE))

\* What write() takes of these bytes.  The socket does not block: bytes for which it has
\* no space are not written, and nobody looks at how many were.
Taken(bytes) ==
  LET space == SocketSpace + taken - Len(stream)
  IN IF Len(bytes) <= space THEN bytes
     ELSE IF space > 0 THEN SubSeq(bytes, 1, space) ELSE << >>

Send(s) ==
  LET p     == s.pac
      ch    == channels_out[p.channel_id]
      bytes == Encode(s, ch)
  IN /\ "sender" \notin aborted
     /\ Len(log) < MaxPackets
     /\ CanWriteHeader(s.rx)
     /\ channels_out' = [channels_out EXCEPT ![p.channel_id] =
                           WrittenChannel(OutChannel(ch), p, PacketMask(ch, p))]
     /\ stream' = stream \o Taken(bytes)
     /\ log' = Append(log, [call |-> s, channels |-> channels_out',
                            end |-> Len(stream'), whole |-> Taken(bytes) = bytes])
     /\ UNCHANGED << taken, feeding, reader, last_data, parser, channels_in, pac,
                     aborted, delivered >>

\* The assertion of _writeHeaderBytes: a call outside a callback.
SendAbort(s) ==
  /\ "sender" \notin aborted
  /\ Len(log) < MaxPackets
  /\ ~CanWriteHeader(s.rx)
  /\ aborted' = aborted \cup {"sender"}
  /\ UNCHANGED << sender, taken, feeding, reader, last_data, parser,
                  channels_in, pac, delivered >>

-----------------------------------------------------------------------------
(* The receiver.                                                           *)

\* Where a segment may end.
Boundary(n) == Segmentation = "packets" => \E i \in 1 .. Len(log) : log[i].end = n

(***************************************************************************)
(* Connection::receiveData: prepare_buffer puts the kept bytes back at the *)
(* front of the buffer, read() fills what is left, and feed is told of the *)
(* n bytes that read() returned.                                           *)
(***************************************************************************)
Receive(n) ==
  /\ "receiver" \notin aborted /\ ~feeding
  /\ n \in 1 .. BufSize - Len(last_data)
  /\ taken + n <= Len(stream)
  /\ Boundary(taken + n)
  /\ feeding' = TRUE
  /\ taken' = taken + n
  /\ rbuf' = SubSeq(last_data \o SubSeq(stream, taken + 1, taken + n), 1, n)
  /\ need_more' = 0
  /\ last_data' = << >>
  /\ UNCHANGED << sender, parser, channels_in, pac, aborted, delivered >>

\* The parser is in state n of the loop of rtmp_packet_get_packet.
Parsing(n) == "receiver" \notin aborted /\ feeding /\ pac = << >> /\ state = n

\* What a step of the parser leaves alone, beside the variables it names.
ParserFrame == UNCHANGED << sender, taken, feeding, last_data, delivered >>

\* An assertion of the receiver fails.
ReceiverAbort ==
  /\ aborted' = aborted \cup {"receiver"}
  /\ UNCHANGED << reader, parser, channels_in, pac >>
  /\ ParserFrame

\* The first n bytes of the buffer are read.
Consume(n) == rbuf' = SubSeq(rbuf, n + 1, Len(rbuf)) /\ UNCHANGED need_more

\* Broken: the parser gives up its state and the feed loop keeps the bytes.
NeedMoreQuits(n) ==
  /\ Len(rbuf) < n
  /\ need_more' = n - Len(rbuf)
  /\ state' = 0
  /\ UNCHANGED << rbuf, packet_mask, channel_id, data_buffer, channels_in, pac,
                  aborted >>
  /\ ParserFrame

\* rtmp_rb_assert_size(n) is false: the state function returns NULL and the
\* loop of rtmp_packet_get_packet calls it again, on the same bytes.
NeedMore(n) ==
  /\ Len(rbuf) < n
  /\ need_more' = n - Len(rbuf)
  /\ UNCHANGED << rbuf, parser, channels_in, pac, aborted >>
  /\ ParserFrame

\* Broken: the parser starts whether or not there is a byte.
StartReceiveEager ==
  /\ Parsing(0) /\ need_more = 0
  /\ state' = 1 /\ packet_mask' = 0 /\ channel_id' = 0 /\ data_buffer' = 0
  /\ UNCHANGED << reader, channels_in, pac, aborted >>
  /\ ParserFrame

\* The feed loop goes around again, into state 0 of get_packet.
StartReceive ==
  /\ Parsing(0) /\ rbuf # << >> /\ need_more = 0
  /\ state' = 1 /\ packet_mask' = 0 /\ channel_id' = 0 /\ data_buffer' = 0
  /\ UNCHANGED << reader, channels_in, pac, aborted >>
  /\ ParserFrame

\* The loop has seen that there is a byte.
GetR1 ==
  /\ Parsing(1)
  /\ packet_mask' = rbuf[1] \div 64
  /\ channel_id' = rbuf[1] % 64
  /\ state' = 2
  /\ Consume(1)
  /\ UNCHANGED << data_buffer, channels_in, pac, aborted >>
  /\ ParserFrame

\* The bytes of a long channel id.
IdLength == CASE channel_id = 0 -> 1 [] channel_id = 1 -> 2 [] OTHER -> 0

GetR2 ==
  /\ Parsing(2)
  /\ Len(rbuf) >= IdLength
  /\ channel_id' = CASE IdLength = 1 -> 64 + rbuf[1]
                     [] IdLength = 2 -> 64 + ReadShort(rbuf, 1)
                     [] OTHER        -> channel_id
  /\ state' = 3
  /\ Consume(IdLength)
  /\ UNCHANGED << packet_mask, data_buffer, channels_in, pac, aborted >>
  /\ ParserFrame

GetR2Short == Parsing(2) /\ NeedMore(IdLength)

GetR3 ==
  /\ Parsing(3)
  /\ channel_id < NumChannels
  /\ state' = 4
  /\ UNCHANGED << reader, packet_mask, channel_id, data_buffer, channels_in, pac,
                  aborted >>
  /\ ParserFrame

GetR3Abort == Parsing(3) /\ channel_id >= NumChannels /\ ReceiverAbort

\* rtmp_proto_get_channel: only a channel that was set up may be used.  A long id is a
\* signed short, and a negative one is nobody's channel, but passes for less than 64.
ChannelUsed == channel_id \in DOMAIN channels_in /\ channels_in[channel_id].used = 1

\* A packet of the current channel, with this data.
Returned(ch, data) ==
  << [channel_id |-> channel_id, channel |-> ch, data |-> data] >>

\* The header fields; a packet that is too large is returned as an invalid one,
\* with whatever else is in the buffer for its data.
GetR4 ==
  LET n  == HeaderLength(packet_mask)
      ch == ReadChannel(channels_in[channel_id], packet_mask, rbuf)
  IN /\ Parsing(4) /\ ChannelUsed
     /\ Len(rbuf) >= n
     /\ channels_in' = [channels_in EXCEPT ![channel_id] = ch]
     /\ IF ch.size >= LargeSize
          THEN /\ pac' = Returned([ch EXCEPT !.data_type = PAC_INVALID],
                                  SubSeq(rbuf, n + 1, Len(rbuf)))
               /\ Consume(Len(rbuf))
               /\ UNCHANGED state
          ELSE /\ state' = 5
               /\ Consume(n)
               /\ UNCHANGED pac
     /\ UNCHANGED << packet_mask, channel_id, data_buffer, aborted >>
     /\ ParserFrame

GetR4Short == Parsing(4) /\ ChannelUsed /\ NeedMore(HeaderLength(packet_mask))

\* A channel that is not in use; or a negative one, in front of the table, where the memory
\* cannot be read or does not hold the 1 that marks a channel in use.
GetR4Abort == Parsing(4) /\ ~ChannelUsed /\ ReceiverAbort

\* It does hold a 1: that memory is taken for a channel, and written.
GetR4Astray ==
  /\ Parsing(4) /\ channel_id < 0
  /\ aborted' = aborted \cup {"receiver", "astray"}
  /\ UNCHANGED << reader, parser, channels_in, pac >>
  /\ ParserFrame

\* Broken: the largest timer but one is extended as well.
TimerLengthLarge == IF channels_in[channel_id].timer >= ExtendedTimer - 1 THEN 4 ELSE 0

\* Four more bytes follow the largest timer; the body buffer is allocated.
TimerLength == IF channels_in[channel_id].timer = ExtendedTimer THEN 4 ELSE 0

GetR5 ==
  /\ Parsing(5)
  /\ Len(rbuf) >= TimerLength
  /\ data_buffer' = channels_in[channel_id].size
  /\ state' = 6
  /\ Consume(TimerLength)
  /\ UNCHANGED << packet_mask, channel_id, channels_in, pac, aborted >>
  /\ ParserFrame

GetR5Short == Parsing(5) /\ NeedMore(TimerLength)

\* The body of a packet: its chunks, or four bytes when its type is 0.
Untyped == channels_in[channel_id].data_type = 0

\* Broken: a body that is not all there is returned as far as it goes.
GetR6Partial ==
  LET ch == channels_in[channel_id]
      n  == IF data_buffer < Len(rbuf) THEN data_buffer ELSE Len(rbuf)
  IN /\ Parsing(6) /\ ~Untyped
     /\ pac' = Returned(ch, SubSeq(rbuf, 1, n))
     /\ Consume(n)
     /\ UNCHANGED << parser, channels_in, aborted >>
     /\ ParserFrame

GetR6 ==
  LET ch  == channels_in[channel_id]
      sep == SeparatorLength(channel_id)
      n   == BodyLength(data_buffer, ChunkSize, sep)
  IN /\ Parsing(6) /\ ~Untyped
     /\ Len(rbuf) >= n
     /\ pac' = Returned(ch, Unchunked(rbuf, data_buffer, ChunkSize, sep))
     /\ Consume(n)
     /\ UNCHANGED << parser, channels_in, aborted >>
     /\ ParserFrame

\* The body is not all there: rtmp_rb_read_e asserts that it is.
GetR6Abort ==
  /\ Parsing(6) /\ ~Untyped
  /\ Len(rbuf) < BodyLength(data_buffer, ChunkSize, SeparatorLength(channel_id))
  /\ ReceiverAbort

GetR6Untyped ==
  /\ Parsing(6) /\ Untyped
  /\ Len(rbuf) >= 4 /\ data_buffer >= 4
  /\ pac' = Returned(channels_in[channel_id], SubSeq(rbuf, 1, 4))
  /\ Consume(4)
  /\ UNCHANGED << parser, channels_in, aborted >>
  /\ ParserFrame

GetR6UntypedShort == Parsing(6) /\ Untyped /\ NeedMore(4)

\* rtmp_fwb_write asserts that four bytes fit.
GetR6UntypedAbort ==
  Parsing(6) /\ Untyped /\ Len(rbuf) >= 4 /\ data_buffer < 4 /\ ReceiverAbort

\* Broken: the parser is not reset after the callback.
OnPacketNoReset ==
  /\ "receiver" \notin aborted /\ pac # << >>
  /\ delivered' = Append(delivered, pac[1])
  /\ pac' = << >>
  /\ UNCHANGED << sender, taken, feeding, reader, parser, last_data, channels_in,
                  aborted >>

\* The callback, then rtmp_packet_reset and rt_pool_reset.
OnPacket ==
  /\ "receiver" \notin aborted /\ pac # << >>
  /\ delivered' = Append(delivered, pac[1])
  /\ pac' = << >>
  /\ state' = 0 /\ packet_mask' = 0 /\ channel_id' = 0 /\ data_buffer' = 0
  /\ UNCHANGED << sender, taken, feeding, reader, last_data, channels_in, aborted >>

\* The feed loop ends; what it could not use is kept.
FeedReturn ==
  /\ Parsing(0)
  /\ rbuf = << >> \/ need_more > 0
  /\ feeding' = FALSE
  /\ rbuf' = << >> /\ need_more' = 0
  /\ last_data' = IF need_more > 0 THEN rbuf ELSE last_data
  /\ UNCHANGED << sender, taken, parser, channels_in, pac, aborted, delivered >>

Parse ==
  \/ StartReceive \/ GetR1
  \/ GetR2 \/ GetR2Short
  \/ GetR3 \/ GetR3Abort
  \/ GetR4 \/ GetR4Short \/ GetR4Abort \/ GetR4Astray
  \/ GetR5 \/ GetR5Short
  \/ GetR6 \/ GetR6Abort \/ GetR6Untyped \/ GetR6UntypedShort \/ GetR6UntypedAbort
  \/ OnPacket \/ FeedReturn

Read == \E n \in 1 .. BufSize : Receive(n)

Next == \/ \E s \in Sends : Send(s) \/ SendAbort(s)
        \/ Read
        \/ Parse

(***************************************************************************)
(* The event loop calls receiveData as long as the socket is readable, and *)
(* the parser runs until it returns.  Nobody has to send.                  *)
(***************************************************************************)
Spec == Init /\ [][Next]_vars /\ WF_vars(Read) /\ WF_vars(Parse)

-----------------------------------------------------------------------------
(* What a caller has to keep to, as the callers in the repository do.      *)

(***************************************************************************)
(* The packet is sent from the callback of a packet of its own channel, it *)
(* has a type, it is small enough to be read, and if it takes more than    *)
(* one chunk its chunks have the size the receiver expects.  The timer     *)
(* that is written is not the one that announces four more bytes.          *)
(***************************************************************************)
Framed(s, written) ==
  /\ s.rx = s.pac.channel_id /\ s.rx \in {2, 3}
  /\ s.pac.data_type # 0
  /\ Len(s.pac.data) < LargeSize
  /\ s.chunk # ChunkSize => Len(s.pac.data) <= s.chunk /\ Len(s.pac.data) <= ChunkSize
  /\ MediumInt(written) # MediumInt(ExtendedTimer)

\* Besides, its header survives the trip.
Disciplined(s) ==
  /\ Framed(s, s.pac.timer)
  /\ ~s.relative /\ s.pac.timer < ExtendedTimer /\ s.pac.stream_id = 0

\* The first n calls, as far as they were made, were disciplined, and written whole.
Clean(n) == \A i \in 1 .. Len(log) : i <= n => Disciplined(log[i].call) /\ log[i].whole

\* The packet received is the packet sent.
Same(d, p) ==
  /\ d.channel_id = p.channel_id
  /\ d.data = p.data
  /\ d.channel = [used |-> 1, timer |-> p.timer, size |-> Len(p.data),
                  data_type |-> p.data_type, stream_id |-> p.stream_id]

\* Where in the stream the n-th packet ends, and the sender's table there.
EndOf(n)    == IF n = 0 THEN 0 ELSE log[n].end
TableAt(n)  == IF n = 0 THEN InitChannels ELSE log[n].channels

\* The timer that the n-th call writes, if it writes one.
TimerAt(n) ==
  LET s == log[n].call
  IN s.pac.timer - IF s.relative THEN OutChannel(TableAt(n - 1)[s.pac.channel_id]).timer ELSE 0

\* The first n calls keep the stream in frames, whatever their timers and streams.
FramedUpTo(n) ==
  \A i \in 1 .. Len(log) : i <= n => Framed(log[i].call, TimerAt(i)) /\ log[i].whole

-----------------------------------------------------------------------------
(* Properties.                                                             *)

Channel == [used : {0, 1}, timer : Int, size : Nat, data_type : Byte,
            stream_id : Int]
Received == [channel_id : 0 .. NumChannels - 1, channel : Channel,
             data : Seq(Byte)]
Channels == [0 .. NumChannels - 1 -> Channel]

SenderOK ==
  /\ channels_out \in Channels /\ stream \in Seq(Byte)
  /\ log \in Seq([call : Call, channels : Channels, end : Nat, whole : BOOLEAN])

ReaderOK ==
  /\ taken \in 0 .. Len(stream)
  /\ feeding \in BOOLEAN /\ rbuf \in Seq(Byte) /\ need_more \in Nat
  /\ last_data \in Seq(Byte)

ParserOK ==
  /\ state \in 0 .. 6 /\ packet_mask \in 0 .. 3
  /\ channel_id \in Int /\ data_buffer \in Nat
  /\ channels_in \in Channels
  /\ state = 1 => rbuf # << >>
  /\ state = 4 => channel_id < NumChannels
  /\ state > 4 => ChannelUsed

\* No packet, or one.
Pending(p) == p \in Seq(Received) /\ Len(p) <= 1

DeliveryOK ==
  /\ Pending(pac)
  /\ delivered \in Seq(Received)
  /\ aborted \subseteq {"sender", "receiver", "astray"}

\* The variables have their types; the parser holds a byte for r1, and a channel that is
\* in use from r5 on, unless it went astray in r4.
TypeOK == SenderOK /\ ReaderOK /\ ParserOK /\ DeliveryOK

\* Of disciplined calls the receiver gets exactly the packets, in order, however
\* the transport cuts the stream: what it cannot parse it never delivers.
DeliveredMatches ==
  \A i \in 1 .. Len(delivered) :
    Clean(i) => i <= Len(log) /\ Same(delivered[i], log[i].call.pac)

\* Relative timers, timers of more than three bytes and stream ids do not survive the
\* trip; of calls that keep the stream in frames the receiver still gets every packet on
\* its channel, with its type and its data, in order.
DataArrives ==
  \A i \in 1 .. Len(delivered) :
    FramedUpTo(i) =>
      /\ i <= Len(log)
      /\ delivered[i].channel_id = log[i].call.pac.channel_id
      /\ delivered[i].channel.data_type = log[i].call.pac.data_type
      /\ delivered[i].data = log[i].call.pac.data

\* As long as calls keep the stream in frames, no data and no separator is taken for the
\* header of a negative channel, which would lead the receiver out of its channel table
\* (rtmp_proto_get_channel, protocol.c:479-485).
StaysInTable == FramedUpTo(Len(delivered) + 1) => "astray" \notin aborted

\* Between two packets the receiver's channel table is the one the sender had
\* when it wrote the next header: compression and expansion never drift apart.
TablesAgree ==
  state = 0 /\ pac = << >> /\ Clean(Len(delivered))
    => channels_in = TableAt(Len(delivered))

\* rtmp_proto_feed returns only on a packet boundary, with nothing left over:
\* the bytes kept for the next feed are never any.
ReturnsOnBoundary ==
  ~feeding => /\ rbuf = << >> /\ last_data = << >>
              /\ Clean(Len(delivered)) => taken = EndOf(Len(delivered))

\* The data of a packet has the announced size, or is four bytes when the packet
\* has no type, or the packet is marked invalid.
Whole(d) ==
  \/ Len(d.data) = d.channel.size
  \/ d.channel.data_type = 0 /\ Len(d.data) = 4
  \/ d.channel.data_type = PAC_INVALID

\* A packet is delivered whole or not at all, whatever was sent and however it was
\* cut: a body that is not all there is never passed on as far as it goes.
WholePackets == \A i \in 1 .. Len(delivered) : Whole(delivered[i])

\* Inductive: the body buffer is as large as the header says, and the packet about
\* to be delivered is whole.
WholeInv ==
  /\ TypeOK
  /\ state = 6 => data_buffer = channels_in[channel_id].size
  /\ pac # << >> => Whole(pac[1])
  /\ WholePackets

\* The receiver hangs for want of bytes, or fails an assertion.
Stuck == need_more > 0 \/ "receiver" \in aborted

\* Disciplined traffic stops the receiver only when a read ended inside a packet.
StuckOnlyWhenCut ==
  Stuck /\ Clean(Len(log)) => \A i \in 0 .. Len(log) : taken # EndOf(i)

\* When reads end on packet boundaries nobody hangs and no assertion fails.
NeverStuck == ~Stuck /\ aborted = {}

\* rtmp_rb_read_e is called for no more bytes than there are (buffer.c:50).
\* Checked where no other assertion of the receiver can fail.
NoReadPastEnd == "receiver" \notin aborted

\* A packet arrives on the channel it was sent on, as the older version of the
\* header writer, kept in a comment (packet.c:350-362), made sure of.
ChannelKept ==
  \A i \in 1 .. Len(delivered) :
    i <= Len(log) => delivered[i].channel_id = log[i].call.pac.channel_id

\* The connection implements the queue of packets it is meant to be.
ReceivedPacket(d) ==
  [channel_id |-> d.channel_id, timer |-> d.channel.timer,
   data_type |-> d.channel.data_type, stream_id |-> d.channel.stream_id,
   data |-> d.data]
Queue == INSTANCE PacketQueue WITH
           Packets   <- { s.pac : s \in Sends },
           accepted  <- [i \in 1 .. Len(log) |-> log[i].call.pac],
           delivered <- [i \in 1 .. Len(delivered) |-> ReceivedPacket(delivered[i])]
Refines == Queue!Spec

=============================================================================
