------------------------- MODULE ChunkStreamProofs -------------------------
(***************************************************************************)
(* Theorems about the chunk stream, for every set of calls and every way   *)
(* to cut the stream: its variables keep their types, and packets are      *)
(* delivered whole or not at all.  The second half is about the whole way of a       *)
(* packet, from the call that sends it to the callback that gets it, and   *)
(* joins the round trips of PacketHeaderProofs, which are about one header *)
(* and one body, with the states of the two ends.  There LinkInv follows   *)
(* disciplined calls, of which whole headers arrive; FrameInv follows      *)
(* those of which only the sizes and the types have to agree, as           *)
(* DataArrives and StaysInTable need no more.                              *)
(***************************************************************************)
EXTENDS ChunkStream, PacketHeaderProofs, SequenceTheorems

-----------------------------------------------------------------------------
(* The constants.                                                          *)

\* The sizes are numbers, and the channel table has at most 64 entries.
LEMMA Sizes == /\ NumChannels \in Nat /\ 4 <= NumChannels /\ NumChannels <= 64
               /\ ChunkSize \in Nat \ {0} /\ BufSize \in Nat \ {0}
  BY SizesAssumption DEF SizesAssumption

\* A call has the fields of one.
LEMMA CallTypes ==
  ASSUME NEW s \in Sends
  PROVE  /\ s \in Call /\ s.rx \in Nat /\ s.rx < NumChannels
         /\ s.pac \in Packet /\ s.chunk \in Nat \ {0}
         /\ s.pac.channel_id \in 0 .. NumChannels - 1
         /\ s.pac.timer \in Nat /\ s.pac.data_type \in Byte
         /\ s.pac.stream_id \in Nat /\ s.pac.data \in Seq(Byte)
<1>1. s \in Call
  BY SendsAssumption DEF SendsAssumption
<1>2. s.rx \in 0 .. NumChannels - 1 /\ s.pac \in Packet /\ s.chunk \in Nat \ {0}
  BY <1>1 DEF Call
<1> QED BY <1>1, <1>2, Sizes DEF Packet

-----------------------------------------------------------------------------
(* Types of the codec.                                                     *)

\* Part of a sequence is one.
LEMMA SubSeqType ==
  ASSUME NEW S, NEW s \in Seq(S), NEW m \in Nat \ {0}, NEW n \in Nat, n <= Len(s)
  PROVE  SubSeq(s, m, n) \in Seq(S)
<1>1. \A i \in m .. n : s[i] \in S
  OBVIOUS
<1> QED BY <1>1, SubSeqProperties

\* What is consumed leaves a sequence.
LEMMA ConsumeType ==
  ASSUME rbuf \in Seq(Byte), need_more \in Nat, NEW n \in Nat, Consume(n)
  PROVE  rbuf' \in Seq(Byte) /\ need_more' \in Nat
<1>1. n + 1 \in Nat \ {0} /\ Len(rbuf) \in Nat /\ Len(rbuf) <= Len(rbuf)
  OBVIOUS
<1>2. SubSeq(rbuf, n + 1, Len(rbuf)) \in Seq(Byte)
  BY <1>1, SubSeqType
<1> QED BY <1>2 DEF Consume

\* Numbers read from bytes.
LEMMA NumbersRead ==
  ASSUME NEW b \in Seq(Byte), NEW i \in Nat \ {0}
  PROVE  /\ i + 2 <= Len(b) => ReadMediumInt(b, i) \in Nat
         /\ i + 3 <= Len(b) => ReadInt(b, i) \in Int
         /\ i + 1 <= Len(b) => ReadShort(b, i) \in Int
<1>1. ASSUME NEW j \in Nat, 1 <= j, j <= Len(b) PROVE b[j] \in Nat
  <2>1. b[j] \in Byte
    BY <1>1
  <2>2. Byte \subseteq Nat
    BY DEF Byte
  <2> QED BY <2>1, <2>2
<1>2. ASSUME NEW c \in Nat PROVE Signed(c) \in Int
  BY DEF Signed
<1>3. ASSUME i + 2 <= Len(b) PROVE ReadMediumInt(b, i) \in Nat
  <2>1. b[i] \in Nat /\ b[i + 1] \in Nat /\ b[i + 2] \in Nat
    BY <1>1, <1>3
  <2> QED BY <2>1 DEF ReadMediumInt
<1>4. ASSUME i + 3 <= Len(b) PROVE ReadInt(b, i) \in Int
  <2>1. b[i] \in Nat /\ b[i + 1] \in Nat /\ b[i + 2] \in Nat /\ b[i + 3] \in Nat
    BY <1>1, <1>4
  <2>2. Signed(b[i]) \in Int
    BY <1>2, <2>1
  <2> DEFINE c == Signed(b[i])
             d == b[i + 1]
             e == b[i + 2]
             f == b[i + 3]
  <2>3. ReadInt(b, i) = ((c * 256 + d) * 256 + e) * 256 + f
    BY DEF ReadInt
  <2>4. c \in Int /\ d \in Int /\ e \in Int /\ f \in Int
    BY <2>1, <2>2
  <2> HIDE DEF c, d, e, f
  <2>5. ((c * 256 + d) * 256 + e) * 256 + f \in Int
    BY <2>4
  <2> QED BY <2>3, <2>5, Zenon
<1>5. ASSUME i + 1 <= Len(b) PROVE ReadShort(b, i) \in Int
  <2>1. b[i] \in Nat /\ b[i + 1] \in Nat
    BY <1>1, <1>5
  <2>2. Signed(b[i]) \in Int
    BY <1>2, <2>1
  <2> QED BY <2>1, <2>2 DEF ReadShort
<1> QED BY <1>3, <1>4, <1>5

\* What a receiver remembers of a channel, if the bytes are there.
LEMMA ReadChannelType ==
  ASSUME NEW ch \in Channel, NEW mask \in 0 .. 3, NEW b \in Seq(Byte),
         Len(b) >= HeaderLength(mask)
  PROVE  ReadChannel(ch, mask, b) \in Channel /\ ReadChannel(ch, mask, b).used = ch.used
<1> USE DEF HeaderLength, ReadChannel, CHANNEL_NEW, CHANNEL_SAME_SOURCE,
            CHANNEL_TIMER_CHANGE
<1>1. CASE mask = 0
  <2>1. /\ ReadMediumInt(b, 1) \in Nat /\ ReadMediumInt(b, 4) \in Nat
        /\ ReadInt(b, 8) \in Int /\ b[7] \in Byte
    BY <1>1, NumbersRead
  <2> QED BY <1>1, <2>1 DEF Channel
<1>2. CASE mask = 1
  <2>1. /\ ReadMediumInt(b, 1) \in Nat /\ ReadMediumInt(b, 4) \in Nat
        /\ b[7] \in Byte
    BY <1>2, NumbersRead
  <2> QED BY <1>2, <2>1 DEF Channel
<1>3. CASE mask = 2
  <2>1. ReadMediumInt(b, 1) \in Nat
    BY <1>3, NumbersRead
  <2> QED BY <1>3, <2>1 DEF Channel
<1>4. CASE mask = 3
  BY <1>4
<1> QED BY <1>1, <1>2, <1>3, <1>4

\* What a sender remembers of one.
LEMMA WrittenChannelType ==
  ASSUME NEW ch \in Channel, NEW s \in Sends, NEW mask \in 0 .. 3
  PROVE  WrittenChannel(OutChannel(ch), s.pac, mask) \in Channel
<1>1. OutChannel(ch) \in Channel
  BY DEF OutChannel, InitChannel, Channel, Byte
<1>2. Len(s.pac.data) \in Nat /\ s.pac.timer \in Int /\ s.pac.stream_id \in Int
      /\ s.pac.data_type \in Byte
  BY CallTypes
<1> QED
  BY <1>1, <1>2 DEF WrittenChannel, Channel, CHANNEL_NEW, CHANNEL_SAME_SOURCE,
                    CHANNEL_TIMER_CHANGE

\* What it writes is bytes.
LEMMA EncodeType ==
  ASSUME NEW ch \in Channel, NEW s \in Sends, CanWriteHeader(s.rx)
  PROVE  Encode(s, ch) \in Seq(Byte)
<1> DEFINE mask   == PacketMask(ch, s.pac)
           dtime  == s.pac.timer - (IF s.relative THEN OutChannel(ch).timer ELSE 0)
           basic  == HeaderBytes(s.rx, mask)
           fields == HeaderFields(s.pac, mask, dtime)
           sep    == HeaderBytes(s.rx, CHANNEL_CONTINUE)
           body   == Chunked(s.pac.data, s.chunk, sep)
<1>1. mask \in 0 .. 3 /\ CHANNEL_CONTINUE \in 0 .. 3
  BY MaskBits DEF CHANNEL_CONTINUE
<1>2. s.rx \in 2 .. 63
  <2>1. s.rx \in Nat /\ 2 <= s.rx /\ s.rx <= 63
    <3>1. s.rx \in Nat /\ s.rx < NumChannels /\ s.rx >= 2
      BY CallTypes DEF CanWriteHeader
    <3> QED BY <3>1, Sizes
  <2> QED BY <2>1
<1>3. basic \in Seq(Byte) /\ sep \in Seq(Byte)
  BY <1>1, <1>2, BasicHeaderByte
<1>4. fields \in Seq(Byte)
  <2>1. OutChannel(ch).timer \in Int
    BY DEF OutChannel, InitChannel, Channel
  <2>2. dtime \in Int
    BY <2>1, CallTypes
  <2>3. s.pac.data_type \in Byte /\ s.pac.stream_id \in Int /\ Len(s.pac.data) \in Nat
    BY CallTypes
  <2> HIDE DEF mask, dtime
  <2> QED BY <1>1, <2>2, <2>3, FieldBytes
<1>5. body \in Seq(Byte)
  BY <1>3, CallTypes, ChunkedType
<1> HIDE DEF basic, fields, sep, body
<1>6. basic \o fields \o body \in Seq(Byte)
  BY <1>3, <1>4, <1>5
<1> QED BY <1>6 DEF Encode, basic, fields, sep, body, mask, dtime

\* So is the part of it that the socket takes.
LEMMA TakenType ==
  ASSUME TypeOK, NEW bytes \in Seq(Byte)
  PROVE  Taken(bytes) \in Seq(Byte)
<1> DEFINE space == SocketSpace + taken - Len(stream)
<1>1. space \in Int
  BY SizesAssumption DEF SizesAssumption, TypeOK, SenderOK, ReaderOK
<1>2. CASE Len(bytes) <= space
  BY <1>2 DEF Taken
<1>3. CASE ~(Len(bytes) <= space) /\ space > 0
  <2> HIDE DEF space
  <2>1. space \in Nat /\ space <= Len(bytes)
    BY <1>1, <1>3
  <2>2. SubSeq(bytes, 1, space) \in Seq(Byte)
    BY <2>1, SubSeqType
  <2> QED BY <1>3, <2>2 DEF Taken, space
<1>4. CASE ~(Len(bytes) <= space) /\ ~(space > 0)
  BY <1>4 DEF Taken
<1> QED BY <1>2, <1>3, <1>4

\* The body of a packet, if it is there.
LEMMA UnchunkedType ==
  ASSUME NEW S, NEW b \in Seq(S), NEW size \in Nat, NEW chunk \in Nat \ {0},
         Len(b) >= BodyLength(size, chunk, 1)
  PROVE  /\ Unchunked(b, size, chunk, 1) \in Seq(S)
         /\ Len(Unchunked(b, size, chunk, 1)) = size
         /\ BodyLength(size, chunk, 1) \in Nat
<1> DEFINE n     == FullChunks(size, chunk, 1)
           g(k)  == (k - 1) \div chunk
           at(k) == k + (IF g(k) < n THEN g(k) ELSE n) * 1
<1>1. n \in Nat
  <2>1. CASE size < chunk + 1
    BY <2>1 DEF FullChunks
  <2>2. CASE size >= chunk + 1
    <3>1. size - 1 \in Nat /\ chunk > 0
      BY <2>2
    <3>2. (size - 1) \div chunk \in Nat
      BY <3>1, DivNat
    <3> QED BY <2>2, <3>2 DEF FullChunks
  <2> QED BY <2>1, <2>2
<1>2. BodyLength(size, chunk, 1) = size + n /\ size + n <= Len(b)
  <2>1. BodyLength(size, chunk, 1) = size + n * 1
    BY DEF BodyLength
  <2> HIDE DEF n
  <2> QED BY <1>1, <2>1
<1>3. ASSUME NEW k \in 1 .. size PROVE b[at(k)] \in S
  <2>1. g(k) \in Nat
    BY DivNat
  <2> HIDE DEF n, g
  <2>2. at(k) \in 1 .. Len(b)
    BY <1>1, <1>2, <2>1
  <2> QED BY <2>2
<1>4. Unchunked(b, size, chunk, 1) = [k \in 1 .. size |-> b[at(k)]]
  BY DEF Unchunked
<1> HIDE DEF at
<1>5. /\ [k \in 1 .. size |-> b[at(k)]] \in Seq(S)
      /\ Len([k \in 1 .. size |-> b[at(k)]]) = size
  BY <1>3
<1> HIDE DEF n
<1> QED BY <1>1, <1>2, <1>4, <1>5

-----------------------------------------------------------------------------
(* Type correctness.                                                       *)

\* A pending packet is none or one.
LEMMA PendingShape ==
  ASSUME NEW p, Pending(p)
  PROVE  p = << >> \/ \E d \in Received : p = << d >>
<1>1. p \in Seq(Received) /\ Len(p) \in Nat /\ Len(p) <= 1
  BY LenProperties DEF Pending
<1>2. SUFFICES ASSUME p # << >> PROVE \E d \in Received : p = << d >>
  OBVIOUS
<1>3. Len(p) \in Nat \ {0}
  BY <1>1, <1>2, EmptySeq
<1>4. Len(p) = 1
  <2>1. \A n \in Nat \ {0} : n <= 1 => n = 1
    OBVIOUS
  <2> QED BY <1>1, <1>3, <2>1, Zenon
<1>5. p[1] \in Received
  <2>1. 1 \in 1 .. Len(p)
    BY <1>4
  <2> QED BY <1>1, <2>1, ElementOfSeq
<1>6. p = << p[1] >>
  <2> DEFINE e == p[1]
             q == << e >>
  <2>1. q \in Seq(Received) /\ Len(q) = 1 /\ q[1] = e
    BY <1>5
  <2>2. \A i \in 1 .. Len(p) : p[i] = q[i]
    BY <1>4, <2>1
  <2> HIDE DEF q
  <2>3. p = q
    BY <1>1, <1>4, <2>1, <2>2, SeqEqual
  <2> QED BY <2>3 DEF q
<1> QED BY <1>5, <1>6

\* An element of a channel table.
LEMMA TableEntry ==
  ASSUME NEW t \in Channels, NEW c \in 0 .. NumChannels - 1
  PROVE  t[c] \in Channel
  BY DEF Channels

\* A fresh connection is well typed.
LEMMA InitTypeOK == Init => TypeOK
<1> SUFFICES ASSUME Init PROVE TypeOK
  OBVIOUS
<1>1. InitChannels \in Channels
  <2>1. ASSUME NEW c PROVE IF c <= 3 THEN InitChannel \in Channel
                                     ELSE [InitChannel EXCEPT !.used = 0] \in Channel
    BY DEF InitChannel, Channel, Byte
  <2> QED BY <2>1 DEF InitChannels, Channels
<1>2. SenderOK
  BY <1>1 DEF Init, SenderOK
<1>3. ReaderOK
  <2>1. << >> \in Seq(Byte) /\ Len(<< >>) = 0 /\ 0 \in 0 .. 0
    OBVIOUS
  <2>2. taken \in 0 .. Len(stream)
    BY <2>1, Zenon DEF Init
  <2> QED BY <2>1, <2>2 DEF Init, ReaderOK
<1>4. ParserOK
  BY <1>1 DEF Init, ParserOK
<1>5. DeliveryOK
  <2>1. Pending(<< >>)
    BY EmptySeq DEF Pending
  <2> QED BY <2>1 DEF Init, DeliveryOK
<1> QED BY <1>2, <1>3, <1>4, <1>5 DEF TypeOK

\* rtmp_proto_send_packet keeps the types.
LEMMA SendTypeOK ==
  ASSUME TypeOK, NEW s \in Sends, Send(s)
  PROVE  TypeOK'
<1> DEFINE p    == s.pac
           ch   == channels_out[p.channel_id]
           mask == PacketMask(ch, p)
<1>1. ch \in Channel /\ p.channel_id \in 0 .. NumChannels - 1
  BY CallTypes, TableEntry DEF TypeOK, SenderOK
<1>2. WrittenChannel(OutChannel(ch), p, mask) \in Channel
  BY <1>1, MaskBits, WrittenChannelType
<1>3. channels_out' \in Channels
  BY <1>1, <1>2 DEF Send, TypeOK, SenderOK, Channels
<1>4. Taken(Encode(s, ch)) \in Seq(Byte)
  BY <1>1, EncodeType, TakenType DEF Send
<1>5. stream' \in Seq(Byte) /\ Len(stream) <= Len(stream') /\ Len(stream') \in Nat
  <2>1. stream' = stream \o Taken(Encode(s, ch)) /\ stream \in Seq(Byte)
    BY DEF Send, TypeOK, SenderOK
  <2> QED BY <1>4, <2>1
<1>6. log' \in Seq([call : Call, channels : Channels, end : Nat, whole : BOOLEAN])
  <2> DEFINE e == [call |-> s, channels |-> channels_out', end |-> Len(stream'),
                   whole |-> Taken(Encode(s, ch)) = Encode(s, ch)]
  <2>1. e \in [call : Call, channels : Channels, end : Nat, whole : BOOLEAN]
    BY <1>3, <1>5, CallTypes
  <2>2. log' = Append(log, e)
    BY DEF Send
  <2> HIDE DEF e
  <2> QED BY <2>1, <2>2, AppendProperties DEF TypeOK, SenderOK
<1>7. SenderOK'
  BY <1>3, <1>5, <1>6 DEF SenderOK
<1>8. ReaderOK'
  BY <1>5 DEF TypeOK, SenderOK, ReaderOK, Send, reader
<1>9. ParserOK' /\ DeliveryOK'
  BY DEF TypeOK, ParserOK, DeliveryOK, ChannelUsed, Send, parser, reader
<1> QED BY <1>7, <1>8, <1>9 DEF TypeOK

\* So does its failed assertion.
LEMMA SendAbortTypeOK ==
  ASSUME TypeOK, NEW s \in Sends, SendAbort(s)
  PROVE  TypeOK'
<1>1. SenderOK' /\ ReaderOK' /\ ParserOK'
  BY DEF TypeOK, SenderOK, ReaderOK, ParserOK, ChannelUsed, SendAbort, sender, parser,
         reader
<1>2. DeliveryOK'
  BY DEF TypeOK, DeliveryOK, SendAbort
<1> QED BY <1>1, <1>2 DEF TypeOK

\* A read fills the buffer with bytes of the stream, at least one.
LEMMA ReceiveTypeOK ==
  ASSUME TypeOK, NEW n \in 1 .. BufSize, Receive(n)
  PROVE  TypeOK'
<1>1. /\ n \in Nat /\ n >= 1 /\ taken \in Nat /\ taken + n <= Len(stream)
      /\ stream \in Seq(Byte) /\ last_data \in Seq(Byte) /\ Len(stream) \in Nat
  BY DEF Receive, TypeOK, SenderOK, ReaderOK
<1> DEFINE got == SubSeq(stream, taken + 1, taken + n)
<1>2. got \in Seq(Byte) /\ Len(got) = n
  <2>1. \A i \in taken + 1 .. taken + n : stream[i] \in Byte
    BY <1>1
  <2>2. /\ taken + 1 \in Int /\ taken + n \in Int /\ taken + 1 <= taken + n
        /\ (taken + n) - (taken + 1) + 1 = n
    BY <1>1
  <2> QED BY <2>1, <2>2, SubSeqProperties
<1>3. rbuf' = SubSeq(last_data \o got, 1, n)
  BY DEF Receive
<1> HIDE DEF got
<1>4. /\ last_data \o got \in Seq(Byte) /\ n <= Len(last_data \o got)
  BY <1>1, <1>2
<1>5. rbuf' \in Seq(Byte)
  BY <1>1, <1>3, <1>4, SubSeqType
<1>6. ReaderOK'
  BY <1>1, <1>5 DEF ReaderOK, Receive, sender
<1>7. SenderOK' /\ DeliveryOK'
  BY DEF TypeOK, SenderOK, DeliveryOK, Receive, sender
<1>8. ParserOK'
  <2>1. state = 1 => rbuf' # << >>
    <3>1. \A i \in 1 .. n : (last_data \o got)[i] \in Byte
      BY <1>1, <1>4
    <3>2. Len(rbuf') = n
      BY <1>1, <1>3, <3>1, SubSeqProperties
    <3> QED BY <1>1, <3>2
  <2> QED BY <2>1 DEF TypeOK, ParserOK, ChannelUsed, Receive, parser
<1> QED BY <1>6, <1>7, <1>8 DEF TypeOK

\* A step of the parser has to keep the types of what it changes.
LEMMA ParserFrameOK ==
  ASSUME TypeOK, ParserFrame, rbuf' \in Seq(Byte), need_more' \in Nat, ParserOK',
         Pending(pac'),
         aborted' \subseteq {"sender", "receiver", "astray"}
  PROVE  TypeOK'
<1>1. SenderOK' /\ ReaderOK'
  BY DEF TypeOK, SenderOK, ReaderOK, ParserFrame, sender
<1>2. DeliveryOK'
  BY DEF TypeOK, DeliveryOK, ParserFrame
<1> QED BY <1>1, <1>2 DEF TypeOK

\* A failed assertion of the receiver keeps the types.
LEMMA ReceiverAbortTypeOK == ASSUME TypeOK, ReceiverAbort PROVE TypeOK'
<1>1. ParserOK' /\ rbuf' \in Seq(Byte) /\ need_more' \in Nat
  BY DEF TypeOK, ParserOK, ReaderOK, ChannelUsed, ReceiverAbort, reader, parser
<1>2. /\ Pending(pac')
      /\ aborted' \subseteq {"sender", "receiver", "astray"}
  BY DEF TypeOK, DeliveryOK, ReceiverAbort
<1> QED BY <1>1, <1>2, ParserFrameOK DEF ReceiverAbort

\* So does a receiver that goes astray, as far as it is modelled.
LEMMA GetR4AstrayTypeOK == ASSUME TypeOK, GetR4Astray PROVE TypeOK'
<1>1. ParserOK' /\ rbuf' \in Seq(Byte) /\ need_more' \in Nat
  BY DEF TypeOK, ParserOK, ReaderOK, ChannelUsed, GetR4Astray, reader, parser
<1>2. /\ Pending(pac')
      /\ aborted' \subseteq {"sender", "receiver", "astray"}
  BY DEF TypeOK, DeliveryOK, GetR4Astray
<1> QED BY <1>1, <1>2, ParserFrameOK DEF GetR4Astray

\* A state function that wants more bytes keeps the types.
LEMMA NeedMoreTypeOK == ASSUME TypeOK, NEW n \in Nat, NeedMore(n) PROVE TypeOK'
<1>1. rbuf' \in Seq(Byte) /\ need_more' \in Nat
  BY DEF TypeOK, ReaderOK, NeedMore
<1>2. ParserOK'
  BY DEF TypeOK, ParserOK, ChannelUsed, NeedMore, parser
<1>3. /\ Pending(pac')
      /\ aborted' \subseteq {"sender", "receiver", "astray"}
  BY DEF TypeOK, DeliveryOK, NeedMore
<1> QED BY <1>1, <1>2, <1>3, ParserFrameOK DEF NeedMore

\* r0 is entered with a byte to read.
LEMMA StartReceiveTypeOK == ASSUME TypeOK, StartReceive PROVE TypeOK'
<1>1. ParserOK' /\ rbuf' \in Seq(Byte) /\ need_more' \in Nat
  BY DEF TypeOK, ParserOK, ReaderOK, ChannelUsed, StartReceive, reader
<1>2. /\ Pending(pac')
      /\ aborted' \subseteq {"sender", "receiver", "astray"}
  BY DEF TypeOK, DeliveryOK, StartReceive
<1> QED BY <1>1, <1>2, ParserFrameOK DEF StartReceive

\* r1 splits a byte in two bits of mask and a channel id.
LEMMA GetR1TypeOK == ASSUME TypeOK, GetR1 PROVE TypeOK'
<1>1. rbuf' \in Seq(Byte) /\ need_more' \in Nat
  BY ConsumeType DEF TypeOK, ReaderOK, GetR1
<1>2. rbuf[1] \div 64 \in 0 .. 3 /\ rbuf[1] % 64 \in Int
  <2>1. rbuf[1] \in Byte
    BY DEF TypeOK, ReaderOK, ParserOK, GetR1, Parsing
  <2>2. \A e \in Byte : e \in Int /\ 0 <= e /\ e < 256
    BY DEF Byte
  <2> DEFINE e == rbuf[1]
  <2>3. e \in Int /\ 0 <= e /\ e < 256
    BY <2>1, <2>2
  <2> HIDE DEF e
  <2>4. /\ e \div 64 \in Int /\ e % 64 \in Int /\ 0 <= e % 64 /\ e % 64 < 64
        /\ e = 64 * (e \div 64) + (e % 64)
    BY <2>3, DivMod
  <2>5. 0 <= e \div 64 /\ e \div 64 <= 3
    BY <2>3, <2>4
  <2>6. e \div 64 \in 0 .. 3 /\ e % 64 \in Int
    BY <2>4, <2>5
  <2> QED BY <2>6, Zenon DEF e
<1>3. ParserOK'
  BY <1>2 DEF TypeOK, ParserOK, ChannelUsed, GetR1
<1>4. /\ Pending(pac')
      /\ aborted' \subseteq {"sender", "receiver", "astray"}
  BY DEF TypeOK, DeliveryOK, GetR1
<1> QED BY <1>1, <1>3, <1>4, ParserFrameOK DEF GetR1

\* r2 leaves a number for a channel id.
LEMMA GetR2TypeOK == ASSUME TypeOK, GetR2 PROVE TypeOK'
<1>1. IdLength \in {0, 1, 2}
  BY DEF IdLength
<1>2. rbuf' \in Seq(Byte) /\ need_more' \in Nat
  BY <1>1, ConsumeType DEF TypeOK, ReaderOK, GetR2
<1>3. channel_id' \in Int
  <2>1. CASE IdLength = 0
    BY <2>1 DEF TypeOK, ParserOK, GetR2
  <2>2. CASE IdLength = 1
    <3>1. rbuf[1] \in Byte
      BY <2>2 DEF TypeOK, ReaderOK, GetR2
    <3>2. \A e \in Byte : 64 + e \in Int
      BY DEF Byte
    <3> QED BY <2>2, <3>1, <3>2 DEF GetR2
  <2>3. CASE IdLength = 2
    <3>1. rbuf \in Seq(Byte) /\ 1 + 1 <= Len(rbuf)
      BY <2>3 DEF TypeOK, ReaderOK, GetR2
    <3>2. 64 + ReadShort(rbuf, 1) \in Int
      BY <3>1, NumbersRead
    <3> QED BY <2>3, <3>2 DEF GetR2
  <2> QED BY <1>1, <2>1, <2>2, <2>3
<1>4. ParserOK'
  BY <1>3 DEF TypeOK, ParserOK, ChannelUsed, GetR2
<1>5. /\ Pending(pac')
      /\ aborted' \subseteq {"sender", "receiver", "astray"}
  BY DEF TypeOK, DeliveryOK, GetR2
<1> QED BY <1>2, <1>4, <1>5, ParserFrameOK DEF GetR2

\* r3 lets only channels of the table pass.
LEMMA GetR3TypeOK == ASSUME TypeOK, GetR3 PROVE TypeOK'
<1>1. ParserOK' /\ rbuf' \in Seq(Byte) /\ need_more' \in Nat
  BY DEF TypeOK, ParserOK, ReaderOK, ChannelUsed, GetR3, reader
<1>2. /\ Pending(pac')
      /\ aborted' \subseteq {"sender", "receiver", "astray"}
  BY DEF TypeOK, DeliveryOK, GetR3
<1> QED BY <1>1, <1>2, ParserFrameOK DEF GetR3

\* A packet of a channel in use can be returned.
LEMMA ReturnedType ==
  ASSUME TypeOK, ChannelUsed, NEW ch \in Channel, NEW data \in Seq(Byte)
  PROVE  Pending(Returned(ch, data))
<1>1. channel_id \in 0 .. NumChannels - 1
  BY DEF TypeOK, ParserOK, ChannelUsed, Channels
<1> DEFINE d == [channel_id |-> channel_id, channel |-> ch, data |-> data]
<1>2. d \in Received
  BY <1>1 DEF Received
<1>3. Returned(ch, data) = << d >>
  BY DEF Returned
<1> HIDE DEF d
<1> QED BY <1>2, <1>3 DEF Pending

\* The lengths of a header, and that of a long timer.
LEMMA Lengths ==
  /\ \A mask \in 0 .. 3 : HeaderLength(mask) \in Nat
  /\ TimerLength \in Nat
  BY DEF HeaderLength, TimerLength, CHANNEL_NEW, CHANNEL_SAME_SOURCE,
         CHANNEL_TIMER_CHANGE

\* r4 stores a channel, or returns a packet that is too large.
LEMMA GetR4TypeOK == ASSUME TypeOK, GetR4 PROVE TypeOK'
<1> DEFINE n  == HeaderLength(packet_mask)
           ch == ReadChannel(channels_in[channel_id], packet_mask, rbuf)
<1>1. /\ rbuf \in Seq(Byte) /\ need_more \in Nat /\ packet_mask \in 0 .. 3
      /\ channels_in \in Channels /\ n <= Len(rbuf)
      /\ channel_id \in 0 .. NumChannels - 1
  BY DEF TypeOK, ParserOK, ReaderOK, GetR4, ChannelUsed, Channels
<1>2. n \in Nat
  BY <1>1, Lengths
<1>3. ch \in Channel /\ ch.used = 1
  BY <1>1, TableEntry, ReadChannelType DEF GetR4, ChannelUsed
<1>4. channels_in' = [channels_in EXCEPT ![channel_id] = ch] /\ channel_id' = channel_id
  BY DEF GetR4
<1>5. channels_in' \in Channels /\ channels_in'[channel_id].used = 1
  BY <1>1, <1>3, <1>4 DEF Channels
<1>6. packet_mask' \in 0 .. 3 /\ data_buffer' \in Nat /\ channel_id' \in Int
  BY DEF TypeOK, ParserOK, GetR4
<1>7. aborted' \subseteq {"sender", "receiver", "astray"}
  BY DEF TypeOK, DeliveryOK, GetR4
<1>8. DOMAIN channels_in' = 0 .. NumChannels - 1
  BY <1>5 DEF Channels
<1>9. CASE ch.size >= LargeSize
  <2> DEFINE bad  == [ch EXCEPT !.data_type = PAC_INVALID]
             data == SubSeq(rbuf, n + 1, Len(rbuf))
  <2>1. /\ state' = state /\ state = 4 /\ Consume(Len(rbuf))
        /\ pac' = Returned(bad, data)
    BY <1>9 DEF GetR4, Parsing
  <2>2. rbuf' \in Seq(Byte) /\ need_more' \in Nat
    BY <1>1, <2>1, ConsumeType
  <2>3. bad \in Channel
    BY <1>3 DEF Channel, PAC_INVALID, Byte
  <2>4. data \in Seq(Byte)
    BY <1>1, <1>2, SubSeqType
  <2>5. Pending(pac')
    BY <2>1, <2>3, <2>4, ReturnedType DEF GetR4
  <2> HIDE DEF n, ch, bad, data
  <2>6. ParserOK'
    <3>1. state' \in 0 .. 6 /\ ~(state' = 1) /\ ~(state' > 4) /\ channel_id' < NumChannels
      BY <1>1, <1>4, <2>1, Sizes
    <3> QED BY <1>5, <1>6, <3>1 DEF ParserOK
  <2> QED BY <1>7, <2>2, <2>5, <2>6, ParserFrameOK DEF GetR4
<1>10. CASE ~(ch.size >= LargeSize)
  <2>1. state' = 5 /\ Consume(n) /\ Pending(pac')
    BY <1>10 DEF TypeOK, DeliveryOK, GetR4
  <2>2. rbuf' \in Seq(Byte) /\ need_more' \in Nat
    BY <1>1, <1>2, <2>1, ConsumeType
  <2>3. ParserOK'
    BY <1>1, <1>4, <1>5, <1>6, <1>8, <2>1 DEF ParserOK, ChannelUsed
  <2> QED BY <1>7, <2>1, <2>2, <2>3, ParserFrameOK DEF GetR4
<1> QED BY <1>9, <1>10

\* r5 allocates a body of the announced size.
LEMMA GetR5TypeOK == ASSUME TypeOK, GetR5 PROVE TypeOK'
<1>1. rbuf' \in Seq(Byte) /\ need_more' \in Nat
  BY Lengths, ConsumeType DEF TypeOK, ReaderOK, GetR5
<1>2. channels_in[channel_id] \in Channel
  BY TableEntry DEF TypeOK, ParserOK, GetR5, Parsing, ChannelUsed, Channels
<1>3. data_buffer' \in Nat
  BY <1>2 DEF GetR5, Channel
<1>4. ParserOK'
  BY <1>3 DEF TypeOK, ParserOK, ChannelUsed, GetR5, Parsing
<1>5. /\ Pending(pac')
      /\ aborted' \subseteq {"sender", "receiver", "astray"}
  BY DEF TypeOK, DeliveryOK, GetR5
<1> QED BY <1>1, <1>4, <1>5, ParserFrameOK DEF GetR5

\* In r6 the channel is one of the table, its basic header one byte long.
LEMMA InTable ==
  ASSUME TypeOK, Parsing(6)
  PROVE  /\ channel_id \in 0 .. NumChannels - 1 /\ ChannelUsed
         /\ channels_in[channel_id] \in Channel
         /\ SeparatorLength(channel_id) = 1
<1>1. channel_id \in 0 .. NumChannels - 1 /\ ChannelUsed
  BY DEF TypeOK, ParserOK, Parsing, ChannelUsed, Channels
<1>2. channels_in[channel_id] \in Channel
  BY <1>1, TableEntry DEF TypeOK, ParserOK
<1>3. channel_id \in Int /\ channel_id <= 63
  BY <1>1, Sizes
<1>4. SeparatorLength(channel_id) = 1
  BY <1>3 DEF SeparatorLength
<1> QED BY <1>1, <1>2, <1>4

\* r6 returns a packet of bytes.
LEMMA GetR6TypeOK == ASSUME TypeOK, GetR6 PROVE TypeOK'
<1> DEFINE n    == BodyLength(data_buffer, ChunkSize, 1)
           data == Unchunked(rbuf, data_buffer, ChunkSize, 1)
<1>1. /\ ChannelUsed /\ channels_in[channel_id] \in Channel
      /\ SeparatorLength(channel_id) = 1
  BY InTable DEF GetR6
<1>2. /\ Len(rbuf) >= n /\ Consume(n) /\ pac' = Returned(channels_in[channel_id], data)
  BY <1>1, Zenon DEF GetR6
<1>3. rbuf \in Seq(Byte) /\ data_buffer \in Nat /\ need_more \in Nat
  BY DEF TypeOK, ReaderOK, ParserOK
<1>4. data \in Seq(Byte) /\ n \in Nat
  BY <1>2, <1>3, Sizes, UnchunkedType
<1> HIDE DEF n, data
<1>5. rbuf' \in Seq(Byte) /\ need_more' \in Nat
  BY <1>2, <1>3, <1>4, ConsumeType
<1>6. Pending(pac')
  BY <1>1, <1>2, <1>4, ReturnedType
<1>7. ParserOK'
  BY DEF TypeOK, ParserOK, ChannelUsed, GetR6, Parsing, parser
<1>8. aborted' \subseteq {"sender", "receiver", "astray"}
  BY DEF TypeOK, DeliveryOK, GetR6
<1> QED BY <1>5, <1>6, <1>7, <1>8, ParserFrameOK DEF GetR6

\* So it does for a packet without a type.
LEMMA GetR6UntypedTypeOK == ASSUME TypeOK, GetR6Untyped PROVE TypeOK'
<1>1. /\ ChannelUsed /\ channels_in[channel_id] \in Channel
  BY InTable DEF GetR6Untyped
<1>2. /\ Consume(4) /\ pac' = Returned(channels_in[channel_id], SubSeq(rbuf, 1, 4))
      /\ Len(rbuf) >= 4
  BY DEF GetR6Untyped
<1>3. rbuf \in Seq(Byte) /\ need_more \in Nat
  BY DEF TypeOK, ReaderOK
<1>4. SubSeq(rbuf, 1, 4) \in Seq(Byte)
  BY <1>2, <1>3, SubSeqType
<1>5. rbuf' \in Seq(Byte) /\ need_more' \in Nat
  BY <1>2, <1>3, ConsumeType
<1>6. Pending(pac')
  BY <1>1, <1>2, <1>4, ReturnedType
<1>7. ParserOK'
  BY DEF TypeOK, ParserOK, ChannelUsed, GetR6Untyped, Parsing, parser
<1>8. aborted' \subseteq {"sender", "receiver", "astray"}
  BY DEF TypeOK, DeliveryOK, GetR6Untyped
<1> QED BY <1>5, <1>6, <1>7, <1>8, ParserFrameOK DEF GetR6Untyped

\* The callback is given the pending packet.
LEMMA OnPacketTypeOK == ASSUME TypeOK, OnPacket PROVE TypeOK'
<1>1. SenderOK' /\ ReaderOK' /\ ParserOK'
  BY DEF TypeOK, SenderOK, ReaderOK, ParserOK, ChannelUsed, OnPacket, sender, reader
<1>2. PICK d \in Received : pac = << d >>
  BY PendingShape DEF TypeOK, DeliveryOK, OnPacket
<1>3. delivered' = Append(delivered, d) /\ delivered \in Seq(Received)
  BY <1>2 DEF TypeOK, DeliveryOK, OnPacket
<1>4. delivered' \in Seq(Received)
  BY <1>3, AppendProperties
<1>5. DeliveryOK'
  <2>1. Pending(<< >>)
    BY EmptySeq DEF Pending
  <2> QED BY <1>4, <2>1 DEF TypeOK, DeliveryOK, OnPacket
<1> QED BY <1>1, <1>5 DEF TypeOK

\* What a feed keeps for the next one is bytes.
LEMMA FeedReturnTypeOK == ASSUME TypeOK, FeedReturn PROVE TypeOK'
<1>1. SenderOK' /\ DeliveryOK'
  BY DEF TypeOK, SenderOK, DeliveryOK, FeedReturn, sender
<1>2. ReaderOK'
  <2>1. << >> \in Seq(Byte) /\ 0 \in Nat
    OBVIOUS
  <2>2. rbuf' \in Seq(Byte) /\ need_more' \in Nat /\ last_data' \in Seq(Byte)
    BY <2>1 DEF TypeOK, ReaderOK, FeedReturn
  <2>3. taken' \in 0 .. Len(stream') /\ feeding' \in BOOLEAN
    BY DEF TypeOK, ReaderOK, FeedReturn, sender
  <2> QED BY <2>2, <2>3 DEF ReaderOK
<1>3. ParserOK'
  BY DEF TypeOK, ParserOK, ChannelUsed, FeedReturn, Parsing, parser
<1> QED BY <1>1, <1>2, <1>3 DEF TypeOK

\* Every step of the receiver's feed keeps the types.
LEMMA ParseTypeOK == ASSUME TypeOK, Parse PROVE TypeOK'
<1>1. IdLength \in Nat /\ HeaderLength(packet_mask) \in Nat /\ TimerLength \in Nat /\ 4 \in Nat
  BY Lengths DEF IdLength, TypeOK, ParserOK
<1>2. CASE GetR2Short BY <1>1, <1>2, NeedMoreTypeOK DEF GetR2Short
<1>3. CASE GetR4Short BY <1>1, <1>3, NeedMoreTypeOK DEF GetR4Short
<1>4. CASE GetR5Short BY <1>1, <1>4, NeedMoreTypeOK DEF GetR5Short
<1>5. CASE GetR6UntypedShort BY <1>1, <1>5, NeedMoreTypeOK DEF GetR6UntypedShort
<1>6. CASE GetR3Abort \/ GetR4Abort \/ GetR6Abort \/ GetR6UntypedAbort
  BY <1>6, ReceiverAbortTypeOK DEF GetR3Abort, GetR4Abort, GetR6Abort, GetR6UntypedAbort
<1> QED
  BY <1>2, <1>3, <1>4, <1>5, <1>6, StartReceiveTypeOK, GetR1TypeOK, GetR2TypeOK,
     GetR3TypeOK, GetR4TypeOK, GetR5TypeOK, GetR6TypeOK, GetR6UntypedTypeOK,
     OnPacketTypeOK, FeedReturnTypeOK, GetR4AstrayTypeOK DEF Parse

\* Every step keeps the types.
LEMMA NextTypeOK == TypeOK /\ [Next]_vars => TypeOK'
<1> SUFFICES ASSUME TypeOK, [Next]_vars PROVE TypeOK'
  OBVIOUS
<1>1. CASE \E s \in Sends : Send(s) \/ SendAbort(s)
  BY <1>1, SendTypeOK, SendAbortTypeOK
<1>2. CASE Read
  BY <1>2, ReceiveTypeOK DEF Read
<1>3. CASE Parse
  BY <1>3, ParseTypeOK
<1>4. CASE UNCHANGED vars
  BY <1>4 DEF TypeOK, SenderOK, ReaderOK, ParserOK, DeliveryOK, ChannelUsed, vars,
              sender, reader, parser
<1> QED BY <1>1, <1>2, <1>3, <1>4 DEF Next

\* Whatever is sent and however it is cut, the variables keep their types; the parser
\* starts on a header only when there is a byte of it, and has a channel in use from r5 on
\* as long as r4, packet.c:107, has not led it out of the table.
THEOREM ChunkStreamTypeOK == Spec => []TypeOK
<1>1. Init => TypeOK
  BY InitTypeOK
<1>2. TypeOK /\ [Next]_vars => TypeOK'
  BY NextTypeOK
<1> QED BY <1>1, <1>2, PTL DEF Spec

-----------------------------------------------------------------------------
(* Whole packets.                                                          *)

\* All steps but four leave the claim about the parser and the packets alone.
LEMMA WholeFrame ==
  ASSUME WholeInv, TypeOK', UNCHANGED << pac, delivered >>,
         state' = 6 => /\ state = 6
                       /\ UNCHANGED << data_buffer, channel_id, channels_in >>
  PROVE  WholeInv'
  BY DEF WholeInv, WholePackets

\* The body of a packet that is returned has this size.
LEMMA GetR6Whole == ASSUME WholeInv, GetR6, TypeOK' PROVE WholeInv'
<1> DEFINE ch   == channels_in[channel_id]
           n    == BodyLength(data_buffer, ChunkSize, 1)
           data == Unchunked(rbuf, data_buffer, ChunkSize, 1)
           d    == [channel_id |-> channel_id, channel |-> ch, data |-> data]
<1>1. TypeOK /\ data_buffer = ch.size
  BY DEF WholeInv, GetR6, Parsing
<1>2. SeparatorLength(channel_id) = 1
  BY <1>1, InTable DEF GetR6
<1>3. Len(rbuf) >= n /\ pac' = << d >>
  BY <1>2, Zenon DEF GetR6, Returned
<1>4. Len(data) = data_buffer
  BY <1>1, <1>3, Sizes, UnchunkedType DEF TypeOK, ReaderOK, ParserOK
<1>5. d.data = data /\ d.channel = ch
  OBVIOUS
<1> HIDE DEF ch, data, d
<1>6. Whole(d)
  BY <1>1, <1>4, <1>5, Zenon DEF Whole
<1>7. Whole(pac'[1])
  BY <1>3, <1>6
<1>8. UNCHANGED << state, data_buffer, channel_id, channels_in, delivered >>
  BY DEF GetR6, parser, ParserFrame
<1> QED BY <1>7, <1>8 DEF WholeInv, WholePackets

\* A packet without a type has four bytes.
LEMMA GetR6UntypedWhole == ASSUME WholeInv, GetR6Untyped, TypeOK' PROVE WholeInv'
<1> DEFINE ch   == channels_in[channel_id]
           data == SubSeq(rbuf, 1, 4)
           d    == [channel_id |-> channel_id, channel |-> ch, data |-> data]
<1>1. pac' = << d >> /\ ch.data_type = 0 /\ rbuf \in Seq(Byte) /\ Len(rbuf) >= 4
  BY DEF WholeInv, TypeOK, ReaderOK, GetR6Untyped, Returned, Untyped
<1>2. Len(data) = 4
  <2>1. \A i \in 1 .. 4 : rbuf[i] \in Byte
    BY <1>1
  <2> QED BY <2>1, SubSeqProperties
<1>3. d.data = data /\ d.channel = ch
  OBVIOUS
<1> HIDE DEF ch, data, d
<1>4. Whole(d)
  BY <1>1, <1>2, <1>3, Zenon DEF Whole
<1>5. Whole(pac'[1])
  BY <1>1, <1>4
<1>6. UNCHANGED << state, data_buffer, channel_id, channels_in, delivered >>
  BY DEF GetR6Untyped, parser, ParserFrame
<1> QED BY <1>5, <1>6 DEF WholeInv, WholePackets

\* A packet returned by r4 is marked invalid.
LEMMA GetR4Whole == ASSUME WholeInv, GetR4, TypeOK' PROVE WholeInv'
<1> DEFINE ch == ReadChannel(channels_in[channel_id], packet_mask, rbuf)
<1>1. state' # 6 /\ delivered' = delivered
  BY DEF GetR4, Parsing, ParserFrame
<1>2. CASE ch.size >= LargeSize
  <2> DEFINE bad  == [ch EXCEPT !.data_type = PAC_INVALID]
             data == SubSeq(rbuf, HeaderLength(packet_mask) + 1, Len(rbuf))
             d    == [channel_id |-> channel_id, channel |-> bad, data |-> data]
  <2>1. pac' = << d >> /\ d.channel = bad
    BY <1>2 DEF GetR4, Returned
  <2>2. ch \in Channel
    <3>1. /\ rbuf \in Seq(Byte) /\ packet_mask \in 0 .. 3 /\ channels_in \in Channels
          /\ HeaderLength(packet_mask) <= Len(rbuf)
          /\ channel_id \in 0 .. NumChannels - 1
      BY DEF WholeInv, TypeOK, ParserOK, ReaderOK, GetR4, ChannelUsed, Channels
    <3> QED BY <3>1, TableEntry, ReadChannelType
  <2>3. bad.data_type = PAC_INVALID
    BY <2>2 DEF Channel
  <2> HIDE DEF bad, d
  <2>4. Whole(d)
    BY <2>1, <2>3, Zenon DEF Whole
  <2>5. Whole(pac'[1])
    BY <2>1, <2>4
  <2> QED BY <1>1, <2>5 DEF WholeInv, WholePackets
<1>3. CASE ~(ch.size >= LargeSize)
  <2>1. pac' = pac
    BY <1>3 DEF GetR4
  <2> QED BY <1>1, <2>1 DEF WholeInv, WholePackets
<1> QED BY <1>2, <1>3

\* The packet delivered was whole when it was returned.
LEMMA OnPacketWhole == ASSUME WholeInv, OnPacket, TypeOK' PROVE WholeInv'
<1>1. PICK d \in Received : pac = << d >>
  BY PendingShape DEF WholeInv, TypeOK, DeliveryOK, OnPacket
<1>2. Whole(d)
  BY <1>1 DEF WholeInv
<1>3. delivered' = Append(delivered, d) /\ delivered \in Seq(Received)
  BY <1>1 DEF WholeInv, TypeOK, DeliveryOK, OnPacket
<1>4. WholePackets'
  <2>1. SUFFICES ASSUME NEW i \in 1 .. Len(delivered') PROVE Whole(delivered'[i])
    BY DEF WholePackets
  <2>2. CASE i \in 1 .. Len(delivered)
    <3>1. delivered'[i] = delivered[i]
      BY <1>3, <2>2, AppendProperties
    <3> QED BY <2>2, <3>1 DEF WholeInv, WholePackets
  <2>3. CASE i = Len(delivered) + 1
    <3>1. delivered'[i] = d
      BY <1>3, <2>3, AppendProperties
    <3> QED BY <1>2, <3>1
  <2>4. Len(delivered') = Len(delivered) + 1 /\ Len(delivered) \in Nat
    BY <1>3, AppendProperties
  <2> QED BY <2>2, <2>3, <2>4
<1>5. state' = 0 /\ pac' = << >>
  BY DEF OnPacket
<1> QED BY <1>4, <1>5 DEF WholeInv

\* Every step of the receiver's feed keeps packets whole.
LEMMA ParseWhole == ASSUME WholeInv, Parse, TypeOK' PROVE WholeInv'
<1>1. CASE GetR5
  <2>1. data_buffer' = channels_in'[channel_id'].size
    BY <1>1 DEF GetR5
  <2>2. UNCHANGED << pac, delivered >>
    BY <1>1 DEF GetR5, ParserFrame
  <2> QED BY <2>1, <2>2 DEF WholeInv, WholePackets
<1>2. CASE StartReceive \/ GetR1 \/ GetR2 \/ GetR3 \/ FeedReturn
  BY <1>2, WholeFrame
  DEF StartReceive, GetR1, GetR2, GetR3, FeedReturn, Parsing, ParserFrame, parser
<1>3. CASE GetR2Short \/ GetR4Short \/ GetR5Short \/ GetR6UntypedShort
  <2>1. PICK n : NeedMore(n)
    BY <1>3 DEF GetR2Short, GetR4Short, GetR5Short, GetR6UntypedShort
  <2> QED BY <2>1, WholeFrame DEF NeedMore, ParserFrame, parser
<1>4. CASE GetR3Abort \/ GetR4Abort \/ GetR6Abort \/ GetR6UntypedAbort
  <2>1. ReceiverAbort
    BY <1>4 DEF GetR3Abort, GetR4Abort, GetR6Abort, GetR6UntypedAbort
  <2> QED BY <2>1, WholeFrame DEF ReceiverAbort, ParserFrame, parser
<1>5. CASE GetR4Astray
  BY <1>5, WholeFrame DEF GetR4Astray, ParserFrame, parser
<1> QED
  BY <1>1, <1>2, <1>3, <1>4, <1>5, GetR4Whole, GetR6Whole, GetR6UntypedWhole, OnPacketWhole
  DEF Parse

\* Whatever is sent and however it is cut, no packet is delivered in part: r6 reads
\* up to the last chunk or fails its assertion, packet.c:201-225.
THEOREM ChunkStreamWholePackets == Spec => []WholePackets
<1>1. Init => WholeInv
  BY InitTypeOK DEF Init, WholeInv, WholePackets
<1>2. WholeInv /\ [Next]_vars => WholeInv'
  <2> SUFFICES ASSUME WholeInv, [Next]_vars PROVE WholeInv'
    OBVIOUS
  <2>1. TypeOK'
    BY NextTypeOK DEF WholeInv
  <2>2. CASE \E s \in Sends : Send(s) \/ SendAbort(s)
    BY <2>1, <2>2, WholeFrame DEF Send, SendAbort, parser
  <2>3. CASE Read
    BY <2>1, <2>3, WholeFrame DEF Read, Receive, parser
  <2>4. CASE Parse
    BY <2>1, <2>4, ParseWhole
  <2>5. CASE UNCHANGED vars
    BY <2>1, <2>5, WholeFrame DEF vars, parser
  <2> QED BY <2>2, <2>3, <2>4, <2>5 DEF Next
<1>3. WholeInv => WholePackets
  BY DEF WholeInv
<1> QED BY <1>1, <1>2, <1>3, PTL DEF Spec

-----------------------------------------------------------------------------
(* The whole way of a packet: the invariant LinkInv.                       *)

\* The i-th packet, the sender's channel before it, and what was written.
Pac(i)  == log[i].call.pac
Ch(i)   == TableAt(i - 1)[Pac(i).channel_id]
Mask(i) == PacketMask(Ch(i), Pac(i))
Bytes(i) == Encode(log[i].call, Ch(i))

\* A channel after disciplined calls.
CleanChannel ==
  [used : {1}, timer : Int, size : Nat, data_type : Byte, stream_id : {0}]

\* What the log says of the i-th call.
Written(i) ==
  /\ CanWriteHeader(log[i].call.rx)
  /\ log[i].channels = [TableAt(i - 1) EXCEPT ![Pac(i).channel_id] =
                          WrittenChannel(OutChannel(Ch(i)), Pac(i), Mask(i))]
  /\ log[i].whole => /\ EndOf(i) = EndOf(i - 1) + Len(Bytes(i))
                     /\ \A j \in 1 .. Len(Bytes(i)) :
                          stream[EndOf(i - 1) + j] = Bytes(i)[j]

SenderInv ==
  /\ channels_out = TableAt(Len(log)) /\ Len(stream) = EndOf(Len(log))
  /\ \A i \in 1 .. Len(log) : log[i].call \in Sends /\ Written(i)
  /\ \A i, j \in 0 .. Len(log) : i <= j => EndOf(i) <= EndOf(j)
  /\ \A i \in 0 .. Len(log) : Clean(i) => \A c \in {2, 3} : TableAt(i)[c] \in CleanChannel

\* How many bytes of the stream the parser has consumed.
Pos == taken - Len(rbuf)

\* A state function has asked for more bytes than there are.
Short ==
  \/ state = 2 /\ Len(rbuf) < IdLength
  \/ state = 4 /\ Len(rbuf) < HeaderLength(packet_mask)
  \/ state = 5 /\ Len(rbuf) < TimerLength
  \/ state = 6 /\ Untyped /\ Len(rbuf) < 4

ReaderInv ==
  /\ last_data = << >>
  /\ Len(rbuf) <= taken
  /\ \A j \in 1 .. Len(rbuf) : rbuf[j] = stream[Pos + j]
  /\ ~feeding => rbuf = << >> /\ state = 0 /\ pac = << >>
  /\ need_more > 0 => pac = << >> /\ Short

\* The parser is between the n-th packet and the next.
Between(n) ==
  Clean(n) => n <= Len(log) /\ channels_in = TableAt(n) /\ Pos = EndOf(n)

\* The parser is inside the n-th packet: if all calls so far were disciplined it knows
\* this packet's channel and header kind, and is where the sender was.
Inside(n) ==
  Clean(n) =>
    /\ n <= Len(log)
    /\ channel_id = Pac(n).channel_id /\ packet_mask = Mask(n)
    /\ state <= 4 => /\ pac = << >> /\ channels_in = TableAt(n - 1)
                     /\ Pos = EndOf(n - 1) + 1
    /\ state > 4 => /\ channels_in = TableAt(n)
                    /\ pac = << >> => Pos = EndOf(n - 1) + 1 + HeaderLength(Mask(n))
    /\ state = 6 => data_buffer = Len(Pac(n).data)
    /\ pac # << >> => Pos = EndOf(n) /\ Same(pac[1], Pac(n))
    /\ "receiver" \in aborted => taken < EndOf(n)

ParserInv ==
  /\ DeliveredMatches
  /\ pac # << >> => state \in {4, 6}
  /\ "receiver" \in aborted => state > 1
  /\ state <= 1 => Between(Len(delivered))
  /\ state > 1 => Inside(Len(delivered) + 1)

LinkInv == TypeOK /\ SenderInv /\ ReaderInv /\ ParserInv

-----------------------------------------------------------------------------
(* The bytes of a call.                                                    *)

\* Data of one chunk is written as it is, whatever the size of chunks.
LEMMA OneChunk ==
  ASSUME NEW data \in Seq(Byte), NEW chunk \in Nat \ {0}, Len(data) <= chunk,
         NEW hdr \in Seq(Byte)
  PROVE  Chunked(data, chunk, hdr) = data
<1> DEFINE h     == Len(hdr)
           n     == Len(data)
           g(k)  == (k - 1) \div (chunk + h)
           o(k)  == (k - 1) % (chunk + h)
           at(k) == IF o(k) < chunk THEN data[g(k) * chunk + o(k) + 1]
                                    ELSE hdr[o(k) - chunk + 1]
<1>1. h \in Nat /\ n \in Nat /\ n <= chunk /\ chunk \in Nat /\ chunk >= 1
  OBVIOUS
<1>2. Separators(data, chunk) = 0
  <2>1. CASE data = << >>
    BY <2>1 DEF Separators
  <2>2. CASE data # << >>
    <3> DEFINE e == n - 1
    <3>1. e \in Int /\ 0 <= e /\ e < chunk /\ e = chunk * 0 + e
      BY <1>1, <2>2
    <3> HIDE DEF e
    <3>2. e \div chunk = 0
      BY <1>1, <3>1, DivModUnique
    <3> QED BY <2>2, <3>2 DEF Separators, e
  <2> QED BY <2>1, <2>2
<1>3. Chunked(data, chunk, hdr) = [k \in 1 .. n + Separators(data, chunk) * h |-> at(k)]
  BY DEF Chunked, Separators
<1>4. ASSUME NEW k \in 1 .. n PROVE at(k) = data[k]
  <2> DEFINE e == k - 1
             c == chunk + h
  <2>1. /\ e \in Int /\ 0 <= e /\ e < c /\ e < chunk
        /\ c \in Int /\ c > 0 /\ e = c * 0 + e
    BY <1>1
  <2> HIDE DEF e, c
  <2>2. e \div c = 0 /\ e % c = e
    BY <2>1, DivModUnique
  <2>3. g(k) = 0 /\ o(k) = k - 1 /\ k - 1 < chunk
    BY <2>1, <2>2 DEF e, c
  <2> HIDE DEF g, o
  <2>4. g(k) * chunk + o(k) + 1 = k
    BY <1>1, <2>3
  <2> QED BY <2>3, <2>4
<1> HIDE DEF at, h, n
<1>5. n + Separators(data, chunk) * h = n
  BY <1>1, <1>2
<1>6. Chunked(data, chunk, hdr) = [k \in 1 .. n |-> data[k]]
  BY <1>3, <1>4, <1>5
<1> QED BY <1>6 DEF n

\* Where the parts of a packet are in its bytes.
LEMMA PartsAt ==
  ASSUME NEW h \in Byte, NEW f \in Seq(Byte), NEW b \in Seq(Byte)
  PROVE  LET e == << h >> \o f \o b
         IN /\ e \in Seq(Byte) /\ Len(e) = 1 + Len(f) + Len(b) /\ e[1] = h
            /\ \A j \in 1 .. Len(f) : e[1 + j] = f[j]
            /\ \A j \in 1 .. Len(b) : e[1 + Len(f) + j] = b[j]
<1> DEFINE a == << h >>
           u == a \o f
           e == u \o b
<1>1. a \in Seq(Byte) /\ Len(a) = 1 /\ a[1] = h /\ Len(f) \in Nat /\ Len(b) \in Nat
  OBVIOUS
<1> HIDE DEF a
<1>2. u \in Seq(Byte) /\ Len(u) = 1 + Len(f)
  BY <1>1, ConcatType
<1>3. u[1] = h
  <2>1. 1 \in 1 .. Len(a)
    BY <1>1
  <2>2. \A k \in 1 .. Len(a) : u[k] = a[k]
    BY <1>1, ConcatLeft, Zenon
  <2> QED BY <1>1, <2>1, <2>2
<1>4. ASSUME NEW j \in 1 .. Len(f) PROVE u[1 + j] = f[j]
  <2>1. u[Len(a) + j] = f[j]
    BY <1>1, ConcatRight, Zenon
  <2> QED BY <1>1, <2>1
<1> HIDE DEF u
<1>5. e \in Seq(Byte) /\ Len(e) = 1 + Len(f) + Len(b)
  BY <1>1, <1>2, ConcatType
<1>6. ASSUME NEW k \in 1 .. Len(u) PROVE e[k] = u[k]
  BY <1>2, ConcatLeft
<1>7. ASSUME NEW j \in 1 .. Len(b) PROVE e[1 + Len(f) + j] = b[j]
  BY <1>2, ConcatRight
<1> HIDE DEF e
<1>8. e[1] = h
  BY <1>1, <1>2, <1>3, <1>6
<1>9. ASSUME NEW j \in 1 .. Len(f) PROVE e[1 + j] = f[j]
  BY <1>1, <1>2, <1>4, <1>6
<1> QED BY <1>5, <1>7, <1>8, <1>9 DEF a, u, e

\* The timer that a call writes: its own, or how far it is from the one before.
WrittenTimer(s, ch) == s.pac.timer - IF s.relative THEN OutChannel(ch).timer ELSE 0

\* The parts of a packet: the byte of its header, its fields and its chunks.
First(s, ch)  == PacketMask(ch, s.pac) * 64 + s.pac.channel_id
Fields(s, ch) == HeaderFields(s.pac, PacketMask(ch, s.pac), WrittenTimer(s, ch))
Body(s)       == Chunked(s.pac.data, ChunkSize, << CHANNEL_CONTINUE * 64 + s.pac.channel_id >>)

\* The header that a disciplined packet leaves on both sides.
Header(p) == [used |-> 1, timer |-> p.timer, size |-> Len(p.data),
              data_type |-> p.data_type, stream_id |-> 0]

\* What is known of a disciplined call.
LEMMA DisciplinedCall ==
  ASSUME NEW s \in Sends, Disciplined(s)
  PROVE  /\ s.pac.channel_id \in {2, 3} /\ s.rx = s.pac.channel_id /\ CanWriteHeader(s.rx)
         /\ s.pac.data_type \in Byte /\ s.pac.data_type # 0 /\ s.pac.stream_id = 0
         /\ s.pac.timer \in Nat /\ s.pac.timer < ExtendedTimer
         /\ s.pac.data \in Seq(Byte) /\ Len(s.pac.data) \in Nat
         /\ Len(s.pac.data) < LargeSize /\ Len(s.pac.data) <= ExtendedTimer
         /\ ~s.relative
         /\ s.chunk # ChunkSize => Len(s.pac.data) <= s.chunk /\ Len(s.pac.data) <= ChunkSize
<1>1. /\ s.pac.channel_id \in {2, 3} /\ s.rx = s.pac.channel_id
      /\ s.pac.data_type # 0 /\ s.pac.stream_id = 0 /\ s.pac.timer < ExtendedTimer
      /\ Len(s.pac.data) < LargeSize /\ ~s.relative
      /\ s.chunk # ChunkSize => Len(s.pac.data) <= s.chunk /\ Len(s.pac.data) <= ChunkSize
  BY DEF Disciplined, Framed
<1>2. s.pac.data_type \in Byte /\ s.pac.timer \in Nat /\ s.pac.data \in Seq(Byte)
  BY CallTypes
<1>3. Len(s.pac.data) \in Nat /\ LargeSize \in Nat /\ LargeSize <= ExtendedTimer
  BY <1>2, SizesAssumption DEF SizesAssumption
<1>4. Len(s.pac.data) <= ExtendedTimer
  BY <1>1, <1>3, TimerNat
<1> QED BY <1>1, <1>2, <1>3, <1>4 DEF CanWriteHeader

\* What is known of a call that keeps the stream in frames.
LEMMA FramedCall ==
  ASSUME NEW s \in Sends, NEW t, Framed(s, t)
  PROVE  /\ s.pac.channel_id \in {2, 3} /\ s.rx = s.pac.channel_id
         /\ s.pac.data_type \in Byte /\ s.pac.data_type # 0
         /\ s.pac.stream_id \in Int /\ s.pac.timer \in Nat
         /\ s.pac.data \in Seq(Byte) /\ Len(s.pac.data) \in Nat
         /\ Len(s.pac.data) < LargeSize /\ Len(s.pac.data) <= ExtendedTimer
         /\ s.chunk # ChunkSize => Len(s.pac.data) <= s.chunk /\ Len(s.pac.data) <= ChunkSize
<1>1. /\ s.pac.channel_id \in {2, 3} /\ s.rx = s.pac.channel_id
      /\ s.pac.data_type # 0 /\ Len(s.pac.data) < LargeSize
      /\ s.chunk # ChunkSize => Len(s.pac.data) <= s.chunk /\ Len(s.pac.data) <= ChunkSize
  BY DEF Framed
<1>2. /\ s.pac.data_type \in Byte /\ s.pac.timer \in Nat /\ s.pac.data \in Seq(Byte)
      /\ s.pac.stream_id \in Int
  BY CallTypes
<1>3. Len(s.pac.data) \in Nat /\ LargeSize \in Nat /\ LargeSize <= ExtendedTimer
  BY <1>2, SizesAssumption DEF SizesAssumption
<1>4. Len(s.pac.data) <= ExtendedTimer
  BY <1>1, <1>3, TimerNat
<1> QED BY <1>1, <1>2, <1>3, <1>4

\* The timer it writes is a number.
LEMMA WrittenTimerInt ==
  ASSUME NEW s \in Sends, NEW ch \in Channel
  PROVE  WrittenTimer(s, ch) \in Int
<1>1. s.pac.timer \in Int /\ OutChannel(ch).timer \in Int
  BY CallTypes DEF OutChannel, InitChannel, Channel
<1> QED BY <1>1 DEF WrittenTimer

\* Such a call writes these parts, as long as the receiver expects.
LEMMA FramedBytes ==
  ASSUME NEW s \in Sends, NEW t, Framed(s, t), NEW ch \in Channel
  PROVE  /\ Encode(s, ch) = << First(s, ch) >> \o Fields(s, ch) \o Body(s)
         /\ First(s, ch) \in Byte
         /\ Fields(s, ch) \in Seq(Byte)
         /\ Len(Fields(s, ch)) = HeaderLength(PacketMask(ch, s.pac))
         /\ Body(s) \in Seq(Byte)
<1> DEFINE p == s.pac
           c == s.pac.channel_id
           m == PacketMask(ch, p)
           w == WrittenTimer(s, ch)
           sep == << CHANNEL_CONTINUE * 64 + c >>
<1>1. /\ c \in {2, 3} /\ s.rx = c
      /\ p.data \in Seq(Byte) /\ Len(p.data) \in Nat
      /\ s.chunk # ChunkSize => Len(p.data) <= s.chunk /\ Len(p.data) <= ChunkSize
  BY FramedCall
<1>2. m \in 0 .. 3 /\ CHANNEL_CONTINUE \in 0 .. 3 /\ c \in 2 .. 63
  BY <1>1, MaskBits DEF CHANNEL_CONTINUE
<1>3. /\ HeaderBytes(c, m) = << m * 64 + c >>
      /\ HeaderBytes(c, CHANNEL_CONTINUE) = sep
  BY <1>2, BasicHeaderByte, Zenon
<1>4. sep \in Seq(Byte) /\ OneByte(sep)
  BY <1>2 DEF OneByte, Byte, CHANNEL_CONTINUE
<1>5. Chunked(p.data, s.chunk, sep) = Body(s)
  <2>1. CASE s.chunk = ChunkSize
    BY <2>1, Zenon DEF Body
  <2>2. CASE s.chunk # ChunkSize
    <3>1. s.chunk \in Nat \ {0} /\ ChunkSize \in Nat \ {0}
      BY CallTypes, Sizes
    <3> HIDE DEF sep
    <3>2. Chunked(p.data, s.chunk, sep) = p.data /\ Chunked(p.data, ChunkSize, sep) = p.data
      BY <1>1, <1>4, <2>2, <3>1, OneChunk
    <3> QED BY <3>2, Zenon DEF Body, sep
  <2> QED BY <2>1, <2>2
<1>6. Encode(s, ch) = << First(s, ch) >> \o Fields(s, ch) \o Body(s)
  <2>1. Encode(s, ch) = HeaderBytes(c, m) \o HeaderFields(p, m, w)
                          \o Chunked(p.data, s.chunk, HeaderBytes(c, CHANNEL_CONTINUE))
    BY <1>1, Zenon DEF Encode, WrittenTimer
  <2> QED BY <1>3, <1>5, <2>1, Zenon DEF First, Fields
<1>7. First(s, ch) \in Byte
  <2> HIDE DEF m, c
  <2>1. m * 64 + c \in Byte
    BY <1>2 DEF Byte
  <2> QED BY <2>1, Zenon DEF First, m, c, p
<1>8. /\ Fields(s, ch) \in Seq(Byte)
      /\ Len(Fields(s, ch)) = HeaderLength(PacketMask(ch, s.pac))
  <2>1. p.data_type \in Byte /\ p.stream_id \in Int /\ Len(p.data) \in Nat /\ w \in Int
    BY FramedCall, WrittenTimerInt
  <2> HIDE DEF p, m, w
  <2>2. /\ HeaderFields(p, m, w) \in Seq(Byte)
        /\ Len(HeaderFields(p, m, w)) = HeaderLength(m)
    BY <1>2, <2>1, FieldBytes
  <2> QED BY <2>2, Zenon DEF Fields, m, p, w
<1>9. Body(s) \in Seq(Byte)
  <2> HIDE DEF sep
  <2>1. Chunked(p.data, ChunkSize, sep) \in Seq(Byte)
    BY <1>1, <1>4, Sizes, ChunkedType
  <2> QED BY <2>1, Zenon DEF Body, sep
<1> QED BY <1>6, <1>7, <1>8, <1>9

\* The receiver reads its data back, whatever follows.
LEMMA FramedBody ==
  ASSUME NEW s \in Sends, NEW t, Framed(s, t), NEW rest \in Seq(Byte)
  PROVE  /\ BodyLength(Len(s.pac.data), ChunkSize, 1) = Len(Body(s))
         /\ Unchunked(Body(s) \o rest, Len(s.pac.data), ChunkSize, 1) = s.pac.data
<1> DEFINE p   == s.pac
           sep == << CHANNEL_CONTINUE * 64 + s.pac.channel_id >>
<1>1. p.channel_id \in {2, 3} /\ p.data \in Seq(Byte) /\ Len(p.data) \in Nat
  BY FramedCall
<1>2. sep \in Seq(Byte) /\ OneByte(sep)
  <2> DEFINE d == CHANNEL_CONTINUE * 64 + s.pac.channel_id
  <2>1. d \in Byte
    <3>1. \A c \in {2, 3} : 3 * 64 + c \in 0 .. 255
      OBVIOUS
    <3> QED BY <1>1, <3>1, Zenon DEF Byte, CHANNEL_CONTINUE
  <2> HIDE DEF d
  <2>2. << d >> \in Seq(Byte) /\ OneByte(<< d >>)
    BY <2>1 DEF OneByte
  <2> QED BY <2>2, Zenon DEF d
<1> HIDE DEF p, sep
<1>3. /\ BodyLength(Len(p.data), ChunkSize, 1) = Len(Chunked(p.data, ChunkSize, sep))
      /\ Unchunked(Chunked(p.data, ChunkSize, sep) \o rest, Len(p.data), ChunkSize, 1) = p.data
  BY <1>1, <1>2, Sizes, ChunkRoundTrip
<1> QED BY <1>3, Zenon DEF Body, p, sep

\* A disciplined call keeps the stream in frames, and writes its timer as it is.
LEMMA DisciplinedFramed ==
  ASSUME NEW s \in Sends, Disciplined(s), NEW ch
  PROVE  WrittenTimer(s, ch) = s.pac.timer /\ Framed(s, WrittenTimer(s, ch))
<1>1. s.pac.timer \in Nat /\ ~s.relative
  BY DisciplinedCall
<1>2. WrittenTimer(s, ch) = s.pac.timer
  BY <1>1 DEF WrittenTimer
<1> QED BY <1>2 DEF Disciplined

\* The receiver reads its header back as well.
LEMMA DisciplinedRead ==
  ASSUME NEW s \in Sends, Disciplined(s), NEW ch \in CleanChannel, NEW rest \in Seq(Byte)
  PROVE  /\ ReadChannel(ch, PacketMask(ch, s.pac), Fields(s, ch) \o rest) = Header(s.pac)
         /\ WrittenChannel(OutChannel(ch), s.pac, PacketMask(ch, s.pac)) = Header(s.pac)
<1> DEFINE p == s.pac
<1>1. /\ p.data_type \in Byte /\ p.stream_id = 0
      /\ p.timer \in Nat /\ p.timer < ExtendedTimer
      /\ Len(p.data) \in Nat /\ Len(p.data) <= ExtendedTimer
  BY DisciplinedCall
<1>2. WrittenTimer(s, ch) = p.timer
  BY DisciplinedFramed
<1>3. p.timer <= ExtendedTimer
  BY <1>1, TimerNat
<1> HIDE DEF p
<1>4. /\ ReadChannel(ch, PacketMask(ch, p), HeaderFields(p, PacketMask(ch, p), p.timer) \o rest)
           = Header(p)
      /\ WrittenChannel(OutChannel(ch), p, PacketMask(ch, p)) = Header(p)
  BY <1>1, <1>3, HeaderRoundTrip DEF CleanChannel, Header
<1> QED BY <1>2, <1>4, Zenon DEF Fields, p

-----------------------------------------------------------------------------
(* A packet in the stream.                                                 *)

\* What is known of an entry of the log.
LEMMA Entries ==
  ASSUME TypeOK
  PROVE  /\ Len(log) \in Nat /\ Len(stream) \in Nat /\ Len(delivered) \in Nat
         /\ \A i \in 0 .. Len(log) : EndOf(i) \in Nat /\ TableAt(i) \in Channels
<1>1. /\ log \in Seq([call : Call, channels : Channels, end : Nat, whole : BOOLEAN])
      /\ stream \in Seq(Byte) /\ delivered \in Seq(Received)
  BY DEF TypeOK, SenderOK, DeliveryOK
<1>2. Len(log) \in Nat /\ Len(stream) \in Nat /\ Len(delivered) \in Nat
  BY <1>1
<1>3. ASSUME NEW i \in 0 .. Len(log) PROVE EndOf(i) \in Nat /\ TableAt(i) \in Channels
  <2>1. CASE i = 0
    <3>1. InitChannels \in Channels
      <4>1. ASSUME NEW c PROVE IF c <= 3 THEN InitChannel \in Channel
                                         ELSE [InitChannel EXCEPT !.used = 0] \in Channel
        BY DEF InitChannel, Channel, Byte
      <4> QED BY <4>1 DEF InitChannels, Channels
    <3> QED BY <2>1, <3>1 DEF EndOf, TableAt
  <2>2. CASE i # 0
    <3>1. i \in 1 .. Len(log)
      BY <1>2, <2>2
    <3>2. log[i] \in [call : Call, channels : Channels, end : Nat, whole : BOOLEAN]
      BY <1>1, <3>1, ElementOfSeq
    <3> QED BY <2>2, <3>2 DEF EndOf, TableAt
  <2> QED BY <2>1, <2>2
<1> QED BY <1>2, <1>3

\* Calls before a disciplined one were disciplined.
LEMMA CleanPrefix ==
  ASSUME NEW m \in Int, NEW n \in Int, m <= n, Clean(n), Len(log) \in Nat
  PROVE  Clean(m)
  BY DEF Clean

\* The parts of the i-th packet.
Hd(i) == First(log[i].call, Ch(i))
Fl(i) == Fields(log[i].call, Ch(i))
Bd(i) == Body(log[i].call)

\* The stream holds the parts of a packet that keeps it in frames after the end of the one
\* before.
LEMMA FramedAt ==
  ASSUME TypeOK, SenderInv, NEW i \in 1 .. Len(log), Framed(log[i].call, TimerAt(i)),
         log[i].whole
  PROVE  /\ log[i].call \in Sends /\ Ch(i) \in Channel
         /\ EndOf(i - 1) \in Nat /\ EndOf(i) \in Nat /\ EndOf(i) <= Len(stream)
         /\ EndOf(i) = EndOf(i - 1) + 1 + Len(Fl(i)) + Len(Bd(i))
         /\ Fl(i) \in Seq(Byte) /\ Bd(i) \in Seq(Byte) /\ Len(Fl(i)) = HeaderLength(Mask(i))
         /\ stream[EndOf(i - 1) + 1] = Hd(i)
         /\ \A j \in 1 .. Len(Fl(i)) : stream[EndOf(i - 1) + 1 + j] = Fl(i)[j]
         /\ \A j \in 1 .. Len(Bd(i)) : stream[EndOf(i - 1) + 1 + Len(Fl(i)) + j] = Bd(i)[j]
<1>1. /\ Len(log) \in Nat /\ i \in Nat \ {0} /\ i - 1 \in 0 .. Len(log) /\ i \in 0 .. Len(log)
      /\ Len(log) \in 0 .. Len(log) /\ i <= Len(log)
  BY Entries
<1>2. EndOf(i - 1) \in Nat /\ EndOf(i) \in Nat /\ TableAt(i - 1) \in Channels
  BY <1>1, Entries
<1>3. EndOf(i) <= Len(stream)
  BY <1>1 DEF SenderInv
<1>4. log[i].call \in Sends /\ Written(i) /\ log[i].whole
  BY DEF SenderInv
<1>5. Ch(i) \in Channel
  BY <1>2, <1>4, CallTypes, TableEntry DEF Ch, Pac
<1> DEFINE s == log[i].call
           c == Ch(i)
<1>6. /\ s \in Sends /\ Framed(s, TimerAt(i)) /\ c \in Channel
  BY <1>4, <1>5
<1> HIDE DEF c
<1>7. /\ Bytes(i) = << First(s, c) >> \o Fields(s, c) \o Body(s)
      /\ First(s, c) \in Byte /\ Fields(s, c) \in Seq(Byte) /\ Body(s) \in Seq(Byte)
      /\ Len(Fields(s, c)) = HeaderLength(PacketMask(c, s.pac))
  BY <1>6, FramedBytes, Zenon DEF Bytes, c
<1>8. /\ Bytes(i) = << Hd(i) >> \o Fl(i) \o Bd(i)
      /\ Hd(i) \in Byte /\ Fl(i) \in Seq(Byte) /\ Bd(i) \in Seq(Byte)
      /\ Len(Fl(i)) = HeaderLength(Mask(i))
  BY <1>7, Zenon DEF Hd, Fl, Bd, Mask, Pac, c
<1>9. /\ Len(Bytes(i)) = 1 + Len(Fl(i)) + Len(Bd(i)) /\ Bytes(i)[1] = Hd(i)
      /\ \A j \in 1 .. Len(Fl(i)) : Bytes(i)[1 + j] = Fl(i)[j]
      /\ \A j \in 1 .. Len(Bd(i)) : Bytes(i)[1 + Len(Fl(i)) + j] = Bd(i)[j]
  <2>1. Hd(i) \in Byte /\ Fl(i) \in Seq(Byte) /\ Bd(i) \in Seq(Byte)
    BY <1>8
  <2> DEFINE e == << Hd(i) >> \o Fl(i) \o Bd(i)
  <2>2. /\ Len(e) = 1 + Len(Fl(i)) + Len(Bd(i)) /\ e[1] = Hd(i)
        /\ \A j \in 1 .. Len(Fl(i)) : e[1 + j] = Fl(i)[j]
        /\ \A j \in 1 .. Len(Bd(i)) : e[1 + Len(Fl(i)) + j] = Bd(i)[j]
    BY <2>1, PartsAt
  <2>3. Bytes(i) = e
    BY <1>8, Zenon
  <2> HIDE DEF e
  <2> QED BY <2>2, <2>3, Zenon
<1>10. /\ EndOf(i) = EndOf(i - 1) + Len(Bytes(i))
       /\ \A j \in 1 .. Len(Bytes(i)) : stream[EndOf(i - 1) + j] = Bytes(i)[j]
  BY <1>4 DEF Written
<1>11. /\ EndOf(i) = EndOf(i - 1) + 1 + Len(Fl(i)) + Len(Bd(i))
       /\ stream[EndOf(i - 1) + 1] = Hd(i)
       /\ \A j \in 1 .. Len(Fl(i)) : stream[EndOf(i - 1) + 1 + j] = Fl(i)[j]
       /\ \A j \in 1 .. Len(Bd(i)) : stream[EndOf(i - 1) + 1 + Len(Fl(i)) + j] = Bd(i)[j]
  <2> DEFINE a == EndOf(i - 1)
             lf == Len(Fl(i))
             lb == Len(Bd(i))
             w  == Bytes(i)
  <2>1. a \in Nat /\ lf \in Nat /\ lb \in Nat /\ Len(w) = 1 + lf + lb
    BY <1>2, <1>8, <1>9
  <2>2. \A j \in 1 .. Len(w) : stream[a + j] = w[j]
    BY <1>10
  <2>3. EndOf(i) = a + Len(w)
    BY <1>10
  <2>4. /\ w[1] = Hd(i) /\ \A j \in 1 .. lf : w[1 + j] = Fl(i)[j]
        /\ \A j \in 1 .. lb : w[1 + lf + j] = Bd(i)[j]
    BY <1>9, Zenon
  <2> HIDE DEF a, lf, lb, w
  <2>5. EndOf(i) = a + 1 + lf + lb /\ stream[a + 1] = Hd(i)
    BY <2>1, <2>2, <2>3, <2>4
  <2>6. ASSUME NEW j \in 1 .. lf PROVE stream[a + 1 + j] = Fl(i)[j]
    <3>1. 1 + j \in 1 .. Len(w) /\ a + 1 + j = a + (1 + j)
      BY <2>1
    <3> QED BY <2>2, <2>4, <3>1
  <2>7. ASSUME NEW j \in 1 .. lb PROVE stream[a + 1 + lf + j] = Bd(i)[j]
    <3>1. 1 + lf + j \in 1 .. Len(w) /\ a + 1 + lf + j = a + (1 + lf + j)
      BY <2>1
    <3> QED BY <2>2, <2>4, <3>1
  <2> QED BY <2>5, <2>6, <2>7 DEF a, lf, lb
<1> QED BY <1>2, <1>3, <1>4, <1>5, <1>8, <1>11

\* If the calls were disciplined, the sender's table has the header of the packet besides.
LEMMA PacketAt ==
  ASSUME TypeOK, SenderInv, NEW i \in 1 .. Len(log), Clean(i)
  PROVE  /\ log[i].call \in Sends /\ Disciplined(log[i].call) /\ Ch(i) \in CleanChannel
         /\ EndOf(i - 1) \in Nat /\ EndOf(i) \in Nat /\ EndOf(i) <= Len(stream)
         /\ EndOf(i) = EndOf(i - 1) + 1 + Len(Fl(i)) + Len(Bd(i))
         /\ Fl(i) \in Seq(Byte) /\ Bd(i) \in Seq(Byte) /\ Len(Fl(i)) = HeaderLength(Mask(i))
         /\ stream[EndOf(i - 1) + 1] = Hd(i)
         /\ \A j \in 1 .. Len(Fl(i)) : stream[EndOf(i - 1) + 1 + j] = Fl(i)[j]
         /\ \A j \in 1 .. Len(Bd(i)) : stream[EndOf(i - 1) + 1 + Len(Fl(i)) + j] = Bd(i)[j]
         /\ TableAt(i) = [TableAt(i - 1) EXCEPT ![Pac(i).channel_id] = Header(Pac(i))]
<1>1. Len(log) \in Nat /\ i \in Nat \ {0} /\ i - 1 \in 0 .. Len(log) /\ i <= Len(log)
  BY Entries
<1>2. log[i].call \in Sends /\ Written(i)
  BY DEF SenderInv
<1>3. Disciplined(log[i].call) /\ log[i].whole /\ Clean(i - 1)
  BY <1>1, CleanPrefix DEF Clean
<1>4. Ch(i) \in CleanChannel
  <2>1. Pac(i).channel_id \in {2, 3}
    BY <1>2, <1>3, DisciplinedCall DEF Pac
  <2> QED BY <1>1, <1>3, <2>1 DEF SenderInv, Ch
<1>5. Framed(log[i].call, TimerAt(i))
  <2>1. TimerAt(i) = WrittenTimer(log[i].call, Ch(i))
    BY DEF TimerAt, WrittenTimer, Ch, Pac
  <2> QED BY <1>2, <1>3, <2>1, DisciplinedFramed
<1>6. TableAt(i) = [TableAt(i - 1) EXCEPT ![Pac(i).channel_id] = Header(Pac(i))]
  <2>1. WrittenChannel(OutChannel(Ch(i)), Pac(i), Mask(i)) = Header(Pac(i))
    <3>1. << >> \in Seq(Byte)
      OBVIOUS
    <3> QED BY <1>2, <1>3, <1>4, <3>1, DisciplinedRead DEF Pac, Mask
  <2>2. TableAt(i) = log[i].channels
    BY <1>1 DEF TableAt
  <2> QED BY <1>2, <2>1, <2>2 DEF Written
<1> QED BY <1>2, <1>3, <1>4, <1>5, <1>6, FramedAt

\* A sequence that starts with another is the other and a rest.
LEMMA StartsWith ==
  ASSUME NEW b \in Seq(Byte), NEW f \in Seq(Byte), Len(f) <= Len(b),
         \A j \in 1 .. Len(f) : b[j] = f[j]
  PROVE  \E rest \in Seq(Byte) : b = f \o rest
<1> DEFINE rest == SubSeq(b, Len(f) + 1, Len(b))
<1>1. Len(f) \in Nat /\ Len(b) \in Nat /\ Len(f) + 1 \in Nat \ {0}
  OBVIOUS
<1>2. rest \in Seq(Byte)
  BY <1>1, SubSeqType
<1>3. /\ Len(rest) = Len(b) - Len(f)
      /\ \A k \in 1 .. Len(b) - Len(f) : rest[k] = b[Len(f) + k]
  OBVIOUS
<1> HIDE DEF rest
<1>4. f \o rest \in Seq(Byte) /\ Len(f \o rest) = Len(b)
  BY <1>1, <1>2, <1>3
<1>5. ASSUME NEW k \in 1 .. Len(b) PROVE b[k] = (f \o rest)[k]
  <2>1. CASE k <= Len(f)
    BY <1>1, <1>2, <2>1
  <2>2. CASE ~(k <= Len(f))
    BY <1>1, <1>2, <1>3, <2>2
  <2> QED BY <2>1, <2>2
<1>6. b = f \o rest
  BY <1>4, <1>5, SeqEqual
<1> QED BY <1>2, <1>6

\* What is buffered starts with these bytes if the stream has them where the parser is.
LEMMA Buffered ==
  ASSUME TypeOK, ReaderInv, NEW q \in Seq(Byte), Len(q) <= Len(rbuf),
         \A j \in 1 .. Len(q) : stream[Pos + j] = q[j]
  PROVE  \E rest \in Seq(Byte) : rbuf = q \o rest
<1>1. rbuf \in Seq(Byte) /\ Len(rbuf) \in Nat /\ Len(q) \in Nat
  BY DEF TypeOK, ReaderOK
<1>2. \A j \in 1 .. Len(q) : rbuf[j] = q[j]
  BY <1>1 DEF ReaderInv
<1> QED BY <1>1, <1>2, StartsWith

-----------------------------------------------------------------------------
(* The steps of the sender and of the transport.                           *)

\* A fresh connection is between no packet and the first.
LEMMA InitLink == Init => LinkInv
<1> SUFFICES ASSUME Init PROVE LinkInv
  OBVIOUS
<1>1. TypeOK
  BY InitTypeOK
<1>2. Len(log) = 0 /\ Len(delivered) = 0 /\ Len(rbuf) = 0 /\ Len(stream) = 0
  BY DEF Init
<1>3. SenderInv
  <2>1. \A c \in {2, 3} : InitChannels[c] \in CleanChannel
    BY Sizes DEF InitChannels, InitChannel, CleanChannel, Byte
  <2> QED BY <1>2, <2>1 DEF Init, SenderInv, TableAt, EndOf
<1>4. ReaderInv
  BY <1>2 DEF Init, ReaderInv
<1>5. ParserInv
  <2>1. DeliveredMatches
    BY <1>2 DEF DeliveredMatches
  <2>2. Between(0)
    <3>1. taken = 0 /\ channels_in = TableAt(0)
      BY DEF Init, TableAt
    <3>2. 0 <= Len(log) /\ Pos = EndOf(0)
      BY <1>2, <3>1 DEF EndOf, Pos
    <3> QED BY <3>1, <3>2 DEF Between
  <2> QED BY <1>2, <2>1, <2>2 DEF Init, ParserInv
<1> QED BY <1>1, <1>3, <1>4, <1>5 DEF LinkInv

\* The steps that write nothing keep what is known of the sender.
LEMMA SenderKept == ASSUME SenderInv, UNCHANGED sender PROVE SenderInv'
<1> USE DEF sender
<1>1. ASSUME NEW i
      PROVE  TableAt(i)' = TableAt(i) /\ EndOf(i)' = EndOf(i) /\ Clean(i)' = Clean(i)
  BY DEF TableAt, EndOf, Clean
<1>2. ASSUME NEW i PROVE Written(i)' = Written(i)
  BY DEF Written, TableAt, EndOf, Pac, Ch, Mask, Bytes
<1> QED BY <1>1, <1>2 DEF SenderInv

\* A call adds an entry to the log and bytes to the stream.
LEMMA SendAppends ==
  ASSUME TypeOK, NEW s \in Sends, Send(s)
  PROVE  LET ch    == channels_out[s.pac.channel_id]
             bytes == Taken(Encode(s, ch))
         IN /\ Len(log') = Len(log) + 1 /\ \A i \in 1 .. Len(log) : log'[i] = log[i]
            /\ log'[Len(log) + 1] =
                 [call |-> s, channels |-> channels_out', end |-> Len(stream'),
                  whole |-> bytes = Encode(s, ch)]
            /\ bytes \in Seq(Byte) /\ Len(stream') = Len(stream) + Len(bytes)
            /\ \A j \in 1 .. Len(stream) : stream'[j] = stream[j]
            /\ \A j \in 1 .. Len(bytes) : stream'[Len(stream) + j] = bytes[j]
<1> DEFINE ch    == channels_out[s.pac.channel_id]
           bytes == Taken(Encode(s, ch))
           e     == [call |-> s, channels |-> channels_out', end |-> Len(stream'),
                     whole |-> bytes = Encode(s, ch)]
<1>1. ch \in Channel
  BY CallTypes, TableEntry DEF TypeOK, SenderOK
<1>2. bytes \in Seq(Byte)
  BY <1>1, EncodeType, TakenType DEF Send
<1>3. log' = Append(log, e) /\ stream' = stream \o bytes
  BY DEF Send
<1>4. /\ stream \in Seq(Byte)
      /\ log \in Seq([call : Call, channels : Channels, end : Nat, whole : BOOLEAN])
  BY DEF TypeOK, SenderOK
<1> HIDE DEF bytes, e
<1>5. /\ Len(log') = Len(log) + 1 /\ \A i \in 1 .. Len(log) : log'[i] = log[i]
      /\ log'[Len(log) + 1] = e
  BY <1>3, <1>4
<1>6. /\ Len(stream') = Len(stream) + Len(bytes)
      /\ \A j \in 1 .. Len(stream) : stream'[j] = stream[j]
      /\ \A j \in 1 .. Len(bytes) : stream'[Len(stream) + j] = bytes[j]
  BY <1>2, <1>3, <1>4, ConcatType, ConcatLeft, ConcatRight
<1> QED BY <1>2, <1>5, <1>6 DEF bytes, e

\* The stream and the log of calls still agree after a call.
LEMMA SendSender ==
  ASSUME TypeOK, SenderInv, NEW s \in Sends, Send(s)
  PROVE  SenderInv'
<1> DEFINE n     == Len(log)
           c     == s.pac.channel_id
           ch    == channels_out[c]
           whole == Encode(s, ch)
           bytes == Taken(whole)
           new   == WrittenChannel(OutChannel(ch), s.pac, PacketMask(ch, s.pac))
<1>1. /\ n \in Nat /\ Len(stream) \in Nat
      /\ \A i \in 0 .. n : EndOf(i) \in Nat /\ TableAt(i) \in Channels
  BY Entries
<1>2. /\ Len(log') = n + 1 /\ \A i \in 1 .. n : log'[i] = log[i]
      /\ log'[n + 1].call = s /\ log'[n + 1].channels = channels_out'
      /\ log'[n + 1].end = Len(stream') /\ log'[n + 1].whole = (bytes = whole)
      /\ bytes \in Seq(Byte) /\ Len(stream') = Len(stream) + Len(bytes)
      /\ \A j \in 1 .. Len(stream) : stream'[j] = stream[j]
      /\ \A j \in 1 .. Len(bytes) : stream'[Len(stream) + j] = bytes[j]
  <2> DEFINE e == [call |-> s, channels |-> channels_out', end |-> Len(stream'),
                   whole |-> bytes = whole]
  <2>1. /\ Len(log') = n + 1 /\ \A i \in 1 .. n : log'[i] = log[i]
        /\ log'[n + 1] = e
        /\ bytes \in Seq(Byte) /\ Len(stream') = Len(stream) + Len(bytes)
        /\ \A j \in 1 .. Len(stream) : stream'[j] = stream[j]
        /\ \A j \in 1 .. Len(bytes) : stream'[Len(stream) + j] = bytes[j]
    BY SendAppends, Zenon
  <2>2. /\ e.call = s /\ e.channels = channels_out' /\ e.end = Len(stream')
        /\ e.whole = (bytes = whole)
    BY Zenon
  <2> HIDE DEF e, bytes, whole
  <2> QED BY <2>1, <2>2
<1>3. channels_out' = [channels_out EXCEPT ![c] = new]
  BY DEF Send
<1>4. channels_out = TableAt(n) /\ Len(stream) = EndOf(n)
  BY DEF SenderInv
<1> HIDE DEF bytes, whole, new, n, ch
<1>5. \A i \in 0 .. n : EndOf(i)' = EndOf(i) /\ TableAt(i)' = TableAt(i)
  BY <1>1, <1>2 DEF EndOf, TableAt
<1>6. ASSUME NEW i, i = n + 1 PROVE EndOf(i)' = Len(stream') /\ TableAt(i)' = channels_out'
  BY <1>1, <1>2, <1>6 DEF EndOf, TableAt
<1>7. n + 1 \in Nat /\ Len(stream) <= Len(stream') /\ n \in 0 .. n
  BY <1>1, <1>2
<1>8. channels_out' = TableAt(Len(log))' /\ Len(stream') = EndOf(Len(log))'
  BY <1>2, <1>7 DEF TableAt, EndOf
<1>9. ASSUME NEW i \in 1 .. Len(log') PROVE log'[i].call \in Sends /\ Written(i)'
  <2>1. CASE i \in 1 .. n
    <3>1. /\ i - 1 \in 0 .. n /\ i \in 0 .. n /\ log'[i] = log[i]
          /\ log[i].call \in Sends /\ Written(i)
      BY <1>1, <1>2, <2>1 DEF SenderInv, n
    <3>2. EndOf(i) \in Nat /\ EndOf(i) <= Len(stream) /\ EndOf(i - 1) \in Nat
      BY <1>1, <1>4, <1>7, <3>1 DEF SenderInv, n
    <3>3. ASSUME NEW q \in Seq(Byte), EndOf(i) = EndOf(i - 1) + Len(q), NEW j \in 1 .. Len(q)
          PROVE  stream'[EndOf(i - 1) + j] = stream[EndOf(i - 1) + j]
      <4>1. EndOf(i - 1) + j \in 1 .. Len(stream)
        BY <1>1, <3>2, <3>3
      <4> QED BY <1>2, <4>1
    <3>4. /\ TableAt(i)' = TableAt(i) /\ TableAt(i - 1)' = TableAt(i - 1)
          /\ EndOf(i)' = EndOf(i) /\ EndOf(i - 1)' = EndOf(i - 1)
      BY <1>5, <3>1
    <3>5. Pac(i)' = Pac(i) /\ Ch(i)' = Ch(i) /\ Mask(i)' = Mask(i) /\ Bytes(i)' = Bytes(i)
      BY <3>1, <3>4 DEF Pac, Ch, Mask, Bytes
    <3>6. Bytes(i) \in Seq(Byte)
      <4>1. Ch(i) \in Channel
        BY <1>1, <3>1, CallTypes, TableEntry DEF Ch, Pac
      <4> QED BY <3>1, <4>1, EncodeType DEF Bytes, Written
    <3> QED
      BY <3>1, <3>3, <3>4, <3>5, <3>6 DEF Written
  <2>2. CASE i = n + 1
    <3>1. /\ log'[i].call = s /\ log'[i].channels = channels_out'
          /\ log'[i].whole = (bytes = whole) /\ i - 1 = n
      BY <1>1, <1>2, <2>2
    <3>2. /\ EndOf(i)' = Len(stream') /\ EndOf(i - 1)' = EndOf(n)
          /\ TableAt(i - 1)' = TableAt(n)
      BY <1>5, <1>6, <1>7, <2>2, <3>1
    <3>3. Pac(i)' = s.pac /\ Ch(i)' = ch
      BY <1>4, <3>1, <3>2 DEF Pac, Ch, ch
    <3>4. Mask(i)' = PacketMask(ch, s.pac) /\ Bytes(i)' = whole
      BY <3>1, <3>3 DEF Mask, Bytes, whole
    <3>5. CanWriteHeader(s.rx)
      BY DEF Send
    <3>6. log'[i].channels = [TableAt(i - 1)' EXCEPT ![Pac(i)'.channel_id] =
                                WrittenChannel(OutChannel(Ch(i)'), Pac(i)', Mask(i)')]
      BY <1>3, <1>4, <3>1, <3>2, <3>3, <3>4 DEF new
    <3>7. ASSUME bytes = whole
          PROVE  /\ EndOf(i)' = EndOf(i - 1)' + Len(Bytes(i)')
                 /\ \A j \in 1 .. Len(Bytes(i)') : stream'[EndOf(i - 1)' + j] = Bytes(i)'[j]
      BY <1>2, <1>4, <3>2, <3>4, <3>7, ZenonT(30)
    <3> QED BY <3>1, <3>5, <3>6, <3>7 DEF Written
  <2> QED BY <1>1, <1>2, <2>1, <2>2
<1>10. ASSUME NEW i \in 0 .. Len(log'), NEW j \in 0 .. Len(log'), i <= j
       PROVE  EndOf(i)' <= EndOf(j)'
  <2>1. ASSUME NEW k \in 0 .. n PROVE EndOf(k) \in Nat /\ EndOf(k) <= Len(stream)
    BY <1>1, <1>4, <1>7, <2>1 DEF SenderInv, n
  <2>2. CASE j \in 0 .. n
    <3>1. i \in 0 .. n
      BY <1>1, <1>10, <2>2
    <3>2. EndOf(i) <= EndOf(j)
      BY <1>10, <2>2, <3>1 DEF SenderInv, n
    <3> QED BY <1>5, <2>2, <3>1, <3>2
  <2>3. CASE j = n + 1 /\ i \in 0 .. n
    BY <1>1, <1>5, <1>6, <1>7, <2>1, <2>3, <1>2
  <2>4. CASE j = n + 1 /\ i = n + 1
    BY <1>1, <1>2, <1>6, <2>4
  <2> QED BY <1>1, <1>2, <1>10, <2>2, <2>3, <2>4
<1>11. ASSUME NEW i \in 0 .. Len(log'), Clean(i)', NEW d \in {2, 3}
       PROVE  TableAt(i)'[d] \in CleanChannel
  <2>1. ASSUME NEW k \in 0 .. n, k <= i PROVE Clean(k)
    BY <1>1, <1>2, <1>11, <2>1 DEF Clean, n
  <2>2. CASE i \in 0 .. n
    <3>1. Clean(i)
      BY <1>1, <2>1, <2>2
    <3> QED BY <1>5, <2>2, <3>1 DEF SenderInv, n
  <2>3. CASE i = n + 1
    <3>1. Clean(n) /\ Disciplined(s)
      <4>1. Clean(n)
        BY <1>1, <1>7, <2>1, <2>3
      <4>2. n + 1 \in 1 .. Len(log')
        BY <1>1, <1>2
      <4>3. Disciplined(log'[n + 1].call)
        BY <1>11, <2>3, <4>2 DEF Clean
      <4> QED BY <1>2, <4>1, <4>3
    <3>2. \A e \in {2, 3} : channels_out[e] \in CleanChannel
      BY <1>4, <1>7, <3>1 DEF SenderInv, n
    <3>3. c \in {2, 3}
      BY <3>1, DisciplinedCall
    <3>4. new = Header(s.pac)
      <4>1. ch \in CleanChannel /\ << >> \in Seq(Byte)
        BY <3>2, <3>3 DEF ch
      <4> QED BY <3>1, <4>1, DisciplinedRead DEF new
    <3>5. Header(s.pac) \in CleanChannel
      BY <3>1, DisciplinedCall DEF Header, CleanChannel
    <3>6. channels_out'[d] \in CleanChannel
      <4>1. CASE d = c
        <5>1. d \in 0 .. NumChannels - 1 /\ channels_out \in Channels
          BY Sizes DEF TypeOK, SenderOK
        <5> QED BY <1>3, <3>4, <3>5, <4>1, <5>1 DEF Channels
      <4>2. CASE d # c
        <5>1. d \in 0 .. NumChannels - 1 /\ channels_out \in Channels
          BY Sizes DEF TypeOK, SenderOK
        <5> QED BY <1>3, <3>2, <4>2, <5>1 DEF Channels
      <4> QED BY <4>1, <4>2
    <3> QED BY <1>6, <2>3, <3>6
  <2> QED BY <1>1, <1>2, <2>2, <2>3
<1> QED BY <1>8, <1>9, <1>10, <1>11 DEF SenderInv

\* What the log and the stream say of earlier calls stays.
LEMMA SendOld ==
  ASSUME TypeOK, NEW s \in Sends, Send(s)
  PROVE  /\ Len(log') = Len(log) + 1 /\ \A i \in 1 .. Len(log) : log'[i] = log[i]
         /\ \A i \in 0 .. Len(log) : EndOf(i)' = EndOf(i) /\ TableAt(i)' = TableAt(i)
         /\ \A i \in Int : Clean(i)' => Clean(i)
         /\ \A j \in 1 .. Len(stream) : stream'[j] = stream[j]
<1>1. /\ Len(log') = Len(log) + 1 /\ \A i \in 1 .. Len(log) : log'[i] = log[i]
      /\ \A j \in 1 .. Len(stream) : stream'[j] = stream[j]
  BY SendAppends, Zenon
<1>2. Len(log) \in Nat
  BY Entries
<1>3. ASSUME NEW i \in 0 .. Len(log) PROVE EndOf(i)' = EndOf(i) /\ TableAt(i)' = TableAt(i)
  BY <1>1, <1>2 DEF EndOf, TableAt
<1>4. ASSUME NEW i \in Int, Clean(i)' PROVE Clean(i)
  BY <1>1, <1>2, <1>4 DEF Clean
<1> QED BY <1>1, <1>3, <1>4

\* The receiver's place in the stream is not moved by a call.
LEMMA SendPlace ==
  ASSUME TypeOK, NEW s \in Sends, Send(s), NEW m \in Nat
  PROVE  /\ Between(m) => Between(m)'
         /\ m > 0 /\ Inside(m) => Inside(m)'
<1>1. Len(log) \in Nat
  BY Entries
<1>2. UNCHANGED << taken, rbuf, state, packet_mask, channel_id, data_buffer, channels_in, pac,
                   aborted >>
  BY DEF Send, reader, parser
<1>3. Pos' = Pos
  BY <1>2 DEF Pos
<1>4. ASSUME Between(m), Clean(m)'
      PROVE  m <= Len(log') /\ channels_in' = TableAt(m)' /\ Pos' = EndOf(m)'
  <2>1. Clean(m)
    BY <1>4, SendOld
  <2>2. m <= Len(log) /\ channels_in = TableAt(m) /\ Pos = EndOf(m)
    BY <1>4, <2>1 DEF Between
  <2>3. m \in 0 .. Len(log) /\ Len(log') = Len(log) + 1
    BY <1>1, <2>2, SendOld
  <2>4. TableAt(m)' = TableAt(m) /\ EndOf(m)' = EndOf(m)
    BY <2>3, SendOld
  <2> QED BY <1>1, <1>2, <1>3, <2>2, <2>3, <2>4
<1>5. ASSUME m > 0, Inside(m), Clean(m)' PROVE Inside(m)'
  <2>1. Clean(m)
    BY <1>5, SendOld
  <2>2. m <= Len(log)
    BY <1>5, <2>1 DEF Inside
  <2>3. m \in 0 .. Len(log) /\ m \in 1 .. Len(log) /\ m - 1 \in 0 .. Len(log)
    BY <1>1, <1>5, <2>2
  <2>4. /\ TableAt(m)' = TableAt(m) /\ EndOf(m)' = EndOf(m)
        /\ TableAt(m - 1)' = TableAt(m - 1) /\ EndOf(m - 1)' = EndOf(m - 1)
        /\ log'[m] = log[m] /\ Len(log') = Len(log) + 1
    BY <2>3, SendOld
  <2>5. Pac(m)' = Pac(m) /\ Mask(m)' = Mask(m)
    BY <2>4 DEF Pac, Mask, Ch
  <2>6. m <= Len(log')
    BY <1>1, <2>2, <2>4
  <2> QED BY <1>2, <1>3, <1>5, <2>1, <2>4, <2>5, <2>6 DEF Inside
<1>6. Between(m) => Between(m)'
  BY <1>4 DEF Between
<1>7. m > 0 /\ Inside(m) => Inside(m)'
  BY <1>5 DEF Inside
<1> QED BY <1>6, <1>7

\* A call keeps the invariant.
LEMMA SendLink ==
  ASSUME LinkInv, NEW s \in Sends, Send(s)
  PROVE  LinkInv'
<1>1. TypeOK /\ SenderInv /\ ReaderInv /\ ParserInv
  BY DEF LinkInv
<1>2. TypeOK' /\ SenderInv'
  BY <1>1, SendTypeOK, SendSender
<1>3. Len(log) \in Nat /\ Len(delivered) \in Nat /\ Len(stream) \in Nat
  BY <1>1, Entries
<1>4. UNCHANGED << taken, feeding, rbuf, need_more, last_data, state, packet_mask, channel_id,
                   data_buffer, channels_in, pac, aborted, delivered >>
  BY DEF Send, reader, parser
<1>5. Short' = Short /\ Pos' = Pos
  BY <1>4 DEF Short, IdLength, TimerLength, Untyped, Pos
<1>6. ReaderInv'
  <2>1. ASSUME NEW j \in 1 .. Len(rbuf) PROVE rbuf[j] = stream'[Pos + j]
    <3>1. rbuf[j] = stream[Pos + j] /\ Len(rbuf) <= taken /\ taken <= Len(stream)
          /\ taken \in Nat /\ Len(rbuf) \in Nat
      BY <1>1, <1>3 DEF ReaderInv, TypeOK, ReaderOK
    <3>2. Pos + j \in 1 .. Len(stream)
      BY <1>3, <3>1 DEF Pos
    <3> QED BY <1>1, <3>1, <3>2, SendOld
  <2> QED BY <1>1, <1>4, <1>5, <2>1 DEF ReaderInv
<1>7. DeliveredMatches'
  <2>1. ASSUME NEW i \in 1 .. Len(delivered), Clean(i)'
        PROVE  i <= Len(log') /\ Same(delivered[i], log'[i].call.pac)
    <3>1. Clean(i) /\ i \in Nat \ {0}
      BY <1>1, <1>3, <2>1, SendOld
    <3>2. i <= Len(log) /\ Same(delivered[i], log[i].call.pac)
      BY <1>1, <3>1 DEF ParserInv, DeliveredMatches
    <3>3. log'[i] = log[i] /\ Len(log') = Len(log) + 1
      BY <1>1, <1>3, <3>1, <3>2, SendOld
    <3> QED BY <1>3, <3>1, <3>2, <3>3
  <2> QED BY <1>4, <2>1 DEF DeliveredMatches
<1>8. ParserInv'
  <2>1. Between(Len(delivered)) => Between(Len(delivered))'
    BY <1>1, <1>3, <1>4, SendPlace
  <2>2. Inside(Len(delivered) + 1) => Inside(Len(delivered) + 1)'
    BY <1>1, <1>3, <1>4, SendPlace
  <2> QED BY <1>1, <1>4, <1>7, <2>1, <2>2 DEF ParserInv
<1> QED BY <1>2, <1>6, <1>8 DEF LinkInv

\* A step that leaves the sender and the parser alone leaves the parser's place alone.
LEMMA PlaceKept ==
  ASSUME UNCHANGED << log, delivered, parser, channels_in, pac, taken, rbuf >>,
         "receiver" \in aborted' => "receiver" \in aborted
  PROVE  ParserInv => ParserInv'
<1>1. UNCHANGED << state, packet_mask, channel_id, data_buffer >>
  BY DEF parser
<1>2. ASSUME NEW m PROVE Between(m) => Between(m)'
  BY DEF Between, Clean, TableAt, EndOf, Pos
<1>3. ASSUME NEW m PROVE Inside(m) => Inside(m)'
  <2>1. /\ TableAt(m)' = TableAt(m) /\ EndOf(m)' = EndOf(m)
        /\ TableAt(m - 1)' = TableAt(m - 1) /\ EndOf(m - 1)' = EndOf(m - 1)
        /\ Pac(m)' = Pac(m) /\ Clean(m)' = Clean(m) /\ Pos' = Pos
    BY DEF TableAt, EndOf, Pac, Clean, Pos
  <2>2. Mask(m)' = Mask(m)
    BY <2>1 DEF Mask, Ch
  <2> QED BY <1>1, <2>1, <2>2 DEF Inside
<1>4. DeliveredMatches => DeliveredMatches'
  BY DEF DeliveredMatches, Clean
<1> QED BY <1>1, <1>2, <1>3, <1>4 DEF ParserInv

\* So does its failed assertion.
LEMMA SendAbortLink ==
  ASSUME LinkInv, NEW s \in Sends, SendAbort(s)
  PROVE  LinkInv'
<1>1. TypeOK' /\ SenderInv'
  BY SendAbortTypeOK, SenderKept DEF LinkInv, SendAbort
<1>2. ReaderInv'
  BY DEF LinkInv, ReaderInv, SendAbort, sender, reader, parser, Pos, Short, IdLength,
         TimerLength, Untyped
<1>3. ParserInv'
  <2>1. UNCHANGED << log, delivered, parser, channels_in, pac, taken, rbuf >>
    BY DEF SendAbort, sender, reader
  <2>2. "receiver" \in aborted' => "receiver" \in aborted
    BY DEF SendAbort
  <2> QED BY <2>1, <2>2, PlaceKept DEF LinkInv
<1> QED BY <1>1, <1>2, <1>3 DEF LinkInv

\* A read: nothing was kept, so the buffer holds the next bytes of the stream.
LEMMA ReceiveLink ==
  ASSUME LinkInv, NEW n \in 1 .. BufSize, Receive(n)
  PROVE  LinkInv'
<1>1. TypeOK /\ SenderInv /\ ReaderInv /\ ParserInv
  BY DEF LinkInv
<1>2. TypeOK' /\ SenderInv'
  BY <1>1, ReceiveTypeOK, SenderKept DEF Receive
<1>3. /\ last_data = << >> /\ rbuf = << >> /\ state = 0 /\ pac = << >>
  BY <1>1 DEF ReaderInv, Receive
<1>4. /\ n \in Nat /\ n >= 1 /\ taken \in Nat /\ taken + n <= Len(stream)
      /\ stream \in Seq(Byte) /\ Len(stream) \in Nat
  BY <1>1 DEF Receive, TypeOK, SenderOK, ReaderOK
<1> DEFINE got == SubSeq(stream, taken + 1, taken + n)
<1>5. got \in Seq(Byte) /\ Len(got) = n /\ \A j \in 1 .. n : got[j] = stream[taken + j]
  <2>1. \A i \in taken + 1 .. taken + n : stream[i] \in Byte
    BY <1>4
  <2>2. got \in Seq(Byte) /\ Len(got) = n
    <3>1. /\ taken + 1 \in Int /\ taken + n \in Int /\ taken + 1 <= taken + n
          /\ (taken + n) - (taken + 1) + 1 = n
      BY <1>4
    <3> QED BY <2>1, <3>1, SubSeqProperties
  <2>3. ASSUME NEW j \in 1 .. n PROVE got[j] = stream[taken + j]
    BY <1>4
  <2> QED BY <2>2, <2>3
<1>6. rbuf' = SubSeq(<< >> \o got, 1, n) /\ taken' = taken + n /\ last_data' = << >>
      /\ need_more' = 0 /\ feeding' = TRUE
  BY <1>3 DEF Receive
<1> HIDE DEF got
<1>7. rbuf' = got
  BY <1>4, <1>5, <1>6
<1>8. Pos' = taken /\ Pos = taken
  BY <1>3, <1>4, <1>5, <1>6, <1>7 DEF Pos
<1>9. ReaderInv'
  <2>1. stream' = stream
    BY DEF Receive, sender
  <2>2. Len(rbuf') <= taken'
    BY <1>4, <1>5, <1>6, <1>7
  <2>3. \A j \in 1 .. Len(rbuf') : rbuf'[j] = stream'[Pos' + j]
    BY <1>5, <1>7, <1>8, <2>1
  <2> QED BY <1>6, <2>2, <2>3 DEF ReaderInv
<1>10. ParserInv'
  <2>1. UNCHANGED << log, delivered, state, channels_in, pac, aborted >>
    BY DEF Receive, sender, parser
  <2>2. ASSUME NEW m PROVE Between(m) => Between(m)'
    <3>1. Clean(m)' = Clean(m) /\ TableAt(m)' = TableAt(m) /\ EndOf(m)' = EndOf(m)
      BY <2>1 DEF Clean, TableAt, EndOf
    <3> QED BY <1>8, <2>1, <3>1 DEF Between
  <2>3. DeliveredMatches => DeliveredMatches'
    BY <2>1 DEF DeliveredMatches, Clean
  <2> QED BY <1>1, <1>3, <2>1, <2>2, <2>3 DEF ParserInv
<1> QED BY <1>2, <1>9, <1>10 DEF LinkInv

-----------------------------------------------------------------------------
(* The steps of the parser.                                                *)

\* What is left after k bytes, and how far the parser is then.
LEMMA Consumed ==
  ASSUME TypeOK, NEW k \in 0 .. Len(rbuf), rbuf' = SubSeq(rbuf, k + 1, Len(rbuf)), taken' = taken
  PROVE  /\ Len(rbuf') = Len(rbuf) - k /\ Pos' = Pos + k
         /\ \A j \in 1 .. Len(rbuf') : rbuf'[j] = rbuf[k + j]
<1>1. rbuf \in Seq(Byte) /\ Len(rbuf) \in Nat /\ taken \in Int
  BY DEF TypeOK, ReaderOK
<1>2. /\ Len(rbuf') = Len(rbuf) - k
      /\ \A j \in 1 .. Len(rbuf') : rbuf'[j] = rbuf[k + j]
  BY <1>1
<1>3. Pos' = Pos + k
  <2> DEFINE m == Len(rbuf)
             l == Len(rbuf')
  <2>1. m \in Int /\ l = m - k /\ k \in Int
    BY <1>1, <1>2
  <2>2. Pos = taken - m /\ Pos' = taken - l
    BY DEF Pos
  <2> HIDE DEF m, l
  <2> QED BY <1>1, <2>1, <2>2
<1> QED BY <1>2, <1>3

\* A step of the parser keeps the invariant if it keeps the parser's part, consumes bytes or
\* none, and asks for more only when there are too few.
LEMMA ParserStep ==
  ASSUME LinkInv, TypeOK', ParserFrame, feeding, ParserInv',
         rbuf' = rbuf \/ \E k \in 0 .. Len(rbuf) : rbuf' = SubSeq(rbuf, k + 1, Len(rbuf)),
         need_more' > 0 => pac' = << >> /\ Short'
  PROVE  LinkInv'
<1>1. TypeOK /\ SenderInv /\ ReaderInv
  BY DEF LinkInv
<1>2. SenderInv'
  BY <1>1, SenderKept DEF ParserFrame
<1>3. UNCHANGED << taken, feeding, last_data, stream >>
  BY DEF ParserFrame, sender
<1>4. rbuf \in Seq(Byte) /\ Len(rbuf) \in Nat /\ taken \in Nat
  BY <1>1 DEF TypeOK, ReaderOK
<1>5. Len(rbuf') <= taken' /\ \A j \in 1 .. Len(rbuf') : rbuf'[j] = stream'[Pos' + j]
  <2>1. CASE rbuf' = rbuf
    BY <1>1, <1>3, <2>1 DEF ReaderInv, Pos
  <2>2. CASE \E k \in 0 .. Len(rbuf) : rbuf' = SubSeq(rbuf, k + 1, Len(rbuf))
    <3>1. PICK k \in 0 .. Len(rbuf) : rbuf' = SubSeq(rbuf, k + 1, Len(rbuf))
      BY <2>2
    <3>2. /\ Len(rbuf') = Len(rbuf) - k /\ Pos' = Pos + k
          /\ \A j \in 1 .. Len(rbuf') : rbuf'[j] = rbuf[k + j]
      BY <1>1, <1>3, <3>1, Consumed
    <3>3. ASSUME NEW j \in 1 .. Len(rbuf') PROVE rbuf'[j] = stream'[Pos' + j]
      <4>1. k + j \in 1 .. Len(rbuf) /\ Pos + (k + j) = Pos' + j
        BY <1>4, <3>2 DEF Pos
      <4> QED BY <1>1, <1>3, <3>2, <4>1 DEF ReaderInv
    <3>4. Len(rbuf') <= taken'
      BY <1>1, <1>3, <1>4, <3>2 DEF ReaderInv
    <3> QED BY <3>3, <3>4
  <2> QED BY <2>1, <2>2
<1>6. ReaderInv'
  BY <1>1, <1>3, <1>5 DEF ReaderInv
<1> QED BY <1>2, <1>6 DEF LinkInv

\* A step inside the packet that is being received keeps the parser's part if it
\* moves the parser to where the sender was.
LEMMA InsideStep ==
  ASSUME ParserInv, UNCHANGED << log, delivered >>, NEW n, n = Len(delivered) + 1,
         state' \in 2 .. 6, pac' # << >> => state' \in {4, 6},
         Clean(n) =>
           /\ n <= Len(log)
           /\ channel_id' = Pac(n).channel_id /\ packet_mask' = Mask(n)
           /\ state' <= 4 => /\ pac' = << >> /\ channels_in' = TableAt(n - 1)
                             /\ Pos' = EndOf(n - 1) + 1
           /\ state' > 4 => /\ channels_in' = TableAt(n)
                            /\ pac' = << >> => Pos' = EndOf(n - 1) + 1 + HeaderLength(Mask(n))
           /\ state' = 6 => data_buffer' = Len(Pac(n).data)
           /\ pac' # << >> => Pos' = EndOf(n) /\ Same(pac'[1], Pac(n))
           /\ "receiver" \in aborted' => taken' < EndOf(n)
  PROVE  ParserInv'
<1>1. /\ TableAt(n)' = TableAt(n) /\ EndOf(n)' = EndOf(n)
      /\ TableAt(n - 1)' = TableAt(n - 1) /\ EndOf(n - 1)' = EndOf(n - 1)
      /\ Pac(n)' = Pac(n) /\ Clean(n)' = Clean(n)
  BY DEF TableAt, EndOf, Pac, Clean
<1>2. Mask(n)' = Mask(n)
  BY <1>1 DEF Mask, Ch
<1>3. Inside(n)'
  BY <1>1, <1>2 DEF Inside
<1>4. DeliveredMatches'
  BY DEF ParserInv, DeliveredMatches, Clean
<1>5. Inside(Len(delivered) + 1)'
  BY <1>3
<1> QED BY <1>4, <1>5 DEF ParserInv

\* The parts that every step of the parser starts from.
LEMMA Parts ==
  ASSUME LinkInv
  PROVE  /\ TypeOK /\ SenderInv /\ ReaderInv /\ ParserInv
         /\ rbuf \in Seq(Byte) /\ Len(rbuf) \in Nat /\ taken \in Nat
         /\ Len(log) \in Nat /\ Len(delivered) \in Nat /\ Len(stream) \in Nat
         /\ taken <= Len(stream) /\ Pos \in Int /\ need_more \in Nat
<1>1. TypeOK /\ SenderInv /\ ReaderInv /\ ParserInv
  BY DEF LinkInv
<1>2. /\ rbuf \in Seq(Byte) /\ Len(rbuf) \in Nat /\ need_more \in Nat
      /\ taken \in Nat /\ taken <= Len(stream)
  BY <1>1, Entries DEF TypeOK, ReaderOK
<1>3. Pos \in Int
  BY <1>2 DEF Pos
<1> QED BY <1>1, <1>2, <1>3, Entries

\* What is known of the packet that is being received, if the calls were disciplined.
LEMMA Receiving ==
  ASSUME LinkInv, state > 1, NEW n, n = Len(delivered) + 1, Clean(n)
  PROVE  /\ n \in 1 .. Len(log) /\ Inside(n)
         /\ channel_id = Pac(n).channel_id /\ channel_id \in {2, 3}
         /\ packet_mask = Mask(n)
<1>1. /\ ParserInv /\ Len(log) \in Nat /\ Len(delivered) \in Nat /\ TypeOK /\ SenderInv
  BY Parts
<1>2. Inside(n)
  BY <1>1 DEF ParserInv
<1>3. n <= Len(log) /\ channel_id = Pac(n).channel_id /\ packet_mask = Mask(n)
  BY <1>2 DEF Inside
<1>4. n \in 1 .. Len(log)
  BY <1>1, <1>3
<1>5. channel_id \in {2, 3}
  <2>1. log[n].call \in Sends /\ Disciplined(log[n].call)
    BY <1>1, <1>4, PacketAt
  <2> QED BY <1>3, <2>1, DisciplinedCall DEF Pac
<1> QED BY <1>2, <1>3, <1>4, <1>5

\* The parser starts with the bytes it has.
LEMMA StartReceiveLink == ASSUME LinkInv, StartReceive, TypeOK' PROVE LinkInv'
<1>1. /\ rbuf' = rbuf /\ need_more' = 0 /\ state = 0 /\ state' = 1 /\ feeding
      /\ pac = << >> /\ pac' = << >> /\ ParserFrame /\ aborted' = aborted
      /\ "receiver" \notin aborted /\ channels_in' = channels_in
  BY DEF StartReceive, Parsing, reader
<1>2. UNCHANGED << log, delivered, taken >>
  BY <1>1 DEF ParserFrame, sender
<1>3. ASSUME NEW m PROVE Between(m) => Between(m)'
  BY <1>1, <1>2 DEF Between, Clean, TableAt, EndOf, Pos
<1>4. DeliveredMatches => DeliveredMatches'
  BY <1>2 DEF DeliveredMatches, Clean
<1>5. ParserInv'
  BY <1>1, <1>2, <1>3, <1>4 DEF LinkInv, ParserInv
<1> QED BY <1>1, <1>5, ParserStep

\* r1 reads the first byte of the next packet.
LEMMA GetR1Link == ASSUME LinkInv, GetR1, TypeOK' PROVE LinkInv'
<1> DEFINE d == Len(delivered)
           n == d + 1
<1>1. /\ TypeOK /\ SenderInv /\ ReaderInv /\ ParserInv
      /\ rbuf \in Seq(Byte) /\ Len(rbuf) \in Nat /\ taken \in Nat
      /\ Len(log) \in Nat /\ d \in Nat /\ Len(stream) \in Nat
      /\ taken <= Len(stream) /\ Pos \in Int /\ need_more \in Nat
  BY Parts
<1>2. /\ state = 1 /\ state' = 2 /\ feeding /\ pac = << >> /\ pac' = << >> /\ ParserFrame
      /\ "receiver" \notin aborted /\ aborted' = aborted /\ channels_in' = channels_in
      /\ packet_mask' = rbuf[1] \div 64 /\ channel_id' = rbuf[1] % 64
      /\ rbuf' = SubSeq(rbuf, 1 + 1, Len(rbuf)) /\ need_more' = need_more
  BY DEF GetR1, Parsing, Consume
<1>3. UNCHANGED << log, delivered, taken >>
  BY <1>2 DEF ParserFrame, sender
<1>4. rbuf # << >> /\ 1 \in 0 .. Len(rbuf)
  <2>1. rbuf # << >>
    BY <1>1, <1>2 DEF TypeOK, ParserOK
  <2> QED BY <1>1, <2>1
<1>5. Pos' = Pos + 1
  BY <1>1, <1>2, <1>3, <1>4, Consumed
<1>6. ASSUME Clean(n)
      PROVE  /\ n \in 1 .. Len(log) /\ channels_in = TableAt(n - 1) /\ Pos = EndOf(n - 1)
             /\ rbuf[1] = Hd(n)
  <2>1. Clean(d)
    BY <1>1, <1>6, CleanPrefix
  <2>2. d <= Len(log) /\ channels_in = TableAt(d) /\ Pos = EndOf(d)
    BY <1>1, <1>2, <2>1 DEF ParserInv, Between
  <2>3. d # Len(log)
    <3>1. taken = Pos + Len(rbuf) /\ Len(rbuf) >= 1
      BY <1>1, <1>4 DEF Pos
    <3>2. Len(stream) = EndOf(Len(log))
      BY <1>1 DEF SenderInv
    <3> QED BY <1>1, <2>2, <3>1, <3>2
  <2>4. n \in 1 .. Len(log) /\ n - 1 = d
    BY <1>1, <2>2, <2>3
  <2>5. stream[EndOf(d) + 1] = Hd(n)
    BY <1>1, <1>6, <2>4, PacketAt
  <2>6. rbuf[1] = stream[Pos + 1]
    BY <1>1, <1>4 DEF ReaderInv
  <2> QED BY <2>2, <2>4, <2>5, <2>6
<1>7. ASSUME Clean(n)
      PROVE  channel_id' = Pac(n).channel_id /\ packet_mask' = Mask(n)
  <2> DEFINE m == Mask(n)
             c == Pac(n).channel_id
  <2>1. c \in {2, 3}
    <3>1. log[n].call \in Sends /\ Disciplined(log[n].call)
      BY <1>1, <1>6, <1>7, PacketAt
    <3> QED BY <3>1, DisciplinedCall DEF Pac
  <2>2. m \in 0 .. 3
    BY MaskBits DEF Mask
  <2>3. rbuf[1] = m * 64 + c
    BY <1>6, <1>7, Zenon DEF Hd, First, Mask, Pac
  <2> HIDE DEF m, c
  <2>4. (m * 64 + c) \div 64 = m /\ (m * 64 + c) % 64 = c
    <3> DEFINE e == m * 64 + c
    <3>1. e \in Int /\ c \in Int /\ m \in Int /\ 0 <= c /\ c < 64 /\ e = 64 * m + c
      BY <2>1, <2>2
    <3> HIDE DEF e
    <3>2. e \div 64 = m /\ e % 64 = c
      BY <3>1, DivModUnique
    <3> QED BY <3>2 DEF e
  <2>5. packet_mask' = m /\ channel_id' = c
    BY <1>2, <2>3, <2>4, Zenon
  <2> QED BY <2>5 DEF m, c
<1>8. ParserInv'
  <2>1. n = Len(delivered) + 1 /\ state' \in 2 .. 6 /\ ~(state' > 4) /\ state' # 6
    BY <1>2
  <2>2. ASSUME Clean(n)
        PROVE  n <= Len(log) /\ channels_in' = TableAt(n - 1) /\ Pos' = EndOf(n - 1) + 1
    BY <1>2, <1>5, <1>6, <2>2
  <2> HIDE DEF n
  <2> QED BY <1>1, <1>2, <1>3, <1>7, <2>1, <2>2, InsideStep
<1>9. need_more' = 0
  BY <1>1, <1>2 DEF ReaderInv, Short
<1> QED BY <1>2, <1>4, <1>8, <1>9, ParserStep

\* The channels of disciplined calls have short ids: r2 has nothing to read.
LEMMA GetR2Link == ASSUME LinkInv, GetR2, TypeOK' PROVE LinkInv'
<1> DEFINE n == Len(delivered) + 1
<1>1. /\ TypeOK /\ SenderInv /\ ReaderInv /\ ParserInv
      /\ rbuf \in Seq(Byte) /\ Len(rbuf) \in Nat /\ need_more \in Nat
  BY Parts
<1>2. /\ state = 2 /\ state' = 3 /\ feeding /\ pac = << >> /\ pac' = << >> /\ ParserFrame
      /\ "receiver" \notin aborted /\ aborted' = aborted /\ channels_in' = channels_in
      /\ packet_mask' = packet_mask /\ Len(rbuf) >= IdLength
      /\ rbuf' = SubSeq(rbuf, IdLength + 1, Len(rbuf)) /\ need_more' = need_more
      /\ channel_id' = CASE IdLength = 1 -> 64 + rbuf[1]
                         [] IdLength = 2 -> 64 + ReadShort(rbuf, 1)
                         [] OTHER        -> channel_id
  BY DEF GetR2, Parsing, Consume
<1>3. UNCHANGED << log, delivered, taken >>
  BY <1>2 DEF ParserFrame, sender
<1>4. IdLength \in 0 .. Len(rbuf)
  BY <1>1, <1>2 DEF IdLength
<1>5. Pos' = Pos + IdLength
  BY <1>1, <1>2, <1>3, <1>4, Consumed
<1>6. ASSUME Clean(n)
      PROVE  /\ n <= Len(log) /\ channel_id' = Pac(n).channel_id /\ packet_mask' = Mask(n)
             /\ channels_in' = TableAt(n - 1) /\ Pos' = EndOf(n - 1) + 1
  <2>1. /\ n \in 1 .. Len(log) /\ Inside(n) /\ channel_id = Pac(n).channel_id
        /\ channel_id \in {2, 3} /\ packet_mask = Mask(n)
    BY <1>2, <1>6, Receiving
  <2>2. IdLength = 0 /\ channel_id' = channel_id
    BY <1>2, <2>1 DEF IdLength
  <2>3. channels_in = TableAt(n - 1) /\ Pos = EndOf(n - 1) + 1
    BY <1>2, <1>6, <2>1 DEF Inside
  <2>4. Pos' = Pos
    BY <1>5, <2>2, Parts
  <2>5. n <= Len(log)
    BY <2>1
  <2> QED BY <1>2, <2>1, <2>2, <2>3, <2>4, <2>5
<1>7. ParserInv'
  <2>1. n = Len(delivered) + 1 /\ state' \in 2 .. 6 /\ ~(state' > 4) /\ state' # 6
    BY <1>2
  <2> HIDE DEF n
  <2> QED BY <1>1, <1>2, <1>3, <1>6, <2>1, InsideStep
<1>8. need_more' = 0
  <2>1. ~Short
    BY <1>1, <1>2, <1>4 DEF Short
  <2> QED BY <1>1, <1>2, <2>1 DEF ReaderInv
<1>9. \E k \in 0 .. Len(rbuf) : rbuf' = SubSeq(rbuf, k + 1, Len(rbuf))
  BY <1>2, <1>4
<1>10. ~(need_more' > 0) /\ feeding /\ ParserFrame
  BY <1>2, <1>8
<1> QED BY <1>7, <1>9, <1>10, ParserStep, Zenon

\* r3 looks at the channel id.
LEMMA GetR3Link == ASSUME LinkInv, GetR3, TypeOK' PROVE LinkInv'
<1> DEFINE n == Len(delivered) + 1
<1>1. /\ TypeOK /\ SenderInv /\ ReaderInv /\ ParserInv
      /\ rbuf \in Seq(Byte) /\ Len(rbuf) \in Nat /\ need_more \in Nat
  BY Parts
<1>2. /\ state = 3 /\ state' = 4 /\ feeding /\ pac = << >> /\ pac' = << >> /\ ParserFrame
      /\ "receiver" \notin aborted /\ aborted' = aborted /\ channels_in' = channels_in
      /\ packet_mask' = packet_mask /\ channel_id' = channel_id
      /\ rbuf' = rbuf /\ need_more' = need_more
  BY DEF GetR3, Parsing, reader
<1>3. UNCHANGED << log, delivered, taken >> /\ Pos' = Pos
  BY <1>2 DEF ParserFrame, sender, Pos
<1>4. ASSUME Clean(n)
      PROVE  /\ n <= Len(log) /\ channel_id' = Pac(n).channel_id /\ packet_mask' = Mask(n)
             /\ channels_in' = TableAt(n - 1) /\ Pos' = EndOf(n - 1) + 1
  <2>1. /\ n \in 1 .. Len(log) /\ Inside(n) /\ channel_id = Pac(n).channel_id
        /\ packet_mask = Mask(n)
    BY <1>2, <1>4, Receiving
  <2>2. n <= Len(log) /\ channels_in = TableAt(n - 1) /\ Pos = EndOf(n - 1) + 1
    BY <1>2, <1>4, <2>1 DEF Inside
  <2> QED BY <1>2, <1>3, <2>1, <2>2
<1>5. ParserInv'
  <2>1. n = Len(delivered) + 1 /\ state' \in 2 .. 6 /\ ~(state' > 4) /\ state' # 6
    BY <1>2
  <2> HIDE DEF n
  <2> QED BY <1>1, <1>2, <1>3, <1>4, <2>1, InsideStep
<1>6. need_more' = 0
  BY <1>1, <1>2 DEF ReaderInv, Short
<1> QED BY <1>2, <1>5, <1>6, ParserStep

\* In the fields of a disciplined packet the receiver reads the sender's header.
LEMMA HeaderRead ==
  ASSUME LinkInv, state = 4, NEW n, n = Len(delivered) + 1, Clean(n),
         Len(rbuf) >= HeaderLength(packet_mask)
  PROVE  /\ ReadChannel(channels_in[channel_id], packet_mask, rbuf) = Header(Pac(n))
         /\ [channels_in EXCEPT ![channel_id] = Header(Pac(n))] = TableAt(n)
         /\ Pos = EndOf(n - 1) + 1 /\ Len(Pac(n).data) < LargeSize
<1>1. /\ TypeOK /\ SenderInv /\ ReaderInv /\ n \in 1 .. Len(log) /\ Inside(n)
      /\ channel_id = Pac(n).channel_id /\ packet_mask = Mask(n)
  BY Parts, Receiving
<1>2. channels_in = TableAt(n - 1) /\ Pos = EndOf(n - 1) + 1
  BY <1>1 DEF Inside
<1>3. /\ log[n].call \in Sends /\ Disciplined(log[n].call) /\ Ch(n) \in CleanChannel
      /\ Fl(n) \in Seq(Byte) /\ Len(Fl(n)) = HeaderLength(Mask(n))
      /\ \A j \in 1 .. Len(Fl(n)) : stream[EndOf(n - 1) + 1 + j] = Fl(n)[j]
      /\ TableAt(n) = [TableAt(n - 1) EXCEPT ![Pac(n).channel_id] = Header(Pac(n))]
  BY <1>1, PacketAt
<1>4. PICK rest \in Seq(Byte) : rbuf = Fl(n) \o rest
  <2>1. \A j \in 1 .. Len(Fl(n)) : stream[Pos + j] = Fl(n)[j]
    BY <1>2, <1>3
  <2>2. Len(Fl(n)) <= Len(rbuf)
    BY <1>1, <1>3, Parts
  <2> QED BY <1>1, <1>3, <2>1, <2>2, Buffered
<1>5. ReadChannel(Ch(n), Mask(n), rbuf) = Header(Pac(n))
  <2> DEFINE s == log[n].call
  <2>1. ReadChannel(Ch(n), PacketMask(Ch(n), s.pac), Fields(s, Ch(n)) \o rest) = Header(s.pac)
    BY <1>3, DisciplinedRead
  <2> QED BY <1>4, <2>1, Zenon DEF Fl, Mask, Pac
<1>6. channels_in[channel_id] = Ch(n)
  BY <1>1, <1>2 DEF Ch
<1>7. Len(Pac(n).data) < LargeSize
  BY <1>3, DisciplinedCall DEF Pac
<1> QED BY <1>1, <1>2, <1>3, <1>5, <1>6, <1>7

\* r4 takes over the sender's header; a disciplined packet is not too large.
LEMMA GetR4Link == ASSUME LinkInv, GetR4, TypeOK' PROVE LinkInv'
<1> DEFINE n  == Len(delivered) + 1
           h  == HeaderLength(packet_mask)
           ch == ReadChannel(channels_in[channel_id], packet_mask, rbuf)
<1>1. /\ TypeOK /\ SenderInv /\ ReaderInv /\ ParserInv
      /\ rbuf \in Seq(Byte) /\ Len(rbuf) \in Nat /\ need_more \in Nat /\ Pos \in Int
  BY Parts
<1>2. /\ state = 4 /\ feeding /\ pac = << >> /\ ParserFrame /\ "receiver" \notin aborted
      /\ aborted' = aborted /\ packet_mask' = packet_mask /\ channel_id' = channel_id
      /\ channels_in' = [channels_in EXCEPT ![channel_id] = ch] /\ Len(rbuf) >= h
  BY DEF GetR4, Parsing
<1>3. UNCHANGED << log, delivered, taken >>
  BY <1>2 DEF ParserFrame, sender
<1>4. h \in 0 .. Len(rbuf)
  <2>1. h \in Nat
    BY <1>1, Lengths DEF TypeOK, ParserOK
  <2> QED BY <1>1, <1>2, <2>1
<1>5. need_more' = 0
  <2>1. need_more' = need_more
    BY DEF GetR4, Consume
  <2>2. ~Short
    BY <1>1, <1>2, <1>4 DEF Short
  <2> QED BY <1>1, <2>1, <2>2 DEF ReaderInv
<1>6. ASSUME Clean(n)
      PROVE  /\ ch = Header(Pac(n)) /\ channels_in' = TableAt(n) /\ Pos = EndOf(n - 1) + 1
             /\ ~(ch.size >= LargeSize) /\ n <= Len(log) /\ channel_id = Pac(n).channel_id
             /\ packet_mask = Mask(n)
  <2>1. /\ ch = Header(Pac(n)) /\ Pos = EndOf(n - 1) + 1
        /\ [channels_in EXCEPT ![channel_id] = Header(Pac(n))] = TableAt(n)
        /\ Len(Pac(n).data) < LargeSize
    BY <1>2, <1>6, HeaderRead
  <2>2. /\ n \in 1 .. Len(log) /\ channel_id = Pac(n).channel_id /\ packet_mask = Mask(n)
    BY <1>2, <1>6, Receiving
  <2>3. Len(Pac(n).data) \in Nat
    <3>1. log[n].call \in Sends /\ Disciplined(log[n].call)
      BY <1>1, <1>6, <2>2, PacketAt
    <3> QED BY <3>1, DisciplinedCall DEF Pac
  <2> HIDE DEF ch
  <2>4. ch.size = Len(Pac(n).data) /\ LargeSize \in Nat
    BY <2>1, SizesAssumption DEF Header, SizesAssumption
  <2>5. ~(ch.size >= LargeSize)
    BY <2>1, <2>3, <2>4
  <2>6. n <= Len(log)
    BY <2>2
  <2> QED BY <1>2, <2>1, <2>2, <2>5, <2>6
<1>7. CASE ch.size >= LargeSize
  <2>1. state' = 4
    BY <1>2, <1>7 DEF GetR4
  <2>2. rbuf' = SubSeq(rbuf, Len(rbuf) + 1, Len(rbuf)) /\ Len(rbuf) \in 0 .. Len(rbuf)
    BY <1>1, <1>7 DEF GetR4, Consume
  <2>3. n = Len(delivered) + 1 /\ ~Clean(n)
    BY <1>6, <1>7
  <2> HIDE DEF n, h, ch
  <2>4. ParserInv'
    BY <1>1, <1>3, <2>1, <2>3, InsideStep
  <2>5. \E k \in 0 .. Len(rbuf) : rbuf' = SubSeq(rbuf, k + 1, Len(rbuf))
    BY <2>2
  <2> QED BY <1>2, <1>5, <2>4, <2>5, ParserStep
<1>8. CASE ~(ch.size >= LargeSize)
  <2>1. state' = 5 /\ pac' = << >>
    BY <1>2, <1>8 DEF GetR4
  <2>2. rbuf' = SubSeq(rbuf, h + 1, Len(rbuf))
    BY <1>8 DEF GetR4, Consume
  <2>3. Pos' = Pos + h
    BY <1>1, <1>3, <1>4, <2>2, Consumed
  <2>4. \E k \in 0 .. Len(rbuf) : rbuf' = SubSeq(rbuf, k + 1, Len(rbuf))
    BY <1>4, <2>2
  <2>5. n = Len(delivered) + 1 /\ state' \in 2 .. 6 /\ ~(state' <= 4) /\ state' # 6
    BY <2>1
  <2>6. ASSUME Clean(n) PROVE Pos' = EndOf(n - 1) + 1 + HeaderLength(Mask(n))
    BY <1>6, <2>3, <2>6
  <2> HIDE DEF n, h, ch
  <2>7. ParserInv'
    BY <1>1, <1>2, <1>3, <1>6, <2>1, <2>5, <2>6, InsideStep
  <2> QED BY <1>2, <1>5, <2>1, <2>4, <2>7, ParserStep
<1> QED BY <1>7, <1>8

\* From r5 on the table has the header of the packet, and the parser is at its body.
LEMMA BodyPlace ==
  ASSUME LinkInv, state > 4, pac = << >>, NEW n, n = Len(delivered) + 1, Clean(n)
  PROVE  /\ n \in 1 .. Len(log) /\ channels_in = TableAt(n)
         /\ Pos = EndOf(n - 1) + 1 + HeaderLength(Mask(n))
         /\ channels_in[channel_id] = Header(Pac(n))
         /\ Pac(n).timer < ExtendedTimer /\ Pac(n).timer \in Nat
         /\ Pac(n).data_type # 0 /\ Pac(n).stream_id = 0
         /\ Len(Pac(n).data) \in Nat
         /\ channel_id = Pac(n).channel_id /\ channel_id \in {2, 3} /\ packet_mask = Mask(n)
         /\ state = 6 => data_buffer = Len(Pac(n).data)
<1>1. TypeOK /\ SenderInv /\ Len(log) \in Nat
  BY Parts
<1>2. state \in 0 .. 6
  BY <1>1 DEF TypeOK, ParserOK
<1>3. /\ n \in 1 .. Len(log) /\ Inside(n)
      /\ channel_id = Pac(n).channel_id /\ channel_id \in {2, 3} /\ packet_mask = Mask(n)
  BY <1>2, Receiving
<1>4. /\ channels_in = TableAt(n) /\ Pos = EndOf(n - 1) + 1 + HeaderLength(Mask(n))
      /\ state = 6 => data_buffer = Len(Pac(n).data)
  BY <1>3 DEF Inside
<1>5. /\ log[n].call \in Sends /\ Disciplined(log[n].call)
      /\ TableAt(n) = [TableAt(n - 1) EXCEPT ![Pac(n).channel_id] = Header(Pac(n))]
  BY <1>1, <1>3, PacketAt
<1>6. /\ Pac(n).timer < ExtendedTimer /\ Pac(n).timer \in Nat /\ Len(Pac(n).data) \in Nat
      /\ Pac(n).data_type # 0 /\ Pac(n).stream_id = 0
  BY <1>5, DisciplinedCall DEF Pac
<1>7. n - 1 \in 0 .. Len(log)
  BY <1>1, <1>3
<1>8. TableAt(n - 1) \in Channels /\ channel_id \in 0 .. NumChannels - 1
  BY <1>1, <1>3, <1>7, Entries, Sizes
<1>9. channels_in[channel_id] = Header(Pac(n))
  BY <1>3, <1>4, <1>5, <1>8 DEF Channels
<1> QED BY <1>3, <1>4, <1>6, <1>9

\* r5 finds no long timer.
LEMMA GetR5Link == ASSUME LinkInv, GetR5, TypeOK' PROVE LinkInv'
<1> DEFINE n == Len(delivered) + 1
<1>1. /\ TypeOK /\ SenderInv /\ ReaderInv /\ ParserInv
      /\ rbuf \in Seq(Byte) /\ Len(rbuf) \in Nat /\ need_more \in Nat /\ Pos \in Int
  BY Parts
<1>2. /\ state = 5 /\ state' = 6 /\ feeding /\ pac = << >> /\ pac' = << >> /\ ParserFrame
      /\ "receiver" \notin aborted /\ aborted' = aborted /\ channels_in' = channels_in
      /\ packet_mask' = packet_mask /\ channel_id' = channel_id
      /\ data_buffer' = channels_in[channel_id].size /\ Len(rbuf) >= TimerLength
      /\ rbuf' = SubSeq(rbuf, TimerLength + 1, Len(rbuf)) /\ need_more' = need_more
  BY DEF GetR5, Parsing, Consume
<1>3. UNCHANGED << log, delivered, taken >>
  BY <1>2 DEF ParserFrame, sender
<1>4. TimerLength \in 0 .. Len(rbuf)
  BY <1>1, <1>2, Lengths
<1>5. Pos' = Pos + TimerLength
  BY <1>1, <1>2, <1>3, <1>4, Consumed
<1>6. ASSUME Clean(n)
      PROVE  /\ n <= Len(log) /\ channel_id' = Pac(n).channel_id /\ packet_mask' = Mask(n)
             /\ channels_in' = TableAt(n) /\ data_buffer' = Len(Pac(n).data)
             /\ Pos' = EndOf(n - 1) + 1 + HeaderLength(Mask(n))
  <2>1. /\ n \in 1 .. Len(log) /\ channels_in = TableAt(n)
        /\ Pos = EndOf(n - 1) + 1 + HeaderLength(Mask(n))
        /\ channels_in[channel_id] = Header(Pac(n))
        /\ Pac(n).timer < ExtendedTimer /\ Pac(n).timer \in Nat
        /\ channel_id = Pac(n).channel_id /\ packet_mask = Mask(n)
    BY <1>2, <1>6, BodyPlace
  <2>2. Header(Pac(n)).timer = Pac(n).timer /\ Header(Pac(n)).size = Len(Pac(n).data)
    BY DEF Header
  <2>3. TimerLength = 0
    BY <2>1, <2>2, TimerNat DEF TimerLength
  <2>4. Pos' = Pos /\ n <= Len(log)
    BY <1>1, <1>5, <2>1, <2>3
  <2> QED BY <1>2, <2>1, <2>2, <2>4
<1>7. ParserInv'
  <2>1. n = Len(delivered) + 1 /\ state' \in 2 .. 6 /\ ~(state' <= 4)
    BY <1>2
  <2> HIDE DEF n
  <2> QED BY <1>1, <1>2, <1>3, <1>6, <2>1, InsideStep
<1>8. need_more' = 0
  <2>1. ~Short
    BY <1>1, <1>2, <1>4 DEF Short
  <2> QED BY <1>1, <1>2, <2>1 DEF ReaderInv
<1>9. \E k \in 0 .. Len(rbuf) : rbuf' = SubSeq(rbuf, k + 1, Len(rbuf))
  BY <1>2, <1>4
<1>10. ~(need_more' > 0) /\ feeding /\ ParserFrame
  BY <1>2, <1>8
<1> QED BY <1>7, <1>9, <1>10, ParserStep, Zenon

\* In the body of a disciplined packet the receiver reads the sender's data, once it is there.
LEMMA BodyRead ==
  ASSUME LinkInv, state = 6, pac = << >>, NEW n, n = Len(delivered) + 1, Clean(n)
  PROVE  /\ BodyLength(data_buffer, ChunkSize, 1) = Len(Bd(n)) /\ Len(Bd(n)) \in Nat
         /\ Pos + Len(Bd(n)) = EndOf(n)
         /\ Len(rbuf) >= Len(Bd(n))
              => Unchunked(rbuf, data_buffer, ChunkSize, 1) = Pac(n).data
<1>1. TypeOK /\ SenderInv /\ ReaderInv /\ Len(rbuf) \in Nat
  BY Parts
<1>2. /\ n \in 1 .. Len(log) /\ Pos = EndOf(n - 1) + 1 + HeaderLength(Mask(n))
      /\ data_buffer = Len(Pac(n).data)
  BY BodyPlace
<1>3. /\ log[n].call \in Sends /\ Disciplined(log[n].call) /\ Ch(n) \in CleanChannel
      /\ EndOf(n - 1) \in Nat /\ EndOf(n) = EndOf(n - 1) + 1 + Len(Fl(n)) + Len(Bd(n))
      /\ Bd(n) \in Seq(Byte) /\ Len(Fl(n)) = HeaderLength(Mask(n)) /\ Fl(n) \in Seq(Byte)
      /\ \A j \in 1 .. Len(Bd(n)) : stream[EndOf(n - 1) + 1 + Len(Fl(n)) + j] = Bd(n)[j]
  BY <1>1, <1>2, PacketAt
<1> DEFINE s == log[n].call
<1>4. ASSUME NEW rest \in Seq(Byte)
      PROVE  /\ BodyLength(Len(s.pac.data), ChunkSize, 1) = Len(Body(s))
             /\ Unchunked(Body(s) \o rest, Len(s.pac.data), ChunkSize, 1) = s.pac.data
  BY <1>3, FramedBody DEF Disciplined
<1>5. BodyLength(data_buffer, ChunkSize, 1) = Len(Bd(n))
  <2>1. << >> \in Seq(Byte)
    OBVIOUS
  <2>2. BodyLength(Len(s.pac.data), ChunkSize, 1) = Len(Body(s))
    BY <1>4, <2>1
  <2> QED BY <1>2, <2>2, Zenon DEF Bd, Pac
<1>6. Pos + Len(Bd(n)) = EndOf(n) /\ Len(Bd(n)) \in Nat
  <2> DEFINE a == EndOf(n - 1)
             f == Len(Fl(n))
             b == Len(Bd(n))
  <2>1. a \in Nat /\ f \in Nat /\ b \in Nat /\ EndOf(n) = a + 1 + f + b /\ Pos = a + 1 + f
    BY <1>2, <1>3
  <2> HIDE DEF a, f, b
  <2>2. Pos + b = EndOf(n)
    BY <2>1
  <2> QED BY <2>1, <2>2 DEF b
<1>7. ASSUME Len(rbuf) >= Len(Bd(n))
      PROVE  Unchunked(rbuf, data_buffer, ChunkSize, 1) = Pac(n).data
  <2>1. \A j \in 1 .. Len(Bd(n)) : stream[Pos + j] = Bd(n)[j]
    BY <1>2, <1>3
  <2>2. Len(Bd(n)) <= Len(rbuf)
    BY <1>1, <1>6, <1>7
  <2>3. PICK rest \in Seq(Byte) : rbuf = Bd(n) \o rest
    BY <1>1, <1>3, <2>1, <2>2, Buffered
  <2>4. Unchunked(Body(s) \o rest, Len(s.pac.data), ChunkSize, 1) = s.pac.data
    BY <1>4
  <2> QED BY <1>2, <2>3, <2>4, Zenon DEF Bd, Pac
<1> QED BY <1>5, <1>6, <1>7

\* r6 returns the packet that was sent.
LEMMA GetR6Link == ASSUME LinkInv, GetR6, TypeOK' PROVE LinkInv'
<1> DEFINE n    == Len(delivered) + 1
           l    == BodyLength(data_buffer, ChunkSize, 1)
           ch   == channels_in[channel_id]
           data == Unchunked(rbuf, data_buffer, ChunkSize, 1)
           d    == [channel_id |-> channel_id, channel |-> ch, data |-> data]
<1>1. /\ TypeOK /\ SenderInv /\ ReaderInv /\ ParserInv
      /\ rbuf \in Seq(Byte) /\ Len(rbuf) \in Nat /\ need_more \in Nat /\ Pos \in Int
  BY Parts
<1>2. /\ state = 6 /\ state' = 6 /\ feeding /\ pac = << >> /\ ParserFrame
      /\ "receiver" \notin aborted /\ aborted' = aborted /\ channels_in' = channels_in
      /\ packet_mask' = packet_mask /\ channel_id' = channel_id /\ data_buffer' = data_buffer
      /\ ~Untyped /\ need_more' = need_more
  BY DEF GetR6, Parsing, Consume, parser
<1>3. SeparatorLength(channel_id) = 1
  BY <1>1, InTable DEF GetR6
<1>4. pac' = << d >> /\ Len(rbuf) >= l /\ rbuf' = SubSeq(rbuf, l + 1, Len(rbuf))
  BY <1>3, Zenon DEF GetR6, Returned, Consume
<1>5. UNCHANGED << log, delivered, taken >>
  BY <1>2 DEF ParserFrame, sender
<1>6. l \in 0 .. Len(rbuf)
  <2>1. l \in Nat
    BY <1>1, <1>4, Sizes, UnchunkedType DEF TypeOK, ParserOK
  <2> QED BY <1>1, <1>4, <2>1
<1> HIDE DEF l
<1>7. Pos' = Pos + l
  BY <1>1, <1>4, <1>5, <1>6, Consumed
<1>8. ASSUME Clean(n)
      PROVE  /\ n <= Len(log) /\ channel_id' = Pac(n).channel_id /\ packet_mask' = Mask(n)
             /\ channels_in' = TableAt(n) /\ data_buffer' = Len(Pac(n).data)
             /\ Pos' = EndOf(n) /\ Same(d, Pac(n))
  <2>1. /\ n \in 1 .. Len(log) /\ channels_in = TableAt(n) /\ ch = Header(Pac(n))
        /\ Pac(n).stream_id = 0 /\ data_buffer = Len(Pac(n).data)
        /\ channel_id = Pac(n).channel_id /\ packet_mask = Mask(n)
    BY <1>2, <1>8, BodyPlace
  <2>2. l = Len(Bd(n)) /\ Pos + l = EndOf(n) /\ data = Pac(n).data
    BY <1>2, <1>4, <1>8, BodyRead DEF l
  <2>3. d.channel_id = channel_id /\ d.channel = ch /\ d.data = data
    OBVIOUS
  <2> HIDE DEF d, ch, data
  <2>4. Same(d, Pac(n))
    BY <2>1, <2>2, <2>3 DEF Same, Header
  <2>5. n <= Len(log)
    BY <2>1
  <2> QED BY <1>2, <1>7, <2>1, <2>2, <2>4, <2>5
<1> HIDE DEF d
<1>9. ParserInv'
  <2>1. /\ n = Len(delivered) + 1 /\ state' \in 2 .. 6 /\ ~(state' <= 4) /\ pac'[1] = d
        /\ pac' # << >> /\ state' \in {4, 6}
    BY <1>2, <1>4
  <2> HIDE DEF n
  <2> QED BY <1>1, <1>2, <1>5, <1>8, <2>1, InsideStep
<1>10. need_more' = 0
  <2>1. ~Short
    BY <1>2 DEF Short
  <2> QED BY <1>1, <1>2, <2>1 DEF ReaderInv
<1>11. \E k \in 0 .. Len(rbuf) : rbuf' = SubSeq(rbuf, k + 1, Len(rbuf))
  BY <1>4, <1>6
<1>12. ~(need_more' > 0) /\ feeding /\ ParserFrame
  BY <1>2, <1>10
<1> QED BY <1>9, <1>11, <1>12, ParserStep, Zenon

\* Disciplined packets have a type.
LEMMA Typed ==
  ASSUME LinkInv, state = 6, pac = << >>, NEW n, n = Len(delivered) + 1, Clean(n)
  PROVE  ~Untyped
<1>1. channels_in[channel_id] = Header(Pac(n)) /\ Pac(n).data_type # 0
  BY BodyPlace
<1> QED BY <1>1 DEF Header, Untyped

\* A packet without a type ends the discipline.
LEMMA GetR6UntypedLink == ASSUME LinkInv, GetR6Untyped, TypeOK' PROVE LinkInv'
<1> DEFINE n == Len(delivered) + 1
<1>1. ReaderInv /\ ParserInv /\ Len(rbuf) \in Nat /\ need_more \in Nat
  BY Parts
<1>2. /\ state = 6 /\ state' = 6 /\ feeding /\ pac = << >> /\ ParserFrame /\ Untyped
      /\ Len(rbuf) >= 4 /\ rbuf' = SubSeq(rbuf, 4 + 1, Len(rbuf)) /\ need_more' = need_more
  BY DEF GetR6Untyped, Parsing, Consume, parser
<1>3. UNCHANGED << log, delivered >>
  BY <1>2 DEF ParserFrame, sender
<1>4. n = Len(delivered) + 1 /\ ~Clean(n) /\ state' \in 2 .. 6 /\ state' \in {4, 6}
  BY <1>2, Typed
<1>5. ParserInv'
  <2> HIDE DEF n
  <2> QED BY <1>1, <1>3, <1>4, InsideStep
<1>6. ~(need_more' > 0)
  <2>1. ~Short
    BY <1>1, <1>2 DEF Short
  <2> QED BY <1>1, <1>2, <2>1 DEF ReaderInv
<1>7. \E k \in 0 .. Len(rbuf) : rbuf' = SubSeq(rbuf, k + 1, Len(rbuf))
  <2>1. 4 \in 0 .. Len(rbuf)
    BY <1>1, <1>2
  <2> QED BY <1>2, <2>1
<1> QED BY <1>2, <1>5, <1>6, <1>7, ParserStep, Zenon

\* A state function that wants more bytes moves nothing.
LEMMA NeedMoreLink ==
  ASSUME LinkInv, TypeOK', NEW k, NeedMore(k), feeding, pac = << >>, Short
  PROVE  LinkInv'
<1>1. UNCHANGED << rbuf, parser, channels_in, pac, aborted, taken, log, delivered >> /\ ParserFrame
  BY DEF NeedMore, ParserFrame, sender
<1>2. ParserInv'
  BY <1>1, PlaceKept, Parts
<1>3. Short'
  BY <1>1 DEF Short, IdLength, TimerLength, Untyped, parser
<1>4. pac' = << >> /\ rbuf' = rbuf
  BY <1>1
<1> QED BY <1>1, <1>2, <1>3, <1>4, ParserStep

\* The receiver stops where it is.
Halts == /\ "receiver" \in aborted'
         /\ UNCHANGED << reader, parser, channels_in, pac >>
         /\ ParserFrame

\* An assertion of the receiver fails on a disciplined packet only when it is not all there.
LEMMA HaltLink ==
  ASSUME LinkInv, TypeOK', Halts, feeding, pac = << >>, state \in 2 .. 6,
         NEW n, n = Len(delivered) + 1, Clean(n) => taken < EndOf(n)
  PROVE  LinkInv'
<1>1. /\ UNCHANGED << state, packet_mask, channel_id, data_buffer, channels_in, pac, rbuf,
                      need_more, taken, log, delivered >> /\ ParserFrame
  BY DEF Halts, ParserFrame, sender, reader, parser
<1>2. ParserInv /\ ReaderInv /\ Pos' = Pos
  BY <1>1, Parts DEF Pos
<1>3. Inside(n)
  BY <1>2 DEF ParserInv
<1>4. ParserInv'
  <2>1. pac' # << >> => state' \in {4, 6}
    BY <1>1
  <2>2. state' \in 2 .. 6
    BY <1>1
  <2>3. ASSUME Clean(n)
        PROVE  /\ n <= Len(log)
               /\ channel_id' = Pac(n).channel_id /\ packet_mask' = Mask(n)
               /\ state' <= 4 => channels_in' = TableAt(n - 1) /\ Pos' = EndOf(n - 1) + 1
               /\ state' > 4 => /\ channels_in' = TableAt(n)
                                /\ Pos' = EndOf(n - 1) + 1 + HeaderLength(Mask(n))
               /\ state' = 6 => data_buffer' = Len(Pac(n).data)
               /\ taken' < EndOf(n)
    BY <1>1, <1>2, <1>3, <2>3 DEF Inside
  <2>4. pac' = << >>
    BY <1>1
  <2> QED BY <1>1, <1>2, <2>1, <2>2, <2>3, <2>4, InsideStep
<1>5. need_more' > 0 => pac' = << >> /\ Short'
  <2>1. need_more > 0 => Short
    BY <1>2 DEF ReaderInv
  <2>2. Short' = Short
    BY <1>1 DEF Short, IdLength, TimerLength, Untyped
  <2> QED BY <1>1, <2>1, <2>2
<1> QED BY <1>1, <1>4, <1>5, ParserStep

\* r3 and r4 know the channels of disciplined calls; r6 fails only on a body cut short.
LEMMA AbortsLink ==
  ASSUME LinkInv, TypeOK',
         GetR3Abort \/ GetR4Abort \/ GetR4Astray \/ GetR6Abort \/ GetR6UntypedAbort
  PROVE  LinkInv'
<1> DEFINE n == Len(delivered) + 1
<1>1. /\ Halts /\ feeding /\ pac = << >> /\ state \in 2 .. 6
  BY DEF GetR3Abort, GetR4Abort, GetR4Astray, GetR6Abort, GetR6UntypedAbort, Parsing,
         ReceiverAbort, Halts
<1>2. ASSUME Clean(n) PROVE taken < EndOf(n)
  <2>1. CASE GetR3Abort
    <3>1. channel_id \in {2, 3}
      BY <1>2, <2>1, Receiving DEF GetR3Abort, Parsing
    <3> QED BY <2>1, <3>1, Sizes DEF GetR3Abort
  <2>2. CASE GetR4Abort
    <3>1. /\ state = 4 /\ pac = << >> /\ ~ChannelUsed
      BY <2>2 DEF GetR4Abort, Parsing
    <3>2. /\ n \in 1 .. Len(log) /\ Inside(n) /\ channel_id = Pac(n).channel_id
          /\ channel_id \in {2, 3}
      BY <1>2, <3>1, Receiving
    <3>3. channels_in[channel_id] = Ch(n) /\ Ch(n) \in CleanChannel
      <4>1. TypeOK /\ SenderInv
        BY Parts
      <4>2. channels_in = TableAt(n - 1)
        BY <1>2, <3>1, <3>2 DEF Inside
      <4>3. Ch(n) \in CleanChannel
        BY <1>2, <3>2, <4>1, PacketAt
      <4> QED BY <3>2, <4>2, <4>3 DEF Ch
    <3>4. channel_id \in DOMAIN channels_in
      <4>1. channels_in \in Channels /\ channel_id \in 0 .. NumChannels - 1
        BY <3>2, Parts, Sizes, SMTT(30) DEF TypeOK, ParserOK
      <4> QED BY <4>1 DEF Channels
    <3> QED BY <3>1, <3>3, <3>4 DEF ChannelUsed, CleanChannel
  <2>3. CASE GetR6Abort
    <3>1. /\ state = 6 /\ pac = << >> /\ SeparatorLength(channel_id) = 1
      BY <2>3, Parts, InTable DEF GetR6Abort, Parsing
    <3>2. Len(rbuf) < BodyLength(data_buffer, ChunkSize, 1)
      BY <2>3, <3>1 DEF GetR6Abort
    <3>3. /\ BodyLength(data_buffer, ChunkSize, 1) = Len(Bd(n)) /\ Len(Bd(n)) \in Nat
          /\ Pos + Len(Bd(n)) = EndOf(n)
      BY <1>2, <3>1, BodyRead
    <3>4. Len(rbuf) \in Nat /\ taken \in Nat /\ Pos = taken - Len(rbuf)
      BY Parts DEF Pos
    <3> QED BY <3>2, <3>3, <3>4
  <2>4. CASE GetR6UntypedAbort
    BY <1>2, <2>4, Typed DEF GetR6UntypedAbort, Parsing
  <2>5. CASE GetR4Astray
    <3>1. channel_id \in {2, 3}
      BY <1>2, <2>5, Receiving DEF GetR4Astray, Parsing
    <3> QED BY <2>5, <3>1 DEF GetR4Astray
  <2> QED BY <2>1, <2>2, <2>3, <2>4, <2>5
<1>3. n = Len(delivered) + 1
  OBVIOUS
<1> HIDE DEF n
<1> QED BY <1>1, <1>2, <1>3, HaltLink

\* The packet delivered is the one sent, and the parser is at its end.
LEMMA OnPacketLink == ASSUME LinkInv, OnPacket, TypeOK' PROVE LinkInv'
<1> DEFINE n == Len(delivered) + 1
<1>1. /\ TypeOK /\ SenderInv /\ ReaderInv /\ ParserInv /\ Len(log) \in Nat
      /\ Len(delivered) \in Nat /\ need_more \in Nat
  BY Parts
<1>2. /\ pac # << >> /\ pac' = << >> /\ state' = 0 /\ delivered' = Append(delivered, pac[1])
      /\ "receiver" \notin aborted /\ aborted' = aborted
      /\ UNCHANGED << sender, taken, feeding, rbuf, need_more, last_data, channels_in >>
  BY DEF OnPacket, reader
<1>3. feeding /\ need_more = 0 /\ state \in {4, 6}
  BY <1>1, <1>2 DEF ReaderInv, ParserInv
<1>4. Inside(n)
  BY <1>1, <1>3 DEF ParserInv
<1>5. ASSUME Clean(n)
      PROVE  n <= Len(log) /\ channels_in = TableAt(n) /\ Pos = EndOf(n) /\ Same(pac[1], Pac(n))
  BY <1>2, <1>3, <1>4, <1>5 DEF Inside
<1>6. UNCHANGED << log, stream >> /\ Pos' = Pos
  BY <1>2 DEF sender, Pos
<1>7. /\ delivered \in Seq(Received) /\ pac[1] \in Received
  <2>1. PICK d \in Received : pac = << d >>
    BY <1>1, <1>2, PendingShape DEF TypeOK, DeliveryOK
  <2> QED BY <1>1, <2>1 DEF TypeOK, DeliveryOK
<1>8. /\ Len(delivered') = n /\ delivered'[n] = pac[1]
      /\ \A i \in 1 .. Len(delivered) : delivered'[i] = delivered[i]
  BY <1>2, <1>7, AppendProperties
<1>9. SenderInv'
  BY <1>1, <1>2, SenderKept
<1>10. ReaderInv'
  BY <1>1, <1>2, <1>3, <1>6 DEF ReaderInv
<1>11. DeliveredMatches'
  <2>1. ASSUME NEW i \in 1 .. Len(delivered'), Clean(i)
        PROVE  i <= Len(log) /\ Same(delivered'[i], log[i].call.pac)
    <3>1. CASE i \in 1 .. Len(delivered)
      BY <1>1, <1>8, <2>1, <3>1 DEF ParserInv, DeliveredMatches
    <3>2. CASE i = n
      BY <1>5, <1>8, <2>1, <3>2 DEF Pac
    <3> QED BY <1>1, <1>8, <3>1, <3>2
  <2>2. ASSUME NEW i PROVE Clean(i)' = Clean(i)
    BY <1>6 DEF Clean
  <2> QED BY <1>6, <2>1, <2>2 DEF DeliveredMatches
<1>12. ASSUME NEW m, m = n PROVE Between(m)'
  <2>1. Clean(m)' = Clean(m) /\ TableAt(m)' = TableAt(m) /\ EndOf(m)' = EndOf(m)
    BY <1>6 DEF Clean, TableAt, EndOf
  <2> QED BY <1>2, <1>5, <1>6, <1>12, <2>1 DEF Between
<1>13. Between(Len(delivered))'
  BY <1>8, <1>12
<1>14. ParserInv'
  BY <1>2, <1>11, <1>13 DEF ParserInv
<1> QED BY <1>9, <1>10, <1>14 DEF LinkInv

\* A feed returns with nothing kept: the parser asks for bytes only inside a packet.
LEMMA FeedReturnLink == ASSUME LinkInv, FeedReturn, TypeOK' PROVE LinkInv'
<1>1. /\ TypeOK /\ SenderInv /\ ReaderInv /\ ParserInv /\ need_more \in Nat /\ taken \in Nat
  BY Parts
<1>2. /\ state = 0 /\ pac = << >> /\ feeding' = FALSE /\ rbuf' = << >> /\ need_more' = 0
      /\ last_data' = (IF need_more > 0 THEN rbuf ELSE last_data)
      /\ rbuf = << >> \/ need_more > 0
      /\ UNCHANGED << sender, taken, parser, channels_in, pac, aborted, delivered >>
  BY DEF FeedReturn, Parsing
<1>3. need_more = 0
  <2>1. ~Short
    BY <1>2 DEF Short
  <2> QED BY <1>1, <2>1 DEF ReaderInv
<1>4. rbuf = << >> /\ last_data' = << >>
  BY <1>1, <1>2, <1>3 DEF ReaderInv
<1>5. UNCHANGED << log, stream, state, delivered, parser, channels_in, pac, taken, rbuf >>
  BY <1>2, <1>4 DEF sender, parser
<1>6. SenderInv'
  BY <1>1, <1>2, SenderKept
<1>7. ReaderInv'
  <2>1. Len(rbuf') = 0 /\ Len(rbuf') <= taken'
    BY <1>1, <1>2
  <2> QED BY <1>2, <1>4, <1>5, <2>1 DEF ReaderInv
<1>8. ParserInv'
  BY <1>1, <1>2, <1>5, PlaceKept
<1> QED BY <1>6, <1>7, <1>8 DEF LinkInv

\* Every step of the receiver's feed keeps the invariant.
LEMMA ParseLink == ASSUME LinkInv, Parse, TypeOK' PROVE LinkInv'
<1>1. CASE GetR2Short \/ GetR4Short \/ GetR5Short \/ GetR6UntypedShort
  <2>1. PICK k : NeedMore(k)
    BY <1>1 DEF GetR2Short, GetR4Short, GetR5Short, GetR6UntypedShort
  <2>2. feeding /\ pac = << >> /\ Short
    BY <1>1 DEF GetR2Short, GetR4Short, GetR5Short, GetR6UntypedShort, Parsing, NeedMore, Short
  <2> QED BY <2>1, <2>2, NeedMoreLink
<1> QED
  BY <1>1, StartReceiveLink, GetR1Link, GetR2Link, GetR3Link, GetR4Link, GetR5Link, GetR6Link,
     GetR6UntypedLink, AbortsLink, OnPacketLink, FeedReturnLink DEF Parse

\* Every step keeps it.
LEMMA NextLink == LinkInv /\ [Next]_vars => LinkInv'
<1> SUFFICES ASSUME LinkInv, [Next]_vars PROVE LinkInv'
  OBVIOUS
<1>1. TypeOK'
  BY NextTypeOK DEF LinkInv
<1>2. CASE \E s \in Sends : Send(s) \/ SendAbort(s)
  BY <1>2, SendLink, SendAbortLink
<1>3. CASE Read
  BY <1>3, ReceiveLink DEF Read
<1>4. CASE Parse
  BY <1>1, <1>4, ParseLink
<1>5. CASE UNCHANGED vars
  <2>1. SenderInv'
    BY <1>5, SenderKept DEF LinkInv, vars
  <2>2. UNCHANGED << log, stream, delivered, parser, channels_in, pac, taken, rbuf, aborted,
                     last_data, feeding, need_more, state, channel_id, packet_mask >>
    BY <1>5 DEF vars, sender, reader, parser
  <2>3. ReaderInv'
    BY <2>2 DEF LinkInv, ReaderInv, Pos, Short, IdLength, TimerLength, Untyped
  <2>4. ParserInv'
    BY <2>2, PlaceKept DEF LinkInv
  <2> QED BY <1>1, <2>1, <2>3, <2>4 DEF LinkInv
<1> QED BY <1>2, <1>3, <1>4, <1>5 DEF Next

-----------------------------------------------------------------------------
(* What follows for callers that keep to the discipline.                   *)

\* In every state the two ends agree as LinkInv says, whatever is sent and however it is cut:
\* the bytes and tables of rtmp_packet_write_packet, packet.c:321, with the states of the
\* parser, packet.c:58-240.
THEOREM ChunkStreamLinkInv == Spec => []LinkInv
<1>1. Init => LinkInv
  BY InitLink
<1>2. LinkInv /\ [Next]_vars => LinkInv'
  BY NextLink
<1> QED BY <1>1, <1>2, PTL DEF Spec

\* Of disciplined calls the receiver delivers exactly the packets sent, in their order, with
\* their channel, header and data, for every size of chunks and every cut of the stream.
THEOREM ChunkStreamDeliveredMatches == Spec => []DeliveredMatches
<1>1. LinkInv => DeliveredMatches
  BY DEF LinkInv, ParserInv
<1> QED BY <1>1, ChunkStreamLinkInv, PTL

\* Between two packets of disciplined calls the receiver's channel table is the sender's, so
\* that a header compressed against the one expands against the other, packet.c:107-185.
THEOREM ChunkStreamTablesAgree == Spec => []TablesAgree
<1>1. LinkInv => TablesAgree
  BY DEF LinkInv, ParserInv, Between, TablesAgree
<1> QED BY <1>1, ChunkStreamLinkInv, PTL

\* rtmp_proto_feed returns with nothing left over, and after disciplined calls it has read up
\* to the end of a packet: what is kept for the next feed is never any byte.
THEOREM ChunkStreamReturnsOnBoundary == Spec => []ReturnsOnBoundary
<1>1. LinkInv => ReturnsOnBoundary
  <2> SUFFICES ASSUME LinkInv, ~feeding
               PROVE  /\ rbuf = << >> /\ last_data = << >>
                      /\ Clean(Len(delivered)) => taken = EndOf(Len(delivered))
    BY DEF ReturnsOnBoundary
  <2>1. ReaderInv /\ ParserInv /\ taken \in Nat
    BY Parts
  <2>2. rbuf = << >> /\ last_data = << >> /\ state = 0
    BY <2>1 DEF ReaderInv
  <2>3. Pos = taken
    BY <2>1, <2>2 DEF Pos
  <2> QED BY <2>1, <2>2, <2>3 DEF ParserInv, Between
<1> QED BY <1>1, ChunkStreamLinkInv, PTL

\* When all calls were disciplined, the receiver hangs or fails an assertion only if a read
\* ended inside a packet.
THEOREM ChunkStreamStuckOnlyWhenCut == Spec => []StuckOnlyWhenCut
<1>1. LinkInv => StuckOnlyWhenCut
  <2> SUFFICES ASSUME LinkInv, Stuck, Clean(Len(log)), NEW i \in 0 .. Len(log), taken = EndOf(i)
               PROVE  FALSE
    BY DEF StuckOnlyWhenCut
  <2> DEFINE n == Len(delivered) + 1
  <2>1. /\ TypeOK /\ SenderInv /\ ReaderInv /\ ParserInv
        /\ Len(rbuf) \in Nat /\ taken \in Nat /\ Len(log) \in Nat /\ Len(delivered) \in Nat
    BY Parts
  <2>2. Clean(n)
    BY DEF Clean
  <2>3. state > 1
    BY <2>1 DEF Stuck, ReaderInv, ParserInv, Short
  <2>4. /\ n \in 1 .. Len(log) /\ Inside(n)
        /\ channel_id \in {2, 3} /\ packet_mask = Mask(n)
    BY <2>2, <2>3, Receiving
  <2>5. /\ EndOf(n - 1) \in Nat /\ EndOf(n) \in Nat /\ Len(Bd(n)) \in Nat
        /\ EndOf(n) = EndOf(n - 1) + 1 + HeaderLength(Mask(n)) + Len(Bd(n))
        /\ HeaderLength(Mask(n)) \in Nat
    <3>1. Bd(n) \in Seq(Byte)
      BY <2>1, <2>2, <2>4, PacketAt
    <3>2. HeaderLength(Mask(n)) \in Nat
      BY Lengths, MaskBits DEF Mask
    <3> QED BY <2>1, <2>2, <2>4, <3>1, <3>2, PacketAt
  <2>6. EndOf(n - 1) < taken /\ taken < EndOf(n)
    <3>1. taken = Pos + Len(rbuf)
      BY <2>1 DEF Pos
    <3>2. CASE "receiver" \in aborted
      <4>1. taken < EndOf(n)
        BY <2>2, <2>4, <3>2 DEF Inside
      <4>2. pac = << >>
        <5>1. pac # << >> => Pos = EndOf(n)
          BY <2>2, <2>4 DEF Inside
        <5>2. Pos \in Int /\ ~(Pos = EndOf(n))
          BY <2>1, <2>5, <3>1, <4>1, Parts
        <5> QED BY <5>1, <5>2
      <4>3. Pos = EndOf(n - 1) + 1 \/ Pos = EndOf(n - 1) + 1 + HeaderLength(Mask(n))
        <5>1. state \in 0 .. 6
          BY <2>1 DEF TypeOK, ParserOK
        <5> QED BY <2>2, <2>4, <4>2, <5>1 DEF Inside
      <4> QED BY <2>1, <2>5, <3>1, <4>1, <4>3
    <3>3. CASE need_more > 0
      <4>1. pac = << >> /\ Short
        BY <2>1, <3>3 DEF ReaderInv
      <4>2. ~(state = 2 /\ Len(rbuf) < IdLength)
        BY <2>1, <2>4 DEF IdLength
      <4>3. ~(state = 6 /\ Untyped)
        BY <2>2, <4>1, Typed
      <4>4. ~(state = 5 /\ Len(rbuf) < TimerLength)
        <5> SUFFICES ASSUME state = 5, Len(rbuf) < TimerLength PROVE FALSE
          OBVIOUS
        <5>1. /\ channels_in[channel_id] = Header(Pac(n)) /\ Pac(n).timer \in Nat
              /\ Pac(n).timer < ExtendedTimer
          BY <2>2, <4>1, BodyPlace
        <5>2. TimerLength = 0
          BY <5>1, TimerNat DEF TimerLength, Header
        <5> QED BY <2>1, <5>2
      <4>5. state = 4 /\ Len(rbuf) < HeaderLength(Mask(n))
        BY <2>4, <4>1, <4>2, <4>3, <4>4 DEF Short
      <4>6. Pos = EndOf(n - 1) + 1
        BY <2>2, <2>4, <4>5 DEF Inside
      <4> DEFINE a == EndOf(n - 1)
                 b == EndOf(n)
                 h == HeaderLength(Mask(n))
                 r == Len(rbuf)
      <4>7. a \in Nat /\ b \in Nat /\ h \in Nat /\ r \in Nat /\ taken \in Nat
        BY <2>1, <2>5
      <4>8. b >= a + 1 + h
        BY <2>5
      <4>9. r < h /\ taken = a + 1 + r
        BY <3>1, <4>5, <4>6
      <4> HIDE DEF a, b, h, r
      <4>10. a < taken /\ taken < b
        BY <4>7, <4>8, <4>9
      <4> QED BY <4>10 DEF a, b
    <3> QED BY <3>2, <3>3 DEF Stuck
  <2>7. \A j \in 0 .. Len(log) : EndOf(j) <= EndOf(n - 1) \/ EndOf(n) <= EndOf(j)
    <3>1. ASSUME NEW j \in 0 .. Len(log)
          PROVE  EndOf(j) <= EndOf(n - 1) \/ EndOf(n) <= EndOf(j)
      <4>1. /\ n - 1 \in 0 .. Len(log) /\ n \in 0 .. Len(log) /\ (j <= n - 1 \/ n <= j)
        BY <2>1, <2>4
      <4> QED BY <2>1, <2>4, <4>1 DEF SenderInv
    <3> QED BY <3>1
  <2> QED BY <2>1, <2>5, <2>6, <2>7
<1> QED BY <1>1, ChunkStreamLinkInv, PTL

-----------------------------------------------------------------------------
(* Reads that end on packet boundaries.                                    *)

\* The callers keep to the discipline, and the socket has space for all they write.
AllDisciplined == \A s \in Sends : Disciplined(s)
SentWhole      == \A i \in 1 .. Len(log) : log[i].whole

\* Then all calls made are disciplined ones.
LEMMA TrafficClean ==
  ASSUME SenderInv, AllDisciplined, SentWhole, NEW n
  PROVE  Clean(n)
  BY DEF SenderInv, AllDisciplined, SentWhole, Clean

\* Segments of whole packets: what was read ends with a packet, and no call failed.
CutInv ==
  Segmentation = "packets" /\ AllDisciplined
    => (\E i \in 0 .. Len(log) : taken = EndOf(i)) /\ "sender" \notin aborted

\* Every step keeps the reads on the boundaries.
LEMMA NextCut == TypeOK /\ CutInv /\ [Next]_vars => CutInv'
<1> SUFFICES ASSUME TypeOK, Segmentation = "packets", AllDisciplined, [Next]_vars,
                    "sender" \notin aborted, NEW i \in 0 .. Len(log), taken = EndOf(i)
             PROVE  /\ \E k \in 0 .. Len(log') : taken' = EndOf(k)'
                    /\ "sender" \notin aborted'
  BY DEF CutInv, AllDisciplined
<1>1. Len(log) \in Nat
  BY Entries
<1>2. CASE \E s \in Sends : Send(s)
  <2>1. PICK s \in Sends : Send(s)
    BY <1>2
  <2>2. EndOf(i)' = EndOf(i) /\ Len(log') = Len(log) + 1
    BY <2>1, SendOld
  <2>3. UNCHANGED << taken, aborted >>
    BY <2>1 DEF Send
  <2>4. i \in 0 .. Len(log')
    BY <1>1, <2>2
  <2> QED BY <2>2, <2>3, <2>4
<1>3. CASE \E s \in Sends : SendAbort(s)
  <2>1. PICK s \in Sends : SendAbort(s)
    BY <1>3
  <2>2. CanWriteHeader(s.rx)
    BY DisciplinedCall DEF AllDisciplined
  <2> QED BY <2>1, <2>2 DEF SendAbort
<1>4. CASE Read
  <2>1. PICK n \in 1 .. BufSize : Receive(n)
    BY <1>4 DEF Read
  <2>2. UNCHANGED << log, aborted >> /\ taken' = taken + n
    BY <2>1 DEF Receive, sender
  <2>3. PICK k \in 1 .. Len(log) : log[k].end = taken + n
    BY <2>1 DEF Receive, Boundary
  <2>4. k \in 0 .. Len(log') /\ EndOf(k)' = taken + n
    BY <1>1, <2>2, <2>3 DEF EndOf
  <2> QED BY <2>2, <2>4
<1>5. CASE Parse \/ UNCHANGED vars
  <2>1. UNCHANGED << log, taken >> /\ ("sender" \in aborted' => "sender" \in aborted)
    BY <1>5
    DEF Parse, StartReceive, GetR1, GetR2, GetR2Short, GetR3, GetR3Abort, GetR4, GetR4Short,
        GetR4Abort, GetR4Astray, GetR5, GetR5Short, GetR6, GetR6Abort, GetR6Untyped,
        GetR6UntypedShort, GetR6UntypedAbort, OnPacket, FeedReturn, NeedMore, ReceiverAbort,
        ParserFrame, vars, sender
  <2>2. EndOf(i)' = EndOf(i)
    BY <2>1 DEF EndOf
  <2> QED BY <2>1, <2>2
<1> QED BY <1>2, <1>3, <1>4, <1>5 DEF Next

\* Who goes astray takes no further step.
AstrayInv == "astray" \in aborted => "receiver" \in aborted

\* That holds in every state: only r4 goes astray, and it ends there.
LEMMA AstrayHalts == Spec => []AstrayInv
<1>1. Init => AstrayInv
  BY DEF Init, AstrayInv
<1>2. AstrayInv /\ [Next]_vars => AstrayInv'
  <2> SUFFICES ASSUME AstrayInv, [Next]_vars PROVE AstrayInv'
    OBVIOUS
  <2>1. CASE \E s \in Sends : Send(s) \/ SendAbort(s)
    BY <2>1 DEF AstrayInv, Send, SendAbort
  <2>2. CASE Read
    BY <2>2 DEF AstrayInv, Read, Receive
  <2>3. CASE Parse
    BY <2>3
    DEF AstrayInv, Parse, StartReceive, GetR1, GetR2, GetR2Short, GetR3, GetR3Abort, GetR4,
        GetR4Short, GetR4Abort, GetR4Astray, GetR5, GetR5Short, GetR6, GetR6Abort,
        GetR6Untyped, GetR6UntypedShort, GetR6UntypedAbort, OnPacket, FeedReturn, NeedMore, ReceiverAbort,
        ParserFrame
  <2>4. CASE UNCHANGED vars
    BY <2>4 DEF AstrayInv, vars
  <2> QED BY <2>1, <2>2, <2>3, <2>4 DEF Next
<1> QED BY <1>1, <1>2, PTL DEF Spec

\* Disciplined calls, written whole and read in segments of whole packets, never make the
\* receiver hang in its loop, packet.c:264, and no assertion of either end fails.
THEOREM ChunkStreamNeverStuck ==
  Spec => [](Segmentation = "packets" /\ AllDisciplined /\ SentWhole => NeverStuck)
<1>1. Init => CutInv
  <2> SUFFICES ASSUME Init
               PROVE  (\E i \in 0 .. Len(log) : taken = EndOf(i)) /\ "sender" \notin aborted
    BY DEF CutInv
  <2>1. taken = 0 /\ aborted = {} /\ Len(log) = 0
    BY DEF Init
  <2>2. EndOf(0) = 0 /\ 0 \in 0 .. Len(log)
    BY <2>1 DEF EndOf
  <2> QED BY <2>1, <2>2
<1>2. TypeOK /\ CutInv /\ [Next]_vars => CutInv'
  BY NextCut
<1>3. Spec => []CutInv
  BY <1>1, <1>2, ChunkStreamTypeOK, PTL DEF Spec
<1>4. LinkInv /\ StuckOnlyWhenCut /\ CutInv /\ AstrayInv
        => (Segmentation = "packets" /\ AllDisciplined /\ SentWhole => NeverStuck)
  <2> SUFFICES ASSUME LinkInv, StuckOnlyWhenCut, CutInv, AstrayInv, Segmentation = "packets",
                      AllDisciplined, SentWhole
               PROVE  ~Stuck /\ aborted = {}
    BY DEF NeverStuck
  <2>1. Clean(Len(log))
    BY TrafficClean DEF LinkInv
  <2>2. (\E i \in 0 .. Len(log) : taken = EndOf(i)) /\ "sender" \notin aborted
    BY DEF CutInv
  <2>3. ~Stuck
    BY <2>1, <2>2 DEF StuckOnlyWhenCut
  <2>4. aborted \subseteq {"sender", "receiver", "astray"}
    BY DEF LinkInv, TypeOK, DeliveryOK
  <2> QED BY <2>2, <2>3, <2>4 DEF Stuck, AstrayInv
<1> QED BY <1>3, <1>4, ChunkStreamLinkInv, ChunkStreamStuckOnlyWhenCut, AstrayHalts, PTL

-----------------------------------------------------------------------------
(* The queue of packets.                                                   *)

\* What the queue has accepted and delivered.
Accepted == [i \in 1 .. Len(log) |-> log[i].call.pac]
Handed   == [i \in 1 .. Len(delivered) |-> ReceivedPacket(delivered[i])]

\* A packet that arrives as it was sent.
LEMMA SamePacket ==
  ASSUME NEW d, NEW p \in Packet, Same(d, p)
  PROVE  ReceivedPacket(d) = p
<1>1. /\ d.channel_id = p.channel_id /\ d.data = p.data /\ d.channel.timer = p.timer
      /\ d.channel.data_type = p.data_type /\ d.channel.stream_id = p.stream_id
  BY DEF Same
<1>2. p = [channel_id |-> p.channel_id, timer |-> p.timer, data_type |-> p.data_type,
           stream_id |-> p.stream_id, data |-> p.data]
  BY DEF Packet
<1> QED BY <1>1, <1>2, Zenon DEF ReceivedPacket

\* A sequence that has one element more than another.
LEMMA OneMore ==
  ASSUME NEW S, NEW f \in Seq(S), NEW g \in Seq(S), Len(g) = Len(f) + 1,
         \A i \in 1 .. Len(f) : g[i] = f[i]
  PROVE  g = Append(f, g[Len(f) + 1])
<1> DEFINE n == Len(f)
           e == g[n + 1]
<1>1. n \in Nat /\ n + 1 \in 1 .. Len(g)
  OBVIOUS
<1>2. e \in S
  BY <1>1, ElementOfSeq
<1> HIDE DEF e
<1>3. /\ Append(f, e) \in Seq(S) /\ Len(Append(f, e)) = n + 1
      /\ \A i \in 1 .. n : Append(f, e)[i] = f[i]
      /\ Append(f, e)[n + 1] = e
  BY <1>2, AppendProperties
<1>4. ASSUME NEW i \in 1 .. n + 1 PROVE g[i] = Append(f, e)[i]
  <2>1. CASE i \in 1 .. n
    BY <1>3, <2>1
  <2>2. CASE i = n + 1
    BY <1>3, <2>2 DEF e
  <2> QED BY <1>1, <2>1, <2>2
<1>5. g = Append(f, e)
  BY <1>3, <1>4, SeqEqual
<1> QED BY <1>5 DEF e

\* A call is accepted.
LEMMA SendAccepts ==
  ASSUME TypeOK, NEW s \in Sends, Send(s)
  PROVE  Accepted' = Append(Accepted, s.pac) /\ Handed' = Handed
<1>1. Len(log) \in Nat
  BY Entries
<1>2. /\ Len(log') = Len(log) + 1 /\ \A i \in 1 .. Len(log) : log'[i] = log[i]
      /\ log'[Len(log) + 1].call = s
  <2> DEFINE bytes == Encode(s, channels_out[s.pac.channel_id])
             whole == Taken(bytes) = bytes
             e == [call |-> s, channels |-> channels_out', end |-> Len(stream'), whole |-> whole]
  <2>1. /\ Len(log') = Len(log) + 1 /\ \A i \in 1 .. Len(log) : log'[i] = log[i]
        /\ log'[Len(log) + 1] = e
    BY SendAppends, Zenon
  <2>2. e.call = s
    BY Zenon
  <2> HIDE DEF e
  <2> QED BY <2>1, <2>2
<1> DEFINE F == [i \in 1 .. Len(log) |-> log[i].call.pac]
           G == [i \in 1 .. Len(log') |-> log'[i].call.pac]
           S == { log'[i].call.pac : i \in 1 .. Len(log') }
<1>3. /\ F \in Seq(S) /\ Len(F) = Len(log) /\ G \in Seq(S) /\ Len(G) = Len(log) + 1
  <2>1. \A i \in 1 .. Len(log) : log[i].call.pac \in S
    BY <1>1, <1>2
  <2>2. \A i \in 1 .. Len(log') : log'[i].call.pac \in S
    OBVIOUS
  <2> HIDE DEF S
  <2>3. F \in Seq(S) /\ Len(F) = Len(log)
    BY <1>1, <2>1
  <2>4. G \in Seq(S) /\ Len(G) = Len(log')
    BY <1>1, <1>2, <2>2
  <2> QED BY <1>2, <2>3, <2>4
<1>4. /\ \A i \in 1 .. Len(log) : G[i] = F[i]
      /\ G[Len(log) + 1] = s.pac
  BY <1>1, <1>2
<1> HIDE DEF F, G, S
<1>5. G = Append(F, G[Len(F) + 1])
  BY <1>3, <1>4, OneMore
<1>6. G = Append(F, s.pac)
  BY <1>3, <1>4, <1>5
<1>7. delivered' = delivered
  BY DEF Send
<1> QED BY <1>6, <1>7, Zenon DEF Accepted, Handed, F, G

\* A callback delivers the next packet of the queue.
LEMMA OnPacketHands ==
  ASSUME LinkInv, OnPacket, AllDisciplined, SentWhole
  PROVE  /\ Len(Handed) < Len(Accepted) /\ Accepted' = Accepted
         /\ Handed' = Append(Handed, Accepted[Len(Handed) + 1])
<1> DEFINE n == Len(delivered) + 1
           d == pac[1]
<1>1. /\ TypeOK /\ SenderInv /\ ReaderInv /\ ParserInv /\ Len(log) \in Nat
      /\ Len(delivered) \in Nat
  BY Parts
<1>2. /\ pac # << >> /\ delivered' = Append(delivered, d) /\ log' = log
  BY DEF OnPacket, sender
<1>3. Inside(n) /\ Clean(n)
  <2>1. state > 1
    BY <1>1, <1>2 DEF ParserInv
  <2> QED BY <1>1, <2>1, TrafficClean DEF ParserInv
<1>4. n <= Len(log) /\ Same(d, log[n].call.pac)
  BY <1>2, <1>3 DEF Inside, Pac
<1>5. n \in 1 .. Len(log) /\ log[n].call.pac \in Packet
  <2>1. n \in 1 .. Len(log)
    BY <1>1, <1>4
  <2>2. log[n].call \in Sends
    BY <1>1, <2>1 DEF SenderInv
  <2> QED BY <2>1, <2>2, CallTypes
<1>6. ReceivedPacket(d) = log[n].call.pac
  BY <1>4, <1>5, SamePacket
<1>7. /\ Len(delivered') = n /\ delivered'[n] = d
      /\ \A i \in 1 .. Len(delivered) : delivered'[i] = delivered[i]
  <2>1. PICK e \in Received : pac = << e >>
    BY <1>1, <1>2, PendingShape DEF TypeOK, DeliveryOK
  <2>2. delivered \in Seq(Received) /\ d \in Received
    BY <1>1, <2>1 DEF TypeOK, DeliveryOK
  <2> HIDE DEF d
  <2> QED BY <1>2, <2>2, AppendProperties
<1> DEFINE F == [i \in 1 .. Len(delivered) |-> ReceivedPacket(delivered[i])]
           G == [i \in 1 .. Len(delivered') |-> ReceivedPacket(delivered'[i])]
           S == { ReceivedPacket(delivered'[i]) : i \in 1 .. Len(delivered') }
<1> HIDE DEF d
<1>8. /\ F \in Seq(S) /\ Len(F) = Len(delivered) /\ G \in Seq(S) /\ Len(G) = n
  <2>1. \A i \in 1 .. Len(delivered) : ReceivedPacket(delivered[i]) \in S
    BY <1>1, <1>7
  <2>2. \A i \in 1 .. Len(delivered') : ReceivedPacket(delivered'[i]) \in S
    OBVIOUS
  <2> HIDE DEF S
  <2>3. F \in Seq(S) /\ Len(F) = Len(delivered)
    BY <1>1, <2>1
  <2>4. G \in Seq(S) /\ Len(G) = Len(delivered')
    BY <1>1, <1>7, <2>2
  <2> QED BY <1>7, <2>3, <2>4
<1>9. /\ \A i \in 1 .. Len(delivered) : G[i] = F[i]
      /\ G[n] = ReceivedPacket(d)
  BY <1>1, <1>7
<1> HIDE DEF F, G, S
<1>10. G = Append(F, G[Len(F) + 1])
  BY <1>8, <1>9, OneMore
<1>11. G = Append(F, log[n].call.pac)
  BY <1>6, <1>8, <1>9, <1>10
<1>12. Handed = F /\ Handed' = G /\ Accepted' = Accepted
  BY <1>2, Zenon DEF Handed, Accepted, F, G
<1>13. Len(Accepted) = Len(log) /\ Accepted[n] = log[n].call.pac
  BY <1>1, <1>5 DEF Accepted
<1> QED BY <1>1, <1>5, <1>8, <1>11, <1>12, <1>13

\* Every other step is none of the queue's.
LEMMA QueueStep ==
  ASSUME LinkInv, AllDisciplined, SentWhole, [Next]_vars
  PROVE  [Queue!Next]_(Queue!vars)
<1>1. CASE \E s \in Sends : Send(s)
  <2>1. PICK s \in Sends : Send(s)
    BY <1>1
  <2>2. Accepted' = Append(Accepted, s.pac) /\ Handed' = Handed
    BY <2>1, Parts, SendAccepts
  <2>3. s.pac \in { r.pac : r \in Sends }
    OBVIOUS
  <2>4. Queue!Accept
    BY <2>2, <2>3, Zenon DEF Queue!Accept, Accepted, Handed
  <2> QED BY <2>4 DEF Queue!Next
<1>2. CASE OnPacket
  <2>1. /\ Len(Handed) < Len(Accepted) /\ Accepted' = Accepted
        /\ Handed' = Append(Handed, Accepted[Len(Handed) + 1])
    BY <1>2, OnPacketHands
  <2>2. Queue!Deliver
    BY <2>1, Zenon DEF Queue!Deliver, Accepted, Handed
  <2> QED BY <2>2 DEF Queue!Next
<1>3. ASSUME UNCHANGED << log, delivered >> PROVE UNCHANGED Queue!vars
  BY <1>3 DEF Queue!vars
<1>4. CASE (\E s \in Sends : SendAbort(s)) \/ Read
  BY <1>3, <1>4 DEF SendAbort, Read, Receive, sender
<1>5. CASE Parse /\ ~OnPacket
  <2>1. UNCHANGED << log, delivered >>
    BY <1>5
    DEF Parse, StartReceive, GetR1, GetR2, GetR2Short, GetR3, GetR3Abort, GetR4, GetR4Short,
        GetR4Abort, GetR4Astray, GetR5, GetR5Short, GetR6, GetR6Abort, GetR6Untyped,
        GetR6UntypedShort, GetR6UntypedAbort, FeedReturn, NeedMore, ReceiverAbort,
        ParserFrame, sender
  <2> QED BY <1>3, <2>1
<1>6. CASE UNCHANGED vars
  BY <1>3, <1>6 DEF vars, sender
<1> QED BY <1>1, <1>2, <1>4, <1>5, <1>6 DEF Next

\* As long as all calls are disciplined and written whole, the connection is a queue: it
\* delivers the packets that were handed over, each once, unchanged and in order.
THEOREM ChunkStreamIsQueue == Spec /\ [](AllDisciplined /\ SentWhole) => Queue!SafeSpec
<1>1. Init => Queue!Init
  <2> SUFFICES ASSUME Init PROVE Queue!Init
    OBVIOUS
  <2>1. Len(log) = 0 /\ Len(delivered) = 0
    BY DEF Init
  <2> QED BY <2>1 DEF Queue!Init
<1>2. LinkInv /\ AllDisciplined /\ SentWhole /\ [Next]_vars => [Queue!Next]_(Queue!vars)
  BY QueueStep
<1> QED BY <1>1, <1>2, ChunkStreamLinkInv, PTL DEF Spec, Queue!SafeSpec

-----------------------------------------------------------------------------
(* What tells where the next packet starts.                                *)

\* A timer whose three bytes are not all ones is not read as the one that announces more.
LEMMA TimerRead ==
  ASSUME NEW w \in Int, MediumInt(w) # MediumInt(ExtendedTimer), NEW b,
         \A k \in 1 .. 3 : b[k] = MediumInt(w)[k]
  PROVE  ReadMediumInt(b, 1) # ExtendedTimer
<1> DEFINE x == ByteOf(w, 2)
           y == ByteOf(w, 1)
           z == ByteOf(w, 0)
<1>1. x \in Byte /\ y \in Byte /\ z \in Byte
  BY ByteOfType
<1>2. b[1] = x /\ b[2] = y /\ b[3] = z
  BY DEF MediumInt
<1>3. MediumInt(w) = << x, y, z >>
  BY DEF MediumInt
<1>4. MediumInt(ExtendedTimer) = << 255, 255, 255 >>
  BY DEF MediumInt, ByteOf, ExtendedTimer
<1> HIDE DEF x, y, z
<1>5. ReadMediumInt(b, 1) = (x * 256 + y) * 256 + z
  BY <1>2 DEF ReadMediumInt
<1>6. ASSUME (x * 256 + y) * 256 + z = 256 * 256 * 256 - 1
      PROVE  x = 255 /\ y = 255 /\ z = 255
  <2>1. /\ x \in Int /\ 0 <= x /\ x <= 255 /\ y \in Int /\ 0 <= y /\ y <= 255
        /\ z \in Int /\ 0 <= z /\ z <= 255
    BY <1>1 DEF Byte
  <2>2. 65536 * x + 256 * y + z = 16777215
    BY <1>6, <2>1
  <2> QED BY <2>1, <2>2
<1> QED BY <1>3, <1>4, <1>5, <1>6 DEF ExtendedTimer

\* Bytes that follow bytes that follow others.
LEMMA BytesAssociative ==
  ASSUME NEW a \in Seq(Byte), NEW b \in Seq(Byte), NEW c \in Seq(Byte)
  PROVE  (a \o b) \o c = a \o (b \o c)
BY ConcatAssociative

\* The fields that every kind of header starts with, whatever follows them.
LEMMA FieldsKept ==
  ASSUME NEW w \in Int, NEW p, p.data_type \in Byte, p.stream_id \in Int,
         Len(p.data) \in Nat, Len(p.data) <= ExtendedTimer, NEW rest \in Seq(Byte)
  PROVE  LET b(m) == HeaderFields(p, m, w) \o rest
         IN /\ \A m \in 0 .. 1 : /\ ReadMediumInt(b(m), 4) = Len(p.data)
                                 /\ b(m)[7] = p.data_type
            /\ \A m \in 0 .. 2 : \A k \in 1 .. 3 : b(m)[k] = MediumInt(w)[k]
<1> DEFINE t == MediumInt(w)
           s == MediumInt(Len(p.data))
           y == << p.data_type >>
           v == ReverseInt(p.stream_id)
           b(m) == HeaderFields(p, m, w) \o rest
<1>1. /\ t \in Seq(Byte) /\ Len(t) = 3 /\ s \in Seq(Byte) /\ Len(s) = 3 /\ v \in Seq(Byte)
      /\ y \in Seq(Byte) /\ Len(y) = 1 /\ y[1] = p.data_type
  BY IntBytes
<1>2. /\ HeaderFields(p, 0, w) = ((t \o s) \o y) \o v
      /\ HeaderFields(p, 1, w) = (t \o s) \o y
      /\ HeaderFields(p, 2, w) = t
  BY DEF HeaderFields, CHANNEL_NEW, CHANNEL_SAME_SOURCE, CHANNEL_TIMER_CHANGE
<1> HIDE DEF t, s, y, v
<1>3. (t \o s) \o y \in Seq(Byte) /\ v \o rest \in Seq(Byte)
  BY <1>1, ConcatType
<1>4. /\ b(0) = ThreeFields(t, s, y, v \o rest)
      /\ b(1) = ThreeFields(t, s, y, rest)
      /\ b(2) = OneField(t, rest)
  <2> DEFINE u == (t \o s) \o y
  <2>1. u \in Seq(Byte)
    BY <1>3
  <2>2. (u \o v) \o rest = u \o (v \o rest)
    <3> HIDE DEF u
    <3> QED BY <1>1, <2>1, BytesAssociative
  <2>3. b(0) = u \o (v \o rest)
    BY <1>2, <2>2, Zenon
  <2>4. b(1) = u \o rest /\ b(2) = t \o rest
    BY <1>2, Zenon
  <2> QED BY <2>3, <2>4, Zenon DEF ThreeFields, OneField
<1>5. ASSUME NEW r \in Seq(Byte)
      PROVE  /\ \A k \in 1 .. 3 : ThreeFields(t, s, y, r)[k] = t[k] /\ OneField(t, r)[k] = t[k]
             /\ \A k \in 1 .. 3 : ThreeFields(t, s, y, r)[3 + k] = s[k]
             /\ ThreeFields(t, s, y, r)[7] = y[1]
  <2> DEFINE full == ThreeFields(t, s, y, r)
             one  == OneField(t, r)
  <2>1. /\ \A k \in 1 .. Len(t) : full[k] = t[k] /\ one[k] = t[k]
        /\ \A k \in 1 .. Len(s) : full[Len(t) + k] = s[k]
        /\ \A k \in 1 .. Len(y) : full[Len(t) + Len(s) + k] = y[k]
    <3>1. t \in Seq(Byte) /\ s \in Seq(Byte) /\ y \in Seq(Byte)
      BY <1>1
    <3> QED BY <3>1, FieldAt
  <2> HIDE DEF full, one
  <2>2. /\ \A k \in 1 .. 3 : full[k] = t[k] /\ one[k] = t[k]
        /\ \A k \in 1 .. 3 : full[3 + k] = s[k]
        /\ \A k \in 1 .. 1 : full[3 + 3 + k] = y[k]
    BY <1>1, <2>1, Zenon
  <2>3. full[7] = y[1]
    BY <2>2
  <2> QED BY <2>2, <2>3 DEF full, one
<1> HIDE DEF b
<1>6. ASSUME NEW m \in 0 .. 1
      PROVE  /\ \A k \in 1 .. 3 : b(m)[k] = t[k] /\ b(m)[3 + k] = s[k]
             /\ b(m)[7] = y[1]
  <2>1. PICK r \in Seq(Byte) : b(m) = ThreeFields(t, s, y, r)
    <3>1. m = 0 \/ m = 1
      OBVIOUS
    <3> QED BY <1>3, <1>4, <3>1, Zenon
  <2> QED BY <1>5, <2>1, ZenonT(30)
<1>7. ASSUME NEW m \in 0 .. 1
      PROVE  ReadMediumInt(b(m), 4) = Len(p.data) /\ b(m)[7] = p.data_type
  <2>1. b(m)[4] = s[1] /\ b(m)[4 + 1] = s[2] /\ b(m)[4 + 2] = s[3]
    BY <1>6
  <2>2. ReadMediumInt(b(m), 4) = Len(p.data)
    BY <2>1, MediumIntRoundTrip DEF s
  <2> QED BY <1>1, <1>6, <2>2
<1>8. ASSUME NEW m \in 0 .. 2, NEW k \in 1 .. 3 PROVE b(m)[k] = t[k]
  <2>1. m \in 0 .. 1 \/ m = 2
    OBVIOUS
  <2> QED BY <1>4, <1>5, <1>6, <2>1
<1> QED BY <1>7, <1>8 DEF b, t

\* What tells where the next packet starts: a size, a type, and no long timer.
FrameOf(ch, size, data_type) ==
  ch.used = 1 /\ ch.size = size /\ ch.data_type = data_type

\* What the sender remembers of a packet has its size and its type.
LEMMA WrittenFrame ==
  ASSUME NEW ch \in Channel, ch.used = 1, NEW p
  PROVE  FrameOf(WrittenChannel(OutChannel(ch), p, PacketMask(ch, p)), Len(p.data), p.data_type)
<1> DEFINE m == PacketMask(ch, p)
           o(k) == WrittenChannel(ch, p, k)
<1>1. m \in 0 .. 3 /\ (m \in {2, 3} => ch.data_type = p.data_type /\ ch.size = Len(p.data))
  BY DEF PacketMask, CHANNEL_NEW
<1>2. OutChannel(ch) = ch
  BY DEF OutChannel
<1> HIDE DEF m
<1>3. FrameOf(o(m), Len(p.data), p.data_type)
  <2> USE DEF FrameOf
  <2>1. CASE m = 0
    <3>1. o(0) = [used |-> 1, timer |-> p.timer, size |-> Len(p.data),
                  data_type |-> p.data_type, stream_id |-> p.stream_id]
      BY DEF WrittenChannel, CHANNEL_NEW, CHANNEL_SAME_SOURCE, CHANNEL_TIMER_CHANGE
    <3> HIDE DEF o
    <3> QED BY <2>1, <3>1
  <2>2. CASE m = 1
    <3>1. o(1) = [used |-> ch.used, timer |-> p.timer, size |-> Len(p.data),
                  data_type |-> p.data_type, stream_id |-> ch.stream_id]
      BY MaskCases
    <3> HIDE DEF o
    <3> QED BY <2>2, <3>1
  <2>3. CASE m = 2
    <3>1. o(2) = [ch EXCEPT !.timer = p.timer]
      BY MaskCases
    <3> HIDE DEF o
    <3>2. o(2).used = ch.used /\ o(2).size = ch.size /\ o(2).data_type = ch.data_type
      BY <3>1 DEF Channel
    <3> QED BY <1>1, <2>3, <3>2
  <2>4. CASE m = 3
    <3>1. o(3) = ch
      BY MaskCases
    <3> HIDE DEF o
    <3> QED BY <1>1, <2>4, <3>1
  <2> QED BY <1>1, <2>1, <2>2, <2>3, <2>4
<1> QED BY <1>2, <1>3 DEF m

\* The receiver reads the size and the type of such a packet, and no long timer, whichever
\* fields the mask left out.
LEMMA FramedHeader ==
  ASSUME NEW s \in Sends, NEW ch \in Channel, ch.used = 1,
         NEW rc \in Channel, FrameOf(rc, ch.size, ch.data_type), rc.timer # ExtendedTimer,
         Framed(s, WrittenTimer(s, ch)), NEW rest \in Seq(Byte)
  PROVE  LET r == ReadChannel(rc, PacketMask(ch, s.pac), Fields(s, ch) \o rest)
         IN FrameOf(r, Len(s.pac.data), s.pac.data_type) /\ r.timer # ExtendedTimer
<1> DEFINE p == s.pac
           m == PacketMask(ch, p)
           w == WrittenTimer(s, ch)
           b(k) == HeaderFields(p, k, w) \o rest
<1>1. /\ p.data_type \in Byte /\ p.stream_id \in Int /\ Len(p.data) \in Nat
      /\ Len(p.data) <= ExtendedTimer /\ w \in Int
  BY FramedCall, WrittenTimerInt
<1>2. MediumInt(w) # MediumInt(ExtendedTimer)
  BY DEF Framed
<1>3. m \in 0 .. 3 /\ (m \in {2, 3} => ch.data_type = p.data_type /\ ch.size = Len(p.data))
  BY DEF PacketMask, CHANNEL_NEW
<1>4. Fields(s, ch) \o rest = b(m)
  BY DEF Fields
<1> HIDE DEF p, m, w
<1>5. /\ \A k \in 0 .. 1 : ReadMediumInt(b(k), 4) = Len(p.data) /\ b(k)[7] = p.data_type
      /\ \A k \in 0 .. 2 : \A i \in 1 .. 3 : b(k)[i] = MediumInt(w)[i]
  BY <1>1, FieldsKept
<1> HIDE DEF b
<1>6. \A k \in 0 .. 2 : ReadMediumInt(b(k), 1) # ExtendedTimer
  BY <1>1, <1>2, <1>5, TimerRead
<1> DEFINE r(k) == ReadChannel(rc, k, b(k))
<1>7. FrameOf(r(m), Len(p.data), p.data_type) /\ r(m).timer # ExtendedTimer
  <2> USE DEF FrameOf
  <2>1. CASE m = 0
    <3>1. r(0) = [used |-> rc.used, timer |-> ReadMediumInt(b(0), 1),
                  size |-> ReadMediumInt(b(0), 4), data_type |-> b(0)[7],
                  stream_id |-> ReadInt(b(0), 8)]
      BY DEF ReadChannel, CHANNEL_NEW, CHANNEL_SAME_SOURCE, CHANNEL_TIMER_CHANGE
    <3> HIDE DEF r
    <3> QED BY <1>5, <1>6, <2>1, <3>1
  <2>2. CASE m = 1
    <3>1. r(1) = [used |-> rc.used, timer |-> ReadMediumInt(b(1), 1),
                  size |-> ReadMediumInt(b(1), 4), data_type |-> b(1)[7],
                  stream_id |-> rc.stream_id]
      BY MaskCases
    <3> HIDE DEF r
    <3> QED BY <1>5, <1>6, <2>2, <3>1
  <2>3. CASE m = 2
    <3>1. r(2) = [rc EXCEPT !.timer = ReadMediumInt(b(2), 1)]
      BY MaskCases
    <3> HIDE DEF r
    <3>2. /\ r(2).used = rc.used /\ r(2).timer = ReadMediumInt(b(2), 1) /\ r(2).size = rc.size
          /\ r(2).data_type = rc.data_type
      BY <3>1 DEF Channel
    <3> QED BY <1>3, <1>6, <2>3, <3>2
  <2>4. CASE m = 3
    <3>1. r(3) = rc
      BY MaskCases
    <3> HIDE DEF r
    <3> QED BY <1>3, <2>4, <3>1
  <2> QED BY <1>3, <2>1, <2>2, <2>3, <2>4
<1> QED BY <1>4, <1>7 DEF p, m

-----------------------------------------------------------------------------
(* Calls that keep the stream in frames.                                   *)

\* The channels of such calls are in use at the sender, whatever it sends.
UsedInv == \A i \in 0 .. Len(log) : \A c \in {2, 3} : TableAt(i)[c].used = 1

\* The receiver finds the end of the next packet as the sender meant it: of the two tables
\* only the sizes and the types have to agree.
InFrame(n) ==
  \A c \in {2, 3} : /\ FrameOf(channels_in[c], TableAt(n)[c].size, TableAt(n)[c].data_type)
                    /\ channels_in[c].timer # ExtendedTimer

\* What arrives of a packet, whatever its timer and its stream.
Carries(d, p) ==
  /\ d.channel_id = p.channel_id /\ d.channel.data_type = p.data_type /\ d.data = p.data

\* The parser is between the n-th packet and the next.
FramedBetween(n) == FramedUpTo(n) => n <= Len(log) /\ InFrame(n) /\ Pos = EndOf(n)

\* The parser is inside the n-th packet.
FramedInside(n) ==
  FramedUpTo(n) =>
    /\ n <= Len(log)
    /\ channel_id = Pac(n).channel_id /\ packet_mask = Mask(n)
    /\ state <= 4 => pac = << >> /\ InFrame(n - 1) /\ Pos = EndOf(n - 1) + 1
    /\ state > 4 => /\ InFrame(n)
                    /\ pac = << >> => Pos = EndOf(n - 1) + 1 + HeaderLength(Mask(n))
    /\ state = 6 => data_buffer = Len(Pac(n).data)
    /\ pac # << >> => Pos = EndOf(n) /\ Carries(pac[1], Pac(n))

FrameInv ==
  /\ UsedInv
  /\ DataArrives
  /\ state <= 1 => FramedBetween(Len(delivered))
  /\ state > 1 => FramedInside(Len(delivered) + 1)

\* What the log says stays while nothing is sent.
LEMMA LogKept ==
  ASSUME UNCHANGED log, NEW n
  PROVE  /\ TableAt(n)' = TableAt(n) /\ EndOf(n)' = EndOf(n)
         /\ TableAt(n - 1)' = TableAt(n - 1) /\ EndOf(n - 1)' = EndOf(n - 1)
         /\ Pac(n)' = Pac(n) /\ Mask(n)' = Mask(n) /\ FramedUpTo(n)' = FramedUpTo(n)
<1>1. \A i : TableAt(i)' = TableAt(i) /\ EndOf(i)' = EndOf(i) /\ Pac(i)' = Pac(i)
  BY DEF TableAt, EndOf, Pac
<1>2. Mask(n)' = Mask(n)
  BY <1>1 DEF Mask, Ch
<1>3. \A i : TimerAt(i)' = TimerAt(i)
  BY <1>1 DEF TimerAt
<1>4. FramedUpTo(n)' = FramedUpTo(n)
  BY <1>3 DEF FramedUpTo
<1> QED BY <1>1, <1>2, <1>4

\* So does what was known of the calls.
LEMMA DataKept ==
  ASSUME FrameInv, UNCHANGED << log, delivered >>
  PROVE  UsedInv' /\ DataArrives'
<1>1. \A i : TableAt(i)' = TableAt(i) /\ FramedUpTo(i)' = FramedUpTo(i)
  BY LogKept
<1> QED BY <1>1 DEF FrameInv, UsedInv, DataArrives

\* The two ends stay in frame while neither table changes.
LEMMA FrameKept ==
  ASSUME UNCHANGED << log, channels_in >>, NEW n, InFrame(n)
  PROVE  InFrame(n)'
<1>1. TableAt(n)' = TableAt(n)
  BY LogKept
<1> QED BY <1>1 DEF InFrame

\* A fresh connection.
LEMMA InitFrame == Init => FrameInv
<1> SUFFICES ASSUME Init PROVE FrameInv
  OBVIOUS
<1>1. Len(log) = 0 /\ Len(delivered) = 0 /\ Len(rbuf) = 0 /\ state = 0 /\ taken = 0
  BY DEF Init
<1>2. TableAt(0) = InitChannels /\ channels_in = InitChannels /\ EndOf(0) = 0
  BY DEF Init, TableAt, EndOf
<1>3. \A c \in {2, 3} : InitChannels[c] = InitChannel
  BY Sizes DEF InitChannels
<1>4. InitChannel.used = 1 /\ InitChannel.timer # ExtendedTimer
  BY DEF InitChannel, ExtendedTimer
<1>5. UsedInv
  BY <1>1, <1>2, <1>3, <1>4 DEF UsedInv
<1>6. FramedBetween(0)
  BY <1>1, <1>2, <1>3, <1>4 DEF FramedBetween, InFrame, FrameOf, Pos
<1> QED BY <1>1, <1>5, <1>6 DEF FrameInv, DataArrives

\* The channel a call was compressed against is in use, and stays so.
LEMMA SendUsed ==
  ASSUME TypeOK, SenderInv, UsedInv, NEW s \in Sends, Send(s)
  PROVE  UsedInv'
<1> DEFINE c   == s.pac.channel_id
           ch  == channels_out[c]
           new == WrittenChannel(OutChannel(ch), s.pac, PacketMask(ch, s.pac))
<1>1. /\ Len(log) \in Nat /\ Len(log') = Len(log) + 1
      /\ \A i \in 0 .. Len(log) : TableAt(i)' = TableAt(i)
  BY Entries, SendOld
<1>2. channels_out' = TableAt(Len(log))' /\ channels_out = TableAt(Len(log))
  BY <1>1, SendSender DEF SenderInv
<1>3. ch \in Channel /\ channels_out \in Channels /\ c \in 0 .. NumChannels - 1
  BY CallTypes, TableEntry DEF TypeOK, SenderOK
<1>4. new.used = 1
  <2>1. OutChannel(ch).used = 1 /\ OutChannel(ch) \in Channel
    <3>1. InitChannel \in Channel /\ InitChannel.used = 1
      BY DEF InitChannel, Channel, Byte
    <3>2. ch.used \in {0, 1}
      BY <1>3 DEF Channel
    <3> QED BY <1>3, <3>1, <3>2 DEF OutChannel
  <2> QED BY <2>1 DEF WrittenChannel, Channel
<1>5. channels_out' = [channels_out EXCEPT ![c] = new]
  BY DEF Send
<1> HIDE DEF new, ch
<1>6. ASSUME NEW i \in 0 .. Len(log'), NEW d \in {2, 3} PROVE TableAt(i)'[d].used = 1
  <2>1. CASE i \in 0 .. Len(log)
    BY <1>1, <2>1 DEF UsedInv
  <2>2. CASE i = Len(log')
    <3>1. channels_out[d].used = 1 /\ d \in 0 .. NumChannels - 1
      BY <1>1, <1>2, Sizes DEF UsedInv
    <3>2. channels_out'[d].used = 1
      BY <1>3, <1>4, <1>5, <3>1 DEF Channels
    <3>3. TableAt(i)' = channels_out'
      BY <1>2, <2>2 DEF TableAt
    <3> QED BY <3>2, <3>3
  <2> QED BY <1>1, <2>1, <2>2
<1> QED BY <1>6 DEF UsedInv

\* What was known of earlier calls stays.
LEMMA SendFramedOld ==
  ASSUME TypeOK, NEW s \in Sends, Send(s), NEW m \in Int, FramedUpTo(m)'
  PROVE  FramedUpTo(m)
<1>1. /\ Len(log) \in Nat /\ Len(log') = Len(log) + 1
      /\ \A i \in 1 .. Len(log) : log'[i] = log[i]
      /\ \A i \in 0 .. Len(log) : TableAt(i)' = TableAt(i)
  BY Entries, SendOld
<1>2. ASSUME NEW i \in 1 .. Len(log), i <= m
      PROVE  Framed(log[i].call, TimerAt(i)) /\ log[i].whole
  <2>1. log'[i] = log[i] /\ i \in 1 .. Len(log') /\ i - 1 \in 0 .. Len(log)
    BY <1>1
  <2>2. TableAt(i - 1)' = TableAt(i - 1)
    BY <1>1, <2>1
  <2>3. TimerAt(i)' = TimerAt(i)
    BY <2>1, <2>2 DEF TimerAt
  <2> QED BY <1>2, <2>1, <2>3 DEF FramedUpTo
<1> QED BY <1>2 DEF FramedUpTo

\* A call moves nothing at the receiver.
LEMMA SendFrame ==
  ASSUME LinkInv, FrameInv, NEW s \in Sends, Send(s)
  PROVE  FrameInv'
<1> DEFINE d == Len(delivered)
           n == d + 1
<1>1. /\ TypeOK /\ SenderInv /\ Len(log) \in Nat /\ d \in Nat
  BY Parts
<1>2. UNCHANGED << taken, rbuf, state, packet_mask, channel_id, data_buffer, channels_in, pac,
                   delivered >>
  BY DEF Send, reader, parser
<1>3. /\ Len(log') = Len(log) + 1 /\ \A i \in 1 .. Len(log) : log'[i] = log[i]
      /\ \A i \in 0 .. Len(log) : EndOf(i)' = EndOf(i) /\ TableAt(i)' = TableAt(i)
  BY <1>1, SendOld
<1>4. Pos' = Pos
  BY <1>2 DEF Pos
<1>5. UsedInv'
  BY <1>1, SendUsed DEF FrameInv
<1>6. DataArrives'
  <2>1. ASSUME NEW i \in 1 .. d, FramedUpTo(i)'
        PROVE  /\ i <= Len(log')
               /\ delivered[i].channel_id = log'[i].call.pac.channel_id
               /\ delivered[i].channel.data_type = log'[i].call.pac.data_type
               /\ delivered[i].data = log'[i].call.pac.data
    <3>1. FramedUpTo(i)
      BY <1>1, <2>1, SendFramedOld
    <3>2. /\ i <= Len(log)
          /\ delivered[i].channel_id = log[i].call.pac.channel_id
          /\ delivered[i].channel.data_type = log[i].call.pac.data_type
          /\ delivered[i].data = log[i].call.pac.data
      BY <3>1 DEF FrameInv, DataArrives
    <3>3. i \in 1 .. Len(log)
      BY <1>1, <3>2
    <3> QED BY <1>1, <1>3, <3>2, <3>3
  <2> QED BY <1>2, <2>1 DEF DataArrives
<1>7. ASSUME NEW m, m = d, FramedBetween(m), FramedUpTo(m)'
      PROVE  m <= Len(log') /\ InFrame(m)' /\ Pos' = EndOf(m)'
  <2>1. FramedUpTo(m)
    BY <1>1, <1>7, SendFramedOld
  <2>2. m <= Len(log) /\ InFrame(m) /\ Pos = EndOf(m)
    BY <1>7, <2>1 DEF FramedBetween
  <2>3. m \in 0 .. Len(log)
    BY <1>1, <1>7, <2>2
  <2>4. TableAt(m)' = TableAt(m) /\ EndOf(m)' = EndOf(m)
    BY <1>3, <2>3
  <2>5. InFrame(m)'
    BY <1>2, <2>2, <2>4 DEF InFrame
  <2>6. m <= Len(log')
    BY <1>1, <1>3, <2>3
  <2> QED BY <1>4, <2>2, <2>4, <2>5, <2>6
<1>8. ASSUME NEW m, m = n, FramedInside(m), FramedUpTo(m)' PROVE FramedInside(m)'
  <2>1. m \in Int /\ FramedUpTo(m)
    BY <1>1, <1>8, SendFramedOld
  <2>2. m <= Len(log)
    BY <1>8, <2>1 DEF FramedInside
  <2>3. m \in 0 .. Len(log) /\ m \in 1 .. Len(log) /\ m - 1 \in 0 .. Len(log)
    BY <1>1, <1>8, <2>2
  <2>4. /\ TableAt(m)' = TableAt(m) /\ EndOf(m)' = EndOf(m)
        /\ TableAt(m - 1)' = TableAt(m - 1) /\ EndOf(m - 1)' = EndOf(m - 1)
        /\ log'[m] = log[m] /\ Len(log') = Len(log) + 1
    BY <1>3, <2>3
  <2>5. Pac(m)' = Pac(m) /\ Mask(m)' = Mask(m)
    BY <2>4 DEF Pac, Mask, Ch
  <2>6. /\ InFrame(m) => InFrame(m)'
        /\ InFrame(m - 1) => InFrame(m - 1)'
    BY <1>2, <2>4 DEF InFrame
  <2>7. m <= Len(log')
    BY <1>1, <2>3, <2>4
  <2> QED BY <1>2, <1>4, <1>8, <2>1, <2>4, <2>5, <2>6, <2>7 DEF FramedInside
<1>9. ASSUME NEW m, m = d PROVE FramedBetween(m) => FramedBetween(m)'
  BY <1>7, <1>9 DEF FramedBetween
<1>10. ASSUME NEW m, m = n PROVE FramedInside(m) => FramedInside(m)'
  <2>1. ASSUME ~FramedUpTo(m)' PROVE FramedInside(m)'
    BY <2>1 DEF FramedInside
  <2> QED BY <1>8, <1>10, <2>1
<1> QED BY <1>2, <1>5, <1>6, <1>9, <1>10 DEF FrameInv

\* A step that leaves the sender and the parser alone keeps the invariant.
LEMMA PlaceFrame ==
  ASSUME FrameInv, UNCHANGED << log, delivered, parser, channels_in, pac >>,
         Pos' = Pos
  PROVE  FrameInv'
<1> DEFINE d == Len(delivered)
           n == d + 1
<1>1. UNCHANGED << state, packet_mask, channel_id, data_buffer >>
  BY DEF parser
<1>2. ASSUME NEW m
      PROVE  /\ FramedBetween(m) => FramedBetween(m)'
             /\ FramedInside(m) => FramedInside(m)'
  <2>1. /\ TableAt(m)' = TableAt(m) /\ EndOf(m)' = EndOf(m)
        /\ TableAt(m - 1)' = TableAt(m - 1) /\ EndOf(m - 1)' = EndOf(m - 1)
        /\ Pac(m)' = Pac(m) /\ Mask(m)' = Mask(m) /\ FramedUpTo(m)' = FramedUpTo(m)
    BY LogKept
  <2>2. InFrame(m)' = InFrame(m) /\ InFrame(m - 1)' = InFrame(m - 1)
    BY <2>1 DEF InFrame
  <2> QED BY <1>1, <2>1, <2>2 DEF FramedBetween, FramedInside
<1> QED BY <1>1, <1>2, DataKept DEF FrameInv

\* So does a step inside the packet that is being received, if it moves the parser to where
\* the sender was.
LEMMA FrameStep ==
  ASSUME FrameInv, UNCHANGED << log, delivered >>, NEW n, n = Len(delivered) + 1,
         state' \in 2 .. 6,
         FramedUpTo(n) =>
           /\ n <= Len(log)
           /\ channel_id' = Pac(n).channel_id /\ packet_mask' = Mask(n)
           /\ state' <= 4 => pac' = << >> /\ InFrame(n - 1)' /\ Pos' = EndOf(n - 1) + 1
           /\ state' > 4 => /\ InFrame(n)'
                            /\ pac' = << >> => Pos' = EndOf(n - 1) + 1 + HeaderLength(Mask(n))
           /\ state' = 6 => data_buffer' = Len(Pac(n).data)
           /\ pac' # << >> => Pos' = EndOf(n) /\ Carries(pac'[1], Pac(n))
  PROVE  FrameInv'
<1>1. /\ TableAt(n)' = TableAt(n) /\ EndOf(n)' = EndOf(n)
      /\ TableAt(n - 1)' = TableAt(n - 1) /\ EndOf(n - 1)' = EndOf(n - 1)
      /\ Pac(n)' = Pac(n) /\ Mask(n)' = Mask(n) /\ FramedUpTo(n)' = FramedUpTo(n)
  BY LogKept
<1>2. FramedInside(n)'
  BY <1>1 DEF FramedInside
<1>3. FramedInside(Len(delivered) + 1)'
  BY <1>2
<1> QED BY <1>3, DataKept DEF FrameInv

\* What is known of the packet that is being received.
LEMMA ReceivingFrame ==
  ASSUME LinkInv, FrameInv, state > 1, NEW n, n = Len(delivered) + 1, FramedUpTo(n)
  PROVE  /\ n \in 1 .. Len(log) /\ n - 1 \in 0 .. Len(log) /\ FramedInside(n)
         /\ log[n].call \in Sends /\ log[n].whole
         /\ Framed(log[n].call, TimerAt(n)) /\ TimerAt(n) = WrittenTimer(log[n].call, Ch(n))
         /\ Ch(n) \in Channel /\ Ch(n).used = 1
         /\ channel_id = Pac(n).channel_id /\ channel_id \in {2, 3} /\ packet_mask = Mask(n)
<1>1. /\ TypeOK /\ SenderInv /\ Len(log) \in Nat /\ Len(delivered) \in Nat
  BY Parts
<1>2. FramedInside(n)
  BY DEF FrameInv
<1>3. n <= Len(log) /\ channel_id = Pac(n).channel_id /\ packet_mask = Mask(n)
  BY <1>2 DEF FramedInside
<1>4. n \in 1 .. Len(log) /\ n - 1 \in 0 .. Len(log)
  BY <1>1, <1>3
<1>5. log[n].call \in Sends /\ Framed(log[n].call, TimerAt(n)) /\ log[n].whole
  <2>1. n <= n
    BY <1>1
  <2> QED BY <1>1, <1>4, <2>1 DEF FramedUpTo, SenderInv
<1>6. TimerAt(n) = WrittenTimer(log[n].call, Ch(n))
  BY DEF TimerAt, WrittenTimer, Ch, Pac
<1>7. Ch(n) \in Channel
  BY <1>1, <1>4, <1>5, FramedAt
<1>8. Pac(n).channel_id \in {2, 3}
  BY <1>5, FramedCall DEF Pac
<1>9. Ch(n).used = 1
  BY <1>4, <1>8 DEF FrameInv, UsedInv, Ch
<1> QED BY <1>2, <1>3, <1>4, <1>5, <1>6, <1>7, <1>8, <1>9

\* A read moves only the end of what was read.
LEMMA ReceiveFrame ==
  ASSUME LinkInv, LinkInv', FrameInv, NEW n \in 1 .. BufSize, Receive(n)
  PROVE  FrameInv'
<1>1. /\ ReaderInv /\ taken \in Nat
  BY Parts
<1>2. rbuf = << >> /\ last_data = << >> /\ UNCHANGED << log, delivered, parser, channels_in, pac >>
  BY <1>1 DEF ReaderInv, Receive, sender
<1>3. /\ n \in Nat /\ taken + n <= Len(stream) /\ stream \in Seq(Byte) /\ taken' = taken + n
      /\ rbuf' = SubSeq(last_data \o SubSeq(stream, taken + 1, taken + n), 1, n)
  BY Parts DEF Receive, TypeOK, SenderOK
<1>4. Len(rbuf') = n
  <2> DEFINE got == SubSeq(stream, taken + 1, taken + n)
  <2>1. got \in Seq(Byte) /\ Len(got) = n
    <3>1. \A i \in taken + 1 .. taken + n : stream[i] \in Byte
      BY <1>1, <1>3
    <3>2. /\ taken + 1 \in Int /\ taken + n \in Int /\ taken + 1 <= taken + n
          /\ (taken + n) - (taken + 1) + 1 = n
      BY <1>1, <1>3
    <3> QED BY <3>1, <3>2, SubSeqProperties
  <2> HIDE DEF got
  <2>2. rbuf' = SubSeq(<< >> \o got, 1, n)
    BY <1>2, <1>3 DEF got
  <2>3. rbuf' = got
    <3>1. n \in Nat /\ n >= 1
      BY <1>3
    <3> QED BY <2>1, <2>2, <3>1
  <2> QED BY <2>1, <2>3
<1>5. Pos' = Pos
  BY <1>1, <1>2, <1>3, <1>4 DEF Pos
<1> QED BY <1>2, <1>5, PlaceFrame

\* The parser starts on the bytes it has.
LEMMA StartReceiveFrame == ASSUME LinkInv, FrameInv, StartReceive PROVE FrameInv'
<1>1. /\ state = 0 /\ state' = 1 /\ Pos' = Pos
      /\ UNCHANGED << log, delivered, channels_in >>
  BY DEF StartReceive, Parsing, reader, ParserFrame, sender, Pos
<1>2. ASSUME NEW m PROVE FramedBetween(m) => FramedBetween(m)'
  <2>1. TableAt(m)' = TableAt(m) /\ EndOf(m)' = EndOf(m) /\ FramedUpTo(m)' = FramedUpTo(m)
    BY <1>1, LogKept
  <2> QED BY <1>1, <2>1 DEF FramedBetween, InFrame
<1> QED BY <1>1, <1>2, DataKept DEF FrameInv

\* r1 reads the first byte of the next packet.
LEMMA GetR1Frame == ASSUME LinkInv, FrameInv, GetR1 PROVE FrameInv'
<1> SUFFICES ASSUME NEW n, n = Len(delivered) + 1 PROVE FrameInv'
  OBVIOUS
<1> DEFINE d == Len(delivered)
<1>1. /\ TypeOK /\ SenderInv /\ ReaderInv
      /\ rbuf \in Seq(Byte) /\ Len(rbuf) \in Nat /\ taken \in Nat
      /\ Len(log) \in Nat /\ d \in Nat /\ Len(stream) \in Nat
      /\ taken <= Len(stream) /\ Pos \in Int
  BY Parts
<1>2. /\ state = 1 /\ state' = 2 /\ pac' = << >> /\ channels_in' = channels_in
      /\ packet_mask' = rbuf[1] \div 64 /\ channel_id' = rbuf[1] % 64
      /\ rbuf' = SubSeq(rbuf, 1 + 1, Len(rbuf)) /\ UNCHANGED << log, delivered, taken >>
  BY DEF GetR1, Parsing, Consume, ParserFrame, sender
<1>3. 1 \in 0 .. Len(rbuf) /\ 1 \in 1 .. Len(rbuf)
  <2>1. rbuf # << >>
    BY <1>1, <1>2 DEF TypeOK, ParserOK
  <2> QED BY <1>1, <2>1
<1>4. Pos' = Pos + 1
  BY <1>1, <1>2, <1>3, Consumed
<1>5. ASSUME FramedUpTo(n)
      PROVE  /\ n \in 1 .. Len(log) /\ InFrame(n - 1) /\ Pos = EndOf(n - 1)
             /\ rbuf[1] = Hd(n) /\ Pac(n).channel_id \in {2, 3}
  <2>1. FramedUpTo(d)
    BY <1>1, <1>5 DEF FramedUpTo
  <2>2. d <= Len(log) /\ InFrame(d) /\ Pos = EndOf(d)
    BY <1>1, <1>2, <2>1 DEF FrameInv, FramedBetween
  <2>3. d # Len(log)
    <3>1. taken = Pos + Len(rbuf) /\ Len(rbuf) >= 1
      BY <1>1, <1>3 DEF Pos
    <3>2. Len(stream) = EndOf(Len(log))
      BY <1>1 DEF SenderInv
    <3> QED BY <1>1, <2>2, <3>1, <3>2
  <2>4. n \in 1 .. Len(log) /\ n - 1 = d
    BY <1>1, <2>2, <2>3
  <2>5. log[n].call \in Sends /\ Framed(log[n].call, TimerAt(n)) /\ log[n].whole
    <3>1. n <= n
      BY <1>1
    <3> QED BY <1>1, <1>5, <2>4, <3>1 DEF FramedUpTo, SenderInv
  <2>6. stream[EndOf(d) + 1] = Hd(n)
    BY <1>1, <2>4, <2>5, FramedAt
  <2>7. rbuf[1] = stream[Pos + 1]
    BY <1>1, <1>3 DEF ReaderInv
  <2>8. Pac(n).channel_id \in {2, 3}
    BY <2>5, FramedCall DEF Pac
  <2> QED BY <2>2, <2>4, <2>6, <2>7, <2>8
<1>6. ASSUME FramedUpTo(n)
      PROVE  channel_id' = Pac(n).channel_id /\ packet_mask' = Mask(n)
  <2> DEFINE m == Mask(n)
             c == Pac(n).channel_id
  <2>1. c \in {2, 3} /\ m \in 0 .. 3
    BY <1>5, <1>6, MaskBits DEF Mask
  <2>2. rbuf[1] = m * 64 + c
    BY <1>5, <1>6, Zenon DEF Hd, First, Mask, Pac
  <2> HIDE DEF m, c
  <2>3. (m * 64 + c) \div 64 = m /\ (m * 64 + c) % 64 = c
    <3> DEFINE e == m * 64 + c
    <3>1. e \in Int /\ c \in Int /\ m \in Int /\ 0 <= c /\ c < 64 /\ e = 64 * m + c
      BY <2>1
    <3> HIDE DEF e
    <3>2. e \div 64 = m /\ e % 64 = c
      BY <3>1, DivModUnique
    <3> QED BY <3>2 DEF e
  <2>4. packet_mask' = m /\ channel_id' = c
    BY <1>2, <2>2, <2>3, Zenon
  <2> QED BY <2>4 DEF m, c
<1>7. ASSUME FramedUpTo(n) PROVE InFrame(n - 1)' /\ Pos' = EndOf(n - 1) + 1 /\ n <= Len(log)
  <2>1. n \in 1 .. Len(log) /\ InFrame(n - 1) /\ Pos = EndOf(n - 1)
    BY <1>5, <1>7
  <2>2. InFrame(n - 1)'
    BY <1>2, <2>1, FrameKept
  <2> QED BY <1>4, <2>1, <2>2
<1> QED
  <2>1. state' \in 2 .. 6 /\ ~(state' > 4) /\ state' # 6
    BY <1>2
  <2> QED BY <1>2, <1>6, <1>7, <2>1, FrameStep

\* The channels of such packets have short ids: r2 has nothing to read.
LEMMA GetR2Frame == ASSUME LinkInv, FrameInv, GetR2 PROVE FrameInv'
<1> SUFFICES ASSUME NEW n, n = Len(delivered) + 1 PROVE FrameInv'
  OBVIOUS
<1>1. TypeOK /\ Len(rbuf) \in Nat /\ Pos \in Int
  BY Parts
<1>2. /\ state = 2 /\ state' = 3 /\ pac' = << >> /\ channels_in' = channels_in
      /\ packet_mask' = packet_mask /\ Len(rbuf) >= IdLength
      /\ rbuf' = SubSeq(rbuf, IdLength + 1, Len(rbuf)) /\ UNCHANGED << log, delivered, taken >>
      /\ channel_id' = CASE IdLength = 1 -> 64 + rbuf[1]
                         [] IdLength = 2 -> 64 + ReadShort(rbuf, 1)
                         [] OTHER        -> channel_id
  BY DEF GetR2, Parsing, Consume, ParserFrame, sender
<1>3. IdLength \in 0 .. Len(rbuf)
  BY <1>1, <1>2 DEF IdLength
<1>4. Pos' = Pos + IdLength
  BY <1>1, <1>2, <1>3, Consumed
<1>5. ASSUME FramedUpTo(n)
      PROVE  /\ n <= Len(log) /\ channel_id' = Pac(n).channel_id /\ packet_mask' = Mask(n)
             /\ InFrame(n - 1)' /\ Pos' = EndOf(n - 1) + 1
  <2>1. /\ n \in 1 .. Len(log) /\ FramedInside(n) /\ channel_id = Pac(n).channel_id
        /\ channel_id \in {2, 3} /\ packet_mask = Mask(n)
    BY <1>2, <1>5, ReceivingFrame
  <2>2. IdLength = 0 /\ channel_id' = channel_id
    BY <1>2, <2>1 DEF IdLength
  <2>3. n <= Len(log) /\ InFrame(n - 1) /\ Pos = EndOf(n - 1) + 1
    BY <1>2, <1>5, <2>1 DEF FramedInside
  <2>4. InFrame(n - 1)'
    BY <1>2, <2>3, FrameKept
  <2>5. Pos' = Pos
    BY <1>1, <1>4, <2>2
  <2> QED BY <1>2, <2>1, <2>2, <2>3, <2>4, <2>5
<1>6. state' \in 2 .. 6 /\ ~(state' > 4) /\ state' # 6
  BY <1>2
<1> QED BY <1>2, <1>5, <1>6, FrameStep

\* r3 looks at the channel id.
LEMMA GetR3Frame == ASSUME LinkInv, FrameInv, GetR3 PROVE FrameInv'
<1> SUFFICES ASSUME NEW n, n = Len(delivered) + 1 PROVE FrameInv'
  OBVIOUS
<1>1. /\ state = 3 /\ state' = 4 /\ pac' = << >> /\ Pos' = Pos
      /\ UNCHANGED << packet_mask, channel_id, channels_in, log, delivered, taken >>
  BY DEF GetR3, Parsing, reader, ParserFrame, sender, Pos
<1>2. ASSUME FramedUpTo(n)
      PROVE  /\ n <= Len(log) /\ channel_id' = Pac(n).channel_id /\ packet_mask' = Mask(n)
             /\ InFrame(n - 1)' /\ Pos' = EndOf(n - 1) + 1
  <2>1. /\ FramedInside(n) /\ channel_id = Pac(n).channel_id /\ packet_mask = Mask(n)
    BY <1>1, <1>2, ReceivingFrame
  <2>2. n <= Len(log) /\ InFrame(n - 1) /\ Pos = EndOf(n - 1) + 1
    BY <1>1, <1>2, <2>1 DEF FramedInside
  <2>3. InFrame(n - 1)'
    BY <1>1, <2>2, FrameKept
  <2> QED BY <1>1, <2>1, <2>2, <2>3
<1>3. state' \in 2 .. 6 /\ ~(state' > 4) /\ state' # 6
  BY <1>1
<1> QED BY <1>1, <1>2, <1>3, FrameStep

\* In the fields of such a packet the receiver reads its size and its type.
LEMMA FrameRead ==
  ASSUME LinkInv, FrameInv, state = 4, NEW n, n = Len(delivered) + 1, FramedUpTo(n),
         Len(rbuf) >= HeaderLength(packet_mask), NEW r,
         r = ReadChannel(channels_in[channel_id], packet_mask, rbuf)
  PROVE  /\ FrameOf(r, Len(Pac(n).data), Pac(n).data_type) /\ r.timer # ExtendedTimer
         /\ InFrame(n - 1) /\ Pos = EndOf(n - 1) + 1 /\ Len(Pac(n).data) < LargeSize
         /\ Len(Pac(n).data) \in Nat
<1> DEFINE s  == log[n].call
           rc == channels_in[channel_id]
<1>1. /\ TypeOK /\ SenderInv /\ ReaderInv /\ Len(rbuf) \in Nat
  BY Parts
<1>2. /\ n \in 1 .. Len(log) /\ n - 1 \in 0 .. Len(log) /\ FramedInside(n)
      /\ s \in Sends /\ log[n].whole
      /\ Framed(s, TimerAt(n)) /\ TimerAt(n) = WrittenTimer(s, Ch(n))
      /\ Ch(n) \in Channel /\ Ch(n).used = 1
      /\ channel_id = Pac(n).channel_id /\ channel_id \in {2, 3} /\ packet_mask = Mask(n)
  BY ReceivingFrame
<1>3. InFrame(n - 1) /\ Pos = EndOf(n - 1) + 1
  BY <1>2 DEF FramedInside
<1>4. /\ Fl(n) \in Seq(Byte) /\ Len(Fl(n)) = HeaderLength(Mask(n))
      /\ \A j \in 1 .. Len(Fl(n)) : stream[EndOf(n - 1) + 1 + j] = Fl(n)[j]
  BY <1>1, <1>2, FramedAt
<1>5. PICK rest \in Seq(Byte) : rbuf = Fl(n) \o rest
  <2>1. \A j \in 1 .. Len(Fl(n)) : stream[Pos + j] = Fl(n)[j]
    BY <1>3, <1>4
  <2>2. Len(Fl(n)) <= Len(rbuf)
    BY <1>1, <1>2, <1>4
  <2> QED BY <1>1, <1>4, <2>1, <2>2, Buffered
<1>6. rc \in Channel /\ FrameOf(rc, Ch(n).size, Ch(n).data_type) /\ rc.timer # ExtendedTimer
  <2>1. channel_id \in 0 .. NumChannels - 1 /\ channels_in \in Channels
    BY <1>1, <1>2, Sizes DEF TypeOK, ParserOK
  <2>2. rc \in Channel
    BY <2>1, TableEntry
  <2>3. FrameOf(rc, Ch(n).size, Ch(n).data_type) /\ rc.timer # ExtendedTimer
    BY <1>2, <1>3 DEF InFrame, Ch
  <2> QED BY <2>2, <2>3
<1>7. Len(s.pac.data) < LargeSize /\ Len(s.pac.data) \in Nat
  BY <1>2, FramedCall
<1> HIDE DEF rc
<1>8. r = ReadChannel(rc, PacketMask(Ch(n), s.pac), Fields(s, Ch(n)) \o rest)
  BY <1>2, <1>5, Zenon DEF Fl, Mask, Pac, rc
<1>9. FrameOf(r, Len(s.pac.data), s.pac.data_type) /\ r.timer # ExtendedTimer
  <2>1. Framed(s, WrittenTimer(s, Ch(n)))
    BY <1>2
  <2> HIDE DEF s
  <2> QED BY <1>2, <1>6, <1>8, <2>1, FramedHeader
<1> QED BY <1>3, <1>7, <1>9 DEF Pac

\* r4 takes over the size and the type; such a packet is not too large.
LEMMA GetR4Frame == ASSUME LinkInv, FrameInv, GetR4 PROVE FrameInv'
<1> SUFFICES ASSUME NEW n, n = Len(delivered) + 1 PROVE FrameInv'
  OBVIOUS
<1> DEFINE h  == HeaderLength(packet_mask)
           ch == ReadChannel(channels_in[channel_id], packet_mask, rbuf)
<1>1. TypeOK /\ SenderInv /\ Len(rbuf) \in Nat /\ Pos \in Int /\ Len(log) \in Nat
  BY Parts
<1>2. /\ state = 4 /\ pac = << >> /\ UNCHANGED << packet_mask, channel_id >>
      /\ UNCHANGED << log, delivered, taken >>
      /\ channels_in' = [channels_in EXCEPT ![channel_id] = ch] /\ Len(rbuf) >= h
  BY DEF GetR4, Parsing, ParserFrame, sender
<1>3. h \in 0 .. Len(rbuf)
  <2>1. h \in Nat
    BY <1>1, Lengths DEF TypeOK, ParserOK
  <2> QED BY <1>1, <1>2, <2>1
<1>4. ASSUME FramedUpTo(n)
      PROVE  /\ ~(ch.size >= LargeSize) /\ n <= Len(log) /\ channel_id = Pac(n).channel_id
             /\ packet_mask = Mask(n) /\ InFrame(n)' /\ Pos = EndOf(n - 1) + 1
  <2>1. /\ FrameOf(ch, Len(Pac(n).data), Pac(n).data_type) /\ ch.timer # ExtendedTimer
        /\ InFrame(n - 1) /\ Pos = EndOf(n - 1) + 1 /\ Len(Pac(n).data) < LargeSize
        /\ Len(Pac(n).data) \in Nat
    BY <1>2, <1>4, FrameRead
  <2>2. /\ n \in 1 .. Len(log) /\ n - 1 \in 0 .. Len(log) /\ log[n].call \in Sends
        /\ Ch(n) \in Channel /\ Ch(n).used = 1
        /\ channel_id = Pac(n).channel_id /\ channel_id \in {2, 3} /\ packet_mask = Mask(n)
    BY <1>2, <1>4, ReceivingFrame
  <2> HIDE DEF ch
  <2>3. ~(ch.size >= LargeSize)
    <3>1. LargeSize \in Nat /\ ch.size = Len(Pac(n).data)
      BY <2>1, SizesAssumption DEF SizesAssumption, FrameOf
    <3> QED BY <2>1, <3>1
  <2> DEFINE new == WrittenChannel(OutChannel(Ch(n)), Pac(n), Mask(n))
  <2>4. /\ TableAt(n) = [TableAt(n - 1) EXCEPT ![channel_id] = new]
        /\ TableAt(n - 1) \in Channels
    <3>1. Written(n) /\ TableAt(n) = log[n].channels /\ TableAt(n - 1) \in Channels
      BY <1>1, <2>2, Entries DEF SenderInv, TableAt
    <3> QED BY <2>2, <3>1 DEF Written
  <2>5. FrameOf(new, Len(Pac(n).data), Pac(n).data_type)
    BY <2>2, WrittenFrame DEF Mask
  <2> HIDE DEF new
  <2>6. ASSUME NEW c \in {2, 3}
        PROVE  /\ FrameOf(channels_in'[c], TableAt(n)[c].size, TableAt(n)[c].data_type)
               /\ channels_in'[c].timer # ExtendedTimer
    <3>1. c \in 0 .. NumChannels - 1 /\ channels_in \in Channels
      BY <1>1, Sizes DEF TypeOK, ParserOK
    <3>2. CASE c = channel_id
      <4>1. channels_in'[c] = ch /\ TableAt(n)[c] = new
        BY <1>2, <2>4, <3>1, <3>2 DEF Channels
      <4> QED BY <2>1, <2>5, <4>1 DEF FrameOf
    <3>3. CASE c # channel_id
      <4>1. channels_in'[c] = channels_in[c] /\ TableAt(n)[c] = TableAt(n - 1)[c]
        BY <1>2, <2>4, <3>1, <3>3 DEF Channels
      <4> QED BY <2>1, <4>1 DEF InFrame
    <3> QED BY <3>2, <3>3
  <2>7. InFrame(n)'
    <3>1. TableAt(n)' = TableAt(n)
      BY <1>2, LogKept
    <3> QED BY <2>6, <3>1 DEF InFrame
  <2> QED BY <2>1, <2>2, <2>3, <2>7
<1>5. CASE ch.size >= LargeSize
  <2>1. state' = 4 /\ ~FramedUpTo(n)
    BY <1>2, <1>4, <1>5 DEF GetR4
  <2> QED BY <1>2, <2>1, FrameStep
<1>6. CASE ~(ch.size >= LargeSize)
  <2>1. state' = 5 /\ pac' = << >> /\ rbuf' = SubSeq(rbuf, h + 1, Len(rbuf))
    BY <1>2, <1>6 DEF GetR4, Consume
  <2>2. Pos' = Pos + h
    BY <1>1, <1>2, <1>3, <2>1, Consumed
  <2>3. state' \in 2 .. 6 /\ ~(state' <= 4) /\ state' # 6
    BY <2>1
  <2>4. ASSUME FramedUpTo(n) PROVE Pos' = EndOf(n - 1) + 1 + HeaderLength(Mask(n))
    BY <1>4, <2>2, <2>4
  <2> HIDE DEF h, ch
  <2> QED BY <1>2, <1>4, <2>1, <2>3, <2>4, FrameStep
<1> QED BY <1>5, <1>6

\* From r5 on the table has the size and the type of the packet, and the parser is at its body.
LEMMA FramePlace ==
  ASSUME LinkInv, FrameInv, state > 4, pac = << >>, NEW n, n = Len(delivered) + 1, FramedUpTo(n)
  PROVE  /\ n \in 1 .. Len(log) /\ InFrame(n)
         /\ Pos = EndOf(n - 1) + 1 + HeaderLength(Mask(n))
         /\ FrameOf(channels_in[channel_id], Len(Pac(n).data), Pac(n).data_type)
         /\ channels_in[channel_id].timer # ExtendedTimer /\ Pac(n).data_type # 0
         /\ channel_id = Pac(n).channel_id /\ packet_mask = Mask(n)
         /\ state = 6 => data_buffer = Len(Pac(n).data)
<1>1. /\ TypeOK /\ SenderInv /\ state \in 0 .. 6
  BY Parts DEF TypeOK, ParserOK
<1>2. /\ n \in 1 .. Len(log) /\ n - 1 \in 0 .. Len(log) /\ FramedInside(n)
      /\ log[n].call \in Sends /\ Framed(log[n].call, TimerAt(n))
      /\ Ch(n) \in Channel /\ Ch(n).used = 1
      /\ channel_id = Pac(n).channel_id /\ channel_id \in {2, 3} /\ packet_mask = Mask(n)
  BY <1>1, ReceivingFrame
<1>3. /\ InFrame(n) /\ Pos = EndOf(n - 1) + 1 + HeaderLength(Mask(n))
      /\ state = 6 => data_buffer = Len(Pac(n).data)
  BY <1>1, <1>2 DEF FramedInside
<1>4. Pac(n).data_type # 0
  BY <1>2, FramedCall DEF Pac
<1> DEFINE new == WrittenChannel(OutChannel(Ch(n)), Pac(n), Mask(n))
<1>5. TableAt(n)[channel_id] = new
  <2>1. Written(n) /\ TableAt(n) = log[n].channels /\ TableAt(n - 1) \in Channels
    BY <1>1, <1>2, Entries DEF SenderInv, TableAt
  <2>2. channel_id \in 0 .. NumChannels - 1
    BY <1>2, Sizes
  <2> QED BY <1>2, <2>1, <2>2, ZenonT(30) DEF Written, Channels
<1>6. FrameOf(new, Len(Pac(n).data), Pac(n).data_type)
  BY <1>2, WrittenFrame DEF Mask
<1> HIDE DEF new
<1>7. /\ FrameOf(channels_in[channel_id], Len(Pac(n).data), Pac(n).data_type)
      /\ channels_in[channel_id].timer # ExtendedTimer
  BY <1>2, <1>3, <1>5, <1>6 DEF InFrame, FrameOf
<1> QED BY <1>2, <1>3, <1>4, <1>7

\* r5 finds no long timer.
LEMMA GetR5Frame == ASSUME LinkInv, FrameInv, GetR5 PROVE FrameInv'
<1> SUFFICES ASSUME NEW n, n = Len(delivered) + 1 PROVE FrameInv'
  OBVIOUS
<1>1. TypeOK /\ Len(rbuf) \in Nat /\ Pos \in Int
  BY Parts
<1>2. /\ state = 5 /\ state' = 6 /\ pac = << >> /\ pac' = << >>
      /\ UNCHANGED << packet_mask, channel_id, channels_in, log, delivered, taken >>
      /\ data_buffer' = channels_in[channel_id].size /\ Len(rbuf) >= TimerLength
      /\ rbuf' = SubSeq(rbuf, TimerLength + 1, Len(rbuf))
  BY DEF GetR5, Parsing, Consume, ParserFrame, sender
<1>3. TimerLength \in 0 .. Len(rbuf)
  BY <1>1, <1>2, Lengths
<1>4. Pos' = Pos + TimerLength
  BY <1>1, <1>2, <1>3, Consumed
<1>5. ASSUME FramedUpTo(n)
      PROVE  /\ n <= Len(log) /\ channel_id' = Pac(n).channel_id /\ packet_mask' = Mask(n)
             /\ InFrame(n)' /\ data_buffer' = Len(Pac(n).data)
             /\ Pos' = EndOf(n - 1) + 1 + HeaderLength(Mask(n))
  <2>1. /\ n \in 1 .. Len(log) /\ InFrame(n)
        /\ Pos = EndOf(n - 1) + 1 + HeaderLength(Mask(n))
        /\ FrameOf(channels_in[channel_id], Len(Pac(n).data), Pac(n).data_type)
        /\ channels_in[channel_id].timer # ExtendedTimer
        /\ channel_id = Pac(n).channel_id /\ packet_mask = Mask(n)
    BY <1>2, <1>5, FramePlace
  <2>2. Pos' = Pos
    BY <1>1, <1>4, <2>1 DEF TimerLength
  <2>3. InFrame(n)'
    BY <1>2, <2>1, FrameKept
  <2>4. data_buffer' = Len(Pac(n).data) /\ n <= Len(log)
    BY <1>2, <2>1 DEF FrameOf
  <2> QED BY <1>2, <2>1, <2>2, <2>3, <2>4
<1>6. state' \in 2 .. 6 /\ ~(state' <= 4)
  BY <1>2
<1> QED BY <1>2, <1>5, <1>6, FrameStep

\* r6 returns the data that was sent.
LEMMA GetR6Frame == ASSUME LinkInv, FrameInv, GetR6 PROVE FrameInv'
<1> SUFFICES ASSUME NEW n, n = Len(delivered) + 1 PROVE FrameInv'
  OBVIOUS
<1> DEFINE l    == BodyLength(data_buffer, ChunkSize, 1)
           ch   == channels_in[channel_id]
           data == Unchunked(rbuf, data_buffer, ChunkSize, 1)
           d    == [channel_id |-> channel_id, channel |-> ch, data |-> data]
<1>1. /\ TypeOK /\ SenderInv /\ ReaderInv
      /\ rbuf \in Seq(Byte) /\ Len(rbuf) \in Nat /\ Pos \in Int
  BY Parts
<1>2. /\ state = 6 /\ state' = 6 /\ pac = << >>
      /\ UNCHANGED << packet_mask, channel_id, data_buffer, channels_in, log, delivered, taken >>
  BY DEF GetR6, Parsing, parser, ParserFrame, sender
<1>3. SeparatorLength(channel_id) = 1
  BY <1>1, InTable DEF GetR6
<1>4. pac' = << d >> /\ Len(rbuf) >= l /\ rbuf' = SubSeq(rbuf, l + 1, Len(rbuf))
  BY <1>3, Zenon DEF GetR6, Returned, Consume
<1>5. l \in 0 .. Len(rbuf)
  <2>1. l \in Nat
    BY <1>1, <1>4, Sizes, UnchunkedType DEF TypeOK, ParserOK
  <2> QED BY <1>1, <1>4, <2>1
<1> HIDE DEF l
<1>6. Pos' = Pos + l
  BY <1>1, <1>2, <1>4, <1>5, Consumed
<1>7. ASSUME FramedUpTo(n)
      PROVE  /\ n <= Len(log) /\ channel_id' = Pac(n).channel_id /\ packet_mask' = Mask(n)
             /\ InFrame(n)' /\ data_buffer' = Len(Pac(n).data)
             /\ Pos' = EndOf(n) /\ Carries(d, Pac(n))
  <2>1. /\ n \in 1 .. Len(log) /\ InFrame(n)
        /\ Pos = EndOf(n - 1) + 1 + HeaderLength(Mask(n))
        /\ FrameOf(ch, Len(Pac(n).data), Pac(n).data_type)
        /\ channel_id = Pac(n).channel_id /\ packet_mask = Mask(n)
        /\ data_buffer = Len(Pac(n).data)
    BY <1>2, <1>7, FramePlace
  <2>2. /\ EndOf(n - 1) \in Nat /\ EndOf(n) = EndOf(n - 1) + 1 + Len(Fl(n)) + Len(Bd(n))
        /\ Bd(n) \in Seq(Byte) /\ Len(Fl(n)) = HeaderLength(Mask(n)) /\ Fl(n) \in Seq(Byte)
        /\ \A j \in 1 .. Len(Bd(n)) : stream[EndOf(n - 1) + 1 + Len(Fl(n)) + j] = Bd(n)[j]
        /\ log[n].call \in Sends /\ Framed(log[n].call, TimerAt(n))
    <3>1. log[n].call \in Sends /\ Framed(log[n].call, TimerAt(n)) /\ log[n].whole
      BY <1>2, <1>7, ReceivingFrame
    <3> QED BY <1>1, <2>1, <3>1, FramedAt
  <2> DEFINE s == log[n].call
  <2>3. ASSUME NEW rest \in Seq(Byte)
        PROVE  /\ BodyLength(Len(s.pac.data), ChunkSize, 1) = Len(Body(s))
               /\ Unchunked(Body(s) \o rest, Len(s.pac.data), ChunkSize, 1) = s.pac.data
    BY <2>2, FramedBody
  <2>4. l = Len(Bd(n))
    <3>1. << >> \in Seq(Byte)
      OBVIOUS
    <3>2. BodyLength(Len(s.pac.data), ChunkSize, 1) = Len(Body(s))
      BY <2>3, <3>1
    <3> QED BY <2>1, <3>2, Zenon DEF Bd, Pac, l
  <2>5. \A j \in 1 .. Len(Bd(n)) : stream[Pos + j] = Bd(n)[j]
    BY <2>1, <2>2
  <2>6. Len(Bd(n)) <= Len(rbuf)
    BY <1>1, <1>5, <2>4
  <2>7. PICK rest \in Seq(Byte) : rbuf = Bd(n) \o rest
    BY <1>1, <2>2, <2>5, <2>6, Buffered
  <2>8. data = Pac(n).data
    <3>1. Unchunked(Body(s) \o rest, Len(s.pac.data), ChunkSize, 1) = s.pac.data
      BY <2>3
    <3> QED BY <2>1, <2>7, <3>1, Zenon DEF Bd, Pac
  <2>9. d.channel_id = channel_id /\ d.channel = ch /\ d.data = data
    OBVIOUS
  <2> HIDE DEF d, ch, data, s
  <2>10. Carries(d, Pac(n))
    BY <2>1, <2>8, <2>9 DEF Carries, FrameOf
  <2>11. Pos' = EndOf(n)
    <3> DEFINE a == EndOf(n - 1)
               f == Len(Fl(n))
               b == Len(Bd(n))
    <3>1. a \in Nat /\ f \in Nat /\ b \in Nat /\ EndOf(n) = a + 1 + f + b /\ Pos = a + 1 + f
      BY <2>1, <2>2
    <3>2. l = b
      BY <2>4
    <3> HIDE DEF a, f, b
    <3> QED BY <1>6, <3>1, <3>2
  <2>12. InFrame(n)' /\ n <= Len(log)
    BY <1>2, <2>1, FrameKept
  <2> QED BY <1>2, <2>1, <2>10, <2>11, <2>12
<1> HIDE DEF d
<1>8. state' \in 2 .. 6 /\ ~(state' <= 4) /\ pac'[1] = d /\ pac' # << >>
  BY <1>2, <1>4
<1> QED BY <1>2, <1>7, <1>8, FrameStep

\* A packet without a type ends the frames.
LEMMA GetR6UntypedFrame == ASSUME LinkInv, FrameInv, GetR6Untyped PROVE FrameInv'
<1> SUFFICES ASSUME NEW n, n = Len(delivered) + 1 PROVE FrameInv'
  OBVIOUS
<1>1. /\ state = 6 /\ state' = 6 /\ pac = << >> /\ Untyped /\ UNCHANGED << log, delivered >>
  BY DEF GetR6Untyped, Parsing, parser, ParserFrame, sender
<1>2. ~FramedUpTo(n)
  <2> SUFFICES ASSUME FramedUpTo(n) PROVE FALSE
    OBVIOUS
  <2>1. /\ FrameOf(channels_in[channel_id], Len(Pac(n).data), Pac(n).data_type)
        /\ Pac(n).data_type # 0
    BY <1>1, FramePlace
  <2> QED BY <1>1, <2>1 DEF FrameOf, Untyped
<1> QED BY <1>1, <1>2, FrameStep

\* The packet delivered carries what was sent, and the parser is at its end.
LEMMA OnPacketFrame == ASSUME LinkInv, FrameInv, OnPacket PROVE FrameInv'
<1> SUFFICES ASSUME NEW n, n = Len(delivered) + 1 PROVE FrameInv'
  OBVIOUS
<1>1. /\ TypeOK /\ ParserInv /\ Len(delivered) \in Nat
  BY Parts
<1>2. /\ pac # << >> /\ state' = 0 /\ delivered' = Append(delivered, pac[1])
      /\ UNCHANGED << log, channels_in >> /\ Pos' = Pos
  BY DEF OnPacket, sender, reader, Pos
<1>3. state \in {4, 6}
  BY <1>1, <1>2 DEF ParserInv
<1>4. ASSUME FramedUpTo(n)
      PROVE  n <= Len(log) /\ InFrame(n) /\ Pos = EndOf(n) /\ Carries(pac[1], Pac(n))
  <2>1. FramedInside(n)
    BY <1>3 DEF FrameInv
  <2> QED BY <1>2, <1>3, <1>4, <2>1 DEF FramedInside
<1>5. /\ Len(delivered') = n /\ delivered'[n] = pac[1]
      /\ \A i \in 1 .. Len(delivered) : delivered'[i] = delivered[i]
  <2>1. PICK e \in Received : pac = << e >>
    BY <1>1, <1>2, PendingShape DEF TypeOK, DeliveryOK
  <2>2. delivered \in Seq(Received) /\ pac[1] \in Received
    BY <1>1, <2>1 DEF TypeOK, DeliveryOK
  <2> QED BY <1>2, <2>2, AppendProperties
<1>6. \A i : /\ FramedUpTo(i)' = FramedUpTo(i) /\ TableAt(i)' = TableAt(i)
             /\ EndOf(i)' = EndOf(i)
  BY <1>2, LogKept
<1>7. DataArrives'
  <2>1. ASSUME NEW i \in 1 .. Len(delivered'), FramedUpTo(i)
        PROVE  /\ i <= Len(log)
               /\ delivered'[i].channel_id = log[i].call.pac.channel_id
               /\ delivered'[i].channel.data_type = log[i].call.pac.data_type
               /\ delivered'[i].data = log[i].call.pac.data
    <3>1. CASE i \in 1 .. Len(delivered)
      BY <1>5, <2>1, <3>1 DEF FrameInv, DataArrives
    <3>2. CASE i = n
      BY <1>4, <1>5, <2>1, <3>2 DEF Carries, Pac
    <3> QED BY <1>1, <1>5, <3>1, <3>2
  <2> QED BY <1>2, <1>6, <2>1 DEF DataArrives
<1>8. UsedInv'
  BY <1>2, <1>6 DEF FrameInv, UsedInv
<1>9. FramedBetween(n)'
  BY <1>2, <1>4, <1>6, FrameKept DEF FramedBetween
<1>10. FramedBetween(Len(delivered))'
  BY <1>5, <1>9
<1> QED BY <1>2, <1>7, <1>8, <1>10 DEF FrameInv

\* A feed returns without moving the parser.
LEMMA FeedReturnFrame == ASSUME LinkInv, FrameInv, FeedReturn PROVE FrameInv'
<1>1. ReaderInv /\ need_more \in Nat
  BY Parts
<1>2. /\ state = 0 /\ rbuf' = << >> /\ (rbuf = << >> \/ need_more > 0)
      /\ UNCHANGED << log, delivered, parser, channels_in, pac, taken >>
  BY DEF FeedReturn, Parsing, sender
<1>3. rbuf' = rbuf
  <2>1. ~Short
    BY <1>2 DEF Short
  <2> QED BY <1>1, <1>2, <2>1 DEF ReaderInv
<1>4. Pos' = Pos
  BY <1>2, <1>3 DEF Pos
<1> QED BY <1>2, <1>4, PlaceFrame

\* Every step keeps the frames.
LEMMA NextFrame == LinkInv /\ FrameInv /\ [Next]_vars /\ LinkInv' => FrameInv'
<1> SUFFICES ASSUME LinkInv, FrameInv, [Next]_vars, LinkInv' PROVE FrameInv'
  OBVIOUS
<1>1. ASSUME UNCHANGED << log, delivered, parser, channels_in, pac, taken, rbuf >>
      PROVE  FrameInv'
  <2>1. Pos' = Pos
    BY <1>1 DEF Pos
  <2> QED BY <1>1, <2>1, PlaceFrame
<1>2. CASE \E s \in Sends : Send(s)
  BY <1>2, SendFrame
<1>3. CASE \E s \in Sends : SendAbort(s)
  BY <1>1, <1>3 DEF SendAbort, sender, reader
<1>4. CASE Read
  BY <1>4, ReceiveFrame DEF Read
<1>5. CASE Parse
  <2>1. CASE GetR2Short \/ GetR4Short \/ GetR5Short \/ GetR6UntypedShort
    BY <1>1, <2>1
    DEF GetR2Short, GetR4Short, GetR5Short, GetR6UntypedShort, NeedMore, ParserFrame, sender
  <2>2. CASE GetR3Abort \/ GetR4Abort \/ GetR4Astray \/ GetR6Abort \/ GetR6UntypedAbort
    BY <1>1, <2>2
    DEF GetR3Abort, GetR4Abort, GetR4Astray, GetR6Abort, GetR6UntypedAbort, ReceiverAbort,
        ParserFrame, sender, reader
  <2> QED
    BY <1>5, <2>1, <2>2, StartReceiveFrame, GetR1Frame, GetR2Frame, GetR3Frame, GetR4Frame,
       GetR5Frame, GetR6Frame, GetR6UntypedFrame, OnPacketFrame, FeedReturnFrame DEF Parse
<1>6. CASE UNCHANGED vars
  BY <1>1, <1>6 DEF vars, sender, reader
<1> QED BY <1>2, <1>3, <1>4, <1>5, <1>6 DEF Next

\* Timers that are relative or of more than three bytes and stream ids do not survive the
\* trip, packet.c:321-392; as long as calls keep the stream in frames the receiver still
\* delivers every packet on its channel with its type and its data, in order: the table it
\* compresses against needs to agree with the sender's on sizes and types only.
THEOREM ChunkStreamDataArrives == Spec => []DataArrives
<1>1. Init => FrameInv
  BY InitFrame
<1>2. LinkInv /\ FrameInv /\ [Next]_vars /\ LinkInv' => FrameInv'
  BY NextFrame
<1>3. FrameInv => DataArrives
  BY DEF FrameInv
<1> QED BY <1>1, <1>2, <1>3, ChunkStreamLinkInv, PTL DEF Spec

\* The receiver goes astray in no packet of a call that keeps the stream in frames.
LEMMA ParseStays == ASSUME LinkInv, FrameInv, StaysInTable, Parse PROVE StaysInTable'
<1> SUFFICES ASSUME NEW n, n = Len(delivered) + 1 PROVE StaysInTable'
  OBVIOUS
<1>1. Len(delivered) \in Nat /\ TypeOK /\ n \in Nat
  BY Parts
<1>2. UNCHANGED log
  BY
  DEF Parse, StartReceive, GetR1, GetR2, GetR2Short, GetR3, GetR3Abort, GetR4, GetR4Short,
      GetR4Abort, GetR4Astray, GetR5, GetR5Short, GetR6, GetR6Abort, GetR6Untyped,
      GetR6UntypedShort, GetR6UntypedAbort, OnPacket, FeedReturn, NeedMore, ReceiverAbort,
      ParserFrame, sender
<1>3. CASE GetR4Astray
  <2>1. state = 4 /\ channel_id < 0 /\ UNCHANGED << log, delivered >>
    BY <1>3 DEF GetR4Astray, Parsing, ParserFrame, sender
  <2>2. ~FramedUpTo(n)
    <3> SUFFICES ASSUME FramedUpTo(n) PROVE channel_id \in {2, 3}
      BY <2>1
    <3> QED BY <2>1, ReceivingFrame
  <2>3. FramedUpTo(n)' = FramedUpTo(n)
    BY <2>1, LogKept
  <2> QED BY <2>1, <2>2, <2>3 DEF StaysInTable
<1>4. CASE OnPacket
  <2>1. aborted' = aborted /\ Len(delivered') = n
    <3>1. PICK d : delivered' = Append(delivered, d) /\ aborted' = aborted
      BY <1>4 DEF OnPacket
    <3> QED BY <1>1, <3>1 DEF TypeOK, DeliveryOK
  <2>2. ASSUME FramedUpTo(n + 1)' PROVE FramedUpTo(n)
    <3>1. FramedUpTo(n + 1)' = FramedUpTo(n + 1)
      BY <1>2, LogKept
    <3> QED BY <1>1, <2>2, <3>1, Parts DEF FramedUpTo
  <2> QED BY <2>1, <2>2 DEF StaysInTable
<1>5. ASSUME UNCHANGED << log, delivered, aborted >> \/ (ReceiverAbort /\ ParserFrame)
      PROVE  StaysInTable'
  <2>1. /\ UNCHANGED << log, delivered >>
        /\ "astray" \in aborted' => "astray" \in aborted
    BY <1>2, <1>5 DEF ReceiverAbort, ParserFrame
  <2>2. FramedUpTo(n)' = FramedUpTo(n)
    BY <2>1, LogKept
  <2> QED BY <2>1, <2>2 DEF StaysInTable
<1>6. CASE GetR3Abort \/ GetR4Abort \/ GetR6Abort \/ GetR6UntypedAbort
  BY <1>5, <1>6
  DEF GetR3Abort, GetR4Abort, GetR6Abort, GetR6UntypedAbort, ReceiverAbort
<1>7. CASE GetR2Short \/ GetR4Short \/ GetR5Short \/ GetR6UntypedShort
  BY <1>5, <1>7
  DEF GetR2Short, GetR4Short, GetR5Short, GetR6UntypedShort, NeedMore, ParserFrame, sender
<1>8. CASE \/ StartReceive \/ GetR1 \/ GetR2 \/ GetR3 \/ GetR4 \/ GetR5 \/ GetR6
           \/ GetR6Untyped \/ FeedReturn
  BY <1>5, <1>8
  DEF StartReceive, GetR1, GetR2, GetR3, GetR4, GetR5, GetR6, GetR6Untyped, FeedReturn,
      ParserFrame, sender
<1> QED BY <1>3, <1>4, <1>6, <1>7, <1>8 DEF Parse

\* As long as calls keep the stream in frames, no data and no separator is taken for the
\* header of a negative channel, which rtmp_proto_get_channel, protocol.c:479-485, would look
\* up in front of its table.
THEOREM ChunkStreamStaysInTable == Spec => []StaysInTable
<1>1. Init => StaysInTable
  BY DEF Init, StaysInTable
<1>2. LinkInv /\ FrameInv /\ StaysInTable /\ [Next]_vars => StaysInTable'
  <2> SUFFICES ASSUME LinkInv, FrameInv, StaysInTable, [Next]_vars PROVE StaysInTable'
    OBVIOUS
  <2>1. /\ Len(delivered) \in Nat /\ SenderInv /\ TypeOK
    BY Parts
  <2>2. CASE \E s \in Sends : Send(s)
    <3>1. PICK s \in Sends : Send(s)
      BY <2>2
    <3>2. UNCHANGED << delivered, aborted >>
      BY <3>1 DEF Send
    <3>3. FramedUpTo(Len(delivered) + 1)' => FramedUpTo(Len(delivered) + 1)
      BY <2>1, <3>1, <3>2, SendFramedOld
    <3> QED BY <3>2, <3>3 DEF StaysInTable
  <2>3. ASSUME UNCHANGED << log, delivered >>, "astray" \in aborted' => "astray" \in aborted
        PROVE  StaysInTable'
    <3>1. FramedUpTo(Len(delivered) + 1)' = FramedUpTo(Len(delivered) + 1)
      BY <2>3, LogKept
    <3> QED BY <2>3, <3>1 DEF StaysInTable
  <2>4. CASE (\E s \in Sends : SendAbort(s)) \/ Read \/ UNCHANGED vars
    BY <2>3, <2>4 DEF SendAbort, Read, Receive, sender, vars
  <2>5. CASE Parse
    BY <2>5, ParseStays
  <2> QED BY <2>2, <2>4, <2>5 DEF Next
<1>3. Spec => []FrameInv
  <2>1. Init => FrameInv
    BY InitFrame
  <2>2. LinkInv /\ FrameInv /\ [Next]_vars /\ LinkInv' => FrameInv'
    BY NextFrame
  <2> QED BY <2>1, <2>2, ChunkStreamLinkInv, PTL DEF Spec
<1> QED BY <1>1, <1>2, <1>3, ChunkStreamLinkInv, PTL DEF Spec


=============================================================================
