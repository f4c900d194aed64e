---------------------------- MODULE PacketHeader ----------------------------
(***************************************************************************)
(* The packet header codec of core/src/packet.c: how a sender compresses   *)
(* the header of a packet against the last header it wrote on the same     *)
(* channel, and how a receiver expands it again.  No state is kept here:   *)
(* a CHANNEL is a record, and both sides are operators on it.              *)
(*                                                                         *)
(* A byte is a number in 0..255.  A PACKET is a record of its channel id,  *)
(* the three header fields a caller chooses, and its data; the size of a   *)
(* packet is Len(data).                                                    *)
(***************************************************************************)
EXTENDS Integers, Sequences

Byte == 0 .. 255

\* The four header kinds: the top two bits of a packet's first byte.
CHANNEL_NEW          == 0
CHANNEL_SAME_SOURCE  == 1
CHANNEL_TIMER_CHANGE == 2
CHANNEL_CONTINUE     == 3

PAC_INVALID == 137        \* 0x89, the type of a packet that is too large

\* 0xffffff, "four more bytes follow the header".
ExtendedTimer == 256 * 256 * 256 - 1

\* A zeroed CHANNEL whose `used` mark is set.
InitChannel ==
  [used |-> 1, timer |-> 0, size |-> 0, data_type |-> 0, stream_id |-> 0]

-----------------------------------------------------------------------------
(* Integers on the wire.                                                   *)

\* Byte k of an integer, byte 0 the least significant.
ByteOf(e, k) ==
  CASE k = 0 -> e % 256
    [] k = 1 -> (e \div 256) % 256
    [] k = 2 -> (e \div (256 * 256)) % 256
    [] k = 3 -> (e \div (256 * 256 * 256)) % 256

\* Three bytes, most significant first.
MediumInt(e) == << ByteOf(e, 2), ByteOf(e, 1), ByteOf(e, 0) >>

ReadMediumInt(b, i) == (b[i] * 256 + b[i + 1]) * 256 + b[i + 2]

\* Four bytes, least significant first.
ReverseInt(v) == << ByteOf(v, 0), ByteOf(v, 1), ByteOf(v, 2), ByteOf(v, 3) >>

\* A byte as a signed number.
Signed(c) == IF c >= 128 THEN c - 256 ELSE c

\* Four bytes, most significant first, as a signed 32 bit number.
ReadInt(b, i) ==
  ((Signed(b[i]) * 256 + b[i + 1]) * 256 + b[i + 2]) * 256 + b[i + 3]

\* Two bytes, most significant first, as a signed 16 bit number.
ReadShort(b, i) == Signed(b[i]) * 256 + b[i + 1]

-----------------------------------------------------------------------------
(* The sender.                                                             *)

\* The channel a packet is compressed against: a fresh one on first use.
OutChannel(ch) == IF ch.used = 0 THEN InitChannel ELSE ch

\* Broken: sizes are not compared.
PacketMaskNoSize(ch, pac) ==
  IF ch.used = 0
    THEN CHANNEL_NEW
    ELSE (IF ch.stream_id = pac.stream_id THEN 1 ELSE 0)
           + (IF ch.data_type # pac.data_type THEN 0
              ELSE IF ch.timer = pac.timer THEN 2 ELSE 1)

(***************************************************************************)
(* How much of the header the sender leaves out.  Each agreement with the  *)
(* previous header counts one, and only the count is written.              *)
(***************************************************************************)
PacketMask(ch, pac) ==
  LET sameStream == ch.stream_id = pac.stream_id
      sameShape  == ch.data_type = pac.data_type /\ ch.size = Len(pac.data)
      sameTimer  == ch.timer = pac.timer
  IN IF ch.used = 0
       THEN CHANNEL_NEW
       ELSE (IF sameStream THEN 1 ELSE 0)
              + (IF ~sameShape THEN 0 ELSE IF sameTimer THEN 2 ELSE 1)

\* Broken: the timer of a SAME_SOURCE header is written but not remembered.
WrittenChannelStale(ch, pac, mask) ==
  CASE mask = CHANNEL_NEW ->
         [used |-> 1, timer |-> pac.timer, size |-> Len(pac.data),
          data_type |-> pac.data_type, stream_id |-> pac.stream_id]
    [] mask = CHANNEL_SAME_SOURCE ->
         [used |-> ch.used, timer |-> ch.timer, size |-> Len(pac.data),
          data_type |-> pac.data_type, stream_id |-> ch.stream_id]
    [] mask = CHANNEL_TIMER_CHANGE -> [ch EXCEPT !.timer = pac.timer]
    [] OTHER -> ch

\* The sender's record of the channel after a packet with this mask.
WrittenChannel(ch, pac, mask) ==
  CASE mask = CHANNEL_NEW ->
         [used |-> 1, timer |-> pac.timer, size |-> Len(pac.data),
          data_type |-> pac.data_type, stream_id |-> pac.stream_id]
    [] mask = CHANNEL_SAME_SOURCE ->
         [used |-> ch.used, timer |-> pac.timer, size |-> Len(pac.data),
          data_type |-> pac.data_type, stream_id |-> ch.stream_id]
    [] mask = CHANNEL_TIMER_CHANGE -> [ch EXCEPT !.timer = pac.timer]
    [] OTHER -> ch

\* The header fields a mask leaves in; `dtime` is the timer that is written.
HeaderFields(pac, mask, dtime) ==
  CASE mask = CHANNEL_NEW ->
         MediumInt(dtime) \o MediumInt(Len(pac.data))
           \o << pac.data_type >> \o ReverseInt(pac.stream_id)
    [] mask = CHANNEL_SAME_SOURCE ->
         MediumInt(dtime) \o MediumInt(Len(pac.data)) \o << pac.data_type >>
    [] mask = CHANNEL_TIMER_CHANGE -> MediumInt(dtime)
    [] OTHER -> << >>

(***************************************************************************)
(* The basic header.  The channel id it carries is the endpoint's own      *)
(* proto->channel_id: the `channel_id` argument of _writeHeaderBytes is    *)
(* not read.  Ids below 2 fail an assertion, see CanWriteHeader.           *)
(***************************************************************************)
HeaderBytes(proto_channel_id, mask) ==
  CASE proto_channel_id \in 64 .. 255 ->
         << mask * 64, proto_channel_id - 64 >>
    [] proto_channel_id > 255 ->
         << mask * 64 + 1, ((proto_channel_id - 64) \div 256) % 256,
            (proto_channel_id - 64) % 256 >>
    [] OTHER -> << mask * 64 + proto_channel_id >>

CanWriteHeader(proto_channel_id) == proto_channel_id >= 2

\* Broken: a chunk is split off as soon as the data fills it.
ChunkedEager(data, chunk, hdr) ==
  LET group == chunk + Len(hdr)
      more  == Len(data) \div chunk
  IN [k \in 1 .. Len(data) + more * Len(hdr) |->
        LET g == (k - 1) \div group
            o == (k - 1) % group
        IN IF o < chunk THEN data[g * chunk + o + 1] ELSE hdr[o - chunk + 1]]

\* The data in groups of `chunk` bytes, a separator `hdr` after each group that
\* is not the last.
Chunked(data, chunk, hdr) ==
  LET group == chunk + Len(hdr)
      more  == IF data = << >> THEN 0 ELSE (Len(data) - 1) \div chunk
  IN [k \in 1 .. Len(data) + more * Len(hdr) |->
        LET g == (k - 1) \div group
            o == (k - 1) % group
        IN IF o < chunk THEN data[g * chunk + o + 1] ELSE hdr[o - chunk + 1]]

-----------------------------------------------------------------------------
(* The receiver.                                                           *)

\* The bytes of header fields that follow the basic header.
HeaderLength(mask) ==
  CASE mask = CHANNEL_NEW          -> 11
    [] mask = CHANNEL_SAME_SOURCE  -> 7
    [] mask = CHANNEL_TIMER_CHANGE -> 3
    [] OTHER                       -> 0

\* The receiver's record of the channel after reading fields `b`.
ReadChannel(ch, mask, b) ==
  CASE mask = CHANNEL_NEW ->
         [used |-> ch.used, timer |-> ReadMediumInt(b, 1),
          size |-> ReadMediumInt(b, 4), data_type |-> b[7],
          stream_id |-> ReadInt(b, 8)]
    [] mask = CHANNEL_SAME_SOURCE ->
         [used |-> ch.used, timer |-> ReadMediumInt(b, 1),
          size |-> ReadMediumInt(b, 4), data_type |-> b[7],
          stream_id |-> ch.stream_id]
    [] mask = CHANNEL_TIMER_CHANGE -> [ch EXCEPT !.timer = ReadMediumInt(b, 1)]
    [] OTHER -> ch

\* Broken: only the bytes of a long id are counted.
SeparatorLengthNone(channel_id) ==
  IF channel_id <= 63 THEN 0 ELSE IF channel_id < 320 THEN 1 ELSE 2

\* The basic header bytes that separate two chunks of a packet.
SeparatorLength(channel_id) ==
  1 + (IF channel_id <= 63 THEN 0 ELSE IF channel_id < 320 THEN 1 ELSE 2)

\* Broken: the loop needs more than a chunk and a separator.
FullChunksStrict(size, chunk, sep) ==
  IF size <= chunk + sep THEN 0 ELSE (size - sep - 1) \div chunk

\* How many full chunks are read before the last one: one more as long as the
\* space left is at least a chunk and a separator.
FullChunks(size, chunk, sep) ==
  IF size < chunk + sep THEN 0 ELSE (size - sep) \div chunk

\* The bytes a packet of this size occupies after its header fields.
BodyLength(size, chunk, sep) == size + FullChunks(size, chunk, sep) * sep

\* The data of a packet, the separators skipped unread.
Unchunked(b, size, chunk, sep) ==
  [k \in 1 .. size |->
     LET g == (k - 1) \div chunk
         n == FullChunks(size, chunk, sep)
     IN b[k + (IF g < n THEN g ELSE n) * sep]]

=============================================================================
