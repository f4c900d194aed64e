# Rushkit in TLA+

Rushkit (`src/`) is a small C library that speaks RTMP, the protocol of Flash
players: it takes part in the handshake, splits packets into chunks and puts
them together again, and carries AMF-encoded remote calls.  Two servers use it:
`testbad.py`, with Twisted and a Python binding, and the demo server in `aux/`,
with libevent.  This directory holds TLA+ models of the library and its servers,
the TLC runs that check them, and proofs for TLAPS.

## 1. Inventory

### Components, their state, their operations

| component | code | state | operations |
|---|---|---|---|
| packet codec | `packet.c` 31-35, 107-186, 302-407; integers in `buffer.c`, `utils.c` | none of its own; one `CHANNEL` (last header) per direction and channel | compress a header, expand it, split data into chunks, join them |
| packet stream | `packet.c` 22-269, `protocol.c` 85-128, 221-236 | `channels_out`; `channels_in`, `state`, `packet_mask`, `channel_id`, `data_buffer`, the `READ_BUFFER`, `last_data` | `rtmp_proto_send_packet`, `rtmp_proto_feed`, the states r0 .. r6 |
| handshake | `protocol.c` 30-83, 130-145 | `pkg_st`, `tmp_buf`, `ack_back_len` | `on_connect`, `on_hand_shake`, `on_ack_back`, `rtmp_proto_feed_data` |
| memory pool | `rt_pool.c` | trunks, bump offset, capacity | `rt_pool_alloc`, `rt_pool_reset`, `rt_pool_free` |
| write buffers | `buffer.c` 138-238 | address, capacity, position | `rtmp_wb_init`, `rtmp_wb_write`, `rtmp_wb_get_value` |
| requests and replies | `protocol.c` 258-466 | `next_request_id` | `rtmp_proto_call`, `rtmp_proto_packet_return`, the default packet callbacks |
| Twisted server | `testbad.py`, `pyrushkit.c` | `_calls`, request id to Deferred | `connectionMade`, `dataReceived`, `handleInvoke`, `send`, `connectionLost` |
| demo server | `aux/main.cpp`, `aux/connection.cpp` | `connectionMap`, `nextConnectionId`, libevent events, descriptors | `on_accept`, `on_rtmp_read`, `receiveData`, `~Connection` |
| AMF codec | `amf.c` | none | the size of a value, packing, reading, lists of arguments |
| Python values | `py_amf.c`, `pyrushkit.c`, `rushkit.i` | none | AMF values to Python and back |
| Flash client | `aux/as/App.as` | a NetConnection | `connect`, `call` |

### How they interact

Bytes reach a `PROTO` from `Connection::receiveData` (a `read` into its buffer)
or from `dataReceived` (`rtmp_proto_feed_data`).  `rtmp_proto_feed` gives them to
the handshake and then to the parser.  Each complete packet goes to
`on_packet`, which dispatches on its type; invocations go to the application's
`on_amf_call`.  From inside these callbacks the application sends: a header is
compressed, chunks are written to a write buffer in the pool of the connection,
and `on_write_data` puts them on the socket.  After the callback the parser and
the pool are reset.  Everything runs in one thread; connections share nothing
but the process.

### What is hard, and what makes it correct

* *Fragmentation.* Reads end anywhere.  The handshake must not care; the parser
  must neither deliver a part of a packet nor lose step.
* *Writing.* A socket may take a part of a packet, and nobody looks.
* *Compression.* A header says only what changed.  Both ends must hold the same
  last header for every channel at every packet boundary.
* *Chunk boundaries.* Sender and receiver compute them by different formulas.
* *Memory.* Blocks of a pool must not overlap, and a buffer that moves while
  others use its pool must keep its bytes.
* *Ids.* Both sides number their calls from one range.  The server's ids must
  be fresh, its replies must name the request they answer, and a Deferred must
  be called back at most once and only for its own call.
* *Sizes.* One function computes the room for a value, another fills it.
* *The process.* A failed assertion or an endless loop in one connection ends
  all of them; the event of a deleted connection must never fire.

`PROJECT.json` lists the hazards line by line, each with the properties that
would notice, or the reason why none does.

## 2. Modules

| module | models | instance |
|---|---|---|
| `PacketHeader` | the packet codec, operators only | |
| `ChunkStream` | packet stream: sender, transport, receiver | `MCChunkStream` |
| `PacketQueue` | what a direction of a connection promises: a FIFO queue that loses nothing | |
| `Handshake` | handshake and `rtmp_proto_feed_data` | |
| `Pool` | memory pool | |
| `WriteBuffer` | write buffers, composed with `Pool` (`P == INSTANCE Pool`) | `MCWriteBuffer` |
| `ByteLogs` | what write buffers promise: append-only sequences | |
| `Rpc` | requests, replies and control packets of one connection, with either application and an arbitrary client | |
| `CallTable` | what callers rely on: named calls, each answered at most once | |
| `Amf` | the AMF codec: packing, its size computation, reading; operators only | |
| `PyValues` | values between AMF and Python; operators only | |
| `Invocation` | one invocation from the client's values to the values of the answers, composed of the two | `MCInvocation` |
| `Server` | the event loop of the demo server, over several connections | |
| `PacketHeaderProofs`, `ChunkStreamProofs`, `HandshakeProofs`, `PoolProofs`, `WriteBufferProofs`, `RpcProofs`, `ServerProofs`, `InvocationProofs` | theorems | |

The names of actions and variables are those of the code where TLA+ allows.
Operators marked *Broken* are plausible bugs: each property of a passing run has
one that makes it fail when it takes the place of the definition it precedes
(`mutants` in `PROJECT.json`).

### ChunkStream

One action per state function (`GetR1` .. `GetR6`), with one more for each way it
can fail: `...Short` when `rtmp_rb_assert_size` is false, `...Abort` when an
assertion is.  `need_more` is set by the first and never cleared within a feed:
the loop `do ... while(!pac)` of `rtmp_packet_get_packet` calls the same state
again for ever.  TLC sees that as a state without progress, `Stuck`.  The stream
is a sequence of bytes and a count of those taken; `Receive(n)` takes any number
of them, or, under `Segmentation = "packets"`, ends where a packet ends.
`log` and `delivered` are history.

The socket holds `SocketSpace` bytes that nobody has read.  `Taken` is what a
non-blocking `write` takes of a packet; neither application looks at how much
that was, so the rest of the packet is lost and the sender's channel table moves
on all the same.  `log` remembers which packets were written whole.

A call has a chunk size of its own: 128 for this library, another one for a client
that has announced it with `PAC_CHUNK_SIZE`, which the receiver does not heed.

There are two kinds of calls that survive the trip.

* `Framed`: sent from the callback of a packet on its own channel (2 or 3), a type
  other than 0, less than 32K of data, data of one chunk if the two sides' chunk
  sizes differ, and a timer whose three written bytes are not all 0xff.
  Their channel, type and data arrive (`DataArrives`), whatever their timer,
  relative or not, and whatever their stream.
* `Disciplined`: besides, an absolute timer below 0xffffff and stream 0.  Their
  whole header arrives (`DeliveredMatches`), and only after such calls do the
  tables of both sides agree (`TablesAgree`).

Every send of the library's own callbacks is of the second kind as long as clients
call on channel 3, which `SendsOnOwnChannel` of `Rpc` says and `RpcProofs` proves.
Calls that are of neither kind are run as well (`Odd`): of them it is promised that
types hold and that packets are whole, no more.

A channel id of two bytes is a signed short.  A negative one passes the assertion of r3,
`channel_id < 64`, and r4 indexes in front of the channel table.  What is there decides what
follows: `GetR4Abort` also has the case that the memory cannot be read or does not hold the
1 that marks a channel in use, and `GetR4Astray` the case that it does, after which the
process may do anything and nothing more is modelled.  `StaysInTable` says that no framed
call leads the receiver there, by data or separators that are taken for headers.

### Handshake

A byte is named by its position in what the peer writes, so that "the parser
gets the rest" can be said exactly.  `Receive` is the socket, `FeedData` and
`FeedDataLoop` are `rtmp_proto_feed_data`, one action per round of its loop.

### Pool and WriteBuffer

An address is a trunk and an offset.  `blocks` is history: all blocks since the
last reset.  `WriteBuffer` adds memory contents.  `Fill` is everybody else:
`amf_new_count_string` and the like allocate a block and write to it, between
any two writes to a buffer.  `Enough` is the doubling loop; an initial capacity
of 0 would make it endless and is excluded by assumption, as the code only ever
passes 256, 512 and 1024.

### Rpc

Packets travel in two queues: that is what `ChunkStream` is checked to implement
for disciplined traffic.  A packet has the channel it is compressed for and, once
sent, the channel that its header gets, which is the channel of the packet that is
being handled.  Arguments are reduced to what handlers tell apart: whether
there are the right number and add up, whether `amf_add` returns 0 or something empty (which
`if ret:` in `testbad.py` takes for nothing to send), whether a reply has a value
(`args[0]`).  `Invocation` checks that these classes are the right ones
(`AnsweredAsInRpc`, which is also proved).  The client may send anything at any time, pings on either
channel, reuse ids, and answer calls that were never made.  `app` is one of the two
applications.  `ConnectionLost` may happen at any time and loses everything under
way.

### Amf, PyValues and Invocation

A value is a type and a sequence: of bytes, of values, or of keys with values.
`Pack` and `PackSize` are two translations of two functions that must agree, since
an assertion compares the bytes written with the room set aside.  `Unpack` reads
past the end of the data, like the code, into memory that repeats one arbitrary
byte; at the very end it finds an `AMF_END` that takes no bytes.  A size or a count below 0
goes to the pool, `memcpy` and `memset` as a huge unsigned one, and so does a count that the
pool has no room for: the reader is `Nowhere`, further than any packet is long, and the
invocation has crashed (`Crash`).  `Invocation` runs
`_default_on_packet_invoke`, one argument per step of `amf_ap_read_arguments`, and
what `add` and `connect` of both applications make of the arguments.  Where the
code follows memory that it has not written (the union of a value of another type,
a Python value of a kind `py_2_av` does not list) the model chooses.  A Flash player
packs like the library, except that it puts an end marker behind an associative
array, wherever it is (`FlashPack`), which the library neither writes nor expects.

The functions of the C code that call themselves are functions on depths here: `PackTo[d]`
packs the values that are less than d deep, with `PackTo[d - 1]` for what is in
them, and `AVs`, `Readable`, `PackSizeTo`, `ToPy` and `FromPy` go the same way.  A value is
converted at any depth it is found at (`Depth`).  `MaxDepth` bounds the depths, as
`DepthAssumption` says: by no less than two more than the bytes of a packet, which is
more than any value in it can be deep, since each array and each table takes a byte.  What
the clients of `Invocation` send is `Readable`: no string of 32K, no `AMF_END` in a table, no
more elements than the pool has room for (`MaxItems`, `MaxElems`).

Any eight bytes are a number.  The whole numbers from -4095 to 4095 are `Known`, that is,
packed as the eight bytes of their double and read back from them.  Every other double, a
fraction, a larger one, an infinity, is `Unknown`: one value that stands for all of them, that
is passed on as `Unknown`, that makes a sum unknown, and of which `if ret:` may hold or not
(`Answered` has both outcomes).  So `add(7, -1)`, of which `testbad.py` makes
`7 + (-1) * 7 = 0`, is not answered here either.

### Server

`fds` are named by the peer at the other end.  What a feed does is chosen by
what the peer sent, any number of times: `"whole"` returns, `"cut"` hangs, `"bad"`
aborts.  A failed `accept` leaves the peer in the backlog.

## 3. Runs

| run | bounds | shows |
|---|---|---|
| `link_packets` | 3 calls out of 5; chunks of 2 bytes; data of 0, 2, 3 and 5 bytes on 2 channels | when reads end on packet boundaries the connection implements `PacketQueue` with liveness, both tables agree between packets, nobody gets stuck |
| `link_any` | 2 calls out of 17, 14 of them odd; any segmentation into at most 13 bytes; a socket of 18 bytes | what is delivered is what was sent (disciplined), or has its data (framed), and is whole (always); the receiver gets stuck only when a read ended inside a packet, and leaves its channel table only after a call that is not framed |
| `link_cut` | 1 call | **violation**: a body split between two reads fails `assert(sz_now >= nlen)` |
| `link_cross` | 1 call | **violation**: a packet sent on channel 3 from a callback on channel 2 arrives on channel 2 |
| `handshake` | blocks of 4 bytes, buffer of 10, 14 bytes | the handshake under every fragmentation |
| `feed_long` | blocks of 3 bytes, buffer of 4 | **violation**: `rtmp_proto_feed_data` with more than a buffer full feeds its beginning twice |
| `pool` | trunks of 5 bytes, blocks of 0 to 7, at most 12 bytes between resets | blocks inside trunks and apart |
| `write_buffer` | 2 buffers, 14 bytes of the pool, 7 bytes per buffer | buffers are append-only sequences whoever else uses the pool |
| `rpc` | either application; 3 client packets, ids 1 and 2 | fresh ids, one reply each, headers on their own channel, table of Deferreds implements `CallTable`, answers arrive, connect is answered |
| `invocation` | either application, a Flash player or this library as the client; 4 methods, 2 ids; no argument, one, or two out of 20, and three of which the first two are 3 and 7 | arguments arrive, packets have the size computed for them, answers have the right values and are the ones of `Rpc`; the process ends only for the reasons listed |
| `server` | 3 peers that send any number of times, 2 descriptors | live events only, everybody is accepted while there are descriptors, closed connections are deleted, however busy the others are |
| `server_reset` | 1 peer | **violation**: a failed `read` fails `assert(len <= capacity)` |

*Why the bounds are enough.*  With chunks of 2 bytes, data of 0, 2, 3 and 5 bytes
is no chunk, exactly one, one and a bit, and two and a bit, each of which takes
another branch on one side or the other.  Three packets produce every header kind
on a channel after every other that can precede it.  In `link_any` a buffer of 13
bytes is smaller than a packet of `LargeSize`, as 8192 is than 32K, and a socket of
18 bytes takes every packet but the large one, most first packets with a second
one, and a part of the second one otherwise.  Two packets
are enough for a stream that has lost step: the first one loses it, the second
one is misread.  A pool of 12 bytes in trunks of 5 fills the root
trunk, opens two more and resets, in any number of blocks; a buffer of 7 bytes
doubles twice or moves into a trunk of its own.  Two client ids and the server's own calls collide if they can:
the broken counter does so within two packets.  The arguments of `invocation` are
of every type, empty, nested, and in every pair; some of them, 7 and -1, a link of -7 and a
boolean that is true, add up to 0 without being 0, and one half is a number that is not
known.  Associative arrays are alone, in an array and in a hash, whose end the marker of a Flash
player is then taken for; one string, behind such a marker, is read as the end of a number
and a string of a negative size, which crashes the process.  With two descriptors and three
peers the last peer meets the limit.

Deadlock checking is off everywhere: nobody has to send, and a process may end.

*Fairness.*  `ChunkStream`: the event loop reads while there is something to read
and a feed runs to its end; sending is not fair.  `Handshake`: the same, with a
peer that does send what it has.  `Rpc`: the server handles what has arrived and
the client reads.  `Server`: libevent calls back each ready event in every
round, hence fairness for each connection and for the listening socket; peers
need do nothing.  `Invocation` has no liveness properties.

## 4. Findings

1. `link_cut`: any packet whose body spans two reads ends the process
   (`buffer.c:50`); when the cut is in its header the process hangs instead
   (`packet.c:264`).  The bytes kept in `last_data` for the next feed are never
   any (`ReturnsOnBoundary`), so the code for them is dead.
2. `link_cross`: the `channel_id` argument of `_writeHeaderBytes` is not read.
3. `feed_long`: the loop of `rtmp_proto_feed_data` does not advance its pointer.
4. `server_reset`: the assertion on the result of `read` compares signed with
   unsigned.

Seen on the way, in the hazards or in the models and not counted as findings:
descriptors of closed connections stay open, as nothing in `aux/` closes them; a
negative channel id indexes in front of the channel table; a negative size or
count is allocated and copied as a huge one; stream ids change byte order; a
timer of 0xffffff announces bytes that are not sent; a chunk size announced by
the client is not used; a first packet on channels 2 and 3 is never sent as
`CHANNEL_NEW`, as those channels are set up as used; `Deferred`s of a lost
connection stay pending.

## 5. Proofs

All proofs are for every value of the constants that meets the named
assumptions of the modules.

* `PacketHeaderProofs`.  `ChunkRoundTrip`: for data of any length and any chunk
  size, splitting and joining with one-byte separators is the identity and
  consumes exactly the bytes written; the core is that the sender's
  `(n - 1) \div chunk` and the receiver's `(n - 1) \div chunk` after its loop agree
  (`FullChunks`).  `HeaderRoundTrip`: for stream 0 and fields that fit, the
  expanded header is the packet's, and both channel records become equal.
* `ChunkStreamProofs`.  `ChunkStreamTypeOK` is inductive as it stands because it
  says which channel the parser may be on in which state.
  `ChunkStreamWholePackets` needs `WholeInv`: in state 6 the body buffer has the
  announced size, and the packet about to be delivered is whole already.
  The second half of the module joins these with the round trips of `PacketHeaderProofs`.
  Its invariant `LinkInv` says where both ends are for as
  long as the calls in the log are disciplined and written whole, and has three parts:
  the sender's (the stream is the log's packets one after the other, each with the
  table entry it found, and the sender's table is the one after the last), the
  reader's (the buffer is the next bytes of the stream at `Pos`, and `need_more` is set
  only when there are too few of them), and the parser's (it is `Between` two packets
  with the table of that place, or `Inside` one, with the fields and the bytes of it
  read so far).  `ChunkStreamDeliveredMatches`, `ChunkStreamTablesAgree`,
  `ChunkStreamReturnsOnBoundary` and `ChunkStreamStuckOnlyWhenCut` follow from it.
  `ChunkStreamNeverStuck` needs `CutInv` besides, which says that every read ended where
  a packet ends, and assumes that all calls offered are disciplined and none is cut short.
  `ChunkStreamIsQueue` is the safety part of `Refines` under the same assumption:
  every step is a step of the queue or none.
  `ChunkStreamDataArrives` is about the larger class of framed calls, after which the
  tables need not agree.  Its invariant `FrameInv` says no more of the two tables than that
  the sizes and types in them agree and that the receiver holds no timer of 0xffffff
  (`InFrame`): that is what the place of the next packet depends on, and it is enough to
  know the parser's place in the stream and the data it has read, while timers and stream
  ids may differ for ever.  Of `LinkInv` it uses what is known of the sender and of the
  buffer.  `ChunkStreamStaysInTable` follows from it: inside a framed packet the parser is on
  channel 2 or 3 when it gets to r4, and a receiver that went astray stays where it is
  (`AstrayHalts`).
* `HandshakeProofs`.  The invariant says, for each state of the handshake, where in the
  peer's bytes it is: what is in `tmp_buf`, what is left of the second block, what
  the parser has, and that these with `rbuf` and `data` make up all that was taken.
  `HandshakeEchoesBlock` and `HandshakeParserGetsTheRest` assume
  `MaxSegment <= BufSize`: feeds that fit the buffer.  Without it the second is false,
  as `feed_long` shows.
* `PoolProofs`.  `IInv` adds to the two safety properties what `Bump` says: the
  offset is that of the newest trunk and all its blocks lie below it.
* `WriteBufferProofs`.  `WriteBuffersAreLogs` is a refinement: every step of the buffers
  is a step of `ByteLogs` or none.  The invariant joins that of the pool with
  `BuffersFit`, each buffer in a block of its own and no fuller than it.  A write
  disturbs no other buffer because blocks are apart, which is `PoolProofs`' lemma
  about each allocation; a growth is a copy into a block that is apart from all.
* `RpcProofs`.  `FreshIds` and `CallsAnsweredOnce` both follow from `IInv`: every id in
  the log and in the table is below the counter, and open and answered calls are
  disjoint.  The proof splits the server's actions by what they do to ids:
  nothing, take note of one (`NotesIds`), or take note and give one out
  (`CallsIds`).  `OneReplyEach` is a balance of two selections from sequences: each
  step either leaves both as they are or adds one id to both (`Balanced`), and what the
  client receives moves from one side of `\o` to the other.  `Picked` is a recursive function;
  that appending to the sequence, or taking its head, does the same to the selection is
  proved by induction on its length.  `SendsOnOwnChannel` needs to know that invocations arrive on
  `CallChannel`, which is what the model's client does and a hostile one need not.
* `ServerProofs`.  The invariant adds to `EventsAreLive` that peers in the backlog
  have no descriptor yet, so that no two Connections ever share one.
* `InvocationProofs`.  `PackTakesItsRoom`: the size computation and the packing of the
  code, two functions that call themselves in different ways, agree on every value;
  `ArgumentsTakeTheirRoom`: so they do on the data of a packet.  Both are by
  induction on the depth, and inside on the length of arrays and tables.
  `AmfRoundTrip`: what is packed of a readable value is read back, at any place of any data,
  and the place behind it is where it ends.  Its induction needs to know that reading stops
  in time: an associative array after the elements it counts, a hash at its marker, which no
  element of it can be taken for, as no value in it is an `AMF_END`.
  `InvocationArgumentsArrive` puts these together: `Places` are where the
  pieces that the client packed begin, and `ReadInv` says that the arguments read so far
  are the first of those sent and the next one begins at `src` (`InStep`), until a marker
  of a Flash player has been met (`Past`), behind which anything may be read.
  `InvocationOnlyKnownAborts` needs the types of everything in between: whatever was read,
  in any depth, becomes a Python value no deeper (`ToPyType`), which adds up to one no
  deeper (`Sums`), which becomes an AMF value again, so that `ArgumentsTakeTheirRoom`
  applies to the packets that answer.  That the reader is led nowhere unless there is a marker
  follows from `Places`: they are all within the data.
  `InvocationRightAnswers` and `InvocationAnsweredAsInRpc` are about what a client reads in
  these packets.  `PacketRead` says that it reads the values they were packed of, up to the
  first that cannot be read, one in each round of `ReadFrom` (`RoundsReach`, and `RoundsStop` at
  the end of the data); `NumberOfDouble` that the eight bytes of a number give it back,
  exponent, fraction and sign (`DigitsRead`).  Besides `IInv` they need `HeadInv`, that the id
  the server has read is the client's, which is the id of the answers.  The first result needs
  every value to be read, the second only the two at the head of each packet: what Python makes
  of two strings may well be longer than what can be read back.  For the second,
  `ClassInPy` finds the class of each argument again after its conversion, `WrongInPy` that the
  arguments that do not add up are the ones `Rpc` calls wrong, and `ZeroInPy` that what
  `if ret:` takes for nothing is made of the ones it calls zero.  What the two say of numbers is
  said of known ones: for the others the second result leaves both outcomes open
  (`Open`), and the first says nothing.

Induction over data has no theorem of the library to cite that the provers can
instantiate with a predicate.  Where a proof needs it, the predicate is a set instead: a set
of natural numbers with 0 and the successor of each of its elements has all of them, as the
least number outside would have a predecessor (`InductionOnNat` in `RpcProofs` and
`InvocationProofs`, from the well-foundedness of `<`).  That also gives the values of a
recursive function: it exists and is unique up to each n (`Recursion`, `NestedLevels`).

Only model-checked: everything under fairness (the liveness of `Refines`, `Finishes`,
`AnswersArrive`, `ConnectAnswered`, `AcceptedInTheEnd`, `EndsNoticed`), as liveness is
beyond the prover.  Every invariant that a passing run checks is a theorem.

## 6. Limits

Channels 64 and up are in the codec and fail the assertions of the receiver, as
in the code (the table has 64 entries).  What a process does that has left its tables or
its memory is not modelled (`GetR4Astray`, `Crash`): it takes no further step.  Some of the
misread counts that are a crash here might do no harm in the code, as an associative array ends
with the data whatever its count is.  Addresses
wrap nowhere; `used_size` and `num_up_bytes` are unbounded numbers.  The
clock is not modelled: timers are inputs.  Lengths of strings are a signed short,
and 32768 bytes turn negative.  No string that long fits a packet that is read; what
`testbad.py` makes of two strings may be longer, and of its packets only the first two values
are promised to be read back (`PacketRead`).  Sizes of elements, 24 and 40 bytes, are those of a
64-bit host.  A pool that gets no memory is not modelled.

Not modelled, and why:

* `rtmp_fwb_free` releases a buffer of the wrong kind, and `rtmp_proto_free` leaves the
  pool of a connection allocated: memory that is lost or misused by the C library's
  allocator has no effect on any state modelled here.
* `rtmp_proto_send_bytes_read`, `amf_ap_read_array`, deleting channels: no callers.
* `rtmp_packet_send` outside a callback: it is modelled (`SendAbort`), and there is no
  property to state of it, as nothing says that it should work.
* A Python exception that is pending while the binding goes on; reference counts.
* The Flash client: any client takes its place.
* Tracing, printing of values, the build.

## 7. Plan

Done, in this order: `PacketHeader` and its proofs, `ChunkStream` with
`PacketQueue` and its first proofs, `Pool`, `Handshake`, `Rpc` with `CallTable`,
`WriteBuffer` with `ByteLogs`, `Server`; then `Amf`, `PyValues` and `Invocation`, chunk
sizes and short writes in `ChunkStream`, channels in `Rpc`, and the proofs of
`Handshake`, `WriteBuffer` and `Server`; then the second half of `ChunkStreamProofs`, from
`HeaderRoundTrip` and `ChunkRoundTrip`; then `ChunkStreamDataArrives` and `RpcOneReplyEach`, the codec of
`Amf` with recursive functions, and `InvocationProofs`, its last part the answers.  What is left
is liveness, which stays with TLC.

