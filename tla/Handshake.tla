------------------------------ MODULE Handshake ------------------------------
(***************************************************************************)
(* The first bytes of a connection (core/src/protocol.c): rtmp_proto_feed  *)
(* takes a version byte, a block of HS bytes that it sends back behind a   *)
(* greeting of its own, and a second block of HS bytes that it ignores;    *)
(* everything after that belongs to the packet parser.                     *)
(*                                                                         *)
(* The peer writes one byte after another, and a byte is named by its      *)
(* position in what the peer writes.  Reads cut these bytes anywhere.      *)
(***************************************************************************)
EXTENDS Naturals, Sequences

CONSTANTS HS,           \* the size of a handshake block: 1536
          BufSize,      \* BUFFER_SZ: 8192
          Total,        \* bound: how many bytes the peer writes
          Versions,     \* the first bytes peers may write
          MaxSegment    \* the most bytes a caller has at a time

ASSUME HandshakeAssumption ==
  /\ HS \in Nat \ {0} /\ BufSize \in Nat \ {0} /\ Total \in Nat
  /\ Versions \subseteq 0 .. 255 /\ MaxSegment \in Nat \ {0}

VARIABLES
  version,       \* the first byte of this peer
  pkg_st,        \* 0 version, 1 first block, 2 second block, 3 packets
  tmp_buf,       \* the first block as far as it has come
  ack_back_len,  \* what is missing of the second block
  num_up_bytes,
  taken,         \* how many bytes the caller has taken from the peer
  data,          \* what rtmp_proto_feed_data still has to feed
  rbuf,          \* the unread bytes of the running feed
  aborted,       \* an assertion has failed
  out,           \* what was written to the peer, write by write
  parsed         \* the bytes that were left to the packet parser

vars == << version, pkg_st, tmp_buf, ack_back_len, num_up_bytes, taken, data, rbuf,
           aborted, out, parsed >>

\* rtmp_proto_init.
Init ==
  /\ version \in Versions
  /\ pkg_st = 0 /\ tmp_buf = << >> /\ ack_back_len = HS /\ num_up_bytes = 0
  /\ taken = 0 /\ data = << >> /\ rbuf = << >>
  /\ aborted = FALSE /\ out = << >> /\ parsed = << >>

First(s, n) == SubSeq(s, 1, n)
Rest(s, n)  == SubSeq(s, n + 1, Len(s))
AtMost(n, s) == IF n < Len(s) THEN n ELSE Len(s)
Segment(n)  == [i \in 1 .. n |-> taken + i]

\* The caller gets n more bytes from the peer.
Take(n) == /\ ~aborted /\ rbuf = << >> /\ data = << >>
           /\ taken + n <= Total
           /\ taken' = taken + n
           /\ UNCHANGED version

\* Connection::receiveData: at most a buffer full is read, and fed at once.
Receive(n) ==
  /\ n <= BufSize
  /\ Take(n)
  /\ rbuf' = Segment(n)
  /\ num_up_bytes' = num_up_bytes + n
  /\ UNCHANGED << pkg_st, tmp_buf, ack_back_len, data, aborted, out, parsed >>

\* rtmp_proto_feed_data is called.
FeedData(n) ==
  /\ Take(n)
  /\ data' = Segment(n)
  /\ UNCHANGED << pkg_st, tmp_buf, ack_back_len, num_up_bytes, rbuf, aborted, out,
                  parsed >>

\* Its loop: a buffer full at a time is copied and fed, and the length still to go
\* shrinks.  The pointer to the data does not move.
FeedDataLoop ==
  LET cap == AtMost(BufSize, data)
  IN /\ ~aborted /\ rbuf = << >> /\ data # << >>
     /\ rbuf' = First(data, cap)
     /\ num_up_bytes' = num_up_bytes + cap
     /\ data' = First(data, Len(data) - cap)
     /\ UNCHANGED << version, pkg_st, tmp_buf, ack_back_len, taken, aborted, out,
                     parsed >>

Feeding(st) == ~aborted /\ rbuf # << >> /\ pkg_st = st

\* on_connect: the assertion on the version.
OnConnect ==
  /\ Feeding(0)
  /\ IF version = 3
       THEN pkg_st' = 1 /\ rbuf' = Rest(rbuf, 1) /\ UNCHANGED aborted
       ELSE aborted' = TRUE /\ UNCHANGED << pkg_st, rbuf >>
  /\ UNCHANGED << version, tmp_buf, ack_back_len, num_up_bytes, taken, data, out,
                  parsed >>

\* Broken: the block starts afresh with every read.
OnHandShakeForgets ==
  LET got == First(rbuf, AtMost(HS, rbuf))
  IN /\ Feeding(1)
     /\ rbuf' = Rest(rbuf, Len(got))
     /\ IF Len(got) < HS
          THEN tmp_buf' = got /\ UNCHANGED << pkg_st, out >>
          ELSE /\ out' = out \o << << "ack" >>, got >>
               /\ tmp_buf' = << >>
               /\ pkg_st' = 2
     /\ UNCHANGED << version, ack_back_len, num_up_bytes, taken, data, aborted,
                     parsed >>

\* on_hand_shake: the block is collected; once complete it is answered.
OnHandShake ==
  LET got   == AtMost(HS - Len(tmp_buf), rbuf)
      block == tmp_buf \o First(rbuf, got)
  IN /\ Feeding(1)
     /\ rbuf' = Rest(rbuf, got)
     /\ IF Len(block) < HS
          THEN tmp_buf' = block /\ UNCHANGED << pkg_st, out >>
          ELSE /\ out' = out \o << << "ack" >>, block >>
               /\ tmp_buf' = << >>
               /\ pkg_st' = 2
     /\ UNCHANGED << version, ack_back_len, num_up_bytes, taken, data, aborted,
                     parsed >>

\* Broken: everything there is counts as the second block.
OnAckBackGreedy ==
  LET left == IF Len(rbuf) < ack_back_len THEN ack_back_len - Len(rbuf) ELSE 0
  IN /\ Feeding(2)
     /\ rbuf' = << >>
     /\ IF left = 0
          THEN ack_back_len' = HS /\ pkg_st' = 3
          ELSE ack_back_len' = left /\ UNCHANGED pkg_st
     /\ UNCHANGED << version, tmp_buf, num_up_bytes, taken, data, aborted, out,
                     parsed >>

\* Broken: nothing is made ready for another block.
OnAckBackSpent ==
  LET got == AtMost(ack_back_len, rbuf)
  IN /\ Feeding(2)
     /\ rbuf' = Rest(rbuf, got)
     /\ ack_back_len' = ack_back_len - got
     /\ pkg_st' = IF got = ack_back_len THEN 3 ELSE pkg_st
     /\ UNCHANGED << version, tmp_buf, num_up_bytes, taken, data, aborted, out,
                     parsed >>

\* on_ack_back: the second block is skipped.
OnAckBack ==
  LET got  == AtMost(ack_back_len, rbuf)
      left == ack_back_len - got
  IN /\ Feeding(2)
     /\ rbuf' = Rest(rbuf, got)
     /\ IF left = 0
          THEN ack_back_len' = HS /\ pkg_st' = 3
          ELSE ack_back_len' = left /\ UNCHANGED pkg_st
     /\ UNCHANGED << version, tmp_buf, num_up_bytes, taken, data, aborted, out,
                     parsed >>

\* The rest of the buffer is the packet parser's, one packet or more (ChunkStream).
OnPackets ==
  \E n \in 1 .. Len(rbuf) :
    /\ Feeding(3)
    /\ parsed' = parsed \o First(rbuf, n)
    /\ rbuf' = Rest(rbuf, n)
    /\ UNCHANGED << version, pkg_st, tmp_buf, ack_back_len, num_up_bytes, taken,
                    data, aborted, out >>

Feed == OnConnect \/ OnHandShake \/ OnAckBack \/ OnPackets

Next == \/ \E n \in 1 .. MaxSegment : Receive(n) \/ FeedData(n)
        \/ FeedDataLoop
        \/ Feed

\* The event loop keeps reading, and a feed runs to its end.
Spec == /\ Init /\ [][Next]_vars
        /\ WF_vars(\E n \in 1 .. MaxSegment : Receive(n) \/ FeedData(n))
        /\ WF_vars(FeedDataLoop \/ Feed)

-----------------------------------------------------------------------------
(* Properties.                                                             *)

Positions(first, last) == [i \in 1 .. last + 1 - first |-> first + i - 1]

\* The variables have their types, and no block is longer than a block.
TypeOK ==
  /\ version \in Versions /\ pkg_st \in 0 .. 3
  /\ tmp_buf \in Seq(Nat) /\ Len(tmp_buf) < HS
  /\ ack_back_len \in 1 .. HS /\ num_up_bytes \in Nat
  /\ taken \in 0 .. Total
  /\ data \in Seq(Nat) /\ rbuf \in Seq(Nat) /\ parsed \in Seq(Nat)
  /\ aborted \in BOOLEAN

\* The peer is answered once, when its first block is complete: the greeting, and
\* then that very block.
EchoesBlock ==
  IF pkg_st < 2 THEN out = << >> ELSE out = << << "ack" >>, Positions(2, 1 + HS) >>

\* However the bytes were cut, the packet parser gets all that follow the second
\* block, from its first byte on, in order.
ParserGetsTheRest == parsed = Positions(2 * HS + 2, 2 * HS + 1 + Len(parsed))

\* A handshake that starts with version 3 is finished if the peer writes enough.
Finishes == version = 3 /\ Total > 2 * HS => <>(pkg_st = 3 /\ Len(out) = 2)

=============================================================================
