---------------------------- MODULE MCChunkStream ----------------------------
(***************************************************************************)
(* Instances of ChunkStream for TLC: chunks of 2 bytes, six channels, and  *)
(* small sets of calls.                                                    *)
(***************************************************************************)
EXTENDS ChunkStream

Pac(c, timer, type, data) ==
  [channel_id |-> c, timer |-> timer, data_type |-> type, stream_id |-> 0,
   data |-> data]

\* A call from the callback of a packet of the same channel.
Reply(p) == [rx |-> p.channel_id, relative |-> FALSE, chunk |-> ChunkSize, pac |-> p]

\* Every header kind, on two channels: no data, data that fills a chunk, data
\* that starts one more; a timer that changes and one that does not.
Replies ==
  { Reply(Pac(3, 7, 20, << 5, 6 >>)),
    Reply(Pac(3, 8, 20, << 6, 5 >>)),
    Reply(Pac(3, 7, 20, << 0, 5, 1, 5, 9 >>)),
    Reply(Pac(2, 7, 4, << >>)),
    Reply(Pac(2, 9, 3, << 0, 0, 1 >>)) }

\* As many, fewer timers: for the runs that cut the stream anywhere.
FewReplies ==
  { Reply(Pac(3, 7, 20, << 5, 6 >>)),
    Reply(Pac(3, 7, 20, << 6, 5, 1 >>)),
    Reply(Pac(2, 9, 3, << >>)) }

\* Data of LargeSize bytes whose parts, taken for headers, are of every kind.
LargeData == << 1, 200, 5, 0, 5, 0, 1, 5, 5, 2, 5, 0, 1, 5 >>

Odd ==
  { Reply(Pac(3, 7, 20, LargeData)),              \* too large
    Reply(Pac(3, ExtendedTimer, 20, << 5 >>)),    \* announces four more bytes
    Reply(Pac(3, ExtendedTimer - 1, 20, << 5 >>)),
    Reply(Pac(3, ExtendedTimer + 8, 20, << 5, 6 >>)),   \* written as 7
    Reply(Pac(3, 0, 0, << 5, 6, 5, 6 >>)),        \* no type
    Reply(Pac(3, 0, 0, << 5 >>)),                 \* no type, too short
    Reply(Pac(5, 0, 20, << 5 >>)),                \* a channel nobody set up
    [Reply(Pac(3, 5, 20, << 5, 6 >>)) EXCEPT !.relative = TRUE],
    [Reply(Pac(3, 6, 20, << 5 >>)) EXCEPT !.relative = TRUE],   \* 6 - 7: four more bytes
    [Reply(Pac(3, 5, 20, << 6 >>)) EXCEPT !.rx = 2],
    [Reply(Pac(3, 5, 20, << 6 >>)) EXCEPT !.pac.stream_id = 1],
    [Reply(Pac(3, 7, 20, << 5, 6 >>)) EXCEPT !.chunk = 4],
    [Reply(Pac(3, 7, 20, << 5, 6, 5, 6 >>)) EXCEPT !.chunk = 4],  \* one chunk, read as two
    [Reply(Pac(3, 5, 20, << 6 >>)) EXCEPT !.rx = 0] }

WildSends == FewReplies \cup Odd

\* A call on channel 3 from the callback of a packet of channel 2.
CrossSends == { [Reply(Pac(3, 7, 20, << 5, 6 >>)) EXCEPT !.rx = 2] }

CutSends == { Reply(Pac(3, 7, 20, << 5, 6 >>)) }

=============================================================================
