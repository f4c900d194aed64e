----------------------------- MODULE WriteBuffer -----------------------------
(***************************************************************************)
(* The growing write buffers of core/src/buffer.c, in the memory of a      *)
(* pool.  A buffer is an area of the pool; when it is full it moves to a   *)
(* new area of at least twice the size.  Everybody else who takes memory   *)
(* from the same pool, or writes to a buffer of their own, does so between *)
(* two writes to this one: _unpack_hash, for one, copies each key into the *)
(* pool while its buffer of entries is open.                               *)
(***************************************************************************)
EXTENDS Naturals, Sequences

CONSTANTS Granu, Extra, MaxBytes,    \* of the pool, see Pool
          Buffers,         \* the names of write buffers
          Capacities,      \* what rtmp_wb_init is called with: 256, 512, 1024
          Data,            \* what is written at a time
          MaxDoublings,    \* a capacity doubled more often does not fit an int
          MaxLength        \* bound on the bytes in a buffer

ASSUME WriteBufferAssumption == /\ Granu \in Nat \ {0} /\ Extra \in Nat
                                /\ MaxBytes \in Nat
                                /\ Capacities \subseteq Nat \ {0}
                                /\ Data \subseteq Seq(0 .. 255)
                                /\ MaxDoublings \in Nat /\ MaxLength \in Nat

VARIABLES trunks, curr_used, curr_capacity, used_size, freed, blocks,  \* the pool
          mem,             \* the bytes that have been written, by address
          wbs              \* the open buffers: where they are, how large, how full

P == INSTANCE Pool WITH Sizes <- Nat

pool == << trunks, curr_used, curr_capacity, used_size, freed, blocks >>
vars == << pool, mem, wbs >>

Init == P!Init /\ mem = << >> /\ wbs = << >>

-----------------------------------------------------------------------------
(* Memory.                                                                 *)

\* rt_pool_alloc, and the address it returns.
Alloc(size) == P!AllocHere(size) \/ P!AllocTrunk(size)

Place(size) == IF size <= curr_capacity - curr_used
                 THEN << Len(trunks), curr_used >>
                 ELSE << Len(trunks) + 1, 0 >>

\* n bytes further on.
Plus(a, n) == << a[1], a[2] + n >>

Area(a, n) == { Plus(a, i) : i \in 0 .. n - 1 }

\* memcpy to address a.
Copied(a, data) ==
  [x \in DOMAIN mem \cup Area(a, Len(data)) |->
     IF x \in Area(a, Len(data)) THEN data[x[2] - a[2] + 1] ELSE mem[x]]

-----------------------------------------------------------------------------
(* Operations.                                                             *)

\* What is read from address a: no byte at all where none was written.
Peek(a) == IF a \in DOMAIN mem THEN mem[a] ELSE 256

\* rtmp_wb_get_value.
Value(w) == [i \in 1 .. wbs[w].length |-> Peek(Plus(wbs[w].buf, i - 1))]

WbInit(w, capacity) ==
  /\ w \notin DOMAIN wbs
  /\ Alloc(capacity)
  /\ wbs' = [v \in DOMAIN wbs \cup {w} |->
               IF v = w THEN [buf |-> Place(capacity), capacity |-> capacity,
                              length |-> 0]
                        ELSE wbs[v]]
  /\ UNCHANGED mem

\* rtmp_wb_write: the data fits.
WbWrite(w, data) ==
  LET b == wbs[w]
  IN /\ b.length + Len(data) <= b.capacity
     /\ mem' = Copied(Plus(b.buf, b.length), data)
     /\ wbs' = [wbs EXCEPT ![w].length = @ + Len(data)]
     /\ UNCHANGED pool

\* The first capacity the doubling reaches that is enough.
Enough(capacity, size) ==
  { c \in size .. 2 * size - 1 : \E k \in 1 .. MaxDoublings : c = capacity * 2 ^ k }

\* Broken: the buffer moves and its bytes stay.
WbGrowForgets(w, data) ==
  LET b == wbs[w]
      n == b.length + Len(data)
  IN /\ n > b.capacity
     /\ \E new_cap \in Enough(b.capacity, n) :
          /\ Alloc(new_cap)
          /\ mem' = Copied(Plus(Place(new_cap), b.length), data)
          /\ wbs' = [wbs EXCEPT ![w] = [buf |-> Place(new_cap), capacity |-> new_cap,
                                        length |-> n]]

\* Broken: twice the capacity is taken to be enough.
WbGrowOnce(w, data) ==
  LET b == wbs[w]
      n == b.length + Len(data)
  IN /\ n > b.capacity
     /\ Alloc(2 * b.capacity)
     /\ mem' = Copied(Place(2 * b.capacity), Value(w) \o data)
     /\ wbs' = [wbs EXCEPT ![w] = [buf |-> Place(2 * b.capacity),
                                   capacity |-> 2 * b.capacity, length |-> n]]

\* rtmp_wb_write: it does not, and the buffer moves first.
WbGrow(w, data) ==
  LET b == wbs[w]
      n == b.length + Len(data)
  IN /\ n > b.capacity
     /\ \E new_cap \in Enough(b.capacity, n) :
          /\ Alloc(new_cap)
          /\ mem' = Copied(Place(new_cap), Value(w) \o data)
          /\ wbs' = [wbs EXCEPT ![w] = [buf |-> Place(new_cap), capacity |-> new_cap,
                                        length |-> n]]

\* amf_new_count_string, and everybody else who allocates and fills a block.
Fill(data) == /\ Alloc(Len(data))
              /\ mem' = Copied(Place(Len(data)), data)
              /\ UNCHANGED wbs

\* rt_pool_reset, after each packet: nobody uses a buffer of the pool any more.
PoolReset == P!Reset /\ mem' = << >> /\ wbs' = << >>

\* rt_pool_free, of the pools that live for one call.
PoolFree == P!Free /\ mem' = << >> /\ wbs' = << >>

Next == \/ \E w \in Buffers, capacity \in Capacities : WbInit(w, capacity)
        \/ \E w \in DOMAIN wbs, data \in Data :
             /\ wbs[w].length + Len(data) <= MaxLength
             /\ WbWrite(w, data) \/ WbGrow(w, data)
        \/ \E data \in Data : Fill(data)
        \/ PoolReset
        \/ PoolFree

Spec == Init /\ [][Next]_vars

-----------------------------------------------------------------------------
(* Properties.                                                             *)

\* Each buffer has a block of the pool of its capacity for itself, and is no fuller
\* than that.
BuffersFit ==
  /\ \A w \in DOMAIN wbs :
       /\ wbs[w].length <= wbs[w].capacity
       /\ [trunk |-> wbs[w].buf[1], offset |-> wbs[w].buf[2],
           size |-> wbs[w].capacity] \in blocks
  /\ \A v, w \in DOMAIN wbs : v # w => wbs[v].buf # wbs[w].buf

\* A buffer holds what was written to it, whoever else uses the pool and however
\* often it or another one has moved.
Logs == INSTANCE ByteLogs WITH value <- [w \in DOMAIN wbs |-> Value(w)]
BuffersAreLogs == Logs!Spec

=============================================================================
