------------------------- MODULE WriteBufferProofs -------------------------
(***************************************************************************)
(* Write buffers hold what was written to them, whoever else takes memory  *)
(* from their pool and however often they move: for trunks, capacities and *)
(* data of any size.  The pool's own theorems say that blocks are apart.   *)
(***************************************************************************)
EXTENDS WriteBuffer, SequenceTheorems, TLAPS

PP == INSTANCE PoolProofs WITH Sizes <- Nat

Address == Nat \X Nat
Cell    == 0 .. 256

\* The types that the properties rest on: a buffer has an address and room for a byte.
BuffersOK ==
  /\ wbs \in [DOMAIN wbs -> [buf : Address, capacity : Nat \ {0}, length : Nat]]
  /\ mem \in [DOMAIN mem -> Cell]

IInv == PP!IInv /\ BuffersOK /\ BuffersFit

-----------------------------------------------------------------------------
(* The pool.                                                               *)

\* The pool's lemmas hold for this pool.
LEMMA PoolConstants == PP!PoolAssumption
BY WriteBufferAssumption DEF WriteBufferAssumption, PP!PoolAssumption

\* Where and how much.
BlockAt(a, size) == [trunk |-> a[1], offset |-> a[2], size |-> size]

\* An allocation adds one block, apart from all others, and it is not where a block of at
\* least one byte is.
LEMMA AllocBlock ==
  ASSUME PP!IInv, NEW size \in Nat, Alloc(size)
  PROVE  /\ PP!IInv' /\ Place(size) \in Address
         /\ blocks' = blocks \cup {BlockAt(Place(size), size)}
         /\ \A b \in blocks : PP!Apart(b, BlockAt(Place(size), size))
<1>1. CASE P!AllocHere(size)
  <2>1. PP!AllocHere(size)
    BY <1>1 DEF P!AllocHere, PP!AllocHere, P!Alloc, PP!Alloc, P!HandOut, PP!HandOut
  <2>2. PP!IInv'
    BY <2>1, PoolConstants, PP!AllocHereInv
  <2>3. /\ ~freed /\ curr_used \in Nat /\ Len(trunks) \in Nat
        /\ size <= curr_capacity - curr_used
        /\ blocks \subseteq PP!Block
        /\ \A b \in blocks : b.trunk = Len(trunks) => b.offset + b.size <= curr_used
    BY <2>1 DEF PP!AllocHere, PP!Alloc, PP!IInv, PP!TypeOK, PP!Bump
  <2>4. Place(size) = << Len(trunks), curr_used >>
    BY <2>3 DEF Place
  <2>5. blocks' = blocks \cup {BlockAt(Place(size), size)}
    BY <2>1, <2>4 DEF PP!AllocHere, PP!HandOut, BlockAt
  <2>6. \A b \in blocks : PP!Apart(b, BlockAt(Place(size), size))
    BY <2>3, <2>4 DEF PP!Apart, BlockAt
  <2> QED BY <2>2, <2>3, <2>4, <2>5, <2>6 DEF Address
<1>2. CASE P!AllocTrunk(size)
  <2>1. PP!AllocTrunk(size)
    BY <1>2 DEF P!AllocTrunk, PP!AllocTrunk, P!Alloc, PP!Alloc, P!HandOut, PP!HandOut,
                P!TrunkSize, PP!TrunkSize
  <2>2. PP!IInv'
    BY <2>1, PoolConstants, PP!AllocTrunkInv
  <2>3. /\ Len(trunks) \in Nat /\ curr_used \in Nat /\ curr_capacity \in Nat
        /\ size > curr_capacity - curr_used
        /\ \A b \in blocks : b.trunk \in 1 .. Len(trunks)
    BY <2>1 DEF PP!AllocTrunk, PP!IInv, PP!TypeOK, PP!BlocksInside
  <2>4. Place(size) = << Len(trunks) + 1, 0 >>
    BY <2>3 DEF Place
  <2>5. blocks' = blocks \cup {BlockAt(Place(size), size)}
    BY <2>1, <2>4 DEF PP!AllocTrunk, PP!HandOut, BlockAt
  <2>6. \A b \in blocks : PP!Apart(b, BlockAt(Place(size), size))
    BY <2>3, <2>4 DEF PP!Apart, BlockAt
  <2> QED BY <2>2, <2>3, <2>4, <2>5, <2>6 DEF Address
<1> QED BY <1>1, <1>2 DEF Alloc

-----------------------------------------------------------------------------
(* Memory.                                                                 *)

\* An address further on is in the same trunk.
LEMMA PlusType == ASSUME NEW a \in Address, NEW n \in Nat
                  PROVE  /\ Plus(a, n) \in Address
                         /\ Plus(a, n)[1] = a[1] /\ Plus(a, n)[2] = a[2] + n
BY DEF Plus, Address

\* Which addresses an area has.
LEMMA AreaIs == ASSUME NEW a \in Address, NEW n \in Nat, NEW x \in Address
                PROVE  x \in Area(a, n)
                         <=> x[1] = a[1] /\ a[2] <= x[2] /\ x[2] < a[2] + n
<1>1. ASSUME x \in Area(a, n)
      PROVE  x[1] = a[1] /\ a[2] <= x[2] /\ x[2] < a[2] + n
  <2>1. PICK i \in 0 .. n - 1 : x = Plus(a, i)
    BY <1>1 DEF Area
  <2> QED BY <2>1 DEF Plus, Address
<1>2. ASSUME x[1] = a[1], a[2] <= x[2], x[2] < a[2] + n
      PROVE  x \in Area(a, n)
  <2>1. x[2] - a[2] \in 0 .. n - 1 /\ a[2] + (x[2] - a[2]) = x[2]
    BY <1>2 DEF Address
  <2>2. x = << x[1], x[2] >>
    BY DEF Address
  <2>3. x = Plus(a, x[2] - a[2])
    BY <1>2, <2>1, <2>2 DEF Plus
  <2> QED BY <2>1, <2>3 DEF Area
<1> QED BY <1>1, <1>2

\* What is read after a memcpy.
LEMMA CopiedPeek ==
  ASSUME BuffersOK, NEW a \in Address, NEW data \in Seq(Cell),
         mem' = Copied(a, data), NEW x \in Address
  PROVE  Peek(x)' = IF x \in Area(a, Len(data)) THEN data[x[2] - a[2] + 1] ELSE Peek(x)
BY DEF Copied, Peek

\* Memory holds bytes.
LEMMA CopiedType ==
  ASSUME BuffersOK, NEW a \in Address, NEW data \in Seq(Cell), mem' = Copied(a, data)
  PROVE  mem' \in [DOMAIN mem' -> Cell]
<1>1. DOMAIN mem' = DOMAIN mem \cup Area(a, Len(data))
  BY DEF Copied
<1>2. ASSUME NEW x \in DOMAIN mem' PROVE mem'[x] \in Cell
  <2>1. CASE x \in Area(a, Len(data))
    <3>1. PICK i \in 0 .. Len(data) - 1 : x = Plus(a, i)
      BY <2>1 DEF Area
    <3>2. x[2] - a[2] + 1 \in 1 .. Len(data)
      BY <3>1 DEF Plus, Address
    <3>3. mem'[x] = data[x[2] - a[2] + 1]
      BY <2>1 DEF Copied
    <3> QED BY <3>2, <3>3
  <2>2. CASE x \notin Area(a, Len(data))
    BY <1>1, <1>2, <2>2 DEF Copied, BuffersOK
  <2> QED BY <2>1, <2>2
<1>3. mem' = [x \in DOMAIN mem' |-> mem'[x]]
  BY DEF Copied
<1> QED BY <1>2, <1>3

-----------------------------------------------------------------------------
(* Values.                                                                 *)

\* What is known of one buffer.
LEMMA BufferType == ASSUME BuffersOK, NEW w \in DOMAIN wbs
                    PROVE  /\ wbs[w].buf \in Address
                           /\ wbs[w].capacity \in Nat /\ wbs[w].capacity >= 1
                           /\ wbs[w].length \in Nat
BY DEF BuffersOK

\* A buffer's value is a sequence of what its addresses hold.
LEMMA ValueType == ASSUME BuffersOK, NEW w \in DOMAIN wbs
                   PROVE  /\ Value(w) \in Seq(Cell) /\ Len(Value(w)) = wbs[w].length
                          /\ \A i \in 1 .. wbs[w].length :
                               Value(w)[i] = Peek(Plus(wbs[w].buf, i - 1))
<1>1. wbs[w].length \in Nat
  BY BufferType
<1>2. \A x : Peek(x) \in Cell
  BY DEF BuffersOK, Peek, Cell
<1> QED BY <1>1, <1>2 DEF Value

\* Where the i-th byte of a buffer is.
LEMMA ByteAddress == ASSUME BuffersOK, NEW w \in DOMAIN wbs, NEW i \in 1 .. wbs[w].length
                     PROVE  /\ Plus(wbs[w].buf, i - 1) \in Address
                            /\ Plus(wbs[w].buf, i - 1)[1] = wbs[w].buf[1]
                            /\ Plus(wbs[w].buf, i - 1)[2] = wbs[w].buf[2] + (i - 1)
<1>1. wbs[w].buf \in Address /\ i - 1 \in Nat
  BY BufferType
<1> QED BY <1>1, PlusType

\* What two of them make.
LEMMA ConcatBytes ==
  ASSUME NEW s \in Seq(Cell), NEW t \in Seq(Cell), NEW n, n = Len(s)
  PROVE  /\ s \o t \in Seq(Cell) /\ Len(s \o t) = n + Len(t)
         /\ \A i \in 1 .. n + Len(t) :
              (s \o t)[i] = IF i <= n THEN s[i] ELSE t[i - n]
BY ConcatProperties

\* A buffer that stays where it is keeps its bytes, if none of them is written to.
LEMMA ValueKept ==
  ASSUME BuffersOK, NEW w \in DOMAIN wbs, w \in DOMAIN wbs', wbs'[w] = wbs[w],
         NEW a \in Address, NEW data \in Seq(Cell), mem' = Copied(a, data),
         \A i \in 1 .. wbs[w].length : Plus(wbs[w].buf, i - 1) \notin Area(a, Len(data))
  PROVE  Value(w)' = Value(w)
<1>1. \A i \in 1 .. wbs[w].length :
        Peek(Plus(wbs[w].buf, i - 1))' = Peek(Plus(wbs[w].buf, i - 1))
  <2> SUFFICES ASSUME NEW i \in 1 .. wbs[w].length
               PROVE  Peek(Plus(wbs[w].buf, i - 1))' = Peek(Plus(wbs[w].buf, i - 1))
    OBVIOUS
  <2> DEFINE x == Plus(wbs[w].buf, i - 1)
  <2>1. x \in Address /\ x \notin Area(a, Len(data))
    BY ByteAddress
  <2>2. Plus(wbs'[w].buf, i - 1) = x
    OBVIOUS
  <2> HIDE DEF x
  <2>3. \A y \in Address : y \notin Area(a, Len(data)) => Peek(y)' = Peek(y)
    BY CopiedPeek
  <2> QED BY <2>1, <2>2, <2>3 DEF Peek, x
<1> QED BY <1>1 DEF Value

\* A buffer that takes data at the end of what it holds, in place or with all it holds at
\* another address, holds that as well.
LEMMA ValueGrows ==
  ASSUME BuffersOK, NEW w \in DOMAIN wbs, w \in DOMAIN wbs',
         NEW s \in Seq(Cell), NEW a \in Address,
         wbs'[w].buf = a, wbs'[w].length = Len(s),
         \A i \in 1 .. Len(s) : Peek(Plus(a, i - 1))' = s[i]
  PROVE  Value(w)' = s
<1>1. Value(w)' = [i \in 1 .. Len(s) |-> Peek(Plus(a, i - 1))']
  BY DEF Value, Peek
<1>2. s = [i \in 1 .. Len(s) |-> s[i]]
  OBVIOUS
<1> QED BY <1>1, <1>2

-----------------------------------------------------------------------------
(* Steps.                                                                  *)

\* A buffer's bytes are inside its block.
LEMMA FitsType == ASSUME IInv, NEW w \in DOMAIN wbs
                  PROVE  /\ wbs[w].length <= wbs[w].capacity
                         /\ BlockAt(wbs[w].buf, wbs[w].capacity) \in blocks
BY DEF IInv, BuffersFit, BlockAt

\* The addresses of a buffer are not in a block apart from its own.
LEMMA ApartFrom ==
  ASSUME IInv, NEW w \in DOMAIN wbs, NEW a \in Address, NEW n \in Nat, NEW size \in Nat,
         NEW m \in Nat, m + n <= size,
         PP!Apart(BlockAt(wbs[w].buf, wbs[w].capacity), BlockAt(a, size))
  PROVE  \A i \in 1 .. wbs[w].length : Plus(wbs[w].buf, i - 1) \notin Area(Plus(a, m), n)
<1> SUFFICES ASSUME NEW i \in 1 .. wbs[w].length,
                    Plus(wbs[w].buf, i - 1) \in Area(Plus(a, m), n)
             PROVE  FALSE
  OBVIOUS
<1>1. Plus(a, m) \in Address /\ Plus(a, m)[1] = a[1] /\ Plus(a, m)[2] = a[2] + m
  BY PlusType
<1> DEFINE x == Plus(wbs[w].buf, i - 1)
<1>2. x \in Address /\ x[1] = wbs[w].buf[1] /\ x[2] = wbs[w].buf[2] + (i - 1)
  BY ByteAddress DEF IInv
<1> HIDE DEF x
<1>3. x[1] = a[1] /\ a[2] + m <= x[2] /\ x[2] < a[2] + m + n
  BY <1>1, <1>2, AreaIs DEF x
<1>4. /\ wbs[w].length <= wbs[w].capacity /\ wbs[w].buf \in Address
      /\ wbs[w].capacity \in Nat /\ wbs[w].length \in Nat
  BY FitsType, BufferType DEF IInv
<1>5. \/ wbs[w].buf[1] # a[1]
      \/ wbs[w].buf[2] + wbs[w].capacity <= a[2]
      \/ a[2] + size <= wbs[w].buf[2]
  BY DEF PP!Apart, BlockAt
<1>6. a[2] \in Nat /\ wbs[w].buf[2] \in Nat /\ i \in Nat /\ i <= wbs[w].length
  BY <1>4 DEF Address
<1> QED BY <1>2, <1>3, <1>4, <1>5, <1>6

\* A pool that nobody uses stays as it is.
LEMMA PoolKept == ASSUME PP!IInv, UNCHANGED pool PROVE PP!IInv'
BY DEF pool, PP!IInv, PP!TypeOK, PP!BlocksInside, PP!BlocksDisjoint, PP!Bump

\* What is written are bytes.
LEMMA DataType == ASSUME NEW data \in Data
                  PROVE  data \in Seq(Cell) /\ Len(data) \in Nat
<1>1. data \in Seq(0 .. 255)
  BY WriteBufferAssumption DEF WriteBufferAssumption
<1>2. 0 .. 255 \subseteq Cell
  BY DEF Cell
<1>3. \A i \in 1 .. Len(data) : data[i] \in 0 .. 255
  BY <1>1, ElementOfSeq
<1>4. \A i \in 1 .. Len(data) : data[i] \in Cell
  BY <1>2, <1>3
<1> QED BY <1>1, <1>4

\* A block of at least a byte is allocated where no buffer is, and nothing that is
\* written to it is written to a buffer.
LEMMA AllocApart ==
  ASSUME IInv, NEW size \in Nat, Alloc(size), NEW w \in DOMAIN wbs
  PROVE  /\ size >= 1 => wbs[w].buf # Place(size)
         /\ \A n \in 0 .. size, i \in 1 .. wbs[w].length :
              Plus(wbs[w].buf, i - 1) \notin Area(Place(size), n)
<1> DEFINE a == Place(size)
           b == BlockAt(wbs[w].buf, wbs[w].capacity)
<1>1. a \in Address /\ PP!Apart(b, BlockAt(a, size))
  BY AllocBlock, FitsType DEF IInv
<1>2. wbs[w].buf \in Address /\ wbs[w].capacity \in Nat /\ wbs[w].capacity >= 1
  BY BufferType DEF IInv
<1> HIDE DEF a
<1>3. size >= 1 => wbs[w].buf # a
  BY <1>1, <1>2 DEF PP!Apart, BlockAt, Address
<1>4. ASSUME NEW n \in 0 .. size
      PROVE  \A i \in 1 .. wbs[w].length : Plus(wbs[w].buf, i - 1) \notin Area(a, n)
  <2>1. n \in Nat /\ 0 + n <= size
    OBVIOUS
  <2>2. Plus(a, 0) = a
    BY <1>1 DEF Plus, Address
  <2> QED BY <1>1, <2>1, <2>2, ApartFrom
<1> QED BY <1>3, <1>4 DEF a

\* Buffers fit if the one that changes does, in a block of its own.
LEMMA FitKept ==
  ASSUME IInv, NEW w, DOMAIN wbs' = DOMAIN wbs \cup {w},
         \A v \in DOMAIN wbs \ {w} : wbs'[v] = wbs[v] /\ wbs[v].buf # wbs'[w].buf,
         blocks \subseteq blocks',
         wbs'[w].length <= wbs'[w].capacity,
         BlockAt(wbs'[w].buf, wbs'[w].capacity) \in blocks'
  PROVE  BuffersFit'
<1>1. ASSUME NEW v \in DOMAIN wbs'
      PROVE  /\ wbs'[v].length <= wbs'[v].capacity
             /\ [trunk |-> wbs'[v].buf[1], offset |-> wbs'[v].buf[2],
                 size |-> wbs'[v].capacity] \in blocks'
  <2>1. CASE v = w
    BY <2>1 DEF BlockAt
  <2>2. CASE v # w
    <3>1. v \in DOMAIN wbs /\ wbs'[v] = wbs[v]
      BY <2>2
    <3> QED BY <3>1, FitsType DEF BlockAt
  <2> QED BY <2>1, <2>2
<1>2. ASSUME NEW u \in DOMAIN wbs', NEW v \in DOMAIN wbs', u # v
      PROVE  wbs'[u].buf # wbs'[v].buf
  <2>1. CASE u # w /\ v # w
    BY <1>2, <2>1 DEF IInv, BuffersFit
  <2>2. CASE u = w \/ v = w
    BY <1>2, <2>2
  <2> QED BY <2>1, <2>2
<1> QED BY <1>1, <1>2 DEF BuffersFit

\* rtmp_wb_init: an empty buffer in a block of its own.
LEMMA WbInitStep ==
  ASSUME IInv, NEW w, NEW capacity \in Capacities, WbInit(w, capacity)
  PROVE  IInv' /\ Logs!Next
<1>1. capacity \in Nat /\ capacity >= 1
  BY WriteBufferAssumption DEF WriteBufferAssumption
<1> DEFINE a == Place(capacity)
           new == [buf |-> a, capacity |-> capacity, length |-> 0]
<1>2. /\ w \notin DOMAIN wbs /\ Alloc(capacity) /\ mem' = mem
      /\ wbs' = [v \in DOMAIN wbs \cup {w} |-> IF v = w THEN new ELSE wbs[v]]
  BY DEF WbInit
<1>3. PP!IInv' /\ a \in Address /\ blocks' = blocks \cup {BlockAt(a, capacity)}
  BY <1>1, <1>2, AllocBlock DEF IInv
<1>4. \A v \in DOMAIN wbs : wbs[v].buf # a
  BY <1>1, <1>2, AllocApart
<1> HIDE DEF a
<1>5. /\ DOMAIN wbs' = DOMAIN wbs \cup {w} /\ wbs'[w] = new
      /\ \A v \in DOMAIN wbs : wbs'[v] = wbs[v]
  BY <1>2
<1>6. BuffersOK'
  BY <1>1, <1>2, <1>3, <1>5 DEF IInv, BuffersOK
<1>7. BuffersFit'
  <2>1. \A v \in DOMAIN wbs \ {w} : wbs'[v] = wbs[v] /\ wbs[v].buf # wbs'[w].buf
    BY <1>4, <1>5
  <2>2. /\ blocks \subseteq blocks' /\ wbs'[w].length <= wbs'[w].capacity
        /\ BlockAt(wbs'[w].buf, wbs'[w].capacity) \in blocks'
    BY <1>1, <1>3, <1>5
  <2> QED BY <1>5, <2>1, <2>2, FitKept
<1>8. Logs!Open(w) /\ w \in DOMAIN wbs'
  <2>1. Value(w)' = << >>
    BY <1>5 DEF Value
  <2>2. \A v \in DOMAIN wbs : Value(v)' = Value(v)
    BY <1>2, <1>5 DEF Value, Peek
  <2> QED BY <1>2, <1>5, <2>1, <2>2 DEF Logs!Open
<1>9. Logs!Next
  BY <1>8 DEF Logs!Next
<1> QED BY <1>3, <1>6, <1>7, <1>9 DEF IInv

\* rtmp_wb_write where there is room: the bytes go behind those of the buffer.
LEMMA WbWriteStep ==
  ASSUME IInv, NEW w \in DOMAIN wbs, NEW data \in Data, WbWrite(w, data)
  PROVE  IInv' /\ Logs!Next
<1> DEFINE b == wbs[w]
           a == Plus(b.buf, b.length)
           s == Value(w) \o data
<1>1. /\ b.length + Len(data) <= b.capacity
      /\ mem' = Copied(a, data)
      /\ wbs' = [wbs EXCEPT ![w].length = @ + Len(data)]
      /\ UNCHANGED pool
  BY DEF WbWrite
<1>2. data \in Seq(Cell) /\ Len(data) \in Nat
  BY DataType
<1>3. /\ b.buf \in Address /\ b.capacity \in Nat /\ b.capacity >= 1 /\ b.length \in Nat
      /\ BlockAt(b.buf, b.capacity) \in blocks
  BY BufferType, FitsType DEF IInv
<1>4. a \in Address /\ a[1] = b.buf[1] /\ a[2] = b.buf[2] + b.length
  BY <1>3, PlusType
<1>5. /\ DOMAIN wbs' = DOMAIN wbs
      /\ wbs'[w] = [buf |-> b.buf, capacity |-> b.capacity,
                    length |-> b.length + Len(data)]
      /\ \A v \in DOMAIN wbs \ {w} : wbs'[v] = wbs[v]
  BY <1>1, <1>2, <1>3 DEF IInv, BuffersOK
<1>6. \A v \in DOMAIN wbs \ {w} : wbs[v].buf # b.buf
  BY DEF IInv, BuffersFit
<1> HIDE DEF a
<1>7. BuffersOK'
  <2>1. mem' \in [DOMAIN mem' -> Cell]
    BY <1>1, <1>2, <1>4, CopiedType DEF IInv
  <2>2. wbs' \in [DOMAIN wbs' -> [buf : Address, capacity : Nat \ {0}, length : Nat]]
    BY <1>1, <1>2, <1>3, <1>5 DEF IInv, BuffersOK
  <2> QED BY <2>1, <2>2 DEF BuffersOK
<1>8. BuffersFit'
  <2>1. blocks' = blocks
    BY <1>1 DEF pool
  <2> QED BY <1>1, <1>3, <1>5, <1>6, <2>1, FitKept
<1>9. PP!IInv'
  BY <1>1, PoolKept DEF IInv
<1>10. ASSUME NEW v \in DOMAIN wbs, v # w PROVE Value(v)' = Value(v)
  <2>1. BlockAt(wbs[v].buf, wbs[v].capacity) \in blocks /\ wbs[v].buf \in Address
    BY FitsType, BufferType DEF IInv
  <2>2. BlockAt(wbs[v].buf, wbs[v].capacity) # BlockAt(b.buf, b.capacity)
    BY <1>3, <1>6, <1>10, <2>1 DEF BlockAt, Address
  <2>3. PP!Apart(BlockAt(wbs[v].buf, wbs[v].capacity), BlockAt(b.buf, b.capacity))
    BY <1>3, <2>1, <2>2 DEF IInv, PP!IInv, PP!BlocksDisjoint
  <2>4. \A i \in 1 .. wbs[v].length : Plus(wbs[v].buf, i - 1) \notin Area(a, Len(data))
    BY <1>1, <1>2, <1>3, <2>3, ApartFrom DEF a
  <2> QED BY <1>1, <1>2, <1>4, <1>5, <1>10, <2>4, ValueKept DEF IInv
<1>11. Value(w)' = s
  <2>1. /\ Value(w) \in Seq(Cell) /\ Len(Value(w)) = b.length
        /\ \A i \in 1 .. b.length : Value(w)[i] = Peek(Plus(b.buf, i - 1))
    BY ValueType DEF IInv
  <2>2. /\ s \in Seq(Cell) /\ Len(s) = b.length + Len(data)
        /\ \A i \in 1 .. b.length + Len(data) :
             s[i] = IF i <= b.length THEN Value(w)[i] ELSE data[i - b.length]
    BY <1>2, <2>1, ConcatBytes
  <2> HIDE DEF s
  <2>3. ASSUME NEW i \in 1 .. Len(s) PROVE Peek(Plus(b.buf, i - 1))' = s[i]
    <3> DEFINE x == Plus(b.buf, i - 1)
    <3>1. /\ i \in Nat /\ i >= 1 /\ i <= b.length + Len(data) /\ i - 1 \in Nat
      BY <1>2, <1>3, <2>2
    <3>2. x \in Address /\ x[1] = b.buf[1] /\ x[2] = b.buf[2] + (i - 1)
      BY <1>3, <3>1, PlusType
    <3>3. x' = x
      BY <1>5 DEF Plus
    <3> HIDE DEF x
    <3>4. \A y \in Address :
            Peek(y)' = IF y \in Area(a, Len(data)) THEN data[y[2] - a[2] + 1] ELSE Peek(y)
      BY <1>1, <1>2, <1>4, CopiedPeek DEF IInv
    <3>5. b.buf[2] \in Nat
      BY <1>3 DEF Address
    <3>6. CASE i <= b.length
      <4>1. x \notin Area(a, Len(data))
        BY <1>2, <1>3, <1>4, <3>1, <3>2, <3>5, <3>6, AreaIs
      <4>2. Peek(x)' = Peek(x)
        BY <3>2, <3>3, <3>4, <4>1 DEF Peek
      <4>3. s[i] = Peek(x)
        BY <2>1, <2>2, <3>1, <3>6 DEF x
      <4> QED BY <4>2, <4>3 DEF x
    <3>7. CASE i > b.length
      <4>4. x[2] - a[2] + 1 = i - b.length /\ a[2] <= x[2] /\ x[2] < a[2] + Len(data)
        BY <1>2, <1>3, <1>4, <3>1, <3>2, <3>5, <3>7
      <4>1. x \in Area(a, Len(data))
        BY <1>2, <1>4, <3>2, <4>4, AreaIs
      <4>2. Peek(x)' = data[i - b.length]
        BY <3>2, <3>3, <3>4, <4>4, <4>1 DEF Peek
      <4>3. s[i] = data[i - b.length]
        BY <1>3, <2>2, <3>1, <3>7
      <4> QED BY <4>2, <4>3 DEF x
    <3> QED BY <1>3, <3>1, <3>6, <3>7
  <2>4. wbs'[w].buf = b.buf /\ wbs'[w].length = Len(s) /\ w \in DOMAIN wbs'
    BY <1>5, <2>2
  <2> QED BY <1>3, <2>2, <2>3, <2>4, ValueGrows DEF IInv
<1>12. Logs!Write(w, data)
  BY <1>5, <1>10, <1>11 DEF Logs!Write
<1>13. Logs!Next
  BY <1>12 DEF Logs!Next
<1> QED BY <1>7, <1>8, <1>9, <1>13 DEF IInv

\* rtmp_wb_write where there is none: the buffer moves to a block of its own, with all its
\* bytes and the new ones.
LEMMA WbGrowStep ==
  ASSUME IInv, NEW w \in DOMAIN wbs, NEW data \in Data, WbGrow(w, data)
  PROVE  IInv' /\ Logs!Next
<1> DEFINE b == wbs[w]
           n == b.length + Len(data)
           s == Value(w) \o data
<1>1. PICK c \in Enough(b.capacity, n) :
        /\ Alloc(c) /\ mem' = Copied(Place(c), s)
        /\ wbs' = [wbs EXCEPT ![w] = [buf |-> Place(c), capacity |-> c, length |-> n]]
  BY DEF WbGrow
<1>2. /\ data \in Seq(Cell) /\ Len(data) \in Nat /\ b.length \in Nat /\ n \in Nat
      /\ b.capacity \in Nat /\ b.capacity >= 1 /\ n > b.capacity
  BY DataType, BufferType DEF IInv, WbGrow
<1>3. c \in Nat /\ c >= 1 /\ n <= c
  BY <1>2 DEF Enough
<1>4. s \in Seq(Cell) /\ Len(s) = n
  BY <1>2, ValueType, ConcatBytes DEF IInv
<1>5. PICK a \in Address : a = Place(c) /\ blocks' = blocks \cup {BlockAt(a, c)}
  BY <1>1, <1>3, AllocBlock DEF IInv
<1>6. /\ \A v \in DOMAIN wbs : wbs[v].buf # a
      /\ \A v \in DOMAIN wbs : \A i \in 1 .. wbs[v].length :
           Plus(wbs[v].buf, i - 1) \notin Area(a, n)
  BY <1>1, <1>2, <1>3, <1>5, AllocApart
<1> HIDE DEF s, n
<1>7. /\ DOMAIN wbs' = DOMAIN wbs
      /\ wbs'[w] = [buf |-> a, capacity |-> c, length |-> n]
      /\ \A v \in DOMAIN wbs \ {w} : wbs'[v] = wbs[v]
  BY <1>1, <1>5 DEF IInv, BuffersOK
<1>8. mem' = Copied(a, s) /\ PP!IInv'
  BY <1>1, <1>3, <1>5, AllocBlock DEF IInv
<1>9. BuffersOK'
  <2>1. mem' \in [DOMAIN mem' -> Cell]
    BY <1>4, <1>5, <1>8, CopiedType DEF IInv
  <2>2. wbs' \in [DOMAIN wbs' -> [buf : Address, capacity : Nat \ {0}, length : Nat]]
    BY <1>1, <1>2, <1>3, <1>5, <1>7 DEF IInv, BuffersOK
  <2> QED BY <2>1, <2>2 DEF BuffersOK
<1>10. BuffersFit'
  <2>1. \A v \in DOMAIN wbs \ {w} : wbs'[v] = wbs[v] /\ wbs[v].buf # wbs'[w].buf
    BY <1>6, <1>7
  <2>2. /\ blocks \subseteq blocks' /\ wbs'[w].length <= wbs'[w].capacity
        /\ BlockAt(wbs'[w].buf, wbs'[w].capacity) \in blocks'
    BY <1>3, <1>5, <1>7
  <2>3. DOMAIN wbs' = DOMAIN wbs \cup {w}
    BY <1>7
  <2> QED BY <2>1, <2>2, <2>3, FitKept
<1>11. ASSUME NEW v \in DOMAIN wbs, v # w PROVE Value(v)' = Value(v)
  BY <1>4, <1>5, <1>6, <1>7, <1>8, <1>11, ValueKept DEF IInv
<1>12. Value(w)' = s
  <2>1. \A y \in Address : y \in Area(a, n) => Peek(y)' = s[y[2] - a[2] + 1]
    BY <1>4, <1>5, <1>8, CopiedPeek DEF IInv
  <2>2. ASSUME NEW i \in 1 .. Len(s) PROVE Peek(Plus(a, i - 1))' = s[i]
    <3> DEFINE x == Plus(a, i - 1)
    <3>1. i \in Nat /\ i >= 1 /\ i <= n /\ i - 1 \in Nat /\ a[2] \in Nat
      BY <1>2, <1>4, <1>5 DEF Address
    <3>2. x \in Address /\ x[1] = a[1] /\ x[2] = a[2] + (i - 1)
      BY <1>5, <3>1, PlusType
    <3>3. x[2] - a[2] + 1 = i /\ a[2] <= x[2] /\ x[2] < a[2] + n
      BY <1>2, <3>1, <3>2
    <3>4. x \in Area(a, n)
      BY <1>2, <1>5, <3>2, <3>3, AreaIs
    <3> QED BY <2>1, <3>2, <3>3, <3>4
  <2> QED BY <1>4, <1>5, <1>7, <2>2, ValueGrows DEF IInv
<1>13. Logs!Write(w, data)
  BY <1>7, <1>11, <1>12 DEF Logs!Write, s
<1>14. Logs!Next
  BY <1>13 DEF Logs!Next
<1> QED BY <1>8, <1>9, <1>10, <1>14 DEF IInv

\* Somebody else takes a block and fills it.
LEMMA FillStep ==
  ASSUME IInv, NEW data \in Data, Fill(data)
  PROVE  IInv' /\ UNCHANGED [w \in DOMAIN wbs |-> Value(w)]
<1> DEFINE a == Place(Len(data))
<1>1. Alloc(Len(data)) /\ mem' = Copied(a, data) /\ wbs' = wbs
  BY DEF Fill
<1>2. data \in Seq(Cell) /\ Len(data) \in Nat
  BY DataType
<1>3. /\ PP!IInv' /\ a \in Address
      /\ blocks' = blocks \cup {BlockAt(a, Len(data))}
  BY <1>1, <1>2, AllocBlock DEF IInv
<1>4. \A v \in DOMAIN wbs : \A i \in 1 .. wbs[v].length :
        Plus(wbs[v].buf, i - 1) \notin Area(a, Len(data))
  BY <1>1, <1>2, AllocApart
<1> HIDE DEF a
<1>5. BuffersOK'
  BY <1>1, <1>2, <1>3, CopiedType DEF IInv, BuffersOK
<1>6. BuffersFit'
  BY <1>1, <1>3 DEF IInv, BuffersFit
<1>7. \A v \in DOMAIN wbs : Value(v)' = Value(v)
  <2> SUFFICES ASSUME NEW v \in DOMAIN wbs PROVE Value(v)' = Value(v)
    OBVIOUS
  <2> QED BY <1>1, <1>2, <1>3, <1>4, ValueKept DEF IInv
<1> QED BY <1>1, <1>3, <1>5, <1>6, <1>7 DEF IInv

\* A pool that is reset or freed has no buffers.
LEMMA EndStep == ASSUME IInv, PoolReset \/ PoolFree
                 PROVE  IInv' /\ Logs!Next
<1>1. wbs' = << >> /\ mem' = << >> /\ (P!Reset \/ P!Free)
  BY DEF PoolReset, PoolFree
<1>2. PP!Reset \/ PP!Free
  BY <1>1 DEF P!Reset, PP!Reset, P!Free, PP!Free
<1>3. PP!IInv'
  BY <1>2, PoolConstants, PP!ResetInv, PP!FreeInv DEF IInv
<1>4. BuffersOK' /\ BuffersFit'
  BY <1>1 DEF BuffersOK, BuffersFit
<1>5. Logs!End
  BY <1>1 DEF Logs!End
<1> QED BY <1>3, <1>4, <1>5 DEF IInv, Logs!Next

-----------------------------------------------------------------------------
(* Theorems.                                                               *)

\* A new pool has no buffers.
LEMMA InitInv == Init => IInv /\ Logs!Init
<1> SUFFICES ASSUME Init PROVE IInv /\ Logs!Init
  OBVIOUS
<1>1. PP!Init
  BY DEF Init, P!Init, PP!Init
<1>2. PP!IInv
  BY <1>1, PoolConstants, PP!InitInv
<1>3. BuffersOK /\ BuffersFit
  BY DEF Init, BuffersOK, BuffersFit
<1>4. Logs!Init
  BY DEF Init, Logs!Init
<1> QED BY <1>2, <1>3, <1>4 DEF IInv

\* Each step keeps the invariant, and is one of append-only sequences or none of theirs.
LEMMA NextInv == IInv /\ [Next]_vars
                   => IInv' /\ [Logs!Next]_([w \in DOMAIN wbs |-> Value(w)])
<1> SUFFICES ASSUME IInv, [Next]_vars
             PROVE  IInv' /\ (Logs!Next \/ UNCHANGED [w \in DOMAIN wbs |-> Value(w)])
  OBVIOUS
<1>1. CASE UNCHANGED vars
  <2>1. PP!IInv'
    BY <1>1, PoolKept DEF vars, IInv
  <2>2. BuffersOK' /\ BuffersFit'
    BY <1>1 DEF vars, pool, IInv, BuffersOK, BuffersFit
  <2>3. UNCHANGED [w \in DOMAIN wbs |-> Value(w)]
    BY <1>1 DEF vars, Value, Peek
  <2> QED BY <2>1, <2>2, <2>3 DEF IInv
<1> QED BY <1>1, WbInitStep, WbWriteStep, WbGrowStep, FillStep, EndStep DEF Next

\* Every buffer has a block of the pool to itself, of its capacity, and is no fuller than
\* that, whoever else allocates.
THEOREM WriteBuffersFit == Spec => []BuffersFit
<1>1. IInv => BuffersFit
  BY DEF IInv
<1>2. Spec => []IInv
  BY InitInv, NextInv, PTL DEF Spec
<1> QED BY <1>1, <1>2, PTL

\* Write buffers implement append-only sequences of bytes: a buffer holds what was
\* written to it, in order, however often it or another one has moved, until its pool
\* ends.
THEOREM WriteBuffersAreLogs == Spec => BuffersAreLogs
BY InitInv, NextInv, PTL DEF Spec, BuffersAreLogs, Logs!Spec

=============================================================================
