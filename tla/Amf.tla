--------------------------------- MODULE Amf ---------------------------------
(***************************************************************************)
(* The AMF codec of core/src/amf.c: how a value is laid out in the data of *)
(* a packet, how much room is set aside for it, and what is read back.     *)
(*                                                                         *)
(* An AV is a type and a sequence: the bytes of a number as they are in    *)
(* memory, the byte of a boolean, the bytes of a string, the number of a   *)
(* link, the elements of an array or a table, nothing for any other type.  *)
(* The host is little endian.                                              *)
(***************************************************************************)
EXTENDS PacketHeader, SequencesExt

CONSTANT MaxDepth   \* bound on how deep arrays and tables are in each other

\* No packet has this much data: its header gives the size three bytes.  A reader is that far
\* when it has used memory it must not use: the process has crashed, or may do anything.
Nowhere == 256 * 256 * 256

ASSUME MaxDepthAssumption == MaxDepth \in 1 .. Nowhere - 1

AMF_NUMBER      == 0
AMF_BOOLEAN     == 1
AMF_STRING      == 2
AMF_HASH        == 3
AMF_NIL         == 5
AMF_LINK        == 7
AMF_ASSOC_ARRAY == 8
AMF_END         == 9
AMF_ARRAY       == 10

Value(type, value) == [type |-> type, value |-> value]
Nil  == Value(AMF_NIL, << >>)
End  == Value(AMF_END, << >>)
Elem(key, value) == [key |-> key, value |-> value]

\* The sum of a sequence of numbers.
Total(s) ==
  LET sum[n \in 0 .. Len(s)] == IF n = 0 THEN 0 ELSE sum[n - 1] + s[n]
  IN sum[Len(s)]

-----------------------------------------------------------------------------
(* Values.                                                                 *)

\* The values that `leaves` are nested in, less than d deep: lists of values, and tables
\* of values with keys.
Nested(leaves, lists, tables) ==
  LET nested[d \in Nat] ==
        IF d = 0 THEN {}
        ELSE LET inner == nested[d - 1]
             IN leaves \cup [type : lists, value : Seq(inner)] \cup
                [type : tables, value : Seq([key : Seq(Byte), value : inner])]
  IN nested

MaxShort == 32767
Shorts   == -MaxShort - 1 .. MaxShort

\* The types whose values are more than a type.
Typed == {AMF_NUMBER, AMF_BOOLEAN, AMF_STRING, AMF_HASH, AMF_LINK, AMF_ASSOC_ARRAY, AMF_ARRAY}

Leaves == [type : {AMF_NUMBER},  value : [1 .. 8 -> Byte]]   \cup
          [type : {AMF_BOOLEAN}, value : [1 .. 1 -> Byte]]   \cup
          [type : {AMF_STRING},  value : Seq(Byte)]          \cup
          [type : {AMF_LINK},    value : [1 .. 1 -> Shorts]] \cup
          [type : Byte \ Typed,  value : {<< >>}]

AVs == Nested(Leaves, {AMF_ARRAY}, {AMF_HASH, AMF_ASSOC_ARRAY})

\* Those that have no associative array in them.
Plain == Nested(Leaves, {AMF_ARRAY}, {AMF_HASH})

\* Where to find a value.
Depth(av) == CHOOSE d \in 1 .. MaxDepth : av \in AVs[d]

-----------------------------------------------------------------------------
(* Packing.                                                                *)

\* Two and four bytes, most significant first.
Short(v) == << (v \div 256) % 256, v % 256 >>
Long(v)  == Reverse(ReverseInt(v))

PackString(s) == Short(Len(s)) \o s

\* What ends the elements of a hash: an empty key with the value END.
EndMarker == PackString(<< >>) \o << AMF_END >>

\* Arrays and tables, when P packs what is in them.
PackItems(P, t) == FlattenSeq([i \in 1 .. Len(t) |-> P[t[i]]])
PackElems(P, t) == FlattenSeq([i \in 1 .. Len(t) |-> PackString(t[i].key) \o P[t[i].value]])

PackValue(P, av) ==
  << av.type >> \o
    CASE av.type = AMF_NUMBER      -> Reverse(av.value)
      [] av.type = AMF_BOOLEAN     -> av.value
      [] av.type = AMF_STRING      -> PackString(av.value)
      [] av.type = AMF_HASH        -> PackElems(P, av.value) \o EndMarker
      [] av.type = AMF_ASSOC_ARRAY -> Long(Len(av.value)) \o PackElems(P, av.value)
      [] av.type = AMF_ARRAY       -> Long(Len(av.value)) \o PackItems(P, av.value)
      [] av.type = AMF_LINK        -> Short(av.value[1])
      [] OTHER                     -> << >>

PackTo[d \in Nat] ==
  IF d = 0 THEN << >> ELSE [av \in AVs[d] |-> PackValue(PackTo[d - 1], av)]

Pack(av) == PackTo[Depth(av)][av]

\* Broken: no room for the end of a hash.
HashEndSizeNone == 0

\* The room for what ends the elements of a hash.
HashEndSize == 3

ItemsSize(P, t) == Total([i \in 1 .. Len(t) |-> P[t[i]]])
ElemsSize(P, t) == Total([i \in 1 .. Len(t) |-> Len(t[i].key) + 2 + P[t[i].value]])

ValueSize(P, av) ==
  1 + CASE av.type = AMF_NUMBER      -> 8
        [] av.type = AMF_BOOLEAN     -> 1
        [] av.type = AMF_STRING      -> 2 + Len(av.value)
        [] av.type = AMF_HASH        -> ElemsSize(P, av.value) + HashEndSize
        [] av.type = AMF_ASSOC_ARRAY -> 4 + ElemsSize(P, av.value)
        [] av.type = AMF_ARRAY       -> 4 + ItemsSize(P, av.value)
        [] av.type = AMF_LINK        -> 2
        [] OTHER                     -> 0

PackSizeTo[d \in Nat] ==
  IF d = 0 THEN << >> ELSE [av \in AVs[d] |-> ValueSize(PackSizeTo[d - 1], av)]

\* The room set aside for a value.
PackSize(av) == PackSizeTo[Depth(av)][av]

\* The data of a packet with these values, and the room set aside for it.
PackArguments(values) ==
  [data |-> FlattenSeq([i \in 1 .. Len(values) |-> Pack(values[i])]),
   room |-> Total([i \in 1 .. Len(values) |-> PackSize(values[i])])]

PackCall(method, id, values) == PackArguments(<< method, id, Nil >> \o values)

-----------------------------------------------------------------------------
(* Reading: m is the data of a packet and the byte that fills the memory   *)
(* behind it, i how many bytes have been read.                             *)

At(m, k)       == IF k <= Len(m.data) THEN m.data[k] ELSE m.stale
Bytes(m, i, n) == [k \in 1 .. n |-> At(m, i + k)]

\* A size below 0, which only misread data can have, is copied as a huge one.
UnpackString(m, i) ==
  LET size == ReadShort(Bytes(m, i, 2), 1)
  IN [value |-> Bytes(m, i + 2, size), next |-> i + 2 + IF size < 0 THEN Nowhere ELSE size]

\* The most elements that a block of the pool is large enough for: 2^31 - 1 bytes but for
\* POOL_EXTRA_SPACE, in values of 24 bytes, or 40 with a key.
MaxItems == 89478399
MaxElems == 53687039

\* What is read after a count: a count below 0, or too large, is the size of a block that may
\* be smaller than what is written to it, or of none at all.
Counted(i, count, limit, read) ==
  IF count \in 0 .. limit THEN read ELSE [value |-> << >>, next |-> i + Nowhere]

\* The values from i on, one more in each round, when R reads the one at each place.
ItemsRead(R, i) ==
  LET read[n \in Nat] ==
        IF n = 0 THEN [value |-> << >>, next |-> i]
        ELSE LET sofar == read[n - 1]
                 one   == R[sofar.next]
             IN [value |-> Append(sofar.value, one.av), next |-> one.next]
  IN read

UnpackItems(R, i, count) == ItemsRead(R, i)[count]

\* The elements from i on, one more in each round, until a value is END.
ElemsRead(m, R, i) ==
  LET read[n \in Nat] ==
        IF n = 0 THEN [value |-> << >>, next |-> i, open |-> TRUE]
        ELSE LET sofar == read[n - 1]
                 key   == UnpackString(m, sofar.next)
                 one   == R[key.next]
             IN IF ~sofar.open THEN sofar
                ELSE IF one.av.type = AMF_END
                       THEN [value |-> sofar.value, next |-> one.next, open |-> FALSE]
                       ELSE [value |-> Append(sofar.value, Elem(key.value, one.av)),
                             next |-> one.next, open |-> TRUE]
  IN read

\* Broken: an associative array is read to its end marker, like a hash.
UnpackElemsToEnd(m, R, i, count) ==
  LET read == ElemsRead(m, R, i)
  IN read[CHOOSE n \in 0 .. Len(m.data) : ~read[n].open]

\* Elements up to the first whose value is END, or `count` of them.  Each takes a byte, and
\* behind the data END is read: there are no more rounds than the data has bytes.
UnpackElems(m, R, i, count) ==
  LET read    == ElemsRead(m, R, i)
      Over(n) == n >= count \/ ~read[n].open
  IN read[CHOOSE n \in 0 .. Len(m.data) : Over(n) /\ (n = 0 \/ ~Over(n - 1))]

\* At the end of the data there is an END that takes no bytes.
UnpackValue(m, R, i) ==
  LET type  == At(m, i + 1)
      j     == i + 1
      count == ReadInt(Bytes(m, j, 4), 1)
      Got(value, next) == [av |-> Value(type, value), next |-> next]
      Read(u)  == Got(u.value, u.next)
      items    == Counted(j + 4, count, MaxItems, UnpackItems(R, j + 4, count))
      elements == Counted(j + 4, count, MaxElems, UnpackElems(m, R, j + 4, count))
  IN CASE Len(m.data) <= i       -> [av |-> End, next |-> i]
       [] Len(m.data) > i ->
          CASE type = AMF_NUMBER      -> Got(Reverse(Bytes(m, j, 8)), j + 8)
            [] type = AMF_BOOLEAN     -> Got(Bytes(m, j, 1), j + 1)
            [] type = AMF_STRING      -> Read(UnpackString(m, j))
            [] type = AMF_HASH        -> Read(UnpackElems(m, R, j, Len(m.data)))
            [] type = AMF_ASSOC_ARRAY -> Read(elements)
            [] type = AMF_ARRAY       -> Read(items)
            [] type = AMF_LINK        -> Got(<< ReadShort(Bytes(m, j, 2), 1) >>, j + 2)
            [] OTHER                  -> Got(<< >>, j)

\* A value that is in n others.  Each takes a byte, so that n need be no more than that of
\* the data.
UnpackIn(m) ==
  LET unpack[n \in Nat] ==
        IF n = 0 THEN [i \in Nat |-> [av |-> End, next |-> i]]
        ELSE [i \in Nat |-> UnpackValue(m, unpack[n - 1], i)]
  IN unpack

Unpack(m, i) == UnpackIn(m)[Len(m.data)][i]

\* The values whose lengths can be read back.  An END in a table would end it.
Strings == {s \in Seq(Byte) : Len(s) <= MaxShort}

Readable[d \in Nat] ==
  IF d = 0 THEN {}
  ELSE {av \in AVs[d] :
          /\ av.type = AMF_STRING => av.value \in Strings
          /\ av.type = AMF_ARRAY  => av.value \in Seq(Readable[d - 1])
          /\ av.type \in {AMF_HASH, AMF_ASSOC_ARRAY} =>
               av.value \in Seq([key : Strings, value : Readable[d - 1] \ {End}])
          /\ av.type = AMF_ARRAY       => Len(av.value) <= MaxItems
          /\ av.type = AMF_ASSOC_ARRAY => Len(av.value) <= MaxElems}

=============================================================================
