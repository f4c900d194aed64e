------------------------- MODULE PacketHeaderProofs -------------------------
(***************************************************************************)
(* What the packet header codec of packet.c promises: its output is bytes, *)
(* and what a sender leaves out of a header the receiver puts back.        *)
(***************************************************************************)
EXTENDS PacketHeader, TLAPS

-----------------------------------------------------------------------------
(* Division.                                                               *)

\* Quotient and remainder, for the provers.
LEMMA DivMod == ASSUME NEW a \in Int, NEW c \in Int, c > 0
                PROVE  /\ a \div c \in Int /\ a % c \in Int
                       /\ 0 <= a % c /\ a % c < c
                       /\ a = c * (a \div c) + (a % c)
  BY SMT

\* There is only one quotient and one remainder.
LEMMA DivModUnique ==
  ASSUME NEW a \in Int, NEW c \in Int, c > 0, NEW q \in Int, NEW r \in Int,
         0 <= r, r < c, a = c * q + r
  PROVE  a \div c = q /\ a % c = r
<1>1. /\ c * (a \div c) + (a % c) = c * q + r
      /\ a \div c \in Int /\ a % c \in Int /\ 0 <= a % c /\ a % c < c
  BY DivMod
<1>2. a \div c = q
  <2>1. CASE a \div c < q
    <3>1. c * (a \div c) + c <= c * q
      BY <2>1, <1>1
    <3> QED BY <3>1, <1>1
  <2>2. CASE q < a \div c
    <3>1. c * q + c <= c * (a \div c)
      BY <2>2, <1>1
    <3> QED BY <3>1, <1>1
  <2> QED BY <2>1, <2>2, <1>1
<1> QED BY <1>1, <1>2

\* The quotient of a natural number is one.
LEMMA DivNat == ASSUME NEW a \in Nat, NEW c \in Int, c > 0 PROVE a \div c \in Nat
  BY SMT

-----------------------------------------------------------------------------
(* Sequences.                                                              *)

\* A concatenation of sequences is one.
LEMMA ConcatType ==
  ASSUME NEW S, NEW s \in Seq(S), NEW t \in Seq(S)
  PROVE  s \o t \in Seq(S) /\ Len(s \o t) = Len(s) + Len(t)
  OBVIOUS

\* Its left part.
LEMMA ConcatLeft ==
  ASSUME NEW S, NEW s \in Seq(S), NEW t \in Seq(S), NEW k \in 1 .. Len(s)
  PROVE  (s \o t)[k] = s[k]
  OBVIOUS

\* Its right part.
LEMMA ConcatRight ==
  ASSUME NEW S, NEW s \in Seq(S), NEW t \in Seq(S), NEW k \in 1 .. Len(t)
  PROVE  (s \o t)[Len(s) + k] = t[k]
  OBVIOUS

-----------------------------------------------------------------------------
(* Integers.                                                               *)

\* The largest timer is a number.
LEMMA TimerNat == ExtendedTimer \in Nat
  BY DEF ExtendedTimer

\* The bytes of an integer are bytes.
LEMMA ByteOfType == ASSUME NEW e \in Int, NEW k \in 0 .. 3 PROVE ByteOf(e, k) \in Byte
<1>1. ASSUME NEW a \in Int PROVE a % 256 \in Byte
  BY DivMod DEF Byte
<1>2. e \div 256 \in Int /\ e \div (256 * 256) \in Int /\ e \div (256 * 256 * 256) \in Int
  BY DivMod
<1>3. CASE k = 0 BY <1>1, <1>3 DEF ByteOf
<1>4. CASE k = 1 BY <1>1, <1>2, <1>4 DEF ByteOf
<1>5. CASE k = 2 BY <1>1, <1>2, <1>5 DEF ByteOf
<1>6. CASE k = 3 BY <1>1, <1>2, <1>6 DEF ByteOf
<1> QED BY <1>3, <1>4, <1>5, <1>6

\* A medium int is three bytes, a reversed int is four.
LEMMA IntBytes == ASSUME NEW e \in Int
                  PROVE  /\ MediumInt(e) \in Seq(Byte) /\ Len(MediumInt(e)) = 3
                         /\ ReverseInt(e) \in Seq(Byte) /\ Len(ReverseInt(e)) = 4
<1>1. ByteOf(e, 0) \in Byte /\ ByteOf(e, 1) \in Byte /\ ByteOf(e, 2) \in Byte /\ ByteOf(e, 3) \in Byte
  BY ByteOfType
<1> QED BY <1>1, SMT DEF MediumInt, ReverseInt

\* Reading a medium int gives back what was written, if it fits three bytes.
LEMMA MediumIntRoundTrip ==
  ASSUME NEW e \in Nat, e <= ExtendedTimer, NEW b, NEW i \in Nat,
         b[i] = MediumInt(e)[1], b[i + 1] = MediumInt(e)[2], b[i + 2] = MediumInt(e)[3]
  PROVE  ReadMediumInt(b, i) = e
<1> DEFINE q == e \div 256
           d == q \div 256
<1>1. /\ q \in Int /\ e % 256 \in Int /\ e = 256 * q + (e % 256)
      /\ 0 <= e % 256 /\ e % 256 < 256
  BY DivMod
<1>2. /\ d \in Int /\ q % 256 \in Int /\ q = 256 * d + (q % 256)
      /\ 0 <= q % 256 /\ q % 256 < 256
  BY <1>1, DivMod
<1> HIDE DEF q, d
<1>3. 0 <= d /\ d < 256
  BY <1>1, <1>2 DEF ExtendedTimer
<1>4. e \div (256 * 256) = d
  <2> DEFINE r == 256 * (q % 256) + (e % 256)
  <2>1. r \in Int /\ 0 <= r /\ r < 256 * 256 /\ e = (256 * 256) * d + r
    BY <1>1, <1>2
  <2> HIDE DEF r
  <2> QED BY <2>1, <1>2, DivModUnique
<1>5. d % 256 = d
  <2>1. d = 256 * 0 + d
    BY <1>2
  <2> QED BY <2>1, <1>2, <1>3, DivModUnique
<1>6. ByteOf(e, 2) = d /\ ByteOf(e, 1) = q % 256 /\ ByteOf(e, 0) = e % 256
  BY <1>4, <1>5 DEF ByteOf, q
<1>7. b[i] = d /\ b[i + 1] = q % 256 /\ b[i + 2] = e % 256
  BY <1>6 DEF MediumInt
<1>8. ReadMediumInt(b, i) = (d * 256 + (q % 256)) * 256 + (e % 256)
  BY <1>7 DEF ReadMediumInt
<1> QED BY <1>1, <1>2, <1>8

-----------------------------------------------------------------------------
(* Headers.                                                                *)

\* A mask is two bits.
LEMMA MaskBits == ASSUME NEW ch, NEW p PROVE PacketMask(ch, p) \in 0 .. 3
  BY DEF PacketMask, CHANNEL_NEW

\* The header fields are bytes, as many as the receiver expects.
LEMMA FieldBytes ==
  ASSUME NEW p, p.data_type \in Byte, p.stream_id \in Int, Len(p.data) \in Nat,
         NEW mask \in 0 .. 3, NEW dtime \in Int
  PROVE  /\ HeaderFields(p, mask, dtime) \in Seq(Byte)
         /\ Len(HeaderFields(p, mask, dtime)) = HeaderLength(mask)
<1> DEFINE timer == MediumInt(dtime)
           size  == MediumInt(Len(p.data))
           type  == << p.data_type >>
           id    == ReverseInt(p.stream_id)
<1>1. /\ timer \in Seq(Byte) /\ size \in Seq(Byte) /\ id \in Seq(Byte)
      /\ type \in Seq(Byte)
  BY IntBytes
<1>2. Len(timer) = 3 /\ Len(size) = 3 /\ Len(id) = 4 /\ Len(type) = 1
  BY IntBytes
<1>3. /\ HeaderFields(p, 0, dtime) = timer \o size \o type \o id
      /\ HeaderFields(p, 1, dtime) = timer \o size \o type
      /\ HeaderFields(p, 2, dtime) = timer
      /\ HeaderFields(p, 3, dtime) = << >>
  BY DEF HeaderFields, CHANNEL_NEW, CHANNEL_SAME_SOURCE, CHANNEL_TIMER_CHANGE
<1> HIDE DEF timer, size, type, id
<1>4. /\ HeaderLength(0) = 11 /\ HeaderLength(1) = 7 /\ HeaderLength(2) = 3
      /\ HeaderLength(3) = 0
  BY DEF HeaderLength, CHANNEL_NEW, CHANNEL_SAME_SOURCE, CHANNEL_TIMER_CHANGE
<1>5. /\ timer \o size \o type \in Seq(Byte) /\ timer \o size \o type \o id \in Seq(Byte)
      /\ Len(timer \o size \o type) = Len(timer) + Len(size) + Len(type)
      /\ Len(timer \o size \o type \o id) = Len(timer) + Len(size) + Len(type) + Len(id)
  BY <1>1
<1>6. 3 + 3 + 1 = 7 /\ 3 + 3 + 1 + 4 = 11
  OBVIOUS
<1>7. << >> \in Seq(Byte) /\ Len(<< >>) = 0
  OBVIOUS
<1>8. CASE mask = 0 BY <1>8, <1>2, <1>3, <1>4, <1>5, <1>6, Zenon
<1>9. CASE mask = 1 BY <1>9, <1>2, <1>3, <1>4, <1>5, <1>6, Zenon
<1>10. CASE mask = 2 BY <1>10, <1>1, <1>2, <1>3, <1>4, Zenon
<1>11. CASE mask = 3 BY <1>11, <1>3, <1>4, <1>7, Zenon
<1> QED BY <1>8, <1>9, <1>10, <1>11

\* The basic header of a channel that is in the table is one byte.
LEMMA BasicHeaderByte ==
  ASSUME NEW c \in 2 .. 63, NEW mask \in 0 .. 3
  PROVE  /\ HeaderBytes(c, mask) = << mask * 64 + c >>
         /\ HeaderBytes(c, mask) \in Seq(Byte)
         /\ SeparatorLength(c) = 1
<1>1. HeaderBytes(c, mask) = << mask * 64 + c >>
  BY DEF HeaderBytes
<1>2. mask * 64 + c \in Byte
  BY DEF Byte
<1> QED BY <1>1, <1>2 DEF SeparatorLength

-----------------------------------------------------------------------------
(* Chunks.                                                                 *)

\* The number of separators, and the length of the chunked data.
Separators(data, chunk) == IF data = << >> THEN 0 ELSE (Len(data) - 1) \div chunk

\* The separators are those between full chunks: the last chunk is not empty.
LEMMA SeparatorCount ==
  ASSUME NEW S, NEW data \in Seq(S), NEW chunk \in Nat \ {0}
  PROVE  LET more == Separators(data, chunk)
         IN /\ more \in Nat
            /\ Len(data) <= chunk * more + chunk
            /\ data # << >> => chunk * more < Len(data)
            /\ data = << >> => more = 0
<1> DEFINE more == Separators(data, chunk)
<1>1. CASE data = << >>
  BY <1>1 DEF Separators
<1>2. CASE data # << >>
  <2>1. Len(data) - 1 \in Nat /\ more = (Len(data) - 1) \div chunk
    BY <1>2 DEF Separators
  <2>2. /\ more \in Int /\ (Len(data) - 1) % chunk \in 0 .. chunk - 1
        /\ Len(data) - 1 = chunk * more + ((Len(data) - 1) % chunk)
    BY <2>1, DivMod
  <2>3. more >= 0
    BY <2>1, SMT
  <2> QED BY <1>2, <2>1, <2>2, <2>3
<1> QED BY <1>1, <1>2

\* Where byte k of the chunked data comes from: a byte of the data with g groups
\* before it, or a separator.
LEMMA ChunkedOrigin ==
  ASSUME NEW S, NEW data \in Seq(S), NEW chunk \in Nat \ {0}, NEW h \in Nat,
         NEW k \in 1 .. Len(data) + Separators(data, chunk) * h
  PROVE  LET g == (k - 1) \div (chunk + h)
             o == (k - 1) % (chunk + h)
         IN /\ g \in Nat /\ o \in 0 .. chunk + h - 1
            /\ k - 1 = (chunk + h) * g + o
            /\ o < chunk => g * chunk + o + 1 \in 1 .. Len(data)
<1> DEFINE g    == (k - 1) \div (chunk + h)
           o    == (k - 1) % (chunk + h)
           more == Separators(data, chunk)
<1>1. /\ more \in Nat /\ Len(data) <= chunk * more + chunk
      /\ data # << >> => chunk * more < Len(data)
      /\ data = << >> => more = 0
  BY SeparatorCount
<1> HIDE DEF more
<1>2. chunk + h \in Nat \ {0} /\ Len(data) \in Nat /\ more * h \in Nat
  BY <1>1
<1>3. k \in 1 .. Len(data) + more * h
  BY DEF more
<1>4. k - 1 \in Nat /\ k - 1 < Len(data) + more * h
  BY <1>2, <1>3
<1>5. g \in Nat /\ o \in 0 .. chunk + h - 1 /\ k - 1 = (chunk + h) * g + o
  <2> DEFINE a == k - 1
             c == chunk + h
  <2>1. a \in Nat /\ c \in Nat /\ c > 0
    BY <1>2, <1>4
  <2> HIDE DEF a, c
  <2>2. /\ a \div c \in Nat /\ a % c \in 0 .. c - 1
        /\ a = c * (a \div c) + (a % c)
    BY <2>1, DivMod, DivNat
  <2>3. g = a \div c /\ o = a % c
    BY DEF a, c
  <2> HIDE DEF g, o
  <2> QED BY <2>1, <2>2, <2>3 DEF a, c
<1>6. g >= 0
  BY <1>5
<1> HIDE DEF g, o
<1>7. data # << >>
  <2>1. SUFFICES ASSUME data = << >> PROVE FALSE
    OBVIOUS
  <2>2. Len(data) = 0 /\ more = 0
    BY <1>1, <2>1
  <2> QED BY <1>4, <2>2
<1>8. k - 1 = chunk * g + h * g + o
  BY <1>5, <1>6
<1>9. ASSUME o < chunk PROVE g * chunk + o + 1 \in 1 .. Len(data)
  <2>1. CASE g < more
    <3>1. chunk * g + chunk <= chunk * more
      BY <1>1, <1>5, <1>6, <2>1
    <3> QED BY <1>1, <1>2, <1>5, <1>6, <1>7, <1>9, <3>1
  <2>2. CASE g = more
    BY <1>1, <1>2, <1>4, <1>5, <1>6, <1>8, <1>9, <2>2
  <2>3. CASE g > more
    <3>1. chunk * more + chunk <= chunk * g /\ h * more <= h * g
      BY <1>1, <1>5, <1>6, <2>3
    <3> QED BY <1>1, <1>2, <1>4, <1>5, <1>8, <3>1
  <2> QED BY <1>1, <1>5, <2>1, <2>2, <2>3
<1> QED BY <1>5, <1>6, <1>9 DEF g, o

\* Chunked data is a sequence over the bytes of the data and the separators.
LEMMA ChunkedType ==
  ASSUME NEW S, NEW data \in Seq(S), NEW chunk \in Nat \ {0}, NEW hdr \in Seq(S)
  PROVE  /\ Chunked(data, chunk, hdr) \in Seq(S)
         /\ Len(Chunked(data, chunk, hdr))
              = Len(data) + Separators(data, chunk) * Len(hdr)
<1> DEFINE h     == Len(hdr)
           total == Len(data) + Separators(data, chunk) * h
           g(k)  == (k - 1) \div (chunk + h)
           o(k)  == (k - 1) % (chunk + h)
           at(k) == IF o(k) < chunk THEN data[g(k) * chunk + o(k) + 1]
                                    ELSE hdr[o(k) - chunk + 1]
<1>1. h \in Nat /\ total \in Nat
  <2>1. h \in Nat /\ Separators(data, chunk) \in Nat
    BY SeparatorCount
  <2> QED BY <2>1
<1>2. Chunked(data, chunk, hdr) = [k \in 1 .. total |-> at(k)]
  BY DEF Chunked, Separators
<1>3. ASSUME NEW k \in 1 .. total PROVE at(k) \in S
  <2>1. /\ g(k) \in Nat /\ o(k) \in 0 .. chunk + h - 1
        /\ o(k) < chunk => g(k) * chunk + o(k) + 1 \in 1 .. Len(data)
    BY <1>1, ChunkedOrigin
  <2> HIDE DEF g, o
  <2>2. CASE o(k) < chunk
    BY <2>1, <2>2
  <2>3. CASE o(k) >= chunk
    <3>1. o(k) - chunk + 1 \in 1 .. Len(hdr)
      BY <2>1, <2>3
    <3> QED BY <2>1, <2>3, <3>1
  <2> QED BY <1>1, <2>1, <2>2, <2>3
<1> HIDE DEF at, total
<1>4. [k \in 1 .. total |-> at(k)] \in Seq(S) /\ Len([k \in 1 .. total |-> at(k)]) = total
  BY <1>1, <1>3
<1> QED BY <1>2, <1>4 DEF total

\* The receiver counts the chunks the sender made, for a one byte separator.
LEMMA ChunkCount ==
  ASSUME NEW S, NEW data \in Seq(S), NEW chunk \in Nat \ {0}
  PROVE  FullChunks(Len(data), chunk, 1) = Separators(data, chunk)
<1>1. CASE data = << >>
  BY <1>1 DEF FullChunks, Separators
<1>2. CASE data # << >> /\ Len(data) < chunk + 1
  <2>1. Len(data) - 1 \in 0 .. chunk - 1 /\ Len(data) - 1 = chunk * 0 + (Len(data) - 1)
    BY <1>2
  <2>2. (Len(data) - 1) \div chunk = 0
    BY <2>1, DivModUnique
  <2> QED BY <1>2, <2>2 DEF FullChunks, Separators
<1>3. CASE Len(data) >= chunk + 1
  BY <1>3 DEF FullChunks, Separators
<1> QED BY <1>1, <1>2, <1>3

\* A separator of one byte, as on every channel of the table.
OneByte(hdr) == Len(hdr) = 1

\* How many full chunks stand before byte k of the data.
ChunksBefore(k, chunk) == (k - 1) \div chunk

\* Byte k of the data, which has g full chunks before it, stands g separators
\* further on.
LEMMA ChunkedAt ==
  ASSUME NEW S, NEW data \in Seq(S), NEW chunk \in Nat \ {0},
         NEW hdr \in Seq(S), OneByte(hdr), NEW k \in 1 .. Len(data)
  PROVE  LET g == ChunksBefore(k, chunk)
             c == Chunked(data, chunk, hdr)
         IN /\ g \in 0 .. Separators(data, chunk)
            /\ k + g \in 1 .. Len(c)
            /\ c[k + g] = data[k]
<1> DEFINE c    == Chunked(data, chunk, hdr)
           more == Separators(data, chunk)
           g    == (k - 1) \div chunk
           r    == (k - 1) % chunk
<1>1. /\ more \in Nat /\ Len(data) <= chunk * more + chunk
  BY SeparatorCount
<1>2. Len(hdr) = 1
  BY DEF OneByte
<1>3. c \in Seq(S) /\ Len(c) = Len(data) + more
  <2>1. Len(c) = Len(data) + more * Len(hdr) /\ c \in Seq(S)
    BY ChunkedType, Zenon
  <2>2. more * 1 = more
    BY <1>1
  <2> QED BY <1>2, <2>1, <2>2, Zenon
<1>4. /\ g \in Nat /\ r \in Nat /\ r < chunk /\ k - 1 = chunk * g + r
  <2>1. k - 1 \in Nat /\ chunk \in Int /\ chunk > 0
    OBVIOUS
  <2> QED BY <2>1, DivMod, DivNat
<1> HIDE DEF more, g, r
<1>5. g <= more
  <2>1. SUFFICES ASSUME g > more PROVE FALSE
    BY <1>1, <1>4
  <2>2. chunk * more + chunk <= chunk * g
    BY <1>1, <1>4, <2>1
  <2> QED BY <1>1, <1>4, <2>2
<1>6. k + g \in 1 .. Len(data) + more
  BY <1>1, <1>4, <1>5
<1>7. ((k + g) - 1) \div (chunk + 1) = g /\ ((k + g) - 1) % (chunk + 1) = r
  <2>1. (k + g) - 1 = (chunk + 1) * g + r
    BY <1>4
  <2> DEFINE n == (k + g) - 1
             d == chunk + 1
  <2>2. n \in Int /\ d \in Int /\ d > 0 /\ r < d /\ n = d * g + r
    BY <1>4, <2>1
  <2> HIDE DEF n, d
  <2>3. n \div d = g /\ n % d = r
    BY <1>4, <2>2, DivModUnique
  <2> QED BY <2>3 DEF n, d
<1>8. c[k + g] = data[g * chunk + r + 1]
  <2>1. c = [j \in 1 .. Len(data) + more * Len(hdr) |->
              LET q == (j - 1) \div (chunk + Len(hdr))
                  o == (j - 1) % (chunk + Len(hdr))
              IN IF o < chunk THEN data[q * chunk + o + 1] ELSE hdr[o - chunk + 1]]
    BY DEF Chunked, Separators, more
  <2>2. k + g \in 1 .. Len(data) + more * Len(hdr)
    BY <1>1, <1>2, <1>6
  <2> HIDE DEF c
  <2>3. ((k + g) - 1) \div (chunk + Len(hdr)) = g /\ ((k + g) - 1) % (chunk + Len(hdr)) = r
    BY <1>2, <1>7, Zenon
  <2> QED BY <1>4, <2>1, <2>2, <2>3
<1>9. g * chunk + r + 1 = k
  BY <1>4
<1>10. g \in 0 .. more /\ k + g \in 1 .. Len(c) /\ c[k + g] = data[k]
  BY <1>3, <1>4, <1>5, <1>6, <1>8, <1>9
<1> QED BY <1>10 DEF g, more, ChunksBefore

\* What the sender chunks with one byte separators, packet.c:398-406, the receiver
\* puts together again, packet.c:206-216, and it consumes exactly those bytes.
THEOREM ChunkRoundTrip ==
  ASSUME NEW S, NEW data \in Seq(S), NEW chunk \in Nat \ {0},
         NEW hdr \in Seq(S), OneByte(hdr), NEW rest \in Seq(S)
  PROVE  LET c == Chunked(data, chunk, hdr)
         IN /\ BodyLength(Len(data), chunk, 1) = Len(c)
            /\ Unchunked(c \o rest, Len(data), chunk, 1) = data
<1> DEFINE c    == Chunked(data, chunk, hdr)
           more == Separators(data, chunk)
           b    == c \o rest
<1>1. more \in Nat /\ FullChunks(Len(data), chunk, 1) = more
  BY SeparatorCount, ChunkCount
<1>2. c \in Seq(S) /\ Len(c) = Len(data) + more * 1
  <2>1. c \in Seq(S) /\ Len(c) = Len(data) + more * Len(hdr)
    BY ChunkedType, Zenon
  <2> QED BY <2>1, Zenon DEF OneByte
<1>3. BodyLength(Len(data), chunk, 1) = Len(c)
  BY <1>1, <1>2, Zenon DEF BodyLength
<1>4. ASSUME NEW k \in 1 .. Len(data)
      PROVE  b[k + (IF (k - 1) \div chunk < more THEN (k - 1) \div chunk ELSE more) * 1]
               = data[k]
  <2> DEFINE g == ChunksBefore(k, chunk)
  <2>1. g \in 0 .. more /\ k + g \in 1 .. Len(c) /\ c[k + g] = data[k]
    BY ChunkedAt
  <2>2. g \in 0 .. more /\ more \in Nat /\ k \in Nat
    BY <1>1, <2>1
  <2> HIDE DEF g, c, more
  <2>3. k + (IF g < more THEN g ELSE more) * 1 = k + g
    BY <2>2
  <2>4. c \in Seq(S) /\ k + g \in 1 .. Len(c)
    BY <1>2, <2>1, Zenon
  <2>5. (c \o rest)[k + g] = c[k + g]
    BY <2>4, ConcatLeft, Zenon
  <2> QED BY <2>1, <2>3, <2>5, Zenon DEF g, more, ChunksBefore
<1>5. Unchunked(b, Len(data), chunk, 1)
        = [k \in 1 .. Len(data) |->
             b[k + (IF (k - 1) \div chunk < more THEN (k - 1) \div chunk ELSE more) * 1]]
  BY <1>1, Zenon DEF Unchunked
<1>6. Unchunked(b, Len(data), chunk, 1) = [k \in 1 .. Len(data) |-> data[k]]
  BY <1>4, <1>5, Zenon
<1>7. data = [k \in 1 .. Len(data) |-> data[k]]
  OBVIOUS
<1> QED BY <1>3, <1>6, <1>7, Zenon DEF b, c

-----------------------------------------------------------------------------
(* Compression.                                                            *)

\* Bytes that start with three fields, or with one.
ThreeFields(t, s, y, rest) == (t \o s \o y) \o rest
OneField(t, rest) == t \o rest

\* The fields of a header, seen through the bytes that follow them.
LEMMA FieldAt ==
  ASSUME NEW t \in Seq(Byte), NEW s \in Seq(Byte), NEW y \in Seq(Byte),
         NEW rest \in Seq(Byte)
  PROVE  LET b == ThreeFields(t, s, y, rest)
         IN /\ \A k \in 1 .. Len(t) : b[k] = t[k] /\ OneField(t, rest)[k] = t[k]
            /\ \A k \in 1 .. Len(s) : b[Len(t) + k] = s[k]
            /\ \A k \in 1 .. Len(y) : b[Len(t) + Len(s) + k] = y[k]
<1> DEFINE u == t \o s
           v == u \o y
<1>1. u \in Seq(Byte) /\ Len(u) = Len(t) + Len(s)
  BY ConcatType
<1>2. v \in Seq(Byte) /\ Len(v) = Len(u) + Len(y)
  BY <1>1, ConcatType
<1>3. \A k \in 1 .. Len(t) : (t \o rest)[k] = t[k] /\ u[k] = t[k]
  BY ConcatLeft
<1>4. \A k \in 1 .. Len(s) : u[Len(t) + k] = s[k]
  BY ConcatRight
<1> HIDE DEF u
<1>5. /\ \A k \in 1 .. Len(u) : v[k] = u[k]
      /\ \A k \in 1 .. Len(y) : v[Len(u) + k] = y[k]
  <2>1. u \in Seq(Byte)
    BY <1>1
  <2>2. \A k \in 1 .. Len(u) : v[k] = u[k]
    BY <2>1, ConcatLeft
  <2>3. \A k \in 1 .. Len(y) : v[Len(u) + k] = y[k]
    BY <2>1, ConcatRight
  <2> QED BY <2>2, <2>3
<1> HIDE DEF v
<1>6. \A k \in 1 .. Len(v) : (v \o rest)[k] = v[k]
  BY <1>2, ConcatLeft
<1>7. /\ Len(t) \in Nat /\ Len(s) \in Nat /\ Len(y) \in Nat
      /\ Len(u) = Len(t) + Len(s) /\ Len(v) = Len(t) + Len(s) + Len(y)
  BY <1>1, <1>2
<1>8. ASSUME NEW k \in 1 .. Len(t) PROVE (v \o rest)[k] = t[k]
  <2>1. k \in 1 .. Len(u) /\ k \in 1 .. Len(v)
    BY <1>7
  <2> QED BY <2>1, <1>3, <1>5, <1>6
<1>9. ASSUME NEW k \in 1 .. Len(s) PROVE (v \o rest)[Len(t) + k] = s[k]
  <2>1. Len(t) + k \in 1 .. Len(u) /\ Len(t) + k \in 1 .. Len(v)
    BY <1>7
  <2> QED BY <2>1, <1>4, <1>5, <1>6
<1>10. ASSUME NEW k \in 1 .. Len(y) PROVE (v \o rest)[Len(t) + Len(s) + k] = y[k]
  <2>1. Len(u) + k \in 1 .. Len(v) /\ Len(t) + Len(s) + k = Len(u) + k
    BY <1>7
  <2> QED BY <2>1, <1>5, <1>6
<1> QED BY <1>3, <1>8, <1>9, <1>10 DEF v, u, ThreeFields, OneField

\* What each mask makes of the fields and the channel.
LEMMA MaskCases ==
  ASSUME NEW ch, NEW p, NEW b, NEW d
  PROVE  /\ HeaderFields(p, 1, d) = MediumInt(d) \o MediumInt(Len(p.data)) \o << p.data_type >>
         /\ HeaderFields(p, 2, d) = MediumInt(d)
         /\ ReadChannel(ch, 1, b)
              = [used |-> ch.used, timer |-> ReadMediumInt(b, 1),
                 size |-> ReadMediumInt(b, 4), data_type |-> b[7],
                 stream_id |-> ch.stream_id]
         /\ ReadChannel(ch, 2, b) = [ch EXCEPT !.timer = ReadMediumInt(b, 1)]
         /\ ReadChannel(ch, 3, b) = ch
         /\ WrittenChannel(ch, p, 1)
              = [used |-> ch.used, timer |-> p.timer, size |-> Len(p.data),
                 data_type |-> p.data_type, stream_id |-> ch.stream_id]
         /\ WrittenChannel(ch, p, 2) = [ch EXCEPT !.timer = p.timer]
         /\ WrittenChannel(ch, p, 3) = ch
  BY DEF HeaderFields, ReadChannel, WrittenChannel, CHANNEL_NEW, CHANNEL_SAME_SOURCE,
         CHANNEL_TIMER_CHANGE

\* The receiver reads back the numbers of a header.
LEMMA FieldsRead ==
  ASSUME NEW time \in Nat, time <= ExtendedTimer, NEW n \in Nat, n <= ExtendedTimer,
         NEW y \in Seq(Byte), OneByte(y), NEW rest \in Seq(Byte)
  PROVE  LET full  == ThreeFields(MediumInt(time), MediumInt(n), y, rest)
             short == OneField(MediumInt(time), rest)
         IN /\ ReadMediumInt(full, 1) = time
            /\ ReadMediumInt(full, 4) = n
            /\ full[7] = y[1]
            /\ ReadMediumInt(short, 1) = time
<1> DEFINE t     == MediumInt(time)
           s     == MediumInt(n)
           full  == ThreeFields(t, s, y, rest)
           short == OneField(t, rest)
<1>1. Len(t) = 3 /\ Len(s) = 3 /\ Len(y) = 1
  BY IntBytes DEF OneByte
<1>2. t \in Seq(Byte) /\ s \in Seq(Byte)
  BY IntBytes
<1> HIDE DEF t, s
<1>3. /\ \A k \in 1 .. Len(t) : full[k] = t[k] /\ short[k] = t[k]
      /\ \A k \in 1 .. Len(s) : full[Len(t) + k] = s[k]
      /\ \A k \in 1 .. Len(y) : full[Len(t) + Len(s) + k] = y[k]
  BY <1>2, FieldAt
<1> HIDE DEF full, short
<1>4. /\ \A k \in 1 .. 3 : full[k] = t[k] /\ short[k] = t[k]
      /\ \A k \in 1 .. 3 : full[3 + k] = s[k]
      /\ \A k \in 1 .. 1 : full[3 + 3 + k] = y[k]
  BY <1>1, <1>3, Zenon
<1>5. full[7] = y[1]
  BY <1>4
<1>6. /\ full[1] = t[1] /\ full[1 + 1] = t[2] /\ full[1 + 2] = t[3]
      /\ short[1] = t[1] /\ short[1 + 1] = t[2] /\ short[1 + 2] = t[3]
      /\ full[4] = s[1] /\ full[4 + 1] = s[2] /\ full[4 + 2] = s[3]
  BY <1>4
<1>7. ReadMediumInt(full, 1) = time /\ ReadMediumInt(short, 1) = time
  BY <1>6, MediumIntRoundTrip DEF t
<1>8. ReadMediumInt(full, 4) = n
  BY <1>6, MediumIntRoundTrip DEF s
<1> QED BY <1>5, <1>7, <1>8 DEF full, short, t, s

\* Against a channel both sides agree on, with stream 0, the receiver reads back the
\* header of the packet, whichever fields the mask left out (packet.c:107-154 of
\* what packet.c:321-392 wrote); and the sender remembers the same.
THEOREM HeaderRoundTrip ==
  ASSUME NEW p, p.data_type \in Byte, p.stream_id = 0,
         p.timer \in Nat, p.timer <= ExtendedTimer,
         Len(p.data) \in Nat, Len(p.data) <= ExtendedTimer,
         NEW ch \in [used : {1}, timer : Int, size : Nat, data_type : Byte,
                     stream_id : {0}],
         NEW rest \in Seq(Byte)
  PROVE  LET mask   == PacketMask(ch, p)
             fields == HeaderFields(p, mask, p.timer)
             header == [used |-> 1, timer |-> p.timer, size |-> Len(p.data),
                        data_type |-> p.data_type, stream_id |-> 0]
         IN /\ ReadChannel(ch, mask, fields \o rest) = header
            /\ WrittenChannel(OutChannel(ch), p, mask) = header
<1> DEFINE mask   == PacketMask(ch, p)
           header == [used |-> 1, timer |-> p.timer, size |-> Len(p.data),
                      data_type |-> p.data_type, stream_id |-> 0]
           b(m)   == HeaderFields(p, m, p.timer) \o rest
<1>1. OutChannel(ch) = ch /\ ch.used = 1 /\ ch.stream_id = 0
  BY DEF OutChannel
<1>2. mask \in {1, 2, 3}
  BY <1>1 DEF PacketMask
<1>3. /\ mask \in {2, 3} => ch.data_type = p.data_type /\ ch.size = Len(p.data)
      /\ mask = 3 => ch.timer = p.timer
  BY <1>1 DEF PacketMask
<1>4. /\ ReadMediumInt(b(1), 1) = p.timer
      /\ ReadMediumInt(b(1), 4) = Len(p.data)
      /\ b(1)[7] = p.data_type
      /\ ReadMediumInt(b(2), 1) = p.timer
  <2> DEFINE y     == << p.data_type >>
             full  == ThreeFields(MediumInt(p.timer), MediumInt(Len(p.data)), y, rest)
             short == OneField(MediumInt(p.timer), rest)
  <2>1. b(1) = full /\ b(2) = short
    BY MaskCases, Zenon DEF ThreeFields, OneField
  <2>2. y \in Seq(Byte) /\ OneByte(y) /\ y[1] = p.data_type
    BY DEF OneByte
  <2> HIDE DEF b, y
  <2>3. /\ ReadMediumInt(full, 1) = p.timer
        /\ ReadMediumInt(full, 4) = Len(p.data)
        /\ full[7] = y[1]
        /\ ReadMediumInt(short, 1) = p.timer
    BY <2>2, FieldsRead
  <2> HIDE DEF full, short
  <2> QED BY <2>1, <2>2, <2>3, Zenon
<1> HIDE DEF mask, b
<1>5. CASE mask = 1
  <2>1. ReadChannel(ch, 1, b(1)) = header
    <3>1. ReadChannel(ch, 1, b(1))
            = [used |-> ch.used, timer |-> ReadMediumInt(b(1), 1),
               size |-> ReadMediumInt(b(1), 4), data_type |-> b(1)[7],
               stream_id |-> ch.stream_id]
      BY MaskCases
    <3> QED BY <1>1, <1>4, <3>1
  <2>2. WrittenChannel(ch, p, 1) = header
    <3>1. WrittenChannel(ch, p, 1)
            = [used |-> ch.used, timer |-> p.timer, size |-> Len(p.data),
               data_type |-> p.data_type, stream_id |-> ch.stream_id]
      BY MaskCases
    <3> QED BY <1>1, <3>1
  <2> QED BY <1>1, <1>5, <2>1, <2>2 DEF mask, b
<1>6. CASE mask = 2
  <2>1. [ch EXCEPT !.timer = p.timer] = header
    BY <1>1, <1>3, <1>6
  <2>2. /\ ReadChannel(ch, 2, b(2)) = [ch EXCEPT !.timer = ReadMediumInt(b(2), 1)]
        /\ WrittenChannel(ch, p, 2) = [ch EXCEPT !.timer = p.timer]
    BY DEF ReadChannel, WrittenChannel, CHANNEL_NEW, CHANNEL_SAME_SOURCE,
           CHANNEL_TIMER_CHANGE
  <2>3. ReadChannel(ch, 2, b(2)) = header /\ WrittenChannel(ch, p, 2) = header
    <3> HIDE DEF header
    <3> QED BY <1>4, <2>1, <2>2, Zenon
  <2> QED BY <1>1, <1>6, <2>3 DEF mask, b
<1>7. CASE mask = 3
  <2>1. ch = header
    BY <1>1, <1>3, <1>7
  <2>2. ReadChannel(ch, 3, b(3)) = ch /\ WrittenChannel(ch, p, 3) = ch
    BY MaskCases
  <2> QED BY <1>1, <1>7, <2>1, <2>2 DEF mask, b
<1> QED BY <1>2, <1>5, <1>6, <1>7

=============================================================================
