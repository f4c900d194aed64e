-------------------------- MODULE HandshakeProofs --------------------------
(***************************************************************************)
(* The handshake under every fragmentation, for blocks and buffers of any  *)
(* size and any number of bytes: the peer's block is sent back as it came, *)
(* and the packet parser gets what follows the second block, if no caller  *)
(* has more than a buffer full at a time.                                  *)
(***************************************************************************)
EXTENDS Handshake, SequenceTheorems, TLAPS

-----------------------------------------------------------------------------
(* Runs of positions.                                                      *)

\* The n positions that follow the first k.
After(k, n) == [i \in 1 .. n |-> k + i]

\* A run is a sequence of numbers.
LEMMA AfterType == ASSUME NEW k \in Nat, NEW n \in Nat
                   PROVE  /\ After(k, n) \in Seq(Nat) /\ Len(After(k, n)) = n
                          /\ \A i \in 1 .. n : After(k, n)[i] = k + i
BY DEF After

\* A prefix of a run is a run.
LEMMA AfterFirst == ASSUME NEW k \in Nat, NEW n \in Nat, NEW m \in 0 .. n
                    PROVE  First(After(k, n), m) = After(k, m)
BY DEF After, First

\* What is left of a run is a run.
LEMMA AfterRest == ASSUME NEW k \in Nat, NEW n \in Nat, NEW m \in 0 .. n
                   PROVE  Rest(After(k, n), m) = After(k + m, n - m)
<1> DEFINE s == After(k, n)
           r == SubSeq(s, m + 1, n)
           t == After(k + m, n - m)
<1>1. /\ s \in Seq(Nat) /\ Len(s) = n /\ \A i \in 1 .. n : s[i] = k + i
      /\ m \in Nat /\ n - m \in Nat /\ k + m \in Nat
  BY AfterType
<1>2. /\ t \in Seq(Nat) /\ Len(t) = n - m
      /\ \A i \in 1 .. n - m : t[i] = k + m + i
  BY <1>1, AfterType
<1>3. \A i \in m + 1 .. n : s[i] \in Nat
  BY <1>1
<1> HIDE DEF s, t
<1>4. /\ r \in Seq(Nat) /\ Len(r) = n - m
      /\ \A i \in 1 .. n - m : r[i] = s[m + 1 + i - 1]
  <2>1. /\ r \in Seq(Nat) /\ Len(r) = IF m + 1 <= n THEN n - (m + 1) + 1 ELSE 0
        /\ \A i \in 1 .. n - (m + 1) + 1 : r[i] = s[m + 1 + i - 1]
    BY <1>3, SubSeqProperties
  <2> QED BY <1>1, <2>1
<1> HIDE DEF r
<1>5. \A i \in 1 .. n - m : r[i] = t[i]
  <2> SUFFICES ASSUME NEW i \in 1 .. n - m PROVE r[i] = t[i]
    OBVIOUS
  <2>1. r[i] = s[m + i] /\ m + i \in 1 .. n
    BY <1>4
  <2> QED BY <1>1, <1>2, <2>1
<1>6. r = t
  BY <1>2, <1>4, <1>5, SeqEqual
<1> QED BY <1>1, <1>6 DEF Rest, r, s, t

\* Two runs that meet make one.
LEMMA AfterMeet == ASSUME NEW k \in Nat, NEW n \in Nat, NEW m \in Nat
                   PROVE  After(k, n) \o After(k + n, m) = After(k, n + m)
<1> DEFINE a == After(k, n)
           b == After(k + n, m)
           s == a \o b
           t == After(k, n + m)
<1>1. k + n \in Nat /\ n + m \in Nat
  OBVIOUS
<1>2. a \in Seq(Nat) /\ Len(a) = n /\ \A i \in 1 .. n : a[i] = k + i
  BY AfterType
<1>3. b \in Seq(Nat) /\ Len(b) = m /\ \A i \in 1 .. m : b[i] = k + n + i
  BY <1>1, AfterType
<1>4. t \in Seq(Nat) /\ Len(t) = n + m /\ \A i \in 1 .. n + m : t[i] = k + i
  BY <1>1, AfterType
<1> HIDE DEF a, b, t
<1>5. /\ s \in Seq(Nat) /\ Len(s) = n + m
      /\ \A i \in 1 .. n + m : s[i] = IF i <= n THEN a[i] ELSE b[i - n]
  BY <1>2, <1>3, ConcatProperties
<1> HIDE DEF s
<1>6. \A i \in 1 .. n + m : s[i] = t[i]
  <2> SUFFICES ASSUME NEW i \in 1 .. n + m PROVE s[i] = t[i]
    OBVIOUS
  <2>1. CASE i <= n
    BY <1>2, <1>4, <1>5, <2>1
  <2>2. CASE i > n
    <3>1. i - n \in 1 .. m /\ s[i] = b[i - n]
      BY <1>5, <2>2
    <3> QED BY <1>3, <1>4, <3>1
  <2> QED BY <2>1, <2>2
<1>7. s = t
  BY <1>4, <1>5, <1>6, SeqEqual
<1> QED BY <1>7 DEF s, a, b, t

\* The properties of Handshake speak of runs.
LEMMA PositionsAfter == ASSUME NEW k \in Nat, NEW n \in Nat
                        PROVE  Positions(k + 1, k + n) = After(k, n)
<1>1. k + n + 1 - (k + 1) = n
  OBVIOUS
<1>2. \A i \in 1 .. n : k + 1 + i - 1 = k + i
  OBVIOUS
<1> QED BY <1>1, <1>2 DEF Positions, After

-----------------------------------------------------------------------------
(* Types.                                                                  *)

\* What is assumed of the sizes.
LEMMA Sizes == /\ HS \in Nat /\ HS >= 1 /\ BufSize \in Nat /\ BufSize >= 1
               /\ Total \in Nat /\ MaxSegment \in Nat
BY HandshakeAssumption DEF HandshakeAssumption

\* The pieces of a sequence, and how many bytes there are to take.
LEMMA PieceType == ASSUME NEW s \in Seq(Nat), NEW n \in 0 .. Len(s)
                   PROVE  /\ First(s, n) \in Seq(Nat) /\ Len(First(s, n)) = n
                          /\ Rest(s, n) \in Seq(Nat) /\ Len(Rest(s, n)) = Len(s) - n
BY DEF First, Rest

\* As many as asked for, or all.
LEMMA AtMostType == ASSUME NEW s \in Seq(Nat), NEW n \in Nat
                    PROVE  /\ AtMost(n, s) \in 0 .. Len(s) /\ AtMost(n, s) <= n
                           /\ AtMost(n, s) = n \/ AtMost(n, s) = Len(s)
BY DEF AtMost

\* Bytes kept and bytes that arrive.
LEMMA ConcatType == ASSUME NEW s \in Seq(Nat), NEW t \in Seq(Nat)
                    PROVE  s \o t \in Seq(Nat) /\ Len(s \o t) = Len(s) + Len(t)
BY ConcatProperties

\* What the caller gets from the peer.
LEMMA TakeType == ASSUME TypeOK, NEW n \in 1 .. MaxSegment, Take(n)
                  PROVE  /\ n \in Nat /\ Segment(n) = After(taken, n)
                         /\ Segment(n) \in Seq(Nat) /\ Len(Segment(n)) = n
                         /\ taken \in Nat /\ taken' = taken + n
                         /\ taken' \in 0 .. Total /\ version' = version
<1>1. n \in Nat /\ taken \in Nat /\ Total \in Nat
  BY Sizes DEF TypeOK
<1>2. Segment(n) = After(taken, n)
  BY DEF Segment, After
<1> QED BY <1>1, <1>2, AfterType DEF Take

\* A step of the caller keeps the types.
LEMMA CallerTypeOK ==
  ASSUME TypeOK, \/ \E n \in 1 .. MaxSegment : Receive(n) \/ FeedData(n)
                 \/ FeedDataLoop
  PROVE  TypeOK'
<1>1. ASSUME NEW n \in 1 .. MaxSegment, Receive(n) PROVE TypeOK'
  BY <1>1, TakeType DEF Receive, TypeOK
<1>2. ASSUME NEW n \in 1 .. MaxSegment, FeedData(n) PROVE TypeOK'
  BY <1>2, TakeType DEF FeedData, TypeOK
<1>3. CASE FeedDataLoop
  <2> DEFINE cap == AtMost(BufSize, data)
  <2>0. data \in Seq(Nat) /\ Len(data) \in Nat
    BY DEF TypeOK
  <2>1. cap \in 0 .. Len(data)
    BY <2>0, AtMostType, Sizes
  <2>2. /\ rbuf' = First(data, cap) /\ data' = First(data, Len(data) - cap)
        /\ num_up_bytes' = num_up_bytes + cap
        /\ UNCHANGED << version, pkg_st, tmp_buf, ack_back_len, taken, aborted, out,
                        parsed >>
    BY <1>3 DEF FeedDataLoop
  <2> HIDE DEF cap
  <2>3. rbuf' \in Seq(Nat) /\ data' \in Seq(Nat)
    BY <2>0, <2>1, <2>2, PieceType
  <2> QED BY <2>1, <2>2, <2>3 DEF TypeOK
<1> QED BY <1>1, <1>2, <1>3

\* A state of the feed keeps the types.
LEMMA FeedTypeOK == ASSUME TypeOK, Feed PROVE TypeOK'
<1>0. /\ rbuf \in Seq(Nat) /\ Len(rbuf) \in Nat
      /\ tmp_buf \in Seq(Nat) /\ Len(tmp_buf) \in Nat /\ Len(tmp_buf) < HS
      /\ ack_back_len \in Nat /\ 1 <= ack_back_len /\ ack_back_len <= HS
  BY Sizes DEF TypeOK
<1>1. CASE OnConnect
  <2>1. 1 \in 0 .. Len(rbuf)
    BY <1>0, <1>1 DEF OnConnect, Feeding
  <2>2. Rest(rbuf, 1) \in Seq(Nat)
    BY <1>0, <2>1, PieceType
  <2>3. /\ \/ pkg_st' = 1 /\ rbuf' = Rest(rbuf, 1) /\ aborted' = aborted
           \/ aborted' = TRUE /\ pkg_st' = pkg_st /\ rbuf' = rbuf
        /\ UNCHANGED << version, tmp_buf, ack_back_len, num_up_bytes, taken, data, out,
                        parsed >>
    BY <1>1 DEF OnConnect
  <2>4. pkg_st' \in 0 .. 3 /\ rbuf' \in Seq(Nat)
    BY <2>2, <2>3 DEF TypeOK
  <2>5. aborted' \in BOOLEAN
    BY <2>3 DEF TypeOK
  <2> QED BY <2>3, <2>4, <2>5 DEF TypeOK
<1>2. CASE OnHandShake
  <2> DEFINE got == AtMost(HS - Len(tmp_buf), rbuf)
             block == tmp_buf \o First(rbuf, got)
  <2>1. HS - Len(tmp_buf) \in Nat
    BY <1>0, Sizes
  <2>2. got \in 0 .. Len(rbuf)
    BY <1>0, <2>1, AtMostType
  <2>3. Rest(rbuf, got) \in Seq(Nat) /\ block \in Seq(Nat)
    BY <1>0, <2>2, PieceType, ConcatType
  <2>4. /\ rbuf' = Rest(rbuf, got)
        /\ IF Len(block) < HS THEN tmp_buf' = block /\ pkg_st' = pkg_st
                              ELSE tmp_buf' = << >> /\ pkg_st' = 2
        /\ UNCHANGED << version, ack_back_len, num_up_bytes, taken, data, aborted,
                        parsed >>
    <3>1. /\ IF Len(block) < HS
               THEN tmp_buf' = block /\ UNCHANGED << pkg_st, out >>
               ELSE /\ out' = out \o << << "ack" >>, block >>
                    /\ tmp_buf' = << >>
                    /\ pkg_st' = 2
          /\ rbuf' = Rest(rbuf, got)
          /\ UNCHANGED << version, ack_back_len, num_up_bytes, taken, data, aborted,
                          parsed >>
      BY <1>2, Zenon DEF OnHandShake
    <3> HIDE DEF got, block
    <3> QED BY <3>1
  <2> HIDE DEF got, block
  <2>5. tmp_buf' \in Seq(Nat) /\ Len(tmp_buf') < HS
    <3>1. CASE Len(block) < HS
      BY <2>3, <2>4, <3>1
    <3>2. CASE ~(Len(block) < HS)
      <4>1. tmp_buf' = << >>
        BY <2>4, <3>2
      <4> QED BY <4>1, Sizes
    <3> QED BY <3>1, <3>2
  <2>6. pkg_st' \in 0 .. 3
    BY <2>4 DEF TypeOK
  <2> QED BY <2>3, <2>4, <2>5, <2>6 DEF TypeOK
<1>3. CASE OnAckBack
  <2> DEFINE got == AtMost(ack_back_len, rbuf)
  <2>1. got \in 0 .. Len(rbuf) /\ got <= ack_back_len
    BY <1>0, AtMostType
  <2>2. Rest(rbuf, got) \in Seq(Nat)
    BY <1>0, <2>1, PieceType
  <2>3. /\ rbuf' = Rest(rbuf, got)
        /\ IF ack_back_len - got = 0
             THEN ack_back_len' = HS /\ pkg_st' = 3
             ELSE ack_back_len' = ack_back_len - got /\ pkg_st' = pkg_st
        /\ UNCHANGED << version, tmp_buf, num_up_bytes, taken, data, aborted, out,
                        parsed >>
    BY <1>3 DEF OnAckBack
  <2> HIDE DEF got
  <2>4. ack_back_len' \in 1 .. HS /\ pkg_st' \in 0 .. 3
    BY <1>0, <2>1, <2>3, Sizes DEF TypeOK
  <2> QED BY <2>2, <2>3, <2>4 DEF TypeOK
<1>4. CASE OnPackets
  <2>1. PICK n \in 1 .. Len(rbuf) :
          /\ parsed' = parsed \o First(rbuf, n) /\ rbuf' = Rest(rbuf, n)
          /\ UNCHANGED << version, pkg_st, tmp_buf, ack_back_len, num_up_bytes, taken,
                          data, aborted, out >>
    BY <1>4 DEF OnPackets
  <2>2. parsed' \in Seq(Nat) /\ rbuf' \in Seq(Nat)
    BY <1>0, <2>1, PieceType, ConcatType DEF TypeOK
  <2> QED BY <2>1, <2>2 DEF TypeOK
<1> QED BY <1>1, <1>2, <1>3, <1>4 DEF Feed

\* The types hold at the start, and every step keeps them.
LEMMA HandshakeInitTypeOK == Init => TypeOK
<1> SUFFICES ASSUME Init PROVE TypeOK
  OBVIOUS
<1>1. << >> \in Seq(Nat) /\ Len(<< >>) = 0
  OBVIOUS
<1>2. 0 \in 0 .. Total /\ HS \in 1 .. HS /\ 0 < HS /\ 0 \in 0 .. 3
  BY Sizes
<1> QED BY <1>1, <1>2 DEF Init, TypeOK

\* No step leaves the types.
LEMMA HandshakeNextTypeOK == TypeOK /\ [Next]_vars => TypeOK'
<1>1. TypeOK /\ UNCHANGED vars => TypeOK'
  BY DEF TypeOK, vars
<1> QED BY <1>1, CallerTypeOK, FeedTypeOK DEF Next

\* The variables have their types whatever the peer writes and however it is cut, for
\* calls of feed_data of any length too.
THEOREM HandshakeTypeOK == Spec => []TypeOK
BY HandshakeInitTypeOK, HandshakeNextTypeOK, PTL DEF Spec

-----------------------------------------------------------------------------
(* What has been fed.                                                      *)

\* How many of the bytes the peer has written are behind the handshake and the parser.
Fed == IF pkg_st = 0 THEN 0
       ELSE IF pkg_st = 1 THEN 1 + Len(tmp_buf)
       ELSE IF pkg_st = 2 THEN 1 + HS + (HS - ack_back_len)
       ELSE 1 + 2 * HS + Len(parsed)

\* The bytes at hand are those that follow: in the buffer, or still with feed_data, which
\* fits a call into one buffer.
AtHand == /\ taken = Fed + Len(rbuf) + Len(data)
          /\ rbuf = After(Fed, Len(rbuf)) /\ data = After(Fed, Len(data))
          /\ rbuf = << >> \/ data = << >>
          /\ Len(data) <= BufSize

\* Each stage has its own bytes, and only the stages that are behind have any.
Stages ==
  /\ tmp_buf = After(1, Len(tmp_buf)) /\ (pkg_st # 1 => tmp_buf = << >>)
  /\ pkg_st < 2 => ack_back_len = HS
  /\ parsed = After(2 * HS + 1, Len(parsed)) /\ (pkg_st < 3 => parsed = << >>)
  /\ out = IF pkg_st < 2 THEN << >> ELSE << << "ack" >>, After(1, HS) >>

IInv == TypeOK /\ AtHand /\ Stages

\* The numbers in the invariant are numbers.
LEMMA FedType == ASSUME TypeOK
                 PROVE  /\ Fed \in Nat /\ Len(tmp_buf) \in Nat /\ Len(parsed) \in Nat
                        /\ rbuf \in Seq(Nat) /\ data \in Seq(Nat)
                        /\ Len(rbuf) \in Nat /\ Len(data) \in Nat
                        /\ ack_back_len \in Nat /\ 1 <= ack_back_len
                        /\ ack_back_len <= HS /\ taken \in Nat
                        /\ Len(tmp_buf) < HS /\ tmp_buf \in Seq(Nat)
                        /\ parsed \in Seq(Nat)
BY Sizes DEF TypeOK, Fed

\* Nothing comes after a byte if nothing is asked for.
LEMMA AfterNone == ASSUME NEW k \in Nat PROVE After(k, 0) = << >>
BY AfterType

\* A stage that takes n bytes from the buffer leaves the ones that follow.
LEMMA Consumed == ASSUME TypeOK, AtHand, rbuf # << >>,
                         NEW n \in 0 .. Len(rbuf), rbuf' = Rest(rbuf, n),
                         Fed' = Fed + n, UNCHANGED << data, taken >>
                  PROVE  AtHand'
<1>1. data = << >> /\ Len(data) = 0 /\ n \in Nat
  BY DEF AtHand
<1>2. rbuf' = After(Fed + n, Len(rbuf) - n) /\ Len(rbuf') = Len(rbuf) - n
  <2>1. rbuf = After(Fed, Len(rbuf)) /\ Fed \in Nat /\ Len(rbuf) \in Nat
    BY FedType DEF AtHand
  <2>2. Rest(After(Fed, Len(rbuf)), n) = After(Fed + n, Len(rbuf) - n)
    BY <2>1, AfterRest
  <2>3. Len(Rest(rbuf, n)) = Len(rbuf) - n
    BY FedType, PieceType
  <2> QED BY <2>1, <2>2, <2>3
<1>3. After(Fed', 0) = << >>
  <2>1. Fed + n \in Nat
    BY <1>1, FedType
  <2>2. After(Fed + n, 0) = << >>
    BY <2>1, AfterNone
  <2> QED BY <2>2
<1>4. After(Fed', Len(data')) = << >>
  <2>1. Len(data') = 0
    BY <1>1
  <2> QED BY <1>3, <2>1
<1>5. rbuf' = After(Fed', Len(rbuf'))
  BY <1>2
<1>6. taken' = Fed' + Len(rbuf') + Len(data')
  <2>1. taken = Fed + Len(rbuf) /\ Fed \in Nat /\ Len(rbuf) \in Nat
    BY <1>1, FedType DEF AtHand
  <2>2. Len(data') = 0 /\ taken' = taken
    BY <1>1
  <2> QED BY <1>1, <1>2, <2>1, <2>2
<1> QED BY <1>1, <1>4, <1>5, <1>6, Sizes DEF AtHand

\* The caller gets the bytes that follow, whole or in its buffer.
LEMMA CallerInv ==
  ASSUME MaxSegment <= BufSize, IInv,
         \/ \E n \in 1 .. MaxSegment : Receive(n) \/ FeedData(n)
         \/ FeedDataLoop
  PROVE  AtHand' /\ Stages'
<1>1. /\ UNCHANGED << pkg_st, tmp_buf, ack_back_len, parsed, out >>
  BY DEF Receive, FeedData, FeedDataLoop
<1>2. Fed' = Fed /\ Stages'
  BY <1>1 DEF IInv, Fed, Stages
<1>3. After(Fed, 0) = << >> /\ Len(<< >>) = 0 /\ Fed \in Nat
  BY FedType, AfterNone DEF IInv
<1>4. ASSUME NEW n \in 1 .. MaxSegment, Take(n)
      PROVE  /\ Segment(n) = After(Fed, n) /\ Len(Segment(n)) = n /\ n <= BufSize
             /\ taken' = Fed + n /\ rbuf = << >> /\ data = << >> /\ n \in Nat
  <2>1. rbuf = << >> /\ data = << >>
    BY <1>4 DEF Take
  <2>2. taken = Fed
    BY <2>1, <1>3, FedType DEF IInv, AtHand
  <2> QED BY <1>4, <2>1, <2>2, TakeType, Sizes DEF IInv
<1>5. ASSUME NEW n \in 1 .. MaxSegment, Receive(n) PROVE AtHand'
  <2>1. Take(n) /\ rbuf' = Segment(n) /\ data' = data
    BY <1>5 DEF Receive
  <2> QED BY <1>2, <1>3, <1>4, <2>1, Sizes DEF AtHand
<1>6. ASSUME NEW n \in 1 .. MaxSegment, FeedData(n) PROVE AtHand'
  <2>1. Take(n) /\ data' = Segment(n) /\ rbuf' = rbuf
    BY <1>6 DEF FeedData
  <2> QED BY <1>2, <1>3, <1>4, <2>1, Sizes DEF AtHand
<1>7. CASE FeedDataLoop
  <2>1. /\ rbuf = << >> /\ taken' = taken
        /\ rbuf' = First(data, AtMost(BufSize, data))
        /\ data' = First(data, Len(data) - AtMost(BufSize, data))
    BY <1>7 DEF FeedDataLoop
  <2>2. AtMost(BufSize, data) = Len(data) /\ Len(data) \in Nat /\ Len(rbuf) = 0
    BY <2>1, FedType, Sizes DEF IInv, AtHand, AtMost
  <2>3. rbuf' = First(data, Len(data)) /\ data' = First(data, 0)
    BY <2>1, <2>2
  <2>4. rbuf' = data /\ data' = << >>
    BY <1>3, <2>2, <2>3, AfterFirst DEF IInv, AtHand
  <2> QED BY <1>2, <1>3, <2>1, <2>2, <2>4, Sizes DEF IInv, AtHand
<1> QED BY <1>2, <1>5, <1>6, <1>7

\* The version is one byte, or the process has stopped.
LEMMA OnConnectInv == ASSUME IInv, OnConnect PROVE AtHand' /\ Stages'
<1> DEFINE Accepted == version = 3 /\ pkg_st' = 1 /\ rbuf' = Rest(rbuf, 1)
<1>1. /\ rbuf # << >> /\ pkg_st = 0
      /\ UNCHANGED << tmp_buf, ack_back_len, parsed, out, data, taken >>
      /\ Accepted \/ UNCHANGED << pkg_st, rbuf >>
  BY DEF OnConnect, Feeding
<1>2. CASE Accepted
  <2>1. tmp_buf = << >> /\ Len(tmp_buf) = 0 /\ 1 \in 0 .. Len(rbuf)
    BY <1>1, FedType DEF IInv, Stages
  <2>2. Fed' = Fed + 1
    BY <1>1, <1>2, <2>1 DEF Fed
  <2>3. AtHand'
    BY <1>1, <1>2, <2>1, <2>2, Consumed DEF IInv
  <2>4. Stages'
    BY <1>1, <1>2 DEF IInv, Stages
  <2> QED BY <2>3, <2>4
<1>3. CASE UNCHANGED << pkg_st, rbuf >>
  <2>1. Fed' = Fed
    BY <1>1, <1>3 DEF Fed
  <2>2. AtHand'
    BY <1>1, <1>3, <2>1 DEF IInv, AtHand
  <2>3. Stages'
    BY <1>1, <1>3 DEF IInv, Stages
  <2> QED BY <2>2, <2>3
<1> QED BY <1>1, <1>2, <1>3

\* The first block is complete when the bytes 2 .. HS + 1 have come, and these are sent.
LEMMA OnHandShakeInv == ASSUME IInv, OnHandShake PROVE AtHand' /\ Stages'
<1> DEFINE got == AtMost(HS - Len(tmp_buf), rbuf)
           block == tmp_buf \o First(rbuf, got)
           n == Len(tmp_buf) + got
<1>1. /\ rbuf # << >> /\ pkg_st = 1
      /\ rbuf' = Rest(rbuf, got)
      /\ UNCHANGED << ack_back_len, parsed, data, taken >>
      /\ IF Len(block) < HS
           THEN tmp_buf' = block /\ UNCHANGED << pkg_st, out >>
           ELSE /\ out' = out \o << << "ack" >>, block >>
                /\ tmp_buf' = << >>
                /\ pkg_st' = 2
  <2>1. Feeding(1) => rbuf # << >> /\ pkg_st = 1
    BY DEF Feeding
  <2> QED BY <2>1, Zenon DEF OnHandShake
<1>2. HS - Len(tmp_buf) \in Nat
  BY FedType, Sizes DEF IInv
<1>3. got \in 0 .. Len(rbuf) /\ got <= HS - Len(tmp_buf) /\ got \in Nat
  BY <1>2, FedType, AtMostType DEF IInv
<1> HIDE DEF got
<1>4. block = After(1, n) /\ n \in Nat /\ n <= HS
  <2>1. Fed = 1 + Len(tmp_buf) /\ Len(tmp_buf) \in Nat /\ Fed \in Nat /\ Len(rbuf) \in Nat
    BY <1>1, FedType DEF IInv, Fed
  <2>2. First(rbuf, got) = After(1 + Len(tmp_buf), got)
    <3>1. rbuf = After(Fed, Len(rbuf))
      BY DEF IInv, AtHand
    <3>2. First(After(Fed, Len(rbuf)), got) = After(Fed, got)
      BY <2>1, <1>3, AfterFirst
    <3> QED BY <2>1, <3>1, <3>2
  <2>3. After(1, Len(tmp_buf)) \o After(1 + Len(tmp_buf), got) = After(1, n)
    BY <2>1, <1>3, AfterMeet
  <2>4. tmp_buf = After(1, Len(tmp_buf))
    BY DEF IInv, Stages
  <2>5. n \in Nat /\ n <= HS
    BY <2>1, <1>3, Sizes
  <2> QED BY <2>2, <2>3, <2>4, <2>5
<1>5. Len(block) = n
  BY <1>4, AfterType
<1> HIDE DEF block
<1>6. Len(<< >>) = 0 /\ Fed = 1 + Len(tmp_buf) /\ Len(tmp_buf) \in Nat
  BY <1>1, FedType DEF IInv, Fed
<1>7. CASE Len(block) < HS
  <2>1. tmp_buf' = After(1, n) /\ Len(tmp_buf') = n /\ pkg_st' = 1 /\ out' = out
    BY <1>1, <1>4, <1>5, <1>7
  <2>2. Fed' = Fed + got
    BY <1>3, <1>6, <2>1 DEF Fed
  <2>3. AtHand'
    BY <1>1, <1>3, <2>2, Consumed DEF IInv
  <2>4. Stages'
    BY <1>1, <2>1 DEF IInv, Stages
  <2> QED BY <2>3, <2>4
<1>8. CASE ~(Len(block) < HS)
  <2>1. n = HS /\ tmp_buf' = << >> /\ pkg_st' = 2
    BY <1>1, <1>4, <1>5, <1>8, Sizes
  <2>2. out' = << << "ack" >>, After(1, HS) >>
    <3>1. out = << >>
      BY <1>1 DEF IInv, Stages
    <3>2. out' = << >> \o << << "ack" >>, After(1, HS) >>
      BY <1>1, <1>4, <1>8, <2>1, <3>1
    <3>3. << << "ack" >>, After(1, HS) >> \in Seq({<< "ack" >>, After(1, HS)})
      OBVIOUS
    <3> QED BY <3>2, <3>3, ConcatEmptySeq
  <2>3. Fed' = Fed + got
    <3>1. ack_back_len' = HS
      BY <1>1 DEF IInv, Stages
    <3> QED BY <1>3, <1>6, <2>1, <3>1, Sizes DEF Fed
  <2>4. AtHand'
    BY <1>1, <1>3, <2>3, Consumed DEF IInv
  <2>5. After(1, 0) = << >>
    BY AfterNone
  <2>6. Stages'
    BY <1>1, <1>6, <2>1, <2>2, <2>5 DEF IInv, Stages
  <2> QED BY <2>4, <2>6
<1> QED BY <1>7, <1>8

\* HS bytes are skipped.
LEMMA OnAckBackInv == ASSUME IInv, OnAckBack PROVE AtHand' /\ Stages'
<1> DEFINE got == AtMost(ack_back_len, rbuf)
<1>1. /\ rbuf # << >> /\ pkg_st = 2
      /\ rbuf' = Rest(rbuf, got)
      /\ IF ack_back_len - got = 0
           THEN ack_back_len' = HS /\ pkg_st' = 3
           ELSE ack_back_len' = ack_back_len - got /\ pkg_st' = pkg_st
      /\ UNCHANGED << tmp_buf, parsed, out, data, taken >>
  BY DEF OnAckBack, Feeding
<1>2. got \in 0 .. Len(rbuf) /\ got <= ack_back_len /\ got \in Nat
  BY FedType, AtMostType DEF IInv
<1> HIDE DEF got
<1>3. Len(parsed) = 0 /\ Fed = 1 + HS + (HS - ack_back_len)
  BY <1>1 DEF IInv, Stages, Fed
<1>4. Fed' = Fed + got
  <2>1. CASE ack_back_len - got = 0
    BY <1>1, <1>2, <1>3, <2>1, FedType, Sizes DEF Fed, IInv
  <2>2. CASE ack_back_len - got # 0
    BY <1>1, <1>2, <1>3, <2>2, FedType, Sizes DEF Fed, IInv
  <2> QED BY <2>1, <2>2
<1>5. AtHand'
  BY <1>1, <1>2, <1>4, Consumed DEF IInv
<1>6. Stages'
  BY <1>1 DEF IInv, Stages
<1> QED BY <1>5, <1>6

\* Whatever is left belongs to the parser.
LEMMA OnPacketsInv == ASSUME IInv, OnPackets PROVE AtHand' /\ Stages'
<1>1. PICK n \in 1 .. Len(rbuf) :
        /\ rbuf # << >> /\ pkg_st = 3
        /\ parsed' = parsed \o First(rbuf, n) /\ rbuf' = Rest(rbuf, n)
        /\ UNCHANGED << pkg_st, tmp_buf, ack_back_len, taken, data, out >>
  BY DEF OnPackets, Feeding
<1>2. /\ Fed = 2 * HS + 1 + Len(parsed) /\ Fed \in Nat /\ Len(rbuf) \in Nat
      /\ Len(parsed) \in Nat /\ n \in Nat /\ n \in 0 .. Len(rbuf)
      /\ 2 * HS + 1 \in Nat /\ Len(parsed) + n \in Nat
  BY <1>1, FedType, Sizes DEF IInv, Fed
<1>3. parsed' = After(2 * HS + 1, Len(parsed) + n)
  <2>1. rbuf = After(Fed, Len(rbuf)) /\ parsed = After(2 * HS + 1, Len(parsed))
    BY DEF IInv, AtHand, Stages
  <2>2. First(After(Fed, Len(rbuf)), n) = After(Fed, n)
    BY <1>2, AfterFirst
  <2>3. After(2 * HS + 1, Len(parsed)) \o After(2 * HS + 1 + Len(parsed), n)
          = After(2 * HS + 1, Len(parsed) + n)
    BY <1>2, AfterMeet
  <2> QED BY <1>1, <1>2, <2>1, <2>2, <2>3
<1>4. Len(parsed') = Len(parsed) + n
  BY <1>2, <1>3, AfterType
<1>5. Fed' = Fed + n
  BY <1>1, <1>2, <1>4, Sizes DEF Fed
<1>6. AtHand'
  BY <1>1, <1>2, <1>5, Consumed DEF IInv
<1>7. Stages'
  BY <1>1, <1>3, <1>4 DEF IInv, Stages
<1> QED BY <1>6, <1>7

-----------------------------------------------------------------------------
(* Theorems.                                                               *)

\* The inductive invariant, where calls of feed_data fit its buffer.
THEOREM HandshakeInvariant == ASSUME MaxSegment <= BufSize
                              PROVE  Spec => []IInv
<1>1. Init => IInv
  <2> SUFFICES ASSUME Init PROVE AtHand /\ Stages
    BY HandshakeInitTypeOK DEF IInv
  <2>1. Len(<< >>) = 0 /\ 2 * HS + 1 \in Nat
    BY Sizes
  <2>2. \A k \in {0, 1, 2 * HS + 1} : After(k, 0) = << >>
    BY <2>1, AfterNone
  <2>3. AtHand
    BY <2>1, <2>2, Sizes DEF Init, AtHand, Fed
  <2>4. Stages
    BY <2>1, <2>2 DEF Init, Stages
  <2> QED BY <2>3, <2>4
<1>2. IInv /\ [Next]_vars => IInv'
  <2> SUFFICES ASSUME IInv, [Next]_vars PROVE AtHand' /\ Stages'
    BY HandshakeNextTypeOK DEF IInv
  <2>1. CASE UNCHANGED vars
    BY <2>1 DEF vars, IInv, AtHand, Stages, Fed
  <2> QED BY <2>1, CallerInv, OnConnectInv, OnHandShakeInv, OnAckBackInv, OnPacketsInv
          DEF Next, Feed
<1> QED BY <1>1, <1>2, PTL DEF Spec

\* The peer gets a greeting and the very block it has sent, once that is complete, for
\* blocks of any size and however they are cut.
THEOREM HandshakeEchoesBlock == ASSUME MaxSegment <= BufSize
                                PROVE  Spec => []EchoesBlock
<1>1. IInv => EchoesBlock
  <2>1. Positions(1 + 1, 1 + HS) = After(1, HS)
    BY PositionsAfter, Sizes
  <2> QED BY <2>1 DEF IInv, Stages, EchoesBlock
<1> QED BY <1>1, HandshakeInvariant, PTL

\* The packet parser gets all bytes that follow the second block, in order and from the
\* first, if feed_data is given no more than its buffer holds: feed_long shows what
\* happens otherwise.
THEOREM HandshakeParserGetsTheRest == ASSUME MaxSegment <= BufSize
                                      PROVE  Spec => []ParserGetsTheRest
<1>1. IInv => ParserGetsTheRest
  <2> SUFFICES ASSUME IInv PROVE ParserGetsTheRest
    OBVIOUS
  <2> DEFINE k == 2 * HS + 1
  <2>1. k \in Nat /\ Len(parsed) \in Nat
    BY FedType, Sizes DEF IInv
  <2>2. parsed = After(k, Len(parsed))
    BY DEF IInv, Stages
  <2> HIDE DEF k
  <2>3. Positions(k + 1, k + Len(parsed)) = After(k, Len(parsed))
    BY <2>1, PositionsAfter
  <2>4. k + 1 = 2 * HS + 2 /\ k + Len(parsed) = 2 * HS + 1 + Len(parsed)
    BY <2>1, Sizes DEF k
  <2> QED BY <2>2, <2>3, <2>4 DEF ParserGetsTheRest
<1> QED BY <1>1, HandshakeInvariant, PTL

=============================================================================
