--------------------------- MODULE InvocationProofs ---------------------------
(***************************************************************************)
(* Theorems about the AMF codec and about one invocation.  A value takes   *)
(* the room that is set aside for it, and is read back as it was packed,   *)
(* wherever it is in the data.  All this is by induction on how deep the   *)
(* values are in each other and on the length of arrays and tables; the    *)
(* first part proves the principle and that recursive functions exist.     *)
(* The last parts are about the variables of Invocation: what the server   *)
(* has read of a call are the arguments the client put there, nothing but  *)
(* what is known makes it abort, and what a client reads in the packets    *)
(* that come back is the right answer.                                     *)
(***************************************************************************)
EXTENDS Invocation, PacketHeaderProofs, SequenceTheorems, WellFoundedInduction

\* Every set of natural numbers that is not empty has a least element.
LEMMA LeastElement ==
  ASSUME NEW T, T \subseteq Nat, T # {}
  PROVE  \E x \in T : \A y \in T : x <= y
<1> DEFINE R == {ss \in Nat \X Nat : ss[1] < ss[2]}
<1>1. IsWellFoundedOn(R, Nat)
  BY NatLessThanWellFounded DEF OpToRel
<1>2. \A x, y \in Nat : <<y, x>> \in R <=> y < x
  OBVIOUS
<1> HIDE DEF R
<1>3. PICK x \in T : \A y \in T : ~ (<<y, x>> \in R)
  BY <1>1, WFMin
<1>4. ASSUME NEW y \in T PROVE x <= y
  <2>1. ~(y < x) /\ y \in Nat /\ x \in Nat
    BY <1>2, <1>3
  <2> QED BY <2>1
<1> QED BY <1>4

\* A set that has 0, and with each number the next one, has them all.
LEMMA InductionOnNat ==
  ASSUME NEW T, 0 \in T, \A n \in Nat : n \in T => n + 1 \in T
  PROVE  \A n \in Nat : n \in T
<1> DEFINE U == Nat \ T
<1> SUFFICES ASSUME U # {} PROVE FALSE
  OBVIOUS
<1>1. U \subseteq Nat
  OBVIOUS
<1> HIDE DEF U
<1>2. PICK x \in U : \A y \in U : x <= y
  BY <1>1, LeastElement
<1>3. x \in Nat /\ x # 0 /\ x \notin T /\ x - 1 \in Nat
  BY <1>2 DEF U
<1>4. x - 1 \in T
  <2>1. ~(x <= x - 1)
    BY <1>3
  <2> QED BY <1>2, <1>3, <2>1 DEF U
<1> QED BY <1>3, <1>4

-----------------------------------------------------------------------------
(* Recursion on the natural numbers.                                       *)

\* A function that starts at b and goes on by g, up to n.
IsRecursion(f, b, g, n) ==
  f = [k \in 0 .. n |-> IF k = 0 THEN b ELSE g[k - 1][f[k - 1]]]

LEMMA RecursionMore ==
  ASSUME NEW b, NEW g, NEW n \in Nat, NEW f, IsRecursion(f, b, g, n)
  PROVE  LET h == [k \in 0 .. n + 1 |-> IF k <= n THEN f[k] ELSE g[n][f[n]]]
         IN IsRecursion(h, b, g, n + 1)
<1> DEFINE h == [k \in 0 .. n + 1 |-> IF k <= n THEN f[k] ELSE g[n][f[n]]]
           v(k) == IF k = 0 THEN b ELSE g[k - 1][h[k - 1]]
<1>1. \A k \in 0 .. n : f[k] = IF k = 0 THEN b ELSE g[k - 1][f[k - 1]]
  BY DEF IsRecursion
<1>2. /\ h = [k \in 0 .. n + 1 |-> h[k]]
      /\ \A k \in 0 .. n : h[k] = f[k]
      /\ h[n + 1] = g[n][f[n]]
  OBVIOUS
<1> HIDE DEF h
<1>3. ASSUME NEW k \in 0 .. n + 1 PROVE h[k] = v(k)
  <2>1. CASE k = 0
    BY <1>1, <1>2, <2>1
  <2>2. CASE k \in 1 .. n
    <3>1. k \in 0 .. n /\ k - 1 \in 0 .. n /\ k # 0
      BY <2>2
    <3>2. h[k] = f[k] /\ h[k - 1] = f[k - 1]
      BY <1>2, <3>1
    <3> QED BY <1>1, <3>1, <3>2
  <2>3. CASE k = n + 1
    <3>1. n \in 0 .. n /\ k # 0 /\ k - 1 = n
      BY <2>3
    <3>2. h[k - 1] = f[n]
      BY <1>2, <3>1
    <3> QED BY <1>2, <2>3, <3>1, <3>2
  <2> QED BY <2>1, <2>2, <2>3
<1>4. h = [k \in 0 .. n + 1 |-> v(k)]
  <2>1. [k \in 0 .. n + 1 |-> v(k)] = [k \in 0 .. n + 1 |-> h[k]]
    BY <1>3
  <2> QED BY <1>2, <2>1
<1> QED BY <1>4 DEF IsRecursion, h

LEMMA RecursionExists ==
  ASSUME NEW b, NEW g
  PROVE  \A n \in Nat : \E f : IsRecursion(f, b, g, n)
<1> DEFINE Z == {n \in Nat : \E f : IsRecursion(f, b, g, n)}
<1>1. 0 \in Z
  <2>1. IsRecursion([k \in 0 .. 0 |-> b], b, g, 0)
    BY DEF IsRecursion
  <2> QED BY <2>1
<1>2. ASSUME NEW n \in Nat, n \in Z PROVE n + 1 \in Z
  <2>1. PICK f : IsRecursion(f, b, g, n)
    BY <1>2
  <2>2. IsRecursion([k \in 0 .. n + 1 |-> IF k <= n THEN f[k] ELSE g[n][f[n]]], b, g, n + 1)
    BY <2>1, RecursionMore
  <2> QED BY <2>2
<1> HIDE DEF Z
<1>3. \A n \in Nat : n \in Z
  BY <1>1, <1>2, InductionOnNat
<1> QED BY <1>3 DEF Z

LEMMA RecursionUnique ==
  ASSUME NEW b, NEW g, NEW n \in Nat, NEW l \in Nat, NEW f, NEW h,
         IsRecursion(f, b, g, n), IsRecursion(h, b, g, l)
  PROVE  \A k \in Nat : k <= n /\ k <= l => f[k] = h[k]
<1> DEFINE Z == {k \in Nat : k <= n /\ k <= l => f[k] = h[k]}
<1>1. 0 \in Z
  BY DEF IsRecursion
<1>2. ASSUME NEW k \in Nat, k \in Z PROVE k + 1 \in Z
  <2> SUFFICES ASSUME k + 1 <= n, k + 1 <= l PROVE f[k + 1] = h[k + 1]
    BY <1>2
  <2>1. f[k] = h[k] /\ k + 1 \in 0 .. n /\ k + 1 \in 0 .. l /\ k + 1 # 0 /\ (k + 1) - 1 = k
    BY <1>2
  <2>2. f[k + 1] = g[k][f[k]] /\ h[k + 1] = g[k][h[k]]
    BY <2>1 DEF IsRecursion
  <2> QED BY <2>1, <2>2
<1> HIDE DEF Z
<1>3. \A k \in Nat : k \in Z
  BY <1>1, <1>2, InductionOnNat
<1> QED BY <1>3 DEF Z

\* A function that starts at b, goes on by g, and stays in the sets W.
Recursive(f, b, g, W) ==
  /\ f = [n \in Nat |-> IF n = 0 THEN b ELSE g[n - 1][f[n - 1]]]
  /\ \A n \in Nat : f[n] \in W[n]

\* There is one if g stays in them.
LEMMA Recursion ==
  ASSUME NEW W, NEW b \in W[0], NEW g, \A n \in Nat : \A x \in W[n] : g[n][x] \in W[n + 1]
  PROVE  \E f : Recursive(f, b, g, W)
<1> DEFINE a(n) == CHOOSE f : IsRecursion(f, b, g, n)
           h    == [n \in Nat |-> a(n)[n]]
           v(n) == IF n = 0 THEN b ELSE g[n - 1][h[n - 1]]
           Z    == {n \in Nat : h[n] \in W[n]}
<1>1. \A n \in Nat : IsRecursion(a(n), b, g, n)
  BY RecursionExists
<1> HIDE DEF a
<1>2. ASSUME NEW n \in Nat PROVE h[n] = v(n)
  <2>1. CASE n = 0
    BY <1>1, <2>1 DEF IsRecursion
  <2>2. CASE n # 0
    <3>1. n - 1 \in Nat /\ n - 1 <= n /\ n - 1 <= n - 1 /\ n \in 0 .. n
      BY <2>2
    <3>2. a(n)[n - 1] = a(n - 1)[n - 1]
      BY <1>1, <3>1, RecursionUnique
    <3>3. a(n)[n] = g[n - 1][a(n)[n - 1]]
      <4>1. IsRecursion(a(n), b, g, n)
        BY <1>1
      <4> QED BY <2>2, <3>1, <4>1 DEF IsRecursion
    <3>4. h[n] = a(n)[n] /\ h[n - 1] = a(n - 1)[n - 1]
      BY <3>1
    <3> HIDE DEF h
    <3> QED BY <2>2, <3>2, <3>3, <3>4
  <2> QED BY <2>1, <2>2
<1>3. h = [n \in Nat |-> v(n)]
  <2>1. [n \in Nat |-> v(n)] = [n \in Nat |-> h[n]]
    BY <1>2
  <2> QED BY <2>1
<1> HIDE DEF h
<1>4. 0 \in Z
  BY <1>2
<1>5. ASSUME NEW n \in Nat, n \in Z PROVE n + 1 \in Z
  <2>1. h[n + 1] = g[n][h[n]]
    <3>1. n + 1 \in Nat /\ n + 1 # 0 /\ (n + 1) - 1 = n
      OBVIOUS
    <3> QED BY <1>2, <3>1
  <2> QED BY <1>5, <2>1
<1> HIDE DEF Z
<1>6. \A n \in Nat : n \in Z
  BY <1>4, <1>5, InductionOnNat
<1> QED BY <1>3, <1>6 DEF Z, Recursive

-----------------------------------------------------------------------------
(* Values in values.                                                       *)

\* What is nested one deeper than the values in s.
Around(s, leaves, lists, tables) ==
  leaves \cup [type : lists, value : Seq(s)] \cup
  [type : tables, value : Seq([key : Seq(Byte), value : s])]

IsNesting(f, leaves, lists, tables, n) ==
  f = [d \in 0 .. n |-> IF d = 0 THEN {} ELSE Around(f[d - 1], leaves, lists, tables)]

LEMMA NestingMore ==
  ASSUME NEW leaves, NEW lists, NEW tables, NEW n \in Nat, NEW f,
         IsNesting(f, leaves, lists, tables, n)
  PROVE  IsNesting([d \in 0 .. n + 1 |-> IF d <= n THEN f[d]
                                         ELSE Around(f[n], leaves, lists, tables)],
                   leaves, lists, tables, n + 1)
<1> DEFINE G(s) == Around(s, leaves, lists, tables)
           h == [d \in 0 .. n + 1 |-> IF d <= n THEN f[d] ELSE G(f[n])]
           v(d) == IF d = 0 THEN {} ELSE G(h[d - 1])
<1>0. f = [d \in 0 .. n |-> IF d = 0 THEN {} ELSE G(f[d - 1])]
  BY DEF IsNesting
<1> HIDE DEF G
<1>1. \A d \in 0 .. n : f[d] = IF d = 0 THEN {} ELSE G(f[d - 1])
  BY <1>0
<1>2. /\ h = [d \in 0 .. n + 1 |-> h[d]]
      /\ \A d \in 0 .. n : h[d] = f[d]
      /\ h[n + 1] = G(f[n])
  OBVIOUS
<1> HIDE DEF h
<1>3. ASSUME NEW d \in 0 .. n + 1 PROVE h[d] = v(d)
  <2>1. CASE d = 0
    BY <1>1, <1>2, <2>1
  <2>2. CASE d \in 1 .. n
    <3>1. d \in 0 .. n /\ d - 1 \in 0 .. n /\ d # 0
      BY <2>2
    <3>2. h[d] = f[d] /\ h[d - 1] = f[d - 1]
      BY <1>2, <3>1
    <3> QED BY <1>1, <3>1, <3>2
  <2>3. CASE d = n + 1
    <3>1. n \in 0 .. n /\ d # 0 /\ d - 1 = n
      BY <2>3
    <3>2. h[d - 1] = f[n]
      BY <1>2, <3>1
    <3> QED BY <1>2, <2>3, <3>1, <3>2
  <2> QED BY <2>1, <2>2, <2>3
<1>4. h = [d \in 0 .. n + 1 |-> v(d)]
  <2>1. [d \in 0 .. n + 1 |-> v(d)] = [d \in 0 .. n + 1 |-> h[d]]
    BY <1>3
  <2> QED BY <1>2, <2>1
<1>5. IsNesting(h, leaves, lists, tables, n + 1)
  BY <1>4 DEF IsNesting, G
<1> QED BY <1>5 DEF h, G

LEMMA NestingExists ==
  ASSUME NEW leaves, NEW lists, NEW tables
  PROVE  \A n \in Nat : \E f : IsNesting(f, leaves, lists, tables, n)
<1> DEFINE Z == {n \in Nat : \E f : IsNesting(f, leaves, lists, tables, n)}
<1>1. 0 \in Z
  <2>1. IsNesting([k \in 0 .. 0 |-> {}], leaves, lists, tables, 0)
    BY DEF IsNesting
  <2> QED BY <2>1
<1>2. ASSUME NEW n \in Nat, n \in Z PROVE n + 1 \in Z
  <2>1. PICK f : IsNesting(f, leaves, lists, tables, n)
    BY <1>2
  <2>2. IsNesting([d \in 0 .. n + 1 |-> IF d <= n THEN f[d]
                                        ELSE Around(f[n], leaves, lists, tables)],
                  leaves, lists, tables, n + 1)
    BY <2>1, NestingMore
  <2> QED BY <2>2
<1> HIDE DEF Z
<1>3. \A n \in Nat : n \in Z
  BY <1>1, <1>2, InductionOnNat
<1> QED BY <1>3 DEF Z

LEMMA NestingUnique ==
  ASSUME NEW leaves, NEW lists, NEW tables, NEW n \in Nat, NEW l \in Nat, NEW f, NEW h,
         IsNesting(f, leaves, lists, tables, n), IsNesting(h, leaves, lists, tables, l)
  PROVE  \A k \in Nat : k <= n /\ k <= l => f[k] = h[k]
<1> DEFINE Z == {k \in Nat : k <= n /\ k <= l => f[k] = h[k]}
           G(s) == Around(s, leaves, lists, tables)
<1>0. /\ f = [d \in 0 .. n |-> IF d = 0 THEN {} ELSE G(f[d - 1])]
      /\ h = [d \in 0 .. l |-> IF d = 0 THEN {} ELSE G(h[d - 1])]
  BY DEF IsNesting
<1> HIDE DEF G
<1>1. 0 \in Z
  BY <1>0
<1>2. ASSUME NEW k \in Nat, k \in Z PROVE k + 1 \in Z
  <2> SUFFICES ASSUME k + 1 <= n, k + 1 <= l PROVE f[k + 1] = h[k + 1]
    BY <1>2
  <2>1. f[k] = h[k] /\ k + 1 \in 0 .. n /\ k + 1 \in 0 .. l /\ k + 1 # 0 /\ (k + 1) - 1 = k
    BY <1>2
  <2>2. f[k + 1] = G(f[k]) /\ h[k + 1] = G(h[k])
    BY <1>0, <2>1
  <2> QED BY <2>1, <2>2
<1> HIDE DEF Z
<1>3. \A k \in Nat : k \in Z
  BY <1>1, <1>2, InductionOnNat
<1> QED BY <1>3 DEF Z

\* The levels of Nested: none at 0, and one deeper at each next one.
LEMMA NestedLevels ==
  ASSUME NEW leaves, NEW lists, NEW tables
  PROVE  LET N == Nested(leaves, lists, tables)
         IN N[0] = {} /\ \A d \in Nat : N[d + 1] = Around(N[d], leaves, lists, tables)
<1> DEFINE G(s) == Around(s, leaves, lists, tables)
           a(n) == CHOOSE f : IsNesting(f, leaves, lists, tables, n)
           h    == [d \in Nat |-> a(d)[d]]
           v(d) == IF d = 0 THEN {} ELSE G(h[d - 1])
<1>1. \A n \in Nat : IsNesting(a(n), leaves, lists, tables, n)
  BY NestingExists
<1> HIDE DEF a
<1>2. ASSUME NEW n \in Nat PROVE h[n] = v(n)
  <2>0. a(n) = [d \in 0 .. n |-> IF d = 0 THEN {} ELSE G(a(n)[d - 1])]
    BY <1>1 DEF IsNesting
  <2> HIDE DEF G
  <2>1. CASE n = 0
    BY <2>0, <2>1
  <2>2. CASE n # 0
    <3>1. n - 1 \in Nat /\ n - 1 <= n /\ n - 1 <= n - 1 /\ n \in 0 .. n
      BY <2>2
    <3>2. a(n)[n - 1] = a(n - 1)[n - 1]
      BY <1>1, <3>1, NestingUnique
    <3>3. a(n)[n] = G(a(n)[n - 1])
      BY <2>0, <2>2, <3>1
    <3>4. h[n] = a(n)[n] /\ h[n - 1] = a(n - 1)[n - 1]
      BY <3>1
    <3> HIDE DEF h
    <3> QED BY <2>2, <3>2, <3>3, <3>4
  <2> QED BY <2>1, <2>2
<1>3. h = [d \in Nat |-> v(d)]
  <2>1. [d \in Nat |-> v(d)] = [d \in Nat |-> h[d]]
    BY <1>2
  <2> QED BY <2>1
<1> HIDE DEF h
<1> DEFINE Is(f) == f = [d \in Nat |->
                           IF d = 0 THEN {}
                           ELSE leaves \cup [type : lists, value : Seq(f[d - 1])] \cup
                                [type : tables, value : Seq([key : Seq(Byte), value : f[d - 1]])]]
           N == CHOOSE f : Is(f)
<1>4. Is(h)
  BY <1>3 DEF Around
<1>5. Is(N)
  BY <1>4
<1>6. Nested(leaves, lists, tables) = N
  BY DEF Nested
<1>7. N = [d \in Nat |-> IF d = 0 THEN {} ELSE G(N[d - 1])]
  BY <1>5 DEF Around
<1> HIDE DEF G, N
<1>8. N[0] = {}
  BY <1>7
<1>9. ASSUME NEW d \in Nat PROVE N[d + 1] = G(N[d])
  <2>1. d + 1 \in Nat /\ d + 1 # 0 /\ (d + 1) - 1 = d
    OBVIOUS
  <2> QED BY <1>7, <2>1
<1> QED BY <1>6, <1>8, <1>9 DEF G

-----------------------------------------------------------------------------
(* The levels of AVs.                                                      *)

\* The tables of what is in A.
Tables(A) == Seq([key : Seq(Byte), value : A])

LEMMA AVLevels ==
  /\ AVs[0] = {}
  /\ \A d \in Nat : AVs[d + 1] = Around(AVs[d], Leaves, {AMF_ARRAY}, {AMF_HASH, AMF_ASSOC_ARRAY})
BY NestedLevels DEF AVs

\* What a value has, by its type.
LEMMA AVCases ==
  ASSUME NEW d \in Nat, NEW av \in AVs[d + 1]
  PROVE  /\ av = Value(av.type, av.value) /\ av.type \in Byte
         /\ av.type = AMF_NUMBER  => av.value \in Seq(Byte) /\ Len(av.value) = 8
         /\ av.type = AMF_BOOLEAN => av.value \in Seq(Byte) /\ Len(av.value) = 1
         /\ av.type = AMF_STRING  => av.value \in Seq(Byte)
         /\ av.type = AMF_LINK    => av.value \in [1 .. 1 -> Shorts]
         /\ av.type = AMF_ARRAY   => av.value \in Seq(AVs[d])
         /\ av.type \in {AMF_HASH, AMF_ASSOC_ARRAY} =>
              av.value \in Tables(AVs[d])
         /\ av.type \notin Typed => av.value = << >>
<1> DEFINE A == AVs[d]
<1>1. av \in Around(A, Leaves, {AMF_ARRAY}, {AMF_HASH, AMF_ASSOC_ARRAY})
  BY AVLevels
<1> HIDE DEF A
<1>2. \/ av \in [type : {AMF_NUMBER},  value : [1 .. 8 -> Byte]]
      \/ av \in [type : {AMF_BOOLEAN}, value : [1 .. 1 -> Byte]]
      \/ av \in [type : {AMF_STRING},  value : Seq(Byte)]
      \/ av \in [type : {AMF_LINK},    value : [1 .. 1 -> Shorts]]
      \/ av \in [type : Byte \ Typed,  value : {<< >>}]
      \/ av \in [type : {AMF_ARRAY},   value : Seq(A)]
      \/ av \in [type : {AMF_HASH, AMF_ASSOC_ARRAY}, value : Seq([key : Seq(Byte), value : A])]
  BY <1>1 DEF Around, Leaves
<1>3. av = [type |-> av.type, value |-> av.value]
  BY <1>2
<1>4. \A n \in Nat : \A s \in [1 .. n -> Byte] : s \in Seq(Byte) /\ Len(s) = n
  OBVIOUS
<1>5. 8 \in Nat /\ 1 \in Nat
  OBVIOUS
<1>6. av.type \in Byte
  <2>1. Typed \subseteq Byte
    BY DEF Typed, Byte, AMF_NUMBER, AMF_BOOLEAN, AMF_STRING, AMF_LINK, AMF_ARRAY, AMF_HASH,
           AMF_ASSOC_ARRAY
  <2>2. av.type \in Typed \/ av.type \in Byte \ Typed
    BY <1>2 DEF Typed
  <2> QED BY <2>1, <2>2
<1>7. /\ av.type = AMF_NUMBER  => av.value \in [1 .. 8 -> Byte]
      /\ av.type = AMF_BOOLEAN => av.value \in [1 .. 1 -> Byte]
      /\ av.type = AMF_STRING  => av.value \in Seq(Byte)
      /\ av.type = AMF_LINK    => av.value \in [1 .. 1 -> Shorts]
      /\ av.type = AMF_ARRAY   => av.value \in Seq(A)
      /\ av.type \in {AMF_HASH, AMF_ASSOC_ARRAY} =>
           av.value \in Seq([key : Seq(Byte), value : A])
      /\ av.type \notin Typed => av.value = << >>
  BY <1>2 DEF Typed, AMF_NUMBER, AMF_BOOLEAN, AMF_STRING, AMF_LINK, AMF_ARRAY, AMF_HASH,
              AMF_ASSOC_ARRAY
<1> QED BY <1>3, <1>4, <1>5, <1>6, <1>7 DEF Value, A, Tables

\* Values that are built of their parts.
LEMMA AVMade ==
  ASSUME NEW d \in Nat
  PROVE  /\ \A s \in [1 .. 8 -> Byte]   : Value(AMF_NUMBER, s) \in AVs[d + 1]
         /\ \A s \in [1 .. 1 -> Byte]   : Value(AMF_BOOLEAN, s) \in AVs[d + 1]
         /\ \A s \in Seq(Byte)          : Value(AMF_STRING, s) \in AVs[d + 1]
         /\ \A s \in [1 .. 1 -> Shorts] : Value(AMF_LINK, s) \in AVs[d + 1]
         /\ \A t \in Byte \ Typed       : Value(t, << >>) \in AVs[d + 1]
         /\ \A s \in Seq(AVs[d])        : Value(AMF_ARRAY, s) \in AVs[d + 1]
         /\ \A s \in Tables(AVs[d]), t \in {AMF_HASH, AMF_ASSOC_ARRAY} :
              Value(t, s) \in AVs[d + 1]
<1> DEFINE A == AVs[d]
<1>1. AVs[d + 1] = Around(A, Leaves, {AMF_ARRAY}, {AMF_HASH, AMF_ASSOC_ARRAY})
  BY AVLevels
<1> HIDE DEF A
<1>2. \A s \in Seq(A) : Value(AMF_ARRAY, s) \in AVs[d + 1]
  BY <1>1 DEF Value, Around
<1>3. \A s \in Seq([key : Seq(Byte), value : A]), t \in {AMF_HASH, AMF_ASSOC_ARRAY} :
        Value(t, s) \in AVs[d + 1]
  BY <1>1 DEF Value, Around
<1>4. Leaves \subseteq AVs[d + 1]
  BY <1>1 DEF Around
<1>5. /\ \A s \in [1 .. 8 -> Byte]   : Value(AMF_NUMBER, s) \in Leaves
      /\ \A s \in [1 .. 1 -> Byte]   : Value(AMF_BOOLEAN, s) \in Leaves
      /\ \A s \in Seq(Byte)          : Value(AMF_STRING, s) \in Leaves
      /\ \A s \in [1 .. 1 -> Shorts] : Value(AMF_LINK, s) \in Leaves
      /\ \A t \in Byte \ Typed       : Value(t, << >>) \in Leaves
  BY DEF Leaves, Value
<1> QED BY <1>2, <1>3, <1>4, <1>5 DEF A, Tables

\* What is in few others is in more.
LEMMA NestedNext ==
  ASSUME NEW leaves, NEW lists, NEW tables, NEW N, N = Nested(leaves, lists, tables)
  PROVE  \A d \in Nat : N[d] \subseteq N[d + 1]
<1>0. N[0] = {} /\ \A d \in Nat : N[d + 1] = Around(N[d], leaves, lists, tables)
  BY NestedLevels
<1> DEFINE Z == {d \in Nat : N[d] \subseteq N[d + 1]}
<1>1. 0 \in Z
  BY <1>0
<1>2. ASSUME NEW d \in Nat, d \in Z PROVE d + 1 \in Z
  <2> DEFINE A == N[d]
             B == N[d + 1]
  <2>1. A \subseteq B
    BY <1>2
  <2>2. B = Around(A, leaves, lists, tables) /\ N[d + 1 + 1] = Around(B, leaves, lists, tables)
    BY <1>0
  <2> HIDE DEF A, B
  <2>3. Seq(A) \subseteq Seq(B)
    BY <2>1, SeqMonotonic
  <2>4. [key : Seq(Byte), value : A] \subseteq [key : Seq(Byte), value : B]
    BY <2>1
  <2>5. Seq([key : Seq(Byte), value : A]) \subseteq Seq([key : Seq(Byte), value : B])
    BY <2>4, SeqMonotonic
  <2>6. B \subseteq N[d + 1 + 1]
    BY <2>2, <2>3, <2>5 DEF Around
  <2> QED BY <2>6 DEF B
<1> HIDE DEF Z
<1>3. \A d \in Nat : d \in Z
  BY <1>1, <1>2, InductionOnNat
<1> QED BY <1>3 DEF Z

LEMMA NestedMore ==
  ASSUME NEW leaves, NEW lists, NEW tables, NEW N, N = Nested(leaves, lists, tables),
         NEW d \in Nat, NEW e \in Nat, d <= e
  PROVE  N[d] \subseteq N[e]
<1> DEFINE Z == {k \in Nat : N[d] \subseteq N[d + k]}
<1>1. 0 \in Z
  OBVIOUS
<1>2. ASSUME NEW k \in Nat, k \in Z PROVE k + 1 \in Z
  <2>1. d + k \in Nat /\ d + (k + 1) = (d + k) + 1
    OBVIOUS
  <2>2. N[d + k] \subseteq N[(d + k) + 1]
    BY <2>1, NestedNext
  <2> QED BY <1>2, <2>1, <2>2
<1> HIDE DEF Z
<1>3. \A k \in Nat : k \in Z
  BY <1>1, <1>2, InductionOnNat
<1>4. e - d \in Nat /\ d + (e - d) = e
  OBVIOUS
<1> QED BY <1>3, <1>4 DEF Z

LEMMA AVsMore == ASSUME NEW d \in Nat, NEW e \in Nat, d <= e PROVE AVs[d] \subseteq AVs[e]
BY NestedMore DEF AVs

-----------------------------------------------------------------------------
(* Sums and concatenations.                                                *)

\* FlattenSeq puts one sequence after the other.
LEMMA Flattened ==
  ASSUME NEW S, NEW s \in Seq(Seq(S))
  PROVE  \E f \in [Nat -> Seq(S)] :
           /\ f[0] = << >>
           /\ \A k \in 0 .. Len(s) - 1 : f[k + 1] = f[k] \o s[k + 1]
           /\ FlattenSeq(s) = f[Len(s)]
<1> DEFINE n == Len(s)
           g == [k \in Nat |-> [x \in Seq(S) |-> IF k < n THEN x \o s[k + 1] ELSE x]]
           W == [k \in Nat |-> Seq(S)]
<1>1. n \in Nat /\ \A k \in 1 .. n : s[k] \in Seq(S)
  OBVIOUS
<1>2. ASSUME NEW k \in Nat, NEW x \in W[k] PROVE g[k][x] \in W[k + 1]
  <2>1. x \in Seq(S)
    OBVIOUS
  <2>2. g[k][x] = IF k < n THEN x \o s[k + 1] ELSE x
    BY <2>1
  <2>3. k < n => s[k + 1] \in Seq(S)
    BY <1>1
  <2>4. g[k][x] \in Seq(S)
    BY <2>1, <2>2, <2>3, ConcatType
  <2>5. W[k + 1] = Seq(S)
    OBVIOUS
  <2> HIDE DEF W, g
  <2> QED BY <2>4, <2>5
<1>3. << >> \in W[0]
  OBVIOUS
<1>4. PICK f : Recursive(f, << >>, g, W)
  <2> HIDE DEF W, g
  <2> QED BY <1>2, <1>3, Recursion
<1>5. f \in [Nat -> Seq(S)] /\ f[0] = << >>
  BY <1>4 DEF Recursive
<1>6. ASSUME NEW k \in 0 .. n - 1 PROVE f[k + 1] = f[k] \o s[k + 1]
  <2>1. k \in Nat /\ k + 1 \in Nat /\ k + 1 # 0 /\ (k + 1) - 1 = k /\ k < n
    BY <1>1
  <2>2. f[k + 1] = g[k][f[k]]
    <3> HIDE DEF g
    <3> QED BY <1>4, <2>1 DEF Recursive
  <2> QED BY <1>5, <2>1, <2>2
<1>7. FlattenSeq(s) = f[n]
  <2>1. CASE n = 0
    BY <1>5, <2>1, EmptySeq DEF FlattenSeq
  <2>2. CASE n # 0
    <3> HIDE DEF g, W
    <3> DEFINE Is(h) == h = [i \in 1 .. n |-> IF i = 1 THEN s[i] ELSE h[i - 1] \o s[i]]
               c == CHOOSE h : Is(h)
               e == [i \in 1 .. n |-> f[i]]
    <3>1. FlattenSeq(s) = c[n]
      BY <2>2 DEF FlattenSeq
    <3>2. Is(e)
      <4>1. ASSUME NEW i \in 1 .. n PROVE f[i] = IF i = 1 THEN s[i] ELSE e[i - 1] \o s[i]
        <5>1. i - 1 \in 0 .. n - 1 /\ (i - 1) + 1 = i
          BY <1>1
        <5>2. f[i] = f[i - 1] \o s[i]
          BY <1>6, <5>1, ZenonT(30)
        <5>3. i # 1 => e[i - 1] = f[i - 1]
          BY <1>1
        <5>4. s[i] \in Seq(S) /\ << >> \o s[i] = s[i]
          BY <1>1, ConcatEmptySeq
        <5>5. i = 1 => f[i - 1] = << >>
          BY <1>5
        <5> HIDE DEF e
        <5> QED BY <5>2, <5>3, <5>4, <5>5
      <4> QED BY <4>1
    <3>3. Is(c)
      BY <3>2, ZenonT(30)
    <3> DEFINE Z == {k \in Nat : k + 1 <= n => c[k + 1] = f[k + 1]}
    <3>4. 0 \in Z
      <4>1. c[1] = s[1]
        <5> HIDE DEF c
        <5> QED BY <1>1, <2>2, <3>3
      <4>2. f[1] = f[0] \o s[1]
        <5>1. 0 \in 0 .. n - 1 /\ 0 + 1 = 1
          BY <1>1, <2>2
        <5> QED BY <1>6, <5>1
      <4>3. s[1] \in Seq(S) /\ << >> \o s[1] = s[1]
        BY <1>1, <2>2, ConcatEmptySeq
      <4> HIDE DEF c
      <4>4. c[1] = f[1] /\ 0 + 1 = 1
        BY <1>5, <4>1, <4>2, <4>3
      <4> QED BY <4>4
    <3> HIDE DEF c
    <3>5. ASSUME NEW k \in Nat, k \in Z PROVE k + 1 \in Z
      <4> SUFFICES ASSUME k + 1 + 1 <= n PROVE c[k + 1 + 1] = f[k + 1 + 1]
        BY <3>5
      <4>1. /\ k + 1 + 1 \in 1 .. n /\ k + 1 + 1 # 1 /\ (k + 1 + 1) - 1 = k + 1
            /\ k + 1 \in 0 .. n - 1
        BY <1>1
      <4>2. c[k + 1 + 1] = c[k + 1] \o s[k + 1 + 1]
        BY <3>3, <4>1
      <4>3. f[k + 1 + 1] = f[k + 1] \o s[k + 1 + 1]
        BY <1>6, <4>1
      <4>4. c[k + 1] = f[k + 1]
        BY <1>1, <3>5
      <4> QED BY <4>2, <4>3, <4>4
    <3> HIDE DEF Z
    <3>6. \A k \in Nat : k \in Z
      BY <3>4, <3>5, InductionOnNat
    <3>7. n - 1 \in Z /\ (n - 1) + 1 = n
      BY <1>1, <2>2, <3>6
    <3> QED BY <1>1, <3>1, <3>7 DEF Z
  <2> QED BY <2>1, <2>2
<1> QED BY <1>5, <1>6, <1>7

\* Total adds one number after the other.
LEMMA Totalled ==
  ASSUME NEW s \in Seq(Nat)
  PROVE  \E f \in [Nat -> Nat] :
           /\ f[0] = 0
           /\ \A k \in 0 .. Len(s) - 1 : f[k + 1] = f[k] + s[k + 1]
           /\ Total(s) = f[Len(s)]
<1> DEFINE n == Len(s)
           g == [k \in Nat |-> [x \in Nat |-> IF k < n THEN x + s[k + 1] ELSE x]]
           W == [k \in Nat |-> Nat]
<1>1. n \in Nat /\ \A k \in 1 .. n : s[k] \in Nat
  OBVIOUS
<1>2. \A k \in Nat : \A x \in W[k] : g[k][x] \in W[k + 1]
  BY <1>1
<1>3. 0 \in W[0]
  OBVIOUS
<1>4. PICK f : Recursive(f, 0, g, W)
  <2> HIDE DEF W, g
  <2> QED BY <1>2, <1>3, Recursion
<1>5. f \in [Nat -> Nat] /\ f[0] = 0
  BY <1>4 DEF Recursive
<1>6. ASSUME NEW k \in 0 .. n - 1 PROVE f[k + 1] = f[k] + s[k + 1]
  <2>1. k \in Nat /\ k + 1 \in Nat /\ k + 1 # 0 /\ (k + 1) - 1 = k /\ k < n
    BY <1>1
  <2>2. f[k + 1] = g[k][f[k]]
    <3> HIDE DEF g
    <3> QED BY <1>4, <2>1 DEF Recursive
  <2> QED BY <1>5, <2>1, <2>2
<1>7. Total(s) = f[n]
  <2> HIDE DEF g, W
  <2> DEFINE Is(h) == h = [i \in 0 .. n |-> IF i = 0 THEN 0 ELSE h[i - 1] + s[i]]
             c == CHOOSE h : Is(h)
             e == [i \in 0 .. n |-> f[i]]
  <2>1. Total(s) = c[n]
    BY DEF Total
  <2>2. Is(e)
    <3>1. ASSUME NEW i \in 0 .. n PROVE f[i] = IF i = 0 THEN 0 ELSE e[i - 1] + s[i]
      <4>1. CASE i = 0
        BY <1>5, <4>1
      <4>2. CASE i # 0
        <5>1. i - 1 \in 0 .. n - 1 /\ (i - 1) + 1 = i /\ i - 1 \in 0 .. n
          BY <1>1, <4>2
        <5>2. f[i] = f[i - 1] + s[i]
          BY <1>6, <5>1
        <5> QED BY <4>2, <5>1, <5>2
      <4> QED BY <4>1, <4>2
    <3> QED BY <3>1
  <2>3. Is(c)
    BY <2>2
  <2> HIDE DEF c
  <2> DEFINE Z == {k \in Nat : k <= n => c[k] = f[k]}
  <2>4. 0 \in Z
    BY <1>1, <1>5, <2>3
  <2>5. ASSUME NEW k \in Nat, k \in Z PROVE k + 1 \in Z
    <3> SUFFICES ASSUME k + 1 <= n PROVE c[k + 1] = f[k + 1]
      BY <2>5
    <3>1. k + 1 \in 0 .. n /\ k + 1 # 0 /\ (k + 1) - 1 = k /\ k \in 0 .. n - 1
      BY <1>1
    <3>2. c[k + 1] = c[k] + s[k + 1]
      BY <2>3, <3>1
    <3>3. f[k + 1] = f[k] + s[k + 1]
      BY <1>6, <3>1
    <3>4. c[k] = f[k]
      BY <1>1, <2>5
    <3> QED BY <3>2, <3>3, <3>4
  <2> HIDE DEF Z
  <2>6. \A k \in Nat : k \in Z
    BY <2>4, <2>5, InductionOnNat
  <2> QED BY <1>1, <2>1, <2>6 DEF Z
<1> QED BY <1>5, <1>6, <1>7

\* What is put one after the other takes the room of all.
LEMMA FlattenedLength ==
  ASSUME NEW s \in Seq(Seq(Byte))
  PROVE  /\ FlattenSeq(s) \in Seq(Byte)
         /\ Len(FlattenSeq(s)) = Total([i \in 1 .. Len(s) |-> Len(s[i])])
<1> DEFINE n == Len(s)
           r == [i \in 1 .. n |-> Len(s[i])]
<1>1. n \in Nat /\ \A i \in 1 .. n : s[i] \in Seq(Byte) /\ r[i] = Len(s[i]) /\ r[i] \in Nat
  OBVIOUS
<1>2. r \in Seq(Nat) /\ Len(r) = n
  BY <1>1
<1> HIDE DEF r
<1>3. PICK f \in [Nat -> Seq(Byte)] :
        /\ f[0] = << >>
        /\ \A k \in 0 .. n - 1 : f[k + 1] = f[k] \o s[k + 1]
        /\ FlattenSeq(s) = f[n]
  BY Flattened
<1>4. PICK h \in [Nat -> Nat] :
        /\ h[0] = 0
        /\ \A k \in 0 .. n - 1 : h[k + 1] = h[k] + r[k + 1]
        /\ Total(r) = h[n]
  BY <1>2, Totalled
<1> DEFINE Z == {k \in Nat : k <= n => Len(f[k]) = h[k]}
<1>5. 0 \in Z
  BY <1>3, <1>4
<1>6. ASSUME NEW k \in Nat, k \in Z PROVE k + 1 \in Z
  <2> SUFFICES ASSUME k + 1 <= n PROVE Len(f[k + 1]) = h[k + 1]
    BY <1>6
  <2>1. k \in 0 .. n - 1 /\ k + 1 \in 1 .. n
    BY <1>1
  <2>2. f[k] \in Seq(Byte) /\ s[k + 1] \in Seq(Byte)
    BY <1>1, <2>1
  <2>3. Len(f[k] \o s[k + 1]) = Len(f[k]) + Len(s[k + 1])
    BY <2>2, ConcatType
  <2>4. Len(f[k]) = h[k]
    BY <1>1, <1>6
  <2> QED BY <1>1, <1>3, <1>4, <2>1, <2>3, <2>4
<1> HIDE DEF Z
<1>7. \A k \in Nat : k \in Z
  BY <1>5, <1>6, InductionOnNat
<1> QED BY <1>1, <1>3, <1>4, <1>7 DEF Z, r

-----------------------------------------------------------------------------
(* Packing.                                                                *)

\* A sequence of n bytes.
Sized(s, n) == s \in Seq(Byte) /\ Len(s) = n

LEMMA SizedSelf == ASSUME NEW s \in Seq(Byte) PROVE Sized(s, Len(s)) /\ Len(s) \in Nat
BY DEF Sized

LEMMA SizedType == ASSUME NEW s, NEW n, Sized(s, n) PROVE s \in Seq(Byte) /\ Len(s) = n
BY DEF Sized

LEMMA SizedConcat ==
  ASSUME NEW n, NEW l, NEW s, NEW t, Sized(s, n), Sized(t, l)
  PROVE  Sized(s \o t, n + l)
BY ConcatType DEF Sized

LEMMA ShortType == ASSUME NEW v \in Int PROVE Sized(Short(v), 2)
<1>1. (v \div 256) % 256 \in Byte /\ v % 256 \in Byte
  BY DivMod DEF Byte
<1> QED BY <1>1 DEF Short, Sized

LEMMA PackStringType ==
  ASSUME NEW s \in Seq(Byte)
  PROVE  Sized(PackString(s), Len(s) + 2)
<1>1. Len(s) \in Int /\ 2 + Len(s) = Len(s) + 2
  OBVIOUS
<1>2. Sized(Short(Len(s)), 2)
  BY <1>1, ShortType
<1>3. Sized(s, Len(s))
  BY SizedSelf
<1>4. Sized(Short(Len(s)) \o s, 2 + Len(s))
  BY <1>2, <1>3, SizedConcat
<1> QED BY <1>1, <1>4 DEF PackString

LEMMA ReverseType ==
  ASSUME NEW s, NEW n, Sized(s, n)
  PROVE  Sized(Reverse(s), n)
BY DEF Reverse, Sized

LEMMA LongType == ASSUME NEW v \in Int PROVE Sized(Long(v), 4)
<1>1. Sized(ReverseInt(v), 4)
  BY IntBytes DEF Sized
<1> QED BY <1>1, ReverseType DEF Long

LEMMA EndMarkerType == Sized(EndMarker, 3)
<1>1. << >> \in Seq(Byte) /\ Len(<< >>) + 2 = 2 /\ 2 + 1 = 3
  OBVIOUS
<1>2. Sized(PackString(<< >>), Len(<< >>) + 2)
  BY <1>1, PackStringType
<1>3. Sized(<< AMF_END >>, 1)
  BY DEF AMF_END, Byte, Sized
<1>4. Sized(PackString(<< >>) \o << AMF_END >>, 2 + 1)
  BY <1>1, <1>2, <1>3, SizedConcat
<1> QED BY <1>1, <1>4 DEF EndMarker

\* What P packs of each of the values of an array, and of the elements of a table.
Items(P, t) == [i \in 1 .. Len(t) |-> P[t[i]]]
Elems(P, t) == [i \in 1 .. Len(t) |-> PackString(t[i].key) \o P[t[i].value]]

LEMMA ItemsType ==
  ASSUME NEW A, NEW P \in [A -> Seq(Byte)], NEW t \in Seq(A)
  PROVE  /\ Items(P, t) \in Seq(Seq(Byte)) /\ Len(Items(P, t)) = Len(t)
         /\ \A i \in 1 .. Len(t) : Items(P, t)[i] = P[t[i]] /\ P[t[i]] \in Seq(Byte)
<1>1. \A i \in 1 .. Len(t) : P[t[i]] \in Seq(Byte)
  OBVIOUS
<1> QED BY <1>1 DEF Items

LEMMA ElemsType ==
  ASSUME NEW A, NEW P \in [A -> Seq(Byte)], NEW t \in Tables(A)
  PROVE  /\ Elems(P, t) \in Seq(Seq(Byte)) /\ Len(Elems(P, t)) = Len(t)
         /\ \A i \in 1 .. Len(t) :
              /\ Elems(P, t)[i] = PackString(t[i].key) \o P[t[i].value]
              /\ t[i].key \in Seq(Byte) /\ t[i].value \in A
              /\ Sized(PackString(t[i].key), Len(t[i].key) + 2)
              /\ P[t[i].value] \in Seq(Byte)
              /\ Sized(Elems(P, t)[i], Len(t[i].key) + 2 + Len(P[t[i].value]))
<1> DEFINE e(i) == PackString(t[i].key) \o P[t[i].value]
           R == [key : Seq(Byte), value : A]
<1>1. ASSUME NEW i \in 1 .. Len(t)
      PROVE  /\ t[i].key \in Seq(Byte) /\ t[i].value \in A
             /\ Sized(PackString(t[i].key), Len(t[i].key) + 2)
             /\ P[t[i].value] \in Seq(Byte)
             /\ Sized(e(i), Len(t[i].key) + 2 + Len(P[t[i].value]))
  <2>1. t[i] \in R
    <3>1. t \in Seq(R)
      BY DEF Tables
    <3> HIDE DEF R, e
    <3> QED BY <3>1
  <2>2. t[i].key \in Seq(Byte) /\ t[i].value \in A
    BY <2>1
  <2> HIDE DEF R
  <2>3. Sized(PackString(t[i].key), Len(t[i].key) + 2)
    BY <2>2, PackStringType
  <2>4. P[t[i].value] \in Seq(Byte)
    BY <2>2
  <2>5. Sized(P[t[i].value], Len(P[t[i].value]))
    BY <2>4, SizedSelf
  <2>6. Sized(e(i), Len(t[i].key) + 2 + Len(P[t[i].value]))
    BY <2>3, <2>5, SizedConcat
  <2> QED BY <2>2, <2>3, <2>4, <2>6
<1> HIDE DEF e
<1>2. Elems(P, t) = [i \in 1 .. Len(t) |-> e(i)]
  BY DEF Elems, e
<1>3. \A i \in 1 .. Len(t) : e(i) \in Seq(Byte)
  BY <1>1, SizedType
<1>4. Len(t) \in Nat
  BY DEF Tables
<1>5. /\ Elems(P, t) \in Seq(Seq(Byte))
      /\ Len(Elems(P, t)) = Len(t)
      /\ \A i \in 1 .. Len(t) : Elems(P, t)[i] = e(i)
  <2> DEFINE n == Len(t)
             B == Seq(Byte)
  <2>1. n \in Nat /\ Elems(P, t) = [i \in 1 .. n |-> e(i)] /\ \A i \in 1 .. n : e(i) \in B
    BY <1>2, <1>3, <1>4
  <2> HIDE DEF n, B
  <2>2. /\ Elems(P, t) \in Seq(B) /\ Len(Elems(P, t)) = n
        /\ \A i \in 1 .. n : Elems(P, t)[i] = e(i)
    BY <2>1
  <2> QED BY <2>2 DEF n, B
<1>6. \A i \in 1 .. Len(t) : e(i) = PackString(t[i].key) \o P[t[i].value]
  BY DEF e
<1> QED BY <1>1, <1>5, <1>6

LEMMA PackedType ==
  ASSUME NEW A, NEW P \in [A -> Seq(Byte)]
  PROVE  /\ \A t \in Seq(A) : PackItems(P, t) \in Seq(Byte)
         /\ \A t \in Tables(A) : PackElems(P, t) \in Seq(Byte)
<1>1. ASSUME NEW t \in Seq(A) PROVE PackItems(P, t) \in Seq(Byte)
  <2>1. Items(P, t) \in Seq(Seq(Byte))
    BY ItemsType
  <2>2. FlattenSeq(Items(P, t)) \in Seq(Byte)
    BY <2>1, FlattenedLength
  <2> QED BY <2>2 DEF PackItems, Items
<1>2. ASSUME NEW t \in Tables(A) PROVE PackElems(P, t) \in Seq(Byte)
  <2>1. Elems(P, t) \in Seq(Seq(Byte))
    BY ElemsType
  <2>2. FlattenSeq(Elems(P, t)) \in Seq(Byte)
    BY <2>1, FlattenedLength, ZenonT(30)
  <2> QED BY <2>2 DEF PackElems, Elems
<1> QED BY <1>1, <1>2

\* The bytes of a value after its type.
Body(P, av) ==
  CASE av.type = AMF_NUMBER      -> Reverse(av.value)
    [] av.type = AMF_BOOLEAN     -> av.value
    [] av.type = AMF_STRING      -> PackString(av.value)
    [] av.type = AMF_HASH        -> PackElems(P, av.value) \o EndMarker
    [] av.type = AMF_ASSOC_ARRAY -> Long(Len(av.value)) \o PackElems(P, av.value)
    [] av.type = AMF_ARRAY       -> Long(Len(av.value)) \o PackItems(P, av.value)
    [] av.type = AMF_LINK        -> Short(av.value[1])
    [] OTHER                     -> << >>

\* The types with a body are seven.
LEMMA TypesDiffer ==
  /\ AMF_NUMBER \in Typed /\ AMF_BOOLEAN \in Typed /\ AMF_STRING \in Typed /\ AMF_HASH \in Typed
  /\ AMF_LINK \in Typed /\ AMF_ASSOC_ARRAY \in Typed /\ AMF_ARRAY \in Typed
  /\ AMF_NUMBER \notin {AMF_BOOLEAN, AMF_STRING, AMF_HASH, AMF_LINK, AMF_ASSOC_ARRAY, AMF_ARRAY}
  /\ AMF_BOOLEAN \notin {AMF_STRING, AMF_HASH, AMF_LINK, AMF_ASSOC_ARRAY, AMF_ARRAY}
  /\ AMF_STRING \notin {AMF_HASH, AMF_LINK, AMF_ASSOC_ARRAY, AMF_ARRAY}
  /\ AMF_HASH \notin {AMF_LINK, AMF_ASSOC_ARRAY, AMF_ARRAY}
  /\ AMF_LINK \notin {AMF_ASSOC_ARRAY, AMF_ARRAY}
  /\ AMF_ASSOC_ARRAY # AMF_ARRAY
BY DEF Typed, AMF_NUMBER, AMF_BOOLEAN, AMF_STRING, AMF_LINK, AMF_ARRAY, AMF_HASH, AMF_ASSOC_ARRAY

\* Each type has its body.
LEMMA BodyCases ==
  ASSUME NEW P, NEW av
  PROVE  /\ PackValue(P, av) = << av.type >> \o Body(P, av)
         /\ av.type = AMF_NUMBER      => Body(P, av) = Reverse(av.value)
         /\ av.type = AMF_BOOLEAN     => Body(P, av) = av.value
         /\ av.type = AMF_STRING      => Body(P, av) = PackString(av.value)
         /\ av.type = AMF_HASH        => Body(P, av) = PackElems(P, av.value) \o EndMarker
         /\ av.type = AMF_ASSOC_ARRAY => Body(P, av) = Long(Len(av.value)) \o PackElems(P, av.value)
         /\ av.type = AMF_ARRAY       => Body(P, av) = Long(Len(av.value)) \o PackItems(P, av.value)
         /\ av.type = AMF_LINK        => Body(P, av) = Short(av.value[1])
         /\ av.type \notin Typed      => Body(P, av) = << >>
<1>1. PackValue(P, av) = << av.type >> \o Body(P, av)
  BY DEF PackValue, Body
<1>2. ASSUME av.type \in {AMF_NUMBER, AMF_BOOLEAN, AMF_STRING, AMF_LINK}
      PROVE  /\ av.type = AMF_NUMBER  => Body(P, av) = Reverse(av.value)
             /\ av.type = AMF_BOOLEAN => Body(P, av) = av.value
             /\ av.type = AMF_STRING  => Body(P, av) = PackString(av.value)
             /\ av.type = AMF_LINK    => Body(P, av) = Short(av.value[1])
  BY <1>2, TypesDiffer DEF Body
<1>3. ASSUME av.type \in {AMF_HASH, AMF_ASSOC_ARRAY, AMF_ARRAY}
      PROVE  /\ av.type = AMF_HASH => Body(P, av) = PackElems(P, av.value) \o EndMarker
             /\ av.type = AMF_ASSOC_ARRAY =>
                  Body(P, av) = Long(Len(av.value)) \o PackElems(P, av.value)
             /\ av.type = AMF_ARRAY => Body(P, av) = Long(Len(av.value)) \o PackItems(P, av.value)
  BY <1>3, TypesDiffer DEF Body
<1>4. av.type \notin Typed => Body(P, av) = << >>
  BY TypesDiffer DEF Body
<1> QED BY <1>1, <1>2, <1>3, <1>4

\* How many bytes a body has.
LEMMA BodySize ==
  ASSUME NEW d \in Nat, NEW P \in [AVs[d] -> Seq(Byte)], NEW av \in AVs[d + 1]
  PROVE  /\ av.type = AMF_NUMBER  => Sized(Body(P, av), 8)
         /\ av.type = AMF_BOOLEAN => Sized(Body(P, av), 1)
         /\ av.type = AMF_STRING  => Sized(Body(P, av), Len(av.value) + 2)
         /\ av.type = AMF_HASH    => Sized(Body(P, av), Len(PackElems(P, av.value)) + 3)
         /\ av.type = AMF_ASSOC_ARRAY => Sized(Body(P, av), 4 + Len(PackElems(P, av.value)))
         /\ av.type = AMF_ARRAY   => Sized(Body(P, av), 4 + Len(PackItems(P, av.value)))
         /\ av.type = AMF_LINK    => Sized(Body(P, av), 2)
         /\ av.type \notin Typed  => Sized(Body(P, av), 0)
<1> DEFINE b == Body(P, av)
           A == AVs[d]
           x == av.value
<1>1. CASE av.type = AMF_NUMBER
  <2>1. Sized(x, 8)
    BY <1>1, AVCases DEF Sized
  <2>2. Sized(Reverse(x), 8)
    BY <2>1, ReverseType
  <2>3. b = Reverse(x)
    BY <1>1, BodyCases
  <2> QED BY <1>1, <2>2, <2>3, TypesDiffer
<1>2. CASE av.type = AMF_BOOLEAN
  <2>1. Sized(x, 1)
    BY <1>2, AVCases DEF Sized
  <2>2. b = x
    BY <1>2, BodyCases
  <2> QED BY <1>2, <2>1, <2>2, TypesDiffer
<1>3. CASE av.type = AMF_STRING
  <2>1. x \in Seq(Byte)
    BY <1>3, AVCases
  <2>2. Sized(PackString(x), Len(x) + 2)
    BY <2>1, PackStringType
  <2>3. b = PackString(x)
    BY <1>3, BodyCases
  <2> QED BY <1>3, <2>2, <2>3, TypesDiffer
<1>4. CASE av.type = AMF_HASH
  <2>1. x \in Tables(A)
    BY <1>4, AVCases
  <2>2. PackElems(P, x) \in Seq(Byte)
    BY <2>1, PackedType
  <2>3. Sized(PackElems(P, x), Len(PackElems(P, x)))
    BY <2>2, SizedSelf
  <2>4. Sized(PackElems(P, x) \o EndMarker, Len(PackElems(P, x)) + 3)
    BY <2>3, EndMarkerType, SizedConcat
  <2>5. b = PackElems(P, x) \o EndMarker
    BY <1>4, BodyCases
  <2> QED BY <1>4, <2>4, <2>5, TypesDiffer
<1>5. CASE av.type = AMF_ASSOC_ARRAY
  <2>1. x \in Tables(A)
    BY <1>5, AVCases
  <2>2. PackElems(P, x) \in Seq(Byte)
    BY <2>1, PackedType
  <2>3. Sized(PackElems(P, x), Len(PackElems(P, x)))
    BY <2>2, SizedSelf
  <2>4. Len(x) \in Int
    BY <2>1 DEF Tables
  <2>5. Sized(Long(Len(x)), 4)
    BY <2>4, LongType
  <2>6. Sized(Long(Len(x)) \o PackElems(P, x), 4 + Len(PackElems(P, x)))
    BY <2>3, <2>5, SizedConcat
  <2>7. b = Long(Len(x)) \o PackElems(P, x)
    BY <1>5, BodyCases
  <2> QED BY <1>5, <2>6, <2>7, TypesDiffer
<1>6. CASE av.type = AMF_ARRAY
  <2>1. x \in Seq(A)
    BY <1>6, AVCases
  <2>2. PackItems(P, x) \in Seq(Byte)
    BY <2>1, PackedType
  <2>3. Sized(PackItems(P, x), Len(PackItems(P, x)))
    BY <2>2, SizedSelf
  <2>4. Len(x) \in Int
    BY <2>1
  <2>5. Sized(Long(Len(x)), 4)
    BY <2>4, LongType
  <2>6. Sized(Long(Len(x)) \o PackItems(P, x), 4 + Len(PackItems(P, x)))
    BY <2>3, <2>5, SizedConcat
  <2>7. b = Long(Len(x)) \o PackItems(P, x)
    BY <1>6, BodyCases
  <2> QED BY <1>6, <2>6, <2>7, TypesDiffer
<1>7. CASE av.type = AMF_LINK
  <2>1. x \in [1 .. 1 -> Shorts]
    BY <1>7, AVCases
  <2>2. x[1] \in Int
    <3>1. 1 \in 1 .. 1 /\ Shorts \subseteq Int
      <4>1. MaxShort \in Int
        BY DEF MaxShort
      <4> QED BY <4>1 DEF Shorts
    <3> HIDE DEF x
    <3> QED BY <2>1, <3>1
  <2>3. Sized(Short(x[1]), 2)
    BY <2>2, ShortType
  <2>4. b = Short(x[1])
    BY <1>7, BodyCases
  <2> QED BY <1>7, <2>3, <2>4, TypesDiffer
<1>8. CASE av.type \notin Typed
  <2>1. b = << >>
    BY <1>8, BodyCases
  <2>2. Sized(<< >>, 0)
    BY DEF Sized
  <2> QED BY <1>8, <2>1, <2>2 DEF Typed
<1> QED BY <1>1, <1>2, <1>3, <1>4, <1>5, <1>6, <1>7, <1>8 DEF Typed

LEMMA BodyType ==
  ASSUME NEW d \in Nat, NEW P \in [AVs[d] -> Seq(Byte)], NEW av \in AVs[d + 1]
  PROVE  /\ Body(P, av) \in Seq(Byte)
         /\ PackValue(P, av) \in Seq(Byte)
         /\ Len(PackValue(P, av)) = 1 + Len(Body(P, av))
<1> DEFINE b == Body(P, av)
<1>1. b \in Seq(Byte)
  BY BodySize, SizedType DEF Typed
<1>2. Sized(<< av.type >>, 1)
  <2>1. av.type \in Byte
    BY AVCases
  <2> QED BY <2>1 DEF Sized
<1>3. Sized(<< av.type >> \o b, 1 + Len(b))
  BY <1>1, <1>2, SizedSelf, SizedConcat
<1>4. PackValue(P, av) = << av.type >> \o b
  BY BodyCases
<1> HIDE DEF b
<1>5. Sized(PackValue(P, av), 1 + Len(b))
  BY <1>3, <1>4
<1>6. b = Body(P, av)
  BY DEF b
<1> QED BY <1>1, <1>5, <1>6, SizedType

\* PackTo packs what is nested less and less deep.
LEMMA PackLevels ==
  \A d \in Nat : /\ PackTo[d] \in [AVs[d] -> Seq(Byte)]
                 /\ \A av \in AVs[d + 1] : PackTo[d + 1][av] = PackValue(PackTo[d], av)
<1> DEFINE W == [d \in Nat |-> [AVs[d] -> Seq(Byte)]]
           G(d, P) == [av \in AVs[d + 1] |-> PackValue(P, av)]
           g == [d \in Nat |-> [P \in W[d] |-> G(d, P)]]
           Is(f) == f = [d \in Nat |-> IF d = 0 THEN << >>
                                       ELSE [av \in AVs[d] |-> PackValue(f[d - 1], av)]]
           PT == CHOOSE f : Is(f)
<1>1. ASSUME NEW d \in Nat, NEW P \in [AVs[d] -> Seq(Byte)]
      PROVE  G(d, P) \in [AVs[d + 1] -> Seq(Byte)]
  <2>1. \A av \in AVs[d + 1] : PackValue(P, av) \in Seq(Byte)
    BY <1>1, BodyType
  <2> QED BY <2>1
<1>2. \A d \in Nat : W[d] = [AVs[d] -> Seq(Byte)]
  OBVIOUS
<1>3. ASSUME NEW d \in Nat, NEW P \in W[d] PROVE g[d][P] = G(d, P) /\ g[d][P] \in W[d + 1]
  <2>1. g[d][P] = G(d, P)
    OBVIOUS
  <2>2. G(d, P) \in [AVs[d + 1] -> Seq(Byte)]
    BY <1>1, <1>2
  <2>3. W[d + 1] = [AVs[d + 1] -> Seq(Byte)]
    <3>1. d + 1 \in Nat
      OBVIOUS
    <3> HIDE DEF W
    <3> QED BY <1>2, <3>1
  <2> HIDE DEF W, g, G
  <2> QED BY <2>1, <2>2, <2>3
<1>4. << >> \in W[0]
  BY AVLevels
<1> HIDE DEF W, g, G
<1>5. PICK f : Recursive(f, << >>, g, W)
  BY <1>3, <1>4, Recursion
<1>6. Is(f)
  <2>1. ASSUME NEW d \in Nat, d # 0
        PROVE  f[d] = [av \in AVs[d] |-> PackValue(f[d - 1], av)]
    <3>1. d - 1 \in Nat /\ (d - 1) + 1 = d
      BY <2>1
    <3>2. f[d] = g[d - 1][f[d - 1]] /\ f[d - 1] \in W[d - 1]
      BY <1>5, <2>1, <3>1 DEF Recursive
    <3>3. f[d] = G(d - 1, f[d - 1])
      BY <1>3, <3>1, <3>2
    <3> QED BY <3>1, <3>3 DEF G
  <2>2. f[0] = << >> /\ f = [d \in Nat |-> f[d]]
    BY <1>5 DEF Recursive
  <2>3. f = [d \in Nat |-> IF d = 0 THEN << >> ELSE [av \in AVs[d] |-> PackValue(f[d - 1], av)]]
    BY <2>1, <2>2
  <2> QED BY <2>3
<1>7. Is(PT)
  BY <1>6
<1>8. PackTo = PT
  BY DEF PackTo
<1> HIDE DEF PT
<1>9. /\ PackTo[0] = << >>
      /\ \A d \in Nat : PackTo[d + 1] = G(d, PackTo[d])
  <2>1. PackTo[0] = << >>
    BY <1>7, <1>8
  <2>2. ASSUME NEW d \in Nat PROVE PackTo[d + 1] = G(d, PackTo[d])
    <3>1. d + 1 \in Nat /\ d + 1 # 0 /\ (d + 1) - 1 = d
      OBVIOUS
    <3> QED BY <1>7, <1>8, <3>1 DEF G
  <2> QED BY <2>1, <2>2
<1> DEFINE Z == {d \in Nat : PackTo[d] \in [AVs[d] -> Seq(Byte)]}
<1>10. 0 \in Z
  <2>1. << >> \in [{} -> Seq(Byte)]
    OBVIOUS
  <2> QED BY <1>9, <2>1, AVLevels
<1>11. ASSUME NEW d \in Nat, d \in Z PROVE d + 1 \in Z
  BY <1>1, <1>9, <1>11, SMTT(30)
<1> HIDE DEF Z
<1>12. \A d \in Nat : d \in Z
  BY <1>10, <1>11, InductionOnNat
<1> QED BY <1>9, <1>12 DEF Z, G

-----------------------------------------------------------------------------
(* The room set aside.                                                     *)

LEMMA SizeCases ==
  ASSUME NEW Q, NEW av
  PROVE  /\ av.type = AMF_NUMBER      => ValueSize(Q, av) = 1 + 8
         /\ av.type = AMF_BOOLEAN     => ValueSize(Q, av) = 1 + 1
         /\ av.type = AMF_STRING      => ValueSize(Q, av) = 1 + (2 + Len(av.value))
         /\ av.type = AMF_HASH        => ValueSize(Q, av) = 1 + (ElemsSize(Q, av.value) + 3)
         /\ av.type = AMF_ASSOC_ARRAY => ValueSize(Q, av) = 1 + (4 + ElemsSize(Q, av.value))
         /\ av.type = AMF_ARRAY       => ValueSize(Q, av) = 1 + (4 + ItemsSize(Q, av.value))
         /\ av.type = AMF_LINK        => ValueSize(Q, av) = 1 + 2
         /\ av.type \notin Typed      => ValueSize(Q, av) = 1 + 0
BY DEF ValueSize, HashEndSize, Typed, AMF_NUMBER, AMF_BOOLEAN, AMF_STRING, AMF_LINK, AMF_ARRAY,
       AMF_HASH, AMF_ASSOC_ARRAY

\* P packs what is in A.
Packer(P, A) == P \in [A -> Seq(Byte)]

\* Q has the room that P takes for it.
RoomOf(Q, P, A) == \A a \in A : Q[a] = Len(P[a])

\* Then arrays and tables of it get the room they take.
LEMMA PartsSize ==
  ASSUME NEW A, NEW P, Packer(P, A), NEW Q, RoomOf(Q, P, A)
  PROVE  /\ \A t \in Seq(A) : ItemsSize(Q, t) = Len(PackItems(P, t))
         /\ \A t \in Tables(A) : ElemsSize(Q, t) = Len(PackElems(P, t))
<1>0. P \in [A -> Seq(Byte)]
  BY DEF Packer
<1>1. ASSUME NEW t \in Seq(A) PROVE ItemsSize(Q, t) = Len(PackItems(P, t))
  <2>1. /\ Items(P, t) \in Seq(Seq(Byte)) /\ Len(Items(P, t)) = Len(t)
        /\ \A i \in 1 .. Len(t) : Items(P, t)[i] = P[t[i]] /\ P[t[i]] \in Seq(Byte)
    BY <1>0, ItemsType
  <2>2. \A i \in 1 .. Len(t) : t[i] \in A
    OBVIOUS
  <2>3. PackItems(P, t) = FlattenSeq(Items(P, t))
    BY DEF PackItems, Items
  <2>4. PICK s : s = Items(P, t)
    OBVIOUS
  <2>5. Len(FlattenSeq(s)) = Total([i \in 1 .. Len(s) |-> Len(s[i])])
    BY <2>1, <2>4, FlattenedLength
  <2>6. [i \in 1 .. Len(s) |-> Len(s[i])] = [i \in 1 .. Len(t) |-> Q[t[i]]]
    BY <2>1, <2>2, <2>4 DEF RoomOf
  <2> QED BY <2>3, <2>4, <2>5, <2>6 DEF ItemsSize
<1>2. ASSUME NEW t \in Tables(A)
      PROVE  ElemsSize(Q, t) = Len(PackElems(P, t))
  <2>1. /\ Elems(P, t) \in Seq(Seq(Byte)) /\ Len(Elems(P, t)) = Len(t)
        /\ \A i \in 1 .. Len(t) :
             /\ t[i].value \in A
             /\ Sized(Elems(P, t)[i], Len(t[i].key) + 2 + Len(P[t[i].value]))
    BY <1>0, ElemsType
  <2>2. PICK s : s = Elems(P, t)
    OBVIOUS
  <2>3. \A i \in 1 .. Len(t) : t[i].value \in A /\ Len(s[i]) = Len(t[i].key) + 2 + Len(P[t[i].value])
    BY <2>1, <2>2, SizedType
  <2>4. PackElems(P, t) = FlattenSeq(s)
    BY <2>2 DEF PackElems, Elems
  <2>5. Len(FlattenSeq(s)) = Total([i \in 1 .. Len(s) |-> Len(s[i])])
    BY <2>1, <2>2, FlattenedLength
  <2>6. [i \in 1 .. Len(s) |-> Len(s[i])] =
          [i \in 1 .. Len(t) |-> Len(t[i].key) + 2 + Q[t[i].value]]
    BY <2>1, <2>2, <2>3 DEF RoomOf
  <2> QED BY <2>4, <2>5, <2>6 DEF ElemsSize
<1> QED BY <1>1, <1>2

LEMMA ValueSized ==
  ASSUME NEW d \in Nat, NEW P, Packer(P, AVs[d]), NEW Q, RoomOf(Q, P, AVs[d]),
         NEW av \in AVs[d + 1]
  PROVE  ValueSize(Q, av) = Len(PackValue(P, av))
<1> DEFINE b == Body(P, av)
           x == av.value
           A == AVs[d]
<1>0. Packer(P, A) /\ RoomOf(Q, P, A)
  OBVIOUS
<1>1. Len(PackValue(P, av)) = 1 + Len(b)
  BY BodyType DEF Packer
<1>2. CASE av.type = AMF_NUMBER
  BY <1>1, <1>2, BodySize, SizeCases, SizedType DEF Packer
<1>3. CASE av.type = AMF_BOOLEAN
  BY <1>1, <1>3, BodySize, SizeCases, SizedType DEF Packer
<1>4. CASE av.type = AMF_STRING
  <2>1. Len(x) \in Nat
    <3>1. x \in Seq(Byte)
      BY <1>4, AVCases
    <3> HIDE DEF x
    <3> QED BY <3>1
  <2>2. Len(b) = Len(x) + 2
    BY <1>4, BodySize, SizedType DEF Packer
  <2>3. ValueSize(Q, av) = 1 + (2 + Len(x))
    BY <1>4, SizeCases
  <2> HIDE DEF b, x
  <2> QED BY <1>1, <2>1, <2>2, <2>3
<1>5. CASE av.type = AMF_HASH
  <2>1. x \in Tables(A)
    BY <1>5, AVCases
  <2>2. ElemsSize(Q, x) = Len(PackElems(P, x))
    <3> HIDE DEF A, x, b
    <3> QED BY <1>0, <2>1, PartsSize
  <2>3. Len(b) = Len(PackElems(P, x)) + 3
    BY <1>5, BodySize, SizedType DEF Packer
  <2>4. ValueSize(Q, av) = 1 + (ElemsSize(Q, x) + 3)
    BY <1>5, SizeCases
  <2> HIDE DEF b, x
  <2> QED BY <1>1, <2>2, <2>3, <2>4
<1>6. CASE av.type = AMF_ASSOC_ARRAY
  <2>1. x \in Tables(A)
    BY <1>6, AVCases
  <2>2. ElemsSize(Q, x) = Len(PackElems(P, x))
    <3> HIDE DEF A, x, b
    <3> QED BY <1>0, <2>1, PartsSize
  <2>3. Len(b) = 4 + Len(PackElems(P, x))
    BY <1>6, BodySize, SizedType DEF Packer
  <2>4. ValueSize(Q, av) = 1 + (4 + ElemsSize(Q, x))
    BY <1>6, SizeCases
  <2> HIDE DEF b, x
  <2> QED BY <1>1, <2>2, <2>3, <2>4
<1>7. CASE av.type = AMF_ARRAY
  <2>1. x \in Seq(A)
    BY <1>7, AVCases
  <2>2. ItemsSize(Q, x) = Len(PackItems(P, x))
    <3> HIDE DEF A, x, b
    <3> QED BY <1>0, <2>1, PartsSize
  <2>3. Len(b) = 4 + Len(PackItems(P, x))
    BY <1>7, BodySize, SizedType DEF Packer
  <2>4. ValueSize(Q, av) = 1 + (4 + ItemsSize(Q, x))
    BY <1>7, SizeCases
  <2> HIDE DEF b, x
  <2> QED BY <1>1, <2>2, <2>3, <2>4
<1>8. CASE av.type = AMF_LINK
  BY <1>1, <1>8, BodySize, SizeCases, SizedType DEF Packer
<1>9. CASE av.type \notin Typed
  BY <1>1, <1>9, BodySize, SizeCases, SizedType DEF Packer
<1> QED BY <1>2, <1>3, <1>4, <1>5, <1>6, <1>7, <1>8, <1>9 DEF Typed

\* At each level the room is what PackTo takes.
LEMMA PackSizeLevels ==
  \A d \in Nat : \A av \in AVs[d] : PackSizeTo[d][av] = Len(PackTo[d][av])
<1> DEFINE Is(f) == f = [d \in Nat |-> IF d = 0 THEN << >>
                                       ELSE [av \in AVs[d] |-> ValueSize(f[d - 1], av)]]
           S == CHOOSE f : Is(f)
           L(d) == [av \in AVs[d] |-> Len(PackTo[d][av])]
           f == [d \in Nat |-> L(d)]
<1>1. L(0) = << >>
  BY AVLevels
<1>2. ASSUME NEW d \in Nat
      PROVE  L(d + 1) = [av \in AVs[d + 1] |-> ValueSize(L(d), av)]
  <2>1. RoomOf(L(d), PackTo[d], AVs[d])
    BY DEF RoomOf
  <2> HIDE DEF L
  <2>2. ASSUME NEW av \in AVs[d + 1] PROVE ValueSize(L(d), av) = Len(PackTo[d + 1][av])
    <3>1. PackTo[d] \in [AVs[d] -> Seq(Byte)] /\ PackTo[d + 1][av] = PackValue(PackTo[d], av)
      BY PackLevels
    <3>2. Packer(PackTo[d], AVs[d])
      BY <3>1 DEF Packer
    <3>3. ValueSize(L(d), av) = Len(PackValue(PackTo[d], av))
      BY <2>1, <3>2, ValueSized
    <3> QED BY <3>1, <3>3
  <2> QED BY <2>2 DEF L
<1> HIDE DEF L
<1>3. Is(f)
  <2>1. ASSUME NEW d \in Nat
        PROVE  L(d) = IF d = 0 THEN << >> ELSE [av \in AVs[d] |-> ValueSize(f[d - 1], av)]
    <3>1. CASE d = 0
      BY <1>1, <3>1
    <3>2. CASE d # 0
      <4>1. d - 1 \in Nat /\ (d - 1) + 1 = d /\ f[d - 1] = L(d - 1)
        BY <3>2
      <4> HIDE DEF f
      <4> QED BY <1>2, <3>2, <4>1
    <3> QED BY <3>1, <3>2
  <2> QED BY <2>1
<1>4. Is(S)
  BY <1>3
<1>5. PackSizeTo = S
  BY DEF PackSizeTo
<1> HIDE DEF S
<1> DEFINE Z == {d \in Nat : PackSizeTo[d] = L(d)}
<1>6. 0 \in Z
  BY <1>1, <1>4, <1>5
<1>7. ASSUME NEW d \in Nat, d \in Z PROVE d + 1 \in Z
  <2>1. d + 1 \in Nat /\ d + 1 # 0 /\ (d + 1) - 1 = d
    OBVIOUS
  <2>2. PackSizeTo[d + 1] = [av \in AVs[d + 1] |-> ValueSize(PackSizeTo[d], av)]
    BY <1>4, <1>5, <2>1
  <2> QED BY <1>2, <1>7, <2>2
<1> HIDE DEF Z
<1>8. \A d \in Nat : d \in Z
  BY <1>6, <1>7, InductionOnNat
<1> QED BY <1>8 DEF Z, L

\* The values that Pack and PackSize are about: no deeper than MaxDepth.
LEMMA DepthFound ==
  ASSUME NEW av \in AVs[MaxDepth]
  PROVE  Depth(av) \in 1 .. MaxDepth /\ Depth(av) \in Nat /\ av \in AVs[Depth(av)]
<1>1. MaxDepth \in 1 .. MaxDepth
  BY MaxDepthAssumption
<1>2. Depth(av) \in 1 .. MaxDepth /\ av \in AVs[Depth(av)]
  BY <1>1 DEF Depth
<1> QED BY <1>2

\* The room set aside for a value, amf_get_pack_size, is the room that amf_pack takes for
\* it, for every value: arrays and tables in each other included.
THEOREM PackTakesItsRoom ==
  ASSUME NEW av \in AVs[MaxDepth]
  PROVE  Pack(av) \in Seq(Byte) /\ Len(Pack(av)) = PackSize(av)
<1>1. Depth(av) \in Nat /\ av \in AVs[Depth(av)]
  BY DepthFound
<1>2. PackTo[Depth(av)] \in [AVs[Depth(av)] -> Seq(Byte)]
  BY <1>1, PackLevels
<1>3. PackSizeTo[Depth(av)][av] = Len(PackTo[Depth(av)][av])
  BY <1>1, PackSizeLevels
<1> QED BY <1>1, <1>2, <1>3 DEF Pack, PackSize

\* So is the room for the data of a packet, in amf_pack_arguments.
THEOREM ArgumentsTakeTheirRoom ==
  ASSUME NEW values \in Seq(AVs[MaxDepth])
  PROVE  /\ PackArguments(values).data \in Seq(Byte)
         /\ PackArguments(values).room = Len(PackArguments(values).data)
<1> DEFINE s == [i \in 1 .. Len(values) |-> Pack(values[i])]
           r == [i \in 1 .. Len(values) |-> PackSize(values[i])]
           n == Len(values)
           B == Seq(Byte)
<1>1. \A i \in 1 .. n : values[i] \in AVs[MaxDepth]
  OBVIOUS
<1>2. \A i \in 1 .. n : Pack(values[i]) \in B /\ Len(Pack(values[i])) = PackSize(values[i])
  BY <1>1, PackTakesItsRoom
<1>3. n \in Nat
  OBVIOUS
<1>4. s \in Seq(B) /\ Len(s) = n /\ \A i \in 1 .. n : s[i] = Pack(values[i])
  <2> HIDE DEF n, B
  <2>1. s = [i \in 1 .. n |-> Pack(values[i])]
    BY DEF n
  <2> HIDE DEF s
  <2> QED BY <1>2, <1>3, <2>1
<1>5. r = [i \in 1 .. Len(s) |-> Len(s[i])]
  <2> HIDE DEF s, B
  <2> QED BY <1>2, <1>4
<1>6. PackArguments(values) = [data |-> FlattenSeq(s), room |-> Total(r)]
  BY DEF PackArguments
<1> HIDE DEF s, r
<1>7. FlattenSeq(s) \in Seq(Byte) /\ Len(FlattenSeq(s)) = Total(r)
  BY <1>4, <1>5, FlattenedLength
<1> QED BY <1>6, <1>7

-----------------------------------------------------------------------------
(* Reading.                                                                *)

\* The data of a packet and the byte behind it.
IsMemory(m) == m.data \in Seq(Byte) /\ m.stale \in Byte

LEMMA AtByte == ASSUME NEW m, IsMemory(m), NEW k \in Nat \ {0} PROVE At(m, k) \in Byte
<1>1. m.data \in Seq(Byte) /\ m.stale \in Byte /\ Len(m.data) \in Nat
  BY DEF IsMemory
<1>2. CASE k <= Len(m.data)
  <2>1. k \in 1 .. Len(m.data)
    BY <1>1, <1>2
  <2>2. m.data[k] \in Byte
    BY <1>1, <2>1
  <2> QED BY <1>2, <2>2 DEF At
<1>3. CASE ~(k <= Len(m.data))
  BY <1>1, <1>3 DEF At
<1> QED BY <1>2, <1>3

LEMMA BytesType ==
  ASSUME NEW m, IsMemory(m), NEW i \in Nat, NEW n \in Nat
  PROVE  /\ Sized(Bytes(m, i, n), n)
         /\ \A k \in 1 .. n : Bytes(m, i, n)[k] = At(m, i + k)
<1> DEFINE e(k) == At(m, i + k)
<1>1. \A k \in 1 .. n : e(k) \in Byte
  <2> SUFFICES ASSUME NEW k \in 1 .. n PROVE At(m, i + k) \in Byte
    OBVIOUS
  <2>1. i + k \in Nat \ {0}
    OBVIOUS
  <2> QED BY <2>1, AtByte
<1>2. Bytes(m, i, n) = [k \in 1 .. n |-> e(k)]
  BY DEF Bytes
<1> HIDE DEF e
<1>3. /\ [k \in 1 .. n |-> e(k)] \in Seq(Byte) /\ Len([k \in 1 .. n |-> e(k)]) = n
  BY <1>1
<1>4. \A k \in 1 .. n : [j \in 1 .. n |-> e(j)][k] = e(k)
  OBVIOUS
<1> QED BY <1>2, <1>3, <1>4 DEF Sized, e

LEMMA SignedRange ==
  ASSUME NEW a \in Byte PROVE Signed(a) \in Int /\ Signed(a) >= -128 /\ Signed(a) <= 127
BY DEF Signed, Byte

LEMMA ShortRange == ASSUME NEW a \in Byte, NEW b \in Byte PROVE Signed(a) * 256 + b \in Shorts
<1> DEFINE v == Signed(a) * 256 + b
<1>1. v \in Int /\ v >= -32768 /\ v <= 32767
  <2>1. Signed(a) \in Int /\ Signed(a) >= -128 /\ Signed(a) <= 127
    BY SignedRange
  <2>2. b \in Int /\ 0 <= b /\ b <= 255
    BY DEF Byte
  <2> QED BY <2>1, <2>2
<1> HIDE DEF v
<1>2. MaxShort \in Int /\ v >= -MaxShort - 1 /\ v <= MaxShort
  BY <1>1 DEF MaxShort
<1>3. v \in Shorts
  BY <1>1, <1>2 DEF Shorts
<1> QED BY <1>3 DEF v

LEMMA ShortsInt == Shorts \subseteq Int
<1>1. MaxShort \in Int
  BY DEF MaxShort
<1> QED BY <1>1 DEF Shorts

LEMMA ReadTypes ==
  ASSUME NEW m, IsMemory(m), NEW i \in Nat
  PROVE  ReadShort(Bytes(m, i, 2), 1) \in Shorts /\ ReadInt(Bytes(m, i, 4), 1) \in Int
<1>1. At(m, i + 1) \in Byte /\ At(m, i + 2) \in Byte /\ At(m, i + 3) \in Byte /\ At(m, i + 4) \in Byte
  BY AtByte
<1>2. Bytes(m, i, 2)[1] = At(m, i + 1) /\ Bytes(m, i, 2)[2] = At(m, i + 2)
  <2>1. \A k \in 1 .. 2 : Bytes(m, i, 2)[k] = At(m, i + k)
    BY BytesType
  <2> QED BY <2>1
<1>3. /\ Bytes(m, i, 4)[1] = At(m, i + 1) /\ Bytes(m, i, 4)[2] = At(m, i + 2)
      /\ Bytes(m, i, 4)[3] = At(m, i + 3) /\ Bytes(m, i, 4)[4] = At(m, i + 4)
  <2>1. \A k \in 1 .. 4 : Bytes(m, i, 4)[k] = At(m, i + k)
    BY BytesType
  <2> QED BY <2>1
<1>4. \A a, b \in Byte : Signed(a) * 256 + b \in Shorts
  BY ShortRange
<1>5. ASSUME NEW a \in Byte, NEW b \in Byte, NEW c \in Byte, NEW d \in Byte
      PROVE  ((Signed(a) * 256 + b) * 256 + c) * 256 + d \in Int
  <2>1. Signed(a) \in Int /\ b \in Int /\ c \in Int /\ d \in Int
    BY SignedRange DEF Byte
  <2> QED BY <2>1
<1>6. ReadShort(Bytes(m, i, 2), 1) = Signed(At(m, i + 1)) * 256 + At(m, i + 2)
  BY <1>2 DEF ReadShort
<1>7. ReadInt(Bytes(m, i, 4), 1) =
        ((Signed(At(m, i + 1)) * 256 + At(m, i + 2)) * 256 + At(m, i + 3)) * 256 + At(m, i + 4)
  BY <1>3 DEF ReadInt
<1> QED BY <1>1, <1>4, <1>5, <1>6, <1>7

LEMMA NowhereNat == Nowhere \in Nat /\ Nowhere > 0
BY DEF Nowhere

LEMMA UnpackStringType ==
  ASSUME NEW m, IsMemory(m), NEW i \in Nat
  PROVE  /\ UnpackString(m, i).value \in Seq(Byte)
         /\ UnpackString(m, i).next \in Nat /\ UnpackString(m, i).next >= i + 2
<1> DEFINE size == ReadShort(Bytes(m, i, 2), 1)
           n    == IF size < 0 THEN Nowhere ELSE size
<1>1. size \in Int
  BY ShortsInt, ReadTypes
<1>2. UnpackString(m, i) = [value |-> Bytes(m, i + 2, size), next |-> i + 2 + n]
  BY DEF UnpackString
<1> HIDE DEF size
<1>3. n \in Nat
  BY <1>1, NowhereNat
<1> HIDE DEF n
<1>4. Bytes(m, i + 2, size) \in Seq(Byte)
  <2>1. i + 2 \in Nat
    OBVIOUS
  <2>2. CASE size \in Nat
    BY <2>1, <2>2, BytesType, SizedType
  <2>3. CASE size \notin Nat
    <3>1. 1 .. size = {}
      BY <1>1, <2>3
    <3>2. Bytes(m, i + 2, size) = << >>
      BY <3>1 DEF Bytes
    <3> QED BY <3>2, EmptySeq
  <2> QED BY <2>2, <2>3
<1>5. UnpackString(m, i).value = Bytes(m, i + 2, size) /\ UnpackString(m, i).next = i + 2 + n
  BY <1>2
<1>6. i + 2 + n \in Nat /\ i + 2 + n >= i + 2
  BY <1>3
<1> QED BY <1>4, <1>5, <1>6

\* R reads values that are in A, forward, and END behind the data.
Reader(m, R, A) ==
  \A i \in Nat : /\ R[i].av \in A /\ R[i].next \in Nat /\ R[i].next >= i
                 /\ Len(m.data) <= i => R[i].av.type = AMF_END

\* One more value of an array.
OneItem(R, x) == [value |-> Append(x.value, R[x.next].av), next |-> R[x.next].next]

\* The rounds of ItemsRead.
LEMMA ItemsRounds ==
  ASSUME NEW m, NEW R, NEW A, Reader(m, R, A), NEW i \in Nat
  PROVE  LET r == ItemsRead(R, i)
         IN /\ r[0] = [value |-> << >>, next |-> i]
            /\ \A n \in Nat :
                 /\ r[n] \in [value : Seq(A), next : Nat] /\ r[n].next >= i
                 /\ r[n + 1] = OneItem(R, r[n])
<1> DEFINE S == [value : Seq(A), next : Nat]
           T == {x \in S : x.next >= i}
           W == [n \in Nat |-> T]
           b == [value |-> << >>, next |-> i]
           G(x) == [value |-> Append(x.value, R[x.next].av), next |-> R[x.next].next]
           g == [n \in Nat |-> [x \in T |-> G(x)]]
           Is(f) == f = [n \in Nat |->
                          IF n = 0 THEN [value |-> << >>, next |-> i]
                          ELSE LET sofar == f[n - 1]
                                   one   == R[sofar.next]
                               IN [value |-> Append(sofar.value, one.av), next |-> one.next]]
           r == CHOOSE f : Is(f)
<1>1. \A k \in Nat : R[k].av \in A /\ R[k].next \in Nat /\ R[k].next >= k
  BY DEF Reader
<1>2. ASSUME NEW x \in T PROVE G(x) \in T
  <2>1. x.value \in Seq(A) /\ x.next \in Nat /\ x.next >= i
    OBVIOUS
  <2>2. R[x.next].av \in A /\ R[x.next].next \in Nat /\ R[x.next].next >= x.next
    BY <1>1, <2>1
  <2>3. Append(x.value, R[x.next].av) \in Seq(A)
    BY <2>1, <2>2, AppendProperties
  <2>4. G(x) \in S
    BY <2>2, <2>3
  <2>5. G(x).next >= i
    BY <2>1, <2>2
  <2> QED BY <2>4, <2>5
<1>3. b \in T
  OBVIOUS
<1>4. r = ItemsRead(R, i)
  BY DEF ItemsRead
<1> HIDE DEF G, T
<1>5. /\ \A n \in Nat : W[n] = T
      /\ \A n \in Nat : \A x \in T : g[n][x] = G(x)
  OBVIOUS
<1> HIDE DEF W, g
<1>6. ASSUME NEW n \in Nat, NEW x \in W[n] PROVE g[n][x] \in W[n + 1]
  <2>1. n + 1 \in Nat
    OBVIOUS
  <2> QED BY <1>2, <1>5, <1>6, <2>1
<1>7. b \in W[0]
  <2>1. 0 \in Nat
    OBVIOUS
  <2> HIDE DEF b
  <2> QED BY <1>3, <1>5, <2>1
<1>8. PICK f : Recursive(f, b, g, W)
  <2> HIDE DEF b
  <2> QED BY <1>6, <1>7, Recursion, SMTT(30)
<1>9. Is(f)
  <2>1. ASSUME NEW n \in Nat, n # 0 PROVE f[n] = G(f[n - 1])
    <3>1. n - 1 \in Nat
      BY <2>1
    <3>2. f[n] = g[n - 1][f[n - 1]] /\ f[n - 1] \in W[n - 1]
      BY <1>8, <2>1, <3>1 DEF Recursive
    <3> QED BY <1>5, <3>1, <3>2
  <2>2. f = [n \in Nat |-> f[n]] /\ f[0] = b
    BY <1>8 DEF Recursive
  <2>3. f = [n \in Nat |-> IF n = 0 THEN b ELSE G(f[n - 1])]
    <3> HIDE DEF b
    <3> QED BY <2>1, <2>2, ZenonT(30)
  <2> QED BY <2>3, ZenonT(30) DEF G
<1>10. r = [n \in Nat |-> IF n = 0 THEN b ELSE G(r[n - 1])]
  <2>1. Is(r)
    BY <1>9, ZenonT(30)
  <2> HIDE DEF r
  <2> QED BY <2>1, ZenonT(30) DEF G
<1> HIDE DEF r, b
<1>11. r[0] = b /\ \A n \in Nat : r[n + 1] = G(r[n])
  <2>1. r[0] = b
    BY <1>10
  <2>2. ASSUME NEW n \in Nat PROVE r[n + 1] = G(r[n])
    <3>1. n + 1 \in Nat /\ n + 1 # 0 /\ (n + 1) - 1 = n
      OBVIOUS
    <3> QED BY <1>10, <3>1
  <2> QED BY <2>1, <2>2
<1> DEFINE Z == {n \in Nat : r[n] \in T}
<1>12. 0 \in Z
  BY <1>3, <1>11
<1>13. ASSUME NEW n \in Nat, n \in Z PROVE n + 1 \in Z
  BY <1>2, <1>11, <1>13
<1> HIDE DEF Z
<1>14. \A n \in Nat : n \in Z
  BY <1>12, <1>13, InductionOnNat
<1>15. \A n \in Nat : r[n] \in S /\ r[n].next >= i
  BY <1>14 DEF Z, T
<1>16. \A n \in Nat : r[n + 1] = OneItem(R, r[n])
  BY <1>11 DEF G, OneItem
<1> QED BY <1>4, <1>11, <1>15, <1>16 DEF b

\* One more element of a table.
OneMore(m, R, x) ==
  LET key == UnpackString(m, x.next)
      one == R[key.next]
  IN IF ~x.open THEN x
     ELSE IF one.av.type = AMF_END
            THEN [value |-> x.value, next |-> one.next, open |-> FALSE]
            ELSE [value |-> Append(x.value, Elem(key.value, one.av)),
                  next |-> one.next, open |-> TRUE]

\* The rounds of ElemsRead for elements in A from i on.
Rounds(A, i) == {x \in [value : Tables(A), next : Nat, open : BOOLEAN] : x.next >= i}

LEMMA OneMoreType ==
  ASSUME NEW m, IsMemory(m), NEW R, NEW A, Reader(m, R, A), NEW i \in Nat, NEW x \in Rounds(A, i)
  PROVE  /\ OneMore(m, R, x) \in Rounds(A, i)
         /\ OneMore(m, R, x).open => x.open /\ OneMore(m, R, x).next >= x.next + 2
         /\ x.open /\ x.next + 2 >= Len(m.data) => ~OneMore(m, R, x).open
<1> DEFINE key == UnpackString(m, x.next)
           one == R[key.next]
<1>1. x.value \in Tables(A) /\ x.next \in Nat /\ x.open \in BOOLEAN /\ x.next >= i
  BY DEF Rounds
<1>2. key.value \in Seq(Byte) /\ key.next \in Nat /\ key.next >= x.next + 2
  BY <1>1, UnpackStringType
<1> HIDE DEF key
<1>3. /\ one.av \in A /\ one.next \in Nat /\ one.next >= key.next
      /\ Len(m.data) <= key.next => one.av.type = AMF_END
  BY <1>2 DEF Reader
<1>4. OneMore(m, R, x) =
        IF ~x.open THEN x
        ELSE IF one.av.type = AMF_END
               THEN [value |-> x.value, next |-> one.next, open |-> FALSE]
               ELSE [value |-> Append(x.value, Elem(key.value, one.av)),
                     next |-> one.next, open |-> TRUE]
  BY DEF OneMore, key
<1>5. Append(x.value, Elem(key.value, one.av)) \in Tables(A)
  <2> DEFINE E == [key : Seq(Byte), value : A]
  <2>1. Elem(key.value, one.av) \in E
    BY <1>2, <1>3 DEF Elem
  <2>2. x.value \in Seq(E)
    BY <1>1 DEF Tables
  <2> HIDE DEF E, one
  <2>3. Append(x.value, Elem(key.value, one.av)) \in Seq(E)
    BY <2>1, <2>2, AppendProperties
  <2> QED BY <2>3 DEF Tables, E
<1>6. PICK longer : longer = Append(x.value, Elem(key.value, one.av))
  OBVIOUS
<1>7. PICK next \in Nat : next = one.next
  BY <1>3
<1>8. next >= x.next + 2 /\ next >= i
  BY <1>1, <1>2, <1>3, <1>7
<1>9. Len(m.data) \in Nat
  BY DEF IsMemory
<1> HIDE DEF one
<1>10. CASE ~x.open
  BY <1>4, <1>10
<1>11. CASE x.open /\ one.av.type = AMF_END
  <2>1. OneMore(m, R, x) = [value |-> x.value, next |-> next, open |-> FALSE]
    BY <1>4, <1>7, <1>11
  <2> HIDE DEF OneMore
  <2>2. ~OneMore(m, R, x).open
    BY <2>1
  <2>3. OneMore(m, R, x) \in Rounds(A, i)
    BY <1>1, <1>8, <2>1 DEF Rounds
  <2> QED BY <2>2, <2>3
<1>12. CASE x.open /\ one.av.type # AMF_END
  <2>1. OneMore(m, R, x) = [value |-> longer, next |-> next, open |-> TRUE]
    BY <1>4, <1>6, <1>7, <1>12
  <2>2. longer \in Tables(A)
    BY <1>5, <1>6
  <2>3. OneMore(m, R, x) \in Rounds(A, i)
    BY <1>8, <2>1, <2>2 DEF Rounds
  <2>4. OneMore(m, R, x).next = next
    BY <2>1
  <2>5. ~(Len(m.data) <= key.next)
    BY <1>3, <1>12 DEF one
  <2>6. ~(x.next + 2 >= Len(m.data))
    BY <1>1, <1>2, <1>9, <2>5
  <2> QED BY <1>8, <1>12, <2>3, <2>4, <2>6
<1> QED BY <1>1, <1>10, <1>11, <1>12

LEMMA ElemsRounds ==
  ASSUME NEW m, IsMemory(m), NEW R, NEW A, Reader(m, R, A), NEW i \in Nat
  PROVE  LET r == ElemsRead(m, R, i)
         IN /\ r[0] = [value |-> << >>, next |-> i, open |-> TRUE]
            /\ \A n \in Nat : r[n] \in Rounds(A, i) /\ r[n + 1] = OneMore(m, R, r[n])
<1> DEFINE T == Rounds(A, i)
           W == [n \in Nat |-> T]
           b == [value |-> << >>, next |-> i, open |-> TRUE]
           G(x) == OneMore(m, R, x)
           g == [n \in Nat |-> [x \in T |-> G(x)]]
           Is(f) == f = [n \in Nat |->
                          IF n = 0 THEN [value |-> << >>, next |-> i, open |-> TRUE]
                          ELSE LET sofar == f[n - 1]
                                   key   == UnpackString(m, sofar.next)
                                   one   == R[key.next]
                               IN IF ~sofar.open THEN sofar
                                  ELSE IF one.av.type = AMF_END
                                         THEN [value |-> sofar.value, next |-> one.next, open |-> FALSE]
                                         ELSE [value |-> Append(sofar.value, Elem(key.value, one.av)),
                                               next |-> one.next, open |-> TRUE]]
           r == CHOOSE f : Is(f)
<1>2. ASSUME NEW x \in T PROVE G(x) \in T
  BY OneMoreType
<1>3. b \in T
  <2>1. << >> \in Tables(A)
    BY DEF Tables
  <2>2. i >= i
    OBVIOUS
  <2> QED BY <2>1, <2>2 DEF Rounds
<1>4. r = ElemsRead(m, R, i)
  BY DEF ElemsRead
<1> HIDE DEF G, T
<1>5. /\ \A n \in Nat : W[n] = T
      /\ \A n \in Nat : \A x \in T : g[n][x] = G(x)
  OBVIOUS
<1> HIDE DEF W, g
<1>6. ASSUME NEW n \in Nat, NEW x \in W[n] PROVE g[n][x] \in W[n + 1]
  <2>1. n + 1 \in Nat
    OBVIOUS
  <2> QED BY <1>2, <1>5, <1>6, <2>1
<1>7. b \in W[0]
  <2>1. 0 \in Nat
    OBVIOUS
  <2> HIDE DEF b
  <2> QED BY <1>3, <1>5, <2>1
<1>8. PICK f : Recursive(f, b, g, W)
  <2> HIDE DEF b
  <2> QED BY <1>6, <1>7, Recursion, SMTT(30)
<1>9. Is(f)
  <2>1. ASSUME NEW n \in Nat, n # 0 PROVE f[n] = G(f[n - 1])
    <3>1. n - 1 \in Nat
      BY <2>1
    <3>2. f[n] = g[n - 1][f[n - 1]] /\ f[n - 1] \in W[n - 1]
      BY <1>8, <2>1, <3>1, ZenonT(30) DEF Recursive
    <3> QED BY <1>5, <3>1, <3>2
  <2>2. f = [n \in Nat |-> f[n]] /\ f[0] = b
    BY <1>8 DEF Recursive
  <2>3. f = [n \in Nat |-> IF n = 0 THEN b ELSE G(f[n - 1])]
    <3> HIDE DEF b
    <3> QED BY <2>1, <2>2
  <2> QED BY <2>3, ZenonT(30) DEF G, OneMore
<1>10. r = [n \in Nat |-> IF n = 0 THEN b ELSE G(r[n - 1])]
  <2>1. Is(r)
    BY <1>9, ZenonT(30)
  <2> HIDE DEF r
  <2> QED BY <2>1, ZenonT(30) DEF G, OneMore
<1> HIDE DEF r, b
<1>11. r[0] = b /\ \A n \in Nat : r[n + 1] = G(r[n])
  <2>1. r[0] = b
    BY <1>10
  <2>2. ASSUME NEW n \in Nat PROVE r[n + 1] = G(r[n])
    <3>1. n + 1 \in Nat /\ n + 1 # 0 /\ (n + 1) - 1 = n
      OBVIOUS
    <3> QED BY <1>10, <3>1
  <2> QED BY <2>1, <2>2
<1> DEFINE Z == {n \in Nat : r[n] \in T}
<1>12. 0 \in Z
  BY <1>3, <1>11
<1>13. ASSUME NEW n \in Nat, n \in Z PROVE n + 1 \in Z
  BY <1>2, <1>11, <1>13
<1> HIDE DEF Z
<1>14. \A n \in Nat : n \in Z
  BY <1>12, <1>13, InductionOnNat
<1>15. \A n \in Nat : r[n] \in Rounds(A, i)
  BY <1>14 DEF Z, T
<1>16. \A n \in Nat : r[n + 1] = OneMore(m, R, r[n])
  BY <1>11 DEF G
<1> QED BY <1>4, <1>11, <1>15, <1>16 DEF b

\* Whether there are no more elements after k rounds, as in UnpackElems.
Over(m, R, i, count, k) == k >= count \/ ~ElemsRead(m, R, i)[k].open

\* A table ends with the data.
LEMMA ElemsEnd ==
  ASSUME NEW m, IsMemory(m), Len(m.data) > 0, NEW R, NEW A, Reader(m, R, A), NEW i \in Nat
  PROVE  ~ElemsRead(m, R, i)[Len(m.data)].open
<1> DEFINE r == ElemsRead(m, R, i)
           last == Len(m.data)
           Z == {k \in Nat : r[k].open => r[k].next >= i + 2 * k}
<1>1. /\ r[0] = [value |-> << >>, next |-> i, open |-> TRUE]
      /\ \A k \in Nat : r[k] \in Rounds(A, i) /\ r[k + 1] = OneMore(m, R, r[k])
  BY ElemsRounds, ZenonT(30)
<1>2. last \in Nat /\ last > 0
  BY DEF IsMemory
<1> HIDE DEF r
<1>4. \A k \in Nat : r[k].next \in Nat
  BY <1>1 DEF Rounds
<1>5. 0 \in Z
  <2>1. r[0].next = i
    BY <1>1
  <2>2. i >= i + 2 * 0
    OBVIOUS
  <2> QED BY <2>1, <2>2
<1>6. ASSUME NEW k \in Nat, k \in Z PROVE k + 1 \in Z
  <2> SUFFICES ASSUME r[k + 1].open PROVE r[k + 1].next >= i + 2 * (k + 1)
    BY <1>6
  <2>0. r[k] \in Rounds(A, i) /\ r[k + 1] = OneMore(m, R, r[k])
    BY <1>1
  <2>1. r[k].open /\ r[k + 1].next >= r[k].next + 2
    BY <2>0, OneMoreType
  <2>2. r[k].next >= i + 2 * k
    BY <1>6, <2>1
  <2>3. r[k].next \in Nat /\ r[k + 1].next \in Nat
    BY <1>4
  <2> QED BY <2>1, <2>2, <2>3, SMTT(30)
<1> HIDE DEF Z
<1>7. \A k \in Nat : k \in Z
  BY <1>5, <1>6, InductionOnNat
<1> SUFFICES ASSUME r[last].open PROVE FALSE
  BY DEF r
<1>8. last - 1 \in Nat /\ (last - 1) + 1 = last
  BY <1>2
<1> DEFINE before == last - 1
<1> HIDE DEF before
<1>9. before \in Nat /\ r[last] = OneMore(m, R, r[before]) /\ r[before] \in Rounds(A, i)
  BY <1>1, <1>8 DEF before
<1>10. r[before].open
  BY <1>9, OneMoreType
<1>11. r[before].next >= i + 2 * before /\ r[before].next \in Nat
  BY <1>4, <1>7, <1>9, <1>10 DEF Z
<1>12. r[before].next + 2 >= last
  BY <1>2, <1>11 DEF before
<1>13. ~OneMore(m, R, r[before]).open
  BY <1>9, <1>10, <1>12, OneMoreType
<1> QED BY <1>9, <1>13

\* A table that has ended stays as it is.
LEMMA ElemsClosed ==
  ASSUME NEW m, IsMemory(m), NEW R, NEW A, Reader(m, R, A), NEW i \in Nat, NEW k \in Nat,
         ~ElemsRead(m, R, i)[k].open, NEW n \in Nat, n >= k
  PROVE  ElemsRead(m, R, i)[n] = ElemsRead(m, R, i)[k]
<1> DEFINE r == ElemsRead(m, R, i)
           Z == {j \in Nat : r[k + j] = r[k]}
<1>1. /\ r[0] = [value |-> << >>, next |-> i, open |-> TRUE]
      /\ \A j \in Nat : r[j] \in Rounds(A, i) /\ r[j + 1] = OneMore(m, R, r[j])
  BY ElemsRounds, SMTT(30)
<1>2. ~r[k].open
  OBVIOUS
<1> HIDE DEF r
<1>3. 0 \in Z
  <2>1. k + 0 = k
    OBVIOUS
  <2> QED BY <2>1
<1>4. ASSUME NEW j \in Nat, j \in Z PROVE j + 1 \in Z
  <2>1. k + j \in Nat /\ k + (j + 1) = (k + j) + 1
    OBVIOUS
  <2>2. r[(k + j) + 1] = OneMore(m, R, r[k + j])
    BY <1>1, <2>1
  <2>3. r[k + j] = r[k]
    BY <1>4
  <2>4. OneMore(m, R, r[k]) = r[k]
    BY <1>2 DEF OneMore
  <2> QED BY <2>1, <2>2, <2>3, <2>4
<1> HIDE DEF Z
<1>5. \A j \in Nat : j \in Z
  BY <1>3, <1>4, InductionOnNat
<1>6. n - k \in Nat /\ k + (n - k) = n
  OBVIOUS
<1> QED BY <1>5, <1>6 DEF Z, r

\* UnpackElems stops in the first round it can.
LEMMA UnpackElemsAt ==
  ASSUME NEW m, IsMemory(m), NEW R, NEW A, Reader(m, R, A), NEW i \in Nat, NEW count \in Int,
         NEW k \in 0 .. Len(m.data), Over(m, R, i, count, k), k = 0 \/ ~Over(m, R, i, count, k - 1)
  PROVE  UnpackElems(m, R, i, count) = ElemsRead(m, R, i)[k]
<1> DEFINE r == ElemsRead(m, R, i)
           O(n) == n >= count \/ ~r[n].open
           Is(n) == O(n) /\ (n = 0 \/ ~O(n - 1))
           last == Len(m.data)
           c == CHOOSE n \in 0 .. last : Is(n)
<1>1. UnpackElems(m, R, i, count) = r[c]
  BY DEF UnpackElems
<1>2. last \in Nat /\ k \in 0 .. last
  BY DEF IsMemory
<1>3. Is(k)
  BY DEF Over
<1>4. c \in 0 .. last /\ Is(c)
  <2> HIDE DEF last, Is
  <2> QED BY <1>2, <1>3
<1> HIDE DEF c, last
<1>5. ASSUME NEW n \in Nat, NEW l \in Nat, O(n), n <= l PROVE O(l)
  <2>1. CASE n >= count
    BY <1>5, <2>1
  <2>2. CASE ~r[n].open
    <3>1. r[l] = r[n]
      BY <1>5, <2>2, ElemsClosed
    <3> QED BY <2>2, <3>1
  <2> QED BY <1>5, <2>1, <2>2
<1> HIDE DEF r, O
<1>6. k \in Nat /\ c \in Nat
  BY <1>2, <1>4
<1>7. ~(c < k)
  <2> SUFFICES ASSUME c < k PROVE FALSE
    OBVIOUS
  <2>1. k - 1 \in Nat /\ c <= k - 1 /\ k # 0
    BY <1>6
  <2> QED BY <1>3, <1>4, <1>5, <1>6, <2>1
<1>8. ~(k < c)
  <2> SUFFICES ASSUME k < c PROVE FALSE
    OBVIOUS
  <2>1. c - 1 \in Nat /\ k <= c - 1 /\ c # 0
    BY <1>6
  <2> QED BY <1>3, <1>4, <1>5, <1>6, <2>1
<1>9. c = k
  BY <1>6, <1>7, <1>8
<1> QED BY <1>1, <1>9 DEF r

\* There is such a round.
LEMMA UnpackElemsType ==
  ASSUME NEW m, IsMemory(m), Len(m.data) > 0, NEW R, NEW A, Reader(m, R, A), NEW i \in Nat,
         NEW count \in Int
  PROVE  /\ UnpackElems(m, R, i, count).value \in Tables(A)
         /\ UnpackElems(m, R, i, count).next \in Nat
         /\ UnpackElems(m, R, i, count).next >= i
<1> DEFINE r == ElemsRead(m, R, i)
           O(k) == Over(m, R, i, count, k)
           last == Len(m.data)
           T == {k \in Nat : O(k)}
<1>1. last \in Nat
  BY DEF IsMemory
<1>2. O(last)
  BY ElemsEnd DEF Over
<1> HIDE DEF O
<1>3. PICK n \in T : \A k \in T : n <= k
  <2>1. T \subseteq Nat /\ T # {}
    BY <1>1, <1>2
  <2> HIDE DEF T
  <2> QED BY <2>1, LeastElement
<1>4. n \in 0 .. last /\ O(n)
  BY <1>1, <1>2, <1>3
<1>5. n = 0 \/ ~O(n - 1)
  <2> SUFFICES ASSUME n # 0, O(n - 1) PROVE FALSE
    OBVIOUS
  <2>1. n - 1 \in T /\ n \in Nat
    BY <1>4
  <2> QED BY <1>3, <2>1
<1>6. UnpackElems(m, R, i, count) = r[n]
  BY <1>4, <1>5, UnpackElemsAt DEF O
<1>7. r[n] \in Rounds(A, i)
  <2>1. n \in Nat
    BY <1>3
  <2> HIDE DEF T
  <2> QED BY <2>1, ElemsRounds
<1>8. r[n].value \in Tables(A) /\ r[n].next \in Nat /\ r[n].next >= i
  <2> HIDE DEF r
  <2> QED BY <1>7 DEF Rounds
<1> QED BY <1>6, <1>8

\* What is read of each type, after the byte with the type.
ReadAs(m, R, j, t, u) ==
  LET string == UnpackString(m, j)
      count  == ReadInt(Bytes(m, j, 4), 1)
      assoc  == Counted(j + 4, count, MaxElems, UnpackElems(m, R, j + 4, count))
      hash   == UnpackElems(m, R, j, Len(m.data))
      array  == Counted(j + 4, count, MaxItems, UnpackItems(R, j + 4, count))
  IN /\ t = AMF_NUMBER  => u = [av |-> Value(t, Reverse(Bytes(m, j, 8))), next |-> j + 8]
     /\ t = AMF_BOOLEAN => u = [av |-> Value(t, Bytes(m, j, 1)), next |-> j + 1]
     /\ t = AMF_STRING  => u = [av |-> Value(t, string.value), next |-> string.next]
     /\ t = AMF_HASH    => u = [av |-> Value(t, hash.value), next |-> hash.next]
     /\ t = AMF_ASSOC_ARRAY => u = [av |-> Value(t, assoc.value), next |-> assoc.next]
     /\ t = AMF_ARRAY   => u = [av |-> Value(t, array.value), next |-> array.next]
     /\ t = AMF_LINK    => u = [av   |-> Value(t, << ReadShort(Bytes(m, j, 2), 1) >>),
                                next |-> j + 2]
     /\ t \notin Typed  => u = [av |-> Value(t, << >>), next |-> j]

LEMMA UnpackCases ==
  ASSUME NEW m, NEW R, NEW i \in Nat
  PROVE  /\ Len(m.data) <= i => UnpackValue(m, R, i) = [av |-> End, next |-> i]
         /\ Len(m.data) > i /\ ~(Len(m.data) <= i) =>
              ReadAs(m, R, i + 1, At(m, i + 1), UnpackValue(m, R, i))
<1>1. CASE Len(m.data) <= i /\ ~(Len(m.data) > i)
  BY <1>1 DEF UnpackValue
<1>2. CASE ~(Len(m.data) <= i) /\ Len(m.data) > i
  BY <1>2 DEF UnpackValue, ReadAs, Typed, AMF_NUMBER, AMF_BOOLEAN, AMF_STRING, AMF_LINK, AMF_ARRAY,
                    AMF_HASH, AMF_ASSOC_ARRAY
<1>3. CASE Len(m.data) <= i /\ Len(m.data) > i
  BY <1>3 DEF UnpackValue
<1> QED BY <1>1, <1>2, <1>3

\* The limits of counts, and what is read after one.
LEMMA MaxCounts == MaxItems \in Nat /\ MaxElems \in Nat /\ MaxElems <= MaxItems
BY SMT DEF MaxItems, MaxElems

LEMMA MaxItemsRange == MaxItems \in Int /\ MaxItems < 128 * 256 * 256 * 256
BY SMT DEF MaxItems

LEMMA CountedType ==
  ASSUME NEW i \in Nat, NEW count \in Int, NEW limit \in Nat, NEW V, << >> \in V, NEW read,
         count \in Nat => read.value \in V /\ read.next \in Nat /\ read.next >= i
  PROVE  /\ Counted(i, count, limit, read).value \in V
         /\ Counted(i, count, limit, read).next \in Nat
         /\ Counted(i, count, limit, read).next >= i
<1>1. CASE count \in 0 .. limit
  BY <1>1 DEF Counted
<1>2. CASE count \notin 0 .. limit
  <2>1. i + Nowhere \in Nat /\ i + Nowhere >= i
    BY NowhereNat
  <2> QED BY <1>2, <2>1 DEF Counted
<1> QED BY <1>1, <1>2

LEMMA SizedFunction == ASSUME NEW s, NEW n, Sized(s, n) PROVE s \in [1 .. n -> Byte]
BY DEF Sized

\* A value that is read.
IsRead(u, i, A) == u \in [av : A, next : Nat] /\ u.next >= i

LEMMA IsReadMade ==
  ASSUME NEW A, NEW av \in A, NEW next \in Nat, NEW i, next >= i
  PROVE  IsRead([av |-> av, next |-> next], i, A)
BY DEF IsRead

LEMMA UnpackType ==
  ASSUME NEW m, IsMemory(m), NEW d \in Nat, NEW R, Reader(m, R, AVs[d]), NEW i \in Nat
  PROVE  /\ IsRead(UnpackValue(m, R, i), i, AVs[d + 1])
         /\ Len(m.data) <= i => UnpackValue(m, R, i) = [av |-> End, next |-> i]
<1> DEFINE u == UnpackValue(m, R, i)
           t == At(m, i + 1)
           j == i + 1
           string == UnpackString(m, j)
           count  == ReadInt(Bytes(m, j, 4), 1)
           assoc  == Counted(j + 4, count, MaxElems, UnpackElems(m, R, j + 4, count))
           hash   == UnpackElems(m, R, j, Len(m.data))
           array  == Counted(j + 4, count, MaxItems, UnpackItems(R, j + 4, count))
           A == AVs[d + 1]
<1>1. /\ j \in Nat /\ j >= i
      /\ j + 8 \in Nat /\ j + 8 >= i /\ j + 1 \in Nat /\ j + 1 >= i
      /\ j + 2 \in Nat /\ j + 2 >= i /\ j + 4 \in Nat /\ j + 4 >= i
  OBVIOUS
<1>2. Len(m.data) \in Nat
  BY DEF IsMemory
<1>3. t \in Byte
  BY AtByte
<1>4. count \in Int /\ ReadShort(Bytes(m, j, 2), 1) \in Shorts
  BY <1>1, ReadTypes
<1>5. /\ \A n \in Nat : Bytes(m, j, n) \in Seq(Byte) /\ Len(Bytes(m, j, n)) = n
  BY <1>1, BytesType, SizedType
<1>6. /\ \A s \in [1 .. 8 -> Byte]   : Value(AMF_NUMBER, s) \in A
      /\ \A s \in [1 .. 1 -> Byte]   : Value(AMF_BOOLEAN, s) \in A
      /\ \A s \in Seq(Byte)          : Value(AMF_STRING, s) \in A
      /\ \A s \in [1 .. 1 -> Shorts] : Value(AMF_LINK, s) \in A
      /\ \A tt \in Byte \ Typed      : Value(tt, << >>) \in A
      /\ \A s \in Seq(AVs[d])        : Value(AMF_ARRAY, s) \in A
      /\ \A s \in Tables(AVs[d]), tt \in {AMF_HASH, AMF_ASSOC_ARRAY} : Value(tt, s) \in A
  BY AVMade
<1> DEFINE c8 == Reverse(Bytes(m, j, 8))
           c1 == Bytes(m, j, 1)
<1>7. c8 \in [1 .. 8 -> Byte]
  <2>1. Sized(Bytes(m, j, 8), 8)
    BY <1>1, BytesType
  <2>2. Sized(c8, 8)
    BY <2>1, ReverseType
  <2> QED BY <2>2, SizedFunction
<1>8. c1 \in [1 .. 1 -> Byte]
  <2>1. Sized(c1, 1)
    BY <1>1, BytesType
  <2> QED BY <2>1, SizedFunction
<1>9. string.value \in Seq(Byte) /\ string.next \in Nat /\ string.next >= i
  <2>1. string.value \in Seq(Byte) /\ string.next \in Nat /\ string.next >= j + 2
    BY <1>1, UnpackStringType
  <2> HIDE DEF string
  <2> QED BY <2>1
<1>10. array.value \in Seq(AVs[d]) /\ array.next \in Nat /\ array.next >= i
  <2> DEFINE k == j + 4
             r == ItemsRead(R, k)[count]
  <2>1. k \in Nat
    BY <1>1
  <2>2. ASSUME count \in Nat PROVE r \in [value : Seq(AVs[d]), next : Nat] /\ r.next >= k
    <3> HIDE DEF k, count
    <3> QED BY <2>1, <2>2, ItemsRounds
  <2>3. array = Counted(k, count, MaxItems, r)
    BY DEF UnpackItems
  <2> HIDE DEF array, r, count
  <2>4. array.value \in Seq(AVs[d]) /\ array.next \in Nat /\ array.next >= k
    <3> HIDE DEF k
    <3> DEFINE V == Seq(AVs[d])
    <3>1. << >> \in V /\ MaxItems \in Nat
      BY EmptySeq, MaxCounts
    <3>2. count \in Nat => r.value \in V /\ r.next \in Nat /\ r.next >= k
      BY <2>2
    <3> HIDE DEF V
    <3>3. array.value \in V /\ array.next \in Nat /\ array.next >= k
      BY <1>4, <2>1, <2>3, <3>1, <3>2, CountedType
    <3> QED BY <3>3 DEF V
  <2> QED BY <1>1, <2>4
<1>11. ASSUME Len(m.data) > 0
       PROVE  /\ assoc.value \in Tables(AVs[d]) /\ assoc.next \in Nat /\ assoc.next >= i
              /\ hash.value \in Tables(AVs[d]) /\ hash.next \in Nat /\ hash.next >= i
  <2>0. Len(m.data) \in Int
    BY <1>2
  <2>1. assoc.value \in Tables(AVs[d]) /\ assoc.next \in Nat /\ assoc.next >= j + 4
    <3> DEFINE k == j + 4
    <3>1. k \in Nat
      BY <1>1
    <3> HIDE DEF k, count
    <3> DEFINE a == UnpackElems(m, R, k, count)
    <3>2. a.value \in Tables(AVs[d]) /\ a.next \in Nat /\ a.next >= k
      BY <1>4, <1>11, <3>1, UnpackElemsType
    <3> HIDE DEF a
    <3>3. << >> \in Tables(AVs[d])
      BY EmptySeq DEF Tables
    <3>4. MaxElems \in Nat
      BY MaxCounts
    <3> DEFINE V == Tables(AVs[d])
               c == Counted(k, count, MaxElems, a)
    <3> HIDE DEF V
    <3>5. c.value \in V /\ c.next \in Nat /\ c.next >= k
      BY <1>4, <3>1, <3>2, <3>3, <3>4, CountedType DEF V
    <3> QED BY <3>5 DEF k, count, a, V
  <2>2. hash.value \in Tables(AVs[d]) /\ hash.next \in Nat /\ hash.next >= j
    <3> HIDE DEF j
    <3> QED BY <1>1, <1>11, <2>0, UnpackElemsType
  <2> HIDE DEF assoc, hash
  <2> QED BY <1>1, <2>1, <2>2
<1>12. AMF_END \in Byte \ Typed
  BY DEF Byte, Typed, AMF_END, AMF_NUMBER, AMF_BOOLEAN, AMF_STRING, AMF_LINK, AMF_ARRAY,
         AMF_HASH, AMF_ASSOC_ARRAY
<1>13. CASE Len(m.data) <= i
  <2>1. u = [av |-> End, next |-> i]
    BY <1>13, UnpackCases
  <2>2. End \in A
    BY <1>6, <1>12 DEF End
  <2> HIDE DEF u, A
  <2>3. i >= i
    OBVIOUS
  <2>4. IsRead(u, i, A)
    BY <2>1, <2>2, <2>3, IsReadMade
  <2> QED BY <2>1, <2>4 DEF u, A
<1>14. CASE ~(Len(m.data) <= i)
  <2>1. Len(m.data) > i /\ Len(m.data) > 0
    BY <1>2, <1>14
  <2>2. /\ t = AMF_NUMBER  => u = [av |-> Value(t, c8), next |-> j + 8]
        /\ t = AMF_BOOLEAN => u = [av |-> Value(t, c1), next |-> j + 1]
        /\ t = AMF_STRING  => u = [av |-> Value(t, string.value), next |-> string.next]
        /\ t = AMF_HASH    => u = [av |-> Value(t, hash.value), next |-> hash.next]
        /\ t = AMF_ASSOC_ARRAY => u = [av |-> Value(t, assoc.value), next |-> assoc.next]
        /\ t = AMF_ARRAY   => u = [av |-> Value(t, array.value), next |-> array.next]
        /\ t = AMF_LINK    => u = [av   |-> Value(t, << ReadShort(Bytes(m, j, 2), 1) >>),
                                   next |-> j + 2]
        /\ t \notin Typed  => u = [av |-> Value(t, << >>), next |-> j]
    BY <1>14, <2>1, UnpackCases, ZenonT(30) DEF ReadAs
  <2>3. /\ assoc.value \in Tables(AVs[d]) /\ assoc.next \in Nat /\ assoc.next >= i
        /\ hash.value \in Tables(AVs[d]) /\ hash.next \in Nat /\ hash.next >= i
    BY <1>11, <2>1
  <2> DEFINE link == << ReadShort(Bytes(m, j, 2), 1) >>
  <2>4. link \in [1 .. 1 -> Shorts]
    <3> DEFINE v == ReadShort(Bytes(m, j, 2), 1)
    <3>1. v \in Shorts
      BY <1>4
    <3> HIDE DEF v
    <3>2. \A k \in 1 .. 1 : << v >>[k] \in Shorts
      BY <3>1
    <3>3. << v >> \in [1 .. 1 -> Shorts]
      BY <3>2
    <3> QED BY <3>3 DEF v
  <2> SUFFICES IsRead(u, i, A)
    BY <1>14
  <2> HIDE DEF u, A, j, t, c8, c1, string, hash, assoc, array, link
  <2>5. u = [av |-> Value(t, link), next |-> j + 2] \/ t # AMF_LINK
    BY <2>2 DEF link
  <2>6. CASE t = AMF_NUMBER
    <3>1. Value(t, c8) \in A
      BY <1>6, <1>7, <2>6
    <3>2. u = [av |-> Value(t, c8), next |-> j + 8]
      BY <2>2, <2>6
    <3> QED BY <1>1, <3>1, <3>2, IsReadMade
  <2>7. CASE t = AMF_BOOLEAN
    <3>1. Value(t, c1) \in A
      BY <1>6, <1>8, <2>7
    <3>2. u = [av |-> Value(t, c1), next |-> j + 1]
      BY <2>2, <2>7
    <3> QED BY <1>1, <3>1, <3>2, IsReadMade
  <2>8. CASE t = AMF_STRING
    <3>1. Value(t, string.value) \in A
      BY <1>6, <1>9, <2>8
    <3>2. u = [av |-> Value(t, string.value), next |-> string.next]
      BY <2>2, <2>8
    <3> QED BY <1>9, <3>1, <3>2, IsReadMade
  <2>9. CASE t = AMF_HASH
    <3>1. Value(t, hash.value) \in A
      BY <1>6, <2>3, <2>9
    <3>2. u = [av |-> Value(t, hash.value), next |-> hash.next]
      BY <2>2, <2>9
    <3> QED BY <2>3, <3>1, <3>2, IsReadMade
  <2>10. CASE t = AMF_ASSOC_ARRAY
    <3>1. Value(t, assoc.value) \in A
      BY <1>6, <2>3, <2>10
    <3>2. u = [av |-> Value(t, assoc.value), next |-> assoc.next]
      BY <2>2, <2>10
    <3> QED BY <2>3, <3>1, <3>2, IsReadMade
  <2>11. CASE t = AMF_ARRAY
    <3>1. Value(t, array.value) \in A
      BY <1>6, <1>10, <2>11
    <3>2. u = [av |-> Value(t, array.value), next |-> array.next]
      BY <2>2, <2>11
    <3> QED BY <1>10, <3>1, <3>2, IsReadMade
  <2>12. CASE t = AMF_LINK
    <3>1. Value(t, link) \in A
      BY <1>6, <2>4, <2>12
    <3>2. u = [av |-> Value(t, link), next |-> j + 2]
      BY <2>5, <2>12
    <3> QED BY <1>1, <3>1, <3>2, IsReadMade
  <2>13. CASE t \notin Typed
    <3>1. Value(t, << >>) \in A
      BY <1>3, <1>6, <2>13
    <3>2. u = [av |-> Value(t, << >>), next |-> j]
      BY <2>2, <2>13
    <3> QED BY <1>1, <3>1, <3>2, IsReadMade
  <2> QED BY <2>6, <2>7, <2>8, <2>9, <2>10, <2>11, <2>12, <2>13 DEF Typed
<1> QED BY <1>13, <1>14

\* What reads one level deeper.
Deeper(m, R) == [i \in Nat |-> UnpackValue(m, R, i)]

LEMMA DeeperType ==
  ASSUME NEW m, IsMemory(m), NEW d \in Nat, NEW R, Reader(m, R, AVs[d])
  PROVE  /\ Deeper(m, R) \in [Nat -> [av : AVs[d + 1], next : Nat]]
         /\ Reader(m, Deeper(m, R), AVs[d + 1])
<1>1. ASSUME NEW i \in Nat
      PROVE  /\ UnpackValue(m, R, i) \in [av : AVs[d + 1], next : Nat]
             /\ UnpackValue(m, R, i).next >= i
             /\ Len(m.data) <= i => UnpackValue(m, R, i).av.type = AMF_END
  <2>1. /\ IsRead(UnpackValue(m, R, i), i, AVs[d + 1])
        /\ Len(m.data) <= i => UnpackValue(m, R, i) = [av |-> End, next |-> i]
    BY UnpackType
  <2>2. [av |-> End, next |-> i].av.type = AMF_END
    BY DEF End, Value
  <2> QED BY <2>1, <2>2 DEF IsRead
<1> DEFINE A == AVs[d + 1]
           u(i) == UnpackValue(m, R, i)
<1>2. Deeper(m, R) = [i \in Nat |-> u(i)]
  BY DEF Deeper
<1>3. \A i \in Nat : u(i) \in [av : A, next : Nat] /\ u(i).next >= i
                     /\ (Len(m.data) <= i => u(i).av.type = AMF_END)
  BY <1>1
<1> HIDE DEF A, u
<1>4. Deeper(m, R) \in [Nat -> [av : A, next : Nat]]
  BY <1>2, <1>3
<1>5. Reader(m, Deeper(m, R), A)
  BY <1>2, <1>3 DEF Reader
<1> QED BY <1>4, <1>5 DEF A

LEMMA UnpackLevels ==
  ASSUME NEW m, IsMemory(m)
  PROVE  /\ UnpackIn(m)[0] = [i \in Nat |-> [av |-> End, next |-> i]]
         /\ \A n \in Nat : /\ UnpackIn(m)[n + 1] = Deeper(m, UnpackIn(m)[n])
                           /\ Reader(m, UnpackIn(m)[n], AVs[n + 1])
<1> DEFINE T(n) == {R \in [Nat -> [av : AVs[n + 1], next : Nat]] : Reader(m, R, AVs[n + 1])}
           W == [n \in Nat |-> T(n)]
           b == [i \in Nat |-> [av |-> End, next |-> i]]
           g == [n \in Nat |-> [R \in T(n) |-> Deeper(m, R)]]
           Is(f) == f = [n \in Nat |->
                          IF n = 0 THEN [i \in Nat |-> [av |-> End, next |-> i]]
                          ELSE [i \in Nat |-> UnpackValue(m, f[n - 1], i)]]
           r == CHOOSE f : Is(f)
<1>1. ASSUME NEW n \in Nat, NEW R \in T(n) PROVE Deeper(m, R) \in T(n + 1)
  <2>1. Reader(m, R, AVs[n + 1]) /\ n + 1 \in Nat
    OBVIOUS
  <2> DEFINE e == n + 1
  <2>2. e \in Nat /\ Reader(m, R, AVs[e])
    BY <2>1
  <2> HIDE DEF e
  <2>3. /\ Deeper(m, R) \in [Nat -> [av : AVs[e + 1], next : Nat]]
        /\ Reader(m, Deeper(m, R), AVs[e + 1])
    BY <2>2, DeeperType
  <2> QED BY <2>3 DEF e
<1>2. b \in T(0)
  <2>1. End \in AVs[0 + 1]
    <3>1. AMF_END \in Byte \ Typed
      BY DEF Byte, Typed, AMF_END, AMF_NUMBER, AMF_BOOLEAN, AMF_STRING, AMF_LINK, AMF_ARRAY,
             AMF_HASH, AMF_ASSOC_ARRAY
    <3>2. \A t \in Byte \ Typed : Value(t, << >>) \in AVs[0 + 1]
      <4>1. 0 \in Nat
        OBVIOUS
      <4> QED BY <4>1, AVMade
    <3> QED BY <3>1, <3>2 DEF End
  <2>2. End.type = AMF_END
    BY DEF End, Value
  <2> DEFINE A == AVs[0 + 1]
  <2> HIDE DEF A
  <2>3. b \in [Nat -> [av : A, next : Nat]] /\ Reader(m, b, A)
    BY <2>1, <2>2 DEF Reader, A
  <2> QED BY <2>3 DEF A
<1>3. r = UnpackIn(m)
  BY DEF UnpackIn
<1>4. \A n \in Nat : W[n] = T(n)
  OBVIOUS
<1>5. \A n \in Nat : \A R \in T(n) : g[n][R] = Deeper(m, R)
  OBVIOUS
<1> HIDE DEF W, g, b, T
<1>6. ASSUME NEW n \in Nat, NEW x \in W[n] PROVE g[n][x] \in W[n + 1]
  <2>1. n + 1 \in Nat /\ x \in T(n)
    BY <1>4, <1>6
  <2> QED BY <1>1, <1>4, <1>5, <2>1
<1>7. b \in W[0]
  <2>1. 0 \in Nat
    OBVIOUS
  <2> QED BY <1>2, <1>4, <2>1
<1>8. PICK f : Recursive(f, b, g, W)
  BY <1>6, <1>7, Recursion
<1>9. Is(f)
  <2>1. ASSUME NEW n \in Nat, n # 0 PROVE f[n] = Deeper(m, f[n - 1])
    <3>1. n - 1 \in Nat
      BY <2>1
    <3>2. f[n] = g[n - 1][f[n - 1]] /\ f[n - 1] \in W[n - 1]
      BY <1>8, <2>1, <3>1 DEF Recursive
    <3> QED BY <1>4, <1>5, <3>1, <3>2
  <2>2. f = [n \in Nat |-> f[n]] /\ f[0] = b
    BY <1>8 DEF Recursive
  <2>3. f = [n \in Nat |-> IF n = 0 THEN b ELSE Deeper(m, f[n - 1])]
    BY <2>1, <2>2
  <2> QED BY <2>3 DEF b, Deeper
<1>10. Is(r)
  BY <1>9
<1> HIDE DEF r
<1>11. r = [n \in Nat |-> IF n = 0 THEN b ELSE Deeper(m, r[n - 1])]
  BY <1>10 DEF b, Deeper
<1>12. r[0] = b
  BY <1>11
<1>13. ASSUME NEW n \in Nat PROVE r[n + 1] = Deeper(m, r[n])
  <2>1. n + 1 \in Nat /\ n + 1 # 0 /\ (n + 1) - 1 = n
    OBVIOUS
  <2> QED BY <1>11, <2>1
<1> DEFINE Z == {n \in Nat : r[n] \in T(n)}
<1>14. 0 \in Z
  BY <1>2, <1>12
<1>15. ASSUME NEW n \in Nat, n \in Z PROVE n + 1 \in Z
  BY <1>1, <1>13, <1>15
<1> HIDE DEF Z
<1>16. \A n \in Nat : n \in Z
  BY <1>14, <1>15, InductionOnNat
<1>17. \A n \in Nat : Reader(m, r[n], AVs[n + 1])
  BY <1>16 DEF Z, T
<1> QED BY <1>3, <1>12, <1>13, <1>17 DEF b

-----------------------------------------------------------------------------
(* What is packed and what is read.                                        *)

\* The data holds s after its first i bytes.
Holds(m, i, s) ==
  i + Len(s) <= Len(m.data) /\ \A k \in 1 .. Len(s) : At(m, i + k) = s[k]

LEMMA HoldsBytes ==
  ASSUME NEW m, NEW i \in Nat, NEW n \in Nat, NEW s, Sized(s, n), Holds(m, i, s)
  PROVE  Bytes(m, i, n) = s
<1>1. s = [k \in 1 .. n |-> s[k]] /\ Len(s) = n
  BY DEF Sized
<1>2. \A k \in 1 .. n : At(m, i + k) = s[k]
  BY <1>1 DEF Holds
<1>3. [k \in 1 .. n |-> At(m, i + k)] = [k \in 1 .. n |-> s[k]]
  BY <1>2
<1> QED BY <1>1, <1>3 DEF Bytes

LEMMA HoldsParts ==
  ASSUME NEW m, IsMemory(m), NEW i \in Nat, NEW n \in Nat, NEW l \in Nat,
         NEW s, Sized(s, n), NEW t, Sized(t, l), Holds(m, i, s \o t)
  PROVE  Holds(m, i, s) /\ Holds(m, i + n, t)
<1>1. Len(m.data) \in Nat
  BY DEF IsMemory
<1>2. s \in Seq(Byte) /\ t \in Seq(Byte) /\ Len(s) = n /\ Len(t) = l
  BY DEF Sized
<1>3. Len(s \o t) = n + l
  BY <1>2, ConcatType
<1>4. i + (n + l) <= Len(m.data) /\ \A k \in 1 .. n + l : At(m, i + k) = (s \o t)[k]
  BY <1>3 DEF Holds
<1>5. \A k \in 1 .. n : (s \o t)[k] = s[k]
  BY <1>2, ConcatLeft
<1>6. \A k \in 1 .. l : (s \o t)[n + k] = t[k]
  BY <1>2, ConcatRight, ZenonT(30)
<1> PICK st : st = s \o t
  OBVIOUS
<1>7. Holds(m, i, s)
  <2>1. i + n <= Len(m.data)
    BY <1>1, <1>4
  <2>2. ASSUME NEW k \in 1 .. n PROVE At(m, i + k) = s[k]
    <3>1. k \in 1 .. n + l
      OBVIOUS
    <3> QED BY <1>4, <1>5, <3>1
  <2> QED BY <1>2, <2>1, <2>2 DEF Holds
<1>8. Holds(m, i + n, t)
  <2>1. (i + n) + l <= Len(m.data)
    BY <1>1, <1>4
  <2>2. ASSUME NEW k \in 1 .. l PROVE At(m, (i + n) + k) = t[k]
    <3>1. n + k \in 1 .. n + l /\ i + (n + k) = (i + n) + k
      OBVIOUS
    <3> QED BY <1>4, <1>6, <3>1
  <2> QED BY <1>2, <2>1, <2>2 DEF Holds
<1> QED BY <1>7, <1>8

LEMMA HoldsFirst ==
  ASSUME NEW m, NEW i \in Nat, NEW b, Holds(m, i, << b >>)
  PROVE  At(m, i + 1) = b /\ i + 1 <= Len(m.data)
BY DEF Holds

\* Two bytes.
LEMMA ShortRoundTrip ==
  ASSUME NEW v \in Shorts
  PROVE  Signed((v \div 256) % 256) * 256 + (v % 256) = v
<1> DEFINE q == v \div 256
           r == v % 256
<1>1. v \in Int /\ v >= -32768 /\ v <= 32767
  <2>1. v >= -MaxShort - 1 /\ v <= MaxShort /\ v \in Int
    BY ShortsInt DEF Shorts
  <2> QED BY <2>1 DEF MaxShort
<1>2. q \in Int /\ r \in Int /\ 0 <= r /\ r < 256 /\ v = 256 * q + r
  BY <1>1, DivMod
<1> HIDE DEF q, r
<1>3. q >= -128 /\ q <= 127
  BY <1>1, <1>2
<1>4. Signed(q % 256) = q
  <2>1. CASE q >= 0
    <3>1. q = 256 * 0 + q /\ 0 <= q /\ q < 256
      BY <1>2, <1>3, <2>1
    <3>2. q % 256 = q
      BY <1>2, <3>1, DivModUnique
    <3> QED BY <1>2, <1>3, <3>2 DEF Signed
  <2>2. CASE q < 0
    <3> DEFINE p == q + 256
    <3>1. p \in Int /\ q = 256 * (-1) + p /\ 0 <= p /\ p < 256 /\ p >= 128 /\ p - 256 = q
      BY <1>2, <1>3, <2>2
    <3> HIDE DEF p
    <3>2. q % 256 = p
      BY <1>2, <3>1, DivModUnique
    <3> QED BY <3>1, <3>2 DEF Signed
  <2> QED BY <1>2, <2>1, <2>2
<1> QED BY <1>2, <1>4 DEF q, r

LEMMA ShortRead ==
  ASSUME NEW m, NEW i \in Nat, NEW v \in Shorts, Holds(m, i, Short(v))
  PROVE  ReadShort(Bytes(m, i, 2), 1) = v
<1>1. v \in Int
  BY ShortsInt
<1>2. Sized(Short(v), 2)
  BY <1>1, ShortType
<1>3. Bytes(m, i, 2) = Short(v)
  BY <1>2, HoldsBytes
<1>4. Short(v)[1] = (v \div 256) % 256 /\ Short(v)[2] = v % 256
  BY DEF Short
<1>5. ReadShort(Short(v), 1) = Signed(Short(v)[1]) * 256 + Short(v)[2]
  BY DEF ReadShort
<1> QED BY <1>3, <1>4, <1>5, ShortRoundTrip

\* Four bytes.
LEMMA LongRoundTrip ==
  ASSUME NEW v \in 0 .. MaxItems
  PROVE  ((Signed(ByteOf(v, 3)) * 256 + ByteOf(v, 2)) * 256 + ByteOf(v, 1)) * 256 + ByteOf(v, 0) = v
<1> DEFINE q == v \div 256
           d == q \div 256
           e == d \div 256
<1>0. v \in Int /\ 0 <= v /\ v < 128 * 256 * 256 * 256
  BY MaxItemsRange
<1>1. q \in Int /\ v % 256 \in Int /\ v = 256 * q + (v % 256) /\ 0 <= v % 256 /\ v % 256 < 256
  BY <1>0, DivMod
<1>2. d \in Int /\ q % 256 \in Int /\ q = 256 * d + (q % 256) /\ 0 <= q % 256 /\ q % 256 < 256
  BY <1>1, DivMod
<1>3. e \in Int /\ d % 256 \in Int /\ d = 256 * e + (d % 256) /\ 0 <= d % 256 /\ d % 256 < 256
  BY <1>2, DivMod
<1> HIDE DEF q, d, e
<1>4. 0 <= e /\ e < 128
  BY <1>0, <1>1, <1>2, <1>3
<1>5. v \div (256 * 256) = d
  <2> DEFINE r == 256 * (q % 256) + (v % 256)
  <2>1. r \in Int /\ 0 <= r /\ r < 256 * 256 /\ v = (256 * 256) * d + r
    BY <1>1, <1>2
  <2> HIDE DEF r
  <2> QED BY <1>0, <1>2, <2>1, DivModUnique
<1>6. v \div (256 * 256 * 256) = e
  <2> DEFINE r == 256 * 256 * (d % 256) + 256 * (q % 256) + (v % 256)
  <2>1. r \in Int /\ 0 <= r /\ r < 256 * 256 * 256 /\ v = (256 * 256 * 256) * e + r
    BY <1>1, <1>2, <1>3
  <2> HIDE DEF r
  <2> QED BY <1>0, <1>3, <2>1, DivModUnique
<1>7. e % 256 = e
  <2>1. e = 256 * 0 + e /\ e < 256
    BY <1>3, <1>4
  <2> QED BY <1>3, <1>4, <2>1, DivModUnique
<1>8. Signed(e) = e
  BY <1>3, <1>4 DEF Signed
<1>9. ByteOf(v, 3) = e /\ ByteOf(v, 2) = d % 256 /\ ByteOf(v, 1) = q % 256 /\ ByteOf(v, 0) = v % 256
  BY <1>5, <1>6, <1>7 DEF ByteOf, q
<1>10. ((e * 256 + (d % 256)) * 256 + (q % 256)) * 256 + (v % 256) = v
  BY <1>1, <1>2, <1>3
<1> QED BY <1>8, <1>9, <1>10

LEMMA LongRead ==
  ASSUME NEW m, NEW i \in Nat, NEW v \in 0 .. MaxItems, Holds(m, i, Long(v))
  PROVE  ReadInt(Bytes(m, i, 4), 1) = v
<1>1. v \in Int
  BY MaxItemsRange
<1>2. Sized(Long(v), 4)
  BY <1>1, LongType
<1>3. Bytes(m, i, 4) = Long(v)
  BY <1>2, HoldsBytes
<1>4. /\ Long(v)[1] = ByteOf(v, 3) /\ Long(v)[2] = ByteOf(v, 2)
      /\ Long(v)[3] = ByteOf(v, 1) /\ Long(v)[4] = ByteOf(v, 0)
  <2> DEFINE r == ReverseInt(v)
  <2>1. r[1] = ByteOf(v, 0) /\ r[2] = ByteOf(v, 1) /\ r[3] = ByteOf(v, 2) /\ r[4] = ByteOf(v, 3)
    BY DEF ReverseInt
  <2>2. Len(r) = 4
    BY DEF ReverseInt
  <2> HIDE DEF r
  <2>3. Long(v) = [k \in 1 .. 4 |-> r[(4 - k) + 1]]
    BY <2>2 DEF Long, Reverse, r
  <2>4. Long(v)[1] = r[4] /\ Long(v)[2] = r[3] /\ Long(v)[3] = r[2] /\ Long(v)[4] = r[1]
    BY <2>3
  <2> QED BY <2>1, <2>4
<1>5. ReadInt(Long(v), 1) =
        ((Signed(Long(v)[1]) * 256 + Long(v)[2]) * 256 + Long(v)[3]) * 256 + Long(v)[4]
  BY DEF ReadInt
<1> QED BY <1>3, <1>4, <1>5, LongRoundTrip

\* Strings.
LEMMA StringRead ==
  ASSUME NEW m, IsMemory(m), NEW i \in Nat, NEW s \in Strings, Holds(m, i, PackString(s))
  PROVE  UnpackString(m, i) = [value |-> s, next |-> i + 2 + Len(s)]
<1> DEFINE n == Len(s)
<1>1. s \in Seq(Byte) /\ n \in Nat /\ n <= MaxShort
  BY DEF Strings
<1>2. n \in Shorts
  <2>1. MaxShort \in Int /\ -MaxShort - 1 <= 0
    BY DEF MaxShort
  <2> HIDE DEF n
  <2> QED BY <1>1, <2>1 DEF Shorts
<1>3. Sized(Short(n), 2) /\ Sized(s, n)
  BY <1>1, ShortType, SizedSelf
<1>4. Holds(m, i, Short(n) \o s)
  BY DEF PackString
<1>5. Holds(m, i, Short(n)) /\ Holds(m, i + 2, s)
  BY <1>1, <1>3, <1>4, HoldsParts
<1>6. ReadShort(Bytes(m, i, 2), 1) = n
  BY <1>2, <1>5, ShortRead
<1>7. ~(n < 0)
  BY <1>1
<1>8. Bytes(m, i + 2, n) = s
  BY <1>1, <1>3, <1>5, HoldsBytes
<1> QED BY <1>6, <1>7, <1>8 DEF UnpackString

\* Each part of what is put one after the other is in its place.
LEMMA HoldsFlattened ==
  ASSUME NEW m, IsMemory(m), NEW i \in Nat, NEW s \in Seq(Seq(Byte)), Holds(m, i, FlattenSeq(s))
  PROVE  \E f \in [Nat -> Nat] :
           /\ f[0] = 0 /\ f[Len(s)] = Len(FlattenSeq(s))
           /\ \A k \in 0 .. Len(s) - 1 :
                /\ f[k + 1] = f[k] + Len(s[k + 1])
                /\ f[k + 1] <= Len(FlattenSeq(s))
                /\ Holds(m, i + f[k], s[k + 1])
<1> DEFINE n == Len(s)
           F == FlattenSeq(s)
<1>1. n \in Nat /\ \A k \in 1 .. n : s[k] \in Seq(Byte)
  OBVIOUS
<1>2. PICK h \in [Nat -> Seq(Byte)] :
        /\ h[0] = << >>
        /\ \A k \in 0 .. n - 1 : h[k + 1] = h[k] \o s[k + 1]
        /\ F = h[n]
  BY Flattened
<1> HIDE DEF F
<1> DEFINE f == [k \in Nat |-> Len(h[k])]
           Z == {j \in Nat : j <= n => Holds(m, i, h[n - j]) /\ Len(h[n - j]) <= Len(F)}
<1>3. f \in [Nat -> Nat] /\ \A k \in Nat : f[k] = Len(h[k]) /\ Sized(h[k], f[k])
  BY DEF Sized
<1>4. ASSUME NEW k \in 0 .. n - 1
      PROVE  /\ k \in Nat /\ k + 1 \in Nat /\ h[k + 1] = h[k] \o s[k + 1]
             /\ Sized(s[k + 1], Len(s[k + 1])) /\ Len(s[k + 1]) \in Nat
             /\ f[k + 1] = f[k] + Len(s[k + 1])
  <2>1. k \in Nat /\ k + 1 \in Nat /\ k + 1 \in 1 .. n
    BY <1>1
  <2>2. h[k + 1] = h[k] \o s[k + 1]
    BY <1>2
  <2>3. s[k + 1] \in Seq(Byte)
    BY <1>1, <2>1
  <2>4. Sized(s[k + 1], Len(s[k + 1])) /\ Len(s[k + 1]) \in Nat
    BY <2>3, SizedSelf
  <2> HIDE DEF f
  <2>5. Sized(h[k], f[k])
    BY <1>3, <2>1
  <2>6. Sized(h[k] \o s[k + 1], f[k] + Len(s[k + 1]))
    BY <2>4, <2>5, SizedConcat
  <2>7. f[k + 1] = f[k] + Len(s[k + 1])
    BY <1>3, <2>1, <2>2, <2>6, SizedType, ZenonT(30)
  <2> QED BY <2>1, <2>2, <2>4, <2>7
<1> HIDE DEF f
<1>5. 0 \in Z
  <2>1. n - 0 = n /\ Holds(m, i, h[n]) /\ Len(h[n]) <= Len(F)
    <3>1. Len(h[n]) \in Nat
      BY <1>1, <1>3
    <3> QED BY <1>1, <1>2, <3>1 DEF F
  <2> QED BY <2>1
<1>6. ASSUME NEW j \in Nat, j \in Z PROVE j + 1 \in Z
  <2> SUFFICES ASSUME j + 1 <= n
               PROVE  Holds(m, i, h[n - (j + 1)]) /\ Len(h[n - (j + 1)]) <= Len(F)
    BY <1>6
  <2> DEFINE k == n - (j + 1)
  <2> HIDE DEF n
  <2>1. k \in 0 .. n - 1 /\ k + 1 = n - j /\ j <= n
    BY <1>1
  <2> HIDE DEF k
  <2>2. Holds(m, i, h[k + 1]) /\ Len(h[k + 1]) <= Len(F)
    BY <1>6, <2>1
  <2>3. /\ k \in Nat /\ k + 1 \in Nat /\ h[k + 1] = h[k] \o s[k + 1]
        /\ Sized(s[k + 1], Len(s[k + 1])) /\ Len(s[k + 1]) \in Nat
        /\ f[k + 1] = f[k] + Len(s[k + 1])
    BY <1>4, <2>1
  <2>4. Sized(h[k], f[k]) /\ f[k] \in Nat
    BY <1>3, <2>3
  <2>5. Holds(m, i, h[k])
    BY <2>2, <2>3, <2>4, HoldsParts, ZenonT(30)
  <2>6. f[k + 1] = Len(h[k + 1]) /\ f[k] = Len(h[k])
    BY <1>3, <2>3
  <2>7. Len(F) \in Nat
    BY <1>1, <1>2, <1>3 DEF n
  <2>8. f[k + 1] <= Len(F)
    BY <2>2, <2>6
  <2>9. PICK e \in Nat : f[k + 1] = f[k] + e
    BY <2>3
  <2>10. PICK a \in Nat : a = f[k]
    BY <2>4
  <2>11. Len(h[k]) <= Len(F)
    <3>1. a + e <= Len(F)
      BY <2>8, <2>9, <2>10
    <3>2. a <= Len(F)
      BY <2>7, <3>1
    <3> QED BY <2>6, <2>10, <3>2
  <2> QED BY <2>5, <2>11 DEF k
<1> HIDE DEF Z
<1>7. \A j \in Nat : j \in Z
  BY <1>5, <1>6, InductionOnNat
<1>8. ASSUME NEW k \in 0 .. n - 1
      PROVE  /\ f[k + 1] = f[k] + Len(s[k + 1])
             /\ f[k + 1] <= Len(F)
             /\ Holds(m, i + f[k], s[k + 1])
  <2>1. n - (k + 1) \in Nat /\ n - (k + 1) <= n /\ n - (n - (k + 1)) = k + 1
    BY <1>1
  <2>2. Holds(m, i, h[k + 1]) /\ Len(h[k + 1]) <= Len(F)
    <3>1. n - (k + 1) \in Z
      BY <1>7, <2>1
    <3> QED BY <2>1, <3>1 DEF Z
  <2>3. /\ k \in Nat /\ k + 1 \in Nat /\ h[k + 1] = h[k] \o s[k + 1]
        /\ Sized(s[k + 1], Len(s[k + 1])) /\ Len(s[k + 1]) \in Nat
        /\ f[k + 1] = f[k] + Len(s[k + 1])
    BY <1>4
  <2>4. Sized(h[k], f[k]) /\ f[k] \in Nat /\ f[k + 1] = Len(h[k + 1])
    BY <1>3, <2>3
  <2> HIDE DEF n
  <2>5. Holds(m, i + f[k], s[k + 1])
    <3>1. PICK l : l = f[k]
      OBVIOUS
    <3>2. PICK e \in Nat : e = Len(s[k + 1])
      BY <2>3
    <3>3. PICK t : t = s[k + 1]
      OBVIOUS
    <3>4. l \in Nat /\ Sized(h[k], l) /\ Sized(t, e) /\ Holds(m, i, h[k] \o t)
      BY <2>2, <2>3, <2>4, <3>1, <3>2, <3>3
    <3>5. Holds(m, i + l, t)
      BY <3>4, HoldsParts
    <3> QED BY <3>1, <3>3, <3>5
  <2> QED BY <2>2, <2>3, <2>4, <2>5
<1>9. f[0] = 0 /\ f[n] = Len(F)
  BY <1>1, <1>2, <1>3
<1> QED BY <1>3, <1>8, <1>9 DEF F

\* The first k of a sequence.
Start(t, k) == [j \in 1 .. k |-> t[j]]

LEMMA StartNext ==
  ASSUME NEW S, NEW t \in Seq(S)
  PROVE  /\ Start(t, 0) = << >> /\ Start(t, Len(t)) = t
         /\ \A k \in 0 .. Len(t) - 1 : Append(Start(t, k), t[k + 1]) = Start(t, k + 1)
<1>1. Start(t, 0) = << >> /\ Start(t, Len(t)) = t
  BY DEF Start
<1>2. ASSUME NEW k \in 0 .. Len(t) - 1 PROVE Append(Start(t, k), t[k + 1]) = Start(t, k + 1)
  <2>1. \A j \in 1 .. Len(t) : t[j] \in S
    OBVIOUS
  <2>2. Start(t, k) \in Seq(S) /\ Len(Start(t, k)) = k
    BY <2>1 DEF Start
  <2>3. Start(t, k + 1) \in Seq(S) /\ Len(Start(t, k + 1)) = k + 1
    BY <2>1 DEF Start
  <2>4. t[k + 1] \in S
    BY <2>1
  <2> DEFINE a == Append(Start(t, k), t[k + 1])
  <2>5. /\ a \in Seq(S) /\ Len(a) = k + 1
        /\ \A j \in 1 .. k : a[j] = Start(t, k)[j]
        /\ a[k + 1] = t[k + 1]
    BY <2>2, <2>4, AppendProperties
  <2>6. /\ \A j \in 1 .. k : Start(t, k)[j] = t[j]
        /\ \A j \in 1 .. k + 1 : Start(t, k + 1)[j] = t[j]
    BY DEF Start
  <2> HIDE DEF a
  <2>7. \A j \in 1 .. k + 1 : a[j] = Start(t, k + 1)[j]
    BY <2>5, <2>6
  <2>8. a = Start(t, k + 1)
    BY <2>3, <2>5, <2>7, SeqEqual
  <2> QED BY <2>8 DEF a
<1> QED BY <1>1, <1>2

\* R reads what is in B, where P has packed it into no more than l bytes.
Reads(m, R, P, B, l) ==
  \A b \in B : \A j \in Nat :
    Holds(m, j, P[b]) /\ Len(P[b]) <= l => R[j] = [av |-> b, next |-> j + Len(P[b])]

\* R reads what is in E, P packs what is in A, and what is in B arrives.
Arriving(m, R, E, P, A, B, l) ==
  IsMemory(m) /\ Reader(m, R, E) /\ Packer(P, A) /\ B \subseteq A /\ Reads(m, R, P, B, l)

\* The values of an array.
LEMMA ItemsArrive ==
  ASSUME NEW m, NEW E, NEW R, NEW A, NEW P, NEW B, NEW l \in Nat, Arriving(m, R, E, P, A, B, l),
         NEW i \in Nat, NEW t \in Seq(B), Holds(m, i, PackItems(P, t)), Len(PackItems(P, t)) <= l
  PROVE  UnpackItems(R, i, Len(t)) = [value |-> t, next |-> i + Len(PackItems(P, t))]
<1> DEFINE n == Len(t)
           r == ItemsRead(R, i)
<1>0. IsMemory(m) /\ Reader(m, R, E) /\ Packer(P, A) /\ B \subseteq A /\ Reads(m, R, P, B, l)
  BY DEF Arriving
<1>1. n \in Nat /\ t \in Seq(A) /\ \A k \in 1 .. n : t[k] \in B
  BY <1>0, SeqMonotonic
<1>2. PICK s : s = Items(P, t)
  OBVIOUS
<1>3. /\ s \in Seq(Seq(Byte)) /\ Len(s) = n
      /\ \A k \in 1 .. n : s[k] = P[t[k]] /\ P[t[k]] \in Seq(Byte)
  <2>1. P \in [A -> Seq(Byte)]
    BY <1>0 DEF Packer
  <2> QED BY <1>1, <1>2, <2>1, ItemsType
<1>4. PackItems(P, t) = FlattenSeq(s)
  BY <1>2 DEF PackItems, Items
<1>5. PICK total \in Nat : total = Len(FlattenSeq(s))
  <2>1. FlattenSeq(s) \in Seq(Byte)
    BY <1>3, FlattenedLength
  <2> QED BY <2>1, SizedSelf
<1>6. PICK f \in [Nat -> Nat] :
        /\ f[0] = 0 /\ f[Len(s)] = Len(FlattenSeq(s))
        /\ \A k \in 0 .. Len(s) - 1 :
             /\ f[k + 1] = f[k] + Len(s[k + 1])
             /\ f[k + 1] <= Len(FlattenSeq(s))
             /\ Holds(m, i + f[k], s[k + 1])
  BY <1>0, <1>3, <1>4, HoldsFlattened, ZenonT(30)
<1>7. /\ r[0] = [value |-> << >>, next |-> i]
      /\ \A k \in Nat :
           /\ r[k] \in [value : Seq(E), next : Nat] /\ r[k].next >= i
           /\ r[k + 1] = OneItem(R, r[k])
  BY <1>0, ItemsRounds
<1> HIDE DEF r, n
<1>8. UnpackItems(R, i, n) = r[n]
  BY DEF UnpackItems, r
<1> DEFINE Z == {k \in Nat : k <= n => r[k] = [value |-> Start(t, k), next |-> i + f[k]]}
<1>9. 0 \in Z
  <2>1. Start(t, 0) = << >>
    BY StartNext
  <2>2. i + f[0] = i
    BY <1>6
  <2> QED BY <1>7, <2>1, <2>2
<1>10. ASSUME NEW k \in Nat, k \in Z PROVE k + 1 \in Z
  <2>1. ASSUME k + 1 <= n
        PROVE  r[k + 1] = [value |-> Start(t, k + 1), next |-> i + f[k + 1]]
    <3>0. k \in 0 .. n - 1 /\ k + 1 \in 1 .. n /\ k <= n
      BY <1>1, <2>1
    <3>2. r[k] = [value |-> Start(t, k), next |-> i + f[k]]
      BY <1>10, <3>0
    <3>3. t[k + 1] \in B /\ s[k + 1] = P[t[k + 1]]
      BY <1>1, <1>3, <3>0
    <3>4. PICK size \in Nat : size = Len(s[k + 1])
      <4>1. s[k + 1] \in Seq(Byte)
        BY <1>3, <3>0
      <4> QED BY <4>1, SizedSelf
    <3>5. f[k + 1] = f[k] + size /\ f[k + 1] <= total /\ Holds(m, i + f[k], s[k + 1])
      BY <1>3, <1>5, <1>6, <3>0, <3>4
    <3>6. PICK j \in Nat : j = i + f[k]
      BY <1>6
    <3>7. PICK a \in Nat : a = f[k]
      BY <1>6
    <3>8. size <= l
      <4>1. a + size <= total
        BY <3>5, <3>7
      <4>2. total <= l
        BY <1>4, <1>5
      <4> QED BY <4>1, <4>2
    <3>9. R[j] = [av |-> t[k + 1], next |-> j + size]
      BY <1>0, <3>3, <3>4, <3>5, <3>6, <3>8 DEF Reads
    <3>10. r[k + 1] = [value |-> Append(r[k].value, R[r[k].next].av), next |-> R[r[k].next].next]
      BY <1>7 DEF OneItem
    <3>11. r[k].value = Start(t, k) /\ r[k].next = j
      BY <3>2, <3>6
    <3>12. R[j].av = t[k + 1] /\ R[j].next = j + size
      BY <3>9
    <3>13. Append(Start(t, k), t[k + 1]) = Start(t, k + 1)
      BY <3>0, StartNext DEF n
    <3>14. j + size = i + f[k + 1]
      <4>1. f[k + 1] = a + size /\ j = i + a
        BY <3>5, <3>6, <3>7
      <4> QED BY <4>1
    <3> QED BY <3>10, <3>11, <3>12, <3>13, <3>14
  <2>2. k + 1 \in Nat
    OBVIOUS
  <2> QED BY <2>1, <2>2
<1> HIDE DEF Z
<1>11. \A k \in Nat : k \in Z
  BY <1>9, <1>10, InductionOnNat
<1>12. r[n] = [value |-> Start(t, n), next |-> i + f[n]]
  <2>1. n <= n
    BY <1>1
  <2> QED BY <1>1, <1>11, <2>1 DEF Z
<1>13. Start(t, n) = t
  BY StartNext DEF n
<1>14. i + f[n] = i + Len(PackItems(P, t))
  BY <1>3, <1>4, <1>6
<1> QED BY <1>8, <1>12, <1>13, <1>14 DEF n

\* The elements of a table.  END would end it.
Elements(B) == Seq([key : Strings, value : B])
NoEnd(B)    == \A b \in B : b.type # AMF_END

LEMMA ElemsArrive ==
  ASSUME NEW m, NEW E, NEW R, NEW A, NEW P, NEW B, NEW l \in Nat, Arriving(m, R, E, P, A, B, l),
         NoEnd(B), NEW i \in Nat, NEW t \in Elements(B),
         Holds(m, i, PackElems(P, t)), Len(PackElems(P, t)) <= l
  PROVE  LET r == ElemsRead(m, R, i)
         IN /\ r[Len(t)] = [value |-> t, next |-> i + Len(PackElems(P, t)), open |-> TRUE]
            /\ \A k \in 0 .. Len(t) : r[k].open
            /\ Len(t) <= Len(PackElems(P, t))
            /\ t \in Tables(A) /\ PackElems(P, t) \in Seq(Byte)
<1> DEFINE n == Len(t)
           r == ElemsRead(m, R, i)
<1>a. IsMemory(m) /\ Reader(m, R, E) /\ Packer(P, A) /\ B \subseteq A /\ Reads(m, R, P, B, l)
  BY DEF Arriving
<1>1. n \in Nat /\ t \in Tables(A) /\ \A k \in 1 .. n : t[k] \in [key : Strings, value : B]
  <2>1. [key : Strings, value : B] \subseteq [key : Seq(Byte), value : A]
    BY <1>a DEF Strings
  <2>2. t \in Seq([key : Seq(Byte), value : A])
    BY <2>1, SeqMonotonic DEF Elements
  <2>3. \A k \in 1 .. n : t[k] \in [key : Strings, value : B]
    <3> DEFINE T == [key : Strings, value : B]
    <3>1. t \in Seq(T)
      BY DEF Elements
    <3> HIDE DEF T
    <3>2. \A k \in 1 .. n : t[k] \in T
      BY <3>1
    <3> QED BY <3>2 DEF T
  <2>4. n \in Nat
    <3> DEFINE T == [key : Strings, value : B]
    <3>1. t \in Seq(T)
      BY DEF Elements
    <3> HIDE DEF T
    <3> QED BY <3>1
  <2> QED BY <2>2, <2>3, <2>4 DEF Tables
<1>0. n \in Nat
  BY <1>1
<1>2. PICK s : s = Elems(P, t)
  OBVIOUS
<1>3. /\ s \in Seq(Seq(Byte)) /\ Len(s) = n
      /\ \A k \in 1 .. n :
           /\ s[k] = PackString(t[k].key) \o P[t[k].value]
           /\ t[k].key \in Seq(Byte)
           /\ Sized(PackString(t[k].key), Len(t[k].key) + 2)
           /\ P[t[k].value] \in Seq(Byte)
           /\ Sized(s[k], Len(t[k].key) + 2 + Len(P[t[k].value]))
  <2>1. P \in [A -> Seq(Byte)]
    BY <1>a DEF Packer
  <2>2. t \in Tables(A)
    BY <1>1
  <2>3. /\ Elems(P, t) \in Seq(Seq(Byte)) /\ Len(Elems(P, t)) = n
        /\ \A k \in 1 .. n :
             /\ Elems(P, t)[k] = PackString(t[k].key) \o P[t[k].value]
             /\ t[k].key \in Seq(Byte) /\ t[k].value \in A
             /\ Sized(PackString(t[k].key), Len(t[k].key) + 2)
             /\ P[t[k].value] \in Seq(Byte)
             /\ Sized(Elems(P, t)[k], Len(t[k].key) + 2 + Len(P[t[k].value]))
    BY <2>1, <2>2, ElemsType
  <2> QED BY <1>2, <2>3
<1>4. PackElems(P, t) = FlattenSeq(s)
  BY <1>2 DEF PackElems, Elems
<1>5. PICK total \in Nat : total = Len(FlattenSeq(s)) /\ FlattenSeq(s) \in Seq(Byte)
  <2>1. FlattenSeq(s) \in Seq(Byte)
    BY <1>3, FlattenedLength
  <2> QED BY <2>1, SizedSelf
<1>6. PICK f \in [Nat -> Nat] :
        /\ f[0] = 0 /\ f[Len(s)] = Len(FlattenSeq(s))
        /\ \A k \in 0 .. Len(s) - 1 :
             /\ f[k + 1] = f[k] + Len(s[k + 1])
             /\ f[k + 1] <= Len(FlattenSeq(s))
             /\ Holds(m, i + f[k], s[k + 1])
  BY <1>a, <1>3, <1>4, HoldsFlattened, ZenonT(30)
<1>7. /\ r[0] = [value |-> << >>, next |-> i, open |-> TRUE]
      /\ \A k \in Nat : r[k] \in Rounds(E, i) /\ r[k + 1] = OneMore(m, R, r[k])
  BY <1>a, ElemsRounds, ZenonT(30)
<1> HIDE DEF r, n
<1> DEFINE x(k) == [value |-> Start(t, k), next |-> i + f[k], open |-> TRUE]
           Z == {k \in Nat : k <= n => r[k] = x(k) /\ f[k] >= k}
<1>9. 0 \in Z
  <2>1. Start(t, 0) = << >>
    BY StartNext DEF Elements
  <2>2. i + f[0] = i /\ f[0] >= 0
    BY <1>6
  <2> QED BY <1>7, <2>1, <2>2
<1>10. ASSUME NEW k \in Nat, k \in Z PROVE k + 1 \in Z
  <2> SUFFICES ASSUME k + 1 <= n PROVE r[k + 1] = x(k + 1) /\ f[k + 1] >= k + 1
    OBVIOUS
  <2>1. k \in 0 .. n - 1 /\ k + 1 \in 1 .. n /\ k <= n
    BY <1>0
  <2>2. r[k] = x(k) /\ f[k] >= k
    BY <1>10, <2>1
  <2>3. PICK key \in Strings, b \in B : key = t[k + 1].key /\ b = t[k + 1].value
                                        /\ t[k + 1] = [key |-> key, value |-> b]
    BY <1>1, <2>1
  <2>4. PICK len \in Nat : len = Len(key)
    <3>1. key \in Seq(Byte)
      BY DEF Strings
    <3> QED BY <3>1, SizedSelf
  <2>5. PICK size \in Nat : size = Len(P[b])
    <3>1. P[b] \in Seq(Byte)
      BY <1>3, <2>1, <2>3
    <3> QED BY <3>1, SizedSelf
  <2>6. /\ s[k + 1] = PackString(key) \o P[b] /\ Sized(PackString(key), len + 2)
        /\ Sized(P[b], size) /\ Sized(s[k + 1], len + 2 + size)
    BY <1>3, <2>1, <2>3, <2>4, <2>5, SizedSelf
  <2>7. Len(s[k + 1]) = len + 2 + size
    BY <2>6, SizedType
  <2>8. f[k + 1] = f[k] + (len + 2 + size) /\ f[k + 1] <= total /\ Holds(m, i + f[k], s[k + 1])
    BY <1>3, <1>5, <1>6, <2>1, <2>7
  <2>9. PICK a \in Nat : a = f[k]
    BY <1>6
  <2>10. PICK j \in Nat : j = i + a
    OBVIOUS
  <2>11. size <= l
    <3>1. a + (len + 2 + size) <= total
      BY <2>8, <2>9
    <3>2. total <= l
      BY <1>4, <1>5
    <3> QED BY <3>1, <3>2
  <2>12. Holds(m, j, PackString(key)) /\ Holds(m, j + (len + 2), P[b])
    <3>1. Holds(m, j, PackString(key) \o P[b])
      BY <2>6, <2>8, <2>9, <2>10
    <3>2. PICK c \in Nat : c = len + 2
      OBVIOUS
    <3>3. Sized(PackString(key), c) /\ Sized(P[b], size)
      BY <2>6, <3>2
    <3>4. Holds(m, j, PackString(key)) /\ Holds(m, j + c, P[b])
      BY <1>a, <3>1, <3>3, HoldsParts
    <3> QED BY <3>2, <3>4
  <2>13. PICK v \in Nat : v = j + (len + 2)
    OBVIOUS
  <2>14. UnpackString(m, j) = [value |-> key, next |-> v]
    <3>1. UnpackString(m, j) = [value |-> key, next |-> j + 2 + len]
      BY <1>a, <2>4, <2>12, StringRead
    <3>2. j + 2 + len = v
      BY <2>13
    <3> QED BY <3>1, <3>2
  <2>15. R[v] = [av |-> b, next |-> v + size]
    BY <1>a, <2>5, <2>11, <2>12, <2>13 DEF Reads
  <2>16. r[k].value = Start(t, k) /\ r[k].next = j /\ r[k].open
    BY <2>2, <2>9, <2>10
  <2>17. UnpackString(m, j).value = key /\ UnpackString(m, j).next = v
    BY <2>14
  <2>18. R[v].av = b /\ R[v].next = v + size /\ b.type # AMF_END
    BY <2>15 DEF NoEnd
  <2>19. OneMore(m, R, r[k]) =
           [value |-> Append(Start(t, k), Elem(key, b)), next |-> v + size, open |-> TRUE]
    BY <2>16, <2>17, <2>18 DEF OneMore
  <2>20. Append(Start(t, k), Elem(key, b)) = Start(t, k + 1)
    <3>1. Append(Start(t, k), t[k + 1]) = Start(t, k + 1)
      <4> DEFINE T == [key : Strings, value : B]
      <4>1. t \in Seq(T)
        BY DEF Elements
      <4> HIDE DEF T
      <4> QED BY <2>1, <4>1, StartNext DEF n
    <3> QED BY <2>3, <3>1 DEF Elem
  <2>21. v + size = i + f[k + 1] /\ f[k + 1] >= k + 1
    <3>1. f[k + 1] = a + (len + 2 + size) /\ a >= k
      BY <2>2, <2>8, <2>9
    <3> QED BY <2>10, <2>13, <3>1
  <2>22. r[k + 1] = OneMore(m, R, r[k])
    BY <1>7
  <2> QED BY <2>19, <2>20, <2>21, <2>22
<1> HIDE DEF Z
<1>11. \A k \in Nat : k \in Z
  BY <1>9, <1>10, InductionOnNat
<1>12. ASSUME NEW k \in 0 .. n PROVE r[k] = x(k) /\ f[k] >= k
  <2>1. k \in Nat /\ k <= n
    BY <1>0
  <2> QED BY <1>11, <2>1 DEF Z
<1>13. Start(t, n) = t
  <2> DEFINE T == [key : Strings, value : B]
  <2>1. t \in Seq(T)
    BY DEF Elements
  <2> HIDE DEF T
  <2> QED BY <2>1, StartNext DEF n
<1>14. n \in 0 .. n
  BY <1>0
<1>15. r[n] = [value |-> t, next |-> i + total, open |-> TRUE] /\ n <= total
  BY <1>3, <1>5, <1>6, <1>12, <1>13, <1>14
<1>16. ASSUME NEW k \in 0 .. n PROVE r[k].open
  <2>1. r[k] = x(k)
    BY <1>12
  <2> QED BY <2>1
<1>17. total = Len(PackElems(P, t)) /\ PackElems(P, t) \in Seq(Byte)
  BY <1>4, <1>5
<1> QED BY <1>1, <1>15, <1>16, <1>17 DEF r, n

LEMMA ReverseTwice == ASSUME NEW s, NEW n \in Nat, Sized(s, n) PROVE Reverse(Reverse(s)) = s
BY DEF Reverse, Sized

\* An associative array ends when it has the elements it counts.
LEMMA AssocArrives ==
  ASSUME NEW m, NEW E, NEW R, NEW A, NEW P, NEW B, NEW l \in Nat, Arriving(m, R, E, P, A, B, l),
         NoEnd(B), NEW i \in Nat, NEW t \in Elements(B),
         Holds(m, i, PackElems(P, t)), Len(PackElems(P, t)) <= l
  PROVE  LET u == UnpackElems(m, R, i, Len(t))
         IN u.value = t /\ u.next = i + Len(PackElems(P, t))
<1> DEFINE r == ElemsRead(m, R, i)
<1>a. IsMemory(m) /\ Reader(m, R, E) /\ Packer(P, A)
  BY DEF Arriving
<1> USE <1>a
<1>1. /\ r[Len(t)] = [value |-> t, next |-> i + Len(PackElems(P, t)), open |-> TRUE]
      /\ \A k \in 0 .. Len(t) : r[k].open
      /\ Len(t) <= Len(PackElems(P, t))
      /\ t \in Tables(A) /\ PackElems(P, t) \in Seq(Byte)
  BY ElemsArrive
<1> HIDE DEF r
<1>2. PICK n \in Nat : n = Len(t)
  BY <1>1 DEF Tables
<1>3. PICK size \in Nat : size = Len(PackElems(P, t))
  BY <1>1, SizedSelf
<1>4. PICK last \in Nat : last = Len(m.data)
  BY DEF IsMemory
<1>5. n \in 0 .. last
  <2>1. i + size <= last
    BY <1>3, <1>4 DEF Holds
  <2>2. n <= size
    BY <1>1, <1>2, <1>3
  <2> QED BY <2>1, <2>2
<1>6. Over(m, R, i, n, n)
  BY DEF Over
<1>7. n = 0 \/ ~Over(m, R, i, n, n - 1)
  <2> SUFFICES ASSUME n # 0 PROVE ~Over(m, R, i, n, n - 1)
    OBVIOUS
  <2>1. n - 1 \in 0 .. n /\ ~(n - 1 >= n)
    OBVIOUS
  <2>2. r[n - 1].open
    BY <1>1, <1>2, <2>1
  <2> QED BY <2>1, <2>2 DEF Over, r
<1>8. UnpackElems(m, R, i, n) = r[n]
  <2>1. n \in Int /\ n \in 0 .. Len(m.data)
    BY <1>4, <1>5
  <2> QED BY <1>6, <1>7, <2>1, UnpackElemsAt DEF r
<1> QED BY <1>1, <1>2, <1>8

\* R reads END.
ReadsEnd(m, R) ==
  \A j \in Nat : At(m, j + 1) = AMF_END /\ j < Len(m.data) => R[j] = [av |-> End, next |-> j + 1]

\* A hash ends with its marker.
LEMMA HashArrives ==
  ASSUME NEW m, NEW E, NEW R, NEW A, NEW P, NEW B, NEW l \in Nat, Arriving(m, R, E, P, A, B, l),
         ReadsEnd(m, R), NoEnd(B), NEW i \in Nat, NEW t \in Elements(B),
         PackElems(P, t) \in Seq(Byte),
         Holds(m, i, PackElems(P, t) \o EndMarker), Len(PackElems(P, t)) <= l
  PROVE  LET u == UnpackElems(m, R, i, Len(m.data))
         IN u.value = t /\ u.next = i + Len(PackElems(P, t)) + 3
<1> DEFINE r == ElemsRead(m, R, i)
<1>a. IsMemory(m) /\ Reader(m, R, E) /\ Packer(P, A)
  BY DEF Arriving
<1> USE <1>a
<1>0. /\ r[0] = [value |-> << >>, next |-> i, open |-> TRUE]
      /\ \A k \in Nat : r[k] \in Rounds(E, i) /\ r[k + 1] = OneMore(m, R, r[k])
  BY ElemsRounds, ZenonT(30)
<1>1. PICK size \in Nat : size = Len(PackElems(P, t)) /\ Sized(PackElems(P, t), size)
  BY SizedSelf
<1>2. Holds(m, i, PackElems(P, t)) /\ Holds(m, i + size, EndMarker)
  BY <1>1, EndMarkerType, HoldsParts
<1>3. /\ r[Len(t)] = [value |-> t, next |-> i + Len(PackElems(P, t)), open |-> TRUE]
      /\ \A k \in 0 .. Len(t) : r[k].open
      /\ Len(t) <= Len(PackElems(P, t))
      /\ t \in Tables(A) /\ PackElems(P, t) \in Seq(Byte)
  BY <1>2, ElemsArrive
<1>4. PICK n \in Nat : n = Len(t)
  BY <1>3 DEF Tables
<1>5. PICK last \in Nat : last = Len(m.data)
  BY DEF IsMemory
<1>6. PICK j \in Nat : j = i + size
  OBVIOUS
<1>7. j + 3 <= last
  <2>1. Len(EndMarker) = 3
    BY EndMarkerType, SizedType
  <2>2. i + size + Len(EndMarker) <= last
    BY <1>2, <1>5 DEF Holds
  <2> QED BY <1>6, <2>1, <2>2
<1>8. << >> \in Strings /\ Len(<< >>) = 0
  BY DEF Strings, MaxShort
<1>9. Sized(PackString(<< >>), 2) /\ Sized(<< AMF_END >>, 1)
  <2>1. << >> \in Seq(Byte) /\ Len(<< >>) + 2 = 2
    OBVIOUS
  <2>2. Sized(PackString(<< >>), Len(<< >>) + 2)
    BY <2>1, PackStringType
  <2>3. Sized(<< AMF_END >>, 1)
    BY DEF AMF_END, Byte, Sized
  <2> QED BY <2>1, <2>2, <2>3
<1>10. Holds(m, j, PackString(<< >>)) /\ Holds(m, j + 2, << AMF_END >>)
  <2>1. Holds(m, j, PackString(<< >>) \o << AMF_END >>)
    BY <1>2, <1>6 DEF EndMarker
  <2> QED BY <1>9, <2>1, HoldsParts
<1>11. UnpackString(m, j).next = j + 2
  <2>1. UnpackString(m, j) = [value |-> << >>, next |-> j + 2 + Len(<< >>)]
    BY <1>8, <1>10, StringRead
  <2>2. j + 2 + Len(<< >>) = j + 2
    BY <1>8
  <2> QED BY <2>1, <2>2
<1>12. PICK e \in Nat : e = j + 2
  OBVIOUS
<1>13. R[e] = [av |-> End, next |-> e + 1]
  <2>1. At(m, e + 1) = AMF_END
    BY <1>10, <1>12, HoldsFirst
  <2>2. e < Len(m.data)
    BY <1>5, <1>7, <1>12
  <2> QED BY <2>1, <2>2 DEF ReadsEnd
<1> HIDE DEF r
<1>15. r[n].value = t /\ r[n].next = j /\ r[n].open
  BY <1>1, <1>3, <1>4, <1>6
<1>16. r[n + 1] = [value |-> t, next |-> e + 1, open |-> FALSE]
  <2>1. r[n + 1] = OneMore(m, R, r[n])
    BY <1>0
  <2>2. R[e].av.type = AMF_END /\ R[e].next = e + 1
    BY <1>13 DEF End, Value
  <2>3. UnpackString(m, r[n].next).next = e
    BY <1>11, <1>12, <1>15
  <2> QED BY <1>15, <2>1, <2>2, <2>3 DEF OneMore
<1>17. n + 1 \in 0 .. last /\ n < last
  <2>1. n <= size
    BY <1>1, <1>3, <1>4
  <2> QED BY <1>6, <1>7, <2>1
<1>18. Over(m, R, i, last, n + 1)
  BY <1>16 DEF Over, r
<1>19. ~Over(m, R, i, last, (n + 1) - 1)
  <2>1. (n + 1) - 1 = n /\ ~(n >= last)
    BY <1>17
  <2> QED BY <1>15, <2>1 DEF Over, r
<1>20. UnpackElems(m, R, i, last) = r[n + 1]
  <2>1. PICK k \in 0 .. last : k = n + 1
    BY <1>17
  <2>2. last \in Int /\ k \in 0 .. Len(m.data)
    BY <1>5
  <2>3. Over(m, R, i, last, k) /\ ~Over(m, R, i, last, k - 1)
    BY <1>18, <1>19, <2>1
  <2> QED BY <2>1, <2>2, <2>3, UnpackElemsAt DEF r
<1>21. e + 1 = i + size + 3
  BY <1>6, <1>12
<1> QED BY <1>1, <1>5, <1>16, <1>20, <1>21

-----------------------------------------------------------------------------
(* Readable values.                                                        *)

\* The values that are readable if those in S are.
ReadableOver(d, S) ==
  {av \in AVs[d + 1] :
     /\ av.type = AMF_STRING => av.value \in Strings
     /\ av.type = AMF_ARRAY  => av.value \in Seq(S)
     /\ av.type \in {AMF_HASH, AMF_ASSOC_ARRAY} => av.value \in Seq([key : Strings, value : S \ {End}])
     /\ av.type = AMF_ARRAY       => Len(av.value) <= MaxItems
     /\ av.type = AMF_ASSOC_ARRAY => Len(av.value) <= MaxElems}

LEMMA ReadableLevels ==
  /\ Readable[0] = {}
  /\ \A d \in Nat : Readable[d + 1] = ReadableOver(d, Readable[d]) /\ Readable[d] \subseteq AVs[d]
<1> DEFINE W == [d \in Nat |-> SUBSET AVs[d]]
           g == [d \in Nat |-> [S \in W[d] |-> ReadableOver(d, S)]]
           Is(f) == f = [d \in Nat |->
                          IF d = 0 THEN {}
                          ELSE {av \in AVs[d] :
                                  /\ av.type = AMF_STRING => av.value \in Strings
                                  /\ av.type = AMF_ARRAY  => av.value \in Seq(f[d - 1])
                                  /\ av.type \in {AMF_HASH, AMF_ASSOC_ARRAY} =>
                                       av.value \in Seq([key : Strings, value : f[d - 1] \ {End}])
                                  /\ av.type = AMF_ARRAY       => Len(av.value) <= MaxItems
                                  /\ av.type = AMF_ASSOC_ARRAY => Len(av.value) <= MaxElems}]
           r == CHOOSE f : Is(f)
<1>1. \A d \in Nat : \A S : ReadableOver(d, S) \subseteq AVs[d + 1]
  BY DEF ReadableOver
<1>2. /\ \A d \in Nat : W[d] = SUBSET AVs[d]
      /\ \A d \in Nat : \A S \in W[d] : g[d][S] = ReadableOver(d, S)
  OBVIOUS
<1>3. r = Readable
  BY DEF Readable
<1> HIDE DEF W, g
<1>4. ASSUME NEW d \in Nat, NEW S \in W[d] PROVE g[d][S] \in W[d + 1]
  <2>1. d + 1 \in Nat
    OBVIOUS
  <2>2. W[d + 1] = SUBSET AVs[d + 1] /\ g[d][S] = ReadableOver(d, S)
    BY <1>2, <2>1
  <2>3. ReadableOver(d, S) \subseteq AVs[d + 1]
    BY <1>1
  <2> QED BY <2>2, <2>3
<1>5. {} \in W[0]
  <2>1. 0 \in Nat
    OBVIOUS
  <2> QED BY <1>2, <2>1
<1>6. PICK f : Recursive(f, {}, g, W)
  BY <1>4, <1>5, Recursion
<1> DEFINE Over1(d, S) ==
             {av \in AVs[d] :
                /\ av.type = AMF_STRING => av.value \in Strings
                /\ av.type = AMF_ARRAY  => av.value \in Seq(S)
                /\ av.type \in {AMF_HASH, AMF_ASSOC_ARRAY} =>
                     av.value \in Seq([key : Strings, value : S \ {End}])
                /\ av.type = AMF_ARRAY       => Len(av.value) <= MaxItems
                /\ av.type = AMF_ASSOC_ARRAY => Len(av.value) <= MaxElems}
<1>7. ASSUME NEW d \in Nat, d # 0, NEW S PROVE Over1(d, S) = ReadableOver(d - 1, S)
  <2>1. (d - 1) + 1 = d
    OBVIOUS
  <2> QED BY <2>1 DEF ReadableOver
<1>8. \A h : Is(h) <=> h = [d \in Nat |-> IF d = 0 THEN {} ELSE Over1(d, h[d - 1])]
  OBVIOUS
<1> HIDE DEF Over1, Is
<1>9. Is(f)
  <2>1. ASSUME NEW d \in Nat, d # 0 PROVE f[d] = Over1(d, f[d - 1])
    <3>1. d - 1 \in Nat
      BY <2>1
    <3>2. f[d] = g[d - 1][f[d - 1]] /\ f[d - 1] \in W[d - 1]
      BY <1>6, <2>1, <3>1 DEF Recursive
    <3> QED BY <1>2, <1>7, <2>1, <3>1, <3>2
  <2>2. f = [d \in Nat |-> f[d]] /\ f[0] = {}
    BY <1>6 DEF Recursive
  <2>3. f = [d \in Nat |-> IF d = 0 THEN {} ELSE Over1(d, f[d - 1])]
    BY <2>1, <2>2
  <2> QED BY <1>8, <2>3
<1>10. r = [d \in Nat |-> IF d = 0 THEN {} ELSE Over1(d, r[d - 1])]
  <2>1. Is(r)
    BY <1>9
  <2> HIDE DEF r
  <2> QED BY <1>8, <2>1
<1> HIDE DEF r
<1>11. r[0] = {}
  BY <1>10
<1>12. ASSUME NEW d \in Nat PROVE r[d + 1] = ReadableOver(d, r[d])
  <2>1. d + 1 \in Nat /\ d + 1 # 0 /\ (d + 1) - 1 = d
    OBVIOUS
  <2>2. r[d + 1] = Over1(d + 1, r[d])
    BY <1>10, <2>1
  <2> QED BY <1>7, <2>1, <2>2
<1>13. ASSUME NEW d \in Nat PROVE r[d] \subseteq AVs[d]
  <2>1. CASE d = 0
    BY <1>11, <2>1
  <2>2. CASE d # 0
    <3>1. d - 1 \in Nat /\ (d - 1) + 1 = d
      BY <2>2
    <3> QED BY <1>1, <1>12, <3>1
  <2> QED BY <2>1, <2>2
<1> QED BY <1>3, <1>11, <1>12, <1>13

\* Only END has its type.
LEMMA OnlyEnd == ASSUME NEW d \in Nat, NEW av \in AVs[d], av.type = AMF_END PROVE av = End
<1>1. d # 0
  BY AVLevels
<1>2. d - 1 \in Nat /\ (d - 1) + 1 = d
  BY <1>1
<1>3. av \in AVs[(d - 1) + 1]
  BY <1>2
<1> HIDE DEF End
<1>4. av = Value(av.type, av.value) /\ (av.type \notin Typed => av.value = << >>)
  BY <1>2, <1>3, AVCases
<1>5. AMF_END \notin Typed
  BY DEF Typed, AMF_END, AMF_NUMBER, AMF_BOOLEAN, AMF_STRING, AMF_LINK, AMF_ARRAY, AMF_HASH,
         AMF_ASSOC_ARRAY
<1> QED BY <1>4, <1>5 DEF End

\* A value arrives if what is in it does.
LEMMA ValueArrives ==
  ASSUME NEW m, IsMemory(m), NEW d \in Nat, NEW P, Packer(P, AVs[d]),
         NEW E, NEW R, Reader(m, R, E), NEW l \in Nat, Reads(m, R, P, Readable[d], l),
         l >= 3 => ReadsEnd(m, R),
         NEW av \in Readable[d + 1], NEW i \in Nat,
         Holds(m, i, PackValue(P, av)), Len(PackValue(P, av)) <= l + 1
  PROVE  UnpackValue(m, R, i) = [av |-> av, next |-> i + Len(PackValue(P, av))]
<1> DEFINE t == av.type
           x == av.value
           A == AVs[d]
           S == Readable[d]
           B == Readable[d] \ {End}
           u == UnpackValue(m, R, i)
<1>1. /\ av \in AVs[d + 1] /\ S \subseteq A
      /\ t = AMF_STRING => x \in Strings
      /\ t = AMF_ARRAY  => x \in Seq(S)
      /\ t \in {AMF_HASH, AMF_ASSOC_ARRAY} => x \in Seq([key : Strings, value : B])
      /\ t = AMF_ARRAY       => Len(x) <= MaxItems
      /\ t = AMF_ASSOC_ARRAY => Len(x) <= MaxElems
  BY ReadableLevels DEF ReadableOver
<1>2. P \in [A -> Seq(Byte)]
  BY DEF Packer
<1>3. PICK b \in Seq(Byte) : b = Body(P, av) /\ Len(PackValue(P, av)) = 1 + Len(b)
  BY <1>1, <1>2, BodyType
<1>4. PICK n \in Nat : n = Len(b) /\ Sized(b, n)
  BY SizedSelf
<1>5. PICK j \in Nat : j = i + 1
  OBVIOUS
<1>6. n <= l /\ i + Len(PackValue(P, av)) = j + n
  BY <1>3, <1>4, <1>5
<1>7. /\ av = Value(t, x) /\ t \in Byte
      /\ t = AMF_NUMBER  => x \in Seq(Byte) /\ Len(x) = 8
      /\ t = AMF_BOOLEAN => x \in Seq(Byte) /\ Len(x) = 1
      /\ t = AMF_LINK    => x \in [1 .. 1 -> Shorts]
      /\ t \in {AMF_HASH, AMF_ASSOC_ARRAY} => x \in Tables(A)
      /\ t \notin Typed => x = << >>
  BY <1>1, AVCases
<1>8. At(m, j) = t /\ j <= Len(m.data) /\ Holds(m, j, b)
  <2>1. Holds(m, i, << t >> \o b)
    BY <1>3, BodyCases
  <2>2. Sized(<< t >>, 1)
    <3>1. PICK tt \in Byte : tt = t
      BY <1>7
    <3> QED BY <3>1 DEF Sized
  <2>3. Holds(m, i, << t >>) /\ Holds(m, i + 1, b)
    BY <1>4, <2>1, <2>2, HoldsParts
  <2> QED BY <1>5, <2>3, HoldsFirst
<1>9. PICK last \in Nat : last = Len(m.data)
  BY DEF IsMemory
<1> DEFINE c8 == Reverse(Bytes(m, j, 8))
           c1 == Bytes(m, j, 1)
           c2 == << ReadShort(Bytes(m, j, 2), 1) >>
           string == UnpackString(m, j)
           count  == ReadInt(Bytes(m, j, 4), 1)
           assoc  == Counted(j + 4, count, MaxElems, UnpackElems(m, R, j + 4, count))
           hash   == UnpackElems(m, R, j, Len(m.data))
           array  == Counted(j + 4, count, MaxItems, UnpackItems(R, j + 4, count))
<1>10. /\ t = AMF_NUMBER  => u = [av |-> Value(t, c8), next |-> j + 8]
       /\ t = AMF_BOOLEAN => u = [av |-> Value(t, c1), next |-> j + 1]
       /\ t = AMF_STRING  => u = [av |-> Value(t, string.value), next |-> string.next]
       /\ t = AMF_HASH    => u = [av |-> Value(t, hash.value), next |-> hash.next]
       /\ t = AMF_ASSOC_ARRAY => u = [av |-> Value(t, assoc.value), next |-> assoc.next]
       /\ t = AMF_ARRAY   => u = [av |-> Value(t, array.value), next |-> array.next]
       /\ t = AMF_LINK    => u = [av |-> Value(t, c2), next |-> j + 2]
       /\ t \notin Typed  => u = [av |-> Value(t, << >>), next |-> j]
  <2>1. last > i /\ ~(last <= i)
    BY <1>5, <1>8, <1>9
  <2>2. ReadAs(m, R, i + 1, At(m, i + 1), u)
    BY <1>9, <2>1, UnpackCases
  <2>3. ReadAs(m, R, j, t, u)
    BY <1>5, <1>8, <2>2
  <2> QED BY <2>3 DEF ReadAs
<1> SUFFICES u = [av |-> Value(t, x), next |-> j + n]
  BY <1>6, <1>7
<1>11. /\ t = AMF_NUMBER      => b = Reverse(x)
       /\ t = AMF_BOOLEAN     => b = x
       /\ t = AMF_STRING      => b = PackString(x)
       /\ t = AMF_HASH        => b = PackElems(P, x) \o EndMarker
       /\ t = AMF_ASSOC_ARRAY => b = Long(Len(x)) \o PackElems(P, x)
       /\ t = AMF_ARRAY       => b = Long(Len(x)) \o PackItems(P, x)
       /\ t = AMF_LINK        => b = Short(x[1])
       /\ t \notin Typed      => b = << >>
  BY <1>3, BodyCases
<1>12. NoEnd(B)
  BY <1>1, OnlyEnd DEF NoEnd
<1>13. Arriving(m, R, E, P, A, B, l) /\ Arriving(m, R, E, P, A, S, l)
  BY <1>1 DEF Reads, Arriving
<1> HIDE DEF t, x, u, c8, c1, c2, string, count, assoc, hash, array
<1>14. CASE t = AMF_NUMBER
  <2>1. Sized(x, 8)
    BY <1>7, <1>14 DEF Sized
  <2>2. Sized(b, 8)
    BY <1>11, <1>14, <2>1, ReverseType
  <2>3. n = 8
    BY <1>4, <2>2 DEF Sized
  <2>4. Bytes(m, j, 8) = b
    BY <1>8, <2>2, HoldsBytes
  <2>5. c8 = x
    BY <1>11, <1>14, <2>1, <2>4, ReverseTwice DEF c8
  <2> QED BY <1>10, <1>14, <2>3, <2>5
<1>15. CASE t = AMF_BOOLEAN
  <2>1. Sized(b, 1)
    BY <1>7, <1>11, <1>15 DEF Sized
  <2>2. n = 1
    BY <1>4, <2>1 DEF Sized
  <2>3. c1 = b
    BY <1>8, <2>1, HoldsBytes DEF c1
  <2> QED BY <1>10, <1>11, <1>15, <2>2, <2>3
<1>16. CASE t = AMF_STRING
  <2>1. x \in Strings /\ b = PackString(x)
    BY <1>1, <1>11, <1>16
  <2>2. string = [value |-> x, next |-> j + 2 + Len(x)]
    BY <1>8, <2>1, StringRead DEF string
  <2>3. PICK k \in Nat : k = Len(x) /\ x \in Seq(Byte)
    BY <2>1, SizedSelf DEF Strings
  <2>4. Sized(b, k + 2)
    BY <2>1, <2>3, PackStringType
  <2>5. n = k + 2
    BY <1>4, <2>4 DEF Sized
  <2>6. string.value = x /\ string.next = j + n
    BY <2>2, <2>3, <2>5
  <2> QED BY <1>10, <1>16, <2>6
<1>17. CASE t = AMF_HASH
  <2>1. x \in Elements(B) /\ x \in Tables(A) /\ b = PackElems(P, x) \o EndMarker
    BY <1>1, <1>7, <1>11, <1>17 DEF t, x, Elements
  <2>2. PackElems(P, x) \in Seq(Byte)
    BY <1>2, <2>1, PackedType
  <2>3. PICK k \in Nat : k = Len(PackElems(P, x)) /\ Sized(PackElems(P, x), k)
    BY <2>2, SizedSelf
  <2>4. Sized(b, k + 3)
    BY <2>1, <2>3, EndMarkerType, SizedConcat
  <2>5. n = k + 3
    BY <1>4, <2>4 DEF Sized
  <2>6. ReadsEnd(m, R) /\ k <= l
    BY <1>6, <2>5
  <2>7. hash.value = x /\ hash.next = j + k + 3
    <3> HIDE DEF A, B
    <3> QED BY <1>5, <1>8, <1>12, <1>13, <2>1, <2>2, <2>3, <2>6, HashArrives DEF hash
  <2>8. hash.next = j + n
    BY <2>5, <2>7
  <2> QED BY <1>10, <1>17, <2>7, <2>8
<1>18. CASE t = AMF_ASSOC_ARRAY
  <2>1. x \in Elements(B) /\ x \in Tables(A) /\ b = Long(Len(x)) \o PackElems(P, x)
    BY <1>1, <1>7, <1>11, <1>18 DEF t, x, Elements
  <2>2. PackElems(P, x) \in Seq(Byte)
    BY <1>2, <2>1, PackedType
  <2>3. PICK k \in Nat : k = Len(PackElems(P, x)) /\ Sized(PackElems(P, x), k)
    BY <2>2, SizedSelf
  <2>4. PICK size \in Nat : size = Len(x)
    <3>1. PICK y \in Tables(A) : y = x
      BY <2>1
    <3> QED BY <3>1 DEF Tables
  <2>5. size \in 0 .. MaxElems /\ size \in 0 .. MaxItems
    BY <1>1, <1>18, <2>4, MaxCounts DEF t, x
  <2>6. Sized(Long(size), 4)
    BY LongType
  <2>7. Sized(b, 4 + k)
    BY <2>1, <2>3, <2>4, <2>6, SizedConcat
  <2>8. n = 4 + k
    BY <1>4, <2>7 DEF Sized
  <2>9. Holds(m, j, Long(size)) /\ Holds(m, j + 4, PackElems(P, x))
    BY <1>8, <2>1, <2>3, <2>4, <2>6, HoldsParts
  <2>10. count = Len(x)
    BY <2>4, <2>5, <2>9, LongRead DEF count
  <2>11. PICK o \in Nat : o = j + 4
    OBVIOUS
  <2>12. k <= l
    BY <1>6, <2>8
  <2>13. assoc.value = x /\ assoc.next = o + k
    <3> HIDE DEF A, B
    <3>1. assoc = UnpackElems(m, R, j + 4, Len(x))
      BY <2>4, <2>5, <2>10 DEF assoc, Counted
    <3> QED BY <1>12, <1>13, <2>1, <2>3, <2>9, <2>11, <2>12, <3>1, AssocArrives
  <2>14. assoc.next = j + n
    BY <2>8, <2>11, <2>13
  <2> QED BY <1>10, <1>18, <2>13, <2>14
<1>19. CASE t = AMF_ARRAY
  <2>1. x \in Seq(S) /\ x \in Seq(A) /\ b = Long(Len(x)) \o PackItems(P, x)
    <3>1. x \in Seq(S) /\ b = Long(Len(x)) \o PackItems(P, x)
      BY <1>1, <1>11, <1>19 DEF t, x
    <3> QED BY <1>1, <3>1, SeqMonotonic
  <2>2. PackItems(P, x) \in Seq(Byte)
    BY <1>2, <2>1, PackedType
  <2>3. PICK k \in Nat : k = Len(PackItems(P, x)) /\ Sized(PackItems(P, x), k)
    BY <2>2, SizedSelf
  <2>4. PICK size \in Nat : size = Len(x)
    BY <2>1
  <2>5. size \in 0 .. MaxItems
    BY <1>1, <1>19, <2>4, MaxCounts DEF t, x
  <2>6. Sized(Long(size), 4)
    BY LongType
  <2>7. Sized(b, 4 + k)
    BY <2>1, <2>3, <2>4, <2>6, SizedConcat
  <2>8. n = 4 + k
    BY <1>4, <2>7 DEF Sized
  <2>9. Holds(m, j, Long(size)) /\ Holds(m, j + 4, PackItems(P, x))
    BY <1>8, <2>1, <2>3, <2>4, <2>6, HoldsParts
  <2>10. count = Len(x)
    BY <2>4, <2>5, <2>9, LongRead DEF count
  <2>11. PICK o \in Nat : o = j + 4
    OBVIOUS
  <2>12. k <= l
    BY <1>6, <2>8
  <2>13. array = [value |-> x, next |-> o + k]
    <3>1. array = UnpackItems(R, o, Len(x))
      BY <2>4, <2>5, <2>10, <2>11 DEF array, Counted
    <3>2. Holds(m, o, PackItems(P, x)) /\ Len(PackItems(P, x)) <= l
      BY <2>3, <2>9, <2>11, <2>12
    <3> HIDE DEF A, S
    <3>3. UnpackItems(R, o, Len(x)) = [value |-> x, next |-> o + Len(PackItems(P, x))]
      BY <1>13, <2>1, <3>2, ItemsArrive
    <3> QED BY <2>3, <3>1, <3>3
  <2>14. array.value = x /\ array.next = j + n
    BY <2>8, <2>11, <2>13
  <2> QED BY <1>10, <1>19, <2>14
<1>20. CASE t = AMF_LINK
  <2>1. x \in [1 .. 1 -> Shorts] /\ b = Short(x[1])
    BY <1>7, <1>11, <1>20 DEF t, x
  <2>2. PICK v \in Shorts : v = x[1]
    BY <2>1
  <2>3. x = << v >>
    BY <2>1, <2>2
  <2>4. ReadShort(Bytes(m, j, 2), 1) = v
    BY <1>8, <2>1, <2>2, ShortRead
  <2>5. c2 = x
    BY <2>3, <2>4 DEF c2
  <2>6. Sized(b, 2)
    BY <2>1, <2>2, ShortsInt, ShortType
  <2>7. n = 2
    BY <1>4, <2>6 DEF Sized
  <2> QED BY <1>10, <1>20, <2>5, <2>7
<1>21. CASE t \notin Typed
  <2>1. x = << >> /\ b = << >>
    BY <1>7, <1>11, <1>21 DEF t, x
  <2>2. n = 0
    BY <1>4, <2>1
  <2>3. j + 0 = j
    OBVIOUS
  <2> QED BY <1>10, <1>21, <2>1, <2>2, <2>3
<1> QED BY <1>14, <1>15, <1>16, <1>17, <1>18, <1>19, <1>20, <1>21 DEF Typed

\* END is read wherever there is a level to read it in.
LEMMA EndReads ==
  ASSUME NEW m, IsMemory(m), NEW n \in Nat
  PROVE  ReadsEnd(m, UnpackIn(m)[n + 1])
<1> DEFINE R == UnpackIn(m)[n]
<1>1. UnpackIn(m)[n + 1] = Deeper(m, R)
  BY UnpackLevels
<1> HIDE DEF R
<1>2. AMF_END \notin Typed
  BY DEF Typed, AMF_END, AMF_NUMBER, AMF_BOOLEAN, AMF_STRING, AMF_LINK, AMF_ARRAY, AMF_HASH,
         AMF_ASSOC_ARRAY
<1>3. ASSUME NEW j \in Nat, At(m, j + 1) = AMF_END, j < Len(m.data)
      PROVE  UnpackValue(m, R, j) = [av |-> End, next |-> j + 1]
  <2>1. Len(m.data) \in Nat
    BY DEF IsMemory
  <2>2. Len(m.data) > j /\ ~(Len(m.data) <= j)
    BY <1>3, <2>1
  <2>3. ReadAs(m, R, j + 1, AMF_END, UnpackValue(m, R, j))
    BY <1>3, <2>2, UnpackCases
  <2>4. UnpackValue(m, R, j) = [av |-> Value(AMF_END, << >>), next |-> j + 1]
    BY <1>2, <2>3 DEF ReadAs
  <2> QED BY <2>4 DEF End
<1> QED BY <1>1, <1>3 DEF ReadsEnd, Deeper

\* Each level reads the values that take no more bytes than its number.
LEMMA ReadLevels ==
  ASSUME NEW m, IsMemory(m)
  PROVE  \A d \in Nat : \A n \in Nat : Reads(m, UnpackIn(m)[n], PackTo[d], Readable[d], n)
<1> DEFINE Z == {d \in Nat : \A n \in Nat : Reads(m, UnpackIn(m)[n], PackTo[d], Readable[d], n)}
<1>1. 0 \in Z
  BY ReadableLevels DEF Reads
<1>2. ASSUME NEW d \in Nat, d \in Z PROVE d + 1 \in Z
  <2>1. ASSUME NEW n \in Nat, NEW av \in Readable[d + 1], NEW i \in Nat,
               Holds(m, i, PackTo[d + 1][av]), Len(PackTo[d + 1][av]) <= n
        PROVE  UnpackIn(m)[n][i] = [av |-> av, next |-> i + Len(PackTo[d + 1][av])]
    <3>1. d + 1 \in Nat
      OBVIOUS
    <3>2. av \in AVs[d + 1]
      BY <3>1, ReadableLevels
    <3>3. PackTo[d] \in [AVs[d] -> Seq(Byte)] /\ PackTo[d + 1][av] = PackValue(PackTo[d], av)
      BY <3>2, PackLevels
    <3>4. PICK b \in Nat : b = Len(Body(PackTo[d], av)) /\ Len(PackValue(PackTo[d], av)) = 1 + b
      BY <3>2, <3>3, BodyType, SizedSelf, ZenonT(30)
    <3>5. n - 1 \in Nat /\ (n - 1) + 1 = n
      BY <2>1, <3>3, <3>4
    <3>6. PICK l \in Nat : l = n - 1 /\ l + 1 = n
      BY <3>5
    <3>7. PICK R : R = UnpackIn(m)[l]
      OBVIOUS
    <3>8. UnpackIn(m)[n] = Deeper(m, R) /\ Reader(m, R, AVs[l + 1])
      BY <3>6, <3>7, UnpackLevels, ZenonT(30)
    <3>9. Packer(PackTo[d], AVs[d])
      BY <3>3 DEF Packer
    <3>10. Reads(m, R, PackTo[d], Readable[d], l)
      BY <1>2, <3>7
    <3>11. l >= 3 => ReadsEnd(m, R)
      <4>1. ASSUME l >= 3 PROVE l - 1 \in Nat /\ (l - 1) + 1 = l
        BY <4>1
      <4>2. ASSUME l >= 3 PROVE ReadsEnd(m, UnpackIn(m)[(l - 1) + 1])
        BY <4>1, <4>2, EndReads
      <4> QED BY <3>7, <4>1, <4>2
    <3>12. Holds(m, i, PackValue(PackTo[d], av)) /\ Len(PackValue(PackTo[d], av)) <= l + 1
      BY <2>1, <3>3, <3>6
    <3>13. UnpackValue(m, R, i) = [av |-> av, next |-> i + Len(PackValue(PackTo[d], av))]
      BY <3>8, <3>9, <3>10, <3>11, <3>12, ValueArrives
    <3> QED BY <3>3, <3>8, <3>13 DEF Deeper
  <2>2. \A n \in Nat : Reads(m, UnpackIn(m)[n], PackTo[d + 1], Readable[d + 1], n)
    BY <2>1 DEF Reads
  <2> QED BY <2>2
<1> HIDE DEF Z
<1>3. \A d \in Nat : d \in Z
  BY <1>1, <1>2, InductionOnNat
<1> QED BY <1>3 DEF Z

LEMMA SeqBoth ==
  ASSUME NEW A, NEW B, NEW C, A \cap B \subseteq C, NEW s \in Seq(A), s \in Seq(B)
  PROVE  s \in Seq(C)
<1>1. Len(s) \in Nat /\ s = [k \in 1 .. Len(s) |-> s[k]]
  OBVIOUS
<1>2. \A k \in 1 .. Len(s) : s[k] \in A /\ s[k] \in B
  OBVIOUS
<1>3. \A k \in 1 .. Len(s) : s[k] \in C
  BY <1>2
<1> QED BY <1>1, <1>3

\* A readable value is readable at any depth it is found at.
LEMMA ReadableAtDepth ==
  \A d \in Nat : \A e \in Nat : Readable[e] \cap AVs[d] \subseteq Readable[d]
<1> DEFINE Z == {d \in Nat : \A e \in Nat : Readable[e] \cap AVs[d] \subseteq Readable[d]}
<1>1. 0 \in Z
  BY AVLevels
<1>2. ASSUME NEW d \in Nat, d \in Z PROVE d + 1 \in Z
  <2>1. ASSUME NEW e \in Nat, NEW av \in Readable[e], av \in AVs[d + 1]
        PROVE  av \in Readable[d + 1]
    <3>1. e # 0
      BY <2>1, ReadableLevels
    <3>2. PICK c \in Nat : c + 1 = e
      <4>1. e - 1 \in Nat /\ (e - 1) + 1 = e
        BY <3>1
      <4> QED BY <4>1
    <3>3. av \in ReadableOver(c, Readable[c])
      BY <2>1, <3>2, ReadableLevels
    <3>4. /\ av.type = AMF_STRING => av.value \in Strings
          /\ av.type = AMF_ARRAY  => av.value \in Seq(Readable[c])
          /\ av.type \in {AMF_HASH, AMF_ASSOC_ARRAY} =>
               av.value \in Seq([key : Strings, value : Readable[c] \ {End}])
          /\ av.type = AMF_ARRAY       => Len(av.value) <= MaxItems
          /\ av.type = AMF_ASSOC_ARRAY => Len(av.value) <= MaxElems
      BY <3>3 DEF ReadableOver
    <3>5. /\ av.type = AMF_ARRAY  => av.value \in Seq(AVs[d])
          /\ av.type \in {AMF_HASH, AMF_ASSOC_ARRAY} => av.value \in Tables(AVs[d])
      BY <2>1, AVCases
    <3>6. Readable[c] \cap AVs[d] \subseteq Readable[d]
      BY <1>2
    <3>7. av.type = AMF_ARRAY => av.value \in Seq(Readable[d])
      BY <3>4, <3>5, <3>6, SeqBoth
    <3>8. av.type \in {AMF_HASH, AMF_ASSOC_ARRAY} =>
            av.value \in Seq([key : Strings, value : Readable[d] \ {End}])
      <4> DEFINE A == [key : Strings, value : Readable[c] \ {End}]
                 B == [key : Seq(Byte), value : AVs[d]]
                 C == [key : Strings, value : Readable[d] \ {End}]
      <4>1. A \cap B \subseteq C
        BY <3>6
      <4>2. av.type \in {AMF_HASH, AMF_ASSOC_ARRAY} => av.value \in Seq(A) /\ av.value \in Seq(B)
        BY <3>4, <3>5 DEF Tables
      <4> HIDE DEF A, B, C
      <4>3. av.type \in {AMF_HASH, AMF_ASSOC_ARRAY} => av.value \in Seq(C)
        BY <4>1, <4>2, SeqBoth
      <4> QED BY <4>3 DEF C
    <3>9. av \in ReadableOver(d, Readable[d])
      BY <2>1, <3>4, <3>7, <3>8 DEF ReadableOver
    <3> QED BY <3>9, ReadableLevels
  <2>2. \A e \in Nat : Readable[e] \cap AVs[d + 1] \subseteq Readable[d + 1]
    BY <2>1
  <2> QED BY <2>2
<1> HIDE DEF Z
<1>3. \A d \in Nat : d \in Z
  BY <1>1, <1>2, InductionOnNat
<1> QED BY <1>3 DEF Z

\* What amf_pack writes of a readable value, amf_unpack reads back, wherever it is in the
\* data and whatever is behind it: the same value, and the place where it ends.
THEOREM AmfRoundTrip ==
  ASSUME NEW m, IsMemory(m), NEW i \in Nat, NEW av \in Readable[MaxDepth], Holds(m, i, Pack(av))
  PROVE  Unpack(m, i) = [av |-> av, next |-> i + Len(Pack(av))]
<1>1. MaxDepth \in Nat
  BY MaxDepthAssumption
<1>2. av \in AVs[MaxDepth]
  BY <1>1, ReadableLevels
<1>3. PICK d \in Nat : d = Depth(av) /\ av \in AVs[d]
  BY <1>2, DepthFound
<1>4. av \in Readable[d]
  BY <1>1, <1>3, ReadableAtDepth
<1>5. Pack(av) = PackTo[d][av] /\ Pack(av) \in Seq(Byte)
  BY <1>2, <1>3, PackTakesItsRoom DEF Pack
<1>6. PICK n \in Nat : n = Len(m.data)
  BY DEF IsMemory
<1>7. Len(Pack(av)) <= n
  <2>1. PICK l \in Nat : l = Len(Pack(av))
    BY <1>5, SizedSelf
  <2>2. i + l <= n
    BY <1>6, <2>1 DEF Holds
  <2> QED BY <2>1, <2>2
<1>8. Reads(m, UnpackIn(m)[n], PackTo[d], Readable[d], n)
  BY ReadLevels
<1>9. UnpackIn(m)[n][i] = [av |-> av, next |-> i + Len(PackTo[d][av])]
  BY <1>4, <1>5, <1>7, <1>8 DEF Reads
<1> QED BY <1>5, <1>6, <1>9 DEF Unpack

-----------------------------------------------------------------------------
(* Numbers.                                                                *)

\* k is the exponent of n.
IsExponent(k, n) == n \in Powers[k + 1] .. 2 * Powers[k + 1] - 1
Small     == 1 .. 4095
Fractions == {f \in Nat : f <= 4095}

LEMMA PowersRange == \A n \in Small : \E k \in 0 .. 11 : IsExponent(k, n)
BY DEF Powers, IsExponent, Small

LEMMA ExponentRange ==
  ASSUME NEW n \in Small
  PROVE  /\ Exponent(n) \in 0 .. 11
         /\ \E p \in Nat : p = Powers[Exponent(n) + 1] /\ p > 0 /\ p <= n /\ n < 2 * p
<1>1. Exponent(n) = CHOOSE k \in 0 .. 11 : IsExponent(k, n)
  BY DEF Exponent, IsExponent
<1>2. \E k \in 0 .. 11 : IsExponent(k, n)
  BY PowersRange
<1>3. \A k \in 0 .. 11 :
        IsExponent(k, n) => \E p \in Nat : p = Powers[k + 1] /\ p > 0 /\ p <= n /\ n < 2 * p
  BY DEF Powers, IsExponent, Small
<1>4. Exponent(n) \in 0 .. 11 /\ IsExponent(Exponent(n), n)
  BY <1>1, <1>2
<1> QED BY <1>3, <1>4

LEMMA FractionRange ==
  ASSUME NEW n \in Nat, NEW p \in Nat, p > 0, p <= n, n < 2 * p
  PROVE  Fraction(n, p) \in Fractions
<1>1. PICK a \in Nat : a = (n - p) * 4096 /\ a < p * 4096
  OBVIOUS
<1>2. PICK q \in Int : q = a \div p
  BY DivMod
<1>3. a % p \in Int /\ 0 <= a % p /\ a % p < p /\ a = p * q + (a % p)
  BY <1>2, DivMod
<1>4. q >= 0 /\ q < 4096
  BY <1>1, <1>3
<1> QED BY <1>1, <1>2, <1>4 DEF Fraction, Fractions

\* The parts of a number that is known and not 0.
IsDigits(b, n, sign, e, f) ==
  /\ e \in 0 .. 11 /\ f \in Fractions /\ e = Exponent(n) /\ f = Fraction(n, Powers[e + 1])
  /\ b = << 0, 0, 0, 0, 0, f % 256, ((1023 + e) % 16) * 16 + f \div 256,
            sign * 128 + (1023 + e) \div 16 >>

LEMMA DigitsParts ==
  ASSUME NEW n \in Small, NEW sign
  PROVE  \E e, f : IsDigits(Digits(n, sign), n, sign, e, f)
<1>1. PICK e \in 0 .. 11 : e = Exponent(n)
  BY ExponentRange
<1>2. PICK f \in Fractions : f = Fraction(n, Powers[e + 1])
  <2>1. PICK p \in Nat : p = Powers[e + 1] /\ p > 0 /\ p <= n /\ n < 2 * p
    BY <1>1, ExponentRange
  <2>2. n \in Nat
    BY DEF Small
  <2>3. Fraction(n, p) \in Fractions
    BY <2>1, <2>2, FractionRange
  <2> QED BY <2>1, <2>3
<1>3. IsDigits(Digits(n, sign), n, sign, e, f)
  BY <1>1, <1>2 DEF IsDigits, Digits
<1> QED BY <1>3

LEMMA DigitsType == \A n \in Small : \A sign \in {0, 1} : Sized(Digits(n, sign), 8)
<1> TAKE n \in Small
<1> TAKE sign \in {0, 1}
<1>1. PICK e, f : IsDigits(Digits(n, sign), n, sign, e, f)
  BY DigitsParts
<1>2. e \in 0 .. 11 /\ f \in Fractions
  BY <1>1 DEF IsDigits
<1>3. PICK b \in Byte : b = f % 256
  BY <1>2 DEF Byte, Fractions
<1>4. PICK c \in Byte : c = ((1023 + e) % 16) * 16 + f \div 256
  BY <1>2 DEF Byte, Fractions
<1>5. PICK g \in Byte : g = sign * 128 + (1023 + e) \div 16
  BY <1>2 DEF Byte
<1>6. Digits(n, sign) = << 0, 0, 0, 0, 0, b, c, g >> /\ 0 \in Byte
  BY <1>1, <1>3, <1>4, <1>5 DEF Byte, IsDigits
<1> QED BY <1>6 DEF Sized

\* The kinds of numbers.
LEMMA DoubleCases ==
  ASSUME NEW n \in Int
  PROVE  /\ n = 0        => Double(n) = << 0, 0, 0, 0, 0, 0, 0, 0 >>
         /\ n \in Small  => Double(n) = Digits(n, 0)
         /\ -n \in Small => Double(n) = Digits(-n, 1)
         /\ \/ n = 0
            \/ n \in Small
            \/ -n \in Small
            \/ Double(n) = << 0, 0, 0, 0, 0, 0, 248, 127 >>
<1>1. PICK k \in Int : k = -n
  OBVIOUS
<1>2. /\ n = 0 => n \notin Small /\ k \notin Small
      /\ n \in Small => k \notin Small
  <2>1. \A x \in Small : x > 0
    BY DEF Small
  <2>2. n > 0 => ~(k > 0)
    BY <1>1
  <2>3. n = 0 => ~(n > 0) /\ ~(k > 0)
    BY <1>1
  <2> HIDE DEF Small
  <2> QED BY <2>1, <2>2, <2>3
<1>3. Double(n) = CASE n = 0     -> << 0, 0, 0, 0, 0, 0, 0, 0 >>
                    [] n \in Small -> Digits(n, 0)
                    [] k \in Small -> Digits(k, 1)
                    [] OTHER     -> << 0, 0, 0, 0, 0, 0, 248, 127 >>
  BY <1>1 DEF Double, Small
<1> HIDE DEF Small
<1>4. CASE n = 0
  BY <1>1, <1>2, <1>3, <1>4
<1>5. CASE n \in Small
  BY <1>1, <1>2, <1>3, <1>5
<1>6. CASE k \in Small
  BY <1>1, <1>2, <1>3, <1>6
<1>7. CASE n # 0 /\ n \notin Small /\ k \notin Small
  BY <1>1, <1>3, <1>7
<1> QED BY <1>4, <1>5, <1>6, <1>7

LEMMA DoubleType == \A n \in Int : Sized(Double(n), 8)
<1> TAKE n \in Int
<1>1. CASE n = 0
  <2>1. Double(n) = << 0, 0, 0, 0, 0, 0, 0, 0 >>
    BY <1>1, DoubleCases
  <2> QED BY <2>1 DEF Sized, Byte
<1>2. CASE n \in Small
  BY <1>2, DoubleCases, DigitsType
<1>3. CASE -n \in Small
  BY <1>3, DoubleCases, DigitsType
<1>4. CASE Double(n) = << 0, 0, 0, 0, 0, 0, 248, 127 >>
  BY <1>4 DEF Sized, Byte
<1> QED BY <1>1, <1>2, <1>3, <1>4, DoubleCases

Parts == << 4096, 2048, 1024, 512, 256, 128, 64, 32, 16, 8, 4, 2 >>

\* A number follows from its exponent and its fraction.
LEMMA FractionGives ==
  ASSUME NEW n \in Small, NEW e \in 0 .. 11, NEW f, f = Fraction(n, Powers[e + 1])
  PROVE  Powers[e + 1] + (f * Powers[e + 1]) \div 4096 = n
<1>1. n \in Nat
  BY DEF Small
<1>2. f = (n - Powers[e + 1]) * Parts[e + 1]
  BY <1>1 DEF Fraction, Powers, Parts
<1>3. f * Powers[e + 1] = (n - Powers[e + 1]) * 4096
  BY <1>1, <1>2 DEF Powers, Parts
<1>4. Powers[e + 1] \in Int
  BY DEF Powers
<1>5. PICK d \in Int : d = n - Powers[e + 1]
  BY <1>1, <1>4
<1>6. (f * Powers[e + 1]) \div 4096 = d
  BY <1>3, <1>5
<1> QED BY <1>1, <1>4, <1>5, <1>6

\* Both are in the bytes: the exponent in the high bits of the last two.
LEMMA PartsRead ==
  ASSUME NEW b, NEW n, NEW sign \in {0, 1}, NEW e, NEW f, IsDigits(b, n, sign, e, f)
  PROVE  /\ (b[8] % 128) * 16 + b[7] \div 16 - 1023 = e
         /\ (b[7] % 16) * 256 + b[6] = f
         /\ b[8] \div 128 = sign /\ b[8] # 0
<1>1. e \in 0 .. 11 /\ f \in Nat /\ f <= 4095
  BY DEF IsDigits, Fractions
<1>2. PICK q \in 0 .. 15 : q = f \div 256
  BY <1>1
<1>3. PICK r \in 0 .. 255 : r = f % 256 /\ f = 256 * q + r
  BY <1>1, <1>2
<1>4. PICK c \in 0 .. 15 : c = (1023 + e) % 16
  BY <1>1
<1>5. PICK h \in 63 .. 64 : h = (1023 + e) \div 16 /\ 1023 + e = 16 * h + c
  BY <1>1, <1>4
<1>6. b[6] = r /\ b[7] = c * 16 + q /\ b[8] = sign * 128 + h
  BY <1>2, <1>3, <1>4, <1>5 DEF IsDigits
<1>7. b[7] \div 16 = c /\ b[7] % 16 = q
  BY <1>2, <1>4, <1>6
<1>8. b[8] % 128 = h /\ b[8] \div 128 = sign /\ b[8] # 0
  <2>1. CASE sign = 0
    BY <1>5, <1>6, <2>1
  <2>2. CASE sign = 1
    BY <1>5, <1>6, <2>2
  <2> QED BY <2>1, <2>2
<1> QED BY <1>1, <1>3, <1>5, <1>6, <1>7, <1>8

LEMMA DigitsRead ==
  ASSUME NEW n \in Small, NEW sign \in {0, 1}
  PROVE  Number(Digits(n, sign)) = IF sign = 0 THEN n ELSE -n
<1>1. PICK b : b = Digits(n, sign)
  OBVIOUS
<1>2. PICK e, f : IsDigits(b, n, sign, e, f)
  BY <1>1, DigitsParts
<1>3. /\ (b[8] % 128) * 16 + b[7] \div 16 - 1023 = e
      /\ (b[7] % 16) * 256 + b[6] = f
      /\ b[8] \div 128 = sign /\ b[8] # 0
  BY <1>2, PartsRead
<1>4. b # Double(0)
  <2>1. Double(0)[8] = 0
    BY DoubleCases
  <2> QED BY <1>3, <2>1
<1>5. e \in 0 .. 11 /\ Powers[e + 1] + (f * Powers[e + 1]) \div 4096 = n
  BY <1>2, FractionGives DEF IsDigits
<1>6. Number(b) = IF e \in 0 .. 11 /\ b = Digits(n, sign)
                    THEN (IF sign = 0 THEN n ELSE -n) ELSE Unknown
  BY <1>3, <1>4, <1>5 DEF Number
<1> QED BY <1>1, <1>5, <1>6

\* What is written of a known number is read as that number.
LEMMA NumberOfDouble == \A n \in Known : Number(Double(n)) = n
<1> TAKE n \in Known
<1>1. n \in Int /\ (n = 0 \/ n \in Small \/ -n \in Small)
  BY DEF Known, Small
<1>2. CASE n = 0
  BY <1>2 DEF Number
<1>3. CASE n \in Small
  <2>1. Double(n) = Digits(n, 0)
    BY <1>1, <1>3, DoubleCases
  <2>2. Number(Digits(n, 0)) = n
    BY <1>3, DigitsRead
  <2> QED BY <2>1, <2>2
<1>4. CASE -n \in Small
  <2>1. PICK k \in Small : k = -n /\ -k = n
    BY <1>1, <1>4
  <2>2. Number(Digits(k, 1)) = -k
    <3>1. 1 \in {0, 1} /\ 1 # 0
      OBVIOUS
    <3> QED BY <3>1, DigitsRead
  <2>3. Double(n) = Digits(k, 1)
    BY <1>1, <1>4, <2>1, DoubleCases
  <2> QED BY <2>1, <2>2, <2>3
<1> QED BY <1>1, <1>2, <1>3, <1>4

LEMMA NumberInt == ASSUME NEW b, Sized(b, 8) PROVE Number(b) \in Int
<1>1. PICK x \in 0 .. 255, y \in 0 .. 255, z \in 0 .. 255 : x = b[6] /\ y = b[7] /\ z = b[8]
  <2>1. b \in [1 .. 8 -> Byte]
    BY SizedFunction
  <2>2. b[6] \in Byte /\ b[7] \in Byte /\ b[8] \in Byte
    BY <2>1
  <2> QED BY <2>2 DEF Byte
<1>2. PICK e \in Int : e = (b[8] % 128) * 16 + b[7] \div 16 - 1023
  <2>1. (z % 128) * 16 + y \div 16 - 1023 \in Int
    OBVIOUS
  <2> QED BY <1>1, <2>1
<1>3. PICK f \in Int : f = (b[7] % 16) * 256 + b[6]
  <2>1. (y % 16) * 256 + x \in Int
    OBVIOUS
  <2> QED BY <1>1, <2>1
<1>4. ASSUME e \in 0 .. 11 PROVE Powers[e + 1] + (f * Powers[e + 1]) \div 4096 \in Int
  <2>1. PICK p \in Nat : p = Powers[e + 1]
    BY <1>4 DEF Powers
  <2>2. f * p \in Int
    BY <1>3, <2>1
  <2> QED BY <2>1, <2>2
<1> DEFINE n == Powers[e + 1] + (f * Powers[e + 1]) \div 4096
<1>5. Number(b) \in {0, n, -n, Unknown} /\ (Number(b) \in {n, -n} => e \in 0 .. 11 \/ Number(b) \in {0, Unknown})
  BY <1>2, <1>3 DEF Number
<1> HIDE DEF n
<1>6. Unknown \in Int
  BY DEF Unknown
<1> QED BY <1>4, <1>5, <1>6 DEF n

LEMMA NumberReadable ==
  ASSUME NEW d \in Nat, NEW n \in Int
  PROVE  NumberAV(n) \in Readable[d + 1] /\ Nil \in Readable[d + 1]
<1>1. Double(n) \in [1 .. 8 -> Byte]
  BY DoubleType, SizedFunction
<1>2. AMF_NIL \in Byte \ Typed
  BY DEF AMF_NIL, Byte, Typed, AMF_NUMBER, AMF_BOOLEAN, AMF_STRING, AMF_HASH, AMF_LINK,
         AMF_ASSOC_ARRAY, AMF_ARRAY
<1>3. NumberAV(n) \in AVs[d + 1] /\ Nil \in AVs[d + 1]
  BY <1>1, <1>2, AVMade DEF NumberAV, Nil
<1>4. NumberAV(n).type = AMF_NUMBER /\ Nil.type = AMF_NIL
  BY DEF NumberAV, Nil, Value
<1>5. /\ AMF_NUMBER \notin {AMF_STRING, AMF_HASH, AMF_ASSOC_ARRAY, AMF_ARRAY}
      /\ AMF_NIL \notin {AMF_STRING, AMF_HASH, AMF_ASSOC_ARRAY, AMF_ARRAY}
  BY DEF AMF_NIL, AMF_NUMBER, AMF_STRING, AMF_HASH, AMF_ASSOC_ARRAY, AMF_ARRAY
<1>6. NumberAV(n) \in ReadableOver(d, Readable[d]) /\ Nil \in ReadableOver(d, Readable[d])
  <2> HIDE DEF NumberAV, Nil
  <2> QED BY <1>3, <1>4, <1>5 DEF ReadableOver
<1> QED BY <1>6, ReadableLevels

-----------------------------------------------------------------------------
(* What a client sends.                                                    *)

\* What a Flash player adds to a value.
FlashEnd(av)      == IF av.type = AMF_ASSOC_ARRAY THEN EndMarker ELSE << >>
FlashValue(P, av) == PackValue(P, av) \o FlashEnd(av)

LEMMA FirstByte ==
  ASSUME NEW d \in Nat, NEW P \in [AVs[d] -> Seq(Byte)], NEW av \in AVs[d + 1]
  PROVE  PackValue(P, av)[1] = av.type
<1>1. PICK b \in Seq(Byte) : b = Body(P, av)
  BY BodyType
<1>2. PackValue(P, av) = << av.type >> \o b
  BY <1>1, BodyCases
<1> QED BY <1>2

LEMMA FlashValueType ==
  ASSUME NEW d \in Nat, NEW P \in [AVs[d] -> Seq(Byte)], NEW av \in AVs[d + 1]
  PROVE  /\ FlashValue(P, av) \in Seq(Byte) /\ Len(FlashValue(P, av)) > 0
         /\ FlashValue(P, av)[1] = av.type
         /\ av.type # AMF_ASSOC_ARRAY => FlashValue(P, av) = PackValue(P, av)
         /\ av.type = AMF_ASSOC_ARRAY => FlashValue(P, av) = PackValue(P, av) \o EndMarker
<1>1. PICK n \in Nat : Sized(PackValue(P, av), 1 + n) /\ PackValue(P, av)[1] = av.type
  <2>1. PICK l \in Nat : l = Len(Body(P, av))
    BY BodyType, SizedSelf
  <2>2. PackValue(P, av)[1] = av.type
    BY FirstByte
  <2> QED BY <2>1, <2>2, BodyType DEF Sized
<1>2. Sized(EndMarker, 3)
  BY EndMarkerType
<1>3. PICK p : p = PackValue(P, av)
  OBVIOUS
<1>4. CASE av.type = AMF_ASSOC_ARRAY
  <2>1. FlashValue(P, av) = p \o EndMarker
    BY <1>3, <1>4 DEF FlashValue, FlashEnd
  <2>2. Sized(p \o EndMarker, (1 + n) + 3)
    BY <1>1, <1>2, <1>3, SizedConcat
  <2>3. (p \o EndMarker)[1] = av.type
    <3>1. p \in Seq(Byte) /\ Len(p) = 1 + n /\ EndMarker \in Seq(Byte)
      BY <1>1, <1>2, <1>3 DEF Sized
    <3>2. \A k \in 1 .. Len(p) : (p \o EndMarker)[k] = p[k]
      BY <3>1, ConcatLeft
    <3> QED BY <1>1, <1>3, <3>1, <3>2
  <2> QED BY <1>3, <1>4, <2>1, <2>2, <2>3 DEF Sized
<1>5. CASE av.type # AMF_ASSOC_ARRAY
  <2>1. p \in Seq(Byte) /\ Len(p) > 0
    BY <1>1, <1>3 DEF Sized
  <2>2. FlashValue(P, av) = p
    <3>1. FlashValue(P, av) = p \o << >>
      BY <1>3, <1>5 DEF FlashValue, FlashEnd
    <3> QED BY <2>1, <3>1, ConcatEmptySeq
  <2> QED BY <1>1, <1>3, <1>5, <2>1, <2>2
<1> QED BY <1>4, <1>5

\* So does FlashPackTo with what is nested less and less deep.
LEMMA FlashLevels ==
  \A d \in Nat : /\ FlashPackTo[d] \in [AVs[d] -> Seq(Byte)]
                 /\ \A av \in AVs[d + 1] : FlashPackTo[d + 1][av] = FlashValue(FlashPackTo[d], av)
<1> DEFINE W == [d \in Nat |-> [AVs[d] -> Seq(Byte)]]
           G(d, P) == [av \in AVs[d + 1] |-> FlashValue(P, av)]
           g == [d \in Nat |-> [P \in W[d] |-> G(d, P)]]
           Is(f) == f = [d \in Nat |-> IF d = 0 THEN << >>
                                       ELSE [av \in AVs[d] |-> FlashValue(f[d - 1], av)]]
           PT == CHOOSE f : Is(f)
<1>1. ASSUME NEW d \in Nat, NEW P \in [AVs[d] -> Seq(Byte)]
      PROVE  G(d, P) \in [AVs[d + 1] -> Seq(Byte)]
  <2>1. \A av \in AVs[d + 1] : FlashValue(P, av) \in Seq(Byte)
    BY <1>1, FlashValueType
  <2> QED BY <2>1
<1>2. \A d \in Nat : W[d] = [AVs[d] -> Seq(Byte)]
  OBVIOUS
<1>3. ASSUME NEW d \in Nat, NEW P \in W[d] PROVE g[d][P] = G(d, P) /\ g[d][P] \in W[d + 1]
  <2>1. g[d][P] = G(d, P)
    OBVIOUS
  <2>2. G(d, P) \in [AVs[d + 1] -> Seq(Byte)]
    BY <1>1, <1>2
  <2>3. W[d + 1] = [AVs[d + 1] -> Seq(Byte)]
    <3>1. d + 1 \in Nat
      OBVIOUS
    <3> HIDE DEF W
    <3> QED BY <1>2, <3>1
  <2> HIDE DEF W, g, G
  <2> QED BY <2>1, <2>2, <2>3
<1>4. << >> \in W[0]
  BY AVLevels
<1> HIDE DEF W, g, G
<1>5. PICK f : Recursive(f, << >>, g, W)
  BY <1>3, <1>4, Recursion
<1>6. Is(f)
  <2>1. ASSUME NEW d \in Nat, d # 0
        PROVE  f[d] = [av \in AVs[d] |-> FlashValue(f[d - 1], av)]
    <3>1. d - 1 \in Nat /\ (d - 1) + 1 = d
      BY <2>1
    <3>2. f[d] = g[d - 1][f[d - 1]] /\ f[d - 1] \in W[d - 1]
      BY <1>5, <2>1, <3>1 DEF Recursive
    <3>3. f[d] = G(d - 1, f[d - 1])
      BY <1>3, <3>1, <3>2
    <3> QED BY <3>1, <3>3 DEF G
  <2>2. f[0] = << >> /\ f = [d \in Nat |-> f[d]]
    BY <1>5 DEF Recursive
  <2>3. f = [d \in Nat |-> IF d = 0 THEN << >> ELSE [av \in AVs[d] |-> FlashValue(f[d - 1], av)]]
    BY <2>1, <2>2
  <2> QED BY <2>3
<1>7. Is(PT)
  BY <1>6
<1>8. FlashPackTo = PT
  BY DEF FlashPackTo, FlashValue, FlashEnd
<1> HIDE DEF PT
<1>9. /\ FlashPackTo[0] = << >>
      /\ \A d \in Nat : FlashPackTo[d + 1] = G(d, FlashPackTo[d])
  <2>1. FlashPackTo[0] = << >>
    BY <1>7, <1>8
  <2>2. ASSUME NEW d \in Nat PROVE FlashPackTo[d + 1] = G(d, FlashPackTo[d])
    <3>1. d + 1 \in Nat /\ d + 1 # 0 /\ (d + 1) - 1 = d
      OBVIOUS
    <3> QED BY <1>7, <1>8, <3>1 DEF G
  <2> QED BY <2>1, <2>2
<1> DEFINE Z == {d \in Nat : FlashPackTo[d] \in [AVs[d] -> Seq(Byte)]}
<1>10. 0 \in Z
  <2>1. << >> \in [{} -> Seq(Byte)]
    OBVIOUS
  <2> QED BY <1>9, <2>1, AVLevels
<1>11. ASSUME NEW d \in Nat, d \in Z PROVE d + 1 \in Z
  BY <1>1, <1>9, <1>11, SMTT(30)
<1> HIDE DEF Z
<1>12. \A d \in Nat : d \in Z
  BY <1>10, <1>11, InductionOnNat
<1> QED BY <1>9, <1>12 DEF Z, G

\* A value is packed alike if what is in it is.
LEMMA PackedAlike ==
  ASSUME NEW d \in Nat, NEW P, NEW Q, NEW av \in AVs[d + 1],
         av.type = AMF_ARRAY => \A i \in 1 .. Len(av.value) : P[av.value[i]] = Q[av.value[i]],
         av.type \in {AMF_HASH, AMF_ASSOC_ARRAY} =>
           \A i \in 1 .. Len(av.value) : P[av.value[i].value] = Q[av.value[i].value]
  PROVE  PackValue(P, av) = PackValue(Q, av)
<1> DEFINE x == av.value
<1>1. av.type = AMF_ARRAY => PackItems(P, x) = PackItems(Q, x)
  <2> SUFFICES ASSUME av.type = AMF_ARRAY PROVE PackItems(P, x) = PackItems(Q, x)
    OBVIOUS
  <2>1. [i \in 1 .. Len(x) |-> P[x[i]]] = [i \in 1 .. Len(x) |-> Q[x[i]]]
    OBVIOUS
  <2> QED BY <2>1 DEF PackItems
<1>2. av.type \in {AMF_HASH, AMF_ASSOC_ARRAY} => PackElems(P, x) = PackElems(Q, x)
  <2> SUFFICES ASSUME av.type \in {AMF_HASH, AMF_ASSOC_ARRAY} PROVE PackElems(P, x) = PackElems(Q, x)
    OBVIOUS
  <2>1. [i \in 1 .. Len(x) |-> PackString(x[i].key) \o P[x[i].value]]
          = [i \in 1 .. Len(x) |-> PackString(x[i].key) \o Q[x[i].value]]
    OBVIOUS
  <2> QED BY <2>1 DEF PackElems
<1>3. Body(P, av) = Body(Q, av)
  <2>1. CASE av.type = AMF_HASH
    <3>1. Body(P, av) = PackElems(P, av.value) \o EndMarker
      BY <2>1, BodyCases
    <3>2. Body(Q, av) = PackElems(Q, av.value) \o EndMarker
      BY <2>1, BodyCases
    <3> QED BY <1>2, <2>1, <3>1, <3>2
  <2>2. CASE av.type = AMF_ASSOC_ARRAY
    <3>1. Body(P, av) = Long(Len(av.value)) \o PackElems(P, av.value)
      BY <2>2, BodyCases
    <3>2. Body(Q, av) = Long(Len(av.value)) \o PackElems(Q, av.value)
      BY <2>2, BodyCases
    <3> QED BY <1>2, <2>2, <3>1, <3>2
  <2>3. CASE av.type = AMF_ARRAY
    <3>1. Body(P, av) = Long(Len(av.value)) \o PackItems(P, av.value)
      BY <2>3, BodyCases
    <3>2. Body(Q, av) = Long(Len(av.value)) \o PackItems(Q, av.value)
      BY <2>3, BodyCases
    <3> QED BY <1>1, <2>3, <3>1, <3>2
  <2>4. CASE av.type \in {AMF_NUMBER, AMF_BOOLEAN, AMF_STRING, AMF_LINK}
    <3>1. PICK b : b = Body(P, av)
      OBVIOUS
    <3>2. PICK c : c = Body(Q, av)
      OBVIOUS
    <3>3. /\ av.type = AMF_NUMBER  => b = Reverse(av.value)   /\ c = Reverse(av.value)
          /\ av.type = AMF_BOOLEAN => b = av.value            /\ c = av.value
          /\ av.type = AMF_STRING  => b = PackString(av.value) /\ c = PackString(av.value)
          /\ av.type = AMF_LINK    => b = Short(av.value[1])  /\ c = Short(av.value[1])
      BY <3>1, <3>2, BodyCases
    <3> QED BY <2>4, <3>1, <3>2, <3>3
  <2>5. CASE av.type \notin Typed
    <3>1. Body(P, av) = << >>
      BY <2>5, BodyCases
    <3>2. Body(Q, av) = << >>
      BY <2>5, BodyCases
    <3> QED BY <3>1, <3>2
  <2> QED BY <2>1, <2>2, <2>3, <2>4, <2>5 DEF Typed
<1>4. PackValue(P, av) = << av.type >> \o Body(P, av)
  BY BodyCases
<1>5. PackValue(Q, av) = << av.type >> \o Body(Q, av)
  BY BodyCases
<1> QED BY <1>3, <1>4, <1>5

\* Without associative arrays, a Flash player packs like the library.
LEMMA PlainLevels ==
  /\ Plain[0] = {}
  /\ \A d \in Nat : Plain[d + 1] = Around(Plain[d], Leaves, {AMF_ARRAY}, {AMF_HASH})
BY NestedLevels DEF Plain

LEMMA PlainCases ==
  ASSUME NEW d \in Nat, NEW av \in Plain[d + 1]
  PROVE  /\ av.type # AMF_ASSOC_ARRAY
         /\ av.type = AMF_ARRAY => av.value \in Seq(Plain[d])
         /\ av.type = AMF_HASH  => av.value \in Tables(Plain[d])
<1> DEFINE A == Plain[d]
<1>1. av \in Around(A, Leaves, {AMF_ARRAY}, {AMF_HASH})
  BY PlainLevels
<1> HIDE DEF A
<1>2. \/ av \in [type : {AMF_NUMBER},  value : [1 .. 8 -> Byte]]
      \/ av \in [type : {AMF_BOOLEAN}, value : [1 .. 1 -> Byte]]
      \/ av \in [type : {AMF_STRING},  value : Seq(Byte)]
      \/ av \in [type : {AMF_LINK},    value : [1 .. 1 -> Shorts]]
      \/ av \in [type : Byte \ Typed,  value : {<< >>}]
      \/ av \in [type : {AMF_ARRAY},   value : Seq(A)]
      \/ av \in [type : {AMF_HASH}, value : Seq([key : Seq(Byte), value : A])]
  BY <1>1 DEF Around, Leaves
<1>3. /\ av.type # AMF_ASSOC_ARRAY
      /\ av.type = AMF_ARRAY => av.value \in Seq(A)
      /\ av.type = AMF_HASH => av.value \in Seq([key : Seq(Byte), value : A])
  BY <1>2 DEF Typed, AMF_NUMBER, AMF_BOOLEAN, AMF_STRING, AMF_LINK, AMF_ARRAY, AMF_HASH,
              AMF_ASSOC_ARRAY
<1> QED BY <1>3 DEF A, Tables

LEMMA PlainAVs == \A d \in Nat : Plain[d] \subseteq AVs[d]
<1> DEFINE Z == {d \in Nat : Plain[d] \subseteq AVs[d]}
<1>1. 0 \in Z
  BY PlainLevels
<1>2. ASSUME NEW d \in Nat, d \in Z PROVE d + 1 \in Z
  <2> DEFINE A == Plain[d]
             B == AVs[d]
  <2>1. A \subseteq B
    BY <1>2
  <2>2. /\ Plain[d + 1] = Around(A, Leaves, {AMF_ARRAY}, {AMF_HASH})
        /\ AVs[d + 1] = Around(B, Leaves, {AMF_ARRAY}, {AMF_HASH, AMF_ASSOC_ARRAY})
    BY PlainLevels, AVLevels
  <2> HIDE DEF A, B
  <2>3. Seq(A) \subseteq Seq(B)
    BY <2>1, SeqMonotonic
  <2>4. [key : Seq(Byte), value : A] \subseteq [key : Seq(Byte), value : B]
    BY <2>1
  <2>5. Seq([key : Seq(Byte), value : A]) \subseteq Seq([key : Seq(Byte), value : B])
    BY <2>4, SeqMonotonic
  <2>6. Plain[d + 1] \subseteq AVs[d + 1]
    BY <2>2, <2>3, <2>5 DEF Around
  <2> QED BY <2>6
<1> HIDE DEF Z
<1>3. \A d \in Nat : d \in Z
  BY <1>1, <1>2, InductionOnNat
<1> QED BY <1>3 DEF Z

LEMMA PlainPacked == \A d \in Nat : \A av \in Plain[d] : FlashPackTo[d][av] = PackTo[d][av]
<1> DEFINE Z == {d \in Nat : \A av \in Plain[d] : FlashPackTo[d][av] = PackTo[d][av]}
<1>1. 0 \in Z
  BY PlainLevels
<1>2. ASSUME NEW d \in Nat, d \in Z PROVE d + 1 \in Z
  <2>1. ASSUME NEW av \in Plain[d + 1] PROVE FlashPackTo[d + 1][av] = PackTo[d + 1][av]
    <3>1. d + 1 \in Nat
      OBVIOUS
    <3>2. av \in AVs[d + 1]
      BY <3>1, PlainAVs
    <3>3. /\ av.type # AMF_ASSOC_ARRAY
          /\ av.type = AMF_ARRAY => av.value \in Seq(Plain[d])
          /\ av.type = AMF_HASH  => av.value \in Tables(Plain[d])
      BY PlainCases
    <3>4. PICK P : P = FlashPackTo[d]
      OBVIOUS
    <3>5. PICK Q : Q = PackTo[d]
      OBVIOUS
    <3>6. \A x \in Plain[d] : P[x] = Q[x]
      BY <1>2, <3>4, <3>5
    <3>7. av.type = AMF_ARRAY => \A i \in 1 .. Len(av.value) : P[av.value[i]] = Q[av.value[i]]
      <4> SUFFICES ASSUME av.type = AMF_ARRAY, NEW i \in 1 .. Len(av.value)
                   PROVE  P[av.value[i]] = Q[av.value[i]]
        OBVIOUS
      <4>1. av.value[i] \in Plain[d]
        BY <3>3
      <4> QED BY <3>6, <4>1
    <3>8. av.type = AMF_HASH =>
            \A i \in 1 .. Len(av.value) : P[av.value[i].value] = Q[av.value[i].value]
      <4> SUFFICES ASSUME av.type = AMF_HASH, NEW i \in 1 .. Len(av.value)
                   PROVE  P[av.value[i].value] = Q[av.value[i].value]
        OBVIOUS
      <4>1. PICK A : A = Plain[d]
        OBVIOUS
      <4>2. PICK t \in Seq([key : Seq(Byte), value : A]) : t = av.value
        BY <3>3, <4>1 DEF Tables
      <4>3. av.value[i] \in [key : Seq(Byte), value : A]
        <5>1. i \in 1 .. Len(t)
          BY <4>2
        <5>2. t[i] \in [key : Seq(Byte), value : A]
          BY <5>1, ElementOfSeq
        <5> QED BY <4>2, <5>2
      <4>4. av.value[i].value \in Plain[d]
        BY <4>1, <4>3
      <4> QED BY <3>6, <4>4
    <3>9. PackValue(P, av) = PackValue(Q, av)
      BY <3>2, <3>3, <3>7, <3>8, PackedAlike
    <3>10. FlashPackTo[d + 1][av] = FlashValue(P, av) /\ P \in [AVs[d] -> Seq(Byte)]
      BY <3>2, <3>4, FlashLevels
    <3>11. PackTo[d + 1][av] = PackValue(Q, av)
      BY <3>2, <3>5, PackLevels
    <3>12. FlashValue(P, av) = PackValue(P, av)
      BY <3>2, <3>3, <3>10, FlashValueType
    <3> QED BY <3>9, <3>10, <3>11, <3>12
  <2> QED BY <2>1
<1> HIDE DEF Z
<1>3. \A d \in Nat : d \in Z
  BY <1>1, <1>2, InductionOnNat
<1> QED BY <1>3 DEF Z

Sent(c)      == << c.method, NumberAV(c.id), Nil >> \o c.args
Marks(c, v)  == c.flash /\ v \notin Plain[Depth(v)]
Piece(c, v)  == IF c.flash THEN FlashPack(v) ELSE Pack(v)
Pieces(c)    == [i \in 1 .. Len(Sent(c)) |-> Piece(c, Sent(c)[i])]

LEMMA Constants ==
  /\ MaxDepth \in Nat
  /\ Readable[MaxDepth] \subseteq AVs[MaxDepth]
  /\ \A n \in Int : NumberAV(n) \in Readable[MaxDepth]
  /\ Nil \in Readable[MaxDepth]
<1>1. MaxDepth \in Nat /\ MaxDepth - 1 \in Nat /\ (MaxDepth - 1) + 1 = MaxDepth
  BY MaxDepthAssumption
<1>2. \A d \in Nat : \A n \in Int : NumberAV(n) \in Readable[d + 1] /\ Nil \in Readable[d + 1]
  BY NumberReadable
<1>3. 0 \in Int
  OBVIOUS
<1> QED BY <1>1, <1>2, <1>3, ReadableLevels

LEMMA IdsSmall == ASSUME NEW c \in Invocations PROVE c.id \in 1 .. 50 /\ c.id \in Int
<1>1. c.id \in Ids
  BY DEF Invocations
<1>2. c.id \in 1 .. 50
  BY <1>1, InvocationAssumption, Zenon DEF InvocationAssumption
<1>3. \A k \in 1 .. 50 : k \in Int
  OBVIOUS
<1> QED BY <1>2, <1>3

LEMMA SentType ==
  ASSUME NEW c \in Invocations
  PROVE  /\ c.args \in Seq(Readable[MaxDepth]) /\ c.method \in Readable[MaxDepth]
         /\ Sent(c) \in Seq(Readable[MaxDepth]) /\ Len(Sent(c)) = 3 + Len(c.args)
         /\ Sent(c)[1] = c.method /\ Sent(c)[2] = NumberAV(c.id) /\ Sent(c)[3] = Nil
         /\ \A i \in 1 .. Len(c.args) : Sent(c)[3 + i] = c.args[i]
<1> DEFINE R == Readable[MaxDepth]
<1>1. c.method \in R /\ c.args \in Seq(R)
  BY ReadableAssumption DEF Invocations, ReadableAssumption
<1>2. NumberAV(c.id) \in R /\ Nil \in R
  <2>1. c.id \in Int
    BY IdsSmall
  <2> QED BY <2>1, Constants
<1> HIDE DEF R
<1>3. PICK a : a = << c.method, NumberAV(c.id), Nil >>
  OBVIOUS
<1>4. /\ a \in Seq(R) /\ Len(a) = 3
      /\ a[1] = c.method /\ a[2] = NumberAV(c.id) /\ a[3] = Nil
  BY <1>1, <1>2, <1>3
<1>5. PICK b \in Seq(R) : b = c.args
  BY <1>1
<1>6. /\ a \o b \in Seq(R) /\ Len(a \o b) = 3 + Len(b)
      /\ \A i \in 1 .. 3 : (a \o b)[i] = a[i]
      /\ \A i \in 1 .. Len(b) : (a \o b)[3 + i] = b[i]
  <2>1. a \o b \in Seq(R) /\ Len(a \o b) = Len(a) + Len(b)
    BY <1>4, ConcatType
  <2>2. \A i \in 1 .. Len(a) : (a \o b)[i] = a[i]
    BY <1>4, ConcatLeft
  <2>3. \A i \in 1 .. Len(b) : (a \o b)[Len(a) + i] = b[i]
    <3>1. a \in Seq(R)
      BY <1>4
    <3> QED BY <3>1, ConcatRight
  <2> QED BY <1>4, <2>1, <2>2, <2>3
<1>7. Sent(c) = a \o b
  BY <1>3, <1>5 DEF Sent
<1> QED BY <1>1, <1>4, <1>5, <1>6, <1>7 DEF R

\* Where a value is, and what a Flash player makes of it.
LEMMA LevelFound ==
  ASSUME NEW v \in Readable[MaxDepth]
  PROVE  \E d \in Nat : d + 1 = Depth(v) /\ v \in AVs[d + 1] /\ d = Depth(v) - 1
<1>1. Depth(v) \in 1 .. MaxDepth /\ v \in AVs[Depth(v)] /\ Depth(v) \in Nat
  BY Constants, DepthFound
<1>2. Depth(v) - 1 \in Nat /\ (Depth(v) - 1) + 1 = Depth(v)
  BY <1>1
<1> QED BY <1>1, <1>2

LEMMA LastPacked ==
  ASSUME NEW v \in Readable[MaxDepth], MarkedLast(v)
  PROVE  FlashPack(v) = Pack(v) \o EndMarker
<1>1. PICK d \in Nat : d + 1 = Depth(v) /\ v \in AVs[d + 1] /\ d = Depth(v) - 1
  BY LevelFound
<1>2. /\ v.type = AMF_ASSOC_ARRAY
      /\ \A i \in 1 .. Len(v.value) : v.value[i].value \in Plain[d]
  BY <1>1 DEF MarkedLast
<1>3. PICK P : P = FlashPackTo[d] /\ P \in [AVs[d] -> Seq(Byte)]
  BY FlashLevels
<1>4. PICK Q : Q = PackTo[d]
  OBVIOUS
<1>5. \A i \in 1 .. Len(v.value) : P[v.value[i].value] = Q[v.value[i].value]
  BY <1>2, <1>3, <1>4, PlainPacked
<1>6. v.type # AMF_ARRAY
  BY <1>2, TypesDiffer
<1>7. PackValue(P, v) = PackValue(Q, v)
  BY <1>1, <1>5, <1>6, PackedAlike
<1>8. FlashPack(v) = FlashValue(P, v)
  BY <1>1, <1>3, FlashLevels DEF FlashPack
<1>9. Pack(v) = PackValue(Q, v)
  BY <1>1, <1>4, PackLevels DEF Pack
<1>10. FlashValue(P, v) = PackValue(P, v) \o EndMarker
  BY <1>1, <1>2, <1>3, FlashValueType
<1> QED BY <1>7, <1>8, <1>9, <1>10

LEMMA PieceType ==
  ASSUME NEW c, NEW v \in Readable[MaxDepth]
  PROVE  /\ Pack(v) \in Seq(Byte) /\ Len(Pack(v)) > 0
         /\ Piece(c, v) \in Seq(Byte) /\ Len(Piece(c, v)) > 0 /\ Piece(c, v)[1] = v.type
         /\ ~Marks(c, v) => Piece(c, v) = Pack(v)
         /\ Marks(c, v) /\ MarkedLast(v) => Piece(c, v) = Pack(v) \o EndMarker
<1>1. PICK d \in Nat : d + 1 = Depth(v) /\ v \in AVs[d + 1] /\ d = Depth(v) - 1
  BY LevelFound
<1>2. Pack(v) \in Seq(Byte) /\ Len(Pack(v)) > 0 /\ Pack(v)[1] = v.type
  <2>1. PackTo[d] \in [AVs[d] -> Seq(Byte)] /\ Pack(v) = PackValue(PackTo[d], v)
    BY <1>1, PackLevels DEF Pack
  <2>2. /\ Len(PackValue(PackTo[d], v)) = 1 + Len(Body(PackTo[d], v))
        /\ PackValue(PackTo[d], v) \in Seq(Byte) /\ Body(PackTo[d], v) \in Seq(Byte)
    BY <1>1, <2>1, BodyType
  <2>3. PICK n \in Nat : n = Len(Body(PackTo[d], v))
    BY <2>2, SizedSelf
  <2>4. PackValue(PackTo[d], v)[1] = v.type
    BY <1>1, <2>1, FirstByte
  <2> QED BY <2>1, <2>2, <2>3, <2>4
<1>3. FlashPack(v) \in Seq(Byte) /\ Len(FlashPack(v)) > 0 /\ FlashPack(v)[1] = v.type
  <2>1. FlashPackTo[d] \in [AVs[d] -> Seq(Byte)] /\ FlashPack(v) = FlashValue(FlashPackTo[d], v)
    BY <1>1, FlashLevels DEF FlashPack
  <2> QED BY <1>1, <2>1, FlashValueType
<1>4. v \in Plain[Depth(v)] => FlashPack(v) = Pack(v)
  <2>1. Depth(v) \in Nat
    BY <1>1
  <2> QED BY <2>1, PlainPacked DEF FlashPack, Pack
<1>5. MarkedLast(v) => FlashPack(v) = Pack(v) \o EndMarker
  BY LastPacked
<1> QED BY <1>2, <1>3, <1>4, <1>5 DEF Piece, Marks

\* In a value that is no array and no table there is no marker.
LEMMA LeafPlain ==
  ASSUME NEW v \in Readable[MaxDepth], v.type \notin {AMF_HASH, AMF_ASSOC_ARRAY, AMF_ARRAY}
  PROVE  v \in Plain[Depth(v)]
<1>1. PICK d \in Nat : d + 1 = Depth(v) /\ v \in AVs[d + 1] /\ d = Depth(v) - 1
  BY LevelFound
<1>2. v \in Around(AVs[d], Leaves, {AMF_ARRAY}, {AMF_HASH, AMF_ASSOC_ARRAY})
  BY <1>1, AVLevels
<1>3. v \in Leaves
  BY <1>2 DEF Around
<1>4. v \in Around(Plain[d], Leaves, {AMF_ARRAY}, {AMF_HASH})
  BY <1>3 DEF Around
<1> QED BY <1>1, <1>4, PlainLevels

LEMMA PiecesType ==
  ASSUME NEW c \in Invocations
  PROVE  /\ Pieces(c) \in Seq(Seq(Byte)) /\ Len(Pieces(c)) = Len(Sent(c)) /\ Len(Sent(c)) \in Nat
         /\ \A i \in 1 .. Len(Sent(c)) : /\ Sent(c)[i] \in Readable[MaxDepth]
                                         /\ Pieces(c)[i] = Piece(c, Sent(c)[i])
         /\ ClientPack(c) = FlattenSeq(Pieces(c)) /\ ClientPack(c) \in Seq(Byte)
<1>1. PICK s \in Seq(Readable[MaxDepth]) : s = Sent(c)
  BY SentType
<1>2. PICK n \in Nat : n = Len(s)
  OBVIOUS
<1>3. \A i \in 1 .. n : s[i] \in Readable[MaxDepth]
  BY <1>2
<1> DEFINE B == Seq(Byte)
           p == [i \in 1 .. n |-> Piece(c, s[i])]
<1>4. \A i \in 1 .. n : Piece(c, s[i]) \in B
  BY <1>3, PieceType
<1> HIDE DEF B
<1>5. p \in Seq(B) /\ Len(p) = n /\ \A i \in 1 .. n : p[i] = Piece(c, s[i])
  BY <1>4
<1>6. Pieces(c) = p
  BY <1>1, <1>2 DEF Pieces
<1> HIDE DEF p
<1>7. ClientPack(c) = FlattenSeq(Pieces(c))
  BY DEF ClientPack, Pieces, Piece, Sent
<1>8. FlattenSeq(p) \in Seq(Byte)
  BY <1>5, FlattenedLength DEF B
<1> QED BY <1>1, <1>2, <1>3, <1>5, <1>6, <1>7, <1>8 DEF B

-----------------------------------------------------------------------------
(* Where the values of a call are.                                         *)

Places(f, m, c) ==
  /\ f \in [Nat -> Nat] /\ f[0] = 0 /\ f[3 + Len(c.args)] = Len(m.data)
  /\ \A k \in 0 .. 2 + Len(c.args) :
       LET v == Sent(c)[k + 1]
           u == Unpack(m, f[k])
       IN /\ f[k] < Len(m.data) /\ f[k + 1] <= Len(m.data)
          /\ u.av.type = v.type
          /\ ~Marks(c, v) => u.av = v /\ u.next = f[k + 1]
          /\ MarkedLast(v) => u.av = v

\* The type that is read is the first byte.
LEMMA TypeRead ==
  ASSUME NEW m, IsMemory(m), NEW i \in Nat, i < Len(m.data)
  PROVE  Unpack(m, i).av.type = At(m, i + 1)
<1>1. PICK n \in Nat : n + 1 = Len(m.data)
  <2>1. PICK l \in Nat : l = Len(m.data)
    BY DEF IsMemory
  <2>2. l - 1 \in Nat /\ (l - 1) + 1 = l
    BY <2>1
  <2> QED BY <2>1, <2>2
<1>2. PICK R : R = UnpackIn(m)[n]
  OBVIOUS
<1>3. UnpackIn(m)[n + 1] = Deeper(m, R)
  BY <1>2, UnpackLevels
<1>4. Unpack(m, i) = UnpackValue(m, R, i)
  BY <1>1, <1>3 DEF Unpack, Deeper
<1>5. Len(m.data) > i /\ ~(Len(m.data) <= i)
  BY <1>1
<1>6. ReadAs(m, R, i + 1, At(m, i + 1), UnpackValue(m, R, i))
  BY <1>5, UnpackCases
<1>7. UnpackValue(m, R, i).av.type = At(m, i + 1)
  BY <1>6 DEF ReadAs, Typed, Value
<1> QED BY <1>4, <1>7

LEMMA PlacesExist ==
  ASSUME NEW c \in Invocations, NEW m, IsMemory(m), m.data = ClientPack(c)
  PROVE  \E f : Places(f, m, c)
<1>1. PICK s \in Seq(Seq(Byte)) : s = Pieces(c)
  BY PiecesType
<1>2. PICK t : t = Sent(c)
  OBVIOUS
<1>3. PICK n \in Nat : n = 3 + Len(c.args)
  <2>1. PICK r \in Seq(Readable[MaxDepth]) : r = c.args
    BY SentType
  <2>2. PICK a \in Nat : a = Len(r)
    OBVIOUS
  <2> QED BY <2>1, <2>2
<1>4. /\ Len(s) = n
      /\ \A i \in 1 .. n : t[i] \in Readable[MaxDepth] /\ s[i] = Piece(c, t[i])
      /\ m.data = FlattenSeq(s)
  BY <1>1, <1>2, <1>3, PiecesType, SentType
<1>5. Holds(m, 0, FlattenSeq(s))
  <2>1. PICK l \in Nat : l = Len(m.data)
    BY DEF IsMemory
  <2>2. \A k \in 1 .. l : At(m, 0 + k) = m.data[k]
    BY <2>1 DEF At
  <2> QED BY <1>4, <2>1, <2>2 DEF Holds
<1>6. PICK f \in [Nat -> Nat] :
        /\ f[0] = 0 /\ f[Len(s)] = Len(FlattenSeq(s))
        /\ \A k \in 0 .. Len(s) - 1 :
             /\ f[k + 1] = f[k] + Len(s[k + 1])
             /\ f[k + 1] <= Len(FlattenSeq(s))
             /\ Holds(m, 0 + f[k], s[k + 1])
  <2>1. 0 \in Nat
    OBVIOUS
  <2> QED BY <1>5, <2>1, HoldsFlattened
<1>7. ASSUME NEW k \in 0 .. n - 1
      PROVE  /\ f[k] < Len(m.data) /\ f[k + 1] <= Len(m.data)
             /\ Unpack(m, f[k]).av.type = t[k + 1].type
             /\ ~Marks(c, t[k + 1]) =>
                  Unpack(m, f[k]).av = t[k + 1] /\ Unpack(m, f[k]).next = f[k + 1]
             /\ MarkedLast(t[k + 1]) => Unpack(m, f[k]).av = t[k + 1]
  <2>1. k + 1 \in 1 .. n /\ k \in Nat
    OBVIOUS
  <2>2. PICK v \in Readable[MaxDepth] : v = t[k + 1] /\ s[k + 1] = Piece(c, v)
    BY <1>4, <2>1
  <2>3. PICK i \in Nat : i = f[k]
    BY <1>6, <2>1
  <2>4. PICK p \in Seq(Byte) : p = Pack(v)
    BY PieceType
  <2>5. PICK l \in Nat : l = Len(p) /\ l > 0 /\ Sized(p, l)
    BY <2>4, PieceType, SizedSelf
  <2>6. PICK q \in Seq(Byte) : q = s[k + 1] /\ q = Piece(c, v) /\ q[1] = v.type
    BY <2>2, PieceType
  <2>7. PICK j \in Nat : j = Len(q) /\ j > 0
    BY <2>2, <2>6, PieceType, SizedSelf
  <2>8. PICK x \in Nat : x = f[k + 1] /\ x = i + j /\ x <= Len(m.data)
    <3>1. k \in 0 .. Len(s) - 1
      BY <1>4
    <3>2. f[k + 1] = f[k] + Len(s[k + 1]) /\ f[k + 1] <= Len(FlattenSeq(s))
      BY <1>6, <3>1
    <3>3. f[k + 1] = i + j /\ f[k + 1] <= Len(m.data)
      BY <1>4, <2>3, <2>6, <2>7, <3>2
    <3>4. i + j \in Nat
      OBVIOUS
    <3> QED BY <3>3, <3>4
  <2>9. PICK last \in Nat : last = Len(m.data)
    BY DEF IsMemory
  <2>10. Holds(m, i, q)
    <3>1. 0 + f[k] = i
      BY <2>3
    <3> QED BY <1>4, <1>6, <2>6, <3>1
  <2>11. i < last
    BY <2>7, <2>8, <2>9
  <2>12. Unpack(m, i).av.type = v.type
    <3>1. At(m, i + 1) = v.type
      BY <2>6, <2>7, <2>10 DEF Holds
    <3> QED BY <2>9, <2>11, <3>1, TypeRead
  <2>13. Holds(m, i, p) => Unpack(m, i) = [av |-> v, next |-> i + l]
    BY <2>4, <2>5, AmfRoundTrip
  <2>14. ~Marks(c, v) => Unpack(m, i).av = v /\ Unpack(m, i).next = x
    <3> SUFFICES ASSUME ~Marks(c, v) PROVE Unpack(m, i).av = v /\ Unpack(m, i).next = x
      OBVIOUS
    <3>1. q = p
      BY <2>4, <2>6, PieceType
    <3>2. Unpack(m, i) = [av |-> v, next |-> i + l] /\ l = j
      BY <2>5, <2>7, <2>10, <2>13, <3>1
    <3> QED BY <2>8, <3>2
  <2>15. Marks(c, v) /\ MarkedLast(v) => Unpack(m, i).av = v
    <3> SUFFICES ASSUME Marks(c, v), MarkedLast(v) PROVE Unpack(m, i).av = v
      OBVIOUS
    <3>1. q = p \o EndMarker
      BY <2>4, <2>6, PieceType
    <3>2. Sized(EndMarker, 3) /\ 3 \in Nat
      BY EndMarkerType
    <3>3. Holds(m, i, p)
      BY <2>5, <2>10, <3>1, <3>2, HoldsParts
    <3> QED BY <2>13, <3>3
  <2>16. MarkedLast(v) => Unpack(m, i).av = v
    BY <2>14, <2>15
  <2> QED BY <2>2, <2>3, <2>8, <2>9, <2>11, <2>12, <2>14, <2>16
<1>8. n - 1 = 2 + Len(c.args)
  <2>1. PICK r \in Seq(Readable[MaxDepth]) : r = c.args
    BY SentType
  <2>2. PICK a \in Nat : a = Len(r)
    OBVIOUS
  <2> QED BY <1>3, <2>1, <2>2
<1>9. f[3 + Len(c.args)] = Len(m.data)
  BY <1>3, <1>4, <1>6
<1>10. Places(f, m, c)
  BY <1>2, <1>6, <1>7, <1>8, <1>9 DEF Places
<1> QED BY <1>10

\* No place is so far on that a reader would be Nowhere.
LEMMA PlacesNear ==
  ASSUME NEW c \in Invocations, NEW m, IsMemory(m), m.data = ClientPack(c), NEW i \in Nat,
         i <= Len(m.data)
  PROVE  i < Nowhere
<1>1. PICK l \in Nat : l = Len(m.data)
  BY DEF IsMemory
<1>2. l + 2 <= MaxDepth
  BY <1>1, DepthAssumption DEF DepthAssumption
<1> QED BY <1>1, <1>2, MaxDepthAssumption, NowhereNat DEF MaxDepthAssumption

\* What is read is a value, and reading goes forward.
LEMMA UnpackedType ==
  ASSUME NEW m, IsMemory(m), NEW i \in Nat
  PROVE  Unpack(m, i).av \in AVs[Len(m.data) + 1] /\ Unpack(m, i).next \in Nat
<1>1. PICK n \in Nat : n = Len(m.data)
  BY DEF IsMemory
<1>2. Reader(m, UnpackIn(m)[n], AVs[n + 1])
  BY UnpackLevels
<1> QED BY <1>1, <1>2 DEF Reader, Unpack

-----------------------------------------------------------------------------
(* The arguments that arrive.                                              *)

PlaceOf == CHOOSE f : Places(f, memory, call)

InvocationType ==
  /\ app \in {"twisted", "demo"} /\ call \in Invocations
  /\ IsMemory(memory) /\ memory.data = ClientPack(call)
  /\ src \in Nat /\ id \in Int
  /\ argv \in Seq(AVs[Len(memory.data) + 1])

MarkedArg(i) == Marks(call, call.args[i])

\* The first k arguments have been read, and nothing else.
InStep(k) ==
  src = PlaceOf[3 + k] /\ argv = Start(call.args, k) /\ \A i \in 1 .. k : ~MarkedArg(i)

\* The i-th is the first that a Flash player has put a marker in.  It has been read, as it
\* was sent if the marker is at its end.
Past(i) ==
  /\ MarkedArg(i) /\ i <= Len(argv)
  /\ \A j \in 1 .. i - 1 : ~MarkedArg(j) /\ argv[j] = call.args[j]
  /\ MarkedLast(call.args[i]) => argv[i] = call.args[i]

IsPast == \E i \in 1 .. Len(call.args) : Past(i)

\* A value of the call that a marker is in.
SomeMarked == Marks(call, call.method) \/ \E i \in 1 .. Len(call.args) : MarkedArg(i)

ReadInv ==
  /\ pc = "head" => src = 0 /\ argv = << >>
  /\ pc = "arguments" => IsPast \/ \E k \in 0 .. Len(call.args) : InStep(k)
  /\ pc \in {"dispatch", "done"} => IsPast \/ InStep(Len(call.args))
  /\ pc \in {"arguments", "dispatch", "done"} => call.method.type = AMF_STRING
  /\ pc = "crashed" => SomeMarked

IInv == InvocationType /\ ReadInv

LEMMA PlaceOfPlaces == ASSUME InvocationType PROVE Places(PlaceOf, memory, call)
<1>1. \E f : Places(f, memory, call)
  BY PlacesExist DEF InvocationType
<1> QED BY <1>1 DEF PlaceOf

LEMMA ArgsType ==
  ASSUME InvocationType
  PROVE  /\ Len(call.args) \in Nat /\ call.args \in Seq(Readable[MaxDepth])
         /\ \A i \in 1 .. Len(call.args) : Sent(call)[3 + i] = call.args[i]
<1>1. PICK c \in Invocations : c = call
  BY DEF InvocationType
<1>2. PICK r \in Seq(Readable[MaxDepth]) : r = c.args
  BY SentType
<1>3. Len(r) \in Nat
  OBVIOUS
<1> QED BY <1>1, <1>2, <1>3, SentType

\* The first values of a call.
LEMMA HeadPlaces ==
  ASSUME InvocationType
  PROVE  LET f == PlaceOf
         IN /\ f \in [Nat -> Nat] /\ f[0] = 0
            /\ f[1] < Nowhere /\ f[2] < Nowhere /\ f[3] < Nowhere
            /\ Unpack(memory, 0).av.type = call.method.type
            /\ ~Marks(call, call.method) =>
                 Unpack(memory, 0).av = call.method /\ Unpack(memory, 0).next = f[1]
            /\ Unpack(memory, f[1]).av = NumberAV(call.id) /\ Unpack(memory, f[1]).next = f[2]
            /\ Unpack(memory, f[2]).next = f[3]
<1>1. PICK f : f = PlaceOf /\ Places(f, memory, call)
  BY PlaceOfPlaces
<1>2. /\ f[0] = 0 /\ f \in [Nat -> Nat]
      /\ \A k \in 0 .. 2 :
           LET v == Sent(call)[k + 1]
               u == Unpack(memory, f[k])
           IN /\ f[k + 1] <= Len(memory.data) /\ u.av.type = v.type
              /\ ~Marks(call, v) => u.av = v /\ u.next = f[k + 1]
  <2>1. Len(call.args) \in Nat
    BY ArgsType
  <2>2. \A k \in 0 .. 2 : k \in 0 .. 2 + Len(call.args)
    BY <2>1
  <2> QED BY <1>1, <2>2 DEF Places
<1>3. Sent(call)[1] = call.method /\ Sent(call)[2] = NumberAV(call.id) /\ Sent(call)[3] = Nil
  BY SentType DEF InvocationType
<1>4. ~Marks(call, NumberAV(call.id)) /\ ~Marks(call, Nil)
  <2>1. call.id \in Int
    BY IdsSmall DEF InvocationType
  <2>2. NumberAV(call.id) \in Readable[MaxDepth] /\ Nil \in Readable[MaxDepth]
    BY <2>1, Constants
  <2>3. /\ NumberAV(call.id).type \notin {AMF_HASH, AMF_ASSOC_ARRAY, AMF_ARRAY}
        /\ Nil.type \notin {AMF_HASH, AMF_ASSOC_ARRAY, AMF_ARRAY}
    BY DEF NumberAV, Nil, Value, AMF_NUMBER, AMF_NIL, AMF_HASH, AMF_ASSOC_ARRAY, AMF_ARRAY
  <2> HIDE DEF NumberAV, Nil
  <2> QED BY <2>2, <2>3, LeafPlain DEF Marks
<1>5. /\ f[1] <= Len(memory.data)
      /\ Unpack(memory, f[0]).av.type = call.method.type
      /\ ~Marks(call, call.method) =>
           Unpack(memory, f[0]).av = call.method /\ Unpack(memory, f[0]).next = f[1]
  <2>1. 0 \in 0 .. 2 /\ 0 + 1 = 1
    OBVIOUS
  <2> QED BY <1>2, <1>3, <2>1
<1>6. /\ f[2] <= Len(memory.data)
      /\ Unpack(memory, f[1]).av = NumberAV(call.id) /\ Unpack(memory, f[1]).next = f[2]
  <2>1. 1 \in 0 .. 2 /\ 1 + 1 = 2
    OBVIOUS
  <2> QED BY <1>2, <1>3, <1>4, <2>1
<1>7. f[3] <= Len(memory.data) /\ Unpack(memory, f[2]).next = f[3]
  <2>1. 2 \in 0 .. 2 /\ 2 + 1 = 3
    OBVIOUS
  <2> QED BY <1>2, <1>3, <1>4, <2>1
<1>8. f[1] \in Nat /\ f[2] \in Nat /\ f[3] \in Nat
  BY <1>2
<1>9. f[1] < Nowhere /\ f[2] < Nowhere /\ f[3] < Nowhere
  BY <1>5, <1>6, <1>7, <1>8, PlacesNear DEF InvocationType
<1> QED BY <1>1, <1>2, <1>5, <1>6, <1>7, <1>9

\* Reading the head.
LEMMA HeadStep ==
  ASSUME IInv, ReadHead
  PROVE  /\ IInv'
         /\ pc' = "aborted" => call.method.type # AMF_STRING
<1> DEFINE method == Unpack(memory, 0)
           number == Unpack(memory, method.next)
           first  == Unpack(memory, number.next)
<1>1. PICK f : f = PlaceOf
  OBVIOUS
<1>2. /\ f \in [Nat -> Nat] /\ f[1] < Nowhere /\ f[2] < Nowhere /\ f[3] < Nowhere
      /\ method.av.type = call.method.type
      /\ ~Marks(call, call.method) => method.av = call.method /\ method.next = f[1]
      /\ Unpack(memory, f[1]).av = NumberAV(call.id) /\ Unpack(memory, f[1]).next = f[2]
      /\ Unpack(memory, f[2]).next = f[3]
  BY <1>1, HeadPlaces DEF IInv
<1>3. call.method.type = AMF_STRING => ~Marks(call, call.method)
  <2>1. call.method \in Readable[MaxDepth]
    BY SentType DEF IInv, InvocationType
  <2>2. AMF_STRING \notin {AMF_HASH, AMF_ASSOC_ARRAY, AMF_ARRAY}
    BY TypesDiffer
  <2> QED BY <2>1, <2>2, LeafPlain DEF Marks
<1>4. ASSUME ~Marks(call, call.method)
      PROVE  /\ method.next = f[1] /\ number.av.type = AMF_NUMBER /\ number.next = f[2]
             /\ first.next = f[3]
  <2>1. NumberAV(call.id).type = AMF_NUMBER
    BY DEF NumberAV, Value
  <2>2. method.next = f[1]
    BY <1>2, <1>4
  <2>3. number = Unpack(memory, f[1])
    BY <2>2
  <2>4. number.av.type = AMF_NUMBER /\ number.next = f[2]
    BY <1>2, <2>1, <2>3
  <2> QED BY <1>2, <2>2, <2>4
<1>5. UNCHANGED << app, call, memory, argv >> /\ pc = "head"
  BY DEF ReadHead, Abort, Crash
<1>6. PlaceOf' = PlaceOf
  BY <1>5 DEF PlaceOf
<1>7. argv = << >>
  BY <1>5 DEF IInv, ReadInv
<1>8. ASSUME ~Marks(call, call.method)
      PROVE  ~Crashes(method) /\ ~Crashes(number) /\ ~Crashes(first)
  <2>1. f[1] \in Nat /\ f[2] \in Nat /\ f[3] \in Nat
    BY <1>2
  <2> HIDE DEF method, number, first
  <2> QED BY <1>2, <1>4, <1>8, <2>1, NowhereNat DEF Crashes
<1>9. \/ pc' = "aborted" /\ call.method.type # AMF_STRING /\ UNCHANGED << src, id >>
      \/ pc' = "crashed" /\ Marks(call, call.method) /\ UNCHANGED << src, id >>
      \/ /\ pc' = "arguments" /\ src' = first.next /\ id' = Number(number.av.value)
         /\ call.method.type = AMF_STRING
  <2>1. CASE Crashes(method)
    BY <1>8, <2>1 DEF ReadHead, Crash
  <2>2. CASE ~Crashes(method) /\ method.av.type # AMF_STRING
    BY <1>2, <2>2 DEF ReadHead, Abort
  <2>3. CASE ~Crashes(method) /\ method.av.type = AMF_STRING
    <3>1. ~Marks(call, call.method) /\ call.method.type = AMF_STRING
      BY <1>2, <1>3, <2>3
    <3>2. number.av.type = AMF_NUMBER /\ ~Crashes(number) /\ ~Crashes(first)
      BY <1>4, <1>8, <3>1
    <3> QED BY <2>3, <3>1, <3>2 DEF ReadHead
  <2> QED BY <2>1, <2>2, <2>3
<1>10. CASE pc' \in {"aborted", "crashed"}
  <2>1. UNCHANGED << src, id >>
    BY <1>9, <1>10
  <2>2. InvocationType'
    BY <1>5, <2>1 DEF IInv, InvocationType
  <2>3. pc' = "crashed" => Marks(call, call.method)
    BY <1>9
  <2>4. pc' = "crashed" => SomeMarked'
    BY <1>5, <2>3 DEF SomeMarked, Marks
  <2>5. ReadInv'
    BY <1>10, <2>4 DEF ReadInv
  <2> QED BY <1>9, <2>2, <2>5 DEF IInv
<1>11. CASE /\ pc' = "arguments" /\ src' = first.next /\ id' = Number(number.av.value)
            /\ call.method.type = AMF_STRING
  <2>1. ~Marks(call, call.method)
    BY <1>3, <1>11
  <2>2. src' = f[3]
    BY <1>4, <1>11, <2>1
  <2>3. id' = Number(NumberAV(call.id).value)
    <3>1. number = Unpack(memory, f[1])
      BY <1>4, <2>1
    <3> QED BY <1>2, <1>11, <3>1
  <2>4. src' \in Nat /\ id' \in Int
    <3>1. call.id \in Int
      BY IdsSmall DEF IInv, InvocationType
    <3>2. Sized(NumberAV(call.id).value, 8)
      BY <3>1, DoubleType DEF NumberAV, Value
    <3> QED BY <1>2, <2>2, <2>3, <3>2, NumberInt
  <2>5. InvocationType'
    BY <1>5, <2>4 DEF IInv, InvocationType
  <2>6. 0 \in 0 .. Len(call.args) /\ Start(call.args, 0) = << >>
    BY ArgsType, StartNext DEF IInv
  <2>7. InStep(0)'
    <3>1. src' = PlaceOf'[3 + 0]
      BY <1>1, <1>6, <2>2
    <3>2. argv' = Start(call'.args, 0)
      BY <1>5, <1>7, <2>6
    <3> QED BY <3>1, <3>2 DEF InStep
  <2>8. ReadInv'
    BY <1>5, <1>11, <2>6, <2>7 DEF ReadInv
  <2> QED BY <1>11, <2>5, <2>8 DEF IInv
<1> QED BY <1>9, <1>10, <1>11

\* Reading one more argument.
LEMMA ArgumentStep ==
  ASSUME IInv, ReadArgument
  PROVE  IInv' /\ pc' # "aborted"
<1> DEFINE one == Unpack(memory, src)
           n == Len(call.args)
<1>1. /\ UNCHANGED << app, call, memory, id >> /\ pc = "arguments" /\ src < Len(memory.data)
      /\ call.method.type = AMF_STRING
  BY DEF ReadArgument, Crash, IInv, ReadInv
<1>2. one.av \in AVs[Len(memory.data) + 1] /\ one.next \in Nat
  BY UnpackedType DEF IInv, InvocationType
<1>3. PlaceOf' = PlaceOf /\ n' = n
  BY <1>1 DEF PlaceOf
<1>4. Len(argv) \in Nat
  BY DEF IInv, InvocationType
<1>5. n \in Nat /\ call.args \in Seq(Readable[MaxDepth])
      /\ \A i \in 1 .. n : Sent(call)[3 + i] = call.args[i]
  BY ArgsType DEF IInv
<1>6. \A i : MarkedArg(i)' = MarkedArg(i)
  BY <1>1 DEF MarkedArg, Marks
\* What is in step goes on in step, up to an argument with a marker.
<1>7. ASSUME NEW k \in 0 .. n, InStep(k)
      PROVE  /\ k + 1 \in 1 .. n /\ k \in Nat
             /\ ~MarkedArg(k + 1) => /\ one.av = call.args[k + 1] /\ ~Crashes(one)
                                     /\ one.next = PlaceOf[3 + (k + 1)]
             /\ MarkedLast(call.args[k + 1]) => one.av = call.args[k + 1]
  <2>1. PICK f : f = PlaceOf /\ Places(f, memory, call)
    BY PlaceOfPlaces DEF IInv
  <2>2. src = f[3 + k] /\ f[3 + n] = Len(memory.data)
    BY <1>7, <2>1 DEF InStep, Places
  <2>3. k # n
    <3>1. Len(memory.data) \in Nat
      BY DEF IInv, InvocationType, IsMemory
    <3> QED BY <1>1, <2>2, <3>1
  <2>4. k \in Nat /\ k + 1 \in 1 .. n /\ 3 + k \in 0 .. 2 + n
    BY <1>5, <2>3
  <2>5. (3 + k) + 1 = 3 + (k + 1)
    BY <2>4
  <2>6. PICK v : v = call.args[k + 1] /\ v = Sent(call)[(3 + k) + 1]
    BY <1>5, <2>4, <2>5
  <2>7. /\ f[(3 + k) + 1] <= Len(memory.data)
        /\ ~Marks(call, v) => one.av = v /\ one.next = f[(3 + k) + 1]
        /\ MarkedLast(v) => one.av = v
    BY <2>1, <2>2, <2>4, <2>6 DEF Places
  <2>8. f[3 + (k + 1)] < Nowhere /\ f[3 + (k + 1)] \in Nat
    <3>1. f[3 + (k + 1)] \in Nat
      <4>1. f \in [Nat -> Nat]
        BY <2>1 DEF Places
      <4>2. 3 + (k + 1) \in Nat
        BY <2>4
      <4> QED BY <4>1, <4>2
    <3> QED BY <2>5, <2>7, <3>1, PlacesNear DEF IInv, InvocationType
  <2>9. ~Marks(call, v) => ~Crashes(one)
    <3> HIDE DEF one
    <3> QED BY <2>5, <2>7, <2>8, NowhereNat DEF Crashes
  <2> HIDE DEF one
  <2> QED BY <2>1, <2>4, <2>5, <2>6, <2>7, <2>9 DEF MarkedArg
<1>8. IsPast \/ \E k \in 0 .. n : InStep(k)
  BY <1>1 DEF IInv, ReadInv
<1>9. CASE Crashes(one)
  <2>1. pc' = "crashed" /\ UNCHANGED << src, argv >>
    BY <1>9 DEF ReadArgument, Crash
  <2>2. \E i \in 1 .. n : MarkedArg(i)
    BY <1>7, <1>8, <1>9 DEF IsPast, Past
  <2>3. SomeMarked'
    BY <1>1, <2>2 DEF SomeMarked, MarkedArg, Marks
  <2>4. InvocationType'
    BY <1>1, <2>1 DEF IInv, InvocationType
  <2>5. ReadInv'
    BY <2>1, <2>3 DEF ReadInv
  <2> QED BY <2>1, <2>4, <2>5 DEF IInv
<1>10. CASE ~Crashes(one)
  <2>1. src' = one.next /\ argv' = Append(argv, one.av) /\ pc' = "arguments"
    BY <1>10 DEF ReadArgument
  <2> HIDE DEF one
  <2>2. /\ argv' \in Seq(AVs[Len(memory.data) + 1]) /\ Len(argv') = Len(argv) + 1
        /\ argv'[Len(argv) + 1] = one.av
        /\ \A j \in 1 .. Len(argv) : argv'[j] = argv[j]
    <3>1. PICK S : S = AVs[Len(memory.data) + 1]
      OBVIOUS
    <3>2. argv \in Seq(S) /\ one.av \in S
      BY <1>2, <3>1 DEF IInv, InvocationType
    <3>3. /\ Append(argv, one.av) \in Seq(S) /\ Len(Append(argv, one.av)) = Len(argv) + 1
          /\ Append(argv, one.av)[Len(argv) + 1] = one.av
          /\ \A j \in 1 .. Len(argv) : Append(argv, one.av)[j] = argv[j]
      BY <3>2, AppendProperties
    <3> QED BY <2>1, <3>1, <3>3
  <2>3. InvocationType'
    <3>1. /\ app' \in {"twisted", "demo"} /\ call' \in Invocations
          /\ IsMemory(memory') /\ memory'.data = ClientPack(call')
          /\ src' \in Nat /\ id' \in Int
      BY <1>1, <1>2, <2>1 DEF IInv, InvocationType
    <3>2. argv' \in Seq(AVs[Len(memory'.data) + 1])
      BY <1>1, <2>2
    <3> QED BY <3>1, <3>2 DEF InvocationType
  <2>4. IsPast' \/ (\E k \in 0 .. n : InStep(k)')
    <3>1. CASE IsPast
      <4>1. PICK i \in 1 .. n : Past(i)
        BY <3>1 DEF IsPast
      <4>2. i \in Nat /\ i <= Len(argv) /\ i <= Len(argv')
        BY <1>4, <2>2, <4>1 DEF Past
      <4>3. \A j \in 1 .. i : argv'[j] = argv[j]
        <5>1. \A j \in 1 .. i : j \in 1 .. Len(argv)
          BY <1>4, <4>2
        <5> QED BY <2>2, <5>1
      <4>4. argv'[i] = argv[i] /\ \A j \in 1 .. i - 1 : argv'[j] = argv[j]
        BY <4>1, <4>2, <4>3
      <4>5. Past(i)'
        BY <1>1, <1>6, <4>1, <4>2, <4>4 DEF Past
      <4> QED BY <1>3, <4>5 DEF IsPast
    <3>2. CASE \E k \in 0 .. n : InStep(k)
      <4>1. PICK k \in 0 .. n : InStep(k)
        BY <3>2
      <4>2. k + 1 \in 1 .. n /\ k \in Nat
        BY <1>7, <4>1
      <4>3. argv = Start(call.args, k) /\ Len(argv) = k /\ \A j \in 1 .. k : argv[j] = call.args[j]
        BY <4>1, <4>2 DEF InStep, Start
      <4>4. CASE ~MarkedArg(k + 1)
        <5>1. one.av = call.args[k + 1] /\ one.next = PlaceOf[3 + (k + 1)]
          BY <1>7, <4>1, <4>4
        <5>2. argv' = Start(call.args, k + 1)
          BY <1>5, <2>1, <4>2, <4>3, <5>1, StartNext, SMTT(30)
        <5>3. \A i \in 1 .. k + 1 : ~MarkedArg(i)
          BY <4>1, <4>2, <4>4 DEF InStep
        <5>4. src' = PlaceOf'[3 + (k + 1)]
          BY <1>3, <2>1, <5>1
        <5>5. argv' = Start(call'.args, k + 1)
          BY <1>1, <5>2
        <5>6. InStep(k + 1)'
          BY <1>6, <5>3, <5>4, <5>5 DEF InStep
        <5>7. k + 1 \in 0 .. n
          BY <1>5, <4>2
        <5> QED BY <5>6, <5>7
      <4>5. CASE MarkedArg(k + 1)
        <5>1. \A j \in 1 .. (k + 1) - 1 : ~MarkedArg(j) /\ argv'[j] = call.args[j]
          <6>1. (k + 1) - 1 = k
            BY <4>2
          <6> QED BY <2>2, <4>1, <4>3, <6>1 DEF InStep
        <5>2. k + 1 <= Len(argv') /\ argv'[k + 1] = one.av
          BY <2>2, <4>2, <4>3
        <5>3. MarkedLast(call.args[k + 1]) => argv'[k + 1] = call.args[k + 1]
          BY <1>7, <4>1, <5>2
        <5>4. Past(k + 1)'
          BY <1>1, <1>6, <4>5, <5>1, <5>2, <5>3 DEF Past
        <5> QED BY <1>3, <4>2, <5>4 DEF IsPast
      <4> QED BY <4>4, <4>5
    <3> QED BY <1>8, <3>1, <3>2
  <2>5. ReadInv'
    BY <1>1, <1>3, <2>1, <2>4 DEF ReadInv
  <2> QED BY <2>1, <2>3, <2>5 DEF IInv
<1> QED BY <1>9, <1>10

\* The end of the arguments.
LEMMA ArgumentsReadStep ==
  ASSUME IInv, ArgumentsRead
  PROVE  IInv'
<1> DEFINE n == Len(call.args)
<1>1. /\ UNCHANGED << app, call, memory, src, id, argv >>
      /\ pc = "arguments" /\ pc' = "dispatch" /\ src >= Len(memory.data)
  BY DEF ArgumentsRead
<1>2. InvocationType'
  BY <1>1 DEF IInv, InvocationType
<1>3. n \in Nat
  BY ArgsType DEF IInv
<1>4. CASE IsPast
  <2>1. IsPast'
    BY <1>1, <1>4 DEF IsPast, Past, MarkedArg, Marks
  <2> QED BY <1>1, <1>2, <2>1 DEF IInv, ReadInv
<1>5. CASE \E k \in 0 .. n : InStep(k)
  <2>1. PICK k \in 0 .. n : InStep(k)
    BY <1>5
  <2>2. PICK f : f = PlaceOf /\ Places(f, memory, call)
    BY PlaceOfPlaces DEF IInv
  <2>3. src = f[3 + k]
    BY <2>1, <2>2 DEF InStep
  <2>4. k = n
    <3>1. ASSUME k # n PROVE FALSE
      <4>1. 3 + k \in 0 .. 2 + n
        BY <1>3, <3>1
      <4>2. src < Len(memory.data)
        BY <2>2, <2>3, <4>1 DEF Places
      <4>3. Len(memory.data) \in Nat /\ src \in Nat
        BY DEF IInv, InvocationType, IsMemory
      <4> QED BY <1>1, <4>2, <4>3
    <3> QED BY <3>1
  <2>5. InStep(n)
    BY <2>1, <2>4
  <2>6. InStep(n)' /\ n' = n
    BY <1>1, <2>5 DEF InStep, PlaceOf, MarkedArg, Marks
  <2> QED BY <1>1, <1>2, <2>6 DEF IInv, ReadInv
<1> QED BY <1>1, <1>4, <1>5 DEF IInv, ReadInv

\* What the application does changes nothing that was read.
LEMMA ApplicationStep ==
  ASSUME IInv, UNCHANGED << app, call, memory, src, id, argv >>,
         pc = "dispatch", pc' \in {"done", "aborted"}
  PROVE  IInv'
<1>1. InvocationType'
  BY DEF IInv, InvocationType
<1>2. IsPast' = IsPast /\ InStep(Len(call.args))' = InStep(Len(call.args))
  BY DEF IsPast, Past, MarkedArg, Marks, InStep, PlaceOf
<1>3. ReadInv'
  BY <1>2 DEF IInv, ReadInv
<1> QED BY <1>1, <1>3 DEF IInv

LEMMA SendsFrame ==
  ASSUME NEW packets, Sends(packets)
  PROVE  UNCHANGED << app, call, memory, src, id, argv >> /\ pc' \in {"done", "aborted"}
BY DEF Sends, Abort

LEMMA ApplicationFrame ==
  ASSUME OnConnect \/ OnUnknown \/ OnAddDemo \/ OnAddTwisted
  PROVE  /\ UNCHANGED << app, call, memory, src, id, argv >>
         /\ pc = "dispatch" /\ pc' \in {"done", "aborted"}
<1>1. CASE OnConnect
  BY <1>1, SendsFrame DEF OnConnect, Dispatch
<1>2. CASE OnUnknown
  BY <1>2, SendsFrame DEF OnUnknown
<1>3. CASE OnAddDemo
  BY <1>3, SendsFrame DEF OnAddDemo, Dispatch, Abort
<1>4. CASE OnAddTwisted
  BY <1>4, SendsFrame DEF OnAddTwisted, Dispatch, Abort
<1> QED BY <1>1, <1>2, <1>3, <1>4

LEMMA IInvStart == ASSUME Init PROVE IInv
<1>1. PICK stale \in Stale : memory = [data |-> ClientPack(call), stale |-> stale]
  BY DEF Init
<1>2. app \in {"twisted", "demo"} /\ call \in Invocations /\ stale \in Byte
  BY InvocationAssumption DEF Init, InvocationAssumption
<1>3. ClientPack(call) \in Seq(Byte)
  BY <1>2, PiecesType
<1>4. IsMemory(memory) /\ memory.data = ClientPack(call)
  BY <1>1, <1>2, <1>3 DEF IsMemory
<1>5. src \in Nat /\ id \in Int /\ argv \in Seq(AVs[Len(memory.data) + 1])
  BY EmptySeq DEF Init
<1>6. InvocationType
  BY <1>2, <1>4, <1>5 DEF InvocationType
<1>7. ReadInv
  BY DEF Init, ReadInv
<1> QED BY <1>6, <1>7 DEF IInv

LEMMA IInvStep == ASSUME IInv, [Next]_vars PROVE IInv'
<1>1. CASE ReadHead
  BY <1>1, HeadStep
<1>2. CASE ReadArgument
  BY <1>2, ArgumentStep
<1>3. CASE ArgumentsRead
  BY <1>3, ArgumentsReadStep
<1>4. CASE OnConnect \/ OnUnknown \/ OnAddDemo \/ OnAddTwisted
  BY <1>4, ApplicationFrame, ApplicationStep
<1>5. CASE UNCHANGED vars
  <2>1. UNCHANGED << app, call, memory, src, id, argv, pc >>
    BY <1>5 DEF vars
  <2>2. InvocationType'
    BY <2>1 DEF IInv, InvocationType
  <2>3. ReadInv'
    BY <2>1 DEF IInv, ReadInv, IsPast, Past, MarkedArg, Marks, InStep, PlaceOf, SomeMarked
  <2> QED BY <2>2, <2>3 DEF IInv
<1> QED BY <1>1, <1>2, <1>3, <1>4, <1>5 DEF Next

\* The invariant of an invocation: its variables keep their types, and as long as no
\* argument with the marker of a Flash player has been met, what has been read is the first
\* arguments, up to where the next one starts.
THEOREM InvocationInvariant == Spec => []IInv
<1>1. Init => IInv
  BY IInvStart
<1>2. IInv /\ [Next]_vars => IInv'
  BY IInvStep
<1> QED BY <1>1, <1>2, PTL DEF Spec

\* The arguments of a call arrive as they were sent, up to the first that a Flash player has
\* put the end marker of an associative array in, and that one too if the marker is at its
\* end; all of them if there is none.  This is so for every method and all arguments that
\* can be read, however deep in them the associative arrays are.
THEOREM InvocationArgumentsArrive == Spec => []ArgumentsArrive
<1> DEFINE n == Len(call.args)
           marked == { i \in 1 .. n : Marked(call.args[i]) }
<1>1. ASSUME IInv, pc \in {"dispatch", "done"}
      PROVE  IF marked = {} THEN argv = call.args /\ src = Len(memory.data)
             ELSE \A i \in 1 .. Min(marked) :
                    i < Min(marked) \/ MarkedLast(call.args[i]) => argv[i] = call.args[i]
  <2>1. n \in Nat /\ call.args \in Seq(Readable[MaxDepth])
    BY <1>1, ArgsType DEF IInv
  <2>2. \A i \in 1 .. n : MarkedArg(i) <=> i \in marked
    BY DEF MarkedArg, Marks, Marked
  <2>3. marked \subseteq 1 .. n
    OBVIOUS
  <2> HIDE DEF marked
  <2>4. CASE IsPast
    <3>1. PICK i \in 1 .. n : Past(i)
      BY <2>4 DEF IsPast
    <3>2. i \in marked /\ \A j \in 1 .. i - 1 : j \notin marked
      <4>1. \A j \in 1 .. i - 1 : j \in 1 .. n
        BY <2>1
      <4> QED BY <2>2, <3>1, <4>1 DEF Past
    <3>3. \A j \in marked : i <= j
      <4>1. ASSUME NEW j \in marked, ~(i <= j) PROVE FALSE
        <5>1. j \in 1 .. i - 1
          BY <2>1, <2>3, <4>1
        <5> QED BY <3>2, <4>1, <5>1
      <4> QED BY <4>1
    <3>4. Min(marked) = i
      <4>1. PICK x \in marked : x = Min(marked) /\ \A j \in marked : x <= j
        BY <3>2, <3>3 DEF Min
      <4>2. x <= i /\ i <= x /\ x \in Int /\ i \in Int
        BY <2>3, <3>2, <3>3, <4>1
      <4> QED BY <4>1, <4>2
    <3>5. ASSUME NEW j \in 1 .. i, j < i \/ MarkedLast(call.args[j])
          PROVE  argv[j] = call.args[j]
      <4>1. j = i \/ j \in 1 .. i - 1
        OBVIOUS
      <4>2. CASE j = i
        BY <3>1, <3>5, <4>2 DEF Past
      <4>3. CASE j \in 1 .. i - 1
        BY <3>1, <4>3 DEF Past
      <4> QED BY <4>1, <4>2, <4>3
    <3> QED BY <3>2, <3>4, <3>5
  <2>5. CASE InStep(n)
    <3>1. marked = {}
      BY <2>2, <2>3, <2>5 DEF InStep
    <3>2. argv = call.args
      BY <2>1, <2>5, StartNext DEF InStep
    <3>3. src = Len(memory.data)
      BY <1>1, <2>5, PlaceOfPlaces DEF IInv, InStep, Places
    <3> QED BY <3>1, <3>2, <3>3
  <2> QED BY <1>1, <2>4, <2>5 DEF IInv, ReadInv
<1>2. IInv => ArgumentsArrive
  BY <1>1 DEF ArgumentsArrive
<1> QED BY <1>2, InvocationInvariant, PTL

-----------------------------------------------------------------------------
(* The levels of Pys.                                                      *)

PyLeaves == [type : Numeric, value : Int] \cup [type : {"str"}, value : Seq(Byte)] \cup
            [type : {"bool"}, value : {0, 1}] \cup {None}

LEMMA PyLevels ==
  /\ Pys[0] = {}
  /\ \A d \in Nat : Pys[d + 1] = Around(Pys[d], PyLeaves, {"list"}, {"dict"})
BY NestedLevels DEF Pys, PyLeaves

LEMMA PysMore == ASSUME NEW d \in Nat, NEW e \in Nat, d <= e PROVE Pys[d] \subseteq Pys[e]
BY NestedMore DEF Pys

\* What a Python value has, by its type.
LEMMA PyCases ==
  ASSUME NEW d \in Nat, NEW v \in Pys[d + 1]
  PROVE  /\ v.type \in Numeric => v.value \in Int
         /\ v.type = "str"  => v.value \in Seq(Byte)
         /\ v.type = "bool" => v.value \in {0, 1}
         /\ v.type = "list" => v.value \in Seq(Pys[d])
         /\ v.type = "dict" => v.value \in Tables(Pys[d])
<1> DEFINE A == Pys[d]
<1>1. v \in Around(A, PyLeaves, {"list"}, {"dict"})
  BY PyLevels
<1> HIDE DEF A
<1>2. \/ v \in [type : Numeric, value : Int]
      \/ v \in [type : {"str"}, value : Seq(Byte)]
      \/ v \in [type : {"bool"}, value : {0, 1}]
      \/ v = [type |-> "None", value |-> << >>]
      \/ v \in [type : {"list"}, value : Seq(A)]
      \/ v \in [type : {"dict"}, value : Seq([key : Seq(Byte), value : A])]
  BY <1>1 DEF Around, PyLeaves, None, Py
<1>3. /\ v.type \in Numeric => v.value \in Int
      /\ v.type = "str"  => v.value \in Seq(Byte)
      /\ v.type = "bool" => v.value \in {0, 1}
      /\ v.type = "list" => v.value \in Seq(A)
      /\ v.type = "dict" => v.value \in Seq([key : Seq(Byte), value : A])
  BY <1>2 DEF Numeric
<1> QED BY <1>3 DEF A, Tables

\* Python values that are built of their parts.
LEMMA PyMade ==
  ASSUME NEW d \in Nat
  PROVE  /\ \A n \in Int, t \in Numeric : Py(t, n) \in Pys[d + 1]
         /\ \A s \in Seq(Byte)      : Py("str", s) \in Pys[d + 1]
         /\ None \in Pys[d + 1]
         /\ \A s \in Seq(Pys[d])    : Py("list", s) \in Pys[d + 1]
         /\ \A s \in Tables(Pys[d]) : Py("dict", s) \in Pys[d + 1]
<1> DEFINE A == Pys[d]
<1>1. Pys[d + 1] = Around(A, PyLeaves, {"list"}, {"dict"})
  BY PyLevels
<1> HIDE DEF A
<1>2. /\ \A n \in Int, t \in Numeric : Py(t, n) \in Around(A, PyLeaves, {"list"}, {"dict"})
      /\ \A s \in Seq(Byte) : Py("str", s) \in Around(A, PyLeaves, {"list"}, {"dict"})
      /\ None \in Around(A, PyLeaves, {"list"}, {"dict"})
  BY DEF Around, PyLeaves, Py
<1>3. /\ \A s \in Seq(A)    : Py("list", s) \in Around(A, PyLeaves, {"list"}, {"dict"})
      /\ \A s \in Tables(A) : Py("dict", s) \in Around(A, PyLeaves, {"list"}, {"dict"})
  BY DEF Around, Tables, Py
<1> QED BY <1>1, <1>2, <1>3 DEF A

-----------------------------------------------------------------------------
(* From AMF to Python.                                                     *)

\* What a boolean and a link have is a number.
LEMMA FirstNumber ==
  ASSUME NEW d \in Nat, NEW av \in AVs[d + 1], av.type \in {AMF_BOOLEAN, AMF_LINK}
  PROVE  av.value[1] \in Int
<1>1. CASE av.type = AMF_BOOLEAN
  <2>1. av.value \in Seq(Byte) /\ Len(av.value) = 1
    BY <1>1, AVCases
  <2>2. av.value[1] \in Byte
    BY <2>1
  <2>3. \A b \in Byte : b \in Int
    BY DEF Byte
  <2> QED BY <2>2, <2>3
<1>2. CASE av.type = AMF_LINK
  <2>1. av.value \in [1 .. 1 -> Shorts]
    BY <1>2, AVCases
  <2>2. av.value[1] \in Shorts
    BY <2>1
  <2>3. \A n \in Shorts : n \in Int
    BY DEF Shorts, MaxShort
  <2> QED BY <2>2, <2>3
<1> QED BY <1>1, <1>2

\* One level of ToPy.
LEMMA ToPyStep ==
  ASSUME NEW d \in Nat, NEW e \in Nat, NEW P, NEW B,
         \A x \in AVs[d] \cap B : P[x] \in Pys[e],
         NEW av \in AVs[d + 1], av.type = AMF_ARRAY => av.value \in Seq(B)
  PROVE  /\ ValueToPy(P, av) \in Pys[e + 1]
         /\ av.type = AMF_NUMBER => ValueToPy(P, av).type = "float"
<1> DEFINE u == ValueToPy(P, av)
<1>1. /\ av.type = AMF_NUMBER  => u = Py("float", Number(av.value))
      /\ av.type = AMF_BOOLEAN => u = Py("int", av.value[1])
      /\ av.type = AMF_LINK    => u = Py("int", av.value[1])
      /\ av.type = AMF_STRING  => u = Py("str", av.value)
      /\ av.type = AMF_ARRAY   => u = av_list_2_py(P, av.value)
      /\ av.type \notin {AMF_NUMBER, AMF_BOOLEAN, AMF_LINK, AMF_STRING, AMF_ARRAY} => u = None
  BY DEF ValueToPy, AMF_NUMBER, AMF_BOOLEAN, AMF_LINK, AMF_STRING, AMF_ARRAY
<1> HIDE DEF u
<1>2. CASE av.type = AMF_NUMBER
  <2>1. Number(av.value) \in Int /\ "float" \in Numeric
    <3>1. Sized(av.value, 8)
      BY <1>2, AVCases, SizedSelf
    <3> QED BY <3>1, NumberInt DEF Numeric
  <2>2. u \in Pys[e + 1]
    BY <1>1, <1>2, <2>1, PyMade
  <2>3. u.type = "float"
    BY <1>1, <1>2 DEF Py
  <2> QED BY <2>2, <2>3 DEF u
<1>3. CASE av.type \in {AMF_BOOLEAN, AMF_LINK}
  <2>1. av.value[1] \in Int
    BY <1>3, FirstNumber
  <2>2. "int" \in Numeric /\ u = Py("int", av.value[1])
    BY <1>1, <1>3 DEF Numeric
  <2>3. u \in Pys[e + 1]
    BY <2>1, <2>2, PyMade
  <2> QED BY <1>3, <2>3 DEF u, AMF_NUMBER, AMF_BOOLEAN, AMF_LINK
<1>4. CASE av.type = AMF_STRING
  <2>1. u \in Pys[e + 1]
    BY <1>1, <1>4, AVCases, PyMade
  <2> QED BY <1>4, <2>1 DEF u, AMF_NUMBER, AMF_STRING
<1>5. CASE av.type = AMF_ARRAY
  <2>1. av.value \in Seq(AVs[d]) /\ av.value \in Seq(B)
    BY <1>5, AVCases
  <2>2. PICK C : C = AVs[d] \cap B
    OBVIOUS
  <2>3. av.value \in Seq(C)
    BY <2>1, <2>2, SeqBoth
  <2>4. PICK t \in Seq(C) : t = av.value
    BY <2>3
  <2>5. u = Py("list", [i \in 1 .. Len(t) |-> P[t[i]]])
    BY <1>1, <1>5, <2>4 DEF av_list_2_py
  <2>6. Len(t) \in Nat /\ \A i \in 1 .. Len(t) : P[t[i]] \in Pys[e]
    BY <2>2
  <2>7. [i \in 1 .. Len(t) |-> P[t[i]]] \in Seq(Pys[e])
    BY <2>6
  <2>8. u \in Pys[e + 1]
    BY <2>5, <2>7, PyMade
  <2> QED BY <1>5, <2>8 DEF u, AMF_NUMBER, AMF_ARRAY
<1>6. CASE av.type \notin {AMF_NUMBER, AMF_BOOLEAN, AMF_LINK, AMF_STRING, AMF_ARRAY}
  <2>1. u \in Pys[e + 1]
    BY <1>1, <1>6, PyMade
  <2> QED BY <1>6, <2>1 DEF u
<1> QED BY <1>2, <1>3, <1>4, <1>5, <1>6

\* ToPy converts what is nested less and less deep.
LEMMA ToPyLevels ==
  \A d \in Nat : \A av \in AVs[d + 1] : ToPy[d + 1][av] = ValueToPy(ToPy[d], av)
<1> DEFINE W == [d \in Nat |-> [AVs[d] -> Pys[d]]]
           G(d, P) == [av \in AVs[d + 1] |-> ValueToPy(P, av)]
           g == [d \in Nat |-> [P \in W[d] |-> G(d, P)]]
           Is(f) == f = [d \in Nat |-> IF d = 0 THEN << >>
                                       ELSE [av \in AVs[d] |-> ValueToPy(f[d - 1], av)]]
           PT == CHOOSE f : Is(f)
<1>1. ASSUME NEW d \in Nat, NEW P \in [AVs[d] -> Pys[d]]
      PROVE  G(d, P) \in [AVs[d + 1] -> Pys[d + 1]]
  <2>1. PICK B : B = AVs[d]
    OBVIOUS
  <2>2. \A x \in AVs[d] \cap B : P[x] \in Pys[d]
    BY <1>1
  <2>3. ASSUME NEW av \in AVs[d + 1] PROVE ValueToPy(P, av) \in Pys[d + 1]
    <3>1. av.type = AMF_ARRAY => av.value \in Seq(B)
      BY <2>1, AVCases
    <3> QED BY <2>2, <3>1, ToPyStep
  <2> QED BY <2>3
<1>2. \A d \in Nat : W[d] = [AVs[d] -> Pys[d]]
  OBVIOUS
<1>3. ASSUME NEW d \in Nat, NEW P \in W[d] PROVE g[d][P] = G(d, P) /\ g[d][P] \in W[d + 1]
  <2>1. g[d][P] = G(d, P)
    OBVIOUS
  <2>2. G(d, P) \in [AVs[d + 1] -> Pys[d + 1]]
    BY <1>1, <1>2
  <2>3. W[d + 1] = [AVs[d + 1] -> Pys[d + 1]]
    <3>1. d + 1 \in Nat
      OBVIOUS
    <3> HIDE DEF W
    <3> QED BY <1>2, <3>1
  <2> HIDE DEF W, g, G
  <2> QED BY <2>1, <2>2, <2>3
<1>4. << >> \in W[0]
  BY AVLevels, PyLevels
<1> HIDE DEF W, g, G
<1>5. PICK f : Recursive(f, << >>, g, W)
  BY <1>3, <1>4, Recursion
<1>6. Is(f)
  <2>1. ASSUME NEW d \in Nat, d # 0
        PROVE  f[d] = [av \in AVs[d] |-> ValueToPy(f[d - 1], av)]
    <3>1. d - 1 \in Nat /\ (d - 1) + 1 = d
      BY <2>1
    <3>2. f[d] = g[d - 1][f[d - 1]] /\ f[d - 1] \in W[d - 1]
      BY <1>5, <2>1, <3>1 DEF Recursive
    <3>3. f[d] = G(d - 1, f[d - 1])
      BY <1>3, <3>1, <3>2
    <3> QED BY <3>1, <3>3 DEF G
  <2>2. f[0] = << >> /\ f = [d \in Nat |-> f[d]]
    BY <1>5 DEF Recursive
  <2>3. f = [d \in Nat |-> IF d = 0 THEN << >> ELSE [av \in AVs[d] |-> ValueToPy(f[d - 1], av)]]
    BY <2>1, <2>2
  <2> QED BY <2>3
<1>7. Is(PT)
  BY <1>6
<1>8. ToPy = PT
  BY DEF ToPy
<1> HIDE DEF PT
<1>9. ASSUME NEW d \in Nat PROVE ToPy[d + 1] = G(d, ToPy[d])
  <2>1. d + 1 \in Nat /\ d + 1 # 0 /\ (d + 1) - 1 = d
    OBVIOUS
  <2> QED BY <1>7, <1>8, <2>1 DEF G
<1> QED BY <1>9 DEF G

\* What a value becomes is nested as deep as the value is found at, at any depth it is
\* looked for.
LEMMA ToPyType ==
  \A d \in Nat : \A e \in Nat : \A av \in AVs[d] \cap AVs[e] :
    /\ ToPy[d][av] \in Pys[e]
    /\ av.type = AMF_NUMBER => ToPy[d][av].type = "float"
<1> DEFINE Good(d, e) == \A av \in AVs[d] \cap AVs[e] :
                           /\ ToPy[d][av] \in Pys[e]
                           /\ av.type = AMF_NUMBER => ToPy[d][av].type = "float"
           Z == {d \in Nat : \A e \in Nat : Good(d, e)}
<1>1. 0 \in Z
  BY AVLevels
<1>2. ASSUME NEW d \in Nat, d \in Z PROVE d + 1 \in Z
  <2>1. ASSUME NEW e \in Nat, NEW av \in AVs[d + 1] \cap AVs[e]
        PROVE  /\ ToPy[d + 1][av] \in Pys[e]
               /\ av.type = AMF_NUMBER => ToPy[d + 1][av].type = "float"
    <3>1. e # 0
      BY <2>1, AVLevels
    <3>2. PICK c \in Nat : c + 1 = e
      <4>1. e - 1 \in Nat /\ (e - 1) + 1 = e
        BY <3>1
      <4> QED BY <4>1
    <3>3. PICK B : B = AVs[c]
      OBVIOUS
    <3>4. \A x \in AVs[d] \cap B : ToPy[d][x] \in Pys[c]
      BY <1>2, <3>3
    <3>5. av.type = AMF_ARRAY => av.value \in Seq(B)
      BY <2>1, <3>2, <3>3, AVCases
    <3>6. PICK P : P = ToPy[d]
      OBVIOUS
    <3>7. /\ ValueToPy(P, av) \in Pys[c + 1]
          /\ av.type = AMF_NUMBER => ValueToPy(P, av).type = "float"
      <4>1. av \in AVs[d + 1] /\ \A x \in AVs[d] \cap B : P[x] \in Pys[c]
        BY <2>1, <3>4, <3>6
      <4> HIDE DEF Z
      <4> QED BY <3>5, <4>1, ToPyStep, ZenonT(30)
    <3>8. ToPy[d + 1][av] = ValueToPy(P, av)
      BY <2>1, <3>6, ToPyLevels
    <3> QED BY <3>2, <3>7, <3>8
  <2>2. d + 1 \in Nat /\ \A e \in Nat : Good(d + 1, e)
    BY <2>1
  <2> QED BY <2>2
<1> HIDE DEF Z
<1>3. \A d \in Nat : d \in Z
  BY <1>1, <1>2, InductionOnNat
<1> QED BY <1>3 DEF Z

LEMMA av_2_pyType ==
  ASSUME NEW e \in Nat, e <= MaxDepth, NEW av \in AVs[e]
  PROVE  /\ av_2_py(av) \in Pys[e]
         /\ av.type = AMF_NUMBER => av_2_py(av).type = "float"
<1>1. MaxDepth \in Nat
  BY MaxDepthAssumption
<1>2. av \in AVs[MaxDepth]
  BY <1>1, AVsMore
<1>3. PICK d \in Nat : d = Depth(av) /\ av \in AVs[d]
  BY <1>2, DepthFound
<1>4. av_2_py(av) = ToPy[d][av]
  BY <1>3 DEF av_2_py
<1> QED BY <1>3, <1>4, ToPyType

-----------------------------------------------------------------------------
(* From Python to AMF.                                                     *)

\* One level of FromPy.
LEMMA FromPyStep ==
  ASSUME NEW left \in AVs[1], NEW d \in Nat, NEW P \in [Pys[d] -> AVs[d]], NEW v \in Pys[d + 1]
  PROVE  PyToValue(P, v, left) \in AVs[d + 1]
<1> DEFINE u == PyToValue(P, v, left)
           table == [i \in 1 .. Len(v.value) |-> Elem(v.value[i].key, P[v.value[i].value])]
           list  == [i \in 1 .. Len(v.value) |-> P[v.value[i]]]
<1>1. /\ v.type = "dict"  => u = Value(AMF_HASH, table)
      /\ v.type = "list"  => u = Value(AMF_ARRAY, list)
      /\ v.type = "str"   => u = Value(AMF_STRING, v.value)
      /\ v.type = "bool"  => u = Value(AMF_BOOLEAN, << v.value >>)
      /\ v.type = "float" => u = NumberAV(v.value)
      /\ v.type \notin {"dict", "list", "str", "bool", "float"} => u = left
  BY DEF PyToValue, Py2Leaf
<1> HIDE DEF u
<1>2. CASE v.type = "dict"
  <2>1. PICK t \in Tables(Pys[d]) : t = v.value
    BY <1>2, PyCases
  <2>2. Len(t) \in Nat /\ \A i \in 1 .. Len(t) : t[i].key \in Seq(Byte) /\ t[i].value \in Pys[d]
    <3>1. PICK R : R = [key : Seq(Byte), value : Pys[d]]
      OBVIOUS
    <3>2. t \in Seq(R)
      BY <3>1 DEF Tables
    <3>3. Len(t) \in Nat /\ \A i \in 1 .. Len(t) : t[i] \in R
      BY <3>2
    <3> QED BY <3>1, <3>3
  <2>3. \A i \in 1 .. Len(t) :
          Elem(t[i].key, P[t[i].value]) \in [key : Seq(Byte), value : AVs[d]]
    BY <2>2 DEF Elem
  <2>4. table \in Tables(AVs[d])
    BY <2>1, <2>2, <2>3 DEF Tables
  <2> QED BY <1>1, <1>2, <2>4, AVMade DEF u
<1>3. CASE v.type = "list"
  <2>1. PICK t \in Seq(Pys[d]) : t = v.value
    BY <1>3, PyCases
  <2>2. list \in Seq(AVs[d])
    BY <2>1
  <2> QED BY <1>1, <1>3, <2>2, AVMade DEF u
<1>4. CASE v.type = "str"
  BY <1>1, <1>4, PyCases, AVMade DEF u
<1>5. CASE v.type = "bool"
  <2>1. v.value \in {0, 1}
    BY <1>5, PyCases
  <2>2. v.value \in Byte
    BY <2>1 DEF Byte
  <2>3. << v.value >> \in [1 .. 1 -> Byte]
    BY <2>2
  <2> QED BY <1>1, <1>5, <2>3, AVMade DEF u
<1>6. CASE v.type = "float"
  <2>1. v.value \in Int
    BY <1>6, PyCases DEF Numeric
  <2>2. NumberAV(v.value) \in Readable[d + 1]
    BY <2>1, NumberReadable
  <2> QED BY <1>1, <1>6, <2>2, ReadableLevels DEF u
<1>7. CASE v.type \notin {"dict", "list", "str", "bool", "float"}
  <2>1. 1 \in Nat /\ d + 1 \in Nat /\ 1 <= d + 1
    OBVIOUS
  <2>2. AVs[1] \subseteq AVs[d + 1]
    BY <2>1, AVsMore
  <2> QED BY <1>1, <1>7, <2>2 DEF u
<1> QED BY <1>2, <1>3, <1>4, <1>5, <1>6, <1>7

LEMMA FromPyLevels ==
  ASSUME NEW left \in AVs[1]
  PROVE  \A d \in Nat :
           /\ FromPy(left)[d] \in [Pys[d] -> AVs[d]]
           /\ \A v \in Pys[d + 1] : FromPy(left)[d + 1][v] = PyToValue(FromPy(left)[d], v, left)
<1> DEFINE W == [d \in Nat |-> [Pys[d] -> AVs[d]]]
           G(d, P) == [v \in Pys[d + 1] |-> PyToValue(P, v, left)]
           g == [d \in Nat |-> [P \in W[d] |-> G(d, P)]]
           Is(f) == f = [d \in Nat |-> IF d = 0 THEN << >>
                                       ELSE [v \in Pys[d] |-> PyToValue(f[d - 1], v, left)]]
           PT == CHOOSE f : Is(f)
<1>1. ASSUME NEW d \in Nat, NEW P \in [Pys[d] -> AVs[d]]
      PROVE  G(d, P) \in [Pys[d + 1] -> AVs[d + 1]]
  <2>1. \A v \in Pys[d + 1] : PyToValue(P, v, left) \in AVs[d + 1]
    BY <1>1, FromPyStep
  <2> QED BY <2>1
<1>2. \A d \in Nat : W[d] = [Pys[d] -> AVs[d]]
  OBVIOUS
<1>3. ASSUME NEW d \in Nat, NEW P \in W[d] PROVE g[d][P] = G(d, P) /\ g[d][P] \in W[d + 1]
  <2>1. g[d][P] = G(d, P)
    OBVIOUS
  <2>2. G(d, P) \in [Pys[d + 1] -> AVs[d + 1]]
    BY <1>1, <1>2
  <2>3. W[d + 1] = [Pys[d + 1] -> AVs[d + 1]]
    <3>1. d + 1 \in Nat
      OBVIOUS
    <3> HIDE DEF W
    <3> QED BY <1>2, <3>1
  <2> HIDE DEF W, g, G
  <2> QED BY <2>1, <2>2, <2>3
<1>4. << >> \in W[0]
  BY AVLevels, PyLevels
<1> HIDE DEF W, g, G
<1>5. PICK f : Recursive(f, << >>, g, W)
  BY <1>3, <1>4, Recursion
<1>6. Is(f)
  <2>1. ASSUME NEW d \in Nat, d # 0
        PROVE  f[d] = [v \in Pys[d] |-> PyToValue(f[d - 1], v, left)]
    <3>1. d - 1 \in Nat /\ (d - 1) + 1 = d
      BY <2>1
    <3>2. f[d] = g[d - 1][f[d - 1]] /\ f[d - 1] \in W[d - 1]
      BY <1>5, <2>1, <3>1 DEF Recursive
    <3>3. f[d] = G(d - 1, f[d - 1])
      BY <1>3, <3>1, <3>2
    <3> QED BY <3>1, <3>3 DEF G
  <2>2. f[0] = << >> /\ f = [d \in Nat |-> f[d]]
    BY <1>5 DEF Recursive
  <2>3. f = [d \in Nat |-> IF d = 0 THEN << >> ELSE [v \in Pys[d] |-> PyToValue(f[d - 1], v, left)]]
    BY <2>1, <2>2
  <2> QED BY <2>3
<1>7. Is(PT)
  BY <1>6
<1>8. FromPy(left) = PT
  BY DEF FromPy
<1> HIDE DEF PT
<1>9. /\ FromPy(left)[0] = << >>
      /\ \A d \in Nat : FromPy(left)[d + 1] = G(d, FromPy(left)[d])
  <2>1. FromPy(left)[0] = << >>
    BY <1>7, <1>8
  <2>2. ASSUME NEW d \in Nat PROVE FromPy(left)[d + 1] = G(d, FromPy(left)[d])
    <3>1. d + 1 \in Nat /\ d + 1 # 0 /\ (d + 1) - 1 = d
      OBVIOUS
    <3> QED BY <1>7, <1>8, <3>1 DEF G
  <2> QED BY <2>1, <2>2
<1> DEFINE Z == {d \in Nat : FromPy(left)[d] \in [Pys[d] -> AVs[d]]}
<1>10. 0 \in Z
  <2>1. << >> \in [{} -> AVs[0]]
    OBVIOUS
  <2> QED BY <1>9, <2>1, PyLevels
<1>11. ASSUME NEW d \in Nat, d \in Z PROVE d + 1 \in Z
  BY <1>1, <1>9, <1>11, SMTT(30)
<1> HIDE DEF Z
<1>12. \A d \in Nat : d \in Z
  BY <1>10, <1>11, InductionOnNat
<1> QED BY <1>9, <1>12 DEF Z, G

\* Where a Python value is found.
LEMMA PyDepthFound ==
  ASSUME NEW v \in Pys[MaxDepth]
  PROVE  PyDepth(v) \in 1 .. MaxDepth /\ v \in Pys[PyDepth(v)]
<1>1. MaxDepth \in Nat \ {0}
  BY MaxDepthAssumption DEF MaxDepthAssumption
<1>2. MaxDepth \in 1 .. MaxDepth
  BY <1>1
<1> QED BY <1>2 DEF PyDepth

LEMMA py_2_avType ==
  ASSUME NEW left \in AVs[1], NEW v \in Pys[MaxDepth]
  PROVE  /\ py_2_av(v, left) \in AVs[MaxDepth]
         /\ v.type = "float" => py_2_av(v, left) = NumberAV(v.value)
<1>1. PICK d \in 1 .. MaxDepth : d = PyDepth(v) /\ v \in Pys[d]
  BY PyDepthFound
<1>2. MaxDepth \in Nat
  BY MaxDepthAssumption
<1>3. d \in Nat /\ d - 1 \in Nat /\ (d - 1) + 1 = d /\ d <= MaxDepth
  BY <1>2
<1>4. py_2_av(v, left) = FromPy(left)[d][v]
  BY <1>1 DEF py_2_av
<1>5. FromPy(left)[d][v] \in AVs[d]
  <2>1. FromPy(left)[d] \in [Pys[d] -> AVs[d]]
    BY <1>3, FromPyLevels
  <2> QED BY <1>1, <2>1
<1>6. AVs[d] \subseteq AVs[MaxDepth]
  BY <1>2, <1>3, AVsMore
<1>7. ASSUME v.type = "float" PROVE FromPy(left)[d][v] = NumberAV(v.value)
  <2>1. PICK P : P = FromPy(left)[d - 1]
    OBVIOUS
  <2>2. FromPy(left)[d][v] = PyToValue(P, v, left)
    BY <1>1, <1>3, <2>1, FromPyLevels
  <2>3. PyToValue(P, v, left) = NumberAV(v.value)
    BY <1>7 DEF PyToValue, Py2Leaf
  <2> QED BY <2>2, <2>3
<1> QED BY <1>4, <1>5, <1>6, <1>7

LEMMA FlattenType == ASSUME NEW S, NEW s \in Seq(Seq(S)) PROVE FlattenSeq(s) \in Seq(S)
<1>1. PICK f \in [Nat -> Seq(S)] : FlattenSeq(s) = f[Len(s)]
  BY Flattened
<1>2. Len(s) \in Nat
  OBVIOUS
<1> QED BY <1>1, <1>2

LEMMA NilEnd == Nil \in AVs[1] /\ End \in AVs[1]
<1>1. AMF_NIL \in Byte \ Typed /\ AMF_END \in Byte \ Typed
  BY DEF AMF_NIL, AMF_END, Byte, Typed, AMF_NUMBER, AMF_BOOLEAN, AMF_STRING, AMF_HASH, AMF_LINK,
         AMF_ASSOC_ARRAY, AMF_ARRAY
<1>2. 0 \in Nat /\ 0 + 1 = 1
  OBVIOUS
<1>3. \A t \in Byte \ Typed : Value(t, << >>) \in AVs[0 + 1]
  BY <1>2, AVMade
<1> QED BY <1>1, <1>2, <1>3 DEF Nil, End

\* A Python value for a number is a number in AMF, whatever was there.
LEMMA FloatWritten ==
  ASSUME NEW v \in Pys[MaxDepth], v.type = "float"
  PROVE  ~Unwritten(v)
<1>1. Nil \in AVs[1] /\ End \in AVs[1]
  BY NilEnd
<1>2. py_2_av(v, Nil) = NumberAV(v.value) /\ py_2_av(v, End) = NumberAV(v.value)
  BY <1>1, py_2_avType
<1> QED BY <1>2 DEF Unwritten

-----------------------------------------------------------------------------
(* a + b * k.                                                              *)

LEMMA Sums ==
  ASSUME NEW d \in Nat, NEW a \in Pys[d + 1], NEW b \in Pys[d + 1], Addable(a, b), NEW k \in Nat
  PROVE  /\ PlusTimes(a, b, k) \in Pys[d + 1]
         /\ "float" \in {a.type, b.type} => PlusTimes(a, b, k).type = "float"
<1> DEFINE u == PlusTimes(a, b, k)
           r == [i \in 1 .. k |-> b.value]
<1>1. CASE a.type \in Numeric
  <2>1. b.type \in Numeric
    BY <1>1 DEF Addable, Numeric
  <2>2. a.value \in Int /\ b.value \in Int
    BY <1>1, <2>1, PyCases
  <2>3. a.value + b.value * k \in Int
    BY <2>2
  <2>4. PICK n \in Int : n = a.value + b.value * k
    BY <2>3
  <2>5. u = Py(IF "float" \in {a.type, b.type} THEN "float" ELSE "int", n)
    BY <1>1, <2>4 DEF PlusTimes
  <2>6. u.type \in Numeric /\ u = Py(u.type, n)
        /\ ("float" \in {a.type, b.type} => u.type = "float")
    BY <2>5 DEF Py, Numeric
  <2> HIDE DEF u
  <2>7. u \in Pys[d + 1]
    BY <2>6, PyMade
  <2> QED BY <2>6, <2>7 DEF u
<1>2. CASE a.type \notin Numeric
  <2>1. a.type = b.type /\ a.type \in {"str", "list"}
    BY <1>2 DEF Addable
  <2>2. u = Py(a.type, a.value \o FlattenSeq(r))
    BY <1>2 DEF PlusTimes
  <2>3. "float" \notin {a.type, b.type}
    BY <2>1
  <2> HIDE DEF u
  <2>4. ASSUME NEW S, a.value \in Seq(S), b.value \in Seq(S)
        PROVE  a.value \o FlattenSeq(r) \in Seq(S)
    <3>1. r \in Seq(Seq(S))
      BY <2>4
    <3> HIDE DEF r
    <3>2. FlattenSeq(r) \in Seq(S)
      BY <3>1, FlattenType
    <3> QED BY <2>4, <3>2
  <2> HIDE DEF r
  <2>5. CASE a.type = "str"
    <3>1. a.value \in Seq(Byte) /\ b.value \in Seq(Byte)
      BY <2>1, <2>5, PyCases
    <3>2. a.value \o FlattenSeq(r) \in Seq(Byte)
      BY <2>4, <3>1
    <3> QED BY <2>2, <2>3, <2>5, <3>2, PyMade DEF u
  <2>6. CASE a.type = "list"
    <3>1. a.value \in Seq(Pys[d]) /\ b.value \in Seq(Pys[d])
      BY <2>1, <2>6, PyCases
    <3>2. a.value \o FlattenSeq(r) \in Seq(Pys[d])
      BY <2>4, <3>1
    <3> QED BY <2>2, <2>3, <2>6, <3>2, PyMade DEF u
  <2> QED BY <2>1, <2>5, <2>6
<1> QED BY <1>1, <1>2

-----------------------------------------------------------------------------
(* The packets that are sent.                                              *)

Fits(packet) == packet.room = Len(packet.data)

\* What the applications send.
LEMMA Names ==
  ASSUME 2 <= MaxDepth
  PROVE  /\ Nil \in AVs[MaxDepth] /\ \A n \in Int : NumberAV(n) \in AVs[MaxDepth]
         /\ _result \in AVs[MaxDepth] /\ greeting \in AVs[MaxDepth]
         /\ String(104) \in AVs[MaxDepth] /\ ConnectSuccess \in AVs[MaxDepth]
<1>1. MaxDepth \in Nat /\ 1 <= MaxDepth /\ 0 + 1 = 1 /\ 1 + 1 = 2
  BY MaxDepthAssumption
<1>2. AVs[1] \subseteq AVs[MaxDepth] /\ AVs[2] \subseteq AVs[MaxDepth]
  BY <1>1, AVsMore
<1>3. ASSUME NEW c \in Byte PROVE String(c) \in AVs[1]
  <2>1. << c >> \in Seq(Byte)
    OBVIOUS
  <2>2. Value(AMF_STRING, << c >>) \in AVs[0 + 1]
    BY <2>1, AVMade
  <2> QED BY <1>1, <2>2 DEF String
<1>4. 82 \in Byte /\ 71 \in Byte /\ 104 \in Byte
  BY DEF Byte
<1>5. _result \in AVs[1] /\ greeting \in AVs[1] /\ String(104) \in AVs[1]
  BY <1>3, <1>4 DEF _result, greeting
<1>6. ConnectSuccess \in AVs[2]
  <2> DEFINE e(i) == Elem(<< i >>, String(100 + i))
             t == [i \in 1 .. 3 |-> e(i)]
  <2>1. ASSUME NEW i \in 1 .. 3 PROVE e(i) \in [key : Seq(Byte), value : AVs[1]]
    <3>1. i \in Byte /\ 100 + i \in Byte
      BY DEF Byte
    <3>2. << i >> \in Seq(Byte) /\ String(100 + i) \in AVs[1]
      BY <1>3, <3>1
    <3> HIDE DEF String
    <3> QED BY <3>2 DEF Elem
  <2>2. PICK R : R = [key : Seq(Byte), value : AVs[1]]
    OBVIOUS
  <2>3. \A i \in 1 .. 3 : e(i) \in R
    BY <2>1, <2>2
  <2> HIDE DEF e
  <2>4. t \in Seq(R)
    BY <2>3
  <2>5. t \in Tables(AVs[1])
    BY <2>2, <2>4 DEF Tables
  <2> HIDE DEF t
  <2>6. Value(AMF_HASH, t) \in AVs[1 + 1]
    BY <2>5, AVMade
  <2> QED BY <1>1, <2>6 DEF ConnectSuccess, t, e
<1>7. Nil \in AVs[MaxDepth] /\ \A n \in Int : NumberAV(n) \in AVs[MaxDepth]
  BY Constants
<1> QED BY <1>2, <1>5, <1>6, <1>7

LEMMA ReturnFits ==
  ASSUME 2 <= MaxDepth, id \in Int, NEW value \in AVs[MaxDepth]
  PROVE  Fits(Return(value))
<1>1. PICK A : A = AVs[MaxDepth]
  OBVIOUS
<1>2. _result \in A /\ NumberAV(id) \in A /\ Nil \in A /\ value \in A
  BY <1>1, Names
<1>3. << _result, NumberAV(id), Nil, value >> \in Seq(A)
  BY <1>2
<1> QED BY <1>1, <1>3, ArgumentsTakeTheirRoom DEF Return, Fits

LEMMA CallsFit ==
  ASSUME 2 <= MaxDepth, id \in Int, NEW method \in AVs[MaxDepth], NEW value \in AVs[MaxDepth]
  PROVE  Fits(Calls(method, value))
<1>1. PICK A : A = AVs[MaxDepth]
  OBVIOUS
<1>2. method \in A /\ NumberAV(id + 1) \in A /\ Nil \in A /\ value \in A
  <2>1. id + 1 \in Int
    OBVIOUS
  <2> QED BY <1>1, <2>1, Names
<1>3. << method, NumberAV(id + 1), Nil >> \o << value >> \in Seq(A)
  BY <1>2
<1> QED BY <1>1, <1>3, ArgumentsTakeTheirRoom DEF Calls, PackCall, Fits

\* Packets that take the room that was set aside for them are sent.
LEMMA FittingSent ==
  ASSUME NEW packets, \A i \in 1 .. Len(packets) : Fits(packets[i]), Sends(packets)
  PROVE  pc' = "done"
BY DEF Sends, Fits

\* The arguments are less deep than what may be made of them.
LEMMA DepthRoom ==
  ASSUME IInv
  PROVE  /\ 2 <= MaxDepth /\ id \in Int
         /\ \E d \in Nat : (d + 1) + 1 <= MaxDepth /\ argv \in Seq(AVs[d + 1])
<1>1. call \in Invocations /\ memory.data = ClientPack(call) /\ argv \in Seq(AVs[Len(memory.data) + 1])
  BY DEF IInv, InvocationType
<1>2. PICK d \in Nat : d = Len(memory.data)
  BY DEF IInv, InvocationType, IsMemory
<1>3. d + 2 <= MaxDepth /\ MaxDepth \in Nat
  BY <1>1, <1>2, DepthAssumption, MaxDepthAssumption
<1>4. 2 <= MaxDepth /\ (d + 1) + 1 <= MaxDepth
  BY <1>3
<1> QED BY <1>1, <1>2, <1>4 DEF IInv, InvocationType

\* The numbers in two arguments.
LEMMA NumbersInInt ==
  ASSUME IInv, Len(argv) = 2, NEW i \in {1, 2}
  PROVE  NumbersIn(argv[i]) \subseteq Int
<1>1. PICK d \in Nat : argv \in Seq(AVs[d + 1])
  BY DepthRoom
<1>2. PICK av \in AVs[d + 1] : av = argv[i]
  <2>1. PICK A : A = AVs[d + 1]
    OBVIOUS
  <2>2. argv \in Seq(A) /\ i \in 1 .. Len(argv)
    BY <1>1, <2>1
  <2>3. argv[i] \in A
    BY <2>2, ElementOfSeq
  <2> QED BY <2>1, <2>3
<1>3. CASE av.type = AMF_NUMBER
  <2>1. Sized(av.value, 8)
    BY <1>3, AVCases, SizedSelf
  <2>2. Number(av.value) \in Int
    BY <2>1, NumberInt
  <2> QED BY <1>2, <1>3, <2>2 DEF NumbersIn
<1>4. CASE av.type # AMF_NUMBER
  BY <1>2, <1>4 DEF NumbersIn, Unknown
<1> QED BY <1>3, <1>4

LEMMA OnConnectSent == ASSUME IInv, OnConnect PROVE pc' = "done"
<1>1. Fits(Return(ConnectSuccess))
  BY DepthRoom, Names, ReturnFits
<1>2. Sends(<< Return(ConnectSuccess) >>)
  BY DEF OnConnect
<1> QED BY <1>1, <1>2, FittingSent

LEMMA OnAddDemoSent == ASSUME IInv, OnAddDemo, Len(argv) = 2 PROVE pc' = "done"
<1>1. PICK v1 \in NumbersIn(argv[1]), v2 \in NumbersIn(argv[2]) :
        Sends(<< Return(NumberAV(v1 + v2)), Calls(greeting, String(104)) >>)
  BY DEF OnAddDemo
<1>2. v1 \in Int /\ v2 \in Int
  BY NumbersInInt
<1>3. v1 + v2 \in Int
  BY <1>2
<1>4. Fits(Return(NumberAV(v1 + v2))) /\ Fits(Calls(greeting, String(104)))
  BY <1>3, DepthRoom, Names, ReturnFits, CallsFit
<1> QED BY <1>1, <1>4, FittingSent

\* What testbad.py makes of two arguments that add up.
LEMMA OnAddTwistedSent ==
  ASSUME IInv, OnAddTwisted, Len(argv) = 2
  PROVE  pc' = "aborted" => \A i \in {1, 2} : argv[i].type # AMF_NUMBER
<1> DEFINE a == av_2_py(argv[1])
           b == av_2_py(argv[2])
           sum == PlusTimes(a, b, 2)
           ret == PlusTimes(a, b, 7)
           answer == Py("dict", << Elem(<< 97 >>, sum) >>)
<1>1. PICK d \in Nat : (d + 1) + 1 <= MaxDepth /\ argv \in Seq(AVs[d + 1])
  BY DepthRoom
<1>2. 2 <= MaxDepth /\ id \in Int /\ MaxDepth \in Nat /\ d + 1 \in Nat /\ (d + 1) + 1 \in Nat /\ d + 1 <= MaxDepth
  BY <1>1, DepthRoom, MaxDepthAssumption
<1>3. argv[1] \in AVs[d + 1] /\ argv[2] \in AVs[d + 1]
  <2>1. PICK A : A = AVs[d + 1]
    OBVIOUS
  <2>2. argv \in Seq(A)
    BY <1>1, <2>1
  <2>3. \A i \in 1 .. Len(argv) : argv[i] \in A
    BY <2>2
  <2>4. 1 \in 1 .. Len(argv) /\ 2 \in 1 .. Len(argv)
    OBVIOUS
  <2> HIDE DEF a, b, sum, ret, answer
  <2> QED BY <2>1, <2>3, <2>4
<1>4. /\ a \in Pys[d + 1] /\ (argv[1].type = AMF_NUMBER => a.type = "float")
      /\ b \in Pys[d + 1] /\ (argv[2].type = AMF_NUMBER => b.type = "float")
  BY <1>2, <1>3, av_2_pyType
<1>5. \/ ~Addable(a, b) /\ Sends(<< >>)
      \/ /\ Addable(a, b)
         /\ \E left1, left2 \in Left, answered \in Answered(ret) :
              Sends(<< Calls(greeting, py_2_av(answer, left1)) >>
                      \o IF answered THEN << Return(py_2_av(ret, left2)) >> ELSE << >>)
      \/ Addable(a, b) /\ Unwritten(sum) /\ Abort
  BY DEF OnAddTwisted
<1> HIDE DEF a, b
<1>6. CASE ~Addable(a, b) /\ Sends(<< >>)
  BY <1>6, FittingSent
<1>7. ASSUME Addable(a, b)
      PROVE  /\ sum \in Pys[d + 1] /\ ret \in Pys[d + 1]
             /\ "float" \in {a.type, b.type} => sum.type = "float"
  BY <1>4, <1>7, Sums
<1>8. Pys[d + 1] \subseteq Pys[MaxDepth] /\ Pys[(d + 1) + 1] \subseteq Pys[MaxDepth]
  BY <1>1, <1>2, PysMore
<1> HIDE DEF sum, ret
<1>9. ASSUME NEW left1 \in Left, NEW left2 \in Left, NEW answered, Addable(a, b),
             Sends(<< Calls(greeting, py_2_av(answer, left1)) >>
                     \o IF answered THEN << Return(py_2_av(ret, left2)) >> ELSE << >>)
      PROVE  pc' = "done"
  <2>1. left1 \in AVs[1] /\ left2 \in AVs[1]
    <3>1. 0 \in Nat /\ 0 + 1 = 1
      OBVIOUS
    <3>2. NumberAV(Unknown) \in AVs[0 + 1]
      <4>1. Unknown \in Int
        BY DEF Unknown
      <4> QED BY <3>1, <4>1, NumberReadable, ReadableLevels
    <3> QED BY <3>1, <3>2, NilEnd DEF Left
  <2>2. answer \in Pys[(d + 1) + 1]
    <3>1. << 97 >> \in Seq(Byte)
      BY DEF Byte
    <3>2. Elem(<< 97 >>, sum) \in [key : Seq(Byte), value : Pys[d + 1]]
      BY <1>7, <1>9, <3>1 DEF Elem
    <3>3. << Elem(<< 97 >>, sum) >> \in Tables(Pys[d + 1])
      BY <3>2 DEF Tables
    <3> QED BY <1>2, <3>3, PyMade
  <2>3. answer \in Pys[MaxDepth] /\ ret \in Pys[MaxDepth]
    BY <1>7, <1>8, <1>9, <2>2
  <2> HIDE DEF answer
  <2>4. py_2_av(answer, left1) \in AVs[MaxDepth] /\ py_2_av(ret, left2) \in AVs[MaxDepth]
    BY <2>1, <2>3, py_2_avType
  <2>5. PICK c : c = Calls(greeting, py_2_av(answer, left1)) /\ Fits(c)
    BY <1>2, <2>4, Names, CallsFit
  <2>6. PICK p : p = Return(py_2_av(ret, left2)) /\ Fits(p)
    BY <1>2, <2>4, ReturnFits
  <2>7. PICK q : q = << c >> \o IF answered THEN << p >> ELSE << >>
    OBVIOUS
  <2>8. q \in Seq({c, p})
    <3>1. PICK F : F = {c, p}
      OBVIOUS
    <3>2. << c >> \in Seq(F) /\ << p >> \in Seq(F) /\ << >> \in Seq(F)
      BY <3>1
    <3>3. PICK rest \in Seq(F) : rest = IF answered THEN << p >> ELSE << >>
      BY <3>2
    <3>4. << c >> \o rest \in Seq(F)
      BY <3>2, ConcatType
    <3> QED BY <2>7, <3>1, <3>3, <3>4
  <2>9. \A i \in 1 .. Len(q) : Fits(q[i])
    BY <2>5, <2>6, <2>8
  <2>10. Sends(q)
    BY <1>9, <2>5, <2>6, <2>7
  <2> QED BY <2>9, <2>10, FittingSent
<1>10. CASE Addable(a, b) /\ Unwritten(sum) /\ Abort
  <2>1. sum \in Pys[MaxDepth]
    BY <1>7, <1>8, <1>10
  <2>2. sum.type # "float"
    BY <1>10, <2>1, FloatWritten
  <2>3. a.type # "float" /\ b.type # "float"
    BY <1>7, <1>10, <2>2
  <2> QED BY <1>4, <2>3
<1> QED BY <1>5, <1>6, <1>9, <1>10

\* The reasons why an assertion may fail.
AbortsKnown ==
  pc = "aborted" =>
    \/ call.method.type # AMF_STRING
    \/ app = "demo" /\ Len(argv) # 2
    \/ app = "twisted" /\ Len(argv) = 2 /\ \A i \in {1, 2} : argv[i].type # AMF_NUMBER

LEMMA KnownAbortsStep == ASSUME IInv, AbortsKnown, [Next]_vars PROVE AbortsKnown'
<1> SUFFICES ASSUME pc' = "aborted" PROVE AbortsKnown'
  BY DEF AbortsKnown
<1>1. CASE ReadHead
  <2>1. call.method.type # AMF_STRING /\ call' = call
    BY <1>1, HeadStep DEF ReadHead, Abort, Crash
  <2> QED BY <2>1 DEF AbortsKnown
<1>2. CASE ReadArgument \/ ArgumentsRead
  BY <1>2 DEF ReadArgument, ArgumentsRead, Crash
<1>3. CASE OnConnect
  BY <1>3, OnConnectSent
<1>4. CASE OnUnknown
  <2>1. Sends(<< >>)
    BY <1>4 DEF OnUnknown
  <2> QED BY <2>1, FittingSent
<1>5. CASE OnAddDemo
  <2>1. Len(argv) # 2 /\ app = "demo"
    BY <1>5, OnAddDemoSent DEF OnAddDemo
  <2>2. app' = app /\ argv' = argv
    BY <1>5, ApplicationFrame
  <2> QED BY <2>1, <2>2 DEF AbortsKnown
<1>6. CASE OnAddTwisted
  <2>1. app' = app /\ argv' = argv
    BY <1>6, ApplicationFrame
  <2>2. app = "twisted"
    BY <1>6 DEF OnAddTwisted
  <2>3. Len(argv) = 2
    <3>1. ASSUME Len(argv) # 2 PROVE FALSE
      <4>1. Sends(<< >>)
        BY <1>6, <3>1 DEF OnAddTwisted
      <4> QED BY <4>1, FittingSent
    <3> QED BY <3>1
  <2>4. \A i \in {1, 2} : argv[i].type # AMF_NUMBER
    BY <1>6, <2>3, OnAddTwistedSent
  <2> QED BY <2>1, <2>2, <2>3, <2>4 DEF AbortsKnown
<1>7. CASE UNCHANGED vars
  BY <1>7 DEF vars, AbortsKnown
<1> QED BY <1>1, <1>2, <1>3, <1>4, <1>5, <1>6, <1>7 DEF Next

\* No assertion fails but for the reasons that are known, for every method and all readable
\* arguments, however deep: what is sent always takes the room that was computed for it,
\* and Python never converts memory that nobody wrote if one of the arguments is a number.
\* And no size or count that is read is one that the reader would be led out of its memory
\* by, unless a Flash player has put a marker in the method or in an argument.
THEOREM InvocationOnlyKnownAborts == Spec => []OnlyKnownAborts
<1>1. Init => AbortsKnown
  BY DEF Init, AbortsKnown
<1>2. IInv /\ AbortsKnown /\ [Next]_vars => AbortsKnown'
  BY KnownAbortsStep
<1>3. IInv /\ AbortsKnown => OnlyKnownAborts
  <2> SUFFICES ASSUME IInv, AbortsKnown PROVE OnlyKnownAborts
    OBVIOUS
  <2>1. pc = "crashed" =>
          Marked(call.method) \/ \E i \in 1 .. Len(call.args) : Marked(call.args[i])
    BY DEF IInv, ReadInv, SomeMarked, MarkedArg, Marks, Marked
  <2> QED BY <2>1 DEF AbortsKnown, OnlyKnownAborts
<1> QED BY <1>1, <1>2, <1>3, InvocationInvariant, PTL DEF Spec

-----------------------------------------------------------------------------
(* The values that are read of a packet.                                    *)

\* One more value of a packet.
OneValue(m, x) ==
  IF x.next >= Len(m.data) THEN x
  ELSE [value |-> Append(x.value, Unpack(m, x.next).av), next |-> Unpack(m, x.next).next]

Reading(A) == [value : Seq(A), next : Nat]

\* What is read so far is a list of values, and the place behind them.
LEMMA OneValueType ==
  ASSUME NEW m, IsMemory(m), NEW x \in Reading(AVs[Len(m.data) + 1])
  PROVE  OneValue(m, x) \in Reading(AVs[Len(m.data) + 1])
<1>1. PICK A : A = AVs[Len(m.data) + 1]
  OBVIOUS
<1>2. x.value \in Seq(A) /\ x.next \in Nat
  BY <1>1 DEF Reading
<1>3. PICK u : u = Unpack(m, x.next) /\ u.av \in A /\ u.next \in Nat
  BY <1>1, <1>2, UnpackedType
<1>4. Append(x.value, u.av) \in Seq(A)
  BY <1>2, <1>3, AppendProperties
<1>5. [value |-> Append(x.value, u.av), next |-> u.next] \in Reading(A)
  BY <1>3, <1>4 DEF Reading
<1>6. OneValue(m, x) = x \/ OneValue(m, x) = [value |-> Append(x.value, u.av), next |-> u.next]
  BY <1>3 DEF OneValue
<1> QED BY <1>1, <1>5, <1>6

\* The rounds of ReadFrom.
LEMMA ReadRounds ==
  ASSUME NEW m, IsMemory(m)
  PROVE  LET r == ReadFrom(m)
         IN /\ r[0] = [value |-> << >>, next |-> 0]
            /\ \A n \in Nat : /\ r[n] \in Reading(AVs[Len(m.data) + 1])
                              /\ r[n + 1] = OneValue(m, r[n])
<1> DEFINE T == Reading(AVs[Len(m.data) + 1])
           W == [n \in Nat |-> T]
           b == [value |-> << >>, next |-> 0]
           G(x) == IF x.next >= Len(m.data) THEN x
                   ELSE [value |-> Append(x.value, Unpack(m, x.next).av),
                         next |-> Unpack(m, x.next).next]
           g == [n \in Nat |-> [x \in T |-> G(x)]]
           Is(f) == f = [n \in Nat |->
                          IF n = 0 THEN [value |-> << >>, next |-> 0]
                          ELSE LET sofar == f[n - 1]
                                   one   == Unpack(m, sofar.next)
                               IN IF sofar.next >= Len(m.data) THEN sofar
                                  ELSE [value |-> Append(sofar.value, one.av), next |-> one.next]]
           r == CHOOSE f : Is(f)
<1>1. \A x : G(x) = OneValue(m, x)
  BY DEF OneValue
<1>2. \A x \in T : OneValue(m, x) \in T
  BY OneValueType
<1>3. b \in T
  BY DEF Reading
<1>4. r = ReadFrom(m)
  BY DEF ReadFrom
<1> HIDE DEF G, T
<1>5. /\ \A n \in Nat : W[n] = T
      /\ \A n \in Nat : \A x \in T : g[n][x] = G(x)
  OBVIOUS
<1> HIDE DEF W, g
<1>6. ASSUME NEW n \in Nat, NEW x \in W[n] PROVE g[n][x] \in W[n + 1]
  <2>1. n + 1 \in Nat
    OBVIOUS
  <2> QED BY <1>1, <1>2, <1>5, <1>6, <2>1
<1>7. b \in W[0]
  <2>1. 0 \in Nat
    OBVIOUS
  <2> HIDE DEF b
  <2> QED BY <1>3, <1>5, <2>1
<1>8. PICK f : Recursive(f, b, g, W)
  <2> HIDE DEF b
  <2> QED BY <1>6, <1>7, Recursion, SMTT(30)
<1>9. Is(f)
  <2>1. ASSUME NEW n \in Nat, n # 0 PROVE f[n] = G(f[n - 1])
    <3>1. n - 1 \in Nat
      BY <2>1
    <3>2. f[n] = g[n - 1][f[n - 1]] /\ f[n - 1] \in W[n - 1]
      BY <1>8, <2>1, <3>1 DEF Recursive
    <3> QED BY <1>5, <3>1, <3>2
  <2>2. f = [n \in Nat |-> f[n]] /\ f[0] = b
    BY <1>8 DEF Recursive
  <2>3. f = [n \in Nat |-> IF n = 0 THEN b ELSE G(f[n - 1])]
    <3> HIDE DEF b
    <3> QED BY <2>1, <2>2, ZenonT(30)
  <2> QED BY <2>3, ZenonT(30) DEF G
<1>10. r = [n \in Nat |-> IF n = 0 THEN b ELSE G(r[n - 1])]
  <2>1. Is(r)
    BY <1>9, ZenonT(30)
  <2> HIDE DEF r
  <2> QED BY <2>1, ZenonT(30) DEF G
<1> HIDE DEF r, b
<1>11. r[0] = b /\ \A n \in Nat : r[n + 1] = OneValue(m, r[n])
  <2>1. r[0] = b
    BY <1>10
  <2>2. ASSUME NEW n \in Nat PROVE r[n + 1] = G(r[n])
    <3>1. n + 1 \in Nat /\ n + 1 # 0 /\ (n + 1) - 1 = n
      OBVIOUS
    <3> QED BY <1>10, <3>1
  <2> QED BY <1>1, <2>1, <2>2
<1> DEFINE Z == {n \in Nat : r[n] \in T}
<1>12. 0 \in Z
  BY <1>3, <1>11
<1>13. ASSUME NEW n \in Nat, n \in Z PROVE n + 1 \in Z
  BY <1>2, <1>11, <1>13
<1> HIDE DEF Z
<1>14. \A n \in Nat : n \in Z
  BY <1>12, <1>13, InductionOnNat
<1>15. \A n \in Nat : r[n] \in Reading(AVs[Len(m.data) + 1])
  BY <1>14 DEF Z, T
<1> QED BY <1>4, <1>11, <1>15 DEF b

\* A value takes at least the byte of its type.
LEMMA PackNotEmpty ==
  ASSUME NEW v \in AVs[MaxDepth]
  PROVE  Pack(v) \in Seq(Byte) /\ Len(Pack(v)) \in Nat /\ Len(Pack(v)) > 0
<1>1. Pack(v) \in Seq(Byte)
  BY PackTakesItsRoom
<1>2. PICK d \in Nat : d + 1 = Depth(v) /\ v \in AVs[d + 1]
  <2>1. Depth(v) \in 1 .. MaxDepth /\ v \in AVs[Depth(v)]
    BY DepthFound
  <2>2. Depth(v) - 1 \in Nat /\ (Depth(v) - 1) + 1 = Depth(v)
    BY <2>1
  <2> QED BY <2>1, <2>2
<1>3. PackTo[d] \in [AVs[d] -> Seq(Byte)] /\ Pack(v) = PackValue(PackTo[d], v)
  BY <1>2, PackLevels DEF Pack
<1>4. Len(PackValue(PackTo[d], v)) = 1 + Len(Body(PackTo[d], v)) /\ Body(PackTo[d], v) \in Seq(Byte)
  BY <1>2, <1>3, BodyType
<1>5. PICK n \in Nat : n = Len(Body(PackTo[d], v))
  BY <1>4, SizedSelf
<1> QED BY <1>1, <1>3, <1>4, <1>5

\* The data of a packet of the values s, and where each of them is in it.
PacketOf(m, s) == IsMemory(m) /\ m.data = PackArguments(s).data

CutFor(m, s, t) ==
  /\ t \in Seq(Seq(Byte)) /\ Len(t) = Len(s) /\ m.data = FlattenSeq(t)
  /\ \A i \in 1 .. Len(s) : t[i] = Pack(s[i]) /\ Len(t[i]) \in Nat /\ Len(t[i]) > 0

\* The data are the values packed one after the other.
LEMMA PacketCut ==
  ASSUME NEW s \in Seq(AVs[MaxDepth]), NEW m, PacketOf(m, s)
  PROVE  \E t : CutFor(m, s, t)
<1> DEFINE B == Seq(Byte)
           q == [i \in 1 .. Len(s) |-> Pack(s[i])]
<1>1. ASSUME NEW i \in 1 .. Len(s)
      PROVE  Pack(s[i]) \in B /\ Len(Pack(s[i])) \in Nat /\ Len(Pack(s[i])) > 0
  <2>1. s[i] \in AVs[MaxDepth]
    OBVIOUS
  <2> QED BY <2>1, PackNotEmpty
<1>2. m.data = FlattenSeq(q)
  BY DEF PackArguments, PacketOf
<1> HIDE DEF B
<1>3. Len(s) \in Nat
  OBVIOUS
<1>4. q \in Seq(B) /\ Len(q) = Len(s) /\ \A i \in 1 .. Len(s) : q[i] = Pack(s[i])
  BY <1>1, <1>3
<1> HIDE DEF q
<1>5. \A i \in 1 .. Len(s) : q[i] = Pack(s[i]) /\ Len(q[i]) \in Nat /\ Len(q[i]) > 0
  BY <1>1, <1>4
<1>6. q \in Seq(Seq(Byte)) /\ Len(q) = Len(s)
  BY <1>4 DEF B
<1>7. CutFor(m, s, q)
  BY <1>2, <1>5, <1>6 DEF CutFor
<1> QED BY <1>7

PlacesIn(f, m, s) ==
  /\ f[0] = 0 /\ f[Len(s)] = Len(m.data)
  /\ \A k \in Nat : f[k] \in Nat
  /\ \A k \in Nat : k < Len(s) =>
       /\ f[k] < f[k + 1] /\ f[k + 1] <= Len(m.data)
       /\ s[k + 1] \in Readable[MaxDepth] =>
            Unpack(m, f[k]).av = s[k + 1] /\ Unpack(m, f[k]).next = f[k + 1]

\* There are such places.
LEMMA PacketPlaces ==
  ASSUME NEW s \in Seq(AVs[MaxDepth]), NEW m, PacketOf(m, s)
  PROVE  \E f : PlacesIn(f, m, s)
<1>1. PICK t : CutFor(m, s, t)
  BY PacketCut
<1>2. PICK n \in Nat : n = Len(s)
  OBVIOUS
<1>3. PICK last \in Nat : last = Len(m.data)
  BY DEF PacketOf, IsMemory
<1>4. Holds(m, 0, FlattenSeq(t))
  <2>1. \A k \in 1 .. last : At(m, 0 + k) = m.data[k]
    BY <1>3 DEF At
  <2> QED BY <1>1, <1>3, <2>1 DEF Holds, CutFor
<1>5. PICK f \in [Nat -> Nat] :
        /\ f[0] = 0 /\ f[Len(t)] = Len(FlattenSeq(t))
        /\ \A k \in 0 .. Len(t) - 1 :
             /\ f[k + 1] = f[k] + Len(t[k + 1])
             /\ f[k + 1] <= Len(FlattenSeq(t))
             /\ Holds(m, 0 + f[k], t[k + 1])
  <2>1. 0 \in Nat /\ t \in Seq(Seq(Byte))
    BY <1>1 DEF CutFor
  <2>2. IsMemory(m)
    BY DEF PacketOf
  <2> QED BY <1>4, <2>1, <2>2, HoldsFlattened
<1>6. Len(t) = n /\ Len(FlattenSeq(t)) = last
  BY <1>1, <1>2, <1>3 DEF CutFor
<1>7. f[0] = 0 /\ f[n] = last /\ \A k \in Nat : f[k] \in Nat
  BY <1>5, <1>6
<1>8. ASSUME NEW k \in Nat, k < n
      PROVE  /\ f[k] < f[k + 1] /\ f[k + 1] <= last
             /\ s[k + 1] \in Readable[MaxDepth] =>
                  Unpack(m, f[k]).av = s[k + 1] /\ Unpack(m, f[k]).next = f[k + 1]
  <2>1. k \in 0 .. Len(t) - 1 /\ k + 1 \in 1 .. Len(s)
    BY <1>2, <1>6, <1>8
  <2>2. PICK i \in Nat : i = f[k]
    BY <1>7
  <2>3. PICK l \in Nat : l = Len(t[k + 1]) /\ l > 0 /\ t[k + 1] = Pack(s[k + 1])
    BY <1>1, <2>1 DEF CutFor
  <2>4. f[k + 1] = i + l /\ i + l <= last /\ Holds(m, 0 + i, Pack(s[k + 1]))
    BY <1>5, <1>6, <2>1, <2>2, <2>3
  <2>5. i < i + l /\ Holds(m, i, Pack(s[k + 1])) /\ Len(Pack(s[k + 1])) = l
    <3>1. 0 + i = i
      OBVIOUS
    <3> QED BY <2>3, <2>4, <3>1
  <2>6. ASSUME s[k + 1] \in Readable[MaxDepth]
        PROVE  Unpack(m, i).av = s[k + 1] /\ Unpack(m, i).next = i + l
    <3>1. IsMemory(m)
      BY DEF PacketOf
    <3>2. Unpack(m, i) = [av |-> s[k + 1], next |-> i + Len(Pack(s[k + 1]))]
      BY <2>5, <2>6, <3>1, AmfRoundTrip
    <3> QED BY <2>5, <3>2
  <2>7. f[k] < f[k + 1] /\ f[k + 1] <= last
    BY <2>2, <2>4, <2>5
  <2>8. ASSUME s[k + 1] \in Readable[MaxDepth]
        PROVE  Unpack(m, f[k]).av = s[k + 1] /\ Unpack(m, f[k]).next = f[k + 1]
    BY <2>2, <2>4, <2>6, <2>8
  <2> QED BY <2>7, <2>8
<1>9. PlacesIn(f, m, s)
  BY <1>2, <1>3, <1>7, <1>8 DEF PlacesIn
<1> QED BY <1>9

\* The rounds of ReadFrom, and that the first p values can be read.
RoundsOf(r, m, A) ==
  /\ r[0] = [value |-> << >>, next |-> 0]
  /\ \A k \in Nat : r[k] \in Reading(A) /\ r[k + 1] = OneValue(m, r[k])

ReadableTo(s, p) == p <= Len(s) /\ \A j \in Nat : j < p => s[j + 1] \in Readable[MaxDepth]

\* After k rounds, the first k have been read.
Reached(r, f, s, k) == r[k].value = Start(s, k) /\ r[k].next = f[k] /\ k <= f[k]

\* One more round reads one more value.
LEMMA RoundRead ==
  ASSUME NEW S, NEW s \in Seq(S), NEW m, NEW r, NEW A, RoundsOf(r, m, A), NEW f, PlacesIn(f, m, s),
         NEW k \in Nat, k < Len(s), s[k + 1] \in Readable[MaxDepth], Reached(r, f, s, k),
         Len(m.data) \in Nat
  PROVE  Reached(r, f, s, k + 1)
<1>1. PICK i \in Nat, j \in Nat, last \in Nat :
        /\ i = f[k] /\ j = f[k + 1] /\ last = Len(m.data) /\ i < j /\ j <= last /\ k <= i
        /\ Unpack(m, i).av = s[k + 1] /\ Unpack(m, i).next = j
  <2>1. k + 1 \in Nat
    OBVIOUS
  <2> QED BY <2>1 DEF PlacesIn, Reached
<1>2. r[k + 1] = OneValue(m, r[k]) /\ r[k].next = i /\ r[k].value = Start(s, k)
  BY <1>1 DEF RoundsOf, Reached
<1>3. ~(i >= last)
  BY <1>1
<1>4. r[k + 1] = [value |-> Append(Start(s, k), s[k + 1]), next |-> j]
  BY <1>1, <1>2, <1>3, Zenon DEF OneValue
<1>5. k \in 0 .. Len(s) - 1
  <2>1. Len(s) \in Nat
    OBVIOUS
  <2> QED BY <2>1
<1>6. Append(Start(s, k), s[k + 1]) = Start(s, k + 1)
  BY <1>5, StartNext
<1>7. k + 1 <= j
  BY <1>1
<1>8. r[k + 1].value = Start(s, k + 1) /\ r[k + 1].next = j
  BY <1>4, <1>6
<1> QED BY <1>1, <1>7, <1>8 DEF Reached

\* As many rounds as there are values that can be read.
LEMMA RoundsReach ==
  ASSUME NEW S, NEW s \in Seq(S), NEW m, NEW r, NEW A, RoundsOf(r, m, A), NEW f, PlacesIn(f, m, s),
         NEW p \in Nat, ReadableTo(s, p), Len(m.data) \in Nat
  PROVE  Reached(r, f, s, p)
<1> DEFINE Y == {k \in Nat : k <= p => Reached(r, f, s, k)}
<1>1. 0 \in Y
  <2>1. Start(s, 0) = << >>
    BY StartNext
  <2>2. r[0].value = << >> /\ r[0].next = 0 /\ f[0] = 0
    BY DEF RoundsOf, PlacesIn
  <2> QED BY <2>1, <2>2 DEF Reached
<1>2. ASSUME NEW k \in Nat, k \in Y PROVE k + 1 \in Y
  <2> SUFFICES ASSUME k + 1 <= p PROVE Reached(r, f, s, k + 1)
    OBVIOUS
  <2>1. Len(s) \in Nat
    OBVIOUS
  <2>2. k < p /\ k <= p
    OBVIOUS
  <2>3. k < Len(s) /\ s[k + 1] \in Readable[MaxDepth]
    BY <2>1, <2>2 DEF ReadableTo
  <2>4. Reached(r, f, s, k)
    BY <1>2, <2>2
  <2> QED BY <2>3, <2>4, RoundRead
<1> HIDE DEF Y
<1>3. \A k \in Nat : k \in Y
  BY <1>1, <1>2, InductionOnNat
<1> QED BY <1>3 DEF Y

\* What comes behind does not change it.
Kept(x, s, p) == p <= Len(x.value) /\ \A j \in Nat : 0 < j /\ j <= p => x.value[j] = s[j]

LEMMA KeptOn ==
  ASSUME NEW m, IsMemory(m), NEW x \in Reading(AVs[Len(m.data) + 1]),
         NEW s, NEW p \in Nat, Kept(x, s, p)
  PROVE  Kept(OneValue(m, x), s, p)
<1>1. PICK A : A = AVs[Len(m.data) + 1] /\ x.value \in Seq(A) /\ x.next \in Nat
  BY DEF Reading
<1>2. PICK v : v = x.value /\ v \in Seq(A)
  BY <1>1
<1>3. PICK u : u = Unpack(m, x.next) /\ u.av \in A
  BY <1>1, UnpackedType
<1>4. OneValue(m, x) = x \/ OneValue(m, x).value = Append(v, u.av)
  BY <1>2, <1>3 DEF OneValue
<1>5. PICK l \in Nat : l = Len(v) /\ p <= l /\ \A j \in Nat : 0 < j /\ j <= p => v[j] = s[j]
  BY <1>2 DEF Kept
<1>6. PICK w : w = Append(v, u.av)
  OBVIOUS
<1>7. Len(w) = l + 1 /\ \A j \in 1 .. l : w[j] = v[j]
  BY <1>2, <1>3, <1>5, <1>6, AppendProperties
<1>8. p <= l + 1 /\ \A j \in Nat : 0 < j /\ j <= p => w[j] = s[j]
  BY <1>5, <1>7
<1> QED BY <1>4, <1>6, <1>7, <1>8 DEF Kept

LEMMA RoundsKeep ==
  ASSUME NEW m, IsMemory(m), NEW r, RoundsOf(r, m, AVs[Len(m.data) + 1]),
         NEW s, NEW p \in Nat, Kept(r[p], s, p), NEW last \in Nat, p <= last
  PROVE  Kept(r[last], s, p)
<1> DEFINE Z == {k \in Nat : Kept(r[p + k], s, p)}
<1>1. 0 \in Z
  <2>1. p + 0 = p
    OBVIOUS
  <2> QED BY <2>1
<1>2. ASSUME NEW k \in Nat, k \in Z PROVE k + 1 \in Z
  <2>1. p + k \in Nat /\ (p + k) + 1 = p + (k + 1)
    OBVIOUS
  <2>2. r[p + k] \in Reading(AVs[Len(m.data) + 1]) /\ r[p + (k + 1)] = OneValue(m, r[p + k])
    BY <2>1 DEF RoundsOf
  <2>3. Kept(r[p + k], s, p)
    BY <1>2
  <2> QED BY <2>2, <2>3, KeptOn
<1> HIDE DEF Z
<1>3. \A k \in Nat : k \in Z
  BY <1>1, <1>2, InductionOnNat
<1>4. last - p \in Nat /\ p + (last - p) = last
  OBVIOUS
<1> QED BY <1>3, <1>4 DEF Z

\* Nothing is read behind the data.
LEMMA RoundsStop ==
  ASSUME NEW m, NEW r, NEW A, RoundsOf(r, m, A), NEW p \in Nat, NEW last \in Nat, p <= last,
         last = Len(m.data), r[p].next = last
  PROVE  r[last] = r[p]
<1> DEFINE Z == {k \in Nat : r[p + k] = r[p]}
<1>1. 0 \in Z
  <2>1. p + 0 = p
    OBVIOUS
  <2> QED BY <2>1
<1>2. ASSUME NEW k \in Nat, k \in Z PROVE k + 1 \in Z
  <2>1. p + k \in Nat /\ (p + k) + 1 = p + (k + 1)
    OBVIOUS
  <2>2. r[p + (k + 1)] = OneValue(m, r[p + k])
    BY <2>1 DEF RoundsOf
  <2>3. r[p + k] = r[p]
    BY <1>2
  <2>4. r[p].next >= Len(m.data)
    OBVIOUS
  <2> QED BY <2>2, <2>3, <2>4 DEF OneValue
<1> HIDE DEF Z
<1>3. \A k \in Nat : k \in Z
  BY <1>1, <1>2, InductionOnNat
<1>4. last - p \in Nat /\ p + (last - p) = last
  OBVIOUS
<1> QED BY <1>3, <1>4 DEF Z

\* What is read of a packet begins with the values that it was packed of, up to the first
\* that cannot be read; if all can, it is these values and no others.
ReadsFirst(m, s, p) ==
  /\ ReadAll(m) \in Seq(AVs[Len(m.data) + 1]) /\ p <= Len(ReadAll(m))
  /\ \A j \in Nat : 0 < j /\ j <= p => ReadAll(m)[j] = s[j]
  /\ p = Len(s) => ReadAll(m) = s

\* Whoever reads a packet as amf_ap_read_arguments does gets the values it was packed of, for
\* any values: up to the first that cannot be read, and all of them, and nothing else, if all
\* can be read.
THEOREM PacketRead ==
  ASSUME NEW s \in Seq(AVs[MaxDepth]), NEW p \in Nat, ReadableTo(s, p), NEW m, PacketOf(m, s)
  PROVE  ReadsFirst(m, s, p)
<1>1. PICK n \in Nat, last \in Nat : n = Len(s) /\ last = Len(m.data) /\ p <= n
  BY DEF ReadableTo, PacketOf, IsMemory
<1>2. PICK f : PlacesIn(f, m, s)
  BY PacketPlaces
<1>3. PICK r : r = ReadFrom(m) /\ RoundsOf(r, m, AVs[Len(m.data) + 1])
  BY ReadRounds DEF RoundsOf, PacketOf
<1>4. Reached(r, f, s, p)
  BY <1>1, <1>2, <1>3, RoundsReach
<1>5. p <= last
  <2>1. p <= f[p] /\ f[p] \in Nat /\ f[n] = last
    BY <1>1, <1>2, <1>4 DEF Reached, PlacesIn
  <2>2. CASE p = n
    BY <2>1, <2>2
  <2>3. CASE p < n
    <3>1. f[p] < f[p + 1] /\ f[p + 1] <= last /\ f[p + 1] \in Nat
      BY <1>1, <1>2, <2>3 DEF PlacesIn
    <3> QED BY <2>1, <3>1
  <2> QED BY <1>1, <2>2, <2>3
<1>6. Len(Start(s, p)) = p /\ \A j \in Nat : 0 < j /\ j <= p => Start(s, p)[j] = s[j]
  BY DEF Start
<1>7. Kept(r[p], s, p)
  BY <1>4, <1>6 DEF Kept, Reached
<1>8. ReadAll(m) = r[last].value
  BY <1>1, <1>3 DEF ReadAll
<1>9. Kept(r[last], s, p)
  BY <1>3, <1>5, <1>7, RoundsKeep DEF PacketOf
<1>10. ASSUME p = n PROVE ReadAll(m) = s
  <2>1. r[p].next = last /\ r[p].value = Start(s, n)
    BY <1>1, <1>2, <1>4, <1>10 DEF Reached, PlacesIn
  <2>2. r[last] = r[p]
    BY <1>1, <1>3, <1>5, <2>1, RoundsStop
  <2>3. Start(s, n) = s
    BY <1>1, StartNext
  <2> QED BY <1>8, <2>1, <2>2, <2>3
<1>11. r[last].value \in Seq(AVs[Len(m.data) + 1])
  BY <1>3 DEF RoundsOf, Reading
<1> QED BY <1>1, <1>8, <1>9, <1>10, <1>11 DEF Kept, ReadsFirst

-----------------------------------------------------------------------------
(* What the server knows of a call, and what a client sees of its packets.  *)

\* The id of the answers is the one that was sent.
HeadInv == pc \in {"arguments", "dispatch", "done"} => id = call.id

\* The id that is read is the one that was sent.
LEMMA IdRead == ASSUME IInv, ReadHead, pc' = "arguments" PROVE id' = call.id
<1> DEFINE method == Unpack(memory, 0)
           number == Unpack(memory, method.next)
<1>1. PICK f : f = PlaceOf
  OBVIOUS
<1>2. /\ method.av.type = call.method.type
      /\ ~Marks(call, call.method) => method.next = f[1]
      /\ Unpack(memory, f[1]).av = NumberAV(call.id)
  BY <1>1, HeadPlaces DEF IInv
<1>3. method.av.type = AMF_STRING /\ id' = Number(number.av.value)
  BY DEF ReadHead, Abort, Crash
<1>4. ~Marks(call, call.method)
  <2>1. call.method \in Readable[MaxDepth]
    BY SentType DEF IInv, InvocationType
  <2>2. call.method.type \notin {AMF_HASH, AMF_ASSOC_ARRAY, AMF_ARRAY}
    BY <1>2, <1>3, TypesDiffer
  <2> QED BY <2>1, <2>2, LeafPlain DEF Marks
<1>5. number.av = NumberAV(call.id)
  <2>1. number = Unpack(memory, f[1])
    BY <1>2, <1>4
  <2> QED BY <1>2, <2>1
<1>6. call.id \in Known
  <2>1. call.id \in 1 .. 50
    BY IdsSmall DEF IInv, InvocationType
  <2>2. \A x \in 1 .. 50 : x \in Known
    BY DEF Known
  <2> QED BY <2>1, <2>2
<1>7. NumberAV(call.id).value = Double(call.id)
  BY DEF NumberAV, Value
<1> HIDE DEF number
<1> QED BY <1>3, <1>5, <1>6, <1>7, NumberOfDouble

\* No step changes it afterwards.
LEMMA HeadInvStep == ASSUME IInv, HeadInv, [Next]_vars PROVE HeadInv'
<1>1. CASE ReadHead
  <2>1. call' = call /\ pc' \in {"arguments", "aborted", "crashed"}
    BY <1>1 DEF ReadHead, Abort, Crash
  <2> QED BY <1>1, <2>1, IdRead DEF HeadInv
<1>2. CASE ReadArgument \/ ArgumentsRead
  BY <1>2 DEF ReadArgument, Crash, ArgumentsRead, HeadInv
<1>3. CASE OnConnect \/ OnUnknown \/ OnAddDemo \/ OnAddTwisted
  BY <1>3, ApplicationFrame DEF HeadInv
<1>4. CASE UNCHANGED vars
  BY <1>4 DEF vars, HeadInv
<1> QED BY <1>1, <1>2, <1>3, <1>4 DEF Next

\* The method that is dispatched is the one that was sent.
LEMMA MethodRead == ASSUME IInv, pc = "dispatch" PROVE Unpack(memory, 0).av = call.method
<1>1. call.method.type = AMF_STRING
  BY DEF IInv, ReadInv
<1>2. call.method \in Readable[MaxDepth]
  BY SentType DEF IInv, InvocationType
<1>3. ~Marks(call, call.method)
  <2>1. AMF_STRING \notin {AMF_HASH, AMF_ASSOC_ARRAY, AMF_ARRAY}
    BY TypesDiffer
  <2> QED BY <1>1, <1>2, <2>1, LeafPlain DEF Marks
<1> QED BY <1>3, HeadPlaces DEF IInv

\* No call is both.
LEMMA MethodsDiffer == add # connect
BY DEF add, connect, String, Value

\* What the client reads in a packet.
Seen(packet) == ReadAll([data |-> packet.data, stale |-> 0])

\* The packets that are sent are those that a client reads.
LEMMA PacketsSeen ==
  ASSUME NEW packets, Sends(packets), pc' = "done", Len(packets) \in Nat
  PROVE  Packets' = [i \in 1 .. Len(packets) |-> Seen(packets[i])] /\ Len(out') = Len(packets)
<1>1. out' = [i \in 1 .. Len(packets) |-> packets[i].data]
  BY DEF Sends, Abort
<1>2. Len(out') = Len(packets) /\ \A i \in 1 .. Len(packets) : out'[i] = packets[i].data
  BY <1>1
<1> QED BY <1>2 DEF Packets, Seen

\* It begins with the values that can be read, if it was packed of four.
Shown(v, packet) ==
  /\ SubSeq(Seen(packet), 1, 2) = << v[1], v[2] >>
  /\ v[4] \in Readable[MaxDepth] => Seen(packet) = v

LEMMA TwoElements ==
  ASSUME NEW S, NEW u \in Seq(S), Len(u) = 2
  PROVE  u = << u[1], u[2] >>
<1>1. u[1] \in S /\ u[2] \in S
  <2>1. 1 \in 1 .. Len(u) /\ 2 \in 1 .. Len(u)
    OBVIOUS
  <2>2. \A i \in 1 .. Len(u) : u[i] \in S
    BY ElementOfSeq
  <2> QED BY <2>1, <2>2
<1>2. << u[1], u[2] >> \in Seq(S) /\ Len(<< u[1], u[2] >>) = 2
  BY <1>1
<1>3. \A i \in 1 .. 2 : << u[1], u[2] >>[i] = u[i]
  OBVIOUS
<1> QED BY <1>2, <1>3, SeqEqual

LEMMA FirstTwo ==
  ASSUME NEW S, NEW w \in Seq(S), 2 <= Len(w)
  PROVE  SubSeq(w, 1, 2) = << w[1], w[2] >>
<1>1. \A i \in 1 .. 2 : w[i] \in S
  OBVIOUS
<1>2. PICK u : u = SubSeq(w, 1, 2)
  OBVIOUS
<1>3. u \in Seq(S) /\ Len(u) = 2 /\ \A i \in 1 .. 2 : u[i] = w[i]
  BY <1>1, <1>2, SubSeqProperties
<1>4. u = << u[1], u[2] >>
  BY <1>3, TwoElements
<1> QED BY <1>2, <1>3, <1>4

\* Replies and calls are of four values.
LEMMA FourSeen ==
  ASSUME NEW a \in Readable[MaxDepth], NEW b \in Readable[MaxDepth], NEW c \in Readable[MaxDepth],
         NEW d \in AVs[MaxDepth], NEW v, v = << a, b, c, d >>
  PROVE  Shown(v, PackArguments(v))
<1>1. PICK A : A = AVs[MaxDepth] /\ Readable[MaxDepth] \subseteq A
  BY Constants
<1>2. v \in Seq(A) /\ Len(v) = 4 /\ v[1] = a /\ v[2] = b /\ v[3] = c /\ v[4] = d
  <2>1. a \in A /\ b \in A /\ c \in A /\ d \in A
    BY <1>1
  <2>2. << a, b, c, d >> \in Seq(A)
    BY <2>1
  <2> QED BY <2>2
<1>3. PICK m : m = [data |-> PackArguments(v).data, stale |-> 0]
  OBVIOUS
<1>4. PacketOf(m, v)
  <2>1. PackArguments(v).data \in Seq(Byte)
    BY <1>1, <1>2, ArgumentsTakeTheirRoom
  <2>2. 0 \in Byte
    BY DEF Byte
  <2> QED BY <1>3, <2>1, <2>2 DEF PacketOf, IsMemory
<1>5. Seen(PackArguments(v)) = ReadAll(m)
  BY <1>3 DEF Seen
<1>6. ReadableTo(v, 2)
  <2>1. \A j \in Nat : j < 2 => j = 0 \/ j = 1
    OBVIOUS
  <2>2. v[0 + 1] = a /\ v[1 + 1] = b
    BY <1>2
  <2> QED BY <1>2, <2>1, <2>2 DEF ReadableTo
<1>7. SubSeq(ReadAll(m), 1, 2) = << v[1], v[2] >>
  <2>1. ReadsFirst(m, v, 2)
    BY <1>1, <1>2, <1>4, <1>6, PacketRead
  <2>2. ReadAll(m)[1] = v[1] /\ ReadAll(m)[2] = v[2]
    BY <2>1 DEF ReadsFirst
  <2>a. PICK S : S = AVs[Len(m.data) + 1]
    OBVIOUS
  <2>3. PICK w \in Seq(S) : w = ReadAll(m) /\ 2 <= Len(w)
    BY <2>a, <2>1 DEF ReadsFirst
  <2>4. SubSeq(w, 1, 2) = << w[1], w[2] >>
    BY <2>3, FirstTwo
  <2> QED BY <2>2, <2>3, <2>4
<1>8. ASSUME v[4] \in Readable[MaxDepth] PROVE ReadAll(m) = v
  <2>1. \A j \in Nat : j < 4 => j = 0 \/ j = 1 \/ j = 2 \/ j = 3
    OBVIOUS
  <2>2. v[0 + 1] = a /\ v[1 + 1] = b /\ v[2 + 1] = c /\ v[3 + 1] = d
    BY <1>2
  <2>3. ReadableTo(v, 4)
    BY <1>2, <1>8, <2>1, <2>2 DEF ReadableTo
  <2>4. ReadsFirst(m, v, 4)
    BY <1>1, <1>2, <1>4, <2>3, PacketRead
  <2> QED BY <1>2, <2>4 DEF ReadsFirst
<1> QED BY <1>5, <1>7, <1>8 DEF Shown

\* What can be read of what the applications send.
LEMMA StringReadable == ASSUME NEW c \in Byte PROVE String(c) \in Readable[1] \ {End}
<1>1. 0 \in Nat /\ 0 + 1 = 1
  OBVIOUS
<1>2. << c >> \in Seq(Byte) /\ Len(<< c >>) = 1
  OBVIOUS
<1>3. << c >> \in Strings
  BY <1>2 DEF Strings, MaxShort
<1>4. String(c) \in AVs[1]
  BY <1>1, <1>2, AVMade DEF String
<1>5. String(c).type = AMF_STRING /\ String(c).value = << c >>
  BY DEF String, Value
<1>6. AMF_STRING \notin {AMF_ARRAY, AMF_HASH, AMF_ASSOC_ARRAY}
  BY DEF AMF_STRING, AMF_ARRAY, AMF_HASH, AMF_ASSOC_ARRAY
<1>7. String(c) \in ReadableOver(0, Readable[0])
  <2> HIDE DEF String
  <2> QED BY <1>1, <1>3, <1>4, <1>5, <1>6 DEF ReadableOver
<1>8. String(c) # End
  BY <1>5 DEF End, Value, AMF_STRING, AMF_END
<1> QED BY <1>1, <1>7, <1>8, ReadableLevels

\* A table of values that are no tables.
LEMMA HashReadable ==
  ASSUME NEW t \in Seq([key : Strings, value : Readable[1] \ {End}])
  PROVE  Value(AMF_HASH, t) \in Readable[2]
<1>1. 1 \in Nat /\ 1 + 1 = 2
  OBVIOUS
<1>2. t \in Tables(AVs[1])
  <2>1. PICK A : A = AVs[1] /\ Readable[1] \subseteq A
    BY <1>1, ReadableLevels
  <2>2. PICK B : B = [key : Strings, value : Readable[1] \ {End}]
    OBVIOUS
  <2>3. PICK C : C = [key : Seq(Byte), value : A]
    OBVIOUS
  <2>4. B \subseteq C
    BY <2>1, <2>2, <2>3 DEF Strings
  <2>5. t \in Seq(C)
    BY <2>2, <2>4, SeqMonotonic
  <2> QED BY <2>1, <2>3, <2>5 DEF Tables
<1>3. PICK v : v = Value(AMF_HASH, t)
  OBVIOUS
<1>4. v \in AVs[2]
  BY <1>1, <1>2, <1>3, AVMade
<1>5. v.type = AMF_HASH /\ v.value = t
  BY <1>3 DEF Value
<1>6. AMF_HASH \notin {AMF_ARRAY, AMF_STRING, AMF_ASSOC_ARRAY}
  BY TypesDiffer
<1>7. v \in ReadableOver(1, Readable[1])
  BY <1>1, <1>4, <1>5, <1>6 DEF ReadableOver
<1> QED BY <1>1, <1>3, <1>7, ReadableLevels

\* Both are among the values that can be read.
LEMMA ReadableMore ==
  ASSUME 2 <= MaxDepth
  PROVE  Readable[1] \subseteq Readable[MaxDepth] /\ Readable[2] \subseteq Readable[MaxDepth]
<1>1. MaxDepth \in Nat /\ 1 \in Nat /\ 2 \in Nat /\ 1 <= MaxDepth
  BY MaxDepthAssumption
<1>2. AVs[1] \subseteq AVs[MaxDepth] /\ AVs[2] \subseteq AVs[MaxDepth]
  BY <1>1, AVsMore
<1>3. Readable[1] \subseteq AVs[1] /\ Readable[2] \subseteq AVs[2]
  <2>1. 0 \in Nat /\ 0 + 1 = 1 /\ 1 + 1 = 2
    OBVIOUS
  <2> QED BY <1>1, <2>1, ReadableLevels
<1> QED BY <1>1, <1>2, <1>3, ReadableAtDepth

\* The sum in a dictionary of testbad.py.
SumIn(n) == Value(AMF_HASH, << Elem(<< 97 >>, NumberAV(n)) >>)

\* All that the applications send, but for what Python makes of other arguments than numbers.
LEMMA SentReadable ==
  ASSUME 2 <= MaxDepth
  PROVE  /\ _result \in Readable[MaxDepth] /\ greeting \in Readable[MaxDepth]
         /\ String(104) \in Readable[MaxDepth] /\ ConnectSuccess \in Readable[MaxDepth]
         /\ \A n \in Int : SumIn(n) \in Readable[MaxDepth]
<1> DEFINE R == Readable[1] \ {End}
           E == [key : Strings, value : R]
<1>1. 82 \in Byte /\ 71 \in Byte /\ 104 \in Byte
  BY DEF Byte
<1>2. _result \in R /\ greeting \in R /\ String(104) \in R
  BY <1>1, StringReadable DEF _result, greeting
<1>3. \A i \in Byte : << i >> \in Strings
  <2> TAKE i \in Byte
  <2>1. << i >> \in Seq(Byte) /\ Len(<< i >>) = 1
    OBVIOUS
  <2> QED BY <2>1 DEF Strings, MaxShort
<1>4. ConnectSuccess \in Readable[2]
  <2> DEFINE e(i) == Elem(<< i >>, String(100 + i))
             t == [i \in 1 .. 3 |-> e(i)]
  <2>1. ASSUME NEW i \in 1 .. 3 PROVE e(i) \in E
    <3>1. i \in Byte /\ 100 + i \in Byte
      BY DEF Byte
    <3>2. << i >> \in Strings /\ String(100 + i) \in R
      BY <1>3, <3>1, StringReadable
    <3> HIDE DEF String, R
    <3> QED BY <3>2 DEF Elem
  <2> HIDE DEF e, E
  <2>2. t \in Seq(E) /\ Len(t) = 3
    BY <2>1
  <2> HIDE DEF t
  <2>3. Value(AMF_HASH, t) \in Readable[2]
    BY <2>2, HashReadable DEF E
  <2> QED BY <2>3 DEF ConnectSuccess, t, e
<1>5. ASSUME NEW n \in Int PROVE SumIn(n) \in Readable[2]
  <2>1. NumberAV(n) \in R
    <3>1. 0 \in Nat /\ 0 + 1 = 1
      OBVIOUS
    <3>2. NumberAV(n) # End
      BY DEF NumberAV, End, Value, AMF_NUMBER, AMF_END
    <3>3. NumberAV(n) \in Readable[0 + 1]
      BY <3>1, NumberReadable
    <3> QED BY <3>1, <3>2, <3>3
  <2>2. << 97 >> \in Strings
    BY <1>3 DEF Byte
  <2>3. PICK x : x = Elem(<< 97 >>, NumberAV(n)) /\ x \in E
    <3>1. PICK k \in Strings, v \in R : k = << 97 >> /\ v = NumberAV(n)
      BY <2>1, <2>2
    <3> HIDE DEF R
    <3>2. Elem(k, v) \in E
      BY DEF Elem
    <3> QED BY <3>1, <3>2
  <2> HIDE DEF E
  <2>4. << x >> \in Seq(E) /\ Len(<< x >>) = 1
    BY <2>3
  <2>5. Value(AMF_HASH, << x >>) \in Readable[2]
    BY <2>4, HashReadable DEF E
  <2> QED BY <2>3, <2>5 DEF SumIn
<1> QED BY <1>2, <1>4, <1>5, ReadableMore

\* What a client sees of a reply, and of a call.
ReplyOf(value) == << _result, NumberAV(id), Nil, value >>
CallOf(value)  == << greeting, NumberAV(id + 1), Nil, value >>

LEMMA ThreeAndOne ==
  ASSUME NEW a, NEW b, NEW c, NEW d
  PROVE  << a, b, c >> \o << d >> = << a, b, c, d >>
<1>1. PICK S : S = {a, b, c, d}
  OBVIOUS
<1>2. << a, b, c >> \in Seq(S) /\ << d >> \in Seq(S) /\ << a, b, c, d >> \in Seq(S)
  BY <1>1
<1>3. PICK t : t = << a, b, c >> \o << d >>
  OBVIOUS
<1>4. t \in Seq(S) /\ Len(t) = 4 /\ \A i \in 1 .. 4 : t[i] = << a, b, c, d >>[i]
  BY <1>2, <1>3, ConcatProperties
<1> QED BY <1>2, <1>3, <1>4, SeqEqual

\* They are read as such.
LEMMA BothShown ==
  ASSUME 2 <= MaxDepth, id \in Int, NEW value \in AVs[MaxDepth]
  PROVE  Shown(ReplyOf(value), Return(value)) /\ Shown(CallOf(value), Calls(greeting, value))
<1>1. /\ _result \in Readable[MaxDepth] /\ greeting \in Readable[MaxDepth]
      /\ Nil \in Readable[MaxDepth]
      /\ NumberAV(id) \in Readable[MaxDepth] /\ NumberAV(id + 1) \in Readable[MaxDepth]
  <2>1. id + 1 \in Int
    OBVIOUS
  <2> QED BY <2>1, SentReadable, Constants
<1>2. Shown(ReplyOf(value), Return(value))
  BY <1>1, FourSeen DEF ReplyOf, Return
<1>3. PICK g, x, y : g = greeting /\ x = NumberAV(id + 1) /\ y = Nil
  OBVIOUS
<1>4. << g, x, y >> \o << value >> = << g, x, y, value >>
  BY ThreeAndOne
<1>5. Calls(greeting, value) = PackArguments(CallOf(value))
  BY <1>3, <1>4 DEF Calls, PackCall, CallOf
<1>6. Shown(CallOf(value), PackArguments(CallOf(value)))
  BY <1>1, FourSeen DEF CallOf
<1> QED BY <1>2, <1>5, <1>6

-----------------------------------------------------------------------------
(* The packets of each application.                                         *)

LEMMA OneAndOne == ASSUME NEW a, NEW b PROVE << a >> \o << b >> = << a, b >>
<1>1. PICK S : S = {a, b}
  OBVIOUS
<1>2. << a >> \in Seq(S) /\ << b >> \in Seq(S) /\ << a, b >> \in Seq(S)
  BY <1>1
<1>3. PICK t : t = << a >> \o << b >>
  OBVIOUS
<1>4. t \in Seq(S) /\ Len(t) = 2 /\ \A i \in 1 .. 2 : t[i] = << a, b >>[i]
  BY <1>2, <1>3, ConcatProperties
<1> QED BY <1>2, <1>3, <1>4, SeqEqual

LEMMA PairSeen ==
  ASSUME NEW p, NEW q, Sends(<< p, q >>), pc' = "done"
  PROVE  Packets' = << Seen(p), Seen(q) >> /\ Len(out') = 2
<1>1. PICK s : s = << p, q >>
  OBVIOUS
<1>2. Len(s) = 2 /\ s[1] = p /\ s[2] = q
  BY <1>1
<1>3. Packets' = [i \in 1 .. 2 |-> Seen(s[i])] /\ Len(out') = 2
  <2>1. Sends(s) /\ Len(s) \in Nat
    BY <1>1, <1>2
  <2> QED BY <1>2, <2>1, PacketsSeen
<1>4. [i \in 1 .. 2 |-> Seen(s[i])] = << Seen(s[1]), Seen(s[2]) >>
  OBVIOUS
<1> QED BY <1>2, <1>3, <1>4

LEMMA OneSeen ==
  ASSUME NEW p, Sends(<< p >>), pc' = "done"
  PROVE  Packets' = << Seen(p) >> /\ Len(out') = 1
<1>1. PICK s : s = << p >>
  OBVIOUS
<1>2. Len(s) = 1 /\ s[1] = p
  BY <1>1
<1>3. Packets' = [i \in 1 .. 1 |-> Seen(s[i])] /\ Len(out') = 1
  <2>1. Sends(s) /\ Len(s) \in Nat
    BY <1>1, <1>2
  <2> QED BY <1>2, <2>1, PacketsSeen
<1>4. [i \in 1 .. 1 |-> Seen(s[i])] = << Seen(s[1]) >>
  OBVIOUS
<1> QED BY <1>2, <1>3, <1>4

LEMMA NoneSeen == ASSUME Sends(<< >>), pc' = "done" PROVE Packets' = << >> /\ Len(out') = 0
<1>1. Packets' = [i \in 1 .. Len(<< >>) |-> Seen(<< >>[i])] /\ Len(out') = Len(<< >>)
  BY PacketsSeen
<1> QED BY <1>1

\* What a client sees when it connects.
LEMMA ConnectSeen ==
  ASSUME IInv, OnConnect, pc' = "done"
  PROVE  Packets' = << ReplyOf(ConnectSuccess) >>
<1>1. 2 <= MaxDepth /\ id \in Int
  BY DepthRoom
<1>2. ConnectSuccess \in AVs[MaxDepth] /\ ConnectSuccess \in Readable[MaxDepth]
  BY <1>1, SentReadable, Constants
<1>3. Seen(Return(ConnectSuccess)) = ReplyOf(ConnectSuccess)
  BY <1>1, <1>2, BothShown DEF Shown, ReplyOf
<1>4. Packets' = << Seen(Return(ConnectSuccess)) >>
  BY OneSeen DEF OnConnect
<1> QED BY <1>3, <1>4

\* What it sees of the demo server.
LEMMA DemoSeen ==
  ASSUME IInv, OnAddDemo, pc' = "done"
  PROVE  /\ Len(argv) = 2 /\ Len(out') = 2
         /\ \E v1 \in NumbersIn(argv[1]), v2 \in NumbersIn(argv[2]) :
              Packets' = << ReplyOf(NumberAV(v1 + v2)), CallOf(String(104)) >>
<1>1. Len(argv) = 2
  BY DEF OnAddDemo, Abort
<1>2. PICK v1 \in NumbersIn(argv[1]), v2 \in NumbersIn(argv[2]) :
        Sends(<< Return(NumberAV(v1 + v2)), Calls(greeting, String(104)) >>)
  BY <1>1 DEF OnAddDemo
<1>3. 2 <= MaxDepth /\ id \in Int /\ v1 + v2 \in Int
  <2>1. v1 \in Int /\ v2 \in Int
    BY <1>1, NumbersInInt
  <2> QED BY <2>1, DepthRoom
<1>4. PICK x, y : x = NumberAV(v1 + v2) /\ y = String(104)
  OBVIOUS
<1>5. /\ x \in AVs[MaxDepth] /\ x \in Readable[MaxDepth]
      /\ y \in AVs[MaxDepth] /\ y \in Readable[MaxDepth]
  BY <1>3, <1>4, SentReadable, Constants
<1>6. Seen(Return(x)) = ReplyOf(x)
  BY <1>3, <1>5, BothShown DEF Shown, ReplyOf
<1>7. Seen(Calls(greeting, y)) = CallOf(y)
  BY <1>3, <1>5, BothShown DEF Shown, CallOf
<1>8. Packets' = << Seen(Return(x)), Seen(Calls(greeting, y)) >> /\ Len(out') = 2
  BY <1>2, <1>4, PairSeen
<1> QED BY <1>1, <1>4, <1>6, <1>7, <1>8

\* testbad.py calls, and replies unless what it returns is false.
TwistedAnswer(a, b, x, y, answered) ==
  /\ x \in AVs[MaxDepth] /\ y \in AVs[MaxDepth]
  /\ PlusTimes(a, b, 2).type = "float" => x = SumIn(PlusTimes(a, b, 2).value)
  /\ PlusTimes(a, b, 7).type = "float" => y = NumberAV(PlusTimes(a, b, 7).value)
  /\ answered \in Answered(PlusTimes(a, b, 7))
  /\ Packets' = IF answered THEN << Seen(Calls(greeting, x)), Seen(Return(y)) >>
                ELSE << Seen(Calls(greeting, x)) >>
  /\ Len(out') = IF answered THEN 2 ELSE 1

\* A dictionary of one element that is a number.
LEMMA DictWritten ==
  ASSUME NEW left \in AVs[1], NEW d \in Nat, NEW u \in Pys[d + 1], (d + 1) + 1 <= MaxDepth,
         NEW answer, answer = Py("dict", << Elem(<< 97 >>, u) >>)
  PROVE  /\ py_2_av(answer, left) \in AVs[MaxDepth]
         /\ u.type = "float" => py_2_av(answer, left) = SumIn(u.value)
<1>1. MaxDepth \in Nat /\ d + 1 \in Nat /\ (d + 1) + 1 \in Nat /\ d + 1 <= MaxDepth
  BY MaxDepthAssumption
<1>2. Pys[d + 1] \subseteq Pys[MaxDepth] /\ Pys[(d + 1) + 1] \subseteq Pys[MaxDepth]
  BY <1>1, PysMore
<1>3. PICK t : t = << Elem(<< 97 >>, u) >>
  OBVIOUS
<1>4. answer \in Pys[(d + 1) + 1] /\ answer.type = "dict" /\ answer.value = t
  <2>1. << 97 >> \in Seq(Byte)
    BY DEF Byte
  <2>2. Elem(<< 97 >>, u) \in [key : Seq(Byte), value : Pys[d + 1]]
    BY <2>1 DEF Elem
  <2>3. t \in Tables(Pys[d + 1])
    BY <1>3, <2>2 DEF Tables
  <2>4. answer = Py("dict", t)
    BY <1>3
  <2>5. answer \in Pys[(d + 1) + 1]
    BY <1>1, <2>3, <2>4, PyMade
  <2> QED BY <2>4, <2>5 DEF Py
<1>5. py_2_av(answer, left) \in AVs[MaxDepth]
  BY <1>2, <1>4, py_2_avType
<1>6. PICK e \in Nat : answer \in Pys[e + 1] /\ py_2_av(answer, left) = FromPy(left)[e + 1][answer]
  <2>1. answer \in Pys[MaxDepth]
    BY <1>2, <1>4
  <2>2. PICK l \in 1 .. MaxDepth : l = PyDepth(answer) /\ answer \in Pys[l]
    BY <2>1, PyDepthFound
  <2>3. l - 1 \in Nat /\ (l - 1) + 1 = l
    BY <1>1
  <2> QED BY <2>2, <2>3 DEF py_2_av
<1>7. ASSUME u.type = "float" PROVE py_2_av(answer, left) = SumIn(u.value)
  <2>1. t \in Tables(Pys[e])
    BY <1>4, <1>6, PyCases
  <2>2. t[1] = Elem(<< 97 >>, u) /\ Len(t) = 1
    BY <1>3
  <2>3. u \in Pys[e]
    <3>1. PICK E : E = [key : Seq(Byte), value : Pys[e]]
      OBVIOUS
    <3>2. t \in Seq(E)
      BY <2>1, <3>1 DEF Tables
    <3>3. t[1] \in E
      <4>1. 1 \in 1 .. Len(t)
        BY <2>2
      <4>2. \A i \in 1 .. Len(t) : t[i] \in E
        BY <3>2, ElementOfSeq
      <4> QED BY <4>1, <4>2
    <3>4. t[1].value = u
      BY <2>2 DEF Elem
    <3> QED BY <3>1, <3>3, <3>4
  <2>4. PICK P : P = FromPy(left)[e]
    OBVIOUS
  <2>5. P[u] = NumberAV(u.value)
    <3>1. e # 0
      <4>1. ASSUME e = 0 PROVE FALSE
        BY <2>3, <4>1, PyLevels
      <4> QED BY <4>1
    <3>2. PICK c \in Nat : e = c + 1
      <4>1. e - 1 \in Nat /\ e = (e - 1) + 1
        BY <3>1
      <4> QED BY <4>1
    <3>3. PICK Q : Q = FromPy(left)[c]
      OBVIOUS
    <3>4. P[u] = PyToValue(Q, u, left)
      BY <2>3, <2>4, <3>2, <3>3, FromPyLevels
    <3>5. PyToValue(Q, u, left) = NumberAV(u.value)
      BY <1>7 DEF PyToValue, Py2Leaf
    <3> QED BY <3>4, <3>5
  <2>6. FromPy(left)[e + 1][answer] = PyToValue(P, answer, left)
    BY <1>6, <2>4, FromPyLevels
  <2>7. PyToValue(P, answer, left) =
          Value(AMF_HASH, [i \in 1 .. Len(t) |-> Elem(t[i].key, P[t[i].value])])
    BY <1>4 DEF PyToValue
  <2>8. [i \in 1 .. 1 |-> Elem(t[i].key, P[t[i].value])] = << Elem(<< 97 >>, NumberAV(u.value)) >>
    <3>1. t[1].key = << 97 >> /\ t[1].value = u
      BY <2>2 DEF Elem
    <3>2. Elem(t[1].key, P[t[1].value]) = Elem(<< 97 >>, NumberAV(u.value))
      BY <2>5, <3>1
    <3>3. [i \in 1 .. 1 |-> Elem(t[i].key, P[t[i].value])] = << Elem(t[1].key, P[t[1].value]) >>
      OBVIOUS
    <3> QED BY <3>2, <3>3
  <2> QED BY <1>6, <2>2, <2>6, <2>7, <2>8 DEF SumIn
<1> QED BY <1>5, <1>7

\* What it sees of testbad.py: nothing, if the arguments do not add up.
LEMMA TwistedSeen ==
  ASSUME IInv, OnAddTwisted, pc' = "done",
         NEW a, NEW b, a = av_2_py(argv[1]), b = av_2_py(argv[2])
  PROVE  \/ (Len(argv) # 2 \/ ~Addable(a, b)) /\ Packets' = << >> /\ Len(out') = 0
         \/ /\ Len(argv) = 2 /\ Addable(a, b)
            /\ \E x, y, answered : TwistedAnswer(a, b, x, y, answered)
<1> DEFINE sum == PlusTimes(a, b, 2)
           ret == PlusTimes(a, b, 7)
           answer == Py("dict", << Elem(<< 97 >>, sum) >>)
<1>1. CASE Len(argv) # 2
  <2>1. Sends(<< >>)
    BY <1>1 DEF OnAddTwisted
  <2> QED BY <1>1, <2>1, NoneSeen
<1>2. CASE Len(argv) = 2 /\ ~Addable(a, b)
  <2>1. Sends(<< >>)
    BY <1>2 DEF OnAddTwisted
  <2> QED BY <1>2, <2>1, NoneSeen
<1>3. CASE Len(argv) = 2 /\ Addable(a, b)
  <2>1. PICK d \in Nat : (d + 1) + 1 <= MaxDepth /\ argv \in Seq(AVs[d + 1])
    BY DepthRoom
  <2>2. MaxDepth \in Nat /\ d + 1 \in Nat /\ d + 1 <= MaxDepth
    BY <2>1, MaxDepthAssumption
  <2>3. argv[1] \in AVs[d + 1] /\ argv[2] \in AVs[d + 1]
    <3>1. PICK A : A = AVs[d + 1]
      OBVIOUS
    <3>2. \A i \in 1 .. Len(argv) : argv[i] \in A
      BY <2>1, <3>1, ElementOfSeq
    <3>3. 1 \in 1 .. Len(argv) /\ 2 \in 1 .. Len(argv)
      BY <1>3
    <3> QED BY <3>1, <3>2, <3>3
  <2>4. a \in Pys[d + 1] /\ b \in Pys[d + 1]
    BY <2>2, <2>3, av_2_pyType
  <2>5. sum \in Pys[d + 1] /\ ret \in Pys[d + 1]
    BY <1>3, <2>4, Sums
  <2>6. Pys[d + 1] \subseteq Pys[MaxDepth]
    BY <2>2, PysMore
  <2>7. PICK left1 \in Left, left2 \in Left, answered \in Answered(ret) :
          Sends(<< Calls(greeting, py_2_av(answer, left1)) >>
                  \o IF answered THEN << Return(py_2_av(ret, left2)) >> ELSE << >>)
    BY <1>3 DEF OnAddTwisted, Abort
  <2> HIDE DEF sum, ret
  <2>8. left1 \in AVs[1] /\ left2 \in AVs[1]
    <3>1. 0 \in Nat /\ 0 + 1 = 1
      OBVIOUS
    <3>2. NumberAV(Unknown) \in AVs[0 + 1]
      <4>1. Unknown \in Int
        BY DEF Unknown
      <4> QED BY <3>1, <4>1, NumberReadable, ReadableLevels
    <3> QED BY <3>1, <3>2, NilEnd DEF Left
  <2>9. PICK x : /\ x = py_2_av(answer, left1) /\ x \in AVs[MaxDepth]
                 /\ sum.type = "float" => x = SumIn(sum.value)
    BY <2>1, <2>5, <2>8, DictWritten
  <2>10. PICK y : /\ y = py_2_av(ret, left2) /\ y \in AVs[MaxDepth]
                  /\ ret.type = "float" => y = NumberAV(ret.value)
    BY <2>5, <2>6, <2>8, py_2_avType
  <2>11. PICK c, p : c = Calls(greeting, x) /\ p = Return(y)
    OBVIOUS
  <2>12. /\ Packets' = IF answered THEN << Seen(c), Seen(p) >> ELSE << Seen(c) >>
         /\ Len(out') = IF answered THEN 2 ELSE 1
    <3>1. CASE answered
      <4>1. << c >> \o << p >> = << c, p >>
        BY OneAndOne
      <4>2. Sends(<< c, p >>)
        BY <2>7, <2>9, <2>10, <2>11, <3>1, <4>1
      <4> QED BY <3>1, <4>2, PairSeen
    <3>2. CASE ~answered
      <4>1. << c >> \o << >> = << c >>
        OBVIOUS
      <4>2. Sends(<< c >>)
        BY <2>7, <2>9, <2>11, <3>2, <4>1
      <4> QED BY <3>2, <4>2, OneSeen
    <3> QED BY <3>1, <3>2
  <2>13. TwistedAnswer(a, b, x, y, answered)
    BY <2>7, <2>9, <2>10, <2>11, <2>12 DEF TwistedAnswer, sum, ret
  <2> QED BY <1>3, <2>13
<1> QED BY <1>1, <1>2, <1>3

-----------------------------------------------------------------------------
(* The answers to numbers.                                                  *)

\* What becomes of a value follows from its type, and from what its parts become.
LEMMA OneToPy ==
  ASSUME NEW e \in Nat, e <= MaxDepth, NEW av \in AVs[e]
  PROVE  \E P : av_2_py(av) = ValueToPy(P, av)
<1>1. MaxDepth \in Nat
  BY MaxDepthAssumption
<1>2. av \in AVs[MaxDepth]
  BY <1>1, AVsMore
<1>3. PICK d \in Nat : d + 1 = Depth(av) /\ av \in AVs[d + 1]
  <2>1. Depth(av) \in 1 .. MaxDepth /\ av \in AVs[Depth(av)]
    BY <1>2, DepthFound
  <2>2. Depth(av) - 1 \in Nat /\ (Depth(av) - 1) + 1 = Depth(av)
    BY <1>1, <2>1
  <2> QED BY <2>1, <2>2
<1>4. av_2_py(av) = ValueToPy(ToPy[d], av)
  BY <1>3, ToPyLevels DEF av_2_py
<1> QED BY <1>4

LEMMA ToPyCases ==
  ASSUME NEW P, NEW av
  PROVE  /\ av.type = AMF_NUMBER => ValueToPy(P, av) = Py("float", Number(av.value))
         /\ av.type \in {AMF_BOOLEAN, AMF_LINK} => ValueToPy(P, av) = Py("int", av.value[1])
         /\ av.type = AMF_STRING => ValueToPy(P, av) = Py("str", av.value)
         /\ av.type = AMF_ARRAY => ValueToPy(P, av) = av_list_2_py(P, av.value)
         /\ av.type \notin {AMF_NUMBER, AMF_BOOLEAN, AMF_LINK, AMF_STRING, AMF_ARRAY} =>
              ValueToPy(P, av) = None
BY DEF ValueToPy, AMF_NUMBER, AMF_BOOLEAN, AMF_LINK, AMF_STRING, AMF_ARRAY

\* The arguments that were sent, if no end marker came between them.
LEMMA ArgvType ==
  ASSUME IInv, Len(argv) = 2
  PROVE  \E d \in Nat : /\ d + 1 <= MaxDepth
                        /\ argv[1] \in AVs[d + 1] /\ argv[2] \in AVs[d + 1]
<1>1. PICK d \in Nat : (d + 1) + 1 <= MaxDepth /\ argv \in Seq(AVs[d + 1])
  BY DepthRoom
<1>2. PICK A : A = AVs[d + 1]
  OBVIOUS
<1>3. \A i \in 1 .. Len(argv) : argv[i] \in A
  BY <1>1, <1>2, ElementOfSeq
<1>4. 1 \in 1 .. Len(argv) /\ 2 \in 1 .. Len(argv)
  OBVIOUS
<1>5. d + 1 <= MaxDepth
  BY <1>1, MaxDepthAssumption
<1> QED BY <1>2, <1>3, <1>4, <1>5

\* What RightAnswers says of a call, an application and the packets that are read.
AddsTwo(c) ==
  LET n == Number(c.args[1].value)
      k == Number(c.args[2].value)
  IN /\ c.method = add /\ Len(c.args) = 2
     /\ \A i \in {1, 2} : c.args[i].type = AMF_NUMBER
     /\ ~Zero(c.args)
     /\ {n, k, n + k, n + 2 * k, n + 7 * k} \subseteq Known

\* No end marker comes between two numbers.
LEMMA NumbersArrive ==
  ASSUME IInv, pc = "dispatch", AddsTwo(call)
  PROVE  argv = call.args
<1>1. \A i \in 1 .. Len(call.args) : ~MarkedArg(i)
  <2> TAKE i \in 1 .. Len(call.args)
  <2>1. PICK R : R = Readable[MaxDepth]
    OBVIOUS
  <2>2. call.args \in Seq(R)
    BY <2>1, ArgsType DEF IInv
  <2>3. call.args[i] \in R
    BY <2>2, ElementOfSeq
  <2>4. call.args[i].type = AMF_NUMBER
    <3>1. i \in {1, 2}
      BY DEF AddsTwo
    <3> QED BY <3>1 DEF AddsTwo
  <2>5. call.args[i].type \notin {AMF_HASH, AMF_ASSOC_ARRAY, AMF_ARRAY}
    BY <2>4 DEF AMF_NUMBER, AMF_HASH, AMF_ASSOC_ARRAY, AMF_ARRAY
  <2> QED BY <2>1, <2>3, <2>5, LeafPlain DEF MarkedArg, Marks
<1>2. InStep(Len(call.args))
  <2>1. ~IsPast
    BY <1>1 DEF IsPast, Past
  <2> QED BY <2>1 DEF IInv, ReadInv
<1>3. call.args \in Seq(Readable[MaxDepth])
  BY ArgsType DEF IInv
<1> QED BY <1>2, <1>3, StartNext DEF InStep

Answers(c, a, ps) ==
  LET n == Number(c.args[1].value)
      k == Number(c.args[2].value)
      Result(value)   == << _result, NumberAV(c.id), Nil, value >>
      Greeting(value) == << greeting, NumberAV(c.id + 1), Nil, value >>
  IN /\ AddsTwo(c) /\ a = "demo" =>
          ps = << Result(NumberAV(n + k)), Greeting(String(104)) >>
     /\ AddsTwo(c) /\ a # "demo" => ps = << Greeting(SumIn(n + 2 * k)), Result(NumberAV(n + 7 * k)) >>
     /\ ~AddsTwo(c) /\ c.method = connect => ps = << Result(ConnectSuccess) >>

\* RightAnswers in these words, now and after a step.
LEMMA AnswersRight ==
  /\ pc = "done" /\ RightAnswers => Answers(call, app, Packets)
  /\ (pc = "done" => Answers(call, app, Packets)) => RightAnswers
BY ZenonT(30) DEF RightAnswers, Answers, AddsTwo, SumIn

LEMMA AnswersRightNext ==
  (pc' = "done" => Answers(call', app', Packets')) => RightAnswers'
BY ZenonT(30) DEF RightAnswers, Answers, AddsTwo, SumIn

LEMMA KnownNumber ==
  ASSUME NEW n \in Known
  PROVE  n \in Int /\ ~Uncertain(n)
BY DEF Known, Uncertain, Unknown

\* What testbad.py returns for two numbers is known, and is not false.
LEMMA NumbersAdd ==
  ASSUME AddsTwo(call), NEW n, NEW k,
         n = Number(call.args[1].value), k = Number(call.args[2].value)
  PROVE  /\ n \in Int /\ k \in Int /\ n + 7 * k # 0
         /\ Answered(Py("float", n + 7 * k)) = {TRUE}
<1>1. n \in Int /\ k \in Int /\ n + 7 * k \in Known
  <2>1. n \in Known /\ k \in Known /\ n + 7 * k \in Known
    BY DEF AddsTwo
  <2> QED BY <2>1, KnownNumber
<1>2. AMF_NUMBER \in Numbers
  BY DEF Numbers
<1>3. ~Wrong(call.args) /\ call.args[1].type \in Numbers
  BY <1>2 DEF AddsTwo, Wrong
<1>4. Amount(call.args[1]) = n /\ Amount(call.args[2]) = k
  BY DEF AddsTwo, Amount
<1>5. ~Zero(call.args)
  BY DEF AddsTwo
<1>6. n + 7 * k # 0
  BY <1>3, <1>4, <1>5 DEF Zero, Sum
<1>7. PICK r \in Int : r = n + 7 * k /\ r \in Known /\ r # 0
  BY <1>1, <1>6, KnownNumber
<1>8. ~Uncertain(r)
  BY <1>7, KnownNumber
<1>9. Answered(Py("float", r)) = {TRUE}
  BY <1>7, <1>8 DEF Answered, Truthy, Py, Numeric
<1> QED BY <1>1, <1>6, <1>7, <1>9

\* The demo server answers with the sum.
LEMMA DemoRight ==
  ASSUME IInv, HeadInv, OnAddDemo, pc' = "done", AddsTwo(call)
  PROVE  Answers(call, app, Packets')
<1>1. argv = call.args /\ id = call.id /\ app = "demo"
  BY NumbersArrive DEF OnAddDemo, Dispatch, HeadInv
<1>2. PICK v1 \in NumbersIn(argv[1]), v2 \in NumbersIn(argv[2]) :
        Packets' = << ReplyOf(NumberAV(v1 + v2)), CallOf(String(104)) >>
  BY DemoSeen
<1>3. v1 = Number(call.args[1].value) /\ v2 = Number(call.args[2].value)
  BY <1>1 DEF AddsTwo, NumbersIn
<1> QED BY <1>1, <1>2, <1>3 DEF Answers, ReplyOf, CallOf

\* testbad.py answers with the first and seven times the second.
LEMMA TwistedRight ==
  ASSUME IInv, HeadInv, OnAddTwisted, pc' = "done", AddsTwo(call)
  PROVE  Answers(call, app, Packets')
<1>1. argv = call.args /\ id = call.id /\ app = "twisted" /\ Len(argv) = 2
  BY NumbersArrive DEF OnAddTwisted, Dispatch, HeadInv, AddsTwo
<1>2. PICK n, k : n = Number(call.args[1].value) /\ k = Number(call.args[2].value)
  OBVIOUS
<1>3. n \in Int /\ k \in Int /\ Answered(Py("float", n + 7 * k)) = {TRUE}
  BY <1>2, NumbersAdd
<1>4. PICK a, b : a = av_2_py(argv[1]) /\ b = av_2_py(argv[2])
  OBVIOUS
<1>5. a = Py("float", n) /\ b = Py("float", k)
  <2>1. PICK d \in Nat : /\ d + 1 <= MaxDepth
                         /\ argv[1] \in AVs[d + 1] /\ argv[2] \in AVs[d + 1]
    BY <1>1, ArgvType
  <2>2. d + 1 \in Nat
    OBVIOUS
  <2>3. PICK P : a = ValueToPy(P, argv[1])
    BY <1>4, <2>1, <2>2, OneToPy
  <2>4. PICK Q : b = ValueToPy(Q, argv[2])
    BY <1>4, <2>1, <2>2, OneToPy
  <2>5. argv[1].type = AMF_NUMBER /\ argv[2].type = AMF_NUMBER
    BY <1>1 DEF AddsTwo
  <2>6. a = Py("float", Number(argv[1].value)) /\ b = Py("float", Number(argv[2].value))
    BY <2>3, <2>4, <2>5, ToPyCases
  <2> QED BY <1>1, <1>2, <2>6
<1>6. Addable(a, b)
  BY <1>5 DEF Addable, Py, Numeric
<1>7. /\ PlusTimes(a, b, 2) = Py("float", n + 2 * k)
      /\ PlusTimes(a, b, 7) = Py("float", n + 7 * k)
  <2>1. a.type = "float" /\ b.type = "float" /\ a.value = n /\ b.value = k /\ "float" \in Numeric
    BY <1>5 DEF Py, Numeric
  <2>2. k * 2 = 2 * k /\ k * 7 = 7 * k
    BY <1>3
  <2> QED BY <2>1, <2>2 DEF PlusTimes
<1>8. PICK s, r : s = n + 2 * k /\ r = n + 7 * k /\ s \in Int /\ r \in Int
  BY <1>3
<1>9. PICK x, y, answered : TwistedAnswer(a, b, x, y, answered)
  BY <1>1, <1>4, <1>6, TwistedSeen
<1>10. /\ x \in AVs[MaxDepth] /\ y \in AVs[MaxDepth]
       /\ x = SumIn(s) /\ y = NumberAV(r)
       /\ Packets' = << Seen(Calls(greeting, x)), Seen(Return(y)) >>
  <2>1. PlusTimes(a, b, 2) = Py("float", s) /\ PlusTimes(a, b, 7) = Py("float", r)
    BY <1>7, <1>8
  <2>2. answered = TRUE
    BY <1>3, <1>8, <1>9, <2>1 DEF TwistedAnswer
  <2> QED BY <1>9, <2>1, <2>2 DEF TwistedAnswer, Py
<1>11. 2 <= MaxDepth /\ id \in Int
  BY DepthRoom
<1>12. Seen(Calls(greeting, x)) = CallOf(x)
  <2>1. CallOf(x)[4] = x
    BY DEF CallOf
  <2>2. x \in Readable[MaxDepth]
    BY <1>8, <1>10, <1>11, SentReadable
  <2> QED BY <1>10, <1>11, <2>1, <2>2, BothShown DEF Shown
<1>13. Seen(Return(y)) = ReplyOf(y)
  <2>1. ReplyOf(y)[4] = y
    BY DEF ReplyOf
  <2>2. y \in Readable[MaxDepth]
    BY <1>8, <1>10, Constants
  <2> QED BY <1>10, <1>11, <2>1, <2>2, BothShown DEF Shown
<1>14. Packets' = << CallOf(SumIn(s)), ReplyOf(NumberAV(r)) >>
  BY <1>10, <1>12, <1>13
<1> QED BY <1>1, <1>2, <1>8, <1>14 DEF Answers, CallOf, ReplyOf

\* No step answers otherwise.
LEMMA RightStep ==
  ASSUME IInv, HeadInv, RightAnswers, [Next]_vars
  PROVE  RightAnswers'
<1> SUFFICES ASSUME pc' = "done" PROVE Answers(call', app', Packets')
  BY AnswersRightNext
<1>1. CASE ReadHead \/ ReadArgument \/ ArgumentsRead
  <2>1. pc' # "done"
    BY <1>1 DEF ReadHead, ReadArgument, ArgumentsRead, Abort, Crash
  <2> QED BY <2>1
<1>2. CASE OnConnect
  <2>1. call.method = connect /\ call' = call /\ id = call.id
    BY <1>2, MethodRead, ApplicationFrame DEF OnConnect, Dispatch, HeadInv
  <2>2. ~AddsTwo(call)
    BY <2>1, MethodsDiffer DEF AddsTwo
  <2>3. Packets' = << ReplyOf(ConnectSuccess) >>
    BY <1>2, ConnectSeen
  <2> QED BY <2>1, <2>2, <2>3 DEF Answers, ReplyOf
<1>3. CASE OnUnknown
  <2>1. call.method \notin {add, connect} /\ call' = call
    BY <1>3, MethodRead, ApplicationFrame DEF OnUnknown
  <2> QED BY <2>1 DEF Answers, AddsTwo
<1>4. CASE OnAddDemo \/ OnAddTwisted
  <2>1. call.method = add /\ call' = call /\ app' = app
    BY <1>4, MethodRead, ApplicationFrame DEF OnAddDemo, OnAddTwisted, Dispatch
  <2>2. CASE AddsTwo(call)
    BY <1>4, <2>1, <2>2, DemoRight, TwistedRight
  <2>3. CASE ~AddsTwo(call)
    BY <2>1, <2>3, MethodsDiffer DEF Answers
  <2> QED BY <2>2, <2>3
<1>5. CASE UNCHANGED vars
  <2>1. pc = "done" /\ call' = call /\ app' = app /\ out' = out
    BY <1>5 DEF vars
  <2>2. Packets' = Packets
    BY <2>1 DEF Packets
  <2> QED BY <2>1, <2>2, AnswersRight
<1> QED BY <1>1, <1>2, <1>3, <1>4, <1>5 DEF Next

\* Two whole numbers are answered with their sum by the demo server, and with what testbad.py
\* makes of them by the twisted one, and a client that connects is told so: what is read of
\* the packets that come back is this and nothing else, under the id of the call, for every
\* stale byte behind the data.  This is said of numbers that are known here, between -4095 and
\* 4095, whose sums are, too, and of which a + b * 7 is not 0.
THEOREM InvocationRightAnswers == Spec => []RightAnswers
<1>1. Init => HeadInv /\ RightAnswers
  BY DEF Init, HeadInv, RightAnswers
<1>2. IInv /\ HeadInv /\ RightAnswers /\ [Next]_vars => HeadInv' /\ RightAnswers'
  BY HeadInvStep, RightStep
<1> QED BY <1>1, <1>2, InvocationInvariant, PTL DEF Spec

-----------------------------------------------------------------------------
(* The classes of arguments.                                                *)

\* Seven times a sequence is empty when the sequence is.
LEMMA SevenTimes ==
  ASSUME NEW S, NEW s \in Seq(S)
  PROVE  LET w == FlattenSeq([i \in 1 .. 7 |-> s])
         IN w \in Seq(S) /\ (w = << >> <=> s = << >>)
<1>1. PICK r : r = [i \in 1 .. 7 |-> s]
  OBVIOUS
<1>2. r \in Seq(Seq(S)) /\ Len(r) = 7 /\ \A k \in 0 .. 6 : r[k + 1] = s
  BY <1>1
<1>3. PICK f \in [Nat -> Seq(S)] :
        /\ f[0] = << >> /\ \A k \in 0 .. Len(r) - 1 : f[k + 1] = f[k] \o r[k + 1]
        /\ FlattenSeq(r) = f[Len(r)]
  BY <1>2, Flattened
<1>4. /\ f[0] = << >> /\ FlattenSeq(r) = f[7] /\ f[6] \in Seq(S) /\ f[7] \in Seq(S)
      /\ \A k \in 0 .. 6 : f[k + 1] = f[k] \o s
  <2>1. \A k \in Nat : f[k] \in Seq(S)
    BY <1>3
  <2>2. f[6] \in Seq(S) /\ f[7] \in Seq(S)
    BY <2>1
  <2>3. f[0] = << >> /\ FlattenSeq(r) = f[7]
    BY <1>2, <1>3
  <2>4. \A k \in 0 .. 6 : f[k + 1] = f[k] \o s
    <3>1. \A k \in 0 .. 6 : k \in 0 .. Len(r) - 1
      BY <1>2
    <3> QED BY <1>2, <1>3, <3>1
  <2> QED BY <2>2, <2>3, <2>4
<1>5. ASSUME s = << >> PROVE f[7] = << >>
  <2>1. \A k \in 0 .. 6 : f[k] = << >> => f[k + 1] = << >>
    <3>1. << >> \o << >> = << >>
      OBVIOUS
    <3> QED BY <1>4, <1>5, <3>1
  <2>2. f[1] = << >>
    BY <1>4, <2>1
  <2>3. f[2] = << >>
    BY <2>1, <2>2
  <2>4. f[3] = << >>
    BY <2>1, <2>3
  <2>5. f[4] = << >>
    BY <2>1, <2>4
  <2>6. f[5] = << >>
    BY <2>1, <2>5
  <2>7. f[6] = << >>
    BY <2>1, <2>6
  <2> QED BY <2>1, <2>7
<1>6. ASSUME f[7] = << >> PROVE s = << >>
  <2>1. f[7] = f[6] \o s
    <3>1. 6 \in 0 .. 6 /\ 6 + 1 = 7
      OBVIOUS
    <3> QED BY <1>4, <3>1
  <2>2. PICK g \in Seq(S) : g = f[6]
    BY <1>4
  <2>3. Len(g \o s) = Len(g) + Len(s) /\ Len(g) \in Nat /\ Len(s) \in Nat
    BY ConcatProperties, LenProperties
  <2>4. Len(g \o s) = 0
    BY <1>6, <2>1, <2>2
  <2>5. Len(s) = 0
    BY <2>3, <2>4
  <2> QED BY <2>5, EmptySeq
<1> QED BY <1>1, <1>4, <1>5, <1>6

\* Two sequences together are empty when both are.
LEMMA BothEmpty ==
  ASSUME NEW S, NEW s \in Seq(S), NEW t \in Seq(S)
  PROVE  s \o t = << >> <=> s = << >> /\ t = << >>
<1>1. Len(s \o t) = Len(s) + Len(t) /\ Len(s) \in Nat /\ Len(t) \in Nat
  BY ConcatProperties, LenProperties
<1>2. s \o t = << >> => Len(s) = 0 /\ Len(t) = 0
  BY <1>1
<1>3. << >> \o << >> = << >>
  OBVIOUS
<1> QED BY <1>2, <1>3, EmptySeq

\* The class of an argument in Python is the one of its type.
IsOf(p, av) ==
  /\ av.type \in Numbers => p.type \in Numeric /\ p.value = Amount(av) /\ Amount(av) \in Int
  /\ av.type = AMF_STRING => p.type = "str" /\ (p.value = << >> <=> av.value = << >>)
  /\ av.type = AMF_ARRAY => p.type = "list" /\ (p.value = << >> <=> av.value = << >>)
  /\ av.type \notin Numbers \cup {AMF_STRING, AMF_ARRAY} => p.type = "None"

\* And it is so.
LEMMA ClassInPy ==
  ASSUME NEW d \in Nat, d + 1 <= MaxDepth, NEW av \in AVs[d + 1], NEW p, p = av_2_py(av)
  PROVE  IsOf(p, av)
<1>1. d + 1 \in Nat
  OBVIOUS
<1>2. PICK P : p = ValueToPy(P, av)
  BY <1>1, OneToPy
<1>3. ASSUME av.type \in Numbers
      PROVE  p.type \in Numeric /\ p.value = Amount(av) /\ Amount(av) \in Int
  <2>1. CASE av.type = AMF_NUMBER
    <3>1. p = Py("float", Number(av.value)) /\ Amount(av) = Number(av.value)
      BY <1>2, <2>1, ToPyCases DEF Amount
    <3>2. Number(av.value) \in Int
      <4>1. Sized(av.value, 8)
        BY <2>1, AVCases, SizedSelf
      <4> QED BY <4>1, NumberInt
    <3> QED BY <3>1, <3>2 DEF Py, Numeric
  <2>2. CASE av.type # AMF_NUMBER
    <3>1. av.type \in {AMF_BOOLEAN, AMF_LINK}
      BY <1>3, <2>2 DEF Numbers
    <3>2. p = Py("int", av.value[1]) /\ Amount(av) = av.value[1]
      BY <1>2, <2>2, <3>1, ToPyCases DEF Amount
    <3>3. av.value[1] \in Int
      BY <3>1, FirstNumber
    <3> QED BY <3>2, <3>3 DEF Py, Numeric
  <2> QED BY <2>1, <2>2
<1>4. ASSUME av.type = AMF_STRING
      PROVE  p.type = "str" /\ (p.value = << >> <=> av.value = << >>)
  <2>1. p = Py("str", av.value)
    BY <1>2, <1>4, ToPyCases
  <2> QED BY <2>1 DEF Py
<1>5. ASSUME av.type = AMF_ARRAY
      PROVE  p.type = "list" /\ (p.value = << >> <=> av.value = << >>)
  <2>1. av.value \in Seq(AVs[d])
    BY <1>5, AVCases
  <2>2. PICK n \in Nat : n = Len(av.value) /\ (n = 0 <=> av.value = << >>)
    BY <2>1, EmptySeq, LenProperties
  <2>3. PICK t : t = [i \in 1 .. n |-> P[av.value[i]]] /\ p = Py("list", t)
    BY <1>2, <1>5, <2>2, ToPyCases DEF av_list_2_py
  <2>4. t = << >> <=> n = 0
    <3>1. DOMAIN t = 1 .. n /\ DOMAIN << >> = 1 .. 0
      BY <2>3
    <3>2. n = 0 => t = << >>
      BY <2>3
    <3>3. t = << >> => 1 .. n = 1 .. 0
      BY <3>1
    <3>4. 1 .. n = 1 .. 0 => n = 0
      OBVIOUS
    <3> QED BY <3>2, <3>3, <3>4
  <2> QED BY <2>2, <2>3, <2>4 DEF Py
<1>6. ASSUME av.type \notin Numbers \cup {AMF_STRING, AMF_ARRAY} PROVE p.type = "None"
  <2>1. p = None
    BY <1>2, <1>6, ToPyCases DEF Numbers
  <2> QED BY <2>1 DEF None, Py
<1> QED BY <1>3, <1>4, <1>5, <1>6 DEF IsOf

\* The classes of two arguments are those of Rpc.
LEMMA WrongInPy ==
  ASSUME NEW args, Len(args) = 2, NEW a, NEW b, IsOf(a, args[1]), IsOf(b, args[2])
  PROVE  Addable(a, b) <=> ~Wrong(args)
<1>1. /\ AMF_STRING \notin Numbers /\ AMF_ARRAY \notin Numbers /\ AMF_STRING # AMF_ARRAY
  BY DEF Numbers, AMF_STRING, AMF_ARRAY, AMF_NUMBER, AMF_BOOLEAN, AMF_LINK
<1>2. /\ "str" \notin Numeric /\ "list" \notin Numeric /\ "None" \notin Numeric
      /\ "str" # "list" /\ "None" # "list" /\ "None" # "str"
  BY DEF Numeric
<1>3. Wrong(args) <=> ~ \/ args[1].type \in Numbers /\ args[2].type \in Numbers
                        \/ args[1].type = args[2].type /\ args[1].type \in {AMF_STRING, AMF_ARRAY}
  BY DEF Wrong
<1>4. /\ args[1].type \in Numbers <=> a.type \in Numeric
      /\ args[1].type = AMF_STRING <=> a.type = "str"
      /\ args[1].type = AMF_ARRAY <=> a.type = "list"
  BY <1>1, <1>2 DEF IsOf
<1>5. /\ args[2].type \in Numbers <=> b.type \in Numeric
      /\ args[2].type = AMF_STRING <=> b.type = "str"
      /\ args[2].type = AMF_ARRAY <=> b.type = "list"
  BY <1>1, <1>2 DEF IsOf
<1> QED BY <1>1, <1>2, <1>3, <1>4, <1>5 DEF Addable

\* What testbad.py returns is false for the arguments that Rpc calls zero, and for no others;
\* of open ones that is not known.
LEMMA ZeroInPy ==
  ASSUME NEW args, Len(args) = 2, ~Wrong(args), NEW a, NEW b, IsOf(a, args[1]), IsOf(b, args[2]),
         NEW d \in Nat, a \in Pys[d + 1], b \in Pys[d + 1]
  PROVE  ~Open(args) => Answered(PlusTimes(a, b, 7)) = {~Zero(args)}
<1>1. /\ AMF_STRING \notin Numbers /\ AMF_ARRAY \notin Numbers /\ AMF_STRING # AMF_ARRAY
  BY DEF Numbers, AMF_STRING, AMF_ARRAY, AMF_NUMBER, AMF_BOOLEAN, AMF_LINK
<1>2. "str" \notin Numeric /\ "list" \notin Numeric /\ "float" \in Numeric /\ "int" \in Numeric
  BY DEF Numeric
<1>3. CASE args[1].type \in Numbers
  <2>1. args[2].type \in Numbers
    BY <1>1, <1>3 DEF Wrong
  <2>2. PICK x \in Int, y \in Int :
          /\ x = Amount(args[1]) /\ y = Amount(args[2]) /\ a.value = x /\ b.value = y
          /\ a.type \in Numeric
    BY <1>3, <2>1 DEF IsOf
  <2>3. PICK t \in Numeric : PlusTimes(a, b, 7) = Py(t, x + y * 7)
    BY <1>2, <2>2 DEF PlusTimes
  <2>4. PICK r : r = x + y * 7 /\ r = Sum(args)
    <3>1. x + y * 7 = x + 7 * y
      BY <2>2
    <3> QED BY <2>2, <3>1 DEF Sum
  <2>5. Zero(args) <=> r = 0
    BY <1>3, <2>4 DEF Zero
  <2>6. ~Open(args) => ~Uncertain(r)
    BY <1>3, <2>4 DEF Open
  <2>7. ~Uncertain(r) => Answered(Py(t, r)) = {r # 0}
    BY DEF Answered, Truthy, Py
  <2> QED BY <2>3, <2>4, <2>5, <2>6, <2>7
<1>4. CASE args[1].type \notin Numbers
  <2>1. args[1].type = args[2].type /\ args[1].type \in {AMF_STRING, AMF_ARRAY}
    BY <1>4 DEF Wrong
  <2>2. /\ a.type = b.type /\ a.type \in {"str", "list"}
        /\ a.value = << >> <=> args[1].value = << >>
        /\ b.value = << >> <=> args[2].value = << >>
    BY <2>1 DEF IsOf
  <2>3. PICK S : a.value \in Seq(S) /\ b.value \in Seq(S)
    BY <2>2, PyCases
  <2>4. PICK w \in Seq(S) : w = FlattenSeq([i \in 1 .. 7 |-> b.value]) /\ (w = << >> <=> b.value = << >>)
    BY <2>3, SevenTimes
  <2>5. PlusTimes(a, b, 7) = Py(a.type, a.value \o w)
    BY <1>2, <2>2, <2>4 DEF PlusTimes
  <2>6. a.value \o w = << >> <=> a.value = << >> /\ w = << >>
    BY <2>3, BothEmpty
  <2>7. Answered(Py(a.type, a.value \o w)) = {a.value \o w # << >>}
    BY <1>2, <2>2 DEF Answered, Truthy, Py
  <2>8. Zero(args) <=> args[1].value = << >> /\ args[2].value = << >>
    BY <1>4 DEF Zero
  <2> QED BY <2>2, <2>4, <2>5, <2>6, <2>7, <2>8
<1> QED BY <1>3, <1>4

-----------------------------------------------------------------------------
(* The answers of each class.                                               *)

\* What AnsweredAsInRpc says of a call, its arguments, an application and what is read first
\* in each packet.
Called(c)  == << greeting, NumberAV(c.id + 1) >>
Replied(c) == << _result, NumberAV(c.id) >>

HeadsOfClass(c, args, heads) ==
  heads \in IF Wrong(args) THEN {<< >>}
            ELSE IF Open(args) THEN {<< Called(c) >>, << Called(c), Replied(c) >>}
            ELSE IF Zero(args) THEN {<< Called(c) >>}
            ELSE {<< Called(c), Replied(c) >>}

InRpc(c, args, a, heads) ==
  c.method = add /\ args = c.args =>
    IF a = "demo" THEN heads = << Replied(c), Called(c) >> ELSE HeadsOfClass(c, args, heads)

Heads == [i \in 1 .. Len(out) |-> SubSeq(Packets[i], 1, 2)]

\* AnsweredAsInRpc in these words, now and after a step.
LEMMA AnsweredInRpc ==
  ASSUME AnsweredAsInRpc, pc = "done"
  PROVE  InRpc(call, argv, app, Heads)
BY ZenonT(30) DEF AnsweredAsInRpc, InRpc, HeadsOfClass, Heads, Called, Replied

LEMMA AnsweredInRpcNext ==
  ASSUME pc' = "done" => InRpc(call', argv', app', Heads')
  PROVE  AnsweredAsInRpc'
BY ZenonT(30) DEF AnsweredAsInRpc, InRpc, HeadsOfClass, Heads, Called, Replied

\* Whatever the value is, the client sees whose answer it is.
LEMMA HeadOfReply ==
  ASSUME HeadInv, pc = "dispatch", 2 <= MaxDepth, id \in Int, NEW value \in AVs[MaxDepth]
  PROVE  /\ SubSeq(Seen(Return(value)), 1, 2) = Replied(call)
         /\ SubSeq(Seen(Calls(greeting, value)), 1, 2) = Called(call)
<1>1. id = call.id
  BY DEF HeadInv
<1>2. /\ ReplyOf(value)[1] = _result /\ ReplyOf(value)[2] = NumberAV(id)
      /\ CallOf(value)[1] = greeting /\ CallOf(value)[2] = NumberAV(id + 1)
  BY DEF ReplyOf, CallOf
<1>3. /\ SubSeq(Seen(Return(value)), 1, 2) = << ReplyOf(value)[1], ReplyOf(value)[2] >>
      /\ SubSeq(Seen(Calls(greeting, value)), 1, 2) = << CallOf(value)[1], CallOf(value)[2] >>
  BY BothShown DEF Shown
<1> QED BY <1>1, <1>2, <1>3 DEF Replied, Called

LEMMA HeadsOfTwo ==
  ASSUME NEW p, NEW q, Packets' = << p, q >>, Len(out') = 2
  PROVE  Heads' = << SubSeq(p, 1, 2), SubSeq(q, 1, 2) >>
<1>1. PICK ps : ps = << p, q >>
  OBVIOUS
<1>2. ps[1] = p /\ ps[2] = q
  BY <1>1
<1>3. Heads' = [i \in 1 .. 2 |-> SubSeq(ps[i], 1, 2)]
  BY <1>1 DEF Heads
<1>4. [i \in 1 .. 2 |-> SubSeq(ps[i], 1, 2)] = << SubSeq(ps[1], 1, 2), SubSeq(ps[2], 1, 2) >>
  OBVIOUS
<1> QED BY <1>2, <1>3, <1>4

LEMMA HeadsOfOne ==
  ASSUME NEW p, Packets' = << p >>, Len(out') = 1
  PROVE  Heads' = << SubSeq(p, 1, 2) >>
<1>1. PICK ps : ps = << p >>
  OBVIOUS
<1>2. ps[1] = p
  BY <1>1
<1>3. Heads' = [i \in 1 .. 1 |-> SubSeq(ps[i], 1, 2)]
  BY <1>1 DEF Heads
<1>4. [i \in 1 .. 1 |-> SubSeq(ps[i], 1, 2)] = << SubSeq(ps[1], 1, 2) >>
  OBVIOUS
<1> QED BY <1>2, <1>3, <1>4

\* The demo server replies first.
LEMMA DemoInRpc ==
  ASSUME IInv, HeadInv, OnAddDemo, pc' = "done"
  PROVE  Heads' = << Replied(call), Called(call) >>
<1>1. PICK v1, v2 : /\ Packets' = << ReplyOf(NumberAV(v1 + v2)), CallOf(String(104)) >>
                    /\ Len(out') = 2
  BY DemoSeen
<1>2. id = call.id
  BY DEF OnAddDemo, Dispatch, HeadInv
<1>3. Heads' = << SubSeq(ReplyOf(NumberAV(v1 + v2)), 1, 2), SubSeq(CallOf(String(104)), 1, 2) >>
  BY <1>1, HeadsOfTwo
<1>4. ASSUME NEW a, NEW b, NEW c, NEW d, NEW t, t = << a, b, c, d >>
      PROVE  SubSeq(t, 1, 2) = << a, b >>
  <2>1. PICK S : S = {a, b, c, d}
    OBVIOUS
  <2>2. t \in Seq(S) /\ Len(t) = 4 /\ t[1] = a /\ t[2] = b
    BY <1>4, <2>1
  <2> QED BY <2>2, FirstTwo
<1> QED BY <1>2, <1>3, <1>4 DEF ReplyOf, CallOf, Replied, Called

\* testbad.py calls first, and may not reply.
LEMMA TwistedInRpc ==
  ASSUME IInv, HeadInv, OnAddTwisted, pc' = "done"
  PROVE  HeadsOfClass(call, argv, Heads')
<1>1. PICK a, b : a = av_2_py(argv[1]) /\ b = av_2_py(argv[2])
  OBVIOUS
<1>2. ASSUME Len(argv) = 2
      PROVE  /\ IsOf(a, argv[1]) /\ IsOf(b, argv[2])
             /\ \E d \in Nat : a \in Pys[d + 1] /\ b \in Pys[d + 1]
  <2>1. PICK d \in Nat : /\ d + 1 <= MaxDepth
                         /\ argv[1] \in AVs[d + 1] /\ argv[2] \in AVs[d + 1]
    BY <1>2, ArgvType
  <2>2. d + 1 \in Nat
    OBVIOUS
  <2>3. a \in Pys[d + 1] /\ b \in Pys[d + 1]
    BY <1>1, <2>1, <2>2, av_2_pyType
  <2> QED BY <1>1, <2>1, <2>3, ClassInPy
<1>3. CASE (Len(argv) # 2 \/ ~Addable(a, b)) /\ Packets' = << >> /\ Len(out') = 0
  <2>1. Wrong(argv)
    <3>1. CASE Len(argv) # 2
      BY <3>1 DEF Wrong
    <3>2. CASE Len(argv) = 2
      BY <1>2, <1>3, <3>2, WrongInPy
    <3> QED BY <3>1, <3>2
  <2>2. Heads' = << >>
    BY <1>3 DEF Heads
  <2> QED BY <2>1, <2>2 DEF HeadsOfClass
<1>4. CASE /\ Len(argv) = 2 /\ Addable(a, b)
           /\ \E x, y, answered : TwistedAnswer(a, b, x, y, answered)
  <2>1. PICK x, y, answered : TwistedAnswer(a, b, x, y, answered)
    BY <1>4
  <2>2. ~Wrong(argv)
    BY <1>2, <1>4, WrongInPy
  <2>3. answered \in BOOLEAN /\ (~Open(argv) => (answered <=> ~Zero(argv)))
    <3>1. ~Open(argv) => Answered(PlusTimes(a, b, 7)) = {~Zero(argv)}
      BY <1>2, <1>4, <2>2, ZeroInPy
    <3>2. PICK r : r = PlusTimes(a, b, 7) /\ answered \in Answered(r)
      BY <2>1 DEF TwistedAnswer
    <3>3. answered \in BOOLEAN
      BY <3>2 DEF Answered, Truthy
    <3>4. ~Open(argv) => answered = ~Zero(argv)
      BY <3>1, <3>2
    <3> QED BY <3>3, <3>4
  <2>4. /\ x \in AVs[MaxDepth] /\ y \in AVs[MaxDepth]
        /\ 2 <= MaxDepth /\ id \in Int /\ pc = "dispatch"
    BY <2>1, DepthRoom DEF TwistedAnswer, OnAddTwisted, Dispatch
  <2>5. PICK p, q : p = Seen(Calls(greeting, x)) /\ q = Seen(Return(y))
    OBVIOUS
  <2>6. SubSeq(p, 1, 2) = Called(call) /\ SubSeq(q, 1, 2) = Replied(call)
    BY <2>4, <2>5, HeadOfReply
  <2>7. ~answered => Heads' = << Called(call) >>
    <3> HAVE ~answered
    <3>1. Packets' = << p >> /\ Len(out') = 1
      BY <2>1, <2>5 DEF TwistedAnswer
    <3> QED BY <2>6, <3>1, HeadsOfOne
  <2>8. answered => Heads' = << Called(call), Replied(call) >>
    <3> HAVE answered
    <3>1. Packets' = << p, q >> /\ Len(out') = 2
      BY <2>1, <2>5 DEF TwistedAnswer
    <3> QED BY <2>6, <3>1, HeadsOfTwo
  <2> QED BY <2>2, <2>3, <2>7, <2>8 DEF HeadsOfClass
<1> QED BY <1>1, <1>3, <1>4, TwistedSeen

\* No step answers otherwise.
LEMMA InRpcStep ==
  ASSUME IInv, HeadInv, AnsweredAsInRpc, [Next]_vars
  PROVE  AnsweredAsInRpc'
<1> SUFFICES ASSUME pc' = "done" PROVE InRpc(call', argv', app', Heads')
  BY AnsweredInRpcNext
<1>1. CASE ReadHead \/ ReadArgument \/ ArgumentsRead
  <2>1. pc' # "done"
    BY <1>1 DEF ReadHead, ReadArgument, ArgumentsRead, Abort, Crash
  <2> QED BY <2>1
<1>2. CASE OnConnect \/ OnUnknown
  <2>1. call.method # add /\ call' = call
    BY <1>2, MethodRead, MethodsDiffer, ApplicationFrame DEF OnConnect, OnUnknown, Dispatch
  <2> QED BY <2>1 DEF InRpc
<1>3. CASE OnAddDemo
  <2>1. call' = call /\ app' = app /\ app = "demo"
    BY <1>3, ApplicationFrame DEF OnAddDemo
  <2>2. Heads' = << Replied(call), Called(call) >>
    BY <1>3, DemoInRpc
  <2> QED BY <2>1, <2>2 DEF InRpc
<1>4. CASE OnAddTwisted
  <2>1. call' = call /\ app' = app /\ app = "twisted" /\ argv' = argv
    BY <1>4, ApplicationFrame DEF OnAddTwisted
  <2>2. HeadsOfClass(call, argv, Heads')
    BY <1>4, TwistedInRpc
  <2> QED BY <2>1, <2>2 DEF InRpc
<1>5. CASE UNCHANGED vars
  <2>1. pc = "done" /\ call' = call /\ app' = app /\ argv' = argv /\ out' = out
    BY <1>5 DEF vars
  <2>2. Heads' = Heads
    BY <2>1 DEF Heads, Packets
  <2> QED BY <2>1, <2>2, AnsweredInRpc
<1> QED BY <1>1, <1>2, <1>3, <1>4, <1>5 DEF Next

\* For all arguments that can be read, however deep, the packets that come back are those
\* that Rpc has for the class of the arguments, in its order and under its ids: the classes
\* that Rpc names are the ones the codec and the Python binding really tell apart.  If a number
\* is not known here, its class is not either, and it is answered in one way or the other.
THEOREM InvocationAnsweredAsInRpc == Spec => []AnsweredAsInRpc
<1>1. Init => HeadInv /\ AnsweredAsInRpc
  BY DEF Init, HeadInv, AnsweredAsInRpc
<1>2. IInv /\ HeadInv /\ AnsweredAsInRpc /\ [Next]_vars => HeadInv' /\ AnsweredAsInRpc'
  BY HeadInvStep, InRpcStep
<1> QED BY <1>1, <1>2, InvocationInvariant, PTL DEF Spec

===============================================================================
