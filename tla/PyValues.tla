------------------------------- MODULE PyValues -------------------------------
(***************************************************************************)
(* What becomes of AMF values in Python and of Python values in AMF:       *)
(* bindings/python/py_amf.c.  A Python value is a type and a value.        *)
(*                                                                         *)
(* Of the numbers that eight bytes can encode, the whole ones between      *)
(* -4095 and 4095 are known here; every other is Unknown, and so is what   *)
(* is made of one.                                                         *)
(***************************************************************************)
EXTENDS Amf

Py(type, value) == [type |-> type, value |-> value]
None == Py("None", << >>)

Numeric == {"float", "int"}

Pys == Nested([type : Numeric, value : Int] \cup [type : {"str"}, value : Seq(Byte)] \cup
              [type : {"bool"}, value : {0, 1}] \cup {None},
              {"list"}, {"dict"})

PyDepth(v) == CHOOSE d \in 1 .. MaxDepth : v \in Pys[d]

Powers == << 1, 2, 4, 8, 16, 32, 64, 128, 256, 512, 1024, 2048 >>

Known   == -4095 .. 4095
Unknown == 10000000

\* The exponent of a natural number below 4096, and what follows its first digit.
Exponent(n) == CHOOSE k \in 0 .. 11 : n \in Powers[k + 1] .. 2 * Powers[k + 1] - 1
Fraction(n, p) == ((n - p) * 4096) \div p

\* The bytes in memory of a known number that is positive; with the sign bit, it is negative.
Digits(n, sign) ==
  LET e == Exponent(n)
      f == Fraction(n, Powers[e + 1])
  IN << 0, 0, 0, 0, 0, f % 256, ((1023 + e) % 16) * 16 + f \div 256,
        sign * 128 + (1023 + e) \div 16 >>

\* The bytes in memory of a double; of one that is not known, those of no number at all.
Double(n) ==
  CASE n = 0           -> << 0, 0, 0, 0, 0, 0, 0, 0 >>
    [] n \in 1 .. 4095 -> Digits(n, 0)
    [] -n \in 1 .. 4095 -> Digits(-n, 1)
    [] OTHER           -> << 0, 0, 0, 0, 0, 0, 248, 127 >>

\* The number that eight bytes encode.
Number(bytes) ==
  LET e    == (bytes[8] % 128) * 16 + bytes[7] \div 16 - 1023
      f    == (bytes[7] % 16) * 256 + bytes[6]
      p    == Powers[e + 1]
      n    == p + (f * p) \div 4096
      sign == bytes[8] \div 128
  IN IF bytes = Double(0) THEN 0
     ELSE IF e \in 0 .. 11 /\ bytes = Digits(n, sign)
       THEN (IF sign = 0 THEN n ELSE -n)
       ELSE Unknown

NumberAV(n) == Value(AMF_NUMBER, Double(n))

-----------------------------------------------------------------------------
(* From AMF to Python.                                                     *)

av_list_2_py(P, items) == Py("list", [i \in 1 .. Len(items) |-> P[items[i]]])

\* A dictionary is built for a table, and None is returned.
ValueToPy(P, av) ==
  CASE av.type = AMF_NUMBER  -> Py("float", Number(av.value))
    [] av.type = AMF_BOOLEAN -> Py("int", av.value[1])
    [] av.type = AMF_LINK    -> Py("int", av.value[1])
    [] av.type = AMF_STRING  -> Py("str", av.value)
    [] av.type = AMF_ARRAY   -> av_list_2_py(P, av.value)
    [] OTHER                 -> None

ToPy[d \in Nat] == IF d = 0 THEN << >> ELSE [av \in AVs[d] |-> ValueToPy(ToPy[d - 1], av)]

av_2_py(av) == ToPy[Depth(av)][av]

-----------------------------------------------------------------------------
(* From Python to AMF.  Integers, None and everything else that is not     *)
(* listed leave the value as the memory was: `left`.                       *)

\* Broken: floats are not listed.
Py2LeafNoFloat(v, left) ==
  CASE v.type = "str"  -> Value(AMF_STRING, v.value)
    [] v.type = "bool" -> Value(AMF_BOOLEAN, << v.value >>)
    [] OTHER           -> left

Py2Leaf(v, left) ==
  CASE v.type = "str"   -> Value(AMF_STRING, v.value)
    [] v.type = "bool"  -> Value(AMF_BOOLEAN, << v.value >>)
    [] v.type = "float" -> NumberAV(v.value)
    [] OTHER            -> left

PyToValue(P, v, left) ==
  CASE v.type = "dict" ->
         Value(AMF_HASH, [i \in 1 .. Len(v.value) |-> Elem(v.value[i].key, P[v.value[i].value])])
    [] v.type = "list" -> Value(AMF_ARRAY, [i \in 1 .. Len(v.value) |-> P[v.value[i]]])
    [] OTHER -> Py2Leaf(v, left)

FromPy(left) ==
  LET from[d \in Nat] ==
        IF d = 0 THEN << >> ELSE [v \in Pys[d] |-> PyToValue(from[d - 1], v, left)]
  IN from

py_2_av(v, left) == FromPy(left)[PyDepth(v)][v]

\* Some of the value is memory that nobody wrote.
Unwritten(v) == py_2_av(v, Nil) # py_2_av(v, End)

-----------------------------------------------------------------------------
(* a + b * k, as Python has it for these values.                           *)

Addable(a, b) ==
  \/ a.type \in Numeric /\ b.type \in Numeric
  \/ a.type = b.type /\ a.type \in {"str", "list"}

PlusTimes(a, b, k) ==
  IF a.type \in Numeric
    THEN Py(IF "float" \in {a.type, b.type} THEN "float" ELSE "int", a.value + b.value * k)
    ELSE Py(a.type, a.value \o FlattenSeq([i \in 1 .. k |-> b.value]))

\* A number that something unknown is in.  The known ones, and what links can add, are far
\* less.
Uncertain(n) == n >= Unknown \div 2

\* What `if ret` asks.
Truthy(v) == IF v.type \in Numeric THEN v.value # 0 ELSE v.value # << >>

=============================================================================
