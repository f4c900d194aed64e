------------------------------ MODULE MCInvocation ------------------------------
(* Instances of Invocation for TLC. *)
EXTENDS Invocation

MCMethods == {connect, add, String(85), Nil}

Table == << Elem(<< 75 >>, Value(AMF_BOOLEAN, << 1 >>)), Elem(<< 76, 77 >>, Nil) >>

Assoc == Value(AMF_ASSOC_ARRAY, Table)

\* A value of every type, empty and nested ones, numbers that add up to 0 and one that is not
\* known, one half.  The last string, behind the marker of a Flash player, is read as the last
\* bytes of a number and a string of a negative size.
Values ==
  { NumberAV(0), NumberAV(3), NumberAV(7), NumberAV(-1),
    Value(AMF_NUMBER, << 0, 0, 0, 0, 0, 0, 224, 63 >>), Value(AMF_BOOLEAN, << 0 >>), Value(AMF_BOOLEAN, << 1 >>),
    Value(AMF_STRING, << >>), Value(AMF_STRING, << 0 >>), Nil, Value(AMF_LINK, << -7 >>),
    Value(AMF_ARRAY, << >>), Value(AMF_ARRAY, << NumberAV(4), Value(AMF_ARRAY, << Nil >>) >>),
    Value(AMF_HASH, Table), Value(AMF_HASH, << Elem(<< 72 >>, Value(AMF_HASH, Table)) >>),
    Assoc, Value(AMF_ASSOC_ARRAY, << >>), Value(AMF_ARRAY, << Assoc >>),
    Value(AMF_HASH, << Elem(<< 72 >>, Assoc), Elem(<< 73 >>, Nil) >>),
    Value(AMF_STRING, << 0, 0, 0, 2, 255, 255 >>) }

MCArguments ==
  { << >> } \cup { << v >> : v \in Values } \cup (Values \X Values)
    \cup { << NumberAV(3), NumberAV(7), v >> : v \in Values }

=============================================================================
