---------------------------- MODULE MCWriteBuffer ----------------------------
(***************************************************************************)
(* An instance of WriteBuffer for TLC: trunks of a few bytes, so that      *)
(* growing buffers cross from one into the next.                           *)
(***************************************************************************)
EXTENDS WriteBuffer

SmallData == { << 1 >>, << 2, 3, 4 >> }

=============================================================================
