----------------------------- MODULE PoolProofs -----------------------------
(***************************************************************************)
(* The blocks of a pool lie inside its trunks and apart from each other,   *)
(* whatever sizes are asked for and however often the pool is reset.       *)
(***************************************************************************)
EXTENDS Pool, TLAPS

\* The inductive invariant holds of a new pool.
LEMMA InitInv == Init => IInv
<1> SUFFICES ASSUME Init PROVE IInv
  OBVIOUS
<1>1. trunks = << Granu >> /\ Granu \in Nat
  BY PoolAssumption DEF PoolAssumption, Init
<1>2. trunks \in Seq(Nat) /\ Len(trunks) = 1 /\ trunks[1] = Granu
  BY <1>1
<1>3. TypeOK
  BY <1>1, <1>2 DEF Init, TypeOK
<1>4. BlocksInside /\ BlocksDisjoint
  BY DEF Init, BlocksInside, BlocksDisjoint
<1>5. Bump
  BY <1>1, <1>2 DEF Init, Bump
<1> QED
  BY <1>3, <1>4, <1>5 DEF IInv

\* A block that fits behind the last one ends at the new bump offset.
LEMMA AllocHereInv == ASSUME IInv, NEW size \in Sizes, AllocHere(size)
                      PROVE  IInv'
<1> DEFINE new == [trunk |-> Len(trunks), offset |-> curr_used, size |-> size]
<1>1. /\ size \in Nat /\ ~freed /\ size <= curr_capacity - curr_used
      /\ blocks' = blocks \cup {new}
      /\ curr_used' = curr_used + size /\ used_size' = used_size + size
      /\ UNCHANGED << trunks, curr_capacity, freed >>
  BY PoolAssumption DEF PoolAssumption, AllocHere, Alloc, HandOut
<1>2. /\ trunks \in Seq(Nat) /\ trunks # << >> /\ Len(trunks) \in Nat \ {0}
      /\ curr_used \in Nat /\ curr_capacity \in Nat /\ used_size \in Nat
      /\ blocks \subseteq Block
      /\ curr_capacity = trunks[Len(trunks)]
      /\ new \in Block
  BY <1>1 DEF IInv, TypeOK, Bump, Block
<1>3. TypeOK'
  BY <1>1, <1>2 DEF IInv, TypeOK
<1>4. BlocksInside'
  BY <1>1, <1>2 DEF IInv, BlocksInside
<1>5. Bump'
  <2>1. \A b \in blocks' : b.trunk = Len(trunks) => b.offset + b.size <= curr_used + size
    BY <1>1, <1>2 DEF IInv, Bump, Block
  <2> QED
    BY <1>1, <1>2, <2>1 DEF IInv, Bump
<1>6. BlocksDisjoint'
  <2>1. ASSUME NEW b \in blocks PROVE Apart(new, b) /\ Apart(b, new)
    BY <1>1, <1>2 DEF IInv, Bump, Apart, Block
  <2> QED
    BY <1>1, <2>1 DEF IInv, BlocksDisjoint
<1> QED
  BY <1>3, <1>4, <1>5, <1>6 DEF IInv

\* A block that does not fit is the first of a trunk of its own.
LEMMA AllocTrunkInv == ASSUME IInv, NEW size \in Sizes, AllocTrunk(size)
                       PROVE  IInv'
<1> DEFINE new == [trunk |-> Len(trunks) + 1, offset |-> 0, size |-> size]
<1>1. /\ size \in Nat /\ ~freed
      /\ blocks' = blocks \cup {new}
      /\ trunks' = Append(trunks, TrunkSize(size))
      /\ curr_used' = size /\ used_size' = used_size + size
      /\ curr_capacity' = TrunkSize(size)
      /\ UNCHANGED freed
  BY PoolAssumption DEF PoolAssumption, AllocTrunk, Alloc, HandOut
<1>2. TrunkSize(size) \in Nat /\ size <= TrunkSize(size)
  BY <1>1, PoolAssumption DEF PoolAssumption, TrunkSize
<1>3. /\ trunks \in Seq(Nat) /\ trunks # << >> /\ Len(trunks) \in Nat \ {0}
      /\ trunks[1] = Granu /\ used_size \in Nat
      /\ blocks \subseteq Block
      /\ new \in Block
  BY <1>1 DEF IInv, TypeOK, Bump, Block
<1>4. /\ trunks' \in Seq(Nat) /\ Len(trunks') = Len(trunks) + 1
      /\ \A t \in 1 .. Len(trunks) : trunks'[t] = trunks[t]
      /\ trunks'[Len(trunks) + 1] = TrunkSize(size)
  BY <1>1, <1>2, <1>3
<1>5. \A b \in blocks : b.trunk \in 1 .. Len(trunks)
  BY DEF IInv, BlocksInside
<1>6. TypeOK'
  BY <1>1, <1>2, <1>3, <1>4 DEF IInv, TypeOK
<1>7. BlocksInside'
  BY <1>1, <1>2, <1>3, <1>4 DEF IInv, BlocksInside
<1>8. Bump'
  BY <1>1, <1>2, <1>3, <1>4, <1>5 DEF Bump
<1>9. BlocksDisjoint'
  <2>1. ASSUME NEW b \in blocks PROVE Apart(new, b) /\ Apart(b, new)
    BY <1>3, <1>5 DEF Apart
  <2> QED
    BY <1>1, <2>1 DEF IInv, BlocksDisjoint
<1> QED
  BY <1>6, <1>7, <1>8, <1>9 DEF IInv

\* A reset leaves the root trunk and no block.
LEMMA ResetInv == IInv /\ Reset => IInv'
<1> SUFFICES ASSUME IInv, Reset PROVE IInv'
  OBVIOUS
<1>1. trunks' = << Granu >> /\ Granu \in Nat /\ ~freed
  BY PoolAssumption DEF PoolAssumption, Reset, IInv, Bump
<1>2. trunks' \in Seq(Nat) /\ Len(trunks') = 1 /\ trunks'[1] = Granu
  BY <1>1
<1> QED
  BY <1>1, <1>2 DEF Reset, IInv, TypeOK, BlocksInside, BlocksDisjoint, Bump, Block

\* A freed pool has neither trunks nor blocks.
LEMMA FreeInv == IInv /\ Free => IInv'
  BY PoolAssumption
  DEF PoolAssumption, Free, IInv, TypeOK, BlocksInside, BlocksDisjoint, Bump, Block

\* Every operation of rt_pool.c preserves the inductive invariant.
LEMMA NextInv == IInv /\ [Next]_vars => IInv'
<1> SUFFICES ASSUME IInv, [Next]_vars PROVE IInv'
  OBVIOUS
<1>1. CASE \E size \in Sizes : AllocHere(size) \/ AllocTrunk(size)
  BY <1>1, AllocHereInv, AllocTrunkInv
<1>2. CASE Reset
  BY <1>2, ResetInv
<1>3. CASE Free
  BY <1>3, FreeInv
<1>4. CASE UNCHANGED vars
  BY <1>4 DEF vars, IInv, TypeOK, BlocksInside, BlocksDisjoint, Bump
<1> QED
  BY <1>1, <1>2, <1>3, <1>4 DEF Next

\* The inductive invariant holds of every reachable state of a pool.
THEOREM PoolInvariant == Spec => []IInv
  BY InitInv, NextInv, PTL DEF Spec

\* A pool's variables keep their types, for every choice of sizes and bounds.
THEOREM PoolTypeOK == Spec => []TypeOK
<1>1. IInv => TypeOK
  BY DEF IInv
<1> QED
  BY PoolInvariant, <1>1, PTL

\* Every block rt_pool_alloc has handed out lies in a trunk the pool still owns.
THEOREM PoolBlocksInside == Spec => []BlocksInside
<1>1. IInv => BlocksInside
  BY DEF IInv
<1> QED
  BY PoolInvariant, <1>1, PTL

\* Blocks handed out by rt_pool_alloc since the last reset never overlap.
THEOREM PoolBlocksDisjoint == Spec => []BlocksDisjoint
<1>1. IInv => BlocksDisjoint
  BY DEF IInv
<1> QED
  BY PoolInvariant, <1>1, PTL

\* The bump offset is that of the newest trunk and below its size, before and after
\* every reset: all blocks of that trunk lie below it.
THEOREM PoolBump == Spec => []Bump
<1>1. IInv => Bump
  BY DEF IInv
<1> QED
  BY PoolInvariant, <1>1, PTL

=============================================================================
