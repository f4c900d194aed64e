-------------------------------- MODULE Pool --------------------------------
(***************************************************************************)
(* The memory pool of core/src/rt_pool.c.  A pool owns a root trunk and    *)
(* grows by further trunks, newest last; allocation bumps an offset in the *)
(* newest trunk and never looks back at the older ones.  Single blocks are *)
(* never freed: a reset releases every trunk but the root.                 *)
(*                                                                         *)
(* An address is a trunk and an offset in it.  `blocks`, which no action   *)
(* reads, holds the blocks handed out since the last reset.                *)
(***************************************************************************)
EXTENDS Naturals, Sequences

CONSTANTS Granu,      \* POOL_GRANU: 2048
          Extra,      \* POOL_EXTRA_SPACE: 2048
          Sizes,      \* the sizes asked for
          MaxBytes    \* bound on the bytes handed out between two resets

ASSUME PoolAssumption == /\ Granu \in Nat \ {0} /\ Extra \in Nat
                         /\ Sizes \subseteq Nat /\ MaxBytes \in Nat

VARIABLES trunks,         \* the capacity of each trunk, the root first
          curr_used,      \* the first free offset of the newest trunk
          curr_capacity,  \* what is believed to be that trunk's capacity
          used_size,      \* bytes handed out since the last reset
          freed,          \* rt_pool_free has released the root trunk
          blocks

vars == << trunks, curr_used, curr_capacity, used_size, freed, blocks >>

\* rt_pool_init.
Init == /\ trunks = << Granu >>
        /\ curr_used = 0 /\ curr_capacity = Granu /\ used_size = 0
        /\ freed = FALSE /\ blocks = {}

HandOut(t, offset, size) ==
  blocks' = blocks \cup {[trunk |-> t, offset |-> offset, size |-> size]}

\* Broken: the bytes handed out are subtracted.
AllocRefund(size) ==
  ~freed /\ used_size + size <= MaxBytes /\ used_size' = used_size - size

Alloc(size) == ~freed /\ used_size + size <= MaxBytes /\ used_size' = used_size + size

\* rt_pool_alloc: the block fits behind the last one.
AllocHere(size) ==
  /\ Alloc(size)
  /\ size <= curr_capacity - curr_used
  /\ HandOut(Len(trunks), curr_used, size)
  /\ curr_used' = curr_used + size
  /\ UNCHANGED << trunks, curr_capacity, freed >>

\* The capacity of a new trunk that starts with a block of this size.
TrunkSize(size) == IF size + Extra < Granu THEN Granu ELSE size + Extra

\* Broken: the block that made a new trunk necessary is not accounted for.
AllocTrunkUnused(size) ==
  /\ Alloc(size)
  /\ size > curr_capacity - curr_used
  /\ HandOut(Len(trunks) + 1, 0, size)
  /\ trunks' = Append(trunks, TrunkSize(size))
  /\ curr_used' = 0
  /\ curr_capacity' = TrunkSize(size)
  /\ UNCHANGED freed

\* rt_pool_alloc: it does not, and a trunk is added.
AllocTrunk(size) ==
  /\ Alloc(size)
  /\ size > curr_capacity - curr_used
  /\ HandOut(Len(trunks) + 1, 0, size)
  /\ trunks' = Append(trunks, TrunkSize(size))
  /\ curr_used' = size
  /\ curr_capacity' = TrunkSize(size)
  /\ UNCHANGED freed

\* Broken: the capacity of the last trunk outlives it.
ResetKeepsCapacity ==
  /\ ~freed
  /\ trunks' = << trunks[1] >>
  /\ curr_used' = 0 /\ used_size' = 0
  /\ blocks' = {}
  /\ UNCHANGED << curr_capacity, freed >>

\* rt_pool_reset.
Reset ==
  /\ ~freed
  /\ trunks' = << trunks[1] >>
  /\ curr_used' = 0 /\ curr_capacity' = Granu /\ used_size' = 0
  /\ blocks' = {}
  /\ UNCHANGED freed

\* rt_pool_free: a reset, then the root trunk goes as well.
Free ==
  /\ ~freed
  /\ trunks' = << >>
  /\ curr_used' = 0 /\ curr_capacity' = Granu /\ used_size' = 0
  /\ blocks' = {}
  /\ freed' = TRUE

Next == \/ \E size \in Sizes : AllocHere(size) \/ AllocTrunk(size)
        \/ Reset
        \/ Free

Spec == Init /\ [][Next]_vars

-----------------------------------------------------------------------------
(* Properties.                                                             *)

Block == [trunk : Nat, offset : Nat, size : Nat]

\* The variables have their types.
TypeOK ==
  /\ trunks \in Seq(Nat)
  /\ curr_used \in Nat /\ curr_capacity \in Nat /\ used_size \in Nat
  /\ freed \in BOOLEAN
  /\ blocks \subseteq Block

\* Every block lies inside a trunk the pool still owns.
BlocksInside ==
  \A b \in blocks : /\ b.trunk \in 1 .. Len(trunks)
                    /\ b.offset + b.size <= trunks[b.trunk]

\* No two blocks share a byte, so no user of the pool overwrites another's data.
Apart(a, b) == \/ a.trunk # b.trunk
               \/ a.offset + a.size <= b.offset
               \/ b.offset + b.size <= a.offset

BlocksDisjoint == \A a, b \in blocks : a # b => Apart(a, b)

\* The bump offset and the believed capacity are those of the newest trunk, whose
\* blocks all lie below the offset.
Bump ==
  ~freed => /\ trunks # << >>
            /\ trunks[1] = Granu
            /\ curr_capacity = trunks[Len(trunks)]
            /\ curr_used <= curr_capacity
            /\ \A b \in blocks : b.trunk = Len(trunks)
                                 => b.offset + b.size <= curr_used

IInv == TypeOK /\ BlocksInside /\ BlocksDisjoint /\ Bump

=============================================================================
