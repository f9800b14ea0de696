----------------------------- MODULE Allocator -----------------------------
(***************************************************************************)
(* What kmalloc and kfree promise: blocks of one memory range that do not  *)
(* overlap.                                                                *)
(***************************************************************************)
EXTENDS Naturals

CONSTANTS PoolSize, BlockSizes

VARIABLE live       \* the blocks handed out, as <<start, size>>

Bytes(b) == b[1] .. b[1] + b[2] - 1
Pool == 0 .. PoolSize - 1

\* The addresses where n bytes are free.
Gaps(n) == {a \in Pool : /\ Bytes(<<a, n>>) \subseteq Pool
                         /\ \A b \in live : Bytes(b) \cap Bytes(<<a, n>>) = {}}

Allocate(n) == \E a \in Gaps(n) : live' = live \cup {<<a, n>>}

Free(b) == live' = live \ {b}

AllocatorNext == (\E n \in BlockSizes : Allocate(n)) \/ (\E b \in live : Free(b))

AllocatorSpec == [][AllocatorNext]_live
=============================================================================
