---------------------------- MODULE ClusterPool ----------------------------
(***************************************************************************)
(* The kernel heap: kernel/structs/clusterpool.cpp on the fixed-size pool  *)
(* of cluster nodes of kernel/structs/pool.hpp, and kmalloc and kfree of   *)
(* kernel/memory.cpp.  The clusters are linked in a ring in the order of   *)
(* their addresses.  allocate() and free() hold the pool's lock from       *)
(* beginning to end, so each is one step.                                  *)
(***************************************************************************)
EXTENDS Integers, FiniteSetsExt, Functions

CONSTANTS
    PoolSize,       \* ClusterPool::size; the pool starts at address 0
    BlockSizes,     \* the sizes that are requested
    MaxNodes        \* max_entries of the node pool

ASSUME PoolAssumption ==
    /\ PoolSize \in Nat \ {0, 1} /\ MaxNodes \in Nat \ {0, 1}
    /\ BlockSizes \subseteq 1 .. PoolSize

Nodes == 0 .. MaxNodes - 1

VARIABLES
    node,           \* node[i]: the Cluster in slot i of the node pool
    bitmap,         \* the slots that are in use
    cursor,
    bytes_used,
    live,           \* history: the blocks handed out and not freed
    boot            \* the blocks that the kernel allocates at boot and keeps

vars == <<node, bitmap, cursor, bytes_used, live, boot>>

Empty == [start |-> 0, size |-> 0, next |-> 0, prev |-> 0, type |-> "FREE"]

\* init_memory, and the first kmalloc of init_ids, for a pool of ids that is never
\* freed: it takes the end of the one free cluster.
Init ==
    /\ node = [i \in Nodes |->
          CASE i = 0 -> [start |-> 0, size |-> PoolSize - 1, next |-> 1, prev |-> 1,
                         type |-> "FREE"]
            [] i = 1 -> [start |-> PoolSize - 1, size |-> 1, next |-> 0, prev |-> 0,
                         type |-> "USED"]
            [] OTHER -> Empty]
    /\ bitmap = {0, 1}
    /\ cursor = 0 /\ bytes_used = 1
    /\ live = {<<PoolSize - 1, 1>>} /\ boot = live

limit(c) == c.start + c.size
-----------------------------------------------------------------------------
\* Mutant: the request may be larger than the cluster.
Fits_any(i, n) == node[i].type = "FREE"
Fits(i, n) == node[i].type = "FREE" /\ node[i].size >= n

\* The first cluster from the cursor on that fits; none if the search is back at
\* the cursor.
Search(n) ==
    LET at[k \in Nodes] == IF k = 0 THEN cursor ELSE node[at[k - 1]].next
    IN  {k \in Nodes : /\ Fits(at[k], n)
                       /\ \A j \in 0 .. k - 1 : ~Fits(at[j], n)
                       /\ \A j \in 1 .. k : at[j] # cursor}
NodeAt(k) ==
    LET at[j \in Nodes] == IF j = 0 THEN cursor ELSE node[at[j - 1]].next IN at[k]

\* Cluster::splituse: the end of cluster i becomes a cluster of its own, in the
\* first free slot s.
\* Mutant: the successor keeps its link to i.
splituse_keeps(i, s, n) ==
    LET c == [node[i] EXCEPT !.size = @ - n] IN
    [node EXCEPT
       ![s] = [start |-> limit(c), size |-> n, next |-> c.next, prev |-> i, type |-> "USED"],
       ![i] = [c EXCEPT !.next = s]]

splituse(i, s, n) ==
    LET c == [node[i] EXCEPT !.size = @ - n]
        new == [start |-> limit(c), size |-> n, next |-> c.next, prev |-> i, type |-> "USED"]
        split == [node EXCEPT ![s] = new, ![i] = c]
    IN  [[split EXCEPT ![c.next].prev = s] EXCEPT ![i].next = s]

FreeSlot == Min(Nodes \ bitmap)

\* Mutant: the last n bytes of the pool are not given out.
HasRoom_strict(n) == PoolSize > bytes_used + n
HasRoom(n) == PoolSize >= bytes_used + n

\* The two failures, not enough space in total and no cluster that fits, change
\* nothing.
allocate(n) ==
    /\ HasRoom(n)
    /\ \E k \in Search(n) :
         LET i == NodeAt(k) IN
         /\ bytes_used' = bytes_used + n
         /\ cursor' = i
         /\ \/ /\ node[i].size = n
               /\ node' = [node EXCEPT ![i].type = "USED"]
               /\ live' = live \cup {<<node[i].start, n>>}
               /\ UNCHANGED bitmap
            \/ /\ node[i].size # n
               /\ Nodes # bitmap
               /\ node' = splituse(i, FreeSlot, n)
               /\ bitmap' = bitmap \cup {FreeSlot}
               /\ live' = live \cup {<<node'[FreeSlot].start, n>>}
-----------------------------------------------------------------------------
\* Cluster::coalesce_next on the nodes nd: cluster i absorbs its successor.
coalesce_next(nd, i) ==
    LET hold == nd[i].next
        grown == [nd EXCEPT ![i].size = @ + nd[hold].size, ![i].next = nd[hold].next]
    IN  [grown EXCEPT ![grown[i].next].prev = i]

\* Mutant: the boundary test is made at the wrong end of the cluster.
MergesNext_start(nd, i) ==
    nd[nd[i].next].type = "FREE" /\ nd[i].start # 0 /\ nd[i].next # i

MergesNext(nd, i) ==
    /\ nd[nd[i].next].type = "FREE"
    /\ limit(nd[i]) # PoolSize
    /\ nd[i].next # i

MergesPrev(nd, i) == nd[nd[i].prev].type = "FREE" /\ nd[i].next # nd[i].prev

\* Cluster::free of cluster i, and the bookkeeping of ClusterPool::free around
\* it; the search finds the cluster by its start.
free(b) ==
    /\ b \in live \ boot
    /\ \E i \in bitmap :
         /\ node[i].type = "USED" /\ node[i].start = b[1]
         /\ LET freed == [node EXCEPT ![i].type = "FREE"]
                next1 == MergesNext(freed, i)
                nd1   == IF next1 THEN coalesce_next(freed, i) ELSE freed
                prev1 == MergesPrev(nd1, i)
            IN  /\ node' = IF prev1 THEN coalesce_next(nd1, nd1[i].prev) ELSE nd1
                /\ bitmap' = bitmap \ ((IF next1 THEN {freed[i].next} ELSE {})
                                       \cup (IF prev1 THEN {i} ELSE {}))
                /\ cursor' = node[i].prev
                /\ bytes_used' = bytes_used - node[i].size
    /\ live' = live \ {b}

Next ==
    /\ (\E n \in BlockSizes : allocate(n)) \/ (\E b \in live : free(b))
    /\ UNCHANGED boot

Spec == Init /\ [][Next]_vars
-----------------------------------------------------------------------------
\* The clusters that can be reached from the cursor.
Ring ==
    LET at[k \in Nodes] == IF k = 0 THEN cursor ELSE node[at[k - 1]].next
    IN  Range(at)

\* Every variable has its type.
TypeOK ==
    /\ node \in [Nodes -> [start : 0 .. PoolSize, size : 0 .. PoolSize, next : Nodes,
                           prev : Nodes, type : {"FREE", "USED"}]]
    /\ bitmap \subseteq Nodes /\ cursor \in Nodes
    /\ bytes_used \in 0 .. PoolSize

\* Whatever the order of kmalloc and kfree, the clusters in use are linked both
\* ways, in the order of their addresses, and cover the pool without a gap; the
\* last one is followed by the first.  The clusters marked USED are the blocks that
\* callers hold, and bytes_used is their sum.  (Every variable has its type.)
ClustersTileThePool ==
    /\ TypeOK
    /\ Ring = bitmap
    /\ \A i \in bitmap :
         LET nx == node[node[i].next] IN
         /\ nx.prev = i
         /\ nx.start = IF limit(node[i]) = PoolSize THEN 0 ELSE limit(node[i])
    /\ MapThenSumSet(LAMBDA i : node[i].size, bitmap) = PoolSize
    /\ live = {<<node[i].start, node[i].size>> : i \in {j \in bitmap : node[j].type = "USED"}}
    /\ bytes_used = MapThenSumSet(LAMBDA b : b[2], live)

\* "Coalesce unique neighboring nodes with this one if they also are free": no
\* free cluster is followed by a free cluster, except across the end of the pool.  So
\* the node pool needs at most two nodes for a block that somebody holds.
FreedSpaceIsCoalesced ==
    /\ \A i \in Ring :
         node[i].type = "FREE" /\ limit(node[i]) # PoolSize
             => node[node[i].next].type = "USED"
    /\ Cardinality(bitmap) <= 2 * Cardinality(live)

A == INSTANCE Allocator

\* kmalloc never hands out bytes that somebody holds.
ImplementsAllocator == A!AllocatorSpec

\* kmalloc fails only when no gap is large enough, so that neither the cursor nor
\* the total nor a missed merge hides space.
FailsOnlyWithoutGap ==
    \A n \in BlockSizes : A!Gaps(n) # {} => HasRoom(n) /\ Search(n) # {}
=============================================================================
