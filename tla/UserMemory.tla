----------------------------- MODULE UserMemory -----------------------------
(***************************************************************************)
(* The memory of UserThreads: what map_page, the loop of load_program and  *)
(* thread_create do to the directories, tables and frames, for programs of *)
(* any length and pools of any size.  UserInv is the inductive invariant   *)
(* that UserProofs shows.                                                  *)
(***************************************************************************)
EXTENDS UserThreads, WellFoundedInduction, TLAPS

\* What the memory record holds.
MemType ==
    [heap : SUBSET Blocks, tid : SUBSET Tids, pd_used : SUBSET Dirs,
     user_pt_used : SUBSET Tables, frame : SUBSET Frames,
     pd : [Dirs -> [Regions -> Tables \cup {Null}]],
     pt : [Tables -> [Pages -> Frames \cup {Null}]]]

\* Directories, tables and frames are never given back, so that each pool is used up
\* from its first entry on: p directories, t tables and f frames.
UsedUp(m, p, t, f) ==
    /\ p \in 0 .. THREAD_LIMIT /\ t \in 0 .. MAX_USER_PT /\ f \in 0 .. FRAME_COUNT
    /\ m.pd_used = 1 .. p /\ m.user_pt_used = 1 .. t /\ m.frame = 1 .. f

\* Every page table is under one entry of one directory in use, every frame under one
\* entry of one table.
TablesInUse(m) ==
    \A d \in Dirs, r \in Regions : m.pd[d][r] # Null =>
        d \in m.pd_used /\ m.pd[d][r] \in m.user_pt_used
TablesOnce(m) ==
    \A d, e \in Dirs, r, q \in Regions :
        m.pd[d][r] # Null /\ m.pd[d][r] = m.pd[e][q] => d = e /\ r = q
FramesInUse(m) ==
    \A t \in Tables, k \in Pages : m.pt[t][k] # Null => m.pt[t][k] \in m.frame
FramesOnce(m) ==
    \A t, u \in Tables, k, l \in Pages :
        m.pt[t][k] # Null /\ m.pt[t][k] = m.pt[u][l] => t = u /\ k = l
PagingOK(m) == TablesInUse(m) /\ TablesOnce(m) /\ FramesInUse(m) /\ FramesOnce(m)

\* No directory needs a third table.  The tids keep step with the directories until
\* the directories run out.
PoolsKeepStep ==
    \E p, t, f \in Nat :
        /\ UsedUp(mem, p, t, f) /\ t <= 2 * p
        /\ p < THREAD_LIMIT => mem.tid = 1 .. p

\* A thread is in the ring once, or it is the zombie.
RingOK == IsInjective(ring) /\ zombie \notin Range(ring)

\* The blocks of a thread are its own, and nobody has dropped them.
BlocksOK ==
    \A a \in Alive :
        /\ tcb[a].kstack \in Blocks /\ tcb[a].kstack # a
        /\ {a, tcb[a].kstack} \subseteq mem.heap \ stranded
        /\ \A b \in Alive : a # b => tcb[a].kstack \notin {b, tcb[b].kstack}

\* The directory of a thread is its own; its stack is mapped.
DirsOK ==
    \A a \in Alive :
        /\ tcb[a].pd \in mem.pd_used /\ tcb[a].tid = tcb[a].pd
        /\ mem.pd[tcb[a].pd]["stack"] # Null
        /\ mem.pt[mem.pd[tcb[a].pd]["stack"]][0] = tcb[a].user_frame
        /\ tcb[a].user_frame # Null
        /\ \A b \in Alive : a # b => tcb[a].pd # tcb[b].pd

\* The inductive invariant.
UserInv ==
    /\ TypeOK /\ PagingOK(mem) /\ PoolsKeepStep /\ RingOK /\ BlocksOK /\ DirsOK
    /\ HeapIsReturned /\ LoadedIsMapped

-----------------------------------------------------------------------------
\* A set of naturals has a least element.
LEMMA LeastNat ==
    ASSUME NEW T, T \subseteq Nat, T # {}
    PROVE  \E n \in T : \A m \in T : n <= m
<1>1. PICK x \in T : \A y \in T : ~(<<y, x>> \in OpToRel(<, Nat))
  BY NatLessThanWellFounded, WFMin, Zenon
<1>2. \A y \in T : ~(y < x)
  BY <1>1, Zenon DEF OpToRel
<1> QED
  BY <1>2

\* Induction, for a set instead of a predicate.
LEMMA SetInduction ==
    ASSUME NEW T, 0 \in T, \A n \in Nat : n \in T => n + 1 \in T
    PROVE  Nat \subseteq T
<1>1. SUFFICES ASSUME Nat \ T # {} PROVE FALSE
  BY Zenon
<1>2. PICK x \in Nat \ T : \A y \in Nat \ T : x <= y
  BY <1>1, LeastNat, Zenon
<1>3. x # 0 /\ x - 1 \in Nat /\ x - 1 \in T
  BY <1>2
<1> QED
  BY <1>2, <1>3

\* A pool hands out an entry that is free, or fails when there is none.
LEMMA FirstFreeFacts ==
    ASSUME NEW n \in Nat, NEW used
    PROVE  \/ FirstFree(1 .. n, used) = Null /\ 1 .. n \subseteq used
           \/ FirstFree(1 .. n, used) \in (1 .. n) \ used /\ FirstFree(1 .. n, used) # Null
<1>1. CASE 1 .. n \subseteq used
  BY <1>1, Zenon DEF FirstFree
<1>2. CASE ~(1 .. n \subseteq used)
  <2> DEFINE rest == (1 .. n) \ used
  <2>1. rest \subseteq Nat /\ rest # {}
    BY <1>2
  <2> HIDE DEF rest
  <2>2. \E x \in rest : \A y \in rest : x <= y
    BY <2>1, LeastNat, Zenon
  <2>3. Min(rest) \in rest
    BY <2>2, Zenon DEF Min
  <2> QED
    BY <1>2, <2>3 DEF FirstFree, Null, rest
<1> QED
  BY <1>1, <1>2, Zenon

\* The entry after the ones that are used up.
LEMMA FirstFreeNext ==
    ASSUME NEW n \in Nat, NEW k \in 0 .. n - 1
    PROVE  FirstFree(1 .. n, 1 .. k) = k + 1 /\ k + 1 # Null
<1> DEFINE rest == (1 .. n) \ (1 .. k)
<1>1. k + 1 \in rest /\ \A y \in rest : k + 1 <= y
  OBVIOUS
<1>2. \E x \in rest : \A y \in rest : x <= y
  BY <1>1, Zenon
<1>3. Min(rest) \in rest /\ \A y \in rest : Min(rest) <= y
  BY <1>2, Zenon DEF Min
<1>4. Min(rest) = k + 1
  BY <1>1, <1>3
<1> QED
  BY <1>1, <1>4 DEF FirstFree, Null

\* There is a longest program: every page of a program has a number in Pages.
LEMMA PagesFacts ==
    /\ Max(Range(pages)) \in Nat \ {0}
    /\ \A p \in Programs : pages[p] \in Nat /\ 0 .. pages[p] - 1 \subseteq Pages
    /\ 0 \in Pages
<1> DEFINE S == Range(pages)
<1>1. pages \in [Programs -> Nat \ {0}]
  BY LimitsAssumption, Zenon
<1>2. S \subseteq Nat \ {0} /\ \A p \in Programs : pages[p] \in S
  BY <1>1, Zenon DEF Range
<1>3. \E x \in S : \A y \in S : x >= y
  BY <1>1, LimitsAssumption, Zenon DEF Range
<1>4. Max(S) \in S /\ \A y \in S : Max(S) >= y
  BY <1>3, Zenon DEF Max
<1> QED
  BY <1>2, <1>4 DEF Pages
-----------------------------------------------------------------------------
\* The fields of a memory record.
LEMMA MemFields ==
    ASSUME NEW m \in MemType
    PROVE  /\ m.heap \in SUBSET Blocks /\ m.tid \in SUBSET Tids
           /\ m.pd_used \in SUBSET Dirs /\ m.user_pt_used \in SUBSET Tables
           /\ m.frame \in SUBSET Frames
           /\ m.pd \in [Dirs -> [Regions -> Tables \cup {Null}]]
           /\ m.pt \in [Tables -> [Pages -> Frames \cup {Null}]]
  BY Zenon DEF MemType


\* n is m with frame g mapped at page k of region r of directory d, in table u.
Maps(m, n, d, r, k, u, g) ==
    /\ n.heap = m.heap /\ n.tid = m.tid
    /\ n.pd[d][r] = u
    /\ \A e \in Dirs, q \in Regions : e # d \/ q # r => n.pd[e][q] = m.pd[e][q]
    /\ n.pt[u][k] = g
    /\ \A v \in Tables \ {u} : n.pt[v] = m.pt[v]
    /\ \A l \in Pages \ {k} :
          n.pt[u][l] = IF NeedsTable(m, d, r) THEN Null ELSE m.pt[u][l]

\* The table that map_page uses, what is in it and the tables in use afterwards.
TableFor(m, d, r, t) == IF NeedsTable(m, d, r) THEN t + 1 ELSE m.pd[d][r]
RowFor(m, d, r, u) == IF NeedsTable(m, d, r) THEN [l \in Pages |-> Null] ELSE m.pt[u]
TablesAfter(m, d, r, t) == IF NeedsTable(m, d, r) THEN 1 .. t + 1 ELSE m.user_pt_used

\* What map_page does with a new frame, when there is a table for it.
LEMMA MapPageIs ==
    ASSUME NEW m \in MemType, NEW p, NEW t, NEW f, UsedUp(m, p, t, f),
           NEW d \in Dirs, NEW r \in Regions, NEW k \in Pages, f < FRAME_COUNT,
           NeedsTable(m, d, r) => t < MAX_USER_PT,
           NEW u, u = TableFor(m, d, r, t),
           NEW n, n = map_page(frame_alloc(m), d, r, k, FreeFrame(m))
    PROVE  /\ FreeFrame(m) = f + 1 /\ u \in Tables /\ u # Null
           /\ n \in MemType /\ Maps(m, n, d, r, k, u, f + 1) /\ n.pd_used = m.pd_used
           /\ n.user_pt_used = TablesAfter(m, d, r, t) /\ n.frame = 1 .. f + 1
<1> DEFINE a == frame_alloc(m)
           b == IF NeedsTable(m, d, r) THEN alloc_user_page_table(a) ELSE a
           none == [l \in Pages |-> Null]
<1>0. /\ MAX_USER_PT \in Nat /\ FRAME_COUNT \in Nat /\ t \in Nat /\ f \in Nat
      /\ f + 1 \in Frames /\ 1 .. f + 1 \in SUBSET Frames
      /\ m.user_pt_used = 1 .. t /\ m.frame = 1 .. f
  <2>1. MAX_USER_PT \in Nat /\ FRAME_COUNT \in Nat
    BY ONLY LimitsAssumption, Zenon
  <2>2. /\ t \in Nat /\ f \in Nat /\ m.user_pt_used = 1 .. t /\ m.frame = 1 .. f
    BY ONLY <2>1, UsedUp(m, p, t, f) DEF UsedUp
  <2>3. f + 1 \in Frames /\ 1 .. f + 1 \in SUBSET Frames
    BY ONLY <2>1, <2>2, f < FRAME_COUNT DEF Frames
  <2> QED
    BY ONLY <2>1, <2>2, <2>3, Zenon
<1>1. FreeFrame(m) = f + 1 /\ f + 1 # Null
  BY <1>0, FirstFreeNext DEF FreeFrame, Frames
<1>2. a = [m EXCEPT !.frame = 1 .. f + 1]
  <2>1. Taken(m.frame, f + 1) = 1 .. f + 1
    BY <1>0, <1>1 DEF Taken
  <2> QED
    BY <1>1, <2>1, Zenon DEF frame_alloc
<1> HIDE DEF a
<1>3. /\ a \in MemType /\ a.heap = m.heap /\ a.tid = m.tid /\ a.pd_used = m.pd_used
      /\ a.user_pt_used = m.user_pt_used /\ a.frame = 1 .. f + 1
      /\ a.pd = m.pd /\ a.pt = m.pt
  BY <1>0, <1>2, Zenon DEF MemType
<1>4. u \in Tables /\ u # Null /\ NeedsTable(a, d, r) = NeedsTable(m, d, r)
  BY <1>0, <1>3, MemFields DEF NeedsTable, TableFor, Tables, Null
<1>5. ASSUME NeedsTable(m, d, r)
      PROVE  FirstFree(Tables, a.user_pt_used) = u /\ u = t + 1
  BY <1>0, <1>3, <1>5, FirstFreeNext DEF Tables, TableFor
<1>6. /\ b \in MemType /\ b.heap = m.heap /\ b.tid = m.tid /\ b.pd_used = m.pd_used
      /\ b.user_pt_used = TablesAfter(m, d, r, t) /\ b.frame = 1 .. f + 1
      /\ b.pd = m.pd /\ b.pt = [m.pt EXCEPT ![u] = RowFor(m, d, r, u)]
  <2>1. CASE NeedsTable(m, d, r)
    <3>1. Taken(a.user_pt_used, u) = 1 .. t + 1 /\ 1 .. t + 1 \in SUBSET Tables
      BY <1>0, <1>3, <1>5, <2>1 DEF Taken, Null, Tables
    <3>2. b = [a EXCEPT !.user_pt_used = 1 .. t + 1, !.pt[u] = none]
      BY <1>4, <1>5, <2>1, <3>1, Zenon DEF alloc_user_page_table
    <3>3. none \in [Pages -> Frames \cup {Null}]
      BY Zenon
    <3> HIDE DEF none, b
    <3>4. /\ b \in MemType /\ b.heap = a.heap /\ b.tid = a.tid /\ b.pd_used = a.pd_used
          /\ b.user_pt_used = 1 .. t + 1 /\ b.frame = a.frame
          /\ b.pd = a.pd /\ b.pt = [a.pt EXCEPT ![u] = none]
      BY <1>3, <1>4, <3>1, <3>2, <3>3, Zenon DEF MemType
    <3> QED
      BY <1>3, <2>1, <3>4, Zenon DEF TablesAfter, RowFor, none
  <2>2. CASE ~NeedsTable(m, d, r)
    BY <1>3, <1>4, <2>2, MemFields, Zenon DEF TablesAfter, RowFor
  <2> QED
    BY <2>1, <2>2, Zenon
<1>7. n = [b EXCEPT !.pd[d][r] = u, !.pt[u][k] = f + 1]
  BY <1>1, <1>3, <1>4, <1>5, Zenon DEF map_page, TableFor, a
<1> HIDE DEF b
<1>8. /\ n \in MemType /\ n.heap = m.heap /\ n.tid = m.tid /\ n.pd_used = m.pd_used
      /\ n.user_pt_used = b.user_pt_used /\ n.frame = b.frame
      /\ n.pd = [m.pd EXCEPT ![d][r] = u] /\ n.pt = [b.pt EXCEPT ![u][k] = f + 1]
  <2> DEFINE D == [b.pd EXCEPT ![d][r] = u]
             P == [b.pt EXCEPT ![u][k] = f + 1]
  <2>1. /\ D \in [Dirs -> [Regions -> Tables \cup {Null}]]
        /\ P \in [Tables -> [Pages -> Frames \cup {Null}]]
    BY <1>0, <1>4, <1>6, MemFields
  <2>2. n = [b EXCEPT !.pd = D, !.pt = P]
    BY <1>7, Zenon
  <2> HIDE DEF D, P
  <2>3. /\ n \in MemType /\ n.heap = b.heap /\ n.tid = b.tid /\ n.pd_used = b.pd_used
        /\ n.user_pt_used = b.user_pt_used /\ n.frame = b.frame /\ n.pd = D /\ n.pt = P
    BY <1>6, <2>1, <2>2, Zenon DEF MemType
  <2> QED
    BY <1>6, <2>3, Zenon DEF D, P
<1>9. Maps(m, n, d, r, k, u, f + 1)
  <2>1. b.pt \in [Tables -> [Pages -> Frames \cup {Null}]]
    BY <1>6, MemFields, Zenon
  <2>2. b.pt[u] = RowFor(m, d, r, u) /\ \A v \in Tables \ {u} : b.pt[v] = m.pt[v]
    BY <1>4, <1>6, MemFields, Zenon
  <2>3. \A l \in Pages : b.pt[u][l] = IF NeedsTable(m, d, r) THEN Null ELSE m.pt[u][l]
    BY <2>2, Zenon DEF RowFor
  <2>4. /\ n.pt[u][k] = f + 1 /\ \A l \in Pages \ {k} : n.pt[u][l] = b.pt[u][l]
        /\ \A v \in Tables \ {u} : n.pt[v] = b.pt[v]
    BY <1>4, <1>8, <2>1
  <2>5. /\ n.pd[d][r] = u
        /\ \A e \in Dirs, q \in Regions : e # d \/ q # r => n.pd[e][q] = m.pd[e][q]
    BY <1>4, <1>8, MemFields
  <2> QED
    BY <1>8, <2>2, <2>3, <2>4, <2>5 DEF Maps
<1> QED
  BY <1>1, <1>4, <1>6, <1>8, <1>9, Zenon

\* A new frame is mapped: nothing that was mapped before is touched, and no table or
\* frame gets a second place.
LEMMA MapPage ==
    ASSUME NEW m \in MemType, NEW p, NEW t, NEW f, UsedUp(m, p, t, f), PagingOK(m),
           NEW d \in 1 .. p, NEW r \in Regions, NEW k \in Pages, f < FRAME_COUNT,
           NeedsTable(m, d, r) => t < MAX_USER_PT,
           NEW u, u = TableFor(m, d, r, t),
           NEW n, n = map_page(frame_alloc(m), d, r, k, FreeFrame(m))
    PROVE  /\ FreeFrame(m) = f + 1 /\ u \in Tables
           /\ n \in MemType /\ PagingOK(n) /\ Maps(m, n, d, r, k, u, f + 1)
           /\ UsedUp(n, p, IF NeedsTable(m, d, r) THEN t + 1 ELSE t, f + 1)
<1>0. /\ THREAD_LIMIT \in Nat /\ MAX_USER_PT \in Nat /\ FRAME_COUNT \in Nat
      /\ p \in Nat /\ t \in Nat /\ f \in Nat /\ d \in Dirs
      /\ m.pd_used = 1 .. p /\ m.user_pt_used = 1 .. t /\ m.frame = 1 .. f
      /\ p <= THREAD_LIMIT /\ t <= MAX_USER_PT
  BY LimitsAssumption DEF UsedUp, Dirs
<1>1. /\ FreeFrame(m) = f + 1 /\ u \in Tables /\ u # Null
      /\ n \in MemType /\ Maps(m, n, d, r, k, u, f + 1) /\ n.pd_used = 1 .. p
      /\ n.user_pt_used = TablesAfter(m, d, r, t) /\ n.frame = 1 .. f + 1
  BY <1>0, MapPageIs
<1>2. n.user_pt_used = 1 .. (IF NeedsTable(m, d, r) THEN t + 1 ELSE t)
  BY <1>0, <1>1, Zenon DEF TablesAfter
<1>3. UsedUp(n, p, IF NeedsTable(m, d, r) THEN t + 1 ELSE t, f + 1)
  BY <1>0, <1>1, <1>2 DEF UsedUp
<1>4. /\ n.pd[d][r] = u
      /\ \A e \in Dirs, q \in Regions : e # d \/ q # r => n.pd[e][q] = m.pd[e][q]
  BY ONLY <1>1, Zenon DEF Maps
<1>5. ASSUME NEW v \in Tables, NEW l \in Pages, n.pt[v][l] # Null
      PROVE  \/ v = u /\ l = k /\ n.pt[v][l] = f + 1
             \/ n.pt[v][l] = m.pt[v][l] /\ m.pt[v][l] \in 1 .. f
  <2>1. v # u \/ l # k => n.pt[v][l] = m.pt[v][l]
    BY ONLY <1>1, <1>5, u \in Tables, v \in Tables, l \in Pages, Zenon DEF Maps
  <2>2. m.pt[v][l] # Null => m.pt[v][l] \in 1 .. f
    BY <1>0, Zenon DEF PagingOK, FramesInUse
  <2>3. n.pt[u][k] = f + 1
    BY ONLY <1>1, Zenon DEF Maps
  <2> QED
    BY ONLY <1>5, <2>1, <2>2, <2>3, Zenon
<1>6. ASSUME NEW e \in Dirs, NEW q \in Regions, e # d \/ q # r, n.pd[e][q] # Null
      PROVE  n.pd[e][q] = m.pd[e][q] /\ e \in 1 .. p /\ n.pd[e][q] \in 1 .. t /\ n.pd[e][q] # u
  <2>1. n.pd[e][q] = m.pd[e][q]
    BY ONLY <1>4, <1>6, e \in Dirs, q \in Regions, Zenon
  <2>2. e \in 1 .. p /\ m.pd[e][q] \in 1 .. t
    BY <1>0, <1>6, <2>1, Zenon DEF PagingOK, TablesInUse
  <2>3. CASE NeedsTable(m, d, r)
    BY ONLY <1>0, <2>1, <2>2, <2>3, u = TableFor(m, d, r, t) DEF TableFor
  <2>4. CASE ~NeedsTable(m, d, r)
    <3>1. u = m.pd[d][r]
      BY <2>4, Zenon DEF TableFor
    <3>2. TablesOnce(m)
      BY Zenon DEF PagingOK
    <3> QED
      BY ONLY <1>0, <1>6, <2>1, <2>2, <3>1, <3>2, e \in Dirs, q \in Regions, r \in Regions
      DEF TablesOnce
  <2> QED
    BY ONLY <2>1, <2>2, <2>3, <2>4, Zenon
<1>7. u \in n.user_pt_used
  <2>1. CASE NeedsTable(m, d, r)
    BY ONLY <1>0, <1>2, <2>1, u = TableFor(m, d, r, t) DEF TableFor
  <2>2. CASE ~NeedsTable(m, d, r)
    BY <1>0, <1>2, <2>2, Zenon DEF TableFor, NeedsTable, PagingOK, TablesInUse
  <2> QED
    BY ONLY <2>1, <2>2, Zenon
<1>8. TablesInUse(n)
  BY ONLY <1>0, <1>1, <1>2, <1>4, <1>6, <1>7, d \in 1 .. p DEF TablesInUse
<1>9. TablesOnce(n)
  <2>1. TablesOnce(m)
    BY Zenon DEF PagingOK
  <2> QED
    BY ONLY <1>1, <1>4, <1>6, <2>1 DEF TablesOnce
<1>10. FramesInUse(n)
  <2>1. n.frame = 1 .. f + 1 /\ f + 1 \in 1 .. f + 1 /\ 1 .. f \subseteq 1 .. f + 1
    BY <1>0, <1>1
  <2> QED
    BY ONLY <1>5, <2>1, Zenon DEF FramesInUse
<1>11. FramesOnce(n)
  <2>1. FramesOnce(m)
    BY Zenon DEF PagingOK
  <2> QED
    BY ONLY <1>0, <1>5, <2>1 DEF FramesOnce
<1> QED
  BY ONLY <1>1, <1>3, <1>8, <1>9, <1>10, <1>11, Zenon DEF PagingOK
-----------------------------------------------------------------------------
\* The memory after page k - 1 of the loop of load_program, on the memory x before it.
LoadPage(x, d, k) == map_page(frame_alloc(x), d, "code", k - 1, FreeFrame(x))

\* The memories of the loop up to page n.
IsLoop(g, m, d, n) == g = [k \in 0 .. n |-> IF k = 0 THEN m ELSE LoadPage(g[k - 1], d, k)]

\* The loop is well defined: Loaded is what it leaves.
LEMMA LoopExists ==
    ASSUME NEW m, NEW d, NEW n \in Nat
    PROVE  \E g : IsLoop(g, m, d, n) /\ Loaded(m, d, n) = g[n]
<1> DEFINE T == {i \in Nat : \E g : IsLoop(g, m, d, i)}
<1>1. 0 \in T
  <2> DEFINE g == [k \in 0 .. 0 |-> m]
  <2>1. g = [k \in 0 .. 0 |-> IF k = 0 THEN m ELSE LoadPage(g[k - 1], d, k)]
    OBVIOUS
  <2> HIDE DEF g
  <2> QED
    BY <2>1, Zenon DEF IsLoop
<1>2. ASSUME NEW i \in Nat, i \in T
      PROVE  i + 1 \in T
  <2>1. PICK g : IsLoop(g, m, d, i)
    BY <1>2, Zenon
  <2> DEFINE h == [k \in 0 .. i + 1 |-> IF k = i + 1 THEN LoadPage(g[i], d, i + 1) ELSE g[k]]
  <2>2. \A k \in 0 .. i : h[k] = g[k] /\ g[k] = IF k = 0 THEN m ELSE LoadPage(g[k - 1], d, k)
    BY <2>1 DEF IsLoop
  <2>3. h[i + 1] = LoadPage(h[i], d, i + 1)
    BY <2>2
  <2>4. \A k \in 0 .. i + 1 : h[k] = IF k = 0 THEN m ELSE LoadPage(h[k - 1], d, k)
    BY <2>2, <2>3
  <2>5. h = [k \in 0 .. i + 1 |-> h[k]]
    BY Zenon
  <2> HIDE DEF h
  <2>6. h = [k \in 0 .. i + 1 |-> IF k = 0 THEN m ELSE LoadPage(h[k - 1], d, k)]
    BY <2>4, <2>5, Zenon
  <2> QED
    BY <2>6 DEF IsLoop
<1>3. n \in T
  <2> HIDE DEF T
  <2> QED
    BY <1>1, <1>2, SetInduction, Zenon
<1>4. \E g : g = [k \in 0 .. n |-> IF k = 0 THEN m ELSE LoadPage(g[k - 1], d, k)]
  BY <1>3, Zenon DEF IsLoop
<1> DEFINE after[k \in 0 .. n] == IF k = 0 THEN m ELSE LoadPage(after[k - 1], d, k)
<1>5. after = [k \in 0 .. n |-> IF k = 0 THEN m ELSE LoadPage(after[k - 1], d, k)]
  BY <1>4, Zenon
<1>6. Loaded(m, d, n) = after[n]
  BY Zenon DEF Loaded, LoadPage
<1> HIDE DEF after
<1> QED
  BY <1>5, <1>6, Zenon DEF IsLoop

\* n is m with j pages of the code mapped in directory d, where m has used t tables
\* and f frames and has no table for the code yet.
LoadedFrom(m, n, p, t, f, d, j) ==
    /\ n \in MemType /\ PagingOK(n) /\ n.heap = m.heap /\ n.tid = m.tid
    /\ UsedUp(n, p, IF j = 0 THEN t ELSE t + 1, f + j)
    /\ \A e \in Dirs, q \in Regions : e # d \/ q # "code" => n.pd[e][q] = m.pd[e][q]
    /\ \A v \in 1 .. t : n.pt[v] = m.pt[v]
    /\ n.pd[d]["code"] = IF j = 0 THEN Null ELSE t + 1
    /\ \A l \in 0 .. j - 1 : n.pt[t + 1][l] # Null

\* One round of the loop.
LEMMA LoadPageFacts ==
    ASSUME NEW m, NEW x, NEW p, NEW t \in Nat, NEW f \in Nat, NEW d \in 1 .. p, NEW j \in Nat,
           LoadedFrom(m, x, p, t, f, d, j),
           t < MAX_USER_PT, f + j < FRAME_COUNT, j \in Pages
    PROVE  LoadedFrom(m, LoadPage(x, d, j + 1), p, t, f, d, j + 1)
<1> DEFINE n == LoadPage(x, d, j + 1)
           s == IF j = 0 THEN t ELSE t + 1
           u == t + 1
<1>0. /\ MAX_USER_PT \in Nat /\ FRAME_COUNT \in Nat /\ "code" \in Regions
      /\ x \in MemType /\ PagingOK(x) /\ UsedUp(x, p, s, f + j) /\ d \in Dirs
  BY LimitsAssumption DEF LoadedFrom, Regions, UsedUp, Dirs
<1>1. /\ NeedsTable(x, d, "code") <=> j = 0
      /\ u = TableFor(x, d, "code", s) /\ u \in Tables /\ u # Null
  BY <1>0 DEF LoadedFrom, NeedsTable, TableFor, Tables, Null
<1>2. n = map_page(frame_alloc(x), d, "code", j, FreeFrame(x))
  BY DEF LoadPage
<1> HIDE DEF n, u, s
<1>3. NeedsTable(x, d, "code") => s < MAX_USER_PT
  BY <1>1, Zenon DEF s
<1>4. /\ n \in MemType /\ PagingOK(n) /\ Maps(x, n, d, "code", j, u, f + j + 1)
      /\ UsedUp(n, p, IF NeedsTable(x, d, "code") THEN s + 1 ELSE s, f + j + 1)
  BY <1>0, <1>1, <1>2, <1>3, MapPage
<1>5. UsedUp(n, p, t + 1, f + (j + 1))
  <2>1. /\ (IF NeedsTable(x, d, "code") THEN s + 1 ELSE s) = t + 1
        /\ f + j + 1 = f + (j + 1)
    BY <1>1 DEF s
  <2> QED
    BY <1>4, <2>1, Zenon
<1>6. /\ n.heap = m.heap /\ n.tid = m.tid /\ n.pd[d]["code"] = t + 1
      /\ \A e \in Dirs, q \in Regions : e # d \/ q # "code" => n.pd[e][q] = m.pd[e][q]
  BY <1>4 DEF LoadedFrom, Maps, u
<1>7. \A v \in 1 .. t : n.pt[v] = m.pt[v]
  <2>1. \A v \in 1 .. t : v \in Tables \ {u}
    BY <1>0 DEF Tables, u
  <2> QED
    BY <1>4, <2>1, Zenon DEF LoadedFrom, Maps
<1>8. \A l \in 0 .. j : n.pt[t + 1][l] # Null
  <2>1. n.pt[u][j] = f + j + 1 /\ f + j + 1 # Null
    BY <1>4 DEF Maps, Null
  <2>2. ASSUME NEW l \in 0 .. j - 1 PROVE n.pt[u][l] # Null
    <3>1. l \in Pages \ {j}
      BY j \in Pages, PagesFacts DEF Pages
    <3>2. n.pt[u][l] = x.pt[u][l]
      BY <1>1, <1>4, <3>1 DEF Maps
    <3> QED
      BY <3>2, Zenon DEF LoadedFrom, u
  <2> QED
    BY <2>1, <2>2 DEF u
<1>9. (j + 1 = 0) = FALSE /\ j + 1 - 1 = j
  OBVIOUS
<1> QED
  BY ONLY <1>4, <1>5, <1>6, <1>7, <1>8, <1>9 DEF LoadedFrom, n

\* The whole loop.
LEMMA LoadedFacts ==
    ASSUME NEW m \in MemType, NEW p, NEW t, NEW f, UsedUp(m, p, t, f), PagingOK(m),
           NEW d \in 1 .. p, NeedsTable(m, d, "code"), t < MAX_USER_PT,
           NEW n \in Nat, f + n <= FRAME_COUNT, 0 .. n - 1 \subseteq Pages
    PROVE  LoadedFrom(m, Loaded(m, d, n), p, t, f, d, n)
<1>0. t \in Nat /\ f \in Nat /\ FRAME_COUNT \in Nat
  BY LimitsAssumption DEF UsedUp
<1>1. PICK g : IsLoop(g, m, d, n) /\ Loaded(m, d, n) = g[n]
  BY LoopExists, Zenon
<1>2. g[0] = m /\ \A k \in 1 .. n : g[k] = LoadPage(g[k - 1], d, k)
  BY <1>1 DEF IsLoop
<1> DEFINE T == {j \in Nat : j <= n => LoadedFrom(m, g[j], p, t, f, d, j)}
<1>3. 0 \in T
  BY <1>0, <1>2 DEF LoadedFrom, NeedsTable
<1>4. ASSUME NEW j \in Nat, j \in T
      PROVE  j + 1 \in T
  <2>1. SUFFICES ASSUME j + 1 <= n PROVE LoadedFrom(m, g[j + 1], p, t, f, d, j + 1)
    OBVIOUS
  <2>2. /\ LoadedFrom(m, g[j], p, t, f, d, j) /\ g[j + 1] = LoadPage(g[j], d, j + 1)
        /\ f + j < FRAME_COUNT /\ j \in Pages
    BY <1>0, <1>2, <1>4, <2>1
  <2> QED
    BY <1>0, <2>2, LoadPageFacts, Zenon
<1> HIDE DEF T
<1>5. n \in T
  BY <1>3, <1>4, SetInduction, Zenon
<1> QED
  BY <1>1, <1>5 DEF T
-----------------------------------------------------------------------------
\* What a later memory n keeps of m: the directories and tables that are in use.
Keeps(m, n) ==
    /\ \A d \in m.pd_used, r \in Regions : n.pd[d][r] = m.pd[d][r]
    /\ \A t \in m.user_pt_used : n.pt[t] = m.pt[t]

\* What is left of a thread_create that failed: the blocks that it has dropped, and at
\* most a directory that nobody uses.
CreateFailed(c, p, t, f) ==
    /\ c.mem \in MemType /\ PagingOK(c.mem) /\ Keeps(mem, c.mem)
    /\ c.mem.heap = mem.heap \cup c.dropped /\ c.dropped \subseteq Blocks \ mem.heap
    /\ \E q \in {p, p + 1} :
         /\ UsedUp(c.mem, q, t, f)
         /\ q < THREAD_LIMIT => c.mem.tid = 1 .. q

\* What a thread_create that did not fail has made: everything is new.
Created(c, p, t, f, ks) ==
    /\ c.t \in Blocks \ mem.heap /\ ks \in Blocks \ mem.heap /\ c.t # ks
    /\ c.tcb = [tid |-> p + 1, pd |-> p + 1, kstack |-> ks, user_frame |-> f + 1]
    /\ p < THREAD_LIMIT /\ f < FRAME_COUNT
    /\ c.mem \in MemType /\ PagingOK(c.mem) /\ Keeps(mem, c.mem)
    /\ UsedUp(c.mem, p + 1, t + 1, f + 1) /\ c.mem.tid = 1 .. p + 1
    /\ c.mem.heap = mem.heap \cup {c.t, ks}
    /\ c.mem.pd[p + 1]["stack"] = t + 1 /\ c.mem.pd[p + 1]["code"] = Null
    /\ c.mem.pt[t + 1][0] = f + 1

\* PagingOK is about the paging only.
LEMMA SamePaging ==
    ASSUME NEW m, NEW n, PagingOK(m), n.pd = m.pd, n.pt = m.pt, n.pd_used = m.pd_used,
           n.user_pt_used = m.user_pt_used, n.frame = m.frame
    PROVE  PagingOK(n)
  BY DEF PagingOK, TablesInUse, TablesOnce, FramesInUse, FramesOnce

\* What is kept by two steps, when nothing that is in use is given back.
LEMMA KeepsOn ==
    ASSUME NEW m, NEW n, NEW o, Keeps(m, n), Keeps(n, o),
           m.pd_used \subseteq n.pd_used, m.user_pt_used \subseteq n.user_pt_used
    PROVE  Keeps(m, o)
BY DEF Keeps

\* n is m with the page directory p + 1 in use, and empty.
DirectoryAdded(m, n, p, t, f) ==
    /\ n \in MemType /\ PagingOK(n) /\ UsedUp(n, p + 1, t, f) /\ Keeps(m, n)
    /\ n.heap = m.heap /\ n.tid = m.tid /\ \A r \in Regions : n.pd[p + 1][r] = Null

\* A directory more, with nothing in it.
LEMMA NewDirectory ==
    ASSUME NEW m \in MemType, NEW p, NEW t, NEW f, UsedUp(m, p, t, f), PagingOK(m),
           p < THREAD_LIMIT
    PROVE  /\ FirstFree(Dirs, m.pd_used) = p + 1 /\ p + 1 # Null
           /\ DirectoryAdded(m, alloc_page_directory(m), p, t, f)
<1> DEFINE n == alloc_page_directory(m)
<1>0. /\ THREAD_LIMIT \in Nat /\ p \in Nat /\ p + 1 \in Dirs /\ 1 .. p + 1 \in SUBSET Dirs
      /\ m.pd_used = 1 .. p
  BY LimitsAssumption DEF UsedUp, Dirs
<1>1. FirstFree(Dirs, m.pd_used) = p + 1 /\ p + 1 # Null
  BY <1>0, FirstFreeNext DEF Dirs
<1>2. Taken(m.pd_used, p + 1) = 1 .. p + 1
  BY <1>0, <1>1 DEF Taken
<1> DEFINE D == [m.pd EXCEPT ![p + 1] = kernel_page_directory]
<1>3. n = [m EXCEPT !.pd_used = 1 .. p + 1, !.pd = D]
  BY <1>1, <1>2, Zenon DEF alloc_page_directory
<1> HIDE DEF n
<1>4. /\ D \in [Dirs -> [Regions -> Tables \cup {Null}]]
      /\ \A r \in Regions : D[p + 1][r] = Null
      /\ \A d \in Dirs \ {p + 1}, r \in Regions : D[d][r] = m.pd[d][r]
  BY <1>0, MemFields, Zenon DEF kernel_page_directory
<1> HIDE DEF D
<1>5. /\ n \in MemType /\ n.heap = m.heap /\ n.tid = m.tid /\ n.pd_used = 1 .. p + 1
      /\ n.user_pt_used = m.user_pt_used /\ n.frame = m.frame /\ n.pd = D /\ n.pt = m.pt
  BY <1>0, <1>3, <1>4, Zenon DEF MemType
<1>6. \A d \in Dirs, r \in Regions : n.pd[d][r] # Null => d # p + 1 /\ n.pd[d][r] = m.pd[d][r]
  BY <1>4, <1>5, Zenon
<1>7. UsedUp(n, p + 1, t, f)
  BY <1>0, <1>5 DEF UsedUp
<1>8. PagingOK(n)
  <2>1. TablesInUse(n)
    BY <1>0, <1>5, <1>6 DEF PagingOK, TablesInUse
  <2>2. TablesOnce(n)
    BY <1>6 DEF PagingOK, TablesOnce
  <2>3. FramesInUse(n) /\ FramesOnce(n)
    BY <1>5 DEF PagingOK, FramesInUse, FramesOnce
  <2> QED
    BY <2>1, <2>2, <2>3, Zenon DEF PagingOK
<1>9. Keeps(m, n)
  BY <1>0, <1>4, <1>5 DEF Keeps, Dirs
<1> QED
  BY ONLY <1>1, <1>4, <1>5, <1>7, <1>8, <1>9, Zenon DEF n, DirectoryAdded

\* n is m with a table and a frame for the user stack of the directory d, and the rest
\* as before.
StackAdded(m, n, d, t, f) ==
    /\ n \in MemType /\ PagingOK(n) /\ UsedUp(n, d, t + 1, f + 1)
    /\ \A e \in Dirs \ {d}, q \in Regions : n.pd[e][q] = m.pd[e][q]
    /\ \A v \in 1 .. t : n.pt[v] = m.pt[v]
    /\ n.heap = m.heap /\ n.tid = m.tid
    /\ n.pd[d]["stack"] = t + 1 /\ n.pd[d]["code"] = Null /\ n.pt[t + 1][0] = f + 1

\* The user stack of a new thread.
LEMMA UserStack ==
    ASSUME NEW m \in MemType, NEW d, NEW t, NEW f, UsedUp(m, d, t, f), PagingOK(m),
           d # 0, t < MAX_USER_PT, FreeFrame(m) # Null,
           \A r \in Regions : m.pd[d][r] = Null,
           NEW n, n = map_page(frame_alloc(m), d, "stack", 0, FreeFrame(m))
    PROVE  FreeFrame(m) = f + 1 /\ f < FRAME_COUNT /\ StackAdded(m, n, d, t, f)
<1>1. /\ MAX_USER_PT \in Nat /\ FRAME_COUNT \in Nat /\ t \in Nat /\ f \in 0 .. FRAME_COUNT
      /\ d \in 1 .. d /\ d \in Dirs
  BY LimitsAssumption DEF UsedUp, Dirs
<1>2. f < FRAME_COUNT
  <2>1. ASSUME f = FRAME_COUNT PROVE FALSE
    BY ONLY <1>1, <2>1, UsedUp(m, d, t, f), FreeFrame(m) # Null, Zenon
       DEF FreeFrame, FirstFree, Frames, UsedUp
  <2> QED
    BY <1>1, <2>1
<1>3. 0 \in Pages /\ "stack" \in Regions /\ "code" \in Regions /\ "code" # "stack"
  BY PagesFacts, Zenon DEF Regions
<1>4. NeedsTable(m, d, "stack") /\ TableFor(m, d, "stack", t) = t + 1
  BY <1>3, Zenon DEF NeedsTable, TableFor
<1>5. /\ FreeFrame(m) = f + 1 /\ n \in MemType /\ PagingOK(n)
      /\ Maps(m, n, d, "stack", 0, t + 1, f + 1) /\ UsedUp(n, d, t + 1, f + 1)
  BY <1>1, <1>2, <1>3, <1>4, MapPage
<1>6. \A v \in 1 .. t : v \in Tables \ {t + 1}
  BY <1>1 DEF Tables
<1>7. /\ \A e \in Dirs \ {d}, q \in Regions : n.pd[e][q] = m.pd[e][q]
      /\ \A v \in 1 .. t : n.pt[v] = m.pt[v]
  BY ONLY <1>5, <1>6, Zenon DEF Maps
<1>8. /\ n.heap = m.heap /\ n.tid = m.tid /\ n.pd[d]["stack"] = t + 1
      /\ n.pd[d]["code"] = m.pd[d]["code"] /\ n.pt[t + 1][0] = f + 1
  BY ONLY <1>1, <1>3, <1>5, Zenon DEF Maps
<1> QED
  BY <1>2, <1>3, <1>5, <1>7, <1>8, Zenon DEF StackAdded

\* c is the result of thread_create that has got the block b and the directory and tid
\* d, and has left the memory as m: the kernel stack and the user stack are to come.
EndsWith(c, m, b, d) ==
    LET ks  == FirstFree(Blocks, m.heap)
        m3  == [m EXCEPT !.heap = Taken(@, ks)]
        m3f == [m3 EXCEPT !.heap = @ \ {ks}]
        fr  == FreeFrame(m3)
    IN  /\ ks = Null => c.t = Null /\ c.mem = m3 /\ c.dropped = {b} \ {Null}
        /\ ks # Null /\ fr = Null => c.t = Null /\ c.mem = m3f /\ c.dropped = {b} \ {Null}
        /\ ks # Null /\ fr # Null =>
             /\ c.t = b /\ c.mem = map_page(frame_alloc(m3), d, "stack", 0, fr)
             /\ c.tcb = [tid |-> d, pd |-> d, kstack |-> ks, user_frame |-> fr]

\* The end of thread_create: both stacks are there, or one of them fails.
LEMMA Stacks ==
    ASSUME mem \in MemType, NEW p, NEW t, NEW f, UsedUp(mem, p, t, f), t <= 2 * p,
           p < THREAD_LIMIT,
           NEW m \in MemType, PagingOK(m), UsedUp(m, p + 1, t, f), Keeps(mem, m),
           m.tid = 1 .. p + 1, \A r \in Regions : m.pd[p + 1][r] = Null,
           NEW b, m.heap = mem.heap \cup ({b} \ {Null}),
           \/ b = Null /\ Blocks \subseteq mem.heap
           \/ b \in Blocks \ mem.heap /\ b # Null,
           NEW c, EndsWith(c, m, b, p + 1)
    PROVE  \/ c.t = Null /\ CreateFailed(c, p, t, f)
           \/ c.t # Null /\ \E k \in Blocks : Created(c, p, t, f, k)
<1> DEFINE ks  == FirstFree(Blocks, m.heap)
           m3  == [m EXCEPT !.heap = Taken(@, ks)]
           m3f == [m3 EXCEPT !.heap = @ \ {ks}]
           m4  == map_page(frame_alloc(m3), p + 1, "stack", 0, FreeFrame(m3))
<1>0. /\ ks = Null => c.t = Null /\ c.mem = m3 /\ c.dropped = {b} \ {Null}
      /\ ks # Null /\ FreeFrame(m3) = Null =>
           c.t = Null /\ c.mem = m3f /\ c.dropped = {b} \ {Null}
      /\ ks # Null /\ FreeFrame(m3) # Null =>
           /\ c.t = b /\ c.mem = m4
           /\ c.tcb = [tid |-> p + 1, pd |-> p + 1, kstack |-> ks, user_frame |-> FreeFrame(m3)]
  BY ONLY EndsWith(c, m, b, p + 1), Zenon DEF EndsWith
<1> HIDE DEF ks, m3, m3f, m4
<1>1. /\ THREAD_LIMIT \in Nat /\ HeapBlocks \in Nat /\ MAX_USER_PT \in Nat
      /\ p \in Nat /\ t \in Nat /\ MAX_USER_PT >= 2 * THREAD_LIMIT
      /\ mem.pd_used = 1 .. p /\ mem.user_pt_used = 1 .. t
  BY LimitsAssumption DEF UsedUp
<1>2. \/ ks = Null /\ Blocks \subseteq m.heap
      \/ ks \in Blocks \ m.heap /\ ks # Null
  BY <1>1, FirstFreeFacts, Zenon DEF Blocks, ks
<1>3. /\ m3 \in MemType /\ m3.heap = m.heap \cup ({ks} \ {Null}) /\ m3.tid = m.tid
      /\ m3.pd_used = m.pd_used /\ m3.user_pt_used = m.user_pt_used
      /\ m3.frame = m.frame /\ m3.pd = m.pd /\ m3.pt = m.pt
  <2>1. Taken(m.heap, ks) \in SUBSET Blocks
    BY <1>2, MemFields, Zenon DEF Taken
  <2> QED
    BY <2>1, Zenon DEF MemType, Taken, m3
<1>4. PagingOK(m3) /\ UsedUp(m3, p + 1, t, f) /\ Keeps(mem, m3)
  <2>1. PagingOK(m3)
    BY ONLY <1>3, PagingOK(m), SamePaging, Zenon
  <2>2. UsedUp(m3, p + 1, t, f)
    BY ONLY <1>3, UsedUp(m, p + 1, t, f), Zenon DEF UsedUp
  <2>3. Keeps(mem, m3)
    BY ONLY <1>3, Keeps(mem, m) DEF Keeps
  <2> QED
    BY ONLY <2>1, <2>2, <2>3, Zenon
<1>5. {b} \ {Null} \subseteq Blocks \ mem.heap
  BY Zenon
<1>6. CASE ks = Null
  <2>1. c.t = Null /\ c.mem = m3 /\ c.dropped = {b} \ {Null} /\ m3.heap = m.heap
    BY ONLY <1>0, <1>3, <1>6, Zenon
  <2>2. m3.heap = mem.heap \cup ({b} \ {Null}) /\ m3.tid = 1 .. p + 1
    BY <1>3, <2>1, Zenon
  <2> QED
    BY ONLY <1>3, <1>4, <1>5, <2>1, <2>2, Zenon DEF CreateFailed
<1>7. CASE ks # Null /\ FreeFrame(m3) = Null
  <2>1. /\ m3f \in MemType /\ m3f.heap = m.heap /\ m3f.tid = m.tid
        /\ m3f.pd_used = m3.pd_used /\ m3f.user_pt_used = m3.user_pt_used
        /\ m3f.frame = m3.frame /\ m3f.pd = m3.pd /\ m3f.pt = m3.pt
    <3>1. m3.heap \ {ks} = m.heap /\ m.heap \in SUBSET Blocks
      BY ONLY <1>2, <1>3, <1>7, m \in MemType, MemFields, Zenon
    <3> QED
      BY <1>3, <3>1, Zenon DEF MemType, m3f
  <2>2. PagingOK(m3f) /\ UsedUp(m3f, p + 1, t, f) /\ Keeps(mem, m3f)
    BY ONLY <1>4, <2>1, SamePaging, Zenon DEF UsedUp, Keeps
  <2>3. /\ c.t = Null /\ c.mem = m3f /\ c.dropped = {b} \ {Null}
        /\ m3f.heap = mem.heap \cup ({b} \ {Null}) /\ m3f.tid = 1 .. p + 1
    BY ONLY <1>0, <1>7, <2>1, m.tid = 1 .. p + 1, m.heap = mem.heap \cup ({b} \ {Null}), Zenon
  <2> QED
    BY ONLY <1>5, <2>1, <2>2, <2>3, Zenon DEF CreateFailed
<1>8. CASE ks # Null /\ FreeFrame(m3) # Null
  <2>1. b \in Blocks \ mem.heap /\ b # Null /\ ks \in Blocks \ mem.heap /\ ks # b
    BY <1>2, <1>8, Zenon
  <2>2. \A r \in Regions : m3.pd[p + 1][r] = Null
    BY <1>3, Zenon
  <2>3. p + 1 # 0 /\ t < MAX_USER_PT
    BY <1>1
  <2>4. /\ FreeFrame(m3) = f + 1 /\ f < FRAME_COUNT /\ StackAdded(m3, m4, p + 1, t, f)
    BY ONLY <1>3, <1>4, <1>8, <2>2, <2>3, UserStack, Zenon DEF m4
  <2>5. Keeps(mem, m4)
    <3>1. \A e \in 1 .. p : e \in Dirs \ {p + 1}
      BY <1>1 DEF Dirs
    <3> QED
      BY ONLY <1>1, <1>4, <2>4, <3>1 DEF Keeps, StackAdded
  <2>6. m4.heap = mem.heap \cup {b, ks} /\ m4.tid = 1 .. p + 1
    <3>1. m.heap = mem.heap \cup {b} /\ m3.heap = m.heap \cup {ks}
      BY ONLY <1>3, <1>8, <2>1, m.heap = mem.heap \cup ({b} \ {Null}), Zenon
    <3> QED
      BY ONLY <1>3, <2>4, <3>1, m.tid = 1 .. p + 1, Zenon DEF StackAdded
  <2>7. /\ c.t = b /\ c.mem = m4
        /\ c.tcb = [tid |-> p + 1, pd |-> p + 1, kstack |-> ks, user_frame |-> f + 1]
    BY ONLY <1>0, <1>8, <2>4, Zenon
  <2>8. Created(c, p, t, f, ks)
    BY ONLY p < THREAD_LIMIT, <2>1, <2>4, <2>5, <2>6, <2>7, Zenon DEF Created, StackAdded
  <2> QED
    BY ONLY <2>1, <2>7, <2>8, Zenon
<1> QED
  BY <1>6, <1>7, <1>8, Zenon

\* thread_create fails and leaves the threads alone, or everything that it returns is
\* new.
LEMMA CreateFacts ==
    ASSUME mem \in MemType, NEW p, NEW t, NEW f, UsedUp(mem, p, t, f), PagingOK(mem),
           t <= 2 * p, p < THREAD_LIMIT => mem.tid = 1 .. p,
           NEW tids \in TidsAfterNext(mem), NEW c, c = thread_create(tids)
    PROVE  \/ c.t = Null /\ CreateFailed(c, p, t, f)
           \/ c.t # Null /\ \E ks \in Blocks : Created(c, p, t, f, ks)
<1> DEFINE t0  == FirstFree(Blocks, mem.heap)
           m1  == [mem EXCEPT !.heap = Taken(@, t0), !.tid = tids]
           tid == FirstFree(Tids, mem.tid)
           d   == FirstFree(Dirs, m1.pd_used)
           m2  == alloc_page_directory(m1)
           ks  == FirstFree(Blocks, m2.heap)
           m3  == [m2 EXCEPT !.heap = Taken(@, ks)]
           m3f == [m3 EXCEPT !.heap = @ \ {ks}]
           fr  == FreeFrame(m3)
           m4  == map_page(frame_alloc(m3), d, "stack", 0, fr)
           Fail(m) == [t |-> Null, mem |-> m, dropped |-> {t0} \ {Null}, tcb |-> NoTcb]
           ok == [t |-> t0, mem |-> m4, dropped |-> {},
                  tcb |-> [tid |-> tid, pd |-> d, kstack |-> ks, user_frame |-> fr]]
<1>1. c = IF tid = Null THEN Fail(m1)
          ELSE IF d = Null THEN Fail(m2)
          ELSE IF ks = Null THEN Fail(m3)
          ELSE IF fr = Null THEN Fail(m3f)
          ELSE ok
  BY Zenon DEF thread_create
<1>2. /\ THREAD_LIMIT \in Nat \ {0} /\ TidLimit \in Nat \ {0} /\ HeapBlocks \in Nat
      /\ MAX_USER_PT \in Nat /\ FRAME_COUNT \in Nat /\ p \in Nat /\ t \in Nat /\ f \in Nat
      /\ p <= THREAD_LIMIT /\ MAX_USER_PT >= 2 * THREAD_LIMIT /\ TidLimit >= THREAD_LIMIT
      /\ mem.pd_used = 1 .. p
  BY LimitsAssumption DEF UsedUp
<1>3. \/ t0 = Null /\ Blocks \subseteq mem.heap
      \/ t0 \in Blocks \ mem.heap /\ t0 # Null
  BY <1>2, FirstFreeFacts, Zenon DEF Blocks
<1>4. tids \in SUBSET Tids
  <2>1. CASE Tids \subseteq mem.tid
    BY <2>1, Zenon DEF TidsAfterNext
  <2>2. CASE ~(Tids \subseteq mem.tid)
    <3>1. tids = mem.tid \cup {FirstFree(Tids, mem.tid)} /\ FirstFree(Tids, mem.tid) \in Tids
      BY <1>2, <2>2, FirstFreeFacts, Zenon DEF TidsAfterNext, FirstFree, Tids
    <3> QED
      BY <3>1, MemFields, Zenon
  <2> QED
    BY <2>1, <2>2, Zenon
<1>5. ASSUME p < THREAD_LIMIT
      PROVE  tid = p + 1 /\ tid # Null /\ tids = 1 .. p + 1
  <2>1. FirstFree(Tids, 1 .. p) = p + 1 /\ p + 1 # Null
    BY <1>2, <1>5, FirstFreeNext DEF Tids
  <2>2. tid = p + 1
    BY <1>5, <2>1, Zenon
  <2>3. ~(Tids \subseteq mem.tid)
    BY <1>2, <1>5 DEF Tids
  <2>4. tids = mem.tid \cup {tid}
    BY <2>3, Zenon DEF TidsAfterNext, FirstFree
  <2> QED
    BY <1>2, <1>5, <2>1, <2>2, <2>4
<1> HIDE DEF t0, tid, fr, ks, m2, m3, m3f, m4
<1>6. /\ m1 \in MemType /\ m1.heap = mem.heap \cup ({t0} \ {Null}) /\ m1.tid = tids
      /\ m1.pd_used = mem.pd_used /\ m1.user_pt_used = mem.user_pt_used
      /\ m1.frame = mem.frame /\ m1.pd = mem.pd /\ m1.pt = mem.pt
  <2>1. Taken(mem.heap, t0) \in SUBSET Blocks
    BY <1>3, MemFields, Zenon DEF Taken
  <2> QED
    BY <1>4, <2>1, Zenon DEF MemType, Taken
<1> HIDE DEF m1
<1>7. PagingOK(m1) /\ UsedUp(m1, p, t, f) /\ Keeps(mem, m1)
  BY <1>6, SamePaging, Zenon DEF UsedUp, Keeps
<1>8. {t0} \ {Null} \subseteq Blocks \ mem.heap
  BY <1>3, Zenon
<1>9. CASE p = THREAD_LIMIT
  <2>1. d = Null /\ m2 = m1
    BY ONLY <1>2, <1>6, <1>9, Zenon DEF FirstFree, Dirs, alloc_page_directory, m2
  <2>2. c = Fail(m1)
    BY ONLY <1>1, <2>1, Zenon
  <2>3. /\ c.t = Null /\ c.mem = m1 /\ c.dropped = {t0} \ {Null}
        /\ UsedUp(m1, p, t, f) /\ ~(p < THREAD_LIMIT)
    BY ONLY <1>2, <1>7, <1>9, <2>2
  <2> QED
    BY ONLY <1>6, <1>7, <1>8, <2>3, Zenon DEF CreateFailed
<1>10. CASE p < THREAD_LIMIT
  <2>1. /\ d = p + 1 /\ d # Null
        /\ m2 \in MemType /\ PagingOK(m2) /\ UsedUp(m2, p + 1, t, f) /\ Keeps(m1, m2)
        /\ m2.heap = m1.heap /\ m2.tid = m1.tid /\ \A r \in Regions : m2.pd[p + 1][r] = Null
    <3>1. m2 = alloc_page_directory(m1) /\ m1 \in MemType
      BY ONLY <1>6, Zenon DEF m2
    <3>2. d = p + 1 /\ d # Null /\ DirectoryAdded(m1, m2, p, t, f)
      BY ONLY <1>7, <1>10, <3>1, NewDirectory, Zenon
    <3> QED
      BY ONLY <3>2, Zenon DEF DirectoryAdded
  <2>2. Keeps(mem, m2)
    <3>1. 1 .. p \subseteq 1 .. p + 1
      BY ONLY <1>2
    <3>2. /\ mem.pd_used = m1.pd_used /\ m1.pd_used \subseteq m2.pd_used
          /\ mem.user_pt_used = m1.user_pt_used /\ m1.user_pt_used = m2.user_pt_used
      BY ONLY <1>6, <1>7, <2>1, <3>1, Zenon DEF UsedUp
    <3> QED
      BY ONLY <1>7, <2>1, <3>2, KeepsOn, Zenon
  <2>3. tid = p + 1 /\ tid # Null /\ m2.tid = 1 .. p + 1
    BY <1>5, <1>6, <1>10, <2>1, Zenon
  <2>4. m2.heap = mem.heap \cup ({t0} \ {Null})
    BY <1>6, <2>1, Zenon
  <2> HIDE DEF d
  <2>5. /\ ks = Null => c = Fail(m3)
        /\ ks # Null /\ fr = Null => c = Fail(m3f)
        /\ ks # Null /\ fr # Null => c = ok
    BY ONLY <1>1, <2>1, <2>3, Zenon
  <2>6. \A m : Fail(m).t = Null /\ Fail(m).mem = m /\ Fail(m).dropped = {t0} \ {Null}
    BY ONLY <2>1, Zenon
  <2>7. /\ ok.t = t0 /\ ok.mem = m4
        /\ ok.tcb = [tid |-> p + 1, pd |-> p + 1, kstack |-> ks, user_frame |-> fr]
    BY ONLY <2>1, <2>3, Zenon
  <2> HIDE DEF Fail, ok
  <2>8. /\ ks = Null => c.t = Null /\ c.mem = m3 /\ c.dropped = {t0} \ {Null}
        /\ ks # Null /\ fr = Null =>
             c.t = Null /\ c.mem = m3f /\ c.dropped = {t0} \ {Null}
        /\ ks # Null /\ fr # Null =>
             /\ c.t = t0 /\ c.mem = m4
             /\ c.tcb = [tid |-> p + 1, pd |-> p + 1, kstack |-> ks, user_frame |-> fr]
    BY ONLY <2>5, <2>6, <2>7, Zenon
  <2>9. EndsWith(c, m2, t0, p + 1)
    BY ONLY <2>1, <2>8, Zenon DEF EndsWith, ks, m3, m3f, m4, fr
  <2> QED
    BY ONLY mem \in MemType, UsedUp(mem, p, t, f), t <= 2 * p, <1>3, <1>10,
            <2>1, <2>2, <2>3, <2>4, <2>9, Stacks, Zenon
<1> QED
  BY <1>2, <1>9, <1>10
=============================================================================
