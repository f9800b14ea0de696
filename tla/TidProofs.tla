----------------------------- MODULE TidProofs -----------------------------
(***************************************************************************)
(* No two threads have the same tid: the theorem on TidAllocator, for any  *)
(* number of threads and tids and bytes of any size.                       *)
(***************************************************************************)
EXTENDS TidAllocator, RingProofs, TLAPS

\* Between the lock and the unlock of the pool.
InPool ==
    {"allocate", "mark_load", "mark_store", "allocated", "free_load", "free_store", "free_unlock"}

\* bitmap_lock keeps all but one thread out of the bitmap.
PoolIsExclusive ==
    \A t \in All : pc[t] \in InPool =>
      /\ status[Pool] = "LOCKED"
      /\ \A s \in All : pc[s] \in InPool => s = t

\* The byte that is about to be written is the one that was read, but for the bit.
BytesAreFresh ==
    \A t \in All :
      /\ pc[t] = "mark_store" => reg[t] = bitmap \cap Byte(new[t])
      /\ pc[t] = "free_store" => reg[t] = bitmap \cap Byte(tid[t])

\* kernel_main creates the other threads, and has no tid itself.
OnlyBootCreates ==
    /\ tid[Boot] = NoTid
    /\ \A t \in Threads : new[t] = NoTid /\ pc[t] \notin Creating

\* What a thread has is marked, but for the tid that is about to be.
TidsAreMarked ==
    \A t \in All :
      IF pc[t] \in {"mark_load", "mark_store"} THEN new[t] \in Tids \ bitmap
                                               ELSE Has(t) \subseteq bitmap \cup {NoTid}

TidsAreDisjoint == \A s, t \in All : s # t => Has(s) \cap Has(t) \subseteq {NoTid}

Core ==
    PoolIsExclusive /\ BytesAreFresh /\ OnlyBootCreates /\ TidsAreMarked /\ TidsAreDisjoint

TidInv == TypeOK /\ Core
-----------------------------------------------------------------------------
\* The running thread exists.
LEMMA SelfFacts == TypeOK => self \in All
BY HeadTailFacts DEF TypeOK, self

\* pop_ready_queue, the rotation and thread_reap keep the types.
LEMMA SchedulerType ==
    ASSUME TypeOK, NEW STATE st, st \in [All -> States], scheduler(st)
    PROVE  /\ ring' \in Seq(All) /\ ring' # <<>> /\ zombie' \in All \cup {NoThread}
           /\ state' \in [All -> States] /\ halted' \in BOOLEAN
<1>1. ring \in Seq(All) /\ ring # <<>> /\ Len(ring) \in Nat /\ Len(ring) > 0 /\ self \in All
  BY SelfFacts DEF TypeOK
<1>2. Rotated(ring) \in Seq(All) /\ Rotated(ring) # <<>>
  BY <1>1, RotatedFacts
<1>3. ~Alone => Popped(ring) \in Seq(All) /\ Popped(ring) # <<>>
  <2>1. Tail(ring) \in Seq(All) /\ Len(Tail(ring)) = Len(ring) - 1
    BY <1>1, HeadTailFacts, Zenon
  <2>2. ~Alone => Len(Tail(ring)) # 0
    BY <1>1, <2>1 DEF Alone
  <2>3. Len(<<>>) = 0
    BY Zenon
  <2> QED BY <2>1, <2>2, <2>3 DEF Popped
<1>4. CASE ReapHangs
  BY <1>1, <1>4, Zenon DEF scheduler, TypeOK
<1>5. CASE ~ReapHangs
  <2>1. ring' \in Seq(All) /\ ring' # <<>> /\ halted' \in BOOLEAN
    BY <1>1, <1>2, <1>3, <1>5, Zenon DEF scheduler, TypeOK, pop_ready_queue
  <2>2. zombie' \in All \cup {NoThread}
    BY <1>1, <1>5, Zenon DEF scheduler
  <2>3. state' \in [All -> States]
    BY <1>5, Zenon DEF scheduler, Reaped, States
  <2> QED BY <2>1, <2>2, <2>3
<1> QED BY <1>4, <1>5

\* Lock::acquire keeps the types.
LEMMA AcquireType ==
    ASSUME TypeOK, NEW l \in Locks, NEW from, NEW to \in PCs, acquire(l, from, to)
    PROVE  TypeOK'
<1>1. self \in All
  BY SelfFacts, Zenon
<1>2. CASE status[l] = "UNLOCKED" /\ UNCHANGED <<ring, zombie, state, queue, halted>>
  BY <1>1, <1>2, Zenon DEF acquire, TypeOK, Goto
<1>3. CASE status[l] = "LOCKED" /\ scheduler([state EXCEPT ![self] = "BLOCKED"])
  <2>1. [state EXCEPT ![self] = "BLOCKED"] \in [All -> States]
    BY <1>1, Zenon DEF TypeOK, States
  <2>2. /\ ring' \in Seq(All) /\ ring' # <<>> /\ zombie' \in All \cup {NoThread}
        /\ state' \in [All -> States] /\ halted' \in BOOLEAN
    BY <1>3, <2>1, SchedulerType, Zenon
  <2>3. queue' \in [Locks -> Seq(All)]
    <3>1. \A k \in Locks : Joined(queue[k], self) \in Seq(All)
      BY <1>1, AppendFacts, Zenon DEF TypeOK, Joined
    <3> QED BY <1>3, <3>1 DEF acquire, TypeOK
  <2>4. UNCHANGED <<status, pc, tid, new, bitmap, reg, count, created>>
    BY <1>3, Zenon DEF acquire
  <2> QED BY <2>2, <2>3, <2>4 DEF TypeOK
<1> QED BY <1>2, <1>3 DEF acquire

\* Lock::release keeps the types.
LEMMA ReleaseType ==
    ASSUME TypeOK, NEW l \in Locks, NEW from, NEW to \in PCs,
           release(l, from, to)
    PROVE  TypeOK'
<1>1. self \in All /\ Len(ring) > 0
  BY SelfFacts DEF TypeOK
<1>2. CASE queue[l] = <<>>
  BY <1>1, <1>2, Zenon DEF release, TypeOK, Goto
<1>3. CASE queue[l] # <<>>
  <2>1. queue[l] \in Seq(All) /\ Len(queue[l]) > 0
    BY <1>3 DEF TypeOK
  <2>2. Head(queue[l]) \in All /\ Tail(queue[l]) \in Seq(All)
    BY <2>1, HeadTailFacts, Zenon
  <2>3. Woken(ring, Head(queue[l])) \in Seq(All) /\ Len(Woken(ring, Head(queue[l]))) = Len(ring) + 1
    BY <1>1, <2>2, WokenFacts, Zenon DEF TypeOK
  <2>4. Woken(ring, Head(queue[l])) # <<>>
    BY <1>1, <2>3 DEF TypeOK
  <2> QED BY <1>1, <1>3, <2>2, <2>3, <2>4 DEF release, TypeOK, Goto, States
<1> QED BY <1>2, <1>3

\* So does a jump.
LEMMA GotoType == ASSUME TypeOK, NEW l \in PCs, Goto(l) PROVE pc' \in [All -> PCs]
BY SelfFacts, Zenon DEF Goto, TypeOK

\* The types are kept by every step.
LEMMA TypeStep == ASSUME TidInv, Next PROVE TypeOK'
<1>0. TypeOK /\ TidsAreMarked /\ Creating \subseteq PCs /\ Exiting \subseteq PCs
  BY Zenon DEF TidInv, Core, PCs
<1>1. self \in All /\ Pool \in Locks /\ Heap \in Locks /\ Tids \subseteq Locks
  BY <1>0, SelfFacts, Zenon DEF Locks
<1>2. CASE switch
  <2>1. state \in [All -> States]
    BY <1>0, Zenon DEF TypeOK
  <2>2. /\ ring' \in Seq(All) /\ ring' # <<>> /\ zombie' \in All \cup {NoThread}
        /\ state' \in [All -> States] /\ halted' \in BOOLEAN
    BY <1>0, <1>2, <2>1, SchedulerType, Zenon DEF switch
  <2> QED BY <1>0, <1>2, <2>2 DEF switch, TypeOK
<1>3. CASE r0_exit_no_zombie
  <2>1. [state EXCEPT ![Boot] = "EXITED_NO_ZOMBIE"] \in [All -> States]
    BY <1>0, Zenon DEF TypeOK, States
  <2>2. /\ ring' \in Seq(All) /\ ring' # <<>> /\ zombie' \in All \cup {NoThread}
        /\ state' \in [All -> States] /\ halted' \in BOOLEAN
    BY <1>0, <1>3, <2>1, SchedulerType, Zenon DEF r0_exit_no_zombie
  <2> QED BY <1>0, <1>3, <2>2 DEF r0_exit_no_zombie, TypeOK
<1>4. CASE allocate
  <2>1. pc' \in [All -> PCs]
    BY <1>0, <1>4, GotoType, Zenon DEF allocate, Creating
  <2> QED BY <1>0, <1>1, <1>4, <2>1 DEF allocate, TypeOK
<1>5. CASE mark
  <2>1. pc[self] = "mark_store" => new[self] \in Tids
    BY <1>0, <1>1, Zenon DEF TidsAreMarked
  <2>2. reg' \in [All -> SUBSET Tids] /\ bitmap' \subseteq Tids
    BY <1>0, <1>1, <1>5, <2>1, Zenon DEF mark, Load, Store, Marked, TypeOK
  <2>3. pc' \in [All -> PCs]
    BY <1>0, <1>5, GotoType, Zenon DEF mark, Creating
  <2> QED BY <1>0, <1>5, <2>2, <2>3 DEF mark, TypeOK
<1>6. CASE free
  <2>1. reg' \in [All -> SUBSET Tids] /\ bitmap' \subseteq Tids
    BY <1>0, <1>1, <1>6, Zenon DEF free, Load, Store, TypeOK
  <2>2. pc' \in [All -> PCs]
    BY <1>0, <1>6, GotoType, Zenon DEF free, Exiting
  <2> QED BY <1>0, <1>6, <2>1, <2>2 DEF free, TypeOK
<1>7. CASE next
  <2>1. <<>> \in Seq(All)
    OBVIOUS
  <2>2. pc' \in [All -> PCs]
    BY <1>0, <1>7, GotoType, Zenon DEF next, Creating
  <2> QED BY <1>0, <1>1, <1>7, <2>1, <2>2 DEF next, TypeOK
<1>8. ASSUME NEW t \in Threads, thread_create(t) PROVE TypeOK'
  <2>1. t \in All /\ ring \in Seq(All)
    BY <1>0, Zenon DEF All, TypeOK
  <2>2. Append(ring, t) \in Seq(All) /\ Len(Append(ring, t)) = Len(ring) + 1 /\ Len(ring) \in Nat
    BY <2>1, AppendFacts
  <2>3. ring' \in Seq(All) /\ ring' # <<>>
    BY <1>8, <2>2 DEF thread_create, Spliced
  <2>4. /\ state' \in [All -> States] /\ pc' \in [All -> PCs]
        /\ tid' \in [All -> Tids \cup {NoTid}] /\ new' \in [All -> Tids \cup {NoTid}]
    BY <1>0, <1>1, <1>8, <2>1, Zenon DEF thread_create, TypeOK, States, PCs
  <2> QED BY <1>0, <1>8, <2>3, <2>4 DEF thread_create, TypeOK
<1>9. CASE close
  <2>1. count' \in [Tids -> {0, 1}]
    <3>1. count' = count \/ count' = [count EXCEPT ![tid[self]] = count[tid[self]] - 1]
      BY <1>9, Zenon DEF close
    <3>2. \A i \in Tids : count[i] # 0 => count[i] - 1 \in {0, 1}
      BY <1>0 DEF TypeOK
    <3>3. count \in [Tids -> {0, 1}]
      BY <1>0, Zenon DEF TypeOK
    <3> QED BY <1>9, <3>1, <3>2, <3>3 DEF close
  <2>2. pc' \in [All -> PCs]
    BY <1>0, <1>9, GotoType, Zenon DEF close, Exiting
  <2> QED BY <1>0, <1>9, <2>1, <2>2 DEF close, TypeOK
<1>10. CASE thread_reap_delayed
  <2>1. pc' \in [All -> PCs]
    BY <1>0, <1>10, GotoType, Zenon DEF thread_reap_delayed, Exiting
  <2> QED BY <1>0, <1>1, <1>10, <2>1 DEF thread_reap_delayed, TypeOK, States
<1>11. CASE CallCreate
  <2>1. pc' \in [All -> PCs]
    BY <1>0, <1>11, GotoType, Zenon DEF CallCreate, Creating
  <2> QED BY <1>0, <1>11, <2>1, LimitsAssumption DEF CallCreate, TypeOK
<1>12. CASE r0_exit
  <2>1. pc' \in [All -> PCs]
    BY <1>0, <1>12, GotoType, Zenon DEF r0_exit, Exiting
  <2> QED BY <1>0, <1>12, <2>1 DEF r0_exit, TypeOK
<1> QED
  BY <1>0, <1>1, <1>2, <1>3, <1>4, <1>5, <1>6, <1>7, <1>8, <1>9, <1>10, <1>11, <1>12,
     AcquireType, ReleaseType, Zenon DEF Next, Step, PCs, Creating, Exiting
-----------------------------------------------------------------------------
\* A switch touches nothing that the rest of the invariant is about.
LEMMA IdleCore ==
    ASSUME Core, UNCHANGED <<pc, tid, new, bitmap, reg, status>> PROVE Core'
<1> USE DEF Core
<1>1. PoolIsExclusive' /\ OnlyBootCreates'
  BY Zenon DEF PoolIsExclusive, OnlyBootCreates
<1>2. BytesAreFresh'
  BY Zenon DEF BytesAreFresh, Byte
<1>3. \A t \in All : Has(t)' = Has(t)
  BY Zenon DEF Has
<1>4. TidsAreMarked' /\ TidsAreDisjoint'
  BY <1>3, Zenon DEF TidsAreMarked, TidsAreDisjoint
<1> QED BY <1>1, <1>2, <1>4

\* Lock::acquire keeps the rest of the invariant: the lock of the pool guards InPool,
\* and nothing is cleared or created by a lock.
LEMMA AcquireCore ==
    ASSUME TidInv, NEW l \in Locks, NEW from, NEW to, acquire(l, from, to),
           to \in InPool => l = Pool, from \notin InPool, from \notin Cleared,
           to \notin {"mark_load", "mark_store", "free_store"},
           to \in Creating => from \in Creating
    PROVE  Core'
<1> USE DEF TidInv, Core
<1>1. self \in All /\ pc[self] = from /\ UNCHANGED <<tid, new, bitmap, reg>>
  BY SelfFacts, Zenon DEF acquire
<1>2. CASE UNCHANGED <<pc, status>>
  BY <1>1, <1>2, IdleCore, Zenon
<1>3. CASE /\ status[l] = "UNLOCKED" /\ status' = [status EXCEPT ![l] = "LOCKED"]
           /\ pc' = [pc EXCEPT ![self] = to]
  <2>1. pc'[self] = to /\ \A t \in All : t # self => pc'[t] = pc[t]
    BY <1>1, <1>3, Zenon DEF TypeOK
  <2>2. PoolIsExclusive'
    <3> Pool \in Locks /\ status \in [Locks -> {"LOCKED", "UNLOCKED"}]
      BY Zenon DEF Locks, TypeOK
    <3>1. status[Pool] = "LOCKED" => status'[Pool] = "LOCKED"
      BY <1>3, Zenon
    <3>2. CASE to \in InPool
      <4>1. status[Pool] = "UNLOCKED" /\ status'[Pool] = "LOCKED"
        BY <1>3, <3>2, Zenon
      <4> QED BY <1>1, <2>1, <4>1 DEF PoolIsExclusive
    <3>3. CASE to \notin InPool
      BY <1>1, <2>1, <3>1, <3>3, Zenon DEF PoolIsExclusive
    <3> QED BY <3>2, <3>3
  <2>3. BytesAreFresh' /\ OnlyBootCreates'
    BY <1>1, <2>1, LimitsAssumption DEF BytesAreFresh, OnlyBootCreates, All, Byte
  <2>4. \A t \in All : Has(t)' \subseteq Has(t)
    BY <1>1, <2>1, Zenon DEF Has
  <2>5. TidsAreMarked'
    BY <1>1, <2>1, <2>4, Zenon DEF TidsAreMarked, InPool
  <2>6. TidsAreDisjoint'
    BY <2>4, Zenon DEF TidsAreDisjoint
  <2> QED BY <2>2, <2>3, <2>5, <2>6
<1> QED BY <1>2, <1>3 DEF acquire, Goto

\* Lock::release keeps it: the thread that gives up the lock of the pool leaves InPool.
LEMMA ReleaseCore ==
    ASSUME TidInv, NEW l \in Locks, NEW from, NEW to, release(l, from, to),
           to \notin InPool, l = Pool => from \in InPool,
           from \notin {"mark_load", "mark_store"},
           from \in Cleared => to \in Cleared,
           to \in Creating => from \in Creating
    PROVE  Core'
<1> USE DEF TidInv, Core
<1>1. /\ self \in All /\ pc[self] = from /\ UNCHANGED <<tid, new, bitmap, reg>>
      /\ status' = [status EXCEPT ![l] = "UNLOCKED"]
  BY SelfFacts, Zenon DEF release
<1>2. pc'[self] = to /\ \A t \in All : t # self => pc'[t] = pc[t]
  BY <1>1, Zenon DEF release, Goto, TypeOK
<1>3. PoolIsExclusive'
  <2>1. l # Pool => status'[Pool] = status[Pool]
    BY <1>1 DEF TypeOK
  <2> QED BY <1>1, <1>2, <2>1 DEF PoolIsExclusive
<1>4. BytesAreFresh' /\ OnlyBootCreates'
  BY <1>1, <1>2, LimitsAssumption, Zenon DEF BytesAreFresh, OnlyBootCreates, All, Byte, InPool
<1>5. \A t \in All : Has(t)' \subseteq Has(t)
  BY <1>1, <1>2, Zenon DEF Has
<1>6. TidsAreMarked'
  BY <1>1, <1>2, <1>5, Zenon DEF TidsAreMarked, InPool
<1>7. TidsAreDisjoint'
  BY <1>5, Zenon DEF TidsAreDisjoint
<1> QED BY <1>3, <1>4, <1>6, <1>7

\* A step outside the pool that leaves the tids alone.
LEMMA LocalCore ==
    ASSUME TidInv, NEW to, pc' = [pc EXCEPT ![self] = to], status'[Pool] = status[Pool],
           UNCHANGED <<tid, new, bitmap, reg>>, to \notin InPool, pc[self] \notin InPool,
           pc[self] \in Cleared => to \in Cleared,
           to \in Creating => pc[self] \in Creating \/ self = Boot
    PROVE  Core'
<1> USE DEF TidInv, Core
<1>1. self \in All
  BY SelfFacts, Zenon
<1>2. pc'[self] = to /\ \A t \in All : t # self => pc'[t] = pc[t]
  BY <1>1, Zenon DEF TypeOK
<1>3. PoolIsExclusive'
  BY <1>1, <1>2, Zenon DEF PoolIsExclusive
<1>4. BytesAreFresh' /\ OnlyBootCreates'
  BY <1>1, <1>2, LimitsAssumption DEF BytesAreFresh, OnlyBootCreates, All, Byte, InPool
<1>5. \A t \in All : Has(t)' \subseteq Has(t)
  BY <1>1, <1>2, Zenon DEF Has
<1>6. TidsAreMarked'
  BY <1>1, <1>2, <1>5, Zenon DEF TidsAreMarked, InPool
<1>7. TidsAreDisjoint'
  BY <1>5, Zenon DEF TidsAreDisjoint
<1> QED BY <1>3, <1>4, <1>6, <1>7

\* Pool::allocate and Pool::free, inside the lock.
LEMMA PoolCore == ASSUME TidInv, allocate \/ mark \/ free PROVE Core'
<1> USE DEF TidInv, Core
<1>0. PICK me \in All : me = self
  BY SelfFacts, Zenon
<1> USE <1>0
<1>1. /\ pc[me] \in InPool /\ pc'[me] \in InPool /\ status' = status
      /\ \A t \in All : t # me => pc'[t] = pc[t]
  BY Zenon DEF allocate, mark, free, Goto, TypeOK, InPool
<1>2. \A t \in All : t # me => pc[t] \notin InPool
  BY <1>1, Zenon DEF PoolIsExclusive
<1>2a. \A t \in All : t # me => pc'[t] \notin {"mark_load", "mark_store", "free_store"}
  BY <1>1, <1>2, Zenon DEF InPool
<1>3. PoolIsExclusive'
  BY <1>1, <1>2, Zenon DEF PoolIsExclusive
<1>4. CASE allocate
  <2>1. PICK i \in Tids \ bitmap : new' = [new EXCEPT ![me] = i]
    BY <1>4, Zenon DEF allocate
  <2>2. /\ me = Boot /\ pc'[me] = "mark_load" /\ pc[me] = "allocate" /\ new'[me] = i
        /\ UNCHANGED <<tid, bitmap, reg>> /\ \A t \in All : t # me => new'[t] = new[t]
    BY <1>1, <1>4, <2>1, Zenon DEF allocate, Goto, TypeOK, OnlyBootCreates, All, Creating
  <2>3. BytesAreFresh' /\ OnlyBootCreates'
    <3>1. BytesAreFresh'
      BY <1>2a, <2>2, Zenon DEF BytesAreFresh, Byte
    <3>2. OnlyBootCreates'
      BY <1>1, <1>2, <2>2, LimitsAssumption, Zenon DEF OnlyBootCreates, All
    <3> QED BY <3>1, <3>2
  <2>4. \A t \in All : t # me => Has(t)' = Has(t) /\ Has(t) \subseteq bitmap \cup {NoTid}
    BY <1>1, <1>2, <2>2, Zenon DEF Has, TidsAreMarked, InPool
  <2>5. Has(me)' = {i, NoTid}
    BY <1>1, <2>2, Zenon DEF Has, OnlyBootCreates, Cleared
  <2>6. TidsAreMarked'
    BY <1>1, <1>2, <2>1, <2>2, <2>4, Zenon DEF TidsAreMarked, InPool
  <2>7. TidsAreDisjoint'
    BY <2>1, <2>4, <2>5, Zenon DEF TidsAreDisjoint
  <2> QED BY <1>3, <2>3, <2>6, <2>7
<1>5. CASE mark
  <2>1. /\ UNCHANGED <<tid, new>> /\ pc[me] \in {"mark_load", "mark_store"}
        /\ new[me] \in Tids \ bitmap /\ pc'[me] \in {"mark_store", "allocated"}
        /\ me = Boot
    BY <1>1, <1>5, Zenon DEF mark, Goto, TypeOK, TidsAreMarked, OnlyBootCreates, All, Creating
  <2>2. \A t \in All : Has(t)' = Has(t)
    BY <1>1, <2>1, Zenon DEF Has, Cleared
  <2>3. TidsAreDisjoint' /\ OnlyBootCreates'
    BY <1>1, <2>1, <2>2, LimitsAssumption, Zenon DEF TidsAreDisjoint, OnlyBootCreates, All
  <2>4. CASE pc[me] = "mark_load"
    <3>1. /\ bitmap' = bitmap /\ reg'[me] = bitmap \cap Byte(new[me]) /\ pc'[me] = "mark_store"
      BY <1>1, <1>5, <2>4, Zenon DEF mark, Load, Goto, TypeOK
    <3>2. BytesAreFresh'
      BY ONLY <1>2a, <2>1, <3>1, Zenon DEF BytesAreFresh, Byte
    <3>3. TidsAreMarked'
      BY <1>1, <1>2, <2>1, <2>2, <3>1, Zenon DEF TidsAreMarked, InPool
    <3> QED BY <1>3, <2>3, <3>2, <3>3
  <2>5. CASE pc[me] = "mark_store"
    <3>1. bitmap' = bitmap \cup {new[me]} /\ pc'[me] = "allocated"
      BY <1>1, <1>5, <2>5, Zenon DEF mark, Store, Marked, BytesAreFresh, Goto, TypeOK
    <3>2. BytesAreFresh'
      BY <1>2a, <3>1, Zenon DEF BytesAreFresh
    <3>3. tid[me] = NoTid
      BY <2>1, Zenon DEF OnlyBootCreates
    <3>4. TidsAreMarked'
      BY <1>1, <1>2, <2>1, <2>2, <3>1, <3>3, Zenon DEF TidsAreMarked, InPool, Has
    <3> QED BY <1>3, <2>3, <3>2, <3>4
  <2> QED BY <2>1, <2>4, <2>5
<1>6. CASE free
  <2>1. /\ UNCHANGED <<tid, new>> /\ pc[me] \in {"free_load", "free_store"}
        /\ pc'[me] \in {"free_store", "free_unlock"}
    BY <1>1, <1>6, Zenon DEF free, Goto, TypeOK
  <2>2. \A t \in All : Has(t)' \subseteq Has(t) /\ (t # me => Has(t)' = Has(t))
    BY <1>1, <2>1, Zenon DEF Has, Cleared
  <2>3. TidsAreDisjoint' /\ OnlyBootCreates'
    BY <1>1, <2>1, <2>2, LimitsAssumption, Zenon DEF TidsAreDisjoint, OnlyBootCreates, All, Creating
  <2>4. \A t \in All : Has(t) \subseteq bitmap \cup {NoTid}
    BY <1>1, <1>2, <2>1, Zenon DEF TidsAreMarked, InPool
  <2>5. CASE pc[me] = "free_load"
    <3>1. /\ bitmap' = bitmap /\ reg'[me] = bitmap \cap Byte(tid[me]) /\ pc'[me] = "free_store"
      BY <1>1, <1>6, <2>5, Zenon DEF free, Load, Goto, TypeOK
    <3>2. BytesAreFresh'
      BY ONLY <1>2a, <2>1, <3>1, Zenon DEF BytesAreFresh, Byte
    <3>3. TidsAreMarked'
      BY <1>2a, <2>2, <2>4, <3>1, Zenon DEF TidsAreMarked
    <3> QED BY <1>3, <2>3, <3>2, <3>3
  <2>6. CASE pc[me] = "free_store"
    <3>1. bitmap' = bitmap \ {tid[me]} /\ pc'[me] = "free_unlock"
      <4>1. tid[me] \in bitmap => tid[me] \in Byte(tid[me])
        BY Zenon DEF TypeOK, Byte
      <4>2. reg[me] = bitmap \cap Byte(tid[me])
        BY <2>6, Zenon DEF BytesAreFresh
      <4>3. bitmap' = (bitmap \ Byte(tid[me])) \cup (reg[me] \ {tid[me]}) /\ pc'[me] = "free_unlock"
        BY <1>1, <1>6, <2>6, Zenon DEF free, Store, Goto, TypeOK
      <4> QED BY <4>1, <4>2, <4>3
    <3>2. BytesAreFresh'
      BY <1>2a, <3>1, Zenon DEF BytesAreFresh
    <3>3. \A t \in All : t # me /\ tid[me] \in Has(t) => tid[me] = NoTid
      BY <1>1, <2>6 DEF TidsAreDisjoint, Has, Cleared
    <3>4. new[me] = NoTid \/ tid[me] = NoTid
      BY <1>1, Zenon DEF OnlyBootCreates, All
    <3>5. Has(me)' \subseteq bitmap' \cup {NoTid}
      BY <1>1, <2>1, <2>4, <3>1, <3>4, Zenon DEF Has, Cleared
    <3>6. \A t \in All : t # me => Has(t)' \subseteq bitmap' \cup {NoTid}
      BY <2>2, <2>4, <3>1, <3>3, Zenon
    <3>7. TidsAreMarked'
      BY <1>2a, <3>1, <3>5, <3>6, Zenon DEF TidsAreMarked
    <3> QED BY <1>3, <2>3, <3>2, <3>7
  <2> QED BY <2>1, <2>5, <2>6
<1> QED BY <1>4, <1>5, <1>6

\* The end of thread_create: the tid goes from kernel_main to the new thread.
LEMMA CreateCore == ASSUME TidInv, NEW t \in Threads, thread_create(t) PROVE Core'
<1> USE DEF TidInv, Core
<1>1. self = Boot /\ Boot \in All /\ t \in All /\ t # Boot /\ pc[Boot] = "create"
  BY SelfFacts, LimitsAssumption, Zenon DEF thread_create, OnlyBootCreates, All, Creating
<1>2. /\ UNCHANGED <<bitmap, reg, status>>
      /\ tid'[t] = new[Boot] /\ pc'[t] = "run" /\ pc'[Boot] = "run" /\ new'[Boot] = NoTid
      /\ \A s \in All : (s # t => tid'[s] = tid[s]) /\ (s # Boot => new'[s] = new[s])
      /\ \A s \in All : s # t /\ s # Boot => pc'[s] = pc[s]
  BY <1>1, Zenon DEF thread_create, TypeOK
<1>3. PoolIsExclusive' /\ BytesAreFresh' /\ OnlyBootCreates'
  <2>1. PoolIsExclusive'
    BY <1>1, <1>2, Zenon DEF PoolIsExclusive, InPool
  <2>2. BytesAreFresh'
    BY <1>1, <1>2 DEF BytesAreFresh, Byte
  <2>3. OnlyBootCreates'
    BY <1>1, <1>2, Zenon DEF OnlyBootCreates, All, Creating
  <2> QED BY <2>1, <2>2, <2>3
<1>4. /\ Has(t)' = {NoTid, new[Boot]} /\ Has(Boot)' = {NoTid} /\ new[Boot] \in Has(Boot)
      /\ \A s \in All : s # t /\ s # Boot => Has(s)' = Has(s)
  BY <1>1, <1>2, Zenon DEF Has, Cleared, OnlyBootCreates
<1>5. TidsAreMarked'
  <2>1. new[Boot] \in bitmap \cup {NoTid}
    BY <1>1, <1>4, Zenon DEF TidsAreMarked
  <2>2. Has(t)' \subseteq bitmap' \cup {NoTid} /\ Has(Boot)' \subseteq bitmap' \cup {NoTid}
    BY <1>2, <1>4, <2>1, Zenon
  <2>3. ASSUME NEW s \in All, s # t, s # Boot
        PROVE  IF pc'[s] \in {"mark_load", "mark_store"} THEN new'[s] \in Tids \ bitmap'
               ELSE Has(s)' \subseteq bitmap' \cup {NoTid}
    <3>1. pc'[s] = pc[s] /\ new'[s] = new[s] /\ bitmap' = bitmap /\ Has(s)' = Has(s)
      BY <1>2, <1>4, <2>3, Zenon
    <3> QED BY <3>1 DEF TidsAreMarked
  <2>4. pc'[t] = "run" /\ pc'[Boot] = "run"
    BY <1>2, Zenon
  <2> QED BY <2>2, <2>3, <2>4 DEF TidsAreMarked
<1>6. TidsAreDisjoint'
  BY <1>1, <1>4 DEF TidsAreDisjoint
<1> QED BY <1>3, <1>5, <1>6

\* The rest of the invariant is kept by every step.
LEMMA CoreStep == ASSUME TidInv, Next PROVE Core'
<1>1. self \in All /\ Pool \in Locks /\ Heap \in Locks /\ Heap # Pool
      /\ Tids \subseteq Locks /\ Pool \notin Tids
  BY SelfFacts, LimitsAssumption DEF Locks, TidInv, Pool, Heap, Tids
<1>2. CASE switch \/ r0_exit_no_zombie
  <2>1. UNCHANGED <<pc, tid, new, bitmap, reg, status>>
    BY <1>2, Zenon DEF switch, r0_exit_no_zombie
  <2> QED BY <2>1, IdleCore DEF TidInv
<1>3. CASE allocate \/ mark \/ free
  BY <1>3, PoolCore, Zenon
<1>4. CASE \E t \in Threads : thread_create(t)
  BY <1>4, CreateCore, Zenon
<1>5. CASE next
  <2>1. status'[Pool] = status[Pool]
    <3>1. new[self] # Pool
      BY <1>1, LimitsAssumption DEF TidInv, TypeOK, Pool, NoTid
    <3> QED BY <1>1, <1>5, <3>1 DEF next, TidInv, TypeOK
  <2> QED BY <1>1, <1>5, <2>1, LocalCore DEF next, Goto, InPool, Cleared, Creating
<1>6. CASE close
  BY <1>6, LocalCore, Zenon DEF close, Goto, InPool, Cleared, Creating
<1>7. CASE thread_reap_delayed \/ CallCreate \/ r0_exit
  BY <1>7, LocalCore, Zenon
     DEF thread_reap_delayed, CallCreate, r0_exit, Goto, InPool, Cleared, Creating
<1>8. CASE \/ acquire(Heap, "kmalloc", "kmalloc_unlock")
           \/ acquire(Pool, "allocate_lock", "allocate")
           \/ acquire(Heap, "allocate_kstack", "kstack_unlock")
           \/ \E i \in Tids : acquire(i, "close_lock", "close")
           \/ acquire(Pool, "free_lock", "free_load")
  BY <1>1, <1>8, AcquireCore, Zenon DEF InPool, Cleared, Creating
<1>9. CASE \/ release(Heap, "kmalloc_unlock", "allocate_lock")
           \/ release(Pool, "allocated", "next")
           \/ release(Heap, "kstack_unlock", "create")
           \/ release(Pool, "free_unlock", "close_unlock")
           \/ \E i \in Tids : release(i, "close_unlock", "exit")
  BY <1>1, <1>9, ReleaseCore, Zenon DEF InPool, Cleared, Creating
<1> QED
  BY <1>2, <1>3, <1>4, <1>5, <1>6, <1>7, <1>8, <1>9, Zenon DEF Next, Step

\* No two threads have the same tid, wherever the timer interrupts thread_create and
\* r0_exit, for any number of threads and tids.
THEOREM TidsStayUnique == Spec => []TidsAreUnique
<1>1. Init => TidInv
  <2> SUFFICES ASSUME Init PROVE TidInv
    BY Zenon
  <2>1. Boot \in All /\ <<Boot>> \in Seq(All) /\ <<Boot>> # <<>> /\ <<>> \in Seq(All)
    BY DEF All
  <2>2. TypeOK
    <3>1. created \in 0 .. THREAD_LIMIT
      BY LimitsAssumption DEF Init
    <3>2. state \in [All -> States] /\ pc \in [All -> PCs]
      BY Zenon DEF Init, States, PCs
    <3> QED BY <2>1, <3>1, <3>2 DEF Init, TypeOK
  <2>3. Core
    BY <2>1, Zenon DEF Init, Core, PoolIsExclusive, BytesAreFresh, OnlyBootCreates, TidsAreMarked,
               TidsAreDisjoint, Has, InPool, Creating, Cleared, All
  <2> QED BY <2>2, <2>3 DEF TidInv
<1>2. TidInv /\ [Next]_vars => TidInv'
  <2>1. ASSUME TidInv, UNCHANGED vars PROVE TidInv'
    <3>1. TypeOK'
      BY <2>1, Zenon DEF vars, TidInv, TypeOK
    <3> QED BY <2>1, <3>1, IdleCore DEF vars, TidInv
  <2> QED BY <2>1, TypeStep, CoreStep DEF TidInv
<1>3. TidInv => TidsAreUnique
  BY Zenon DEF TidInv, Core, TidsAreDisjoint, TidsAreUnique
<1> QED BY <1>1, <1>2, <1>3, PTL DEF Spec
=============================================================================
