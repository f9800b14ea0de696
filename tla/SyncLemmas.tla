----------------------------- MODULE SyncLemmas -----------------------------
(***************************************************************************)
(* CpuInv is inductive: the steps of Cpu preserve it whatever the body of  *)
(* a critical section does to the lists, as long as the running thread     *)
(* stays first in the ring until the section ends or blocks.  Then the     *)
(* inductive invariant of Sync, that it holds at boot, and what the        *)
(* scheduler steps at the end of a critical section do to its parts.       *)
(***************************************************************************)
EXTENDS Sync, RingProofs, FiniteSetTheorems

\* A thread that is switched out inside its critical section continues there
\* with interrupts off: what makes SectionsAreAtomic inductive.
ResumesDisabled == \A t \in Threads : pc[t] = "inside" => ~resume_if[t]

CpuInv ==
    /\ CpuTypeOK
    /\ Len(ring) > 0
    /\ DepthCountsSections
    /\ SectionsAreAtomic
    /\ ResumesDisabled

\* The threads between cli and leave_critical can be counted.
LEMMA InSectionFinite ==
    IsFiniteSet(InSection) /\ Cardinality(InSection) \in Nat
<1>1. InSection \subseteq Threads
  BY Zenon DEF InSection
<1> QED
  BY <1>1, ThreadsAssumption, FS_Subset, FS_CardinalityType, Zenon

\* The invariant holds when the threads start, at their trampolines.
LEMMA CpuInitInv == CpuInit => CpuInv
<1> SUFFICES ASSUME CpuInit PROVE CpuInv
  BY Zenon
<1>1. Cardinality(Threads) \in Nat /\ Cardinality(Threads) # 0
  BY ThreadsAssumption, FS_CardinalityType, FS_EmptySet, Zenon
<1>2. ring \in Seq(Threads) /\ Len(ring) = Cardinality(Threads)
  <2>1. ring \in [1 .. Cardinality(Threads) -> Threads]
    BY Zenon DEF CpuInit
  <2>2. ring \in Seq(Threads)
    BY <1>1, <2>1
  <2> QED
    BY <1>1, <2>1, <2>2
<1>3. InSection = {}
  BY Zenon DEF CpuInit, InSection
<1>4. CpuTypeOK
  <2>1. wait \in [Queues -> Seq(Threads)]
    <3>1. <<>> \in Seq(Threads)
      OBVIOUS
    <3>2. wait = [q \in Queues |-> <<>>]
      BY Zenon DEF CpuInit
    <3> QED
      BY <3>1, <3>2, Zenon
  <2> QED
    BY <1>2, <2>1, Zenon DEF CpuInit, CpuTypeOK, PC
<1>5. Head(ring) \in Threads
  BY <1>1, <1>2, HeadTailFacts
<1> QED
  BY <1>1, <1>2, <1>3, <1>4, <1>5, FS_EmptySet
  DEF CpuInit, CpuInv, DepthCountsSections, SectionsAreAtomic, ResumesDisabled

\* The switch of timer_handler, r0_yield and SYS_YIELD.
LEMMA SwitchInv ==
    ASSUME CpuInv, NEW t \in Threads, Running(t), NEW f \in BOOLEAN,
           pc[t] # "inside", SwitchTo(t, f),
           UNCHANGED <<wait, critical_depth, critical_saved_flags, eax, ecx,
                       in_syscall, pc, halted>>
    PROVE  CpuInv'
<1> USE DEF CpuInv, CpuTypeOK
<1>1. ring' \in Seq(Threads) /\ Len(ring') > 0
  BY RotatedFacts, Zenon DEF SwitchTo
<1>2. Head(ring') \in Threads
  BY <1>1, HeadTailFacts, Zenon
<1>3. resume_if' \in [Threads -> BOOLEAN] /\ iflag' \in BOOLEAN
  BY <1>2, Zenon DEF SwitchTo
<1>4. ResumesDisabled'
  BY Zenon DEF SwitchTo, ResumesDisabled
<1>5. SectionsAreAtomic'
  BY <1>2, <1>4, Zenon DEF SwitchTo, SectionsAreAtomic, ResumesDisabled
<1>6. DepthCountsSections'
  BY Zenon DEF DepthCountsSections, InSection
<1> QED
  BY <1>1, <1>3, <1>4, <1>5, <1>6, Zenon

\* A thread with interrupts on is in no critical section.
LEMMA TimerInv ==
    ASSUME CpuInv, NEW t \in Threads, timer_handler(t)
    PROVE  CpuInv'
<1>1. pc[t] # "inside"
  BY Zenon DEF timer_handler, Running, CpuInv, SectionsAreAtomic
<1> QED
  BY <1>1, SwitchInv, Zenon DEF timer_handler

\* direct_scheduler_entry and SYS_YIELD keep the invariant.
LEMMA YieldInv ==
    ASSUME CpuInv, NEW t \in Threads, yield(t)
    PROVE  CpuInv'
<1>1. (IF t \in UserThreads THEN TRUE ELSE iflag) \in BOOLEAN
  BY Zenon DEF CpuInv, CpuTypeOK
<1>2. pc[t] # "inside"
  BY Zenon DEF yield
<1> QED
  BY <1>1, <1>2, SwitchInv, Zenon DEF yield

\* Entering and leaving a system call, and the first steps of enter_critical,
\* leave the lists and the depth alone.
LEMMA PrologueInv ==
    ASSUME CpuInv, NEW t \in Threads,
           \/ syscall_enter(t) \/ syscall_return(t)
           \/ enter_critical_read(t) \/ enter_critical_save(t)
    PROVE  CpuInv'
<1> USE DEF CpuInv, CpuTypeOK, PC, Running
<1>1. CASE syscall_enter(t) \/ syscall_return(t)
  BY <1>1, Zenon DEF syscall_enter, syscall_return, DepthCountsSections, InSection,
              SectionsAreAtomic, ResumesDisabled
<1>2. CASE enter_critical_read(t) \/ enter_critical_save(t)
  <2>1. CpuTypeOK' /\ Len(ring') > 0
    <3>1. CASE enter_critical_read(t)
      BY <3>1, Zenon DEF enter_critical_read
    <3>2. CASE enter_critical_save(t)
      BY <3>2, Zenon DEF enter_critical_save
    <3> QED
      BY <1>2, <3>1, <3>2, Zenon
  <2>2. InSection' = InSection
    BY <1>2, Zenon DEF enter_critical_read, enter_critical_save, InSection
  <2>3. DepthCountsSections'
    BY <1>2, <2>2, Zenon DEF enter_critical_read, enter_critical_save, DepthCountsSections
  <2>4. SectionsAreAtomic' /\ ResumesDisabled'
    BY <1>2, Zenon DEF enter_critical_read, enter_critical_save, SectionsAreAtomic,
                ResumesDisabled
  <2> QED
    BY <2>1, <2>3, <2>4, Zenon
<1> QED
  BY <1>1, <1>2, Zenon

\* The end of a body that leaves the running thread at the head of the ring.
LEMMA LeaveInv ==
    ASSUME CpuInv, NEW t \in Threads, InBody(t),
           NEW r \in Seq(Threads), Len(r) > 0, Head(r) = t,
           NEW w \in [Queues -> Seq(Threads)],
           leave_critical(t, r, w)
    PROVE  CpuInv'
<1> USE DEF CpuInv, CpuTypeOK, PC, Running, InBody
<1>1. InSection' = InSection \ {t}
  BY Zenon DEF leave_critical, InSection
<1>2. /\ Cardinality(InSection) \in Nat /\ IsFiniteSet(InSection)
      /\ Cardinality(InSection \ {t}) =
           IF t \in InSection THEN Cardinality(InSection) - 1 ELSE Cardinality(InSection)
      /\ Cardinality(InSection \ {t}) \in Nat
  <2>1. IsFiniteSet(InSection) /\ Cardinality(InSection) \in Nat
    BY InSectionFinite, Zenon
  <2> QED
    BY <2>1, FS_RemoveElement, FS_CardinalityType, Zenon
<1>3. t \in InSection <=> pc[t] = "inside"
  BY Zenon DEF InSection
<1>4. DepthCountsSections'
  <2>1. critical_depth = Cardinality(InSection)
    BY Zenon DEF DepthCountsSections
  <2>2. critical_depth' = (IF t \in InSection THEN critical_depth ELSE critical_depth + 1) - 1
    BY <1>3, Zenon DEF leave_critical, BodyDepth
  <2>3. critical_depth' = Cardinality(InSection \ {t})
    BY ONLY <1>2, <2>1, <2>2
  <2> QED
    BY ONLY <1>1, <2>3, Zenon DEF DepthCountsSections
<1>5. critical_depth' \in Nat
  BY <1>1, <1>2, <1>4, Zenon DEF DepthCountsSections
<1>6. CpuTypeOK' /\ Len(ring') > 0
  BY <1>5, Zenon DEF leave_critical
<1>7. SectionsAreAtomic' /\ ResumesDisabled'
  BY Zenon DEF leave_critical, SectionsAreAtomic, ResumesDisabled
<1> QED
  BY <1>4, <1>6, <1>7, Zenon

\* block() at the end of such a body.
LEMMA BlockInv ==
    ASSUME CpuInv, NEW t \in Threads, InBody(t), NEW q \in Queues,
           NEW r \in Seq(Threads), Len(r) > 0,
           NEW w \in [Queues -> Seq(Threads)],
           block(t, q, r, w)
    PROVE  CpuInv'
<1> USE DEF CpuInv, CpuTypeOK, PC, Running, InBody
<1>1. InSection' = InSection \cup {t}
  BY Zenon DEF block, InSection
<1>2. /\ Cardinality(InSection) \in Nat
      /\ Cardinality(InSection \cup {t}) =
           IF t \in InSection THEN Cardinality(InSection) ELSE Cardinality(InSection) + 1
  <2>1. IsFiniteSet(InSection) /\ Cardinality(InSection) \in Nat
    BY InSectionFinite, Zenon
  <2> QED
    BY <2>1, FS_AddElement, Zenon
<1>3. t \in InSection <=> pc[t] = "inside"
  BY Zenon DEF InSection
<1>4. DepthCountsSections' /\ critical_depth' \in Nat
  <2>1. critical_depth = Cardinality(InSection)
    BY Zenon DEF DepthCountsSections
  <2>2. critical_depth' = IF t \in InSection THEN critical_depth ELSE critical_depth + 1
    BY <1>3, Zenon DEF block, BodyDepth
  <2>3. critical_depth' = Cardinality(InSection \cup {t}) /\ critical_depth' \in Nat
    BY ONLY <1>2, <2>1, <2>2
  <2> QED
    BY ONLY <1>1, <2>3, Zenon DEF DepthCountsSections
<1>5. Append(w[q], t) \in Seq(Threads)
  BY AppendFacts, Zenon
<1>6. wait' \in [Queues -> Seq(Threads)]
  BY <1>5, Zenon DEF block, Joined
<1>7. ring' \in Seq(Threads) /\ Len(ring') > 0
  <2>1. Tail(r) \in Seq(Threads) /\ Len(Tail(r)) = Len(r) - 1 /\ Len(r) \in Nat
    BY HeadTailFacts, Zenon
  <2>2. CASE Len(r) = 1
    BY <2>2, Zenon DEF block
  <2>3. CASE Len(r) # 1
    <3>1. ring' = Tail(r)
      BY <2>3, Zenon DEF block, Popped
    <3> QED
      BY <3>1, <2>1, <2>3
  <2> QED
    BY <2>2, <2>3, Zenon
<1>8. Head(ring') \in Threads
  BY <1>7, HeadTailFacts, Zenon
<1>9. resume_if' \in [Threads -> BOOLEAN] /\ iflag' \in BOOLEAN /\ halted' \in BOOLEAN
  BY <1>8, Zenon DEF block, IFAfterBlock
<1>10. ResumesDisabled'
  BY Zenon DEF block, ResumesDisabled, IFAfterBlock
<1>11. SectionsAreAtomic'
  BY <1>8, <1>10, Zenon DEF block, SectionsAreAtomic, ResumesDisabled
<1>12. CpuTypeOK'
  BY <1>4, <1>6, <1>7, <1>9, Zenon DEF block
<1> QED
  BY <1>4, <1>7, <1>10, <1>11, <1>12, Zenon
-----------------------------------------------------------------------------
\* A switch keeps every thread where it is.
LEMMA OneListRotated ==
    ASSUME NEW r \in Seq(Threads), Len(r) > 0,
           NEW w \in [Queues -> Seq(Threads)], OneList(r, w)
    PROVE  OneList(Rotated(r), w)
<1>1. Range(Rotated(r)) = Range(r)
  BY RotatedFacts, Zenon
<1>2. IsInjective(Rotated(r))
  BY RotatedDistinct, Zenon DEF OneList
<1> QED
  BY <1>1, <1>2, Zenon DEF OneList

\* unblock() moves the first thread of a wait queue to the ring.
LEMMA OneListWoken ==
    ASSUME NEW r \in Seq(Threads), Len(r) > 0,
           NEW w \in [Queues -> Seq(Threads)], OneList(r, w),
           NEW q \in Queues, Len(w[q]) > 0
    PROVE  OneList(Woken(r, Head(w[q])), [w EXCEPT ![q] = Tail(@)])
<1> DEFINE x == Head(w[q])
           u == Tail(w[q])
           v == [w EXCEPT ![q] = Tail(@)]
<1>1. w[q] \in Seq(Threads)
  BY Zenon
<1>2. x \in Threads /\ u \in Seq(Threads) /\ Range(w[q]) = {x} \cup Range(u)
  BY <1>1, HeadTailFacts, Zenon
<1>3. IsInjective(u) /\ x \notin Range(u)
  BY <1>1, TailDistinct, Zenon DEF OneList
<1>4. x \notin Range(r)
  BY <1>2, Zenon DEF OneList
<1>5. v[q] = u /\ \A p \in Queues : p # q => v[p] = w[p]
  BY Zenon
<1> HIDE DEF x, u, v
<1>6. Range(Woken(r, x)) = Range(r) \cup {x}
  BY <1>2, WokenFacts
<1>7. IsInjective(Woken(r, x))
  BY <1>2, <1>4, WokenDistinct, Zenon DEF OneList
<1>8. \A p \in Queues : IsInjective(v[p]) /\ Range(Woken(r, x)) \cap Range(v[p]) = {}
  <2> TAKE p \in Queues
  <2>1. CASE p = q
    BY <2>1, <1>2, <1>3, <1>5, <1>6 DEF OneList
  <2>2. CASE p # q
    BY <2>2, <1>2, <1>5, <1>6, Zenon DEF OneList
  <2> QED
    BY <2>1, <2>2, Zenon
<1>9. \A p \in Queues : Range(v[p]) \subseteq Range(w[p])
  BY <1>2, <1>5, Zenon
<1>10. \A p1, p2 \in Queues : p1 # p2 => Range(v[p1]) \cap Range(v[p2]) = {}
  BY <1>9, Zenon DEF OneList
<1>11. \A t \in Threads :
          t \in Range(Woken(r, x)) \/ \E p \in Queues : t \in Range(v[p])
  BY <1>2, <1>5, <1>6, Zenon DEF OneList
<1>12. OneList(Woken(r, x), v)
  BY <1>7, <1>8, <1>10, <1>11, Zenon DEF OneList
<1> QED
  BY <1>12, Zenon DEF x, v

\* The loop of unblock() moves a whole wait queue to the ring.
LEMMA OneListWokenAll ==
    ASSUME NEW r \in Seq(Threads), Len(r) > 0,
           NEW w \in [Queues -> Seq(Threads)], OneList(r, w), NEW q \in Queues
    PROVE  OneList(WokenAll(r, w[q]), [w EXCEPT ![q] = <<>>])
<1> DEFINE v == [w EXCEPT ![q] = <<>>]
           k == WokenAll(r, w[q])
<1>1. w[q] \in Seq(Threads) /\ IsInjective(w[q]) /\ Range(w[q]) \cap Range(r) = {}
  BY Zenon DEF OneList
<1>2. Range(k) = Range(r) \cup Range(w[q])
  BY <1>1, WokenAllFacts
<1>3. IsInjective(k)
  BY <1>1, WokenAllDistinct, Zenon DEF OneList
<1>4. v[q] = <<>> /\ \A p \in Queues : p # q => v[p] = w[p]
  BY Zenon
<1>5. Range(v[q]) = {} /\ IsInjective(v[q])
  BY <1>4 DEF Range, IsInjective
<1> HIDE DEF v, k
<1>6. \A p \in Queues : IsInjective(v[p]) /\ Range(k) \cap Range(v[p]) = {}
  BY <1>2, <1>4, <1>5, Zenon DEF OneList
<1>7. \A p1, p2 \in Queues : p1 # p2 => Range(v[p1]) \cap Range(v[p2]) = {}
  BY <1>4, <1>5, Zenon DEF OneList
<1>8. \A t \in Threads : t \in Range(k) \/ \E p \in Queues : t \in Range(v[p])
  BY <1>2, <1>4, Zenon DEF OneList
<1>9. OneList(k, v)
  BY <1>3, <1>6, <1>7, <1>8, Zenon DEF OneList
<1> QED
  BY <1>9, Zenon DEF k, v

\* block() moves the first thread of the ring to the end of a wait queue.
LEMMA OneListBlocked ==
    ASSUME NEW r \in Seq(Threads), Len(r) > 0,
           NEW w \in [Queues -> Seq(Threads)], OneList(r, w), NEW q \in Queues
    PROVE  OneList(Tail(r), [w EXCEPT ![q] = Append(@, Head(r))])
<1> DEFINE h == Head(r)
           u == Tail(r)
           a == Append(w[q], Head(r))
           v == [w EXCEPT ![q] = Append(@, Head(r))]
<1>1. h \in Threads /\ u \in Seq(Threads) /\ Range(r) = {h} \cup Range(u)
  BY HeadTailFacts, Zenon
<1>2. IsInjective(u) /\ h \notin Range(u)
  BY TailDistinct, Zenon DEF OneList
<1>3. w[q] \in Seq(Threads) /\ IsInjective(w[q]) /\ h \notin Range(w[q])
  BY <1>1, Zenon DEF OneList
<1>4. v[q] = a /\ \A p \in Queues : p # q => v[p] = w[p]
  BY Zenon
<1>5. Range(a) = Range(w[q]) \cup {h} /\ IsInjective(a)
  BY <1>1, <1>3, AppendFacts, AppendDistinct
<1> HIDE DEF h, u, a, v
<1>6. \A p \in Queues : IsInjective(v[p]) /\ Range(u) \cap Range(v[p]) = {}
  <2> TAKE p \in Queues
  <2>1. CASE p = q
    BY <2>1, <1>1, <1>2, <1>4, <1>5 DEF OneList
  <2>2. CASE p # q
    BY <2>2, <1>1, <1>4, Zenon DEF OneList
  <2> QED
    BY <2>1, <2>2, Zenon
<1>7. \A p \in Queues : p # q => Range(v[p]) \cap Range(v[q]) = {}
  BY <1>1, <1>4, <1>5, Zenon DEF OneList
<1>8. \A p1, p2 \in Queues : p1 # p2 => Range(v[p1]) \cap Range(v[p2]) = {}
  BY <1>4, <1>7, Zenon DEF OneList
<1>9. \A t \in Threads : t \in Range(u) \/ \E p \in Queues : t \in Range(v[p])
  BY <1>1, <1>4, <1>5, Zenon DEF OneList
<1>10. OneList(u, v)
  BY <1>2, <1>6, <1>8, <1>9, Zenon DEF OneList
<1> QED
  BY <1>10, Zenon DEF u, v, h
-----------------------------------------------------------------------------
\* Until it has left its critical section a thread keeps what MayCall asked for:
\* nobody else releases its lock or takes its slot away.
Disciplined(t) ==
    /\ pc[t] # "run" =>
          /\ \A l \in Locks : call[t] = <<"release", l>> => t \in held[l]
          /\ \A s \in Semaphores : call[t] = <<"up", s>> => t \in held[s]
    /\ pc[t] \in {"read", "cli"} =>
          /\ \A c \in Conditions : call[t] = <<"wait", c>> => t \in held[LockOf[c]]
          /\ \A s \in Semaphores : call[t] = <<"down", s>> => t \notin held[s]
Discipline == \A t \in Threads : Disciplined(t)

\* A queued thread is inside the critical section that queued it, in the queue
\* of a lock it is there to take that lock, and it has no slot of a semaphore
\* it queues for.
WaitersAreInside ==
    \A q \in Queues : \A t \in Range(wait[q]) :
        /\ pc[t] = "inside"
        /\ q \in Locks => Wants(t, q)
        /\ q \in Semaphores => t \notin held[q]

\* The inductive invariant.
SyncInv ==
    /\ TypeOK
    /\ CpuInv
    /\ OneListPerThread
    /\ Discipline
    /\ WaitersAreInside
    /\ MutualExclusion
    /\ NoLostWakeup
    /\ SlotsAreConserved
    /\ BarrierCountsWaiters
-----------------------------------------------------------------------------
\* The lists as the body of a critical section may leave them to leave_critical
\* or block(): some waiting threads have moved to the ring, nobody else.
ListsOK(r, w) ==
    /\ r \in Seq(Threads) /\ Len(r) > 0 /\ Head(r) = Head(ring)
    /\ w \in [Queues -> Seq(Threads)]
    /\ OneList(r, w)
    /\ Range(ring) \subseteq Range(r)
    /\ \A q \in Queues : Range(w[q]) \subseteq Range(wait[q])

\* The lists are in order when nothing is moved.
LEMMA SameLists ==
    ASSUME CpuInv, OneListPerThread, ~halted
    PROVE  ListsOK(ring, wait)
BY Zenon DEF CpuInv, CpuTypeOK, OneListPerThread, ListsOK

\* The ring behind an unblock() of x.
LEMMA WokenRingFacts ==
    ASSUME CpuInv, NEW x \in Threads
    PROVE  /\ Woken(ring, x) \in Seq(Threads) /\ Len(Woken(ring, x)) > 1
           /\ Head(Woken(ring, x)) = Head(ring)
           /\ Range(Woken(ring, x)) = Range(ring) \cup {x}
<1>1. ring \in Seq(Threads) /\ Len(ring) > 0
  BY Zenon DEF CpuInv, CpuTypeOK
<1>2. /\ Woken(ring, x) \in Seq(Threads) /\ Len(Woken(ring, x)) = Len(ring) + 1
      /\ Head(Woken(ring, x)) = Head(ring)
      /\ Range(Woken(ring, x)) = Range(ring) \cup {x}
  BY <1>1, WokenFacts
<1>3. Len(ring) \in Nat
  BY <1>1
<1> QED
  BY <1>1, <1>2, <1>3

\* unblock(&q), if somebody waits.
LEMMA WokenLists ==
    ASSUME CpuInv, OneListPerThread, ~halted, NEW q \in Queues
    PROVE  /\ ListsOK(WokenRing(q), WokenWait(q))
           /\ \A p \in Queues : p # q => WokenWait(q)[p] = wait[p]
           /\ wait[q] = <<>> => WokenWait(q) = wait
           /\ wait[q] # <<>> => /\ Head(wait[q]) \in Range(wait[q])
                                /\ Head(wait[q]) \in Range(WokenRing(q))
                                /\ Head(wait[q]) \notin Range(WokenWait(q)[q])
                                /\ Len(WokenRing(q)) > 1
<1> USE DEF CpuInv, CpuTypeOK, OneListPerThread
<1>1. CASE wait[q] = <<>>
  <2>1. WokenRing(q) = ring /\ WokenWait(q) = wait
    BY <1>1, Zenon DEF WokenRing, WokenWait
  <2> QED
    BY <1>1, <2>1, SameLists, Zenon
<1>2. CASE wait[q] # <<>>
  <2> DEFINE x == Head(wait[q])
             v == [wait EXCEPT ![q] = Tail(@)]
  <2>1. WokenRing(q) = Woken(ring, x) /\ WokenWait(q) = v
    BY <1>2, Zenon DEF WokenRing, WokenWait
  <2>2. wait[q] \in Seq(Threads) /\ Len(wait[q]) > 0
    BY <1>2
  <2>3. x \in Threads /\ Tail(wait[q]) \in Seq(Threads)
        /\ Range(wait[q]) = {x} \cup Range(Tail(wait[q]))
    BY <2>2, HeadTailFacts, Zenon
  <2>4. x \notin Range(Tail(wait[q]))
    BY <2>2, TailDistinct, Zenon DEF OneList
  <2>5. /\ v \in [Queues -> Seq(Threads)] /\ v[q] = Tail(wait[q])
        /\ \A p \in Queues : p # q => v[p] = wait[p]
    BY <2>3, Zenon
  <2>6. OneList(Woken(ring, x), v)
    <3>1. /\ ring \in Seq(Threads) /\ Len(ring) > 0
          /\ wait \in [Queues -> Seq(Threads)] /\ OneList(ring, wait)
      BY Zenon
    <3> QED
      BY <2>2, <3>1, OneListWoken, Zenon
  <2>7. /\ Woken(ring, x) \in Seq(Threads) /\ Len(Woken(ring, x)) > 1
        /\ Head(Woken(ring, x)) = Head(ring)
        /\ Range(Woken(ring, x)) = Range(ring) \cup {x}
    BY <2>3, WokenRingFacts, Zenon
  <2> HIDE DEF x, v
  <2>8. \A p \in Queues : Range(v[p]) \subseteq Range(wait[p])
    BY <2>3, <2>5, Zenon
  <2>9. ListsOK(Woken(ring, x), v)
    BY <2>5, <2>6, <2>7, <2>8, SMTT(20) DEF ListsOK
  <2> QED
    BY <1>2, <2>1, <2>3, <2>4, <2>5, <2>7, <2>9, Zenon DEF x
<1> QED
  BY <1>1, <1>2, Zenon

\* The loop of unblock(&q).
LEMMA WokenAllLists ==
    ASSUME CpuInv, OneListPerThread, ~halted, NEW q \in Queues
    PROVE  ListsOK(WokenAll(ring, wait[q]), [wait EXCEPT ![q] = <<>>])
<1> USE DEF CpuInv, CpuTypeOK, OneListPerThread
<1> DEFINE v == [wait EXCEPT ![q] = <<>>]
           k == WokenAll(ring, wait[q])
<1>1. wait[q] \in Seq(Threads)
  BY Zenon
<1>2. /\ k \in Seq(Threads) /\ Len(k) > 0 /\ Head(k) = Head(ring)
      /\ Range(k) = Range(ring) \cup Range(wait[q])
  BY <1>1, WokenAllFacts
<1>3. OneList(k, v)
  BY OneListWokenAll, Zenon
<1>4. <<>> \in Seq(Threads) /\ Range(<<>>) = {}
  BY DEF Range
<1>5. v \in [Queues -> Seq(Threads)] /\ v[q] = <<>>
      /\ \A p \in Queues : p # q => v[p] = wait[p]
  BY <1>4, Zenon
<1> HIDE DEF k, v
<1>6. \A p \in Queues : Range(v[p]) \subseteq Range(wait[p])
  BY <1>4, <1>5, Zenon
<1>7. ListsOK(k, v)
  BY <1>2, <1>3, <1>5, <1>6, Zenon DEF ListsOK
<1> QED
  BY <1>7, Zenon DEF k, v

\* leave_critical behind a body: the lists are the ones of the body.
LEMMA LeaveStep ==
    ASSUME CpuInv, OneListPerThread, NEW t \in Threads, InBody(t),
           NEW r, NEW w, ListsOK(r, w), leave_critical(t, r, w)
    PROVE  CpuInv' /\ OneListPerThread'
<1>1. r \in Seq(Threads) /\ Len(r) > 0 /\ Head(r) = t /\ w \in [Queues -> Seq(Threads)]
  BY Zenon DEF ListsOK, InBody, Running
<1>2. CpuInv'
  BY <1>1, LeaveInv, Zenon
<1>3. OneListPerThread'
  BY Zenon DEF leave_critical, OneListPerThread, ListsOK
<1> QED
  BY <1>2, <1>3, Zenon

\* block(&q) behind a body: the running thread has moved to the queue.
LEMMA BlockStep ==
    ASSUME CpuInv, OneListPerThread, NEW t \in Threads, InBody(t), NEW q \in Queues,
           NEW r, NEW w, ListsOK(r, w), block(t, q, r, w)
    PROVE  /\ CpuInv' /\ OneListPerThread'
           /\ Range(r) \ {t} \subseteq Range(ring')
           /\ Range(wait'[q]) = Range(w[q]) \cup {t}
           /\ Len(wait'[q]) = Len(w[q]) + 1
           /\ \A p \in Queues : p # q => wait'[p] = w[p]
<1>1. /\ r \in Seq(Threads) /\ Len(r) > 0 /\ Head(r) = t
      /\ w \in [Queues -> Seq(Threads)] /\ w[q] \in Seq(Threads) /\ OneList(r, w)
  BY Zenon DEF ListsOK, InBody, Running
<1>2. CpuInv'
  BY <1>1, BlockInv, Zenon
<1>3. /\ Tail(r) \in Seq(Threads) /\ Len(Tail(r)) = Len(r) - 1
      /\ Range(r) = {t} \cup Range(Tail(r)) /\ Len(r) \in Nat
  <2>1. /\ Tail(r) \in Seq(Threads) /\ Len(Tail(r)) = Len(r) - 1
        /\ Range(r) = {Head(r)} \cup Range(Tail(r)) /\ Len(r) \in Nat
    BY <1>1, HeadTailFacts, Zenon
  <2> QED
    BY <1>1, <2>1, Zenon
<1>4. wait' = [w EXCEPT ![q] = Append(@, t)]
  BY Zenon DEF block, Joined
<1>5. wait'[q] = Append(w[q], t) /\ \A p \in Queues : p # q => wait'[p] = w[p]
  BY <1>1, <1>4, Zenon
<1>6. Range(Append(w[q], t)) = Range(w[q]) \cup {t} /\ Len(Append(w[q], t)) = Len(w[q]) + 1
  BY <1>1, AppendFacts
<1>7. (ring' = r /\ halted') \/ ring' = Tail(r)
  BY Zenon DEF block, Popped
<1>8. OneListPerThread'
  <2>1. OneList(Tail(r), [w EXCEPT ![q] = Append(@, t)])
    <3>1. OneList(Tail(r), [w EXCEPT ![q] = Append(@, Head(r))])
      BY <1>1, OneListBlocked, Zenon
    <3> QED
      BY <1>1, <3>1, Zenon
  <2> QED
    BY <1>4, <1>7, <2>1, Zenon DEF OneListPerThread
<1>9. Range(r) \ {t} \subseteq Range(ring')
  BY <1>3, <1>7, Zenon
<1> QED
  BY <1>2, <1>5, <1>6, <1>8, <1>9, Zenon
-----------------------------------------------------------------------------
\* The running thread is in the ring and in no queue.
LEMMA RunningNotQueued ==
    ASSUME CpuInv, OneListPerThread, NEW t \in Threads, Running(t)
    PROVE  t \in Range(ring) /\ \A q \in Queues : t \notin Range(wait[q])
<1>1. ring \in Seq(Threads) /\ Len(ring) > 0 /\ t = Head(ring) /\ ~halted
  BY Zenon DEF CpuInv, CpuTypeOK, Running
<1>2. Range(ring) = {Head(ring)} \cup Range(Tail(ring))
  BY <1>1, HeadTailFacts, Zenon
<1> QED
  BY <1>1, <1>2, Zenon DEF OneListPerThread, OneList

\* A null queue pointer: nobody is in the queue.
LEMMA EmptyRange ==
    ASSUME NEW S, NEW s \in Seq(S)
    PROVE  s = <<>> <=> Range(s) = {}
<1>1. CASE s = <<>>
  BY <1>1 DEF Range
<1>2. CASE s # <<>>
  <2>1. Len(s) > 0
    BY <1>2
  <2> QED
    BY <2>1, <1>2, HeadTailFacts, Zenon
<1> QED
  BY <1>1, <1>2, Zenon

\* A step of t that ends its call or blocks keeps the discipline when it leaves
\* alone what the other callers hold.
LEMMA DisciplineStep ==
    ASSUME SyncInv, NEW t \in Threads,
           \A u \in Threads \ {t} : pc'[u] = pc[u], UNCHANGED call,
           \/ pc'[t] = "run"
           \/ pc'[t] = "inside" /\ \A o : call[t] # <<"release", o>> /\ call[t] # <<"up", o>>,
           \A u \in Threads \ {t} : \A o \in Locks \cup Semaphores :
              /\ u \in held[o] => u \in held'[o]
              /\ u \in held'[o] => u \in held[o] \/ pc[u] = "inside"
    PROVE  Discipline'
<1> SUFFICES ASSUME NEW u \in Threads
             PROVE  /\ pc'[u] # "run" =>
                         /\ \A l \in Locks : call'[u] = <<"release", l>> => u \in held'[l]
                         /\ \A s \in Semaphores : call'[u] = <<"up", s>> => u \in held'[s]
                    /\ pc'[u] \in {"read", "cli"} =>
                         /\ \A c \in Conditions :
                              call'[u] = <<"wait", c>> => u \in held'[LockOf[c]]
                         /\ \A s \in Semaphores :
                              call'[u] = <<"down", s>> => u \notin held'[s]
  BY Zenon DEF Discipline, Disciplined
<1>1. CASE u = t
  BY <1>1, Zenon
<1>2. CASE u # t
  <2>1. \A c \in Conditions : LockOf[c] \in Locks
    BY ObjectsAssumption, Zenon
  <2> QED
    BY <1>2, <2>1, Zenon DEF SyncInv, Discipline, Disciplined
<1> QED
  BY <1>1, <1>2, Zenon

\* leave_critical keeps the waiters inside.
LEMMA LeaveWaiters ==
    ASSUME SyncInv, NEW t \in Threads, InBody(t), NEW r, NEW w, ListsOK(r, w),
           leave_critical(t, r, w), UNCHANGED call,
           \A s \in Semaphores : \A u \in Range(w[s]) : u \notin held'[s]
    PROVE  WaitersAreInside'
<1>1. \A q \in Queues : t \notin Range(wait[q])
  BY RunningNotQueued, Zenon DEF SyncInv, InBody
<1>2. wait' = w /\ \A u \in Threads \ {t} : pc'[u] = pc[u]
  BY Zenon DEF leave_critical, SyncInv, CpuInv, CpuTypeOK
<1> SUFFICES ASSUME NEW q \in Queues, NEW u \in Range(w[q])
             PROVE  /\ pc'[u] = "inside"
                    /\ q \in Locks => Wants(u, q)'
                    /\ q \in Semaphores => u \notin held'[q]
  BY <1>2, Zenon DEF WaitersAreInside
<1>3. u \in Range(wait[q])
  BY Zenon DEF ListsOK
<1>4. u \in Threads \ {t}
  <2>1. wait[q] \in Seq(Threads)
    BY Zenon DEF SyncInv, CpuInv, CpuTypeOK
  <2> QED
    BY <1>1, <1>3, <2>1, RangeIn, Zenon
<1> QED
  BY <1>2, <1>3, <1>4 DEF SyncInv, WaitersAreInside, Wants

\* block(&q) keeps the waiters inside and adds the running thread.
LEMMA BlockWaiters ==
    ASSUME SyncInv, NEW t \in Threads, InBody(t), NEW q \in Queues,
           NEW r, NEW w, ListsOK(r, w), block(t, q, r, w), UNCHANGED call,
           q \in Locks => Wants(t, q),
           \A s \in Semaphores : \A u \in Range(wait'[s]) : u \notin held'[s]
    PROVE  WaitersAreInside'
<1>1. /\ Range(wait'[q]) = Range(w[q]) \cup {t}
      /\ \A p \in Queues : p # q => wait'[p] = w[p]
  BY BlockStep DEF SyncInv
<1>2. pc'[t] = "inside" /\ \A u \in Threads \ {t} : pc'[u] = pc[u]
  BY Zenon DEF block, SyncInv, CpuInv, CpuTypeOK
<1> SUFFICES ASSUME NEW p \in Queues, NEW u \in Range(wait'[p])
             PROVE  /\ pc'[u] = "inside"
                    /\ p \in Locks => Wants(u, p)'
                    /\ p \in Semaphores => u \notin held'[p]
  BY Zenon DEF WaitersAreInside
<1>3. CASE u = t /\ p = q
  BY <1>2, <1>3, Zenon DEF Wants
<1>4. CASE ~(u = t /\ p = q)
  <2>1. u \in Range(w[p])
    BY <1>1, <1>4, Zenon
  <2>2. u \in Range(wait[p])
    BY <2>1, Zenon DEF ListsOK
  <2>3. wait[p] \in Seq(Threads)
    BY Zenon DEF SyncInv, CpuInv, CpuTypeOK
  <2>4. u \in Threads
    BY <2>2, <2>3, RangeIn, Zenon
  <2> QED
    BY <1>2, <2>2, <2>4 DEF SyncInv, WaitersAreInside, Wants
<1> QED
  BY <1>3, <1>4, Zenon

\* A free lock that somebody has been offered stays offered, unless the step is
\* that of the thread to which it was offered.
LEMMA WakeupKept ==
    ASSUME SyncInv, CpuInv', NEW t \in Threads, NEW l \in Locks,
           status'[l] = "UNLOCKED" => status[l] = "UNLOCKED",
           Range(wait'[l]) \subseteq Range(wait[l]),
           Range(ring) \ {t} \subseteq Range(ring'),
           \A u \in Threads \ {t} : pc'[u] = pc[u], UNCHANGED call,
           pc[t] = "inside" /\ Wants(t, l) => status'[l] # "UNLOCKED"
    PROVE  status'[l] = "UNLOCKED" /\ wait'[l] # <<>> => Contenders(l)' # {}
<1> SUFFICES ASSUME status'[l] = "UNLOCKED", wait'[l] # <<>>
             PROVE  Contenders(l)' # {}
  BY Zenon
<1>1. l \in Queues
  BY ObjectsAssumption, Zenon
<1>2. wait[l] \in Seq(Threads) /\ wait'[l] \in Seq(Threads) /\ ring \in Seq(Threads)
  BY <1>1, Zenon DEF SyncInv, CpuInv, CpuTypeOK
<1>3. wait[l] # <<>>
  BY <1>2, EmptyRange, Zenon
<1>4. PICK u \in Contenders(l) : TRUE
  BY <1>3, Zenon DEF SyncInv, NoLostWakeup
<1>5. u \in Range(ring) /\ pc[u] = "inside" /\ Wants(u, l)
  BY <1>4, Zenon DEF Contenders
<1>6. u \in Threads /\ u # t
  BY <1>2, <1>5, RangeIn, Zenon
<1>7. u \in Contenders(l)'
  BY <1>5, <1>6, Zenon DEF Contenders, Wants
<1> QED
  BY <1>7, Zenon
-----------------------------------------------------------------------------
\* At boot every thread is in the ring, once.
LEMMA InitInv == Init => SyncInv
<1> SUFFICES ASSUME Init PROVE SyncInv
  BY Zenon
<1>1. CpuInv
  BY CpuInitInv, Zenon DEF Init
<1>2. /\ ring \in [1 .. Cardinality(Threads) -> Threads] /\ Range(ring) = Threads
      /\ wait = [q \in Queues |-> <<>>] /\ pc = [t \in Threads |-> "run"]
  BY Zenon DEF Init, CpuInit
<1>3. \A q \in Queues : wait[q] = <<>> /\ Range(wait[q]) = {} /\ IsInjective(wait[q])
                        /\ Len(wait[q]) = 0
  BY <1>2 DEF Range, IsInjective
<1>4. IsInjective(ring)
  <2> DEFINE n == Cardinality(Threads)
  <2>1. n \in Nat
    BY ThreadsAssumption, FS_CardinalityType, Zenon
  <2>2. IsFiniteSet(1 .. n) /\ Cardinality(1 .. n) = n
    BY <2>1, FS_Interval
  <2>3. ring \in Surjection(1 .. n, Threads)
    BY <1>2, Zenon DEF Surjection, Range
  <2>4. ring \in Injection(1 .. n, Threads)
    BY <2>2, <2>3, FS_SurjSameCardinalityImpliesInj, Zenon
  <2> QED
    BY <2>4, Zenon DEF Injection
<1>5. OneListPerThread
  BY <1>2, <1>3, <1>4, Zenon DEF OneListPerThread, OneList
<1>6. \A b \in Barriers : Cardinality(Parties[b]) \in Nat /\ Cardinality(Parties[b]) > 0
  <2> SUFFICES ASSUME NEW b \in Barriers
               PROVE  Cardinality(Parties[b]) \in Nat /\ Cardinality(Parties[b]) > 0
    BY Zenon
  <2>1. Parties[b] \subseteq Threads /\ Parties[b] # {}
    BY ObjectsAssumption, Zenon
  <2>2. IsFiniteSet(Parties[b])
    BY <2>1, ThreadsAssumption, FS_Subset, Zenon
  <2>3. Cardinality(Parties[b]) \in Nat /\ Cardinality(Parties[b]) # 0
    BY <2>1, <2>2, FS_CardinalityType, FS_EmptySet, Zenon
  <2> QED
    BY <2>3
<1>7. TypeOK
  <2>1. held \in [Locks \cup Semaphores -> SUBSET Threads]
    BY Zenon DEF Init
  <2>2. arrivals \in [Barriers -> [Threads -> Nat]] /\ counter \in [Barriers -> Nat]
    BY <1>6, Zenon DEF Init
  <2>3. call \in [Threads -> Calls \cup {NoCall}]
    BY Zenon DEF Init
  <2>4. slots \in [Semaphores -> Nat]
    BY ObjectsAssumption, Zenon DEF Init
  <2> QED
    BY <1>1, <2>1, <2>2, <2>3, <2>4, Zenon DEF Init, TypeOK, CpuInv
<1>8. Discipline
  BY <1>2, Zenon DEF Discipline, Disciplined
<1>9. WaitersAreInside
  BY <1>3, Zenon DEF WaitersAreInside
<1>10. MutualExclusion
  BY Zenon DEF MutualExclusion, Init
<1>11. NoLostWakeup
  BY <1>3, ObjectsAssumption, Zenon DEF NoLostWakeup
<1>12. SlotsAreConserved
  <2>1. \A s \in Semaphores : held[s] = {} /\ slots[s] = Slots[s] /\ Slots[s] \in Nat
    BY ObjectsAssumption, Zenon DEF Init
  <2>2. \A s \in Semaphores : wait[s] = <<>>
    BY <1>3, ObjectsAssumption, Zenon
  <2>3. \A s \in Semaphores : Cardinality(held[s]) = 0
    BY <2>1, FS_EmptySet, Zenon
  <2> QED
    BY <2>1, <2>2, <2>3 DEF SlotsAreConserved
<1>13. BarrierCountsWaiters
  <2>1. \A b \in Barriers : Len(wait[b]) = 0
    BY <1>3, ObjectsAssumption, Zenon
  <2>2. \A b \in Barriers : counter[b] = Cardinality(Parties[b])
    BY Zenon DEF Init
  <2> QED
    BY <1>6, <2>1, <2>2 DEF BarrierCountsWaiters
<1> QED
  BY <1>1, <1>5, <1>7, <1>8, <1>9, <1>10, <1>11, <1>12, <1>13, Zenon DEF SyncInv

\* A step outside the critical sections: no object and no queue changes.
LEMMA QuietStep ==
    ASSUME SyncInv, CpuInv', OneListPerThread', Discipline',
           UNCHANGED <<objvars, wait>>, Range(ring') = Range(ring),
           call' \in [Threads -> Calls \cup {NoCall}],
           \A u \in Threads : pc[u] = "inside" => pc'[u] = "inside" /\ call'[u] = call[u]
    PROVE  SyncInv'
<1> USE DEF SyncInv, objvars
<1>1. TypeOK'
  BY Zenon DEF TypeOK, CpuInv
<1>2. wait \in [Queues -> Seq(Threads)] /\ ring \in Seq(Threads)
  BY Zenon DEF CpuInv, CpuTypeOK
<1>3. WaitersAreInside'
  <2> SUFFICES ASSUME NEW q \in Queues, NEW u \in Range(wait[q])
               PROVE  /\ pc'[u] = "inside"
                      /\ q \in Locks => Wants(u, q)'
                      /\ q \in Semaphores => u \notin held[q]
    BY Zenon DEF WaitersAreInside
  <2>1. u \in Threads
    BY <1>2, RangeIn, Zenon
  <2> QED
    BY <2>1 DEF WaitersAreInside, Wants
<1>4. MutualExclusion' /\ SlotsAreConserved' /\ BarrierCountsWaiters'
  BY Zenon DEF MutualExclusion, SlotsAreConserved, BarrierCountsWaiters
<1>5. NoLostWakeup'
  <2>1. \A l \in Locks : Contenders(l) \subseteq Contenders(l)'
    <3> SUFFICES ASSUME NEW l \in Locks, NEW u \in Contenders(l)
                 PROVE  u \in Contenders(l)'
      BY Zenon
    <3>1. u \in Threads
      BY <1>2, RangeIn, Zenon DEF Contenders
    <3> QED
      BY <3>1, Zenon DEF Contenders, Wants
  <2> QED
    BY <2>1, Zenon DEF NoLostWakeup
<1> QED
  BY <1>1, <1>3, <1>4, <1>5, Zenon

\* A thread is in one call, which needs one lock at most.
LEMMA WantsOne ==
    ASSUME NEW t \in Threads, NEW l \in Locks, NEW k \in Locks, Wants(t, l), Wants(t, k)
    PROVE  k = l
BY DEF Wants

\* A thread in lock_acquire_helper is not in release or up.
LEMMA WantsNotRelease ==
    ASSUME NEW t \in Threads, NEW l, Wants(t, l)
    PROVE  \A o : call[t] # <<"release", o>> /\ call[t] # <<"up", o>>
BY DEF Wants

\* The steps on semaphores and barriers leave the locks alone.
LEMMA LocksKept ==
    ASSUME SyncInv, CpuInv', NEW t \in Threads, UNCHANGED <<status, call>>,
           \A l \in Locks : held'[l] = held[l] /\ wait'[l] = wait[l] /\ ~Wants(t, l),
           Range(ring) \ {t} \subseteq Range(ring'),
           \A u \in Threads \ {t} : pc'[u] = pc[u]
    PROVE  MutualExclusion' /\ NoLostWakeup'
<1>1. MutualExclusion'
  BY Zenon DEF SyncInv, MutualExclusion
<1>2. ASSUME NEW l \in Locks
      PROVE  status'[l] = "UNLOCKED" /\ wait'[l] # <<>> => Contenders(l)' # {}
  BY WakeupKept, Zenon
<1> QED
  BY <1>1, <1>2, Zenon DEF NoLostWakeup
=============================================================================
