-------------------------- MODULE SyncObjectProofs --------------------------
(***************************************************************************)
(* The functions of Lock and of Semaphore keep the invariant of Sync.      *)
(***************************************************************************)
EXTENDS SyncLemmas

\* acquire, and wait behind its block: the lock is taken if it is free.
LEMMA AcquireHelperInv ==
    ASSUME SyncInv, NEW t \in Threads, InBody(t), NEW l \in Locks, Wants(t, l),
           lock_acquire_helper(t, l), UNCHANGED <<call, slots, counter, arrivals>>
    PROVE  SyncInv'
<1>1. ListsOK(ring, wait)
  BY SameLists, Zenon DEF SyncInv, InBody, Running
<1>2. l \in Queues /\ \A p \in Semaphores \cup Barriers : p \in Queues /\ p # l
  BY ObjectsAssumption, Zenon
<1>3. \A o : call[t] # <<"release", o>> /\ call[t] # <<"up", o>>
  BY WantsNotRelease, Zenon
<1>4. CASE status[l] = "LOCKED"
  <2>1. block(t, l, ring, wait) /\ UNCHANGED <<status, held>>
    BY <1>4, Zenon DEF lock_acquire_helper, MustWait
  <2>2. /\ CpuInv' /\ OneListPerThread'
        /\ Range(ring) \ {t} \subseteq Range(ring')
        /\ \A p \in Queues : p # l => wait'[p] = wait[p]
    BY <1>1, <1>2, <2>1, BlockStep DEF SyncInv
  <2>3. pc'[t] = "inside" /\ \A u \in Threads \ {t} : pc'[u] = pc[u]
    BY <2>1, Zenon DEF block, SyncInv, CpuInv, CpuTypeOK
  <2>4. TypeOK'
    BY <2>1, <2>2, Zenon DEF SyncInv, TypeOK, CpuInv
  <2>5. Discipline'
    BY <1>3, <2>1, <2>3, DisciplineStep, Zenon
  <2>6. WaitersAreInside'
    <3>1. \A s \in Semaphores : \A u \in Range(wait'[s]) : u \notin held'[s]
      BY <1>2, <2>1, <2>2, Zenon DEF SyncInv, WaitersAreInside
    <3> QED
      BY <1>1, <1>2, <2>1, <3>1, BlockWaiters, Zenon
  <2>7. MutualExclusion' /\ SlotsAreConserved' /\ BarrierCountsWaiters'
    BY <1>2, <2>1, <2>2, Zenon
    DEF SyncInv, MutualExclusion, SlotsAreConserved, BarrierCountsWaiters
  <2>8. NoLostWakeup'
    <3> SUFFICES ASSUME NEW k \in Locks
                 PROVE  status'[k] = "UNLOCKED" /\ wait'[k] # <<>> => Contenders(k)' # {}
      BY Zenon DEF NoLostWakeup
    <3>1. CASE k = l
      BY <1>4, <2>1, <3>1, Zenon
    <3>2. CASE k # l
      <4>1. ~Wants(t, k) /\ k \in Queues
        BY <3>2, WantsOne, ObjectsAssumption, Zenon
      <4> QED
        BY <2>1, <2>2, <2>3, <3>2, <4>1, WakeupKept, Zenon
    <3> QED
      BY <3>1, <3>2, Zenon
  <2> QED
    BY <2>2, <2>4, <2>5, <2>6, <2>7, <2>8, Zenon DEF SyncInv
<1>5. CASE status[l] # "LOCKED"
  <2>1. /\ status' = [status EXCEPT ![l] = "LOCKED"]
        /\ held' = [held EXCEPT ![l] = @ \cup {t}]
        /\ leave_critical(t, ring, wait)
    BY <1>5, Zenon DEF lock_acquire_helper, MustWait
  <2>2. CpuInv' /\ OneListPerThread'
    BY <1>1, <2>1, LeaveStep, Zenon DEF SyncInv
  <2>3. /\ ring' = ring /\ wait' = wait /\ pc'[t] = "run"
        /\ \A u \in Threads \ {t} : pc'[u] = pc[u]
    BY <2>1, Zenon DEF leave_critical, SyncInv, CpuInv, CpuTypeOK
  <2>4. /\ status' \in [Locks -> {"UNLOCKED", "LOCKED"}] /\ status'[l] = "LOCKED"
        /\ \A k \in Locks : k # l => status'[k] = status[k]
    BY <2>1, Zenon DEF SyncInv, TypeOK
  <2>5. /\ held' \in [Locks \cup Semaphores -> SUBSET Threads]
        /\ held[l] = {} /\ held'[l] = {t}
        /\ \A o \in Locks \cup Semaphores : o # l => held'[o] = held[o]
    <3>1. held[l] = {}
      BY <1>5, Zenon DEF SyncInv, MutualExclusion
    <3> QED
      BY <2>1, <3>1, Zenon DEF SyncInv, TypeOK
  <2>6. TypeOK'
    BY <2>2, <2>4, <2>5, Zenon DEF SyncInv, TypeOK, CpuInv
  <2>7. Discipline'
    BY <2>3, <2>5, DisciplineStep, Zenon
  <2>8. WaitersAreInside'
    <3>1. \A s \in Semaphores : \A u \in Range(wait[s]) : u \notin held'[s]
      BY <1>2, <2>5, Zenon DEF SyncInv, WaitersAreInside
    <3> QED
      BY <1>1, <2>1, <3>1, LeaveWaiters, Zenon
  <2>9. MutualExclusion'
    BY <2>4, <2>5 DEF SyncInv, MutualExclusion
  <2>10. SlotsAreConserved' /\ BarrierCountsWaiters'
    BY <1>2, <2>3, <2>5, Zenon DEF SyncInv, SlotsAreConserved, BarrierCountsWaiters
  <2>11. NoLostWakeup'
    <3> SUFFICES ASSUME NEW k \in Locks
                 PROVE  status'[k] = "UNLOCKED" /\ wait'[k] # <<>> => Contenders(k)' # {}
      BY Zenon DEF NoLostWakeup
    <3>1. CASE k = l
      BY <2>4, <3>1, Zenon
    <3>2. CASE k # l
      <4>1. ~Wants(t, k)
        BY <3>2, WantsOne, Zenon
      <4> QED
        BY <2>2, <2>3, <2>4, <3>2, <4>1, WakeupKept, Zenon
    <3> QED
      BY <3>1, <3>2, Zenon
  <2> QED
    BY <2>2, <2>6, <2>7, <2>8, <2>9, <2>10, <2>11, Zenon DEF SyncInv
<1> QED
  BY <1>4, <1>5, Zenon

\* lock_release_helper frees a lock that only t had.
LEMMA ReleaseHelperFacts ==
    ASSUME SyncInv, NEW t \in Threads, NEW l \in Locks, t \in held[l],
           lock_release_helper(t, l)
    PROVE  /\ status' \in [Locks -> {"UNLOCKED", "LOCKED"}]
           /\ held' \in [Locks \cup Semaphores -> SUBSET Threads]
           /\ \A k \in Locks : k # l => status'[k] = status[k]
           /\ \A o \in Locks \cup Semaphores : o # l => held'[o] = held[o]
           /\ \A u \in Threads \ {t} : \A o \in Locks \cup Semaphores :
                 u \in held[o] <=> u \in held'[o]
           /\ MutualExclusion'
<1>1. /\ status' = [status EXCEPT ![l] = "UNLOCKED"]
      /\ held' = [held EXCEPT ![l] = @ \ {t}]
  BY Zenon DEF lock_release_helper
<1>2. held[l] = {t}
  BY Zenon DEF SyncInv, MutualExclusion
<1>3. held'[l] = {} /\ status'[l] = "UNLOCKED"
  BY <1>1, <1>2, Zenon DEF SyncInv, TypeOK
<1>4. /\ status' \in [Locks -> {"UNLOCKED", "LOCKED"}]
      /\ held' \in [Locks \cup Semaphores -> SUBSET Threads]
      /\ \A k \in Locks : k # l => status'[k] = status[k]
      /\ \A o \in Locks \cup Semaphores : o # l => held'[o] = held[o]
  BY <1>1, Zenon DEF SyncInv, TypeOK
<1>5. MutualExclusion'
  BY <1>3, <1>4 DEF SyncInv, MutualExclusion
<1>6. \A u \in Threads \ {t} : \A o \in Locks \cup Semaphores :
         u \in held[o] <=> u \in held'[o]
  BY <1>2, <1>3, <1>4, Zenon
<1> QED
  BY <1>4, <1>5, <1>6, Zenon

\* The lock that a step frees is offered to the thread it wakes.
LEMMA Offered ==
    ASSUME SyncInv, CpuInv', NEW t \in Threads, Running(t), NEW l \in Locks,
           wait'[l] = WokenWait(l)[l], Range(WokenRing(l)) \ {t} \subseteq Range(ring'),
           \A u \in Threads \ {t} : pc'[u] = pc[u], UNCHANGED call
    PROVE  wait'[l] # <<>> => Contenders(l)' # {}
<1> SUFFICES ASSUME wait'[l] # <<>> PROVE Contenders(l)' # {}
  BY Zenon
<1>1. l \in Queues /\ ~halted
  BY ObjectsAssumption, Zenon DEF Running
<1>2. wait[l] # <<>>
  BY Zenon DEF WokenWait
<1> DEFINE x == Head(wait[l])
<1>3. x \in Range(wait[l]) /\ x \in Range(WokenRing(l))
  BY <1>1, <1>2, WokenLists, Zenon DEF SyncInv
<1> HIDE DEF x
<1>4. x \in Threads /\ x # t
  <2>1. wait[l] \in Seq(Threads)
    BY <1>1, Zenon DEF SyncInv, CpuInv, CpuTypeOK
  <2> QED
    BY <1>1, <1>3, <2>1, RangeIn, RunningNotQueued, Zenon DEF SyncInv
<1>5. pc[x] = "inside" /\ Wants(x, l)
  BY <1>1, <1>3, Zenon DEF SyncInv, WaitersAreInside
<1>6. x \in Contenders(l)'
  BY <1>3, <1>4, <1>5, Zenon DEF Contenders, Wants
<1> QED
  BY <1>6, Zenon

\* Lock::release.
LEMMA ReleaseInv ==
    ASSUME SyncInv, NEW t \in Threads, NEW l \in Locks, release(t, l)
    PROVE  SyncInv'
<1>1. /\ InBody(t) /\ Running(t) /\ ~halted /\ call[t] = <<"release", l>> /\ UNCHANGED call
      /\ lock_release_helper(t, l) /\ leave_critical(t, WokenRing(l), WokenWait(l))
      /\ UNCHANGED <<slots, counter, arrivals>> /\ pc[t] # "run"
  BY Zenon DEF release, Body, InBody, Running
<1>2. t \in held[l]
  BY <1>1, Zenon DEF SyncInv, Discipline, Disciplined
<1>3. l \in Queues /\ \A p \in Semaphores \cup Barriers : p \in Queues /\ p # l
  BY ObjectsAssumption, Zenon
<1>4. /\ ListsOK(WokenRing(l), WokenWait(l))
      /\ \A p \in Queues : p # l => WokenWait(l)[p] = wait[p]
  BY <1>1, <1>3, WokenLists, Zenon DEF SyncInv
<1>5. CpuInv' /\ OneListPerThread'
  BY <1>1, <1>4, LeaveStep, Zenon DEF SyncInv
<1>6. /\ ring' = WokenRing(l) /\ wait' = WokenWait(l) /\ pc'[t] = "run"
      /\ \A u \in Threads \ {t} : pc'[u] = pc[u]
  BY <1>1, Zenon DEF leave_critical, SyncInv, CpuInv, CpuTypeOK
<1>7. /\ status' \in [Locks -> {"UNLOCKED", "LOCKED"}]
      /\ held' \in [Locks \cup Semaphores -> SUBSET Threads]
      /\ \A k \in Locks : k # l => status'[k] = status[k]
      /\ \A o \in Locks \cup Semaphores : o # l => held'[o] = held[o]
      /\ \A u \in Threads \ {t} : \A o \in Locks \cup Semaphores :
            u \in held[o] <=> u \in held'[o]
      /\ MutualExclusion'
  BY <1>1, <1>2, ReleaseHelperFacts, Zenon
<1>8. TypeOK'
  BY <1>1, <1>5, <1>7, Zenon DEF SyncInv, TypeOK, CpuInv
<1>9. Discipline'
  BY <1>1, <1>6, <1>7, DisciplineStep, Zenon
<1>10. WaitersAreInside'
  <2>1. \A s \in Semaphores : \A u \in Range(WokenWait(l)[s]) : u \notin held'[s]
    BY <1>3, <1>4, <1>7, Zenon DEF SyncInv, WaitersAreInside
  <2> QED
    BY <1>1, <1>4, <2>1, LeaveWaiters, Zenon
<1>11. SlotsAreConserved' /\ BarrierCountsWaiters'
  BY <1>1, <1>3, <1>4, <1>6, <1>7, Zenon DEF SyncInv, SlotsAreConserved, BarrierCountsWaiters
<1>12. NoLostWakeup'
  <2> SUFFICES ASSUME NEW k \in Locks
               PROVE  status'[k] = "UNLOCKED" /\ wait'[k] # <<>> => Contenders(k)' # {}
    BY Zenon DEF NoLostWakeup
  <2>1. CASE k = l
    BY <1>1, <1>5, <1>6, <2>1, Offered, Zenon
  <2>2. CASE k # l
    <3>1. k \in Queues /\ ~Wants(t, k)
      <4>1. call[t] = <<"release", l>>
        BY <1>1, Zenon
      <4>2. "release" # "acquire" /\ "release" # "wait"
        BY ONLY TRUE, Zenon
      <4>3. call[t] # <<"acquire", k>> /\ \A c : call[t] # <<"wait", c>>
        BY ONLY <4>1, <4>2
      <4>4. ~Wants(t, k)
        BY ONLY <4>3, Zenon DEF Wants
      <4> QED
        BY <4>4, ObjectsAssumption, Zenon
    <3>2. Range(ring) \ {t} \subseteq Range(ring') /\ wait'[k] = wait[k]
      BY <1>4, <1>6, <2>2, <3>1, Zenon DEF ListsOK
    <3> QED
      BY <1>1, <1>5, <1>6, <1>7, <2>2, <3>1, <3>2, WakeupKept, Zenon
  <2> QED
    BY <2>1, <2>2, Zenon
<1> QED
  BY <1>5, <1>7, <1>8, <1>9, <1>10, <1>11, <1>12, Zenon DEF SyncInv
-----------------------------------------------------------------------------
\* The holders of a semaphore can be counted.
LEMMA HeldFinite ==
    ASSUME TypeOK, NEW s \in Semaphores
    PROVE  /\ held[s] \subseteq Threads /\ IsFiniteSet(held[s])
           /\ Cardinality(held[s]) \in Nat
<1>1. held[s] \subseteq Threads
  BY Zenon DEF TypeOK
<1> QED
  BY <1>1, ThreadsAssumption, FS_Subset, FS_CardinalityType, Zenon

\* Semaphore::up: the slot goes to the oldest waiter or back to the counter.
LEMMA UpInv ==
    ASSUME SyncInv, NEW t \in Threads, NEW s \in Semaphores, up(t, s)
    PROVE  SyncInv'
<1> DEFINE x == Head(wait[s])
           g == (held[s] \ {t}) \cup (IF wait[s] = <<>> THEN {} ELSE {x})
<1>1. /\ InBody(t) /\ Running(t) /\ ~halted /\ call[t] = <<"up", s>> /\ UNCHANGED call
      /\ leave_critical(t, WokenRing(s), WokenWait(s))
      /\ slots' = [slots EXCEPT ![s] = SlotsAfterUp(s)]
      /\ held' = [held EXCEPT ![s] = g]
      /\ UNCHANGED <<status, counter, arrivals>> /\ pc[t] # "run"
  BY Zenon DEF up, Body, InBody, Running
<1>2. t \in held[s]
  BY <1>1, Zenon DEF SyncInv, Discipline, Disciplined
<1>3. s \in Queues /\ \A p \in Locks \cup Barriers : p \in Queues /\ p # s
  BY ObjectsAssumption, Zenon
<1>4. /\ ListsOK(WokenRing(s), WokenWait(s))
      /\ \A p \in Queues : p # s => WokenWait(s)[p] = wait[p]
      /\ wait[s] = <<>> => WokenWait(s) = wait
      /\ wait[s] # <<>> => x \in Range(wait[s]) /\ x \notin Range(WokenWait(s)[s])
  BY <1>1, <1>3, WokenLists, Zenon DEF SyncInv
<1>5. CpuInv' /\ OneListPerThread'
  BY <1>1, <1>4, LeaveStep, Zenon DEF SyncInv
<1>6. /\ ring' = WokenRing(s) /\ wait' = WokenWait(s) /\ pc'[t] = "run"
      /\ \A u \in Threads \ {t} : pc'[u] = pc[u]
  BY <1>1, Zenon DEF leave_critical, SyncInv, CpuInv, CpuTypeOK
<1>7. wait[s] # <<>> => x \in Threads /\ x \notin held[s] /\ pc[x] = "inside"
  <2>1. wait[s] \in Seq(Threads)
    BY <1>3, Zenon DEF SyncInv, CpuInv, CpuTypeOK
  <2> QED
    BY <1>3, <1>4, <2>1, RangeIn, Zenon DEF SyncInv, WaitersAreInside
<1> HIDE DEF x
<1>8. held[s] \subseteq Threads /\ IsFiniteSet(held[s]) /\ Cardinality(held[s]) \in Nat
  BY HeldFinite, Zenon DEF SyncInv
<1>9. /\ held' \in [Locks \cup Semaphores -> SUBSET Threads] /\ held'[s] = g
      /\ \A o \in Locks \cup Semaphores : o # s => held'[o] = held[o]
  BY <1>1, <1>7, <1>8, Zenon DEF SyncInv, TypeOK
<1>10. /\ slots[s] \in Nat /\ SlotsAfterUp(s) \in Nat
       /\ slots' \in [Semaphores -> Nat] /\ slots'[s] = SlotsAfterUp(s)
       /\ \A p \in Semaphores : p # s => slots'[p] = slots[p]
  BY <1>1 DEF SyncInv, TypeOK, SlotsAfterUp
<1>11. TypeOK'
  BY <1>1, <1>5, <1>9, <1>10, Zenon DEF SyncInv, TypeOK, CpuInv
<1>12. Discipline'
  BY <1>1, <1>6, <1>7, <1>9, DisciplineStep, Zenon
<1>13. WaitersAreInside'
  <2> SUFFICES ASSUME NEW p \in Semaphores, NEW u \in Range(WokenWait(s)[p])
               PROVE  u \notin held'[p]
    BY <1>1, <1>4, LeaveWaiters, Zenon
  <2>1. p \in Queues /\ u \in Range(wait[p])
    BY <1>4, ObjectsAssumption, Zenon DEF ListsOK
  <2>2. u \notin held[p]
    BY <2>1, Zenon DEF SyncInv, WaitersAreInside
  <2> QED
    BY <1>4, <1>9, <2>1, <2>2, Zenon
<1>14. MutualExclusion' /\ NoLostWakeup'
  <2>1. \A l \in Locks : held'[l] = held[l] /\ wait'[l] = wait[l] /\ ~Wants(t, l)
    <3>1. \A l \in Locks : ~Wants(t, l)
      BY ONLY <1>1 DEF Wants
    <3> QED
      BY ONLY <1>3, <1>4, <1>6, <1>9, <3>1, Zenon
  <2>2. Range(ring) \ {t} \subseteq Range(ring')
    BY <1>4, <1>6, Zenon DEF ListsOK
  <2> QED
    BY <1>1, <1>5, <1>6, <2>1, <2>2, LocksKept, Zenon
<1>15. SlotsAreConserved'
  <2> SUFFICES ASSUME NEW p \in Semaphores
               PROVE  /\ slots'[p] + Cardinality(held'[p]) = Slots[p]
                      /\ slots'[p] > 0 => wait'[p] = <<>>
    BY Zenon DEF SlotsAreConserved
  <2>1. CASE p # s
    <3>1. p \in Queues
      BY ObjectsAssumption, Zenon
    <3> QED
      BY <1>4, <1>6, <1>9, <1>10, <2>1, <3>1, Zenon DEF SyncInv, SlotsAreConserved
  <2>2. slots[s] + Cardinality(held[s]) = Slots[s] /\ (slots[s] > 0 => wait[s] = <<>>)
    BY Zenon DEF SyncInv, SlotsAreConserved
  <2>3. /\ IsFiniteSet(held[s] \ {t})
        /\ Cardinality(held[s] \ {t}) = Cardinality(held[s]) - 1
    BY <1>2, <1>8, FS_RemoveElement, Zenon
  <2>4. CASE p = s /\ wait[s] = <<>>
    <3>1. g = held[s] \ {t} /\ SlotsAfterUp(s) = slots[s] + 1 /\ wait'[s] = <<>>
      BY <1>4, <1>6, <2>4, Zenon DEF SlotsAfterUp
    <3> HIDE DEF g
    <3>2. Cardinality(held'[s]) = Cardinality(held[s]) - 1
      BY <1>9, <2>3, <3>1, Zenon
    <3>3. slots'[s] + Cardinality(held'[s]) = Slots[s]
      BY <1>8, <1>10, <2>2, <3>1, <3>2
    <3> QED
      BY <2>4, <3>1, <3>3, Zenon
  <2>5. CASE p = s /\ wait[s] # <<>>
    <3>1. g = (held[s] \ {t}) \cup {x} /\ SlotsAfterUp(s) = slots[s]
      BY <2>5, Zenon DEF SlotsAfterUp
    <3>2. x \notin held[s] \ {t}
      BY <1>7, <2>5, Zenon
    <3>3. Cardinality(g) = Cardinality(held[s] \ {t}) + 1
      BY <2>3, <3>1, <3>2, FS_AddElement, Zenon
    <3> HIDE DEF g
    <3>4. Cardinality(held'[s]) = (Cardinality(held[s]) - 1) + 1
      BY <1>9, <2>3, <3>3, Zenon
    <3>5. slots'[s] = slots[s] /\ slots'[s] + Cardinality(held'[s]) = Slots[s]
      BY <1>8, <1>10, <2>2, <3>1, <3>4
    <3> QED
      BY <2>2, <2>5, <3>5, Zenon
  <2> QED
    BY <2>1, <2>4, <2>5, Zenon
<1>16. BarrierCountsWaiters'
  BY <1>1, <1>3, <1>4, <1>6, Zenon DEF SyncInv, BarrierCountsWaiters
<1> QED
  BY <1>5, <1>11, <1>12, <1>13, <1>14, <1>15, <1>16, Zenon DEF SyncInv

\* Semaphore::down up to its block, or all of it when a slot is free.
LEMMA DownInv ==
    ASSUME SyncInv, NEW t \in Threads, NEW s \in Semaphores, down(t, s)
    PROVE  SyncInv'
<1>1. /\ InBody(t) /\ Running(t) /\ ~halted /\ call[t] = <<"down", s>> /\ UNCHANGED call
      /\ UNCHANGED <<status, counter, arrivals>> /\ pc[t] = "cli"
  BY Zenon DEF down, Body, InBody, Running
<1>2. t \notin held[s]
  BY <1>1, Zenon DEF SyncInv, Discipline, Disciplined
<1>3. /\ s \in Queues /\ s \notin Locks
      /\ \A p \in Locks \cup Barriers : p \in Queues /\ p # s
  BY ObjectsAssumption, Zenon
<1>4. ListsOK(ring, wait)
  BY <1>1, SameLists, Zenon DEF SyncInv
<1>5. /\ \A l \in Locks : ~Wants(t, l)
      /\ \A o : call[t] # <<"release", o>> /\ call[t] # <<"up", o>>
  BY <1>1 DEF Wants
<1>6. /\ slots[s] \in Nat /\ slots[s] + Cardinality(held[s]) = Slots[s]
      /\ slots[s] > 0 => wait[s] = <<>>
  BY Zenon DEF SyncInv, TypeOK, SlotsAreConserved
<1>7. CASE slots[s] > 0
  <2>1. /\ slots' = [slots EXCEPT ![s] = @ - 1]
        /\ held' = [held EXCEPT ![s] = @ \cup {t}]
        /\ leave_critical(t, ring, wait)
    BY ONLY down(t, s), <1>6, <1>7 DEF down
  <2>2. CpuInv' /\ OneListPerThread'
    BY <1>1, <1>4, <2>1, LeaveStep, Zenon DEF SyncInv
  <2>3. /\ ring' = ring /\ wait' = wait /\ pc'[t] = "run"
        /\ \A u \in Threads \ {t} : pc'[u] = pc[u]
    BY <2>1, Zenon DEF leave_critical, SyncInv, CpuInv, CpuTypeOK
  <2>4. /\ held' \in [Locks \cup Semaphores -> SUBSET Threads]
        /\ held'[s] = held[s] \cup {t}
        /\ \A o \in Locks \cup Semaphores : o # s => held'[o] = held[o]
    BY <2>1, Zenon DEF SyncInv, TypeOK
  <2>5. /\ slots' \in [Semaphores -> Nat] /\ slots'[s] = slots[s] - 1
        /\ \A p \in Semaphores : p # s => slots'[p] = slots[p]
    <3>1. slots \in [Semaphores -> Nat]
      BY Zenon DEF SyncInv, TypeOK
    <3> QED
      BY ONLY s \in Semaphores, <1>6, <1>7, <2>1, <3>1
  <2>6. TypeOK'
    BY <1>1, <2>2, <2>4, <2>5, Zenon DEF SyncInv, TypeOK, CpuInv
  <2>7. Discipline'
    BY <1>1, <2>3, <2>4, DisciplineStep, Zenon
  <2>8. WaitersAreInside'
    <3>1. Range(wait[s]) = {}
      BY <1>6, <1>7 DEF Range
    <3>2. \A p \in Semaphores : \A u \in Range(wait[p]) : u \notin held'[p]
      BY <2>4, <3>1, ObjectsAssumption, Zenon DEF SyncInv, WaitersAreInside
    <3> QED
      BY <1>1, <1>4, <2>1, <3>2, LeaveWaiters, Zenon
  <2>9. MutualExclusion' /\ NoLostWakeup'
    BY <1>1, <1>3, <1>5, <2>2, <2>3, <2>4, LocksKept, Zenon
  <2>10. SlotsAreConserved'
    <3> SUFFICES ASSUME NEW p \in Semaphores
                 PROVE  /\ slots'[p] + Cardinality(held'[p]) = Slots[p]
                        /\ slots'[p] > 0 => wait'[p] = <<>>
      BY Zenon DEF SlotsAreConserved
    <3>1. CASE p # s
      BY <2>3, <2>4, <2>5, <3>1, Zenon DEF SyncInv, SlotsAreConserved
    <3>2. CASE p = s
      <4>1. IsFiniteSet(held[s]) /\ Cardinality(held[s]) \in Nat
        BY HeldFinite, Zenon DEF SyncInv
      <4>2. Cardinality(held[s] \cup {t}) = Cardinality(held[s]) + 1
        BY <1>2, <4>1, FS_AddElement, Zenon
      <4>3. Cardinality(held'[s]) = Cardinality(held[s]) + 1
        BY <2>4, <4>2, Zenon
      <4>4. slots'[s] + Cardinality(held'[s]) = Slots[s]
        BY <1>6, <2>5, <4>1, <4>3
      <4> QED
        BY <1>6, <1>7, <2>3, <3>2, <4>4, Zenon
    <3> QED
      BY <3>1, <3>2, Zenon
  <2>11. BarrierCountsWaiters'
    BY <1>1, <2>3, Zenon DEF SyncInv, BarrierCountsWaiters
  <2> QED
    BY <2>2, <2>6, <2>7, <2>8, <2>9, <2>10, <2>11, Zenon DEF SyncInv
<1>8. CASE ~(slots[s] > 0)
  <2>1. block(t, s, ring, wait) /\ UNCHANGED <<slots, held>>
    BY <1>8, Zenon DEF down
  <2>2. /\ CpuInv' /\ OneListPerThread'
        /\ Range(ring) \ {t} \subseteq Range(ring')
        /\ Range(wait'[s]) = Range(wait[s]) \cup {t}
        /\ \A p \in Queues : p # s => wait'[p] = wait[p]
    <3>1. CpuInv /\ OneListPerThread
      BY Zenon DEF SyncInv
    <3>2. InBody(t) /\ s \in Queues /\ ListsOK(ring, wait) /\ block(t, s, ring, wait)
      BY <1>1, <1>3, <1>4, <2>1, Zenon
    <3>3. /\ CpuInv' /\ OneListPerThread'
          /\ Range(ring) \ {t} \subseteq Range(ring')
          /\ Range(wait'[s]) = Range(wait[s]) \cup {t}
          /\ Len(wait'[s]) = Len(wait[s]) + 1
          /\ \A p \in Queues : p # s => wait'[p] = wait[p]
      BY ONLY <3>1, <3>2, t \in Threads, BlockStep
    <3> QED
      BY ONLY <3>3, Zenon
  <2>3. pc'[t] = "inside" /\ \A u \in Threads \ {t} : pc'[u] = pc[u]
    BY <2>1, Zenon DEF block, SyncInv, CpuInv, CpuTypeOK
  <2>4. TypeOK'
    BY <1>1, <2>1, <2>2, Zenon DEF SyncInv, TypeOK, CpuInv
  <2>5. Discipline'
    BY <1>1, <1>5, <2>1, <2>3, DisciplineStep, Zenon
  <2>6. WaitersAreInside'
    <3>1. \A p \in Semaphores : \A u \in Range(wait'[p]) : u \notin held'[p]
      BY <1>2, <2>1, <2>2, ObjectsAssumption, Zenon DEF SyncInv, WaitersAreInside
    <3> QED
      BY <1>1, <1>3, <1>4, <2>1, <3>1, BlockWaiters, Zenon
  <2>7. MutualExclusion' /\ NoLostWakeup'
    BY <1>1, <1>3, <1>5, <2>1, <2>2, <2>3, LocksKept, Zenon
  <2>8. SlotsAreConserved'
    BY <1>8, <2>1, <2>2, ObjectsAssumption, Zenon DEF SyncInv, SlotsAreConserved
  <2>9. BarrierCountsWaiters'
    BY <1>1, <1>3, <2>2, Zenon DEF SyncInv, BarrierCountsWaiters
  <2> QED
    BY <2>2, <2>4, <2>5, <2>6, <2>7, <2>8, <2>9, Zenon DEF SyncInv
<1> QED
  BY <1>7, <1>8, Zenon
=============================================================================
