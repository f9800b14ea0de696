----------------------------- MODULE SyncProofs -----------------------------
(***************************************************************************)
(* The functions of Condition and Barrier keep the invariant of Sync, and  *)
(* so does every step: the safety properties of Sync, for any number of    *)
(* threads and objects.                                                    *)
(***************************************************************************)
EXTENDS SyncObjectProofs

\* signal, broadcast and the return from down and Barrier::wait: no object
\* changes, and only threads that wait on a condition are woken.
LEMMA LeaveOnly ==
    ASSUME SyncInv, NEW t \in Threads, InBody(t), NEW r, NEW w, ListsOK(r, w),
           leave_critical(t, r, w), UNCHANGED <<objvars, call>>,
           \A p \in Queues \ Conditions : w[p] = wait[p],
           \A l \in Locks : ~Wants(t, l)
    PROVE  SyncInv'
<1> USE DEF objvars
<1>1. CpuInv' /\ OneListPerThread'
  BY LeaveStep, Zenon DEF SyncInv
<1>2. /\ ring' = r /\ wait' = w /\ pc'[t] = "run"
      /\ \A u \in Threads \ {t} : pc'[u] = pc[u]
  BY Zenon DEF leave_critical, SyncInv, CpuInv, CpuTypeOK
<1>3. TypeOK'
  BY <1>1, Zenon DEF SyncInv, TypeOK, CpuInv
<1>4. Discipline'
  BY <1>2, DisciplineStep, Zenon
<1>5. \A p \in Locks \cup Semaphores \cup Barriers : p \in Queues /\ wait'[p] = wait[p]
  BY <1>2, ObjectsAssumption, Zenon
<1>6. WaitersAreInside'
  <2>1. \A s \in Semaphores : \A u \in Range(w[s]) : u \notin held'[s]
    BY <1>2, <1>5, Zenon DEF SyncInv, WaitersAreInside
  <2> QED
    BY <2>1, LeaveWaiters, Zenon
<1>7. MutualExclusion' /\ SlotsAreConserved' /\ BarrierCountsWaiters'
  BY <1>5, Zenon DEF SyncInv, MutualExclusion, SlotsAreConserved, BarrierCountsWaiters
<1>8. NoLostWakeup'
  <2> SUFFICES ASSUME NEW l \in Locks
               PROVE  status'[l] = "UNLOCKED" /\ wait'[l] # <<>> => Contenders(l)' # {}
    BY Zenon DEF NoLostWakeup
  <2>1. Range(ring) \ {t} \subseteq Range(ring')
    BY <1>2, Zenon DEF ListsOK
  <2> QED
    BY <1>1, <1>2, <1>5, <2>1, WakeupKept, Zenon
<1> QED
  BY <1>1, <1>3, <1>4, <1>6, <1>7, <1>8, Zenon DEF SyncInv

\* Condition::wait up to its block.
LEMMA WaitBeginInv ==
    ASSUME SyncInv, NEW t \in Threads, NEW c \in Conditions,
           NEW l \in Locks, l = LockOf[c], wait_begin(t, c)
    PROVE  SyncInv'
<1>1. /\ InBody(t) /\ Running(t) /\ ~halted /\ call[t] = <<"wait", c>>
      /\ lock_release_helper(t, l) /\ block(t, c, WokenRing(l), WokenWait(l))
      /\ pc[t] = "cli"
  BY Zenon DEF wait_begin, Body, InBody, Running
<1>2. UNCHANGED <<call, slots, counter, arrivals>>
  BY Zenon DEF wait_begin, Body
<1>3. t \in held[l]
  BY <1>1, Zenon DEF SyncInv, Discipline, Disciplined
<1>4. /\ l \in Queues /\ c \in Queues /\ c # l /\ c \notin Locks
      /\ \A p \in Semaphores \cup Barriers : p \in Queues /\ p # l /\ p # c
      /\ \A k \in Locks : k \in Queues /\ k # c
  BY ObjectsAssumption, Zenon
<1>5. /\ ListsOK(WokenRing(l), WokenWait(l))
      /\ \A p \in Queues : p # l => WokenWait(l)[p] = wait[p]
  BY <1>1, <1>4, WokenLists, Zenon DEF SyncInv
<1>6. /\ CpuInv' /\ OneListPerThread'
      /\ Range(WokenRing(l)) \ {t} \subseteq Range(ring')
      /\ \A p \in Queues : p # c => wait'[p] = WokenWait(l)[p]
  <2>1. CpuInv /\ OneListPerThread
    BY Zenon DEF SyncInv
  <2> QED
    BY ONLY <1>1, <1>4, <1>5, <2>1, t \in Threads, BlockStep
<1>7. pc'[t] = "inside" /\ \A u \in Threads \ {t} : pc'[u] = pc[u]
  BY <1>1, Zenon DEF block, SyncInv, CpuInv, CpuTypeOK
<1>8. /\ status' \in [Locks -> {"UNLOCKED", "LOCKED"}]
      /\ held' \in [Locks \cup Semaphores -> SUBSET Threads]
      /\ \A k \in Locks : k # l => status'[k] = status[k]
      /\ \A o \in Locks \cup Semaphores : o # l => held'[o] = held[o]
      /\ \A u \in Threads \ {t} : \A o \in Locks \cup Semaphores :
            u \in held[o] <=> u \in held'[o]
      /\ MutualExclusion'
  BY <1>1, <1>3, ReleaseHelperFacts, Zenon
<1>9. TypeOK'
  BY <1>2, <1>6, <1>8, Zenon DEF SyncInv, TypeOK, CpuInv
<1>10. Discipline'
  <2>1. call[t] = <<"wait", c>>
    BY <1>1, Zenon
  <2>2. \A o : call[t] # <<"release", o>> /\ call[t] # <<"up", o>>
    BY ONLY <2>1
  <2> QED
    BY <1>2, <1>7, <1>8, <2>2, DisciplineStep, Zenon
<1>11. \A p \in Queues : p # l /\ p # c => wait'[p] = wait[p]
  BY <1>5, <1>6, Zenon
<1>12. WaitersAreInside'
  <2>1. \A s \in Semaphores : \A u \in Range(wait'[s]) : u \notin held'[s]
    <3> SUFFICES ASSUME NEW s \in Semaphores, NEW u \in Range(wait'[s])
                 PROVE  u \notin held'[s]
      BY Zenon
    <3>1. s \in Queues /\ wait'[s] = wait[s] /\ held'[s] = held[s]
      BY <1>4, <1>8, <1>11, Zenon
    <3> QED
      BY <3>1, Zenon DEF SyncInv, WaitersAreInside
  <2> QED
    BY <1>1, <1>2, <1>4, <1>5, <2>1, BlockWaiters, Zenon
<1>13. SlotsAreConserved' /\ BarrierCountsWaiters'
  <2>1. \A p \in Semaphores \cup Barriers : wait'[p] = wait[p]
    BY <1>4, <1>11, Zenon
  <2>2. \A s \in Semaphores : held'[s] = held[s]
    BY <1>4, <1>8, Zenon
  <2> QED
    BY <1>2, <2>1, <2>2, Zenon DEF SyncInv, SlotsAreConserved, BarrierCountsWaiters
<1>14. NoLostWakeup'
  <2> SUFFICES ASSUME NEW k \in Locks
               PROVE  status'[k] = "UNLOCKED" /\ wait'[k] # <<>> => Contenders(k)' # {}
    BY Zenon DEF NoLostWakeup
  <2>1. CASE k = l
    <3>1. wait'[l] = WokenWait(l)[l]
      BY <1>4, <1>6, Zenon
    <3> QED
      BY <1>1, <1>2, <1>6, <1>7, <2>1, <3>1, Offered, Zenon
  <2>2. CASE k # l
    <3>1. status'[k] = status[k] /\ wait'[k] = wait[k]
      BY <1>4, <1>8, <1>11, <2>2, Zenon
    <3>2. Range(ring) \ {t} \subseteq Range(ring')
      BY <1>5, <1>6, Zenon DEF ListsOK
    <3>3. pc[t] # "inside"
      BY <1>1, Zenon
    <3> QED
      BY <1>2, <1>6, <1>7, <3>1, <3>2, <3>3, WakeupKept, Zenon
  <2> QED
    BY <2>1, <2>2, Zenon
<1> QED
  BY <1>6, <1>8, <1>9, <1>10, <1>12, <1>13, <1>14, Zenon DEF SyncInv

\* Barrier::wait up to its block, or all of it for the last party.
LEMMA BarrierWaitInv ==
    ASSUME SyncInv, NEW t \in Threads, NEW b \in Barriers, barrier_wait(t, b)
    PROVE  SyncInv'
<1>1. /\ InBody(t) /\ Running(t) /\ ~halted /\ call[t] = <<"barrier_wait", b>>
      /\ UNCHANGED <<call, status, slots, held>>
      /\ arrivals' = [arrivals EXCEPT ![b][t] = @ + 1]
  BY Zenon DEF barrier_wait, Body, InBody, Running
<1>2. /\ b \in Queues /\ b \notin Locks /\ b \notin Semaphores
      /\ \A p \in Locks \cup Semaphores : p \in Queues /\ p # b
      /\ \A p \in Barriers : p \in Queues
  BY ObjectsAssumption, Zenon
<1>3. ListsOK(ring, wait)
  BY <1>1, SameLists, Zenon DEF SyncInv
<1>4. /\ \A l \in Locks : ~Wants(t, l)
      /\ \A o : call[t] # <<"release", o>> /\ call[t] # <<"up", o>>
  BY <1>1 DEF Wants
<1>5. wait[b] \in Seq(Threads) /\ Len(wait[b]) \in Nat
  <2>1. wait[b] \in Seq(Threads)
    BY <1>2, Zenon DEF SyncInv, CpuInv, CpuTypeOK
  <2> QED
    BY <2>1
<1>6. /\ counter[b] \in Nat /\ counter[b] > 0
      /\ counter[b] + Len(wait[b]) = Cardinality(Parties[b])
  BY Zenon DEF SyncInv, TypeOK, BarrierCountsWaiters
<1>7. arrivals' \in [Barriers -> [Threads -> Nat]]
  BY <1>1 DEF SyncInv, TypeOK
<1>8. CASE ~IsLast(b)
  <2>1. counter' = [counter EXCEPT ![b] = @ - 1] /\ block(t, b, ring, wait)
    BY <1>8, Zenon DEF barrier_wait
  <2>2. /\ CpuInv' /\ OneListPerThread'
        /\ Range(ring) \ {t} \subseteq Range(ring')
        /\ Len(wait'[b]) = Len(wait[b]) + 1
        /\ \A p \in Queues : p # b => wait'[p] = wait[p]
    BY <1>1, <1>2, <1>3, <2>1, BlockStep DEF SyncInv
  <2>3. pc'[t] = "inside" /\ \A u \in Threads \ {t} : pc'[u] = pc[u]
    BY <2>1, Zenon DEF block, SyncInv, CpuInv, CpuTypeOK
  <2>4. /\ counter' \in [Barriers -> Nat] /\ counter'[b] = counter[b] - 1
        /\ counter'[b] > 0 /\ \A p \in Barriers : p # b => counter'[p] = counter[p]
    BY <1>6, <1>8, <2>1 DEF SyncInv, TypeOK, IsLast
  <2>5. TypeOK'
    BY <1>1, <1>7, <2>2, <2>4, Zenon DEF SyncInv, TypeOK, CpuInv
  <2>6. Discipline'
    BY <1>1, <1>4, <2>3, DisciplineStep, Zenon
  <2>7. WaitersAreInside'
    <3>1. \A p \in Semaphores : \A u \in Range(wait'[p]) : u \notin held'[p]
      BY <1>1, <1>2, <2>2, Zenon DEF SyncInv, WaitersAreInside
    <3> QED
      BY <1>1, <1>2, <1>3, <2>1, <3>1, BlockWaiters, Zenon
  <2>8. MutualExclusion' /\ NoLostWakeup'
    BY <1>1, <1>2, <1>4, <2>2, <2>3, LocksKept, Zenon
  <2>9. SlotsAreConserved'
    BY <1>1, <1>2, <2>2, Zenon DEF SyncInv, SlotsAreConserved
  <2>10. BarrierCountsWaiters'
    <3>1. counter'[b] + Len(wait'[b]) = Cardinality(Parties[b])
      <4>1. (counter[b] - 1) + (Len(wait[b]) + 1) = counter[b] + Len(wait[b])
        BY ONLY <1>5, <1>6
      <4> QED
        BY ONLY <4>1, <1>6, <2>2, <2>4, Zenon
    <3> QED
      BY <1>2, <2>2, <2>4, <3>1, Zenon DEF SyncInv, BarrierCountsWaiters
  <2> QED
    BY <2>2, <2>5, <2>6, <2>7, <2>8, <2>9, <2>10, Zenon DEF SyncInv
<1>9. CASE IsLast(b)
  <2> DEFINE r == WokenAll(ring, wait[b])
             w == [wait EXCEPT ![b] = <<>>]
  <2>1. counter' = [counter EXCEPT ![b] = Reset(b)] /\ leave_critical(t, r, w)
    <3>1. SubSeq(wait[b], 1, Len(wait[b])) = wait[b]
      BY <1>5, WholeAndRest, Zenon
    <3>2. SubSeq(wait[b], Len(wait[b]) + 1, Len(wait[b])) = <<>>
      BY <1>5, WholeAndRest, Zenon
    <3>3. wait \in [Queues -> Seq(Threads)]
      BY Zenon DEF SyncInv, CpuInv, CpuTypeOK
    <3>4. [wait EXCEPT ![b] = SubSeq(@, Freed(b) + 1, Len(@))] = w
      BY <1>2, <3>2, <3>3, Zenon DEF Freed
    <3> QED
      BY <1>9, <3>1, <3>4, Zenon DEF barrier_wait, Freed
  <2>2. ListsOK(r, w)
    BY <1>1, <1>2, WokenAllLists, Zenon DEF SyncInv
  <2>3. w[b] = <<>> /\ \A p \in Queues : p # b => w[p] = wait[p]
    BY <1>2, Zenon DEF SyncInv, CpuInv, CpuTypeOK
  <2> HIDE DEF r, w
  <2>4. CpuInv' /\ OneListPerThread'
    BY <1>1, <2>1, <2>2, LeaveStep, Zenon DEF SyncInv
  <2>5. /\ ring' = r /\ wait' = w /\ pc'[t] = "run"
        /\ \A u \in Threads \ {t} : pc'[u] = pc[u]
    BY <2>1, Zenon DEF leave_critical, SyncInv, CpuInv, CpuTypeOK
  <2>6. /\ counter' \in [Barriers -> Nat] /\ counter'[b] = Cardinality(Parties[b])
        /\ counter'[b] > 0 /\ \A p \in Barriers : p # b => counter'[p] = counter[p]
    <3>1. Reset(b) = counter[b] + Len(wait[b]) /\ Reset(b) \in Nat /\ Reset(b) > 0
      BY <1>5, <1>6 DEF Reset
    <3> QED
      BY <1>6, <2>1, <3>1, Zenon DEF SyncInv, TypeOK
  <2>7. TypeOK'
    BY <1>1, <1>7, <2>4, <2>6, Zenon DEF SyncInv, TypeOK, CpuInv
  <2>8. Discipline'
    BY <1>1, <2>5, DisciplineStep, Zenon
  <2>9. WaitersAreInside'
    <3>1. \A p \in Semaphores : \A u \in Range(w[p]) : u \notin held'[p]
      BY <1>1, <1>2, <2>3, Zenon DEF SyncInv, WaitersAreInside
    <3> QED
      BY <1>1, <2>1, <2>2, <3>1, LeaveWaiters, Zenon
  <2>10. MutualExclusion' /\ NoLostWakeup'
    <3>1. Range(ring) \ {t} \subseteq Range(ring')
      BY <2>2, <2>5, Zenon DEF ListsOK
    <3> QED
      BY <1>1, <1>2, <1>4, <2>3, <2>4, <2>5, <3>1, LocksKept, Zenon
  <2>11. SlotsAreConserved'
    BY <1>1, <1>2, <2>3, <2>5, Zenon DEF SyncInv, SlotsAreConserved
  <2>12. BarrierCountsWaiters'
    <3>1. Len(wait'[b]) = 0
      BY <2>3, <2>5, Zenon
    <3>2. counter'[b] + Len(wait'[b]) = Cardinality(Parties[b])
      BY <2>6, <3>1
    <3> QED
      BY <1>2, <2>3, <2>5, <2>6, <3>2, Zenon DEF SyncInv, BarrierCountsWaiters
  <2> QED
    BY <2>4, <2>7, <2>8, <2>9, <2>10, <2>11, <2>12, Zenon DEF SyncInv
<1> QED
  BY <1>8, <1>9, Zenon
-----------------------------------------------------------------------------
\* The rest of the critical section of any call.
LEMMA SectionInv ==
    ASSUME SyncInv, NEW t \in Threads, Section(t)
    PROVE  SyncInv'
<1>1. ASSUME NEW l \in Locks, acquire(t, l) PROVE SyncInv'
  <2>1. InBody(t) /\ Wants(t, l) /\ lock_acquire_helper(t, l)
        /\ UNCHANGED <<call, slots, counter, arrivals>>
    BY <1>1, Zenon DEF acquire, Body, Wants
  <2> QED
    BY <2>1, AcquireHelperInv, Zenon
<1>2. ASSUME NEW c \in Conditions, wait_resume(t, c) PROVE SyncInv'
  <2>1. LockOf[c] \in Locks
    BY ObjectsAssumption, Zenon
  <2>2. InBody(t) /\ Wants(t, LockOf[c]) /\ lock_acquire_helper(t, LockOf[c])
        /\ UNCHANGED <<call, slots, counter, arrivals>>
    BY <1>2, Zenon DEF wait_resume, Body, Wants
  <2> QED
    BY <2>1, <2>2, AcquireHelperInv, Zenon
<1>3. ASSUME NEW c \in Conditions, signal(t, c) PROVE SyncInv'
  <2>1. /\ InBody(t) /\ ~halted /\ leave_critical(t, WokenRing(c), WokenWait(c))
        /\ UNCHANGED <<objvars, call>> /\ call[t] = <<"signal", c>>
    BY <1>3, Zenon DEF signal, Body, InBody, Running
  <2>2. c \in Queues /\ \A l \in Locks : ~Wants(t, l)
    BY <2>1, ObjectsAssumption DEF Wants
  <2>3. /\ ListsOK(WokenRing(c), WokenWait(c))
        /\ \A p \in Queues \ Conditions : WokenWait(c)[p] = wait[p]
    BY <2>1, <2>2, WokenLists, Zenon DEF SyncInv
  <2> QED
    BY <2>1, <2>2, <2>3, LeaveOnly, Zenon
<1>4. ASSUME NEW c \in Conditions, broadcast(t, c) PROVE SyncInv'
  <2> DEFINE r == WokenAll(ring, wait[c])
             w == [wait EXCEPT ![c] = <<>>]
  <2>1. /\ InBody(t) /\ ~halted /\ leave_critical(t, r, w)
        /\ UNCHANGED <<objvars, call>> /\ call[t] = <<"broadcast", c>>
    BY <1>4, Zenon DEF broadcast, Body, InBody, Running
  <2>2. c \in Queues /\ \A l \in Locks : ~Wants(t, l)
    BY <2>1, ObjectsAssumption DEF Wants
  <2>3. ListsOK(r, w)
    BY <2>1, <2>2, WokenAllLists, Zenon DEF SyncInv
  <2>4. \A p \in Queues \ Conditions : w[p] = wait[p]
    BY Zenon DEF SyncInv, CpuInv, CpuTypeOK
  <2> HIDE DEF r, w
  <2> QED
    BY <2>1, <2>2, <2>3, <2>4, LeaveOnly, Zenon
<1>5. CASE return_from_block(t)
  <2>1. /\ InBody(t) /\ ~halted /\ leave_critical(t, ring, wait)
        /\ UNCHANGED <<objvars, call>>
    BY <1>5, Zenon DEF return_from_block, InBody, Running
  <2>2. \A l \in Locks : ~Wants(t, l)
    BY <1>5 DEF return_from_block, Wants
  <2>3. ListsOK(ring, wait)
    BY <2>1, SameLists, Zenon DEF SyncInv
  <2> QED
    BY <2>1, <2>2, <2>3, LeaveOnly, Zenon
<1>6. ASSUME NEW c \in Conditions, wait_begin(t, c) PROVE SyncInv'
  <2>1. LockOf[c] \in Locks
    BY ObjectsAssumption, Zenon
  <2> QED
    BY <1>6, <2>1, WaitBeginInv, Zenon
<1> QED
  BY <1>1, <1>2, <1>3, <1>4, <1>5, <1>6, ReleaseInv, UpInv, DownInv, BarrierWaitInv, Zenon
  DEF Section

\* A switch outside the critical sections.
LEMMA SwitchStep ==
    ASSUME SyncInv, NEW t \in Threads, Preempt(t) \/ Yield(t)
    PROVE  SyncInv'
<1>1. /\ ring' = Rotated(ring)
      /\ UNCHANGED <<objvars, call, wait, pc, halted>> /\ ~halted
  BY Zenon DEF Preempt, Yield, timer_handler, yield, SwitchTo, Running
<1>2. CpuInv'
  BY TimerInv, YieldInv, Zenon DEF SyncInv, Preempt, Yield
<1>3. /\ ring \in Seq(Threads) /\ Len(ring) > 0
      /\ wait \in [Queues -> Seq(Threads)] /\ OneList(ring, wait)
  BY <1>1, Zenon DEF SyncInv, CpuInv, CpuTypeOK, OneListPerThread
<1>4. Range(ring') = Range(ring)
  BY <1>1, <1>3, RotatedFacts, Zenon
<1>5. OneListPerThread'
  <2>1. OneList(Rotated(ring), wait)
    BY <1>3, OneListRotated, Zenon
  <2> QED
    BY <1>1, <2>1, Zenon DEF OneListPerThread
<1>6. Discipline'
  BY <1>1, Zenon DEF SyncInv, Discipline, Disciplined, objvars
<1>7. call' \in [Threads -> Calls \cup {NoCall}]
  BY <1>1, Zenon DEF SyncInv, TypeOK
<1> QED
  BY <1>1, <1>2, <1>4, <1>5, <1>6, <1>7, QuietStep, Zenon

\* A step on the way into a critical section, or in or out of the kernel.
LEMMA PrologueStep ==
    ASSUME SyncInv, NEW t \in Threads,
           \/ \E c \in Calls : Call(t, c)
           \/ SaveFlags(t) \/ EnterKernel(t) \/ LeaveKernel(t)
    PROVE  SyncInv'
<1>1. CpuInv'
  BY PrologueInv, Zenon DEF SyncInv, Call, SaveFlags, EnterKernel, LeaveKernel
<1>2. UNCHANGED <<objvars, wait, ring, halted>>
  BY Zenon DEF Call, SaveFlags, EnterKernel, LeaveKernel, enter_critical_read,
         enter_critical_save, syscall_enter, syscall_return
<1>3. OneListPerThread'
  BY <1>2, Zenon DEF SyncInv, OneListPerThread
<1>4. ASSUME NEW c \in Calls, Call(t, c) PROVE SyncInv'
  <2>1. /\ MayCall(t, c) /\ pc[t] = "run" /\ pc' = [pc EXCEPT ![t] = "read"]
        /\ call' = [call EXCEPT ![t] = c]
    BY <1>4, Zenon DEF Call, enter_critical_read
  <2>2. call' \in [Threads -> Calls \cup {NoCall}] /\ call'[t] = c
        /\ \A u \in Threads \ {t} : call'[u] = call[u]
    BY <2>1, Zenon DEF SyncInv, TypeOK
  <2>3. pc'[t] = "read" /\ \A u \in Threads \ {t} : pc'[u] = pc[u]
    BY <2>1, Zenon DEF SyncInv, CpuInv, CpuTypeOK
  <2>4. /\ \A l \in Locks : c = <<"release", l>> => t \in held[l]
        /\ \A s \in Semaphores : c = <<"up", s>> => t \in held[s]
        /\ \A d \in Conditions : c = <<"wait", d>> => t \in held[LockOf[d]]
        /\ \A s \in Semaphores : c = <<"down", s>> => t \notin held[s]
    BY <2>1 DEF MayCall
  <2>5. Discipline'
    <3>1. UNCHANGED held
      BY <1>2, Zenon DEF objvars
    <3>2. Discipline
      BY Zenon DEF SyncInv
    <3> SUFFICES ASSUME NEW u \in Threads PROVE Disciplined(u)'
      BY Zenon DEF Discipline
    <3>3. CASE u = t
      BY ONLY <2>2, <2>3, <2>4, <3>1, <3>3, Zenon DEF Disciplined
    <3>4. CASE u # t
      <4>1. pc'[u] = pc[u] /\ call'[u] = call[u] /\ Disciplined(u)
        BY <2>2, <2>3, <3>2, <3>4, Zenon DEF Discipline
      <4> QED
        BY ONLY <3>1, <4>1, Zenon DEF Disciplined
    <3> QED
      BY <3>3, <3>4, Zenon
  <2> QED
    BY <1>1, <1>2, <1>3, <2>1, <2>2, <2>3, <2>5, QuietStep, Zenon
<1>5. CASE SaveFlags(t) \/ EnterKernel(t) \/ LeaveKernel(t)
  <2>1. UNCHANGED call
    BY <1>5, Zenon DEF SaveFlags, EnterKernel, LeaveKernel
  <2>2. \A u \in Threads : pc'[u] = pc[u] \/ (pc[u] = "read" /\ pc'[u] = "cli")
    <3>1. CASE SaveFlags(t)
      <4>1. pc[t] = "read" /\ pc' = [pc EXCEPT ![t] = "cli"] /\ pc \in [Threads -> PC]
        BY <3>1, Zenon DEF SaveFlags, enter_critical_save, SyncInv, CpuInv, CpuTypeOK
      <4> QED
        BY <4>1, Zenon
    <3>2. CASE EnterKernel(t) \/ LeaveKernel(t)
      <4>1. pc' = pc
        BY <3>2, Zenon DEF EnterKernel, LeaveKernel, syscall_enter, syscall_return
      <4> QED
        BY <4>1, Zenon
    <3> QED
      BY <1>5, <3>1, <3>2, Zenon
  <2>3. Discipline'
    BY <1>2, <2>1, <2>2, Zenon DEF SyncInv, Discipline, Disciplined, objvars
  <2>4. call' \in [Threads -> Calls \cup {NoCall}]
    BY <2>1, Zenon DEF SyncInv, TypeOK
  <2> QED
    BY <1>1, <1>2, <1>3, <2>1, <2>2, <2>3, <2>4, QuietStep, Zenon
<1> QED
  BY <1>4, <1>5, Zenon
-----------------------------------------------------------------------------
\* SyncInv is inductive: no interleaving of calls, blocks, wakeups and timer
\* interrupts leaves it.
THEOREM Invariance == Spec => []SyncInv
<1>1. SyncInv /\ [Next]_vars => SyncInv'
  <2> SUFFICES ASSUME SyncInv, [Next]_vars PROVE SyncInv'
    BY Zenon
  <2>1. CASE Next
    BY <2>1, SectionInv, SwitchStep, PrologueStep, Zenon DEF Next
  <2>2. CASE UNCHANGED vars
    <3>1. UNCHANGED <<objvars, call, ring, wait, pc, halted, iflag, critical_depth,
                      critical_saved_flags, eax, ecx, resume_if, in_syscall>>
      BY <2>2, Zenon DEF vars, cpuvars
    <3>2. CpuInv' /\ OneListPerThread' /\ Discipline'
      BY <3>1, Zenon DEF SyncInv, CpuInv, CpuTypeOK, OneListPerThread, Discipline, Disciplined,
                  objvars, DepthCountsSections, InSection, SectionsAreAtomic, ResumesDisabled
    <3> QED
      BY <3>1, <3>2, QuietStep, Zenon DEF SyncInv, TypeOK
  <2> QED
    BY <2>1, <2>2, Zenon
<1> QED
  BY <1>1, InitInv, PTL DEF Spec

\* Every variable keeps its type; in particular critical_depth, slots and the
\* barrier's counter never go below zero.
THEOREM TypeCorrectness == Spec => []TypeOK
<1>1. SyncInv => TypeOK
  BY Zenon DEF SyncInv
<1> QED
  BY <1>1, Invariance, PTL

\* The global depth counter of enter_critical and leave_critical is the number
\* of open critical sections, for any number of threads.
THEOREM DepthTheorem == Spec => []DepthCountsSections
<1>1. SyncInv => DepthCountsSections
  BY Zenon DEF SyncInv, CpuInv
<1> QED
  BY <1>1, Invariance, PTL

\* A critical section that blocks is never continued with interrupts enabled.
THEOREM AtomicityTheorem == Spec => []SectionsAreAtomic
<1>1. SyncInv => SectionsAreAtomic
  BY Zenon DEF SyncInv, CpuInv
<1> QED
  BY <1>1, Invariance, PTL

\* block() and unblock() neither lose a thread nor link it into two lists.
THEOREM OneListTheorem == Spec => []OneListPerThread
<1>1. SyncInv => OneListPerThread
  BY Zenon DEF SyncInv
<1> QED
  BY <1>1, Invariance, PTL

\* Lock::acquire, Lock::release and Condition::wait keep a lock exclusive.
THEOREM MutexTheorem == Spec => []MutualExclusion
<1>1. SyncInv => MutualExclusion
  BY Zenon DEF SyncInv
<1> QED
  BY <1>1, Invariance, PTL

\* Waking one waiter per release is enough, although others may take the lock
\* first.
THEOREM WakeupTheorem == Spec => []NoLostWakeup
<1>1. SyncInv => NoLostWakeup
  BY Zenon DEF SyncInv
<1> QED
  BY <1>1, Invariance, PTL

\* Semaphore::up and Semaphore::down conserve the slots.
THEOREM SlotsTheorem == Spec => []SlotsAreConserved
<1>1. SyncInv => SlotsAreConserved
  BY Zenon DEF SyncInv
<1> QED
  BY <1>1, Invariance, PTL

\* The counter of a barrier and its queue always add up to its size.
THEOREM BarrierTheorem == Spec => []BarrierCountsWaiters
<1>1. SyncInv => BarrierCountsWaiters
  BY Zenon DEF SyncInv
<1> QED
  BY <1>1, Invariance, PTL
=============================================================================
