------------------------- MODULE SyncMonitorProofs -------------------------
(***************************************************************************)
(* Lock and Condition of Sync implement Monitor.  A step of a critical     *)
(* section that takes or gives up a lock, begins a wait, returns from it,  *)
(* signals or broadcasts is the step of that name; every other step is not *)
(* seen in the monitor.                                                    *)
(***************************************************************************)
EXTENDS SyncProofs

\* Thread t is inside c.wait(), waiting or picked.
InWait(t, c) == pc[t] = "inside" /\ call[t] = <<"wait", c>>

\* Only threads in c.wait() queue for c.
WaitersWait == \A c \in Conditions : \A t \in Range(wait[c]) : InWait(t, c)

\* The owner of an exclusive lock.
LEMMA OwnerFacts ==
    ASSUME NEW l \in Locks, MutualExclusion, held[l] \in SUBSET Threads
    PROVE  /\ \A t \in held[l] : OwnerOf(l) = t
           /\ held[l] = {} => OwnerOf(l) = NoThread
BY Zenon DEF OwnerOf, MutualExclusion

\* The same in the next state.
LEMMA OwnerFactsNext ==
    ASSUME NEW l \in Locks, MutualExclusion', held'[l] \in SUBSET Threads
    PROVE  /\ \A t \in held'[l] : OwnerOf(l)' = t
           /\ held'[l] = {} => OwnerOf(l)' = NoThread
BY Zenon DEF OwnerOf, MutualExclusion

\* The owner stays as long as nobody takes or gives up the lock.
LEMMA OwnerKept ==
    ASSUME SyncInv, NEW l \in Locks, held'[l] = held[l]
    PROVE  OwnerOf(l)' = OwnerOf(l)
<1>1. held[l] \in SUBSET Threads /\ \A t, u \in held[l] : t = u
  BY Zenon DEF SyncInv, TypeOK, MutualExclusion
<1>2. CASE held[l] = {}
  BY <1>2, Zenon DEF OwnerOf
<1>3. ASSUME NEW t \in held[l] PROVE OwnerOf(l)' = OwnerOf(l)
  <2>1. OwnerOf(l) = t
    BY <1>1, Zenon DEF OwnerOf
  <2>2. OwnerOf(l)' = t
    BY <1>1, Zenon DEF OwnerOf
  <2> QED
    BY <2>1, <2>2, Zenon
<1> QED
  BY <1>2, <1>3, Zenon

\* A step that changes no lock, no queue of a condition and nobody's place in a wait
\* is not seen in the monitor.
LEMMA UnseenStep ==
    ASSUME SyncInv, WaitersWait, \A l \in Locks : held'[l] = held[l],
           \A c \in Conditions : wait'[c] = wait[c],
           \A t \in Threads, c \in Conditions : InWait(t, c)' <=> InWait(t, c)
    PROVE  WaitersWait' /\ UNCHANGED M!mvars
<1>1. \A l \in Locks : OwnerOf(l)' = OwnerOf(l)
  BY OwnerKept, Zenon
<1>2. \A c \in Conditions : Signalled(c)' = Signalled(c)
  BY Zenon DEF Signalled, InWait, InSection
<1>3. \A c \in Conditions : c \in Queues /\ Range(wait[c]) \subseteq Threads
  BY ObjectsAssumption, RangeIn, Zenon DEF SyncInv, CpuInv, CpuTypeOK
<1>4. WaitersWait'
  BY <1>3, Zenon DEF WaitersWait
<1> QED
  BY <1>1, <1>2, <1>4, Zenon DEF M!mvars

\* A thread that runs, and is not inside a wait, is idle in the monitor.
LEMMA RunningIdle ==
    ASSUME SyncInv, NEW t \in Threads, Running(t), \A c \in Conditions : ~InWait(t, c)
    PROVE  M!Idle(t)
<1>1. \A c \in Conditions : c \in Queues /\ t \notin Range(wait[c])
  BY RunningNotQueued, ObjectsAssumption, Zenon DEF SyncInv
<1> QED
  BY <1>1, Zenon DEF M!Idle, Signalled, InWait, InSection

\* lock_acquire_helper takes the lock, for acquire() or to return from a wait, or has
\* to queue for it.
LEMMA AcquireStep ==
    ASSUME SyncInv, SyncInv', WaitersWait, NEW t \in Threads, NEW l \in Locks, InBody(t),
           lock_acquire_helper(t, l), UNCHANGED call,
           \/ call[t] = <<"acquire", l>>
           \/ \E c \in Conditions : l = LockOf[c] /\ InWait(t, c)
    PROVE  WaitersWait' /\ (M!MonitorNext \/ UNCHANGED M!mvars)
<1>1. /\ l \in Queues /\ \A c \in Conditions : c \in Queues /\ c # l
  BY ObjectsAssumption, Zenon
<1>2. CASE MustWait(t, l)
  <2>1. block(t, l, ring, wait) /\ UNCHANGED held
    BY <1>2, Zenon DEF lock_acquire_helper
  <2>2. \A c \in Conditions : wait'[c] = wait[c]
    BY <1>1, <2>1, Zenon DEF block, SyncInv, CpuInv, CpuTypeOK
  <2>3. \A u \in Threads, c \in Conditions : InWait(u, c)' <=> InWait(u, c)
    BY <2>1 DEF block, InWait, SyncInv, CpuInv, CpuTypeOK
  <2> QED
    BY <2>1, <2>2, <2>3, UnseenStep, Zenon
<1>3. CASE ~MustWait(t, l)
  <2>1. /\ held' = [held EXCEPT ![l] = @ \cup {t}] /\ status[l] = "UNLOCKED"
        /\ leave_critical(t, ring, wait)
    BY <1>3, Zenon DEF lock_acquire_helper, MustWait, SyncInv, TypeOK
  <2>2. /\ held[l] = {} /\ held'[l] = {t} /\ \A k \in Locks : k # l => held'[k] = held[k]
    BY <2>1, Zenon DEF SyncInv, TypeOK, MutualExclusion
  <2>3. /\ OwnerOf(l) = NoThread /\ OwnerOf(l)' = t
        /\ \A k \in Locks : k # l => OwnerOf(k)' = OwnerOf(k)
    BY <2>2, OwnerFacts, OwnerFactsNext, OwnerKept, Zenon DEF SyncInv
  <2>4. /\ wait' = wait /\ \A c : ~InWait(t, c)'
        /\ \A u \in Threads, c \in Conditions : u # t => (InWait(u, c)' <=> InWait(u, c))
    BY <2>1, Zenon DEF leave_critical, InWait, SyncInv, CpuInv, CpuTypeOK
  <2>5. \A c \in Conditions : t \notin Range(wait[c]) /\ Range(wait[c]) \subseteq Threads
    BY <1>1, RunningNotQueued, RangeIn, Zenon DEF SyncInv, InBody, CpuInv, CpuTypeOK
  <2>6. WaitersWait'
    BY <2>4, <2>5, Zenon DEF WaitersWait
  <2>7. CASE call[t] = <<"acquire", l>>
    <3>1. \A c \in Conditions : Signalled(c)' = Signalled(c)
      BY <2>4, <2>7 DEF Signalled, InWait, InSection
    <3>2. M!Idle(t)
      BY <2>7, RunningIdle DEF InBody, InWait
    <3>3. M!Acquire(t, l)
      BY <2>3, <2>4, <3>1, <3>2, Zenon DEF M!Acquire
    <3> QED
      BY <2>6, <3>3, Zenon DEF M!MonitorNext
  <2>8. ASSUME NEW c \in Conditions, l = LockOf[c], InWait(t, c)
        PROVE  M!Return(t, c)
    <3>1. t \in Signalled(c) /\ Signalled(c)' = Signalled(c) \ {t}
      BY <2>4, <2>5, <2>8, Zenon DEF Signalled, InWait, InSection
    <3>2. \A d \in Conditions : d # c => Signalled(d)' = Signalled(d)
      BY <2>4, <2>5, <2>8 DEF Signalled, InWait, InSection
    <3> QED
      BY <2>3, <2>4, <2>8, <3>1, <3>2, Zenon DEF M!Return
  <2> QED
    BY <2>6, <2>7, <2>8, Zenon DEF M!MonitorNext
<1> QED
  BY <1>2, <1>3, Zenon

\* release() and the beginning of wait() give the lock up.
LEMMA GiveUpStep ==
    ASSUME SyncInv, SyncInv', NEW t \in Threads, NEW l \in Locks, t \in held[l],
           lock_release_helper(t, l)
    PROVE  /\ OwnerOf(l) = t /\ OwnerOf(l)' = NoThread
           /\ \A k \in Locks : k # l => OwnerOf(k)' = OwnerOf(k)
<1>1. held[l] = {t} /\ held'[l] = {} /\ \A k \in Locks : k # l => held'[k] = held[k]
  BY DEF lock_release_helper, SyncInv, TypeOK, MutualExclusion
<1> QED
  BY <1>1, OwnerFacts, OwnerFactsNext, OwnerKept, Zenon DEF SyncInv

\* Lock::release.
LEMMA ReleaseStep ==
    ASSUME SyncInv, SyncInv', WaitersWait, NEW t \in Threads, NEW l \in Locks, release(t, l)
    PROVE  WaitersWait' /\ M!MonitorNext
<1>1. /\ InBody(t) /\ ~halted /\ call[t] = <<"release", l>> /\ lock_release_helper(t, l)
      /\ leave_critical(t, WokenRing(l), WokenWait(l)) /\ UNCHANGED call
  BY Zenon DEF release, Body, InBody, Running
<1>2. /\ l \in Queues /\ \A c \in Conditions : c \in Queues /\ c # l
  BY ObjectsAssumption, Zenon
<1>3. /\ OwnerOf(l) = t /\ OwnerOf(l)' = NoThread
      /\ \A k \in Locks : k # l => OwnerOf(k)' = OwnerOf(k)
  BY <1>1, GiveUpStep, Zenon DEF SyncInv, Discipline, Disciplined, InBody
<1>4. \A c \in Conditions : wait'[c] = wait[c] /\ Range(wait[c]) \subseteq Threads
  BY <1>1, <1>2, WokenLists, RangeIn, Zenon DEF leave_critical, SyncInv, CpuInv, CpuTypeOK
<1>5. \A u \in Threads, c \in Conditions : InWait(u, c)' <=> InWait(u, c)
  BY <1>1 DEF leave_critical, InWait, SyncInv, CpuInv, CpuTypeOK
<1>6. \A c \in Conditions : Signalled(c)' = Signalled(c)
  BY <1>4, <1>5, Zenon DEF Signalled, InWait, InSection
<1>7. M!Idle(t)
  BY <1>1, RunningIdle DEF InBody, InWait
<1>8. M!Release(t, l)
  BY <1>3, <1>4, <1>6, <1>7, Zenon DEF M!Release
<1> QED
  BY <1>4, <1>5, <1>8, Zenon DEF WaitersWait, M!MonitorNext

\* The beginning of Condition::wait.
LEMMA WaitStep ==
    ASSUME SyncInv, SyncInv', WaitersWait, NEW t \in Threads, NEW c \in Conditions,
           wait_begin(t, c)
    PROVE  WaitersWait' /\ M!MonitorNext
<1>0. PICK l \in Locks : l = LockOf[c]
  BY ObjectsAssumption, Zenon
<1>1. /\ InBody(t) /\ ~halted /\ call[t] = <<"wait", c>> /\ lock_release_helper(t, l)
      /\ block(t, c, WokenRing(l), WokenWait(l)) /\ UNCHANGED call /\ pc[t] = "cli"
  BY <1>0, Zenon DEF wait_begin, Body, InBody, Running
<1>2. /\ l \in Queues /\ \A d \in Conditions : d \in Queues /\ d # l
  BY ObjectsAssumption, Zenon
<1>3. /\ OwnerOf(l) = t /\ OwnerOf(l)' = NoThread
      /\ \A k \in Locks : k # l => OwnerOf(k)' = OwnerOf(k)
  BY <1>0, <1>1, GiveUpStep, Zenon DEF SyncInv, Discipline, Disciplined
<1>4. /\ ListsOK(WokenRing(l), WokenWait(l))
      /\ \A d \in Conditions : WokenWait(l)[d] = wait[d]
  BY <1>1, <1>2, WokenLists, Zenon DEF SyncInv
<1>5. /\ Range(wait'[c]) = Range(wait[c]) \cup {t}
      /\ \A d \in Conditions : d # c => wait'[d] = wait[d]
  <2>1. CpuInv /\ OneListPerThread
    BY Zenon DEF SyncInv
  <2>2. /\ Range(wait'[c]) = Range(WokenWait(l)[c]) \cup {t}
        /\ \A q \in Queues : q # c => wait'[q] = WokenWait(l)[q]
    <3>1. c \in Queues
      BY <1>2, Zenon
    <3> QED
      BY ONLY <1>1, <1>4, <2>1, <3>1, t \in Threads, BlockStep
  <2> QED
    BY <1>2, <1>4, <2>2, Zenon
<1>6. /\ InWait(t, c)' /\ \A d \in Conditions : d # c => ~InWait(t, d)' /\ ~InWait(t, d)
      /\ \A u \in Threads, d \in Conditions : u # t => (InWait(u, d)' <=> InWait(u, d))
  <2>1. pc' = [pc EXCEPT ![t] = "inside"] /\ pc \in [Threads -> PC]
    BY <1>1, Zenon DEF block, SyncInv, CpuInv, CpuTypeOK
  <2> QED
    <3>1. pc'[t] = "inside" /\ \A u \in Threads : u # t => pc'[u] = pc[u]
      BY <2>1, Zenon
    <3>2. call' = call /\ \A d : d # c => call[t] # <<"wait", d>>
      BY <1>1
    <3> QED
      BY <1>1, <3>1, <3>2, Zenon DEF InWait
<1>7. \A d \in Conditions : ~InWait(t, d) /\ Range(wait[d]) \subseteq Threads
  BY <1>1, <1>2, RangeIn, Zenon DEF InWait, SyncInv, CpuInv, CpuTypeOK
<1>8. \A d \in Conditions : Signalled(d)' = Signalled(d)
  BY <1>5, <1>6, <1>7, Zenon DEF Signalled, InWait, InSection
<1>9. M!Idle(t)
  BY <1>1, <1>7, RunningIdle, Zenon DEF InBody
<1>10. M!Wait(t, c)
  BY <1>0, <1>3, <1>5, <1>8, <1>9, Zenon DEF M!Wait
<1>11. WaitersWait'
  BY <1>5, <1>6, <1>7, Zenon DEF WaitersWait
<1> QED
  BY <1>10, <1>11, Zenon DEF M!MonitorNext

\* Condition::signal and Condition::broadcast, which pick the threads in S.
LEMMA PickStep ==
    ASSUME SyncInv, WaitersWait, NEW t \in Threads, NEW c \in Conditions, NEW r, NEW w,
           InBody(t), leave_critical(t, r, w), UNCHANGED <<held, call>>,
           \A d \in Conditions : ~InWait(t, d) /\ (d # c => w[d] = wait[d]),
           NEW S \in SUBSET Range(wait[c]), Range(w[c]) = Range(wait[c]) \ S
    PROVE  WaitersWait' /\ M!Pick(c, S)
<1>1. \A d \in Conditions : Range(wait[d]) \subseteq Threads
  BY ObjectsAssumption, RangeIn, Zenon DEF SyncInv, CpuInv, CpuTypeOK
<1>2. /\ wait' = w
      /\ \A u \in Threads, d \in Conditions : InWait(u, d)' <=> InWait(u, d)
  BY Zenon DEF leave_critical, InWait, SyncInv, CpuInv, CpuTypeOK
<1>3. \A l \in Locks : OwnerOf(l)' = OwnerOf(l)
  BY OwnerKept, Zenon
<1>4. Signalled(c)' = Signalled(c) \cup S
  BY <1>1, <1>2 DEF Signalled, InWait, InSection, WaitersWait
<1>5. \A d \in Conditions : d # c => Signalled(d)' = Signalled(d)
  BY <1>1, <1>2, Zenon DEF Signalled, InWait, InSection
<1>6. M!Pick(c, S)
  BY <1>2, <1>3, <1>4, <1>5, Zenon DEF M!Pick
<1> QED
  BY <1>1, <1>2, <1>6, Zenon DEF WaitersWait

\* Condition::signal, with somebody waiting or with nobody, and Condition::broadcast.
LEMMA SignalStep ==
    ASSUME SyncInv, WaitersWait, NEW t \in Threads, NEW c \in Conditions,
           signal(t, c) \/ broadcast(t, c)
    PROVE  WaitersWait' /\ (M!MonitorNext \/ UNCHANGED M!mvars)
<1>1. /\ InBody(t) /\ ~halted /\ UNCHANGED <<held, call>> /\ c \in Queues
      /\ \A d \in Conditions : ~InWait(t, d) /\ d \in Queues
  <2>1. \A d \in Conditions : d \in Queues
    BY ObjectsAssumption, Zenon
  <2>2. \/ Body(t, "signal", c) /\ UNCHANGED objvars
        \/ Body(t, "broadcast", c) /\ UNCHANGED objvars
    BY Zenon DEF signal, broadcast
  <2>3. InBody(t) /\ UNCHANGED <<held, call>> /\ \A d : call[t] # <<"wait", d>>
    BY <2>2 DEF Body, objvars
  <2> QED
    BY <2>1, <2>3, Zenon DEF InBody, Running, InWait
<1>2. wait \in [Queues -> Seq(Threads)] /\ wait[c] \in Seq(Threads)
  BY <1>1, Zenon DEF SyncInv, CpuInv, CpuTypeOK
<1>3. CASE broadcast(t, c)
  <2> DEFINE w == [wait EXCEPT ![c] = <<>>]
  <2>1. leave_critical(t, WokenAll(ring, wait[c]), w)
    BY <1>3, Zenon DEF broadcast
  <2>2. Range(w[c]) = {} /\ \A d \in Conditions : d # c => w[d] = wait[d]
    BY <1>1, <1>2 DEF Range
  <2> HIDE DEF w
  <2>3. WaitersWait' /\ M!Pick(c, Range(wait[c]))
    BY <1>1, <2>1, <2>2, PickStep, Zenon
  <2> QED
    BY <2>3, Zenon DEF M!Broadcast, M!MonitorNext
<1>4. CASE signal(t, c) /\ wait[c] # <<>>
  <2>1. leave_critical(t, WokenRing(c), WokenWait(c))
    BY <1>4, Zenon DEF signal
  <2>2. Len(wait[c]) > 0 /\ IsInjective(wait[c])
    BY <1>1, <1>2, <1>4 DEF SyncInv, OneListPerThread, OneList
  <2>3. /\ Range(wait[c]) = {Head(wait[c])} \cup Range(Tail(wait[c]))
        /\ Head(wait[c]) \notin Range(Tail(wait[c]))
    BY <1>2, <2>2, HeadTailFacts, TailDistinct, Zenon
  <2>4. WokenWait(c)[c] = Tail(wait[c]) /\ \A d \in Conditions : d # c => WokenWait(c)[d] = wait[d]
    BY <1>1, <1>2, <1>4, Zenon DEF WokenWait
  <2>5. /\ {Head(wait[c])} \in SUBSET Range(wait[c])
        /\ Range(WokenWait(c)[c]) = Range(wait[c]) \ {Head(wait[c])}
    BY <2>3, <2>4, Zenon
  <2>6. WaitersWait' /\ M!Pick(c, {Head(wait[c])})
    BY <1>1, <2>1, <2>4, <2>5, PickStep, Zenon
  <2>7. M!Signal(c)
    BY <2>3, <2>6, Zenon DEF M!Signal
  <2> QED
    BY <2>6, <2>7, Zenon DEF M!MonitorNext
<1>5. CASE signal(t, c) /\ wait[c] = <<>>
  <2>1. leave_critical(t, ring, wait)
    BY <1>5, Zenon DEF signal, WokenRing, WokenWait
  <2>2. wait' = wait /\ \A u \in Threads, d \in Conditions : InWait(u, d)' <=> InWait(u, d)
    BY <1>1, <2>1, Zenon DEF leave_critical, InWait, SyncInv, CpuInv, CpuTypeOK
  <2> QED
    BY <1>1, <2>2, UnseenStep, Zenon
<1> QED
  BY <1>3, <1>4, <1>5, Zenon

\* Semaphore and Barrier use their own queues.
LEMMA OtherSectionStep ==
    ASSUME SyncInv, WaitersWait, NEW t \in Threads,
           \/ \E s \in Semaphores : up(t, s) \/ down(t, s)
           \/ \E b \in Barriers : barrier_wait(t, b)
           \/ return_from_block(t)
    PROVE  WaitersWait' /\ UNCHANGED M!mvars
<1>0. wait \in [Queues -> Seq(Threads)] /\ pc \in [Threads -> PC]
      /\ held \in [Locks \cup Semaphores -> SUBSET Threads]
  BY Zenon DEF SyncInv, TypeOK, CpuInv, CpuTypeOK
<1>1. /\ \A c \in Conditions : c \in Queues /\ c \notin Semaphores /\ c \notin Barriers
      /\ \A l \in Locks : l \notin Semaphores
  BY ObjectsAssumption, Zenon
<1> DEFINE Kept == /\ \A c \in Conditions : wait'[c] = wait[c]
                   /\ \A l \in Locks : held'[l] = held[l]
                   /\ \A u \in Threads : u # t => pc'[u] = pc[u]
<1>2. ASSUME NEW s \in Semaphores, up(t, s) PROVE Kept
  BY <1>0, <1>1, <1>2, Zenon DEF up, leave_critical, WokenWait
<1>3. ASSUME NEW s \in Semaphores, down(t, s) PROVE Kept
  <2>1. CASE leave_critical(t, ring, wait) /\ held' = [held EXCEPT ![s] = @ \cup {t}]
    BY <1>0, <1>1, <2>1, Zenon DEF leave_critical
  <2>2. CASE block(t, s, ring, wait) /\ UNCHANGED held
    BY <1>0, <1>1, <2>2, Zenon DEF block
  <2> QED
    BY <1>3, <2>1, <2>2, Zenon DEF down
<1>4. ASSUME NEW b \in Barriers, barrier_wait(t, b) PROVE Kept
  <2>1. UNCHANGED held
    BY <1>4, Zenon DEF barrier_wait
  <2>2. CASE block(t, b, ring, wait)
    BY <1>0, <1>1, <2>1, <2>2, Zenon DEF block
  <2>3. CASE leave_critical(t, WokenAll(ring, SubSeq(wait[b], 1, Freed(b))),
                            [wait EXCEPT ![b] = SubSeq(@, Freed(b) + 1, Len(@))])
    BY <1>0, <1>1, <2>1, <2>3, Zenon DEF leave_critical
  <2> QED
    BY <1>4, <2>2, <2>3, Zenon DEF barrier_wait
<1>5. ASSUME return_from_block(t) PROVE Kept
  BY <1>0, <1>5, Zenon DEF return_from_block, leave_critical, objvars
<1> HIDE DEF Kept
<1>6. Kept
  BY <1>2, <1>3, <1>4, <1>5, Zenon
<1>7. UNCHANGED call
  BY Zenon DEF up, down, barrier_wait, return_from_block, Body
<1>8. \A c \in Conditions : call[t] # <<"wait", c>>
  <2>1. \E o : \/ call[t] = <<"up", o>> \/ call[t] = <<"down", o>>
               \/ call[t] = <<"barrier_wait", o>>
    BY Zenon DEF up, down, barrier_wait, return_from_block, Body
  <2> QED
    BY ONLY <2>1
<1>9. \A u \in Threads, c \in Conditions : InWait(u, c)' <=> InWait(u, c)
  BY <1>6, <1>7, <1>8, Zenon DEF InWait, Kept
<1> QED
  BY <1>6, <1>9, UnseenStep, Zenon DEF Kept

\* The steps outside the critical sections change no object.
LEMMA OutsideStep ==
    ASSUME SyncInv, WaitersWait, NEW t \in Threads,
           \/ (\E c \in Calls : Call(t, c)) \/ SaveFlags(t)
           \/ Preempt(t) \/ Yield(t) \/ EnterKernel(t) \/ LeaveKernel(t)
    PROVE  WaitersWait' /\ UNCHANGED M!mvars
<1> USE DEF SyncInv, TypeOK, CpuInv, CpuTypeOK
<1>1. UNCHANGED <<held, wait>>
  BY Zenon DEF Call, SaveFlags, EnterKernel, LeaveKernel, Preempt, Yield, objvars, syscall_enter,
         enter_critical_read, enter_critical_save, syscall_return, timer_handler, yield
<1>2. CASE \E c \in Calls : Call(t, c)
  <2>1. /\ pc[t] = "run" /\ pc' = [pc EXCEPT ![t] = "read"]
        /\ \A u \in Threads : u # t => call'[u] = call[u]
    <3>1. PICK c \in Calls : Call(t, c)
      BY <1>2, Zenon
    <3>2. pc[t] = "run" /\ pc' = [pc EXCEPT ![t] = "read"] /\ call' = [call EXCEPT ![t] = c]
      BY <3>1, Zenon DEF Call, enter_critical_read
    <3>3. DOMAIN call = Threads
      BY Zenon
    <3> QED
      BY ONLY <3>2, <3>3, Zenon
  <2>2. \A u \in Threads, c \in Conditions : InWait(u, c)' <=> InWait(u, c)
    BY <2>1, Zenon DEF InWait
  <2> QED
    BY <1>1, <2>2, UnseenStep, Zenon
<1>3. CASE SaveFlags(t) \/ Preempt(t) \/ Yield(t) \/ EnterKernel(t) \/ LeaveKernel(t)
  <2>1. UNCHANGED call /\ (pc' = pc \/ (pc[t] = "read" /\ pc' = [pc EXCEPT ![t] = "cli"]))
    BY <1>3, Zenon DEF SaveFlags, EnterKernel, LeaveKernel, Preempt, Yield, syscall_enter,
                enter_critical_save, syscall_return, timer_handler, yield
  <2>2. \A u \in Threads, c \in Conditions : InWait(u, c)' <=> InWait(u, c)
    BY <2>1, Zenon DEF InWait
  <2> QED
    BY <1>1, <2>2, UnseenStep, Zenon
<1> QED
  BY <1>2, <1>3, Zenon

\* Lock and Condition implement the monitor, for any number of threads and objects.
THEOREM MonitorTheorem == Spec => ImplementsMonitor
<1>1. Init => WaitersWait /\ M!MonitorInit
  <2> SUFFICES ASSUME Init PROVE WaitersWait /\ M!MonitorInit
    BY Zenon
  <2>1. \A c \in Conditions : Range(wait[c]) = {}
    BY ObjectsAssumption DEF Init, CpuInit, Range
  <2>2. \A l \in Locks : OwnerOf(l) = NoThread
    BY Zenon DEF Init, OwnerOf
  <2>3. \A c \in Conditions : Signalled(c) = {}
    BY Zenon DEF Init, CpuInit, Signalled, InSection
  <2> QED
    BY <2>1, <2>2, <2>3, Zenon DEF WaitersWait, M!MonitorInit
<1>2. SyncInv /\ SyncInv' /\ WaitersWait /\ [Next]_vars
        => WaitersWait' /\ [M!MonitorNext]_(M!mvars)
  <2> SUFFICES ASSUME SyncInv, SyncInv', WaitersWait, [Next]_vars
               PROVE  WaitersWait' /\ (M!MonitorNext \/ UNCHANGED M!mvars)
    BY Zenon
  <2>1. CASE UNCHANGED vars
    <3>1. UNCHANGED <<held, wait, pc, call>>
      BY <2>1, Zenon DEF vars, cpuvars, objvars
    <3>2. \A u \in Threads, c \in Conditions : InWait(u, c)' <=> InWait(u, c)
      BY <3>1, Zenon DEF InWait
    <3> QED
      BY <3>1, <3>2, UnseenStep, Zenon
  <2>2. ASSUME NEW t \in Threads, Section(t)
        PROVE  WaitersWait' /\ (M!MonitorNext \/ UNCHANGED M!mvars)
    <3>1. ASSUME NEW l \in Locks, acquire(t, l)
          PROVE  WaitersWait' /\ (M!MonitorNext \/ UNCHANGED M!mvars)
      BY <3>1, AcquireStep, Zenon DEF acquire, Body
    <3>2. ASSUME NEW c \in Conditions, wait_resume(t, c)
          PROVE  WaitersWait' /\ (M!MonitorNext \/ UNCHANGED M!mvars)
      <4>1. LockOf[c] \in Locks /\ InBody(t) /\ lock_acquire_helper(t, LockOf[c])
            /\ UNCHANGED call /\ InWait(t, c)
        BY <3>2, ObjectsAssumption, Zenon DEF wait_resume, Body, InWait
      <4> QED
        BY <4>1, AcquireStep, Zenon
    <3> QED
      BY <2>2, <3>1, <3>2, ReleaseStep, WaitStep, SignalStep, OtherSectionStep, Zenon DEF Section
  <2> QED
    BY <2>1, <2>2, OutsideStep, Zenon DEF Next
<1> QED
  BY <1>1, <1>2, Invariance, PTL DEF Spec, ImplementsMonitor, M!MonitorSpec
=============================================================================
