-------------------------------- MODULE Sync --------------------------------
(***************************************************************************)
(* The synchronisation objects of kernel/sync.cpp on the CPU of module     *)
(* Cpu.  A thread calls the operations in any order its program allows: it *)
(* releases a lock or ups a semaphore only when it holds it, waits on a    *)
(* condition with the condition's lock held, and waits at the barriers it  *)
(* is a party of.                                                          *)
(***************************************************************************)
EXTENDS Cpu

CONSTANTS
    Locks, Conditions, Semaphores, Barriers,
    LockOf,         \* LockOf[c]: the lock that threads pass to c.wait()
    Slots,          \* Slots[s]: the initial value of Semaphore::slots
    Parties,        \* Parties[b]: the threads that use barrier b
    MaxRounds,      \* how often a party waits at a barrier (a bound)
    NoThread        \* the owner of a free lock, for the refinement

ASSUME ObjectsAssumption ==
    /\ Queues = Locks \cup Conditions \cup Semaphores \cup Barriers
    /\ Locks \cap Conditions = {} /\ Locks \cap Semaphores = {}
    /\ Locks \cap Barriers = {} /\ Conditions \cap Semaphores = {}
    /\ Conditions \cap Barriers = {} /\ Semaphores \cap Barriers = {}
    /\ LockOf \in [Conditions -> Locks]
    /\ Slots \in [Semaphores -> Nat]
    /\ Parties \in [Barriers -> SUBSET Threads]
    /\ \A b \in Barriers : Parties[b] # {}
    /\ MaxRounds \in Nat
    /\ NoThread \notin Threads

VARIABLES
    status,     \* status[l]: "UNLOCKED" or "LOCKED"
    slots,      \* slots[s]
    counter,    \* counter[b]
    call,       \* the operation a thread is in, or has called last
    held,       \* history: the threads that own a lock or a semaphore slot
    arrivals    \* history: how often a thread has arrived at a barrier

objvars == <<status, slots, counter, held, arrivals>>
vars == <<cpuvars, objvars, call>>

Calls ==
    ({"acquire", "release"} \X Locks)
    \cup ({"wait", "signal", "broadcast"} \X Conditions)
    \cup ({"up", "down"} \X Semaphores)
    \cup ({"barrier_wait"} \X Barriers)

NoCall == <<"none", "none">>

Init ==
    /\ CpuInit
    /\ status = [l \in Locks |-> "UNLOCKED"]
    /\ slots = Slots
    /\ counter = [b \in Barriers |-> Cardinality(Parties[b])]
    /\ call = [t \in Threads |-> NoCall]
    /\ held = [o \in Locks \cup Semaphores |-> {}]
    /\ arrivals = [b \in Barriers |-> [t \in Threads |-> 0]]

\* What a correct program may call next.  The semaphores are used before the barriers.
MayCall(t, c) ==
    LET fn == c[1] o == c[2] IN
    CASE fn = "acquire"             -> t \notin held[o]
      [] fn = "down"                ->
            t \notin held[o] /\ \A b \in Barriers : \A u \in Threads : arrivals[b][u] = 0
      [] fn \in {"release", "up"}   -> t \in held[o]
      [] fn = "wait"                -> t \in held[LockOf[o]]
      [] fn = "barrier_wait"        ->
            /\ t \in Parties[o] /\ arrivals[o][t] < MaxRounds
            /\ \A s \in Semaphores : held[s] = {}
      [] OTHER                      -> TRUE

\* A thread calls an operation and executes enter_critical up to its test.
Call(t, c) ==
    /\ MayCall(t, c)
    /\ enter_critical_read(t)
    /\ call' = [call EXCEPT ![t] = c]
    /\ UNCHANGED objvars

SaveFlags(t) ==
    /\ enter_critical_save(t)
    /\ UNCHANGED <<objvars, call>>

Body(t, fn, o) == InBody(t) /\ call[t] = <<fn, o>> /\ UNCHANGED call
-----------------------------------------------------------------------------
\* The ready ring and the wait queues after unblock(&q), if somebody waits.
WokenRing(q) == IF wait[q] = <<>> THEN ring ELSE Woken(ring, Head(wait[q]))
\* Mutant: the woken thread stays in the queue.
WokenWait_keeps(q) == wait
WokenWait(q) == IF wait[q] = <<>> THEN wait ELSE [wait EXCEPT ![q] = Tail(@)]

\* Mutant: `if' for `while', a woken thread takes the lock without a test.
MustWait_if(t, l) == status[l] = "LOCKED" /\ pc[t] = "cli"

\* The loop condition, which a woken thread tests again.
MustWait(t, l) == status[l] = "LOCKED"

\* lock_acquire_helper and the leave_critical behind it.
lock_acquire_helper(t, l) ==
    \/ /\ MustWait(t, l)
       /\ block(t, l, ring, wait)
       /\ UNCHANGED <<status, held>>
    \/ /\ ~MustWait(t, l)
       /\ status' = [status EXCEPT ![l] = "LOCKED"]
       /\ held' = [held EXCEPT ![l] = @ \cup {t}]
       /\ leave_critical(t, ring, wait)

acquire(t, l) ==
    /\ Body(t, "acquire", l)
    /\ lock_acquire_helper(t, l)
    /\ UNCHANGED <<slots, counter, arrivals>>

\* lock_release_helper; the lists it leaves are WokenRing(l) and WokenWait(l).
lock_release_helper(t, l) ==
    /\ status' = [status EXCEPT ![l] = "UNLOCKED"]
    /\ held' = [held EXCEPT ![l] = @ \ {t}]

release(t, l) ==
    /\ Body(t, "release", l)
    /\ lock_release_helper(t, l)
    /\ leave_critical(t, WokenRing(l), WokenWait(l))
    /\ UNCHANGED <<slots, counter, arrivals>>

\* Mutant: wait() unlocks without waking a thread that queues for the lock.
wait_begin_no_unblock(t, c) ==
    /\ Body(t, "wait", c)
    /\ pc[t] = "cli"
    /\ lock_release_helper(t, LockOf[c])
    /\ block(t, c, ring, wait)
    /\ UNCHANGED <<slots, counter, arrivals>>

\* Condition::wait up to its block().
wait_begin(t, c) ==
    /\ Body(t, "wait", c)
    /\ pc[t] = "cli"
    /\ lock_release_helper(t, LockOf[c])
    /\ block(t, c, WokenRing(LockOf[c]), WokenWait(LockOf[c]))
    /\ UNCHANGED <<slots, counter, arrivals>>

\* Mutant: wait() returns without the lock.
wait_resume_no_lock(t, c) ==
    /\ Body(t, "wait", c)
    /\ pc[t] = "inside"
    /\ leave_critical(t, ring, wait)
    /\ UNCHANGED objvars

\* Condition::wait after its block(), or after a block() of the helper.
wait_resume(t, c) ==
    /\ Body(t, "wait", c)
    /\ pc[t] = "inside"
    /\ lock_acquire_helper(t, LockOf[c])
    /\ UNCHANGED <<slots, counter, arrivals>>

signal(t, c) ==
    /\ Body(t, "signal", c)
    /\ leave_critical(t, WokenRing(c), WokenWait(c))
    /\ UNCHANGED objvars

broadcast(t, c) ==
    /\ Body(t, "broadcast", c)
    /\ leave_critical(t, WokenAll(ring, wait[c]), [wait EXCEPT ![c] = <<>>])
    /\ UNCHANGED objvars

\* Mutants: up() counts the slot that it hands over; up() forgets to count a
\* slot that nobody waits for.
SlotsAfterUp_always(s) == slots[s] + 1
SlotsAfterUp_never(s) == slots[s]

SlotsAfterUp(s) == IF wait[s] = <<>> THEN slots[s] + 1 ELSE slots[s]

\* A slot goes straight to the oldest waiter, if there is one.
up(t, s) ==
    /\ Body(t, "up", s)
    /\ leave_critical(t, WokenRing(s), WokenWait(s))
    /\ slots' = [slots EXCEPT ![s] = SlotsAfterUp(s)]
    /\ held' = [held EXCEPT ![s] =
          (@ \ {t}) \cup (IF wait[s] = <<>> THEN {} ELSE {Head(wait[s])})]
    /\ UNCHANGED <<status, counter, arrivals>>

down(t, s) ==
    /\ Body(t, "down", s)
    /\ pc[t] = "cli"
    /\ \/ /\ slots[s] > 0
          /\ slots' = [slots EXCEPT ![s] = @ - 1]
          /\ held' = [held EXCEPT ![s] = @ \cup {t}]
          /\ leave_critical(t, ring, wait)
       \/ /\ slots[s] <= 0
          /\ block(t, s, ring, wait)
          /\ UNCHANGED <<slots, held>>
    /\ UNCHANGED <<status, counter, arrivals>>

\* Mutants: the test after the decrement is off by one; the last
\* party does not count itself back; it wakes only the first waiter.
IsLast_early(b) == counter[b] - 1 <= 1
Reset_short(b) == counter[b] - 1 + Len(wait[b])
Freed_one(b) == IF wait[b] = <<>> THEN 0 ELSE 1

IsLast(b) == counter[b] - 1 <= 0
\* The counter after the decrement and one increment for each party.
Reset(b) == counter[b] - 1 + Len(wait[b]) + 1
\* The loop wakes the whole queue.
Freed(b) == Len(wait[b])

\* Barrier::wait up to its block(), or all of it for the last to arrive.
barrier_wait(t, b) ==
    /\ Body(t, "barrier_wait", b)
    /\ pc[t] = "cli"
    /\ arrivals' = [arrivals EXCEPT ![b][t] = @ + 1]
    /\ \/ /\ ~IsLast(b)
          /\ counter' = [counter EXCEPT ![b] = @ - 1]
          /\ block(t, b, ring, wait)
       \/ /\ IsLast(b)
          /\ counter' = [counter EXCEPT ![b] = Reset(b)]
          /\ leave_critical(t, WokenAll(ring, SubSeq(wait[b], 1, Freed(b))),
                            [wait EXCEPT ![b] = SubSeq(@, Freed(b) + 1, Len(@))])
    /\ UNCHANGED <<status, slots, held>>

\* Semaphore::down and Barrier::wait have nothing left to do but to leave.
return_from_block(t) ==
    /\ InBody(t)
    /\ pc[t] = "inside"
    /\ \/ \E s \in Semaphores : call[t] = <<"down", s>>
       \/ \E b \in Barriers : call[t] = <<"barrier_wait", b>>
    /\ leave_critical(t, ring, wait)
    /\ UNCHANGED <<objvars, call>>

\* The rest of the critical section of the call that t is in.
Section(t) ==
    \/ \E l \in Locks : acquire(t, l) \/ release(t, l)
    \/ \E c \in Conditions :
          wait_begin(t, c) \/ wait_resume(t, c) \/ signal(t, c) \/ broadcast(t, c)
    \/ \E s \in Semaphores : up(t, s) \/ down(t, s)
    \/ \E b \in Barriers : barrier_wait(t, b)
    \/ return_from_block(t)

Preempt(t) == timer_handler(t) /\ UNCHANGED <<objvars, call>>
Yield(t) == yield(t) /\ UNCHANGED <<objvars, call>>
EnterKernel(t) == syscall_enter(t) /\ UNCHANGED <<objvars, call>>
LeaveKernel(t) == syscall_return(t) /\ UNCHANGED <<objvars, call>>

Next ==
    \E t \in Threads :
        \/ \E c \in Calls : Call(t, c)
        \/ SaveFlags(t)
        \/ Section(t)
        \/ Preempt(t)
        \/ Yield(t)
        \/ EnterKernel(t)
        \/ LeaveKernel(t)

Spec == Init /\ [][Next]_vars

\* A thread that gets the CPU again and again makes progress: a time slice is
\* longer than the few instructions of a step.  A thread with interrupts on is
\* preempted in the end.
Work(t) == (\E c \in Calls : Call(t, c)) \/ SaveFlags(t) \/ Section(t)
Fairness == \A t \in Threads : SF_vars(Work(t)) /\ WF_vars(Preempt(t))

\* Threads that never yield, like those of kernel/test.cpp: what has nothing
\* left to call spins.
SpinningNext == \E t \in Threads : Work(t) \/ Preempt(t)
SpinningSpec == Init /\ [][SpinningNext]_vars /\ Fairness

\* Threads that call r0_yield when they have nothing left to call, and otherwise
\* whenever they like.  A user thread goes on with its system calls and returns
\* from them.
YieldWhenDone(t) == (\A c \in Calls : ~MayCall(t, c)) /\ Yield(t)
FairSpec ==
    /\ Spec /\ Fairness
    /\ \A t \in Threads : SF_vars(YieldWhenDone(t)) /\ WF_vars(LeaveKernel(t))
    /\ \A t \in UserThreads : SF_vars(EnterKernel(t))
-----------------------------------------------------------------------------
\* Every variable has its type.
TypeOK ==
    /\ CpuTypeOK
    /\ status \in [Locks -> {"UNLOCKED", "LOCKED"}]
    /\ slots \in [Semaphores -> Nat]
    /\ counter \in [Barriers -> Nat]
    /\ call \in [Threads -> Calls \cup {NoCall}]
    /\ held \in [Locks \cup Semaphores -> SUBSET Threads]
    /\ arrivals \in [Barriers -> [Threads -> Nat]]

\* Lock::acquire gives a lock to one thread at a time, and the status word says
\* whether somebody has it.
MutualExclusion ==
    \A l \in Locks :
        /\ \A t, u \in held[l] : t = u
        /\ status[l] = "LOCKED" <=> held[l] # {}

\* Thread t is in a call that needs lock l before it can return.
Wants(t, l) ==
    \/ call[t] = <<"acquire", l>>
    \/ \E c \in Conditions : LockOf[c] = l /\ call[t] = <<"wait", c>>

\* The threads that have been woken in order to take lock l.
Contenders(l) == {t \in Range(ring) : pc[t] = "inside" /\ Wants(t, l)}

\* No lost wakeup: a lock that is free while threads queue for it has been
\* offered to one of them, although release wakes only the first and another
\* thread may take the lock before the woken one runs.
NoLostWakeup ==
    \A l \in Locks :
        status[l] = "UNLOCKED" /\ wait[l] # <<>> => Contenders(l) # {}

\* Semaphore::up and down neither lose nor invent slots (a slot handed to a
\* waiter belongs to it from then on), and nobody queues while a slot is free.
SlotsAreConserved ==
    \A s \in Semaphores :
        /\ slots[s] + Cardinality(held[s]) = Slots[s]
        /\ slots[s] > 0 => wait[s] = <<>>

\* Barrier::wait resets the counter as it releases the parties, so that at all
\* times the counter and the waiting parties add up to the size of the barrier.
BarrierCountsWaiters ==
    \A b \in Barriers :
        /\ counter[b] > 0
        /\ counter[b] + Len(wait[b]) = Cardinality(Parties[b])

\* Nobody passes a barrier before everybody has arrived, also when a fast party
\* is back at the barrier before a slow one has left it: a thread that returned
\* from its n-th wait finds that every party has called wait n times.
BarrierLockstep ==
    \A b \in Barriers : \A t, u \in Parties[b] :
        ~(pc[t] = "inside" /\ call[t] = <<"barrier_wait", b>>)
            => arrivals[b][t] <= arrivals[b][u]

\* The kernel does not halt because everybody blocks: as long as the program
\* has no deadlock of its own, the last runnable thread is never one that has
\* to wait.
NeverHalts == ~halted

\* Whoever blocks in a critical section leaves it in the end: every down() gets
\* its slot and every party gets past the barrier.
EveryCallReturns ==
    \A t \in Threads : (pc[t] = "inside") ~> (pc[t] = "run")

\* Lock and Condition implement a monitor.
OwnerOf(l) == IF held[l] = {} THEN NoThread ELSE CHOOSE t \in Threads : t \in held[l]
Signalled(c) ==
    {t \in InSection : call[t] = <<"wait", c>> /\ t \notin Range(wait[c])}

M == INSTANCE Monitor WITH
       owner <- [l \in Locks |-> OwnerOf(l)],
       waiting <- [c \in Conditions |-> Range(wait[c])],
       signalled <- [c \in Conditions |-> Signalled(c)]

\* wait() gives up the lock and starts to wait in one step, so no signal falls
\* in between; a waiter returns only when signalled and with the lock held; and
\* a lock never passes to a second owner.
ImplementsMonitor == M!MonitorSpec
=============================================================================
