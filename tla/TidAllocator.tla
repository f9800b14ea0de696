---------------------------- MODULE TidAllocator ----------------------------
(***************************************************************************)
(* tid_allocator, the IDAllocator of kernel/id.cpp on the Pool of          *)
(* kernel/structs/pool.hpp, as kernel threads use it: kernel_main creates  *)
(* them after its sti, and thread_create calls kmalloc and next(); a       *)
(* kernel thread that returns calls r0_exit and so close(), whose          *)
(* reaping_func marks it as EXITED; the switch after the one that takes it *)
(* out of the ring gives its memory back.  These creations are tests that  *)
(* are commented out (kernel.cpp:231-264); in the build as it stands       *)
(* threads are created with interrupts off, which is one of the            *)
(* interleavings below.                                                    *)
(*                                                                         *)
(* All this runs with interrupts enabled, so the timer switches threads    *)
(* between any two steps.  The calls of a Lock are critical sections and   *)
(* are one step each.  The splice at the end of thread_create has no       *)
(* critical section, but is one step here as well: what a switch in the    *)
(* middle of its four assignments does is a matter of ThreadLists.         *)
(*                                                                         *)
(* A thread_create that succeeds takes a page directory that is never      *)
(* given back, so that at most THREAD_LIMIT of them do.  The others fail,  *)
(* as do those for which there is no memory or no tid; they are not here   *)
(* but in UserThreads, with what they leave behind.                        *)
(***************************************************************************)
EXTENDS RingOps, Integers

CONSTANTS
    Threads, Boot,      \* the heap-allocated threads, and the one of kernel_main
    TidLimit,           \* max_entries of the pool (128)
    ByteBits,           \* the bits in an element of the bitmap (8)
    THREAD_LIMIT,       \* the number of page directories (12)
    NoThread            \* the null pointer

ASSUME LimitsAssumption ==
    /\ TidLimit \in Nat /\ ByteBits \in Nat \ {0} /\ THREAD_LIMIT \in 1 .. TidLimit
    /\ Boot \notin Threads /\ NoThread \notin Threads \cup {Boot}

Tids == 0 .. TidLimit - 1
NoTid == -1

\* The locks: the one in each ID, bitmap_lock of the pool, and the one of the heap.
Pool == TidLimit
Heap == TidLimit + 1
Locks == Tids \cup {Pool, Heap}

VARIABLES
    ring,           \* the ready queue, current_running first
    zombie,         \* the static variable of scheduler()
    state,          \* the TaskState of a thread; "FREE" if it does not exist
    pc,             \* where a thread is in thread_create() or r0_exit()
    tid,            \* Thread::tid
    new,            \* the tid that a thread has been given in next()
    bitmap,         \* the tids that are marked in the pool
    reg,            \* the byte of the bitmap that a thread has read
    count,          \* ID::count
    status, queue,  \* the fields of the locks
    created,        \* the number of page directories in use
    halted          \* in halt(), or in a loop with interrupts off

vars == <<ring, zombie, state, pc, tid, new, bitmap, reg, count, status, queue, created, halted>>

All == Threads \cup {Boot}

\* Where a thread can be in thread_create and in r0_exit.
Creating ==
    {"kmalloc", "kmalloc_unlock", "allocate_lock", "allocate", "mark_load", "mark_store",
     "allocated", "next", "allocate_kstack", "kstack_unlock", "create"}
Exiting ==
    {"close_lock", "close", "reap", "free_lock", "free_load", "free_store", "free_unlock",
     "close_unlock", "exit"}
PCs == {"run"} \cup Creating \cup Exiting
States == {"FREE", "READY", "BLOCKED", "EXITED", "EXITED_NO_ZOMBIE"}
self == Head(ring)

Init ==
    /\ ring = <<Boot>> /\ zombie = NoThread
    /\ state = [t \in All |-> IF t = Boot THEN "READY" ELSE "FREE"]
    /\ pc = [t \in All |-> "run"]
    /\ tid = [t \in All |-> NoTid]
    /\ new = [t \in All |-> NoTid]
    /\ bitmap = {} /\ reg = [t \in All |-> {}]
    /\ count = [i \in Tids |-> 0]
    /\ status = [l \in Locks |-> "UNLOCKED"]
    /\ queue = [l \in Locks |-> <<>>]
    /\ created = 0
    /\ halted = FALSE

Goto(l) == pc' = [pc EXCEPT ![self] = l]

Alone == Len(ring) = 1

\* pop_ready_queue: a thread that is alone in the ready queue halts the machine.
pop_ready_queue ==
    IF Alone THEN halted' = TRUE /\ UNCHANGED ring
             ELSE ring' = Popped(ring) /\ UNCHANGED halted

\* thread_reap in scheduler(): kfree takes the lock of the heap.  If a preempted
\* thread has it, the thread that enters the scheduler blocks, enters the scheduler
\* again with the same zombie, and blocks again; it is the end of the wait queue by
\* now, and the loop in block() that looks for the end goes round the ready queue.
ReapHangs == zombie # NoThread /\ status[Heap] = "LOCKED"
Reaped(st) == [t \in All |-> IF t = zombie THEN "FREE" ELSE st[t]]

\* scheduler(), entered with the states st: a thread that is not READY is taken out of
\* the ring, wherever it is.
scheduler(st) ==
    \/ /\ ReapHangs
       /\ halted' = TRUE
       /\ state' = st
       /\ UNCHANGED <<ring, zombie>>
    \/ /\ ~ReapHangs
       /\ IF st[self] = "READY" THEN ring' = Rotated(ring) /\ UNCHANGED halted
                                ELSE pop_ready_queue
       /\ zombie' = IF st[self] = "EXITED" /\ ~Alone THEN self ELSE NoThread
       /\ state' = Reaped(st)

\* The timer, and direct_scheduler_entry at the end of r0_exit.
switch ==
    /\ scheduler(state)
    /\ UNCHANGED <<pc, tid, new, bitmap, reg, count, status, queue, created>>
-----------------------------------------------------------------------------
\* Lock::acquire by the running thread at `from', which goes on at `to'.  block()
\* writes BLOCKED over whatever state the thread has.
acquire(l, from, to) ==
    /\ pc[self] = from
    /\ \/ /\ status[l] = "UNLOCKED"
          /\ status' = [status EXCEPT ![l] = "LOCKED"]
          /\ Goto(to)
          /\ UNCHANGED <<ring, zombie, state, queue, halted>>
       \/ /\ status[l] = "LOCKED"
          /\ queue' = [queue EXCEPT ![l] = Joined(@, self)]
          /\ scheduler([state EXCEPT ![self] = "BLOCKED"])
          /\ UNCHANGED <<status, pc>>
    /\ UNCHANGED <<tid, new, bitmap, reg, count, created>>

\* Lock::release; the first waiter, if any, is unblocked.
release(l, from, to) ==
    /\ pc[self] = from
    /\ Goto(to)
    /\ status' = [status EXCEPT ![l] = "UNLOCKED"]
    /\ IF queue[l] = <<>> THEN UNCHANGED <<ring, state, queue>>
       ELSE /\ ring' = Woken(ring, Head(queue[l]))
            /\ state' = [state EXCEPT ![Head(queue[l])] = "READY"]
            /\ queue' = [queue EXCEPT ![l] = Tail(@)]
    /\ UNCHANGED <<zombie, tid, new, bitmap, reg, count, created, halted>>

\* bitmap_mark and bitmap_unmark read a byte, change a bit of it and write it.
\* Mutant: the other bits are cleared.
Marked_only(byte, i) == {i}
Marked(byte, i) == byte \cup {i}
Byte(i) == {j \in Tids : j \div ByteBits = i \div ByteBits}
Load(i) == reg' = [reg EXCEPT ![self] = bitmap \cap Byte(i)] /\ UNCHANGED bitmap
Store(i, byte) == bitmap' = (bitmap \ Byte(i)) \cup byte /\ UNCHANGED reg

\* Pool::allocate, between its lock and its unlock: the search and the mark.
allocate ==
    /\ pc[self] = "allocate"
    /\ \E i \in Tids \ bitmap :
         /\ \A j \in Tids \ bitmap : i <= j
         /\ new' = [new EXCEPT ![self] = i]
    /\ Goto("mark_load")
    /\ UNCHANGED <<ring, zombie, state, tid, bitmap, reg, count, status, queue, created, halted>>

mark ==
    /\ \/ pc[self] = "mark_load" /\ Load(new[self]) /\ Goto("mark_store")
       \/ /\ pc[self] = "mark_store"
          /\ Store(new[self], Marked(reg[self], new[self]))
          /\ Goto("allocated")
    /\ UNCHANGED <<ring, zombie, state, tid, new, count, status, queue, created, halted>>

\* The rest of IDAllocator::next, *id_mem = { ptr, 1 }, which also makes the lock of
\* the ID a new one.
next ==
    /\ pc[self] = "next"
    /\ count' = [count EXCEPT ![new[self]] = 1]
    /\ status' = [status EXCEPT ![new[self]] = "UNLOCKED"]
    /\ queue' = [queue EXCEPT ![new[self]] = <<>>]
    /\ Goto("allocate_kstack")
    /\ UNCHANGED <<ring, zombie, state, tid, new, bitmap, reg, created, halted>>

\* The end of thread_create: the new thread is in the ready queue.
thread_create(t) ==
    /\ pc[self] = "create"
    /\ state[t] = "FREE"
    /\ state' = [state EXCEPT ![t] = "READY"]
    /\ tid' = [tid EXCEPT ![t] = new[self]]
    /\ new' = [new EXCEPT ![self] = NoTid]
    /\ ring' = Spliced(ring, t)
    /\ pc' = [pc EXCEPT ![self] = "run", ![t] = "run"]
    /\ UNCHANGED <<zombie, bitmap, reg, count, status, queue, created, halted>>
-----------------------------------------------------------------------------
\* IDAllocator::close between lock and unlock.  A count of zero returns at once, with
\* the lock.
close ==
    /\ pc[self] = "close"
    /\ LET i == tid[self] IN
       IF count[i] = 0 THEN Goto("exit") /\ UNCHANGED count
       ELSE /\ count' = [count EXCEPT ![i] = @ - 1]
            /\ Goto(IF count[i] = 1 THEN "reap" ELSE "close_unlock")
    /\ UNCHANGED <<ring, zombie, state, tid, new, bitmap, reg, status, queue, created, halted>>

\* reaping_func, thread_reap_delayed.
thread_reap_delayed ==
    /\ pc[self] = "reap"
    /\ state' = [state EXCEPT ![self] = "EXITED"]
    /\ Goto("free_lock")
    /\ UNCHANGED <<ring, zombie, tid, new, bitmap, reg, count, status, queue, created, halted>>

\* Pool::free, between its lock and its unlock.
free ==
    /\ \/ pc[self] = "free_load" /\ Load(tid[self]) /\ Goto("free_store")
       \/ /\ pc[self] = "free_store"
          /\ Store(tid[self], reg[self] \ {tid[self]})
          /\ Goto("free_unlock")
    /\ UNCHANGED <<ring, zombie, state, tid, new, count, status, queue, created, halted>>

\* kernel_main calls thread_create, and leaves with r0_exit_no_zombie; the other
\* threads leave with r0_exit.
CallCreate ==
    /\ pc[self] = "run" /\ self = Boot /\ created < THREAD_LIMIT
    /\ created' = created + 1
    /\ Goto("kmalloc")
    /\ UNCHANGED <<ring, zombie, state, tid, new, bitmap, reg, count, status, queue, halted>>

r0_exit ==
    /\ pc[self] = "run" /\ self # Boot
    /\ Goto("close_lock")
    /\ UNCHANGED <<ring, zombie, state, tid, new, bitmap, reg, count, status, queue, created,
                   halted>>

r0_exit_no_zombie ==
    /\ pc[self] = "run" /\ self = Boot
    /\ scheduler([state EXCEPT ![Boot] = "EXITED_NO_ZOMBIE"])
    /\ UNCHANGED <<pc, tid, new, bitmap, reg, count, status, queue, created>>

Step ==
    \/ CallCreate
    \/ acquire(Heap, "kmalloc", "kmalloc_unlock")
    \/ release(Heap, "kmalloc_unlock", "allocate_lock")
    \/ acquire(Pool, "allocate_lock", "allocate") \/ allocate \/ mark
    \/ release(Pool, "allocated", "next") \/ next
    \/ acquire(Heap, "allocate_kstack", "kstack_unlock")
    \/ release(Heap, "kstack_unlock", "create")
    \/ \E t \in Threads : thread_create(t)
    \/ r0_exit \/ r0_exit_no_zombie
    \/ \E i \in Tids : i = tid[self] /\ acquire(i, "close_lock", "close")
    \/ close \/ thread_reap_delayed
    \/ acquire(Pool, "free_lock", "free_load") \/ free
    \/ release(Pool, "free_unlock", "close_unlock")
    \/ \E i \in Tids : i = tid[self] /\ release(i, "close_unlock", "exit")

Next == ~halted /\ (Step \/ switch)

Spec == Init /\ [][Next]_vars

\* A thread makes some progress in its time slices, and a time slice ends.  Nobody
\* has to call anything.
Progress(t) == self = t /\ pc[t] # "run" /\ ~halted /\ Step

Fairness == WF_vars(~halted /\ switch) /\ \A t \in All : SF_vars(Progress(t))

FairSpec == Spec /\ Fairness
-----------------------------------------------------------------------------
\* Every variable has its type, and some thread is running.
TypeOK ==
    /\ ring \in Seq(All) /\ ring # <<>>
    /\ zombie \in All \cup {NoThread}
    /\ state \in [All -> States] /\ pc \in [All -> PCs]
    /\ tid \in [All -> Tids \cup {NoTid}] /\ new \in [All -> Tids \cup {NoTid}]
    /\ bitmap \subseteq Tids /\ reg \in [All -> SUBSET Tids] /\ count \in [Tids -> {0, 1}]
    /\ status \in [Locks -> {"LOCKED", "UNLOCKED"}] /\ queue \in [Locks -> Seq(All)]
    /\ created \in 0 .. THREAD_LIMIT /\ halted \in BOOLEAN

\* The tids that thread t has: its own, until it has cleared it, and the one it is
\* about to give to a new thread.
Cleared == {"free_unlock", "close_unlock", "exit"}
Has(t) == {new[t]} \cup (IF pc[t] \in Cleared THEN {} ELSE {tid[t]})

\* "The system needs unique [...] IDs": no two threads have the same tid, wherever
\* next() and close() are interrupted; and every variable has its type.
TidsAreUnique ==
    /\ TypeOK
    /\ \A s, t \in All : s # t => Has(s) \cap Has(t) \subseteq {NoTid}

\* "a thread should be able to exit [...] at arbitrary times": a thread that calls
\* r0_exit leaves the ready queue as a zombie, or halts the machine as the last one.
EveryExitCompletes ==
    \A t \in Threads :
      pc[t] = "close_lock" ~> zombie = t \/ (halted /\ ring = <<t>> /\ state[t] = "EXITED")
=============================================================================
