------------------------------ MODULE RunQueue ------------------------------
(***************************************************************************)
(* What the scheduler promises: a round-robin ring of runnable threads,    *)
(* FIFO wait queues, and deferred freeing of a thread that has exited.     *)
(* ThreadLists shows that the pointer manipulation of the code implements  *)
(* this.                                                                   *)
(***************************************************************************)
EXTENDS RingOps, FiniteSets

CONSTANTS
    Threads,    \* heap-allocated thread control blocks (kmalloc(sizeof(Thread)))
    Boot,       \* the static boot_thread of kernel_main
    Queues,     \* the wait queues
    NoThread    \* the null pointer

VARIABLES
    ring,       \* the ready queue, current_running first
    wait,       \* wait[q]: the threads blocked on q, oldest first
    zombie,     \* the exited thread that the next switch frees, or NoThread
    allocated,  \* the control blocks in use
    halted      \* the machine executes hlt with interrupts off

vars == <<ring, wait, zombie, allocated, halted>>

Init ==
    /\ ring = <<Boot>>
    /\ wait = [q \in Queues |-> <<>>]
    /\ zombie = NoThread
    /\ allocated = {Boot}
    /\ halted = FALSE

\* Every switch first frees the thread that exited at the switch before.
Reap == allocated' = allocated \ {zombie}

\* The running thread stays runnable and goes to the end of the ring.
Yield ==
    /\ ~halted
    /\ Reap
    /\ ring' = Rotated(ring)
    /\ zombie' = NoThread
    /\ UNCHANGED <<wait, halted>>

\* The running thread leaves the ring; z is the zombie it leaves behind.  When
\* nobody else is runnable the machine halts for good.
Leave(z) ==
    /\ Reap
    /\ IF Len(ring) = 1
         THEN halted' = TRUE /\ zombie' = NoThread /\ UNCHANGED ring
         ELSE ring' = Popped(ring) /\ zombie' = z /\ UNCHANGED halted

Block(q) ==
    /\ ~halted
    /\ wait' = [wait EXCEPT ![q] = Joined(@, Head(ring))]
    /\ Leave(NoThread)

Exit ==
    /\ ~halted
    /\ Leave(Head(ring))
    /\ UNCHANGED wait

ExitNoZombie ==
    /\ ~halted
    /\ Leave(NoThread)
    /\ UNCHANGED wait

Unblock(q) ==
    /\ ~halted
    /\ wait[q] # <<>>
    /\ ring' = Woken(ring, Head(wait[q]))
    /\ wait' = [wait EXCEPT ![q] = Tail(@)]
    /\ UNCHANGED <<zombie, allocated, halted>>

Create(t) ==
    /\ ~halted
    /\ t \notin allocated
    /\ ring' = Spliced(ring, t)
    /\ allocated' = allocated \cup {t}
    /\ UNCHANGED <<wait, zombie, halted>>

Next ==
    \/ Yield
    \/ Exit
    \/ ExitNoZombie
    \/ \E q \in Queues : Block(q) \/ Unblock(q)
    \/ \E t \in Threads : Create(t)

Spec == Init /\ [][Next]_vars
=============================================================================
