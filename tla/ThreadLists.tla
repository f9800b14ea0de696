---------------------------- MODULE ThreadLists ----------------------------
(***************************************************************************)
(* The thread lists of the kernel at the level of the pointers: the `next' *)
(* and `prev' fields of the thread control blocks, current_running, the    *)
(* queue pointers of the synchronisation objects and the zombie of         *)
(* scheduler().  Sources: kernel/scheduler.cpp and the splice at the end   *)
(* of thread_create in kernel/kernel.cpp.                                  *)
(*                                                                         *)
(* Every action is one call, up to and including the switch it ends in.    *)
(* The calls run with interrupts disabled (inside a critical section, a    *)
(* system call or an interrupt handler), so they do not interleave.  The   *)
(* splice has no critical section of its own: it is four steps, and only   *)
(* its callers' interrupt flag keeps the others out (load_program is       *)
(* called before the sti of kernel_main and by a system call).             *)
(***************************************************************************)
EXTENDS Naturals, FiniteSets, Functions

CONSTANTS Threads, Boot, Queues, Null

Tcb == Threads \cup {Boot}

States == {"READY", "BLOCKED", "EXITED", "EXITED_NO_ZOMBIE"}

VARIABLES
    next, prev,         \* the link fields of the control blocks
    state,              \* their TaskState
    current_running,
    queue,              \* queue[q]: the head pointer of a wait queue
    zombie,             \* the static variable of scheduler()
    allocated,          \* the control blocks that are not free memory
    new, links,         \* the block in thread_create's splice, and the links it has set
    halted              \* inside halt()

vars == <<next, prev, state, current_running, queue, zombie, allocated, new, links, halted>>

\* kernel_main: boot_thread is linked to itself and runs.
Init ==
    /\ next = [t \in Tcb |-> IF t = Boot THEN Boot ELSE Null]
    /\ prev = [t \in Tcb |-> IF t = Boot THEN Boot ELSE Null]
    /\ state = [t \in Tcb |-> "READY"]
    /\ current_running = Boot
    /\ queue = [q \in Queues |-> Null]
    /\ zombie = Null
    /\ allocated = {Boot} /\ new = Null /\ links = 0
    /\ halted = FALSE

\* The calls that an interrupt could let in while a thread is spliced in.
\* Mutant: a thread is created with interrupts enabled.
Undisturbed_no == ~halted
Undisturbed == ~halted /\ new = Null

\* Mutant: the predecessor keeps its link to the removed thread.
next_without_keeps(nx, c) == [nx EXCEPT ![c] = Null]

\* The links once c has been taken out of the ring that nx links.
next_without(nx, c) == [nx EXCEPT ![prev[c]] = nx[c], ![c] = Null]
prev_without(nx, c) == [prev EXCEPT ![nx[c]] = prev[c], ![c] = Null]

\* pop_ready_queue(), from the links nx: the running thread is unlinked and its
\* successor becomes current_running.
pop_ready_queue(nx) ==
    LET c == current_running IN
    /\ nx[c] # c
    /\ current_running' = nx[c]
    /\ next' = next_without(nx, c)
    /\ prev' = prev_without(nx, c)

\* Mutants: a switch frees nothing; it frees the thread that enters it; it keeps
\* a ready thread running; it leaves a blocked thread in the ring.
Reaped_none == {}
Reaped_current == IF zombie = Null THEN {} ELSE {current_running}
Successor_self(nx) == current_running
LeavesRing_exited == {"EXITED", "EXITED_NO_ZOMBIE"}

\* The pieces of scheduler(): what it frees, whom it picks when the thread stays
\* ready, and the states that make pop_ready_queue() remove the thread.
Reaped == {zombie}
Successor(nx) == nx[current_running]
LeavesRing == {"BLOCKED", "EXITED", "EXITED_NO_ZOMBIE"}

\* scheduler(), entered with the links nx and the states st.
scheduler(nx, st) ==
    LET c == current_running IN
    /\ allocated' = allocated \ Reaped
    /\ \/ /\ st[c] \notin LeavesRing
          /\ current_running' = Successor(nx)
          /\ next' = nx
          /\ zombie' = Null
          /\ state' = [st EXCEPT ![Successor(nx)] = "READY"]
          /\ UNCHANGED <<prev, halted>>
       \/ /\ st[c] \in LeavesRing
          /\ pop_ready_queue(nx)
          /\ zombie' = IF st[c] = "EXITED" THEN c ELSE Null
          /\ state' = [st EXCEPT ![nx[c]] = "READY"]
          /\ UNCHANGED halted
       \/ /\ st[c] \in LeavesRing
          /\ nx[c] = c                  \* nobody else to run: halt()
          /\ halted' = TRUE
          /\ next' = nx
          /\ state' = st
          /\ zombie' = Null
          /\ UNCHANGED <<prev, current_running>>

\* r0_yield, the SYS_YIELD system call, and timer_handler, which runs the
\* scheduler on behalf of the thread it interrupts.
yield ==
    /\ Undisturbed
    /\ scheduler(next, state)
    /\ UNCHANGED <<queue, new, links>>

\* r3_exit (SYS_EXIT, a page fault of a user thread), and r0_exit once
\* thread_reap_delayed has marked the thread.
exit ==
    /\ Undisturbed
    /\ current_running # Boot
    /\ scheduler(next, [state EXCEPT ![current_running] = "EXITED"])
    /\ UNCHANGED <<queue, new, links>>

\* r0_exit_no_zombie: how kernel_main leaves its static control block behind.
exit_no_zombie ==
    /\ Undisturbed
    /\ current_running = Boot
    /\ scheduler(next, [state EXCEPT ![Boot] = "EXITED_NO_ZOMBIE"])
    /\ UNCHANGED <<queue, new, links>>

\* Mutant: the list is not followed to its end.
LastOf_first(t) == t

\* The thread at the end of the list that starts at t: the loop of block().
LastOf(t) ==
    LET at[i \in 0 .. Cardinality(Tcb)] ==
          IF i = 0 THEN t
          ELSE IF next[at[i - 1]] = Null THEN at[i - 1] ELSE next[at[i - 1]]
    IN  at[Cardinality(Tcb)]

block(q) ==
    /\ Undisturbed
    /\ LET c == current_running
           st == [state EXCEPT ![c] = "BLOCKED"]
       IN  IF queue[q] = Null
             THEN queue' = [queue EXCEPT ![q] = c] /\ scheduler(next, st)
             ELSE /\ UNCHANGED queue
                  /\ scheduler([next EXCEPT ![LastOf(queue[q])] = c], st)
    /\ UNCHANGED <<new, links>>

\* Every caller of unblock() has checked that the queue is not empty.
unblock(q) ==
    LET c == current_running
        t == queue[q]
    IN
    /\ Undisturbed
    /\ t # Null
    /\ queue' = [queue EXCEPT ![q] = next[t]]
    /\ state' = [state EXCEPT ![t] = "READY"]
    /\ next' = [next EXCEPT ![t] = next[c], ![c] = t]
    /\ prev' = [prev EXCEPT ![t] = c, ![next[c]] = t]
    /\ UNCHANGED <<current_running, zombie, allocated, new, links, halted>>

\* thread_create: kmalloc hands out a control block that is not in use, and it
\* is linked in before the running thread.
thread_create(t) ==
    /\ ~halted /\ new = Null
    /\ t \notin allocated
    /\ allocated' = allocated \cup {t}
    /\ state' = [state EXCEPT ![t] = "READY"]
    /\ next' = [next EXCEPT ![t] = current_running]
    /\ new' = t /\ links' = 1
    /\ UNCHANGED <<prev, current_running, queue, zombie, halted>>

\* The other three links: t->prev, current_running->prev->next, current_running->prev.
splice ==
    LET c == current_running IN
    /\ ~halted /\ new # Null /\ next[new] = c
    /\ \/ links = 1 /\ prev' = [prev EXCEPT ![new] = prev[c]] /\ UNCHANGED next
       \/ links = 2 /\ next' = [next EXCEPT ![prev[c]] = new] /\ UNCHANGED prev
       \/ links = 3 /\ prev' = [prev EXCEPT ![c] = new] /\ UNCHANGED next
    /\ links' = (links + 1) % 4
    /\ new' = IF links = 3 THEN Null ELSE new
    /\ UNCHANGED <<state, current_running, queue, zombie, allocated, halted>>

Next ==
    \/ yield
    \/ exit
    \/ exit_no_zombie
    \/ \E q \in Queues : block(q) \/ unblock(q)
    \/ \E t \in Threads : thread_create(t)
    \/ splice

Spec == Init /\ [][Next]_vars

\* The timer keeps interrupting a thread that runs with interrupts enabled, as
\* every user thread does.
FairSpec == Spec /\ WF_vars(yield) /\ WF_vars(splice)
-----------------------------------------------------------------------------
\* The lists as sequences.

\* The threads met by following `next' from t, cut off after Cardinality(Tcb).
Walk(t) ==
    LET at[i \in 1 .. Cardinality(Tcb)] ==
          IF i = 1 THEN t
          ELSE IF at[i - 1] = Null THEN Null ELSE next[at[i - 1]]
    IN  at

\* The prefix of a walk up to the first element that satisfies End.
UpTo(walk, End(_)) ==
    LET ends == {i \in DOMAIN walk : End(walk[i])}
        len  == IF ends = {} THEN Cardinality(Tcb)
                ELSE CHOOSE i \in ends : \A j \in ends : i <= j
    IN  [i \in 1 .. len |-> walk[i]]

RingSeq ==
    UpTo(Walk(current_running), LAMBDA t : t = Null \/ next[t] = current_running)

\* (a thread that halts the machine by blocking is still linked to itself)
QueueSeq(q) ==
    IF queue[q] = Null THEN <<>>
    ELSE UpTo(Walk(queue[q]), LAMBDA t : t = Null \/ next[t] \in {Null, t})

\* A new thread exists for the others once it can be reached from current_running.
RQ == INSTANCE RunQueue WITH
        ring <- RingSeq, wait <- [q \in Queues |-> QueueSeq(q)], NoThread <- Null,
        allocated <- IF links \in {1, 2} THEN allocated \ {new} ELSE allocated

InRing == Range(RingSeq)
InQueue(q) == Range(QueueSeq(q))
-----------------------------------------------------------------------------
\* Every variable has its type.
TypeOK ==
    /\ next \in [Tcb -> Tcb \cup {Null}]
    /\ prev \in [Tcb -> Tcb \cup {Null}]
    /\ state \in [Tcb -> States]
    /\ current_running \in Tcb
    /\ queue \in [Queues -> Tcb \cup {Null}]
    /\ zombie \in Threads \cup {Null}
    /\ allocated \in SUBSET Tcb /\ new \in Threads \cup {Null} /\ links \in 0 .. 3
    /\ halted \in BOOLEAN

\* The ready queue stays a doubly linked ring through every order of block,
\* unblock, exit and thread_create: `prev' undoes `next' on the threads that can
\* be reached from current_running, and only they have a `prev' (wait queues are
\* singly linked, and pop_ready_queue clears both links), but while a thread is
\* spliced in.  Every variable has its type.
RingIsDoublyLinked ==
    /\ TypeOK
    /\ new = Null => \A t \in Tcb :
        /\ t \in InRing => next[t] \in InRing /\ prev[next[t]] = t
        /\ prev[t] # Null <=> t \in InRing

\* No control block is in two lists or twice in one: the single `next' field is
\* shared by the ready queue and the wait queues, so a thread linked into a
\* second list would splice the two lists together.  While the machine runs,
\* every allocated block but an exited boot_thread is in exactly one place.
OneListPerThread ==
    Undisturbed =>
      \A t \in allocated :
        LET places == (IF t \in InRing THEN {"ring"} ELSE {})
                      \cup (IF t = zombie THEN {"zombie"} ELSE {})
                      \cup {q \in Queues : t \in InQueue(q)}
        IN  IF t = Boot /\ state[Boot] = "EXITED_NO_ZOMBIE"
              THEN places = {}
              ELSE Cardinality(places) = 1

\* Memory handed back by thread_reap is not reachable: nothing that is in use
\* points to a freed control block, and the zombie, whose stack is the next to
\* be freed, is in no list, so no switch can resume on that stack.
NoDanglingThread ==
    LET pointed == {current_running} \cup {next[t] : t \in allocated}
                   \cup {prev[t] : t \in allocated} \cup {queue[q] : q \in Queues}
    IN  /\ pointed \subseteq allocated \cup {Null}
        /\ zombie # Null => zombie \in allocated /\ zombie \notin pointed

\* The scheduler never frees the stack it runs on: the block a step frees is
\* neither the thread that enters the scheduler nor the one that leaves it.
ReapsOtherThread ==
    [][\A t \in allocated \ allocated' : t # current_running /\ t # current_running']_vars

\* The pointer code implements the abstract run queue: round-robin order, FIFO
\* wait queues, woken threads run next, new threads run last.
ImplementsRunQueue == RQ!Spec

\* Round robin: a runnable thread eventually runs (or the machine has halted),
\* however other threads block, wake each other, exit and create threads, as
\* long as the timer keeps firing.
EveryReadyThreadRuns ==
    \A t \in Threads : (t \in InRing) ~> (current_running = t \/ halted)

\* An exited thread is freed by a later switch: scheduler() never overwrites a
\* zombie it has not reaped.
EveryZombieIsReaped ==
    \A t \in Threads : (zombie = t) ~> (t \notin allocated \/ halted)
=============================================================================
