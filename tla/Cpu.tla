-------------------------------- MODULE Cpu --------------------------------
(***************************************************************************)
(* The single CPU: the interrupt flag, the switch between threads, and the *)
(* critical sections of kernel/entry.S.  The thread at the head of `ring'  *)
(* executes.  A timer interrupt can only come between two instructions     *)
(* that run with the interrupt flag set, so code that runs with it clear   *)
(* is one step of the model, up to the switch it may end in.               *)
(*                                                                         *)
(* enter_critical has two points before its cli where a timer interrupt    *)
(* changes what it does: after it has read EFLAGS and critical_depth, and  *)
(* after it has stored critical_saved_flags.  They are steps of their own. *)
(*                                                                         *)
(* The lists are sequences here; ThreadLists shows that the pointers of    *)
(* the code implement them.                                                *)
(***************************************************************************)
EXTENDS RingOps, Integers, FiniteSets, Functions

CONSTANTS
    Threads,
    UserThreads,    \* those that run in ring 3 and enter the kernel by int $0x80
    Queues          \* the objects a thread can block on

ASSUME UserThreadsAssumption == UserThreads \subseteq Threads
ASSUME ThreadsAssumption == IsFiniteSet(Threads) /\ Threads # {}

VARIABLES
    ring,                   \* the ready queue, current_running first
    wait,                   \* wait[q]: the threads blocked on q
    iflag,                  \* EFLAGS.IF
    critical_depth,         \* global, not per thread
    critical_saved_flags,   \* global: the IF bit of the saved EFLAGS
    eax, ecx,               \* registers of enter_critical, per thread
    resume_if,              \* the IF a thread continues with when switched to
    in_syscall,             \* the thread is inside syscall_entry
    pc,                     \* where a thread is, see PC
    halted                  \* inside halt(), interrupts off

cpuvars == <<ring, wait, iflag, critical_depth, critical_saved_flags, eax, ecx,
             resume_if, in_syscall, pc, halted>>

\* "run": outside a critical section; "read": enter_critical has read EFLAGS and
\* critical_depth; "cli": it is about to disable interrupts; "inside": blocked,
\* or switched back to, inside a critical section.
PC == {"run", "read", "cli", "inside"}

CpuTypeOK ==
    /\ ring \in Seq(Threads)
    /\ wait \in [Queues -> Seq(Threads)]
    /\ iflag \in BOOLEAN
    /\ critical_depth \in Nat
    /\ critical_saved_flags \in BOOLEAN
    /\ eax \in [Threads -> BOOLEAN]
    /\ ecx \in [Threads -> Nat]
    /\ resume_if \in [Threads -> BOOLEAN]
    /\ in_syscall \in [Threads -> BOOLEAN]
    /\ pc \in [Threads -> PC]
    /\ halted \in BOOLEAN

\* All threads are linked in, in some order; both trampolines start a thread
\* with interrupts enabled.
CpuInit ==
    /\ ring \in [1 .. Cardinality(Threads) -> Threads]
    /\ Range(ring) = Threads
    /\ wait = [q \in Queues |-> <<>>]
    /\ iflag = TRUE
    /\ critical_depth = 0
    /\ critical_saved_flags = FALSE
    /\ eax = [t \in Threads |-> FALSE]
    /\ ecx = [t \in Threads |-> 0]
    /\ resume_if = [t \in Threads |-> TRUE]
    /\ in_syscall = [t \in Threads |-> FALSE]
    /\ pc = [t \in Threads |-> "run"]
    /\ halted = FALSE

Running(t) == ~halted /\ t = Head(ring)

\* The running thread is switched out to the end of the ring and will continue
\* with the interrupt flag f; the next thread continues with its own.
SwitchTo(t, f) ==
    /\ ring' = Rotated(ring)
    /\ resume_if' = [resume_if EXCEPT ![t] = f]
    /\ iflag' = resume_if'[Head(ring')]

\* timer_handler: the interrupted thread returns by iret with interrupts on.
timer_handler(t) ==
    /\ Running(t)
    /\ iflag
    /\ SwitchTo(t, TRUE)
    /\ UNCHANGED <<wait, critical_depth, critical_saved_flags, eax, ecx,
                   in_syscall, pc, halted>>

\* r0_yield of a kernel thread (direct_scheduler_entry pushes its EFLAGS), and
\* SYS_YIELD of a user thread (back in ring 3 interrupts are on).
yield(t) ==
    /\ Running(t)
    /\ pc[t] = "run"
    /\ ~in_syscall[t]
    /\ SwitchTo(t, IF t \in UserThreads THEN TRUE ELSE iflag)
    /\ UNCHANGED <<wait, critical_depth, critical_saved_flags, eax, ecx,
                   in_syscall, pc, halted>>

\* int $0x80 goes through an interrupt gate: the kernel runs with IF clear.
syscall_enter(t) ==
    /\ Running(t)
    /\ t \in UserThreads
    /\ ~in_syscall[t]
    /\ in_syscall' = [in_syscall EXCEPT ![t] = TRUE]
    /\ iflag' = FALSE
    /\ UNCHANGED <<ring, wait, critical_depth, critical_saved_flags, eax, ecx,
                   resume_if, pc, halted>>

\* The iret at the end of syscall_entry brings the user's EFLAGS back.
syscall_return(t) ==
    /\ Running(t)
    /\ in_syscall[t]
    /\ pc[t] = "run"
    /\ in_syscall' = [in_syscall EXCEPT ![t] = FALSE]
    /\ iflag' = TRUE
    /\ UNCHANGED <<ring, wait, critical_depth, critical_saved_flags, eax, ecx,
                   resume_if, pc, halted>>

\* Only kernel code calls enter_critical.
InKernel(t) == t \in UserThreads => in_syscall[t]

\* enter_critical, up to the test of critical_depth.
enter_critical_read(t) ==
    /\ Running(t)
    /\ InKernel(t)
    /\ pc[t] = "run"
    /\ eax' = [eax EXCEPT ![t] = iflag]
    /\ ecx' = [ecx EXCEPT ![t] = critical_depth]
    /\ pc' = [pc EXCEPT ![t] = "read"]
    /\ UNCHANGED <<ring, wait, iflag, critical_depth, critical_saved_flags,
                   resume_if, in_syscall, halted>>

\* The store of the flags, which is skipped when the depth read was not 0.
enter_critical_save(t) ==
    /\ Running(t)
    /\ pc[t] = "read"
    /\ critical_saved_flags' = IF ecx[t] = 0 THEN eax[t] ELSE critical_saved_flags
    /\ pc' = [pc EXCEPT ![t] = "cli"]
    /\ UNCHANGED <<ring, wait, iflag, critical_depth, eax, ecx, resume_if,
                   in_syscall, halted>>

\* Mutant: only the first entry increments critical_depth.
BodyDepth_once(t) ==
    IF pc[t] = "cli" /\ critical_depth = 0 THEN 1 ELSE critical_depth

\* The depth inside the body: cli and incl come first, unless the thread has
\* just been switched back to inside the section.
BodyDepth(t) == IF pc[t] = "cli" THEN critical_depth + 1 ELSE critical_depth

InBody(t) == Running(t) /\ pc[t] \in {"cli", "inside"}

\* leave_critical at the end of a body that has left the lists as r and w.
leave_critical(t, r, w) ==
    /\ critical_depth' = BodyDepth(t) - 1
    /\ iflag' = IF critical_depth' = 0 THEN critical_saved_flags ELSE FALSE
    /\ pc' = [pc EXCEPT ![t] = "run"]
    /\ ring' = r
    /\ wait' = w
    /\ UNCHANGED <<critical_saved_flags, eax, ecx, resume_if, in_syscall, halted>>

\* Mutant: the thread continues with interrupts on, as after an iret.
IFAfterBlock_iret == TRUE

\* scheduler_entry returns by `ret', which leaves the flag as the critical
\* section that called block() has set it.
IFAfterBlock == FALSE

\* block(&q) in a body that has left the lists as r and w: the switch happens
\* inside the critical section.  A thread that is alone halts the machine.
block(t, q, r, w) ==
    /\ critical_depth' = BodyDepth(t)
    /\ pc' = [pc EXCEPT ![t] = "inside"]
    /\ resume_if' = [resume_if EXCEPT ![t] = IFAfterBlock]
    /\ wait' = [w EXCEPT ![q] = Joined(@, t)]
    /\ IF Len(r) = 1
         THEN halted' = TRUE /\ ring' = r /\ iflag' = FALSE
         ELSE /\ ring' = Popped(r)
              /\ iflag' = resume_if'[Head(ring')]
              /\ UNCHANGED halted
    /\ UNCHANGED <<critical_saved_flags, eax, ecx, in_syscall>>
-----------------------------------------------------------------------------
InSection == {t \in Threads : pc[t] = "inside"}

\* critical_depth is global, and threads switch away and are preempted in the
\* middle of critical sections; still it always is the number of sections that
\* are open, whatever the order in which threads enter, block and leave.
DepthCountsSections == critical_depth = Cardinality(InSection)

\* A thread that is switched back to inside its critical section has interrupts
\* disabled, whichever path switched to it (the timer, another block, a yield):
\* nothing preempts a critical section.
SectionsAreAtomic == ~halted /\ pc[Head(ring)] = "inside" => ~iflag

\* The ring r and the wait queues w hold every thread in one place, once.
OneList(r, w) ==
    /\ IsInjective(r)
    /\ \A q \in Queues : IsInjective(w[q]) /\ Range(r) \cap Range(w[q]) = {}
    /\ \A p, q \in Queues : p # q => Range(w[p]) \cap Range(w[q]) = {}
    /\ \A t \in Threads : t \in Range(r) \/ \E q \in Queues : t \in Range(w[q])

\* No interleaving of block() and unblock() loses a thread or links one into two
\* lists: every thread is in the ready ring or in the queue of the object that
\* it waits for (a thread that halts the machine is in both).
OneListPerThread == ~halted => OneList(ring, wait)
=============================================================================
