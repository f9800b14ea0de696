------------------------------ MODULE RingOps ------------------------------
(***************************************************************************)
(* What the list operations of kernel/scheduler.cpp and kernel.cpp do, on  *)
(* sequences.  A ready queue (the circular list that current_running       *)
(* points into) is the sequence of its threads in `next' order, starting   *)
(* with current_running.  A wait queue (the null-terminated list that a    *)
(* Lock, Condition, Semaphore or Barrier points to) is the sequence of its *)
(* threads, starting with the one the queue pointer refers to.             *)
(***************************************************************************)
EXTENDS Naturals, Sequences

\* case READY of scheduler(): current_running = current_running->next.
Rotated(r) == Append(Tail(r), Head(r))

\* pop_ready_queue(): the running thread leaves the ring, its successor runs.
Popped(r) == Tail(r)

\* unblock(): the woken thread goes right behind current_running.
Woken(r, t) == <<Head(r), t>> \o Tail(r)

\* A loop of unblock() until the wait queue is empty: each woken thread is put
\* in front of the ones woken before it.
WokenAll(r, q) ==
    <<Head(r)>> \o [i \in 1 .. Len(q) |-> q[Len(q) + 1 - i]] \o Tail(r)

\* thread_create(): a new thread is spliced in front of current_running, so it
\* is the last of the ring to run.
Spliced(r, t) == Append(r, t)

\* block(): the thread is linked behind the last one of the wait queue.
Joined(q, t) == Append(q, t)
=============================================================================
