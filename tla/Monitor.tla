------------------------------ MODULE Monitor ------------------------------
(***************************************************************************)
(* What Lock and Condition promise to the code that uses them: a monitor   *)
(* with signal-and-continue conditions.  A lock has at most one owner;     *)
(* wait gives the lock up and starts to wait in one step; a waiter returns *)
(* only after a signal or broadcast picked it, and only as the owner.      *)
(* Nothing is promised about who gets a lock next.                         *)
(***************************************************************************)
EXTENDS FiniteSets

CONSTANTS Threads, Locks, Conditions, LockOf, NoThread

VARIABLES
    owner,      \* owner[l]: the thread that holds l, or NoThread
    waiting,    \* waiting[c]: the threads that wait for a signal
    signalled   \* signalled[c]: those that have been picked and need the lock

mvars == <<owner, waiting, signalled>>

MonitorInit ==
    /\ owner = [l \in Locks |-> NoThread]
    /\ waiting = [c \in Conditions |-> {}]
    /\ signalled = [c \in Conditions |-> {}]

\* A thread that is in wait() cannot call anything else.
Idle(t) == \A c \in Conditions : t \notin waiting[c] \cup signalled[c]

Acquire(t, l) ==
    /\ Idle(t)
    /\ owner[l] = NoThread
    /\ owner' = [owner EXCEPT ![l] = t]
    /\ UNCHANGED <<waiting, signalled>>

Release(t, l) ==
    /\ Idle(t)
    /\ owner[l] = t
    /\ owner' = [owner EXCEPT ![l] = NoThread]
    /\ UNCHANGED <<waiting, signalled>>

Wait(t, c) ==
    /\ Idle(t)
    /\ owner[LockOf[c]] = t
    /\ owner' = [owner EXCEPT ![LockOf[c]] = NoThread]
    /\ waiting' = [waiting EXCEPT ![c] = @ \cup {t}]
    /\ UNCHANGED signalled

\* wait() returns.
Return(t, c) ==
    /\ t \in signalled[c]
    /\ owner[LockOf[c]] = NoThread
    /\ owner' = [owner EXCEPT ![LockOf[c]] = t]
    /\ signalled' = [signalled EXCEPT ![c] = @ \ {t}]
    /\ UNCHANGED waiting

\* A signal picks one waiter, a broadcast all of them; without waiters neither
\* has an effect.
Pick(c, S) ==
    /\ waiting' = [waiting EXCEPT ![c] = @ \ S]
    /\ signalled' = [signalled EXCEPT ![c] = @ \cup S]
    /\ UNCHANGED owner

Signal(c) ==
    IF waiting[c] = {} THEN UNCHANGED mvars
    ELSE \E t \in waiting[c] : Pick(c, {t})

Broadcast(c) == Pick(c, waiting[c])

MonitorNext ==
    \/ \E t \in Threads, l \in Locks : Acquire(t, l) \/ Release(t, l)
    \/ \E t \in Threads, c \in Conditions : Wait(t, c) \/ Return(t, c)
    \/ \E c \in Conditions : Signal(c) \/ Broadcast(c)

MonitorSpec == MonitorInit /\ [][MonitorNext]_mvars
=============================================================================
