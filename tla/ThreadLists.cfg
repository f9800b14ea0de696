\* Every interleaving of the list operations over four heap threads, the boot thread
\* and two wait queues, under a timer that keeps firing.  A halted machine has no
\* successor.
CONSTANTS
    Threads = {t1, t2, t3, t4}
    Boot = boot
    Queues = {q1, q2}
    Null = null
SPECIFICATION FairSpec
CHECK_DEADLOCK FALSE
INVARIANTS
    RingIsDoublyLinked
    OneListPerThread
    NoDanglingThread
PROPERTIES
    ReapsOtherThread
    ImplementsRunQueue
    EveryReadyThreadRuns
    EveryZombieIsReaped
