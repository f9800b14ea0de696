\* Three kernel threads that use one semaphore with one slot, and then meet twice at one
\* barrier.
CONSTANTS
    Threads = {t1, t2, t3}
    UserThreads = {}
    Locks = {}
    Conditions = {}
    Semaphores = {s}
    Barriers = {b}
    MaxRounds = 2
    NoThread = nobody
    Queues <- MCQueues
    LockOf <- MCLockOf
    Slots <- MCSlots
    Parties <- MCParties
SPECIFICATION FairSpec
INVARIANTS
    SlotsAreConserved
    BarrierCountsWaiters
    BarrierLockstep
    NeverHalts
PROPERTIES
    EveryCallReturns
