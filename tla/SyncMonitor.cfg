\* A lock and a condition under a user thread, which comes in by a system call, and
\* two kernel threads.  When all of them wait on the condition the machine halts, and a halted machine has no successor.
CONSTANTS
    Threads = {t1, t2, t3}
    UserThreads = {t1}
    Locks = {l}
    Conditions = {c}
    Semaphores = {}
    Barriers = {}
    MaxRounds = 0
    NoThread = nobody
    Queues <- MCQueues
    LockOf <- MCLockOf
    Slots <- MCSlots
    Parties <- MCParties
SPECIFICATION Spec
SYMMETRY Symmetry
CHECK_DEADLOCK FALSE
INVARIANTS
    DepthCountsSections
    SectionsAreAtomic
    OneListPerThread
    MutualExclusion
    NoLostWakeup
PROPERTIES
    ImplementsMonitor
