\* The barrier test of kernel/test.cpp: three threads meet once and then spin.
\* A thread that spins with interrupts off takes no step of the model.
CONSTANTS
    Threads = {t1, t2, t3}
    UserThreads = {}
    Locks = {}
    Conditions = {}
    Semaphores = {}
    Barriers = {b}
    MaxRounds = 1
    NoThread = nobody
    Queues <- MCQueues
    LockOf <- MCLockOf
    Slots <- MCSlots
    Parties <- MCParties
SPECIFICATION SpinningSpec
CHECK_DEADLOCK FALSE
PROPERTIES
    EveryCallReturns
