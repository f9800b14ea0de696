\* A boot thread and three kernel threads, which it creates and which exit.
CONSTANTS
    Threads = {t1, t2, t3}
    Boot = boot
    NoThread = null
    ByteBits = 2
    TidLimit = 4
    THREAD_LIMIT = 4
SPECIFICATION Spec
SYMMETRY Symmetry
INVARIANTS TidsAreUnique
\* The machine halts when the last thread exits or blocks.
CHECK_DEADLOCK FALSE
