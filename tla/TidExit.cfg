\* Violated: a thread switched out in close() keeps the lock of the pool, and block()
\* overwrites the EXITED of a thread that waits for it.
CONSTANTS
    Threads = {t1, t2}
    Boot = boot
    NoThread = null
    ByteBits = 2
    TidLimit = 2
    THREAD_LIMIT = 2
SPECIFICATION FairSpec
PROPERTY EveryExitCompletes
\* The machine halts when the last thread exits or blocks.
CHECK_DEADLOCK FALSE
