\* Three page directories with two page tables each, four tids; heap, directories
\* and tids all run out.
CONSTANTS
    HeapBlocks = 7
    TidLimit = 4
    THREAD_LIMIT = 3
    MAX_USER_PT = 6
    FRAME_COUNT = 8
    Programs <- MCPrograms
    Shell <- MCShell
    pages <- MCpages
SPECIFICATION Spec
INVARIANTS AddressSpacesAreDisjoint OwnedIsAllocated TidsAreUnique LoadedIsMapped HeapIsReturned
\* The machine halts when the last thread exits.
CHECK_DEADLOCK FALSE
