\* Sectors of two bytes, pages of two sectors, names of two letters, a directory of
\* two entries, and LBA registers of one bit.
CONSTANTS
    ByteRadix = 2
    DriveRadix = 2
    SECTOR_SIZE = 2
    NAME_SIZE = 3
    MAX_ENTRIES = 2
    SECTORS_PER_PAGE = 2
    BiosLimit = 4
    TEST_LBA = 2
    Kernel <- MCKernel
    UserLists <- MCUserLists
    Names <- MCNames
SPECIFICATION Spec
INVARIANTS LoadsTheProgram FailsForAReason
PROPERTIES CommandsWhenIdle EveryLoadReturns
