------------------------------- MODULE Loader -------------------------------
(***************************************************************************)
(* From the image to a program in memory: the boot block loads the kernel, *)
(* kernel_main initialises the disk, and load_program of kernel/loader.cpp *)
(* finds a program in the directory and reads it page by page through the  *)
(* disk driver.  The image is the one that createimage makes of any of the *)
(* given lists of files.  What thread_create and frame_alloc do is in      *)
(* UserThreads; here each of them may fail.                                *)
(***************************************************************************)
EXTENDS Ata, Image

CONSTANTS
    SECTORS_PER_PAGE,   \* 8
    BiosLimit,          \* the values of the register for the sectors to read (256)
    Kernel, UserLists,  \* the files that createimage may be given
    Names,              \* the names that call_exec may be given
    TEST_LBA            \* the sector that the disk test writes (31)

\* The disk test writes a sector that load_program does not read: one of the kernel.
ASSUME TestAssumption == TEST_LBA \in 1 .. Len(Sectors(Kernel))

VARIABLES
    users,      \* the list of files in the image (fixed)
    kernel,     \* the sectors that the boot block has loaded
    pc,         \* where load_program is; "off" before the boot, "run" between calls
    name, found, page, s,       \* the locals of load_program
    mem,        \* mem[p]: the frame at virtual page p of the program
    lacked,     \* history: thread_create or frame_alloc has failed
    result      \* what load_program returned; 1 while there is nothing to return

loaderVars == <<kernel, pc, name, found, page, s, mem, lacked, result>>
vars == <<ataVars, users, loaderVars>>

image == createimage(Kernel, users)

Init ==
    /\ AtaInit
    /\ users \in {u \in UserLists : MakesImage(Kernel, u)}
    /\ sectors = [lba \in 0 .. Len(image) - 1 |-> image[lba + 1]]
    /\ kernel = <<>> /\ pc = "off" /\ name = <<>> /\ found = NoEntry
    /\ page = 0 /\ s = 0 /\ mem = <<>> /\ lacked = FALSE /\ result = 1
-----------------------------------------------------------------------------
\* The boot block: one BIOS call that reads os_size sectors, of which the register
\* holds 8 bits; then kernel_main with ata_init.
boot ==
    /\ pc = "off"
    /\ kernel' = [i \in 1 .. sectors[0][2].os_size % BiosLimit |-> sectors[i]]
    /\ pc' = "init"
    /\ ata_init
    /\ UNCHANGED <<users, name, found, page, s, mem, lacked, result>>

\* The disk test in kernel_main, the only caller of ata_write_sector.  It is commented
\* out, and may be left out here.  An error changes nothing but what is printed.
disk_test ==
    /\ at = "return"
    /\ \/ pc = "init" /\ pc' = "test read" /\ ata_read_sector(0)
       \/ pc = "test read" /\ pc' = "test write" /\ ata_write_sector(TEST_LBA, <<"test">>)
       \/ pc = "test write" /\ pc' = "test" /\ ata_read_sector(TEST_LBA)
    /\ UNCHANGED <<users, faulted, kernel, name, found, page, s, mem, lacked, result>>

\* kernel_main goes on whatever ata_init, or the test, has returned.
kernel_main ==
    /\ pc \in {"init", "test"} /\ at = "return"
    /\ pc' = "run"
    /\ UNCHANGED <<ataVars, users, kernel, name, found, page, s, mem, lacked, result>>

\* load_program up to the read of the boot block.
load_program(n) ==
    /\ pc = "run"
    /\ name' = Truncated(n)
    /\ pc' = "boot block" /\ result' = 1
    /\ mem' = <<>> /\ lacked' = FALSE /\ faulted' = FALSE
    /\ ata_read_sector(0)
    /\ UNCHANGED <<users, kernel, found, page, s>>

Finish(rc) == pc' = "run" /\ result' = rc
Read(lba, l) == ata_read_sector(lba) /\ pc' = l /\ UNCHANGED <<faulted, result>>
Lacks == lacked' = TRUE /\ Finish(-1) /\ UNCHANGED ataVars

\* A read has failed: read_prog_dir_lba returns 0, and the others -1.
read_error ==
    /\ pc \in {"boot block", "directory", "sector"} /\ at = "return" /\ ret = -1
    /\ Finish(-1)
    /\ UNCHANGED <<ataVars, users, kernel, name, found, page, s, mem, lacked>>

\* read_prog_dir_lba has the boot block, and the directory is read.
read_directory ==
    /\ pc = "boot block" /\ at = "return" /\ ret = 0
    /\ LET dir_lba == buffer[2].prog_dir_lba IN
       IF dir_lba = 0 THEN Finish(-1) /\ UNCHANGED ataVars ELSE Read(dir_lba, "directory")
    /\ UNCHANGED <<users, kernel, name, found, page, s, mem, lacked>>

\* The entry of n: the search stops at the first entry without a name.
\* Mutant: the last entry is not looked at.
Matching_short(dir, n) == {i \in 1 .. Len(dir) - 1 : dir[i].name = n}
Matching(dir, n) ==
    {i \in DOMAIN dir : dir[i].name = n /\ \A j \in 1 .. i : dir[j].name # <<>>}

find ==
    /\ pc = "directory" /\ at = "return" /\ ret = 0
    /\ LET matching == Matching(buffer[2], name) IN
       IF matching = {} THEN Finish(-1) /\ UNCHANGED <<ataVars, found, page, lacked>>
       ELSE /\ found' = buffer[2][Min(matching)]
            /\ page' = 0
            /\ \/ Lacks                                     \* thread_create_user fails
               \/ pc' = "page" /\ UNCHANGED <<ataVars, lacked, result>>
    /\ UNCHANGED <<users, kernel, name, s, mem>>

\* The head of the loop over the pages.
NumPages(n) == (n + SECTORS_PER_PAGE - 1) \div SECTORS_PER_PAGE
next_page ==
    /\ pc = "page"
    /\ \/ /\ page >= NumPages(found.sectors)
          /\ Finish(0)
          /\ UNCHANGED <<ataVars, s, mem, lacked>>
       \/ /\ page < NumPages(found.sectors)
          /\ Lacks                                          \* frame_alloc fails
          /\ UNCHANGED <<s, mem>>
       \/ /\ page < NumPages(found.sectors)
          /\ mem' = Append(mem, [i \in 0 .. SECTORS_PER_PAGE - 1 |-> NoSector])
          /\ s' = 0
          /\ Read(found.lba + page * SECTORS_PER_PAGE, "sector")
          /\ UNCHANGED lacked
    /\ UNCHANGED <<users, kernel, name, found, page>>

\* The loop over the sectors of a page: the sector is in the frame, and the next one
\* is read unless the page or the program is at its end.
next_sector ==
    /\ pc = "sector" /\ at = "return" /\ ret = 0
    /\ mem' = [mem EXCEPT ![page + 1][s] = buffer]
    /\ IF s + 1 < SECTORS_PER_PAGE /\ page * SECTORS_PER_PAGE + s + 1 < found.sectors
         THEN /\ s' = s + 1
              /\ Read(found.lba + page * SECTORS_PER_PAGE + s + 1, "sector")
              /\ UNCHANGED page
         ELSE pc' = "page" /\ page' = page + 1 /\ UNCHANGED <<ataVars, s, result>>
    /\ UNCHANGED <<users, kernel, name, found, lacked>>

Step ==
    \/ boot \/ disk_test \/ kernel_main \/ read_error \/ read_directory \/ find
    \/ next_page \/ next_sector
    \/ (DriverStep \/ DeviceStep) /\ UNCHANGED <<users, loaderVars>>

Next ==
    \/ Step
    \/ \E n \in Names : load_program(n)

\* A busy device answers in the end, with data or with an error.
Spec == Init /\ [][Next]_vars /\ WF_vars(Step)
-----------------------------------------------------------------------------
\* The driver and the device agree on whose turn it is: a command is written only to a
\* device that is neither busy nor in the middle of a transfer, whatever failed before.
\* Words that the device still offers or asks for with an error are excepted: ata_wait
\* returns without looking at DRQ, and nobody drains them.
CommandsWhenIdle ==
    [][at = "return" /\ at' # "return" =>
         "BSY" \notin status /\ ("DRQ" \in status => Fails)]_vars

\* The loaded program has byte b at offset i from PROG_LOAD_BASE.
HasByte(i, b) ==
    LET n == i \div SECTOR_SIZE
        sector == mem[(n \div SECTORS_PER_PAGE) + 1][n % SECTORS_PER_PAGE]
    IN  sector[1] = "data" /\ sector[2][(i % SECTOR_SIZE) + 1] = b

\* The file that a name stands for: the first of those that fit into the directory.
FileOf(n) ==
    LET is == {i \in DOMAIN users : i <= MAX_ENTRIES /\ Truncated(users[i].name) = n}
    IN  IF is = {} THEN <<>> ELSE <<users[Min(is)]>>

\* The layout that createimage writes is the one that the boot block and load_program
\* read: the whole kernel is loaded, and a load that returns 0 has put every byte of
\* the segments of the named file at its place, with its entry point.  The place of a
\* byte is its distance in the file from the first segment: neither createimage nor
\* load_program looks at p_vaddr or p_memsz, so that a program whose segments lie
\* otherwise in memory than in its file, or that needs a .bss, is not covered.
LoadsTheProgram ==
    /\ pc # "off" => kernel = Sectors(Kernel)
    /\ result = 0 =>
         /\ FileOf(name) # <<>>
         /\ LET f == FileOf(name)[1] IN
            /\ found.entry = f.entry
            /\ \A h \in PT_LOAD(f) : \A o \in h.offset .. h.offset + h.filesz - 1 :
                 HasByte(o - start_offset(f), f.bytes[o + 1])

\* A program that is in the directory is loaded unless the disk or the memory fails:
\* truncated names, a full directory and neighbours in the image make no difference.
FailsForAReason ==
    result = -1 => sector_count = 0 \/ faulted \/ lacked \/ FileOf(name) = <<>>

\* ata_wait has no timeout, and load_program runs with interrupts off: every call
\* returns, on an error of the device as well.
EveryLoadReturns == pc # "run" ~> pc = "run"
=============================================================================
