---------------------------- MODULE UserThreads ----------------------------
(***************************************************************************)
(* What a user thread owns, from load_program to thread_reap: its control  *)
(* block and kernel stack (kmalloc), its tid (tid_allocator), its page     *)
(* directory, page tables and frames (kernel/paging.cpp).  The threads are *)
(* the ones of the system that kernel_main starts: the boot thread loads   *)
(* the shell, and programs load programs.                                  *)
(*                                                                         *)
(* User threads enter the kernel through gates that disable interrupts and *)
(* the boot thread loads the shell before its sti, so that each system     *)
(* call and each switch is one step.                                       *)
(***************************************************************************)
EXTENDS RingOps, FiniteSetsExt, Functions

CONSTANTS
    HeapBlocks,     \* how many control blocks and kernel stacks the heap holds
    TidLimit,       \* max_entries of tid_allocator (128)
    THREAD_LIMIT,   \* the number of page directories (12)
    MAX_USER_PT,    \* the number of user page tables (32)
    FRAME_COUNT,    \* the number of frames (6144)
    Programs, Shell,
    pages           \* pages[p]: the pages that program p fills

\* A program fits the region of one page table, and one program is the longest.  There
\* are two page tables for every page directory, and a tid for every page directory.
ASSUME LimitsAssumption ==
    /\ {HeapBlocks, TidLimit, THREAD_LIMIT, MAX_USER_PT, FRAME_COUNT} \subseteq Nat \ {0}
    /\ Shell \in Programs /\ pages \in [Programs -> Nat \ {0}]
    /\ \E p \in Programs : \A q \in Programs : pages[q] <= pages[p]
    /\ MAX_USER_PT >= 2 * THREAD_LIMIT
    /\ TidLimit >= THREAD_LIMIT

Blocks == 1 .. HeapBlocks
Tids   == 1 .. TidLimit
Dirs   == 1 .. THREAD_LIMIT
Tables == 1 .. MAX_USER_PT
Frames == 1 .. FRAME_COUNT
Null   == 0         \* the null pointer, -1 of the pools, an entry not present
Boot   == -1        \* boot_thread, which owns nothing of the above

\* The two regions of a user address space, each under one entry of the page
\* directory: the program at PROG_LOAD_BASE, the stack page at 0xBFFFF000.
Regions == {"code", "stack"}
Pages == 0 .. Max(Range(pages)) - 1

VARIABLES
    mem,        \* what is in use: the pools, page directories and page tables
    tcb,        \* tcb[b]: the Thread in heap block b
    ring,       \* the ready queue, current_running first
    zombie,
    halted,
    booted,     \* kernel_main has executed its sti
    program,    \* history: the program of the thread in block b
    loaded,     \* history: the blocks whose load_program returned 0
    stranded    \* history: the heap blocks that a failed thread_create dropped

vars == <<mem, tcb, ring, zombie, halted, booted, program, loaded, stranded>>

\* kernel_page_directory: init_paging maps only the first 32 MB of RAM.
kernel_page_directory == [r \in Regions |-> Null]

NoTcb == [tid |-> Null, pd |-> Null, kstack |-> Null, user_frame |-> Null]

Init ==
    /\ mem = [heap |-> {}, tid |-> {}, pd_used |-> {}, user_pt_used |-> {}, frame |-> {},
              pd |-> [d \in Dirs |-> kernel_page_directory],
              pt |-> [t \in Tables |-> [i \in Pages |-> Null]]]
    /\ tcb = [b \in Blocks |-> NoTcb]
    /\ ring = <<Boot>>
    /\ zombie = Null
    /\ halted = FALSE
    /\ booted = FALSE
    /\ program = [b \in Blocks |-> Shell]
    /\ loaded = {}
    /\ stranded = {}
-----------------------------------------------------------------------------
\* Every pool hands out its first free entry, or fails with Null.
FirstFree(all, used) == IF all \subseteq used THEN Null ELSE Min(all \ used)

\* The pools of kernel/paging.cpp, the heap and the tids, after an allocation that
\* returned i.
Taken(used, i) == used \cup ({i} \ {Null})

\* IDAllocator::next.  When the pool is full the new ID is written to entry -1 of
\* the datamap, which is where the bitmap lies: any set of tids may be left marked.
TidsAfterNext(m) ==
    IF Tids \subseteq m.tid THEN SUBSET Tids ELSE {m.tid \cup {Min(Tids \ m.tid)}}

alloc_page_directory(m) ==
    LET i == FirstFree(Dirs, m.pd_used) IN
    IF i = Null THEN m
    ELSE [m EXCEPT !.pd_used = Taken(@, i), !.pd[i] = kernel_page_directory]

\* Mutant: the table is not marked as used.
alloc_user_page_table_unmarked(m) == m
alloc_user_page_table(m) ==
    LET i == FirstFree(Tables, m.user_pt_used) IN
    IF i = Null THEN m
    ELSE [m EXCEPT !.user_pt_used = Taken(@, i), !.pt[i] = [k \in Pages |-> Null]]

\* Mutant: the frame is not marked.
frame_alloc_unmarked(m) == m
FreeFrame(m) == FirstFree(Frames, m.frame)
frame_alloc(m) == [m EXCEPT !.frame = Taken(@, FreeFrame(m))]

NeedsTable(m, d, r) == m.pd[d][r] = Null

\* map_page: the page stays unmapped, without a word to the caller, when it needs a
\* page table and there is none.
map_page(m, d, r, k, f) ==
    LET t  == IF NeedsTable(m, d, r) THEN FirstFree(Tables, m.user_pt_used) ELSE m.pd[d][r]
        m1 == IF NeedsTable(m, d, r) THEN alloc_user_page_table(m) ELSE m
    IN  IF t = Null THEN m
        ELSE [m1 EXCEPT !.pd[d][r] = t, !.pt[t][k] = f]
-----------------------------------------------------------------------------
\* thread_create<true> with the tids that IDAllocator::next may leave.  The result
\* has the new block t, or Null, and the blocks that nobody refers to any more.
thread_create(tids) ==
    LET t   == FirstFree(Blocks, mem.heap)
        m1  == [mem EXCEPT !.heap = Taken(@, t), !.tid = tids]
        tid == FirstFree(Tids, mem.tid)
        d   == FirstFree(Dirs, m1.pd_used)
        m2  == alloc_page_directory(m1)
        ks  == FirstFree(Blocks, m2.heap)
        m3  == [m2 EXCEPT !.heap = Taken(@, ks)]
        f   == FreeFrame(m3)
        m4  == map_page(frame_alloc(m3), d, "stack", 0, f)
        Fail(m) == [t |-> Null, mem |-> m, dropped |-> {t} \ {Null}, tcb |-> NoTcb]
    IN  IF tid = Null THEN Fail(m1)
        ELSE IF d = Null THEN Fail(m2)
        ELSE IF ks = Null THEN Fail(m3)
        ELSE IF f = Null THEN Fail([m3 EXCEPT !.heap = @ \ {ks}])
        ELSE [t |-> t, mem |-> m4, dropped |-> {},
              tcb |-> [tid |-> tid, pd |-> d, kstack |-> ks, user_frame |-> f]]

\* The page loop of load_program in page directory d, up to page n.  A page whose
\* disk read fails is the last one; it is mapped.
Loaded(m, d, n) ==
    LET after[k \in 0 .. n] ==
            IF k = 0 THEN m
            ELSE LET f == FreeFrame(after[k - 1]) IN
                 map_page(frame_alloc(after[k - 1]), d, "code", k - 1, f)
    IN  after[n]

FreeFrames(m) == FRAME_COUNT - Cardinality(m.frame)

\* load_program(p).  The first disjunct: the directory cannot be read, or p is not in
\* it.  The second: thread_create fails.  The third: the thread exists and is in the
\* ready queue, and n of its pages are mapped when the disk fails or the frames run
\* out, or the load is complete.
load_program(p) ==
    \/ UNCHANGED <<mem, tcb, ring, program, loaded, stranded>>      \* no directory
    \/ \E tids \in TidsAfterNext(mem) :
         LET c == thread_create(tids) IN
         \/ /\ c.t = Null
            /\ mem' = c.mem
            /\ stranded' = stranded \cup c.dropped
            /\ UNCHANGED <<tcb, ring, program, loaded>>
         \/ /\ c.t # Null
            /\ tcb' = [tcb EXCEPT ![c.t] = c.tcb]
            /\ ring' = Spliced(ring, c.t)
            /\ program' = [program EXCEPT ![c.t] = p]
            /\ \E n \in 0 .. pages[p] :
                 /\ mem' = Loaded(c.mem, c.tcb.pd, n)
                 /\ \/ /\ n \in 1 .. FreeFrames(c.mem)              \* a disk read fails
                       /\ loaded' = loaded \ {c.t}
                    \/ /\ n = FreeFrames(c.mem) /\ n < pages[p]     \* out of frames
                       /\ loaded' = loaded \ {c.t}
                    \/ /\ n = pages[p] /\ n <= FreeFrames(c.mem)
                       /\ loaded' = loaded \cup {c.t}
            /\ UNCHANGED stranded
-----------------------------------------------------------------------------
\* thread_reap: the kernel stack and the control block go back to the heap.  The
\* tid, the page directory, the page tables and the frames do not.
\* Mutants: the page directory is given back as well; the control block only.
thread_reap_pd(m, z) ==
    [m EXCEPT !.heap = @ \ {z, tcb[z].kstack}, !.pd_used = @ \ {tcb[z].pd}]
thread_reap_block(m, z) == [m EXCEPT !.heap = @ \ {z}]

thread_reap(m, z) == [m EXCEPT !.heap = @ \ {z, tcb[z].kstack}]

Reap == mem' = IF zombie = Null THEN mem ELSE thread_reap(mem, zombie)

Alone == Len(ring) = 1

\* scheduler() for a running thread that leaves the ring; z is its zombie.
Leave(z) ==
    /\ Reap
    /\ IF Alone
         THEN halted' = TRUE /\ zombie' = Null /\ UNCHANGED ring
         ELSE ring' = Popped(ring) /\ zombie' = z /\ UNCHANGED halted
    /\ UNCHANGED <<tcb, booted, program, loaded, stranded>>

\* kernel_main: the boot thread loads the shell, enables interrupts and leaves
\* without a zombie.
kernel_main ==
    /\ ~booted
    /\ load_program(Shell)
    /\ booted' = TRUE
    /\ UNCHANGED <<zombie, halted>>

r0_exit_no_zombie == booted /\ Head(ring) = Boot /\ Leave(Null)

\* The timer, or SYS_YIELD.
scheduler ==
    /\ booted
    /\ Reap
    /\ ring' = Rotated(ring)
    /\ zombie' = Null
    /\ UNCHANGED <<tcb, halted, booted, program, loaded, stranded>>

SYS_EXEC(p) ==
    /\ Head(ring) # Boot
    /\ load_program(p)
    /\ UNCHANGED <<zombie, halted, booted>>

\* SYS_EXIT, or a page fault in user mode.
r3_exit == Head(ring) # Boot /\ Leave(Head(ring))

Next ==
    /\ ~halted
    /\ \/ kernel_main \/ r0_exit_no_zombie \/ scheduler \/ r3_exit
       \/ \E p \in Programs : SYS_EXEC(p)

Spec == Init /\ [][Next]_vars
-----------------------------------------------------------------------------
\* The threads whose control block is in use.
Alive == (Range(ring) \cup {zombie}) \ {Boot, Null}

\* The frames that thread b reaches through its page directory.
Mapped(b) ==
    {mem.pt[t][k] : t \in Range(mem.pd[tcb[b].pd]) \ {Null}, k \in Pages} \ {Null}

\* Every variable has its type, and some thread is running.
TypeOK ==
    /\ mem \in [heap : SUBSET Blocks, tid : SUBSET Tids, pd_used : SUBSET Dirs,
                user_pt_used : SUBSET Tables, frame : SUBSET Frames,
                pd : [Dirs -> [Regions -> Tables \cup {Null}]],
                pt : [Tables -> [Pages -> Frames \cup {Null}]]]
    /\ tcb \in [Blocks -> [tid : Tids \cup {Null}, pd : Dirs \cup {Null},
                           kstack : Blocks \cup {Null}, user_frame : Frames \cup {Null}]]
    /\ ring \in Seq(Blocks \cup {Boot}) /\ ring # <<>> /\ zombie \in Blocks \cup {Null}
    /\ halted \in BOOLEAN /\ booted \in BOOLEAN
    /\ program \in [Blocks -> Programs] /\ loaded \subseteq Blocks /\ stranded \subseteq Blocks

\* "a virtual address seen by one process is independent of the same virtual address
\* in another": whatever was loaded, exited and reaped before, no two threads share
\* a page directory, a page table or a frame.
AddressSpacesAreDisjoint ==
    \A a, b \in Alive : a # b =>
        /\ tcb[a].pd # tcb[b].pd
        /\ Range(mem.pd[tcb[a].pd]) \cap Range(mem.pd[tcb[b].pd]) \subseteq {Null}
        /\ Mapped(a) \cap Mapped(b) = {}

\* What a thread uses is marked as used: no pool hands it out again.  Every variable
\* has its type.
OwnedIsAllocated ==
    /\ TypeOK
    /\ \A b \in Alive :
        /\ {b, tcb[b].kstack} \subseteq mem.heap
        /\ tcb[b].pd \in mem.pd_used
        /\ Range(mem.pd[tcb[b].pd]) \ {Null} \subseteq mem.user_pt_used
        /\ Mapped(b) \cup {tcb[b].user_frame} \subseteq mem.frame

\* No two threads have the same tid, although r3_exit never gives one back and next()
\* damages the bitmap once they are used up: the page directories run out first.
TidsAreUnique == \A a, b \in Alive : a # b => tcb[a].tid # tcb[b].tid

\* "Returns 0 on success": a program whose load_program returned 0 has its stack and
\* all its pages, although map_page cannot report that the page tables ran out.
LoadedIsMapped ==
    \A b \in loaded \cap Alive :
        LET dir == mem.pd[tcb[b].pd] IN
        /\ dir["stack"] # Null /\ mem.pt[dir["stack"]][0] = tcb[b].user_frame
        /\ dir["code"] # Null
        /\ \A k \in 0 .. pages[program[b]] - 1 : mem.pt[dir["code"]][k] # Null

\* The heap does not leak: a block in use belongs to a thread, or was dropped by a
\* thread_create that failed.
HeapIsReturned ==
    mem.heap = stranded \cup UNION {{b, tcb[b].kstack} : b \in Alive}

\* "it is not supposed to degrade": when the shell is the only thread, a program can
\* be given a page directory.
ShellCanExec ==
    \A b \in Alive : Alive = {b} /\ program[b] = Shell => mem.pd_used # Dirs
=============================================================================
