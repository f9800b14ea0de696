------------------------------- MODULE Image -------------------------------
(***************************************************************************)
(* The disk image that tools/createimage.cpp puts together from the boot   *)
(* block, the kernel and the user programs, as operators on their ELF      *)
(* files.  A file has a name (the base name of its path), whether its      *)
(* identification says 32-bit little-endian ELF, an entry point, program   *)
(* headers and bytes.  Its segments are inside the file.                   *)
(***************************************************************************)
EXTENDS Integers, SequencesExt

CONSTANTS
    SECTOR_SIZE,    \* 512
    NAME_SIZE,      \* the size of ProgramDirEntry::name (16)
    MAX_ENTRIES     \* the directory entries of one sector (16)

ASSUME ImageAssumption ==
    SECTOR_SIZE \in Nat \ {0} /\ NAME_SIZE \in Nat \ {0} /\ MAX_ENTRIES \in Nat

PT_LOAD(f) == {h \in Range(f.phdrs) : h.type = "LOAD"}

\* fill_metadata: the range of the file that its loadable segments span.
max_offset(f) == Max({h.offset + h.filesz : h \in PT_LOAD(f)})
start_offset(f) == Min({h.offset : h \in PT_LOAD(f)})
stripped_size(f) == max_offset(f) - start_offset(f)
IsLoadable(f) == f.elf /\ PT_LOAD(f) # {}

sector_count_of(size) == (size + SECTOR_SIZE - 1) \div SECTOR_SIZE

\* copy_range and pad_to_sector: the sectors that a file becomes.
Sectors(f) ==
    LET byte(i) == IF i < stripped_size(f) THEN f.bytes[start_offset(f) + i + 1] ELSE 0
    IN  [k \in 1 .. sector_count_of(stripped_size(f)) |->
           <<"data", [j \in 1 .. SECTOR_SIZE |-> byte((k - 1) * SECTOR_SIZE + j - 1)]>>]

\* strncpy(name, ..., 15) with a terminator, and the copy of load_program.
Truncated(name) == SubSeq(name, 1, Min({Len(name), NAME_SIZE - 1}))

NoEntry == [name |-> <<>>, lba |-> 0, sectors |-> 0, entry |-> 0]

\* The program directory.  next_user_lba runs over the programs in order.
\* Mutant: the directory sector is forgotten in the layout.
FirstUserLba_directory(prog_dir_lba) == prog_dir_lba
FirstUserLba(prog_dir_lba) == prog_dir_lba + 1

Directory(users, prog_dir_lba) ==
    LET next_user_lba[i \in 1 .. Len(users) + 1] ==
            IF i = 1 THEN FirstUserLba(prog_dir_lba)
            ELSE next_user_lba[i - 1] + sector_count_of(stripped_size(users[i - 1]))
    IN  [i \in 1 .. MAX_ENTRIES |->
           IF i > Len(users) THEN NoEntry
           ELSE [name |-> Truncated(users[i].name), lba |-> next_user_lba[i],
                 sectors |-> sector_count_of(stripped_size(users[i])),
                 entry |-> users[i].entry]]

\* main: no image if a file is not a loadable ELF file; otherwise the boot block with
\* its three patched fields, the kernel, the directory and all the programs.
MakesImage(kernel, users) == IsLoadable(kernel) /\ \A i \in DOMAIN users : IsLoadable(users[i])

createimage(kernel, users) ==
    LET kernel_sectors == sector_count_of(stripped_size(kernel))
        prog_dir_lba == 1 + kernel_sectors
    IN  <<<<"boot", [os_size |-> kernel_sectors, prog_dir_lba |-> prog_dir_lba,
                     kernel_entry |-> kernel.entry]>>>>
        \o Sectors(kernel)
        \o <<<<"directory", Directory(users, prog_dir_lba)>>>>
        \o FlattenSeq([i \in DOMAIN users |-> Sectors(users[i])])
=============================================================================
