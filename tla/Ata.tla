-------------------------------- MODULE Ata --------------------------------
(***************************************************************************)
(* The polling disk driver of kernel/drivers/ata.cpp and the device behind *)
(* its ports.  The device is modelled from how the driver uses it: a       *)
(* command makes it busy, and after any time it offers or takes the words  *)
(* of one sector, or reports an error; with the error it may still offer   *)
(* or ask for the words, which the driver leaves where they are.  A call   *)
(* of the driver runs with interrupts off, so that only the device acts    *)
(* between its steps; a round of ata_wait that sees nothing new is a       *)
(* stuttering step.                                                        *)
(***************************************************************************)
EXTENDS Integers, FiniteSets

CONSTANTS
    ByteRadix,      \* the values of an LBA register (256)
    DriveRadix      \* the values of the LBA bits in the drive register (16)

ASSUME RadixAssumption == ByteRadix \in Nat \ {0} /\ DriveRadix \in Nat \ {0}

VARIABLES
    device,         \* what is attached (fixed)
    sectors,        \* what is stored on it: LBA -> contents
    status,         \* the status register, as the set of the bits that are 1
    regs,           \* the LBA in the drive register and the LBA registers
    faulted,        \* history: the device has reported an error (reset by the caller)
    sector_count,   \* of struct Disk; 0 until the disk is present
    at,             \* where the driver is in a call, "return" if in none
    buffer,         \* the buffer of the call
    ret             \* what the last call returned

ataVars == <<device, sectors, status, regs, faulted, sector_count, at, buffer, ret>>

NoSector == <<"none">>
NoLBA == [drive |-> 0, high |-> 0, mid |-> 0, low |-> 0]

AtaInit ==
    /\ device \in {"none", "packet", "no LBA", "disk"}
    /\ status = {} /\ regs = NoLBA /\ faulted = FALSE
    /\ sector_count = 0
    /\ at = "return" /\ buffer = NoSector /\ ret = 0
-----------------------------------------------------------------------------
Addressed == ((regs.drive * ByteRadix + regs.high) * ByteRadix + regs.mid) * ByteRadix + regs.low

\* The device has done what it was busy with, or gives up.  It executes the command
\* that the driver waits for.
DeviceStep ==
    /\ "BSY" \in status
    /\ \/ /\ at # "STORE"
          /\ status' = IF device = "packet" THEN {} ELSE {"DRQ"}
          /\ UNCHANGED <<sectors, faulted>>
       \/ /\ at = "STORE"
          /\ sectors' = [sectors EXCEPT ![Addressed] = buffer]
          /\ status' = {}
          /\ UNCHANGED faulted
       \/ /\ \E error \in {"ERR", "DF"}, words \in IF at = "STORE" THEN {{}} ELSE {{}, {"DRQ"}} :
               status' = {error} \cup words
          /\ faulted' = TRUE
          /\ UNCHANGED sectors
    /\ UNCHANGED <<device, regs, sector_count, at, buffer, ret>>
-----------------------------------------------------------------------------
Return(rc) == at' = "return" /\ ret' = rc

\* The end of ata_wait, with an error or without one.
\* Mutant: the error bits are ignored.
Fails_never == FALSE
Fails == status \cap {"ERR", "DF"} # {}
ata_wait(mask, value) == ~Fails /\ status \cap mask = value

WaitFails ==
    /\ at # "return" /\ Fails
    /\ Return(-1)
    /\ UNCHANGED <<device, sectors, status, regs, faulted, sector_count, buffer>>

\* The 256 words of a sector are read, and the device has no more.
\* Mutant: a word is left.
Drained_short == UNCHANGED status
Drained == status' = {}

\* ata_init up to its first wait.  Without a device the status is 0.
ata_init ==
    /\ at = "return"
    /\ regs' = NoLBA
    /\ IF device = "none" THEN Return(-1) /\ UNCHANGED status
       ELSE status' = {"BSY"} /\ at' = "IDENTIFY" /\ UNCHANGED ret
    /\ UNCHANGED <<device, sectors, faulted, sector_count, buffer>>

\* The rest: the signature of the device, the 256 words, and what they say.
init_data ==
    /\ at = "IDENTIFY" /\ ata_wait({"BSY"}, {})
    /\ IF device = "packet" THEN Return(-1) /\ UNCHANGED <<status, sector_count>>
       ELSE /\ ata_wait({"DRQ"}, {"DRQ"})
            /\ Drained
            /\ sector_count' = IF device = "no LBA" THEN 0 ELSE Cardinality(DOMAIN sectors)
            /\ Return(IF sector_count' = 0 THEN -1 ELSE 0)
    /\ UNCHANGED <<device, sectors, regs, faulted, buffer>>

\* The address in four registers.
Split(lba) ==
    [drive |-> (lba \div (ByteRadix * ByteRadix * ByteRadix)) % DriveRadix,
     high |-> (lba \div (ByteRadix * ByteRadix)) % ByteRadix,
     mid |-> (lba \div ByteRadix) % ByteRadix, low |-> lba % ByteRadix]

\* ata_prepare_lba and the command of ata_read_sector ("READ") or ata_write_sector
\* ("WRITE").
ata_prepare_lba(command, lba) ==
    /\ at = "return"
    /\ IF lba < DriveRadix * ByteRadix * ByteRadix * ByteRadix /\ lba < sector_count
         THEN regs' = Split(lba) /\ status' = {"BSY"} /\ at' = command /\ UNCHANGED ret
         ELSE Return(-1) /\ UNCHANGED <<regs, status>>
    /\ UNCHANGED <<device, sectors, sector_count>>

ata_read_sector(lba) == ata_prepare_lba("READ", lba) /\ UNCHANGED buffer
ata_write_sector(lba, contents) == ata_prepare_lba("WRITE", lba) /\ buffer' = contents

\* The 256 words, once the device is ready for them.
read_data ==
    /\ at = "READ" /\ ata_wait({"DRQ"}, {"DRQ"})
    /\ buffer' = sectors[Addressed]
    /\ Drained
    /\ Return(0)
    /\ UNCHANGED <<device, sectors, regs, faulted, sector_count>>

\* Mutant: the call does not wait until the sector is stored.
AfterWords_return == Return(0)
AfterWords == at' = "STORE" /\ UNCHANGED ret
write_data ==
    /\ at = "WRITE" /\ ata_wait({"DRQ"}, {"DRQ"})
    /\ status' = {"BSY"}
    /\ AfterWords
    /\ UNCHANGED <<device, sectors, regs, faulted, sector_count, buffer>>

write_done ==
    /\ at = "STORE" /\ ata_wait({"BSY"}, {})
    /\ Return(0)
    /\ UNCHANGED <<device, sectors, status, regs, faulted, sector_count, buffer>>

DriverStep == WaitFails \/ init_data \/ read_data \/ write_data \/ write_done
=============================================================================
