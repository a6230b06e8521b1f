------------------------------ MODULE AtaSetup ------------------------------
(***************************************************************************)
(* ata_init of ata.c: the search for the IDE controller with               *)
(* pci_find_device of pci.c, and the start of the primary master.          *)
(*                                                                         *)
(* A slot is a pair of bus and device, in the order of the two loops.  A   *)
(* function that is not there reads as all ones: its id says so, and so    *)
(* does the bit for further functions in the header type.  dev->flags is   *)
(* never read and left out.                                                *)
(***************************************************************************)
EXTENDS Naturals, Sequences

CONSTANTS
  LastSlot, LastFunc,  \* 8191 and 7
  Machines             \* what may be plugged in

(* funcs: the functions that are there, by slot and number: whether it is  *)
(* an IDE controller, whether the device has more functions, whether its   *)
(* status says it has capabilities, and the list of them: the pointer to   *)
(* the first and, for each pointer, the one in the header it leads to.     *)
(* Pointer 0 leads to the vendor and device id.                            *)
ASSUME AtaSetupAssumption ==
  /\ LastSlot \in Nat /\ LastFunc \in Nat
  /\ \A m \in Machines :
       /\ DOMAIN m.funcs \subseteq (0 .. LastSlot) \X (0 .. LastFunc)
       /\ \A x \in DOMAIN m.funcs :
            LET fn == m.funcs[x]
            IN  /\ fn.ide \in BOOLEAN /\ fn.multi \in BOOLEAN /\ fn.caps \in BOOLEAN
                /\ fn.cap \in DOMAIN fn.next
                /\ \A p \in DOMAIN fn.next : fn.next[p] \in DOMAIN fn.next
       /\ m.drive \in {"none", "packet", "disk", "faulty"}

VARIABLES
  mach,        \* the machine
  spc,         \* where ata_init is, or its panic
  slot, func,  \* pci_dev->bus, dev and func
  cap_ptr,
  drive,       \* what the drive is doing
  nien         \* its interrupt is disabled

setupVars == <<mach, spc, slot, func, cap_ptr, drive, nien>>

SetupInit ==
  /\ mach = [funcs |-> <<>>, drive |-> "none"]
  /\ spc = "off"
  /\ slot = 0 /\ func = 0 /\ cap_ptr = 0
  /\ drive = "idle" /\ nien = FALSE

SetupPanics == {"no_IDE_controller_found", "cannot_init_ATA_primary_master",
                "error_while_ATA_primary_master_init"}

ata_init ==
  /\ spc = "off"
  /\ mach' \in Machines
  /\ spc' = "scan"
  /\ UNCHANGED <<slot, func, cap_ptr, drive, nien>>

-----------------------------------------------------------------------------
There(s, f) == <<s, f>> \in DOMAIN mach.funcs
IsIde(s, f) == There(s, f) /\ mach.funcs[s, f].ide

(* header_type & 0x80 *)
MultiFunction(s) == IF There(s, 0) THEN mach.funcs[s, 0].multi ELSE TRUE

(* Mutant: the last function of a device is not looked at. *)
LastOfDeviceShort(s, f) == (f = 0 /\ ~MultiFunction(s)) \/ f + 1 = LastFunc

LastOfDevice(s, f) == (f = 0 /\ ~MultiFunction(s)) \/ f = LastFunc

(* pci_find_device, one turn of its loops, with the first checks of        *)
(* pci_check_and_init_device.                                              *)
pci_find_device ==
  /\ spc = "scan" /\ slot <= LastSlot
  /\ IF IsIde(slot, func)
       THEN /\ cap_ptr' = mach.funcs[slot, func].cap
            /\ spc' = IF mach.funcs[slot, func].caps THEN "caps" ELSE "drive"
            /\ UNCHANGED <<slot, func>>
       ELSE /\ IF LastOfDevice(slot, func)
                 THEN slot' = slot + 1 /\ func' = 0
                 ELSE func' = func + 1 /\ UNCHANGED slot
            /\ UNCHANGED <<cap_ptr, spc>>
  /\ UNCHANGED <<mach, drive, nien>>

NoController ==
  /\ spc = "scan" /\ slot > LastSlot
  /\ spc' = "no_IDE_controller_found"
  /\ UNCHANGED <<mach, slot, func, cap_ptr, drive, nien>>

(* The loop over the capabilities in pci_check_and_init_device: a header   *)
(* is read at the pointer, whatever it is, before the next pointer is      *)
(* compared with 0.  Where the list leads back to itself it has no end.    *)
NextCapability ==
  /\ spc = "caps"
  /\ cap_ptr' = mach.funcs[slot, func].next[cap_ptr]
  /\ spc' = IF cap_ptr' = 0 THEN "drive" ELSE "caps"
  /\ UNCHANGED <<mach, slot, func, drive, nien>>

(* ata_init_dev, up to ata_poll: without a drive the status is 0; one that *)
(* takes packets has its signature in the LBA registers.                   *)
ata_init_dev ==
  /\ spc = "drive"
  /\ nien' = TRUE
  /\ IF mach.drive \in {"none", "packet"}
       THEN spc' = "cannot_init_ATA_primary_master" /\ UNCHANGED drive
       ELSE spc' = "poll" /\ drive' = "busy"
  /\ UNCHANGED <<mach, slot, func, cap_ptr>>

(* Mutant: only BSY is polled. *)
PollEndsEarly == drive # "busy"

(* The loop of ata_poll ends with BSY clear and DRQ or ERR set. *)
PollEnds == drive \in {"drq", "err"}

ata_poll ==
  /\ spc = "poll" /\ PollEnds
  /\ spc' = IF drive = "err" THEN "error_while_ATA_primary_master_init" ELSE "drain"
  /\ UNCHANGED <<mach, slot, func, cap_ptr, drive, nien>>

(* The rest of ata_init_dev: the 256 words, and interrupts on. *)
Drain ==
  /\ spc = "drain"
  /\ drive' = IF drive = "drq" THEN "idle" ELSE drive
  /\ nien' = FALSE
  /\ spc' = "done"
  /\ UNCHANGED <<mach, slot, func, cap_ptr>>

AtaSetupStep ==
  pci_find_device \/ NoController \/ NextCapability \/ ata_init_dev \/ ata_poll \/ Drain

(* The drive executes IDENTIFY: BSY, then neither BSY nor DRQ for a        *)
(* moment, then the data or an error.                                      *)
DriveStep ==
  /\ drive \in {"busy", "settling"}
  /\ drive' = CASE drive = "busy" -> "settling"
                [] drive = "settling" /\ mach.drive = "disk" -> "drq"
                [] OTHER -> "err"
  /\ UNCHANGED <<mach, spc, slot, func, cap_ptr, nien>>

-----------------------------------------------------------------------------
(* The pointers the loop comes by on the list of fn, those in every set    *)
(* that holds the first one and, with each, the next one that is not 0;    *)
(* and whether it gets to the end.                                         *)
Capabilities(fn) ==
  {p \in DOMAIN fn.next :
     \A S \in SUBSET DOMAIN fn.next :
       fn.cap \in S /\ (\A q \in S : fn.next[q] # 0 => fn.next[q] \in S) => p \in S}
ListEnds(fn) == \E p \in Capabilities(fn) : fn.next[p] = 0

(* A function is visible if it is the first or its device has more. *)
VisibleIde(s, f) == IsIde(s, f) /\ (f = 0 \/ MultiFunction(s))

(* The scan stops at the first visible IDE controller in the order of bus, *)
(* device and function, and gives up only if there is none.                *)
FirstControllerFound ==
  /\ spc \in {"caps", "drive", "poll", "drain", "done"} =>
       /\ VisibleIde(slot, func)
       /\ \A s \in 0 .. slot, f \in 0 .. LastFunc :
            VisibleIde(s, f) => s = slot /\ f >= func
  /\ spc = "no_IDE_controller_found" =>
       ~\E s \in 0 .. LastSlot, f \in 0 .. LastFunc : VisibleIde(s, f)

(* ata_init returns only with a disk that is idle, its identification read *)
(* to the end and its interrupt enabled: no data of IDENTIFY is left for   *)
(* the first ata_read to find.                                             *)
DriveReady == spc = "done" => mach.drive = "disk" /\ drive = "idle" /\ ~nien
=============================================================================
