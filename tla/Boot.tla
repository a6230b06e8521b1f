-------------------------------- MODULE Boot --------------------------------
(***************************************************************************)
(* kernel_main from the end of init_kernel_paging to scheduler_start: the  *)
(* ACPI tables of acpi.c and the APIC of apic.c, on the page tables of     *)
(* module Paging, with the calibration of module ApicTimer and, where the  *)
(* source has it as a TODO, ata_init of module AtaSetup.                   *)
(*                                                                         *)
(* The kernel has nothing mapped but its own 4 MiB and what identity_map   *)
(* is called for; a read anywhere else is a page fault in kernel space,    *)
(* which panics.  What the firmware has put into memory is chosen in the   *)
(* initial state and never changes.                                        *)
(***************************************************************************)
EXTENDS Paging, ApicTimer, AtaSetup

CONSTANTS
  Firmwares,   \* the memory layouts firmware may leave
  VgaAddr,     \* the video memory, in the first MiB
  Word,        \* bytes of a table's signature, of its length, of an entry of the RSDT
  SdtHeader,   \* sizeof(struct acpi_sdt_header), which begins with these two
  MmapEntry,   \* sizeof(multiboot_memory_map_t)
  MaxOwned     \* bound: calls of kalloc after the boot

VARIABLES
  fw,          \* the layout
  bpc,         \* where kernel_main is
  i,           \* the entry of the RSDT, or the byte of the MADT, the loop is at
  lapic_ptr, ioapic_ptr,
  panic

devVars == <<fw, lapic_ptr, ioapic_ptr>>
bootVars == <<devVars, bpc, i, panic>>
allVars == <<vars, bootVars, timerVars, setupVars>>

NoPanic == "none"
NULL == 0

(* mbi: the multiboot information, with the memory map if it has one;      *)
(* tables: the RSDT's entries, each with its place and length, whether it  *)
(* is the MADT and whether its bytes sum to 0; madt: the bytes of the MADT *)
(* behind its header, each with how it reads as the first of an entry:     *)
(* whether that is an I/O APIC, the address it gives, and its length.      *)
ASSUME BootAssumption ==
  /\ VgaAddr \in 0 .. (EarlySize - 1)
  /\ Word \in Nat \ {0} /\ SdtHeader \in Nat /\ SdtHeader >= 2 * Word
  /\ MmapEntry \in Nat \ {0} /\ MaxOwned \in Nat
  /\ \A f \in Firmwares :
       /\ f.mbi \in [addr : Nat, len : Nat \ {0}, mmap : BOOLEAN, mmap_addr : Nat, mmap_length : Nat]
       /\ f.rsdp \in BOOLEAN
       /\ f.rsdt \in Nat
       /\ f.tables \in Seq([addr : Nat, len : {l \in Nat : l >= 2 * Word}, madt : BOOLEAN, valid : BOOLEAN])
       /\ f.lapic \in Nat
       /\ f.madt \in Seq([ioapic : BOOLEAN, value : Nat, length : Nat])

(* Where the walk over the MADT m goes from byte k, and the bytes it takes *)
(* for the first of an entry: those in every set that holds the first one  *)
(* and, with each, the next.                                               *)
NextEntry(m, k) == k + m[k].length
Reached(m) ==
  {k \in DOMAIN m :
     \A S \in SUBSET DOMAIN m :
       1 \in S /\ (\A j \in S : NextEntry(m, j) \in DOMAIN m => NextEntry(m, j) \in S) => k \in S}

(* What identity_map is called for when firmware leaves the layout f. *)
Region(a, pages) == [addr |-> a, size |-> pages * PAGE_SIZE]
RegionsOf(f) ==
  {Region(f.rsdt, 1)}
    \cup {Region(t.addr, 2) : t \in {f.tables[k] : k \in {k \in 1 .. Len(f.tables) : f.tables[k].madt}}}
    \cup {Region(a, 2) : a \in ({f.lapic} \cup {f.madt[k].value : k \in {k \in Reached(f.madt) : f.madt[k].ioapic}}) \ {NULL}}

(* Firmware and APICs are in the address space, the last of their pages    *)
(* too.                                                                    *)
ASSUME FirmwareAssumption ==
  \A f \in Firmwares : \A r \in RegionsOf(f) : \A a \in PagesOf(r) :
    PageOf(a) < PD_ENTRIES * PT_ENTRIES

BootInit ==
  /\ Init /\ TimerInit /\ SetupInit
  /\ fw \in Firmwares
  /\ bpc = "terminal"
  /\ i = 1
  /\ lapic_ptr = NULL
  /\ ioapic_ptr = NULL
  /\ panic = NoPanic

(* The page tables are set up and no map_continous is running. *)
AtBoot(label) == boot = "run" /\ job = NoJob /\ ~wild /\ panic = NoPanic /\ bpc = label

Touched(addr, len) == {ROUNDDOWN(a) : a \in addr .. (addr + len - 1)}
CanTouch(addr, len) == \A a \in Touched(addr, len) : Present(a)

GoTo(label) == bpc' = label /\ i' = 1 /\ UNCHANGED panic

Panic(msg) == panic' = msg /\ UNCHANGED <<vars, devVars, bpc, i>>

(* pagefault_irq, for a fault with a kernel code segment. *)
pagefault_irq == Panic("pagefault_in_kernel_space")

(* A step that touches memory, and what it does if that goes well. *)
Access(addr, len, A) == IF CanTouch(addr, len) THEN A ELSE pagefault_irq

terminal_initialize ==
  /\ AtBoot("terminal")
  /\ Access(KERNEL_HIGH + VgaAddr, 1, GoTo("mmap") /\ UNCHANGED <<vars, devVars>>)

(* kalloc has the memory of some of these bytes, and has written to it. *)
Overwritten(addr, len) == \E p \in addr .. (addr + len - 1) : PageOf(p) \in FirstFree .. (PT_ENTRIES - 1)

(* The bytes of the memory map, as the loop over its entries reads them.   *)
MmapSize(m) == ((m.mmap_length + MmapEntry - 1) \div MmapEntry) * MmapEntry

(* The information is where the boot loader has put it, which may be in    *)
(* pages that kalloc has used since; then its pointers are anything.       *)
print_mmap ==
  /\ AtBoot("mmap")
  /\ LET m    == fw.mbi
         done == GoTo("find_rsdt") /\ UNCHANGED <<vars, devVars>>
     IN  \/ Access(KERNEL_HIGH + m.addr, m.len,
              IF m.mmap THEN Access(KERNEL_HIGH + m.mmap_addr, MmapSize(m), done) ELSE done)
         \/ Overwritten(m.addr, m.len) /\ pagefault_irq

(* Mutant: the RSDT is not mapped. *)
acpi_find_rsdtUnmapped ==
  /\ AtBoot("find_rsdt")
  /\ IF fw.rsdp THEN GoTo("validate") /\ UNCHANGED <<vars, devVars>>
     ELSE Panic("RSDT_not_found")

(* The RSDP is looked for below 1 MiB, which the kernel's mapping holds;   *)
(* one page is mapped for the RSDT.                                        *)
acpi_find_rsdt ==
  /\ AtBoot("find_rsdt")
  /\ IF fw.rsdp
       THEN identity_map(Region(fw.rsdt, 1))
            /\ GoTo("validate") /\ UNCHANGED devVars
       ELSE Panic("RSDT_not_found")

(* root->header.length and root->entries[k] of the RSDT, as they are read. *)
ReadLength(A) == Access(fw.rsdt + Word, Word, A)
ReadEntry(k, A) == Access(fw.rsdt + SdtHeader + (k - 1) * Word, Word, A)

(* acpi_validate_sdt: all of a table, with the length in its header. *)
ReadTable(t, A) == Access(t.addr + Word, Word, Access(t.addr, t.len, A))

(* Mutant: the last table is not validated. *)
acpi_validate_rsdtShort ==
  /\ AtBoot("validate")
  /\ ReadLength(
       IF i >= Len(fw.tables) THEN GoTo("find_sdt") /\ UNCHANGED <<vars, devVars>>
       ELSE ReadEntry(i, ReadTable(fw.tables[i],
              IF fw.tables[i].valid
                THEN i' = i + 1 /\ UNCHANGED <<vars, devVars, bpc, panic>>
                ELSE Panic("SDT_table_corrupted"))))

(* acpi_validate_rsdt: every table the RSDT lists, one after the other,    *)
(* read to the end.  None of them is mapped here.                          *)
acpi_validate_rsdt ==
  /\ AtBoot("validate")
  /\ ReadLength(
       IF i > Len(fw.tables) THEN GoTo("find_sdt") /\ UNCHANGED <<vars, devVars>>
       ELSE ReadEntry(i, ReadTable(fw.tables[i],
              IF fw.tables[i].valid
                THEN i' = i + 1 /\ UNCHANGED <<vars, devVars, bpc, panic>>
                ELSE Panic("SDT_table_corrupted"))))

(* apic_init's acpi_find_sdt: the first table with the signature "APIC" is *)
(* mapped, with two pages.                                                 *)
acpi_find_sdt ==
  /\ AtBoot("find_sdt")
  /\ ReadLength(
       IF i > Len(fw.tables) THEN Panic("MADT_not_found")
       ELSE ReadEntry(i, Access(fw.tables[i].addr, Word,
              IF fw.tables[i].madt
                THEN /\ identity_map(Region(fw.tables[i].addr, 2))
                     /\ GoTo("madt")
                     /\ lapic_ptr' = fw.lapic
                     /\ UNCHANGED <<fw, ioapic_ptr>>
                ELSE i' = i + 1 /\ UNCHANGED <<vars, devVars, bpc, panic>>)))

(* Mutant: the walk does not advance past an entry that is no I/O APIC. *)
MadtEntryStuck ==
  /\ AtBoot("madt") /\ i <= Len(fw.madt)
  /\ ioapic_ptr' = IF fw.madt[i].ioapic THEN fw.madt[i].value ELSE ioapic_ptr
  /\ i' = IF fw.madt[i].ioapic THEN NextEntry(fw.madt, i) ELSE i
  /\ UNCHANGED <<vars, fw, lapic_ptr, bpc, panic>>

(* The walk over the MADT, entry by entry: the last I/O APIC counts.  The  *)
(* length is the entry's own, and nobody looks at it: with 0 the walk      *)
(* stays where it is.                                                      *)
MadtEntry ==
  /\ AtBoot("madt") /\ i <= Len(fw.madt)
  /\ ioapic_ptr' = IF fw.madt[i].ioapic THEN fw.madt[i].value ELSE ioapic_ptr
  /\ i' = NextEntry(fw.madt, i)
  /\ UNCHANGED <<vars, fw, lapic_ptr, bpc, panic>>

MadtEnd ==
  /\ AtBoot("madt") /\ i > Len(fw.madt)
  /\ CASE ioapic_ptr = NULL -> Panic("cannot_locate_IO_APIC_address")
       [] ioapic_ptr # NULL /\ lapic_ptr = NULL -> Panic("cannot_locate_Local_APIC_address")
       [] OTHER -> /\ identity_map(Region(lapic_ptr, 2))
                   /\ GoTo("map_ioapic") /\ UNCHANGED devVars

MapIoapic ==
  /\ AtBoot("map_ioapic")
  /\ identity_map(Region(ioapic_ptr, 2))
  /\ GoTo("program") /\ UNCHANGED devVars

(* lapic_write and ioapic_write, first to the one and then to the other. *)
ProgramApics ==
  /\ AtBoot("program")
  /\ Access(lapic_ptr, PAGE_SIZE, Access(ioapic_ptr, PAGE_SIZE,
       GoTo("calibrate") /\ UNCHANGED <<vars, devVars>>))

(* calibrate_apic_timer, step by step, with the clock going on. *)
Calibrate ==
  AtBoot("calibrate") /\ calibrate_apic_timer /\ UNCHANGED <<vars, bootVars, setupVars>>
Clock == AtBoot("calibrate") /\ Tick /\ UNCHANGED <<vars, bootVars, setupVars>>

Calibrated ==
  /\ AtBoot("calibrate") /\ tpc = "done"
  /\ GoTo("scheduler_start") /\ UNCHANGED <<vars, devVars>>

(* "TODO: ata_init();" - what happens when it is called here. *)
CallAtaInit ==
  /\ AtBoot("calibrate") /\ tpc = "done"
  /\ ata_init
  /\ GoTo("ata_init") /\ UNCHANGED <<vars, devVars, timerVars>>

InAtaInit(A) == AtBoot("ata_init") /\ A /\ UNCHANGED <<vars, bootVars, timerVars>>
SetupStep == InAtaInit(AtaSetupStep)
Identify == InAtaInit(DriveStep)

AtaInitReturns ==
  /\ AtBoot("ata_init")
  /\ \/ spc \in SetupPanics /\ Panic(spc)
     \/ spc = "done" /\ GoTo("scheduler_start") /\ UNCHANGED <<vars, devVars>>

kernel_main ==
  /\ \/ terminal_initialize \/ print_mmap \/ acpi_find_rsdt \/ acpi_validate_rsdt \/ acpi_find_sdt
     \/ MadtEntry \/ MadtEnd \/ MapIoapic \/ ProgramApics \/ Calibrated \/ AtaInitReturns
  /\ UNCHANGED <<timerVars, setupVars>>

PagingStep ==
  /\ ~wild
  /\ init_kalloc_early \/ init_kernel_paging
  /\ UNCHANGED <<bootVars, timerVars, setupVars>>

(* task_setup and ext2_init take pages when the boot is over. *)
TakePage ==
  /\ AtBoot("scheduler_start") /\ Cardinality(owned) < MaxOwned
  /\ kalloc_owned
  /\ UNCHANGED <<bootVars, timerVars, setupVars>>

BootOver == wild \/ panic # NoPanic \/ AtBoot("scheduler_start")

BootStep == PagingStep \/ kernel_main \/ Calibrate \/ CallAtaInit \/ SetupStep

BootNext == BootStep \/ Clock \/ Identify \/ TakePage \/ (BootOver /\ UNCHANGED allVars)

BootSpec == BootInit /\ [][BootNext]_allVars

(* The CPU, the clock and the drive go on; the code may poll for ever. *)
BootFairSpec ==
  BootSpec /\ WF_allVars(BootStep) /\ SF_allVars(Clock) /\ WF_allVars(Identify)

-----------------------------------------------------------------------------
(* The bytes from addr on are in the page that acpi_find_rsdt maps. *)
InRsdtPage(addr, len) == Touched(addr, len) \subseteq {ROUNDDOWN(fw.rsdt)}

(* The multiboot information is below 4 MiB and outside kalloc's pages. *)
MbiInPlace ==
  LET m == fw.mbi
      size == IF m.mmap THEN MmapSize(m) ELSE 0
  IN  /\ ~Overwritten(m.addr, m.len)
      /\ m.addr + m.len <= EarlySize /\ (size > 0 => m.mmap_addr + size <= EarlySize)

(* The kernel page-faults at boot only if the multiboot information, some  *)
(* table, or the end of the RSDT itself is not where the code expects it:  *)
(* the one in the 4 MiB of the kernel, the others in the page the RSDT     *)
(* begins in.  That page is mapped before it is read, and so are the       *)
(* registers of the APICs.                                                 *)
FaultMeansTableElsewhere ==
  panic = "pagefault_in_kernel_space" =>
    \/ ~MbiInPlace
    \/ ~InRsdtPage(fw.rsdt, SdtHeader + Len(fw.tables) * Word)
    \/ \E k \in 1 .. Len(fw.tables) : ~InRsdtPage(fw.tables[k].addr, fw.tables[k].len)

(* The scheduler starts with both APICs reachable, at the addresses of     *)
(* the MADT, the I/O APIC being the last one the walk comes by, and with   *)
(* every table valid.                                                      *)
ApicsReachable ==
  AtBoot("scheduler_start") =>
    /\ \A k \in 1 .. Len(fw.tables) : fw.tables[k].valid
    /\ \E k \in Reached(fw.madt) :
         /\ fw.madt[k].ioapic /\ TranslatesTo(fw.madt[k].value, PageOf(fw.madt[k].value))
         /\ ioapic_ptr = fw.madt[k].value
         /\ \A j \in Reached(fw.madt) : fw.madt[j].ioapic => j <= k
    /\ TranslatesTo(fw.lapic, PageOf(fw.lapic))

(* The walk over the MADT m comes by no entry of length 0. *)
MadtEnds(m) == \A k \in Reached(m) : m[k].length > 0

(* The boot comes to an end, in the scheduler or in a panic, or where the  *)
(* kernel lost its memory.  Two loops have their end in the machine's      *)
(* hands: the MADT may hold an entry of length 0, and the capability list  *)
(* of the IDE controller may lead back to itself; on every other machine   *)
(* these walks end, and so do those over the RSDT and the PCI functions    *)
(* and the polling loops of the calibration and of ata_poll.               *)
BootEnds ==
  MadtEnds(fw.madt) => <>(BootOver \/ (spc = "caps" /\ ~ListEnds(mach.funcs[slot, func])))
=============================================================================
