----------------------------- MODULE BootProofs -----------------------------
(***************************************************************************)
(* Proofs about module Boot: ata_init, the walk of kernel_main over the    *)
(* firmware's tables, and the page tables of module PagingProofs below it. *)
(***************************************************************************)
EXTENDS Boot, PagingProofs

-----------------------------------------------------------------------------
(* ata_init, started from kernel_main.                                     *)

(* Slot s, function f comes before the place the scan has reached. *)
Passed(s, f) == s < slot \/ (s = slot /\ f < func)

(* What the scan knows: nothing it has passed is visible, and it looks at  *)
(* a further function only of a device that says it has more.              *)
ScanInv ==
  /\ slot \in Nat /\ func \in 0 .. LastFunc
  /\ spc \in {"off", "scan"} => slot <= LastSlot + 1
  /\ spc = "off" => slot = 0 /\ func = 0
  /\ spc = "scan" =>
       /\ func > 0 => MultiFunction(slot)
       /\ \A s \in 0 .. LastSlot, f \in 0 .. LastFunc : Passed(s, f) => ~VisibleIde(s, f)

(* What the drive is doing where ata_init is. *)
DriveInv ==
  /\ spc # "off" => mach \in Machines
  /\ drive = "drq" => mach.drive = "disk"
  /\ spc \in {"off", "scan", "caps", "drive"} => drive = "idle"
  /\ spc = "drain" => drive = "drq"

SetupInv == ScanInv /\ FirstControllerFound /\ DriveInv /\ DriveReady

LEMMA SetupStutter ==
  ASSUME SetupInv, UNCHANGED setupVars
  PROVE  SetupInv'
BY DEF SetupInv, ScanInv, FirstControllerFound, DriveInv, DriveReady, setupVars, Passed, VisibleIde,
       IsIde, There, MultiFunction

LEMMA SetupInitInv == SetupInit => SetupInv
<1>1. SUFFICES ASSUME SetupInit PROVE SetupInv
  OBVIOUS
<1>2. spc = "off" /\ slot = 0 /\ func = 0 /\ drive = "idle"
  BY <1>1 DEF SetupInit
<1>3. QED
  BY <1>2, AtaSetupAssumption DEF SetupInv, ScanInv, FirstControllerFound, DriveInv, DriveReady

LEMMA AtaInitInv ==
  ASSUME SetupInv, ata_init
  PROVE  SetupInv'
<1>1. spc = "off" /\ mach' \in Machines /\ spc' = "scan" /\ UNCHANGED <<slot, func, drive>>
  BY DEF ata_init
<1>2. slot' = 0 /\ func' = 0 /\ drive' = "idle"
  BY <1>1 DEF SetupInv, ScanInv, DriveInv
<1>3. QED
  BY <1>1, <1>2, AtaSetupAssumption
  DEF SetupInv, ScanInv, FirstControllerFound, DriveInv, DriveReady, Passed

(* One turn of the scan: what it passes over is not visible. *)
LEMMA FindDeviceInv ==
  ASSUME SetupInv, pci_find_device
  PROVE  SetupInv'
<1>1. /\ spc = "scan" /\ slot <= LastSlot /\ mach' = mach /\ drive' = drive /\ nien' = nien
      /\ LastSlot \in Nat /\ LastFunc \in Nat
  BY AtaSetupAssumption DEF pci_find_device
<1>2. /\ slot \in Nat /\ func \in 0 .. LastFunc
      /\ func > 0 => MultiFunction(slot)
      /\ \A s \in 0 .. LastSlot, f \in 0 .. LastFunc : Passed(s, f) => ~VisibleIde(s, f)
  BY <1>1 DEF SetupInv, ScanInv
<1>3. \A s, f : VisibleIde(s, f)' <=> VisibleIde(s, f)
  BY <1>1 DEF VisibleIde, IsIde, There, MultiFunction
<1>4. \A s : MultiFunction(s)' <=> MultiFunction(s)
  BY <1>1 DEF There, MultiFunction
<1>5. CASE IsIde(slot, func)
  <2>1. spc' \in {"caps", "drive"} /\ UNCHANGED <<slot, func>>
    BY <1>5 DEF pci_find_device
  <2>2. VisibleIde(slot, func)
    BY <1>2, <1>5 DEF VisibleIde
  <2>3. \A s \in 0 .. slot, f \in 0 .. LastFunc : VisibleIde(s, f) => s = slot /\ f >= func
    BY <1>1, <1>2 DEF Passed
  <2>4. FirstControllerFound'
    BY <1>3, <2>1, <2>2, <2>3 DEF FirstControllerFound
  <2>5. QED
    BY <1>1, <1>2, <2>1, <2>4 DEF SetupInv, ScanInv, DriveInv, DriveReady
<1>6. CASE ~IsIde(slot, func)
  <2>1. /\ spc' = "scan"
        /\ \/ LastOfDevice(slot, func) /\ slot' = slot + 1 /\ func' = 0
           \/ ~LastOfDevice(slot, func) /\ func' = func + 1 /\ slot' = slot
    BY <1>1, <1>6 DEF pci_find_device
  <2>2. ~VisibleIde(slot, func)
    BY <1>6 DEF VisibleIde
  <2>3. CASE LastOfDevice(slot, func)
    <3>1. ASSUME NEW f \in 0 .. LastFunc PROVE ~VisibleIde(slot, f)
      <4>1. CASE func = 0 /\ ~MultiFunction(slot)
        BY <2>2, <4>1 DEF VisibleIde
      <4>2. CASE func = LastFunc
        BY <1>1, <1>2, <2>2, <3>1, <4>2 DEF Passed
      <4>3. QED
        BY <2>3, <4>1, <4>2 DEF LastOfDevice
    <3>2. slot' = slot + 1 /\ func' = 0
      BY <2>1, <2>3
    <3>3. ASSUME NEW s \in 0 .. LastSlot, NEW f \in 0 .. LastFunc, Passed(s, f)'
          PROVE  ~VisibleIde(s, f)
      <4>1. s <= slot
        BY <1>2, <3>2, <3>3 DEF Passed
      <4>2. s = slot \/ Passed(s, f)
        BY <1>2, <4>1 DEF Passed
      <4>3. QED
        BY <1>2, <3>1, <4>2
    <3>4. ScanInv'
      BY <1>1, <1>2, <1>3, <2>1, <3>2, <3>3 DEF ScanInv
    <3>5. QED
      BY <1>1, <2>1, <3>4 DEF SetupInv, FirstControllerFound, DriveInv, DriveReady
  <2>4. CASE ~LastOfDevice(slot, func)
    <3>1. slot' = slot /\ func' = func + 1 /\ func' \in 0 .. LastFunc /\ MultiFunction(slot)
      BY <1>1, <1>2, <2>1, <2>4 DEF LastOfDevice
    <3>2. ASSUME NEW s \in 0 .. LastSlot, NEW f \in 0 .. LastFunc, Passed(s, f)'
          PROVE  ~VisibleIde(s, f)
      <4>1. (s = slot /\ f = func) \/ Passed(s, f)
        BY <1>2, <3>1, <3>2 DEF Passed
      <4>2. QED
        BY <1>2, <2>2, <4>1
    <3>3. ScanInv'
      BY <1>1, <1>2, <1>3, <1>4, <2>1, <3>1, <3>2 DEF ScanInv
    <3>4. QED
      BY <1>1, <2>1, <3>3 DEF SetupInv, FirstControllerFound, DriveInv, DriveReady
  <2>5. QED
    BY <2>3, <2>4
<1>7. QED
  BY <1>5, <1>6

(* The steps behind the scan, and those of the drive. *)
LEMMA DriverStepInv ==
  ASSUME SetupInv,
         NoController \/ NextCapability \/ ata_init_dev \/ ata_poll \/ Drain \/ DriveStep
  PROVE  SetupInv'
<1>1. mach' = mach /\ UNCHANGED <<slot, func>> /\ LastSlot \in Nat /\ LastFunc \in Nat
  BY AtaSetupAssumption
  DEF NoController, NextCapability, ata_init_dev, ata_poll, Drain, DriveStep
<1>2. \A s, f : VisibleIde(s, f)' <=> VisibleIde(s, f)
  BY <1>1 DEF VisibleIde, IsIde, There, MultiFunction
<1>3. \A s : MultiFunction(s)' <=> MultiFunction(s)
  BY <1>1 DEF There, MultiFunction
<1>4. \/ spc' = spc
      \/ spc = "scan" /\ slot > LastSlot /\ spc' = "no_IDE_controller_found"
      \/ /\ spc \in {"caps", "drive", "poll", "drain"}
         /\ spc' \in {"caps", "drive", "poll", "drain", "done", "cannot_init_ATA_primary_master",
                      "error_while_ATA_primary_master_init"}
  BY DEF NoController, NextCapability, ata_init_dev, ata_poll, Drain, DriveStep
<1>5. ScanInv'
  BY <1>1, <1>2, <1>3, <1>4 DEF SetupInv, ScanInv, Passed
<1>6. FirstControllerFound'
  <2>1. CASE spc = "scan" /\ slot > LastSlot /\ spc' = "no_IDE_controller_found"
    <3>1. \A s \in 0 .. LastSlot, f \in 0 .. LastFunc : Passed(s, f) => ~VisibleIde(s, f)
      BY <2>1 DEF SetupInv, ScanInv
    <3>2. \A s \in 0 .. LastSlot, f \in 0 .. LastFunc : Passed(s, f)
      <4>1. slot \in Nat /\ LastSlot \in Nat /\ slot > LastSlot
        BY <1>1, <2>1, Zenon DEF SetupInv, ScanInv
      <4>2. QED
        BY <4>1 DEF Passed
    <3>3. QED
      BY <1>2, <2>1, <3>1, <3>2 DEF FirstControllerFound
  <2>2. QED
    BY <1>1, <1>2, <1>4, <2>1 DEF SetupInv, FirstControllerFound
<1>7. DriveInv'
  <2>1. CASE NoController \/ NextCapability
    BY <2>1 DEF NoController, NextCapability, SetupInv, DriveInv
  <2>2. CASE ata_init_dev \/ ata_poll \/ Drain
    BY <2>2 DEF ata_init_dev, ata_poll, PollEnds, Drain, SetupInv, DriveInv
  <2>3. CASE DriveStep
    BY <2>3 DEF DriveStep, SetupInv, DriveInv
  <2>4. QED
    BY <2>1, <2>2, <2>3
<1>8. DriveReady'
  BY DEF NoController, NextCapability, ata_init_dev, ata_poll, Drain, DriveStep, SetupInv,
         DriveInv, DriveReady
<1>9. QED
  BY <1>5, <1>6, <1>7, <1>8 DEF SetupInv

LEMMA BootSetupInv ==
  ASSUME SetupInv, [BootNext]_allVars
  PROVE  SetupInv'
<1>1. CASE CallAtaInit
  BY <1>1, AtaInitInv DEF CallAtaInit
<1>2. CASE SetupStep \/ Identify
  BY <1>2, FindDeviceInv, DriverStepInv DEF SetupStep, Identify, InAtaInit, AtaSetupStep
<1>3. CASE UNCHANGED setupVars
  BY <1>3, SetupStutter
<1>4. QED
  BY <1>1, <1>2, <1>3
  DEF BootNext, BootStep, PagingStep, kernel_main, Calibrate, Clock, TakePage, allVars

(* The inductive invariant of ata_init. *)
THEOREM SetupInvariant == BootSpec => []SetupInv
<1>1. BootInit => SetupInv
  BY SetupInitInv DEF BootInit
<1>2. SetupInv /\ [BootNext]_allVars => SetupInv'
  BY BootSetupInv
<1>3. QED
  BY <1>1, <1>2, PTL DEF BootSpec

(* pci_find_device stops at the first visible IDE controller, for every    *)
(* number of slots and functions and everything that may be plugged in.    *)
THEOREM BootFirstController == BootSpec => []FirstControllerFound
<1>1. SetupInv => FirstControllerFound
  BY DEF SetupInv
<1>2. QED
  BY <1>1, SetupInvariant, PTL

(* ata_init returns only with an idle disk with its interrupt enabled.     *)
THEOREM BootDriveReady == BootSpec => []DriveReady
<1>1. SetupInv => DriveReady
  BY DEF SetupInv
<1>2. QED
  BY <1>1, SetupInvariant, PTL

-----------------------------------------------------------------------------
(* kernel_main: what it knows at each place.                               *)

AfterRsdt == {"validate", "find_sdt", "madt", "map_ioapic", "program", "calibrate", "ata_init",
              "scheduler_start"}
AfterTables == AfterRsdt \ {"validate"}
AfterMadt == AfterTables \ {"find_sdt", "madt"}
AfterMaps == AfterMadt \ {"map_ioapic"}

TableValid(k) == fw.tables[k].valid

(* The last I/O APIC among the entries at S is the one in ioapic_ptr. *)
LastIoapic(S) ==
  \E k \in S : /\ fw.madt[k].ioapic /\ fw.madt[k].value = ioapic_ptr
              /\ \A j \in S : fw.madt[j].ioapic => j <= k

(* S are the entries the walk has come by before it came to i. *)
Walked(S) ==
  /\ S \subseteq Reached(fw.madt)
  /\ i = 1 \/ 1 \in S
  /\ i \in DOMAIN fw.madt => i \in Reached(fw.madt)
  /\ \A j \in S : /\ j <= i
                  /\ NextEntry(fw.madt, j) \in DOMAIN fw.madt => NextEntry(fw.madt, j) \in S \cup {i}
  /\ ioapic_ptr = NULL \/ LastIoapic(S)

WalkTypeOK ==
  /\ fw \in Firmwares /\ i \in Nat \ {0} /\ lapic_ptr \in Nat /\ ioapic_ptr \in Nat
  /\ bpc \in {"terminal", "mmap", "find_rsdt"} \cup AfterRsdt
  /\ bpc # "terminal" => boot = "run"

TablesInv ==
  /\ bpc = "validate" => \A k \in 1 .. Len(fw.tables) : k < i => TableValid(k)
  /\ bpc \in AfterTables => \A k \in 1 .. Len(fw.tables) : TableValid(k)

ApicInv ==
  /\ bpc \notin {"madt"} \cup AfterMadt => ioapic_ptr = NULL
  /\ bpc \in {"madt"} \cup AfterMadt => lapic_ptr = fw.lapic
  /\ bpc = "madt" => \E S : Walked(S)
  /\ bpc \in AfterMadt => lapic_ptr # NULL /\ ioapic_ptr # NULL /\ LastIoapic(Reached(fw.madt))

RegionInv ==
  /\ mapped \subseteq RegionsOf(fw)
  /\ bpc \in AfterRsdt => Region(fw.rsdt, 1) \in mapped
  /\ bpc \in AfterMadt => Region(lapic_ptr, 2) \in mapped
  /\ bpc \in AfterMaps => Region(ioapic_ptr, 2) \in mapped

WalkInv == WalkTypeOK /\ TablesInv /\ ApicInv /\ RegionInv

LEMMA SeqElements ==
  ASSUME NEW S, NEW t \in Seq(S)
  PROVE  Len(t) \in Nat /\ \A k \in 1 .. Len(t) : t[k] \in S
OBVIOUS

LEMMA TableFacts ==
  ASSUME NEW L, NEW t, t \in Seq([addr : Nat, len : L, madt : BOOLEAN, valid : BOOLEAN])
  PROVE  /\ Len(t) \in Nat
         /\ \A k \in 1 .. Len(t) : t[k].addr \in Nat /\ t[k].len \in L /\ t[k].valid \in BOOLEAN
<1>1. /\ Len(t) \in Nat
      /\ \A k \in 1 .. Len(t) : t[k] \in [addr : Nat, len : L, madt : BOOLEAN, valid : BOOLEAN]
  BY SeqElements, Zenon
<1>2. QED
  BY <1>1

LEMMA MbiFacts ==
  ASSUME NEW m,
         m \in [addr : Nat, len : Nat \ {0}, mmap : BOOLEAN, mmap_addr : Nat, mmap_length : Nat]
  PROVE  /\ m.addr \in Nat /\ m.len \in Nat \ {0}
         /\ m.mmap_addr \in Nat /\ m.mmap_length \in Nat
OBVIOUS

LEMMA FirmwareFacts ==
  ASSUME fw \in Firmwares
  PROVE  /\ fw.rsdt \in Nat /\ fw.lapic \in Nat
         /\ Len(fw.tables) \in Nat /\ Len(fw.madt) \in Nat /\ DOMAIN fw.madt = 1 .. Len(fw.madt)
         /\ \A k \in 1 .. Len(fw.tables) :
              /\ fw.tables[k].addr \in Nat /\ fw.tables[k].len \in Nat /\ fw.tables[k].len >= 2 * Word
              /\ fw.tables[k].valid \in BOOLEAN
         /\ \A k \in 1 .. Len(fw.madt) : fw.madt[k].value \in Nat /\ fw.madt[k].length \in Nat
         /\ fw.mbi.addr \in Nat /\ fw.mbi.len \in Nat \ {0}
         /\ fw.mbi.mmap_addr \in Nat /\ fw.mbi.mmap_length \in Nat
<1> DEFINE L == {l \in Nat : l >= 2 * Word}
<1>1. fw.mbi \in [addr : Nat, len : Nat \ {0}, mmap : BOOLEAN, mmap_addr : Nat, mmap_length : Nat]
  BY BootAssumption, Zenon
<1>2. fw.rsdt \in Nat /\ fw.lapic \in Nat
  BY BootAssumption, Zenon
<1>3. fw.tables \in Seq([addr : Nat, len : L, madt : BOOLEAN, valid : BOOLEAN])
  BY BootAssumption, Zenon
<1>4. fw.madt \in Seq([ioapic : BOOLEAN, value : Nat, length : Nat])
  BY BootAssumption, Zenon
<1>5. DOMAIN fw.madt = 1 .. Len(fw.madt)
  BY <1>4
<1>6. /\ fw.mbi.addr \in Nat /\ fw.mbi.len \in Nat \ {0}
      /\ fw.mbi.mmap_addr \in Nat /\ fw.mbi.mmap_length \in Nat
  BY <1>1, MbiFacts
<1>7. /\ Len(fw.tables) \in Nat
      /\ \A k \in 1 .. Len(fw.tables) :
           /\ fw.tables[k].addr \in Nat /\ fw.tables[k].len \in L /\ fw.tables[k].valid \in BOOLEAN
  <2> HIDE DEF L
  <2>1. QED
    BY <1>3, TableFacts
<1>8. /\ Len(fw.madt) \in Nat
      /\ \A k \in 1 .. Len(fw.madt) : fw.madt[k] \in [ioapic : BOOLEAN, value : Nat, length : Nat]
  BY <1>4, SeqElements, Zenon
<1>9. \A k \in 1 .. Len(fw.madt) : fw.madt[k].value \in Nat /\ fw.madt[k].length \in Nat
  BY <1>8
<1>10. \A k \in 1 .. Len(fw.tables) : fw.tables[k].len \in Nat /\ fw.tables[k].len >= 2 * Word
  <2>1. \A l \in L : l \in Nat /\ l >= 2 * Word
    OBVIOUS
  <2> HIDE DEF L
  <2>2. QED
    BY <1>7, <2>1
<1>11. QED
  BY <1>2, <1>5, <1>6, <1>7, <1>8, <1>9, <1>10

LEMMA RegionFacts ==
  ASSUME NEW a \in Nat, NEW n \in Nat \ {0}
  PROVE  IsRegion(Region(a, n)) /\ Region(a, n).addr = a
<1>1. Region(a, n).addr = a /\ Region(a, n).size = n * PAGE_SIZE
  BY DEF Region
<1>2. n * PAGE_SIZE \in Nat \ {0}
  BY Sizes
<1>3. QED
  BY <1>1, <1>2 DEF IsRegion

(* The steps that are none of kernel_main's walk. *)
LEMMA WalkStutter ==
  ASSUME WalkInv, UNCHANGED <<fw, lapic_ptr, ioapic_ptr, bpc, i, mapped>>, boot = "run" => boot' = "run"
  PROVE  WalkInv'
<1>1. WalkTypeOK'
  BY DEF WalkInv, WalkTypeOK
<1>2. TablesInv'
  BY DEF WalkInv, TablesInv, TableValid
<1>3. ApicInv'
  BY DEF WalkInv, ApicInv, Walked, LastIoapic
<1>4. RegionInv'
  BY DEF WalkInv, RegionInv, RegionsOf
<1>5. QED
  BY <1>1, <1>2, <1>3, <1>4 DEF WalkInv

LEMMA WalkInit == BootInit => WalkInv
<1>1. SUFFICES ASSUME BootInit PROVE WalkInv
  OBVIOUS
<1>2. /\ fw \in Firmwares /\ bpc = "terminal" /\ i = 1 /\ lapic_ptr = 0 /\ ioapic_ptr = 0 /\ mapped = {}
  BY <1>1 DEF BootInit, Init, NULL
<1>3. QED
  BY <1>2 DEF WalkInv, WalkTypeOK, TablesInv, ApicInv, RegionInv, AfterRsdt, AfterTables, AfterMadt,
              AfterMaps, NULL

(* A panic leaves kernel_main where it is. *)
LEMMA WalkPanic ==
  ASSUME WalkInv, UNCHANGED <<vars, devVars, bpc, i>>
  PROVE  WalkInv'
BY WalkStutter DEF vars, devVars

(* A step to a place of which no more is claimed than of the one before. *)
LEMMA WalkMove ==
  ASSUME WalkInv, boot = "run", NEW to, bpc' = to, i' = 1, UNCHANGED <<vars, devVars>>,
         \/ bpc = "terminal" /\ to = "mmap"
         \/ bpc = "mmap" /\ to = "find_rsdt"
         \/ bpc \in {"program", "calibrate", "ata_init"}
            /\ to \in {"calibrate", "ata_init", "scheduler_start"}
  PROVE  WalkInv'
<1>1. UNCHANGED <<fw, lapic_ptr, ioapic_ptr, mapped, boot>>
  BY DEF vars, devVars
<1>2. bpc' \in {"mmap", "find_rsdt", "calibrate", "ata_init", "scheduler_start"}
  OBVIOUS
<1>3. \/ /\ bpc \notin AfterRsdt /\ bpc' \notin AfterRsdt
         /\ bpc' \notin AfterTables /\ bpc' \notin AfterMadt /\ bpc' \notin AfterMaps
         /\ bpc \notin {"madt"} \cup AfterMadt
      \/ /\ bpc \in AfterRsdt /\ bpc \in AfterTables /\ bpc \in AfterMadt /\ bpc \in AfterMaps
         /\ bpc' \in AfterRsdt /\ bpc' \in AfterMadt
  BY DEF AfterRsdt, AfterTables, AfterMadt, AfterMaps
<1>4. WalkTypeOK'
  BY <1>1, <1>2 DEF WalkInv, WalkTypeOK, AfterRsdt
<1>5. TablesInv'
  <2>1. bpc' # "validate" /\ (bpc' \in AfterTables => bpc \in AfterTables) /\ fw' = fw
    BY <1>1, <1>2, <1>3
  <2>2. QED
    BY <2>1 DEF WalkInv, TablesInv, TableValid
<1>6. ApicInv'
  <2>1. LastIoapic(Reached(fw.madt))' <=> LastIoapic(Reached(fw.madt))
    BY <1>1 DEF LastIoapic
  <2>2. QED
    BY <1>1, <1>2, <1>3, <2>1 DEF WalkInv, ApicInv
<1>7. RegionInv'
  BY <1>1, <1>2, <1>3 DEF WalkInv, RegionInv, RegionsOf
<1>8. QED
  BY <1>4, <1>5, <1>6, <1>7 DEF WalkInv

LEMMA TerminalWalk ==
  ASSUME WalkInv, terminal_initialize
  PROVE  WalkInv'
<1>1. \/ UNCHANGED <<vars, devVars, bpc, i>>
      \/ bpc = "terminal" /\ bpc' = "mmap" /\ i' = 1 /\ UNCHANGED <<vars, devVars>> /\ boot = "run"
  BY DEF terminal_initialize, Access, AtBoot, GoTo, pagefault_irq, Panic
<1>2. QED
  BY <1>1, WalkPanic, WalkMove

LEMMA MmapWalk ==
  ASSUME WalkInv, print_mmap
  PROVE  WalkInv'
<1>1. \/ UNCHANGED <<vars, devVars, bpc, i>>
      \/ bpc = "mmap" /\ bpc' = "find_rsdt" /\ i' = 1 /\ UNCHANGED <<vars, devVars>> /\ boot = "run"
  BY DEF print_mmap, Access, AtBoot, GoTo, pagefault_irq, Panic
<1>2. QED
  BY <1>1, WalkPanic, WalkMove

LEMMA MoveWalk ==
  ASSUME WalkInv, ProgramApics \/ Calibrated \/ AtaInitReturns \/ CallAtaInit
  PROVE  WalkInv'
<1>1. \/ UNCHANGED <<vars, devVars, bpc, i>>
      \/ /\ bpc \in {"program", "calibrate", "ata_init"}
         /\ bpc' \in {"calibrate", "ata_init", "scheduler_start"}
         /\ i' = 1 /\ UNCHANGED <<vars, devVars>> /\ boot = "run"
  BY DEF ProgramApics, Calibrated, AtaInitReturns, CallAtaInit, Access, AtBoot, GoTo, pagefault_irq, Panic
<1>2. QED
  BY <1>1, WalkPanic, WalkMove

(* One page for the RSDT. *)
LEMMA FindRsdtWalk ==
  ASSUME WalkInv, acpi_find_rsdt
  PROVE  WalkInv'
<1>1. CASE ~fw.rsdp
  BY <1>1, WalkPanic DEF acpi_find_rsdt, Panic
<1>2. CASE fw.rsdp
  <2>1. /\ bpc = "find_rsdt" /\ bpc' = "validate" /\ i' = 1 /\ boot = "run"
        /\ mapped' = mapped \cup {Region(fw.rsdt, 1)}
        /\ UNCHANGED <<fw, lapic_ptr, ioapic_ptr, boot>>
    BY <1>2 DEF acpi_find_rsdt, AtBoot, identity_map, GoTo, devVars
  <2>2. /\ bpc' \notin AfterTables /\ bpc' \notin AfterMadt /\ bpc' \notin AfterMaps
        /\ bpc' \in AfterRsdt /\ bpc \notin {"madt"} \cup AfterMadt
    BY <2>1 DEF AfterRsdt, AfterTables, AfterMadt, AfterMaps
  <2>3. WalkTypeOK'
    BY <2>1, <2>2 DEF WalkInv, WalkTypeOK
  <2>4. TablesInv'
    <3>1. \A k \in 1 .. Len(fw.tables) : ~(k < 1)
      BY FirmwareFacts DEF WalkInv, WalkTypeOK
    <3>2. QED
      BY <2>1, <2>2, <3>1 DEF TablesInv
  <2>5. ApicInv'
    BY <2>1, <2>2 DEF WalkInv, ApicInv
  <2>6. RegionInv'
    <3>1. Region(fw.rsdt, 1) \in RegionsOf(fw)
      BY DEF RegionsOf
    <3>2. QED
      BY <2>1, <2>2, <3>1 DEF WalkInv, RegionInv
  <2>7. QED
    BY <2>3, <2>4, <2>5, <2>6 DEF WalkInv
<1>3. QED
  BY <1>1, <1>2

(* A table is passed only if it is valid; the end is reached when all are. *)
LEMMA ValidateWalk ==
  ASSUME WalkInv, acpi_validate_rsdt
  PROVE  WalkInv'
<1>1. /\ bpc = "validate" /\ boot = "run"
      /\ \/ UNCHANGED <<vars, devVars, bpc, i>>
         \/ i > Len(fw.tables) /\ bpc' = "find_sdt" /\ i' = 1 /\ UNCHANGED <<vars, devVars>>
         \/ /\ ~(i > Len(fw.tables)) /\ fw.tables[i].valid /\ i' = i + 1
            /\ UNCHANGED <<vars, devVars, bpc>>
  BY DEF acpi_validate_rsdt, ReadLength, ReadEntry, ReadTable, Access, AtBoot, GoTo, pagefault_irq, Panic
<1>2. /\ Len(fw.tables) \in Nat /\ i \in Nat \ {0}
      /\ \A k \in 1 .. Len(fw.tables) : k < i => TableValid(k)
  BY <1>1, FirmwareFacts DEF WalkInv, WalkTypeOK, TablesInv
<1>3. CASE UNCHANGED <<vars, devVars, bpc, i>>
  BY <1>3, WalkPanic
<1>4. CASE \/ i > Len(fw.tables) /\ bpc' = "find_sdt" /\ i' = 1 /\ UNCHANGED <<vars, devVars>>
           \/ /\ ~(i > Len(fw.tables)) /\ fw.tables[i].valid /\ i' = i + 1
              /\ UNCHANGED <<vars, devVars, bpc>>
  <2>1. UNCHANGED <<fw, lapic_ptr, ioapic_ptr, mapped, boot>> /\ bpc' \in {"validate", "find_sdt"}
    BY <1>1, <1>4 DEF vars, devVars
  <2>2. /\ bpc' \notin AfterMadt /\ bpc' \notin AfterMaps /\ bpc \in AfterRsdt
        /\ bpc' \in AfterRsdt /\ bpc \notin {"madt"} \cup AfterMadt /\ bpc' # "madt"
        /\ bpc' \in AfterTables => bpc' = "find_sdt"
    BY <1>1, <2>1 DEF AfterRsdt, AfterTables, AfterMadt, AfterMaps
  <2>3. WalkTypeOK'
    BY <1>1, <1>2, <1>4, <2>1, <2>2 DEF WalkInv, WalkTypeOK
  <2>4. TablesInv'
    <3>1. CASE i > Len(fw.tables) /\ bpc' = "find_sdt"
      <4>1. \A k \in 1 .. Len(fw.tables) : TableValid(k)
        BY <1>2, <3>1
      <4>2. QED
        BY <2>1, <3>1, <4>1 DEF TablesInv, TableValid
    <3>2. CASE ~(i > Len(fw.tables)) /\ fw.tables[i].valid /\ i' = i + 1 /\ bpc' = bpc
      <4>1. \A k \in 1 .. Len(fw.tables) : k < i + 1 => TableValid(k)
        <5>1. TableValid(i)
          BY <3>2 DEF TableValid
        <5>2. \A k \in 1 .. Len(fw.tables) : k < i + 1 => k < i \/ k = i
          BY <1>2
        <5>3. QED
          BY <1>2, <5>1, <5>2
      <4>2. bpc' \notin AfterTables
        BY <1>1, <3>2 DEF AfterTables
      <4>3. QED
        BY <2>1, <3>2, <4>1, <4>2 DEF TablesInv, TableValid
    <3>3. QED
      BY <1>4, <3>1, <3>2
  <2>5. ApicInv'
    BY <2>1, <2>2 DEF WalkInv, ApicInv
  <2>6. RegionInv'
    BY <2>1, <2>2 DEF WalkInv, RegionInv
  <2>7. QED
    BY <2>3, <2>4, <2>5, <2>6 DEF WalkInv
<1>5. QED
  BY <1>1, <1>3, <1>4

(* Two pages for the MADT; the address of the local APIC is in its head. *)
LEMMA FindSdtWalk ==
  ASSUME WalkInv, acpi_find_sdt
  PROVE  WalkInv'
<1>1. /\ bpc = "find_sdt" /\ boot = "run"
      /\ \/ UNCHANGED <<vars, devVars, bpc, i>>
         \/ /\ ~(i > Len(fw.tables)) /\ fw.tables[i].madt /\ identity_map(Region(fw.tables[i].addr, 2))
            /\ bpc' = "madt" /\ i' = 1 /\ lapic_ptr' = fw.lapic /\ UNCHANGED <<fw, ioapic_ptr>>
         \/ i' = i + 1 /\ UNCHANGED <<vars, devVars, bpc>>
  BY DEF acpi_find_sdt, ReadLength, ReadEntry, Access, AtBoot, GoTo, pagefault_irq, Panic
<1>2. /\ Len(fw.tables) \in Nat /\ i \in Nat \ {0} /\ fw.lapic \in Nat
      /\ \A k \in 1 .. Len(fw.tables) : TableValid(k)
  BY <1>1, FirmwareFacts DEF WalkInv, WalkTypeOK, TablesInv, AfterTables, AfterRsdt
<1>3. CASE UNCHANGED <<vars, devVars, bpc, i>>
  BY <1>3, WalkPanic
<1>4. CASE i' = i + 1 /\ UNCHANGED <<vars, devVars, bpc>>
  <2>1. UNCHANGED <<fw, lapic_ptr, ioapic_ptr, mapped, boot, bpc>>
    BY <1>4 DEF vars, devVars
  <2>2. WalkTypeOK'
    BY <1>2, <1>4, <2>1 DEF WalkInv, WalkTypeOK
  <2>3. TablesInv'
    BY <1>1, <1>2, <2>1 DEF TablesInv, TableValid
  <2>4. ApicInv'
    BY <1>1, <2>1 DEF WalkInv, ApicInv, AfterMadt, AfterTables, AfterRsdt
  <2>5. RegionInv'
    BY <2>1 DEF WalkInv, RegionInv
  <2>6. QED
    BY <2>2, <2>3, <2>4, <2>5 DEF WalkInv
<1>5. CASE /\ ~(i > Len(fw.tables)) /\ fw.tables[i].madt /\ identity_map(Region(fw.tables[i].addr, 2))
           /\ bpc' = "madt" /\ i' = 1 /\ lapic_ptr' = fw.lapic /\ UNCHANGED <<fw, ioapic_ptr>>
  <2>1. mapped' = mapped \cup {Region(fw.tables[i].addr, 2)} /\ boot' = boot
    BY <1>5 DEF identity_map
  <2>2. /\ bpc' \notin AfterMadt /\ bpc' \notin AfterMaps /\ bpc' \in AfterRsdt /\ bpc \in AfterRsdt
        /\ bpc \notin {"madt"} \cup AfterMadt /\ bpc' \in AfterTables
    BY <1>1, <1>5 DEF AfterMadt, AfterMaps, AfterTables, AfterRsdt
  <2>3. WalkTypeOK'
    BY <1>1, <1>2, <1>5, <2>1, <2>2 DEF WalkInv, WalkTypeOK
  <2>4. TablesInv'
    BY <1>2, <1>5 DEF TablesInv, TableValid
  <2>5. ApicInv'
    <3>1. ioapic_ptr' = NULL /\ i' = 1 /\ fw' = fw
      BY <1>5, <2>2 DEF WalkInv, ApicInv
    <3>2. 1 \in DOMAIN fw.madt => 1 \in Reached(fw.madt)
      BY DEF Reached
    <3>3. Walked({})'
      BY <3>1, <3>2 DEF Walked
    <3>4. QED
      BY <1>5, <2>2, <3>3 DEF WalkInv, ApicInv
  <2>6. RegionInv'
    <3>1. i \in {k \in 1 .. Len(fw.tables) : fw.tables[k].madt}
      BY <1>2, <1>5
    <3>2. Region(fw.tables[i].addr, 2) \in RegionsOf(fw)
      BY <3>1 DEF RegionsOf
    <3>3. QED
      BY <1>5, <2>1, <2>2, <3>2 DEF WalkInv, RegionInv
  <2>7. QED
    BY <2>3, <2>4, <2>5, <2>6 DEF WalkInv
<1>6. QED
  BY <1>1, <1>3, <1>4, <1>5

(* What comes next is reached. *)
LEMMA ReachedNext ==
  ASSUME NEW m, NEW k \in Reached(m), NextEntry(m, k) \in DOMAIN m
  PROVE  NextEntry(m, k) \in Reached(m)
BY DEF Reached

(* The walk over the MADT: the last I/O APIC it has come by is the one it  *)
(* keeps.                                                                  *)
LEMMA MadtEntryWalk ==
  ASSUME WalkInv, MadtEntry
  PROVE  WalkInv'
<1>1. /\ bpc = "madt" /\ boot = "run" /\ i <= Len(fw.madt) /\ i' = NextEntry(fw.madt, i)
      /\ ioapic_ptr' = IF fw.madt[i].ioapic THEN fw.madt[i].value ELSE ioapic_ptr
      /\ UNCHANGED <<fw, lapic_ptr, bpc, mapped, boot>>
  BY DEF MadtEntry, AtBoot, vars
<1>2. /\ i \in Nat \ {0} /\ Len(fw.madt) \in Nat /\ i \in 1 .. Len(fw.madt) /\ fw.madt[i].value \in Nat
      /\ ioapic_ptr \in Nat /\ fw.madt[i].length \in Nat /\ DOMAIN fw.madt = 1 .. Len(fw.madt)
  BY <1>1, FirmwareFacts DEF WalkInv, WalkTypeOK
<1>3. /\ bpc \notin AfterMadt /\ bpc \notin AfterMaps /\ bpc \in AfterTables
      /\ bpc \in AfterRsdt /\ bpc # "validate"
  BY <1>1 DEF AfterMadt, AfterMaps, AfterTables, AfterRsdt
<1>4. i' \in Nat \ {0} /\ i <= i'
  BY <1>1, <1>2 DEF NextEntry
<1>5. WalkTypeOK'
  BY <1>1, <1>2, <1>4 DEF WalkInv, WalkTypeOK
<1>6. TablesInv'
  BY <1>1, <1>3 DEF WalkInv, TablesInv, TableValid
<1>7. ApicInv'
  <2>1. PICK S : Walked(S)
    BY <1>1 DEF WalkInv, ApicInv
  <2>2. /\ S \subseteq Reached(fw.madt) /\ (i = 1 \/ 1 \in S)
        /\ \A j \in S : /\ j <= i
                        /\ NextEntry(fw.madt, j) \in DOMAIN fw.madt => NextEntry(fw.madt, j) \in S \cup {i}
        /\ ioapic_ptr = NULL \/ LastIoapic(S)
        /\ i \in Reached(fw.madt)
    BY <1>2, <2>1 DEF Walked
  <2>3. PICK T : T = S \cup {i}
    OBVIOUS
  <2>4. T \subseteq Reached(fw.madt) /\ 1 \in T /\ \A j \in Reached(fw.madt) : j \in Nat
    BY <1>2, <2>2, <2>3 DEF Reached
  <2>5. i' \in DOMAIN fw.madt => i' \in Reached(fw.madt)
    BY <1>1, <2>2, ReachedNext
  <2>6. ASSUME NEW j \in T
        PROVE  /\ j <= i'
               /\ NextEntry(fw.madt, j) \in DOMAIN fw.madt => NextEntry(fw.madt, j) \in T \cup {i'}
    <3>0. j \in Nat /\ (j \in S \/ j = i)
      BY <2>3, <2>4, <2>6
    <3>1. j <= i /\ j \in Nat
      <4>1. CASE j \in S
        BY <2>2, <3>0, <4>1
      <4>2. CASE j = i
        <5>1. i <= i
          BY <1>2
        <5>2. QED
          BY <3>0, <4>2, <5>1
      <4>3. QED
        BY <3>0, <4>1, <4>2
    <3>2. j <= i'
      BY <1>2, <1>4, <3>1
    <3>3. CASE j = i
      BY <1>1, <3>2, <3>3
    <3>4. CASE j # i
      BY <2>2, <2>3, <3>2, <3>4
    <3>5. QED
      BY <3>3, <3>4
  <2>7. ioapic_ptr' = NULL \/ LastIoapic(T)'
    <3>1. CASE fw.madt[i].ioapic
      <4>1. i \in T /\ fw.madt[i].value = ioapic_ptr' /\ \A j \in T : j <= i
        BY <1>1, <1>2, <2>2, <2>3, <3>1
      <4>2. QED
        BY <1>1, <3>1, <4>1 DEF LastIoapic
    <3>2. CASE ~fw.madt[i].ioapic
      BY <1>1, <2>2, <2>3, <3>2 DEF LastIoapic
    <3>3. QED
      BY <3>1, <3>2
  <2>8. Walked(T)'
    BY <1>1, <2>4, <2>5, <2>6, <2>7 DEF Walked, NULL
  <2>9. QED
    BY <1>1, <1>3, <2>8 DEF WalkInv, ApicInv
<1>8. RegionInv'
  BY <1>1, <1>3 DEF WalkInv, RegionInv
<1>9. QED
  BY <1>5, <1>6, <1>7, <1>8 DEF WalkInv

(* At the end of the MADT the walk has come by everything it can reach.    *)
LEMMA WalkedAll ==
  ASSUME fw \in Firmwares, i \in Nat, i > Len(fw.madt), ioapic_ptr # NULL, NEW S, Walked(S)
  PROVE  LastIoapic(Reached(fw.madt))
<1>1. Len(fw.madt) \in Nat /\ DOMAIN fw.madt = 1 .. Len(fw.madt)
  BY FirmwareFacts
<1>2. S \subseteq Reached(fw.madt) /\ Reached(fw.madt) \subseteq DOMAIN fw.madt /\ LastIoapic(S)
  BY DEF Walked, Reached
<1>3. 1 \in S
  <2>1. \E k \in S : k \in 1 .. Len(fw.madt)
    BY <1>1, <1>2 DEF LastIoapic
  <2>2. i # 1
    BY <1>1, <2>1
  <2>3. QED
    BY <2>2 DEF Walked
<1>4. \A j \in S : NextEntry(fw.madt, j) \in DOMAIN fw.madt => NextEntry(fw.madt, j) \in S
  BY <1>1 DEF Walked
<1>5. Reached(fw.madt) = S
  BY <1>2, <1>3, <1>4 DEF Reached
<1>6. QED
  BY <1>2, <1>5

(* Both APICs are known and the local one is mapped, with two pages. *)
LEMMA MadtEndWalk ==
  ASSUME WalkInv, MadtEnd
  PROVE  WalkInv'
<1>1. /\ bpc = "madt" /\ boot = "run" /\ i > Len(fw.madt)
      /\ \/ UNCHANGED <<vars, devVars, bpc, i>>
         \/ /\ ioapic_ptr # NULL /\ lapic_ptr # NULL /\ identity_map(Region(lapic_ptr, 2))
            /\ bpc' = "map_ioapic" /\ i' = 1 /\ UNCHANGED devVars
  BY DEF MadtEnd, AtBoot, GoTo, Panic
<1>2. CASE UNCHANGED <<vars, devVars, bpc, i>>
  BY <1>2, WalkPanic
<1>3. CASE /\ ioapic_ptr # NULL /\ lapic_ptr # NULL /\ identity_map(Region(lapic_ptr, 2))
           /\ bpc' = "map_ioapic" /\ i' = 1 /\ UNCHANGED devVars
  <2>1. /\ mapped' = mapped \cup {Region(lapic_ptr, 2)} /\ boot' = boot
        /\ UNCHANGED <<fw, lapic_ptr, ioapic_ptr>>
    BY <1>3 DEF identity_map, devVars
  <2>2. /\ i \in Nat \ {0} /\ Len(fw.madt) \in Nat /\ lapic_ptr = fw.lapic
        /\ fw \in Firmwares /\ \E S : Walked(S)
    BY <1>1, <1>3, FirmwareFacts DEF WalkInv, WalkTypeOK, ApicInv
  <2>3. /\ bpc' \in AfterMadt /\ bpc' \notin AfterMaps /\ bpc' \in AfterTables /\ bpc' # "madt"
        /\ bpc' \in AfterRsdt /\ bpc' # "validate" /\ bpc \in AfterTables /\ bpc \in AfterRsdt
    BY <1>1, <1>3 DEF AfterMadt, AfterMaps, AfterTables, AfterRsdt
  <2>4. WalkTypeOK'
    BY <1>1, <1>3, <2>1, <2>3 DEF WalkInv, WalkTypeOK
  <2>5. TablesInv'
    BY <2>1, <2>3 DEF WalkInv, TablesInv, TableValid
  <2>6. ApicInv'
    <3>1. LastIoapic(Reached(fw.madt))
      BY <1>1, <1>3, <2>2, WalkedAll
    <3>2. LastIoapic(Reached(fw.madt))'
      BY <2>1, <3>1 DEF LastIoapic
    <3>3. QED
      BY <1>3, <2>1, <2>2, <2>3, <3>2 DEF WalkInv, ApicInv, NULL
  <2>7. RegionInv'
    <3>1. lapic_ptr \in ({fw.lapic} \cup {fw.madt[k].value : k \in {k \in Reached(fw.madt) : fw.madt[k].ioapic}})
                          \ {NULL}
      BY <1>3, <2>2
    <3>2. Region(lapic_ptr, 2) \in RegionsOf(fw)
      BY <3>1 DEF RegionsOf
    <3>3. QED
      BY <2>1, <2>3, <3>2 DEF WalkInv, RegionInv
  <2>8. QED
    BY <2>4, <2>5, <2>6, <2>7 DEF WalkInv
<1>4. QED
  BY <1>1, <1>2, <1>3

LEMMA MapIoapicWalk ==
  ASSUME WalkInv, MapIoapic
  PROVE  WalkInv'
<1>1. /\ bpc = "map_ioapic" /\ boot = "run" /\ bpc' = "program" /\ i' = 1 /\ boot' = boot
      /\ mapped' = mapped \cup {Region(ioapic_ptr, 2)} /\ UNCHANGED <<fw, lapic_ptr, ioapic_ptr>>
  BY DEF MapIoapic, AtBoot, GoTo, identity_map, devVars
<1>2. /\ bpc \in AfterMadt /\ bpc \in AfterTables /\ bpc \in AfterRsdt /\ bpc' \in AfterMadt
      /\ bpc' \in AfterTables /\ bpc' \in AfterRsdt
  BY <1>1 DEF AfterMadt, AfterTables, AfterRsdt
<1>3. WalkTypeOK'
  BY <1>1, <1>2 DEF WalkInv, WalkTypeOK
<1>4. TablesInv'
  BY <1>1, <1>2 DEF WalkInv, TablesInv, TableValid
<1>5. LastIoapic(Reached(fw.madt)) /\ ioapic_ptr # NULL /\ lapic_ptr # NULL /\ lapic_ptr = fw.lapic
  BY <1>2 DEF WalkInv, ApicInv
<1>6. ApicInv'
  <2>1. LastIoapic(Reached(fw.madt))'
    BY <1>1, <1>5 DEF LastIoapic
  <2>2. QED
    BY <1>1, <1>2, <1>5, <2>1 DEF ApicInv, NULL
<1>7. RegionInv'
  <2>1. ioapic_ptr \in ({fw.lapic} \cup {fw.madt[k].value : k \in {k \in Reached(fw.madt) : fw.madt[k].ioapic}})
                         \ {NULL}
    BY <1>5 DEF LastIoapic
  <2>2. Region(ioapic_ptr, 2) \in RegionsOf(fw)
    BY <2>1 DEF RegionsOf
  <2>3. QED
    BY <1>1, <1>2, <2>2 DEF WalkInv, RegionInv
<1>8. QED
  BY <1>3, <1>4, <1>6, <1>7 DEF WalkInv

(* Every step of kernel_main, with what goes on beside it. *)
LEMMA WalkStep ==
  ASSUME WalkInv, [BootNext]_allVars
  PROVE  WalkInv'
<1>1. CASE kernel_main
  BY <1>1, TerminalWalk, MmapWalk, FindRsdtWalk, ValidateWalk, FindSdtWalk, MadtEntryWalk, MadtEndWalk,
     MapIoapicWalk, MoveWalk DEF kernel_main
<1>2. CASE CallAtaInit
  BY <1>2, MoveWalk
<1>3. CASE PagingStep
  <2>1. UNCHANGED mapped /\ (boot = "run" => boot' = "run") /\ UNCHANGED bootVars
    BY <1>3 DEF PagingStep, init_kalloc_early, init_kernel_paging, PgdirAlloc, MapPage, MapUser, load_cr3
  <2>2. QED
    BY <2>1, WalkStutter DEF bootVars, devVars
<1>4. CASE TakePage
  <2>1. UNCHANGED <<mapped, boot>> /\ UNCHANGED bootVars
    BY <1>4 DEF TakePage, kalloc_owned
  <2>2. QED
    BY <2>1, WalkStutter DEF bootVars, devVars
<1>5. CASE UNCHANGED <<vars, bootVars>>
  BY <1>5, WalkStutter DEF bootVars, devVars, vars
<1>6. QED
  BY <1>1, <1>2, <1>3, <1>4, <1>5
  DEF BootNext, BootStep, Calibrate, Clock, SetupStep, Identify, InAtaInit, allVars

(* What FirmwareAssumption says of the regions kernel_main maps. *)
LEMMA RegionsInSpace ==
  ASSUME fw \in Firmwares, NEW r \in RegionsOf(fw)
  PROVE  IsRegion(r) /\ InSpace(r)
<1>1. PICK a \in Nat, n \in Nat \ {0} : r = Region(a, n)
  <2> DEFINE madts == {fw.tables[k] : k \in {k \in 1 .. Len(fw.tables) : fw.tables[k].madt}}
             apics == {fw.lapic} \cup {fw.madt[k].value : k \in {k \in Reached(fw.madt) : fw.madt[k].ioapic}}
  <2>1. \/ r = Region(fw.rsdt, 1)
        \/ \E t \in madts : r = Region(t.addr, 2)
        \/ \E a \in apics : r = Region(a, 2)
    BY DEF RegionsOf
  <2>2. fw.rsdt \in Nat /\ (\A t \in madts : t.addr \in Nat) /\ \A a \in apics : a \in Nat
    BY FirmwareFacts DEF Reached
  <2> HIDE DEF madts, apics
  <2>3. 1 \in Nat \ {0} /\ 2 \in Nat \ {0}
    OBVIOUS
  <2>4. QED
    BY <2>1, <2>2, <2>3
<1>2. IsRegion(r)
  BY <1>1, RegionFacts
<1>3. \A b \in PagesOf(r) : PageOf(b) < PD_ENTRIES * PT_ENTRIES
  BY FirmwareAssumption
<1>4. QED
  BY <1>2, <1>3 DEF InSpace

(* kernel_main changes the page tables by identity_map only. *)
LEMMA MainMaps ==
  ASSUME WalkInv, kernel_main
  PROVE  UNCHANGED vars \/ (~wild /\ \E r : IsRegion(r) /\ InSpace(r) /\ identity_map(r))
<1>1. /\ fw' = fw
      /\ UNCHANGED vars \/ (~wild /\ \E r : identity_map(r))
  <2>1. CASE terminal_initialize \/ print_mmap \/ acpi_validate_rsdt \/ ProgramApics
    BY <2>1 DEF terminal_initialize, print_mmap, acpi_validate_rsdt, ReadLength, ReadEntry, ReadTable,
                ProgramApics, Access, GoTo, pagefault_irq, Panic, devVars
  <2>2. CASE MadtEntry \/ Calibrated \/ AtaInitReturns
    BY <2>2 DEF MadtEntry, Calibrated, AtaInitReturns, Panic, devVars
  <2>3. CASE acpi_find_rsdt
    BY <2>3 DEF acpi_find_rsdt, AtBoot, Panic, devVars
  <2>4. CASE acpi_find_sdt
    BY <2>4 DEF acpi_find_sdt, ReadLength, ReadEntry, Access, pagefault_irq, AtBoot, Panic, devVars
  <2>5. CASE MadtEnd
    BY <2>5 DEF MadtEnd, AtBoot, Panic, devVars
  <2>6. CASE MapIoapic
    BY <2>6 DEF MapIoapic, AtBoot, devVars
  <2>7. QED
    BY <2>1, <2>2, <2>3, <2>4, <2>5, <2>6 DEF kernel_main
<1>2. mapped' \subseteq RegionsOf(fw) /\ fw \in Firmwares
  <2>1. BootNext
    BY DEF BootNext, BootStep
  <2>2. WalkInv'
    BY <2>1, WalkStep
  <2>3. QED
    BY <1>1, <2>2 DEF WalkInv, WalkTypeOK, RegionInv
<1>3. ASSUME NEW r, identity_map(r) PROVE IsRegion(r) /\ InSpace(r)
  <2>1. r \in mapped'
    BY <1>3 DEF identity_map
  <2>2. QED
    BY <1>2, <2>1, RegionsInSpace
<1>4. QED
  BY <1>1, <1>3

MemInv == AllocInv /\ MapInv

LEMMA MemStep ==
  ASSUME MemInv, WalkInv, [BootNext]_allVars
  PROVE  MemInv'
<1>1. CASE kernel_main
  <2>1. CASE UNCHANGED vars
    BY <2>1, AllocStutter, MapStutter DEF MemInv
  <2>2. CASE ~wild /\ \E r : IsRegion(r) /\ InSpace(r) /\ identity_map(r)
    BY <2>2, IdentityMapInv, IdentityMapMaps DEF MemInv
  <2>3. QED
    BY <1>1, <2>1, <2>2, MainMaps
<1>2. CASE PagingStep
  <2>1. ~wild /\ (init_kalloc_early \/ PgdirAlloc \/ MapPage \/ MapUser \/ load_cr3)
    BY <1>2 DEF PagingStep, init_kernel_paging
  <2>2. AllocInv'
    BY <2>1, KallocEarlyInv, PgdirAllocInv, MapPageInv, MapUserInv, LoadCr3Inv DEF MemInv
  <2>3. MapInv'
    BY <2>1, QuietSteps, MapPageMaps DEF MemInv
  <2>4. QED
    BY <2>2, <2>3 DEF MemInv
<1>3. CASE TakePage
  <2>1. kalloc_owned /\ ~wild
    BY <1>3 DEF TakePage, AtBoot
  <2>2. QED
    BY <2>1, KallocOwnedInv, QuietSteps DEF MemInv
<1>4. CASE UNCHANGED vars
  BY <1>4, AllocStutter, MapStutter DEF MemInv
<1>5. QED
  BY <1>1, <1>2, <1>3, <1>4
  DEF BootNext, BootStep, Calibrate, Clock, CallAtaInit, SetupStep, Identify, InAtaInit, allVars

-----------------------------------------------------------------------------
(* Page faults: what is mapped where kernel_main reads.                    *)

(* The bytes of the kernel's 4 MiB are there. *)
LEMMA KernelBytes ==
  ASSUME MemInv, boot = "run", ~wild, NEW a \in Nat, NEW len \in Nat, a + len <= EarlySize
  PROVE  CanTouch(KERNEL_HIGH + a, len)
<1>1. SUFFICES ASSUME NEW b \in (KERNEL_HIGH + a) .. (KERNEL_HIGH + a + len - 1)
               PROVE  Present(ROUNDDOWN(b))
  BY DEF CanTouch, Touched
<1>2. KERNEL_HIGH \in Nat /\ EarlySize \in Nat /\ PAGE_SIZE \in Nat \ {0} /\ EarlySize = PT_ENTRIES * PAGE_SIZE
      /\ PT_ENTRIES \in Nat \ {0}
  BY Sizes
<1>3. b \in Nat /\ KERNEL_HIGH <= b /\ b < KERNEL_HIGH + EarlySize
  BY <1>1, <1>2
<1>4. /\ PageOf(b) \in Nat /\ ROUNDDOWN(b) = PageOf(b) * PAGE_SIZE
      /\ ROUNDDOWN(b) <= b /\ b < ROUNDDOWN(b) + PAGE_SIZE
  BY <1>3, AddressPage
<1>5. KernelPage \in Nat /\ KERNEL_HIGH = KernelPage * PAGE_SIZE
  <2>1. 0 \in 0 .. (PT_ENTRIES - 1)
    BY <1>2
  <2>2. QED
    BY <2>1, KernelIndex
<1>6. PICK j \in Slots : PageOf(b) = KernelPage + j
  <2>1. ASSUME NEW n \in Nat \ {0}, NEW m \in Nat \ {0}, NEW p \in Nat, NEW k \in Nat,
               k * n < p * n + n, p * n < k * n + m * n
        PROVE  p - k \in 0 .. (m - 1)
    <3>1. k <= p
      <4>1. p < k => p * n + n <= k * n
        BY MulMono
      <4>2. QED
        BY <2>1, <4>1
    <3>2. p < k + m
      <4>1. (k + m) * n = k * n + m * n /\ (k + m <= p => (k + m) * n <= p * n)
        BY MulMono
      <4>2. QED
        BY <2>1, <4>1
    <3>3. QED
      BY <3>1, <3>2
  <2>2. /\ KernelPage * PAGE_SIZE < PageOf(b) * PAGE_SIZE + PAGE_SIZE
        /\ PageOf(b) * PAGE_SIZE < KernelPage * PAGE_SIZE + PT_ENTRIES * PAGE_SIZE
    <3>1. PageOf(b) * PAGE_SIZE \in Nat /\ KernelPage * PAGE_SIZE \in Nat /\ PT_ENTRIES * PAGE_SIZE \in Nat
      BY <1>2, <1>4, <1>5, PageAddress
    <3>2. QED
      BY <1>2, <1>3, <1>4, <1>5, <3>1
  <2>3. PageOf(b) - KernelPage \in Slots
    BY <1>2, <1>4, <1>5, <2>1, <2>2 DEF Slots
  <2>4. PageOf(b) = KernelPage + (PageOf(b) - KernelPage)
    BY <1>4, <1>5
  <2>5. QED
    BY <2>3, <2>4
<1>7. ROUNDDOWN(b) = KERNEL_HIGH + j * PAGE_SIZE
  <2>1. (KernelPage + j) * PAGE_SIZE = KernelPage * PAGE_SIZE + j * PAGE_SIZE
    BY <1>2, <1>5, MulMono DEF Slots
  <2>2. QED
    BY <1>4, <1>5, <1>6, <2>1
<1>8. TranslatesTo(KERNEL_HIGH + j * PAGE_SIZE, j)
  BY KernelReaches DEF MemInv
<1>9. QED
  BY <1>7, <1>8 DEF TranslatesTo

(* The first page of a region that identity_map has mapped is there. *)
LEMMA FirstPage ==
  ASSUME MapInv, job = NoJob, ~wild, NEW a \in Nat, NEW n \in Nat \ {0}, Region(a, n) \in mapped
  PROVE  TranslatesTo(ROUNDDOWN(a), PageOf(a)) /\ TranslatesTo(a, PageOf(a)) /\ Present(ROUNDDOWN(a))
<1>1. IsRegion(Region(a, n)) /\ Region(a, n).addr = a
  BY RegionFacts
<1>2. ROUNDDOWN(a) \in PagesOf(Region(a, n))
  <2>1. PageCount(Region(a, n)) \in Nat \ {0}
    BY <1>1, RegionPages
  <2>2. 0 \in 0 .. (PageCount(Region(a, n)) - 1) /\ ROUNDDOWN(a) + 0 * PAGE_SIZE = ROUNDDOWN(a)
    BY <2>1, AddressPage, SmallRoundings
  <2>3. QED
    BY <1>1, <2>2 DEF PagesOf, PageCount, PageOf
<1>3. TranslatesTo(ROUNDDOWN(a), PageOf(ROUNDDOWN(a)))
  BY <1>2, PagesAreMapped
<1>4. PageOf(ROUNDDOWN(a)) = PageOf(a) /\ TranslatesTo(a, PageOf(a))
  BY <1>3, AddressPage, ByteTranslates
<1>5. QED
  BY <1>3, <1>4 DEF TranslatesTo

(* Two pages are enough for registers that need not begin on a page. *)
LEMMA TwoPages ==
  ASSUME MapInv, job = NoJob, ~wild, NEW a \in Nat, Region(a, 2) \in mapped
  PROVE  CanTouch(a, PAGE_SIZE)
<1>1. SUFFICES ASSUME NEW b \in a .. (a + PAGE_SIZE - 1) PROVE Present(ROUNDDOWN(b))
  BY DEF CanTouch, Touched
<1>2. PAGE_SIZE \in Nat \ {0} /\ b \in Nat /\ a <= b /\ b < a + PAGE_SIZE
  BY <1>1, Sizes
<1>3. /\ PageOf(b) \in Nat /\ ROUNDDOWN(b) = PageOf(b) * PAGE_SIZE
      /\ ROUNDDOWN(b) <= b /\ b < ROUNDDOWN(b) + PAGE_SIZE
  BY <1>2, AddressPage
<1>4. /\ PageOf(a) \in Nat /\ ROUNDDOWN(a) = PageOf(a) * PAGE_SIZE
      /\ ROUNDDOWN(a) <= a /\ a < ROUNDDOWN(a) + PAGE_SIZE
  BY AddressPage
<1>5. PageOf(b) = PageOf(a) \/ PageOf(b) = PageOf(a) + 1
  <2>1. ASSUME NEW n \in Nat \ {0}, NEW p \in Nat, NEW q \in Nat,
               p * n < q * n + n, q * n < p * n + n + n
        PROVE  q = p \/ q = p + 1
    <3>1. (q < p => q * n + n <= p * n) /\ (p + 1 < q => (p + 1) * n + n <= q * n)
      BY MulMono
    <3>2. (p + 1) * n = p * n + 1 * n /\ 1 * n = n
      BY MulMono
    <3>3. QED
      BY <2>1, <3>1, <3>2
  <2>2. PageOf(a) * PAGE_SIZE \in Nat /\ PageOf(b) * PAGE_SIZE \in Nat
    BY <1>3, <1>4, PageAddress
  <2>3. /\ PageOf(a) * PAGE_SIZE < PageOf(b) * PAGE_SIZE + PAGE_SIZE
        /\ PageOf(b) * PAGE_SIZE < PageOf(a) * PAGE_SIZE + PAGE_SIZE + PAGE_SIZE
    BY <1>2, <1>3, <1>4, <2>2
  <2>4. QED
    BY <1>2, <1>3, <1>4, <2>1, <2>3
<1>6. IsRegion(Region(a, 2)) /\ Region(a, 2).addr = a /\ PageCount(Region(a, 2)) = 2
  <2>1. Region(a, 2).size = 2 * PAGE_SIZE
    BY DEF Region
  <2>2. PageOf(ROUNDUP(2 * PAGE_SIZE)) = 2
    BY PageAddress
  <2>3. QED
    BY <2>1, <2>2, RegionFacts DEF PageCount
<1>7. ROUNDDOWN(b) \in PagesOf(Region(a, 2))
  <2>1. PICK k \in 0 .. 1 : PageOf(b) = PageOf(a) + k
    <3>1. PageOf(a) + 0 = PageOf(a) /\ 0 \in 0 .. 1 /\ 1 \in 0 .. 1
      BY <1>4
    <3>2. QED
      BY <1>5, <3>1
  <2>2. ROUNDDOWN(b) = ROUNDDOWN(a) + k * PAGE_SIZE
    <3>1. (PageOf(a) + k) * PAGE_SIZE = PageOf(a) * PAGE_SIZE + k * PAGE_SIZE
      BY <1>2, <1>4, MulMono
    <3>2. QED
      BY <1>3, <1>4, <2>1, <3>1
  <2>3. k \in 0 .. (PageCount(Region(a, 2)) - 1)
    BY <1>6
  <2>4. QED
    BY <1>6, <2>2, <2>3 DEF PagesOf, PageCount, PageOf
<1>8. QED
  BY <1>7, PagesAreMapped DEF TranslatesTo

(* Something is not where the code expects it. *)
Elsewhere ==
  \/ ~MbiInPlace
  \/ ~InRsdtPage(fw.rsdt, SdtHeader + Len(fw.tables) * Word)
  \/ \E k \in 1 .. Len(fw.tables) : ~InRsdtPage(fw.tables[k].addr, fw.tables[k].len)

Fault == "pagefault_in_kernel_space"

LEMMA TerminalFault ==
  ASSUME MemInv, terminal_initialize, panic' = Fault
  PROVE  FALSE
<1>1. boot = "run" /\ ~wild /\ panic = NoPanic
  BY DEF terminal_initialize, AtBoot
<1>2. CanTouch(KERNEL_HIGH + VgaAddr, 1)
  <2>1. VgaAddr \in Nat /\ 1 \in Nat /\ VgaAddr + 1 <= EarlySize
    BY BootAssumption, Sizes
  <2>2. QED
    BY <1>1, <2>1, KernelBytes
<1>3. QED
  BY <1>1, <1>2 DEF terminal_initialize, Access, GoTo, NoPanic, Fault

LEMMA MmapFault ==
  ASSUME MemInv, WalkInv, print_mmap, panic' = Fault
  PROVE  Elsewhere
<1> DEFINE m == fw.mbi
<1>1. boot = "run" /\ ~wild /\ panic = NoPanic
  BY DEF print_mmap, AtBoot
<1>2. /\ m.addr \in Nat /\ m.len \in Nat \ {0} /\ m.mmap_addr \in Nat /\ m.mmap_length \in Nat
      /\ MmapEntry \in Nat \ {0}
  BY FirmwareFacts, BootAssumption DEF WalkInv, WalkTypeOK
<1>3. MmapSize(m) \in Nat
  BY <1>2 DEF MmapSize
<1>4. SUFFICES ASSUME MbiInPlace PROVE FALSE
  BY DEF Elsewhere
<1>5. /\ ~Overwritten(m.addr, m.len) /\ m.addr + m.len <= EarlySize
      /\ m.mmap /\ MmapSize(m) > 0 => m.mmap_addr + MmapSize(m) <= EarlySize
  BY <1>4 DEF MbiInPlace
<1>6. CanTouch(KERNEL_HIGH + m.addr, m.len)
  BY <1>1, <1>2, <1>5, KernelBytes
<1>7. m.mmap => CanTouch(KERNEL_HIGH + m.mmap_addr, MmapSize(m))
  <2>1. CASE MmapSize(m) = 0
    <3>1. KERNEL_HIGH + m.mmap_addr \in Nat
      BY <1>2, Sizes
    <3>2. (KERNEL_HIGH + m.mmap_addr) .. (KERNEL_HIGH + m.mmap_addr + MmapSize(m) - 1) = {}
      BY <2>1, <3>1
    <3>3. QED
      BY <3>2 DEF CanTouch, Touched
  <2>2. CASE MmapSize(m) > 0
    BY <1>1, <1>2, <1>3, <1>5, <2>2, KernelBytes
  <2>3. QED
    BY <1>3, <2>1, <2>2
<1> HIDE DEF m
<1>8. /\ \/ Access(KERNEL_HIGH + m.addr, m.len,
              IF m.mmap THEN Access(KERNEL_HIGH + m.mmap_addr, MmapSize(m),
                                    GoTo("find_rsdt") /\ UNCHANGED <<vars, devVars>>)
                        ELSE GoTo("find_rsdt") /\ UNCHANGED <<vars, devVars>>)
         \/ Overwritten(m.addr, m.len) /\ pagefault_irq
  BY DEF print_mmap, m
<1>9. QED
  BY <1>1, <1>5, <1>6, <1>7, <1>8 DEF Access, GoTo, NoPanic, Fault

(* A part of what is in the page of the RSDT can be read. *)
LEMMA RsdtPage ==
  ASSUME MemInv, WalkInv, job = NoJob, ~wild, bpc \in AfterRsdt,
         NEW a \in Nat, NEW len \in Nat, InRsdtPage(a, len),
         NEW b \in Nat, NEW part \in Nat, a <= b, b + part <= a + len
  PROVE  CanTouch(b, part)
<1>1. fw.rsdt \in Nat /\ Region(fw.rsdt, 1) \in mapped
  BY FirmwareFacts DEF WalkInv, WalkTypeOK, RegionInv
<1>2. Present(ROUNDDOWN(fw.rsdt))
  <2>1. 1 \in Nat \ {0}
    OBVIOUS
  <2>2. QED
    BY <1>1, <2>1, FirstPage DEF MemInv
<1>3. b .. (b + part - 1) \subseteq a .. (a + len - 1)
  OBVIOUS
<1>4. Touched(b, part) \subseteq {ROUNDDOWN(fw.rsdt)}
  BY <1>3 DEF InRsdtPage, Touched
<1>5. QED
  BY <1>2, <1>4 DEF CanTouch

(* Where the RSDT and its tables are in that page, all that is read is.    *)
LEMMA TableReads ==
  ASSUME MemInv, WalkInv, job = NoJob, ~wild, bpc \in AfterRsdt, ~Elsewhere
  PROVE  /\ CanTouch(fw.rsdt + Word, Word)
         /\ ~(i > Len(fw.tables)) =>
              /\ CanTouch(fw.rsdt + SdtHeader + (i - 1) * Word, Word)
              /\ CanTouch(fw.tables[i].addr + Word, Word)
              /\ CanTouch(fw.tables[i].addr, fw.tables[i].len)
              /\ CanTouch(fw.tables[i].addr, Word)
<1>1. /\ i \in Nat \ {0} /\ Len(fw.tables) \in Nat /\ fw.rsdt \in Nat
      /\ Word \in Nat \ {0} /\ SdtHeader \in Nat /\ SdtHeader >= 2 * Word
  BY FirmwareFacts, BootAssumption DEF WalkInv, WalkTypeOK
<1>2. PICK n \in Nat : n = Len(fw.tables) * Word
  BY <1>1
<1>3. InRsdtPage(fw.rsdt, SdtHeader + n) /\ SdtHeader + n \in Nat
  BY <1>1, <1>2 DEF Elsewhere
<1>4. CanTouch(fw.rsdt + Word, Word)
  <2>1. /\ fw.rsdt + Word \in Nat /\ fw.rsdt <= fw.rsdt + Word
        /\ fw.rsdt + Word + Word <= fw.rsdt + (SdtHeader + n)
    BY <1>1
  <2>2. QED
    BY <1>1, <1>3, <2>1, RsdtPage
<1>5. ASSUME ~(i > Len(fw.tables))
      PROVE  /\ CanTouch(fw.rsdt + SdtHeader + (i - 1) * Word, Word)
             /\ CanTouch(fw.tables[i].addr + Word, Word)
             /\ CanTouch(fw.tables[i].addr, fw.tables[i].len)
             /\ CanTouch(fw.tables[i].addr, Word)
  <2>1. i \in 1 .. Len(fw.tables)
    BY <1>1, <1>5
  <2>2. PICK m \in Nat : m = (i - 1) * Word
    BY <1>1, <2>1
  <2>3. m + Word <= n
    <3>1. i - 1 \in Nat /\ i - 1 < Len(fw.tables)
      BY <1>1, <2>1
    <3>2. QED
      BY <1>1, <1>2, <2>2, <3>1, MulMono
  <2>4. CanTouch(fw.rsdt + SdtHeader + m, Word)
    <3>1. /\ fw.rsdt + SdtHeader + m \in Nat /\ fw.rsdt <= fw.rsdt + SdtHeader + m
          /\ fw.rsdt + SdtHeader + m + Word <= fw.rsdt + (SdtHeader + n)
      BY <1>1, <2>3
    <3>2. QED
      BY <1>1, <1>3, <3>1, RsdtPage
  <2>5. PICK a \in Nat, l \in Nat : a = fw.tables[i].addr /\ l = fw.tables[i].len /\ l >= 2 * Word
    BY <2>1, FirmwareFacts DEF WalkInv, WalkTypeOK
  <2>6. InRsdtPage(a, l)
    BY <2>1, <2>5 DEF Elsewhere
  <2>7. CanTouch(a + Word, Word) /\ CanTouch(a, l) /\ CanTouch(a, Word)
    <3>1. /\ a + Word \in Nat /\ a <= a + Word /\ a + Word + Word <= a + l /\ a <= a /\ a + l <= a + l
          /\ a + Word <= a + l
      <4>1. PICK w \in Nat : w = Word
        BY <1>1
      <4>2. l >= w + w
        BY <2>5, <4>1
      <4>3. QED
        BY <4>1, <4>2
    <3>2. QED
      BY <1>1, <2>6, <3>1, RsdtPage
  <2>8. QED
    BY <2>2, <2>4, <2>5, <2>7
<1>6. QED
  BY <1>4, <1>5

LEMMA ValidateFault ==
  ASSUME MemInv, WalkInv, acpi_validate_rsdt, panic' = Fault
  PROVE  Elsewhere
<1>1. /\ bpc = "validate" /\ job = NoJob /\ ~wild /\ panic = NoPanic /\ bpc \in AfterRsdt
  BY DEF acpi_validate_rsdt, AtBoot, AfterRsdt
<1>2. SUFFICES ASSUME ~Elsewhere PROVE FALSE
  OBVIOUS
<1>3. /\ CanTouch(fw.rsdt + Word, Word)
      /\ ~(i > Len(fw.tables)) => /\ CanTouch(fw.rsdt + SdtHeader + (i - 1) * Word, Word)
                                  /\ CanTouch(fw.tables[i].addr + Word, Word)
                                  /\ CanTouch(fw.tables[i].addr, fw.tables[i].len)
  BY <1>1, <1>2, TableReads
<1>4. QED
  BY <1>1, <1>3
  DEF acpi_validate_rsdt, ReadLength, ReadEntry, ReadTable, Access, GoTo, Panic, NoPanic, Fault

LEMMA FindSdtFault ==
  ASSUME MemInv, WalkInv, acpi_find_sdt, panic' = Fault
  PROVE  Elsewhere
<1>1. /\ bpc = "find_sdt" /\ job = NoJob /\ ~wild /\ panic = NoPanic /\ bpc \in AfterRsdt
  BY DEF acpi_find_sdt, AtBoot, AfterRsdt
<1>2. SUFFICES ASSUME ~Elsewhere PROVE FALSE
  OBVIOUS
<1>3. /\ CanTouch(fw.rsdt + Word, Word)
      /\ ~(i > Len(fw.tables)) => /\ CanTouch(fw.rsdt + SdtHeader + (i - 1) * Word, Word)
                                  /\ CanTouch(fw.tables[i].addr, Word)
  BY <1>1, <1>2, TableReads
<1>4. QED
  BY <1>1, <1>3 DEF acpi_find_sdt, ReadLength, ReadEntry, Access, GoTo, Panic, NoPanic, Fault

LEMMA ProgramFault ==
  ASSUME MemInv, WalkInv, ProgramApics, panic' = Fault
  PROVE  FALSE
<1>1. /\ bpc = "program" /\ job = NoJob /\ ~wild /\ panic = NoPanic /\ bpc \in AfterMadt /\ bpc \in AfterMaps
  BY DEF ProgramApics, AtBoot, AfterMadt, AfterMaps, AfterTables, AfterRsdt
<1>2. /\ lapic_ptr \in Nat /\ ioapic_ptr \in Nat
      /\ Region(lapic_ptr, 2) \in mapped /\ Region(ioapic_ptr, 2) \in mapped
  BY <1>1 DEF WalkInv, WalkTypeOK, RegionInv
<1>3. CanTouch(lapic_ptr, PAGE_SIZE) /\ CanTouch(ioapic_ptr, PAGE_SIZE)
  BY <1>1, <1>2, TwoPages DEF MemInv
<1>4. QED
  BY <1>1, <1>3 DEF ProgramApics, Access, GoTo, NoPanic, Fault

(* A step that panics with a page fault is one of these. *)
LEMMA FaultStep ==
  ASSUME MemInv, WalkInv, FaultMeansTableElsewhere, [BootNext]_allVars
  PROVE  FaultMeansTableElsewhere'
<1>1. fw' = fw
  BY DEF allVars, bootVars, devVars, BootNext, BootStep, PagingStep, kernel_main, Calibrate, Clock,
         CallAtaInit, SetupStep, Identify, InAtaInit, TakePage, terminal_initialize, print_mmap,
         acpi_find_rsdt, acpi_validate_rsdt, acpi_find_sdt, ReadLength, ReadEntry, ReadTable, MadtEntry,
         MadtEnd, MapIoapic, ProgramApics, Calibrated, AtaInitReturns, Access, pagefault_irq, Panic
<1>2. (panic = Fault => Elsewhere) /\ (FaultMeansTableElsewhere' <=> (panic' = Fault => Elsewhere))
  BY <1>1 DEF FaultMeansTableElsewhere, Elsewhere, Fault, MbiInPlace, InRsdtPage, Overwritten
<1>3. SUFFICES ASSUME panic' = Fault, panic # Fault PROVE Elsewhere
  BY <1>2
<1>4. \/ terminal_initialize \/ print_mmap \/ acpi_validate_rsdt \/ acpi_find_sdt \/ ProgramApics
  <2>1. panic' # panic
    BY <1>3
  <2>2. ~(acpi_find_rsdt \/ MadtEntry \/ MadtEnd \/ MapIoapic)
    BY <1>3, <2>1 DEF acpi_find_rsdt, MadtEntry, MadtEnd, MapIoapic, GoTo, Panic, Fault
  <2>3. ~(Calibrated \/ AtaInitReturns)
    BY <1>3, <2>1 DEF Calibrated, AtaInitReturns, SetupPanics, GoTo, Panic, Fault
  <2>4. ~(PagingStep \/ Calibrate \/ CallAtaInit \/ SetupStep \/ Clock \/ Identify \/ TakePage)
    BY <2>1 DEF PagingStep, Calibrate, CallAtaInit, SetupStep, Clock, Identify, TakePage, InAtaInit, GoTo,
                bootVars
  <2>5. ~UNCHANGED allVars
    BY <2>1 DEF allVars, bootVars
  <2>6. QED
    BY <2>2, <2>3, <2>4, <2>5 DEF BootNext, BootStep, kernel_main
<1>5. QED
  BY <1>3, <1>4, TerminalFault, MmapFault, ValidateFault, FindSdtFault, ProgramFault

-----------------------------------------------------------------------------
(* The theorems about the boot.                                            *)

BootInv == MemInv /\ WalkInv /\ FaultMeansTableElsewhere

(* The inductive invariant of the boot: the page tables, the walk over the *)
(* firmware's tables, and the faults.                                      *)
THEOREM BootInvariant == BootSpec => []BootInv
<1>1. BootInit => BootInv
  <2>1. SUFFICES ASSUME BootInit PROVE BootInv
    OBVIOUS
  <2>2. MemInv
    BY <2>1, AllocInit, MapInit DEF BootInit, MemInv
  <2>3. FaultMeansTableElsewhere
    BY <2>1 DEF BootInit, NoPanic, FaultMeansTableElsewhere
  <2>4. QED
    BY <2>1, <2>2, <2>3, WalkInit DEF BootInv
<1>2. BootInv /\ [BootNext]_allVars => BootInv'
  BY MemStep, WalkStep, FaultStep DEF BootInv
<1>3. QED
  BY <1>1, <1>2, PTL DEF BootSpec

(* kalloc never gives a frame away twice, and no part of the kernel image, *)
(* whatever the boot maps and the rest of the kernel takes.                *)
THEOREM BootFramesHaveOneUse == BootSpec => []FramesHaveOneUse
<1>1. BootInv => FramesHaveOneUse
  BY OneUse DEF BootInv, MemInv
<1>2. QED
  BY <1>1, BootInvariant, PTL

(* A NULL of kalloc is written through only when the early pages are fewer *)
(* than the tables the mappings need, and the kernel's memory is lost only *)
(* to a call of identity_map that was for it.                              *)
THEOREM BootNoWildWrite == BootSpec => []NoWildWrite
<1>1. BootInv => NoWildWrite
  BY DEF BootInv, MemInv, AllocInv
<1>2. QED
  BY <1>1, BootInvariant, PTL

(* From the load of cr3 on the kernel finds its 4 MiB at KERNEL_HIGH, as   *)
(* long as no table of the firmware and no APIC has an address there: then *)
(* identity_map, which does not look, maps it over the kernel.             *)
THEOREM BootKernelStaysMapped == BootSpec => []KernelStaysMapped
<1>1. BootInv => KernelStaysMapped
  BY KernelIsMapped DEF BootInv, MemInv
<1>2. QED
  BY <1>1, BootInvariant, PTL

(* User code reaches no page but that of userspace_fn, and reaches that    *)
(* one unless something of the machine is mapped in the same page table.   *)
THEOREM BootUserReachesItsPageOnly == BootSpec => []UserReachesItsPageOnly
<1>1. BootInv => UserReachesItsPageOnly
  BY UserIsAlone DEF BootInv, MemInv
<1>2. QED
  BY <1>1, BootInvariant, PTL

(* What identity_map was asked for stays mapped onto itself, but for the   *)
(* page in which a region ends that begins inside another.                 *)
THEOREM BootRegionsStayMapped == BootSpec => []RegionsStayMapped
<1>1. BootInv => RegionsStayMapped
  BY RegionsAreMapped DEF BootInv, MemInv
<1>2. QED
  BY <1>1, BootInvariant, PTL

(* A page fault at boot has its cause in where the boot loader or the      *)
(* firmware has put its data: the RSDT's page, the kernel's memory and the *)
(* APICs are always mapped before they are used.                           *)
THEOREM BootFaultMeansTableElsewhere == BootSpec => []FaultMeansTableElsewhere
<1>1. BootInv => FaultMeansTableElsewhere
  BY DEF BootInv
<1>2. QED
  BY <1>1, BootInvariant, PTL

(* The scheduler starts only with valid tables and with both APICs of the  *)
(* MADT mapped.                                                            *)
THEOREM BootApicsReachable == BootSpec => []ApicsReachable
<1>1. ASSUME BootInv, AtBoot("scheduler_start")
      PROVE  /\ \A k \in 1 .. Len(fw.tables) : fw.tables[k].valid
             /\ \E k \in Reached(fw.madt) :
                  /\ fw.madt[k].ioapic /\ TranslatesTo(fw.madt[k].value, PageOf(fw.madt[k].value))
                  /\ ioapic_ptr = fw.madt[k].value
                  /\ \A j \in Reached(fw.madt) : fw.madt[j].ioapic => j <= k
             /\ TranslatesTo(fw.lapic, PageOf(fw.lapic))
  <2>1. /\ bpc = "scheduler_start" /\ job = NoJob /\ ~wild
        /\ bpc \in AfterTables /\ bpc \in AfterMadt /\ bpc \in AfterMaps
    BY <1>1 DEF AtBoot, AfterMaps, AfterMadt, AfterTables, AfterRsdt
  <2>2. WalkTypeOK /\ TablesInv /\ ApicInv /\ RegionInv /\ MapInv
    BY <1>1 DEF BootInv, WalkInv, MemInv
  <2>3. /\ lapic_ptr \in Nat /\ ioapic_ptr \in Nat /\ lapic_ptr = fw.lapic /\ 2 \in Nat \ {0}
        /\ Region(lapic_ptr, 2) \in mapped /\ Region(ioapic_ptr, 2) \in mapped
    BY <2>1, <2>2 DEF WalkTypeOK, ApicInv, RegionInv
  <2>4. TranslatesTo(lapic_ptr, PageOf(lapic_ptr)) /\ TranslatesTo(ioapic_ptr, PageOf(ioapic_ptr))
    BY <2>1, <2>2, <2>3, FirstPage
  <2>5. PICK k \in Reached(fw.madt) :
          /\ fw.madt[k].ioapic /\ fw.madt[k].value = ioapic_ptr
          /\ \A j \in Reached(fw.madt) : fw.madt[j].ioapic => j <= k
    BY <2>1, <2>2 DEF ApicInv, LastIoapic
  <2>6. \A j \in 1 .. Len(fw.tables) : fw.tables[j].valid
    BY <2>1, <2>2 DEF TablesInv, TableValid
  <2>7. QED
    BY <2>3, <2>4, <2>5, <2>6
<1>2. BootInv => ApicsReachable
  BY <1>1 DEF ApicsReachable
<1>3. QED
  BY <1>2, BootInvariant, PTL
=============================================================================
