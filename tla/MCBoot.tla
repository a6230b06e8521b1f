------------------------------- MODULE MCBoot -------------------------------
(***************************************************************************)
(* Boots on 8-byte pages: the RSDT begins inside the page at 8 and the     *)
(* registers of the APICs are above the kernel.  The layouts are           *)
(* combinations of tables in and out of the RSDT's page, across its end    *)
(* and beyond, with and without the MADT, and of what the MADT lists; a    *)
(* few have an APIC in the 4 MiB of the kernel or of the user's page.      *)
(* kalloc has pages enough for most of them, and just not for the one that *)
(* needs a table for each part of the address space.                       *)
(***************************************************************************)
EXTENDS Boot, TLC

Place(a, l, m, v) == [addr |-> a, len |-> l, madt |-> m, valid |-> v]

(* The RSDT at 13 has its second entry in the next page. *)
Roots == {[rsdt |-> 10, tables |-> <<Place(8, 2, FALSE, TRUE), Place(14, 2, TRUE, TRUE)>>],
          [rsdt |-> 10, tables |-> <<Place(8, 2, TRUE, TRUE), Place(15, 2, FALSE, TRUE)>>],
          [rsdt |-> 10, tables |-> <<Place(14, 4, TRUE, TRUE)>>],
          [rsdt |-> 10, tables |-> <<Place(40, 2, TRUE, TRUE)>>],
          [rsdt |-> 10, tables |-> <<Place(8, 2, FALSE, TRUE), Place(14, 2, FALSE, TRUE)>>],
          [rsdt |-> 10, tables |-> <<Place(8, 2, TRUE, TRUE), Place(14, 2, FALSE, FALSE)>>],
          [rsdt |-> 13, tables |-> <<Place(8, 2, TRUE, TRUE), Place(10, 2, FALSE, TRUE)>>],
          [rsdt |-> 13, tables |-> <<Place(8, 3, TRUE, TRUE)>>]}

Ioapic(a, l) == [ioapic |-> TRUE, value |-> a, length |-> l]
Cpu(l)       == [ioapic |-> FALSE, value |-> 0, length |-> l]

(* A byte inside an entry, which reads as the I/O APIC it is not. *)
Inside == Ioapic(376, 0)

(* 328 and 352 share a page table, 32 and the RSDT another; 304 has its    *)
(* own.  Two have an entry of length 0, the second one out of the walk's   *)
(* way; the first length of the last one leads it into the middle of the  *)
(* next entry.                                                             *)
Madts == {<<Cpu(2), Inside, Ioapic(352, 2), Inside, Cpu(2), Inside>>,
          <<Ioapic(352, 2), Inside, Ioapic(304, 1)>>,
          <<Ioapic(304, 1), Ioapic(32, 1)>>,
          <<Cpu(1)>>,
          <<Ioapic(352, 1), Cpu(0), Ioapic(304, 1)>>,
          <<Cpu(2), Cpu(0), Ioapic(352, 3)>>,
          <<Cpu(3), Inside, Ioapic(352, 2), Ioapic(304, 1)>>}

Mbi(a, l, has, ma, ml) ==
  [addr |-> a, len |-> l, mmap |-> has, mmap_addr |-> ma, mmap_length |-> ml]

(* Below the kernel, as it should be, across the end of it into the pages  *)
(* of kalloc, and above the 4 MiB; the map itself there too.               *)
LowMbi == Mbi(1, 2, TRUE, 3, 3)
Mbis == {LowMbi, Mbi(0, 2, FALSE, 90, 4), Mbi(1, 2, TRUE, 4, 0), Mbi(15, 2, TRUE, 3, 4),
         Mbi(90, 2, FALSE, 0, 0), Mbi(1, 2, TRUE, 62, 3)}

Firmware(m, p, root, lapic, madt) ==
  [mbi |-> m, rsdp |-> p, rsdt |-> root.rsdt, tables |-> root.tables, lapic |-> lapic, madt |-> madt]

HighRoot == [rsdt |-> 58, tables |-> <<Place(61, 2, TRUE, TRUE)>>]

(* The APIC in the user's page, beside it and in the kernel's pages. *)
MCFirmwares ==
  {Firmware(LowMbi, TRUE, root, lapic, madt) : root \in Roots, lapic \in {328, 0}, madt \in Madts}
    \cup {Firmware(LowMbi, FALSE, [rsdt |-> 10, tables |-> <<>>], 328, <<>>)}
    \cup {Firmware(mbi, TRUE, HighRoot, 328, madt) : mbi \in Mbis, madt \in Madts}
    \cup {Firmware(LowMbi, TRUE, HighRoot, lapic, <<Ioapic(352, 1)>>) : lapic \in {203, 216, 144}}

(* Functions 0 to 2 of slots 0 and 1.  A function 1 of a device that says  *)
(* it has no more is not visible.  The lists of capabilities begin at 0,   *)
(* end, or go round for ever.                                              *)
Func(ide, multi, caps, cap) ==
  [ide |-> ide, multi |-> multi, caps |-> caps, cap |-> cap,
   next |-> 0 :> 3 @@ 1 :> 3 @@ 2 :> 0 @@ 3 :> 2 @@ 4 :> 5 @@ 5 :> 4]
NoCaps(ide, multi) == Func(ide, multi, FALSE, 1)

MCMachines ==
  [funcs : {<<0, 0>> :> NoCaps(FALSE, FALSE) @@ <<0, 1>> :> NoCaps(TRUE, FALSE)
              @@ <<1, 0>> :> NoCaps(FALSE, TRUE) @@ <<1, 2>> :> Func(TRUE, TRUE, TRUE, 1),
            <<1, 0>> :> NoCaps(TRUE, FALSE)},
   drive : {"none", "packet", "disk", "faulty"}]
    \cup {[funcs |-> <<0, 0>> :> NoCaps(FALSE, TRUE), drive |-> "none"]}
    \cup [funcs : {<<0, 0>> :> Func(TRUE, FALSE, TRUE, c) : c \in {0, 4}}, drive : {"disk"}]
=============================================================================
