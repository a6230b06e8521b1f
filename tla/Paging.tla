------------------------------- MODULE Paging -------------------------------
(***************************************************************************)
(* The page allocator and the page tables of paging.c.                     *)
(*                                                                         *)
(* Addresses are byte addresses; a frame is a physical page, named by its  *)
(* number.  The 4 MiB that boot.S maps are one page table's worth of       *)
(* pages, so the free list only ever holds frames below PT_ENTRIES.        *)
(* map_continous is one action for each turn of its loop: a failing        *)
(* allocation stops it halfway.                                            *)
(***************************************************************************)
EXTENDS Naturals, Sequences, FiniteSets

CONSTANTS
  PAGE_SIZE,
  PT_ENTRIES,       \* entries of a page table, and pages of the early 4 MiB
  PD_ENTRIES,       \* entries of the page directory
  KERNEL_HIGH,      \* where the kernel is mapped
  KERNEL_END,       \* the end of the kernel image, as a virtual address
  USERSPACE_START   \* the page of userspace_fn, as a virtual address

PageOf(addr) == addr \div PAGE_SIZE
ROUNDDOWN(addr) == addr - (addr % PAGE_SIZE)
ROUNDUP(addr) == ROUNDDOWN(addr + PAGE_SIZE - 1)
PGDIR_IDX(addr) == (PageOf(addr) \div PT_ENTRIES) % PD_ENTRIES
PT_IDX(addr) == PageOf(addr) % PT_ENTRIES
virt2phys(addr) == addr - KERNEL_HIGH

EarlySize == PT_ENTRIES * PAGE_SIZE

ASSUME PagingAssumption ==
  /\ PAGE_SIZE \in Nat \ {0} /\ PT_ENTRIES \in Nat \ {0} /\ PD_ENTRIES \in Nat \ {0}
  /\ KERNEL_HIGH \in Nat /\ KERNEL_HIGH % EarlySize = 0
  /\ KERNEL_END \in KERNEL_HIGH .. (KERNEL_HIGH + EarlySize)
  /\ USERSPACE_START \in KERNEL_HIGH .. (PD_ENTRIES * EarlySize - 1)
  /\ USERSPACE_START % PAGE_SIZE = 0
  /\ PGDIR_IDX(USERSPACE_START) # PGDIR_IDX(KERNEL_HIGH)

VARIABLES
  freelist,      \* kalloc_head.freelist_head and the list behind it
  kernel_pgdir,  \* the frames kernel_pgdir points to: none, or one
  pgdir,         \* what is in that frame
  tables,        \* what is in the frames used as page tables
  owned,         \* the frames kalloc has given to the rest of the kernel
  cr3,           \* which page directory the CPU uses
  job,           \* the arguments of the map_continous that runs, as they are now
  boot,          \* how far init_kernel_paging is
  mapped,        \* history: the regions that identity_map has mapped
  wild           \* a NULL of kalloc was written through, or the kernel's own pages
                 \* were mapped elsewhere: the model ends there

memVars == <<freelist, kernel_pgdir, pgdir, tables>>
vars == <<memVars, owned, cr3, job, boot, mapped, wild>>

NoEntry == [present |-> FALSE, flags |-> {}, frame |-> 0]
NoTable == [i \in 0 .. (PT_ENTRIES - 1) |-> NoEntry]
NoJob == [addr |-> 0, size |-> 0, phys |-> 0, flags |-> {}]

PT_WRITEABLE == "writeable"
PT_USER == "user"

Init ==
  /\ freelist = <<>>
  /\ kernel_pgdir = {}
  /\ pgdir = [i \in 0 .. (PD_ENTRIES - 1) |-> NoEntry]
  /\ tables = [f \in {} |-> NoTable]
  /\ owned = {}
  /\ cr3 = "early"
  /\ job = NoJob
  /\ boot = "kalloc"
  /\ mapped = {}
  /\ wild = FALSE

-----------------------------------------------------------------------------
FirstFree == PageOf(ROUNDUP(virt2phys(KERNEL_END)))

(* Mutant: the page the kernel image ends in is given away too. *)
init_kalloc_earlyDown ==
  /\ boot = "kalloc"
  /\ freelist' = [i \in 1 .. (PT_ENTRIES - PageOf(virt2phys(KERNEL_END))) |-> PT_ENTRIES - i]
  /\ boot' = "pgdir"
  /\ UNCHANGED <<kernel_pgdir, pgdir, tables, owned, cr3, job, mapped, wild>>

(* Every page from the end of the image to the end of the early mapping,   *)
(* the last one at the head.                                               *)
init_kalloc_early ==
  /\ boot = "kalloc"
  /\ freelist' = [i \in 1 .. (PT_ENTRIES - FirstFree) |-> PT_ENTRIES - i]
  /\ boot' = "pgdir"
  /\ UNCHANGED <<kernel_pgdir, pgdir, tables, owned, cr3, job, mapped, wild>>

(* What is left after kalloc; the page is the head. *)
AfterKalloc == Tail(freelist)

(* kalloc's callers outside: task_setup and ext2_init.  NULL is checked by *)
(* the one, and not by the other.                                          *)
kalloc_owned ==
  /\ boot = "run" /\ job = NoJob
  /\ freelist # <<>>
  /\ owned' = owned \cup {Head(freelist)}
  /\ freelist' = AfterKalloc
  /\ UNCHANGED <<kernel_pgdir, pgdir, tables, cr3, job, boot, mapped, wild>>

(* Mutant: a new table for every page. *)
NewTableAlways(d) == TRUE

(* alloc_page finds no page table for entry d of the directory. *)
NewTable(d) == ~pgdir[d].present

(* Mutant: the directory entry never gets PT_USER. *)
AllocDirEntryKernel(d, flags) ==
  [present |-> TRUE, flags |-> {},
   frame |-> IF NewTable(d) THEN Head(freelist) ELSE pgdir[d].frame]

(* alloc_page: the directory entry is written anew, with the flags of this *)
(* call, whether or not the table was there; PT_WRITEABLE is not among     *)
(* them.                                                                   *)
AllocDirEntry(d, flags) ==
  [present |-> TRUE, flags |-> flags \cap {PT_USER},
   frame |-> IF NewTable(d) THEN Head(freelist) ELSE pgdir[d].frame]

(* Mutant: phys_addr is advanced before it is used. *)
TurnAhead(pte, j) == [pte EXCEPT ![PT_IDX(j.addr)] =
                      [present |-> TRUE, flags |-> j.flags, frame |-> PageOf(j.phys) + 1]]

(* *pte = phys_addr | PT_PRESENT | flags *)
Turn(pte, j) == [pte EXCEPT ![PT_IDX(j.addr)] =
                   [present |-> TRUE, flags |-> j.flags, frame |-> PageOf(j.phys)]]

(* Mutant: once cr3 is loaded, a page table is cleared whenever it is used. *)
TableBeforeCleared(d, f) == IF NewTable(d) \/ cr3 = "kernel" THEN NoTable ELSE tables[f]

(* A new page table is cleared before its first entry is set. *)
TableBefore(d, f) == IF NewTable(d) THEN NoTable ELSE tables[f]

(* Nothing keeps a caller away from the table of the kernel's 4 MiB: the   *)
(* kernel page that has this entry is gone, with what is in it.            *)
RemapsKernel(d) == cr3 = "kernel" /\ d = PGDIR_IDX(KERNEL_HIGH)

(* One turn of map_continous.  A NULL from alloc_page is written through.  *)
MapPage ==
  /\ job.size > 0 /\ ~wild
  /\ LET d == PGDIR_IDX(job.addr)
         e == AllocDirEntry(d, job.flags)
     IN IF NewTable(d) /\ freelist = <<>>
          THEN wild' = TRUE /\ UNCHANGED memVars
          ELSE /\ freelist' = IF NewTable(d) THEN AfterKalloc ELSE freelist
               /\ pgdir' = [pgdir EXCEPT ![d] = e]
               /\ tables' = [f \in DOMAIN tables \cup {e.frame} |->
                               IF f # e.frame THEN tables[f]
                               ELSE Turn(TableBefore(d, f), job)]
               /\ wild' = RemapsKernel(d)
               /\ UNCHANGED kernel_pgdir
  /\ job' = IF job.size = PAGE_SIZE THEN NoJob
            ELSE [addr |-> job.addr + PAGE_SIZE, size |-> job.size - PAGE_SIZE,
                  phys |-> job.phys + PAGE_SIZE, flags |-> job.flags]
  /\ UNCHANGED <<owned, cr3, boot, mapped>>

(* A call of map_continous: its three roundings. *)
map_continous(addr, size, phys, flags) ==
  job' = [addr |-> ROUNDDOWN(addr), size |-> ROUNDUP(size),
          phys |-> ROUNDDOWN(phys), flags |-> flags]

(* init_kernel_paging: the directory, the two mappings and the load of cr3.*)
PgdirAlloc ==
  /\ boot = "pgdir"
  /\ IF freelist = <<>>
       THEN wild' = TRUE /\ UNCHANGED <<freelist, kernel_pgdir, boot, job>>
       ELSE /\ kernel_pgdir' = {Head(freelist)}
            /\ freelist' = AfterKalloc
            /\ map_continous(KERNEL_HIGH, EarlySize, 0, {PT_WRITEABLE})
            /\ boot' = "kernel"
            /\ UNCHANGED wild
  /\ UNCHANGED <<pgdir, tables, owned, cr3, mapped>>

MapUser ==
  /\ boot = "kernel" /\ job = NoJob
  /\ map_continous(USERSPACE_START, PAGE_SIZE, virt2phys(USERSPACE_START),
                   {PT_USER, PT_WRITEABLE})
  /\ boot' = "user"
  /\ UNCHANGED <<memVars, owned, cr3, mapped, wild>>

load_cr3 ==
  /\ boot = "user" /\ job = NoJob
  /\ cr3' = "kernel"
  /\ boot' = "run"
  /\ UNCHANGED <<memVars, owned, job, mapped, wild>>

(* acpi.c and apic.c call it for tables and registers of the machine. *)
identity_map(r) ==
  /\ boot = "run" /\ job = NoJob
  /\ map_continous(r.addr, r.size, r.addr, {PT_WRITEABLE})
  /\ mapped' = mapped \cup {r}
  /\ UNCHANGED <<memVars, owned, cr3, boot, wild>>

init_kernel_paging == PgdirAlloc \/ MapPage \/ MapUser \/ load_cr3

-----------------------------------------------------------------------------
DirEntry(addr) == pgdir[PGDIR_IDX(addr)]
TableEntry(addr) == tables[DirEntry(addr).frame][PT_IDX(addr)]
Present(addr) == DirEntry(addr).present /\ TableEntry(addr).present

(* Where an access of the kernel, or of user code, ends.  The kernel runs  *)
(* with CR0.WP clear, so writing needs no more than reading.               *)
TranslatesTo(addr, frame) == Present(addr) /\ TableEntry(addr).frame = frame
UserReaches(addr) ==
  Present(addr) /\ PT_USER \in DirEntry(addr).flags /\ PT_USER \in TableEntry(addr).flags

KernelPages == {KERNEL_HIGH + p * PAGE_SIZE : p \in 0 .. (PT_ENTRIES - 1)}
AllPages == {p * PAGE_SIZE : p \in 0 .. (PD_ENTRIES * PT_ENTRIES - 1)}

(* The pages of r that identity_map maps: as many as r.size needs from the *)
(* page r.addr is in.                                                      *)
PagesOf(r) == {ROUNDDOWN(r.addr) + k * PAGE_SIZE : k \in 0 .. (ROUNDUP(r.size) \div PAGE_SIZE - 1)}

(* Every frame kalloc manages has one use: it is free, or the directory,   *)
(* or one page table, or a stack or buffer of the rest of the kernel; and  *)
(* none of them is part of the kernel image.                               *)
FramesHaveOneUse ==
  LET free == {freelist[i] : i \in 1 .. Len(freelist)}
      uses == <<free, kernel_pgdir, DOMAIN tables, owned>>
  IN  /\ Cardinality(free) = Len(freelist)
      /\ \A i, j \in 1 .. 4 : i < j => uses[i] \cap uses[j] = {}
      /\ \A f \in UNION {uses[i] : i \in 1 .. 4} :
           KERNEL_HIGH + f * PAGE_SIZE >= KERNEL_END /\ f < PT_ENTRIES
      /\ \A d, c \in DOMAIN pgdir :
           d # c /\ pgdir[d].present /\ pgdir[c].present => pgdir[d].frame # pgdir[c].frame

(* Some call of identity_map was for a page in the page table of addr. *)
Asked(addr) == \E r \in mapped : \E a \in PagesOf(r) : PGDIR_IDX(a) = PGDIR_IDX(addr)

(* From the load of cr3 on the kernel finds all of its 4 MiB, and the page *)
(* tables in it, at KERNEL_HIGH, unless identity_map is asked for a part   *)
(* of them: no other mapping, and no page table that is allocated for one, *)
(* takes a page of the kernel away.                                        *)
KernelStaysMapped ==
  cr3 = "kernel" /\ ~Asked(KERNEL_HIGH) =>
    \A a \in KernelPages : TranslatesTo(a, PageOf(virt2phys(a)))

(* User code reaches nothing of the machine but its own page, and it       *)
(* reaches that one unless identity_map is asked for a page in the same    *)
(* page table: alloc_page takes PT_USER from the directory entry then.     *)
UserReachesItsPageOnly ==
  cr3 = "kernel" =>
    /\ \A a \in AllPages : UserReaches(a) => a = USERSPACE_START
    /\ ~Asked(USERSPACE_START) =>
         /\ TranslatesTo(USERSPACE_START, PageOf(virt2phys(USERSPACE_START)))
         /\ UserReaches(USERSPACE_START)

(* The size is rounded without the offset of the address, so a region that *)
(* begins inside a page may lack the page it ends in.                      *)
LastPageMayLack(r, b) ==
  /\ r.addr % PAGE_SIZE # 0 /\ PageOf(b) # PageOf(r.addr)
  /\ PageOf(b) = PageOf(r.addr + r.size - 1)

(* The bytes identity_map was asked for are mapped, onto themselves, and   *)
(* stay so whatever is mapped later; the end of an unaligned region is the *)
(* exception.                                                              *)
RegionsStayMapped ==
  job = NoJob /\ ~wild =>
    \A r \in mapped : \A b \in r.addr .. (r.addr + r.size - 1) :
      LastPageMayLack(r, b) \/ TranslatesTo(b, PageOf(b))

(* The pages needed so far: the directory, a table for each part of the    *)
(* address space that is mapped, and what the rest of the kernel took.     *)
PagesNeeded ==
  LET addrs == {KERNEL_HIGH, USERSPACE_START} \cup UNION {PagesOf(r) : r \in mapped}
  IN  1 + Cardinality({PGDIR_IDX(a) : a \in addrs}) + Cardinality(owned)

(* While there are so many pages, and identity_map is not asked for a part *)
(* of the kernel's 4 MiB, no call writes through the NULL of kalloc or     *)
(* takes the kernel's memory away: a page table that is there is used      *)
(* again.                                                                  *)
NoWildWrite == wild => PT_ENTRIES - FirstFree < PagesNeeded \/ Asked(KERNEL_HIGH)
=============================================================================
