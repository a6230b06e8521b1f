---------------------------- MODULE PagingProofs ----------------------------
(***************************************************************************)
(* Proofs about the steps of module Paging, for every size of pages and    *)
(* page tables.  Module BootProofs puts them together for the boot.        *)
(***************************************************************************)
EXTENDS Paging, FiniteSetTheorems, TLAPS

-----------------------------------------------------------------------------
(* Addresses and page numbers.                                             *)

KernelPage == PageOf(KERNEL_HIGH)
UserPage == PageOf(USERSPACE_START)
KernelDir == PGDIR_IDX(KERNEL_HIGH)
UserDir == PGDIR_IDX(USERSPACE_START)
UserSlot == PT_IDX(USERSPACE_START)

LEMMA DivMul ==
  ASSUME NEW n \in Nat \ {0}, NEW q \in Nat, NEW r \in 0 .. (n - 1)
  PROVE  (q * n + r) \div n = q /\ (q * n + r) % n = r /\ q * n \in Nat
OBVIOUS

LEMMA DivMod ==
  ASSUME NEW n \in Nat \ {0}, NEW a \in Nat
  PROVE  /\ a \div n \in Nat /\ a % n \in 0 .. (n - 1)
         /\ a = (a \div n) * n + (a % n) /\ a - (a % n) = (a \div n) * n
OBVIOUS

LEMMA DivMulZero ==
  ASSUME NEW n \in Nat \ {0}, NEW q \in Nat
  PROVE  (q * n) \div n = q /\ (q * n) % n = 0 /\ q * n \in Nat
OBVIOUS

LEMMA Divides ==
  ASSUME NEW n \in Nat \ {0}, NEW a \in Nat, a % n = 0
  PROVE  a \div n \in Nat /\ a = (a \div n) * n
OBVIOUS

LEMMA MulMono ==
  ASSUME NEW n \in Nat \ {0}, NEW p \in Nat, NEW q \in Nat
  PROVE  /\ p <= q => p * n <= q * n
         /\ p < q => p * n + n <= q * n
         /\ (p + q) * n = p * n + q * n
         /\ p * n = q * n => p = q
OBVIOUS

(* A multiple of m * n is a multiple of n, and so is the quotient of m. *)
LEMMA ModProduct ==
  ASSUME NEW m \in Nat \ {0}, NEW n \in Nat \ {0}, NEW a \in Nat, a % (m * n) = 0
  PROVE  a % n = 0 /\ (a \div n) % m = 0
<1>1. m * n \in Nat \ {0}
  OBVIOUS
<1>2. PICK q \in Nat : a = q * (m * n)
  BY <1>1, Divides
<1>3. q * m \in Nat /\ a = (q * m) * n
  BY <1>2
<1>4. a \div n = q * m /\ a % n = 0
  BY <1>3, DivMulZero
<1>5. (q * m) % m = 0
  BY DivMulZero
<1>6. QED
  BY <1>4, <1>5

LEMMA Sizes ==
  /\ PAGE_SIZE \in Nat \ {0} /\ PT_ENTRIES \in Nat \ {0} /\ PD_ENTRIES \in Nat \ {0}
  /\ KERNEL_HIGH \in Nat /\ KERNEL_END \in Nat /\ USERSPACE_START \in Nat
  /\ EarlySize \in Nat \ {0} /\ EarlySize = PT_ENTRIES * PAGE_SIZE
BY PagingAssumption DEF EarlySize

(* The address of a page. *)
LEMMA PageAddress ==
  ASSUME NEW p \in Nat
  PROVE  /\ p * PAGE_SIZE \in Nat /\ PageOf(p * PAGE_SIZE) = p
         /\ ROUNDDOWN(p * PAGE_SIZE) = p * PAGE_SIZE /\ ROUNDUP(p * PAGE_SIZE) = p * PAGE_SIZE
<1>1. p * PAGE_SIZE \in Nat
  BY Sizes
<1>2. PageOf(p * PAGE_SIZE) = p /\ ROUNDDOWN(p * PAGE_SIZE) = p * PAGE_SIZE
  <2>1. (p * PAGE_SIZE) \div PAGE_SIZE = p /\ (p * PAGE_SIZE) % PAGE_SIZE = 0
    BY Sizes, DivMulZero
  <2>2. QED
    BY <1>1, <2>1 DEF PageOf, ROUNDDOWN
<1>3. p * PAGE_SIZE + PAGE_SIZE - 1 = p * PAGE_SIZE + (PAGE_SIZE - 1)
      /\ PAGE_SIZE - 1 \in 0 .. (PAGE_SIZE - 1)
  BY <1>1, Sizes
<1>4. (p * PAGE_SIZE + (PAGE_SIZE - 1)) % PAGE_SIZE = PAGE_SIZE - 1
  BY <1>3, Sizes, DivMul
<1>5. ROUNDUP(p * PAGE_SIZE) = p * PAGE_SIZE
  BY <1>1, <1>3, <1>4, Sizes DEF ROUNDUP, ROUNDDOWN
<1>6. QED
  BY <1>1, <1>2, <1>5

(* The page of an address. *)
LEMMA AddressPage ==
  ASSUME NEW a \in Nat
  PROVE  /\ PageOf(a) \in Nat /\ ROUNDDOWN(a) = PageOf(a) * PAGE_SIZE
         /\ ROUNDDOWN(a) \in Nat /\ PageOf(ROUNDDOWN(a)) = PageOf(a)
         /\ ROUNDDOWN(a) <= a /\ a < ROUNDDOWN(a) + PAGE_SIZE
         /\ PGDIR_IDX(ROUNDDOWN(a)) = PGDIR_IDX(a) /\ PT_IDX(ROUNDDOWN(a)) = PT_IDX(a)
<1>1. PageOf(a) \in Nat /\ ROUNDDOWN(a) = PageOf(a) * PAGE_SIZE
  BY Sizes, DivMod DEF PageOf, ROUNDDOWN
<1>2. ROUNDDOWN(a) \in Nat /\ PageOf(ROUNDDOWN(a)) = PageOf(a)
  BY <1>1, PageAddress
<1>3. ROUNDDOWN(a) <= a /\ a < ROUNDDOWN(a) + PAGE_SIZE
  BY Sizes, DivMod DEF ROUNDDOWN
<1>4. QED
  BY <1>1, <1>2, <1>3 DEF PGDIR_IDX, PT_IDX

LEMMA IndexRange ==
  ASSUME NEW a \in Nat
  PROVE  PGDIR_IDX(a) \in 0 .. (PD_ENTRIES - 1) /\ PT_IDX(a) \in 0 .. (PT_ENTRIES - 1)
<1>1. PageOf(a) \in Nat
  BY AddressPage
<1>2. PageOf(a) \div PT_ENTRIES \in Nat /\ PageOf(a) % PT_ENTRIES \in 0 .. (PT_ENTRIES - 1)
  BY <1>1, Sizes, DivMod
<1>3. QED
  BY <1>2, Sizes, DivMod DEF PGDIR_IDX, PT_IDX

(* Two addresses below the end of the address space that use the same      *)
(* entry of the same table are in one page.                                *)
LEMMA SameEntry ==
  ASSUME NEW a \in Nat, NEW b \in Nat,
         PageOf(a) < PD_ENTRIES * PT_ENTRIES, PageOf(b) < PD_ENTRIES * PT_ENTRIES,
         PGDIR_IDX(a) = PGDIR_IDX(b), PT_IDX(a) = PT_IDX(b)
  PROVE  PageOf(a) = PageOf(b)
<1>1. ASSUME NEW m \in Nat \ {0}, NEW n \in Nat \ {0}, NEW p \in Nat, p < m * n
      PROVE  (p \div n) % m = p \div n
  BY <1>1
<1>2. PageOf(a) \in Nat /\ PageOf(b) \in Nat
  BY AddressPage
<1>3. PageOf(a) \div PT_ENTRIES = PageOf(b) \div PT_ENTRIES
  BY <1>1, <1>2, Sizes DEF PGDIR_IDX
<1>4. PageOf(a) % PT_ENTRIES = PageOf(b) % PT_ENTRIES
  BY DEF PT_IDX
<1>5. /\ PageOf(a) = (PageOf(a) \div PT_ENTRIES) * PT_ENTRIES + (PageOf(a) % PT_ENTRIES)
      /\ PageOf(b) = (PageOf(b) \div PT_ENTRIES) * PT_ENTRIES + (PageOf(b) % PT_ENTRIES)
  BY <1>2, Sizes, DivMod
<1>6. QED
  BY <1>3, <1>4, <1>5, Zenon

(* The kernel's 4 MiB have one table to themselves, in order. *)
LEMMA KernelIndex ==
  ASSUME NEW j \in 0 .. (PT_ENTRIES - 1)
  PROVE  /\ KernelPage \in Nat /\ KERNEL_HIGH = KernelPage * PAGE_SIZE
         /\ KERNEL_HIGH + j * PAGE_SIZE \in Nat
         /\ PageOf(KERNEL_HIGH + j * PAGE_SIZE) = KernelPage + j
         /\ PGDIR_IDX(KERNEL_HIGH + j * PAGE_SIZE) = KernelDir
         /\ PT_IDX(KERNEL_HIGH + j * PAGE_SIZE) = j
<1>1. KERNEL_HIGH % (PT_ENTRIES * PAGE_SIZE) = 0
  BY PagingAssumption DEF EarlySize
<1>2. KERNEL_HIGH % PAGE_SIZE = 0 /\ KernelPage % PT_ENTRIES = 0
  BY <1>1, Sizes, ModProduct DEF KernelPage, PageOf
<1>3. KernelPage \in Nat /\ KERNEL_HIGH = KernelPage * PAGE_SIZE
  BY <1>2, Sizes, DivMod DEF KernelPage, PageOf
<1>4. KERNEL_HIGH + j * PAGE_SIZE = (KernelPage + j) * PAGE_SIZE /\ KernelPage + j \in Nat
  BY <1>3, Sizes, MulMono
<1>5. PageOf(KERNEL_HIGH + j * PAGE_SIZE) = KernelPage + j /\ KERNEL_HIGH + j * PAGE_SIZE \in Nat
  BY <1>4, PageAddress
<1>6. PICK q \in Nat : KernelPage = q * PT_ENTRIES
  BY <1>2, <1>3, Sizes, Divides
<1>7. (KernelPage + j) \div PT_ENTRIES = q /\ (KernelPage + j) % PT_ENTRIES = j
  BY <1>6, Sizes, DivMul
<1>8. KernelPage \div PT_ENTRIES = q
  BY <1>6, Sizes, DivMulZero
<1>9. QED
  BY <1>3, <1>5, <1>7, <1>8 DEF PGDIR_IDX, PT_IDX, KernelDir, KernelPage

(* The frames that kalloc manages are behind the kernel image. *)
LEMMA FirstFreeFacts ==
  /\ FirstFree \in 0 .. PT_ENTRIES
  /\ \A f \in Nat : f >= FirstFree => KERNEL_HIGH + f * PAGE_SIZE >= KERNEL_END
<1> DEFINE v == virt2phys(KERNEL_END)
           w == v + PAGE_SIZE - 1
<1>1. v \in Nat /\ v <= PT_ENTRIES * PAGE_SIZE /\ KERNEL_END = KERNEL_HIGH + v /\ w \in Nat
  BY Sizes, PagingAssumption DEF virt2phys
<1>2. FirstFree = PageOf(w) /\ PageOf(w) \in Nat
  BY <1>1, AddressPage DEF FirstFree, ROUNDUP
<1>3. v <= PageOf(w) * PAGE_SIZE /\ PageOf(w) * PAGE_SIZE < v + PAGE_SIZE
  <2>1. w = v + PAGE_SIZE - 1
    OBVIOUS
  <2> HIDE DEF v, w
  <2>2. PageOf(w) * PAGE_SIZE \in Nat /\ PageOf(w) * PAGE_SIZE <= w /\ w < PageOf(w) * PAGE_SIZE + PAGE_SIZE
    BY <1>1, AddressPage
  <2>3. QED
    BY <1>1, <2>1, <2>2, Sizes
<1> HIDE DEF v, w
<1>4. PageOf(w) <= PT_ENTRIES
  <2>1. PageOf(w) * PAGE_SIZE < PT_ENTRIES * PAGE_SIZE + PAGE_SIZE
    BY <1>1, <1>2, <1>3, Sizes
  <2>2. ~(PT_ENTRIES < PageOf(w))
    BY <1>2, <2>1, Sizes, MulMono
  <2>3. QED
    BY <1>2, <2>2, Sizes
<1>5. ASSUME NEW f \in Nat, f >= PageOf(w) PROVE KERNEL_HIGH + f * PAGE_SIZE >= KERNEL_END
  <2>1. PageOf(w) * PAGE_SIZE <= f * PAGE_SIZE /\ PageOf(w) * PAGE_SIZE \in Nat /\ f * PAGE_SIZE \in Nat
    BY <1>2, <1>5, Sizes, MulMono
  <2>2. QED
    BY <1>1, <1>3, <2>1, Sizes
<1>6. QED
  BY <1>2, <1>4, <1>5

-----------------------------------------------------------------------------
(* The invariants.  The first group is about the frames: what is left of   *)
(* the list of kalloc is a range, and everything in use is above it.       *)

Dirs == 0 .. (PD_ENTRIES - 1)
Slots == 0 .. (PT_ENTRIES - 1)
Entries == [present : BOOLEAN, flags : SUBSET {PT_WRITEABLE, PT_USER}, frame : Nat]

MemTypeOK ==
  /\ freelist \in Seq(Nat) /\ kernel_pgdir \subseteq Nat /\ owned \subseteq Nat
  /\ pgdir \in [Dirs -> Entries]
  /\ DOMAIN tables \subseteq Nat /\ \A f \in DOMAIN tables : tables[f] \in [Slots -> Entries]
  /\ wild \in BOOLEAN /\ boot \in {"kalloc", "pgdir", "kernel", "user", "run"}
  /\ cr3 = IF boot = "run" THEN "kernel" ELSE "early"

FirstUsed == FirstFree + Len(freelist)
Used == kernel_pgdir \cup DOMAIN tables \cup owned

(* A directory entry that is present has a page table of its own. *)
DirInv ==
  /\ \A d \in Dirs : pgdir[d].present => pgdir[d].frame \in DOMAIN tables
  /\ \A c, d \in Dirs :
       c # d /\ pgdir[c].present /\ pgdir[d].present => pgdir[c].frame # pgdir[d].frame

FrameInv ==
  /\ \A k \in 1 .. Len(freelist) : freelist[k] = FirstUsed - k
  /\ FirstUsed <= PT_ENTRIES
  /\ \A f \in Used : FirstUsed <= f /\ f < PT_ENTRIES
  /\ kernel_pgdir \cap DOMAIN tables = {} /\ kernel_pgdir \cap owned = {}
  /\ DOMAIN tables \cap owned = {}
  /\ boot \in {"kalloc", "pgdir"} => Used = {} /\ \A d \in Dirs : ~pgdir[d].present
  /\ boot = "kalloc" => freelist = <<>>

(* As many frames are gone as were needed. *)
PresentDirs == {d \in Dirs : pgdir[d].present}
NeededDirs ==
  {PGDIR_IDX(a) : a \in {KERNEL_HIGH, USERSPACE_START} \cup UNION {PagesOf(r) : r \in mapped}}
CountInv ==
  /\ IsFiniteSet(owned)
  /\ PresentDirs \subseteq NeededDirs
  /\ boot = "pgdir" => PT_ENTRIES - FirstFree = Len(freelist)
  /\ boot \notin {"kalloc", "pgdir"} =>
       PT_ENTRIES - FirstFree = Len(freelist) + 1 + Cardinality(PresentDirs) + Cardinality(owned)

(* The turns of map_continous that are left.                               *)
KernelJob(j) == [addr |-> KERNEL_HIGH + j * PAGE_SIZE, size |-> (PT_ENTRIES - j) * PAGE_SIZE,
                 phys |-> j * PAGE_SIZE, flags |-> {PT_WRITEABLE}]
UserJob == [addr |-> USERSPACE_START, size |-> PAGE_SIZE, phys |-> virt2phys(USERSPACE_START),
            flags |-> {PT_USER, PT_WRITEABLE}]
PageCount(r) == PageOf(ROUNDUP(r.size))
RegionJob(r, k) ==
  [addr |-> ROUNDDOWN(r.addr) + k * PAGE_SIZE, size |-> (PageCount(r) - k) * PAGE_SIZE,
   phys |-> ROUNDDOWN(r.addr) + k * PAGE_SIZE, flags |-> {PT_WRITEABLE}]

IsRegion(r) == r.addr \in Nat /\ r.size \in Nat \ {0}
JobInv ==
  /\ \A r \in mapped : IsRegion(r)
  /\ boot # "run" => mapped = {}
  /\ job = NoJob \/ \/ boot = "kernel" /\ \E j \in Slots : job = KernelJob(j)
                    \/ boot = "user" /\ job = UserJob
                    \/ boot = "run" /\ \E r \in mapped : \E k \in 0 .. (PageCount(r) - 1) :
                                         job = RegionJob(r, k)

AllocInv == MemTypeOK /\ DirInv /\ FrameInv /\ CountInv /\ JobInv /\ NoWildWrite

(* The second group is about what is mapped.  All of it is in the address  *)
(* space.                                                                  *)
InSpace(r) == \A a \in PagesOf(r) : PageOf(a) < PD_ENTRIES * PT_ENTRIES

TableOf(d) == tables[pgdir[d].frame]
PageEntry(flags, frame) == [present |-> TRUE, flags |-> flags, frame |-> frame]

(* How many of the kernel's pages are mapped. *)
KernelDone ==
  CASE boot \in {"kalloc", "pgdir"}    -> 0
    [] boot = "kernel" /\ job # NoJob  -> PageOf(job.phys)
    [] OTHER                           -> PT_ENTRIES

KernelMapped ==
  \A j \in 0 .. (KernelDone - 1) :
    /\ pgdir[KernelDir].present
    /\ TableOf(KernelDir)[j] = PageEntry({PT_WRITEABLE}, j)

KernelTableFull ==
  \A j \in Slots : /\ pgdir[KernelDir].present
                   /\ TableOf(KernelDir)[j] = PageEntry({PT_WRITEABLE}, j)

UserMapped ==
  boot = "run" \/ (boot = "user" /\ job = NoJob) =>
    /\ pgdir[UserDir].present /\ PT_USER \in pgdir[UserDir].flags
    /\ TableOf(UserDir)[UserSlot] =
         PageEntry({PT_USER, PT_WRITEABLE}, PageOf(virt2phys(USERSPACE_START)))

UserAlone ==
  /\ \A d \in Dirs : PT_USER \in pgdir[d].flags => d = UserDir
  /\ pgdir[UserDir].present =>
       \A s \in Slots : PT_USER \in TableOf(UserDir)[s].flags => s = UserSlot

(* The pages a running map_continous has still to map. *)
Ahead(a) == job # NoJob /\ \E k \in Nat : a = job.addr + k * PAGE_SIZE /\ k * PAGE_SIZE < job.size

RegionsMapped ==
  \A r \in mapped : InSpace(r) /\ \A a \in PagesOf(r) : Ahead(a) \/ TranslatesTo(a, PageOf(a))

(* The user's page is mapped unless its table was used for a region. *)
UserKept == UserMapped \/ Asked(USERSPACE_START)

(* When a NULL was written through, the pages of that call are not mapped; *)
(* the kernel's table is lost only to a call that was for it.              *)
MapInv ==
  /\ ~wild => KernelMapped /\ UserKept /\ RegionsMapped
  /\ boot = "run" => UserKept /\ (KernelTableFull \/ Asked(KERNEL_HIGH))
  /\ UserAlone

-----------------------------------------------------------------------------
(* Frames.                                                                 *)

LEMMA PresentFinite ==
  /\ IsFiniteSet(PresentDirs) /\ Cardinality(PresentDirs) \in Nat
<1>1. IsFiniteSet(Dirs)
  BY Sizes, FS_Interval DEF Dirs
<1>2. IsFiniteSet(PresentDirs)
  BY <1>1, FS_Subset DEF PresentDirs
<1>3. QED
  BY <1>2, FS_CardinalityType

(* The page that kalloc returns is in no use yet. *)
LEMMA FreeHead ==
  ASSUME MemTypeOK, FrameInv, freelist # <<>>
  PROVE  /\ Len(freelist) \in Nat \ {0} /\ Head(freelist) = FirstUsed - 1
         /\ Head(freelist) \in Nat /\ Head(freelist) < PT_ENTRIES /\ Head(freelist) \notin Used
         /\ Tail(freelist) \in Seq(Nat) /\ Len(Tail(freelist)) = Len(freelist) - 1
         /\ \A k \in 1 .. Len(Tail(freelist)) : Tail(freelist)[k] = FirstUsed - 1 - k
<1>1. freelist \in Seq(Nat) /\ FirstFree \in Nat /\ PT_ENTRIES \in Nat
  BY FirstFreeFacts, Sizes DEF MemTypeOK
<1>2. Len(freelist) \in Nat \ {0} /\ Head(freelist) = freelist[1]
  BY <1>1
<1>3. /\ Tail(freelist) \in Seq(Nat) /\ Len(Tail(freelist)) = Len(freelist) - 1
      /\ \A k \in 1 .. (Len(freelist) - 1) : Tail(freelist)[k] = freelist[k + 1]
  BY <1>1
<1>4. FirstUsed \in Nat /\ FirstUsed >= 1 /\ FirstUsed <= PT_ENTRIES
  BY <1>1, <1>2 DEF FirstUsed, FrameInv
<1>5. \A k \in 1 .. Len(freelist) : freelist[k] = FirstUsed - k
  BY DEF FrameInv
<1>6. \A f \in Used : FirstUsed <= f
  BY DEF FrameInv
<1> HIDE DEF FirstUsed, Used
<1>7. Head(freelist) = FirstUsed - 1
  BY <1>2, <1>5
<1>8. Head(freelist) \notin Used
  BY <1>4, <1>6, <1>7
<1>9. ASSUME NEW k \in 1 .. (Len(freelist) - 1) PROVE Tail(freelist)[k] = FirstUsed - 1 - k
  <2>1. k + 1 \in 1 .. Len(freelist)
    BY <1>2
  <2>2. Tail(freelist)[k] = FirstUsed - (k + 1)
    BY <1>3, <1>5, <2>1
  <2>3. QED
    BY <1>4, <2>2
<1>10. QED
  BY <1>1, <1>2, <1>3, <1>4, <1>7, <1>8, <1>9

(* kalloc: the list is shorter by the page that is in use now. *)
LEMMA TakeHead ==
  ASSUME MemTypeOK, FrameInv, boot \notin {"kalloc"}, freelist # <<>>, freelist' = AfterKalloc,
         Used' = Used \cup {Head(freelist)}, boot' \notin {"kalloc", "pgdir"}
  PROVE  /\ freelist' \in Seq(Nat)
         /\ FirstUsed' = FirstUsed - 1 /\ Len(freelist) = Len(freelist') + 1 /\ Len(freelist') \in Nat
         /\ \A k \in 1 .. Len(freelist') : freelist'[k] = FirstUsed' - k
         /\ FirstUsed' <= PT_ENTRIES
         /\ \A f \in Used' : FirstUsed' <= f /\ f < PT_ENTRIES
<1>1. freelist' = Tail(freelist)
  BY DEF AfterKalloc
<1>2. FirstFree \in Nat /\ FirstUsed <= PT_ENTRIES /\ PT_ENTRIES \in Nat
  BY FirstFreeFacts, Sizes DEF FrameInv
<1>3. Len(freelist) \in Nat \ {0} /\ Len(freelist') = Len(freelist) - 1
  BY <1>1, FreeHead
<1>4. FirstUsed' = FirstUsed - 1 /\ FirstUsed \in Nat \ {0}
  BY <1>2, <1>3 DEF FirstUsed, FirstFree
<1>5. \A f \in Used : f \in Nat /\ FirstUsed <= f /\ f < PT_ENTRIES
  BY DEF FrameInv, MemTypeOK, Used
<1>6. Head(freelist) = FirstUsed - 1
  BY FreeHead
<1> HIDE DEF FirstUsed
<1>7. \A f \in Used' : FirstUsed' <= f /\ f < PT_ENTRIES
  BY <1>2, <1>4, <1>5, <1>6
<1>8. QED
  BY <1>1, <1>2, <1>3, <1>4, <1>7, FreeHead

LEMMA AllocInit == Init => AllocInv
<1>1. SUFFICES ASSUME Init PROVE AllocInv
  OBVIOUS
<1>2. /\ freelist = <<>> /\ kernel_pgdir = {} /\ pgdir = [d \in Dirs |-> NoEntry]
      /\ tables = [f \in {} |-> NoTable] /\ owned = {} /\ cr3 = "early" /\ job = NoJob
      /\ boot = "kalloc" /\ mapped = {} /\ wild = FALSE
  BY <1>1 DEF Init, Dirs
<1>3. NoEntry \in Entries /\ NoEntry.present = FALSE
  BY DEF NoEntry, Entries
<1>4. DOMAIN tables = {} /\ Used = {} /\ FirstUsed = FirstFree /\ Len(freelist) = 0
  BY <1>2, FirstFreeFacts DEF Used, FirstUsed
<1>5. \A d \in Dirs : ~pgdir[d].present
  BY <1>2, <1>3
<1>6. MemTypeOK
  <2>1. pgdir \in [Dirs -> Entries]
    BY <1>2, <1>3
  <2>2. freelist \in Seq(Nat)
    BY <1>2
  <2>3. QED
    BY <1>2, <1>4, <2>1, <2>2, Zenon DEF MemTypeOK
<1>7. DirInv /\ FrameInv
  BY <1>2, <1>4, <1>5, FirstFreeFacts, Sizes DEF DirInv, FrameInv
<1>8. CountInv
  BY <1>2, <1>5, FS_EmptySet DEF CountInv, PresentDirs
<1>9. JobInv /\ NoWildWrite
  BY <1>2 DEF JobInv, NoWildWrite
<1>10. QED
  BY <1>6, <1>7, <1>8, <1>9 DEF AllocInv

LEMMA KallocEarlyInv ==
  ASSUME AllocInv, init_kalloc_early
  PROVE  AllocInv'
<1>1. /\ boot = "kalloc" /\ boot' = "pgdir"
      /\ freelist' = [k \in 1 .. (PT_ENTRIES - FirstFree) |-> PT_ENTRIES - k]
      /\ UNCHANGED <<kernel_pgdir, pgdir, tables, owned, cr3, job, mapped, wild>>
  BY DEF init_kalloc_early
<1>2. FirstFree \in Nat /\ PT_ENTRIES \in Nat /\ FirstFree <= PT_ENTRIES /\ FirstFree' = FirstFree
  BY FirstFreeFacts, Sizes
<1>3. PICK n \in Nat : n = PT_ENTRIES - FirstFree
  BY <1>2
<1>4. /\ freelist' \in Seq(Nat) /\ Len(freelist') = n
      /\ \A k \in 1 .. n : freelist'[k] = PT_ENTRIES - k
  <2>1. freelist' = [k \in 1 .. n |-> PT_ENTRIES - k]
    BY <1>1, <1>3
  <2>2. \A k \in 1 .. n : PT_ENTRIES - k \in Nat
    BY <1>2, <1>3
  <2>3. freelist' \in [1 .. n -> Nat]
    BY <2>1, <2>2
  <2>4. QED
    BY <2>1, <2>3
<1>5. FirstUsed' = PT_ENTRIES
  BY <1>2, <1>3, <1>4 DEF FirstUsed
<1>6. Used = {} /\ \A d \in Dirs : ~pgdir[d].present
  BY <1>1 DEF AllocInv, FrameInv
<1>7. Used' = {}
  BY <1>1, <1>6 DEF Used
<1>8. MemTypeOK'
  BY <1>1, <1>4 DEF AllocInv, MemTypeOK
<1>9. DirInv' /\ FrameInv'
  <2>1. kernel_pgdir' = {} /\ DOMAIN tables' = {} /\ owned' = {}
    BY <1>7 DEF Used
  <2>2. boot' = "pgdir" /\ \A d \in Dirs : ~pgdir'[d].present
    BY <1>1, <1>6
  <2>3. DirInv'
    BY <2>2 DEF DirInv
  <2>4. FrameInv'
    BY <1>4, <1>5, <1>7, <2>1, <2>2, Sizes DEF FrameInv
  <2>5. QED
    BY <2>3, <2>4
<1>10. CountInv'
  BY <1>1, <1>3, <1>4, <1>6 DEF AllocInv, CountInv, PresentDirs
<1>11. JobInv' /\ NoWildWrite'
  <2>1. job = NoJob /\ mapped = {}
    BY <1>1 DEF AllocInv, JobInv
  <2>2. QED
    BY <1>1, <2>1 DEF AllocInv, JobInv, NoWildWrite, PagesNeeded, Asked
<1>12. QED
  BY <1>8, <1>9, <1>10, <1>11 DEF AllocInv

-----------------------------------------------------------------------------
(* The calls of map_continous.                                             *)

LEMMA RegionPages ==
  ASSUME NEW r, IsRegion(r)
  PROVE  /\ PageCount(r) \in Nat \ {0} /\ ROUNDUP(r.size) = PageCount(r) * PAGE_SIZE
         /\ PageOf(r.addr) \in Nat /\ ROUNDDOWN(r.addr) = PageOf(r.addr) * PAGE_SIZE
         /\ \A k \in Nat : /\ ROUNDDOWN(r.addr) + k * PAGE_SIZE \in Nat
                           /\ PageOf(ROUNDDOWN(r.addr) + k * PAGE_SIZE) = PageOf(r.addr) + k
         /\ PagesOf(r) = {ROUNDDOWN(r.addr) + k * PAGE_SIZE : k \in 0 .. (PageCount(r) - 1)}
<1>1. r.addr \in Nat /\ r.size \in Nat \ {0}
  BY DEF IsRegion
<1>2. r.size + PAGE_SIZE - 1 \in Nat /\ r.size + PAGE_SIZE - 1 >= PAGE_SIZE
  BY <1>1, Sizes
<1>3. PICK w \in Nat : w = r.size + PAGE_SIZE - 1
  BY <1>2
<1>4. ROUNDUP(r.size) = PageOf(w) * PAGE_SIZE /\ PageOf(w) \in Nat /\ PageOf(ROUNDUP(r.size)) = PageOf(w)
  BY <1>3, AddressPage DEF ROUNDUP
<1>5. PageOf(w) # 0
  <2>1. w < PageOf(w) * PAGE_SIZE + PAGE_SIZE
    BY AddressPage
  <2>2. QED
    BY <1>2, <1>3, <2>1, Sizes
<1>6. PageCount(r) = PageOf(w)
  BY <1>4 DEF PageCount
<1>7. PageOf(r.addr) \in Nat /\ ROUNDDOWN(r.addr) = PageOf(r.addr) * PAGE_SIZE
  BY <1>1, AddressPage
<1>8. ASSUME NEW k \in Nat
      PROVE  /\ ROUNDDOWN(r.addr) + k * PAGE_SIZE \in Nat
             /\ PageOf(ROUNDDOWN(r.addr) + k * PAGE_SIZE) = PageOf(r.addr) + k
  <2>1. /\ ROUNDDOWN(r.addr) + k * PAGE_SIZE = (PageOf(r.addr) + k) * PAGE_SIZE
        /\ PageOf(r.addr) + k \in Nat
    BY <1>7, Sizes, MulMono
  <2>2. QED
    BY <2>1, PageAddress
<1>9. PagesOf(r) = {ROUNDDOWN(r.addr) + k * PAGE_SIZE : k \in 0 .. (PageCount(r) - 1)}
  BY DEF PagesOf, PageCount, PageOf
<1>10. QED
  BY <1>4, <1>5, <1>6, <1>7, <1>8, <1>9

LEMMA NeededFacts ==
  ASSUME JobInv
  PROVE  /\ NeededDirs \subseteq Dirs /\ IsFiniteSet(NeededDirs) /\ Cardinality(NeededDirs) \in Nat
         /\ PagesNeeded = 1 + Cardinality(NeededDirs) + Cardinality(owned)
<1>1. ASSUME NEW r \in mapped, NEW a \in PagesOf(r) PROVE a \in Nat
  <2>1. IsRegion(r)
    BY DEF JobInv
  <2>2. PageCount(r) \in Nat
    BY <2>1, RegionPages
  <2>3. QED
    BY <1>1, <2>1, <2>2, RegionPages
<1>2. NeededDirs \subseteq Dirs
  BY <1>1, Sizes, IndexRange DEF NeededDirs, Dirs
<1>3. IsFiniteSet(Dirs)
  BY Sizes, FS_Interval DEF Dirs
<1>4. IsFiniteSet(NeededDirs)
  BY <1>2, <1>3, FS_Subset
<1>5. PagesNeeded = 1 + Cardinality(NeededDirs) + Cardinality(owned)
  BY DEF PagesNeeded, NeededDirs
<1>6. QED
  BY <1>2, <1>4, <1>5, FS_CardinalityType

LEMMA UserAddress ==
  /\ UserPage \in Nat /\ KernelPage \in Nat /\ UserPage - KernelPage \in Nat
  /\ USERSPACE_START = UserPage * PAGE_SIZE
  /\ virt2phys(USERSPACE_START) = (UserPage - KernelPage) * PAGE_SIZE
<1>1. UserPage \in Nat /\ USERSPACE_START = UserPage * PAGE_SIZE
  BY Sizes, PagingAssumption, Divides DEF UserPage, PageOf
<1>2. KernelPage \in Nat /\ KERNEL_HIGH = KernelPage * PAGE_SIZE
  <2>1. 0 \in 0 .. (PT_ENTRIES - 1)
    BY Sizes
  <2>2. QED
    BY <2>1, KernelIndex
<1>3. KernelPage * PAGE_SIZE <= UserPage * PAGE_SIZE
  BY <1>1, <1>2, PagingAssumption
<1>4. UserPage - KernelPage \in Nat
  <2>1. ~(UserPage < KernelPage)
    BY <1>1, <1>2, <1>3, Sizes, MulMono
  <2>2. QED
    BY <1>1, <1>2, <2>1
<1>5. ASSUME NEW n \in Nat, NEW p \in Nat, NEW q \in Nat, q - p \in Nat
      PROVE  q * n - p * n = (q - p) * n
  BY <1>5
<1>6. QED
  BY <1>1, <1>2, <1>4, <1>5, Sizes DEF virt2phys

LEMMA SmallRoundings ==
  ROUNDDOWN(0) = 0 /\ ROUNDUP(PAGE_SIZE) = PAGE_SIZE /\ 0 * PAGE_SIZE = 0
<1>1. 0 * PAGE_SIZE = 0 /\ 1 * PAGE_SIZE = PAGE_SIZE
  BY Sizes
<1>2. ROUNDDOWN(0 * PAGE_SIZE) = 0 * PAGE_SIZE /\ ROUNDUP(1 * PAGE_SIZE) = 1 * PAGE_SIZE
  BY PageAddress
<1>3. QED
  BY <1>1, <1>2

LEMMA KernelCall ==
  ASSUME map_continous(KERNEL_HIGH, EarlySize, 0, {PT_WRITEABLE})
  PROVE  job' = KernelJob(0)
<1>1. 0 \in 0 .. (PT_ENTRIES - 1) /\ PT_ENTRIES - 0 = PT_ENTRIES /\ KERNEL_HIGH + 0 = KERNEL_HIGH
  BY Sizes
<1>2. ROUNDDOWN(KERNEL_HIGH) = KERNEL_HIGH
  BY <1>1, KernelIndex, PageAddress
<1>3. ROUNDUP(EarlySize) = PT_ENTRIES * PAGE_SIZE
  BY Sizes, PageAddress
<1>4. QED
  BY <1>1, <1>2, <1>3, SmallRoundings DEF map_continous, KernelJob

LEMMA UserCall ==
  ASSUME map_continous(USERSPACE_START, PAGE_SIZE, virt2phys(USERSPACE_START),
                       {PT_USER, PT_WRITEABLE})
  PROVE  job' = UserJob
<1>1. /\ ROUNDDOWN(USERSPACE_START) = USERSPACE_START
      /\ ROUNDDOWN(virt2phys(USERSPACE_START)) = virt2phys(USERSPACE_START)
  BY UserAddress, PageAddress
<1>2. QED
  BY <1>1, SmallRoundings DEF map_continous, UserJob

LEMMA RegionCall ==
  ASSUME NEW r, IsRegion(r), map_continous(r.addr, r.size, r.addr, {PT_WRITEABLE})
  PROVE  job' = RegionJob(r, 0)
<1>1. ROUNDDOWN(r.addr) \in Nat /\ ROUNDDOWN(r.addr) + 0 = ROUNDDOWN(r.addr)
  BY AddressPage DEF IsRegion
<1>2. ROUNDUP(r.size) = PageCount(r) * PAGE_SIZE /\ PageCount(r) - 0 = PageCount(r)
  BY RegionPages
<1>3. QED
  BY <1>1, <1>2, SmallRoundings DEF map_continous, RegionJob

-----------------------------------------------------------------------------
(* The steps other than MapPage keep the first group.                      *)

LEMMA PgdirAllocInv ==
  ASSUME AllocInv, PgdirAlloc, ~wild
  PROVE  AllocInv'
<1>1. boot = "pgdir" /\ UNCHANGED <<pgdir, tables, owned, cr3, mapped>>
  BY DEF PgdirAlloc
<1>2. /\ MemTypeOK /\ DirInv /\ FrameInv /\ CountInv /\ JobInv
      /\ mapped = {} /\ job = NoJob /\ Used = {} /\ owned = {} /\ DOMAIN tables = {}
      /\ \A d \in Dirs : ~pgdir[d].present
  BY <1>1 DEF AllocInv, JobInv, FrameInv, Used
<1>3. PresentDirs = {} /\ PresentDirs' = {}
  BY <1>1, <1>2 DEF PresentDirs
<1>4. Cardinality({}) = 0 /\ IsFiniteSet({})
  BY FS_EmptySet
<1>5. CASE freelist = <<>>
  <2>1. wild' = TRUE /\ UNCHANGED <<freelist, kernel_pgdir, boot, job>>
    BY <1>5 DEF PgdirAlloc
  <2>2. MemTypeOK' /\ DirInv' /\ FrameInv'
    BY <1>1, <1>2, <2>1 DEF MemTypeOK, DirInv, FrameInv, Used, FirstUsed
  <2>3. JobInv'
    BY <1>1, <1>2, <2>1 DEF JobInv
  <2>4. CountInv'
    BY <1>1, <1>2, <2>1 DEF CountInv, PresentDirs, NeededDirs
  <2>5. NoWildWrite'
    <3>1. PT_ENTRIES - FirstFree = 0
      BY <1>1, <1>2, <1>5 DEF CountInv
    <3>2. PagesNeeded' = PagesNeeded
      BY <1>1 DEF PagesNeeded
    <3>3. PagesNeeded >= 1 /\ PagesNeeded \in Nat
      BY <1>2, <1>4, NeededFacts
    <3>4. QED
      BY <3>1, <3>2, <3>3 DEF NoWildWrite
  <2>6. QED
    BY <2>2, <2>3, <2>4, <2>5 DEF AllocInv
<1>6. CASE freelist # <<>>
  <2>1. /\ kernel_pgdir' = {Head(freelist)} /\ freelist' = AfterKalloc /\ boot' = "kernel"
        /\ wild' = FALSE /\ map_continous(KERNEL_HIGH, EarlySize, 0, {PT_WRITEABLE})
    BY <1>6 DEF PgdirAlloc
  <2>2. Used' = Used \cup {Head(freelist)}
    BY <1>1, <1>2, <2>1 DEF Used
  <2>3. /\ freelist' \in Seq(Nat) /\ Len(freelist) = Len(freelist') + 1 /\ Len(freelist') \in Nat
        /\ \A k \in 1 .. Len(freelist') : freelist'[k] = FirstUsed' - k
        /\ FirstUsed' <= PT_ENTRIES /\ \A f \in Used' : FirstUsed' <= f /\ f < PT_ENTRIES
    BY <1>1, <1>2, <1>6, <2>1, <2>2, TakeHead
  <2>4. Head(freelist) \in Nat
    BY <1>2, <1>6, FreeHead
  <2>5. MemTypeOK' /\ DirInv'
    BY <1>1, <1>2, <2>1, <2>3, <2>4 DEF MemTypeOK, DirInv
  <2>6. FrameInv'
    <3>1. DOMAIN tables' = {} /\ owned' = {}
      BY <1>1, <1>2
    <3>2. QED
      BY <2>1, <2>3, <3>1 DEF FrameInv
  <2>7. CountInv'
    <3>1. PT_ENTRIES - FirstFree = Len(freelist)
      BY <1>1, <1>2 DEF CountInv
    <3>2. owned' = {} /\ boot' = "kernel"
      BY <1>1, <1>2, <2>1
    <3>3. QED
      BY <1>3, <1>4, <2>3, <3>1, <3>2 DEF CountInv
  <2>8. JobInv'
    <3>1. job' = KernelJob(0) /\ 0 \in Slots
      BY <2>1, KernelCall, Sizes DEF Slots
    <3>2. QED
      BY <1>1, <1>2, <2>1, <3>1 DEF JobInv
  <2>9. QED
    BY <2>1, <2>5, <2>6, <2>7, <2>8 DEF AllocInv, NoWildWrite
<1>7. QED
  BY <1>5, <1>6

(* A call of map_continous changes no memory yet. *)
LEMMA MapUserInv ==
  ASSUME AllocInv, MapUser, ~wild
  PROVE  AllocInv'
<1>1. /\ boot = "kernel" /\ boot' = "user" /\ job' = UserJob
      /\ UNCHANGED <<freelist, kernel_pgdir, pgdir, tables, owned, cr3, mapped, wild>>
  BY UserCall DEF MapUser, memVars
<1>2. MemTypeOK' /\ DirInv' /\ FrameInv'
  BY <1>1 DEF AllocInv, MemTypeOK, DirInv, FrameInv, Used, FirstUsed
<1>3. CountInv'
  BY <1>1 DEF AllocInv, CountInv, PresentDirs, NeededDirs
<1>4. JobInv' /\ NoWildWrite'
  BY <1>1 DEF AllocInv, JobInv, NoWildWrite
<1>5. QED
  BY <1>2, <1>3, <1>4 DEF AllocInv

LEMMA LoadCr3Inv ==
  ASSUME AllocInv, load_cr3, ~wild
  PROVE  AllocInv'
<1>1. /\ boot = "user" /\ boot' = "run" /\ cr3' = "kernel" /\ job = NoJob
      /\ UNCHANGED <<freelist, kernel_pgdir, pgdir, tables, owned, job, mapped, wild>>
  BY DEF load_cr3, memVars
<1>2. MemTypeOK' /\ DirInv' /\ FrameInv'
  BY <1>1 DEF AllocInv, MemTypeOK, DirInv, FrameInv, Used, FirstUsed
<1>3. CountInv'
  BY <1>1 DEF AllocInv, CountInv, PresentDirs, NeededDirs
<1>4. JobInv' /\ NoWildWrite'
  BY <1>1 DEF AllocInv, JobInv, NoWildWrite
<1>5. QED
  BY <1>2, <1>3, <1>4 DEF AllocInv

LEMMA IdentityMapInv ==
  ASSUME AllocInv, NEW r, IsRegion(r), identity_map(r), ~wild
  PROVE  AllocInv'
<1>1. /\ boot = "run" /\ job = NoJob /\ job' = RegionJob(r, 0) /\ mapped' = mapped \cup {r}
      /\ UNCHANGED <<freelist, kernel_pgdir, pgdir, tables, owned, cr3, boot, wild>>
  BY RegionCall DEF identity_map, memVars
<1>2. MemTypeOK' /\ DirInv' /\ FrameInv'
  BY <1>1 DEF AllocInv, MemTypeOK, DirInv, FrameInv, Used, FirstUsed
<1>3. CountInv'
  <2>1. NeededDirs \subseteq NeededDirs'
    BY <1>1 DEF NeededDirs
  <2>2. PresentDirs' = PresentDirs
    BY <1>1 DEF PresentDirs
  <2>3. QED
    BY <1>1, <2>1, <2>2 DEF AllocInv, CountInv
<1>4. JobInv'
  <2>1. 0 \in 0 .. (PageCount(r) - 1)
    BY RegionPages
  <2>2. QED
    BY <1>1, <2>1 DEF AllocInv, JobInv
<1>5. NoWildWrite'
  BY <1>1 DEF NoWildWrite
<1>6. QED
  BY <1>2, <1>3, <1>4, <1>5 DEF AllocInv

LEMMA KallocOwnedInv ==
  ASSUME AllocInv, kalloc_owned, ~wild
  PROVE  AllocInv'
<1>1. /\ boot = "run" /\ job = NoJob /\ freelist # <<>> /\ freelist' = AfterKalloc
      /\ owned' = owned \cup {Head(freelist)}
      /\ UNCHANGED <<kernel_pgdir, pgdir, tables, cr3, job, boot, mapped, wild>>
  BY DEF kalloc_owned
<1>2. MemTypeOK /\ DirInv /\ FrameInv /\ CountInv /\ JobInv
  BY DEF AllocInv
<1>3. Used' = Used \cup {Head(freelist)}
  BY <1>1 DEF Used
<1>4. /\ freelist' \in Seq(Nat) /\ Len(freelist) = Len(freelist') + 1 /\ Len(freelist') \in Nat
      /\ \A k \in 1 .. Len(freelist') : freelist'[k] = FirstUsed' - k
      /\ FirstUsed' <= PT_ENTRIES /\ \A f \in Used' : FirstUsed' <= f /\ f < PT_ENTRIES
  BY <1>1, <1>2, <1>3, TakeHead
<1>5. Head(freelist) \in Nat /\ Head(freelist) \notin Used
  BY <1>1, <1>2, FreeHead
<1>6. MemTypeOK'
  BY <1>1, <1>2, <1>4, <1>5 DEF MemTypeOK
<1>7. DirInv'
  BY <1>1, <1>2 DEF DirInv
<1>8. FrameInv'
  <2>1. /\ kernel_pgdir' \cap DOMAIN tables' = {} /\ kernel_pgdir' \cap owned' = {}
        /\ DOMAIN tables' \cap owned' = {}
    BY <1>1, <1>2, <1>5 DEF FrameInv, Used
  <2>2. QED
    BY <1>1, <1>4, <2>1 DEF FrameInv
<1>9. CountInv'
  <2>1. PresentDirs' = PresentDirs /\ NeededDirs' = NeededDirs
    BY <1>1 DEF PresentDirs, NeededDirs
  <2>2. IsFiniteSet(owned) /\ Head(freelist) \notin owned
    BY <1>2, <1>5 DEF CountInv, Used
  <2>3. IsFiniteSet(owned') /\ Cardinality(owned') = Cardinality(owned) + 1
    BY <1>1, <2>2, FS_AddElement
  <2>4. Cardinality(owned) \in Nat /\ Cardinality(PresentDirs) \in Nat
    BY <2>2, FS_CardinalityType, PresentFinite
  <2>5. PT_ENTRIES - FirstFree = Len(freelist) + 1 + Cardinality(PresentDirs) + Cardinality(owned)
    BY <1>1, <1>2 DEF CountInv
  <2>6. PT_ENTRIES - FirstFree = Len(freelist') + 1 + Cardinality(PresentDirs) + Cardinality(owned')
    BY <1>4, <2>3, <2>4, <2>5
  <2>7. QED
    BY <1>1, <1>2, <2>1, <2>3, <2>6 DEF CountInv
<1>10. JobInv' /\ NoWildWrite'
  BY <1>1, <1>2 DEF JobInv, NoWildWrite
<1>11. QED
  BY <1>6, <1>7, <1>8, <1>9, <1>10 DEF AllocInv

-----------------------------------------------------------------------------
(* One turn of map_continous.                                              *)

LEMMA JobFacts ==
  ASSUME JobInv, job # NoJob
  PROVE  /\ job.addr \in Nat /\ PGDIR_IDX(job.addr) \in NeededDirs
         /\ PGDIR_IDX(job.addr) \in Dirs /\ PT_IDX(job.addr) \in Slots
         /\ job.flags \in SUBSET {PT_WRITEABLE, PT_USER} /\ PageOf(job.phys) \in Nat
         /\ boot = "run" => \E r \in mapped : job.addr \in PagesOf(r)
<1>1. CASE boot = "kernel" /\ \E j \in Slots : job = KernelJob(j)
  <2>1. PICK j \in Slots : job = KernelJob(j)
    BY <1>1
  <2>2. /\ job.addr = KERNEL_HIGH + j * PAGE_SIZE /\ job.phys = j * PAGE_SIZE
        /\ job.flags = {PT_WRITEABLE}
    BY <2>1 DEF KernelJob
  <2>3. j \in 0 .. (PT_ENTRIES - 1) /\ j \in Nat
    BY Sizes DEF Slots
  <2>4. job.addr \in Nat /\ PGDIR_IDX(job.addr) = PGDIR_IDX(KERNEL_HIGH) /\ PageOf(job.phys) = j
    BY <2>2, <2>3, KernelIndex, PageAddress DEF KernelDir
  <2>5. QED
    BY <1>1, <2>2, <2>3, <2>4, IndexRange DEF NeededDirs, Dirs, Slots
<1>2. CASE boot = "user" /\ job = UserJob
  <2>1. /\ job.addr = USERSPACE_START /\ job.phys = virt2phys(USERSPACE_START)
        /\ job.flags = {PT_USER, PT_WRITEABLE}
    BY <1>2 DEF UserJob
  <2>2. PageOf(job.phys) \in Nat
    BY <2>1, UserAddress, PageAddress
  <2>3. QED
    BY <1>2, <2>1, <2>2, IndexRange, Sizes DEF NeededDirs, Dirs, Slots
<1>3. CASE boot = "run" /\ \E r \in mapped : \E k \in 0 .. (PageCount(r) - 1) : job = RegionJob(r, k)
  <2>1. PICK r \in mapped : \E k \in 0 .. (PageCount(r) - 1) : job = RegionJob(r, k)
    BY <1>3
  <2>0. PICK k \in 0 .. (PageCount(r) - 1) : job = RegionJob(r, k)
    BY <2>1
  <2>2. /\ job.addr = ROUNDDOWN(r.addr) + k * PAGE_SIZE /\ job.phys = job.addr
        /\ job.flags = {PT_WRITEABLE}
    BY <2>0 DEF RegionJob
  <2>3. IsRegion(r)
    BY DEF JobInv
  <2>4. k \in Nat /\ PageCount(r) \in Nat
    BY <2>3, RegionPages
  <2>5. job.addr \in Nat /\ job.addr \in PagesOf(r) /\ PageOf(job.phys) \in Nat
    BY <2>2, <2>3, <2>4, RegionPages
  <2>6. QED
    BY <2>2, <2>5, IndexRange DEF NeededDirs, Dirs, Slots
<1>4. QED
  BY <1>1, <1>2, <1>3 DEF JobInv

(* The rest of a job is a job. *)
Rest(j) == IF j.size = PAGE_SIZE THEN NoJob
           ELSE [addr |-> j.addr + PAGE_SIZE, size |-> j.size - PAGE_SIZE,
                 phys |-> j.phys + PAGE_SIZE, flags |-> j.flags]

LEMMA RestOfPages ==
  ASSUME NEW n \in Nat, NEW k \in 0 .. (n - 1)
  PROVE  /\ (n - k) * PAGE_SIZE = PAGE_SIZE <=> k = n - 1
         /\ (n - k) * PAGE_SIZE - PAGE_SIZE = (n - (k + 1)) * PAGE_SIZE
         /\ (n - k) * PAGE_SIZE >= PAGE_SIZE
         /\ \A a \in Nat : (a + k * PAGE_SIZE) + PAGE_SIZE = a + (k + 1) * PAGE_SIZE
         /\ k * PAGE_SIZE + PAGE_SIZE = (k + 1) * PAGE_SIZE
<1>1. n - k \in Nat \ {0} /\ n - (k + 1) \in Nat /\ n - k = n - (k + 1) + 1 /\ k \in Nat
  OBVIOUS
<1>2. /\ (n - k) * PAGE_SIZE = (n - (k + 1)) * PAGE_SIZE + PAGE_SIZE
      /\ (k + 1) * PAGE_SIZE = k * PAGE_SIZE + PAGE_SIZE
  <2>1. \A p \in Nat : (p + 1) * PAGE_SIZE = p * PAGE_SIZE + PAGE_SIZE
    BY Sizes
  <2>2. QED
    BY <1>1, <2>1
<1>3. (n - (k + 1)) * PAGE_SIZE \in Nat /\ k * PAGE_SIZE \in Nat
  BY <1>1, Sizes
<1>4. (n - (k + 1)) * PAGE_SIZE = 0 <=> n - (k + 1) = 0
  BY <1>1, Sizes
<1>5. QED
  BY <1>1, <1>2, <1>3, <1>4, Sizes

LEMMA KernelRest ==
  ASSUME NEW j \in Slots
  PROVE  Rest(KernelJob(j)) = IF j = PT_ENTRIES - 1 THEN NoJob ELSE KernelJob(j + 1)
<1> DEFINE w == KernelJob(j)
<1>1. /\ w.addr = KERNEL_HIGH + j * PAGE_SIZE /\ w.size = (PT_ENTRIES - j) * PAGE_SIZE
      /\ w.phys = j * PAGE_SIZE /\ w.flags = {PT_WRITEABLE}
  BY DEF KernelJob
<1> HIDE DEF w
<1>2. /\ w.size = PAGE_SIZE <=> j = PT_ENTRIES - 1
      /\ w.size - PAGE_SIZE = (PT_ENTRIES - (j + 1)) * PAGE_SIZE
      /\ w.addr + PAGE_SIZE = KERNEL_HIGH + (j + 1) * PAGE_SIZE
      /\ w.phys + PAGE_SIZE = (j + 1) * PAGE_SIZE
  BY <1>1, Sizes, RestOfPages DEF Slots
<1>3. QED
  BY <1>1, <1>2, Zenon DEF Rest, KernelJob, w

LEMMA RegionRest ==
  ASSUME NEW r, IsRegion(r), NEW k \in 0 .. (PageCount(r) - 1)
  PROVE  Rest(RegionJob(r, k)) = IF k = PageCount(r) - 1 THEN NoJob ELSE RegionJob(r, k + 1)
<1> DEFINE w == RegionJob(r, k)
<1>1. /\ w.addr = ROUNDDOWN(r.addr) + k * PAGE_SIZE /\ w.size = (PageCount(r) - k) * PAGE_SIZE
      /\ w.phys = ROUNDDOWN(r.addr) + k * PAGE_SIZE /\ w.flags = {PT_WRITEABLE}
  BY DEF RegionJob
<1> HIDE DEF w
<1>2. PageCount(r) \in Nat /\ ROUNDDOWN(r.addr) \in Nat
  BY RegionPages, AddressPage DEF IsRegion
<1>3. /\ w.size = PAGE_SIZE <=> k = PageCount(r) - 1
      /\ w.size - PAGE_SIZE = (PageCount(r) - (k + 1)) * PAGE_SIZE
      /\ w.addr + PAGE_SIZE = ROUNDDOWN(r.addr) + (k + 1) * PAGE_SIZE
      /\ w.phys + PAGE_SIZE = ROUNDDOWN(r.addr) + (k + 1) * PAGE_SIZE
  BY <1>1, <1>2, RestOfPages
<1>4. QED
  BY <1>1, <1>3, Zenon DEF Rest, RegionJob, w

LEMMA JobAdvance ==
  ASSUME JobInv, job # NoJob, job' = Rest(job), UNCHANGED <<boot, mapped>>
  PROVE  JobInv'
<1>1. CASE boot = "kernel" /\ \E j \in Slots : job = KernelJob(j)
  <2>1. PICK j \in Slots : job = KernelJob(j)
    BY <1>1
  <2>2. job' = NoJob \/ (j + 1 \in Slots /\ job' = KernelJob(j + 1))
    BY <2>1, KernelRest, Sizes DEF Slots
  <2>3. QED
    BY <1>1, <2>2 DEF JobInv
<1>2. CASE boot = "user" /\ job = UserJob
  BY <1>2 DEF JobInv, Rest, UserJob
<1>3. CASE boot = "run" /\ \E r \in mapped : \E k \in 0 .. (PageCount(r) - 1) : job = RegionJob(r, k)
  <2>1. PICK r \in mapped : \E k \in 0 .. (PageCount(r) - 1) : job = RegionJob(r, k)
    BY <1>3
  <2>0. PICK k \in 0 .. (PageCount(r) - 1) : job = RegionJob(r, k)
    BY <2>1
  <2>2. IsRegion(r)
    BY DEF JobInv
  <2>3. PageCount(r) \in Nat
    BY <2>2, RegionPages
  <2>4. job' = NoJob \/ (k + 1 \in 0 .. (PageCount(r) - 1) /\ job' = RegionJob(r, k + 1))
    BY <2>0, <2>2, <2>3, RegionRest
  <2>5. QED
    BY <1>3, <2>4 DEF JobInv
<1>4. QED
  BY <1>1, <1>2, <1>3 DEF JobInv

(* What a turn that has its page table does to memory: the entry of the    *)
(* page is set, a new table is empty but for it, and everything else that  *)
(* is in use stays.                                                        *)
LEMMA MapPageMemory ==
  ASSUME MemTypeOK, DirInv, FrameInv, JobInv, MapPage, ~wild,
         NEW d \in Dirs, d = PGDIR_IDX(job.addr), NEW s \in Slots, s = PT_IDX(job.addr),
         ~(NewTable(d) /\ freelist = <<>>)
  PROVE  /\ job # NoJob /\ job' = Rest(job)
         /\ UNCHANGED <<kernel_pgdir, owned, cr3, boot, mapped>>
         /\ wild' = (boot = "run" /\ d = KernelDir)
         /\ freelist' = IF NewTable(d) THEN AfterKalloc ELSE freelist
         /\ DOMAIN tables' = IF NewTable(d) THEN DOMAIN tables \cup {Head(freelist)} ELSE DOMAIN tables
         /\ MemTypeOK' /\ DirInv'
         /\ pgdir'[d].present /\ pgdir'[d].flags = job.flags \cap {PT_USER}
         /\ \A c \in Dirs : c # d => /\ pgdir'[c] = pgdir[c]
                                     /\ pgdir[c].present => TableOf(c)' = TableOf(c)
         /\ TableOf(d)'[s] = PageEntry(job.flags, PageOf(job.phys))
         /\ \A t \in Slots : t # s =>
              TableOf(d)'[t] = IF pgdir[d].present THEN TableOf(d)[t] ELSE NoEntry
<1>1. job # NoJob
  BY DEF MapPage, NoJob
<1>2. job.flags \in SUBSET {PT_WRITEABLE, PT_USER} /\ PageOf(job.phys) \in Nat
  BY <1>1, JobFacts
<1>3. PICK g : g = IF NewTable(d) THEN Head(freelist) ELSE pgdir[d].frame
  OBVIOUS
<1>4. PICK e : e = [present |-> TRUE, flags |-> job.flags \cap {PT_USER}, frame |-> g]
  OBVIOUS
<1>5. PICK n : n = PageEntry(job.flags, PageOf(job.phys))
  OBVIOUS
<1>6. PICK b : b = TableBefore(d, g)
  OBVIOUS
<1>7. /\ job' = Rest(job) /\ UNCHANGED <<kernel_pgdir, owned, cr3, boot, mapped>>
      /\ wild' = RemapsKernel(d)
      /\ freelist' = IF NewTable(d) THEN AfterKalloc ELSE freelist
      /\ pgdir' = [pgdir EXCEPT ![d] = e]
      /\ DOMAIN tables' = DOMAIN tables \cup {g}
      /\ tables'[g] = [b EXCEPT ![s] = n]
      /\ \A f \in DOMAIN tables : f # g => tables'[f] = tables[f]
  <2>1. AllocDirEntry(d, job.flags) = e /\ e.frame = g
    BY <1>3, <1>4 DEF AllocDirEntry
  <2>2. Turn(b, job) = [b EXCEPT ![s] = n]
    BY <1>5 DEF Turn, PageEntry
  <2>3. /\ freelist' = IF NewTable(d) THEN AfterKalloc ELSE freelist
        /\ pgdir' = [pgdir EXCEPT ![d] = e]
        /\ tables' = [f \in DOMAIN tables \cup {g} |->
                        IF f # g THEN tables[f] ELSE Turn(TableBefore(d, f), job)]
        /\ UNCHANGED kernel_pgdir /\ wild' = RemapsKernel(d)
    BY <2>1 DEF MapPage
  <2>4. tables'[g] = Turn(b, job)
    BY <1>6, <2>3
  <2>5. job' = Rest(job) /\ UNCHANGED <<owned, cr3, boot, mapped>>
    BY DEF MapPage, Rest
  <2>6. DOMAIN tables' = DOMAIN tables \cup {g} /\ \A f \in DOMAIN tables : f # g => tables'[f] = tables[f]
    BY <2>3
  <2>7. QED
    BY <2>2, <2>3, <2>4, <2>5, <2>6
<1>8. /\ pgdir \in [Dirs -> Entries] /\ DOMAIN tables \subseteq Nat
      /\ \A f \in DOMAIN tables : tables[f] \in [Slots -> Entries]
  BY DEF MemTypeOK
<1>9. /\ g \in Nat
      /\ NewTable(d) => g = Head(freelist) /\ g \notin DOMAIN tables
      /\ ~NewTable(d) => g = pgdir[d].frame /\ g \in DOMAIN tables /\ pgdir[d].present
  <2>1. CASE NewTable(d)
    BY <1>3, <2>1, FreeHead DEF Used
  <2>2. CASE ~NewTable(d)
    BY <1>3, <1>8, <2>2 DEF DirInv, NewTable
  <2>3. QED
    BY <2>1, <2>2
<1>10. e \in Entries /\ n \in Entries /\ e.present = TRUE /\ e.frame = g /\ e.flags = job.flags \cap {PT_USER}
  BY <1>2, <1>4, <1>5, <1>9 DEF Entries, PageEntry
<1>11. b = (IF pgdir[d].present THEN tables[g] ELSE NoTable) /\ b \in [Slots -> Entries]
  <2>1. b = IF pgdir[d].present THEN tables[g] ELSE NoTable
    BY <1>6 DEF TableBefore, NewTable
  <2>2. NoTable \in [Slots -> Entries]
    BY DEF NoTable, NoEntry, Slots, Entries
  <2>3. QED
    BY <1>8, <1>9, <2>1, <2>2 DEF NewTable
<1>12. /\ pgdir' \in [Dirs -> Entries] /\ pgdir'[d] = e
       /\ \A c \in Dirs : c # d => pgdir'[c] = pgdir[c]
  BY <1>7, <1>8, <1>10
<1>13. tables'[g] \in [Slots -> Entries] /\ tables'[g][s] = n /\ \A t \in Slots : t # s => tables'[g][t] = b[t]
  BY <1>7, <1>10, <1>11
<1>14. \A c \in Dirs : c # d /\ pgdir[c].present => pgdir[c].frame \in DOMAIN tables /\ pgdir[c].frame # g
  BY <1>9 DEF DirInv
<1>15. freelist' \in Seq(Nat)
  <2>1. CASE NewTable(d)
    BY <1>7, <2>1, FreeHead DEF AfterKalloc
  <2>2. CASE ~NewTable(d)
    BY <1>7, <2>2 DEF MemTypeOK
  <2>3. QED
    BY <2>1, <2>2
<1>16. MemTypeOK'
  <2>1. DOMAIN tables' \subseteq Nat /\ \A f \in DOMAIN tables' : tables'[f] \in [Slots -> Entries]
    BY <1>7, <1>8, <1>9, <1>13
  <2>2. QED
    BY <1>7, <1>12, <1>15, <2>1 DEF MemTypeOK, RemapsKernel
<1>17. DirInv'
  BY <1>7, <1>10, <1>12, <1>14 DEF DirInv
<1>18. /\ TableOf(d)' = tables'[g]
       /\ \A c \in Dirs : c # d /\ pgdir[c].present => TableOf(c)' = TableOf(c)
  BY <1>7, <1>10, <1>12, <1>14 DEF TableOf
<1>19. \A t \in Slots : t # s => TableOf(d)'[t] = IF pgdir[d].present THEN TableOf(d)[t] ELSE NoEntry
  <2>1. \A t \in Slots : NoTable[t] = NoEntry
    BY DEF NoTable, Slots
  <2>2. pgdir[d].present => tables[g] = TableOf(d)
    BY <1>3 DEF NewTable, TableOf
  <2>3. QED
    BY <1>11, <1>13, <1>18, <2>1, <2>2
<1>20. DOMAIN tables' = IF NewTable(d) THEN DOMAIN tables \cup {Head(freelist)} ELSE DOMAIN tables
  BY <1>7, <1>9
<1>21. wild' = (boot = "run" /\ d = KernelDir)
  BY <1>7 DEF RemapsKernel, MemTypeOK, KernelDir
<1>22. QED
  BY <1>21, <1>1, <1>5, <1>7, <1>10, <1>12, <1>13, <1>16, <1>17, <1>18, <1>19, <1>20

LEMMA MapPageInv ==
  ASSUME AllocInv, MapPage
  PROVE  AllocInv'
<1>1. /\ MemTypeOK /\ DirInv /\ FrameInv /\ CountInv /\ JobInv
      /\ ~wild /\ job # NoJob /\ UNCHANGED <<owned, cr3, boot, mapped>> /\ job' = Rest(job)
  BY DEF AllocInv, MapPage, NoJob, Rest
<1>2. PICK d \in Dirs : d = PGDIR_IDX(job.addr)
  BY <1>1, JobFacts
<1>3. PICK s \in Slots : s = PT_IDX(job.addr)
  BY <1>1, JobFacts
<1>4. boot \notin {"kalloc", "pgdir"}
  BY <1>1 DEF JobInv
<1>5. JobInv'
  BY <1>1, JobAdvance
<1>6. /\ PT_ENTRIES - FirstFree = Len(freelist) + 1 + Cardinality(PresentDirs) + Cardinality(owned)
      /\ PresentDirs \subseteq NeededDirs /\ d \in NeededDirs
      /\ IsFiniteSet(owned) /\ Cardinality(owned) \in Nat
  BY <1>1, <1>2, <1>4, JobFacts, FS_CardinalityType DEF CountInv
<1>7. /\ IsFiniteSet(PresentDirs) /\ Cardinality(PresentDirs) \in Nat
      /\ NewTable(d) => Cardinality(PresentDirs \cup {d}) = Cardinality(PresentDirs) + 1
  <2>1. NewTable(d) => d \notin PresentDirs
    BY DEF NewTable, PresentDirs
  <2>2. QED
    BY <2>1, PresentFinite, FS_AddElement
<1>8. CASE NewTable(d) /\ freelist = <<>>
  <2>1. wild' = TRUE /\ UNCHANGED <<freelist, kernel_pgdir, pgdir, tables>>
    BY <1>2, <1>8 DEF MapPage, memVars
  <2>2. MemTypeOK' /\ DirInv' /\ FrameInv'
    BY <1>1, <2>1 DEF MemTypeOK, DirInv, FrameInv, Used, FirstUsed
  <2>3. CountInv'
    BY <1>1, <2>1 DEF CountInv, PresentDirs, NeededDirs
  <2>4. NoWildWrite'
    <3>1. Len(freelist) = 0
      BY <1>8
    <3>2. /\ NeededDirs \in SUBSET Dirs /\ IsFiniteSet(NeededDirs) /\ Cardinality(NeededDirs) \in Nat
          /\ PagesNeeded = 1 + Cardinality(NeededDirs) + Cardinality(owned)
      BY <1>1, NeededFacts
    <3>3. Cardinality(PresentDirs \cup {d}) <= Cardinality(NeededDirs)
      BY <1>6, <3>2, FS_Subset
    <3>4. PT_ENTRIES - FirstFree < PagesNeeded
      BY <1>6, <1>7, <1>8, <3>1, <3>2, <3>3
    <3>5. PagesNeeded' = PagesNeeded
      BY <1>1 DEF PagesNeeded
    <3>6. QED
      BY <3>4, <3>5 DEF NoWildWrite
  <2>5. QED
    BY <1>5, <2>2, <2>3, <2>4 DEF AllocInv
<1>9. CASE ~(NewTable(d) /\ freelist = <<>>)
  <2>1. /\ UNCHANGED <<kernel_pgdir, owned, boot, mapped>>
        /\ wild' = (boot = "run" /\ d = KernelDir)
        /\ freelist' = IF NewTable(d) THEN AfterKalloc ELSE freelist
        /\ DOMAIN tables' = IF NewTable(d) THEN DOMAIN tables \cup {Head(freelist)} ELSE DOMAIN tables
        /\ MemTypeOK' /\ DirInv' /\ pgdir'[d].present /\ \A c \in Dirs : c # d => pgdir'[c] = pgdir[c]
    BY <1>1, <1>2, <1>3, <1>9, MapPageMemory
  <2>2. NeededDirs' = NeededDirs
    BY <1>1 DEF NeededDirs
  <2>3. PresentDirs' = PresentDirs \cup {d}
    BY <2>1 DEF PresentDirs
  <2>0. NoWildWrite'
    <3>1. wild' => Asked(KERNEL_HIGH)
      BY <1>1, <1>2, <2>1, JobFacts DEF Asked, KernelDir
    <3>2. Asked(KERNEL_HIGH)' <=> Asked(KERNEL_HIGH)
      BY <1>1 DEF Asked
    <3>3. QED
      BY <3>1, <3>2 DEF NoWildWrite
  <2>4. CASE NewTable(d)
    <3>1. Used' = Used \cup {Head(freelist)} /\ freelist # <<>> /\ freelist' = AfterKalloc
      BY <1>9, <2>1, <2>4 DEF Used
    <3>2. /\ Len(freelist) = Len(freelist') + 1 /\ Len(freelist') \in Nat
          /\ \A k \in 1 .. Len(freelist') : freelist'[k] = FirstUsed' - k
          /\ FirstUsed' <= PT_ENTRIES /\ \A f \in Used' : FirstUsed' <= f /\ f < PT_ENTRIES
      BY <1>1, <1>4, <3>1, TakeHead
    <3>3. Head(freelist) \notin Used
      BY <1>1, <3>1, FreeHead
    <3>4. /\ kernel_pgdir' \cap DOMAIN tables' = {} /\ kernel_pgdir' \cap owned' = {}
          /\ DOMAIN tables' \cap owned' = {}
      BY <1>1, <2>1, <2>4, <3>3 DEF FrameInv, Used
    <3>5. FrameInv'
      BY <1>1, <1>4, <3>2, <3>4 DEF FrameInv
    <3>6. PT_ENTRIES - FirstFree =
            Len(freelist') + 1 + Cardinality(PresentDirs \cup {d}) + Cardinality(owned)
      BY <1>6, <1>7, <2>4, <3>2
    <3>7. CountInv'
      BY <1>1, <1>4, <1>6, <2>2, <2>3, <3>6 DEF CountInv
    <3>8. QED
      BY <1>1, <1>5, <2>0, <2>1, <3>5, <3>7 DEF AllocInv
  <2>5. CASE ~NewTable(d)
    <3>1. PresentDirs' = PresentDirs
      BY <2>3, <2>5 DEF NewTable, PresentDirs
    <3>2. UNCHANGED <<freelist, kernel_pgdir, owned, boot>> /\ DOMAIN tables' = DOMAIN tables
      BY <2>1, <2>5
    <3>3. FrameInv'
      BY <1>1, <1>4, <3>2 DEF FrameInv, Used, FirstUsed
    <3>4. CountInv'
      BY <1>1, <1>6, <2>2, <3>1, <3>2 DEF CountInv
    <3>5. QED
      BY <1>1, <1>5, <2>0, <2>1, <3>3, <3>4 DEF AllocInv
  <2>6. QED
    BY <2>4, <2>5
<1>10. QED
  BY <1>8, <1>9

LEMMA AllocStutter ==
  ASSUME AllocInv, UNCHANGED vars
  PROVE  AllocInv'
BY DEF AllocInv, MemTypeOK, DirInv, FrameInv, Used, FirstUsed, CountInv, PresentDirs, NeededDirs, JobInv,
       NoWildWrite, PagesNeeded, Asked, vars, memVars

(* The frames of AllocInv have one use. *)
LEMMA OneUse ==
  ASSUME AllocInv
  PROVE  FramesHaveOneUse
<1> DEFINE free == {freelist[k] : k \in 1 .. Len(freelist)}
           uses == <<free, kernel_pgdir, DOMAIN tables, owned>>
<1>1. MemTypeOK /\ DirInv /\ FrameInv
  BY DEF AllocInv
<1>2. /\ FirstFree \in Nat /\ Len(freelist) \in Nat /\ FirstUsed = FirstFree + Len(freelist)
      /\ PT_ENTRIES \in Nat /\ FirstUsed <= PT_ENTRIES
      /\ \A k \in 1 .. Len(freelist) : freelist[k] = FirstUsed - k
  BY <1>1, FirstFreeFacts, Sizes DEF MemTypeOK, FirstUsed, FrameInv
<1> HIDE DEF FirstUsed, FirstFree
<1>3. free = FirstFree .. (FirstUsed - 1)
  <2>1. \A f \in free : f \in FirstFree .. (FirstUsed - 1)
    BY <1>2
  <2>2. ASSUME NEW f \in FirstFree .. (FirstUsed - 1) PROVE f \in free
    <3>1. FirstUsed - f \in 1 .. Len(freelist) /\ FirstUsed - (FirstUsed - f) = f
      BY <1>2
    <3>2. QED
      BY <1>2, <3>1
  <2>3. QED
    BY <2>1, <2>2
<1> HIDE DEF free
<1>4. Cardinality(free) = Len(freelist)
  <2>1. FirstFree \in Int /\ FirstUsed - 1 \in Int
    BY <1>2
  <2>2. Cardinality(FirstFree .. (FirstUsed - 1)) =
          IF FirstFree > FirstUsed - 1 THEN 0 ELSE (FirstUsed - 1) - FirstFree + 1
    BY <2>1, FS_Interval
  <2>3. QED
    BY <1>2, <1>3, <2>2
<1>5. \A f \in Used : f \in Nat /\ FirstUsed <= f /\ f < PT_ENTRIES
  BY <1>1 DEF FrameInv, MemTypeOK, Used
<1>6. free \cap Used = {}
  BY <1>2, <1>3, <1>5
<1>7. \A j, k \in 1 .. 4 : j < k => uses[j] \cap uses[k] = {}
  <2>1. /\ free \cap kernel_pgdir = {} /\ free \cap DOMAIN tables = {} /\ free \cap owned = {}
        /\ kernel_pgdir \cap DOMAIN tables = {} /\ kernel_pgdir \cap owned = {}
        /\ DOMAIN tables \cap owned = {}
    BY <1>1, <1>6 DEF Used, FrameInv
  <2>2. uses[1] = free /\ uses[2] = kernel_pgdir /\ uses[3] = DOMAIN tables /\ uses[4] = owned
    OBVIOUS
  <2> HIDE DEF uses
  <2>3. \A j, k \in 1 .. 4 : j < k => <<j, k>> \in {<<1, 2>>, <<1, 3>>, <<1, 4>>, <<2, 3>>, <<2, 4>>, <<3, 4>>}
    OBVIOUS
  <2>4. QED
    BY <2>1, <2>2, <2>3
<1>8. ASSUME NEW f \in UNION {uses[k] : k \in 1 .. 4}
      PROVE  KERNEL_HIGH + f * PAGE_SIZE >= KERNEL_END /\ f < PT_ENTRIES
  <2>1. f \in free \cup Used
    BY <1>8 DEF Used
  <2>2. f \in Nat /\ f >= FirstFree /\ f < PT_ENTRIES
    BY <1>2, <1>3, <1>5, <2>1
  <2>3. QED
    BY <2>2, FirstFreeFacts
<1>9. \A d, c \in DOMAIN pgdir :
        d # c /\ pgdir[d].present /\ pgdir[c].present => pgdir[d].frame # pgdir[c].frame
  BY <1>1 DEF DirInv, MemTypeOK
<1>10. QED
  BY <1>4, <1>7, <1>8, <1>9 DEF FramesHaveOneUse, free

-----------------------------------------------------------------------------
(* What is mapped stays mapped.                                            *)

LEMMA DirFacts ==
  /\ KernelDir \in Dirs /\ UserDir \in Dirs /\ UserSlot \in Slots /\ KernelDir # UserDir
BY IndexRange, Sizes, PagingAssumption DEF KernelDir, UserDir, UserSlot, Dirs, Slots

LEMMA MapInit == Init => MapInv
<1>1. SUFFICES ASSUME Init PROVE MapInv
  OBVIOUS
<1>2. boot = "kalloc" /\ mapped = {} /\ pgdir = [d \in Dirs |-> NoEntry]
  BY <1>1 DEF Init, Dirs
<1>3. \A d \in Dirs : pgdir[d].flags = {} /\ pgdir[d].present = FALSE
  BY <1>2 DEF NoEntry
<1>4. KernelDone = 0
  BY <1>2 DEF KernelDone
<1>5. KernelMapped /\ UserMapped /\ RegionsMapped
  BY <1>2, <1>4 DEF KernelMapped, UserMapped, RegionsMapped
<1>6. UserAlone
  BY <1>3, DirFacts DEF UserAlone
<1>7. QED
  BY <1>2, <1>5, <1>6 DEF MapInv, UserKept

(* The steps that leave directory and tables alone. *)
LEMMA MapQuiet ==
  ASSUME MapInv, ~wild, UNCHANGED <<pgdir, tables, mapped>>, KernelDone' = KernelDone,
         boot' = "run" \/ (boot' = "user" /\ job' = NoJob) =>
           boot = "run" \/ (boot = "user" /\ job = NoJob),
         boot' = "run" => KernelDone = PT_ENTRIES,
         job = NoJob \/ mapped = {}
  PROVE  MapInv'
<1>1. KernelMapped /\ UserKept /\ RegionsMapped /\ UserAlone
  BY DEF MapInv
<1>2. KernelMapped' /\ UserKept' /\ UserAlone'
  BY <1>1 DEF KernelMapped, UserKept, UserMapped, Asked, UserAlone, TableOf
<1>3. RegionsMapped'
  <2>1. \A r \in mapped : InSpace(r) /\ \A a \in PagesOf(r) : TranslatesTo(a, PageOf(a))
    BY <1>1 DEF RegionsMapped, Ahead
  <2>2. QED
    BY <2>1 DEF RegionsMapped, TranslatesTo, Present, TableEntry, DirEntry
<1>4. boot' = "run" => KernelTableFull
  BY <1>1 DEF KernelMapped, KernelTableFull, Slots
<1>5. boot' = "run" => KernelTableFull'
  BY <1>4 DEF KernelTableFull, TableOf
<1>6. QED
  BY <1>2, <1>3, <1>5 DEF MapInv

LEMMA QuietSteps ==
  ASSUME MapInv, AllocInv, ~wild,
         init_kalloc_early \/ PgdirAlloc \/ MapUser \/ load_cr3 \/ kalloc_owned
  PROVE  MapInv'
<1>1. UNCHANGED <<pgdir, tables, mapped>>
  BY DEF init_kalloc_early, PgdirAlloc, MapUser, load_cr3, kalloc_owned, memVars
<1>2. CASE init_kalloc_early
  <2>1. boot = "kalloc" /\ boot' = "pgdir" /\ job = NoJob
    BY <1>2 DEF init_kalloc_early, AllocInv, JobInv
  <2>2. QED
    BY <1>1, <2>1, MapQuiet DEF KernelDone
<1>3. CASE PgdirAlloc
  <2>1. boot = "pgdir" /\ job = NoJob
    BY <1>3 DEF PgdirAlloc, AllocInv, JobInv
  <2>2. CASE freelist = <<>>
    BY <1>1, <1>3, <2>1, <2>2, MapQuiet DEF PgdirAlloc, KernelDone
  <2>3. CASE freelist # <<>>
    <3>1. boot' = "kernel" /\ job' = KernelJob(0)
      BY <1>3, <2>3, KernelCall DEF PgdirAlloc
    <3>2. job'.size > 0 /\ job'.phys = 0 * PAGE_SIZE
      BY <3>1, Sizes DEF KernelJob
    <3>3. job' # NoJob /\ PageOf(job'.phys) = 0
      BY <3>2, PageAddress DEF NoJob
    <3>4. KernelDone = 0 /\ KernelDone' = 0
      BY <2>1, <3>1, <3>3 DEF KernelDone
    <3>5. QED
      BY <1>1, <2>1, <3>1, <3>4, MapQuiet
  <2>4. QED
    BY <2>2, <2>3
<1>4. CASE MapUser
  <2>1. boot = "kernel" /\ job = NoJob /\ boot' = "user" /\ job' = UserJob
    BY <1>4, UserCall DEF MapUser
  <2>2. job' # NoJob
    BY <2>1, Sizes DEF UserJob, NoJob
  <2>3. QED
    BY <1>1, <2>1, <2>2, MapQuiet DEF KernelDone
<1>5. CASE load_cr3 \/ kalloc_owned
  <2>1. job = NoJob /\ boot' = "run" /\ (boot = "run" \/ boot = "user") /\ job' = job
    BY <1>5 DEF load_cr3, kalloc_owned
  <2>2. KernelDone = PT_ENTRIES /\ KernelDone' = PT_ENTRIES
    BY <2>1 DEF KernelDone
  <2>3. QED
    BY <1>1, <2>1, <2>2, MapQuiet
<1>6. QED
  BY <1>2, <1>3, <1>4, <1>5

(* identity_map has all pages of the region ahead. *)
LEMMA IdentityMapMaps ==
  ASSUME MapInv, AllocInv, ~wild, NEW r, IsRegion(r), InSpace(r), identity_map(r)
  PROVE  MapInv'
<1>1. /\ boot = "run" /\ job = NoJob /\ job' = RegionJob(r, 0) /\ mapped' = mapped \cup {r}
      /\ UNCHANGED <<pgdir, tables, boot, wild>>
  BY RegionCall DEF identity_map, memVars
<1>2. KernelMapped /\ UserKept /\ RegionsMapped /\ UserAlone
  BY DEF MapInv
<1>3. KernelDone = PT_ENTRIES /\ KernelDone' = PT_ENTRIES
  BY <1>1 DEF KernelDone
<1>4. KernelMapped' /\ UserKept' /\ UserAlone'
  BY <1>1, <1>2, <1>3 DEF KernelMapped, UserKept, UserMapped, Asked, UserAlone, TableOf
<1>5. \A q \in mapped : InSpace(q) /\ \A a \in PagesOf(q) : TranslatesTo(a, PageOf(a))
  BY <1>1, <1>2 DEF RegionsMapped, Ahead
<1>6. ASSUME NEW a \in PagesOf(r) PROVE Ahead(a)'
  <2>1. PageCount(r) \in Nat \ {0} /\ ROUNDDOWN(r.addr) \in Nat
    BY RegionPages, AddressPage DEF IsRegion
  <2>2. PICK k \in 0 .. (PageCount(r) - 1) : a = ROUNDDOWN(r.addr) + k * PAGE_SIZE
    BY <1>6, RegionPages
  <2>3. job'.addr = ROUNDDOWN(r.addr) + 0 * PAGE_SIZE /\ job'.size = (PageCount(r) - 0) * PAGE_SIZE
    BY <1>1 DEF RegionJob
  <2>4. job'.addr = ROUNDDOWN(r.addr) /\ job'.size = PageCount(r) * PAGE_SIZE
    BY <2>1, <2>3, Sizes
  <2>5. k \in Nat /\ k * PAGE_SIZE < PageCount(r) * PAGE_SIZE /\ PageCount(r) * PAGE_SIZE > 0
    BY <2>1, Sizes, MulMono
  <2>6. job' # NoJob
    BY <2>4, <2>5 DEF NoJob
  <2>7. QED
    BY <2>2, <2>4, <2>5, <2>6 DEF Ahead
<1>7. RegionsMapped'
  <2>1. \A q \in mapped : \A a \in PagesOf(q) : TranslatesTo(a, PageOf(a))'
    BY <1>1, <1>5 DEF TranslatesTo, Present, TableEntry, DirEntry
  <2>2. QED
    BY <1>1, <1>5, <1>6, <2>1 DEF RegionsMapped
<1>8. KernelTableFull'
  <2>1. KernelTableFull
    BY <1>2, <1>3 DEF KernelMapped, KernelTableFull, Slots
  <2>2. QED
    BY <1>1, <2>1 DEF KernelTableFull, TableOf
<1>9. QED
  BY <1>4, <1>7, <1>8 DEF MapInv

(* An entry that a turn does not write stays. *)
LEMMA OtherEntry ==
  ASSUME NEW d \in Dirs, NEW s \in Slots, NEW c \in Dirs, NEW t \in Slots,
         \A b \in Dirs : b # d => /\ pgdir'[b] = pgdir[b]
                                  /\ pgdir[b].present => TableOf(b)' = TableOf(b),
         pgdir'[d].present,
         \A u \in Slots : u # s => TableOf(d)'[u] = IF pgdir[d].present THEN TableOf(d)[u] ELSE NoEntry,
         pgdir[c].present, c # d \/ t # s
  PROVE  pgdir'[c].present /\ TableOf(c)'[t] = TableOf(c)[t]
<1>1. CASE c = d
  BY <1>1
<1>2. CASE c # d
  BY <1>2
<1>3. QED
  BY <1>1, <1>2

LEMMA TranslatesByEntry ==
  ASSUME NEW a, NEW f
  PROVE  /\ TranslatesTo(a, f) <=> /\ pgdir[PGDIR_IDX(a)].present
                                   /\ TableOf(PGDIR_IDX(a))[PT_IDX(a)].present
                                   /\ TableOf(PGDIR_IDX(a))[PT_IDX(a)].frame = f
         /\ TranslatesTo(a, f)' <=> /\ pgdir'[PGDIR_IDX(a)].present
                                    /\ TableOf(PGDIR_IDX(a))'[PT_IDX(a)].present
                                    /\ TableOf(PGDIR_IDX(a))'[PT_IDX(a)].frame = f
BY DEF TranslatesTo, Present, TableEntry, DirEntry, TableOf

LEMMA MapPageMaps ==
  ASSUME MapInv, AllocInv, MapPage
  PROVE  MapInv'
<1>1. /\ MemTypeOK /\ DirInv /\ FrameInv /\ JobInv /\ ~wild /\ job # NoJob
      /\ KernelMapped /\ UserKept /\ RegionsMapped /\ UserAlone
      /\ boot = "run" => KernelTableFull \/ Asked(KERNEL_HIGH)
      /\ boot # "run" => mapped = {} /\ ~Asked(USERSPACE_START)
  BY DEF AllocInv, JobInv, Asked, MapInv, MapPage, NoJob
<1>0. (\A a : Asked(a)' <=> Asked(a)) /\ mapped' = mapped
  BY DEF MapPage, Asked
<1>2. PICK d \in Dirs : d = PGDIR_IDX(job.addr)
  BY <1>1, JobFacts
<1>3. PICK s \in Slots : s = PT_IDX(job.addr)
  BY <1>1, JobFacts
<1>4. CASE NewTable(d) /\ freelist = <<>>
  <2>1. wild' = TRUE /\ UNCHANGED <<pgdir, tables, boot>>
    BY <1>2, <1>4 DEF MapPage, memVars
  <2>2. UserAlone' /\ (boot' = "run" => (KernelTableFull \/ Asked(KERNEL_HIGH))' /\ UserKept')
    BY <1>0, <1>1, <2>1 DEF UserAlone, KernelTableFull, UserKept, UserMapped, TableOf
  <2>3. QED
    BY <2>1, <2>2 DEF MapInv
<1>5. CASE ~(NewTable(d) /\ freelist = <<>>)
  <2>1. /\ job' = Rest(job) /\ UNCHANGED <<boot, mapped>>
        /\ wild' = (boot = "run" /\ d = KernelDir)
        /\ pgdir'[d].present /\ pgdir'[d].flags = job.flags \cap {PT_USER}
        /\ TableOf(d)'[s] = PageEntry(job.flags, PageOf(job.phys))
    BY <1>1, <1>2, <1>3, <1>5, MapPageMemory
  <2>2. \A c \in Dirs : c # d => /\ pgdir'[c] = pgdir[c]
                                 /\ pgdir[c].present => TableOf(c)' = TableOf(c)
    BY <1>1, <1>2, <1>3, <1>5, MapPageMemory
  <2>3. \A t \in Slots : t # s => TableOf(d)'[t] = IF pgdir[d].present THEN TableOf(d)[t] ELSE NoEntry
    BY <1>1, <1>2, <1>3, <1>5, MapPageMemory
  <2>4. CASE boot = "kernel"
    <3>1. PICK j \in Slots : job = KernelJob(j)
      BY <1>1, <2>4 DEF JobInv
    <3>2. /\ job.addr = KERNEL_HIGH + j * PAGE_SIZE /\ job.phys = j * PAGE_SIZE
          /\ job.flags = {PT_WRITEABLE} /\ j \in Nat /\ j < PT_ENTRIES /\ PT_ENTRIES \in Nat
      BY <3>1, Sizes DEF KernelJob, Slots
    <3>3. d = KernelDir /\ s = j /\ PageOf(job.phys) = j
      BY <1>2, <1>3, <3>2, KernelIndex, PageAddress DEF Slots
    <3>4. KernelDone = j
      BY <1>1, <2>4, <3>3 DEF KernelDone
    <3>5. KernelDone' = j + 1
      <4>1. CASE j = PT_ENTRIES - 1
        <5>1. job' = NoJob
          BY <2>1, <3>1, <4>1, KernelRest
        <5>2. QED
          BY <2>1, <2>4, <3>2, <4>1, <5>1 DEF KernelDone
      <4>2. CASE j # PT_ENTRIES - 1
        <5>1. job' = KernelJob(j + 1)
          BY <2>1, <3>1, <4>2, KernelRest
        <5>2. job'.phys = (j + 1) * PAGE_SIZE /\ job'.size = (PT_ENTRIES - (j + 1)) * PAGE_SIZE
          BY <5>1 DEF KernelJob
        <5>3. PageOf(job'.phys) = j + 1 /\ PT_ENTRIES - (j + 1) \in Nat \ {0}
          BY <3>2, <4>2, <5>2, PageAddress
        <5>4. job'.size # 0
          BY <5>2, <5>3, Sizes
        <5>5. job' # NoJob
          BY <5>4 DEF NoJob
        <5>6. QED
          BY <2>1, <2>4, <5>3, <5>5 DEF KernelDone
      <4>3. QED
        BY <4>1, <4>2
    <3>6. KernelMapped'
      <4>1. ASSUME NEW t \in 0 .. j
            PROVE  /\ pgdir'[KernelDir].present
                   /\ TableOf(KernelDir)'[t] = PageEntry({PT_WRITEABLE}, t)
        <5>1. CASE t = j
          BY <2>1, <3>2, <3>3, <5>1
        <5>2. CASE t # j
          <6>1. t \in 0 .. (j - 1) /\ t \in Slots
            BY <3>2, <5>2 DEF Slots
          <6>2. pgdir[KernelDir].present /\ TableOf(KernelDir)[t] = PageEntry({PT_WRITEABLE}, t)
            BY <1>1, <3>4, <6>1 DEF KernelMapped
          <6>3. QED
            BY <2>1, <2>3, <3>3, <5>2, <6>1, <6>2
        <5>3. QED
          BY <5>1, <5>2
      <4>2. 0 .. (KernelDone' - 1) = 0 .. j
        BY <3>2, <3>5
      <4>3. QED
        BY <4>1, <4>2 DEF KernelMapped
    <3>7. UserAlone'
      <4>1. UserDir # d /\ UserDir \in Dirs
        BY <3>3, DirFacts
      <4>2. PT_USER \notin job.flags
        BY <3>2 DEF PT_USER, PT_WRITEABLE
      <4>3. QED
        BY <1>1, <2>1, <2>2, <4>1, <4>2 DEF UserAlone
    <3>8. UserKept' /\ RegionsMapped'
      BY <1>1, <2>1, <2>4 DEF UserKept, UserMapped, RegionsMapped, JobInv
    <3>9. QED
      BY <2>1, <2>4, <3>6, <3>7, <3>8 DEF MapInv
  <2>5. CASE boot = "user"
    <3>1. job = UserJob
      BY <1>1, <2>5 DEF JobInv
    <3>2. /\ job.addr = USERSPACE_START /\ job.phys = virt2phys(USERSPACE_START)
          /\ job.flags = {PT_USER, PT_WRITEABLE}
      BY <3>1 DEF UserJob
    <3>3. d = UserDir /\ s = UserSlot
      BY <1>2, <1>3, <3>2 DEF UserDir, UserSlot
    <3>4. KernelDone = PT_ENTRIES /\ KernelDone' = PT_ENTRIES
      BY <2>1, <2>5 DEF KernelDone
    <3>5. KernelMapped'
      <4>1. \A t \in Slots : pgdir[KernelDir].present /\ TableOf(KernelDir)[t] = PageEntry({PT_WRITEABLE}, t)
        BY <1>1, <3>4 DEF KernelMapped, Slots
      <4>2. KernelDir # d /\ KernelDir \in Dirs
        BY <3>3, DirFacts
      <4>3. \A t \in Slots : pgdir'[KernelDir].present /\ TableOf(KernelDir)'[t] = PageEntry({PT_WRITEABLE}, t)
        BY <2>2, <4>1, <4>2
      <4>4. QED
        BY <3>4, <4>3 DEF KernelMapped, Slots
    <3>6. UserKept'
      BY <2>1, <3>2, <3>3 DEF UserKept, UserMapped
    <3>7. UserAlone'
      <4>1. \A t \in Slots : t # s => PT_USER \notin TableOf(d)'[t].flags
        BY <1>1, <2>3, <3>3 DEF UserAlone, NoEntry
      <4>2. \A c \in Dirs : c # d => pgdir'[c] = pgdir[c]
        BY <2>2
      <4>3. QED
        BY <1>1, <3>3, <4>1, <4>2 DEF UserAlone
    <3>8. RegionsMapped'
      BY <1>1, <2>1, <2>5 DEF RegionsMapped, JobInv
    <3>9. QED
      BY <2>1, <2>5, <3>5, <3>6, <3>7, <3>8 DEF MapInv
  <2>6. CASE boot = "run"
    <3>1. PICK r \in mapped : \E k \in 0 .. (PageCount(r) - 1) : job = RegionJob(r, k)
      BY <1>1, <2>6 DEF JobInv
    <3>2. PICK k \in 0 .. (PageCount(r) - 1) : job = RegionJob(r, k)
      BY <3>1
    <3>3. /\ job.addr = ROUNDDOWN(r.addr) + k * PAGE_SIZE /\ job.phys = job.addr
          /\ job.flags = {PT_WRITEABLE} /\ job.size = (PageCount(r) - k) * PAGE_SIZE
      BY <3>2 DEF RegionJob
    <3>4. IsRegion(r) /\ InSpace(r) /\ PageCount(r) \in Nat /\ k \in Nat
      <4>1. IsRegion(r) /\ InSpace(r)
        BY <1>1 DEF JobInv, RegionsMapped
      <4>2. PageCount(r) \in Nat
        BY <4>1, RegionPages
      <4>3. QED
        BY <4>1, <4>2
    <3>5. job.addr \in Nat /\ job.addr \in PagesOf(r)
      BY <3>3, <3>4, RegionPages
    <3>6. /\ PageOf(job.addr) < PD_ENTRIES * PT_ENTRIES
          /\ d = KernelDir => Asked(KERNEL_HIGH)' /\ wild'
          /\ d = UserDir => Asked(USERSPACE_START)'
      BY <1>0, <1>2, <2>1, <2>6, <3>4, <3>5 DEF InSpace, Asked, KernelDir, UserDir
    <3>7. PT_USER \notin job.flags
      BY <3>3 DEF PT_USER, PT_WRITEABLE
    <3>8. (d # KernelDir => KernelTableFull') /\ UserKept' /\ UserAlone'
      <4>1. KernelTableFull
        <5>1. KernelDone = PT_ENTRIES
          BY <2>6 DEF KernelDone
        <5>2. QED
          BY <1>1, <5>1 DEF KernelMapped, KernelTableFull, Slots
      <4>2. d # KernelDir => KernelTableFull'
        BY <2>2, <4>1, DirFacts DEF KernelTableFull
      <4>3. UserKept'
        <5>1. CASE d = UserDir
          BY <3>6, <5>1 DEF UserKept
        <5>2. CASE d # UserDir
          <6>1. UserMapped => UserMapped'
            BY <2>1, <2>2, <2>6, <5>2, DirFacts DEF UserMapped
          <6>2. QED
            BY <1>0, <1>1, <6>1 DEF UserKept
        <5>3. QED
          BY <5>1, <5>2
      <4>4. UserAlone'
        <5>1. CASE d = UserDir
          <6>1. \A t \in Slots : t # s /\ PT_USER \in TableOf(d)'[t].flags => t = UserSlot
            BY <1>1, <2>3, <5>1 DEF UserAlone, NoEntry
          <6>2. PT_USER \notin TableOf(d)'[s].flags
            BY <2>1, <3>7 DEF PageEntry
          <6>3. QED
            BY <1>1, <2>2, <5>1, <6>1, <6>2 DEF UserAlone
        <5>2. CASE d # UserDir
          BY <1>1, <2>1, <2>2, <3>7, <5>2, DirFacts DEF UserAlone
        <5>3. QED
          BY <5>1, <5>2
      <4>5. QED
        BY <4>2, <4>3, <4>4
    <3>9. ~wild' => KernelMapped'
      <4>1. KernelDone' = PT_ENTRIES
        BY <2>1, <2>6 DEF KernelDone
      <4>2. QED
        BY <3>6, <3>8, <4>1 DEF KernelMapped, KernelTableFull, Slots
    <3>10. ASSUME NEW a \in Nat, PageOf(a) < PD_ENTRIES * PT_ENTRIES, TranslatesTo(a, PageOf(a))
           PROVE  TranslatesTo(a, PageOf(a))'
      <4>1. PICK c \in Dirs : c = PGDIR_IDX(a)
        BY IndexRange DEF Dirs
      <4>2. PICK t \in Slots : t = PT_IDX(a)
        BY IndexRange DEF Slots
      <4>3. pgdir[c].present /\ TableOf(c)[t].present /\ TableOf(c)[t].frame = PageOf(a)
        BY <3>10, <4>1, <4>2, TranslatesByEntry
      <4>4. CASE c = d /\ t = s
        <5>1. PageOf(a) = PageOf(job.addr)
          BY <1>2, <1>3, <3>5, <3>6, <3>10, <4>1, <4>2, <4>4, SameEntry
        <5>2. TableOf(d)'[s].present /\ TableOf(d)'[s].frame = PageOf(a)
          BY <2>1, <3>3, <5>1 DEF PageEntry
        <5>3. QED
          BY <2>1, <4>1, <4>2, <4>4, <5>2, TranslatesByEntry
      <4>5. CASE c # d \/ t # s
        <5>1. pgdir'[c].present /\ TableOf(c)'[t] = TableOf(c)[t]
          BY <2>1, <2>2, <2>3, <4>3, <4>5, OtherEntry
        <5>2. QED
          BY <4>1, <4>2, <4>3, <5>1, TranslatesByEntry
      <4>6. QED
        BY <4>4, <4>5
    <3>11. ASSUME NEW a, Ahead(a) PROVE Ahead(a)' \/ TranslatesTo(a, PageOf(a))'
      <4>1. PICK m \in Nat : a = job.addr + m * PAGE_SIZE /\ m * PAGE_SIZE < job.size
        BY <3>11 DEF Ahead
      <4>2. CASE m = 0
        <5>1. a = job.addr
          BY <3>5, <4>1, <4>2, Sizes
        <5>2. TableOf(d)'[s].present /\ TableOf(d)'[s].frame = PageOf(a)
          BY <2>1, <3>3, <5>1 DEF PageEntry
        <5>3. d = PGDIR_IDX(a) /\ s = PT_IDX(a)
          BY <1>2, <1>3, <5>1
        <5>4. QED
          BY <2>1, <5>2, <5>3, TranslatesByEntry
      <4>3. CASE m # 0
        <5>1. PICK n \in Nat : n + 1 = m
          <6>1. m - 1 \in Nat /\ (m - 1) + 1 = m
            BY <4>3
          <6>2. QED
            BY <6>1
        <5>2. m * PAGE_SIZE = n * PAGE_SIZE + PAGE_SIZE /\ n * PAGE_SIZE \in Nat
          BY <5>1, Sizes
        <5>3. job.size \in Nat
          BY <3>3, <3>4, Sizes
        <5>4. job.size # PAGE_SIZE /\ job.size > PAGE_SIZE
          BY <4>1, <5>2, <5>3, Sizes
        <5>5. job'.addr = job.addr + PAGE_SIZE /\ job'.size = job.size - PAGE_SIZE
          BY <2>1, <5>4 DEF Rest
        <5>6. a = job'.addr + n * PAGE_SIZE /\ n * PAGE_SIZE < job'.size /\ job'.size > 0
          BY <3>5, <4>1, <5>2, <5>3, <5>4, <5>5, Sizes
        <5>7. job' # NoJob
          BY <5>6 DEF NoJob
        <5>8. QED
          BY <5>6, <5>7 DEF Ahead
      <4>4. QED
        BY <4>2, <4>3
    <3>12. RegionsMapped'
      <4>1. ASSUME NEW q \in mapped, NEW a \in PagesOf(q)
            PROVE  Ahead(a)' \/ TranslatesTo(a, PageOf(a))'
        <5>1. IsRegion(q) /\ InSpace(q) /\ (Ahead(a) \/ TranslatesTo(a, PageOf(a)))
          BY <1>1, <4>1 DEF RegionsMapped, JobInv
        <5>2. PageCount(q) \in Nat
          BY <5>1, RegionPages
        <5>3. a \in Nat /\ PageOf(a) < PD_ENTRIES * PT_ENTRIES
          BY <4>1, <5>1, <5>2, RegionPages DEF InSpace
        <5>4. QED
          BY <3>10, <3>11, <5>1, <5>3
      <4>2. QED
        BY <1>1, <2>1, <4>1 DEF RegionsMapped
    <3>13. QED
      BY <2>1, <3>6, <3>8, <3>9, <3>12 DEF MapInv
  <2>7. QED
    BY <1>1, <2>4, <2>5, <2>6 DEF JobInv
<1>6. QED
  BY <1>4, <1>5

LEMMA MapStutter ==
  ASSUME MapInv, UNCHANGED vars
  PROVE  MapInv'
<1>1. UNCHANGED <<pgdir, tables, job, boot, mapped, wild>>
  BY DEF vars, memVars
<1>2. /\ KernelMapped' <=> KernelMapped
      /\ UserKept' <=> UserKept
      /\ KernelTableFull' <=> KernelTableFull
      /\ UserAlone' <=> UserAlone
      /\ Asked(KERNEL_HIGH)' <=> Asked(KERNEL_HIGH)
  BY <1>1 DEF KernelMapped, KernelDone, UserKept, UserMapped, Asked, KernelTableFull, UserAlone, TableOf
<1>3. RegionsMapped' <=> RegionsMapped
  BY <1>1 DEF RegionsMapped, Ahead, TranslatesTo, Present, TableEntry, DirEntry
<1>4. QED
  BY <1>1, <1>2, <1>3 DEF MapInv

-----------------------------------------------------------------------------
(* What the invariants mean for an access.                                 *)

LEMMA TableReaches ==
  ASSUME KernelTableFull, NEW j \in Slots
  PROVE  TranslatesTo(KERNEL_HIGH + j * PAGE_SIZE, j)
<1>1. j \in 0 .. (PT_ENTRIES - 1)
  BY DEF Slots
<1>2. pgdir[KernelDir].present /\ TableOf(KernelDir)[j] = PageEntry({PT_WRITEABLE}, j)
  BY DEF KernelTableFull
<1>3. TableOf(KernelDir)[j].present /\ TableOf(KernelDir)[j].frame = j
  BY <1>2 DEF PageEntry
<1>4. PGDIR_IDX(KERNEL_HIGH + j * PAGE_SIZE) = KernelDir /\ PT_IDX(KERNEL_HIGH + j * PAGE_SIZE) = j
  BY <1>1, KernelIndex
<1>5. QED
  BY <1>2, <1>3, <1>4, TranslatesByEntry

(* As long as the boot goes on, the kernel finds its memory. *)
LEMMA KernelReaches ==
  ASSUME MapInv, boot = "run", ~wild, NEW j \in Slots
  PROVE  TranslatesTo(KERNEL_HIGH + j * PAGE_SIZE, j)
<1>1. KernelMapped /\ KernelDone = PT_ENTRIES
  BY DEF MapInv, KernelDone
<1>2. KernelTableFull
  BY <1>1 DEF KernelMapped, KernelTableFull, Slots
<1>3. QED
  BY <1>2, TableReaches

LEMMA KernelIsMapped ==
  ASSUME AllocInv, MapInv
  PROVE  KernelStaysMapped
<1>1. SUFFICES ASSUME boot = "run", ~Asked(KERNEL_HIGH), NEW j \in 0 .. (PT_ENTRIES - 1)
               PROVE  LET a == KERNEL_HIGH + j * PAGE_SIZE IN TranslatesTo(a, PageOf(virt2phys(a)))
  BY DEF KernelStaysMapped, KernelPages, AllocInv, MemTypeOK
<1>2. j \in Nat /\ j * PAGE_SIZE \in Nat /\ KERNEL_HIGH \in Nat
  BY Sizes
<1>3. virt2phys(KERNEL_HIGH + j * PAGE_SIZE) = j * PAGE_SIZE
  BY <1>2 DEF virt2phys
<1>4. PageOf(virt2phys(KERNEL_HIGH + j * PAGE_SIZE)) = j
  BY <1>2, <1>3, PageAddress
<1>5. TranslatesTo(KERNEL_HIGH + j * PAGE_SIZE, j)
  BY <1>1, TableReaches DEF MapInv, Slots
<1>6. QED
  BY <1>4, <1>5

LEMMA UserIsAlone ==
  ASSUME AllocInv, MapInv
  PROVE  UserReachesItsPageOnly
<1>1. SUFFICES ASSUME boot = "run"
               PROVE  /\ \A a \in AllPages : UserReaches(a) => a = USERSPACE_START
                      /\ ~Asked(USERSPACE_START) =>
                           /\ TranslatesTo(USERSPACE_START, PageOf(virt2phys(USERSPACE_START)))
                           /\ UserReaches(USERSPACE_START)
  BY DEF UserReachesItsPageOnly, AllocInv, MemTypeOK
<1>2. ASSUME ~Asked(USERSPACE_START)
      PROVE  /\ TranslatesTo(USERSPACE_START, PageOf(virt2phys(USERSPACE_START)))
             /\ UserReaches(USERSPACE_START)
  <2>1. /\ pgdir[UserDir].present /\ PT_USER \in pgdir[UserDir].flags
        /\ TableOf(UserDir)[UserSlot] =
             PageEntry({PT_USER, PT_WRITEABLE}, PageOf(virt2phys(USERSPACE_START)))
    BY <1>1, <1>2 DEF MapInv, UserKept, UserMapped
  <2>2. /\ TableOf(UserDir)[UserSlot].present /\ PT_USER \in TableOf(UserDir)[UserSlot].flags
        /\ TableOf(UserDir)[UserSlot].frame = PageOf(virt2phys(USERSPACE_START))
    BY <2>1 DEF PageEntry
  <2>3. TranslatesTo(USERSPACE_START, PageOf(virt2phys(USERSPACE_START)))
    BY <2>1, <2>2, TranslatesByEntry DEF UserDir, UserSlot
  <2>4. UserReaches(USERSPACE_START)
    BY <2>1, <2>2 DEF UserReaches, Present, TableEntry, DirEntry, TableOf, UserDir, UserSlot
  <2>5. QED
    BY <2>3, <2>4
<1>3. ASSUME NEW a \in AllPages, UserReaches(a) PROVE a = USERSPACE_START
  <2>1. PICK p \in 0 .. (PD_ENTRIES * PT_ENTRIES - 1) : a = p * PAGE_SIZE
    BY <1>3 DEF AllPages
  <2>2. PD_ENTRIES * PT_ENTRIES \in Nat
    BY Sizes
  <2>3. p \in Nat /\ a \in Nat /\ PageOf(a) = p /\ p < PD_ENTRIES * PT_ENTRIES
    BY <2>1, <2>2, PageAddress
  <2>4. PGDIR_IDX(a) \in Dirs /\ PT_IDX(a) \in Slots
    BY <2>3, IndexRange DEF Dirs, Slots
  <2>5. /\ pgdir[PGDIR_IDX(a)].present /\ PT_USER \in pgdir[PGDIR_IDX(a)].flags
        /\ PT_USER \in TableOf(PGDIR_IDX(a))[PT_IDX(a)].flags
    BY <1>3 DEF UserReaches, Present, TableEntry, DirEntry, TableOf
  <2>6. PGDIR_IDX(a) = UserDir /\ PT_IDX(a) = UserSlot
    BY <2>4, <2>5 DEF MapInv, UserAlone
  <2>7. UserPage < PD_ENTRIES * PT_ENTRIES
    <3>1. UserPage \in Nat /\ UserPage * PAGE_SIZE = USERSPACE_START
      BY UserAddress
    <3>2. USERSPACE_START < (PD_ENTRIES * PT_ENTRIES) * PAGE_SIZE
      BY PagingAssumption, Sizes
    <3>3. ~(PD_ENTRIES * PT_ENTRIES <= UserPage)
      BY <2>2, <3>1, <3>2, Sizes, MulMono
    <3>4. QED
      BY <2>2, <3>1, <3>3
  <2>8. PageOf(a) = UserPage
    BY <2>3, <2>6, <2>7, Sizes, SameEntry DEF UserDir, UserSlot, UserPage
  <2>9. QED
    BY <2>1, <2>3, <2>8, UserAddress
<1>4. QED
  BY <1>2, <1>3

LEMMA PagesAreMapped ==
  ASSUME MapInv, job = NoJob, ~wild, NEW r \in mapped, NEW a \in PagesOf(r)
  PROVE  TranslatesTo(a, PageOf(a))
BY DEF MapInv, RegionsMapped, Ahead

(* A byte is where its page is. *)
LEMMA ByteTranslates ==
  ASSUME NEW b \in Nat, TranslatesTo(ROUNDDOWN(b), PageOf(ROUNDDOWN(b)))
  PROVE  TranslatesTo(b, PageOf(b))
<1>1. /\ PageOf(ROUNDDOWN(b)) = PageOf(b)
      /\ PGDIR_IDX(ROUNDDOWN(b)) = PGDIR_IDX(b) /\ PT_IDX(ROUNDDOWN(b)) = PT_IDX(b)
  BY AddressPage
<1>2. QED
  BY <1>1 DEF TranslatesTo, Present, DirEntry, TableEntry

(* What identity_map is asked for is among the pages that are mapped, but  *)
(* for the page an unaligned region ends in.                               *)
LEMMA RegionByte ==
  ASSUME NEW r, IsRegion(r), NEW b \in r.addr .. (r.addr + r.size - 1), ~LastPageMayLack(r, b)
  PROVE  b \in Nat /\ ROUNDDOWN(b) \in PagesOf(r)
<1>1. r.addr \in Nat /\ r.size \in Nat \ {0}
  BY DEF IsRegion
<1>2. PICK z \in Nat : z = r.addr + r.size - 1
  BY <1>1
<1>3. b \in Nat /\ r.addr <= b /\ b <= z
  BY <1>1, <1>2
<1>4. PICK p \in Nat, q \in Nat, l \in Nat : p = PageOf(r.addr) /\ q = PageOf(b) /\ l = PageOf(z)
  BY <1>1, <1>2, <1>3, AddressPage
<1>5. PICK n \in Nat \ {0} : n = PageCount(r)
  BY RegionPages
<1>6. PICK P \in Nat, Q \in Nat, L \in Nat, N \in Nat :
        P = p * PAGE_SIZE /\ Q = q * PAGE_SIZE /\ L = l * PAGE_SIZE /\ N = n * PAGE_SIZE
  BY Sizes
<1>7. /\ ROUNDDOWN(r.addr) = P /\ P <= r.addr /\ r.addr < P + PAGE_SIZE
      /\ ROUNDDOWN(b) = Q /\ Q <= b /\ b < Q + PAGE_SIZE
      /\ L <= z /\ z < L + PAGE_SIZE
  BY <1>1, <1>3, <1>4, <1>6, AddressPage
<1>8. r.size <= N
  <2>1. PICK w \in Nat : w = r.size + PAGE_SIZE - 1
    BY <1>1, Sizes
  <2>2. ROUNDUP(r.size) = ROUNDDOWN(w) /\ ROUNDUP(r.size) = N
    BY <1>5, <1>6, <2>1, RegionPages DEF ROUNDUP
  <2>3. w < ROUNDDOWN(w) + PAGE_SIZE
    BY AddressPage
  <2>4. QED
    BY <1>1, <2>1, <2>2, <2>3, Sizes
<1>9. (p + n) * PAGE_SIZE = P + N /\ (p + n + 1) * PAGE_SIZE = P + N + PAGE_SIZE
  <2>1. (p + n) * PAGE_SIZE = P + N
    BY <1>6, Sizes, MulMono
  <2>2. ((p + n) + 1) * PAGE_SIZE = (p + n) * PAGE_SIZE + 1 * PAGE_SIZE /\ 1 * PAGE_SIZE = PAGE_SIZE
    BY Sizes, MulMono
  <2>3. QED
    BY <2>1, <2>2
<1>10. p <= q
  <2>1. q < p => Q + PAGE_SIZE <= P
    BY <1>6, Sizes, MulMono
  <2>2. QED
    BY <1>1, <1>3, <1>7, <2>1, Sizes
<1>11. q < p + n
  <2>1. CASE r.addr % PAGE_SIZE = 0
    <3>1. P = r.addr
      BY <1>1, <1>7, <2>1 DEF ROUNDDOWN
    <3>2. p + n <= q => P + N <= Q
      BY <1>6, <1>9, Sizes, MulMono
    <3>3. QED
      BY <1>1, <1>2, <1>3, <1>7, <1>8, <3>1, <3>2
  <2>2. CASE q = p
    BY <2>2
  <2>3. CASE q # l
    <3>1. l < q => L + PAGE_SIZE <= Q
      BY <1>6, Sizes, MulMono
    <3>2. q < l
      BY <1>3, <1>7, <2>3, <3>1, Sizes
    <3>3. p + n + 1 <= l => P + N + PAGE_SIZE <= L
      BY <1>6, <1>9, Sizes, MulMono
    <3>4. QED
      BY <1>1, <1>2, <1>7, <1>8, <3>2, <3>3, Sizes
  <2>4. QED
    BY <1>2, <1>4, <2>1, <2>2, <2>3 DEF LastPageMayLack
<1>12. PICK k \in 0 .. (n - 1) : q = p + k
  <2>1. q - p \in 0 .. (n - 1) /\ q = p + (q - p)
    BY <1>10, <1>11
  <2>2. QED
    BY <2>1
<1>13. Q = P + k * PAGE_SIZE
  BY <1>6, <1>12, Sizes, MulMono
<1>14. QED
  BY <1>3, <1>5, <1>7, <1>12, <1>13, RegionPages

LEMMA RegionsAreMapped ==
  ASSUME AllocInv, MapInv
  PROVE  RegionsStayMapped
<1>1. SUFFICES ASSUME job = NoJob, ~wild, NEW r \in mapped,
                      NEW b \in r.addr .. (r.addr + r.size - 1), ~LastPageMayLack(r, b)
               PROVE  TranslatesTo(b, PageOf(b))
  BY DEF RegionsStayMapped
<1>2. IsRegion(r)
  BY DEF AllocInv, JobInv
<1>3. b \in Nat /\ ROUNDDOWN(b) \in PagesOf(r)
  BY <1>1, <1>2, RegionByte
<1>4. TranslatesTo(ROUNDDOWN(b), PageOf(ROUNDDOWN(b)))
  BY <1>1, <1>3, PagesAreMapped
<1>5. QED
  BY <1>3, <1>4, ByteTranslates
=============================================================================
