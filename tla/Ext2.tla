-------------------------------- MODULE Ext2 --------------------------------
(***************************************************************************)
(* ext2_init of ext2.c, which task 1 runs in init_late, on the driver of   *)
(* module Ata while other tasks read from the same drive.                  *)
(*                                                                         *)
(* The driver's buffers hold the LBAs of the sectors that were read; what  *)
(* is in them is looked up in the volume.  Of a block only what ext2_init  *)
(* may take it for is kept: group descriptors by their index, inodes and   *)
(* directory entries by their offset; anything else is zeros.  ata_read    *)
(* always returns 0, so the returns for ret < 0 are never taken.           *)
(***************************************************************************)
EXTENDS Ata, FiniteSets

CONSTANTS
  Volumes,     \* what may be on the disk
  OtherReads,  \* the reads of the other tasks, and of task 1 afterwards
  NDIRECT      \* length of direct_ptr

PAGE_SIZE == 4096
Root == 2  \* the number of the root directory's inode

VARIABLES
  vol,      \* the volume
  pages,    \* how many pages kalloc has left
  epc,      \* where ext2_init is, or why it has stopped the machine
  root,     \* root_inode
  i, head,  \* the loop variables: the block, and the offset of the entry
  listed    \* what was printed

walkVars == <<vol, pages, root, i, head, listed>>
extVars == <<atavars, epc, walkVars>>

ZeroInode == [i_blocks |-> 0, ptr |-> [k \in 1 .. (NDIRECT + 3) |-> 0]]
ZeroEntry == [inode |-> 0, rec_len |-> 0, name_len |-> 0, name |-> "empty"]

Panics == {"invalid_signature", "BUG_ON_groups", "BUG_ON_block_size", "pagefault"}
Stopped == epc \in Panics

-----------------------------------------------------------------------------
ext2_block_size(fs) == 1024 * 2 ^ fs.log
SectorsPerBlock(fs) == ext2_block_size(fs) \div 512

(* The block in the buffer of task 1's last read, and what it has at x if  *)
(* it is taken for what.                                                   *)
BlockRead == req[1].buf[1] \div SectorsPerBlock(vol)
Field(what, x, zero) ==
  IF BlockRead \in DOMAIN vol.blocks /\ x \in DOMAIN vol.blocks[BlockRead][what]
    THEN vol.blocks[BlockRead][what][x] ELSE zero

Goto(label) == epc' = label /\ UNCHANGED <<atavars, walkVars>>

(* ext2_read_block into a page: memset comes first, and faults on NULL. *)
BlockRequest(fs, block) ==
  [lba |-> SectorsPerBlock(fs) * block, seccount |-> SectorsPerBlock(fs)]
ext2_read_block(block, page, label) ==
  IF page
    THEN /\ ata_read(1, BlockRequest(vol, block))
         /\ epc' = label
    ELSE epc' = "pagefault" /\ UNCHANGED atavars

(* ext2_init can go on: its last read has returned. *)
At(label) == epc = label /\ state[1] = TASK_RUNNING

SuperblockRequest == [lba |-> 2, seccount |-> 2]
ReadSuperblock ==
  /\ At("superblock")
  /\ ata_read(1, SuperblockRequest)
  /\ epc' = "check"
  /\ UNCHANGED walkVars

(* The superblock is checked, bgd and tmp are allocated, and the group     *)
(* descriptors are read from block 1.                                      *)
CheckSuperblock ==
  /\ At("check")
  /\ CASE ~vol.signature -> Goto("invalid_signature")
       [] vol.signature /\ vol.total_blocks \div vol.blocks_per_group > PAGE_SIZE \div 32 ->
            Goto("BUG_ON_groups")
       [] vol.signature /\ vol.total_blocks \div vol.blocks_per_group <= PAGE_SIZE \div 32
            /\ ext2_block_size(vol) > PAGE_SIZE -> Goto("BUG_ON_block_size")
       [] OTHER -> /\ ext2_read_block(1, pages >= 1, "descriptors")
                   /\ UNCHANGED walkVars

Group(fs, inode) == (inode - 1) \div fs.inodes_per_group
InodeSize(fs) == IF fs.rev >= 1 THEN fs.inode_size ELSE 128
InodeOffset(fs, inode) == ((inode - 1) % fs.inodes_per_group) * InodeSize(fs)

(* Mutant: the index is not made to start at 0. *)
InodePosFromOne(fs, inode) == (InodeOffset(fs, inode) + InodeSize(fs)) % ext2_block_size(fs)

InodePos(fs, inode) == InodeOffset(fs, inode) % ext2_block_size(fs)

(* ext2_read_inode, up to the read and behind it. *)
ReadRootInode ==
  /\ At("descriptors")
  /\ ext2_read_block(Field("table", Group(vol, Root), 0)
                       + InodeOffset(vol, Root) \div ext2_block_size(vol),
                     pages >= 2, "inode")
  /\ UNCHANGED walkVars

GetRootInode ==
  /\ At("inode")
  /\ root' = Field("inodes", InodePos(vol, Root), ZeroInode)
  /\ epc' = "blocks"
  /\ UNCHANGED <<atavars, vol, pages, i, head, listed>>

(* i_blocks counts units of 512 bytes. *)
max_blocks(fs, inode) == inode.i_blocks \div (2 * 2 ^ fs.log)

(* Behind direct_ptr lie the three indirect pointers. *)
NextBlock ==
  /\ At("blocks")
  /\ IF i < max_blocks(vol, root)
       THEN /\ ext2_read_block(root.ptr[i + 1], TRUE, "entries")
            /\ head' = 0
            /\ UNCHANGED <<vol, pages, root, i, listed>>
       ELSE Goto("done")

(* The name is printed up to the first zero byte.  One that fills its      *)
(* record is followed by the next entry.                                   *)
Printed(e) == [inode |-> e.inode,
               name |-> IF e.rec_len > 8 + e.name_len THEN e.name ELSE "run_on"]

(* Mutant: the entry behind the end of the block is taken for one. *)
InBlockOver(h) == h <= ext2_block_size(vol)

InBlock(h) == h < ext2_block_size(vol)

(* With a rec_len of 0 the loop prints the same entry for ever. *)
NextEntry ==
  /\ At("entries")
  /\ LET e == Field("entries", head, ZeroEntry)
     IN  IF InBlock(head)
           THEN /\ listed' = Append(listed, Printed(e))
                /\ head' = head + e.rec_len
                /\ epc' = IF e.rec_len = 0 THEN "for_ever" ELSE "entries"
                /\ UNCHANGED <<atavars, vol, pages, root, i>>
           ELSE /\ i' = i + 1
                /\ epc' = "blocks"
                /\ UNCHANGED <<atavars, vol, pages, root, head, listed>>

ext2_init ==
  \/ ReadSuperblock \/ CheckSuperblock \/ ReadRootInode \/ GetRootInode
  \/ NextBlock \/ NextEntry

-----------------------------------------------------------------------------
Ext2Init ==
  /\ AtaInit
  /\ vol \in Volumes
  /\ pages \in 0 .. 2
  /\ epc = "superblock"
  /\ root = ZeroInode
  /\ i = 0 /\ head = 0 /\ listed = <<>>

OtherRead ==
  /\ \E t \in Tasks, r \in OtherReads : (t # 1 \/ epc = "done") /\ ata_read(t, r)
  /\ UNCHANGED <<epc, walkVars>>

Interrupt == ide_irq1 /\ UNCHANGED <<epc, walkVars>>
Transfer == DevSectorReady /\ UNCHANGED <<epc, walkVars>>

Running(A) == ~Stopped /\ panic = NoPanic /\ A

Ext2Next ==
  \/ Running(ext2_init \/ OtherRead \/ Interrupt \/ Transfer)
  \/ Stopped /\ UNCHANGED extVars

(* Task 1 is scheduled when it can run; drive and interrupts as in Ata. *)
Ext2Spec ==
  /\ Ext2Init /\ [][Ext2Next]_extVars
  /\ WF_extVars(Running(ext2_init))
  /\ WF_extVars(Running(Interrupt))
  /\ WF_extVars(Running(Transfer))

-----------------------------------------------------------------------------
(* A volume as mke2fs makes it, and as this code supports it: blocks of    *)
(* 2 or 4 KiB, and a root directory without indirect blocks or attribute   *)
(* block whose names are padded.                                           *)
SupportedVolume(v) ==
  /\ v.log \in 1 .. 2
  /\ Len(v.root) <= NDIRECT /\ v.i_blocks = Len(v.root) * SectorsPerBlock(v)
  /\ \A k \in 1 .. Len(v.root) :
       LET es == v.blocks[v.root[k]].entries
       IN  \A o \in DOMAIN es : es[o].rec_len > 8 + es[o].name_len
Supported == SupportedVolume(vol)

(* The ext2 format, which a supported volume has.  Block 1 begins with the *)
(* descriptor of group 0; the root's inode is the second of that group's   *)
(* table and has the directory's blocks as its first pointers.             *)
RootInodeOnDisk(v) ==
  LET table == v.blocks[1].table[0]
      block == table + InodeSize(v) \div ext2_block_size(v)
      pos   == InodeSize(v) % ext2_block_size(v)
      inode == v.blocks[block].inodes[pos]
  IN  /\ v.inodes_per_group > 1 /\ v.root \in Seq(Nat)
      /\ 1 \in DOMAIN v.blocks /\ 0 \in DOMAIN v.blocks[1].table /\ table \in Nat
      /\ block \in DOMAIN v.blocks /\ pos \in DOMAIN v.blocks[block].inodes
      /\ inode.i_blocks = v.i_blocks
      /\ \A k \in 1 .. Len(v.root) : inode.ptr[k] = v.root[k]

(* The entries of a directory block fill it without gap or overlap. *)
DirectoryBlock(es, size) ==
  /\ 0 \in DOMAIN es /\ DOMAIN es \subseteq 0 .. (size - 1)
  /\ \A o \in DOMAIN es :
       /\ es[o].rec_len \in Nat \ {0}
       /\ o + es[o].rec_len \in DOMAIN es \cup {size}
       /\ \A p \in DOMAIN es : p <= o \/ o + es[o].rec_len <= p

DirectoryOnDisk(v) ==
  \A k \in 1 .. Len(v.root) :
    /\ v.root[k] \in DOMAIN v.blocks
    /\ DirectoryBlock(v.blocks[v.root[k]].entries, ext2_block_size(v))

(* Whatever is on the volume, the reads of the walk lie on the drive, and  *)
(* a pointer is kept of an inode for every block its i_blocks counts.      *)
ReadsFit(v) ==
  /\ BlockRequest(v, 1) \in Requests
  /\ BlockRequest(v, InodeOffset(v, Root) \div ext2_block_size(v)) \in Requests
  /\ \A b \in DOMAIN v.blocks :
       /\ \A g \in DOMAIN v.blocks[b].table :
            BlockRequest(v, v.blocks[b].table[g] + InodeOffset(v, Root) \div ext2_block_size(v))
              \in Requests
       /\ \A x \in DOMAIN v.blocks[b].inodes :
            LET inode == v.blocks[b].inodes[x]
            IN  /\ inode.i_blocks \in Nat
                /\ \A k \in 1 .. max_blocks(v, inode) :
                     BlockRequest(v, inode.ptr[k]) \in Requests

(* With a log of 22 or more 1024 << log is no uint32_t. *)
ASSUME Ext2Assumption ==
  /\ OtherReads \subseteq Requests /\ SuperblockRequest \in Requests
  /\ NDIRECT \in Nat \ {0}
  /\ \A v \in Volumes :
       /\ v.log \in 0 .. 21 /\ v.total_blocks \in Nat /\ v.blocks_per_group \in Nat \ {0}
       /\ v.inodes_per_group \in Nat \ {0} /\ InodeSize(v) \in Nat
       /\ ext2_block_size(v) <= PAGE_SIZE => ReadsFit(v)
       /\ SupportedVolume(v) => RootInodeOnDisk(v) /\ DirectoryOnDisk(v)

(* A place in the root directory: the number of a block of it, and an      *)
(* offset into that block.  They are ordered as on the disk.               *)
Places(v) ==
  UNION {{k} \X DOMAIN v.blocks[v.root[k]].entries : k \in 1 .. Len(v.root)}
PlacesBefore(v, q) ==
  {p \in Places(v) : p[1] < q[1] \/ (p[1] = q[1] /\ p[2] < q[2])}
NthPlace(v, n) == CHOOSE p \in Places(v) : Cardinality(PlacesBefore(v, p)) = n - 1
EntryAt(v, p) ==
  LET e == v.blocks[v.root[p[1]]].entries[p[2]]
  IN  [inode |-> e.inode, name |-> e.name]

(* The entries that lie before q, in the order of their places. *)
EntriesBefore(v, q) ==
  [n \in 1 .. Cardinality(PlacesBefore(v, q)) |-> EntryAt(v, NthPlace(v, n))]

(* How far the walk has come. *)
Reached == <<i + 1, IF epc = "entries" THEN head ELSE 0>>

(* On a supported volume the walk prints the root directory's entries,     *)
(* each once and in their order on the disk, and all of them by its end,   *)
(* however the reads of other tasks are mixed with its own.                *)
ListsRootDirectory ==
  Supported =>
    /\ listed = EntriesBefore(vol, Reached)
    /\ epc = "done" => i = Len(vol.root)

(* And it comes to an end: init_late gets on to user space unless the      *)
(* machine was stopped, or kalloc had no page.                             *)
WalkEnds == Supported => <>(epc = "done" \/ Stopped)

(* Every read returns: a task blocked in ata_read is woken, unless the     *)
(* machine stops.                                                          *)
ReadReturns ==
  \A t \in Tasks : state[t] = TASK_DISK_READ ~> (state[t] = TASK_RUNNING \/ Stopped)

(* "Superblock is always located at 1024 byte offset (sector LBA = 2)":    *)
(* what is read as group descriptors is therefore not sectors 2 and 3.     *)
DescriptorsBehindSuperblock ==
  epc = "descriptors" => req[1].lba \notin {2, 3}
=============================================================================
