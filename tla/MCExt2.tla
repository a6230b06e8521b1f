------------------------------- MODULE MCExt2 -------------------------------
(***************************************************************************)
(* Volumes for Ext2, with two direct pointers instead of twelve: root      *)
(* directories of one and two blocks, the root inode in the first and in   *)
(* the second block of the table, and volumes that end in a panic or in    *)
(* the loop over an entry without length.  Three tasks share the drive,    *)
(* and one of the other reads is at the end of the LBA28 range.            *)
(***************************************************************************)
EXTENDS Ext2, TLC

None == <<>>
Table(b)   == [table |-> (0 :> b), inodes |-> None, entries |-> None]
Inodes(f)  == [table |-> None, inodes |-> f, entries |-> None]
Entries(f) == [table |-> None, inodes |-> None, entries |-> f]

Entry(n, rec, len, s) == [inode |-> n, rec_len |-> rec, name_len |-> len, name |-> s]
First(bs)  == Entries(0 :> Entry(2, 12, 1, ".") @@ 12 :> Entry(2, bs - 12, 2, ".."))
Second(bs) == Entries(0 :> Entry(11, bs, 10, "lost+found"))
RunOn(bs)  == Entries(0 :> Entry(12, 12, 4, "name") @@ 12 :> Entry(13, bs - 12, 2, "b"))

(* Group descriptors in block 1, the inode table from block 5 on, with the *)
(* root inode in block b at pos, and the directory in blocks 10 and 11.    *)
Volume(log, rev, size, b, pos, blks, ptr, rt, dir) ==
  [log |-> log, signature |-> TRUE, total_blocks |-> 64, blocks_per_group |-> 64,
   inodes_per_group |-> 16, rev |-> rev, inode_size |-> size, i_blocks |-> blks, root |-> rt,
   blocks |-> 1 :> Table(5) @@ b :> Inodes(pos :> [i_blocks |-> blks, ptr |-> ptr])
              @@ 10 :> dir @@ 11 :> Second(1024 * 2 ^ log)]

OneBlock  == Volume(2, 0, 0, 5, 128, 8, <<10, 0, 0, 0, 0>>, <<10>>, First(4096))
TwoBlocks == Volume(1, 1, 256, 5, 256, 8, <<10, 11, 0, 0, 0>>, <<10, 11>>, First(2048))
BigInode  == Volume(1, 1, 2048, 6, 0, 4, <<11, 0, 0, 0, 0>>, <<11>>, First(2048))
(* Block 20 is the indirect block: one pointer, and zeros behind it. *)
Indirect  == Volume(1, 1, 128, 5, 128, 16, <<10, 11, 20, 0, 0>>, <<10, 11, 12>>, First(2048))
Attribute == Volume(1, 1, 128, 5, 128, 8, <<11, 0, 0, 0, 0>>, <<11>>, First(2048))
FullName  == Volume(1, 1, 128, 5, 128, 4, <<10, 0, 0, 0, 0>>, <<10>>, RunOn(2048))

MCVolumes ==
  {OneBlock, TwoBlocks, BigInode, Indirect, Attribute, FullName,
   [OneBlock EXCEPT !.signature = FALSE], [OneBlock EXCEPT !.blocks_per_group = 1,
   !.total_blocks = 129], [OneBlock EXCEPT !.log = 3]}

(* With blocks of 1 KiB block 1 is the superblock; as a descriptor it has  *)
(* the number of reserved blocks, say 3, where inode_table is.             *)
SmallVolumes ==
  {[Volume(0, 1, 128, 5, 128, 2, <<10, 0, 0, 0, 0>>, <<10>>, First(1024)) EXCEPT
      !.blocks = 1 :> Table(3) @@ 2 :> Table(5) @@ @]}

MCOtherReads == {[lba |-> LbaLimit - 1, seccount |-> 1], [lba |-> 40, seccount |-> 2]}

MCRequests ==
  {[lba |-> n * b, seccount |-> n] : n \in {2, 4, 8}, b \in 0 .. 20} \cup MCOtherReads
=============================================================================
